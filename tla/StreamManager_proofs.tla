------------------------ MODULE StreamManager_proofs ------------------------
(***************************************************************************)
(* Proofs about StreamManager, for any number of callers, IDs, listeners,  *)
(* attach calls and connections: type correctness, the invariants          *)
(* FinishedIsGone, DetachedOnce, OpenIsRead, DropKeepsEntry and            *)
(* ReattachMissesNone, the action property FinishRemovesOwn, and that the  *)
(* manager implements IDRegistry.                                          *)
(*                                                                         *)
(* IInv is the inductive invariant. What it adds to the properties is      *)
(* Wiring: which pointers are set in which control state. It is what makes *)
(* the two critical sections that name a listener by its spec.ID (roll-    *)
(* back and finishListener) and the unlocked reads of l.reply meaningful.  *)
(* Races, at the end, adds which attach belongs to which connection.       *)
(***************************************************************************)
EXTENDS StreamManager, TLAPS

\* Every pointer that a step follows is set: an entry is filed under its own ID,
\* a process that works on a listener or an attempt has one, an attempt knows
\* its listener, and a consume goroutine only exists once l.reply is stored.
Wiring ==
    /\ \A id \in IDs : entries[id] # Nil => lsn[entries[id]].id = id
    /\ \A p \in Procs :
          /\ proc[p].at \in {"attach", "listen", "store", "rollback", "release"} =>
                /\ proc[p].lsn # Nil
                /\ lsn[proc[p].lsn].id # Nil
          /\ proc[p].at \in {"listen", "store"} =>
                /\ proc[p].attempt # Nil
                /\ stream[proc[p].attempt].st # "none"
                /\ stream[proc[p].attempt].lsn = proc[p].lsn
          /\ \A l \in proc[p].todo : lsn[l].id # Nil
    /\ \A t \in Attempts :
          /\ stream[t].st # "none" => /\ stream[t].lsn # Nil
                                     /\ lsn[stream[t].lsn].id # Nil
          /\ cons[t].pc # "none" => /\ stream[t].st # "none"
                                   /\ lsn[stream[t].lsn].reply # Nil

\* The inductive invariant.
IInv == TypeOK /\ Wiring /\ FinishedIsGone /\ DetachedOnce

-----------------------------------------------------------------------------
\* NewManager establishes the invariant.
LEMMA InitInv == Init => IInv
<1> SUFFICES ASSUME Init PROVE IInv
  OBVIOUS
<1> USE DEF Init, Nil
<1>1. 1 \in Conns BY BoundsAssumption DEF Conns
<1>2. lsn \in [Listeners -> ListenerRec] BY DEF ListenerRec
<1>3. stream \in [Attempts -> StreamRec] BY DEF StreamRec
<1>4. cons \in [Attempts -> ConsumerRec] BY DEF ConsumerRec
<1>5. proc \in [Procs -> ProcRec] BY DEF ProcRec, Idle
<1>6. TypeOK BY <1>1, <1>2, <1>3, <1>4, <1>5 DEF TypeOK
<1>7. Wiring BY DEF Wiring, Idle
<1>8. FinishedIsGone BY DEF FinishedIsGone
<1>9. DetachedOnce BY DEF DetachedOnce, Detaching, Registered, Idle, Listeners
<1>10. QED BY <1>6, <1>7, <1>8, <1>9 DEF IInv

\* Every step keeps every variable within its type, and no consume goroutine
\* ranges over a nil reply.
LEMMA TypeStep == IInv /\ [Next]_vars => TypeOK'
<1> SUFFICES ASSUME IInv, [Next]_vars PROVE TypeOK'
  OBVIOUS
<1> USE DEF Procs
<1>p. proc \in [Procs -> ProcRec] /\ mconn \in Conns BY DEF IInv, TypeOK
<1>l. lsn \in [Listeners -> ListenerRec] BY DEF IInv, TypeOK
<1>s. stream \in [Attempts -> StreamRec] BY DEF IInv, TypeOK
<1>c. cons \in [Attempts -> ConsumerRec] BY DEF IInv, TypeOK
<1>e. entries \in [IDs -> Listeners \cup {Nil}] BY DEF IInv, TypeOK
<1>1. ASSUME NEW p \in Callers, NEW id \in IDs, Register(p, id) PROVE TypeOK'
  <2>1. PICK l \in Listeners :
           /\ lsn' = [lsn EXCEPT ![l].id = id]
           /\ entries' = [entries EXCEPT ![id] = l]
           /\ proc' = [proc EXCEPT ![p] = [Idle EXCEPT !.at = "attach", !.lsn = l, !.conn = mconn]]
    BY <1>1 DEF Register, Unclaimed
  <2>2. lsn' \in [Listeners -> ListenerRec] BY <1>l, <2>1 DEF ListenerRec
  <2>3. entries' \in [IDs -> Listeners \cup {Nil}] BY <1>e, <2>1
  <2>4. proc' \in [Procs -> ProcRec] BY <1>p, <2>1 DEF ProcRec, Idle
  <2>5. QED BY <1>1, <2>2, <2>3, <2>4 DEF IInv, TypeOK, Register, Unclaimed
<1>2. ASSUME NEW p \in Procs, AttachBegin(p) PROVE TypeOK'
  <2>1. PICK t \in Attempts :
           /\ stream' = [stream EXCEPT ![t] = [st |-> "listening", conn |-> proc[p].conn,
                                              lsn |-> proc[p].lsn, cancelled |-> FALSE]]
           /\ lsn' = [lsn EXCEPT ![proc[p].lsn].cancel = t]
           /\ proc' = [proc EXCEPT ![p].at = "listen", ![p].attempt = t]
    BY <1>2 DEF AttachBegin
  <2>2. proc[p].conn \in Conns \cup {Nil} /\ proc[p].lsn \in Listeners \cup {Nil}
    BY <1>p DEF ProcRec
  <2>3. lsn' \in [Listeners -> ListenerRec] BY <1>l, <2>1, <2>2 DEF ListenerRec
  <2>4. stream' \in [Attempts -> StreamRec] BY <1>s, <2>1, <2>2 DEF StreamRec
  <2>5. proc' \in [Procs -> ProcRec] BY <1>p, <2>1 DEF ProcRec
  <2>6. QED BY <1>2, <2>3, <2>4, <2>5 DEF IInv, TypeOK, AttachBegin
<1>3. ASSUME NEW p \in Procs, ListenOk(p) PROVE TypeOK'
  <2>1. stream' \in [Attempts -> StreamRec] BY <1>3, <1>s DEF ListenOk, StreamRec
  <2>2. proc' \in [Procs -> ProcRec] BY <1>3, <1>p DEF ListenOk, ProcRec
  <2>3. QED BY <1>3, <2>1, <2>2 DEF IInv, TypeOK, ListenOk
<1>4. ASSUME NEW p \in Procs, ListenErr(p) PROVE TypeOK'
  <2>1. stream' \in [Attempts -> StreamRec] BY ZenonT(60), <1>4, <1>s DEF ListenErr, StreamRec
  <2>2. proc' \in [Procs -> ProcRec] BY <1>4, <1>p DEF ListenErr, ProcRec
  <2>3. QED BY <1>4, <2>1, <2>2 DEF IInv, TypeOK, ListenErr
<1>5. ASSUME NEW p \in Procs, AttachStore(p) PROVE TypeOK'
  <2>1. proc[p].attempt \in Attempts \cup {Nil} BY <1>p DEF ProcRec
  <2>2. lsn' \in [Listeners -> ListenerRec] BY <1>5, <1>l, <2>1 DEF AttachStore, Stored, Started, ListenerRec
  <2>3. cons' \in [Attempts -> ConsumerRec] BY <1>5, <1>c DEF AttachStore, Stored, Started, ConsumerRec
  <2>4. proc' \in [Procs -> ProcRec] BY ZenonT(60), <1>5, <1>p DEF AttachStore, Stored, Started, ProcRec, Idle
  <2>5. ASSUME NEW t \in Attempts, cons'[t].pc = "range" PROVE cons'[t].reply # Nil
    BY <1>5, <1>c, <2>5 DEF AttachStore, Stored, Started, ConsumerRec, IInv, TypeOK
  <2>6. QED BY <1>5, <2>2, <2>3, <2>4, <2>5 DEF IInv, TypeOK, AttachStore, Stored, Started
<1>6. ASSUME NEW p \in Callers, Rollback(p) PROVE TypeOK'
  <2>1. entries' \in [IDs -> Listeners \cup {Nil}] BY <1>6, <1>e DEF Rollback, Without
  <2>2. proc' \in [Procs -> ProcRec] BY <1>6, <1>p DEF Rollback, Without, Idle, ProcRec
  <2>3. QED BY <1>6, <2>1, <2>2 DEF IInv, TypeOK, Rollback, Without
<1>7. ASSUME NEW p \in Callers, NEW id \in IDs, Unregister(p, id) PROVE TypeOK'
  <2>1. entries' \in [IDs -> Listeners \cup {Nil}] BY <1>7, <1>e DEF Unregister, Without
  <2>2. entries[id] \in Listeners BY <1>7, <1>e DEF Unregister, Without
  <2>3. proc' \in [Procs -> ProcRec] BY <1>7, <1>p, <2>2 DEF Unregister, Without, Idle, ProcRec
  <2>4. QED BY <1>7, <2>1, <2>2, <2>3 DEF IInv, TypeOK, Unregister, Without
<1>8. ASSUME NEW p \in Callers, CloseCancel(p) PROVE TypeOK'
  <2>1. proc' \in [Procs -> ProcRec] BY <1>8, <1>p DEF CloseCancel, ProcRec
  <2>2. QED BY <1>8, <2>1 DEF IInv, TypeOK, CloseCancel
<1>9. ASSUME NEW p \in Callers, CloseSweep(p) PROVE TypeOK'
  <2>1. Registered \in SUBSET Listeners BY DEF Registered
  <2>2. proc' = [proc EXCEPT ![p].at = "detach", ![p].todo = Registered]
    BY <1>9 DEF CloseSweep
  <2> HIDE DEF Procs
  <2>3. proc' \in [Procs -> ProcRec] BY ZenonT(60), <1>p, <2>1, <2>2 DEF ProcRec
  <2>4. entries' \in [IDs -> Listeners \cup {Nil}] BY <1>9 DEF CloseSweep
  <2>5. QED BY <1>9, <2>3, <2>4 DEF IInv, TypeOK, CloseSweep
<1>10. ASSUME NEW p \in Callers, Detach(p) PROVE TypeOK'
  <2>1. PICK l \in proc[p].todo :
           proc' = [proc EXCEPT ![p].at = "release", ![p].lsn = l, ![p].todo = @ \ {l}]
    BY <1>10 DEF Detach, Interrupted
  <2>2. proc' \in [Procs -> ProcRec] BY <1>p, <2>1 DEF ProcRec
  <2>3. stream' = stream \/ \E r : stream' = [stream EXCEPT ![r].st = "done"]
    BY <1>10 DEF Detach, Interrupted
  <2>4. stream' \in [Attempts -> StreamRec] BY <1>s, <2>3 DEF StreamRec
  <2>5. QED BY <1>10, <2>2, <2>4 DEF IInv, TypeOK, Detach, Interrupted
<1>11. ASSUME NEW p \in Callers, Release(p) PROVE TypeOK'
  <2>1. stream' \in [Attempts -> StreamRec] BY ZenonT(60), <1>11, <1>s DEF Release, Cancelled, StreamRec
  <2>2. proc' = [proc EXCEPT ![p].at = "detach", ![p].lsn = Nil] BY <1>11 DEF Release
  <2>3. proc' \in [Procs -> ProcRec]
    <3>1. [proc[p] EXCEPT !.at = "detach", !.lsn = Nil] \in ProcRec BY ZenonT(60), <1>p DEF ProcRec
    <3>2. QED BY <1>p, <2>2, <3>1
  <2>4. QED BY <1>11, <2>1, <2>3 DEF IInv, TypeOK, Release
<1>12. ASSUME NEW p \in Callers, DetachReturn(p) PROVE TypeOK'
  <2>1. proc' \in [Procs -> ProcRec] BY <1>12, <1>p DEF DetachReturn, Idle, ProcRec
  <2>2. QED BY <1>12, <2>1 DEF IInv, TypeOK, DetachReturn
<1>13. ASSUME Reattach PROVE TypeOK'
  <2>1. Registered \in SUBSET Listeners BY DEF Registered
  <2>2. mconn + 1 \in Conns BY <1>13, <1>p, BoundsAssumption DEF Reattach, Snapshot, Conns
  <2>3. proc' \in [Procs -> ProcRec] BY <1>13, <1>p, <2>1, <2>2 DEF Reattach, Snapshot, Idle, ProcRec
  <2>4. QED BY <1>13, <2>2, <2>3 DEF IInv, TypeOK, Reattach, Snapshot
<1>14. ASSUME ReattachNext PROVE TypeOK'
  <2>1. proc' \in [Procs -> ProcRec] BY <1>14, <1>p DEF ReattachNext, ProcRec
  <2>2. QED BY <1>14, <2>1 DEF IInv, TypeOK, ReattachNext
<1>15. ASSUME ReattachReturn PROVE TypeOK'
  <2>1. proc' \in [Procs -> ProcRec] BY <1>15, <1>p DEF ReattachReturn, Idle, ProcRec
  <2>2. QED BY <1>15, <2>1 DEF IInv, TypeOK, ReattachReturn
<1>16. ASSUME NEW t \in Attempts, ConsumeStart(t) PROVE TypeOK'
  <2>1. stream[t].lsn \in Listeners /\ lsn[stream[t].lsn].reply # Nil
    BY <1>16, <1>s DEF ConsumeStart, IInv, Wiring, StreamRec
  <2>2. lsn[stream[t].lsn].reply \in Attempts BY <1>l, <2>1 DEF ListenerRec
  <2>3. cons' \in [Attempts -> ConsumerRec] BY ZenonT(60), <1>16, <1>c, <2>2 DEF ConsumeStart, ConsumerRec
  <2>4. \A u \in Attempts : cons'[u].pc = "range" => cons'[u].reply # Nil
    BY <1>16, <1>c, <2>1 DEF ConsumeStart, ConsumerRec, IInv, TypeOK
  <2>5. QED BY <1>16, <2>3, <2>4 DEF IInv, TypeOK, ConsumeStart
<1>17. ASSUME NEW t \in Attempts, ConsumeEnd(t) PROVE TypeOK'
  <2>1. cons' \in [Attempts -> ConsumerRec] BY ZenonT(60), <1>17, <1>c DEF ConsumeEnd, ConsumerRec
  <2>2. \A u \in Attempts : cons'[u].pc = "range" => cons'[u].reply # Nil
    BY SMTT(40), <1>17, <1>c DEF ConsumeEnd, ConsumerRec, IInv, TypeOK
  <2>3. QED BY <1>17, <2>1, <2>2 DEF IInv, TypeOK, ConsumeEnd
<1>18. ASSUME NEW t \in Attempts, ConsumeErr(t) PROVE TypeOK'
  <2> DEFINE e == stream[lsn[stream[t].lsn].reply].st = "failed"
  <2>1. cons' = [cons EXCEPT ![t].pc = "check", ![t].err = e] BY <1>18 DEF ConsumeErr
  <2>2. e \in BOOLEAN OBVIOUS
  <2> HIDE DEF e
  <2>3. cons' \in [Attempts -> ConsumerRec] BY <1>c, <2>1, <2>2 DEF ConsumerRec
  <2>4. \A u \in Attempts : cons'[u].pc = "range" => cons'[u].reply # Nil
    BY <1>c, <2>1 DEF ConsumerRec, IInv, TypeOK
  <2>5. QED BY <1>18, <2>3, <2>4 DEF IInv, TypeOK, ConsumeErr
<1>19. ASSUME NEW t \in Attempts, ConsumeCheck(t) PROVE TypeOK'
  <2> DEFINE pc == IF closed THEN "exit" ELSE Outcome(cons[t].err)
  <2>1. cons' = [cons EXCEPT ![t].pc = pc, ![t].err = FALSE] BY <1>19 DEF ConsumeCheck
  <2>2. pc \in {"exit", "onerr", "finish"} BY DEF Outcome
  <2> HIDE DEF pc
  <2>3. cons' \in [Attempts -> ConsumerRec] BY <1>c, <2>1, <2>2 DEF ConsumerRec
  <2>4. \A u \in Attempts : cons'[u].pc = "range" => cons'[u].reply # Nil
    BY <1>c, <2>1, <2>2 DEF ConsumerRec, IInv, TypeOK
  <2>5. QED BY <1>19, <2>3, <2>4 DEF IInv, TypeOK, ConsumeCheck, Outcome
<1>20. ASSUME NEW t \in Attempts, FinishDelete(t) PROVE TypeOK'
  <2>1. entries' \in [IDs -> Listeners \cup {Nil}] BY <1>20, <1>e DEF FinishDelete, Holds, Without
  <2>2. cons' \in [Attempts -> ConsumerRec] BY <1>20, <1>c DEF FinishDelete, Holds, Without, ConsumerRec
  <2>3. \A u \in Attempts : cons'[u].pc = "range" => cons'[u].reply # Nil
    BY <1>20, <1>c DEF FinishDelete, Holds, Without, ConsumerRec, IInv, TypeOK
  <2>4. QED BY <1>20, <2>1, <2>2, <2>3 DEF IInv, TypeOK, FinishDelete, Holds, Without
<1>21. ASSUME NEW t \in Attempts, FinishCancel(t) PROVE TypeOK'
  <2>1. stream' \in [Attempts -> StreamRec] BY ZenonT(60), <1>21, <1>s DEF FinishCancel, Cancelled, StreamRec
  <2>2. cons' \in [Attempts -> ConsumerRec] BY <1>21, <1>c DEF FinishCancel, ConsumerRec
  <2>3. \A u \in Attempts : cons'[u].pc = "range" => cons'[u].reply # Nil
    BY <1>21, <1>c DEF FinishCancel, ConsumerRec, IInv, TypeOK
  <2>4. QED BY <1>21, <2>1, <2>2, <2>3 DEF IInv, TypeOK, FinishCancel
<1>22. ASSUME NEW t \in Attempts, OnFinish(t) PROVE TypeOK'
  <2>1. cons' \in [Attempts -> ConsumerRec] BY <1>22, <1>c DEF OnFinish, ConsumerRec
  <2>2. \A u \in Attempts : cons'[u].pc = "range" => cons'[u].reply # Nil
    BY <1>22, <1>c DEF OnFinish, ConsumerRec, IInv, TypeOK
  <2>3. QED BY <1>22, <2>1, <2>2 DEF IInv, TypeOK, OnFinish
<1>23. ASSUME NEW t \in Attempts, StreamDone(t) PROVE TypeOK'
  <2>1. stream' \in [Attempts -> StreamRec] BY <1>23, <1>s DEF StreamDone, StreamRec
  <2>2. QED BY <1>23, <2>1 DEF IInv, TypeOK, StreamDone
<1>24. ASSUME NEW t \in Attempts, StreamTrap(t) PROVE TypeOK'
  <2>1. stream' \in [Attempts -> StreamRec] BY <1>24, <1>s DEF StreamTrap, StreamRec
  <2>2. QED BY <1>24, <2>1 DEF IInv, TypeOK, StreamTrap
<1>25. ASSUME NEW c \in Conns, ConnDrop(c) PROVE TypeOK'
  <2>1. stream' \in [Attempts -> StreamRec] BY <1>25, <1>s DEF ConnDrop, StreamRec
  <2>2. QED BY <1>25, <2>1 DEF IInv, TypeOK, ConnDrop
<1>26. CASE UNCHANGED vars
  BY SMTT(40), <1>26 DEF vars, IInv, TypeOK
<1>27. QED
  BY <1>1, <1>2, <1>3, <1>4, <1>5, <1>6, <1>7, <1>8, <1>9, <1>10, <1>11, <1>12, <1>13, <1>14, <1>15, <1>16, <1>17, <1>18, <1>19, <1>20, <1>21, <1>22, <1>23, <1>24, <1>25, <1>26
  DEF Next, CallerCall, CallerStep, Attach, SupervisorStep, ConsumerStep, Router

\* Every step keeps the pointers set that later steps follow.
LEMMA WiringStep == IInv /\ [Next]_vars => Wiring'
<1> SUFFICES ASSUME IInv, [Next]_vars PROVE Wiring'
  OBVIOUS
<1>n. Nil \notin Listeners /\ Nil \notin Attempts /\ Nil \notin IDs
  BY IDsAssumption DEF Listeners, Attempts, Nil
<1> USE <1>n DEF IInv, TypeOK, Wiring, ListenerRec, StreamRec, ConsumerRec, ProcRec, Procs
<1>1. ASSUME NEW p \in Callers, NEW id \in IDs, Register(p, id) PROVE Wiring'
  BY SMTT(40), <1>1 DEF Register, Unclaimed, Idle, NewListener, Allocated
<1>2. ASSUME NEW p \in Procs, AttachBegin(p) PROVE Wiring'
  BY SMTT(40), <1>2 DEF AttachBegin, NewAttempt
<1>3. ASSUME NEW p \in Procs, ListenOk(p) PROVE Wiring'
  BY <1>3 DEF ListenOk
<1>4. ASSUME NEW p \in Procs, ListenErr(p) PROVE Wiring'
  <2>1. \A t \in Attempts : /\ stream'[t].lsn = stream[t].lsn
                            /\ stream[t].st # "none" => stream'[t].st # "none"
    BY <1>4 DEF ListenErr
  <2>2. /\ \A q \in Procs : q # p => proc'[q] = proc[q]
        /\ proc'[p].at \in {"next", "rollback"}
        /\ proc'[p].lsn = proc[p].lsn /\ proc'[p].todo = proc[p].todo
    BY <1>4 DEF ListenErr
  <2>3. proc[p].at = "listen" /\ UNCHANGED <<entries, lsn, cons>> BY <1>4 DEF ListenErr
  <2>4. proc[p].lsn # Nil /\ lsn[proc[p].lsn].id # Nil /\ \A l \in proc[p].todo : lsn[l].id # Nil
    BY <2>3
  <2>5. ASSUME NEW q \in Procs \ {p}, proc[q].at \in {"listen", "store"}
        PROVE  /\ proc[q].attempt # Nil
               /\ stream'[proc[q].attempt].st # "none"
               /\ stream'[proc[q].attempt].lsn = proc[q].lsn
    <3>1. proc[q].attempt \in Attempts BY SMTT(40), <2>5
    <3>2. QED BY SMTT(40), <2>1, <2>5, <3>1
  <2>6. ASSUME NEW t \in Attempts
        PROVE  stream'[t].st # "none" => stream'[t].lsn # Nil /\ lsn[stream'[t].lsn].id # Nil
    BY SMTT(40), <1>4, <2>1, <2>4 DEF ListenErr
  <2>7. QED BY <2>1, <2>2, <2>3, <2>4, <2>5, <2>6
<1>5. ASSUME NEW p \in Procs, AttachStore(p) PROVE Wiring'
  BY <1>5 DEF AttachStore, Stored, Started, Idle
<1>6. ASSUME NEW p \in Callers, Rollback(p) PROVE Wiring'
  BY <1>6 DEF Rollback, Without, Idle
<1>7. ASSUME NEW p \in Callers, NEW id \in IDs, Unregister(p, id) PROVE Wiring'
  BY <1>7 DEF Unregister, Without, Idle
<1>8. ASSUME NEW p \in Callers, CloseCancel(p) PROVE Wiring'
  BY <1>8 DEF CloseCancel
<1>9. ASSUME NEW p \in Callers, CloseSweep(p) PROVE Wiring'
  <2>1. \A l \in Registered : lsn[l].id # Nil BY DEF Registered
  <2>2. /\ proc' = [proc EXCEPT ![p].at = "detach", ![p].todo = Registered]
        /\ entries' = [id \in IDs |-> Nil]
        /\ UNCHANGED <<lsn, stream, cons>>
    BY SMTT(40), <1>9 DEF CloseSweep
  <2>3. QED BY SMTT(40), <2>1, <2>2
<1>10. ASSUME NEW p \in Callers, Detach(p) PROVE Wiring'
  BY <1>10 DEF Detach, Interrupted
<1>11. ASSUME NEW p \in Callers, Release(p) PROVE Wiring'
  <2>1. \A u \in Attempts : stream'[u].st = stream[u].st /\ stream'[u].lsn = stream[u].lsn
    BY <1>11 DEF Release, Cancelled
  <2>2. \A q \in Procs : /\ proc'[q].todo = proc[q].todo
                         /\ proc'[q].at # "detach" => proc'[q] = proc[q]
    BY <1>11 DEF Release
  <2>3. /\ proc'[p].at = "detach" /\ UNCHANGED <<entries, lsn, cons>>
        /\ \A q \in Procs : q # p => proc'[q] = proc[q]
    BY <1>11 DEF Release
  <2>4. QED BY <2>1, <2>2, <2>3
<1>12. ASSUME NEW p \in Callers, DetachReturn(p) PROVE Wiring'
  BY <1>12 DEF DetachReturn, Idle
<1>13. ASSUME Reattach PROVE Wiring'
  BY <1>13 DEF Reattach, Snapshot, Idle, Registered
<1>14. ASSUME ReattachNext PROVE Wiring'
  BY <1>14 DEF ReattachNext
<1>15. ASSUME ReattachReturn PROVE Wiring'
  BY <1>15 DEF ReattachReturn, Idle
<1>16. ASSUME NEW t \in Attempts, ConsumeStart(t) PROVE Wiring'
  BY <1>16 DEF ConsumeStart
<1>17. ASSUME NEW t \in Attempts, ConsumeEnd(t) PROVE Wiring'
  BY <1>17 DEF ConsumeEnd
<1>18. ASSUME NEW t \in Attempts, ConsumeErr(t) PROVE Wiring'
  BY <1>18 DEF ConsumeErr
<1>19. ASSUME NEW t \in Attempts, ConsumeCheck(t) PROVE Wiring'
  BY <1>19 DEF ConsumeCheck, Outcome
<1>20. ASSUME NEW t \in Attempts, FinishDelete(t) PROVE Wiring'
  BY <1>20 DEF FinishDelete, Holds, Without
<1>21. ASSUME NEW t \in Attempts, FinishCancel(t) PROVE Wiring'
  <2>1. \A u \in Attempts : stream'[u].st = stream[u].st /\ stream'[u].lsn = stream[u].lsn
    BY <1>21 DEF FinishCancel, Cancelled
  <2>2. \A u \in Attempts : cons[u].pc = "none" => cons'[u].pc = "none"
    BY <1>21 DEF FinishCancel
  <2>3. UNCHANGED <<entries, lsn, proc>> BY <1>21 DEF FinishCancel
  <2>4. QED BY <2>1, <2>2, <2>3
<1>22. ASSUME NEW t \in Attempts, OnFinish(t) PROVE Wiring'
  BY <1>22 DEF OnFinish
<1>23. ASSUME NEW t \in Attempts, StreamDone(t) PROVE Wiring'
  BY <1>23 DEF StreamDone
<1>24. ASSUME NEW t \in Attempts, StreamTrap(t) PROVE Wiring'
  BY <1>24 DEF StreamTrap
<1>25. ASSUME NEW c \in Conns, ConnDrop(c) PROVE Wiring'
  BY <1>25 DEF ConnDrop
<1>26. CASE UNCHANGED vars
  BY <1>26 DEF vars
<1>27. QED
  BY <1>1, <1>2, <1>3, <1>4, <1>5, <1>6, <1>7, <1>8, <1>9, <1>10, <1>11, <1>12, <1>13, <1>14, <1>15, <1>16, <1>17, <1>18, <1>19, <1>20, <1>21, <1>22, <1>23, <1>24, <1>25, <1>26
  DEF Next, CallerCall, CallerStep, Attach, SupervisorStep, ConsumerStep, Router

\* No step puts a listener back into the map after finishListener has run for it:
\* Register, the only step that adds an entry, adds a new struct.
LEMMA FinishedStep == IInv /\ [Next]_vars => FinishedIsGone'
<1> SUFFICES ASSUME IInv, [Next]_vars PROVE FinishedIsGone'
  OBVIOUS
<1>n. Nil \notin Listeners /\ Nil \notin Attempts /\ Nil \notin IDs
  BY IDsAssumption DEF Listeners, Attempts, Nil
<1> USE <1>n DEF IInv, TypeOK, Wiring, FinishedIsGone, Registered, ListenerRec, StreamRec, ConsumerRec, ProcRec, Procs
<1>1. ASSUME NEW p \in Callers, NEW id \in IDs, Register(p, id) PROVE FinishedIsGone'
  BY <1>1 DEF Register, Unclaimed, Idle, NewListener, Allocated
<1>2. ASSUME NEW p \in Procs, AttachBegin(p) PROVE FinishedIsGone'
  BY <1>2 DEF AttachBegin, NewAttempt
<1>3. ASSUME NEW p \in Procs, ListenOk(p) PROVE FinishedIsGone'
  BY <1>3 DEF ListenOk
<1>4. ASSUME NEW p \in Procs, ListenErr(p) PROVE FinishedIsGone'
  BY <1>4 DEF ListenErr
<1>5. ASSUME NEW p \in Procs, AttachStore(p) PROVE FinishedIsGone'
  BY <1>5 DEF AttachStore, Stored, Started, Idle
<1>6. ASSUME NEW p \in Callers, Rollback(p) PROVE FinishedIsGone'
  BY <1>6 DEF Rollback, Without, Idle
<1>7. ASSUME NEW p \in Callers, NEW id \in IDs, Unregister(p, id) PROVE FinishedIsGone'
  BY <1>7 DEF Unregister, Without, Idle
<1>8. ASSUME NEW p \in Callers, CloseCancel(p) PROVE FinishedIsGone'
  BY <1>8 DEF CloseCancel
<1>9. ASSUME NEW p \in Callers, CloseSweep(p) PROVE FinishedIsGone'
  BY <1>9 DEF CloseSweep, Registered
<1>10. ASSUME NEW p \in Callers, Detach(p) PROVE FinishedIsGone'
  BY SMTT(40), <1>10 DEF Detach, Interrupted
<1>11. ASSUME NEW p \in Callers, Release(p) PROVE FinishedIsGone'
  BY <1>11 DEF Release, Cancelled
<1>12. ASSUME NEW p \in Callers, DetachReturn(p) PROVE FinishedIsGone'
  BY <1>12 DEF DetachReturn, Idle
<1>13. ASSUME Reattach PROVE FinishedIsGone'
  BY <1>13 DEF Reattach, Snapshot, Idle, Registered
<1>14. ASSUME ReattachNext PROVE FinishedIsGone'
  BY <1>14 DEF ReattachNext
<1>15. ASSUME ReattachReturn PROVE FinishedIsGone'
  BY <1>15 DEF ReattachReturn, Idle
<1>16. ASSUME NEW t \in Attempts, ConsumeStart(t) PROVE FinishedIsGone'
  BY <1>16 DEF ConsumeStart
<1>17. ASSUME NEW t \in Attempts, ConsumeEnd(t) PROVE FinishedIsGone'
  BY <1>17 DEF ConsumeEnd
<1>18. ASSUME NEW t \in Attempts, ConsumeErr(t) PROVE FinishedIsGone'
  BY <1>18 DEF ConsumeErr
<1>19. ASSUME NEW t \in Attempts, ConsumeCheck(t) PROVE FinishedIsGone'
  BY <1>19 DEF ConsumeCheck, Outcome
<1>20. ASSUME NEW t \in Attempts, FinishDelete(t) PROVE FinishedIsGone'
  BY <1>20 DEF FinishDelete, Holds, Without
<1>21. ASSUME NEW t \in Attempts, FinishCancel(t) PROVE FinishedIsGone'
  BY <1>21 DEF FinishCancel, Cancelled
<1>22. ASSUME NEW t \in Attempts, OnFinish(t) PROVE FinishedIsGone'
  BY <1>22 DEF OnFinish
<1>23. ASSUME NEW t \in Attempts, StreamDone(t) PROVE FinishedIsGone'
  BY <1>23 DEF StreamDone
<1>24. ASSUME NEW t \in Attempts, StreamTrap(t) PROVE FinishedIsGone'
  BY <1>24 DEF StreamTrap
<1>25. ASSUME NEW c \in Conns, ConnDrop(c) PROVE FinishedIsGone'
  BY SMTT(40), <1>25 DEF ConnDrop
<1>26. CASE UNCHANGED vars
  BY SMTT(40), <1>26 DEF vars
<1>27. QED
  BY <1>1, <1>2, <1>3, <1>4, <1>5, <1>6, <1>7, <1>8, <1>9, <1>10, <1>11, <1>12, <1>13, <1>14, <1>15, <1>16, <1>17, <1>18, <1>19, <1>20, <1>21, <1>22, <1>23, <1>24, <1>25, <1>26
  DEF Next, CallerCall, CallerStep, Attach, SupervisorStep, ConsumerStep, Router

\* No step lets two processes detach the same listener, or leaves a listener in the
\* map that is being detached.
LEMMA DetachedStep == IInv /\ [Next]_vars => DetachedOnce'
<1> SUFFICES ASSUME IInv, [Next]_vars PROVE DetachedOnce'
  OBVIOUS
<1>n. Nil \notin Listeners /\ Nil \notin Attempts /\ Nil \notin IDs
  BY IDsAssumption DEF Listeners, Attempts, Nil
<1> USE <1>n DEF IInv, TypeOK, Wiring, DetachedOnce, Detaching, Registered, ListenerRec, ProcRec, Procs
<1>1. ASSUME NEW p \in Callers, NEW id \in IDs, Register(p, id) PROVE DetachedOnce'
  BY <1>1 DEF Register, Unclaimed, Idle, NewListener, Allocated
<1>2. ASSUME NEW p \in Procs, AttachBegin(p) PROVE DetachedOnce'
  BY <1>2 DEF AttachBegin, NewAttempt
<1>3. ASSUME NEW p \in Procs, ListenOk(p) PROVE DetachedOnce'
  BY SMTT(40), <1>3 DEF ListenOk
<1>4. ASSUME NEW p \in Procs, ListenErr(p) PROVE DetachedOnce'
  BY <1>4 DEF ListenErr
<1>5. ASSUME NEW p \in Procs, AttachStore(p) PROVE DetachedOnce'
  <2>2. \A q \in Procs : Detaching(q)' \subseteq Detaching(q) BY <1>5 DEF AttachStore, Stored, Started, Idle
  <2>3. Registered' = Registered BY <1>5 DEF AttachStore, Stored, Started
  <2>4. DetachedOnce BY DEF IInv
  <2> HIDE DEF Detaching, Registered
  <2>5. QED BY <2>2, <2>3, <2>4 DEF DetachedOnce
<1>6. ASSUME NEW p \in Callers, Rollback(p) PROVE DetachedOnce'
  BY <1>6 DEF Rollback, Without, Idle
<1>7. ASSUME NEW p \in Callers, NEW id \in IDs, Unregister(p, id) PROVE DetachedOnce'
  <2>1. Detaching(p)' = {entries[id]} /\ Detaching(p) = {} BY <1>7 DEF Unregister, Without, Idle
  <2>2. \A q \in Procs \ {p} : Detaching(q)' = Detaching(q) BY <1>7 DEF Unregister, Without
  <2>3. entries[id] \in Registered BY <1>7 DEF Unregister, Without
  <2>4. Registered' = Registered \ {entries[id]} BY <1>7 DEF Unregister, Without
  <2>5. DetachedOnce BY DEF IInv
  <2> HIDE DEF Detaching, Registered
  <2>6. QED BY <2>1, <2>2, <2>3, <2>4, <2>5 DEF DetachedOnce
<1>8. ASSUME NEW p \in Callers, CloseCancel(p) PROVE DetachedOnce'
  <2>2. \A q \in Procs : Detaching(q)' \subseteq Detaching(q) BY <1>8 DEF CloseCancel
  <2>3. Registered' = Registered BY <1>8 DEF CloseCancel
  <2>4. DetachedOnce BY DEF IInv
  <2> HIDE DEF Detaching, Registered
  <2>5. QED BY <2>2, <2>3, <2>4 DEF DetachedOnce
<1>9. ASSUME NEW p \in Callers, CloseSweep(p) PROVE DetachedOnce'
  BY SMTT(40), <1>9 DEF CloseSweep, Registered
<1>10. ASSUME NEW p \in Callers, Detach(p) PROVE DetachedOnce'
  BY <1>10 DEF Detach, Interrupted
<1>11. ASSUME NEW p \in Callers, Release(p) PROVE DetachedOnce'
  BY <1>11 DEF Release, Cancelled
<1>12. ASSUME NEW p \in Callers, DetachReturn(p) PROVE DetachedOnce'
  <2>2. \A q \in Procs : Detaching(q)' \subseteq Detaching(q) BY <1>12 DEF DetachReturn, Idle
  <2>3. Registered' = Registered BY <1>12 DEF DetachReturn
  <2>4. DetachedOnce BY DEF IInv
  <2> HIDE DEF Detaching, Registered
  <2>5. QED BY <2>2, <2>3, <2>4 DEF DetachedOnce
<1>13. ASSUME Reattach PROVE DetachedOnce'
  BY <1>13 DEF Reattach, Snapshot, Idle, Registered
<1>14. ASSUME ReattachNext PROVE DetachedOnce'
  BY <1>14 DEF ReattachNext
<1>15. ASSUME ReattachReturn PROVE DetachedOnce'
  BY <1>15 DEF ReattachReturn, Idle
<1>16. ASSUME NEW t \in Attempts, ConsumeStart(t) PROVE DetachedOnce'
  BY <1>16 DEF ConsumeStart
<1>17. ASSUME NEW t \in Attempts, ConsumeEnd(t) PROVE DetachedOnce'
  BY <1>17 DEF ConsumeEnd
<1>18. ASSUME NEW t \in Attempts, ConsumeErr(t) PROVE DetachedOnce'
  BY <1>18 DEF ConsumeErr
<1>19. ASSUME NEW t \in Attempts, ConsumeCheck(t) PROVE DetachedOnce'
  BY <1>19 DEF ConsumeCheck, Outcome
<1>20. ASSUME NEW t \in Attempts, FinishDelete(t) PROVE DetachedOnce'
  BY <1>20 DEF FinishDelete, Holds, Without
<1>21. ASSUME NEW t \in Attempts, FinishCancel(t) PROVE DetachedOnce'
  BY <1>21 DEF FinishCancel, Cancelled
<1>22. ASSUME NEW t \in Attempts, OnFinish(t) PROVE DetachedOnce'
  BY <1>22 DEF OnFinish
<1>23. ASSUME NEW t \in Attempts, StreamDone(t) PROVE DetachedOnce'
  BY <1>23 DEF StreamDone
<1>24. ASSUME NEW t \in Attempts, StreamTrap(t) PROVE DetachedOnce'
  BY <1>24 DEF StreamTrap
<1>25. ASSUME NEW c \in Conns, ConnDrop(c) PROVE DetachedOnce'
  BY <1>25 DEF ConnDrop
<1>26. CASE UNCHANGED vars
  BY <1>26 DEF vars
<1>27. QED
  BY <1>1, <1>2, <1>3, <1>4, <1>5, <1>6, <1>7, <1>8, <1>9, <1>10, <1>11, <1>12, <1>13, <1>14, <1>15, <1>16, <1>17, <1>18, <1>19, <1>20, <1>21, <1>22, <1>23, <1>24, <1>25, <1>26
  DEF Next, CallerCall, CallerStep, Attach, SupervisorStep, ConsumerStep, Router

-----------------------------------------------------------------------------
\* IInv holds in every reachable state.
THEOREM Invariance == Spec => []IInv
<1>1. IInv /\ [Next]_vars => IInv'
  BY TypeStep, WiringStep, FinishedStep, DetachedStep DEF IInv
<1>2. QED BY InitInv, <1>1, PTL DEF Spec

\* Type correctness: the state of the manager, of its listeners and of the goroutines
\* stays within its types, and consume never ranges over a nil reply.
THEOREM TypeCorrect == Spec => []TypeOK
<1>1. IInv => TypeOK BY DEF IInv
<1>2. QED BY Invariance, <1>1, PTL

\* The contract of FinishCallback (listener.go:21-22): OnFinish(id, nil) runs only after
\* the listener has left the map for good.
THEOREM FinishCallbackContract == Spec => []FinishedIsGone
<1>1. IInv => FinishedIsGone BY ZenonT(60) DEF IInv
<1>2. QED BY Invariance, <1>1, PTL

\* Concurrent Unregister and Close calls never detach a listener twice.
THEOREM StoppedAtMostOnce == Spec => []DetachedOnce
<1>1. IInv => DetachedOnce BY ZenonT(60) DEF IInv
<1>2. QED BY Invariance, <1>1, PTL

-----------------------------------------------------------------------------
\* What FinishRemovesOwn says of one step and one goroutine.
FinishOwn(u) == cons[u].pc = "finish" /\ cons'[u].pc = "cancel" =>
    \A id \in IDs : entries'[id] # entries[id] => entries[id] = stream[u].lsn

\* Only finishListener itself moves a goroutine past finishListener, and it compares
\* the pointers before it deletes.
LEMMA FinishOwnStep == ASSUME IInv, [Next]_vars, NEW u \in Attempts PROVE FinishOwn(u)
<1>c. cons \in [Attempts -> ConsumerRec] BY DEF IInv, TypeOK
<1> USE DEF FinishOwn
<1>1. ASSUME UNCHANGED cons PROVE FinishOwn(u) BY <1>1
<1>2. ASSUME NEW p \in Procs, AttachStore(p) PROVE FinishOwn(u)
  BY <1>2, <1>c DEF AttachStore, Stored, Started, Idle
<1>3. ASSUME NEW t \in Attempts, ConsumeStart(t) PROVE FinishOwn(u)
  BY <1>3, <1>c DEF ConsumeStart
<1>4. ASSUME NEW t \in Attempts, ConsumeEnd(t) PROVE FinishOwn(u)
  BY <1>4, <1>c DEF ConsumeEnd
<1>5. ASSUME NEW t \in Attempts, ConsumeErr(t) PROVE FinishOwn(u)
  BY <1>5, <1>c DEF ConsumeErr
<1>6. ASSUME NEW t \in Attempts, ConsumeCheck(t) PROVE FinishOwn(u)
  BY <1>6, <1>c DEF ConsumeCheck, Outcome
<1>7. ASSUME NEW t \in Attempts, FinishDelete(t) PROVE FinishOwn(u)
  BY <1>7, <1>c DEF FinishDelete, Holds, Without
<1>8. ASSUME NEW t \in Attempts, FinishCancel(t) PROVE FinishOwn(u)
  BY <1>8, <1>c DEF FinishCancel
<1>9. ASSUME NEW t \in Attempts, OnFinish(t) PROVE FinishOwn(u)
  BY <1>9, <1>c DEF OnFinish
<1>10. CASE UNCHANGED vars BY <1>10, <1>1 DEF vars
<1>11. QED
  BY ZenonT(60), <1>1, <1>2, <1>3, <1>4, <1>5, <1>6, <1>7, <1>8, <1>9, <1>10
  DEF Next, CallerCall, CallerStep, Attach, SupervisorStep, ConsumerStep, Router, Procs,
      AttachBegin, CloseCancel, CloseSweep, ConnDrop, Detach, DetachReturn, ListenErr, ListenOk, Reattach, ReattachNext, ReattachReturn, Register, Release, Rollback, StreamDone, StreamTrap, Unregister

\* A stale consume goroutine never deletes the entry of a newer registration that
\* uses the same ID.
THEOREM FinishIsPointerSafe == Spec => FinishRemovesOwn
<1>1. IInv /\ [Next]_vars =>
        [\A t \in Attempts : cons[t].pc = "finish" /\ cons'[t].pc = "cancel" =>
            \A id \in IDs : entries'[id] # entries[id] => entries[id] = stream[t].lsn]_vars
  BY FinishOwnStep DEF FinishOwn
<1>2. QED BY Invariance, <1>1, PTL DEF Spec, FinishRemovesOwn

-----------------------------------------------------------------------------
\* A step that leaves the map and the IDs of the structs alone is a stutter of the registry.
LEMMA RegistryStutter ==
    ASSUME UNCHANGED entries, lsn \in [Listeners -> ListenerRec],
           \A l \in Listeners : lsn'[l].id = lsn[l].id
    PROVE  UNCHANGED Registry!vars
  BY ZenonT(60) DEF Registry!vars, Allocated

\* Every step of the manager is a step of IDRegistry or a stutter.
LEMMA RegistryStep == IInv /\ [Next]_vars => [Registry!Next]_(Registry!vars)
<1> SUFFICES ASSUME IInv, [Next]_vars PROVE [Registry!Next]_(Registry!vars)
  OBVIOUS
<1>l. lsn \in [Listeners -> ListenerRec] /\ entries \in [IDs -> Listeners \cup {Nil}]
  BY DEF IInv, TypeOK
<1>n. Nil \notin IDs BY IDsAssumption
<1>1. ASSUME NEW p \in Callers, NEW id \in IDs, Register(p, id) PROVE Registry!Next
  <2>1. PICK l \in Listeners : /\ NewListener(l)
                              /\ lsn' = [lsn EXCEPT ![l].id = id]
                              /\ entries' = [entries EXCEPT ![id] = l]
    BY <1>1 DEF Register, Unclaimed
  <2>2. l \in Listeners \ Allocated BY <2>1 DEF NewListener
  <2>3. Allocated' = Allocated \cup {l} BY <1>l, <1>n, <2>1 DEF Allocated, ListenerRec
  <2>4. entries[id] = Nil BY <1>1 DEF Register, Unclaimed
  <2>5. QED BY <2>1, <2>2, <2>3, <2>4 DEF Registry!Next, Registry!Claim
<1>2. ASSUME UNCHANGED lsn,
             \/ UNCHANGED entries
             \/ \E id \in IDs : entries' = [entries EXCEPT ![id] = Nil]
      PROVE  [Registry!Next]_(Registry!vars)
  <2>1. UNCHANGED Allocated BY <1>2 DEF Allocated
  <2>2. CASE UNCHANGED entries BY <2>1, <2>2 DEF Registry!vars
  <2>3. ASSUME NEW id \in IDs, entries' = [entries EXCEPT ![id] = Nil]
        PROVE  [Registry!Next]_(Registry!vars)
    <3>1. CASE entries[id] = Nil BY <1>l, <2>1, <2>3, <3>1 DEF Registry!vars
    <3>2. CASE entries[id] # Nil BY <2>1, <2>3, <3>2 DEF Registry!Next, Registry!Release
    <3>3. QED BY <3>1, <3>2
  <2>4. QED BY <1>2, <2>2, <2>3
<1>3. ASSUME NEW p \in Callers, Rollback(p) PROVE [Registry!Next]_(Registry!vars)
  <2>1. lsn[proc[p].lsn].id \in IDs
    BY <1>3, <1>l DEF Rollback, Without, IInv, Wiring, TypeOK, ProcRec, ListenerRec, Procs
  <2>2. QED BY <1>2, <1>3, <2>1 DEF Rollback, Without
<1>4. ASSUME NEW p \in Callers, NEW id \in IDs, Unregister(p, id)
      PROVE  [Registry!Next]_(Registry!vars)
  BY <1>2, <1>4 DEF Unregister, Without
<1>5. ASSUME NEW p \in Callers, CloseSweep(p) PROVE Registry!Next
  <2>1. UNCHANGED Allocated BY <1>5 DEF CloseSweep, Allocated
  <2>2. QED BY <1>5, <2>1 DEF CloseSweep, Registry!Next, Registry!ReleaseAll
<1>6. ASSUME NEW t \in Attempts, FinishDelete(t) PROVE [Registry!Next]_(Registry!vars)
  <2>1. lsn[stream[t].lsn].id \in IDs
    BY <1>6, <1>l DEF FinishDelete, Holds, Without, IInv, Wiring, TypeOK, StreamRec, ListenerRec
  <2>2. QED BY <1>2, <1>6, <2>1 DEF FinishDelete, Holds, Without
<1>7. ASSUME NEW p \in Procs, AttachBegin(p) \/ AttachStore(p)
      PROVE  [Registry!Next]_(Registry!vars)
  <2>1. UNCHANGED entries BY <1>7 DEF AttachBegin, AttachStore, Stored, Started
  <2>2. \A l \in Listeners : lsn'[l].id = lsn[l].id 
    <3>1. CASE AttachBegin(p) BY <1>l, <3>1 DEF AttachBegin, ListenerRec
    <3>2. CASE AttachStore(p) BY <1>l, <3>2 DEF AttachStore, Stored, Started, ListenerRec
    <3>3. QED BY <1>7, <3>1, <3>2
  <2>3. QED BY <2>1, <2>2, <1>l, RegistryStutter
<1>8. ASSUME UNCHANGED <<entries, lsn>> PROVE [Registry!Next]_(Registry!vars)
  BY <1>2, <1>8
<1>9. QED
  BY <1>1, <1>3, <1>4, <1>5, <1>6, <1>7, <1>8
  DEF Next, CallerCall, CallerStep, Attach, SupervisorStep, ConsumerStep, Router, Procs, vars,
      ListenOk, ListenErr, CloseCancel, Detach, Release, DetachReturn, Reattach, ReattachNext,
      ReattachReturn, ConsumeStart, ConsumeEnd, ConsumeErr, ConsumeCheck, FinishCancel,
      OnFinish, StreamDone, StreamTrap, ConnDrop

\* The listener IDs behave as IDRegistry promises: an ID in use is never taken over,
\* and a registration that has left the map never returns to it.
THEOREM ImplementsRegistry == Spec => RefinesRegistry
<1>1. Init => Registry!Init
  BY DEF Init, Registry!Init, Allocated
<1>2. QED BY Invariance, RegistryStep, <1>1, PTL DEF Spec, RefinesRegistry, Registry!Spec
-----------------------------------------------------------------------------
(* Reconnects: which attach belongs to which connection, and what becomes  *)
(* of the streams. Races is inductive relative to IInv, without any        *)
(* assumption on which activities overlap.                                 *)

Attaching(p) == proc[p].at \in {"attach", "listen", "store"}

\* Process p is due to attach listener l, and has not begun.
IsToAttach(p, l) == \/ proc[p].at = "attach" /\ proc[p].lsn = l
                    \/ p = Supervisor /\ l \in proc[p].todo

\* Only the supervisor reattaches, and to m.conn.
Roles ==
    /\ proc[Supervisor].at \in {"idle", "attach", "listen", "store", "next"}
    /\ proc[Supervisor].at = "idle" => proc[Supervisor].todo = {}
    /\ proc[Supervisor].at # "idle" => proc[Supervisor].conn = mconn
    /\ \A p \in Callers : proc[p].at # "next"

\* At most one connection is alive, and it is m.conn; nothing is ahead of it.
OneConn ==
    /\ up \subseteq {mconn}
    /\ \A t \in Attempts :
          /\ stream[t].st # "none" => stream[t].conn \in Conns /\ stream[t].conn <= mconn
          /\ stream[t].st = "open" => stream[t].conn \in up
    /\ \A p \in Procs :
          /\ Attaching(p) => proc[p].conn \in Conns /\ proc[p].conn <= mconn
          /\ proc[p].at \in {"listen", "store"} => stream[proc[p].attempt].conn = proc[p].conn

\* An attempt that a process is at is its own and has no goroutine yet, and l.reply belongs to an attempt of l.
Attempted ==
    /\ \A p \in Procs :
          /\ proc[p].at = "listen" => stream[proc[p].attempt].st = "listening"
          /\ proc[p].at = "store" => stream[proc[p].attempt].st \in {"open", "done", "failed"}
          /\ proc[p].at \in {"listen", "store"} =>
                /\ cons[proc[p].attempt].pc = "none"
                /\ \A q \in Procs \ {p} : proc[q].at \in {"listen", "store"} => proc[q].attempt # proc[p].attempt
    /\ \A l \in Listeners :
          lsn[l].reply # Nil => stream[lsn[l].reply].st # "none" /\ stream[lsn[l].reply].lsn = l

\* A listener is attached to a connection at most once.
Once ==
    /\ \A t, u \in Attempts :
          stream[t].st # "none" /\ stream[u].st # "none" /\ stream[t].lsn = stream[u].lsn /\ t # u =>
              stream[t].conn # stream[u].conn
    /\ \A p \in Procs, l \in Listeners : IsToAttach(p, l) =>
          /\ \A t \in Attempts : stream[t].st # "none" /\ stream[t].lsn = l => stream[t].conn # proc[p].conn
          /\ \A q \in Procs \ {p} : IsToAttach(q, l) => proc[q].conn # proc[p].conn
    /\ proc[Supervisor].at = "attach" => proc[Supervisor].lsn \notin proc[Supervisor].todo

\* As long as its listener holds the reply that it was started for, a goroutine leaves its range
\* when that stream has ended, and goes on to finishListener only after !done.
EndSeen ==
    \A t \in Attempts : lsn[stream[t].lsn].reply = t =>
        /\ cons[t].pc = "range" => cons[t].reply = t
        /\ cons[t].pc \in {"err", "check"} => stream[t].st \in {"done", "failed"}
        /\ cons[t].pc = "check" /\ ~cons[t].err => stream[t].st = "done"
        /\ cons[t].pc = "finish" => stream[t].st = "done"

Races == Roles /\ OneConn /\ Attempted /\ Once /\ EndSeen /\ OpenIsRead /\ ReattachMissesNone

\* The ranges of the fields.
Ranges ==
    /\ \A p \in Procs : /\ proc[p].lsn \in Listeners \cup {Nil} /\ proc[p].todo \subseteq Listeners
                        /\ proc[p].attempt \in Attempts \cup {Nil}
    /\ \A l \in Listeners : /\ lsn[l].reply \in Attempts \cup {Nil}
                            /\ lsn[l].cancel \in Attempts \cup {Nil}
    /\ \A t \in Attempts : /\ stream[t].lsn \in Listeners \cup {Nil}
                           /\ cons[t].reply \in Attempts \cup {Nil}

LEMMA RangesFollow == ASSUME TypeOK PROVE Ranges
BY DEF TypeOK, Ranges, ProcRec, ListenerRec, StreamRec, ConsumerRec

\* What the steps on records of records do, field by field.
Begins(p) ==
    /\ proc[p].at = "attach" /\ proc'[p].at = "listen" /\ proc'[p].attempt \in Attempts
    /\ proc'[p].lsn = proc[p].lsn /\ proc'[p].conn = proc[p].conn /\ proc'[p].todo = proc[p].todo
    /\ \A q \in Procs \ {p} : proc'[q] = proc[q]
    /\ stream[proc'[p].attempt].st = "none"
    /\ stream'[proc'[p].attempt].st = "listening"
    /\ stream'[proc'[p].attempt].conn = proc[p].conn
    /\ stream'[proc'[p].attempt].lsn = proc[p].lsn
    /\ stream'[proc'[p].attempt].cancelled = FALSE
    /\ \A t \in Attempts \ {proc'[p].attempt} : stream'[t] = stream[t]
    /\ proc[p].lsn \in Listeners
    /\ lsn'[proc[p].lsn].cancel = proc'[p].attempt
    /\ lsn'[proc[p].lsn].reply = lsn[proc[p].lsn].reply
    /\ \A l \in Listeners \ {proc[p].lsn} : lsn'[l] = lsn[l]
    /\ UNCHANGED <<closed, mconn, entries, cons, up>>

Refuses(p) ==
    /\ proc[p].at = "listen" /\ proc[p].attempt \in Attempts
    /\ proc[p].conn \notin up \/ CtxDone(proc[p].attempt)
    /\ proc'[p].at = (IF p = Supervisor THEN "next" ELSE "rollback")
    /\ proc'[p].lsn = proc[p].lsn /\ proc'[p].conn = proc[p].conn /\ proc'[p].todo = proc[p].todo
    /\ \A q \in Procs \ {p} : proc'[q] = proc[q]
    /\ stream'[proc[p].attempt].st = "refused"
    /\ stream'[proc[p].attempt].conn = stream[proc[p].attempt].conn
    /\ stream'[proc[p].attempt].lsn = stream[proc[p].attempt].lsn
    /\ \A t \in Attempts \ {proc[p].attempt} : stream'[t] = stream[t]
    /\ UNCHANGED <<closed, mconn, entries, lsn, cons, up>>

Marks(k) ==
    \A t \in Attempts : /\ stream'[t].st = stream[t].st /\ stream'[t].conn = stream[t].conn
                        /\ stream'[t].lsn = stream[t].lsn
                        /\ t # k => stream'[t].cancelled = stream[t].cancelled

Stops(p) ==
    /\ proc[p].at = "detach" /\ proc'[p].at = "release"
    /\ \A q \in Procs \ {p} : proc'[q] = proc[q]
    /\ proc'[p].lsn \in proc[p].todo /\ proc'[p].todo = proc[p].todo \ {proc'[p].lsn}
    /\ \A t \in Attempts : /\ stream'[t].conn = stream[t].conn /\ stream'[t].lsn = stream[t].lsn
                           /\ stream'[t].cancelled = stream[t].cancelled
                           /\ \/ stream'[t].st = stream[t].st
                              \/ /\ t = lsn[proc'[p].lsn].reply
                                 /\ stream[t].st = "open" /\ stream'[t].st = "done"
                           /\ t = lsn[proc'[p].lsn].reply /\ ~CancelTimesOut => stream'[t].st # "open"
    /\ UNCHANGED <<closed, mconn, entries, lsn, cons, up>>

Releases(p) ==
    /\ proc[p].at = "release" /\ proc'[p].at = "detach"
    /\ proc'[p].lsn = Nil /\ proc'[p].todo = proc[p].todo
    /\ \A q \in Procs \ {p} : proc'[q] = proc[q]
    /\ Marks(lsn[proc[p].lsn].cancel)
    /\ UNCHANGED <<closed, mconn, entries, lsn, cons, up>>

Finishes(t) ==
    /\ cons[t].pc = "cancel" /\ cons'[t].pc = "onnil"
    /\ cons'[t].reply = cons[t].reply /\ cons'[t].err = cons[t].err
    /\ \A u \in Attempts \ {t} : cons'[u] = cons[u]
    /\ Marks(lsn[stream[t].lsn].cancel)
    /\ UNCHANGED <<closed, mconn, entries, lsn, proc, up>>

\* attach makes a context and calls ListenArgs with it.
LEMMA AttachBeginEffect ==
    ASSUME TypeOK, Wiring, NEW p \in Procs, AttachBegin(p)
    PROVE  Begins(p)
<1> DEFINE Choice(t) ==
      /\ stream[t].st = "none"
      /\ stream' = [stream EXCEPT ![t] = [st |-> "listening", conn |-> proc[p].conn,
                                          lsn |-> proc[p].lsn, cancelled |-> FALSE]]
      /\ lsn' = [lsn EXCEPT ![proc[p].lsn].cancel = t]
      /\ proc' = [proc EXCEPT ![p].at = "listen", ![p].attempt = t]
<1>1. \E t \in Attempts : Choice(t)
  BY DEF AttachBegin, NewAttempt
<1>2. PICK t \in Attempts : Choice(t)
  <2> HIDE DEF Choice
  <2> QED
    BY <1>1
<1>3. /\ proc'[p].at = "listen" /\ proc'[p].attempt = t
      /\ proc'[p].lsn = proc[p].lsn /\ proc'[p].conn = proc[p].conn /\ proc'[p].todo = proc[p].todo
      /\ \A q \in Procs \ {p} : proc'[q] = proc[q]
  BY <1>2 DEF TypeOK, ProcRec
<1>4. /\ stream'[t].st = "listening" /\ stream'[t].conn = proc[p].conn
      /\ stream'[t].lsn = proc[p].lsn /\ stream'[t].cancelled = FALSE
      /\ \A u \in Attempts \ {t} : stream'[u] = stream[u]
  BY <1>2 DEF TypeOK
<1>5. proc[p].at = "attach" /\ UNCHANGED <<closed, mconn, entries, cons, up>>
  BY DEF AttachBegin
<1>6. proc[p].lsn \in Listeners
  BY <1>5 DEF TypeOK, ProcRec, Wiring
<1>7. /\ lsn'[proc[p].lsn].cancel = t /\ lsn'[proc[p].lsn].reply = lsn[proc[p].lsn].reply
      /\ \A l \in Listeners \ {proc[p].lsn} : lsn'[l] = lsn[l]
  BY <1>2, <1>6 DEF TypeOK, ListenerRec
<1>8. stream[t].st = "none"
  BY <1>2
<1> HIDE DEF Choice
<1> QED
  BY <1>3, <1>4, <1>5, <1>6, <1>7, <1>8 DEF Begins

\* A failed ListenArgs ends its attempt, and the process goes on.
LEMMA ListenErrEffect ==
    ASSUME TypeOK, Wiring, NEW p \in Procs, ListenErr(p)
    PROVE  Refuses(p)
<1>1. proc[p].at = "listen" /\ proc[p].attempt \in Attempts
  BY DEF ListenErr, Wiring, TypeOK, ProcRec
<1>2. /\ proc'[p].at = (IF p = Supervisor THEN "next" ELSE "rollback")
      /\ proc'[p].lsn = proc[p].lsn /\ proc'[p].conn = proc[p].conn /\ proc'[p].todo = proc[p].todo
      /\ \A q \in Procs \ {p} : proc'[q] = proc[q]
  <2> DEFINE next == IF p = Supervisor THEN "next" ELSE "rollback"
  <2>1. proc' = [proc EXCEPT ![p].at = next, ![p].attempt = Nil]
    BY DEF ListenErr
  <2> HIDE DEF next
  <2>2. proc'[p].at = next /\ proc'[p].lsn = proc[p].lsn /\ proc'[p].conn = proc[p].conn
        /\ proc'[p].todo = proc[p].todo /\ \A q \in Procs \ {p} : proc'[q] = proc[q]
    BY <2>1 DEF TypeOK, ProcRec
  <2> QED
    BY <2>2 DEF next
<1>3. /\ stream'[proc[p].attempt].st = "refused"
      /\ stream'[proc[p].attempt].conn = stream[proc[p].attempt].conn
      /\ stream'[proc[p].attempt].lsn = stream[proc[p].attempt].lsn
      /\ \A t \in Attempts \ {proc[p].attempt} : stream'[t] = stream[t]
  BY <1>1 DEF ListenErr, TypeOK, StreamRec
<1> QED
  BY <1>1, <1>2, <1>3 DEF ListenErr, Refuses

\* detach ends at most the stream that the listener holds, and ends it unless /cancel timed out.
LEMMA DetachEffect ==
    ASSUME TypeOK, NEW p \in Callers, Detach(p)
    PROVE  Stops(p)
<1> DEFINE Choice(l) ==
      /\ \/ lsn[l].reply # Nil /\ stream[lsn[l].reply].st = "open" /\ stream' = Interrupted(lsn[l].reply)
         \/ lsn[l].reply # Nil /\ stream[lsn[l].reply].st = "open" /\ CancelTimesOut /\ UNCHANGED stream
         \/ (lsn[l].reply # Nil => stream[lsn[l].reply].st # "open") /\ UNCHANGED stream
      /\ proc' = [proc EXCEPT ![p].at = "release", ![p].lsn = l, ![p].todo = @ \ {l}]
<1>0. \E l \in proc[p].todo : Choice(l)
  BY ZenonT(30) DEF Detach
<1>1. PICK l \in proc[p].todo : Choice(l)
  <2> HIDE DEF Choice
  <2> QED
    BY <1>0
<1>2. l \in Listeners /\ lsn[l].reply \in Attempts \cup {Nil}
  BY DEF TypeOK, ProcRec, ListenerRec, Procs
<1>3. /\ proc'[p].at = "release" /\ proc'[p].lsn = l /\ proc'[p].todo = proc[p].todo \ {l}
      /\ \A q \in Procs \ {p} : proc'[q] = proc[q]
  BY <1>1 DEF TypeOK, ProcRec, Procs
<1>4. Nil \notin Attempts
  BY DEF Nil, Attempts
<1>5. \A t \in Attempts : /\ stream'[t].conn = stream[t].conn /\ stream'[t].lsn = stream[t].lsn
                          /\ stream'[t].cancelled = stream[t].cancelled
                          /\ \/ stream'[t].st = stream[t].st
                             \/ /\ t = lsn[l].reply
                                /\ stream[t].st = "open" /\ stream'[t].st = "done"
                          /\ t = lsn[l].reply /\ ~CancelTimesOut => stream'[t].st # "open"
  <2>1. CASE UNCHANGED stream /\ (CancelTimesOut \/ (lsn[l].reply # Nil => stream[lsn[l].reply].st # "open"))
    BY <1>4, <2>1
  <2>2. CASE lsn[l].reply # Nil /\ stream[lsn[l].reply].st = "open" /\ stream' = Interrupted(lsn[l].reply)
    BY <1>2, <2>2 DEF TypeOK, StreamRec, Interrupted
  <2> QED
    BY <1>1, <2>1, <2>2
<1>6. proc[p].at = "detach" /\ UNCHANGED <<closed, mconn, entries, lsn, cons, up>>
  BY DEF Detach
<1> HIDE DEF Choice
<1> QED
  BY <1>3, <1>5, <1>6 DEF Stops

\* l.cancel() marks at most the attempt that l.cancel belongs to.
LEMMA CancelEffect ==
    ASSUME TypeOK, NEW k, stream' = Cancelled(k)
    PROVE  Marks(k)
<1>1. CASE k = Nil
  BY <1>1 DEF Cancelled, Marks
<1>2. CASE k # Nil
  <2>1. stream' = [stream EXCEPT ![k].cancelled = TRUE]
    BY <1>2 DEF Cancelled
  <2>2. \A t \in Attempts : stream'[t] = IF t = k THEN [stream[k] EXCEPT !.cancelled = TRUE] ELSE stream[t]
    BY <2>1 DEF TypeOK
  <2> QED
    BY <2>2 DEF TypeOK, StreamRec, Marks
<1> QED
  BY <1>1, <1>2

LEMMA ReleaseEffect ==
    ASSUME TypeOK, NEW p \in Callers, Release(p)
    PROVE  Releases(p)
<1>1. /\ proc'[p].at = "detach" /\ proc'[p].lsn = Nil /\ proc'[p].todo = proc[p].todo
      /\ \A q \in Procs \ {p} : proc'[q] = proc[q]
  BY DEF Release, TypeOK, ProcRec, Procs
<1>2. stream' = Cancelled(lsn[proc[p].lsn].cancel)
  BY DEF Release
<1>3. Marks(lsn[proc[p].lsn].cancel)
  BY <1>2, CancelEffect
<1> QED
  BY <1>1, <1>3 DEF Release, Releases

LEMMA FinishCancelEffect ==
    ASSUME TypeOK, NEW t \in Attempts, FinishCancel(t)
    PROVE  Finishes(t)
<1>1. /\ cons'[t].pc = "onnil" /\ cons'[t].reply = cons[t].reply /\ cons'[t].err = cons[t].err
      /\ \A u \in Attempts \ {t} : cons'[u] = cons[u]
  BY DEF FinishCancel, TypeOK, ConsumerRec
<1>2. stream' = Cancelled(lsn[stream[t].lsn].cancel)
  BY DEF FinishCancel
<1>3. Marks(lsn[stream[t].lsn].cancel)
  BY <1>2, CancelEffect
<1> QED
  BY <1>1, <1>3 DEF FinishCancel, Finishes

\* NewManager: nothing is attached yet.
LEMMA RacesInit == Init => Races
<1> SUFFICES ASSUME Init PROVE Races
  OBVIOUS
<1>1. \A p \in Procs : proc[p] = Idle
  BY DEF Init
<1>2. Roles
  BY <1>1 DEF Roles, Idle, Procs
<1>3. OneConn /\ Attempted
  BY <1>1, BoundsAssumption DEF Init, OneConn, Attempted, Attaching, Idle, Conns, Listeners
<1>4. Once
  BY <1>1 DEF Init, Once, IsToAttach, Idle, Procs
<1>5. OpenIsRead /\ EndSeen
  BY DEF Init, OpenIsRead, EndSeen
<1>6. ReattachMissesNone
  BY DEF Init, ReattachMissesNone, Registered, Listeners, Nil
<1> QED
  BY <1>2, <1>3, <1>4, <1>5, <1>6 DEF Races

\* Roles is preserved: the supervisor stays where it was.
LEMMA RolesStep == IInv /\ Races /\ [Next]_vars => Roles'
<1> SUFFICES ASSUME TypeOK, Wiring, Roles, [Next]_vars
             PROVE  Roles'
  BY DEF IInv, Races
<1>n. Nil \notin Listeners /\ Nil \notin Attempts /\ Nil \notin IDs /\ Supervisor \notin Callers
  BY IDsAssumption, ProcsAssumption DEF Listeners, Attempts, Nil
<1>r. Ranges
  BY RangesFollow
<1>begins. \A q \in Procs : AttachBegin(q) => Begins(q)
  BY AttachBeginEffect
<1>refuses. \A q \in Procs : ListenErr(q) => Refuses(q)
  BY ListenErrEffect
<1>stops. \A q \in Callers : Detach(q) => Stops(q)
  BY DetachEffect
<1>releases. \A q \in Callers : Release(q) => Releases(q)
  BY ReleaseEffect
<1> USE <1>n DEF TypeOK, ListenerRec, StreamRec, ConsumerRec, ProcRec, Procs, Wiring, Attaching, Registered,
    Roles
<1>1. ASSUME NEW p \in Callers, NEW id \in IDs, Register(p, id) PROVE Roles'
  BY <1>1 DEF Register, Unclaimed, Idle, NewListener, Allocated
<1>2. ASSUME NEW p \in Procs, AttachBegin(p) PROVE Roles'
  <2>1. Begins(p)
    BY <1>2, <1>begins
  <2> HIDE DEF TypeOK, ListenerRec, StreamRec, ConsumerRec, ProcRec
  <2> QED
    BY <1>r, <2>1 DEF Ranges, Begins
<1>3. ASSUME NEW p \in Procs, ListenOk(p) PROVE Roles'
  BY <1>3 DEF ListenOk
<1>4. ASSUME NEW p \in Procs, ListenErr(p) PROVE Roles'
  <2>1. Refuses(p)
    BY <1>4, <1>refuses
  <2> HIDE DEF TypeOK, ListenerRec, StreamRec, ConsumerRec, ProcRec
  <2> QED
    BY <1>r, <2>1 DEF Ranges, Refuses
<1>5. ASSUME NEW p \in Procs, AttachStore(p) PROVE Roles'
  BY <1>5 DEF AttachStore, Stored, Started, Idle
<1>6. ASSUME NEW p \in Callers, Rollback(p) PROVE Roles'
  BY <1>6 DEF Rollback, Without, Idle
<1>7. ASSUME NEW p \in Callers, NEW id \in IDs, Unregister(p, id) PROVE Roles'
  BY <1>7 DEF Unregister, Without, Idle
<1>8. ASSUME NEW p \in Callers, CloseCancel(p) PROVE Roles'
  BY <1>8 DEF CloseCancel
<1>9. ASSUME NEW p \in Callers, CloseSweep(p) PROVE Roles'
  BY <1>9 DEF CloseSweep
<1>10. ASSUME NEW p \in Callers, Detach(p) PROVE Roles'
  <2>1. Stops(p)
    BY <1>10, <1>stops
  <2> HIDE DEF TypeOK, ListenerRec, StreamRec, ConsumerRec, ProcRec
  <2> QED
    BY <1>r, <2>1 DEF Ranges, Stops
<1>11. ASSUME NEW p \in Callers, Release(p) PROVE Roles'
  <2>1. Releases(p)
    BY <1>11, <1>releases
  <2> HIDE DEF TypeOK, ListenerRec, StreamRec, ConsumerRec, ProcRec
  <2> QED
    BY <1>r, <2>1 DEF Ranges, Releases, Marks
<1>12. ASSUME NEW p \in Callers, DetachReturn(p) PROVE Roles'
  BY <1>12 DEF DetachReturn, Idle
<1>13. ASSUME Reattach PROVE Roles'
  BY <1>13 DEF Reattach, Snapshot, Idle
<1>14. ASSUME ReattachNext PROVE Roles'
  BY <1>14 DEF ReattachNext
<1>15. ASSUME ReattachReturn PROVE Roles'
  BY <1>15 DEF ReattachReturn, Idle
<1> HIDE DEF TypeOK, ListenerRec, StreamRec, ConsumerRec, ProcRec, Procs, Wiring, Attaching, Registered,
    Roles
<1>16. ASSUME UNCHANGED <<mconn, proc>> PROVE Roles'
  BY <1>16 DEF Roles, Attaching, Registered
<1> QED
  BY ZenonT(30),
     <1>1, <1>2, <1>3, <1>4, <1>5, <1>6, <1>7, <1>8, <1>9, <1>10, <1>11, <1>12, <1>13, <1>14,
     <1>15, <1>16
  DEF vars, Next, CallerCall, CallerStep, Attach, SupervisorStep, ConsumerStep, Router, Procs, ConsumeStart, ConsumeEnd, ConsumeErr, ConsumeCheck, FinishDelete, FinishCancel, OnFinish, StreamDone, StreamTrap, ConnDrop

\* OneConn is preserved: Reattach alone changes m.conn, and only when nothing is alive.
LEMMA OneConnStep == IInv /\ Races /\ [Next]_vars => OneConn'
<1> SUFFICES ASSUME TypeOK, Wiring, OneConn, Roles, [Next]_vars
             PROVE  OneConn'
  BY DEF IInv, Races
<1>n. Nil \notin Listeners /\ Nil \notin Attempts /\ Nil \notin IDs /\ Supervisor \notin Callers
  BY IDsAssumption, ProcsAssumption DEF Listeners, Attempts, Nil
<1>r. Ranges
  BY RangesFollow
<1>begins. \A q \in Procs : AttachBegin(q) => Begins(q)
  BY AttachBeginEffect
<1>refuses. \A q \in Procs : ListenErr(q) => Refuses(q)
  BY ListenErrEffect
<1>stops. \A q \in Callers : Detach(q) => Stops(q)
  BY DetachEffect
<1>releases. \A q \in Callers : Release(q) => Releases(q)
  BY ReleaseEffect
<1>finishes. \A u \in Attempts : FinishCancel(u) => Finishes(u)
  BY FinishCancelEffect
<1> USE <1>n DEF TypeOK, ListenerRec, StreamRec, ConsumerRec, ProcRec, Procs, Wiring, Attaching, Registered,
    OneConn, Roles
<1>1. ASSUME NEW p \in Callers, NEW id \in IDs, Register(p, id) PROVE OneConn'
  <2>1. mconn \in Conns /\ mconn <= mconn
    BY BoundsAssumption DEF Conns
  <2> QED
    BY <1>1, <2>1 DEF Register, Unclaimed, Idle, NewListener, Allocated
<1>2. ASSUME NEW p \in Procs, AttachBegin(p) PROVE OneConn'
  <2>1. Begins(p)
    BY <1>2, <1>begins
  <2> HIDE DEF TypeOK, ListenerRec, StreamRec, ConsumerRec, ProcRec
  <2> QED
    BY <1>r, <2>1 DEF Ranges, Begins
<1>3. ASSUME NEW p \in Procs, ListenOk(p) PROVE OneConn'
  BY <1>3 DEF ListenOk
<1>4. ASSUME NEW p \in Procs, ListenErr(p) PROVE OneConn'
  <2>1. Refuses(p)
    BY <1>4, <1>refuses
  <2> HIDE DEF TypeOK, ListenerRec, StreamRec, ConsumerRec, ProcRec
  <2> QED
    BY <1>r, <2>1 DEF Ranges, Refuses
<1>5. ASSUME NEW p \in Procs, AttachStore(p) PROVE OneConn'
  BY <1>5 DEF AttachStore, Stored, Started, Idle
<1>6. ASSUME NEW p \in Callers, Rollback(p) PROVE OneConn'
  BY <1>6 DEF Rollback, Without, Idle
<1>7. ASSUME NEW p \in Callers, NEW id \in IDs, Unregister(p, id) PROVE OneConn'
  BY <1>7 DEF Unregister, Without, Idle
<1>8. ASSUME NEW p \in Callers, CloseCancel(p) PROVE OneConn'
  BY <1>8 DEF CloseCancel
<1>9. ASSUME NEW p \in Callers, CloseSweep(p) PROVE OneConn'
  BY <1>9 DEF CloseSweep
<1>10. ASSUME NEW p \in Callers, Detach(p) PROVE OneConn'
  <2>1. Stops(p)
    BY <1>10, <1>stops
  <2> HIDE DEF TypeOK, ListenerRec, StreamRec, ConsumerRec, ProcRec
  <2> QED
    BY <1>r, <2>1 DEF Ranges, Stops
<1>11. ASSUME NEW p \in Callers, Release(p) PROVE OneConn'
  <2>1. Releases(p)
    BY <1>11, <1>releases
  <2> HIDE DEF TypeOK, ListenerRec, StreamRec, ConsumerRec, ProcRec
  <2> QED
    BY <1>r, <2>1 DEF Ranges, Releases, Marks
<1>12. ASSUME NEW p \in Callers, DetachReturn(p) PROVE OneConn'
  BY <1>12 DEF DetachReturn, Idle
<1>13. ASSUME Reattach PROVE OneConn'
  <2>1. /\ mconn \in Conns /\ mconn' \in Conns /\ mconn < mconn' /\ mconn' <= mconn'
        /\ \A c \in Conns : c <= mconn => c <= mconn'
    BY <1>13, BoundsAssumption DEF Reattach, Conns
  <2>2. up = {} /\ up' = {mconn'} /\ stream' = stream
    BY <1>13 DEF Reattach
  <2>3. /\ proc'[Supervisor].at = "next"
        /\ \A p \in Procs \ {Supervisor} : proc'[p] = proc[p]
    BY <1>13 DEF Reattach, Idle
  <2>4. \A t \in Attempts : stream[t].st # "open"
    BY <2>2
  <2> HIDE DEF TypeOK, ListenerRec, StreamRec, ConsumerRec, ProcRec, Wiring
  <2> QED
    BY <2>1, <2>2, <2>3, <2>4
<1>14. ASSUME ReattachNext PROVE OneConn'
  BY <1>14 DEF ReattachNext
<1>15. ASSUME ReattachReturn PROVE OneConn'
  BY <1>15 DEF ReattachReturn, Idle
<1>16. ASSUME NEW t \in Attempts, FinishCancel(t) PROVE OneConn'
  <2>1. Finishes(t)
    BY <1>16, <1>finishes
  <2> HIDE DEF TypeOK, ListenerRec, StreamRec, ConsumerRec, ProcRec
  <2> QED
    BY <1>r, <2>1 DEF Ranges, Finishes, Marks
<1>17. ASSUME NEW t \in Attempts, StreamDone(t) PROVE OneConn'
  BY <1>17 DEF StreamDone
<1>18. ASSUME NEW t \in Attempts, StreamTrap(t) PROVE OneConn'
  BY <1>18 DEF StreamTrap
<1>19. ASSUME NEW c \in Conns, ConnDrop(c) PROVE OneConn'
  BY <1>19 DEF ConnDrop
<1> HIDE DEF TypeOK, ListenerRec, StreamRec, ConsumerRec, ProcRec, Procs, Wiring, Attaching, Registered,
    OneConn, Roles
<1>20. ASSUME UNCHANGED <<mconn, stream, proc, up>> PROVE OneConn'
  BY <1>20 DEF OneConn, Attaching, Registered
<1> QED
  BY ZenonT(30),
     <1>1, <1>2, <1>3, <1>4, <1>5, <1>6, <1>7, <1>8, <1>9, <1>10, <1>11, <1>12, <1>13, <1>14,
     <1>15, <1>16, <1>17, <1>18, <1>19, <1>20
  DEF vars, Next, CallerCall, CallerStep, Attach, SupervisorStep, ConsumerStep, Router, Procs, ConsumeStart, ConsumeEnd, ConsumeErr, ConsumeCheck, FinishDelete, OnFinish

\* Attempted is preserved: a goroutine is started by the store of its own reply.
LEMMA AttemptedStep == IInv /\ Races /\ [Next]_vars => Attempted'
<1> SUFFICES ASSUME TypeOK, Wiring, Attempted, [Next]_vars
             PROVE  Attempted'
  BY DEF IInv, Races
<1>n. Nil \notin Listeners /\ Nil \notin Attempts /\ Nil \notin IDs /\ Supervisor \notin Callers
  BY IDsAssumption, ProcsAssumption DEF Listeners, Attempts, Nil
<1>r. Ranges
  BY RangesFollow
<1>begins. \A q \in Procs : AttachBegin(q) => Begins(q)
  BY AttachBeginEffect
<1>refuses. \A q \in Procs : ListenErr(q) => Refuses(q)
  BY ListenErrEffect
<1>stops. \A q \in Callers : Detach(q) => Stops(q)
  BY DetachEffect
<1>releases. \A q \in Callers : Release(q) => Releases(q)
  BY ReleaseEffect
<1>finishes. \A u \in Attempts : FinishCancel(u) => Finishes(u)
  BY FinishCancelEffect
<1> USE <1>n DEF TypeOK, ListenerRec, StreamRec, ConsumerRec, ProcRec, Procs, Wiring, Attaching, Registered,
    Attempted
<1>1. ASSUME NEW p \in Callers, NEW id \in IDs, Register(p, id) PROVE Attempted'
  BY <1>1 DEF Register, Unclaimed, Idle, NewListener, Allocated
<1>2. ASSUME NEW p \in Procs, AttachBegin(p) PROVE Attempted'
  <2>1. Begins(p)
    BY <1>2, <1>begins
  <2> HIDE DEF TypeOK, ListenerRec, StreamRec, ConsumerRec, ProcRec
  <2> QED
    BY SMTT(30), <1>r, <2>1 DEF Ranges, Begins
<1>3. ASSUME NEW p \in Procs, ListenOk(p) PROVE Attempted'
  BY SMTT(30), <1>3 DEF ListenOk
<1>4. ASSUME NEW p \in Procs, ListenErr(p) PROVE Attempted'
  <2>1. Refuses(p)
    BY <1>4, <1>refuses
  <2> HIDE DEF TypeOK, ListenerRec, StreamRec, ConsumerRec, ProcRec
  <2> QED
    BY SMTT(30), <1>r, <2>1 DEF Ranges, Refuses
<1>5. ASSUME NEW p \in Procs, AttachStore(p) PROVE Attempted'
  BY <1>5 DEF AttachStore, Stored, Started, Idle
<1>6. ASSUME NEW p \in Callers, Rollback(p) PROVE Attempted'
  BY <1>6 DEF Rollback, Without, Idle
<1>7. ASSUME NEW p \in Callers, NEW id \in IDs, Unregister(p, id) PROVE Attempted'
  BY <1>7 DEF Unregister, Without, Idle
<1>8. ASSUME NEW p \in Callers, CloseCancel(p) PROVE Attempted'
  BY <1>8 DEF CloseCancel
<1>9. ASSUME NEW p \in Callers, CloseSweep(p) PROVE Attempted'
  BY <1>9 DEF CloseSweep
<1>10. ASSUME NEW p \in Callers, Detach(p) PROVE Attempted'
  <2>1. Stops(p)
    BY <1>10, <1>stops
  <2> HIDE DEF TypeOK, ListenerRec, StreamRec, ConsumerRec, ProcRec
  <2> QED
    BY <1>r, <2>1 DEF Ranges, Stops
<1>11. ASSUME NEW p \in Callers, Release(p) PROVE Attempted'
  <2>1. Releases(p)
    BY <1>11, <1>releases
  <2> HIDE DEF TypeOK, ListenerRec, StreamRec, ConsumerRec, ProcRec
  <2> QED
    BY <1>r, <2>1 DEF Ranges, Releases, Marks
<1>12. ASSUME NEW p \in Callers, DetachReturn(p) PROVE Attempted'
  BY <1>12 DEF DetachReturn, Idle
<1>13. ASSUME Reattach PROVE Attempted'
  BY <1>13 DEF Reattach, Snapshot, Idle
<1>14. ASSUME ReattachNext PROVE Attempted'
  BY <1>14 DEF ReattachNext
<1>15. ASSUME ReattachReturn PROVE Attempted'
  BY <1>15 DEF ReattachReturn, Idle
<1>16. ASSUME NEW t \in Attempts, ConsumeStart(t) PROVE Attempted'
  BY SMTT(30), <1>16 DEF ConsumeStart
<1>17. ASSUME NEW t \in Attempts, ConsumeEnd(t) PROVE Attempted'
  BY <1>17 DEF ConsumeEnd
<1>18. ASSUME NEW t \in Attempts, ConsumeErr(t) PROVE Attempted'
  BY SMTT(30), <1>18 DEF ConsumeErr
<1>19. ASSUME NEW t \in Attempts, ConsumeCheck(t) PROVE Attempted'
  <2>1. \A u \in Attempts : cons'[u].pc = "none" <=> cons[u].pc = "none"
    BY <1>19 DEF ConsumeCheck, Outcome
  <2>2. UNCHANGED <<proc, stream, lsn>>
    BY <1>19 DEF ConsumeCheck
  <2> HIDE DEF TypeOK, ListenerRec, StreamRec, ConsumerRec
  <2> QED
    BY <1>r, <1>n, <2>1, <2>2 DEF Ranges
<1>20. ASSUME NEW t \in Attempts, FinishDelete(t) PROVE Attempted'
  BY <1>20 DEF FinishDelete, Holds, Without
<1>21. ASSUME NEW t \in Attempts, FinishCancel(t) PROVE Attempted'
  <2>1. Finishes(t)
    BY <1>21, <1>finishes
  <2> HIDE DEF TypeOK, ListenerRec, StreamRec, ConsumerRec, ProcRec
  <2> QED
    BY <1>r, <2>1 DEF Ranges, Finishes, Marks
<1>22. ASSUME NEW t \in Attempts, OnFinish(t) PROVE Attempted'
  BY <1>22 DEF OnFinish
<1>23. ASSUME NEW t \in Attempts, StreamDone(t) PROVE Attempted'
  BY <1>23 DEF StreamDone
<1>24. ASSUME NEW t \in Attempts, StreamTrap(t) PROVE Attempted'
  BY <1>24 DEF StreamTrap
<1>25. ASSUME NEW c \in Conns, ConnDrop(c) PROVE Attempted'
  BY <1>25 DEF ConnDrop
<1> HIDE DEF TypeOK, ListenerRec, StreamRec, ConsumerRec, ProcRec, Procs, Wiring, Attaching, Registered,
    Attempted
<1>26. ASSUME UNCHANGED <<lsn, stream, cons, proc>> PROVE Attempted'
  BY <1>26 DEF Attempted, Attaching, Registered
<1> QED
  BY ZenonT(30),
     <1>1, <1>2, <1>3, <1>4, <1>5, <1>6, <1>7, <1>8, <1>9, <1>10, <1>11, <1>12, <1>13, <1>14,
     <1>15, <1>16, <1>17, <1>18, <1>19, <1>20, <1>21, <1>22, <1>23, <1>24, <1>25, <1>26
  DEF vars, Next, CallerCall, CallerStep, Attach, SupervisorStep, ConsumerStep, Router, Procs

\* Once is preserved: Register attaches a new struct, and ReattachAll goes to a new connection.
LEMMA OnceStep == IInv /\ Races /\ [Next]_vars => Once'
<1> SUFFICES ASSUME TypeOK, Wiring, Once, OneConn, Roles, [Next]_vars
             PROVE  Once'
  BY DEF IInv, Races
<1>n. Nil \notin Listeners /\ Nil \notin Attempts /\ Nil \notin IDs /\ Supervisor \notin Callers
  BY IDsAssumption, ProcsAssumption DEF Listeners, Attempts, Nil
<1>r. Ranges
  BY RangesFollow
<1>begins. \A q \in Procs : AttachBegin(q) => Begins(q)
  BY AttachBeginEffect
<1>refuses. \A q \in Procs : ListenErr(q) => Refuses(q)
  BY ListenErrEffect
<1>stops. \A q \in Callers : Detach(q) => Stops(q)
  BY DetachEffect
<1>releases. \A q \in Callers : Release(q) => Releases(q)
  BY ReleaseEffect
<1>finishes. \A u \in Attempts : FinishCancel(u) => Finishes(u)
  BY FinishCancelEffect
<1> USE <1>n DEF TypeOK, ListenerRec, StreamRec, ConsumerRec, ProcRec, Procs, Wiring, Attaching, Registered,
    Once, OneConn, Roles, IsToAttach
<1>1. ASSUME NEW p \in Callers, NEW id \in IDs, Register(p, id) PROVE Once'
  BY <1>1 DEF Register, Unclaimed, Idle, NewListener, Allocated
<1>2. ASSUME NEW p \in Procs, AttachBegin(p) PROVE Once'
  <2>1. Begins(p)
    BY <1>2, <1>begins
  <2> HIDE DEF TypeOK, ListenerRec, StreamRec, ConsumerRec, ProcRec
  <2> QED
    BY SMTT(30), <1>r, <2>1 DEF Ranges, Begins
<1>3. ASSUME NEW p \in Procs, ListenOk(p) PROVE Once'
  BY <1>3 DEF ListenOk
<1>4. ASSUME NEW p \in Procs, ListenErr(p) PROVE Once'
  <2>1. Refuses(p)
    BY <1>4, <1>refuses
  <2> HIDE DEF TypeOK, ListenerRec, StreamRec, ConsumerRec, ProcRec
  <2> QED
    BY SMTT(30), <1>r, <2>1 DEF Ranges, Refuses
<1>5. ASSUME NEW p \in Procs, AttachStore(p) PROVE Once'
  BY <1>5 DEF AttachStore, Stored, Started, Idle
<1>6. ASSUME NEW p \in Callers, Rollback(p) PROVE Once'
  BY <1>6 DEF Rollback, Without, Idle
<1>7. ASSUME NEW p \in Callers, NEW id \in IDs, Unregister(p, id) PROVE Once'
  BY <1>7 DEF Unregister, Without, Idle
<1>8. ASSUME NEW p \in Callers, CloseCancel(p) PROVE Once'
  BY <1>8 DEF CloseCancel
<1>9. ASSUME NEW p \in Callers, CloseSweep(p) PROVE Once'
  BY <1>9 DEF CloseSweep
<1>10. ASSUME NEW p \in Callers, Detach(p) PROVE Once'
  <2>1. Stops(p)
    BY <1>10, <1>stops
  <2> HIDE DEF TypeOK, ListenerRec, StreamRec, ConsumerRec, ProcRec
  <2> QED
    BY <1>r, <2>1 DEF Ranges, Stops
<1>11. ASSUME NEW p \in Callers, Release(p) PROVE Once'
  <2>1. Releases(p)
    BY <1>11, <1>releases
  <2> HIDE DEF TypeOK, ListenerRec, StreamRec, ConsumerRec, ProcRec
  <2> QED
    BY <1>r, <2>1 DEF Ranges, Releases, Marks
<1>12. ASSUME NEW p \in Callers, DetachReturn(p) PROVE Once'
  BY <1>12 DEF DetachReturn, Idle
<1>13. ASSUME Reattach PROVE Once'
  <2>1. /\ mconn \in Conns /\ mconn' = mconn + 1
        /\ \A c \in Conns : c <= mconn => c # mconn'
    BY <1>13, BoundsAssumption DEF Reattach, Conns
  <2>2. /\ proc'[Supervisor].at = "next" /\ proc'[Supervisor].conn = mconn'
        /\ proc[Supervisor].at = "idle" /\ proc[Supervisor].todo = {}
        /\ \A p \in Procs \ {Supervisor} : proc'[p] = proc[p]
        /\ UNCHANGED stream
    BY <1>13, <2>1 DEF Reattach, Idle
  <2> HIDE DEF TypeOK, ListenerRec, StreamRec, ConsumerRec, ProcRec, Wiring
  <2> QED
    BY <2>1, <2>2
<1>14. ASSUME ReattachNext PROVE Once'
  BY <1>14 DEF ReattachNext
<1>15. ASSUME ReattachReturn PROVE Once'
  BY <1>15 DEF ReattachReturn, Idle
<1>16. ASSUME NEW t \in Attempts, FinishCancel(t) PROVE Once'
  <2>1. Finishes(t)
    BY <1>16, <1>finishes
  <2> HIDE DEF TypeOK, ListenerRec, StreamRec, ConsumerRec, ProcRec
  <2> QED
    BY <1>r, <2>1 DEF Ranges, Finishes, Marks
<1>17. ASSUME NEW t \in Attempts, StreamDone(t) PROVE Once'
  BY <1>17 DEF StreamDone
<1>18. ASSUME NEW t \in Attempts, StreamTrap(t) PROVE Once'
  BY <1>18 DEF StreamTrap
<1>19. ASSUME NEW c \in Conns, ConnDrop(c) PROVE Once'
  BY <1>19 DEF ConnDrop
<1> HIDE DEF TypeOK, ListenerRec, StreamRec, ConsumerRec, ProcRec, Procs, Wiring, Attaching, Registered,
    Once, OneConn, Roles, IsToAttach
<1>20. ASSUME UNCHANGED <<stream, proc>> PROVE Once'
  BY <1>20 DEF Once, Attaching, Registered, IsToAttach
<1> QED
  BY ZenonT(30),
     <1>1, <1>2, <1>3, <1>4, <1>5, <1>6, <1>7, <1>8, <1>9, <1>10, <1>11, <1>12, <1>13, <1>14,
     <1>15, <1>16, <1>17, <1>18, <1>19, <1>20
  DEF vars, Next, CallerCall, CallerStep, Attach, SupervisorStep, ConsumerStep, Router, Procs, ConsumeStart, ConsumeEnd, ConsumeErr, ConsumeCheck, FinishDelete, OnFinish

\* EndSeen is preserved: a reply, once replaced, never returns.
LEMMA EndSeenStep == IInv /\ Races /\ [Next]_vars => EndSeen'
<1> SUFFICES ASSUME TypeOK, Wiring, EndSeen, Attempted, [Next]_vars
             PROVE  EndSeen'
  BY DEF IInv, Races
<1>n. Nil \notin Listeners /\ Nil \notin Attempts /\ Nil \notin IDs /\ Supervisor \notin Callers
  BY IDsAssumption, ProcsAssumption DEF Listeners, Attempts, Nil
<1>r. Ranges
  BY RangesFollow
<1>begins. \A q \in Procs : AttachBegin(q) => Begins(q)
  BY AttachBeginEffect
<1>refuses. \A q \in Procs : ListenErr(q) => Refuses(q)
  BY ListenErrEffect
<1>stops. \A q \in Callers : Detach(q) => Stops(q)
  BY DetachEffect
<1>releases. \A q \in Callers : Release(q) => Releases(q)
  BY ReleaseEffect
<1>finishes. \A u \in Attempts : FinishCancel(u) => Finishes(u)
  BY FinishCancelEffect
<1> USE <1>n DEF TypeOK, ListenerRec, StreamRec, ConsumerRec, ProcRec, Procs, Wiring, Attaching, Registered,
    EndSeen, Attempted
<1>1. ASSUME NEW p \in Callers, NEW id \in IDs, Register(p, id) PROVE EndSeen'
  BY <1>1 DEF Register, Unclaimed, Idle, NewListener, Allocated
<1>2. ASSUME NEW p \in Procs, AttachBegin(p) PROVE EndSeen'
  <2>1. Begins(p)
    BY <1>2, <1>begins
  <2> HIDE DEF TypeOK, ListenerRec, StreamRec, ConsumerRec, ProcRec
  <2> QED
    BY <1>r, <2>1 DEF Ranges, Begins
<1>3. ASSUME NEW p \in Procs, ListenOk(p) PROVE EndSeen'
  BY <1>3 DEF ListenOk
<1>4. ASSUME NEW p \in Procs, ListenErr(p) PROVE EndSeen'
  <2>1. Refuses(p)
    BY <1>4, <1>refuses
  <2> HIDE DEF TypeOK, ListenerRec, StreamRec, ConsumerRec, ProcRec
  <2> QED
    BY <1>r, <2>1 DEF Ranges, Refuses
<1>5. ASSUME NEW p \in Procs, AttachStore(p) PROVE EndSeen'
  BY <1>5 DEF AttachStore, Stored, Started, Idle
<1>6. ASSUME NEW p \in Callers, Detach(p) PROVE EndSeen'
  <2>1. Stops(p)
    BY <1>6, <1>stops
  <2> HIDE DEF TypeOK, ListenerRec, StreamRec, ConsumerRec, ProcRec
  <2> QED
    BY <1>r, <2>1 DEF Ranges, Stops
<1>7. ASSUME NEW p \in Callers, Release(p) PROVE EndSeen'
  <2>1. Releases(p)
    BY <1>7, <1>releases
  <2> HIDE DEF TypeOK, ListenerRec, StreamRec, ConsumerRec, ProcRec
  <2> QED
    BY <1>r, <2>1 DEF Ranges, Releases, Marks
<1>8. ASSUME NEW t \in Attempts, ConsumeStart(t) PROVE EndSeen'
  BY <1>8 DEF ConsumeStart
<1>9. ASSUME NEW t \in Attempts, ConsumeEnd(t) PROVE EndSeen'
  BY <1>9 DEF ConsumeEnd
<1>10. ASSUME NEW t \in Attempts, ConsumeErr(t) PROVE EndSeen'
  BY <1>10 DEF ConsumeErr
<1>11. ASSUME NEW t \in Attempts, ConsumeCheck(t) PROVE EndSeen'
  BY <1>11 DEF ConsumeCheck, Outcome
<1>12. ASSUME NEW t \in Attempts, FinishDelete(t) PROVE EndSeen'
  BY <1>12 DEF FinishDelete, Holds, Without
<1>13. ASSUME NEW t \in Attempts, FinishCancel(t) PROVE EndSeen'
  <2>1. Finishes(t)
    BY <1>13, <1>finishes
  <2> HIDE DEF TypeOK, ListenerRec, StreamRec, ConsumerRec, ProcRec
  <2> QED
    BY <1>r, <2>1 DEF Ranges, Finishes, Marks
<1>14. ASSUME NEW t \in Attempts, OnFinish(t) PROVE EndSeen'
  BY <1>14 DEF OnFinish
<1>15. ASSUME NEW t \in Attempts, StreamDone(t) PROVE EndSeen'
  BY <1>15 DEF StreamDone
<1>16. ASSUME NEW t \in Attempts, StreamTrap(t) PROVE EndSeen'
  BY <1>16 DEF StreamTrap
<1>17. ASSUME NEW c \in Conns, ConnDrop(c) PROVE EndSeen'
  BY <1>17 DEF ConnDrop
<1> HIDE DEF TypeOK, ListenerRec, StreamRec, ConsumerRec, ProcRec, Procs, Wiring, Attaching, Registered,
    EndSeen, Attempted
<1>18. ASSUME UNCHANGED <<lsn, stream, cons>> PROVE EndSeen'
  BY <1>18 DEF EndSeen, Attaching, Registered
<1> QED
  BY ZenonT(30),
     <1>1, <1>2, <1>3, <1>4, <1>5, <1>6, <1>7, <1>8, <1>9, <1>10, <1>11, <1>12, <1>13, <1>14,
     <1>15, <1>16, <1>17, <1>18
  DEF vars, Next, CallerCall, CallerStep, Attach, SupervisorStep, ConsumerStep, Router, Procs, Rollback, Unregister, CloseCancel, CloseSweep, DetachReturn, Reattach, ReattachNext, ReattachReturn

\* OpenIsRead is preserved: a store replaces an open stream by one of an earlier connection, if any.
LEMMA OpenIsReadStep == IInv /\ Races /\ [Next]_vars => OpenIsRead'
<1> SUFFICES ASSUME TypeOK, Wiring, OpenIsRead, Once, OneConn, Attempted, [Next]_vars
             PROVE  OpenIsRead'
  BY DEF IInv, Races
<1>n. Nil \notin Listeners /\ Nil \notin Attempts /\ Nil \notin IDs /\ Supervisor \notin Callers
  BY IDsAssumption, ProcsAssumption DEF Listeners, Attempts, Nil
<1>r. Ranges
  BY RangesFollow
<1>begins. \A q \in Procs : AttachBegin(q) => Begins(q)
  BY AttachBeginEffect
<1>refuses. \A q \in Procs : ListenErr(q) => Refuses(q)
  BY ListenErrEffect
<1>stops. \A q \in Callers : Detach(q) => Stops(q)
  BY DetachEffect
<1>releases. \A q \in Callers : Release(q) => Releases(q)
  BY ReleaseEffect
<1>finishes. \A u \in Attempts : FinishCancel(u) => Finishes(u)
  BY FinishCancelEffect
<1> USE <1>n DEF TypeOK, ListenerRec, StreamRec, ConsumerRec, ProcRec, Procs, Wiring, Attaching, Registered,
    OpenIsRead, Once, OneConn, Attempted, HoldsOlder
<1>1. ASSUME NEW p \in Callers, NEW id \in IDs, Register(p, id) PROVE OpenIsRead'
  BY SMTT(30), <1>1 DEF Register, Unclaimed, Idle, NewListener, Allocated
<1>2. ASSUME NEW p \in Procs, AttachBegin(p) PROVE OpenIsRead'
  <2>1. Begins(p)
    BY <1>2, <1>begins
  <2> HIDE DEF TypeOK, ListenerRec, StreamRec, ConsumerRec, ProcRec
  <2> QED
    BY SMTT(30), <1>r, <2>1 DEF Ranges, Begins
<1>3. ASSUME NEW p \in Procs, ListenOk(p) PROVE OpenIsRead'
  <2> DEFINE a == proc[p].attempt
  <2>1. a \in Attempts /\ proc[p].at = "listen" /\ proc'[p].at = "store" /\ proc'[p].attempt = a
    BY <1>3 DEF ListenOk
  <2>2. \A q \in Procs \ {p} : proc'[q] = proc[q]
    BY <1>3 DEF ListenOk
  <2>3. /\ \A u \in Attempts : stream'[u].conn = stream[u].conn /\ stream'[u].lsn = stream[u].lsn
        /\ \A u \in Attempts \ {a} : stream'[u].st = stream[u].st
        /\ UNCHANGED <<lsn, cons>>
    BY <1>3, <2>1 DEF ListenOk
  <2> HIDE DEF a, TypeOK, ListenerRec, StreamRec, ConsumerRec, ProcRec
  <2> QED
    BY SMTT(30), <1>r, <1>n, <2>1, <2>2, <2>3 DEF Ranges
<1>4. ASSUME NEW p \in Procs, ListenErr(p) PROVE OpenIsRead'
  <2>1. Refuses(p)
    BY <1>4, <1>refuses
  <2> HIDE DEF TypeOK, ListenerRec, StreamRec, ConsumerRec, ProcRec
  <2> QED
    BY SMTT(30), <1>r, <2>1 DEF Ranges, Refuses
<1>5. ASSUME NEW p \in Procs, AttachStore(p) PROVE OpenIsRead'
  <2> DEFINE a == proc[p].attempt
             l == proc[p].lsn
  <2>1. /\ a \in Attempts /\ l \in Listeners /\ stream[a].lsn = l /\ stream[a].st # "none"
        /\ lsn'[l].reply = a /\ \A k \in Listeners \ {l} : lsn'[k].reply = lsn[k].reply
        /\ cons'[a].pc = "start" /\ \A u \in Attempts \ {a} : cons'[u] = cons[u]
        /\ \A q \in Procs \ {p} : proc'[q] = proc[q]
        /\ UNCHANGED stream
    BY <1>5 DEF AttachStore, Stored, Started
  <2>2. ASSUME NEW t \in Attempts, t # a, stream[t].st = "open", stream[t].lsn = l
        PROVE  stream[a].conn < stream[t].conn
    <3>1. stream[t].conn = mconn /\ stream[a].conn # stream[t].conn
      BY <2>1, <2>2
    <3>2. mconn \in Conns /\ stream[a].conn \in Conns /\ stream[a].conn <= mconn
      BY <2>1
    <3>3. \A i, j \in Conns : i <= j /\ i # j => i < j
      BY DEF Conns
    <3> QED
      BY <3>1, <3>2, <3>3
  <2> HIDE DEF a, l, TypeOK, ListenerRec, StreamRec, ConsumerRec, ProcRec
  <2>3. \A t \in Attempts : stream[t].st = "open" => stream[t].lsn \in Listeners
    BY <1>r, <1>n DEF Ranges
  <2>4. ASSUME NEW t \in Attempts, t # a, stream[t].st = "open", stream[t].lsn = l
        PROVE  HoldsOlder(t)'
    BY <1>n, <2>1, <2>2, <2>4
  <2>5. ASSUME NEW t \in Attempts, t # a, stream[t].st = "open", stream[t].lsn # l
        PROVE  \/ \E q \in Procs : proc'[q].at = "store" /\ proc'[q].attempt = t
               \/ /\ lsn'[stream[t].lsn].reply = t
                  /\ cons'[t].pc = "start" \/ (cons'[t].pc = "range" /\ cons'[t].reply = t)
               \/ HoldsOlder(t)'
    <3>1. CASE \E q \in Procs : proc[q].at = "store" /\ proc[q].attempt = t
      BY <2>1, <2>5, <3>1 DEF a
    <3>2. lsn'[stream[t].lsn].reply = lsn[stream[t].lsn].reply /\ cons'[t] = cons[t]
      BY <2>1, <2>3, <2>5
    <3> QED
      BY <2>1, <2>5, <3>1, <3>2
  <2>6. \A t \in Attempts : stream'[t] = stream[t]
    BY <2>1
  <2>7. stream[a].st = "open" => lsn'[stream[a].lsn].reply = a /\ cons'[a].pc = "start"
    BY <2>1
  <2> QED
    BY <2>4, <2>5, <2>6, <2>7
<1>6. ASSUME NEW p \in Callers, Rollback(p) PROVE OpenIsRead'
  BY <1>6 DEF Rollback, Without, Idle
<1>7. ASSUME NEW p \in Callers, NEW id \in IDs, Unregister(p, id) PROVE OpenIsRead'
  BY <1>7 DEF Unregister, Without, Idle
<1>8. ASSUME NEW p \in Callers, CloseCancel(p) PROVE OpenIsRead'
  BY <1>8 DEF CloseCancel
<1>9. ASSUME NEW p \in Callers, CloseSweep(p) PROVE OpenIsRead'
  BY <1>9 DEF CloseSweep
<1>10. ASSUME NEW p \in Callers, Detach(p) PROVE OpenIsRead'
  <2>1. Stops(p)
    BY <1>10, <1>stops
  <2> HIDE DEF TypeOK, ListenerRec, StreamRec, ConsumerRec, ProcRec
  <2> QED
    BY <1>r, <2>1 DEF Ranges, Stops
<1>11. ASSUME NEW p \in Callers, Release(p) PROVE OpenIsRead'
  <2>1. Releases(p)
    BY <1>11, <1>releases
  <2> HIDE DEF TypeOK, ListenerRec, StreamRec, ConsumerRec, ProcRec
  <2> QED
    BY <1>r, <2>1 DEF Ranges, Releases, Marks
<1>12. ASSUME NEW p \in Callers, DetachReturn(p) PROVE OpenIsRead'
  BY SMTT(30), <1>12 DEF DetachReturn, Idle
<1>13. ASSUME Reattach PROVE OpenIsRead'
  BY <1>13 DEF Reattach, Snapshot, Idle
<1>14. ASSUME ReattachNext PROVE OpenIsRead'
  BY <1>14 DEF ReattachNext
<1>15. ASSUME ReattachReturn PROVE OpenIsRead'
  BY <1>15 DEF ReattachReturn, Idle
<1>16. ASSUME NEW t \in Attempts, ConsumeStart(t) PROVE OpenIsRead'
  BY <1>16 DEF ConsumeStart
<1>17. ASSUME NEW t \in Attempts, ConsumeEnd(t) PROVE OpenIsRead'
  BY <1>17 DEF ConsumeEnd
<1>18. ASSUME NEW t \in Attempts, ConsumeErr(t) PROVE OpenIsRead'
  BY <1>18 DEF ConsumeErr
<1>19. ASSUME NEW t \in Attempts, ConsumeCheck(t) PROVE OpenIsRead'
  BY <1>19 DEF ConsumeCheck, Outcome
<1>20. ASSUME NEW t \in Attempts, FinishDelete(t) PROVE OpenIsRead'
  BY <1>20 DEF FinishDelete, Holds, Without
<1>21. ASSUME NEW t \in Attempts, FinishCancel(t) PROVE OpenIsRead'
  <2>1. Finishes(t)
    BY <1>21, <1>finishes
  <2> HIDE DEF TypeOK, ListenerRec, StreamRec, ConsumerRec, ProcRec
  <2> QED
    BY <1>r, <2>1 DEF Ranges, Finishes, Marks
<1>22. ASSUME NEW t \in Attempts, OnFinish(t) PROVE OpenIsRead'
  BY <1>22 DEF OnFinish
<1>23. ASSUME NEW t \in Attempts, StreamDone(t) PROVE OpenIsRead'
  BY <1>23 DEF StreamDone
<1>24. ASSUME NEW t \in Attempts, StreamTrap(t) PROVE OpenIsRead'
  BY <1>24 DEF StreamTrap
<1>25. ASSUME NEW c \in Conns, ConnDrop(c) PROVE OpenIsRead'
  BY <1>25 DEF ConnDrop
<1> HIDE DEF TypeOK, ListenerRec, StreamRec, ConsumerRec, ProcRec, Procs, Wiring, Attaching, Registered,
    OpenIsRead, Once, OneConn, Attempted, HoldsOlder
<1>26. ASSUME UNCHANGED <<lsn, stream, cons, proc>> PROVE OpenIsRead'
  BY <1>26 DEF OpenIsRead, Attaching, Registered, HoldsOlder
<1> QED
  BY ZenonT(30),
     <1>1, <1>2, <1>3, <1>4, <1>5, <1>6, <1>7, <1>8, <1>9, <1>10, <1>11, <1>12, <1>13, <1>14,
     <1>15, <1>16, <1>17, <1>18, <1>19, <1>20, <1>21, <1>22, <1>23, <1>24, <1>25, <1>26
  DEF vars, Next, CallerCall, CallerStep, Attach, SupervisorStep, ConsumerStep, Router, Procs

\* ReattachMissesNone is preserved: every listener of the map is in the snapshot, or registers with the new connection.
LEMMA ReattachMissesNoneStep == IInv /\ Races /\ [Next]_vars => ReattachMissesNone'
<1> SUFFICES ASSUME TypeOK, Wiring, ReattachMissesNone, OneConn, Roles, [Next]_vars
             PROVE  ReattachMissesNone'
  BY DEF IInv, Races
<1>n. Nil \notin Listeners /\ Nil \notin Attempts /\ Nil \notin IDs /\ Supervisor \notin Callers
  BY IDsAssumption, ProcsAssumption DEF Listeners, Attempts, Nil
<1>r. Ranges
  BY RangesFollow
<1>begins. \A q \in Procs : AttachBegin(q) => Begins(q)
  BY AttachBeginEffect
<1>refuses. \A q \in Procs : ListenErr(q) => Refuses(q)
  BY ListenErrEffect
<1>stops. \A q \in Callers : Detach(q) => Stops(q)
  BY DetachEffect
<1>releases. \A q \in Callers : Release(q) => Releases(q)
  BY ReleaseEffect
<1>finishes. \A u \in Attempts : FinishCancel(u) => Finishes(u)
  BY FinishCancelEffect
<1> USE <1>n DEF TypeOK, ListenerRec, StreamRec, ConsumerRec, ProcRec, Procs, Wiring, Attaching, Registered,
    ReattachMissesNone, OneConn, Roles, AttachesNow, Tried
<1>1. ASSUME NEW p \in Callers, NEW id \in IDs, Register(p, id) PROVE ReattachMissesNone'
  BY SMTT(30), <1>1 DEF Register, Unclaimed, Idle, NewListener, Allocated
<1>2. ASSUME NEW p \in Procs, AttachBegin(p) PROVE ReattachMissesNone'
  <2>1. Begins(p)
    BY <1>2, <1>begins
  <2> HIDE DEF TypeOK, ListenerRec, StreamRec, ConsumerRec, ProcRec
  <2>2. ASSUME NEW l \in Listeners, Tried(l)
        PROVE  Tried(l)'
    <3>1. PICK t \in Attempts : stream[t].st # "none" /\ stream[t].lsn = l /\ stream[t].conn = mconn
      BY <2>2
    <3>2. CASE t = proc'[p].attempt
      BY <2>1, <3>1, <3>2 DEF Begins
    <3>3. CASE t # proc'[p].attempt
      BY <2>1, <3>1, <3>3 DEF Begins
    <3> QED
      BY <3>2, <3>3
  <2>3. ASSUME NEW l \in Listeners, NEW q \in Procs, AttachesNow(q, l)
        PROVE  AttachesNow(q, l)'
    BY <2>1, <2>3 DEF Begins
  <2>4. proc'[Supervisor].todo = proc[Supervisor].todo /\ UNCHANGED entries
    BY <2>1 DEF Begins
  <2> HIDE DEF Tried, AttachesNow
  <2> QED
    BY <2>2, <2>3, <2>4
<1>3. ASSUME NEW p \in Procs, ListenOk(p) PROVE ReattachMissesNone'
  BY <1>3 DEF ListenOk
<1>4. ASSUME NEW p \in Procs, ListenErr(p) PROVE ReattachMissesNone'
  <2>1. Refuses(p)
    BY <1>4, <1>refuses
  <2> HIDE DEF TypeOK, ListenerRec, StreamRec, ConsumerRec, ProcRec
  <2> QED
    BY <1>r, <2>1 DEF Ranges, Refuses
<1>5. ASSUME NEW p \in Procs, AttachStore(p) PROVE ReattachMissesNone'
  BY SMTT(30), <1>5 DEF AttachStore, Stored, Started, Idle
<1>6. ASSUME NEW p \in Callers, Rollback(p) PROVE ReattachMissesNone'
  BY <1>6 DEF Rollback, Without, Idle
<1>7. ASSUME NEW p \in Callers, NEW id \in IDs, Unregister(p, id) PROVE ReattachMissesNone'
  BY <1>7 DEF Unregister, Without, Idle
<1>8. ASSUME NEW p \in Callers, CloseCancel(p) PROVE ReattachMissesNone'
  BY <1>8 DEF CloseCancel
<1>9. ASSUME NEW p \in Callers, CloseSweep(p) PROVE ReattachMissesNone'
  BY <1>9 DEF CloseSweep
<1>10. ASSUME NEW p \in Callers, Detach(p) PROVE ReattachMissesNone'
  <2>1. Stops(p)
    BY <1>10, <1>stops
  <2> HIDE DEF TypeOK, ListenerRec, StreamRec, ConsumerRec, ProcRec
  <2> QED
    BY <1>r, <2>1 DEF Ranges, Stops
<1>11. ASSUME NEW p \in Callers, Release(p) PROVE ReattachMissesNone'
  <2>1. Releases(p)
    BY <1>11, <1>releases
  <2> HIDE DEF TypeOK, ListenerRec, StreamRec, ConsumerRec, ProcRec
  <2> QED
    BY <1>r, <2>1 DEF Ranges, Releases, Marks
<1>12. ASSUME NEW p \in Callers, DetachReturn(p) PROVE ReattachMissesNone'
  BY <1>12 DEF DetachReturn, Idle
<1>13. ASSUME Reattach PROVE ReattachMissesNone'
  BY <1>13 DEF Reattach, Snapshot, Idle
<1>14. ASSUME ReattachNext PROVE ReattachMissesNone'
  BY <1>14 DEF ReattachNext
<1>15. ASSUME ReattachReturn PROVE ReattachMissesNone'
  BY <1>15 DEF ReattachReturn, Idle
<1>16. ASSUME NEW t \in Attempts, FinishDelete(t) PROVE ReattachMissesNone'
  BY <1>16 DEF FinishDelete, Holds, Without
<1>17. ASSUME NEW t \in Attempts, FinishCancel(t) PROVE ReattachMissesNone'
  <2>1. Finishes(t)
    BY <1>17, <1>finishes
  <2> HIDE DEF TypeOK, ListenerRec, StreamRec, ConsumerRec, ProcRec
  <2> QED
    BY <1>r, <2>1 DEF Ranges, Finishes, Marks
<1>18. ASSUME NEW t \in Attempts, StreamDone(t) PROVE ReattachMissesNone'
  BY <1>18 DEF StreamDone
<1>19. ASSUME NEW t \in Attempts, StreamTrap(t) PROVE ReattachMissesNone'
  BY <1>19 DEF StreamTrap
<1>20. ASSUME NEW c \in Conns, ConnDrop(c) PROVE ReattachMissesNone'
  BY <1>20 DEF ConnDrop
<1> HIDE DEF TypeOK, ListenerRec, StreamRec, ConsumerRec, ProcRec, Procs, Wiring, Attaching, Registered,
    ReattachMissesNone, OneConn, Roles, AttachesNow, Tried
<1>21. ASSUME UNCHANGED <<mconn, entries, stream, proc>> PROVE ReattachMissesNone'
  BY <1>21 DEF ReattachMissesNone, Attaching, Registered, AttachesNow, Tried
<1> QED
  BY ZenonT(30),
     <1>1, <1>2, <1>3, <1>4, <1>5, <1>6, <1>7, <1>8, <1>9, <1>10, <1>11, <1>12, <1>13, <1>14,
     <1>15, <1>16, <1>17, <1>18, <1>19, <1>20, <1>21
  DEF vars, Next, CallerCall, CallerStep, Attach, SupervisorStep, ConsumerStep, Router, Procs, ConsumeStart, ConsumeEnd, ConsumeErr, ConsumeCheck, OnFinish

-----------------------------------------------------------------------------
\* Races holds in every reachable state.
THEOREM RacesInvariance == Spec => []Races
<1>1. IInv /\ Races /\ [Next]_vars => Races'
  BY RolesStep, OneConnStep, AttemptedStep, OnceStep, EndSeenStep, OpenIsReadStep, ReattachMissesNoneStep DEF Races
<1>2. QED BY RacesInit, Invariance, <1>1, PTL DEF Spec

\* A running stream is the reply that its listener holds and is read by its own goroutine,
\* whatever overlaps, unless a Register that began before the reconnect has replaced it.
THEOREM HeldStreamIsRead == Spec => []OpenIsRead
<1>1. Races => OpenIsRead BY ZenonT(30) DEF Races
<1>2. QED BY RacesInvariance, <1>1, PTL

\* consume removes a listener after !done only, unless its reply had been replaced before it
\* read the error.
THEOREM DropKeepsListener == Spec => []DropKeepsEntry
<1>1. Races => DropKeepsEntry BY ZenonT(30) DEF Races, EndSeen, DropKeepsEntry
<1>2. QED BY RacesInvariance, <1>1, PTL

\* A reconnect leaves no listener of the map out, whatever overlaps with it.
THEOREM ReattachLeavesNoneOut == Spec => []ReattachMissesNone
<1>1. Races => ReattachMissesNone BY ZenonT(30) DEF Races
<1>2. QED BY RacesInvariance, <1>1, PTL
=============================================================================
