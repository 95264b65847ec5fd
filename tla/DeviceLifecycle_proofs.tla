----------------------- MODULE DeviceLifecycle_proofs -----------------------
(***************************************************************************)
(* Proofs about DeviceLifecycle, for any number of callers and of          *)
(* reconnects: no connection is forgotten, the parts have the current ones,*)
(* nothing runs after CloseAndWait, and every loss is reported.            *)
(***************************************************************************)
EXTENDS DeviceLifecycle, TLAPS

\* Where a supervisor is tells what it has dialled, and only superviseCommand announces;
\* who waits for the supervisors has seen the shutdown end.
Wired ==
    /\ \A s \in Sides : /\ sup[s].pc = "swap" => sup[s].dialled \in Conns
                        /\ sup[s].pc = "attach" => sup[s].dialled = current[s]
                        /\ sup[s].pc = "announce" => s = Command
    /\ \A p \in Callers : at[p].pc = "wait" => once = "done"

IInv == /\ TypeOK /\ Wired /\ EveryConnOwned /\ AttachedIsCurrent /\ WaitedIsQuiet /\ LossIsSeen

SupPCs == {"wait", "got", "report", "dial", "swap", "attach", "announce", "gone"}
AtRec  == [pc : {"idle", "once", "notify", "cancel", "streams", "polls",
                 "conns", "wait", "closed", "waited"}, wait : BOOLEAN]
-----------------------------------------------------------------------------
LEMMA GoToTyped ==
    ASSUME TypeOK, NEW s \in Sides, NEW pc \in SupPCs, GoTo(s, pc)
    PROVE  /\ sup' \in [Sides -> SupRec]
           /\ sup'[s].pc = pc /\ sup'[s].dialled = sup[s].dialled
           /\ \A r \in Sides \ {s} : sup'[r] = sup[r]
<1>1. [sup[s] EXCEPT !.pc = pc] \in SupRec
  BY DEF TypeOK, SupRec, SupPCs
<1>2. sup' = [sup EXCEPT ![s] = [sup[s] EXCEPT !.pc = pc]]
  BY DEF GoTo, TypeOK
<1> QED
  BY <1>1, <1>2 DEF TypeOK, SupRec

LEMMA ClosingTyped ==
    ASSUME TypeOK, NEW cs, link' = Closing(cs)
    PROVE  /\ link' \in [Conns -> LinkRec]
           /\ \A c \in Conns : /\ link'[c].st = link[c].st
                               /\ link'[c].closed = IF c \in cs THEN TRUE ELSE link[c].closed
BY DEF TypeOK, Closing, LinkRec

LEMMA InitInv == Init => IInv
<1> SUFFICES ASSUME Init PROVE IInv
  OBVIOUS
<1>1. TypeOK
  <2>1. 1 \in Conns /\ 2 \in Conns
    BY DeviceAssumption DEF Conns
  <2>2. link \in [Conns -> LinkRec]
    BY DEF Init, LinkRec
  <2>3. current \in [Sides -> Conns] /\ attached \in [Sides -> Conns]
    BY <2>1 DEF Init
  <2>4. sup \in [Sides -> SupRec]
    BY DEF Init, SupRec
  <2> QED
    BY <2>2, <2>3, <2>4 DEF Init, TypeOK
<1>2. EveryConnOwned
  <2>1. \A c \in Conns : link[c].st # "none" => c = 1 \/ c = 2
    BY DEF Init, Conns
  <2>2. current[Stream] = 1 /\ current[Command] = 2 /\ Stream \in Sides /\ Command \in Sides
    BY SidesAssumption DEF Init, Sides
  <2> QED
    BY <2>1, <2>2 DEF EveryConnOwned
<1>3. Wired /\ AttachedIsCurrent /\ WaitedIsQuiet
  BY DEF Init, Wired, AttachedIsCurrent, WaitedIsQuiet, At
<1>4. LossIsSeen
  BY DEF Init, LossIsSeen, Sides
<1> QED
  BY <1>1, <1>2, <1>3, <1>4 DEF IInv

-----------------------------------------------------------------------------
(* The supervisors.                                                        *)

\* The steps of the select and of the reports, which touch no connection.
LEMMA SelectInv ==
    ASSUME IInv, NEW s \in Sides,
           \/ SupDone(s) \/ SupSilent(s) \/ SupError(s) \/ SupCheck(s) \/ SupReport(s)
           \/ DialFail(s) \/ Announce(s)
    PROVE  IInv'
<1>0. TypeOK /\ Wired /\ EveryConnOwned /\ AttachedIsCurrent /\ WaitedIsQuiet /\ LossIsSeen
  BY DEF IInv
<1>1. /\ UNCHANGED <<ctxDone, once, link, current, attached, at>>
      /\ sup[s].pc \in {"wait", "got", "report", "dial", "announce"}
  BY DEF SupDone, SupSilent, SupError, SupCheck, SupReport, DialFail, Announce
<1>2. PICK pc \in {"gone", "got", "report", "dial", "wait"} :
         /\ GoTo(s, pc)
         /\ pc = "dial" => s # Command \/ status' = "error"
         /\ status' = status \/ status' = "error" \/ (sup[s].pc = "announce" /\ pc = "wait" /\ status' = "connected")
  BY DEF SupDone, SupSilent, SupError, SupCheck, SupReport, DialFail, Announce, AfterLoss
<1>3. /\ sup' \in [Sides -> SupRec]
      /\ sup'[s].pc = pc /\ sup'[s].dialled = sup[s].dialled
      /\ \A r \in Sides \ {s} : sup'[r] = sup[r]
  BY <1>0, <1>2, GoToTyped DEF SupPCs
<1>4. TypeOK'
  BY <1>0, <1>1, <1>2, <1>3 DEF TypeOK
<1>5. Wired' /\ AttachedIsCurrent'
  BY <1>0, <1>1, <1>3 DEF Wired, AttachedIsCurrent
<1>6. EveryConnOwned'
  BY <1>0, <1>1, <1>3 DEF EveryConnOwned
<1>7. WaitedIsQuiet'
  BY <1>0, <1>1 DEF WaitedIsQuiet, At
<1>8. LossIsSeen'
  <2>1. Command \in Sides
    BY DEF Sides
  <2>2. CASE s = Command
    BY <1>2, <1>3, <2>2 DEF LossIsSeen
  <2>3. CASE s # Command
    BY <1>0, <1>2, <1>3, <2>1, <2>3 DEF LossIsSeen, Wired
  <2> QED
    BY <2>2, <2>3
<1> QED
  BY <1>4, <1>5, <1>6, <1>7, <1>8 DEF IInv

LEMMA DialOkInv == ASSUME IInv, NEW s \in Sides, DialOk(s) PROVE IInv'
<1>0. TypeOK /\ Wired /\ EveryConnOwned /\ AttachedIsCurrent /\ WaitedIsQuiet /\ LossIsSeen
  BY DEF IInv
<1>1. PICK c \in Conns :
         /\ link[c].st = "none" /\ link' = [link EXCEPT ![c].st = "up"]
         /\ sup' = [sup EXCEPT ![s].pc = "swap", ![s].dialled = c]
  BY DEF DialOk, DialResult
<1>2. sup[s].pc = "dial" /\ UNCHANGED <<ctxDone, once, current, attached, status, at>>
  BY DEF DialOk
<1>3. /\ sup' \in [Sides -> SupRec] /\ sup'[s].pc = "swap" /\ sup'[s].dialled = c
      /\ \A r \in Sides \ {s} : sup'[r] = sup[r]
  <2>0. sup[s] \in SupRec
    BY <1>0 DEF TypeOK
  <2>1. [sup[s] EXCEPT !.pc = "swap", !.dialled = c] \in SupRec
    BY <2>0 DEF SupRec
  <2>2. sup' = [sup EXCEPT ![s] = [sup[s] EXCEPT !.pc = "swap", !.dialled = c]]
    BY <1>0, <1>1 DEF TypeOK
  <2> QED
    BY <1>0, <2>1, <2>2 DEF TypeOK, SupRec
<1>4. /\ link' \in [Conns -> LinkRec] /\ \A k \in Conns \ {c} : link'[k] = link[k]
  BY <1>0, <1>1 DEF TypeOK, LinkRec
<1>5. TypeOK'
  BY <1>0, <1>2, <1>3, <1>4 DEF TypeOK
<1>6. Wired' /\ AttachedIsCurrent'
  BY <1>0, <1>2, <1>3 DEF Wired, AttachedIsCurrent
<1>7. EveryConnOwned'
  BY <1>0, <1>2, <1>3, <1>4 DEF EveryConnOwned
<1>8. WaitedIsQuiet'
  BY <1>0, <1>2 DEF WaitedIsQuiet, At
<1>9. LossIsSeen'
  <2>1. Command \in Sides
    BY DEF Sides
  <2> QED
    BY <1>0, <1>2, <1>3, <2>1 DEF LossIsSeen
<1> QED
  BY <1>5, <1>6, <1>7, <1>8, <1>9 DEF IInv

LEMMA SwapInv == ASSUME IInv, NEW s \in Sides, Swap(s) PROVE IInv'
<1>0. TypeOK /\ Wired /\ EveryConnOwned /\ AttachedIsCurrent /\ WaitedIsQuiet /\ LossIsSeen
  BY DEF IInv
<1>1. /\ sup[s].pc = "swap" /\ sup[s].dialled \in Conns
      /\ current' = [current EXCEPT ![s] = sup[s].dialled]
      /\ UNCHANGED <<ctxDone, once, attached, status, at>>
  BY <1>0 DEF Swap, Wired
<1>2. /\ sup' \in [Sides -> SupRec] /\ sup'[s].pc = "attach" /\ sup'[s].dialled = sup[s].dialled
      /\ \A r \in Sides \ {s} : sup'[r] = sup[r]
  BY <1>0, GoToTyped DEF Swap, SupPCs
<1>3. /\ link' \in [Conns -> LinkRec]
      /\ \A c \in Conns : /\ link'[c].st = link[c].st
                          /\ link'[c].closed = IF c \in {current[s]} THEN TRUE ELSE link[c].closed
  <2>1. link' = Closing({current[s]})
    BY DEF Swap
  <2> QED
    BY <1>0, <2>1, ClosingTyped
<1>4. current'[s] = sup[s].dialled /\ \A r \in Sides \ {s} : current'[r] = current[r]
  BY <1>0, <1>1 DEF TypeOK
<1>5. TypeOK'
  BY <1>0, <1>1, <1>2, <1>3 DEF TypeOK
<1>6. Wired' /\ AttachedIsCurrent'
  BY <1>0, <1>1, <1>2, <1>4 DEF Wired, AttachedIsCurrent
<1>7. EveryConnOwned'
  <2> SUFFICES ASSUME NEW c \in Conns, link[c].st # "none", ~link[c].closed, c # current[s]
               PROVE  \E r \in Sides : current'[r] = c \/ (sup'[r].pc = "swap" /\ sup'[r].dialled = c)
    BY <1>3 DEF EveryConnOwned
  <2>1. PICK r \in Sides : current[r] = c \/ (sup[r].pc = "swap" /\ sup[r].dialled = c)
    BY <1>0 DEF EveryConnOwned
  <2> QED
    BY <1>2, <1>4, <2>1
<1>8. WaitedIsQuiet'
  <2>1. \A p \in Callers : ~At(p, "waited")
    BY <1>0, <1>1 DEF WaitedIsQuiet
  <2> QED
    BY <1>1, <2>1 DEF WaitedIsQuiet, At
<1>9. LossIsSeen'
  <2>1. Command \in Sides
    BY DEF Sides
  <2> QED
    BY <1>0, <1>1, <1>2, <2>1 DEF LossIsSeen
<1> QED
  BY <1>5, <1>6, <1>7, <1>8, <1>9 DEF IInv

LEMMA AttachNewInv == ASSUME IInv, NEW s \in Sides, AttachNew(s) PROVE IInv'
<1>0. TypeOK /\ Wired /\ EveryConnOwned /\ AttachedIsCurrent /\ WaitedIsQuiet /\ LossIsSeen
  BY DEF IInv
<1> DEFINE pc == IF s = Command THEN "announce" ELSE "wait"
<1>1. /\ sup[s].pc = "attach" /\ sup[s].dialled = current[s]
      /\ attached' = [attached EXCEPT ![s] = current[s]]
      /\ sup' = [sup EXCEPT ![s].pc = pc, ![s].dialled = Nil]
      /\ UNCHANGED <<ctxDone, once, link, current, status, at>>
  BY <1>0 DEF AttachNew, HandedOver, Wired
<1>2. /\ sup' \in [Sides -> SupRec] /\ sup'[s].pc = pc
      /\ \A r \in Sides \ {s} : sup'[r] = sup[r]
  <2>0. sup[s] \in SupRec /\ pc \in {"announce", "wait"}
    BY <1>0 DEF TypeOK
  <2>1. [sup[s] EXCEPT !.pc = pc, !.dialled = Nil] \in SupRec
    <3> HIDE DEF pc
    <3> QED
      BY <2>0 DEF SupRec
  <2>2. sup' = [sup EXCEPT ![s] = [sup[s] EXCEPT !.pc = pc, !.dialled = Nil]]
    BY <1>0, <1>1 DEF TypeOK
  <2> QED
    BY <1>0, <2>1, <2>2 DEF TypeOK, SupRec
<1>3. TypeOK'
  BY <1>0, <1>1, <1>2 DEF TypeOK
<1>4. Wired' /\ AttachedIsCurrent'
  BY <1>0, <1>1, <1>2 DEF Wired, AttachedIsCurrent, TypeOK
<1>5. EveryConnOwned'
  BY <1>0, <1>1, <1>2 DEF EveryConnOwned
<1>6. WaitedIsQuiet'
  BY <1>0, <1>1 DEF WaitedIsQuiet, At
<1>7. LossIsSeen'
  <2>1. Command \in Sides
    BY DEF Sides
  <2> QED
    BY <1>0, <1>1, <1>2, <2>1 DEF LossIsSeen
<1> QED
  BY <1>3, <1>4, <1>5, <1>6, <1>7 DEF IInv

-----------------------------------------------------------------------------
(* The callers and the environment.                                        *)

LEMMA CallerInv ==
    ASSUME IInv, NEW p \in Callers, CloseStep(p) \/ \E wait \in BOOLEAN : Close(p, wait)
    PROVE  IInv'
<1>0. TypeOK /\ Wired /\ EveryConnOwned /\ AttachedIsCurrent /\ WaitedIsQuiet /\ LossIsSeen
  BY DEF IInv
<1>1. /\ UNCHANGED <<current, attached, sup>>
      /\ status' \in {status, "closed"} /\ ctxDone' \in BOOLEAN
      /\ once' \in {"new", "running", "done"} /\ (once = "done" => once' = "done")
  BY <1>0 DEF CloseStep, OnceFirst, OnceOther, NotifyClosed, Cancel, CloseParts, CloseConns, WaitReturn,
              Close, TypeOK
<1>2. PICK rec \in AtRec : /\ at' = [at EXCEPT ![p] = rec]
                           /\ rec.pc = "wait" => once' = "done"
                           /\ rec.pc = "waited" => at[p].pc = "wait" /\ SupervisorsGone
  <2>0. \A pc \in {"once", "notify", "cancel", "streams", "polls", "conns", "wait", "closed", "waited"} :
           Go(p, pc) => /\ [at[p] EXCEPT !.pc = pc] \in AtRec
                        /\ [at[p] EXCEPT !.pc = pc].pc = pc
                        /\ at' = [at EXCEPT ![p] = [at[p] EXCEPT !.pc = pc]]
    BY <1>0 DEF TypeOK, Go, AtRec
  <2>1. CASE OnceFirst(p) \/ NotifyClosed(p) \/ Cancel(p) \/ CloseParts(p)
    BY <2>0, <2>1 DEF OnceFirst, NotifyClosed, Cancel, CloseParts
  <2>2. CASE OnceOther(p) \/ CloseConns(p)
    <3>1. once' = "done" /\ (Go(p, "wait") \/ Go(p, "closed"))
      BY <2>2 DEF OnceOther, CloseConns
    <3> QED
      BY <2>0, <3>1
  <2>3. CASE WaitReturn(p)
    BY <2>0, <2>3 DEF WaitReturn, At
  <2>4. ASSUME NEW wait \in BOOLEAN, Close(p, wait) PROVE at' = [at EXCEPT ![p] = [pc |-> "once", wait |-> wait]]
    BY <2>4 DEF Close
  <2>5. \A wait \in BOOLEAN : [pc |-> "once", wait |-> wait] \in AtRec
    BY DEF AtRec
  <2> QED
    BY <2>1, <2>2, <2>3, <2>4, <2>5 DEF CloseStep
<1>3. /\ at' \in [Callers -> AtRec] /\ at'[p] = rec
      /\ \A q \in Callers \ {p} : at'[q] = at[q]
  BY <1>0, <1>2 DEF TypeOK, AtRec
<1>4. /\ link' \in [Conns -> LinkRec]
      /\ \A c \in Conns : link'[c].st = link[c].st /\ (link[c].closed => link'[c].closed)
  <2>1. CASE CloseConns(p)
    BY <1>0, <2>1, ClosingTyped DEF CloseConns
  <2>2. CASE ~CloseConns(p)
    BY <1>0, <2>2 DEF CloseStep, OnceFirst, OnceOther, NotifyClosed, Cancel, CloseParts, WaitReturn,
                      Close, TypeOK
  <2> QED
    BY <2>1, <2>2
<1>5. TypeOK'
  BY <1>0, <1>1, <1>3, <1>4 DEF TypeOK, AtRec
<1>6. Wired'
  BY <1>0, <1>1, <1>2, <1>3 DEF Wired
<1>7. EveryConnOwned' /\ AttachedIsCurrent' /\ LossIsSeen'
  BY <1>0, <1>1, <1>4 DEF EveryConnOwned, AttachedIsCurrent, LossIsSeen
<1>8. WaitedIsQuiet'
  <2>1. SUFFICES ASSUME NEW q \in Callers, at'[q].pc = "waited"
                 PROVE  once' = "done" /\ \A s \in Sides : sup'[s].pc = "gone"
    BY DEF WaitedIsQuiet, At
  <2>2. CASE q = p
    BY <1>0, <1>1, <1>2, <1>3, <2>1, <2>2 DEF Wired, SupervisorsGone
  <2>3. CASE q # p
    BY <1>0, <1>1, <1>3, <2>1, <2>3 DEF WaitedIsQuiet, At
  <2> QED
    BY <2>2, <2>3
<1> QED
  BY <1>5, <1>6, <1>7, <1>8 DEF IInv

LEMMA EnvInv ==
    ASSUME IInv, ParentCancel \/ \E c \in Conns : LinkDies(c)
    PROVE  IInv'
<1>0. TypeOK /\ Wired /\ EveryConnOwned /\ AttachedIsCurrent /\ WaitedIsQuiet /\ LossIsSeen
  BY DEF IInv
<1>1. UNCHANGED <<once, current, attached, sup, status, at>> /\ ctxDone' \in BOOLEAN
  BY <1>0 DEF ParentCancel, LinkDies, TypeOK
<1>2. /\ link' \in [Conns -> LinkRec]
      /\ \A c \in Conns : link'[c].closed = link[c].closed /\ (link[c].st = "none" => link'[c].st = "none")
  <2>1. CASE ParentCancel
    BY <1>0, <2>1 DEF ParentCancel, TypeOK
  <2>2. ASSUME NEW c \in Conns, LinkDies(c) PROVE <1>2
    <3>1. [link[c] EXCEPT !.st = "dead"] \in LinkRec
      BY <1>0 DEF TypeOK, LinkRec
    <3> QED
      BY <1>0, <2>2, <3>1 DEF LinkDies, TypeOK, LinkRec
  <2> QED
    BY <2>1, <2>2
<1>3. TypeOK'
  BY <1>0, <1>1, <1>2 DEF TypeOK
<1>4. Wired' /\ EveryConnOwned' /\ AttachedIsCurrent' /\ LossIsSeen'
  BY <1>0, <1>1, <1>2 DEF Wired, EveryConnOwned, AttachedIsCurrent, LossIsSeen
<1>5. WaitedIsQuiet'
  BY <1>0, <1>1 DEF WaitedIsQuiet, At
<1> QED
  BY <1>3, <1>4, <1>5 DEF IInv

LEMMA NextInv == IInv /\ [Next]_vars => IInv'
<1> SUFFICES ASSUME IInv, [Next]_vars PROVE IInv'
  OBVIOUS
<1>1. CASE UNCHANGED vars
  BY <1>1 DEF vars, IInv, TypeOK, Wired, EveryConnOwned, AttachedIsCurrent, WaitedIsQuiet, LossIsSeen, At
<1>2. CASE Next
  BY <1>2, SelectInv, DialOkInv, SwapInv, AttachNewInv, CallerInv, EnvInv DEF Next, SupStep
<1> QED
  BY <1>1, <1>2

-----------------------------------------------------------------------------
\* The inductive invariant.
THEOREM Invariance == Spec => []IInv
BY InitInv, NextInv, PTL DEF Spec

\* The device and its callers keep their types.
THEOREM TypeCorrect == Spec => []TypeOK
<1>1. IInv => TypeOK
  BY DEF IInv
<1> QED
  BY <1>1, Invariance, PTL

\* No connection that nobody has closed is forgotten (dialOne, the swap of the supervisors).
THEOREM ConnsAreOwned == Spec => []EveryConnOwned
<1>1. IInv => EveryConnOwned
  BY DEF IInv
<1> QED
  BY <1>1, Invariance, PTL

\* A supervisor that watches a connection has handed this one to its component (superviseStream,
\* superviseCommand).
THEOREM PartsFollow == Spec => []AttachedIsCurrent
<1>1. IInv => AttachedIsCurrent
  BY DEF IInv
<1> QED
  BY <1>1, Invariance, PTL

\* After a CloseAndWait no supervisor is left (CloseAndWait, closeOnce, supervisorWG).
THEOREM NothingAfterWait == Spec => []WaitedIsQuiet
<1>1. IInv => WaitedIsQuiet
  BY DEF IInv
<1> QED
  BY <1>1, Invariance, PTL

\* While superviseCommand replaces its connection, "connected" is not the last status.
THEOREM LossIsReported == Spec => []LossIsSeen
<1>1. IInv => LossIsSeen
  BY DEF IInv
<1> QED
  BY <1>1, Invariance, PTL
=============================================================================
