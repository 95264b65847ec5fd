--------------------------- MODULE StreamManager ---------------------------
(***************************************************************************)
(* stream.Manager (src/stream/manager.go, src/stream/listener.go): the     *)
(* listeners that share one RouterOS connection. Application goroutines    *)
(* (Callers) call Register, Unregister and Close; the stream supervisor    *)
(* calls ReattachAll after a reconnect; every successful attach starts a   *)
(* goroutine that runs consume until the reply channel closes.             *)
(*                                                                         *)
(* A critical section of m.mu is one action. listener.reply and            *)
(* listener.cancel are read and written outside m.mu, so each access is an *)
(* action of its own. A call that returns before it changes anything       *)
(* (ErrEmptyID, ErrDuplicateID, Unregister of an unknown ID) is a          *)
(* stuttering step.                                                        *)
(*                                                                         *)
(* The routeros client is external: Listen succeeds on a live connection,  *)
(* fails on a dead one and may do either under a cancelled context; a      *)
(* reply channel closes with a nil error on !done or /cancel and with an   *)
(* error on !trap or when the connection dies.                             *)
(***************************************************************************)
EXTENDS Naturals, FiniteSets

CONSTANTS Callers,        \* application goroutines
          Supervisor,     \* the goroutine of superviseStream
          IDs,            \* listener IDs
          MaxListeners,   \* bound: number of Register calls that pass the check
          MaxAttempts,    \* bound: number of attach calls
          MaxConns,       \* bound: number of connections ever dialled
          CancelTimesOut  \* whether the /cancel of detach may time out

ASSUME ProcsAssumption  == Supervisor \notin Callers
ASSUME BoundsAssumption == /\ MaxListeners \in Nat
                           /\ MaxAttempts \in Nat
                           /\ MaxConns \in Nat \ {0}
ASSUME TimeoutAssumption == CancelTimesOut \in BOOLEAN

Nil       == 0                  \* a nil pointer
Procs     == Callers \cup {Supervisor}
Listeners == 1..MaxListeners    \* addresses of listener structs
Attempts  == 1..MaxAttempts     \* one per attach: its lctx, its reply, its consume goroutine
Conns     == 1..MaxConns

ASSUME IDsAssumption == Nil \notin IDs

VARIABLES closed,     \* m.ctx is cancelled
          mconn,      \* m.conn
          entries,    \* m.listeners: ID -> listener, Nil where there is none
          lsn,        \* the listener structs: spec.ID, reply, cancel
          stream,     \* per attempt: the lctx and the reply of the routeros client
          cons,       \* per attempt: the goroutine running consume
          proc,       \* per process: the method it is in
          up          \* connections that are alive

vars == <<closed, mconn, entries, lsn, stream, cons, proc, up>>

-----------------------------------------------------------------------------
ListenerRec == [id : IDs \cup {Nil}, reply : Attempts \cup {Nil}, cancel : Attempts \cup {Nil}]

StreamRec == [st : {"none", "listening", "refused", "open", "done", "failed"},
              conn : Conns \cup {Nil}, lsn : Listeners \cup {Nil}, cancelled : BOOLEAN]

ConsumerRec == [pc : {"none", "start", "range", "err", "check", "onerr",
                      "finish", "cancel", "onnil", "exit"},
                reply : Attempts \cup {Nil}, err : BOOLEAN]

ProcRec == [at : {"idle", "attach", "listen", "store", "rollback", "next",
                  "sweep", "detach", "release"},
            lsn : Listeners \cup {Nil}, conn : Conns \cup {Nil},
            attempt : Attempts \cup {Nil}, todo : SUBSET Listeners]

TypeOK == /\ closed \in BOOLEAN
          /\ mconn \in Conns
          /\ entries \in [IDs -> Listeners \cup {Nil}]
          /\ lsn \in [Listeners -> ListenerRec]
          /\ stream \in [Attempts -> StreamRec]
          /\ cons \in [Attempts -> ConsumerRec]
          /\ proc \in [Procs -> ProcRec]
          /\ up \in SUBSET Conns
          /\ \A t \in Attempts : cons[t].pc = "range" => cons[t].reply # Nil

Idle == [at |-> "idle", lsn |-> Nil, conn |-> Nil, attempt |-> Nil, todo |-> {}]

Init == /\ closed = FALSE
        /\ mconn = 1
        /\ entries = [id \in IDs |-> Nil]
        /\ lsn = [l \in Listeners |-> [id |-> Nil, reply |-> Nil, cancel |-> Nil]]
        /\ stream = [t \in Attempts |->
                       [st |-> "none", conn |-> Nil, lsn |-> Nil, cancelled |-> FALSE]]
        /\ cons = [t \in Attempts |-> [pc |-> "none", reply |-> Nil, err |-> FALSE]]
        /\ proc = [p \in Procs |-> Idle]
        /\ up = {1}

-----------------------------------------------------------------------------
Registered == {l \in Listeners : \E id \in IDs : entries[id] = l}
Allocated  == {l \in Listeners : lsn[l].id # Nil}

\* The next struct and the next attempt, in the order of their creation.
NewListener(l) == /\ l \notin Allocated
                  /\ \A k \in Listeners : k < l => k \in Allocated
NewAttempt(t)  == /\ stream[t].st = "none"
                  /\ \A k \in Attempts : k < t => stream[k].st # "none"

\* Room within MaxAttempts for n more attach calls besides those already due.
Due == {d \in Procs \X Listeners :
            \/ proc[d[1]].at = "attach" /\ proc[d[1]].lsn = d[2]
            \/ d[1] = Supervisor /\ d[2] \in proc[Supervisor].todo}
Room(n) == Cardinality(Due) + n <= Cardinality({t \in Attempts : stream[t].st = "none"})

\* lctx is a child of m.ctx.
CtxDone(t) == closed \/ stream[t].cancelled

Cancelled(t) == IF t = Nil THEN stream ELSE [stream EXCEPT ![t].cancelled = TRUE]

-----------------------------------------------------------------------------
(* The parts of the methods. A name with an underscore is a faulty variant *)
(* of the definition below it, a bug that some property is meant to catch; *)
(* no specification uses it.                                               *)

\* The check for a duplicate ID.
Unclaimed_Always(id) == TRUE
Unclaimed(id) == entries[id] = Nil

\* delete(m.listeners, id).
Without_Keeps(id) == entries
Without(id) == [entries EXCEPT ![id] = Nil]

\* finishListener's comparison: the entry is still this very struct.
Holds_ByID(l) == entries[lsn[l].id] # Nil
Holds(l) == entries[lsn[l].id] = l

\* l.reply = reply, and go m.consume(l).
Stored_Forgets(l, t) == lsn
Stored(l, t) == [lsn EXCEPT ![l].reply = t]

Started_Forgets(t) == cons
Started(t) == [cons EXCEPT ![t].pc = "start"]

\* The effect of /cancel on an open stream.
Interrupted(r) == [stream EXCEPT ![r].st = "done"]

\* The listeners that ReattachAll takes.
Snapshot_SkipsFailed == {l \in Registered : lsn[l].reply # Nil => stream[lsn[l].reply].st # "failed"}
Snapshot == Registered

\* What consume does with the result of Err().
Outcome_Inverted(err) == IF err THEN "finish" ELSE "onerr"
Outcome(err) == IF err THEN "onerr" ELSE "finish"

-----------------------------------------------------------------------------
\* Register, the critical section: claim the ID and remember the connection.
Register(p, id) ==
    /\ proc[p].at = "idle"
    /\ Unclaimed(id)
    /\ Room(1)
    /\ \E l \in Listeners :
          /\ NewListener(l)
          /\ lsn' = [lsn EXCEPT ![l].id = id]
          /\ entries' = [entries EXCEPT ![id] = l]
          /\ proc' = [proc EXCEPT ![p] = [Idle EXCEPT !.at = "attach", !.lsn = l, !.conn = mconn]]
    /\ UNCHANGED <<closed, mconn, stream, cons, up>>

\* attach, up to the call of ListenArgs[Queue]Context.
AttachBegin(p) ==
    /\ proc[p].at = "attach"
    /\ \E t \in Attempts :
          /\ NewAttempt(t)
          /\ stream' = [stream EXCEPT ![t] = [st |-> "listening", conn |-> proc[p].conn,
                                              lsn |-> proc[p].lsn, cancelled |-> FALSE]]
          /\ lsn' = [lsn EXCEPT ![proc[p].lsn].cancel = t]
          /\ proc' = [proc EXCEPT ![p].at = "listen", ![p].attempt = t]
    /\ UNCHANGED <<closed, mconn, entries, cons, up>>

\* ListenArgs[Queue]Context returns a reply.
ListenOk(p) ==
    /\ proc[p].at = "listen"
    /\ proc[p].conn \in up
    /\ stream' = [stream EXCEPT ![proc[p].attempt].st = "open"]
    /\ proc' = [proc EXCEPT ![p].at = "store"]
    /\ UNCHANGED <<closed, mconn, entries, lsn, cons, up>>

\* It returns an error: Register goes on to its roll-back, ReattachAll to the next listener.
ListenErr(p) ==
    /\ proc[p].at = "listen"
    /\ proc[p].conn \notin up \/ CtxDone(proc[p].attempt)
    /\ stream' = [stream EXCEPT ![proc[p].attempt].st = "refused",
                                ![proc[p].attempt].cancelled = TRUE]
    /\ proc' = [proc EXCEPT ![p].at = IF p = Supervisor THEN "next" ELSE "rollback",
                            ![p].attempt = Nil]
    /\ UNCHANGED <<closed, mconn, entries, lsn, cons, up>>

\* l.reply = reply; go m.consume(l).
AttachStore(p) ==
    /\ proc[p].at = "store"
    /\ lsn' = Stored(proc[p].lsn, proc[p].attempt)
    /\ cons' = Started(proc[p].attempt)
    /\ proc' = [proc EXCEPT ![p] = IF p = Supervisor THEN [@ EXCEPT !.at = "next", !.attempt = Nil]
                                              ELSE Idle]
    /\ UNCHANGED <<closed, mconn, entries, stream, up>>

\* Register, after a failed attach: delete(m.listeners, spec.ID), whoever holds it now.
Rollback(p) ==
    /\ proc[p].at = "rollback"
    /\ entries' = Without(lsn[proc[p].lsn].id)
    /\ proc' = [proc EXCEPT ![p] = Idle]
    /\ UNCHANGED <<closed, mconn, lsn, stream, cons, up>>

\* Unregister, the critical section.
Unregister(p, id) ==
    /\ proc[p].at = "idle"
    /\ entries[id] # Nil
    /\ entries' = Without(id)
    /\ proc' = [proc EXCEPT ![p] = [Idle EXCEPT !.at = "detach", !.todo = {entries[id]}]]
    /\ UNCHANGED <<closed, mconn, lsn, stream, cons, up>>

\* Close cancels m.ctx first and takes the map afterwards.
CloseCancel(p) ==
    /\ proc[p].at = "idle"
    /\ closed' = TRUE
    /\ proc' = [proc EXCEPT ![p].at = "sweep"]
    /\ UNCHANGED <<mconn, entries, lsn, stream, cons, up>>

CloseSweep(p) ==
    /\ proc[p].at = "sweep"
    /\ entries' = [id \in IDs |-> Nil]
    /\ proc' = [proc EXCEPT ![p].at = "detach", ![p].todo = Registered]
    /\ UNCHANGED <<closed, mconn, lsn, stream, cons, up>>

\* detach, first half: /cancel the reply the struct holds now, if it holds one.
\* The router ends the stream, or the call fails and leaves it as it is.
Detach(p) ==
    /\ proc[p].at = "detach"
    /\ \E l \in proc[p].todo :
          LET r == lsn[l].reply IN
          /\ \/ r # Nil /\ stream[r].st = "open" /\ stream' = Interrupted(r)
             \/ r # Nil /\ stream[r].st = "open" /\ CancelTimesOut /\ UNCHANGED stream
             \/ (r # Nil => stream[r].st # "open") /\ UNCHANGED stream
          /\ proc' = [proc EXCEPT ![p].at = "release", ![p].lsn = l, ![p].todo = @ \ {l}]
    /\ UNCHANGED <<closed, mconn, entries, lsn, cons, up>>

\* detach, second half: l.cancel(), if it is set.
Release(p) ==
    /\ proc[p].at = "release"
    /\ stream' = Cancelled(lsn[proc[p].lsn].cancel)
    /\ proc' = [proc EXCEPT ![p].at = "detach", ![p].lsn = Nil]
    /\ UNCHANGED <<closed, mconn, entries, lsn, cons, up>>

DetachReturn(p) ==
    /\ proc[p].at = "detach"
    /\ proc[p].todo = {}
    /\ proc' = [proc EXCEPT ![p] = Idle]
    /\ UNCHANGED <<closed, mconn, entries, lsn, stream, cons, up>>

-----------------------------------------------------------------------------
\* reconnectStream has dialled a new connection and calls ReattachAll: its critical section.
Reattach ==
    /\ proc[Supervisor].at = "idle"
    /\ mconn \notin up
    /\ mconn < MaxConns
    /\ Room(Cardinality(Registered))
    /\ mconn' = mconn + 1
    /\ up' = up \cup {mconn + 1}
    /\ proc' = [proc EXCEPT ![Supervisor] = [Idle EXCEPT !.at = "next", !.conn = mconn + 1,
                                                         !.todo = Snapshot]]
    /\ UNCHANGED <<closed, entries, lsn, stream, cons>>

\* The loop over the snapshot, in the arbitrary order of the map.
ReattachNext ==
    /\ proc[Supervisor].at = "next"
    /\ \E l \in proc[Supervisor].todo :
          proc' = [proc EXCEPT ![Supervisor].at = "attach", ![Supervisor].lsn = l,
                               ![Supervisor].todo = @ \ {l}]
    /\ UNCHANGED <<closed, mconn, entries, lsn, stream, cons, up>>

ReattachReturn ==
    /\ proc[Supervisor].at = "next"
    /\ proc[Supervisor].todo = {}
    /\ proc' = [proc EXCEPT ![Supervisor] = Idle]
    /\ UNCHANGED <<closed, mconn, entries, lsn, stream, cons, up>>

-----------------------------------------------------------------------------
\* consume evaluates l.reply.Chan() when the goroutine first runs ...
ConsumeStart(t) ==
    /\ cons[t].pc = "start"
    /\ cons' = [cons EXCEPT ![t].pc = "range", ![t].reply = lsn[stream[t].lsn].reply]
    /\ UNCHANGED <<closed, mconn, entries, lsn, stream, proc, up>>

\* ... ranges over that channel, calling Handler, until it is closed ...
ConsumeEnd(t) ==
    /\ cons[t].pc = "range"
    /\ stream[cons[t].reply].st \in {"done", "failed"}
    /\ cons' = [cons EXCEPT ![t].pc = "err", ![t].reply = Nil]
    /\ UNCHANGED <<closed, mconn, entries, lsn, stream, proc, up>>

\* ... and reads l.reply a second time for Err(), which is nil while a reply is open.
ConsumeErr(t) ==
    /\ cons[t].pc = "err"
    /\ cons' = [cons EXCEPT ![t].pc = "check",
                            ![t].err = stream[lsn[stream[t].lsn].reply].st = "failed"]
    /\ UNCHANGED <<closed, mconn, entries, lsn, stream, proc, up>>

\* m.ctx.Err() # nil: return; err # nil: keep the entry and report; nil: finishListener.
ConsumeCheck(t) ==
    /\ cons[t].pc = "check"
    /\ cons' = [cons EXCEPT ![t].pc = IF closed THEN "exit" ELSE Outcome(cons[t].err),
                            ![t].err = FALSE]
    /\ UNCHANGED <<closed, mconn, entries, lsn, stream, proc, up>>

\* finishListener, the critical section: delete the entry if it is still this struct.
FinishDelete(t) ==
    /\ cons[t].pc = "finish"
    /\ LET l == stream[t].lsn
       IN entries' = IF Holds(l) THEN Without(lsn[l].id) ELSE entries
    /\ cons' = [cons EXCEPT ![t].pc = "cancel"]
    /\ UNCHANGED <<closed, mconn, lsn, stream, proc, up>>

\* finishListener, after the unlock: l.cancel().
FinishCancel(t) ==
    /\ cons[t].pc = "cancel"
    /\ stream' = Cancelled(lsn[stream[t].lsn].cancel)
    /\ cons' = [cons EXCEPT ![t].pc = "onnil"]
    /\ UNCHANGED <<closed, mconn, entries, lsn, proc, up>>

\* OnFinish(id, err) or OnFinish(id, nil), then the goroutine ends.
OnFinish(t) ==
    /\ cons[t].pc \in {"onerr", "onnil"}
    /\ cons' = [cons EXCEPT ![t].pc = "exit"]
    /\ UNCHANGED <<closed, mconn, entries, lsn, stream, proc, up>>

-----------------------------------------------------------------------------
\* The router ends a stream with !done (finite command) or with !trap.
StreamDone(t) ==
    /\ stream[t].st = "open"
    /\ stream' = [stream EXCEPT ![t].st = "done"]
    /\ UNCHANGED <<closed, mconn, entries, lsn, cons, proc, up>>

StreamTrap(t) ==
    /\ stream[t].st = "open"
    /\ stream' = [stream EXCEPT ![t].st = "failed"]
    /\ UNCHANGED <<closed, mconn, entries, lsn, cons, proc, up>>

\* A connection dies: every reply that is open on it closes with the error.
ConnDrop(c) ==
    /\ c \in up
    /\ up' = up \ {c}
    /\ stream' = [t \in Attempts |-> IF stream[t].st = "open" /\ stream[t].conn = c
                                     THEN [stream[t] EXCEPT !.st = "failed"] ELSE stream[t]]
    /\ UNCHANGED <<closed, mconn, entries, lsn, cons, proc>>

-----------------------------------------------------------------------------
Attach(p) == AttachBegin(p) \/ ListenOk(p) \/ ListenErr(p) \/ AttachStore(p)

CallerStep(p) == Attach(p) \/ Rollback(p) \/ CloseSweep(p) \/ Detach(p) \/ Release(p) \/ DetachReturn(p)

CallerCall(p) == (\E id \in IDs : Register(p, id) \/ Unregister(p, id)) \/ CloseCancel(p)

SupervisorStep == Attach(Supervisor) \/ ReattachNext \/ ReattachReturn

ConsumerStep(t) == \/ ConsumeStart(t) \/ ConsumeEnd(t) \/ ConsumeErr(t) \/ ConsumeCheck(t)
                   \/ FinishDelete(t) \/ FinishCancel(t) \/ OnFinish(t)

Router == \/ \E t \in Attempts : StreamDone(t) \/ StreamTrap(t)
          \/ \E c \in Conns : ConnDrop(c)

Next == \/ \E p \in Callers : CallerCall(p) \/ CallerStep(p)
        \/ Reattach \/ SupervisorStep
        \/ \E t \in Attempts : ConsumerStep(t)
        \/ Router

Spec == Init /\ [][Next]_vars

\* Goroutines that are not blocked keep running; nobody is obliged to call a
\* method, and the router is obliged to nothing.
Fairness == /\ \A p \in Callers : WF_vars(CallerStep(p))
            /\ WF_vars(SupervisorStep)
            /\ \A t \in Attempts : WF_vars(ConsumerStep(t))

FairSpec == Spec /\ Fairness

-----------------------------------------------------------------------------
(* Properties of every behaviour.                                          *)

Busy(p) == proc[p].at # "idle"

\* The listeners a process has taken out of the map and has still to detach.
Detaching(p) == IF proc[p].at = "detach" THEN proc[p].todo
                ELSE IF proc[p].at = "release" THEN proc[p].todo \cup {proc[p].lsn}
                ELSE {}

\* A registration is stopped at most once: among the concurrent Unregister and
\* Close calls only the one that took the listener out of the map detaches it,
\* and while it does so nobody can find the listener in the map.
DetachedOnce ==
    \A p \in Procs : /\ Detaching(p) \cap Registered = {}
                     /\ \A q \in Procs \ {p} : Detaching(p) \cap Detaching(q) = {}

\* listener.go:21-22: when OnFinish(id, nil) runs, the listener has left the map
\* (and ReattachAll can no longer find it), whatever the other goroutines do
\* between finishListener and the callback.
FinishedIsGone ==
    \A t \in Attempts : cons[t].pc \in {"cancel", "onnil"} => stream[t].lsn \notin Registered

\* finishListener compares pointers: a stale consume never deletes the entry of
\* a newer registration under the same ID.
FinishRemovesOwn ==
    [][\A t \in Attempts : cons[t].pc = "finish" /\ cons'[t].pc = "cancel" =>
          \A id \in IDs : entries'[id] # entries[id] => entries[id] = stream[t].lsn]_vars

\* The listener holds a reply of an earlier connection than stream t is on.
HoldsOlder(t) == /\ lsn[stream[t].lsn].reply # Nil
                 /\ stream[lsn[stream[t].lsn].reply].conn < stream[t].conn

\* A stream that is open on the router is about to be stored by attach, or is the reply
\* that its listener holds and is read by the goroutine started for it: Unregister can
\* cancel it, and its end will be seen. Whatever overlaps, there is one exception: a
\* Register that began before the reconnect stores its dead reply after ReattachAll has
\* stored this one.
OpenIsRead ==
    \A t \in Attempts : stream[t].st = "open" =>
        \/ \E p \in Procs : proc[p].at = "store" /\ proc[p].attempt = t
        \/ /\ lsn[stream[t].lsn].reply = t
           /\ cons[t].pc = "start" \/ (cons[t].pc = "range" /\ cons[t].reply = t)
        \/ HoldsOlder(t)

\* A process is at work to attach l to the connection in use; an attach of l to it has
\* begun, and may have failed.
AttachesNow(p, l) == /\ proc[p].at \in {"attach", "listen", "store"}
                     /\ proc[p].lsn = l /\ proc[p].conn = mconn
Tried(l) == \E t \in Attempts : stream[t].st # "none" /\ stream[t].lsn = l /\ stream[t].conn = mconn

\* manager.go:106-112: ReattachAll takes the snapshot in the critical section in which
\* it sets m.conn, and Register files its entry in the one in which it reads it. So no
\* listener in the map, however its Register, an Unregister or a Close overlaps with
\* the reconnect, is left out: it is still on the list, is being attached to the
\* connection in use, or an attach to it has been made.
ReattachMissesNone ==
    \A l \in Registered : \/ l \in proc[Supervisor].todo
                          \/ \E p \in Procs : AttachesNow(p, l)
                          \/ Tried(l)

\* listener.go:21-24: a goroutine goes on to take its listener out of the map only if its
\* own stream ended with !done; a dropped connection leaves the entry for ReattachAll. The
\* goroutine reads l.reply a second time for the error, so there is one exception, and it
\* is exact: the reply it was started for had been replaced by then.
DropKeepsEntry ==
    \A t \in Attempts : cons[t].pc = "finish" =>
        stream[t].st = "done" \/ lsn[stream[t].lsn].reply # t

\* The reply that the listener holds has ended with !done.
Ended(l) == lsn[l].reply # Nil /\ stream[lsn[l].reply].st = "done"

\* Len is accurate for finite streams (manager.go:139-141): an entry whose
\* current stream ended with !done leaves the map, is attached again or the
\* manager is closed. No goroutine can be stuck on the way there.
EndedLeavesMap ==
    \A l \in Listeners :
        (l \in Registered /\ Ended(l)) ~> (l \notin Registered \/ ~Ended(l) \/ closed)

\* The IDs as IDRegistry promises them.
Registry == INSTANCE IDRegistry
                WITH Registrations <- Listeners, Free <- Nil, holder <- entries, issued <- Allocated

RefinesRegistry == Registry!Spec

-----------------------------------------------------------------------------
(* What the comments and the tests claim, and the code does not keep: each *)
(* is violated by Spec, under the configuration that its comment names.    *)

AllIdle == \A p \in Procs : ~Busy(p)

\* manager.go:85: Unregister stops the listener. A stream that runs on the router
\* belongs to a registered listener, and is the one that Unregister would cancel.
\* Broken by Unregister between the reply of ListenArgs and its store (MCStreamOrphan).
NoOrphan ==
    AllIdle => \A t \in Attempts : stream[t].st = "open" =>
                  /\ stream[t].lsn \in Registered
                  /\ lsn[stream[t].lsn].reply = t

\* manager.go:173: one consume per reply. Every open reply has a goroutine of its own and
\* no second one. Broken by a goroutine that first runs when ReattachAll has already
\* stored the next reply (MCStreamReaders).
OneReader ==
    AllIdle => \A t \in Attempts : stream[t].st = "open" =>
                  /\ cons[t].pc \in {"start", "range"}
                  /\ \A u \in Attempts \ {t} : cons[u].pc # "none" => cons[u].reply # t

\* manager.go:102-103: after a reconnect every listener that is still registered holds a
\* reply of the connection in use. Broken by a Register that stores the reply of the
\* connection before after ReattachAll has stored the new one (MCStreamMissed).
AllReattached ==
    (AllIdle /\ mconn \in up /\ ~closed) =>
        \A l \in Registered : lsn[l].reply # Nil /\ stream[lsn[l].reply].conn = mconn

\* listener.go:23-24, manager.go:192: consume removes a listener only when one of its
\* streams ended with !done; a dropped connection leaves it in the map. Broken by the
\* second read of l.reply, after ReattachAll has replaced it (MCStreamDropKeeps).
FinishMeansDone ==
    \A t \in Attempts : cons[t].pc = "finish" =>
        \E r \in Attempts : stream[r].lsn = stream[t].lsn /\ stream[r].st = "done"

\* manager.go:71: the roll-back of a failed Register undoes that registration and no
\* other. Broken by a Register of the same ID after an Unregister (MCStreamRollback).
RollbackRemovesOwn ==
    [][\A p \in Callers : proc[p].at = "rollback" /\ proc'[p].at = "idle" =>
          \A id \in IDs : entries'[id] # entries[id] => entries[id] = proc[p].lsn]_vars
=============================================================================
