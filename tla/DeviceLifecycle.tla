-------------------------- MODULE DeviceLifecycle --------------------------
(***************************************************************************)
(* device.RouterDevice (src/device/device.go, connect.go, supervisor.go):  *)
(* two connections to one router, a supervisor goroutine for each, and the *)
(* shutdown that Close and CloseAndWait run once. The model starts when    *)
(* New has dialled both connections and started both supervisors.          *)
(*                                                                         *)
(* streams.Close, polls.Close, ReattachAll and AttachConn are modelled in  *)
(* StreamManager and PollEngine; here they are steps of their callers, and *)
(* `attached` is the connection the stream manager or the poll engine was  *)
(* given last. d.mu guards sections that cannot block: each is one action. *)
(*                                                                         *)
(* The routeros client is external: the channel of AsyncContext delivers   *)
(* one error when the connection dies and then closes; it closes without   *)
(* an error when Close was called first. Dialling ends, by its timeout or  *)
(* with d.ctx at the latest.                                               *)
(***************************************************************************)
EXTENDS Naturals

CONSTANTS Callers,     \* application goroutines that close the device
          Stream,      \* the two roles of a connection
          Command,
          MaxConns,    \* bound: connections ever dialled
          GivesUp      \* Options.ReconnectMaxElapsed is set

Sides == {Stream, Command}
Conns == 1..MaxConns
Nil   == 0

ASSUME SidesAssumption  == Stream # Command
ASSUME DeviceAssumption == MaxConns \in Nat /\ MaxConns >= 2 /\ GivesUp \in BOOLEAN

VARIABLES ctxDone,   \* d.ctx is cancelled, by shutdown or through its parent
          once,      \* d.closeOnce
          link,      \* the connections: alive or dead, and whether Close was called
          current,   \* d.connStream, d.connCommand (and the channel that goes with it)
          attached,  \* the connection last handed to d.streams, d.polls
          sup,       \* the supervisors
          status,    \* the last status passed to OnStatusChange
          at         \* the callers

vars == <<ctxDone, once, link, current, attached, sup, status, at>>

LinkRec == [st : {"none", "up", "dead"}, closed : BOOLEAN]
SupRec  == [pc : {"wait", "got", "report", "dial", "swap", "attach", "announce", "gone"},
            dialled : Conns \cup {Nil}]

TypeOK == /\ ctxDone \in BOOLEAN
          /\ once \in {"new", "running", "done"}
          /\ link \in [Conns -> LinkRec]
          /\ current \in [Sides -> Conns]
          /\ attached \in [Sides -> Conns]
          /\ sup \in [Sides -> SupRec]
          /\ status \in {"none", "connected", "error", "closed"}
          /\ at \in [Callers -> [pc : {"idle", "once", "notify", "cancel", "streams", "polls",
                                       "conns", "wait", "closed", "waited"},
                                 wait : BOOLEAN]]

Init == /\ ctxDone = FALSE /\ once = "new" /\ status = "none"
        /\ link = [c \in Conns |-> [st |-> IF c <= 2 THEN "up" ELSE "none", closed |-> FALSE]]
        /\ current = [s \in Sides |-> IF s = Stream THEN 1 ELSE 2]
        /\ attached = current
        /\ sup = [s \in Sides |-> [pc |-> "wait", dialled |-> Nil]]
        /\ at = [p \in Callers |-> [pc |-> "idle", wait |-> FALSE]]

-----------------------------------------------------------------------------
GoTo(s, pc) == sup' = [sup EXCEPT ![s].pc = pc]

(* The parts of the methods. A name with an underscore is a faulty variant *)
(* of the definition below it, a bug that some property is meant to catch; *)
(* no specification uses it.                                               *)

\* Only superviseCommand reports the loss of its connection.
AfterLoss_NoReport(s) == "dial"
AfterLoss(s) == IF s = Command THEN "report" ELSE "dial"

\* The connection in the result of dialOne.
DialResult_None(c) == Nil
DialResult(c) == c

\* backoff.Retry gives up: d.ctx is done or the elapsed time is used up.
RetryEnds == ctxDone \/ GivesUp

\* The case <-d.ctx.Done() of the supervisors' select.
Woken_Never == FALSE
Woken == ctxDone

\* Close on the connections cs.
Closing_Not(cs) == link
Closing(cs) == [c \in Conns |-> IF c \in cs THEN [link[c] EXCEPT !.closed = TRUE] ELSE link[c]]

\* d.streams.ReattachAll, d.polls.AttachConn.
HandedOver_Not(s) == attached
HandedOver(s) == [attached EXCEPT ![s] = sup[s].dialled]

\* supervisorWG counts both supervisors.
SupervisorsGone_One == \E s \in Sides : sup[s].pc = "gone"
SupervisorsGone == \A s \in Sides : sup[s].pc = "gone"

-----------------------------------------------------------------------------
\* The select of superviseStream and superviseCommand: the context is done ...
SupDone(s) ==
    /\ sup[s].pc = "wait" /\ Woken
    /\ GoTo(s, "gone")
    /\ UNCHANGED <<ctxDone, once, link, current, attached, status, at>>

\* ... or the channel closed without an error ...
SupSilent(s) ==
    /\ sup[s].pc = "wait"
    /\ link[current[s]].st = "up" /\ link[current[s]].closed
    /\ GoTo(s, "gone")
    /\ UNCHANGED <<ctxDone, once, link, current, attached, status, at>>

\* ... or it delivered the error.
SupError(s) ==
    /\ sup[s].pc = "wait" /\ link[current[s]].st = "dead"
    /\ GoTo(s, "got")
    /\ UNCHANGED <<ctxDone, once, link, current, attached, status, at>>

\* d.ctx.Err(): return; else only superviseCommand reports the error.
SupCheck(s) ==
    /\ sup[s].pc = "got"
    /\ GoTo(s, IF ctxDone THEN "gone" ELSE AfterLoss(s))
    /\ UNCHANGED <<ctxDone, once, link, current, attached, status, at>>

SupReport(s) ==
    /\ sup[s].pc = "report"
    /\ status' = "error"
    /\ GoTo(s, "dial")
    /\ UNCHANGED <<ctxDone, once, link, current, attached, at>>

\* dialOne, with a context below d.ctx.
DialOk(s) ==
    /\ sup[s].pc = "dial" /\ ~ctxDone
    /\ \E c \in Conns :
          /\ link[c].st = "none" /\ \A k \in Conns : k < c => link[k].st # "none"
          /\ link' = [link EXCEPT ![c].st = "up"]
          /\ sup' = [sup EXCEPT ![s].pc = "swap", ![s].dialled = DialResult(c)]
    /\ UNCHANGED <<ctxDone, once, current, attached, status, at>>

\* backoff.Retry tries again, until d.ctx is done or the elapsed time is used up.
DialFail(s) ==
    /\ sup[s].pc = "dial"
    /\ RetryEnds
    /\ GoTo(s, "gone")
    /\ UNCHANGED <<ctxDone, once, link, current, attached, status, at>>

\* Under d.mu: close the old connection, put the new one in its place. Whether
\* d.ctx is still alive is not asked.
Swap(s) ==
    /\ sup[s].pc = "swap"
    /\ link' = Closing({current[s]})
    /\ current' = [current EXCEPT ![s] = sup[s].dialled]
    /\ GoTo(s, "attach")
    /\ UNCHANGED <<ctxDone, once, attached, status, at>>

\* d.streams.ReattachAll, d.polls.AttachConn.
AttachNew(s) ==
    /\ sup[s].pc = "attach"
    /\ attached' = HandedOver(s)
    /\ sup' = [sup EXCEPT ![s].pc = IF s = Command THEN "announce" ELSE "wait", ![s].dialled = Nil]
    /\ UNCHANGED <<ctxDone, once, link, current, status, at>>

Announce(s) ==
    /\ sup[s].pc = "announce"
    /\ status' = "connected"
    /\ GoTo(s, "wait")
    /\ UNCHANGED <<ctxDone, once, link, current, attached, at>>

-----------------------------------------------------------------------------
At(p, pc) == at[p].pc = pc
Go(p, pc) == at' = [at EXCEPT ![p].pc = pc]

\* Close (wait = FALSE) or CloseAndWait (wait = TRUE), by a goroutine of the application.
Close(p, wait) ==
    /\ At(p, "idle")
    /\ at' = [at EXCEPT ![p] = [pc |-> "once", wait |-> wait]]
    /\ UNCHANGED <<ctxDone, once, link, current, attached, sup, status>>

\* closeOnce.Do: the first caller runs shutdown, the others wait until it has.
OnceFirst(p) ==
    /\ At(p, "once") /\ once = "new"
    /\ once' = "running"
    /\ Go(p, "notify")
    /\ UNCHANGED <<ctxDone, link, current, attached, sup, status>>

OnceOther(p) ==
    /\ At(p, "once") /\ once = "done"
    /\ Go(p, IF at[p].wait THEN "wait" ELSE "closed")
    /\ UNCHANGED <<ctxDone, once, link, current, attached, sup, status>>

\* shutdown.
NotifyClosed(p) ==
    /\ At(p, "notify")
    /\ status' = "closed"
    /\ Go(p, "cancel")
    /\ UNCHANGED <<ctxDone, once, link, current, attached, sup>>

Cancel(p) ==
    /\ At(p, "cancel")
    /\ ctxDone' = TRUE
    /\ Go(p, "streams")
    /\ UNCHANGED <<once, link, current, attached, sup, status>>

\* streams.Close() and then polls.Close().
CloseParts(p) ==
    /\ \/ At(p, "streams") /\ Go(p, "polls")
       \/ At(p, "polls") /\ Go(p, "conns")
    /\ UNCHANGED <<ctxDone, once, link, current, attached, sup, status>>

\* Under d.mu: close the two connections the device holds now.
CloseConns(p) ==
    /\ At(p, "conns")
    /\ link' = Closing({current[s] : s \in Sides})
    /\ once' = "done"
    /\ Go(p, IF at[p].wait THEN "wait" ELSE "closed")
    /\ UNCHANGED <<ctxDone, current, attached, sup, status>>

\* supervisorWG.Wait().
WaitReturn(p) ==
    /\ At(p, "wait")
    /\ SupervisorsGone
    /\ Go(p, "waited")
    /\ UNCHANGED <<ctxDone, once, link, current, attached, sup, status>>

-----------------------------------------------------------------------------
\* A connection dies that nobody has closed; the parent context is cancelled.
LinkDies(c) ==
    /\ link[c].st = "up" /\ ~link[c].closed
    /\ link' = [link EXCEPT ![c].st = "dead"]
    /\ UNCHANGED <<ctxDone, once, current, attached, sup, status, at>>

ParentCancel ==
    /\ ~ctxDone
    /\ ctxDone' = TRUE
    /\ UNCHANGED <<once, link, current, attached, sup, status, at>>

SupStep(s) == \/ SupDone(s) \/ SupSilent(s) \/ SupError(s) \/ SupCheck(s) \/ SupReport(s)
              \/ DialOk(s) \/ DialFail(s) \/ Swap(s) \/ AttachNew(s) \/ Announce(s)

CloseStep(p) == \/ OnceFirst(p) \/ OnceOther(p) \/ NotifyClosed(p) \/ Cancel(p)
                \/ CloseParts(p) \/ CloseConns(p) \/ WaitReturn(p)

Next == \/ \E s \in Sides : SupStep(s)
        \/ \E p \in Callers : CloseStep(p) \/ \E wait \in BOOLEAN : Close(p, wait)
        \/ \E c \in Conns : LinkDies(c)
        \/ ParentCancel

Spec == Init /\ [][Next]_vars

\* The goroutines keep running; a dial ends with d.ctx, so DialFail is among
\* the steps that are due.
Fairness == /\ \A s \in Sides : WF_vars(SupStep(s))
            /\ \A p \in Callers : WF_vars(CloseStep(p))

FairSpec == Spec /\ Fairness

-----------------------------------------------------------------------------
(* Properties.                                                             *)

IsAlive == ~ctxDone

\* No connection is forgotten on the way: one that nobody has closed is held by
\* the device or has just been dialled by the supervisor that will install it.
EveryConnOwned ==
    \A c \in Conns : link[c].st # "none" /\ ~link[c].closed =>
        \E s \in Sides : current[s] = c \/ (sup[s].pc = "swap" /\ sup[s].dialled = c)

\* A supervisor that waits for errors has handed the connection it watches to
\* its component: streams and polls never keep one that has been replaced.
AttachedIsCurrent ==
    \A s \in Sides : sup[s].pc \notin {"attach", "gone"} => attached[s] = current[s]

\* device.go:101-105: once a CloseAndWait has returned, no supervisor is left
\* that could call OnStatusChange, and the shutdown has run to its end, also
\* when another goroutine closed the device at the same time.
WaitedIsQuiet ==
    (\E p \in Callers : At(p, "waited")) =>
        once = "done" /\ \A s \in Sides : sup[s].pc = "gone"

\* While the command connection is being replaced, the last status the
\* application has seen is not "connected".
LossIsSeen == sup[Command].pc \in {"dial", "swap", "attach"} => status \in {"error", "closed"}

\* Close and CloseAndWait return: the supervisors notice the cancelled context
\* wherever they are.
CloseReturns ==
    \A p \in Callers : At(p, "once") ~> (At(p, "closed") \/ At(p, "waited"))

-----------------------------------------------------------------------------
(* What the comments claim and the code does not keep.                     *)

\* device.go:88: Close closes the connections. Checked when the shutdown is over
\* and both supervisors have gone.
ClosedIsClosed ==
    (once = "done" /\ \A s \in Sides : sup[s].pc = "gone") =>
        \A c \in Conns : link[c].st # "none" => link[c].closed

\* device.go:139-140: a device that IsAlive has supervisors that will bring a
\* lost connection back.
AliveIsSupervised == IsAlive => \A s \in Sides : sup[s].pc # "gone"
=============================================================================
