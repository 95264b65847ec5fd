--------------------------- MODULE BatchedWriter ---------------------------
(***************************************************************************)
(* influx.BatchedWriter (src/metrics/influx/writer.go): goroutines that    *)
(* Add points to a buffer, the goroutine `loop` that writes the buffer on  *)
(* a tick or when Add signals that it is full, and Close.                  *)
(*                                                                         *)
(* Points are numbered in the order in which Add appends them. b.mu guards *)
(* sections that cannot block: each is one action. WriteBatch runs outside *)
(* of them and is external: it succeeds, the server fails, or the context  *)
(* it was given is cancelled. Nothing is retried, so a batch that was not  *)
(* written is lost.                                                        *)
(***************************************************************************)
EXTENDS Naturals, Sequences, FiniteSets

CONSTANTS Adders,     \* goroutines that add points
          Closers,    \* goroutines that call Close
          maxSize,    \* capacity that makes the buffer full
          MaxPoints   \* bound: points ever added

Points == 1..MaxPoints

ASSUME BatchAssumption == /\ maxSize \in Nat \ {0} /\ MaxPoints \in Nat
                          /\ Adders \cap Closers = {} /\ "loop" \notin Closers

VARIABLES added,     \* number of points added
          buf,       \* b.buf
          flush,     \* the signals in b.flush, a channel of capacity one
          adder,     \* the adders: in Add after the unlock with `full` set, or not
          started,   \* Start was called
          cancelled, \* its context: not cancelled, or by whom
          loop,      \* the goroutine; it has closed b.done when it has gone
          closer,    \* the closers
          mark,      \* history: the points added before the closer called Close
          batch,     \* per drainer: the snapshot it is writing
          written,   \* points written
          lost       \* points whose WriteBatch failed: by the server or the context
                     \* of Close, or by the cancelled context of the loop

vars == <<added, buf, flush, adder, started, cancelled, loop, closer, mark, batch, written, lost>>

Loop     == "loop"
Drainers == {Loop} \cup Closers
Causes   == {"failed", "cancelled"}

TypeOK == /\ added \in 0..MaxPoints
          /\ buf \in Seq(Points)
          /\ flush \in 0..1 /\ started \in BOOLEAN
          /\ cancelled \in {"no", "close", "parent"}
          /\ adder \in [Adders -> {"idle", "signal"}]
          /\ loop \in {"none", "select", "drain", "write", "doomed", "gone"}
          /\ closer \in [Closers -> {"idle", "wait", "drain", "write", "done"}]
          /\ mark \in [Closers -> 0..MaxPoints]
          /\ batch \in [Drainers -> Seq(Points)]
          /\ written \in SUBSET Points
          /\ lost \in [Causes -> SUBSET Points]

Init == /\ added = 0 /\ buf = <<>> /\ flush = 0
        /\ adder = [a \in Adders |-> "idle"]
        /\ started = FALSE /\ cancelled = "no" /\ loop = "none"
        /\ closer = [c \in Closers |-> "idle"] /\ mark = [c \in Closers |-> 0]
        /\ batch = [d \in Drainers |-> <<>>]
        /\ written = {}
        /\ lost = [x \in Causes |-> {}]
-----------------------------------------------------------------------------
(* The parts of the methods. A name with an underscore is a faulty variant *)
(* of the definition below it; no specification uses it.                   *)

\* The context of the loop has ended.
Done == cancelled # "no"

\* Add finds the buffer full, with the new point in it.
Full_OffByOne(b) == Len(b) > maxSize
Full(b) == Len(b) >= maxSize

\* drain replaces the buffer by a new one ...
Emptied == <<>>

\* ... and hands the old one to WriteBatch.
Snapshot_Capped == SubSeq(buf, 1, IF Len(buf) < maxSize THEN Len(buf) ELSE maxSize)
Snapshot == buf

\* The cases of the loop's select besides ctx.Done(): the ticker may fire at any time.
Ticks_Never == FALSE
Ticks == TRUE

\* The case of ctx.Done().
StopCase_Forgotten == FALSE
StopCase == Done

\* Close waits for b.done before its own drain.
Stopped_NoWait == TRUE
Stopped == loop = "gone"

\* Close cancels; b.cancel is nil before Start.
Cancelling == IF started /\ ~Done THEN "close" ELSE cancelled

\* The send of Add: with the signal there already, the default case.
Sent_Queued == flush + 1
Sent == 1

-----------------------------------------------------------------------------
Start ==
    /\ ~started
    /\ started' = TRUE /\ loop' = "select"
    /\ UNCHANGED <<added, buf, flush, adder, cancelled, closer, mark, batch, written, lost>>

\* Add up to the unlock ...
Add(a) ==
    /\ adder[a] = "idle" /\ added < MaxPoints
    /\ added' = added + 1
    /\ buf' = Append(buf, added + 1)
    /\ adder' = [adder EXCEPT ![a] = IF Full(buf') THEN "signal" ELSE "idle"]
    /\ UNCHANGED <<flush, started, cancelled, loop, closer, mark, batch, written, lost>>

\* ... and the send that never blocks.
Signal(a) ==
    /\ adder[a] = "signal"
    /\ flush' = Sent
    /\ adder' = [adder EXCEPT ![a] = "idle"]
    /\ UNCHANGED <<added, buf, started, cancelled, loop, closer, mark, batch, written, lost>>

-----------------------------------------------------------------------------
\* The select of loop. Of several cases that are ready it takes any.
LoopStop ==
    /\ loop = "select" /\ StopCase
    /\ loop' = "gone"
    /\ UNCHANGED <<added, buf, flush, adder, started, cancelled, closer, mark, batch, written, lost>>

LoopTick ==
    /\ loop = "select" /\ Ticks
    /\ loop' = "drain"
    /\ UNCHANGED <<added, buf, flush, adder, started, cancelled, closer, mark, batch, written, lost>>

LoopFlush ==
    /\ loop = "select" /\ flush > 0
    /\ flush' = flush - 1
    /\ loop' = "drain"
    /\ UNCHANGED <<added, buf, adder, started, cancelled, closer, mark, batch, written, lost>>

\* drain of the loop. A write that begins under a cancelled context is doomed.
LoopDrain ==
    /\ loop = "drain"
    /\ \/ /\ buf = <<>>
          /\ loop' = "select"
          /\ UNCHANGED <<buf, batch>>
       \/ /\ buf # <<>>
          /\ loop' = IF Done THEN "doomed" ELSE "write"
          /\ batch' = [batch EXCEPT ![Loop] = Snapshot]
          /\ buf' = Emptied
    /\ UNCHANGED <<added, flush, adder, started, cancelled, closer, mark, written, lost>>

\* WriteBatch has written the snapshot of the drainer d, or failed.
Wrote(d) == /\ written' = written \cup {batch[d][i] : i \in 1..Len(batch[d])}
            /\ UNCHANGED lost
Failed(d, cause) == /\ lost' = [lost EXCEPT ![cause] = @ \cup {batch[d][i] : i \in 1..Len(batch[d])}]
                    /\ UNCHANGED written

LoopWritten ==
    /\ \/ loop = "write" /\ (Wrote(Loop) \/ Failed(Loop, "failed"))
       \/ loop \in {"write", "doomed"} /\ Done /\ Failed(Loop, "cancelled")
    /\ batch' = [batch EXCEPT ![Loop] = <<>>]
    /\ loop' = "select"
    /\ UNCHANGED <<added, buf, flush, adder, started, cancelled, closer, mark>>

-----------------------------------------------------------------------------
Close(c) ==
    /\ closer[c] = "idle"
    /\ closer' = [closer EXCEPT ![c] = "wait"]
    /\ mark' = [mark EXCEPT ![c] = added]
    /\ cancelled' = Cancelling
    /\ UNCHANGED <<added, buf, flush, adder, started, loop, batch, written, lost>>

CloseDone(c) ==
    /\ closer[c] = "wait" /\ Stopped
    /\ closer' = [closer EXCEPT ![c] = "drain"]
    /\ UNCHANGED <<added, buf, flush, adder, started, cancelled, loop, mark, batch, written, lost>>

CloseDrain(c) ==
    /\ closer[c] = "drain"
    /\ \/ /\ buf = <<>>
          /\ closer' = [closer EXCEPT ![c] = "done"]
          /\ UNCHANGED <<buf, batch>>
       \/ /\ buf # <<>>
          /\ closer' = [closer EXCEPT ![c] = "write"]
          /\ batch' = [batch EXCEPT ![c] = Snapshot]
          /\ buf' = Emptied
    /\ UNCHANGED <<added, flush, adder, started, cancelled, loop, mark, written, lost>>

CloseReturn(c) ==
    /\ closer[c] = "write"
    /\ Wrote(c) \/ Failed(c, "failed")
    /\ batch' = [batch EXCEPT ![c] = <<>>]
    /\ closer' = [closer EXCEPT ![c] = "done"]
    /\ UNCHANGED <<added, buf, flush, adder, started, cancelled, loop, mark>>

\* The context given to Start is cancelled.
ParentCancel ==
    /\ started /\ ~Done
    /\ cancelled' = "parent"
    /\ UNCHANGED <<added, buf, flush, adder, started, loop, closer, mark, batch, written, lost>>

LoopStep    == LoopStop \/ LoopTick \/ LoopFlush \/ LoopDrain \/ LoopWritten
CloserStep(c) == CloseDone(c) \/ CloseDrain(c) \/ CloseReturn(c)

Next == \/ Start \/ ParentCancel \/ LoopStep
        \/ \E a \in Adders : Add(a) \/ Signal(a)
        \/ \E c \in Closers : Close(c) \/ CloserStep(c)

\* The goroutines run, every write ends, the ticker fires again and again, and a
\* select whose case for the context stays ready takes it some time.
Fairness == /\ WF_vars(LoopStep) /\ SF_vars(LoopStop)
            /\ \A a \in Adders : WF_vars(Signal(a))
            /\ \A c \in Closers : WF_vars(CloserStep(c))

Spec     == Init /\ [][Next]_vars
FairSpec == Spec /\ Fairness

-----------------------------------------------------------------------------
In(s) == {s[i] : i \in 1..Len(s)}

\* Every point added is in one place, and never in two (Add, drain, Close): in the
\* buffer, in one batch that is being written, written, or lost with its batch.
EveryPointOnce ==
    LET places == [buffer |-> In(buf), written |-> written,
                   failed |-> lost["failed"], cancelled |-> lost["cancelled"]]
        Batches == UNION {In(batch[d]) : d \in Drainers}
    IN  /\ (UNION {places[x] : x \in DOMAIN places}) \cup Batches = 1..added
        /\ \A x, y \in DOMAIN places : x # y => places[x] \cap places[y] = {}
        /\ \A x \in DOMAIN places : places[x] \cap Batches = {}
        /\ \A d, e \in Drainers : d # e => In(batch[d]) \cap In(batch[e]) = {}

\* A full buffer does not wait for the ticker (Add, loop): the signal is in the channel,
\* or somebody is about to send it, or the loop is about to drain.
FullIsNoticed == Len(buf) >= maxSize =>
                    flush > 0 \/ loop = "drain" \/ \E a \in Adders : adder[a] = "signal"

\* Close leaves nothing behind: when it returns, no point added before it was called
\* is in the buffer or in the hands of the loop.
CloseLeavesNothing == \A c \in Closers : closer[c] = "done" =>
                         (1..mark[c]) \cap (In(buf) \cup In(batch[Loop]) \cup In(batch[c])) = {}

\* Close returns once the loop's context is cancelled. (Close before Start waits for ever.)
CloseReturns == \A c \in Closers : closer[c] = "wait" /\ Done ~> closer[c] = "done"

\* A point does not stay in the buffer while the loop runs.
BufferDrains == \A p \in Points : p \in In(buf) /\ started ~> p \notin In(buf) \/ loop = "gone"

\* src/metrics/influx/writer.go:130: Close triggers a last flush. No point is lost
\* because Close cancelled the write it was in.
NoneLostToClose == cancelled = "close" => lost["cancelled"] = {}
=============================================================================
