------------------------ MODULE BatchedWriter_proofs ------------------------
(***************************************************************************)
(* Proofs about BatchedWriter, for any number of adders, closers and       *)
(* points and any capacity: no point is lost on the way or written twice,  *)
(* and Close leaves nothing behind.                                        *)
(***************************************************************************)
EXTENDS BatchedWriter, TLAPS

\* EveryPointOnce, place by place.
Places ==
    /\ \A n : n \in 1..added <=>
          \/ n \in In(buf) \/ n \in written \/ n \in lost["failed"] \/ n \in lost["cancelled"]
          \/ \E d \in Drainers : n \in In(batch[d])
    /\ \A n \in In(buf) : /\ n \notin written /\ n \notin lost["failed"] /\ n \notin lost["cancelled"]
                          /\ \A d \in Drainers : n \notin In(batch[d])
    /\ \A d \in Drainers : \A n \in In(batch[d]) :
          /\ n \notin written /\ n \notin lost["failed"] /\ n \notin lost["cancelled"]
          /\ \A e \in Drainers : d # e => n \notin In(batch[e])
    /\ \A n \in written : n \notin lost["failed"] /\ n \notin lost["cancelled"]
    /\ \A n \in lost["failed"] : n \notin lost["cancelled"]

\* A drainer has a batch only while it writes it: nothing is overwritten by a drain.
BatchInWrite ==
    /\ loop \notin {"write", "doomed"} => batch[Loop] = <<>>
    /\ \A c \in Closers : closer[c] # "write" => batch[c] = <<>>

\* A closer drains after the loop has gone, which does not come back; what is added while
\* it writes was added after its Close.
LoopFirst ==
    /\ started <=> loop # "none"
    /\ \A c \in Closers : /\ closer[c] \in {"drain", "write", "done"} => loop = "gone"
                          /\ mark[c] <= added
                          /\ closer[c] = "write" => (1..mark[c]) \cap In(buf) = {}

IInv == TypeOK /\ Places /\ BatchInWrite /\ LoopFirst /\ FullIsNoticed /\ CloseLeavesNothing
-----------------------------------------------------------------------------
LEMMA InEmpty == In(<<>>) = {}
BY DEF In

LEMMA InAppend ==
    ASSUME NEW S, NEW s \in Seq(S), NEW x \in S
    PROVE  In(Append(s, x)) = In(s) \cup {x}
<1>1. \A i \in 1..Len(s) : Append(s, x)[i] = s[i]
  OBVIOUS
<1>2. Append(s, x)[Len(s) + 1] = x /\ Len(Append(s, x)) = Len(s) + 1 /\ Len(s) \in Nat
  OBVIOUS
<1>3. \A i : i \in 1..(Len(s) + 1) <=> i \in 1..Len(s) \/ i = Len(s) + 1
  BY <1>2
<1> HIDE DEF In
<1>4. \A y \in In(Append(s, x)) : y \in In(s) \cup {x}
  BY <1>1, <1>2, <1>3 DEF In
<1>5. \A y \in In(s) \cup {x} : y \in In(Append(s, x))
  BY <1>1, <1>2, <1>3 DEF In
<1> QED
  BY <1>4, <1>5

LEMMA PlacesAreOnce == ASSUME Places PROVE EveryPointOnce
<1> DEFINE places == [buffer |-> In(buf), written |-> written,
                      failed |-> lost["failed"], cancelled |-> lost["cancelled"]]
           Batches == UNION {In(batch[d]) : d \in Drainers}
           Kept == UNION {places[x] : x \in DOMAIN places}
<1>1. DOMAIN places = {"buffer", "written", "failed", "cancelled"}
  OBVIOUS
<1>2. Kept \cup Batches = 1..added
  <2>1. \A n : n \in Batches <=> \E d \in Drainers : n \in In(batch[d])
    BY Zenon
  <2>2. \A n : n \in Kept <=>
            \/ n \in In(buf) \/ n \in written \/ n \in lost["failed"] \/ n \in lost["cancelled"]
    BY <1>1
  <2> HIDE DEF Batches, Kept
  <2>3. \A n : n \in Kept \cup Batches <=> n \in 1..added
    BY <2>1, <2>2, Zenon DEF Places
  <2> QED
    BY <2>3, Zenon
<1>3. \A x, y \in DOMAIN places : x # y => places[x] \cap places[y] = {}
  BY DEF Places
<1>4. \A x \in DOMAIN places : places[x] \cap Batches = {}
  BY DEF Places
<1>5. \A d, e \in Drainers : d # e => In(batch[d]) \cap In(batch[e]) = {}
  BY DEF Places
<1> QED
  BY <1>2, <1>3, <1>4, <1>5 DEF EveryPointOnce

-----------------------------------------------------------------------------
(* Points move between places in three ways.                               *)

LEMMA PlacesAdd ==
    ASSUME TypeOK, Places, added < MaxPoints, added' = added + 1, buf' = Append(buf, added + 1),
           UNCHANGED <<batch, written, lost>>
    PROVE  Places'
<1>0. buf \in Seq(Points) /\ added + 1 \in Points
  BY BatchAssumption DEF TypeOK, Points
<1>1. In(buf') = In(buf) \cup {added + 1}
  BY <1>0, InAppend
<1>2. \A n : n \in 1..added' <=> n \in 1..added \/ n = added + 1
  BY DEF TypeOK
<1>3. added + 1 \notin 1..added
  BY DEF TypeOK
<1> QED
  BY <1>1, <1>2, <1>3 DEF Places

LEMMA PlacesDrain ==
    ASSUME TypeOK, Places, NEW d \in Drainers, batch[d] = <<>>, buf' = <<>>,
           batch' = [batch EXCEPT ![d] = buf], UNCHANGED <<added, written, lost>>
    PROVE  Places'
<1>1. In(buf') = {} /\ In(batch[d]) = {}
  BY InEmpty
<1>2. /\ In(batch'[d]) = In(buf)
      /\ \A e \in Drainers \ {d} : In(batch'[e]) = In(batch[e])
  BY DEF TypeOK
<1> QED
  BY <1>1, <1>2 DEF Places

\* What is written or lost was in a batch.
LEMMA WrittenTyped ==
    ASSUME TypeOK, NEW d \in Drainers, Wrote(d) \/ \E x \in Causes : Failed(d, x)
    PROVE  written' \in SUBSET Points /\ lost' \in [Causes -> SUBSET Points]
<1>1. {batch[d][i] : i \in 1..Len(batch[d])} \in SUBSET Points
  BY DEF TypeOK
<1>2. CASE Wrote(d)
  BY <1>1, <1>2 DEF Wrote, TypeOK
<1>3. ASSUME NEW x \in Causes, Failed(d, x) PROVE lost' \in [Causes -> SUBSET Points] /\ written' = written
  <2>1. lost[x] \cup {batch[d][i] : i \in 1..Len(batch[d])} \in SUBSET Points
    BY <1>1 DEF TypeOK
  <2> QED
    BY <1>3, <2>1 DEF Failed, TypeOK
<1> QED
  BY <1>2, <1>3 DEF TypeOK

LEMMA PlacesWritten ==
    ASSUME TypeOK, Places, NEW d \in Drainers, batch' = [batch EXCEPT ![d] = <<>>],
           Wrote(d) \/ \E x \in Causes : Failed(d, x), UNCHANGED <<added, buf>>
    PROVE  Places'
<1>1. /\ In(batch'[d]) = {}
      /\ \A e \in Drainers \ {d} : In(batch'[e]) = In(batch[e])
  BY InEmpty DEF TypeOK
<1>2. \/ written' = written \cup In(batch[d]) /\ lost' = lost
      \/ /\ written' = written
         /\ \/ lost'["failed"] = lost["failed"] \cup In(batch[d]) /\ lost'["cancelled"] = lost["cancelled"]
            \/ lost'["cancelled"] = lost["cancelled"] \cup In(batch[d]) /\ lost'["failed"] = lost["failed"]
  BY DEF Wrote, Failed, In, Causes, TypeOK
<1> QED
  BY <1>1, <1>2 DEF Places
-----------------------------------------------------------------------------
LEMMA InitInv == Init => IInv
<1> SUFFICES ASSUME Init PROVE IInv
  OBVIOUS
<1>1. TypeOK
  <2>1. /\ 0 \in 0..MaxPoints /\ <<>> \in Seq(Points)
        /\ mark \in [Closers -> 0..MaxPoints] /\ batch \in [Drainers -> Seq(Points)]
    BY BatchAssumption DEF Init
  <2>2. /\ adder \in [Adders -> {"idle", "signal"}]
        /\ closer \in [Closers -> {"idle", "wait", "drain", "write", "done"}]
        /\ lost \in [Causes -> SUBSET Points]
    BY DEF Init
  <2>3. added \in 0..MaxPoints /\ buf \in Seq(Points) /\ flush \in 0..1
    BY <2>1 DEF Init
  <2>4. /\ started \in BOOLEAN /\ cancelled \in {"no", "close", "parent"}
        /\ loop \in {"none", "select", "drain", "write", "doomed", "gone"}
        /\ written \in SUBSET Points
    BY Zenon DEF Init
  <2> QED
    BY <2>1, <2>2, <2>3, <2>4, Zenon DEF TypeOK
<1>2. Places
  BY InEmpty DEF Init, Places, Causes
<1>3. BatchInWrite /\ LoopFirst
  BY DEF Init, BatchInWrite, LoopFirst, Drainers
<1>4. FullIsNoticed /\ CloseLeavesNothing
  BY BatchAssumption DEF Init, FullIsNoticed, CloseLeavesNothing
<1> QED
  BY <1>1, <1>2, <1>3, <1>4 DEF IInv

LEMMA AddInv == ASSUME IInv, NEW a \in Adders, Add(a) PROVE IInv'
<1>0. TypeOK /\ Places /\ BatchInWrite /\ LoopFirst /\ FullIsNoticed /\ CloseLeavesNothing
  BY DEF IInv
<1>1. added + 1 \in Points /\ added' = added + 1 /\ buf' = Append(buf, added + 1)
  BY <1>0, BatchAssumption DEF Add, TypeOK, Points
<1>2. In(buf') = In(buf) \cup {added + 1}
  BY <1>0, <1>1, InAppend DEF TypeOK
<1>3. TypeOK'
  BY <1>0, <1>1 DEF Add, TypeOK, Points
<1>4. Places'
  BY <1>0, PlacesAdd DEF Add
<1>5. BatchInWrite'
  BY <1>0 DEF Add, BatchInWrite
<1>6. LoopFirst'
  <2>1. \A c \in Closers : mark[c] <= added /\ added + 1 \notin 1..mark[c]
    BY <1>0 DEF LoopFirst, TypeOK
  <2> QED
    BY <1>0, <1>1, <1>2, <2>1 DEF Add, LoopFirst, TypeOK
<1>7. FullIsNoticed'
  BY <1>0, <1>1 DEF Add, FullIsNoticed, Full, TypeOK
<1>8. CloseLeavesNothing'
  <2>1. \A c \in Closers : added + 1 \notin 1..mark[c]
    BY <1>0 DEF LoopFirst, TypeOK
  <2> QED
    BY <1>0, <1>2, <2>1 DEF Add, CloseLeavesNothing
<1> QED
  BY <1>3, <1>4, <1>5, <1>6, <1>7, <1>8 DEF IInv

LEMMA LoopDrainInv == ASSUME IInv, LoopDrain PROVE IInv'
<1>0. TypeOK /\ Places /\ BatchInWrite /\ LoopFirst /\ FullIsNoticed /\ CloseLeavesNothing
  BY DEF IInv
<1>1. CASE buf = <<>>
  <2>1. TypeOK'
    BY <1>0, <1>1 DEF LoopDrain, TypeOK
  <2>2. Places'
    BY <1>0, <1>1 DEF LoopDrain, Places
  <2>3. BatchInWrite' /\ LoopFirst' /\ FullIsNoticed' /\ CloseLeavesNothing'
    BY <1>0, <1>1, BatchAssumption
       DEF LoopDrain, BatchInWrite, LoopFirst, FullIsNoticed, CloseLeavesNothing
  <2> QED
    BY <2>1, <2>2, <2>3 DEF IInv
<1>2. CASE buf # <<>>
  <2>1. /\ buf' = <<>> /\ batch' = [batch EXCEPT ![Loop] = buf]
        /\ Loop \in Drainers /\ \A c \in Closers : c # Loop /\ c \in Drainers
    BY <1>2, BatchAssumption DEF LoopDrain, Emptied, Snapshot, Drainers, Loop
  <2>2. TypeOK'
    BY <1>0, <1>2, <2>1 DEF LoopDrain, TypeOK
  <2>3. Places'
    BY <1>0, <2>1, PlacesDrain DEF LoopDrain, BatchInWrite
  <2>4. BatchInWrite'
    BY <1>0, <1>2, <2>1 DEF LoopDrain, BatchInWrite, TypeOK
  <2>5. LoopFirst'
    BY <1>0, <1>2, <2>1, InEmpty DEF LoopDrain, LoopFirst
  <2>6. FullIsNoticed'
    BY <1>0, <2>1, BatchAssumption DEF FullIsNoticed
  <2>7. CloseLeavesNothing'
    BY <1>0 DEF LoopDrain, LoopFirst, CloseLeavesNothing
  <2> QED
    BY <2>2, <2>3, <2>4, <2>5, <2>6, <2>7 DEF IInv
<1> QED
  BY <1>1, <1>2

LEMMA LoopWrittenInv == ASSUME IInv, LoopWritten PROVE IInv'
<1>0. TypeOK /\ Places /\ BatchInWrite /\ LoopFirst /\ FullIsNoticed /\ CloseLeavesNothing
  BY DEF IInv
<1>1. /\ batch' = [batch EXCEPT ![Loop] = <<>>]
      /\ Loop \in Drainers /\ \A c \in Closers : c # Loop /\ c \in Drainers
  BY BatchAssumption DEF LoopWritten, Drainers, Loop
<1>2. Wrote(Loop) \/ \E x \in Causes : Failed(Loop, x)
  BY DEF LoopWritten, Causes
<1>3. TypeOK'
  <2>1. batch' \in [Drainers -> Seq(Points)] /\ loop' = "select"
    BY <1>0, <1>1 DEF LoopWritten, TypeOK
  <2> QED
    BY <1>0, <1>1, <1>2, <2>1, WrittenTyped DEF LoopWritten, TypeOK
<1>4. Places'
  BY <1>0, <1>1, <1>2, PlacesWritten DEF LoopWritten
<1>5. BatchInWrite'
  BY <1>0, <1>1 DEF LoopWritten, BatchInWrite, TypeOK
<1>6. LoopFirst'
  BY <1>0 DEF LoopWritten, LoopFirst
<1>7. FullIsNoticed'
  BY <1>0 DEF LoopWritten, FullIsNoticed
<1>8. CloseLeavesNothing'
  BY <1>0 DEF LoopWritten, LoopFirst, CloseLeavesNothing
<1> QED
  BY <1>3, <1>4, <1>5, <1>6, <1>7, <1>8 DEF IInv

LEMMA CloseDrainInv == ASSUME IInv, NEW c \in Closers, CloseDrain(c) PROVE IInv'
<1>0. TypeOK /\ Places /\ BatchInWrite /\ LoopFirst /\ FullIsNoticed /\ CloseLeavesNothing
  BY DEF IInv
<1>1. /\ closer[c] = "drain" /\ loop = "gone" /\ batch[Loop] = <<>> /\ batch[c] = <<>>
      /\ c \in Drainers /\ c # Loop
  BY <1>0, BatchAssumption DEF CloseDrain, LoopFirst, BatchInWrite, Drainers, Loop
<1>2. CASE buf = <<>>
  <2>1. TypeOK' /\ Places'
    BY <1>0, <1>2 DEF CloseDrain, TypeOK, Places
  <2>2. BatchInWrite' /\ LoopFirst' /\ FullIsNoticed'
    BY <1>0, <1>1, <1>2 DEF CloseDrain, BatchInWrite, LoopFirst, FullIsNoticed, TypeOK
  <2>3. CloseLeavesNothing'
    BY <1>0, <1>1, <1>2, InEmpty DEF CloseDrain, CloseLeavesNothing, TypeOK
  <2> QED
    BY <2>1, <2>2, <2>3 DEF IInv
<1>3. CASE buf # <<>>
  <2>1. /\ buf' = <<>> /\ batch' = [batch EXCEPT ![c] = buf]
        /\ closer' = [closer EXCEPT ![c] = "write"]
    BY <1>3 DEF CloseDrain, Emptied, Snapshot
  <2>2. TypeOK'
    BY <1>0, <1>1, <2>1 DEF CloseDrain, TypeOK
  <2>3. Places'
    BY <1>0, <1>1, <2>1, PlacesDrain DEF CloseDrain
  <2>4. BatchInWrite'
    BY <1>0, <1>1, <2>1 DEF CloseDrain, BatchInWrite, TypeOK, Drainers
  <2>5. LoopFirst'
    BY <1>0, <1>1, <2>1, InEmpty DEF CloseDrain, LoopFirst, TypeOK
  <2>6. FullIsNoticed'
    BY <1>0, <2>1, BatchAssumption DEF FullIsNoticed
  <2>7. CloseLeavesNothing'
    BY <1>0, <1>1, <2>1, InEmpty DEF CloseDrain, CloseLeavesNothing, TypeOK, Drainers
  <2> QED
    BY <2>2, <2>3, <2>4, <2>5, <2>6, <2>7 DEF IInv
<1> QED
  BY <1>2, <1>3

LEMMA CloseReturnInv == ASSUME IInv, NEW c \in Closers, CloseReturn(c) PROVE IInv'
<1>0. TypeOK /\ Places /\ BatchInWrite /\ LoopFirst /\ FullIsNoticed /\ CloseLeavesNothing
  BY DEF IInv
<1>1. /\ batch' = [batch EXCEPT ![c] = <<>>] /\ closer' = [closer EXCEPT ![c] = "done"]
      /\ closer[c] = "write" /\ c \in Drainers /\ c # Loop /\ Loop \in Drainers
  BY BatchAssumption DEF CloseReturn, Drainers, Loop
<1>2. Wrote(c) \/ \E x \in Causes : Failed(c, x)
  BY DEF CloseReturn, Causes
<1>3. TypeOK'
  <2>1. /\ batch' \in [Drainers -> Seq(Points)]
        /\ closer' \in [Closers -> {"idle", "wait", "drain", "write", "done"}]
    BY <1>0, <1>1 DEF TypeOK
  <2> QED
    BY <1>0, <1>1, <1>2, <2>1, WrittenTyped DEF CloseReturn, TypeOK
<1>4. Places'
  BY <1>0, <1>1, <1>2, PlacesWritten DEF CloseReturn
<1>5. BatchInWrite'
  BY <1>0, <1>1 DEF CloseReturn, BatchInWrite, TypeOK, Drainers
<1>6. LoopFirst'
  BY <1>0, <1>1 DEF CloseReturn, LoopFirst, TypeOK
<1>7. FullIsNoticed'
  BY <1>0 DEF CloseReturn, FullIsNoticed
<1>8. CloseLeavesNothing'
  <2>1. loop = "gone" /\ batch[Loop] = <<>> /\ (1..mark[c]) \cap In(buf) = {}
    BY <1>0, <1>1 DEF LoopFirst, BatchInWrite
  <2> QED
    BY <1>0, <1>1, <2>1, InEmpty DEF CloseReturn, CloseLeavesNothing, TypeOK, Drainers
<1> QED
  BY <1>3, <1>4, <1>5, <1>6, <1>7, <1>8 DEF IInv

\* The steps that move no point.
LEMMA OtherInv ==
    ASSUME IInv,
           \/ Start \/ ParentCancel \/ LoopStop \/ LoopTick \/ LoopFlush
           \/ \E a \in Adders : Signal(a)
           \/ \E c \in Closers : Close(c) \/ CloseDone(c)
    PROVE  IInv'
<1>0. TypeOK /\ Places /\ BatchInWrite /\ LoopFirst /\ FullIsNoticed /\ CloseLeavesNothing
  BY DEF IInv
<1>1. UNCHANGED <<added, buf, batch, written, lost>>
  BY DEF Start, ParentCancel, LoopStop, LoopTick, LoopFlush, Signal, Close, CloseDone
<1>2. Places'
  BY <1>0, <1>1 DEF Places
<1>3. CASE Start \/ ParentCancel
  BY <1>0, <1>2, <1>3 DEF Start, ParentCancel, IInv, TypeOK, BatchInWrite, LoopFirst, FullIsNoticed,
                          CloseLeavesNothing
<1>4. CASE LoopStop \/ LoopTick \/ LoopFlush
  BY <1>0, <1>2, <1>4 DEF LoopStop, LoopTick, LoopFlush, IInv, TypeOK, BatchInWrite, LoopFirst,
                          FullIsNoticed, CloseLeavesNothing
<1>5. ASSUME NEW a \in Adders, Signal(a) PROVE IInv'
  BY <1>0, <1>2, <1>5 DEF Signal, Sent, IInv, TypeOK, BatchInWrite, LoopFirst, FullIsNoticed,
                          CloseLeavesNothing
<1>6. ASSUME NEW c \in Closers, Close(c) \/ CloseDone(c) PROVE IInv'
  <2>0. /\ closer[c] \in {"idle", "wait"}
        /\ \E pc \in {"wait", "drain"} : closer' = [closer EXCEPT ![c] = pc]
        /\ mark' \in [Closers -> 0..MaxPoints]
        /\ cancelled' \in {"no", "close", "parent"}
        /\ UNCHANGED <<added, buf, flush, adder, started, loop, batch, written, lost>>
    <3>1. CASE Close(c)
      <4>1. cancelled' \in {"no", "close", "parent"}
        BY <1>0, <3>1 DEF Close, Cancelling, TypeOK
      <4>2. mark' \in [Closers -> 0..MaxPoints]
        BY <1>0, <3>1 DEF Close, TypeOK
      <4> QED
        BY <3>1, <4>1, <4>2 DEF Close
    <3>2. CASE CloseDone(c)
      BY <1>0, <3>2 DEF CloseDone, TypeOK
    <3> QED
      BY <1>6, <3>1, <3>2
  <2>1. TypeOK'
    BY <1>0, <2>0 DEF TypeOK
  <2>2. BatchInWrite' /\ FullIsNoticed'
    <3>1. \A e \in Closers : closer'[e] # "write" => closer[e] # "write"
      BY <1>0, <2>0 DEF TypeOK
    <3> QED
      BY <1>0, <2>0, <3>1 DEF BatchInWrite, FullIsNoticed
  <2>3. \A e \in Closers : /\ closer'[e] = "done" => closer[e] = "done" /\ mark'[e] = mark[e]
                           /\ closer'[e] = "write" => closer[e] = "write" /\ mark'[e] = mark[e]
    BY <1>0, <1>6, <2>0 DEF Close, CloseDone, TypeOK
  <2>4. CloseLeavesNothing'
    BY <1>0, <2>0, <2>3 DEF CloseLeavesNothing
  <2>5. LoopFirst'
    <3>1. \A e \in Closers : mark'[e] <= added
      <4>1. mark' = mark \/ mark' = [mark EXCEPT ![c] = added]
        BY <1>6 DEF Close, CloseDone
      <4> QED
        BY <1>0, <4>1 DEF LoopFirst, TypeOK
    <3>2. \A e \in Closers : closer'[e] = "drain" => closer[e] = "drain" \/ loop = "gone"
      BY <1>0, <1>6 DEF Close, CloseDone, Stopped, TypeOK
    <3> QED
      BY <1>0, <2>0, <2>3, <3>1, <3>2 DEF LoopFirst
  <2> QED
    BY <1>2, <2>1, <2>2, <2>4, <2>5 DEF IInv
<1> QED
  BY <1>3, <1>4, <1>5, <1>6

LEMMA NextInv == IInv /\ [Next]_vars => IInv'
<1> SUFFICES ASSUME IInv, [Next]_vars PROVE IInv'
  OBVIOUS
<1>1. CASE UNCHANGED vars
  <2>1. TypeOK' /\ Places' /\ BatchInWrite'
    BY <1>1 DEF vars, IInv, TypeOK, Places, BatchInWrite
  <2>2. LoopFirst' /\ FullIsNoticed' /\ CloseLeavesNothing'
    BY <1>1 DEF vars, IInv, LoopFirst, FullIsNoticed, CloseLeavesNothing
  <2> QED
    BY <2>1, <2>2 DEF IInv
<1>2. CASE Next
  BY <1>2, AddInv, LoopDrainInv, LoopWrittenInv, CloseDrainInv, CloseReturnInv, OtherInv
     DEF Next, LoopStep, CloserStep
<1> QED
  BY <1>1, <1>2

-----------------------------------------------------------------------------
\* The inductive invariant.
THEOREM Invariance == Spec => []IInv
BY InitInv, NextInv, PTL DEF Spec

\* The writer and its callers keep their types.
THEOREM TypeCorrect == Spec => []TypeOK
<1>1. IInv => TypeOK
  BY DEF IInv
<1> QED
  BY <1>1, Invariance, PTL

\* A point that Add took is in the buffer, in one batch being written, written, or lost
\* with its batch, and in one of these only (Add, drain, WriteBatch).
THEOREM PointsAreConserved == Spec => []EveryPointOnce
<1>1. IInv => EveryPointOnce
  BY PlacesAreOnce DEF IInv
<1> QED
  BY <1>1, Invariance, PTL

\* No full buffer is left without a signal, a sender or a drain (Add, loop).
THEOREM FullBufferIsNoticed == Spec => []FullIsNoticed
<1>1. IInv => FullIsNoticed
  BY DEF IInv
<1> QED
  BY <1>1, Invariance, PTL

\* No point added before a Close that has returned is in the buffer or in a batch (Close).
THEOREM CloseIsComplete == Spec => []CloseLeavesNothing
<1>1. IInv => CloseLeavesNothing
  BY DEF IInv
<1> QED
  BY <1>1, Invariance, PTL
=============================================================================
