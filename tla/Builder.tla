------------------------------- MODULE Builder -------------------------------
(***************************************************************************)
(* The fluent builders (src/builder), the sentences they make of a chain   *)
(* of calls (src/query), and the specs of listeners, which the stream      *)
(* manager keeps and makes into a sentence again at every reattach         *)
(* (src/stream/listener.go).                                               *)
(*                                                                         *)
(* Builders and specs hold Go slices. A slice is an array and a length;    *)
(* append writes into the array while it has room and copies it when it    *)
(* has not, so that two slices may share an array. `heap` holds the arrays *)
(* ever made. A spec shares the arrays of the builder it came from, and    *)
(* the builder can be used further while the spec is registered.           *)
(*                                                                         *)
(* A word is an abstract value; where it matters for the sentence only the *)
(* class of a method is kept: Flag stands for every method that adds a     *)
(* flag, With for a pair, Where for a filter. Reading replies (Decode) and *)
(* building sentences share no state, hence the guard Building.            *)
(***************************************************************************)
EXTENDS Decode, FiniteSetsExt, SequencesExt

CONSTANTS PathBuilders, PrintBuilders, StreamBuilders,
          IDs,        \* IDs under which listeners are registered
          Nothing,    \* no builder, no spec
          Words,      \* per class, the words that calls add; NoText among the flags
          Intervals,  \* durations given to Interval, in milliseconds
          MaxFlags,   \* bound: flags in the builders
          MaxOthers,  \* bound: pairs and filters in the builders
          MaxArrays   \* bound: arrays ever made

Builders == PathBuilders \cup PrintBuilders
Classes  == {"flags", "pairs", "where"}

\* Pairs and filters are never empty. The streaming flags have methods of their own.
ASSUME WordsAssumption ==
    /\ Words \in [Classes -> SUBSET STRING]
    /\ NoText \notin Words["pairs"] \cup Words["where"]
    /\ \A c \in Classes : Words[c] \cap {"follow", "follow-only"} = {}
ASSUME IntervalsAssumption == Intervals \subseteq Int

VARIABLES heap,   \* the arrays, each a sequence of its capacity
          slice,  \* per builder and class, the slice
          stream, \* per stream builder: the print builder it was made from, and its options
          spec,   \* per ID, the spec of the registered listener
          said,   \* history: per builder and class, what the calls added
          asked   \* history: per ID, what the chain of calls stands for

buildVars == <<heap, slice, stream, spec, said, asked>>
-----------------------------------------------------------------------------
(* Slices. A name with an underscore is a faulty variant of the definition *)
(* below it; no specification uses it.                                     *)

Plain(w) == [w |-> w, text |-> <<>>]
Blank    == Plain("unused")
Nil      == [array |-> 0, len |-> 0]

Cap(h, s)      == IF s.array = 0 THEN 0 ELSE Len(h[s.array])
Contents(h, s) == [i \in 1..s.len |-> h[s.array][i]]

\* An array of the given capacity that begins with the words.
NewArray(words, cap) == words \o [i \in 1..(cap - Len(words)) |-> Blank]

\* append(s, words...): in place, or in a new array of at least twice the capacity.
Appended(h, s, words) ==
    LET len == s.len + Len(words)
    IN  IF len <= Cap(h, s)
        THEN [heap  |-> [h EXCEPT ![s.array] = [i \in DOMAIN @ |->
                            IF i \in (s.len + 1)..len THEN words[i - s.len] ELSE @[i]]],
              slice |-> [s EXCEPT !.len = len]]
        ELSE [heap  |-> Append(h, NewArray(Contents(h, s) \o words,
                                  IF len > 2 * Cap(h, s) THEN len ELSE 2 * Cap(h, s))),
              slice |-> [array |-> Len(h) + 1, len |-> len]]
-----------------------------------------------------------------------------
(* Sentences.                                                              *)

NonEmpty(words) == Dropping(words, {Plain(NoText)})

\* BuildSentence: the command, the flags that are not empty, the pairs, the filters.
BuildSentence(command, flags, pairs, where) ==
    <<command>> \o NonEmpty(flags) \o pairs \o where

\* PrintBuilder.command, and Spec.command, which is evaluated at every attach.
SentenceOf(h, command, slices) ==
    BuildSentence(command, Contents(h, slices["flags"]), Contents(h, slices["pairs"]),
                  Contents(h, slices["where"]))

\* The streaming flags: follow-only wins over follow; an interval must be positive.
Streaming(st) ==
    (IF st.followOnly THEN <<Plain("follow-only")>>
     ELSE IF st.follow THEN <<Plain("follow")>> ELSE <<>>)
      \o IF st.interval > 0 THEN <<[w |-> "interval", text |-> formatDuration(st.interval)]>> ELSE <<>>

\* Without one of them Stream returns ErrNoStreamFlag.
HasFlag(st) == st.follow \/ st.followOnly \/ st.interval > 0

\* Spec.Args: a slice of its own with room for two, to which the flags are appended.
Args_Inserted(st) ==
    LET flags == slice[st.p]["flags"]   new == Streaming(st) \o Contents(heap, flags)
    IN  IF Len(new) <= Cap(heap, flags)
        THEN [heap  |-> [heap EXCEPT ![flags.array] = NewArray(new, Cap(heap, flags))],
              slice |-> [flags EXCEPT !.len = Len(new)]]
        ELSE [heap  |-> Append(heap, new),
              slice |-> [array |-> Len(heap) + 1, len |-> Len(new)]]
Args(st) ==
    Appended(Append(heap, NewArray(Streaming(st), 2)),
             [array |-> Len(heap) + 1, len |-> Len(Streaming(st))],
             Contents(heap, slice[st.p]["flags"]))
-----------------------------------------------------------------------------
\* The words of a class in the builders, and the bound on them.
Count(c) == FoldSet(LAMBDA b, n : n + slice[b][c].len, 0, Builders)
Room(c) == IF c = "flags" THEN Count(c) < MaxFlags
           ELSE Count("pairs") + Count("where") < MaxOthers

BuildInit ==
    /\ heap = <<>>
    /\ slice = [b \in Builders |-> [c \in Classes |-> Nil]]
    /\ stream = [s \in StreamBuilders |-> Nothing]
    /\ spec = [id \in IDs |-> Nothing]
    /\ said = [b \in Builders |-> [c \in Classes |-> <<>>]]
    /\ asked = [id \in IDs |-> <<>>]

Building == raw = NoReply /\ UNCHANGED readVars

\* A call of the chain that adds a word: Arg, Flag, Detail, Stats, Proplist and the like,
\* With, Where, WherePair. A path builder has no filters.
Add(b, c, w) ==
    /\ Building /\ Room(c) /\ Len(heap) < MaxArrays
    /\ c = "where" => b \in PrintBuilders
    /\ LET after == Appended(heap, slice[b][c], <<Plain(w)>>)
       IN  heap' = after.heap /\ slice' = [slice EXCEPT ![b][c] = after.slice]
    /\ said' = [said EXCEPT ![b][c] = IF w = NoText THEN @ ELSE Append(@, Plain(w))]
    /\ UNCHANGED <<stream, spec, asked>>

\* Follow, FollowOnly and Interval of a print builder make a stream builder of it ...
MakeStream(s, p, f, d) ==
    /\ Building /\ stream[s] = Nothing
    /\ stream' = [stream EXCEPT ![s] = [p |-> p, follow |-> f = "follow",
                                        followOnly |-> f = "follow-only", interval |-> d]]
    /\ UNCHANGED <<heap, slice, spec, said, asked>>

\* ... which has the same methods, to combine them.
Combine(s, f, d) ==
    /\ Building /\ stream[s] # Nothing
    /\ stream' = [stream EXCEPT ![s].follow = @ \/ f = "follow",
                                ![s].followOnly = @ \/ f = "follow-only",
                                ![s].interval = IF f = "interval" THEN d ELSE @]
    /\ UNCHANGED <<heap, slice, spec, said, asked>>

\* What a chain on the builder b stands for.
Chain(command, flags, b) ==
    <<Plain(command)>> \o flags \o said[b]["flags"] \o said[b]["pairs"] \o said[b]["where"]

\* Register keeps the spec, unless the ID is in use; here it keeps it for ever. How a
\* registration ends is in StreamManager.
KeepSpec(id, h, command, slices, chain) ==
    /\ Building /\ spec[id] = Nothing
    /\ heap' = h
    /\ spec' = [spec EXCEPT ![id] = [command |-> Plain(command), slices |-> slices]]
    /\ asked' = [asked EXCEPT ![id] = chain]
    /\ UNCHANGED <<slice, stream, said>>

\* PathBuilder.Stream, with CancelTimeout or not: the spec has the builder's slices.
PathStream(b, id) == KeepSpec(id, heap, "path", slice[b], Chain("path", <<>>, b))

\* StreamBuilder.Stream.
PrintStream(s, id) ==
    /\ stream[s] # Nothing /\ HasFlag(stream[s])
    /\ Len(heap) + 2 <= MaxArrays
    /\ LET st == stream[s]   args == Args(st)
       IN  KeepSpec(id, args.heap, "print", [slice[st.p] EXCEPT !["flags"] = args.slice],
                    Chain("print", Streaming(st), st.p))

BuildNext ==
    \/ \E b \in Builders, c \in Classes : \E w \in Words[c] : Add(b, c, w)
    \/ \E s \in StreamBuilders, f \in {"follow", "follow-only"} :
          (\E p \in PrintBuilders : MakeStream(s, p, f, 0)) \/ Combine(s, f, 0)
    \/ \E s \in StreamBuilders, d \in Intervals :
          (\E p \in PrintBuilders : MakeStream(s, p, "interval", d)) \/ Combine(s, "interval", d)
    \/ \E b \in PathBuilders, id \in IDs : PathStream(b, id)
    \/ \E s \in StreamBuilders, id \in IDs : PrintStream(s, id)

WordsInit == BuildInit /\ (ReadInit \/ (meant = <<>> /\ raw = NoReply /\ seen = <<>> /\ again = <<>>))
WordsNext == BuildNext \/ (ReadNext /\ UNCHANGED buildVars)

WordsSpec == WordsInit /\ [][WordsNext]_<<buildVars, readVars>>
-----------------------------------------------------------------------------
(* Commands that are sent once leave no state behind: what would be sent   *)
(* now, beside what the call says.                                         *)

\* Exec of a print builder, and the fetch of ExecCached.
RunPrint(b) == <<SentenceOf(heap, Plain("print"), slice[b]), Chain("print", <<>>, b)>>

\* Set: the numbers, if any, come first. Remove, Enable and Disable have only the numbers,
\* Add and Run only the pairs.
Write(numbers, pairs) ==
    LET all == NonEmpty(<<Plain(numbers)>>) \o pairs
    IN  <<BuildSentence(Plain("set"), <<>>, all, <<>>), <<Plain("set")>> \o all>>

\* A tick of a poll: the first of Args is the action, by default print, the rest are flags.
Poll(args) ==
    LET words  == [i \in DOMAIN args |-> Plain(args[i])]
        action == IF words = <<>> THEN Plain("print") ELSE Head(words)
        flags  == IF words = <<>> THEN <<>> ELSE Tail(words)
    IN  <<BuildSentence(action, flags, <<>>, <<>>), <<action>> \o NonEmpty(flags)>>

OneShots ==
    {RunPrint(b) : b \in PrintBuilders}
      \cup {Write(numbers, <<Plain(w)>>) : numbers \in Words["flags"], w \in Words["pairs"]}
      \cup {Poll(args) : args \in {<<>>} \cup (Words["flags"] \X Words["flags"])}
-----------------------------------------------------------------------------
\* What is sent is what the chain of calls says, no word lost, doubled or empty. This holds
\* for as long as a listener is registered, whatever the builders it came from are used for
\* meanwhile: a reattach sends the same sentence (BuildSentence, Stream, Spec.command). And
\* the sentence of a listener on print streams: it has follow or follow-only, but not both,
\* or an interval (StreamBuilder.Stream, ErrNoStreamFlag).
WordsAsAsked ==
    /\ \A shot \in OneShots : shot[1] = shot[2]
    /\ \A id \in IDs : spec[id] # Nothing =>
          LET words == SentenceOf(heap, spec[id].command, spec[id].slices)
          IN  /\ words = asked[id]
              /\ spec[id].command = Plain("print") =>
                    /\ \E word \in ToSet(words) : word.w \in {"follow", "follow-only", "interval"}
                    /\ ~({Plain("follow"), Plain("follow-only")} \subseteq ToSet(words))
=============================================================================
