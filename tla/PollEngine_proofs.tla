------------------------- MODULE PollEngine_proofs -------------------------
(***************************************************************************)
(* Proofs about PollEngine, for any number of callers, polls, intervals,   *)
(* groups and commands in flight: index and groups agree, an interval has  *)
(* one ticker, the counters are exact, a tick goes beyond MaxInFlight only *)
(* past a command that has not counted itself in; and it implements        *)
(* IDRegistry.                                                             *)
(***************************************************************************)
EXTENDS PollEngine, FiniteSetTheorems, TLAPS

\* The commands of a poll that count.
InFlight(s) == {r \in Runs : run[r].poll = s /\ run[r].pc \in {"running", "handler"}}

\* A command belongs to a poll.
RunsWired == \A r \in Runs : run[r].pc # "none" => run[r].poll \in Polls

\* A group is filed under its own interval.
GroupsWired ==
    /\ \A g \in Groups : group[g].pc # "none" => group[g].interval \in Intervals
    /\ \A i \in Intervals : groups[i] # Nil => /\ group[groups[i]].pc # "none"
                                               /\ group[groups[i]].interval = i

\* Who waits in Unregister holds the lock, and the group it waits for is filed and empty.
Waiting ==
    /\ lock # Nil => proc[lock].at = "wait"
    /\ \A p \in Callers : proc[p].at = "wait" =>
          /\ lock = p /\ proc[p].group \in Groups
          /\ group[proc[p].group].pc # "none"
          /\ group[proc[p].group].configs = {}
          /\ groups[group[proc[p].group].interval] = proc[p].group

\* IndexAgrees, with what holds of it while the lock is kept.
Indexed ==
    /\ \A id \in IDs, i \in Intervals :
          idx[id] = i <=> groups[i] # Nil /\ \E s \in group[groups[i]].configs : poll[s].id = id
    /\ \A i \in Intervals : groups[i] # Nil /\ group[groups[i]].configs = {} =>
          lock # Nil /\ proc[lock].group = groups[i]
    /\ \A g \in Groups : \A s \in group[g].configs :
          /\ poll[s].id # Nil
          /\ \A t \in group[g].configs : poll[s].id = poll[t].id => s = t

IInv == TypeOK /\ RunsWired /\ InFlightExact /\ GroupsWired /\ Waiting /\ Indexed /\ OneTicker
-----------------------------------------------------------------------------
LEMMA NilApart == Nil \notin Polls /\ Nil \notin Groups /\ Nil \notin Runs
BY DEF Nil, Polls, Groups, Runs

LEMMA InFlightFinite == ASSUME NEW s PROVE IsFiniteSet(InFlight(s))
<1>1. IsFiniteSet(Runs)
  BY FS_Interval, PollBounds DEF Runs
<1> QED
  BY <1>1, FS_Subset DEF InFlight

LEMMA InitInv == Init => IInv
<1> SUFFICES ASSUME Init PROVE IInv
  OBVIOUS
<1>1. TypeOK
  <2>1. NoGroup \in GroupRec /\ NoRun \in RunRec /\ Idle \in ProcRec
    BY DEF NoGroup, GroupRec, NoRun, RunRec, Idle, ProcRec
  <2>2. [id |-> Nil, inFlight |-> 0] \in PollRec /\ 1 \in Conns
    BY PollBounds DEF PollRec, Conns
  <2> QED
    BY <2>1, <2>2 DEF Init, TypeOK
<1>2. RunsWired /\ GroupsWired /\ OneTicker
  BY DEF Init, RunsWired, GroupsWired, OneTicker, NoRun, NoGroup
<1>3. Waiting
  BY DEF Init, Waiting, Idle
<1>4. Indexed
  BY PollNames DEF Init, Indexed, NoGroup
<1>5. InFlightExact
  <2> SUFFICES ASSUME NEW s \in Polls PROVE poll[s].inFlight = Cardinality(InFlight(s))
    BY DEF InFlightExact, InFlight
  <2>1. InFlight(s) = {}
    BY DEF Init, InFlight, NoRun
  <2> QED
    BY <2>1, FS_EmptySet DEF Init
<1> QED
  BY <1>1, <1>2, <1>3, <1>4, <1>5 DEF IInv

-----------------------------------------------------------------------------
(* What most steps leave alone.                                            *)

\* The counters, when no command begins or ends to count.
LEMMA SameInFlight ==
    ASSUME RunsWired, InFlightExact,
           \A s \in Polls : poll'[s].inFlight = poll[s].inFlight,
           \A r \in Runs : \/ run'[r] = run[r]
                           \/ /\ run[r].pc \in {"running", "handler"} /\ run'[r].poll = run[r].poll
                              /\ run'[r].pc \in {"running", "handler"}
                           \/ /\ run[r].pc = "none" /\ run'[r].pc = "spawned"
                              /\ run'[r].poll \in Polls
    PROVE  RunsWired' /\ InFlightExact'
<1>1. RunsWired'
  BY DEF RunsWired
<1>2. \A s \in Polls : InFlight(s)' = InFlight(s)
  BY DEF InFlight
<1> QED
  BY <1>1, <1>2 DEF InFlightExact, InFlight

\* Index and groups, in the steps of the groups and of Close.
LEMMA SameIndex ==
    ASSUME TypeOK, GroupsWired, Waiting, Indexed, OneTicker,
           UNCHANGED <<idx, groups, lock>>,
           \A s \in Polls : poll'[s].id = poll[s].id,
           \A g \in Groups : /\ group'[g].interval = group[g].interval
                             /\ group'[g].configs = group[g].configs
                             /\ group'[g].pc = "none" <=> group[g].pc = "none"
                             /\ group[g].pc = "exit" => group'[g].pc = "exit",
           \A p \in Callers : /\ proc'[p].at = "wait" <=> proc[p].at = "wait"
                              /\ proc[p].at = "wait" => proc'[p].group = proc[p].group
    PROVE  GroupsWired' /\ Waiting' /\ Indexed' /\ OneTicker'
<1>0. /\ \A i \in Intervals : groups[i] # Nil => groups[i] \in Groups
      /\ \A g \in Groups : group[g].configs \subseteq Polls
      /\ lock # Nil => lock \in Callers
  BY DEF TypeOK, GroupRec
<1>1. GroupsWired'
  BY <1>0 DEF GroupsWired
<1>2. Waiting'
  BY <1>0 DEF Waiting
<1>3. Indexed'
  <2>1. \A id \in IDs, i \in Intervals :
          idx'[id] = i <=> groups'[i] # Nil /\ \E s \in group'[groups'[i]].configs : poll'[s].id = id
    BY <1>0 DEF Indexed
  <2>2. \A i \in Intervals : groups'[i] # Nil /\ group'[groups'[i]].configs = {} =>
          lock' # Nil /\ proc'[lock'].group = groups'[i]
    BY <1>0 DEF Indexed, Waiting
  <2>3. \A g \in Groups : \A s \in group'[g].configs :
          /\ poll'[s].id # Nil
          /\ \A t \in group'[g].configs : poll'[s].id = poll'[t].id => s = t
    BY <1>0 DEF Indexed
  <2> QED
    BY <2>1, <2>2, <2>3 DEF Indexed
<1>4. OneTicker'
  BY <1>0 DEF OneTicker
<1> QED
  BY <1>1, <1>2, <1>3, <1>4

-----------------------------------------------------------------------------
(* The steps that change the index.                                        *)

\* The new poll of a Register, and the group it joins, alone or beside others.
NewlyPolled(id, s) ==
    /\ poll[s].id = Nil /\ poll'[s].id = id /\ id # Nil
    /\ \A t \in Polls : poll'[t].inFlight = poll[t].inFlight
    /\ \A t \in Polls \ {s} : poll'[t] = poll[t]
    /\ \A g \in Groups : s \notin group[g].configs /\ group[g].configs \subseteq Polls
    /\ poll' \in [Polls -> PollRec]

Joins(i, s, g) ==
    /\ groups' = [groups EXCEPT ![i] = g]
    /\ group'[g].interval = i /\ group'[g].pc # "none"
    /\ group'[g].configs = IF groups[i] = Nil THEN {s} ELSE group[groups[i]].configs \cup {s}
    /\ \A h \in Groups \ {g} : group'[h] = group[h] /\ groups[i] # h
    /\ groups[i] = Nil => group[g].pc = "none"
    /\ groups[i] # Nil => groups[i] = g /\ group'[g].pc = group[g].pc
    /\ group' \in [Groups -> GroupRec]

LEMMA RegisterEffect ==
    ASSUME IInv, NEW p \in Callers, NEW id \in IDs, NEW i \in Intervals, Register(p, id, i)
    PROVE  \E s \in Polls, g \in Groups : NewlyPolled(id, s) /\ Joins(i, s, g)
<1>0. TypeOK /\ RunsWired /\ InFlightExact /\ GroupsWired /\ Waiting /\ Indexed /\ OneTicker
  BY DEF IInv
<1>1. PICK s \in Polls :
          /\ NewPoll(s)
          /\ poll' = [poll EXCEPT ![s].id = id]
          /\ \/ /\ groups[i] # Nil
                /\ group' = [group EXCEPT ![groups[i]].configs = @ \cup {s}]
                /\ UNCHANGED groups
             \/ /\ groups[i] = Nil
                /\ \E g \in Groups :
                      /\ NewGroup(g)
                      /\ group' = [group EXCEPT ![g] = [NoGroup EXCEPT !.interval = i, !.pc = "select",
                                                                       !.configs = {s}]]
                      /\ groups' = [groups EXCEPT ![i] = g]
  BY DEF Register
<1>3. NewlyPolled(id, s)
  BY <1>0, <1>1, PollNames DEF NewPoll, NewlyPolled, TypeOK, PollRec, GroupRec, Indexed
<1>5. \E g \in Groups : Joins(i, s, g)
  <2>1. CASE groups[i] # Nil
    <3>1. groups[i] \in Groups /\ group[groups[i]].interval = i /\ group[groups[i]].pc # "none"
      BY <1>0, <2>1 DEF TypeOK, GroupsWired
    <3>2. /\ group' = [group EXCEPT ![groups[i]].configs = @ \cup {s}]
          /\ groups' = [groups EXCEPT ![i] = groups[i]]
      BY <1>0, <1>1, <2>1 DEF TypeOK
    <3>3. group' \in [Groups -> GroupRec]
      BY SMTT(40), <1>0, <3>1, <3>2 DEF TypeOK, GroupRec
    <3> QED
      BY ZenonT(60), <1>0, <2>1, <3>1, <3>2, <3>3 DEF Joins, TypeOK, GroupRec
  <2>2. CASE groups[i] = Nil
    <3>1. PICK g \in Groups :
             /\ NewGroup(g)
             /\ group' = [group EXCEPT ![g] = [NoGroup EXCEPT !.interval = i, !.pc = "select",
                                                              !.configs = {s}]]
             /\ groups' = [groups EXCEPT ![i] = g]
      BY <1>1, <2>2
    <3>2. [NoGroup EXCEPT !.interval = i, !.pc = "select", !.configs = {s}] \in GroupRec
      BY DEF NoGroup, GroupRec
    <3>3. group' \in [Groups -> GroupRec]
      BY <1>0, <3>1, <3>2 DEF TypeOK
    <3>4. group'[g] = [NoGroup EXCEPT !.interval = i, !.pc = "select", !.configs = {s}]
      BY <1>0, <3>1 DEF TypeOK
    <3> QED
      BY ZenonT(60), <1>0, <2>2, <3>1, <3>3, <3>4, NilApart DEF Joins, TypeOK, NoGroup, NewGroup
  <2> QED
    BY <2>1, <2>2
<1> QED
  BY <1>3, <1>5

LEMMA RegisterInv ==
    ASSUME IInv, NEW p \in Callers, NEW id \in IDs, NEW i \in Intervals, Register(p, id, i)
    PROVE  IInv'
<1>0. TypeOK /\ RunsWired /\ InFlightExact /\ GroupsWired /\ Waiting /\ Indexed /\ OneTicker
  BY DEF IInv
<1>1. PICK s \in Polls, g \in Groups : NewlyPolled(id, s) /\ Joins(i, s, g)
  BY RegisterEffect
<1>2. /\ lock = Nil /\ idx[id] = Nil /\ idx' = [idx EXCEPT ![id] = i]
      /\ UNCHANGED <<closed, lock, conn, run, proc>>
  BY DEF Register, Unclaimed
<1>3. i # Nil /\ NewlyPolled(id, s) /\ idx' \in [IDs -> Intervals \cup {Nil}]
  BY <1>0, <1>1, <1>2, PollNames DEF TypeOK
<1>4. RunsWired' /\ InFlightExact'
  BY <1>0, <1>2, <1>3, SameInFlight DEF NewlyPolled
<1>5. Joins(i, s, g)
  BY <1>1
<1> USE DEF NewlyPolled, Joins
<1>6. TypeOK'
  BY <1>0, <1>2, <1>3, <1>5 DEF TypeOK
<1>7. \A j \in Intervals \ {i} : groups'[j] = groups[j] /\ groups[j] # g
  BY <1>0, <1>5, NilApart DEF TypeOK, GroupsWired
<1>8. groups'[i] = g
  BY <1>0, <1>5 DEF TypeOK
<1>9. GroupsWired'
  BY <1>0, <1>5, <1>7, <1>8 DEF GroupsWired, TypeOK
<1>10. Waiting'
  BY <1>0, <1>2, PollNames DEF Waiting
<1>11. Indexed'
  <2>1. \A k \in IDs, j \in Intervals :
          idx'[k] = j <=> groups'[j] # Nil /\ \E t \in group'[groups'[j]].configs : poll'[t].id = k
    <3> SUFFICES ASSUME NEW k \in IDs, NEW j \in Intervals
                 PROVE  idx'[k] = j <=> /\ groups'[j] # Nil
                                        /\ \E t \in group'[groups'[j]].configs : poll'[t].id = k
      OBVIOUS
    <3>1. CASE j = i /\ k = id
      BY <1>0, <1>2, <1>3, <1>5, <1>8, <3>1, NilApart DEF TypeOK
    <3>2. CASE j = i /\ k # id
      BY <1>0, <1>2, <1>3, <1>5, <1>8, <3>2, NilApart DEF TypeOK, Indexed
    <3>3. CASE j # i
      <4>1. groups[j] # Nil => /\ groups[j] \in Groups \ {g} /\ group'[groups[j]] = group[groups[j]]
                               /\ \A t \in group[groups[j]].configs : poll'[t] = poll[t]
        BY <1>0, <1>3, <1>5, <1>7, <3>3 DEF TypeOK
      <4>2. idx'[k] = j <=> idx[k] = j
        BY <1>0, <1>2, <3>3, PollNames DEF TypeOK
      <4> QED
        BY <1>0, <1>7, <3>3, <4>1, <4>2 DEF Indexed
    <3> QED
      BY <3>1, <3>2, <3>3
  <2>2. \A j \in Intervals : groups'[j] # Nil => group'[groups'[j]].configs # {}
    <3>1. \A j \in Intervals \ {i} : groups'[j] # Nil => groups[j] \in Groups \ {g}
      BY <1>0, <1>7 DEF TypeOK
    <3>2. \A j \in Intervals \ {i} : groups'[j] # Nil => group[groups[j]].configs # {}
      BY <1>0, <1>2, <1>7 DEF Indexed
    <3> QED
      BY <1>5, <1>7, <1>8, <3>1, <3>2
  <2>3. \A h \in Groups : \A t \in group'[h].configs :
          /\ poll'[t].id # Nil
          /\ \A u \in group'[h].configs : poll'[t].id = poll'[u].id => t = u
    <3> SUFFICES ASSUME NEW h \in Groups, NEW t \in group'[h].configs
                 PROVE  /\ poll'[t].id # Nil
                        /\ \A u \in group'[h].configs : poll'[t].id = poll'[u].id => t = u
      OBVIOUS
    <3>1. CASE h # g
      BY <1>0, <1>3, <1>5, <3>1 DEF Indexed
    <3>2. CASE h = g
      <4>1. groups[i] # Nil => \A u \in group[g].configs : poll[u].id # id
        BY <1>0, <1>2, <1>5, PollNames DEF Indexed
      <4> QED
        BY <1>0, <1>3, <1>5, <3>2, <4>1 DEF Indexed
    <3> QED
      BY <3>1, <3>2
  <2> QED
    BY <2>1, <2>2, <2>3 DEF Indexed
<1>12. OneTicker'
  <2>1. \A h \in Groups \ {g} : group[h].pc \notin {"none", "exit"} => group[h].interval # i
    BY <1>0, <1>5, NilApart DEF OneTicker
  <2> QED
    BY <1>0, <1>5, <1>7, <1>8, <2>1 DEF OneTicker, GroupsWired, TypeOK
<1> QED
  BY <1>4, <1>6, <1>9, <1>10, <1>11, <1>12 DEF IInv

LEMMA UnregisterInv ==
    ASSUME IInv, NEW p \in Callers, NEW id \in IDs, Unregister(p, id)
    PROVE  IInv'
<1>0. TypeOK /\ RunsWired /\ InFlightExact /\ GroupsWired /\ Waiting /\ Indexed /\ OneTicker
  BY DEF IInv
<1> DEFINE i    == idx[id]
           g    == groups[i]
           left == {s \in group[g].configs : poll[s].id # id}
<1>1. /\ lock = Nil /\ proc[p].at = "idle" /\ i \in Intervals /\ g \in Groups
      /\ group[g].interval = i /\ group[g].pc # "none" /\ left \subseteq Polls
  BY <1>0 DEF Unregister, TypeOK, Indexed, GroupsWired, GroupRec
<1>2. /\ group' = [group EXCEPT ![g].configs = left, ![g].cancelled = @ \/ left = {}]
      /\ idx' = [idx EXCEPT ![id] = Nil]
      /\ UNCHANGED <<closed, conn, groups, poll, run>>
      /\ IF left = {} THEN /\ lock' = p
                           /\ proc' = [proc EXCEPT ![p].at = "wait", ![p].group = g]
                      ELSE UNCHANGED <<lock, proc>>
  BY DEF Unregister, Unindexed
<1> HIDE DEF i, g, left
<1>3. /\ group'[g].configs = left /\ group'[g].pc = group[g].pc
      /\ group'[g].interval = group[g].interval
      /\ \A h \in Groups \ {g} : group'[h] = group[h]
  BY <1>0, <1>1, <1>2 DEF TypeOK, GroupRec
<1>4. TypeOK'
  <2>1. group' \in [Groups -> GroupRec]
    <3>1. [group[g] EXCEPT !.configs = left, !.cancelled = @ \/ left = {}] \in GroupRec
      BY ZenonT(40), <1>0, <1>1 DEF TypeOK, GroupRec
    <3>2. group' = [group EXCEPT ![g] = [group[g] EXCEPT !.configs = left, !.cancelled = @ \/ left = {}]]
      BY <1>0, <1>1, <1>2 DEF TypeOK
    <3> QED
      BY <1>0, <3>1, <3>2 DEF TypeOK
  <2>2. lock' \in Callers \cup {Nil} /\ proc' \in [Callers -> ProcRec]
    BY <1>0, <1>1, <1>2 DEF TypeOK, ProcRec
  <2>3. idx' \in [IDs -> Intervals \cup {Nil}]
    BY <1>0, <1>2 DEF TypeOK
  <2> QED
    BY <1>0, <1>2, <2>1, <2>2, <2>3 DEF TypeOK
<1>5. RunsWired' /\ InFlightExact'
  BY <1>0, <1>2, SameInFlight
<1>6. GroupsWired' /\ OneTicker'
  BY <1>0, <1>2, <1>3 DEF GroupsWired, OneTicker, TypeOK
<1>7. \A q \in Callers : proc[q].at # "wait"
  BY <1>0, <1>1, PollNames DEF Waiting
<1>8. Waiting'
  <2>1. CASE left = {}
    <3>1. /\ lock' = p /\ proc'[p].at = "wait" /\ proc'[p].group = g
          /\ \A q \in Callers \ {p} : proc'[q] = proc[q]
      BY <1>0, <1>2, <2>1 DEF TypeOK, ProcRec
    <3>2. groups'[group'[g].interval] = g
      BY <1>1, <1>2, <1>3 DEF g
    <3> QED
      BY <1>1, <1>3, <1>7, <2>1, <3>1, <3>2 DEF Waiting
  <2>2. CASE left # {}
    BY <1>1, <1>2, <1>7, <2>2 DEF Waiting
  <2> QED
    BY <2>1, <2>2
<1>9. Indexed'
  <2>0. \A j \in Intervals \ {i} : groups[j] # Nil => groups[j] \in Groups \ {g}
    BY <1>0, <1>1 DEF TypeOK, GroupsWired
  <2>1. \A k \in IDs, j \in Intervals :
          idx'[k] = j <=> groups'[j] # Nil /\ \E t \in group'[groups'[j]].configs : poll'[t].id = k
    <3> SUFFICES ASSUME NEW k \in IDs, NEW j \in Intervals
                 PROVE  idx'[k] = j <=> /\ groups'[j] # Nil
                                        /\ \E t \in group'[groups'[j]].configs : poll'[t].id = k
      OBVIOUS
    <3>0. idx[k] = j <=> groups[j] # Nil /\ \E t \in group[groups[j]].configs : poll[t].id = k
      BY <1>0 DEF Indexed
    <3>1. CASE k = id
      <4>1. idx'[k] # j
        BY <1>0, <1>2, <3>1, PollNames DEF TypeOK
      <4>2. CASE j = i
        BY <1>2, <1>3, <3>1, <4>1, <4>2 DEF g, left
      <4>3. CASE j # i
        <5>1. idx[k] # j
          BY <3>1, <4>3 DEF i
        <5> QED
          BY ZenonT(60), <1>2, <1>3, <2>0, <3>0, <4>1, <4>3, <5>1
      <4> QED
        BY <4>2, <4>3
    <3>2. CASE k # id
      <4>1. idx'[k] = idx[k]
        BY <1>0, <1>2, <3>2 DEF TypeOK
      <4>2. CASE j = i
        BY <1>2, <1>3, <3>0, <3>2, <4>1, <4>2 DEF g, left
      <4>3. CASE j # i
        BY ZenonT(60), <1>2, <1>3, <2>0, <3>0, <4>1, <4>3
      <4> QED
        BY <4>2, <4>3
    <3> QED
      BY <3>1, <3>2
  <2>2. \A j \in Intervals : groups'[j] # Nil /\ group'[groups'[j]].configs = {} =>
          lock' # Nil /\ proc'[lock'].group = groups'[j]
    <3> SUFFICES ASSUME NEW j \in Intervals, groups[j] # Nil, group'[groups[j]].configs = {}
                 PROVE  lock' # Nil /\ proc'[lock'].group = groups[j]
      BY <1>2
    <3>1. j = i
      BY <1>0, <1>1, <1>3, <2>0 DEF Indexed
    <3>2. left = {}
      BY <1>3, <3>1 DEF g
    <3> QED
      BY <1>0, <1>2, <3>1, <3>2, PollNames DEF TypeOK, ProcRec, g
  <2>3. \A h \in Groups : \A t \in group'[h].configs :
          /\ poll'[t].id # Nil
          /\ \A u \in group'[h].configs : poll'[t].id = poll'[u].id => t = u
    <3>1. \A h \in Groups : group'[h].configs \subseteq group[h].configs
      BY <1>3 DEF left
    <3> QED
      BY ZenonT(60), <1>0, <1>2, <3>1 DEF Indexed
  <2> QED
    BY <2>1, <2>2, <2>3 DEF Indexed
<1> QED
  BY <1>4, <1>5, <1>6, <1>8, <1>9 DEF IInv

LEMMA UnregisterReturnInv ==
    ASSUME IInv, NEW p \in Callers, UnregisterReturn(p)
    PROVE  IInv'
<1>0. TypeOK /\ RunsWired /\ InFlightExact /\ GroupsWired /\ Waiting /\ Indexed /\ OneTicker
  BY DEF IInv
<1> DEFINE g == proc[p].group
           i == group[g].interval
<1>1. /\ lock = p /\ g \in Groups /\ i \in Intervals /\ groups[i] = g
      /\ group[g].pc = "exit" /\ group[g].configs = {}
  BY <1>0 DEF UnregisterReturn, Done, Waiting, GroupsWired
<1>2. /\ groups' = [groups EXCEPT ![i] = Nil] /\ lock' = Nil
      /\ proc' = [proc EXCEPT ![p] = Idle]
      /\ UNCHANGED <<closed, conn, idx, poll, group, run>>
  BY DEF UnregisterReturn
<1> HIDE DEF g, i
<1>3. /\ groups'[i] = Nil /\ \A j \in Intervals \ {i} : groups'[j] = groups[j] /\ groups[j] # g
  BY <1>0, <1>1, <1>2, NilApart DEF TypeOK, GroupsWired
<1>4. TypeOK'
  <2>1. Idle \in ProcRec
    BY DEF Idle, ProcRec
  <2> QED
    BY <1>0, <1>2, <2>1 DEF TypeOK
<1>5. RunsWired' /\ InFlightExact'
  BY <1>0, <1>2, SameInFlight
<1>6. GroupsWired'
  BY <1>0, <1>2, <1>3 DEF GroupsWired
<1>7. Waiting'
  <2>1. \A q \in Callers : proc'[q].at # "wait"
    <3>1. \A q \in Callers \ {p} : proc[q].at # "wait" /\ proc'[q] = proc[q]
      BY <1>0, <1>1, <1>2 DEF Waiting, TypeOK
    <3> QED
      BY <1>0, <1>2, <3>1 DEF Idle, TypeOK
  <2> QED
    BY <1>2, <2>1 DEF Waiting
<1>8. Indexed'
  <2>1. \A k \in IDs, j \in Intervals :
          idx'[k] = j <=> groups'[j] # Nil /\ \E t \in group'[groups'[j]].configs : poll'[t].id = k
    <3>1. \A k \in IDs : idx[k] # i
      BY <1>0, <1>1 DEF Indexed
    <3> QED
      BY <1>0, <1>2, <1>3, <3>1 DEF Indexed
  <2>2. \A j \in Intervals : groups'[j] # Nil => group'[groups'[j]].configs # {}
    BY SMTT(40), <1>0, <1>1, <1>2, <1>3 DEF Indexed, g
  <2> QED
    BY <1>0, <1>2, <2>1, <2>2 DEF Indexed
<1>9. OneTicker'
  <2>1. \A h \in Groups : group[h].pc \notin {"none", "exit"} => group[h].interval # i
    BY <1>0, <1>1 DEF OneTicker
  <2> QED
    BY <1>0, <1>2, <1>3, <2>1 DEF OneTicker, GroupsWired
<1> QED
  BY <1>4, <1>5, <1>6, <1>7, <1>8, <1>9 DEF IInv

-----------------------------------------------------------------------------
(* The other calls, and the steps of the groups.                           *)

\* A step of a group, or on it, sets some fields of its struct.
LEMMA GroupSet ==
    ASSUME TypeOK, NEW g \in Groups, NEW rec \in GroupRec,
           rec.interval = group[g].interval, rec.configs = group[g].configs,
           rec.pc = "none" <=> group[g].pc = "none", group[g].pc = "exit" => rec.pc = "exit",
           group' = [group EXCEPT ![g] = rec]
    PROVE  /\ group' \in [Groups -> GroupRec]
           /\ \A h \in Groups : /\ group'[h].interval = group[h].interval
                                /\ group'[h].configs = group[h].configs
                                /\ group'[h].pc = "none" <=> group[h].pc = "none"
                                /\ group[h].pc = "exit" => group'[h].pc = "exit"
BY DEF TypeOK

LEMMA CloseInv ==
    ASSUME IInv,
           \/ AttachConn
           \/ \E p \in Callers : CloseCancel(p) \/ CloseSnapshot(p) \/ CloseStop(p) \/ CloseReturn(p)
    PROVE  IInv'
<1>0. TypeOK /\ RunsWired /\ InFlightExact /\ GroupsWired /\ Waiting /\ Indexed /\ OneTicker
  BY DEF IInv
<1>1. UNCHANGED <<lock, groups, idx, poll, run>>
  BY DEF AttachConn, CloseCancel, CloseSnapshot, CloseStop, CloseReturn
<1>2. RunsWired' /\ InFlightExact'
  BY <1>0, <1>1, SameInFlight
<1>3. CASE AttachConn
  <2>1. TypeOK'
    BY <1>0, <1>3, PollBounds DEF AttachConn, TypeOK, Conns
  <2>2. GroupsWired' /\ Waiting' /\ Indexed' /\ OneTicker'
    BY <1>0, <1>1, <1>3, SameIndex DEF AttachConn
  <2> QED
    BY <1>2, <2>1, <2>2 DEF IInv
<1>4. ASSUME NEW p \in Callers, CloseCancel(p) \/ CloseSnapshot(p) \/ CloseReturn(p) PROVE IInv'
  <2>1. /\ proc' \in [Callers -> ProcRec] /\ closed' \in BOOLEAN /\ UNCHANGED <<conn, group>>
        /\ proc[p].at # "wait" /\ proc'[p].at # "wait"
        /\ \A q \in Callers \ {p} : proc'[q] = proc[q]
    <3>1. CASE CloseCancel(p)
      BY <1>0, <3>1 DEF CloseCancel, TypeOK, ProcRec
    <3>2. CASE CloseSnapshot(p)
      <4> DEFINE rec == [proc[p] EXCEPT !.at = "stop", !.todo = {g \in Groups : \E i \in Intervals : groups[i] = g}]
      <4>1. rec \in ProcRec /\ rec.at # "wait"
        BY <1>0 DEF TypeOK, ProcRec
      <4>2. proc' = [proc EXCEPT ![p] = rec]
        BY <1>0, <3>2 DEF CloseSnapshot, TypeOK
      <4> HIDE DEF rec
      <4> QED
        BY <1>0, <3>2, <4>1, <4>2 DEF CloseSnapshot, TypeOK
    <3>3. CASE CloseReturn(p)
      <4>1. Idle \in ProcRec /\ Idle.at # "wait"
        BY DEF Idle, ProcRec
      <4> QED
        BY <1>0, <3>3, <4>1 DEF CloseReturn, TypeOK
    <3> QED
      BY <1>4, <3>1, <3>2, <3>3
  <2>2. TypeOK'
    BY <1>0, <1>1, <2>1 DEF TypeOK
  <2>3. GroupsWired' /\ Waiting' /\ Indexed' /\ OneTicker'
    BY <1>0, <1>1, <2>1, SameIndex
  <2> QED
    BY <1>2, <2>2, <2>3 DEF IInv
<1>5. ASSUME NEW p \in Callers, CloseStop(p) PROVE IInv'
  <2>1. PICK g \in Groups :
          \/ group' = [group EXCEPT ![g].cancelled = TRUE] /\ proc' = proc
          \/ proc' = [proc EXCEPT ![p].todo = @ \ {g}] /\ group' = group
    BY <1>0, <1>5 DEF CloseStop, TypeOK, ProcRec
  <2>2. /\ group' \in [Groups -> GroupRec]
        /\ \A h \in Groups : /\ group'[h].interval = group[h].interval
                             /\ group'[h].configs = group[h].configs
                             /\ group'[h].pc = "none" <=> group[h].pc = "none"
                             /\ group[h].pc = "exit" => group'[h].pc = "exit"
    <3>1. CASE group' = group
      BY <1>0, <3>1 DEF TypeOK
    <3>2. CASE group' = [group EXCEPT ![g].cancelled = TRUE]
      <4>1. /\ [group[g] EXCEPT !.cancelled = TRUE] \in GroupRec
            /\ group' = [group EXCEPT ![g] = [group[g] EXCEPT !.cancelled = TRUE]]
        BY <1>0, <3>2 DEF TypeOK, GroupRec
      <4> QED
        BY <1>0, <4>1, GroupSet DEF GroupRec
    <3> QED
      BY <2>1, <3>1, <3>2
  <2>3. /\ proc' \in [Callers -> ProcRec]
        /\ \A q \in Callers : proc'[q].at = proc[q].at /\ proc'[q].group = proc[q].group
    BY <1>0, <2>1 DEF TypeOK, ProcRec
  <2>4. TypeOK'
    BY <1>0, <1>1, <1>5, <2>2, <2>3 DEF CloseStop, TypeOK
  <2>5. GroupsWired' /\ Waiting' /\ Indexed' /\ OneTicker'
    BY <1>0, <1>1, <2>2, <2>3, SameIndex
  <2> QED
    BY <1>2, <2>4, <2>5 DEF IInv
<1> QED
  BY <1>3, <1>4, <1>5

LEMMA GroupInv ==
    ASSUME IInv, NEW g \in Groups, Tick(g) \/ GroupStep(g)
    PROVE  IInv'
<1>0. TypeOK /\ RunsWired /\ InFlightExact /\ GroupsWired /\ Waiting /\ Indexed /\ OneTicker
  BY DEF IInv
<1>1. UNCHANGED <<closed, lock, conn, groups, idx, poll, proc>>
  BY DEF Tick, GroupStep, GroupExit, GetConn, Skip, Spawn, TickReturn
<1>2. /\ group' \in [Groups -> GroupRec]
      /\ \A h \in Groups : /\ group'[h].interval = group[h].interval
                           /\ group'[h].configs = group[h].configs
                           /\ group'[h].pc = "none" <=> group[h].pc = "none"
                           /\ group[h].pc = "exit" => group'[h].pc = "exit"
  <2> DEFINE Set(rec) == group' = [group EXCEPT ![g] = rec]
             Fits(rec) == /\ rec \in GroupRec
                          /\ rec.interval = group[g].interval /\ rec.configs = group[g].configs
                          /\ group[g].pc \in {"select", "getconn", "fanout"}
                          /\ rec.pc # "none"
  <2>0. group[g] \in GroupRec
    BY <1>0 DEF TypeOK
  <2>1. CASE Tick(g)
    <3>1. Set([group[g] EXCEPT !.pc = "getconn", !.snapshot = group[g].configs])
      BY <1>0, <2>1 DEF Tick, TypeOK
    <3>2. Fits([group[g] EXCEPT !.pc = "getconn", !.snapshot = group[g].configs])
      BY <1>0, <2>0, <2>1 DEF Tick, GroupRec
    <3> QED
      BY <1>0, <3>1, <3>2, GroupSet
  <2>2. CASE GroupExit(g)
    <3>1. Set([group[g] EXCEPT !.pc = "exit"])
      BY <1>0, <2>2 DEF GroupExit, TypeOK
    <3>2. Fits([group[g] EXCEPT !.pc = "exit"])
      BY <1>0, <2>0, <2>2 DEF GroupExit, GroupRec
    <3> QED
      BY <1>0, <3>1, <3>2, GroupSet
  <2>3. CASE GetConn(g)
    <3>1. Set([group[g] EXCEPT !.pc = "fanout", !.conn = conn])
      BY <1>0, <2>3 DEF GetConn, ConnRef, TypeOK
    <3>2. Fits([group[g] EXCEPT !.pc = "fanout", !.conn = conn])
      BY <1>0, <2>0, <2>3 DEF GetConn, GroupRec, TypeOK
    <3> QED
      BY <1>0, <3>1, <3>2, GroupSet
  <2>4. CASE Skip(g) \/ Spawn(g)
    <3>1. PICK s : Set([group[g] EXCEPT !.snapshot = @ \ {s}])
      BY <1>0, <2>4 DEF Skip, Spawn, TypeOK
    <3> QED
      BY <1>0, <2>0, <3>1, GroupSet DEF GroupRec
  <2>5. CASE TickReturn(g)
    <3>1. Set([group[g] EXCEPT !.pc = "select", !.conn = Nil])
      BY <1>0, <2>5 DEF TickReturn, TypeOK
    <3>2. Fits([group[g] EXCEPT !.pc = "select", !.conn = Nil])
      BY <1>0, <2>0, <2>5 DEF TickReturn, GroupRec
    <3> QED
      BY <1>0, <3>1, <3>2, GroupSet
  <2> QED
    BY <2>1, <2>2, <2>3, <2>4, <2>5 DEF GroupStep
<1>3. /\ run' \in [Runs -> RunRec]
      /\ \A r \in Runs : \/ run'[r] = run[r]
                         \/ run[r].pc = "none" /\ run'[r].pc = "spawned" /\ run'[r].poll \in Polls
  <2>1. CASE Spawn(g)
    <3>1. PICK s \in Polls, r \in Runs :
             /\ run[r].pc = "none"
             /\ run' = [run EXCEPT ![r] = [pc |-> "spawned", poll |-> s, group |-> g,
                                           conn |-> group[g].conn]]
      BY <1>0, <2>1 DEF Spawn, TypeOK, GroupRec
    <3>2. [pc |-> "spawned", poll |-> s, group |-> g, conn |-> group[g].conn] \in RunRec
      BY <1>0 DEF TypeOK, GroupRec, RunRec
    <3> QED
      BY <1>0, <3>1, <3>2 DEF TypeOK
  <2>2. CASE ~Spawn(g)
    BY <1>0, <2>2 DEF Tick, GroupStep, GroupExit, GetConn, Skip, TickReturn, TypeOK
  <2> QED
    BY <2>1, <2>2
<1>4. TypeOK'
  BY <1>0, <1>1, <1>2, <1>3 DEF TypeOK
<1>5. RunsWired' /\ InFlightExact'
  BY <1>0, <1>1, <1>3, SameInFlight
<1>6. GroupsWired' /\ Waiting' /\ Indexed' /\ OneTicker'
  BY <1>0, <1>1, <1>2, SameIndex
<1> QED
  BY <1>4, <1>5, <1>6 DEF IInv

-----------------------------------------------------------------------------
(* The commands: each counts itself in once and out once.                  *)

LEMMA RunInv ==
    ASSUME IInv, NEW r \in Runs, RunStep(r)
    PROVE  IInv'
<1>0. TypeOK /\ RunsWired /\ InFlightExact /\ GroupsWired /\ Waiting /\ Indexed /\ OneTicker
  BY DEF IInv
<1>1. UNCHANGED <<closed, lock, conn, groups, idx, group, proc>>
  BY DEF RunStep, RunStart, RunReply, RunEnd
<1>2. PICK s \in Polls : s = run[r].poll /\ run[r].pc # "none"
  BY <1>0 DEF RunsWired, RunStep, RunStart, RunReply, RunEnd
<1>3. \A t \in Polls : poll[t].inFlight = Cardinality(InFlight(t)) /\ IsFiniteSet(InFlight(t))
  BY <1>0, InFlightFinite DEF InFlightExact, InFlight
<1>e. InFlightExact' <=> \A t \in Polls : poll'[t].inFlight = Cardinality(InFlight(t)')
  BY Zenon DEF InFlightExact, InFlight
<1>4. CASE RunReply(r)
  <2>1. /\ run' \in [Runs -> RunRec] /\ poll' = poll
        /\ \A k \in Runs \ {r} : run'[k] = run[k]
        /\ run[r].pc = "running" /\ run'[r].pc = "handler" /\ run'[r].poll = s
    BY SMTT(40), <1>0, <1>2, <1>4 DEF RunReply, TypeOK, RunRec
  <2>2. RunsWired' /\ InFlightExact'
    BY <1>0, <1>2, <2>1, SameInFlight
  <2>3. TypeOK'
    BY <1>0, <1>1, <2>1 DEF TypeOK
  <2>4. GroupsWired' /\ Waiting' /\ Indexed' /\ OneTicker'
    BY <1>0, <1>1, <2>1, SameIndex
  <2> QED
    BY <2>2, <2>3, <2>4 DEF IInv
<1>5. CASE RunStart(r)
  <2>1. /\ run' \in [Runs -> RunRec] /\ \A k \in Runs \ {r} : run'[k] = run[k]
        /\ run[r].pc = "spawned" /\ run'[r].pc = "running" /\ run'[r].poll = s
    BY <1>0, <1>2, <1>5 DEF RunStart, TypeOK, RunRec
  <2>2. /\ poll' \in [Polls -> PollRec] /\ \A t \in Polls \ {s} : poll'[t] = poll[t]
        /\ poll'[s].id = poll[s].id /\ poll'[s].inFlight = poll[s].inFlight + 1
    BY <1>0, <1>2, <1>5 DEF RunStart, TypeOK, PollRec
  <2>3. RunsWired'
    BY <1>0, <1>2, <2>1 DEF RunsWired
  <2>4. InFlightExact'
    <3>1. r \notin InFlight(s) /\ InFlight(s)' = InFlight(s) \cup {r}
      BY <1>2, <2>1 DEF InFlight
    <3>2. \A t \in Polls \ {s} : InFlight(t)' = InFlight(t)
      BY <1>2, <2>1 DEF InFlight
    <3>3. Cardinality(InFlight(s)') = Cardinality(InFlight(s)) + 1
      BY ZenonT(60), <1>2, <1>3, <3>1, FS_AddElement
    <3> QED
      BY <1>3, <1>e, <2>2, <3>2, <3>3
  <2>5. TypeOK'
    BY <1>0, <1>1, <2>1, <2>2 DEF TypeOK
  <2>6. GroupsWired' /\ Waiting' /\ Indexed' /\ OneTicker'
    BY <1>0, <1>1, <2>2, SameIndex
  <2> QED
    BY <2>3, <2>4, <2>5, <2>6 DEF IInv
<1>6. CASE RunEnd(r)
  <2>1. /\ run' \in [Runs -> RunRec] /\ \A k \in Runs \ {r} : run'[k] = run[k]
        /\ run[r].pc \in {"running", "handler"} /\ run'[r] = NoRun
    <3>1. NoRun \in RunRec
      BY DEF NoRun, RunRec
    <3> QED
      BY <1>0, <1>6, <3>1 DEF RunEnd, TypeOK
  <2>2. r \in InFlight(s)
    BY <1>2, <2>1 DEF InFlight
  <2>3. Cardinality(InFlight(s) \ {r}) = Cardinality(InFlight(s)) - 1 /\ Cardinality(InFlight(s) \ {r}) \in Nat
    BY <1>2, <1>3, <2>2, FS_RemoveElement, FS_CardinalityType, FS_Subset
  <2>4. /\ poll' \in [Polls -> PollRec] /\ \A t \in Polls \ {s} : poll'[t] = poll[t]
        /\ poll'[s].id = poll[s].id /\ poll'[s].inFlight = poll[s].inFlight - 1
    BY <1>0, <1>2, <1>3, <1>6, <2>3 DEF RunEnd, CountedDown, TypeOK, PollRec
  <2>5. RunsWired'
    BY <1>0, <2>1 DEF RunsWired, NoRun
  <2>6. InFlightExact'
    <3>1. InFlight(s)' = InFlight(s) \ {r}
      BY <1>2, <2>1 DEF InFlight, NoRun
    <3>2. \A t \in Polls \ {s} : InFlight(t)' = InFlight(t)
      BY <1>2, <2>1, NilApart DEF InFlight, NoRun
    <3> QED
      BY <1>3, <1>e, <2>3, <2>4, <3>1, <3>2
  <2>7. TypeOK'
    BY <1>0, <1>1, <2>1, <2>4 DEF TypeOK
  <2>8. GroupsWired' /\ Waiting' /\ Indexed' /\ OneTicker'
    BY <1>0, <1>1, <2>4, SameIndex
  <2> QED
    BY <2>5, <2>6, <2>7, <2>8 DEF IInv
<1> QED
  BY <1>4, <1>5, <1>6 DEF RunStep

LEMMA NextInv == IInv /\ [Next]_vars => IInv'
<1> SUFFICES ASSUME IInv, [Next]_vars PROVE IInv'
  OBVIOUS
<1>1. CASE UNCHANGED vars
  BY <1>1 DEF vars, IInv, TypeOK, RunsWired, InFlightExact, GroupsWired, Waiting, Indexed, OneTicker
<1>2. CASE Next
  BY <1>2, RegisterInv, UnregisterInv, UnregisterReturnInv, CloseInv, GroupInv, RunInv
     DEF Next, CallerCall, CallerStep
<1> QED
  BY <1>1, <1>2

-----------------------------------------------------------------------------
\* The inductive invariant.
THEOREM Invariance == Spec => []IInv
BY InitInv, NextInv, PTL DEF Spec

\* The engine, its groups and commands keep their types; no counter falls below zero.
THEOREM TypeCorrect == Spec => []TypeOK
<1>1. IInv => TypeOK
  BY DEF IInv
<1> QED
  BY <1>1, Invariance, PTL

\* While the lock is free, a poll is indexed exactly under the interval whose group runs it
\* (Register, Unregister).
THEOREM IndexAndGroupsAgree == Spec => []IndexAgrees
<1>1. IInv => IndexAgrees
  BY DEF IInv, Indexed, IndexAgrees
<1> QED
  BY <1>1, Invariance, PTL

\* An interval never has two tickers: Unregister keeps the lock until the goroutine of a
\* group it dropped has gone.
THEOREM OneTickerPerInterval == Spec => []OneTicker
<1>1. IInv => OneTicker
  BY DEF IInv
<1> QED
  BY <1>1, Invariance, PTL

\* The counter of a poll is the number of its commands in flight (runOne).
THEOREM CountersAreExact == Spec => []InFlightExact
<1>1. IInv => InFlightExact
  BY SMTT(40) DEF IInv
<1> QED
  BY <1>1, Invariance, PTL
-----------------------------------------------------------------------------
(* MaxInFlight. tick tests the counter, and the goroutine that it starts   *)
(* increments it. With the counters exact, the test fails only for the     *)
(* commands that are between the two.                                      *)

\* A slot without a command belongs to no poll.
Freed == \A r \in Runs : run[r].pc = "none" => run[r].poll = Nil

LEMMA FreedStep == IInv /\ Freed /\ [Next]_vars => Freed'
<1> SUFFICES ASSUME IInv, Freed, [Next]_vars PROVE Freed'
  OBVIOUS
<1>t. TypeOK
  BY DEF IInv
<1>1. ASSUME UNCHANGED run PROVE Freed'
  BY <1>1 DEF Freed
<1>2. ASSUME NEW g \in Groups, Spawn(g) PROVE Freed'
  BY <1>t, <1>2 DEF Freed, Spawn, TypeOK
<1>3. ASSUME NEW r \in Runs, RunStep(r) PROVE Freed'
  BY SMTT(40), <1>t, <1>3 DEF Freed, RunStep, RunStart, RunReply, RunEnd, NoRun, TypeOK, RunRec
<1> QED
  BY ZenonT(40), <1>1, <1>2, <1>3
     DEF Next, vars, CallerCall, CallerStep, GroupStep, Register, Unregister, UnregisterReturn,
         CloseCancel, CloseSnapshot, CloseStop, CloseReturn, AttachConn, Tick, GroupExit, GetConn,
         Skip, TickReturn

\* Only a tick that has passed the test adds to the commands of a poll.
LEMMA OnlySpawnAdds ==
    ASSUME IInv, [Next]_vars, NEW s \in Polls
    PROVE  \/ Alive(s)' \subseteq Alive(s)
           \/ ~AtLimit(s) /\ \E r \in Runs : Alive(s)' = Alive(s) \cup {r}
<1>t. TypeOK /\ RunsWired /\ Nil \notin Polls
  BY NilApart DEF IInv
<1>1. ASSUME UNCHANGED run PROVE Alive(s)' \subseteq Alive(s)
  BY <1>1 DEF Alive
<1>2. ASSUME NEW g \in Groups, Spawn(g)
      PROVE  \/ Alive(s)' \subseteq Alive(s)
             \/ ~AtLimit(s) /\ \E r \in Runs : Alive(s)' = Alive(s) \cup {r}
  <2>1. PICK t \in group[g].snapshot, r \in Runs :
          /\ ~AtLimit(t)
          /\ run' = [run EXCEPT ![r] = [pc |-> "spawned", poll |-> t, group |-> g,
                                        conn |-> group[g].conn]]
    BY <1>2 DEF Spawn
  <2>2. run'[r].poll = t /\ \A k \in Runs \ {r} : run'[k] = run[k]
    BY <1>t, <2>1 DEF TypeOK
  <2>3. CASE t = s
    BY <2>1, <2>2, <2>3 DEF Alive
  <2>4. CASE t # s
    BY <2>2, <2>4 DEF Alive
  <2> QED
    BY <2>3, <2>4
<1>3. ASSUME NEW r \in Runs, RunStep(r) PROVE Alive(s)' \subseteq Alive(s)
  <2>1. \A k \in Runs : run'[k].poll \in {run[k].poll, Nil}
    BY <1>t, <1>3 DEF RunStep, RunStart, RunReply, RunEnd, NoRun, TypeOK, RunRec
  <2> QED
    BY <1>t, <2>1 DEF Alive
<1> QED
  BY <1>1, <1>2, <1>3
     DEF Next, vars, CallerCall, CallerStep, GroupStep, Register, Unregister, UnregisterReturn,
         CloseCancel, CloseSnapshot, CloseStop, CloseReturn, AttachConn, Tick, GroupExit, GetConn,
         Skip, TickReturn

LEMMA AliveFinite == ASSUME NEW s PROVE IsFiniteSet(Alive(s))
<1>1. IsFiniteSet(Runs)
  BY FS_Interval, PollBounds DEF Runs
<1> QED
  BY <1>1, FS_Subset DEF Alive

\* With all commands of a poll counted in, the test of the counter is exact.
LEMMA CountedIsExact ==
    ASSUME IInv, Freed, NEW s \in Polls, MaxInFlight > 0, ~AtLimit(s),
           \A r \in Alive(s) : run[r].pc # "spawned"
    PROVE  Cardinality(Alive(s)) < MaxInFlight
<1>1. Alive(s) = InFlight(s)
  <2>1. \A r \in Alive(s) : r \in Runs /\ run[r].poll = s /\ run[r].pc # "none"
    BY NilApart DEF Freed, Alive
  <2> QED
    BY <2>1 DEF IInv, TypeOK, RunRec, Alive, InFlight
<1> QED
  BY <1>1, PollBounds DEF IInv, InFlightExact, InFlight, AtLimit, TypeOK, PollRec

\* A tick takes a poll beyond MaxInFlight only past a command that has not yet counted
\* itself in: group.go:120 tests what the goroutines of runOne add by themselves.
THEOREM LimitOfTheCounted == Spec => LimitCountsTheCounted
<1> DEFINE Within == \A s \in Polls :
              /\ MaxInFlight > 0
              /\ Cardinality(Alive(s)') > Cardinality(Alive(s))
              /\ Cardinality(Alive(s)') > MaxInFlight
              => \E r \in Alive(s) : run[r].pc = "spawned"
<1>1. Init => Freed
  BY DEF Init, Freed, NoRun
<1>2. IInv /\ Freed /\ [Next]_vars => Within
  <2> SUFFICES ASSUME IInv, Freed, [Next]_vars, NEW s \in Polls, MaxInFlight > 0,
                      Cardinality(Alive(s)') > Cardinality(Alive(s)),
                      Cardinality(Alive(s)') > MaxInFlight,
                      \A r \in Alive(s) : run[r].pc # "spawned"
               PROVE  FALSE
    OBVIOUS
  <2>1. IsFiniteSet(Alive(s)) /\ Cardinality(Alive(s)) \in Nat
    BY AliveFinite, FS_CardinalityType
  <2>2. ASSUME Alive(s)' \subseteq Alive(s) PROVE FALSE
    <3>1. Cardinality(Alive(s)') <= Cardinality(Alive(s)) /\ Cardinality(Alive(s)') \in Nat
      BY <2>1, <2>2, FS_Subset, FS_CardinalityType
    <3> QED
      BY <2>1, <3>1
  <2>3. ASSUME NEW r \in Runs, ~AtLimit(s), Alive(s)' = Alive(s) \cup {r} PROVE FALSE
    <3>1. Cardinality(Alive(s)) < MaxInFlight
      BY <2>3, CountedIsExact
    <3>2. Cardinality(Alive(s) \cup {r}) = IF r \in Alive(s) THEN Cardinality(Alive(s))
                                                            ELSE Cardinality(Alive(s)) + 1
      BY <2>1, FS_AddElement
    <3>3. Cardinality(Alive(s)') = Cardinality(Alive(s) \cup {r})
      BY <2>3
    <3> QED
      BY <2>1, <3>1, <3>2, <3>3, PollBounds
  <2> QED
    BY <2>2, <2>3, OnlySpawnAdds
<1>3. IInv /\ Freed /\ [Next]_vars => [Within]_vars
  BY <1>2
<1> QED
  BY <1>1, <1>3, FreedStep, Invariance, PTL DEF Spec, LimitCountsTheCounted
-----------------------------------------------------------------------------
(* The IDs. PollEngine implements IDRegistry: Register is a Claim,         *)
(* Unregister a Release, and every other step leaves the IDs alone.        *)

\* No poll outlives its group in e.groups, also when the group has ended.
Filed == \A g \in Groups : group[g].configs # {} => /\ group[g].pc # "none"
                                                    /\ groups[group[g].interval] = g

\* A step that drops no group.
LEMMA SameFiled ==
    ASSUME Filed, UNCHANGED groups,
           \A g \in Groups : /\ group'[g].configs \subseteq group[g].configs
                             /\ group'[g].interval = group[g].interval
                             /\ group'[g].pc = "none" => group[g].pc = "none"
    PROVE  Filed'
BY DEF Filed

\* The goroutine of a group changes no more than its own course.
SameGroups == \A h \in Groups : /\ group'[h].configs = group[h].configs
                                /\ group'[h].interval = group[h].interval
                                /\ group'[h].pc = "none" => group[h].pc = "none"

LEMMA GroupStepKeeps ==
    ASSUME TypeOK, NEW g \in Groups, Tick(g) \/ GroupStep(g)
    PROVE  UNCHANGED <<poll, groups>> /\ SameGroups
<1>t. group \in [Groups -> GroupRec]
  BY DEF TypeOK
<1>1. CASE GroupExit(g)
  BY <1>1, <1>t DEF GroupExit, SameGroups, GroupRec
<1>2. CASE Tick(g)
  BY <1>2, <1>t DEF Tick, SameGroups, GroupRec
<1>3. CASE GetConn(g)
  BY <1>3, <1>t DEF GetConn, SameGroups, GroupRec
<1>4. CASE Skip(g)
  BY <1>4, <1>t DEF Skip, SameGroups, GroupRec
<1>5. CASE Spawn(g)
  BY <1>5, <1>t DEF Spawn, SameGroups, GroupRec
<1>6. CASE TickReturn(g)
  BY <1>6, <1>t DEF TickReturn, SameGroups, GroupRec
<1> QED
  BY <1>1, <1>2, <1>3, <1>4, <1>5, <1>6 DEF GroupStep

LEMMA FiledStep == IInv /\ Filed /\ [Next]_vars => Filed'
<1> SUFFICES ASSUME IInv, Filed, [Next]_vars PROVE Filed'
  OBVIOUS
<1>t. TypeOK /\ GroupsWired /\ Waiting
  BY DEF IInv
<1>1. ASSUME NEW p \in Callers, NEW id \in IDs, NEW i \in Intervals, Register(p, id, i) PROVE Filed'
  <2>1. PICK s \in Polls, g \in Groups : Joins(i, s, g)
    BY <1>1, RegisterEffect
  <2> SUFFICES ASSUME NEW h \in Groups, group'[h].configs # {}
               PROVE  group'[h].pc # "none" /\ groups'[group'[h].interval] = h
    BY DEF Filed
  <2>2. CASE h = g
    BY <1>t, <2>1, <2>2 DEF Joins, TypeOK
  <2>3. CASE h # g
    <3>1. /\ group'[h] = group[h] /\ groups[i] # h /\ group[h].pc # "none"
          /\ groups[group[h].interval] = h /\ group[h].interval \in Intervals
      BY <1>t, <2>1, <2>3 DEF Joins, Filed, GroupsWired
    <3> QED
      BY <1>t, <2>1, <3>1 DEF Joins, TypeOK
  <2> QED
    BY <2>2, <2>3
<1>2. ASSUME NEW p \in Callers, NEW id \in IDs, Unregister(p, id) PROVE Filed'
  BY <1>2, <1>t, SameFiled DEF Unregister, TypeOK, GroupRec
<1>3. ASSUME NEW p \in Callers, UnregisterReturn(p) PROVE Filed'
  <2> DEFINE e == proc[p].group
  <2>1. /\ UNCHANGED group /\ groups' = [groups EXCEPT ![group[e].interval] = Nil]
        /\ e \in Groups /\ group[e].configs = {} /\ groups[group[e].interval] = e
    BY <1>3, <1>t DEF UnregisterReturn, Waiting
  <2>2. \A h \in Groups : group[h].configs # {} => group[h].interval # group[e].interval
    BY <2>1 DEF Filed
  <2>3. \A h \in Groups : group[h].configs # {} => group[h].interval \in Intervals
    BY <1>t DEF Filed, GroupsWired
  <2> QED
    BY <1>t, <2>1, <2>2, <2>3 DEF Filed, TypeOK
<1>4. ASSUME NEW p \in Callers, CloseCancel(p) \/ CloseSnapshot(p) \/ CloseStop(p) \/ CloseReturn(p)
      PROVE  Filed'
  BY <1>4, <1>t, SameFiled DEF CloseCancel, CloseSnapshot, CloseStop, CloseReturn, TypeOK, GroupRec
<1>5. ASSUME NEW g \in Groups, Tick(g) \/ GroupStep(g) PROVE Filed'
  <2>1. UNCHANGED groups /\ SameGroups
    BY <1>5, <1>t, GroupStepKeeps
  <2> QED
    BY <2>1, SameFiled DEF SameGroups
<1>6. ASSUME UNCHANGED <<group, groups>> PROVE Filed'
  BY <1>6 DEF Filed
<1> QED
  BY <1>1, <1>2, <1>3, <1>4, <1>5, <1>6
  DEF Next, CallerCall, CallerStep, AttachConn, RunStep, RunStart, RunReply, RunEnd, vars

\* The poll under an ID is the one that the index leads to, and no other.
LEMMA OwnersOf ==
    ASSUME IInv, Filed, NEW id \in IDs
    PROVE  /\ idx[id] = Nil => Owners(id) = {}
           /\ idx[id] # Nil => \E s \in Polls : Owners(id) = {s}
           /\ \A g \in Groups : \A s \in group[g].configs :
                 poll[s].id = id => idx[id] # Nil /\ groups[idx[id]] = g
<1>t. TypeOK /\ GroupsWired /\ Indexed
  BY DEF IInv
<1>1. ASSUME NEW g \in Groups, NEW s \in group[g].configs, poll[s].id = id
      PROVE  idx[id] \in Intervals /\ groups[idx[id]] = g /\ s \in Polls
  <2>1. group[g].interval \in Intervals /\ groups[group[g].interval] = g
    BY <1>t, <1>1 DEF Filed, GroupsWired
  <2>2. idx[id] = group[g].interval
    BY <1>t, <1>1, <2>1, NilApart DEF Indexed
  <2> QED
    BY <1>t, <1>1, <2>1, <2>2 DEF TypeOK, GroupRec
<1>2. ASSUME idx[id] # Nil PROVE \E s \in Polls : Owners(id) = {s}
  <2>1. idx[id] \in Intervals
    BY <1>t, <1>2 DEF TypeOK
  <2>2. groups[idx[id]] \in Groups /\ \E s \in group[groups[idx[id]]].configs : poll[s].id = id
    BY <1>t, <2>1 DEF Indexed, TypeOK
  <2>3. PICK s \in group[groups[idx[id]]].configs : poll[s].id = id
    BY <2>2
  <2>4. s \in Owners(id)
    BY <1>1, <2>2, <2>3 DEF Owners, Polled
  <2>5. \A u \in Owners(id) : u = s
    <3> SUFFICES ASSUME NEW u \in Polls, NEW g \in Groups, u \in group[g].configs, poll[u].id = id
                 PROVE  u = s
      BY DEF Owners, Polled
    <3>1. g = groups[idx[id]]
      BY <1>1
    <3> QED
      BY <1>t, <2>2, <2>3, <3>1 DEF Indexed
  <2>6. s \in Polls
    BY <2>4 DEF Owners
  <2> QED
    BY <2>4, <2>5, <2>6
<1>3. ASSUME idx[id] = Nil PROVE Owners(id) = {}
  BY <1>1, <1>3, PollNames DEF Owners, Polled
<1> QED
  BY <1>1, <1>2, <1>3, PollNames

LEMMA OnlyOf == /\ Only({}) = Nil
                /\ \A s : Only({s}) = s
<1>1. \A s : (CHOOSE u \in {s} : TRUE) \in {s}
  BY Zenon
<1>2. \A s : {s} # {}
  OBVIOUS
<1> QED
  BY <1>1, <1>2 DEF Only

\* A step that neither adds nor removes a poll is a stutter of the registry.
LEMMA RegistryStutter ==
    ASSUME \A s \in Polls : poll'[s].id = poll[s].id,
           \A g \in Groups : group'[g].configs = group[g].configs
    PROVE  UNCHANGED Registry!vars
<1>1. \A id : Owners(id)' = Owners(id)
  BY DEF Owners, Polled
<1>2. \A id : Only(Owners(id))' = Only(Owners(id))
  BY <1>1
<1>3. {s \in Polls : poll[s].id # Nil}' = {s \in Polls : poll[s].id # Nil}
  OBVIOUS
<1> QED
  BY <1>2, <1>3 DEF Registry!vars

LEMMA RegisterIsClaim ==
    ASSUME IInv, Filed, NEW p \in Callers, NEW id \in IDs, NEW i \in Intervals, Register(p, id, i)
    PROVE  Registry!Claim(id)
<1>t. TypeOK /\ GroupsWired
  BY DEF IInv
<1>1. PICK s \in Polls, g \in Groups : NewlyPolled(id, s) /\ Joins(i, s, g)
  BY RegisterEffect
<1>2. idx[id] = Nil
  BY DEF Register, Unclaimed
<1>3. Owners(id) = {}
  BY <1>2, OwnersOf
<1>4. group'[g].configs = group[g].configs \cup {s}
  <2>1. groups[i] = Nil => group[g].configs = {}
    BY <1>1 DEF Joins, Filed
  <2> QED
    BY <1>1, <2>1 DEF Joins
<1>5. \A u \in Polls : Polled(u)' <=> Polled(u) \/ u = s
  BY <1>1, <1>4 DEF Polled, Joins
<1>6. \A u \in Polls \ {s} : poll'[u].id = poll[u].id
  BY <1>1 DEF NewlyPolled
<1>7. Owners(id)' = {s}
  BY <1>1, <1>3, <1>5, <1>6 DEF Owners, NewlyPolled
<1>8. \A k \in IDs \ {id} : Owners(k)' = Owners(k)
  <2>1. ~Polled(s)
    BY <1>1 DEF Polled, NewlyPolled
  <2> QED
    BY <1>1, <1>5, <1>6, <2>1 DEF Owners, NewlyPolled
<1>9. /\ Only(Owners(id)) = Nil /\ Only(Owners(id))' = s
      /\ \A k \in IDs \ {id} : Only(Owners(k))' = Only(Owners(k))
  BY <1>3, <1>7, <1>8, OnlyOf
<1>10. {u \in Polls : poll[u].id # Nil}' = {u \in Polls : poll[u].id # Nil} \cup {s}
  BY <1>1, <1>6 DEF NewlyPolled
<1>11. s \in Polls \ {u \in Polls : poll[u].id # Nil}
  BY <1>1 DEF NewlyPolled
<1> QED
  BY <1>9, <1>10, <1>11 DEF Registry!Claim

LEMMA UnregisterIsRelease ==
    ASSUME IInv, Filed, NEW p \in Callers, NEW id \in IDs, Unregister(p, id)
    PROVE  Registry!Release(id)
<1>t. TypeOK
  BY DEF IInv
<1> DEFINE g == groups[idx[id]]
<1>1. idx[id] # Nil /\ UNCHANGED poll
  BY DEF Unregister
<1>2. \A h \in Groups : group'[h].configs =
          IF h = g THEN {s \in group[g].configs : poll[s].id # id} ELSE group[h].configs
  BY <1>t DEF Unregister, TypeOK, GroupRec
<1>3. PICK s \in Polls : Owners(id) = {s}
  BY <1>1, OwnersOf
<1>4. \A h \in Groups : \A u \in group'[h].configs : u \in group[h].configs /\ poll[u].id # id
  <2>1. \A h \in Groups : \A u \in group[h].configs : poll[u].id = id => h = g
    BY OwnersOf
  <2> QED
    BY <1>2, <2>1
<1>5. \A h \in Groups : \A u \in group[h].configs : poll[u].id # id => u \in group'[h].configs
  BY <1>2
<1>6. Owners(id)' = {}
  BY <1>1, <1>4 DEF Owners, Polled
<1>7. \A k \in IDs \ {id} : Owners(k)' = Owners(k)
  BY <1>1, <1>4, <1>5 DEF Owners, Polled
<1>8. /\ Only(Owners(id)) # Nil /\ Only(Owners(id))' = Nil
      /\ \A k \in IDs \ {id} : Only(Owners(k))' = Only(Owners(k))
  BY <1>3, <1>6, <1>7, OnlyOf, NilApart
<1>9. {u \in Polls : poll[u].id # Nil}' = {u \in Polls : poll[u].id # Nil}
  BY <1>1
<1>10. [k \in IDs |-> Only(Owners(k))]' = [[k \in IDs |-> Only(Owners(k))] EXCEPT ![id] = Nil]
  <2>1. \A k \in IDs : Only(Owners(k))' = IF k = id THEN Nil ELSE Only(Owners(k))
    BY <1>8
  <2> QED
    BY <2>1
<1> HIDE DEF g
<1> QED
  BY <1>8, <1>9, <1>10 DEF Registry!Release

\* Every step of the engine is a step of IDRegistry or a stutter.
LEMMA RegistryStep == IInv /\ Filed /\ [Next]_vars => [Registry!Next]_(Registry!vars)
<1> SUFFICES ASSUME IInv, Filed, [Next]_vars PROVE [Registry!Next]_(Registry!vars)
  OBVIOUS
<1>t. TypeOK
  BY DEF IInv
<1>1. ASSUME NEW p \in Callers, NEW id \in IDs, NEW i \in Intervals, Register(p, id, i)
      PROVE  Registry!Next
  BY <1>1, RegisterIsClaim DEF Registry!Next
<1>2. ASSUME NEW p \in Callers, NEW id \in IDs, Unregister(p, id) PROVE Registry!Next
  BY <1>2, UnregisterIsRelease DEF Registry!Next
<1>3. ASSUME NEW p \in Callers,
             \/ UnregisterReturn(p) \/ CloseCancel(p) \/ CloseSnapshot(p) \/ CloseStop(p)
             \/ CloseReturn(p)
      PROVE  UNCHANGED Registry!vars
  <2>1. UNCHANGED poll /\ \A g \in Groups : group'[g].configs = group[g].configs
    BY <1>3, <1>t
    DEF UnregisterReturn, CloseCancel, CloseSnapshot, CloseStop, CloseReturn, TypeOK, GroupRec
  <2> QED
    BY <2>1, RegistryStutter
<1>4. ASSUME NEW g \in Groups, Tick(g) \/ GroupStep(g) PROVE UNCHANGED Registry!vars
  <2>1. UNCHANGED poll /\ SameGroups
    BY <1>4, <1>t, GroupStepKeeps
  <2> QED
    BY <2>1, RegistryStutter DEF SameGroups
<1>5. ASSUME NEW r \in Runs, RunStep(r) PROVE UNCHANGED Registry!vars
  <2>1. UNCHANGED group /\ \A s \in Polls : poll'[s].id = poll[s].id
    BY <1>5, <1>t DEF RunStep, RunStart, RunReply, RunEnd, CountedDown, TypeOK, PollRec
  <2> QED
    BY <2>1, RegistryStutter
<1>6. ASSUME UNCHANGED <<poll, group>> PROVE UNCHANGED Registry!vars
  BY <1>6, RegistryStutter
<1> QED
  BY <1>1, <1>2, <1>3, <1>4, <1>5, <1>6 DEF Next, CallerCall, CallerStep, AttachConn, vars

\* The poll IDs behave as IDRegistry promises: Register never takes over an ID in use, and
\* Unregister ends the polling of its own ID only.
THEOREM ImplementsRegistry == Spec => RefinesRegistry
<1>1. Init => Filed /\ Registry!Init
  <2> SUFFICES ASSUME Init PROVE Filed /\ Registry!Init
    OBVIOUS
  <2>1. \A id : Owners(id) = {}
    BY DEF Init, Owners, Polled, NoGroup
  <2>2. \A id \in IDs : Only(Owners(id)) = Nil
    BY <2>1, OnlyOf
  <2>3. {s \in Polls : poll[s].id # Nil} = {}
    BY DEF Init
  <2>4. Filed
    BY DEF Init, Filed, NoGroup
  <2> QED
    BY <2>2, <2>3, <2>4 DEF Registry!Init
<1> QED
  BY Invariance, FiledStep, RegistryStep, <1>1, PTL DEF Spec, RefinesRegistry, Registry!Spec
=============================================================================
