----------------------------- MODULE PollEngine -----------------------------
(***************************************************************************)
(* poll.Engine and poll.group (src/poll/engine.go, src/poll/group.go): the *)
(* polls of one device, grouped by interval. Each group has a ticker       *)
(* goroutine; each tick starts one runOne goroutine per poll. Application  *)
(* goroutines (Callers) call Register, Unregister and Close; the command   *)
(* supervisor calls AttachConn after a reconnect.                          *)
(*                                                                         *)
(* e.mu is modelled by its holder: a critical section that cannot block is *)
(* one action, taken when nobody holds the lock; Unregister is the one     *)
(* that keeps the lock while it waits. g.mu only guards sections that      *)
(* cannot block, so each of them is atomic. Calls refused before they      *)
(* change anything are stuttering steps. A pollState and a group are       *)
(* numbered in the order of their creation.                                *)
(*                                                                         *)
(* The connection is external: any command may succeed or fail.            *)
(***************************************************************************)
EXTENDS Integers, FiniteSets

CONSTANTS Callers,      \* application goroutines
          IDs,          \* poll IDs
          Intervals,    \* polling intervals
          MaxInFlight,  \* Config.MaxInFlight, 0 = no limit
          MaxPolls,     \* bound: number of successful Register calls
          MaxGroups,    \* bound: number of groups ever created
          MaxRuns,      \* bound: runOne goroutines alive at a time
          MaxConns      \* bound: number of connections

Nil == 0

ASSUME PollBounds == /\ MaxInFlight \in Nat /\ MaxPolls \in Nat /\ MaxGroups \in Nat
                     /\ MaxRuns \in Nat \ {0} /\ MaxConns \in Nat \ {0}
ASSUME PollNames  == Nil \notin Callers /\ Nil \notin IDs /\ Nil \notin Intervals

Polls  == 1..MaxPolls     \* pollState structs
Groups == 1..MaxGroups    \* group structs
Runs   == 1..MaxRuns      \* slots for runOne goroutines
Conns  == 1..MaxConns

VARIABLES closed,    \* e.ctx is cancelled
          lock,      \* who holds e.mu across actions, or Nil
          conn,      \* e.conn
          groups,    \* e.groups: interval -> group or Nil
          idx,       \* e.idx: ID -> interval or Nil
          poll,      \* the pollState structs: ID and inFlight
          group,     \* the group structs and their goroutines
          run,       \* the runOne goroutines
          proc       \* the callers

vars == <<closed, lock, conn, groups, idx, poll, group, run, proc>>

-----------------------------------------------------------------------------
PollRec  == [id : IDs \cup {Nil}, inFlight : Nat]

GroupRec == [interval : Intervals \cup {Nil}, configs : SUBSET Polls, cancelled : BOOLEAN,
             pc : {"none", "select", "getconn", "fanout", "exit"},
             snapshot : SUBSET Polls, conn : Conns \cup {Nil}]

RunRec   == [pc : {"none", "spawned", "running", "handler"},
             poll : Polls \cup {Nil}, group : Groups \cup {Nil}, conn : Conns \cup {Nil}]

ProcRec  == [at : {"idle", "wait", "snapshot", "stop"}, group : Groups \cup {Nil},
             todo : SUBSET Groups]

TypeOK == /\ closed \in BOOLEAN
          /\ lock \in Callers \cup {Nil}
          /\ conn \in Conns
          /\ groups \in [Intervals -> Groups \cup {Nil}]
          /\ idx \in [IDs -> Intervals \cup {Nil}]
          /\ poll \in [Polls -> PollRec]
          /\ group \in [Groups -> GroupRec]
          /\ run \in [Runs -> RunRec]
          /\ proc \in [Callers -> ProcRec]

Idle    == [at |-> "idle", group |-> Nil, todo |-> {}]
NoRun   == [pc |-> "none", poll |-> Nil, group |-> Nil, conn |-> Nil]
NoGroup == [interval |-> Nil, configs |-> {}, cancelled |-> FALSE, pc |-> "none",
            snapshot |-> {}, conn |-> Nil]

Init == /\ closed = FALSE /\ lock = Nil /\ conn = 1
        /\ groups = [i \in Intervals |-> Nil]
        /\ idx = [id \in IDs |-> Nil]
        /\ poll = [s \in Polls |-> [id |-> Nil, inFlight |-> 0]]
        /\ group = [g \in Groups |-> NoGroup]
        /\ run = [r \in Runs |-> NoRun]
        /\ proc = [p \in Callers |-> Idle]

-----------------------------------------------------------------------------
NewPoll(s)  == /\ poll[s].id = Nil
               /\ \A k \in Polls : k < s => poll[k].id # Nil
NewGroup(g) == /\ group[g].pc = "none"
               /\ \A k \in Groups : k < g => group[k].pc # "none"

(* The parts of the methods. A name with an underscore is a faulty variant *)
(* of the definition below it, a bug that some property is meant to catch; *)
(* no specification uses it.                                               *)

\* The context of a group is a child of e.ctx, the one of a run a child of it.
CtxDone_ParentOnly(g) == closed
CtxDone(g) == closed \/ group[g].cancelled

\* g.done is closed.
Done_NoWait(g) == TRUE
Done(g) == group[g].pc = "exit"

\* The duplicate check of Register.
Unclaimed_Always(id) == TRUE
Unclaimed(id) == idx[id] = Nil

\* delete(e.idx, id).
Unindexed_Keeps(id) == idx
Unindexed(id) == [idx EXCEPT ![id] = Nil]

\* What the closure of connRef reads.
ConnRef_Captured == 1
ConnRef == conn

\* tick's test of MaxInFlight.
AtLimit_OffByOne(s) == MaxInFlight > 0 /\ poll[s].inFlight > MaxInFlight
AtLimit(s) == MaxInFlight > 0 /\ poll[s].inFlight >= MaxInFlight

\* The deferred inFlight.Add(-1).
CountedDown_Leaks(s) == poll
CountedDown_Twice(s) == [poll EXCEPT ![s].inFlight = @ - 2]
CountedDown(s) == [poll EXCEPT ![s].inFlight = @ - 1]

-----------------------------------------------------------------------------
\* Register: the poll joins the group of its interval, which is started if need be.
Register(p, id, i) ==
    /\ proc[p].at = "idle" /\ lock = Nil
    /\ Unclaimed(id)
    /\ \E s \in Polls :
          /\ NewPoll(s)
          /\ poll' = [poll EXCEPT ![s].id = id]
          /\ \/ /\ groups[i] # Nil
                /\ group' = [group EXCEPT ![groups[i]].configs = @ \cup {s}]
                /\ UNCHANGED groups
             \/ /\ groups[i] = Nil
                /\ \E g \in Groups :
                      /\ NewGroup(g)
                      /\ group' = [group EXCEPT ![g] = [NoGroup EXCEPT !.interval = i, !.pc = "select",
                                                                       !.configs = {s}]]
                      /\ groups' = [groups EXCEPT ![i] = g]
    /\ idx' = [idx EXCEPT ![id] = i]
    /\ UNCHANGED <<closed, lock, conn, run, proc>>

\* Unregister: remove the poll; a group that is left empty is cancelled, and the
\* caller keeps e.mu while it waits for the group's goroutine.
Unregister(p, id) ==
    /\ proc[p].at = "idle" /\ lock = Nil
    /\ idx[id] # Nil
    /\ LET g    == groups[idx[id]]
           left == {s \in group[g].configs : poll[s].id # id}
       IN /\ group' = [group EXCEPT ![g].configs = left, ![g].cancelled = @ \/ left = {}]
          /\ IF left = {} THEN /\ lock' = p
                               /\ proc' = [proc EXCEPT ![p].at = "wait", ![p].group = g]
                          ELSE UNCHANGED <<lock, proc>>
    /\ idx' = Unindexed(id)
    /\ UNCHANGED <<closed, conn, groups, poll, run>>

\* <-g.done, then delete(e.groups, interval) and the deferred unlock.
UnregisterReturn(p) ==
    /\ proc[p].at = "wait"
    /\ Done(proc[p].group)
    /\ groups' = [groups EXCEPT ![group[proc[p].group].interval] = Nil]
    /\ lock' = Nil
    /\ proc' = [proc EXCEPT ![p] = Idle]
    /\ UNCHANGED <<closed, conn, idx, poll, group, run>>

\* Close cancels e.ctx, takes the groups under the lock, and stops each of them.
CloseCancel(p) ==
    /\ proc[p].at = "idle"
    /\ closed' = TRUE
    /\ proc' = [proc EXCEPT ![p].at = "snapshot"]
    /\ UNCHANGED <<lock, conn, groups, idx, poll, group, run>>

CloseSnapshot(p) ==
    /\ proc[p].at = "snapshot" /\ lock = Nil
    /\ proc' = [proc EXCEPT ![p].at = "stop",
                            ![p].todo = {g \in Groups : \E i \in Intervals : groups[i] = g}]
    /\ UNCHANGED <<closed, lock, conn, groups, idx, poll, group, run>>

\* g.stop(): cancel, and wait for the goroutine.
CloseStop(p) ==
    /\ proc[p].at = "stop"
    /\ \E g \in proc[p].todo :
          \/ /\ ~group[g].cancelled
             /\ group' = [group EXCEPT ![g].cancelled = TRUE]
             /\ UNCHANGED proc
          \/ /\ group[g].cancelled /\ Done(g)
             /\ proc' = [proc EXCEPT ![p].todo = @ \ {g}]
             /\ UNCHANGED group
    /\ UNCHANGED <<closed, lock, conn, groups, idx, poll, run>>

CloseReturn(p) ==
    /\ proc[p].at = "stop" /\ proc[p].todo = {}
    /\ proc' = [proc EXCEPT ![p] = Idle]
    /\ UNCHANGED <<closed, lock, conn, groups, idx, poll, group, run>>

\* AttachConn, called by the command supervisor after a reconnect.
AttachConn ==
    /\ lock = Nil /\ conn < MaxConns
    /\ conn' = conn + 1
    /\ UNCHANGED <<closed, lock, groups, idx, poll, group, run, proc>>

-----------------------------------------------------------------------------
\* The select of the group's goroutine: its context is done ...
GroupExit(g) ==
    /\ group[g].pc = "select" /\ CtxDone(g)
    /\ group' = [group EXCEPT ![g].pc = "exit"]
    /\ UNCHANGED <<closed, lock, conn, groups, idx, poll, run, proc>>

\* ... or the ticker fires (both may be ready): tick takes its snapshot of the polls.
Tick(g) ==
    /\ group[g].pc = "select"
    /\ group[g].configs # {}
    /\ group' = [group EXCEPT ![g].pc = "getconn", ![g].snapshot = group[g].configs]
    /\ UNCHANGED <<closed, lock, conn, groups, idx, poll, run, proc>>

\* getConn takes e.mu for reading. Left out is the return of tick for a nil connection, which
\* no caller in src/ attaches.
GetConn(g) ==
    /\ group[g].pc = "getconn" /\ lock = Nil
    /\ group' = [group EXCEPT ![g].pc = "fanout", ![g].conn = ConnRef]
    /\ UNCHANGED <<closed, lock, conn, groups, idx, poll, run, proc>>

\* The fan-out of a tick, one poll at a time: skipped at the limit, else go g.runOne.
Skip(g) ==
    /\ group[g].pc = "fanout"
    /\ \E s \in group[g].snapshot :
          /\ AtLimit(s)
          /\ group' = [group EXCEPT ![g].snapshot = @ \ {s}]
    /\ UNCHANGED <<closed, lock, conn, groups, idx, poll, run, proc>>

Spawn(g) ==
    /\ group[g].pc = "fanout"
    /\ \E s \in group[g].snapshot, r \in Runs :
          /\ ~AtLimit(s)
          /\ run[r].pc = "none" /\ \A k \in Runs : k < r => run[k].pc # "none"
          /\ run' = [run EXCEPT ![r] = [pc |-> "spawned", poll |-> s, group |-> g,
                                        conn |-> group[g].conn]]
          /\ group' = [group EXCEPT ![g].snapshot = @ \ {s}]
    /\ UNCHANGED <<closed, lock, conn, groups, idx, poll, proc>>

TickReturn(g) ==
    /\ group[g].pc = "fanout" /\ group[g].snapshot = {}
    /\ group' = [group EXCEPT ![g].pc = "select", ![g].conn = Nil]
    /\ UNCHANGED <<closed, lock, conn, groups, idx, poll, run, proc>>

-----------------------------------------------------------------------------
\* runOne: inFlight.Add(1) is its first statement, Add(-1) its last.
RunStart(r) ==
    /\ run[r].pc = "spawned"
    /\ run' = [run EXCEPT ![r].pc = "running"]
    /\ poll' = [poll EXCEPT ![run[r].poll].inFlight = @ + 1]
    /\ UNCHANGED <<closed, lock, conn, groups, idx, group, proc>>

\* RunArgsContext returns the reply: the Handler is called, for a poll that may
\* have been unregistered meanwhile.
RunReply(r) ==
    /\ run[r].pc = "running"
    /\ run' = [run EXCEPT ![r].pc = "handler"]
    /\ UNCHANGED <<closed, lock, conn, groups, idx, poll, group, proc>>

\* It fails: the connection, the command, its timeout or its context; or the
\* Handler has returned.
RunEnd(r) ==
    /\ run[r].pc \in {"running", "handler"}
    /\ poll' = CountedDown(run[r].poll)
    /\ run' = [run EXCEPT ![r] = NoRun]
    /\ UNCHANGED <<closed, lock, conn, groups, idx, group, proc>>

-----------------------------------------------------------------------------
CallerCall(p) == \/ \E id \in IDs : Unregister(p, id) \/ \E i \in Intervals : Register(p, id, i)
                 \/ CloseCancel(p)

CallerStep(p) == UnregisterReturn(p) \/ CloseSnapshot(p) \/ CloseStop(p) \/ CloseReturn(p)

GroupStep(g) == GroupExit(g) \/ GetConn(g) \/ Skip(g) \/ Spawn(g) \/ TickReturn(g)

RunStep(r) == RunStart(r) \/ RunReply(r) \/ RunEnd(r)

Next == \/ \E p \in Callers : CallerCall(p) \/ CallerStep(p)
        \/ AttachConn
        \/ \E g \in Groups : Tick(g) \/ GroupStep(g)
        \/ \E r \in Runs : RunStep(r)

Spec == Init /\ [][Next]_vars

\* A goroutine that can run does, the ticker keeps firing, and every command
\* ends, by its timeout at the latest. A select with several ready cases picks
\* one at random, so a cancelled group cannot choose its ticker for ever.
Fairness == /\ \A p \in Callers : WF_vars(CallerStep(p))
            /\ \A g \in Groups : WF_vars(GroupStep(g)) /\ WF_vars(Tick(g))
                                  /\ SF_vars(GroupExit(g))
            /\ \A r \in Runs : WF_vars(RunStart(r)) /\ WF_vars(RunEnd(r))

FairSpec == Spec /\ Fairness

-----------------------------------------------------------------------------
(* Properties of every behaviour.                                          *)

\* e.idx and e.groups agree whenever e.mu is free: a poll is indexed exactly under
\* the interval whose group runs it, once, and no group is kept without polls.
IndexAgrees ==
    lock = Nil =>
        /\ \A id \in IDs, i \in Intervals :
              idx[id] = i <=> /\ groups[i] # Nil
                              /\ \E s \in group[groups[i]].configs : poll[s].id = id
        /\ \A i \in Intervals : groups[i] # Nil => group[groups[i]].configs # {}
        /\ \A g \in Groups : \A s, t \in group[g].configs : poll[s].id = poll[t].id => s = t

\* engine.go:23-24: one goroutine per interval in use. A group that Unregister
\* has dropped from e.groups has no goroutine left, so that a later Register of
\* the same interval cannot make two tickers run.
OneTicker ==
    \A g \in Groups : group[g].pc \notin {"none", "exit"} => groups[group[g].interval] = g

\* A poll's counter is the number of its commands in flight, also when the poll
\* has left its group, and never goes below zero or stays up after a failure.
InFlightExact ==
    \A s \in Polls : poll[s].inFlight =
        Cardinality({r \in Runs : run[r].poll = s /\ run[r].pc \in {"running", "handler"}})

Polled(s) == \E g \in Groups : s \in group[g].configs

\* The polls under an ID, of whatever group: never more than one.
Owners(id) == {s \in Polls : Polled(s) /\ poll[s].id = id}
Only(S)    == IF S = {} THEN Nil ELSE CHOOSE s \in S : TRUE

\* The IDs as IDRegistry promises them: Register never takes over an ID that is in
\* use, and Unregister ends the polling of this ID and of no other, although a tick
\* may be at work on the group, an empty group be stopped, or the engine be closed.
Registry == INSTANCE IDRegistry
                WITH Registrations <- Polls, Free <- Nil, holder <- [id \in IDs |-> Only(Owners(id))],
                     issued <- {s \in Polls : poll[s].id # Nil}

RefinesRegistry == Registry!Spec

\* The commands of a poll that have been started and have not ended.
Alive(s) == {r \in Runs : run[r].poll = s}

\* config.go:38-40, group.go:120: tick compares a counter that the commands themselves
\* step up once they run. A tick takes a poll beyond MaxInFlight only if a command of
\* that poll has been spawned and has not yet counted itself in; with all of them
\* counted the limit is exact, whatever is unregistered, closed or reconnected.
LimitCountsTheCounted ==
    [][\A s \in Polls :
          /\ MaxInFlight > 0
          /\ Cardinality(Alive(s)') > Cardinality(Alive(s))
          /\ Cardinality(Alive(s)') > MaxInFlight
          => \E r \in Alive(s) : run[r].pc = "spawned"]_vars

-----------------------------------------------------------------------------
(* What the comments claim, and the code does not keep.                    *)

\* config.go:38-39: at most MaxInFlight commands of a poll run at a time. Broken by a
\* tick that overtakes the goroutines of the tick before (MCPollLimit).
LimitKept == MaxInFlight > 0 => \A s \in Polls : poll[s].inFlight <= MaxInFlight

-----------------------------------------------------------------------------
(* Liveness: properties of the behaviours in which no group is emptied in  *)
(* the middle of a tick (PromptSpec of PollPrompt).                        *)

\* Every call returns: neither Unregister nor Close waits for ever for a group.
CallsReturn == \A p \in Callers : (proc[p].at # "idle") ~> (proc[p].at = "idle")

\* engine.go:53-55: after a reconnect every poll goes on by itself, on the new
\* connection, unless it is unregistered or the engine is closed.
PollsFollowReconnect ==
    \A s \in Polls :
        Polled(s) ~> (~Polled(s) \/ closed \/ \E r \in Runs : run[r].poll = s /\ run[r].conn = conn)
=============================================================================
