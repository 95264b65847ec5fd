----------------------------- MODULE RedisCache -----------------------------
(***************************************************************************)
(* cache.RedisCache (src/cache/redis.go): the contract of the in-memory    *)
(* cache kept on a Redis server, on which an entry and the index of a path *)
(* are keys with a time to live each, and an invalidation is two requests: *)
(* SMEMBERS first, and a transaction with what it returned. The devices of *)
(* a fleet, in one process or several, share the server.                   *)
(*                                                                         *)
(* Every request is atomic on the server (TxPipeline is MULTI/EXEC). It may*)
(* fail, and then it was executed or it was not. Get changes nothing: a    *)
(* hit is no step, and a miss, or any error, sends ExecCached to the       *)
(* router, so that it may go there at any time. After Close every request  *)
(* fails. Keys, Extends and the prints in progress are as in CacheStore.   *)
(*                                                                         *)
(* `stale` and `orphan` are history and guard nothing.                     *)
(***************************************************************************)
EXTENDS Naturals

CONSTANTS Callers,       \* goroutines that call ExecCached
          Invalidators,  \* goroutines that invalidate
          Keys,          \* the keys in use: records of a device and a path
          Extends,       \* pairs of devices: the ID of the second continues the first's
          TTLs,          \* the TTLs of the prints; 0 is none
          Minute,        \* what the index gets on top of the TTL
          Forever        \* the time left of what does not expire

Devices == {k.dev : k \in Keys}
Paths   == {k.path : k \in Keys}

ASSUME RedisAssumption == /\ Keys # {} /\ Extends \subseteq Devices \X Devices
                          /\ TTLs \subseteq Nat /\ Minute \in Nat \ {0} /\ Forever \in Nat
                          /\ \A t \in TTLs : t + Minute < Forever

VARIABLES data,    \* the entries
          index,   \* the sets "roslib:idx:<path>"
          call,    \* the callers of ExecCached
          inv,     \* the invalidations in progress
          stale,   \* entries that an invalidation, returning nil, should have deleted
          orphan   \* entries whose index is gone, or expires before them

vars == <<data, index, call, inv, stale, orphan>>

\* What an entry says is what the router says (new), what it said before a change
\* (old), or something the application has stored (raw).
Absent  == [age |-> "none", left |-> 0]
NoIndex == [keys |-> {}, left |-> 0]
Idle    == [pc |-> "idle", key |-> CHOOSE k \in Keys : TRUE, age |-> "none"]
Done    == [pc |-> "idle", path |-> CHOOSE p \in Paths : TRUE, keys |-> {}, due |-> {},
            whole |-> FALSE]

TypeOK == /\ data \in [Keys -> [age : {"new", "old", "raw", "none"}, left : 0..Forever]]
          /\ index \in [Paths -> [keys : SUBSET Keys, left : 0..Forever]]
          /\ call \in [Callers -> [pc : {"idle", "run", "store"}, key : Keys,
                                   age : {"new", "old", "none"}]]
          /\ inv \in [Invalidators -> [pc : {"idle", "del", "exec"}, path : Paths,
                                       keys : SUBSET Keys, due : SUBSET Keys, whole : BOOLEAN]]
          /\ stale \subseteq Keys /\ orphan \subseteq Keys

Init == /\ data = [k \in Keys |-> Absent]
        /\ index = [p \in Paths |-> NoIndex]
        /\ call = [c \in Callers |-> Idle]
        /\ inv = [i \in Invalidators |-> Done]
        /\ stale = {} /\ orphan = {}

-----------------------------------------------------------------------------
(* A name with an underscore is a faulty variant of the definition below   *)
(* it; no specification uses it.                                           *)

Live(k) == data[k] # Absent

\* The entry was stored by ExecCached.
Filled(k) == data[k].age \in {"new", "old"}

\* SET and EXPIRE: the time left of a key that is given the TTL t. An entry without
\* one stays; an index is not touched then, and a new one stays.
EntryLeft(t) == IF t = 0 THEN Forever ELSE t

IndexLeft_Once(p, t) ==
    IF index[p].left = 0 THEN (IF t > 0 THEN t + Minute ELSE Forever) ELSE index[p].left
IndexLeft(p, t) ==
    IF t > 0 THEN t + Minute ELSE IF index[p].left = 0 THEN Forever ELSE index[p].left

\* The entries of an index that expires before them: by SetForPath of k with the TTL t
\* that is so for others if t is shorter than theirs, and for k if it has none.
Exposed(k, t) ==
    LET set == index[k.path]
    IN  IF t > 0 THEN {j \in set.keys \ {k} : data[j].left > t + Minute}
        ELSE (orphan \cap (set.keys \ {k})) \cup (IF set.left \in {0, Forever} THEN {} ELSE {k})

\* The keys that begin with "roslib:<id>:".
OfDevice(d) == {k \in Keys : k.dev = d \/ <<d, k.dev>> \in Extends}

\* SREM: a set without members does not exist.
Srem(set, ks) == IF set.keys \subseteq ks THEN NoIndex ELSE [set EXCEPT !.keys = @ \ ks]

\* The entry of k is replaced: no invalidation in progress is about the new one.
Renewed(k) == [i \in Invalidators |-> [inv[i] EXCEPT !.due = @ \ {k}]]

-----------------------------------------------------------------------------
ExecCached(c, k) ==
    /\ call[c].pc = "idle"
    /\ call' = [call EXCEPT ![c].pc = "run", ![c].key = k]
    /\ UNCHANGED <<data, index, inv, stale, orphan>>

RunCommand(c) ==
    /\ call[c].pc = "run"
    /\ \/ call' = [call EXCEPT ![c].pc = "store", ![c].age = "new"]
       \/ call' = [call EXCEPT ![c] = Idle]
    /\ UNCHANGED <<data, index, inv, stale, orphan>>

\* SET, SADD and EXPIRE in one transaction. ExecCached ignores its error.
SetForPath(c) ==
    /\ call[c].pc = "store"
    /\ call' = [call EXCEPT ![c] = Idle]
    /\ LET k == call[c].key
           p == k.path
       IN  \/ \E t \in TTLs :
                /\ data' = [data EXCEPT ![k] = [age |-> call[c].age, left |-> EntryLeft(t)]]
                /\ index' = [index EXCEPT ![p] = [keys |-> @.keys \cup {k},
                                                  left |-> IndexLeft(p, t)]]
                /\ inv' = Renewed(k)
                /\ stale' = stale \ {k}
                /\ orphan' = (orphan \ (index[p].keys \cup {k})) \cup Exposed(k, t)
           \/ UNCHANGED <<data, index, inv, stale, orphan>>

\* Set by the application: no index is touched.
Set(k) ==
    /\ \E t \in TTLs : data' = [data EXCEPT ![k] = [age |-> "raw", left |-> EntryLeft(t)]]
    /\ inv' = Renewed(k)
    /\ stale' = stale \ {k}
    /\ orphan' = orphan \ {k}
    /\ UNCHANGED <<index, call>>

-----------------------------------------------------------------------------
\* The entries among ks that the router has left behind: a call that returns nil
\* from now on has deleted them.
Due(ks) == {k \in ks : data[k].age = "old"}

\* SMEMBERS of InvalidatePath. When it fails, the call returns the error.
InvalidatePath(i, p) ==
    /\ inv[i].pc = "idle"
    /\ inv' = [inv EXCEPT ![i] = [pc |-> IF index[p].keys = {} THEN "del" ELSE "exec",
                                  path |-> p, keys |-> index[p].keys, whole |-> TRUE,
                                  due |-> Due({k \in Keys : k.path = p})]]
    /\ UNCHANGED <<data, index, call, stale, orphan>>

\* SMEMBERS of InvalidatePathForDevice, and the filter. It returns at once when the
\* device has no key in the set.
InvalidatePathForDevice(i, d, p) ==
    /\ inv[i].pc = "idle"
    /\ LET scoped == index[p].keys \cap OfDevice(d)
           due    == Due({k \in Keys : k.path = p /\ k.dev = d})
       IN  \/ /\ scoped = {}
              /\ stale' = stale \cup due
              /\ UNCHANGED inv
           \/ /\ scoped # {}
              /\ inv' = [inv EXCEPT ![i] = [pc |-> "exec", path |-> p, keys |-> scoped,
                                            whole |-> FALSE, due |-> due]]
              /\ UNCHANGED stale
    /\ UNCHANGED <<data, index, call, orphan>>

\* The second request is executed: DEL of the keys read, and DEL of the set or SREM. What
\* SetForPath has added to the set since SMEMBERS loses it with the set.
Executed(i) ==
    LET p == inv[i].path
        gone == inv[i].keys
    IN  /\ data' = [k \in Keys |-> IF k \in gone THEN Absent ELSE data[k]]
        /\ index' = [index EXCEPT ![p] = IF inv[i].whole THEN NoIndex ELSE Srem(@, gone)]
        /\ orphan' = {k \in (IF inv[i].whole THEN orphan \cup index[p].keys ELSE orphan) :
                         k \notin gone /\ Live(k)}

Finish(i) ==
    /\ inv[i].pc \in {"del", "exec"}
    /\ inv' = [inv EXCEPT ![i] = Done]
    /\ \/ /\ Executed(i)
          /\ stale' = {k \in stale \cup inv[i].due : Live(k) /\ k \notin inv[i].keys}
       \* executed, and its answer is lost
       \/ /\ Executed(i)
          /\ stale' = stale \ inv[i].keys
       \* not executed
       \/ UNCHANGED <<data, index, stale, orphan>>
    /\ UNCHANGED call

-----------------------------------------------------------------------------
\* PathBuilder's mutations, or an operator, change the router; no entry is touched.
Mutate(k) ==
    /\ data' = [data EXCEPT ![k].age = IF @ = "new" THEN "old" ELSE @]
    /\ call' = [c \in Callers |-> IF call[c].key = k /\ call[c].age = "new"
                                  THEN [call[c] EXCEPT !.age = "old"] ELSE call[c]]
    /\ UNCHANGED <<index, inv, stale, orphan>>

\* Time passes on the server, and keys expire.
Later(n) == IF n \in {0, Forever} THEN n ELSE n - 1

Tick ==
    LET over == {k \in Keys : Later(data[k].left) = 0}
    IN  /\ data' = [k \in Keys |-> IF k \in over THEN Absent
                                   ELSE [data[k] EXCEPT !.left = Later(@)]]
        /\ index' = [p \in Paths |-> IF Later(index[p].left) = 0 THEN NoIndex
                                     ELSE [index[p] EXCEPT !.left = Later(@)]]
        /\ inv' = [i \in Invalidators |-> [inv[i] EXCEPT !.due = @ \ over]]
        /\ stale' = stale \ over
        /\ orphan' = orphan \ over
        /\ UNCHANGED call

Next == \/ \E c \in Callers : \/ RunCommand(c) \/ SetForPath(c)
                              \/ \E k \in Keys : ExecCached(c, k)
        \/ \E i \in Invalidators : \/ Finish(i)
                                   \/ \E p \in Paths : \/ InvalidatePath(i, p)
                                                       \/ \E d \in Devices :
                                                            InvalidatePathForDevice(i, d, p)
        \/ \E k \in Keys : Set(k) \/ Mutate(k)
        \/ Tick

Spec == Init /\ [][Next]_vars

-----------------------------------------------------------------------------
\* An entry survives an invalidation of its path that returned nil, and began after the
\* router had changed, in three cases only. An earlier invalidation was between its two
\* requests when the entry was stored, and deleted the index with the entry in it. Or the
\* index expired first: SetForPath of the path with a shorter TTL had cut its life, or the
\* entry has no TTL and the index had one already.
FreshUnlessOrphaned == stale \subseteq orphan

-----------------------------------------------------------------------------
(* What the comments claim, and the code does not keep.                    *)

\* cache.go:29-31: after InvalidatePath no Get of a key that was stored for the path hits.
\* Broken by a SetForPath between the two requests (MCRedisStale).
FreshAfterInvalidate == stale = {}

\* redis.go:71-72: an index lives longer than every print stored in it. Broken by a later
\* SetForPath of the path with a shorter TTL (MCRedisTTL).
IndexOutlives ==
    \A k \in Keys : Filled(k) /\ k \in index[k.path].keys =>
        \/ index[k.path].left > data[k].left
        \/ index[k.path].left = Forever
=============================================================================
