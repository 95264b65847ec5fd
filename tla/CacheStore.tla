----------------------------- MODULE CacheStore -----------------------------
(***************************************************************************)
(* cache.InMemoryCache (src/cache/cache.go) as it is used by the devices   *)
(* of a fleet that share it: PrintBuilder.ExecCached                       *)
(* (src/builder/print.go) fills it, RouterDevice.InvalidateCache and       *)
(* InvalidatePath empty it, and an application may Set keys itself.        *)
(*                                                                         *)
(* A key is the device and the path of a print; the hash of the sentence   *)
(* in KeyOf only tells prints of one path apart. SetForPath is called by   *)
(* ExecCached alone, so a key belongs to one path. An entry without a TTL  *)
(* never expires; one with a TTL may be found expired at any moment.       *)
(*                                                                         *)
(* What an entry or a print says is abstracted to its age: it is what the  *)
(* router says now (new), or the router has changed since (changed); when  *)
(* the path is invalidated after the change, what is in the cache and      *)
(* stays there is stale, and what a caller has printed and not yet stored  *)
(* is late. `age` is history and guards nothing; `raw` marks what the      *)
(* application has stored, which need not be the JSON of a reply.          *)
(***************************************************************************)
CONSTANTS Callers,    \* goroutines that call ExecCached
          Keys,       \* the keys in use: records of a device and a path
          Extends     \* pairs of devices: the ID of the second continues that of
                      \* the first with a colon, as "gw" and "gw:stream"

Devices == {k.dev : k \in Keys}
Paths   == {k.path : k \in Keys}

ASSUME CacheAssumption == Keys # {} /\ Extends \subseteq Devices \X Devices

VARIABLES data,     \* c.data
          pathIdx,  \* c.pathIdx, a path that is absent being the empty set
          keyPath,  \* c.keyPath: the path of a key, or none
          at        \* the callers

vars == <<data, pathIdx, keyPath, at>>

Ages     == {"new", "changed", "stale", "late"}
EntryRec == [age : Ages, ttl : BOOLEAN, raw : BOOLEAN]
Absent   == [age |-> "none", ttl |-> FALSE, raw |-> FALSE]
CallRec  == [pc : {"idle", "expired", "run", "store"}, key : Keys,
             age : (Ages \ {"stale"}) \cup {"none"}]

TypeOK == /\ data \in [Keys -> EntryRec \cup {Absent}]
          /\ pathIdx \in [Paths -> SUBSET Keys]
          /\ keyPath \in [Keys -> {{}} \cup {{p} : p \in Paths}]
          /\ at \in [Callers -> CallRec]

Idle == [pc |-> "idle", key |-> CHOOSE k \in Keys : TRUE, age |-> "none"]

Init == /\ data = [k \in Keys |-> Absent]
        /\ pathIdx = [p \in Paths |-> {}]
        /\ keyPath = [k \in Keys |-> {}]
        /\ at = [c \in Callers |-> Idle]

-----------------------------------------------------------------------------
\* The entry was stored by ExecCached. Only such an entry ages.
Filled(k) == data[k] # Absent /\ ~data[k].raw

(* The parts of the methods. A name with an underscore is a faulty variant *)
(* of the definition below it; no specification uses it.                   *)

\* SetForPath: the key enters the index of its path ...
Indexed_Not(k) == pathIdx
Indexed(k) == [pathIdx EXCEPT ![k.path] = @ \cup {k}]

\* ... and removeKeyLocked takes it out, if keyPath knows it.
Unindexed_Not(k) == pathIdx
Unindexed(k) == [p \in Paths |-> IF p \in keyPath[k] THEN pathIdx[p] \ {k} ELSE pathIdx[p]]

\* The keys that InvalidatePathForDevice takes for the device's: those that begin
\* with "roslib:<id>:".
OfDevice(d) == {k \in Keys : k.dev = d \/ <<d, k.dev>> \in Extends}

-----------------------------------------------------------------------------
\* ExecCached calls Get, which reads the entry under the read lock and looks at the
\* clock after the unlock. A hit returns a copy and changes nothing, so only the
\* other outcomes are steps: nothing is found, or a value that cannot be decoded, and
\* the print is run; or the TTL has run out.
ExecCached(c, k) ==
    /\ at[c].pc = "idle"
    /\ \/ /\ data[k] = Absent \/ data[k].raw
          /\ at' = [at EXCEPT ![c].pc = "run", ![c].key = k]
       \/ data[k].ttl /\ at' = [at EXCEPT ![c].pc = "expired", ![c].key = k]
    /\ UNCHANGED <<data, pathIdx, keyPath>>

\* removeKeyLocked, whatever is stored under the key by now.
Remove(c) ==
    /\ at[c].pc = "expired"
    /\ LET k == at[c].key
       IN  /\ data' = [data EXCEPT ![k] = Absent]
           /\ pathIdx' = Unindexed(k)
           /\ keyPath' = [keyPath EXCEPT ![k] = {}]
    /\ at' = [at EXCEPT ![c].pc = "run"]

\* RunCommand answers, or fails and ExecCached returns the error.
RunCommand(c) ==
    /\ at[c].pc = "run"
    /\ \/ at' = [at EXCEPT ![c].pc = "store", ![c].age = "new"]
       \/ at' = [at EXCEPT ![c] = Idle]
    /\ UNCHANGED <<data, pathIdx, keyPath>>

\* SetForPath, with or without a TTL.
SetForPath(c) ==
    /\ at[c].pc = "store"
    /\ LET k == at[c].key
       IN  /\ \E t \in BOOLEAN :
                data' = [data EXCEPT ![k] = [age |-> at[c].age, ttl |-> t, raw |-> FALSE]]
           /\ pathIdx' = Indexed(k)
           /\ keyPath' = [keyPath EXCEPT ![k] = {k.path}]
    /\ at' = [at EXCEPT ![c] = Idle]

\* Set by the application: no index is touched.
Set(k) ==
    /\ \E t \in BOOLEAN :
         data' = [data EXCEPT ![k] = [age |-> "new", ttl |-> t, raw |-> TRUE]]
    /\ UNCHANGED <<pathIdx, keyPath, at>>

-----------------------------------------------------------------------------
\* The entries `gone` are deleted, for an invalidation of the keys `meant`.
Deleted(gone, meant) ==
    /\ data' = [k \in Keys |-> IF k \in gone THEN Absent
                               ELSE IF k \in meant /\ data[k].age \in {"changed", "late"}
                                    THEN [data[k] EXCEPT !.age = "stale"] ELSE data[k]]
    /\ keyPath' = [k \in Keys |-> IF k \in gone THEN {} ELSE keyPath[k]]
    /\ at' = [c \in Callers |-> IF at[c].age = "changed" /\ at[c].key \in meant
                                THEN [at[c] EXCEPT !.age = "late"] ELSE at[c]]

InvalidatePath(p) ==
    /\ Deleted(pathIdx[p], {k \in Keys : k.path = p})
    /\ pathIdx' = [pathIdx EXCEPT ![p] = {}]

\* RouterDevice.InvalidateCache.
InvalidatePathForDevice(d, p) ==
    /\ Deleted(pathIdx[p] \cap OfDevice(d), {k \in Keys : k.path = p /\ k.dev = d})
    /\ pathIdx' = [pathIdx EXCEPT ![p] = @ \ OfDevice(d)]

\* Add, Set, Remove, Enable and Disable of PathBuilder change the router and leave the
\* cache alone; an operator at the router does the same.
Mutate(k) ==
    /\ data' = [data EXCEPT ![k].age = IF Filled(k) /\ @ = "new" THEN "changed" ELSE @]
    /\ at' = [c \in Callers |-> IF at[c].age = "new" /\ at[c].key = k
                                THEN [at[c] EXCEPT !.age = "changed"] ELSE at[c]]
    /\ UNCHANGED <<pathIdx, keyPath>>

Next == \/ \E c \in Callers : \/ Remove(c) \/ RunCommand(c) \/ SetForPath(c)
                              \/ \E k \in Keys : ExecCached(c, k)
        \/ \E k \in Keys : Set(k) \/ Mutate(k)
        \/ \E p \in Paths : \/ InvalidatePath(p)
                            \/ \E d \in Devices : InvalidatePathForDevice(d, p)

Spec == Init /\ [][Next]_vars

-----------------------------------------------------------------------------
\* The three maps agree (SetForPath, removeKeyLocked and both invalidations): what
\* ExecCached has stored is in the index of its path, so an invalidation finds it
\* (docs/USAGE.md:563), and the index holds no key whose entry is gone
\* (TestInvalidatePath_AfterExpiry).
IndexExact == \A k \in Keys : /\ Filled(k) => k \in pathIdx[k.path]
                              /\ k \in pathIdx[k.path] => data[k] # Absent
                              /\ keyPath[k] = {p \in Paths : k \in pathIdx[p]}

\* What an invalidation gives the user: no entry that ExecCached stored survives an
\* invalidation of its path that followed a change of the router. What was printed
\* before that invalidation and is stored after it is the exception.
FreshUnlessLate == \A k \in Keys : Filled(k) => data[k].age # "stale"

-----------------------------------------------------------------------------
(* What the documents claim, and the code does not keep.                   *)

\* docs/USAGE.md:550: after InvalidateCache, ExecCached is "fresh". Broken by a print that
\* was under way (MCCacheStale).
FreshAfterInvalidate == \A k \in Keys : Filled(k) => data[k].age \notin {"stale", "late"}

\* src/cache/cache.go:178-180: an invalidation for one device of a fleet does not affect
\* another device. Broken for an ID that continues this one's with a colon (MCCacheScope).
ScopedToDevice ==
    [][\A d \in Devices, p \in Paths : InvalidatePathForDevice(d, p) =>
         \A k \in Keys : k.dev # d => data'[k] = data[k]]_vars
=============================================================================
