------------------------- MODULE CacheStore_proofs -------------------------
(***************************************************************************)
(* Proofs about CacheStore, for any number of callers, devices and paths:  *)
(* the indexes are exact, and no invalidation misses an entry.             *)
(***************************************************************************)
EXTENDS CacheStore, TLAPS

\* The index of a path holds keys of this path only, and a caller that is about to
\* store has a reply. Neither IndexExact nor FreshUnlessLate is inductive without.
OwnPath == \A p \in Paths : \A k \in pathIdx[p] : k.path = p
Fetched == \A c \in Callers : at[c].pc = "store" => at[c].age # "none"

IInv == TypeOK /\ OwnPath /\ Fetched /\ IndexExact /\ FreshUnlessLate

LEMMA PathOfKey == \A k \in Keys : k.path \in Paths
BY DEF Paths

LEMMA IdleTyped == Idle \in CallRec /\ Idle.pc = "idle"
BY CacheAssumption DEF Idle, CallRec, Ages

LEMMA InitInv == Init => IInv
<1> SUFFICES ASSUME Init PROVE IInv
  OBVIOUS
<1>1. TypeOK
  BY IdleTyped DEF Init, TypeOK
<1>2. OwnPath /\ Fetched
  BY IdleTyped DEF Init, OwnPath, Fetched
<1>3. IndexExact
  BY PathOfKey DEF Init, IndexExact, Filled, Absent
<1>4. FreshUnlessLate
  BY DEF Init, FreshUnlessLate, Filled, Absent
<1> QED
  BY <1>1, <1>2, <1>3, <1>4 DEF IInv

-----------------------------------------------------------------------------
(* Each step, with the parts of the invariant that it can disturb.         *)

LEMMA ExecCachedInv ==
    ASSUME IInv, NEW c \in Callers, NEW k \in Keys, ExecCached(c, k) PROVE IInv'
<1>1. TypeOK'
  BY DEF IInv, TypeOK, ExecCached, CallRec
<1>2. Fetched'
  BY DEF IInv, Fetched, TypeOK, ExecCached, CallRec
<1>3. OwnPath' /\ IndexExact' /\ FreshUnlessLate'
  BY DEF IInv, OwnPath, IndexExact, FreshUnlessLate, Filled, ExecCached
<1> QED
  BY <1>1, <1>2, <1>3 DEF IInv

LEMMA RemoveInv ==
    ASSUME IInv, NEW c \in Callers, Remove(c) PROVE IInv'
<1> DEFINE k == at[c].key
<1>0. k \in Keys /\ keyPath[k] = {p \in Paths : k \in pathIdx[p]}
  BY DEF IInv, TypeOK, CallRec, IndexExact
<1>1. data' = [data EXCEPT ![k] = Absent] /\ keyPath' = [keyPath EXCEPT ![k] = {}]
  BY DEF Remove
<1>2. pathIdx' = [p \in Paths |-> pathIdx[p] \ {k}]
  BY <1>0 DEF Remove, Unindexed, IInv, TypeOK
<1>3. at' = [at EXCEPT ![c].pc = "run"]
  BY DEF Remove
<1> HIDE DEF k
<1>4. TypeOK'
  <2>1. data' \in [Keys -> EntryRec \cup {Absent}]
    BY <1>0, <1>1 DEF IInv, TypeOK
  <2>2. pathIdx' \in [Paths -> SUBSET Keys]
    BY <1>2 DEF IInv, TypeOK
  <2>3. keyPath' \in [Keys -> {{}} \cup {{p} : p \in Paths}]
    BY <1>0, <1>1 DEF IInv, TypeOK
  <2>4. at' \in [Callers -> CallRec]
    BY <1>3 DEF IInv, TypeOK, CallRec
  <2> QED
    BY <2>1, <2>2, <2>3, <2>4 DEF TypeOK
<1>5. OwnPath'
  BY <1>2 DEF IInv, OwnPath
<1>6. Fetched'
  BY <1>3 DEF IInv, TypeOK, Fetched, CallRec
<1>7. IndexExact'
  BY <1>0, <1>1, <1>2, PathOfKey DEF IInv, TypeOK, IndexExact, Filled
<1>8. FreshUnlessLate'
  BY <1>0, <1>1 DEF IInv, TypeOK, FreshUnlessLate, Filled
<1> QED
  BY <1>4, <1>5, <1>6, <1>7, <1>8 DEF IInv

LEMMA RunCommandInv ==
    ASSUME IInv, NEW c \in Callers, RunCommand(c) PROVE IInv'
<1>1. TypeOK'
  BY IdleTyped DEF IInv, TypeOK, RunCommand, CallRec, Ages
<1>2. Fetched'
  BY IdleTyped DEF IInv, Fetched, TypeOK, RunCommand, CallRec
<1>3. OwnPath' /\ IndexExact' /\ FreshUnlessLate'
  BY DEF IInv, OwnPath, IndexExact, FreshUnlessLate, Filled, RunCommand
<1> QED
  BY <1>1, <1>2, <1>3 DEF IInv

LEMMA SetForPathInv ==
    ASSUME IInv, NEW c \in Callers, SetForPath(c) PROVE IInv'
<1> DEFINE k == at[c].key
<1>0. k \in Keys /\ at[c].age \in Ages \ {"stale"} /\ k.path \in Paths
  BY PathOfKey DEF IInv, TypeOK, CallRec, Fetched, SetForPath
<1>1. PICK t \in BOOLEAN : data' = [data EXCEPT ![k] = [age |-> at[c].age, ttl |-> t, raw |-> FALSE]]
  BY DEF SetForPath
<1>2. pathIdx' = [pathIdx EXCEPT ![k.path] = @ \cup {k}]
  BY DEF SetForPath, Indexed
<1>3. keyPath' = [keyPath EXCEPT ![k] = {k.path}] /\ at' = [at EXCEPT ![c] = Idle]
  BY DEF SetForPath
<1>4. data'[k] # Absent /\ data'[k] \in EntryRec /\ data'[k].age # "stale"
  BY <1>0, <1>1 DEF IInv, TypeOK, EntryRec, Absent, Ages
<1>5. \A j \in Keys : j # k => data'[j] = data[j] /\ keyPath'[j] = keyPath[j]
  BY <1>0, <1>1, <1>3 DEF IInv, TypeOK
<1>6. TypeOK'
  <2>1. data' \in [Keys -> EntryRec \cup {Absent}]
    BY <1>0, <1>1, <1>4 DEF IInv, TypeOK
  <2>2. pathIdx' \in [Paths -> SUBSET Keys]
    BY <1>0, <1>2 DEF IInv, TypeOK
  <2>3. keyPath' \in [Keys -> {{}} \cup {{p} : p \in Paths}]
    BY <1>0, <1>3 DEF IInv, TypeOK
  <2>4. at' \in [Callers -> CallRec]
    BY <1>3, IdleTyped DEF IInv, TypeOK
  <2> QED
    BY <2>1, <2>2, <2>3, <2>4 DEF TypeOK
<1>7. OwnPath'
  BY <1>0, <1>2 DEF IInv, TypeOK, OwnPath
<1>8. Fetched'
  BY <1>3, IdleTyped DEF IInv, TypeOK, Fetched
<1>9. IndexExact'
  <2> SUFFICES ASSUME NEW j \in Keys
               PROVE  /\ Filled(j)' => j \in pathIdx'[j.path]
                      /\ j \in pathIdx'[j.path] => data'[j] # Absent
                      /\ keyPath'[j] = {p \in Paths : j \in pathIdx'[p]}
    BY DEF IndexExact
  <2>1. CASE j = k
    <3>1. k \in pathIdx'[k.path] /\ keyPath'[k] = {k.path}
      BY <1>0, <1>2, <1>3 DEF IInv, TypeOK
    <3>2. \A p \in Paths : k \in pathIdx'[p] => p = k.path
      BY <1>0, <1>7 DEF OwnPath
    <3> QED
      BY <1>0, <1>4, <2>1, <3>1, <3>2
  <2>2. CASE j # k
    <3>1. \A p \in Paths : j \in pathIdx'[p] <=> j \in pathIdx[p]
      BY <1>0, <1>2, <2>2 DEF IInv, TypeOK
    <3> QED
      BY <1>5, <2>2, <3>1, PathOfKey DEF IInv, IndexExact, Filled
  <2> QED
    BY <2>1, <2>2
<1>10. FreshUnlessLate'
  BY <1>4, <1>5 DEF IInv, FreshUnlessLate, Filled
<1> QED
  BY <1>6, <1>7, <1>8, <1>9, <1>10 DEF IInv

LEMMA SetInv ==
    ASSUME IInv, NEW k \in Keys, Set(k) PROVE IInv'
<1>1. PICK t \in BOOLEAN : data' = [data EXCEPT ![k] = [age |-> "new", ttl |-> t, raw |-> TRUE]]
  BY DEF Set
<1>2. UNCHANGED <<pathIdx, keyPath, at>>
  BY DEF Set
<1>3. data'[k] \in EntryRec /\ data'[k].raw /\ data'[k] # Absent
  BY <1>1 DEF IInv, TypeOK, EntryRec, Absent, Ages
<1>4. \A j \in Keys : j # k => data'[j] = data[j]
  BY <1>1 DEF IInv, TypeOK
<1>5. TypeOK'
  BY <1>1, <1>2, <1>3 DEF IInv, TypeOK
<1>6. OwnPath' /\ Fetched'
  BY <1>2 DEF IInv, OwnPath, Fetched
<1>7. IndexExact'
  BY <1>2, <1>3, <1>4 DEF IInv, IndexExact, Filled
<1>8. FreshUnlessLate'
  BY <1>3, <1>4 DEF IInv, FreshUnlessLate, Filled
<1> QED
  BY <1>5, <1>6, <1>7, <1>8 DEF IInv

\* Both invalidations: they delete some keys of one path from the three maps, and
\* among them every filled entry that they are meant to delete.
LEMMA DeletedInv ==
    ASSUME IInv, NEW p \in Paths, NEW gone, NEW meant, gone \subseteq pathIdx[p],
           \A k \in meant : k \in Keys /\ Filled(k) => k \in gone,
           Deleted(gone, meant), pathIdx' = [pathIdx EXCEPT ![p] = @ \ gone]
    PROVE  IInv'
<1>0. gone \subseteq Keys /\ \A k \in gone : k.path = p
  BY DEF IInv, TypeOK, OwnPath
<1>1. /\ data' = [k \in Keys |-> IF k \in gone THEN Absent
                                 ELSE IF k \in meant /\ data[k].age \in {"changed", "late"}
                                      THEN [data[k] EXCEPT !.age = "stale"] ELSE data[k]]
      /\ keyPath' = [k \in Keys |-> IF k \in gone THEN {} ELSE keyPath[k]]
      /\ at' = [c \in Callers |-> IF at[c].age = "changed" /\ at[c].key \in meant
                                  THEN [at[c] EXCEPT !.age = "late"] ELSE at[c]]
  BY DEF Deleted
<1>2. \A k \in Keys \ gone : Filled(k) => data'[k] = data[k]
  BY <1>1
<1>3. \A k \in Keys \ gone : /\ data'[k] # Absent <=> data[k] # Absent
                             /\ data'[k].raw = data[k].raw
                             /\ data'[k] \in EntryRec \cup {Absent}
  <2> SUFFICES ASSUME NEW k \in Keys \ gone
               PROVE  /\ data'[k] # Absent <=> data[k] # Absent
                      /\ data'[k].raw = data[k].raw
                      /\ data'[k] \in EntryRec \cup {Absent}
    OBVIOUS
  <2>1. data[k] \in EntryRec \cup {Absent}
    BY DEF IInv, TypeOK
  <2>2. CASE k \in meant /\ data[k].age \in {"changed", "late"}
    <3>1. data'[k] = [data[k] EXCEPT !.age = "stale"]
      BY <1>1, <2>2
    <3>2. data[k] \in EntryRec
      BY <2>1, <2>2 DEF Absent
    <3>3. data'[k] \in EntryRec /\ data'[k].raw = data[k].raw
      BY <3>1, <3>2 DEF EntryRec, Ages
    <3>4. Absent \notin EntryRec
      BY DEF Absent, EntryRec, Ages
    <3> QED
      BY <3>2, <3>3, <3>4
  <2>3. CASE ~(k \in meant /\ data[k].age \in {"changed", "late"})
    BY <1>1, <2>1, <2>3
  <2> QED
    BY <2>2, <2>3
<1>4. \A k \in Keys, q \in Paths : k \in pathIdx'[q] <=> k \in pathIdx[q] /\ k \notin gone
  BY <1>0 DEF IInv, TypeOK, OwnPath
<1>5. \A k \in gone : data'[k] = Absent /\ keyPath'[k] = {}
  BY <1>0, <1>1
<1>6. TypeOK'
  <2>1. data' \in [Keys -> EntryRec \cup {Absent}]
    BY <1>1, <1>3, <1>5
  <2>2. pathIdx' \in [Paths -> SUBSET Keys]
    BY DEF IInv, TypeOK
  <2>3. keyPath' \in [Keys -> {{}} \cup {{q} : q \in Paths}]
    BY <1>1 DEF IInv, TypeOK
  <2>4. at' \in [Callers -> CallRec]
    BY <1>1 DEF IInv, TypeOK, CallRec, Ages
  <2> QED
    BY <2>1, <2>2, <2>3, <2>4 DEF TypeOK
<1>7. OwnPath'
  BY DEF IInv, TypeOK, OwnPath
<1>8. Fetched'
  BY <1>1 DEF IInv, TypeOK, Fetched, CallRec
<1>9. IndexExact'
  <2> SUFFICES ASSUME NEW k \in Keys
               PROVE  /\ Filled(k)' => k \in pathIdx'[k.path]
                      /\ k \in pathIdx'[k.path] => data'[k] # Absent
                      /\ keyPath'[k] = {q \in Paths : k \in pathIdx'[q]}
    BY DEF IndexExact
  <2>1. CASE k \in gone
    BY <1>4, <1>5, <2>1, PathOfKey DEF Filled
  <2>2. CASE k \notin gone
    BY <1>1, <1>3, <1>4, <2>2, PathOfKey DEF IInv, IndexExact, Filled
  <2> QED
    BY <2>1, <2>2
<1>10. FreshUnlessLate'
  <2> SUFFICES ASSUME NEW k \in Keys, Filled(k)' PROVE data'[k].age # "stale"
    BY DEF FreshUnlessLate
  <2>1. k \notin gone
    BY <1>5 DEF Filled
  <2>2. Filled(k)
    BY <1>3, <2>1 DEF Filled
  <2> QED
    BY <1>2, <2>1, <2>2 DEF IInv, FreshUnlessLate
<1> QED
  BY <1>6, <1>7, <1>8, <1>9, <1>10 DEF IInv

LEMMA InvalidatePathInv ==
    ASSUME IInv, NEW p \in Paths, InvalidatePath(p) PROVE IInv'
<1> DEFINE gone == pathIdx[p]
           meant == {k \in Keys : k.path = p}
<1>1. Deleted(gone, meant)
  BY DEF InvalidatePath
<1>2. pathIdx' = [pathIdx EXCEPT ![p] = @ \ gone]
  BY DEF InvalidatePath, IInv, TypeOK
<1>3. \A k \in meant : k \in Keys /\ Filled(k) => k \in gone
  BY DEF IInv, IndexExact
<1> QED
  BY <1>1, <1>2, <1>3, DeletedInv

LEMMA InvalidateForDeviceInv ==
    ASSUME IInv, NEW d \in Devices, NEW p \in Paths, InvalidatePathForDevice(d, p) PROVE IInv'
<1> DEFINE gone == pathIdx[p] \cap OfDevice(d)
           meant == {k \in Keys : k.path = p /\ k.dev = d}
<1>1. Deleted(gone, meant)
  BY DEF InvalidatePathForDevice
<1>2. pathIdx' = [pathIdx EXCEPT ![p] = @ \ gone]
  BY DEF InvalidatePathForDevice, IInv, TypeOK
<1>3. \A k \in meant : k \in Keys /\ Filled(k) => k \in gone
  BY DEF IInv, IndexExact, OfDevice
<1> QED
  BY <1>1, <1>2, <1>3, DeletedInv

LEMMA MutateInv ==
    ASSUME IInv, NEW k \in Keys, Mutate(k) PROVE IInv'
<1>1. /\ data' = [data EXCEPT ![k].age = IF Filled(k) /\ @ = "new" THEN "changed" ELSE @]
      /\ at' = [c \in Callers |-> IF at[c].age = "new" /\ at[c].key = k
                                  THEN [at[c] EXCEPT !.age = "changed"] ELSE at[c]]
      /\ UNCHANGED <<pathIdx, keyPath>>
  BY DEF Mutate
<1>2. \A j \in Keys : j # k => data'[j] = data[j]
  BY <1>1 DEF IInv, TypeOK
<1>3. /\ data'[k] # Absent <=> data[k] # Absent
      /\ data'[k].raw = data[k].raw
      /\ data'[k] \in EntryRec \cup {Absent}
      /\ data'[k].age = "stale" => data[k].age = "stale"
  <2>1. CASE data[k] = Absent
    <3>1. data' = [data EXCEPT ![k].age = "none"]
      BY <1>1, <2>1 DEF Filled, Absent, IInv, TypeOK
    <3>2. data'[k] = [Absent EXCEPT !.age = "none"]
      BY <2>1, <3>1 DEF IInv, TypeOK
    <3>3. data'[k] = Absent
      BY <3>2 DEF Absent
    <3> QED
      BY <2>1, <3>3
  <2>2. CASE data[k] \in EntryRec
    BY <1>1, <2>2 DEF IInv, TypeOK, EntryRec, Absent, Ages
  <2> QED
    BY <2>1, <2>2 DEF IInv, TypeOK
<1>4. TypeOK'
  <2>1. data' \in [Keys -> EntryRec \cup {Absent}]
    BY <1>1, <1>2, <1>3 DEF IInv, TypeOK
  <2>2. at' \in [Callers -> CallRec]
    BY <1>1 DEF IInv, TypeOK, CallRec, Ages
  <2> QED
    BY <1>1, <2>1, <2>2 DEF IInv, TypeOK
<1>5. OwnPath'
  BY <1>1 DEF IInv, OwnPath
<1>6. Fetched'
  BY <1>1 DEF IInv, TypeOK, Fetched, CallRec
<1>7. IndexExact' /\ FreshUnlessLate'
  BY <1>1, <1>2, <1>3 DEF IInv, IndexExact, FreshUnlessLate, Filled
<1> QED
  BY <1>4, <1>5, <1>6, <1>7 DEF IInv

-----------------------------------------------------------------------------
\* The invariant holds in every reachable state of the cache.
THEOREM Invariance == Spec => []IInv
<1>1. Init => IInv
  BY InitInv
<1>2. IInv /\ [Next]_vars => IInv'
  <2> SUFFICES ASSUME IInv, [Next]_vars PROVE IInv'
    OBVIOUS
  <2>1. ASSUME NEW c \in Callers, NEW k \in Keys, ExecCached(c, k) PROVE IInv'
    BY <2>1, ExecCachedInv
  <2>2. ASSUME NEW c \in Callers, Remove(c) PROVE IInv'
    BY <2>2, RemoveInv
  <2>3. ASSUME NEW c \in Callers, RunCommand(c) PROVE IInv'
    BY <2>3, RunCommandInv
  <2>4. ASSUME NEW c \in Callers, SetForPath(c) PROVE IInv'
    BY <2>4, SetForPathInv
  <2>5. ASSUME NEW k \in Keys, Set(k) PROVE IInv'
    BY <2>5, SetInv
  <2>6. ASSUME NEW k \in Keys, Mutate(k) PROVE IInv'
    BY <2>6, MutateInv
  <2>7. ASSUME NEW p \in Paths, InvalidatePath(p) PROVE IInv'
    BY <2>7, InvalidatePathInv
  <2>8. ASSUME NEW p \in Paths, NEW d \in Devices, InvalidatePathForDevice(d, p) PROVE IInv'
    BY <2>8, InvalidateForDeviceInv
  <2>9. ASSUME UNCHANGED vars PROVE IInv'
    BY <2>9 DEF vars, IInv, TypeOK, OwnPath, Fetched, IndexExact, FreshUnlessLate, Filled
  <2> QED
    BY <2>1, <2>2, <2>3, <2>4, <2>5, <2>6, <2>7, <2>8, <2>9 DEF Next
<1> QED
  BY <1>1, <1>2, PTL DEF Spec

\* The state of the cache and of its callers keeps its types.
THEOREM TypeCorrect == Spec => []TypeOK
<1>1. IInv => TypeOK
  BY DEF IInv
<1> QED
  BY <1>1, Invariance, PTL

\* The indexes are exact: an invalidation finds what ExecCached stored, and expiry leaves
\* no key behind in an index (SetForPath, removeKeyLocked).
THEOREM IndexesAgree == Spec => []IndexExact
<1>1. IInv => IndexExact
  BY DEF IInv
<1> QED
  BY <1>1, Invariance, PTL

\* No entry of ExecCached survives an invalidation, except by a print in progress.
THEOREM InvalidationComplete == Spec => []FreshUnlessLate
<1>1. IInv => FreshUnlessLate
  BY DEF IInv
<1> QED
  BY <1>1, Invariance, PTL
=============================================================================
