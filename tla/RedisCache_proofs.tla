------------------------- MODULE RedisCache_proofs -------------------------
(***************************************************************************)
(* Proofs about RedisCache, for any number of callers, invalidations, keys,*)
(* devices and TTLs.                                                       *)
(***************************************************************************)
EXTENDS RedisCache, TLAPS

\* The index of a path holds keys of this path only.
OwnPath == \A p \in Paths : \A k \in index[p].keys : k.path = p

\* An entry has time left.
Timed == \A k \in Keys : Filled(k) => data[k].left > 0

\* An entry stays no longer than the index it is in, or is in none, unless it is an orphan.
Indexed == \A k \in Keys : Filled(k) => \/ k \in orphan
                                         \/ /\ k \in index[k.path].keys
                                            /\ index[k.path].left >= data[k].left

\* What is to be deleted and was not in the index is an orphan still. Nothing puts it
\* back into the index but SetForPath, which renews it.
Lost(k) == k \in orphan /\ k \notin index[k.path].keys

\* An invalidation deletes what it must, except what had lost its index before.
Pending == \A i \in Invalidators : \A k \in inv[i].due : Live(k) => k \in inv[i].keys \/ Lost(k)

\* What an invalidation has missed is there, and had lost its index before.
Missed == \A k \in stale : Live(k) /\ Lost(k)

IInv == TypeOK /\ OwnPath /\ Timed /\ Indexed /\ Pending /\ Missed

DataRec  == [age : {"new", "old", "raw", "none"}, left : 0..Forever]
IndexRec == [keys : SUBSET Keys, left : 0..Forever]
CallRec  == [pc : {"idle", "run", "store"}, key : Keys, age : {"new", "old", "none"}]
InvRec   == [pc : {"idle", "del", "exec"}, path : Paths, keys : SUBSET Keys, due : SUBSET Keys,
             whole : BOOLEAN]
-----------------------------------------------------------------------------
LEMMA KeyPaths == \A k \in Keys : k.path \in Paths
BY DEF Paths

LEMMA ConstTyped == /\ Absent \in DataRec /\ NoIndex \in IndexRec /\ Idle \in CallRec /\ Done \in InvRec
                    /\ Done.due = {}
<1>1. Keys # {} /\ Paths # {} /\ Forever \in Nat
  BY RedisAssumption DEF Paths
<1>2. (CHOOSE k \in Keys : TRUE) \in Keys /\ (CHOOSE p \in Paths : TRUE) \in Paths
  BY <1>1
<1> QED
  BY <1>1, <1>2 DEF Absent, NoIndex, Idle, Done, DataRec, IndexRec, CallRec, InvRec

LEMMA TTLTyped ==
    ASSUME TypeOK, NEW t \in TTLs, NEW p \in Paths
    PROVE  /\ EntryLeft(t) \in 0..Forever /\ EntryLeft(t) > 0
           /\ IndexLeft(p, t) \in 0..Forever /\ IndexLeft(p, t) > 0
<1>1. t \in Nat /\ Minute \in Nat \ {0} /\ Forever \in Nat /\ t + Minute < Forever
  BY RedisAssumption
<1>2. index[p].left \in 0..Forever
  BY DEF TypeOK
<1> QED
  BY <1>1, <1>2 DEF EntryLeft, IndexLeft

LEMMA LaterTyped ==
    ASSUME NEW n \in 0..Forever
    PROVE  Later(n) \in 0..Forever /\ (Later(n) = 0 <=> n \in {0, 1} /\ (n = 1 => n # Forever))
BY RedisAssumption DEF Later

LEMMA RenewedTyped ==
    ASSUME TypeOK, NEW k \in Keys
    PROVE  /\ Renewed(k) \in [Invalidators -> InvRec]
           /\ \A i \in Invalidators : /\ Renewed(k)[i].due = inv[i].due \ {k}
                                      /\ Renewed(k)[i].keys = inv[i].keys
<1>1. \A i \in Invalidators : inv[i] \in InvRec
  BY DEF TypeOK, InvRec
<1>2. \A i \in Invalidators : [inv[i] EXCEPT !.due = @ \ {k}] \in InvRec
  BY <1>1 DEF InvRec
<1> QED
  BY <1>1, <1>2 DEF Renewed, InvRec

LEMMA TypeInit == Init => TypeOK
<1> SUFFICES ASSUME Init PROVE TypeOK
  BY Zenon
<1> QED
  BY SMTT(40), ConstTyped DEF Init, TypeOK, DataRec, IndexRec, CallRec, InvRec
-----------------------------------------------------------------------------
(* What each step does to the state, as the invariant needs it.            *)

\* An entry is stored with its index.
LEMMA StoreStep ==
    ASSUME TypeOK, NEW c \in Callers, SetForPath(c)
    PROVE  /\ TypeOK'
           /\ \/ UNCHANGED <<data, index, inv, stale, orphan>>
              \/ \E k \in Keys, t \in TTLs :
                    /\ data'[k].left = EntryLeft(t)
                    /\ \A j \in Keys \ {k} : data'[j] = data[j]
                    /\ k \in index'[k.path].keys /\ index[k.path].keys \subseteq index'[k.path].keys
                    /\ index'[k.path].keys \subseteq index[k.path].keys \cup {k}
                    /\ index'[k.path].left = IndexLeft(k.path, t)
                    /\ \A p \in Paths \ {k.path} : index'[p] = index[p]
                    /\ inv' = Renewed(k) /\ stale' = stale \ {k}
                    /\ orphan' = (orphan \ (index[k.path].keys \cup {k})) \cup Exposed(k, t)
<1>1. call' = [call EXCEPT ![c] = Idle] /\ call[c] \in CallRec
  BY DEF SetForPath, TypeOK, CallRec
<1>2. call' \in [Callers -> CallRec]
  BY <1>1, ConstTyped DEF TypeOK, CallRec
<1>3. CASE UNCHANGED <<data, index, inv, stale, orphan>>
  BY <1>2, <1>3 DEF TypeOK, CallRec
<1>4. ASSUME NEW t \in TTLs, NEW k, k = call[c].key,
             data' = [data EXCEPT ![k] = [age |-> call[c].age, left |-> EntryLeft(t)]],
             index' = [index EXCEPT ![k.path] = [keys |-> @.keys \cup {k},
                                                 left |-> IndexLeft(k.path, t)]],
             inv' = Renewed(k), stale' = stale \ {k},
             orphan' = (orphan \ (index[k.path].keys \cup {k})) \cup Exposed(k, t)
      PROVE  /\ TypeOK' /\ k \in Keys
             /\ data'[k].left = EntryLeft(t)
             /\ \A j \in Keys \ {k} : data'[j] = data[j]
             /\ index'[k.path].keys = index[k.path].keys \cup {k}
             /\ index'[k.path].left = IndexLeft(k.path, t)
             /\ \A p \in Paths \ {k.path} : index'[p] = index[p]
  <2>1. k \in Keys /\ k.path \in Paths /\ call[c].age \in {"new", "old", "none"}
    BY <1>1, <1>4, KeyPaths DEF CallRec
  <2>2. [age |-> call[c].age, left |-> EntryLeft(t)] \in DataRec
    BY <2>1, TTLTyped DEF DataRec
  <2>3. [keys |-> index[k.path].keys \cup {k}, left |-> IndexLeft(k.path, t)] \in IndexRec
    <3>1. index[k.path].keys \in SUBSET Keys
      BY <2>1 DEF TypeOK
    <3> QED
      BY <2>1, <3>1, TTLTyped DEF IndexRec
  <2>4. index' = [index EXCEPT ![k.path] = [keys |-> index[k.path].keys \cup {k},
                                            left |-> IndexLeft(k.path, t)]]
    BY <1>4
  <2>5. data' \in [Keys -> DataRec] /\ data'[k] = [age |-> call[c].age, left |-> EntryLeft(t)]
        /\ \A j \in Keys \ {k} : data'[j] = data[j]
    BY <1>4, <2>1, <2>2 DEF TypeOK, DataRec
  <2>6. /\ index' \in [Paths -> IndexRec]
        /\ index'[k.path] = [keys |-> index[k.path].keys \cup {k}, left |-> IndexLeft(k.path, t)]
        /\ \A p \in Paths \ {k.path} : index'[p] = index[p]
    BY <2>1, <2>3, <2>4 DEF TypeOK, IndexRec
  <2>7. TypeOK'
    <3>0. index[k.path].keys \subseteq Keys /\ orphan \subseteq Keys
      BY <2>1 DEF TypeOK
    <3>1. stale' \subseteq Keys /\ orphan' \subseteq Keys
      BY <1>4, <2>1, <3>0 DEF TypeOK, Exposed
    <3>2. inv' \in [Invalidators -> InvRec]
      BY SMTT(40), <1>4, <2>1, RenewedTyped
    <3> QED
      BY <1>2, <2>5, <2>6, <3>1, <3>2 DEF TypeOK, DataRec, IndexRec, CallRec, InvRec
  <2> QED
    BY <2>1, <2>5, <2>6, <2>7
<1> DEFINE k == call[c].key
<1>5. \/ UNCHANGED <<data, index, inv, stale, orphan>>
      \/ \E t \in TTLs :
            /\ data' = [data EXCEPT ![k] = [age |-> call[c].age, left |-> EntryLeft(t)]]
            /\ index' = [index EXCEPT ![k.path] = [keys |-> @.keys \cup {k},
                                                  left |-> IndexLeft(k.path, t)]]
            /\ inv' = Renewed(k) /\ stale' = stale \ {k}
            /\ orphan' = (orphan \ (index[k.path].keys \cup {k})) \cup Exposed(k, t)
  BY SMTT(40) DEF SetForPath
<1>6. CASE \E t \in TTLs :
            /\ data' = [data EXCEPT ![k] = [age |-> call[c].age, left |-> EntryLeft(t)]]
            /\ index' = [index EXCEPT ![k.path] = [keys |-> @.keys \cup {k},
                                                  left |-> IndexLeft(k.path, t)]]
            /\ inv' = Renewed(k) /\ stale' = stale \ {k}
            /\ orphan' = (orphan \ (index[k.path].keys \cup {k})) \cup Exposed(k, t)
  <2>1. PICK t \in TTLs :
            /\ data' = [data EXCEPT ![k] = [age |-> call[c].age, left |-> EntryLeft(t)]]
            /\ index' = [index EXCEPT ![k.path] = [keys |-> @.keys \cup {k},
                                                  left |-> IndexLeft(k.path, t)]]
            /\ inv' = Renewed(k) /\ stale' = stale \ {k}
            /\ orphan' = (orphan \ (index[k.path].keys \cup {k})) \cup Exposed(k, t)
    BY <1>6
  <2>2. PICK j : j = k
    OBVIOUS
  <2>3. /\ TypeOK' /\ j \in Keys
        /\ data'[j].left = EntryLeft(t)
        /\ \A e \in Keys \ {j} : data'[e] = data[e]
        /\ index'[j.path].keys = index[j.path].keys \cup {j}
        /\ index'[j.path].left = IndexLeft(j.path, t)
        /\ \A p \in Paths \ {j.path} : index'[p] = index[p]
    BY ZenonT(40), <1>4, <2>1, <2>2
  <2>4. /\ inv' = Renewed(j) /\ stale' = stale \ {j}
        /\ orphan' = (orphan \ (index[j.path].keys \cup {j})) \cup Exposed(j, t)
    BY <2>1, <2>2
  <2> HIDE DEF k
  <2>5. /\ j \in index'[j.path].keys /\ index[j.path].keys \subseteq index'[j.path].keys
        /\ index'[j.path].keys \subseteq index[j.path].keys \cup {j}
    BY <2>3
  <2> QED
    BY <2>3, <2>4, <2>5
<1> QED
  BY <1>3, <1>5, <1>6

\* An entry is stored without its index, or replaced by the application.
LEMMA SetStep ==
    ASSUME TypeOK, NEW k \in Keys, Set(k)
    PROVE  /\ TypeOK' /\ UNCHANGED index
           /\ data'[k].age = "raw" /\ \A j \in Keys \ {k} : data'[j] = data[j]
           /\ inv' = Renewed(k) /\ stale' = stale \ {k} /\ orphan' = orphan \ {k}
<1>1. PICK t \in TTLs : data' = [data EXCEPT ![k] = [age |-> "raw", left |-> EntryLeft(t)]]
  BY DEF Set
<1>2. /\ UNCHANGED <<index, call>> /\ inv' = Renewed(k)
      /\ stale' = stale \ {k} /\ orphan' = orphan \ {k}
  BY DEF Set
<1>3. [age |-> "raw", left |-> EntryLeft(t)] \in DataRec
  <2>1. EntryLeft(t) \in 0..Forever
    BY TTLTyped, KeyPaths
  <2> QED
    BY <2>1 DEF DataRec
<1>4. data' \in [Keys -> DataRec] /\ data'[k].age = "raw" /\ \A j \in Keys \ {k} : data'[j] = data[j]
  BY <1>1, <1>3 DEF TypeOK, DataRec
<1>5. inv' \in [Invalidators -> InvRec]
  BY <1>2, RenewedTyped
<1>6. TypeOK'
  BY <1>2, <1>4, <1>5 DEF TypeOK, DataRec, InvRec
<1> QED
  BY <1>2, <1>4, <1>6

\* SMEMBERS of an invalidation by path.
LEMMA BeginPathStep ==
    ASSUME TypeOK, NEW i \in Invalidators, NEW p \in Paths, InvalidatePath(i, p)
    PROVE  /\ TypeOK' /\ UNCHANGED <<data, index, stale, orphan>>
           /\ inv'[i].keys = index[p].keys
           /\ inv'[i].due = Due({k \in Keys : k.path = p})
           /\ \A j \in Invalidators \ {i} : inv'[j] = inv[j]
<1> DEFINE rec == [pc |-> IF index[p].keys = {} THEN "del" ELSE "exec",
                   path |-> p, keys |-> index[p].keys, whole |-> TRUE,
                   due |-> Due({k \in Keys : k.path = p})]
<1>1. inv' = [inv EXCEPT ![i] = rec] /\ UNCHANGED <<data, index, call, stale, orphan>>
  BY DEF InvalidatePath
<1>2. rec \in InvRec
  <2>1. index[p].keys \in SUBSET Keys /\ Due({k \in Keys : k.path = p}) \in SUBSET Keys
    BY DEF TypeOK, Due
  <2> QED
    BY <2>1 DEF InvRec
<1>3. rec.keys = index[p].keys /\ rec.due = Due({k \in Keys : k.path = p})
  OBVIOUS
<1> HIDE DEF rec
<1>4. /\ inv' \in [Invalidators -> InvRec] /\ inv'[i] = rec
      /\ \A j \in Invalidators \ {i} : inv'[j] = inv[j]
  BY <1>1, <1>2 DEF TypeOK, InvRec
<1>5. TypeOK'
  BY <1>1, <1>4 DEF TypeOK, InvRec
<1> QED
  BY <1>1, <1>3, <1>4, <1>5

\* SMEMBERS of an invalidation for a device, and its early return.
LEMMA BeginDeviceStep ==
    ASSUME TypeOK, NEW i \in Invalidators, NEW d \in Devices, NEW p \in Paths,
           InvalidatePathForDevice(i, d, p)
    PROVE  /\ TypeOK' /\ UNCHANGED <<data, index, orphan>>
           /\ LET due == Due({k \in Keys : k.path = p /\ k.dev = d})
              IN  \/ /\ index[p].keys \cap OfDevice(d) = {}
                     /\ stale' = stale \cup due /\ inv' = inv
                  \/ /\ inv'[i].keys = index[p].keys \cap OfDevice(d) /\ inv'[i].due = due
                     /\ \A j \in Invalidators \ {i} : inv'[j] = inv[j]
                     /\ stale' = stale
<1> DEFINE due == Due({k \in Keys : k.path = p /\ k.dev = d})
           scoped == index[p].keys \cap OfDevice(d)
           rec == [pc |-> "exec", path |-> p, keys |-> scoped, whole |-> FALSE, due |-> due]
<1>1. /\ UNCHANGED <<data, index, call, orphan>>
      /\ \/ scoped = {} /\ stale' = stale \cup due /\ inv' = inv
         \/ scoped # {} /\ inv' = [inv EXCEPT ![i] = rec] /\ stale' = stale
  BY DEF InvalidatePathForDevice
<1>2. due \in SUBSET Keys /\ scoped \in SUBSET Keys
  BY DEF TypeOK, Due
<1>3. rec \in InvRec /\ rec.keys = scoped /\ rec.due = due
  BY <1>2 DEF InvRec
<1> HIDE DEF rec, due, scoped
<1>4. CASE scoped = {} /\ stale' = stale \cup due /\ inv' = inv
  <2>1. TypeOK'
    BY <1>1, <1>2, <1>4 DEF TypeOK
  <2> QED
    BY <1>1, <1>4, <2>1 DEF due, scoped
<1>5. CASE scoped # {} /\ inv' = [inv EXCEPT ![i] = rec] /\ stale' = stale
  <2>1. /\ inv' \in [Invalidators -> InvRec] /\ inv'[i] = rec
        /\ \A j \in Invalidators \ {i} : inv'[j] = inv[j]
    BY <1>3, <1>5 DEF TypeOK, InvRec
  <2>2. TypeOK'
    BY <1>1, <1>5, <2>1 DEF TypeOK, InvRec
  <2> QED
    BY <1>1, <1>3, <1>5, <2>1, <2>2 DEF due, scoped
<1> QED
  BY <1>1, <1>4, <1>5

\* The second request of an invalidation.
LEMMA FinishStep ==
    ASSUME TypeOK, NEW i \in Invalidators, Finish(i)
    PROVE  /\ TypeOK' /\ inv'[i].due = {} /\ \A j \in Invalidators \ {i} : inv'[j] = inv[j]
           /\ \/ UNCHANGED <<data, index, stale, orphan>>
              \/ /\ \A k \in Keys : data'[k] = IF k \in inv[i].keys THEN Absent ELSE data[k]
                 /\ \A p \in Paths :
                       \/ index'[p] = index[p]
                       \/ /\ index'[p].left = index[p].left \/
                             (index'[p].left = 0 /\ index'[p].keys = {})
                          /\ \/ index'[p].keys = index[p].keys \ inv[i].keys
                             \/ /\ index'[p].keys = {}
                                /\ \A k \in index[p].keys :
                                      Live(k) => k \in inv[i].keys \/ k \in orphan'
                 /\ \A k \in orphan : Live(k) /\ k \notin inv[i].keys => k \in orphan'
                 /\ \A k \in stale' : k \notin inv[i].keys /\
                                      (k \in stale \/ (k \in inv[i].due /\ Live(k)))
<1>1. /\ call' = call /\ inv' = [inv EXCEPT ![i] = Done]
      /\ inv[i] \in InvRec
  BY DEF Finish, TypeOK, InvRec
<1>2. /\ inv' \in [Invalidators -> InvRec] /\ inv'[i].due = {}
      /\ \A j \in Invalidators \ {i} : inv'[j] = inv[j]
  BY <1>1, ConstTyped DEF TypeOK, InvRec
<1>3. CASE UNCHANGED <<data, index, stale, orphan>>
  BY <1>1, <1>2, <1>3 DEF TypeOK, InvRec
<1>4. CASE /\ Executed(i)
           /\ \/ stale' = {k \in stale \cup inv[i].due : Live(k) /\ k \notin inv[i].keys}
              \/ stale' = stale \ inv[i].keys
  <2> DEFINE gone == inv[i].keys
             q    == inv[i].path
             new  == IF inv[i].whole THEN NoIndex ELSE Srem(index[q], gone)
  <2>1. gone \in SUBSET Keys /\ q \in Paths /\ inv[i].due \in SUBSET Keys
    BY <1>1 DEF InvRec
  <2>2. /\ data' = [k \in Keys |-> IF k \in gone THEN Absent ELSE data[k]]
        /\ index' = [index EXCEPT ![q] = new]
        /\ orphan' = {k \in (IF inv[i].whole THEN orphan \cup index[q].keys ELSE orphan) :
                         k \notin gone /\ Live(k)}
    BY <1>4 DEF Executed
  <2>3. index[q] \in IndexRec
    BY <2>1 DEF TypeOK, IndexRec
  <2>4. /\ new \in IndexRec
        /\ new.left = index[q].left \/ (new.left = 0 /\ new.keys = {})
        /\ \/ new.keys = index[q].keys \ gone
           \/ new.keys = {} /\ inv[i].whole
    <3>1. CASE inv[i].whole \/ index[q].keys \subseteq gone
      BY <2>3, <3>1, ConstTyped DEF Srem, NoIndex
    <3>2. CASE ~inv[i].whole /\ ~(index[q].keys \subseteq gone)
      <4>1. new = [index[q] EXCEPT !.keys = @ \ gone]
        BY <3>2 DEF Srem
      <4> QED
        BY <2>3, <4>1 DEF IndexRec
    <3> QED
      BY <3>1, <3>2
  <2> HIDE DEF new
  <2>5. /\ index' \in [Paths -> IndexRec] /\ index'[q] = new
        /\ \A p \in Paths \ {q} : index'[p] = index[p]
    <3>1. index \in [Paths -> IndexRec] /\ new \in IndexRec /\ q \in Paths
      BY <2>1, <2>4 DEF TypeOK, IndexRec
    <3>2. index' = [index EXCEPT ![q] = new]
      BY <2>2
    <3> QED
      BY <3>1, <3>2
  <2>6. data' \in [Keys -> DataRec]
    BY <2>2, ConstTyped DEF TypeOK, DataRec
  <2>7. orphan' \subseteq Keys /\ stale' \subseteq Keys
    BY <1>4, <2>1, <2>2, <2>3 DEF TypeOK, IndexRec
  <2>8. TypeOK'
    BY <1>1, <1>2, <2>5, <2>6, <2>7 DEF TypeOK, DataRec, IndexRec, InvRec
  <2>9. inv[i].whole => \A k \in index[q].keys : Live(k) => k \in gone \/ k \in orphan'
    BY <2>2
  <2>10. \A k \in orphan : Live(k) /\ k \notin gone => k \in orphan'
    BY <2>2
  <2>11. \A k \in stale' : k \notin gone /\ (k \in stale \/ (k \in inv[i].due /\ Live(k)))
    BY <1>4
  <2>12. \A p \in Paths :
           \/ index'[p] = index[p]
           \/ /\ index'[p].left = index[p].left \/ (index'[p].left = 0 /\ index'[p].keys = {})
              /\ \/ index'[p].keys = index[p].keys \ gone
                 \/ /\ index'[p].keys = {}
                    /\ \A k \in index[p].keys : Live(k) => k \in gone \/ k \in orphan'
    BY <2>4, <2>5, <2>9
  <2> QED
    BY <1>2, <2>2, <2>8, <2>10, <2>11, <2>12
<1> QED
  BY <1>3, <1>4 DEF Finish

\* The router changes.
LEMMA MutateStep ==
    ASSUME TypeOK, NEW k \in Keys, Mutate(k)
    PROVE  /\ TypeOK' /\ UNCHANGED <<index, inv, stale, orphan>>
           /\ \A j \in Keys : /\ data'[j].left = data[j].left
                              /\ Filled(j)' <=> Filled(j)
                              /\ Live(j)' => Live(j)
                              /\ Live(j) => Live(j)'
<1> DEFINE rec == [data[k] EXCEPT !.age = IF @ = "new" THEN "old" ELSE @]
<1>1. UNCHANGED <<index, inv, stale, orphan>>
  BY DEF Mutate
<1>2. data[k] \in DataRec /\ Absent.age = "none"
  BY DEF TypeOK, DataRec, Absent
<1>3. /\ rec \in DataRec /\ rec.left = data[k].left
      /\ rec.age \in {"new", "old"} <=> data[k].age \in {"new", "old"}
      /\ rec = Absent <=> data[k] = Absent
  BY <1>2 DEF DataRec
<1>4. data' = [data EXCEPT ![k] = rec]
  BY DEF Mutate, TypeOK
<1> HIDE DEF rec
<1>5. /\ data' \in [Keys -> DataRec] /\ data'[k] = rec
      /\ \A j \in Keys \ {k} : data'[j] = data[j]
  BY <1>3, <1>4 DEF TypeOK, DataRec
<1>6. call' \in [Callers -> CallRec]
  <2>1. \A c \in Callers : [call[c] EXCEPT !.age = "old"] \in CallRec
    BY ZenonT(40) DEF TypeOK, CallRec
  <2> QED
    BY <2>1 DEF Mutate, TypeOK, CallRec
<1>7. TypeOK'
  BY <1>1, <1>5, <1>6 DEF TypeOK, DataRec, CallRec
<1> QED
  BY <1>1, <1>3, <1>5, <1>7 DEF Filled, Live

\* Time passes.
LEMMA TickStep ==
    ASSUME TypeOK, Tick
    PROVE  /\ TypeOK'
           /\ \A k \in Keys : \/ data'[k] = Absent
                              \/ /\ data'[k].age = data[k].age
                                 /\ data'[k].left = Later(data[k].left) /\ data'[k].left # 0
                                 /\ Live(k)
           /\ \A k \in Keys : Later(data[k].left) # 0 => Live(k)'
           /\ \A p \in Paths : \/ index'[p] = NoIndex /\ Later(index[p].left) = 0
                               \/ /\ index'[p].keys = index[p].keys
                                  /\ index'[p].left = Later(index[p].left)
           /\ \A i \in Invalidators :
                 /\ inv'[i].keys = inv[i].keys
                 /\ inv'[i].due = {k \in inv[i].due : Later(data[k].left) # 0}
           /\ stale' = {k \in stale : Later(data[k].left) # 0}
           /\ orphan' = {k \in orphan : Later(data[k].left) # 0}
<1> DEFINE over == {k \in Keys : Later(data[k].left) = 0}
<1>1. /\ data' = [k \in Keys |-> IF k \in over THEN Absent
                                 ELSE [data[k] EXCEPT !.left = Later(@)]]
      /\ index' = [p \in Paths |-> IF Later(index[p].left) = 0 THEN NoIndex
                                   ELSE [index[p] EXCEPT !.left = Later(@)]]
      /\ inv' = [i \in Invalidators |-> [inv[i] EXCEPT !.due = @ \ over]]
      /\ stale' = stale \ over /\ orphan' = orphan \ over /\ call' = call
  BY DEF Tick
<1>2. \A k \in Keys : data[k] \in DataRec /\ Later(data[k].left) \in 0..Forever
  BY LaterTyped DEF TypeOK, DataRec
<1>3. \A p \in Paths : index[p] \in IndexRec /\ Later(index[p].left) \in 0..Forever
  BY LaterTyped DEF TypeOK, IndexRec
<1>4. \A i \in Invalidators : inv[i] \in InvRec
  BY DEF TypeOK, InvRec
<1>5. \A k \in Keys : /\ [data[k] EXCEPT !.left = Later(@)] \in DataRec
                      /\ [data[k] EXCEPT !.left = Later(@)].age = data[k].age
                      /\ [data[k] EXCEPT !.left = Later(@)].left = Later(data[k].left)
  BY <1>2 DEF DataRec
<1>6. \A p \in Paths : /\ [index[p] EXCEPT !.left = Later(@)] \in IndexRec
                       /\ [index[p] EXCEPT !.left = Later(@)].keys = index[p].keys
                       /\ [index[p] EXCEPT !.left = Later(@)].left = Later(index[p].left)
  BY <1>3 DEF IndexRec
<1>7. \A i \in Invalidators : /\ [inv[i] EXCEPT !.due = @ \ over] \in InvRec
                              /\ [inv[i] EXCEPT !.due = @ \ over].keys = inv[i].keys
                              /\ [inv[i] EXCEPT !.due = @ \ over].due = inv[i].due \ over
  BY <1>4 DEF InvRec
<1>8. Absent.left = 0 /\ Later(0) = 0
  BY DEF Absent, Later
<1>9. data' \in [Keys -> DataRec] /\ index' \in [Paths -> IndexRec]
  BY <1>1, <1>5, <1>6, ConstTyped
<1>10. inv' \in [Invalidators -> InvRec]
  BY <1>1, <1>7
<1>11. stale \subseteq Keys /\ orphan \subseteq Keys
  BY DEF TypeOK
<1>12. TypeOK'
  BY <1>1, <1>9, <1>10, <1>11 DEF TypeOK, DataRec, IndexRec, InvRec
<1>13. \A k \in Keys :
          \/ data'[k] = Absent /\ Later(data[k].left) = 0
          \/ /\ data'[k].age = data[k].age /\ data'[k].left = Later(data[k].left)
             /\ data'[k].left # 0 /\ data[k] # Absent /\ data'[k] # Absent
  BY <1>1, <1>5, <1>8
<1>14. \A p \in Paths : \/ index'[p] = NoIndex /\ Later(index[p].left) = 0
                        \/ /\ index'[p].keys = index[p].keys
                           /\ index'[p].left = Later(index[p].left)
  BY <1>1, <1>6
<1>15. \A i \in Invalidators :
          /\ inv'[i].keys = inv[i].keys
          /\ inv'[i].due = {k \in inv[i].due : Later(data[k].left) # 0}
  <2>1. \A i \in Invalidators : inv[i].due \subseteq Keys
    BY <1>4 DEF InvRec
  <2> QED
    BY <1>1, <1>7, <2>1
<1>16. /\ stale' = {k \in stale : Later(data[k].left) # 0}
       /\ orphan' = {k \in orphan : Later(data[k].left) # 0}
  BY <1>1, <1>11
<1> QED
  BY <1>12, <1>13, <1>14, <1>15, <1>16 DEF Live
-----------------------------------------------------------------------------
LEMMA TypeNext == TypeOK /\ [Next]_vars => TypeOK'
<1> SUFFICES ASSUME TypeOK, [Next]_vars PROVE TypeOK'
  OBVIOUS
<1>1. CASE UNCHANGED vars
  BY <1>1 DEF vars, TypeOK
<1>2. ASSUME NEW c \in Callers, NEW k \in Keys, ExecCached(c, k) PROVE TypeOK'
  <2>0. call[c] \in CallRec
    BY DEF TypeOK, CallRec
  <2>1. [call[c] EXCEPT !.pc = "run", !.key = k] \in CallRec
    BY <2>0 DEF CallRec
  <2>2. call' = [call EXCEPT ![c] = [call[c] EXCEPT !.pc = "run", !.key = k]]
    BY <1>2 DEF ExecCached, TypeOK
  <2>3. call' \in [Callers -> CallRec]
    BY <2>1, <2>2 DEF TypeOK, CallRec
  <2> QED
    BY <1>2, <2>3 DEF ExecCached, TypeOK, CallRec
<1>3. ASSUME NEW c \in Callers, RunCommand(c) PROVE TypeOK'
  <2>0. call[c] \in CallRec
    BY DEF TypeOK, CallRec
  <2>1. [call[c] EXCEPT !.pc = "store", !.age = "new"] \in CallRec
    BY <2>0 DEF CallRec
  <2>2. \/ call' = [call EXCEPT ![c] = [call[c] EXCEPT !.pc = "store", !.age = "new"]]
        \/ call' = [call EXCEPT ![c] = Idle]
    BY <1>3 DEF RunCommand, TypeOK
  <2>3. call' \in [Callers -> CallRec]
    BY <2>1, <2>2, ConstTyped DEF TypeOK, CallRec
  <2> QED
    BY <1>3, <2>3 DEF RunCommand, TypeOK, CallRec
<1> QED
  BY <1>1, <1>2, <1>3, StoreStep, FinishStep, BeginPathStep, BeginDeviceStep, SetStep, MutateStep,
     TickStep DEF Next

LEMMA InitInv == Init => IInv
<1> SUFFICES ASSUME Init PROVE IInv
  OBVIOUS
<1>1. (\A k \in Keys : ~Filled(k)) /\ (\A p \in Paths : index[p].keys = {})
  BY DEF Init, Filled, Absent, NoIndex
<1>2. TypeOK
  BY TypeInit
<1>3. OwnPath /\ Timed /\ Indexed
  BY <1>1 DEF OwnPath, Timed, Indexed
<1>4. Pending /\ Missed
  BY ConstTyped DEF Init, Pending, Missed
<1> QED
  BY <1>2, <1>3, <1>4 DEF IInv

\* SetForPath: the entry has its index, or is an orphan by its own lack of a TTL; the
\* entries it exposes are orphans, and those it does not expose have the index still.
LEMMA StoreInv == ASSUME IInv, NEW c \in Callers, SetForPath(c) PROVE IInv'
<1>0. TypeOK /\ OwnPath /\ Timed /\ Indexed /\ Pending /\ Missed
  BY DEF IInv
<1>1. TypeOK'
  BY <1>0, StoreStep
<1>2. CASE UNCHANGED <<data, index, inv, stale, orphan>>
  BY <1>0, <1>1, <1>2 DEF IInv, OwnPath, Timed, Indexed, Pending, Missed, Lost, Filled, Live
<1>3. CASE ~UNCHANGED <<data, index, inv, stale, orphan>>
  <2>1. PICK k \in Keys, t \in TTLs :
           /\ data'[k].left = EntryLeft(t)
           /\ \A j \in Keys \ {k} : data'[j] = data[j]
           /\ k \in index'[k.path].keys /\ index[k.path].keys \subseteq index'[k.path].keys
           /\ index'[k.path].keys \subseteq index[k.path].keys \cup {k}
           /\ index'[k.path].left = IndexLeft(k.path, t)
           /\ \A p \in Paths \ {k.path} : index'[p] = index[p]
           /\ inv' = Renewed(k) /\ stale' = stale \ {k}
           /\ orphan' = (orphan \ (index[k.path].keys \cup {k})) \cup Exposed(k, t)
    BY <1>0, <1>3, StoreStep
  <2>2. t \in Nat /\ Minute \in Nat \ {0} /\ Forever \in Nat /\ t + Minute < Forever
    BY RedisAssumption
  <2>3. \A j \in Keys \ {k} : (Filled(j)' <=> Filled(j)) /\ (Live(j)' <=> Live(j))
    BY <2>1 DEF Filled, Live
  <2>4. /\ \A j \in Keys : j.path \in Paths
        /\ \A j \in Keys : data[j].left \in 0..Forever
        /\ index[k.path].left \in 0..Forever /\ index[k.path].keys \subseteq Keys
    BY <1>0, KeyPaths DEF TypeOK
  <2>5. OwnPath'
    BY <1>0, <2>1, <2>4 DEF OwnPath
  <2>6. Timed'
    <3>1. EntryLeft(t) > 0
      BY <1>0, <2>4, TTLTyped
    <3> QED
      BY <1>0, <2>1, <2>3, <3>1 DEF Timed
  <2>7. ASSUME NEW j \in Keys \ {k}, Lost(j) PROVE Lost(j)'
    <3>1. j \notin index[k.path].keys
      BY <1>0, <2>4, <2>7 DEF Lost, OwnPath
    <3>2. j \in orphan'
      BY <2>1, <2>7, <3>1 DEF Lost
    <3>3. j \notin index'[j.path].keys
      BY <2>1, <2>4, <2>7, <3>1 DEF Lost
    <3> QED
      BY <3>2, <3>3 DEF Lost
  <2>8. ASSUME NEW j \in Keys, j.path = k.path, j \in index'[k.path].keys, j \notin orphan',
               j # k => Filled(j)
        PROVE  index'[k.path].left >= data'[j].left
    <3>1. CASE t > 0
      <4>1. index'[k.path].left = t + Minute
        BY <2>1, <2>2, <3>1 DEF IndexLeft
      <4>2. CASE j = k
        BY <2>1, <2>2, <3>1, <4>1, <4>2 DEF EntryLeft
      <4>3. CASE j # k
        <5>1. ~(data[j].left > t + Minute) /\ data'[j] = data[j]
          BY <2>1, <2>8, <3>1, <4>3 DEF Exposed
        <5> QED
          BY <2>2, <2>4, <4>1, <5>1
      <4> QED
        BY <4>2, <4>3
    <3>2. CASE t = 0
      <4>1. /\ index[k.path].left \in {0, Forever} => index'[k.path].left = Forever
            /\ index[k.path].left \notin {0, Forever} => index'[k.path].left = index[k.path].left
        BY <2>1, <3>2 DEF IndexLeft
      <4>2. data'[j].left \in 0..Forever
        BY <1>1 DEF TypeOK
      <4>3. CASE index[k.path].left \in {0, Forever}
        BY <2>2, <4>1, <4>2, <4>3
      <4>4. CASE index[k.path].left \notin {0, Forever}
        <5>1. k \in orphan'
          BY <2>1, <2>2, <3>2, <4>4 DEF Exposed
        <5>2. j # k /\ j \in index[k.path].keys
          BY <2>1, <2>8, <5>1
        <5>3. j \notin orphan
          BY <2>1, <2>2, <2>8, <3>2, <5>2 DEF Exposed
        <5>4. index[j.path].left >= data[j].left
          BY <1>0, <2>8, <5>2, <5>3 DEF Indexed
        <5> QED
          BY <2>1, <2>8, <4>1, <4>4, <5>2, <5>4
      <4> QED
        BY <4>3, <4>4
    <3> QED
      BY <2>2, <3>1, <3>2
  <2>9. Indexed'
    <3> SUFFICES ASSUME NEW j \in Keys, Filled(j)', j \notin orphan'
                 PROVE  j \in index'[j.path].keys /\ index'[j.path].left >= data'[j].left
      BY DEF Indexed
    <3>1. CASE j = k
      BY <2>1, <2>8, <3>1
    <3>2. CASE j # k
      <4>1. Filled(j) /\ data'[j] = data[j]
        BY <2>1, <2>3, <3>2
      <4>2. j \in index[j.path].keys
        <5>1. j \in orphan => Lost(j) \/ j \in index[j.path].keys
          BY DEF Lost
        <5>2. ~Lost(j)
          BY <2>7, <3>2 DEF Lost
        <5> QED
          BY <1>0, <4>1, <5>1, <5>2 DEF Indexed
      <4>3. CASE j.path = k.path
        BY <2>1, <2>8, <4>1, <4>2, <4>3
      <4>4. CASE j.path # k.path
        <5>1. j \notin index[k.path].keys
          BY <1>0, <2>4, <4>4 DEF OwnPath
        <5>2. j \notin orphan
          BY <2>1, <3>2, <5>1
        <5> QED
          BY <1>0, <2>1, <2>4, <4>1, <4>4, <5>2 DEF Indexed
      <4> QED
        BY <4>3, <4>4
    <3> QED
      BY <3>1, <3>2
  <2>10. Pending'
    <3>1. \A i \in Invalidators : inv'[i].due = inv[i].due \ {k} /\ inv'[i].keys = inv[i].keys
      BY <1>0, <2>1, RenewedTyped
    <3>2. \A i \in Invalidators : inv[i].due \subseteq Keys
      BY <1>0 DEF TypeOK
    <3>3. ASSUME NEW i \in Invalidators, NEW j \in inv'[i].due, Live(j)'
          PROVE  j \in inv'[i].keys \/ Lost(j)'
      <4>1. j \in inv[i].due /\ j \in Keys \ {k}
        BY <3>1, <3>2, <3>3
      <4> QED
        BY <1>0, <2>3, <2>7, <3>1, <3>3, <4>1 DEF Pending
    <3> QED
      BY <3>3 DEF Pending
  <2>11. Missed'
    <3>1. stale \subseteq Keys
      BY <1>0 DEF TypeOK
    <3> QED
      BY <1>0, <2>1, <2>3, <2>7, <3>1 DEF Missed
  <2> QED
    BY <1>1, <2>5, <2>6, <2>9, <2>10, <2>11 DEF IInv
<1> QED
  BY <1>2, <1>3

LEMMA SetInv == ASSUME IInv, NEW k \in Keys, Set(k) PROVE IInv'
<1>0. TypeOK /\ OwnPath /\ Timed /\ Indexed /\ Pending /\ Missed
  BY DEF IInv
<1>1. /\ TypeOK' /\ UNCHANGED index
      /\ data'[k].age = "raw" /\ \A j \in Keys \ {k} : data'[j] = data[j]
      /\ inv' = Renewed(k) /\ stale' = stale \ {k} /\ orphan' = orphan \ {k}
  BY <1>0, SetStep
<1>2. /\ ~Filled(k)'
      /\ \A j \in Keys \ {k} : /\ (Filled(j)' <=> Filled(j)) /\ (Live(j)' <=> Live(j))
                               /\ Lost(j)' <=> Lost(j)
  BY <1>1 DEF Filled, Live, Lost
<1>3. OwnPath' /\ Timed' /\ Indexed'
  BY <1>0, <1>1, <1>2 DEF OwnPath, Timed, Indexed
<1>4. Pending'
  <2>1. \A i \in Invalidators : inv'[i].due = inv[i].due \ {k} /\ inv'[i].keys = inv[i].keys
    BY <1>0, <1>1, RenewedTyped
  <2>2. \A i \in Invalidators : inv[i].due \subseteq Keys
    BY <1>0 DEF TypeOK
  <2> QED
    BY <1>0, <1>2, <2>1, <2>2 DEF Pending
<1>5. Missed'
  <2>1. stale \subseteq Keys
    BY <1>0 DEF TypeOK
  <2> QED
    BY <1>0, <1>1, <1>2, <2>1 DEF Missed
<1> QED
  BY <1>1, <1>3, <1>4, <1>5 DEF IInv

\* SMEMBERS: what it misses of what must go is an orphan.
LEMMA BeginInv ==
    ASSUME IInv, NEW i \in Invalidators, NEW p \in Paths,
           InvalidatePath(i, p) \/ \E d \in Devices : InvalidatePathForDevice(i, d, p)
    PROVE  IInv'
<1>0. TypeOK /\ OwnPath /\ Timed /\ Indexed /\ Pending /\ Missed
  BY DEF IInv
<1>1. TypeOK' /\ UNCHANGED <<data, index, orphan>>
  BY <1>0, BeginPathStep, BeginDeviceStep
<1>2. OwnPath' /\ Timed' /\ Indexed'
  BY <1>0, <1>1 DEF OwnPath, Timed, Indexed, Filled
<1>3. ASSUME NEW k \in Keys, k.path = p, data[k].age = "old", k \notin index[p].keys
      PROVE  Lost(k) /\ Live(k)
  BY <1>0, <1>3 DEF Indexed, Lost, Filled, Live, Absent
<1>4. CASE InvalidatePath(i, p)
  <2>1. /\ stale' = stale /\ inv'[i].keys = index[p].keys
        /\ inv'[i].due = Due({k \in Keys : k.path = p})
        /\ \A j \in Invalidators \ {i} : inv'[j] = inv[j]
    BY <1>0, <1>4, BeginPathStep
  <2>2. \A k \in inv'[i].due : k \in inv'[i].keys \/ Lost(k)
    BY <1>3, <2>1 DEF Due
  <2>3. Pending' /\ Missed'
    BY <1>0, <1>1, <2>1, <2>2 DEF Pending, Missed, Live, Lost
  <2> QED
    BY <1>1, <1>2, <2>3 DEF IInv
<1>5. ASSUME NEW d \in Devices, InvalidatePathForDevice(i, d, p) PROVE IInv'
  <2> DEFINE due == Due({k \in Keys : k.path = p /\ k.dev = d})
  <2>1. \/ /\ index[p].keys \cap OfDevice(d) = {}
           /\ stale' = stale \cup due /\ inv' = inv
        \/ /\ inv'[i].keys = index[p].keys \cap OfDevice(d) /\ inv'[i].due = due
           /\ \A j \in Invalidators \ {i} : inv'[j] = inv[j]
           /\ stale' = stale
    BY <1>0, <1>5, BeginDeviceStep
  <2>2. \A k \in due : /\ k \in Keys /\ k \in OfDevice(d) /\ Live(k)
                       /\ k \in index[p].keys \/ Lost(k)
    BY <1>3 DEF Due, OfDevice, Live, Absent
  <2> HIDE DEF due
  <2>3. CASE index[p].keys \cap OfDevice(d) = {} /\ stale' = stale \cup due /\ inv' = inv
    <3>1. Pending' /\ Missed'
      BY <1>0, <1>1, <2>2, <2>3 DEF Pending, Missed, Live, Lost
    <3> QED
      BY <1>1, <1>2, <3>1 DEF IInv
  <2>4. CASE /\ inv'[i].keys = index[p].keys \cap OfDevice(d) /\ inv'[i].due = due
             /\ \A j \in Invalidators \ {i} : inv'[j] = inv[j]
             /\ stale' = stale
    <3>1. \A k \in inv'[i].due : k \in inv'[i].keys \/ Lost(k)
      BY <2>2, <2>4
    <3>2. Pending' /\ Missed'
      BY <1>0, <1>1, <2>4, <3>1 DEF Pending, Missed, Live, Lost
    <3> QED
      BY <1>1, <1>2, <3>2 DEF IInv
  <2> QED
    BY <2>1, <2>3, <2>4
<1> QED
  BY <1>4, <1>5

LEMMA FinishInv == ASSUME IInv, NEW i \in Invalidators, Finish(i) PROVE IInv'
<1>0. TypeOK /\ OwnPath /\ Timed /\ Indexed /\ Pending /\ Missed
  BY DEF IInv
<1>1. /\ TypeOK' /\ inv'[i].due = {} /\ \A j \in Invalidators \ {i} : inv'[j] = inv[j]
  BY <1>0, FinishStep
<1>2. CASE UNCHANGED <<data, index, stale, orphan>>
  BY <1>0, <1>1, <1>2 DEF IInv, OwnPath, Timed, Indexed, Pending, Missed, Lost, Filled, Live
<1>3. CASE ~UNCHANGED <<data, index, stale, orphan>>
  <2> DEFINE gone == inv[i].keys
  <2>1. /\ \A k \in Keys : data'[k] = IF k \in gone THEN Absent ELSE data[k]
        /\ \A p \in Paths :
              \/ index'[p] = index[p]
              \/ /\ index'[p].left = index[p].left \/ (index'[p].left = 0 /\ index'[p].keys = {})
                 /\ \/ index'[p].keys = index[p].keys \ gone
                    \/ /\ index'[p].keys = {}
                       /\ \A k \in index[p].keys : Live(k) => k \in gone \/ k \in orphan'
        /\ \A k \in orphan : Live(k) /\ k \notin gone => k \in orphan'
        /\ \A k \in stale' : k \notin gone /\ (k \in stale \/ (k \in inv[i].due /\ Live(k)))
    BY <1>0, <1>3, FinishStep
  <2>2. stale' \subseteq Keys /\ inv[i].due \subseteq Keys
    BY <1>0, <1>1 DEF TypeOK
  <2>3. \A k \in stale' : Live(k) /\ Lost(k)
    BY <1>0, <2>1 DEF Pending, Missed
  <2> HIDE DEF gone
  <2>4. \A k \in Keys : /\ Filled(k)' => Filled(k) /\ Live(k) /\ k \notin gone
                        /\ Live(k)' <=> Live(k) /\ k \notin gone
                        /\ k \notin gone => data'[k] = data[k]
    BY <2>1 DEF Filled, Live, Absent
  <2>5. \A k \in Keys : k.path \in Paths
    BY KeyPaths
  <2>6. OwnPath' /\ Timed'
    BY <1>0, <2>1, <2>4 DEF OwnPath, Timed
  <2>7. \A k \in Keys : Lost(k) /\ Live(k)' => Lost(k)'
    BY <2>1, <2>4, <2>5 DEF Lost
  <2>8. Indexed'
    <3> SUFFICES ASSUME NEW k \in Keys, Filled(k)', k \notin orphan'
                 PROVE  k \in index'[k.path].keys /\ index'[k.path].left >= data'[k].left
      BY DEF Indexed
    <3>1. Filled(k) /\ Live(k) /\ k \notin gone /\ data'[k] = data[k]
      BY <2>4
    <3>2. k \notin orphan
      BY <2>1, <3>1
    <3>3. k \in index[k.path].keys /\ index[k.path].left >= data[k].left
      BY <1>0, <3>1, <3>2 DEF Indexed
    <3> QED
      BY <2>1, <2>5, <3>1, <3>3
  <2>9. Pending'
    <3> SUFFICES ASSUME NEW j \in Invalidators, NEW k \in inv'[j].due, Live(k)'
                 PROVE  k \in inv'[j].keys \/ Lost(k)'
      BY DEF Pending
    <3>1. j # i /\ inv'[j] = inv[j] /\ k \in Keys
      BY <1>0, <1>1 DEF TypeOK
    <3> QED
      BY <1>0, <2>4, <2>7, <3>1 DEF Pending
  <2>10. Missed'
    <3>1. \A k \in stale' : k \in Keys /\ k \notin gone
      BY <2>1, <2>2
    <3> QED
      BY <2>3, <2>4, <2>7, <3>1 DEF Missed
  <2> QED
    BY <1>1, <2>6, <2>8, <2>9, <2>10 DEF IInv
<1> QED
  BY <1>2, <1>3

LEMMA MutateInv == ASSUME IInv, NEW k \in Keys, Mutate(k) PROVE IInv'
<1>0. TypeOK /\ OwnPath /\ Timed /\ Indexed /\ Pending /\ Missed
  BY DEF IInv
<1>1. /\ TypeOK' /\ UNCHANGED <<index, inv, stale, orphan>>
      /\ \A j \in Keys : /\ data'[j].left = data[j].left
                         /\ Filled(j)' <=> Filled(j)
                         /\ Live(j)' <=> Live(j)
  BY <1>0, MutateStep
<1>2. OwnPath' /\ Timed' /\ Indexed'
  BY <1>0, <1>1 DEF OwnPath, Timed, Indexed
<1>3. Pending' /\ Missed'
  BY <1>0, <1>1 DEF Pending, Missed, Lost, TypeOK
<1> QED
  BY <1>1, <1>2, <1>3 DEF IInv

\* Time passes: an index that stays as long as an entry does not expire before it.
LEMMA TickInv == ASSUME IInv, Tick PROVE IInv'
<1>0. TypeOK /\ OwnPath /\ Timed /\ Indexed /\ Pending /\ Missed
  BY DEF IInv
<1>1. /\ TypeOK'
      /\ \A k \in Keys : \/ data'[k] = Absent
                         \/ /\ data'[k].age = data[k].age
                            /\ data'[k].left = Later(data[k].left) /\ data'[k].left # 0
                            /\ Live(k)
      /\ \A k \in Keys : Later(data[k].left) # 0 => Live(k)'
      /\ \A p \in Paths : \/ index'[p] = NoIndex /\ Later(index[p].left) = 0
                          \/ /\ index'[p].keys = index[p].keys
                             /\ index'[p].left = Later(index[p].left)
      /\ \A i \in Invalidators :
            /\ inv'[i].keys = inv[i].keys
            /\ inv'[i].due = {k \in inv[i].due : Later(data[k].left) # 0}
      /\ stale' = {k \in stale : Later(data[k].left) # 0}
      /\ orphan' = {k \in orphan : Later(data[k].left) # 0}
  BY <1>0, TickStep
<1>2. \A k \in Keys : /\ k.path \in Paths /\ data[k].left \in 0..Forever
                      /\ index[k.path].left \in 0..Forever
  BY <1>0, KeyPaths DEF TypeOK
<1>3. \A k \in Keys : Filled(k)' => /\ Filled(k) /\ data'[k].left = Later(data[k].left)
                                    /\ Later(data[k].left) # 0
  BY <1>1 DEF Filled, Absent
<1>4. OwnPath'
  BY <1>0, <1>1 DEF OwnPath, NoIndex
<1>5. Timed'
  <2>1. \A n \in 0..Forever : Later(n) # 0 => Later(n) > 0
    BY RedisAssumption DEF Later
  <2> QED
    BY <1>2, <1>3, <2>1 DEF Timed
<1>6. \A k \in Keys : Later(data[k].left) # 0 /\ Lost(k) => Lost(k)'
  <2>1. \A k \in Keys : k \notin index[k.path].keys => k \notin index'[k.path].keys
    BY <1>1, <1>2 DEF NoIndex
  <2> QED
    BY <1>1, <2>1 DEF Lost
<1>7. Indexed'
  <2> SUFFICES ASSUME NEW k \in Keys, Filled(k)', k \notin orphan'
               PROVE  k \in index'[k.path].keys /\ index'[k.path].left >= data'[k].left
    BY DEF Indexed
  <2>1. Filled(k) /\ data'[k].left = Later(data[k].left) /\ Later(data[k].left) # 0
    BY <1>3
  <2>2. k \notin orphan
    BY <1>1, <2>1
  <2>3. k \in index[k.path].keys /\ index[k.path].left >= data[k].left
    BY <1>0, <2>1, <2>2 DEF Indexed
  <2>4. Later(index[k.path].left) # 0 /\ Later(index[k.path].left) >= Later(data[k].left)
    <3>1. \A m, n \in 0..Forever : m >= n /\ Later(n) # 0 => Later(m) # 0 /\ Later(m) >= Later(n)
      BY RedisAssumption DEF Later
    <3> QED
      BY <1>2, <2>1, <2>3, <3>1
  <2> QED
    BY <1>1, <1>2, <2>1, <2>3, <2>4
<1>8. Pending'
  <2> SUFFICES ASSUME NEW i \in Invalidators, NEW k \in inv'[i].due, Live(k)'
               PROVE  k \in inv'[i].keys \/ Lost(k)'
    BY DEF Pending
  <2>1. k \in inv[i].due /\ Later(data[k].left) # 0 /\ k \in Keys
    BY <1>0, <1>1 DEF TypeOK
  <2>2. Live(k)
    BY <1>1, <2>1 DEF Live
  <2> QED
    BY <1>0, <1>1, <1>6, <2>1, <2>2 DEF Pending
<1>9. Missed'
  BY <1>0, <1>1, <1>6 DEF Missed, TypeOK
<1> QED
  BY <1>1, <1>4, <1>5, <1>7, <1>8, <1>9 DEF IInv

LEMMA NextInv == IInv /\ [Next]_vars => IInv'
<1> SUFFICES ASSUME IInv, [Next]_vars PROVE IInv'
  OBVIOUS
<1>1. ASSUME UNCHANGED <<data, index, inv, stale, orphan>>, TypeOK' PROVE IInv'
  BY <1>1 DEF IInv, OwnPath, Timed, Indexed, Pending, Missed, Lost, Filled, Live
<1>2. TypeOK'
  BY TypeNext DEF IInv
<1>3. CASE UNCHANGED vars
  BY <1>1, <1>2, <1>3 DEF vars
<1>4. ASSUME NEW c \in Callers, RunCommand(c) \/ \E k \in Keys : ExecCached(c, k) PROVE IInv'
  BY <1>1, <1>2, <1>4 DEF RunCommand, ExecCached
<1> QED
  BY <1>3, <1>4, StoreInv, SetInv, BeginInv, FinishInv, MutateInv, TickInv DEF Next

\* Every variable keeps its type.
THEOREM TypeCorrect == Spec => []TypeOK
  BY TypeInit, TypeNext, PTL DEF Spec

\* The strengthened invariant.
THEOREM Invariance == Spec => []IInv
  BY InitInv, NextInv, PTL DEF Spec

\* Whatever the TTLs, and whatever requests and answers are lost, an invalidation that
\* returned nil has deleted what the router had left behind, except what no index led to: an
\* earlier invalidation had deleted it, or a SetForPath had made it expire first.
THEOREM InvalidationReaches == Spec => []FreshUnlessOrphaned
<1>1. IInv => FreshUnlessOrphaned
  BY DEF IInv, Missed, Lost, FreshUnlessOrphaned
<1> QED
  BY <1>1, Invariance, PTL
=============================================================================
