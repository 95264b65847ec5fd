-------------------------- MODULE DevicePool_proofs --------------------------
(***************************************************************************)
(* Proofs about DevicePool, for any number of callers, names and devices:  *)
(* no connection is lost, no live device is closed by the slow path, and   *)
(* NewFleet leaves all or nothing.                                         *)
(***************************************************************************)
EXTENDS DevicePool, FiniteSetTheorems, TLAPS

InFleet(p) == at[p].op \in {"fleet", "abandon"}

\* Who is inside holds the lock alone; a call that stores has made a device.
Wired ==
    \A p \in Callers :
        /\ at[p].pc \in {"dial", "store", "sweep"} => lock = {p}
        /\ at[p].pc = "store" => at[p].dev # Nil
        /\ at[p].pc \in {"dial", "store"} /\ at[p].dev # Nil => dev[at[p].dev].st # "none"
        /\ at[p].pc = "lock" => at[p].dev = Nil
        /\ at[p].pc = "idle" => at[p].op = "none"
        /\ at[p].op # "fleet" => at[p].todo = {}
        /\ at[p].op = "fleet" => at[p].pc \in {"lock", "dial", "store"}
        /\ at[p].op = "abandon" => at[p].pc \in {"lock", "sweep"}
        /\ at[p].op \in {"get", "register", "fleet"} => \E n \in Names : at[p].name = {n}

\* A device in the map has been made; one that was not made has no connection.
Known ==
    /\ \A n \in Names : devices[n] # Nil => dev[devices[n]].st # "none"
    /\ \A d \in Devs : dev[d].st = "none" => dev[d].open = {}

\* What a call is about to replace is dead, and stays so while it dials.
Doomed == \A p \in Callers : at[p].pc \in {"dial", "store"} =>
             \A n \in at[p].name : ~Alive(devices[n])

\* NewFleet is alone, has overwritten nothing, and has the routers before the one at hand.
Fleet ==
    \A p \in Callers : InFleet(p) =>
        /\ \A q \in Callers \ {p} : at[q].pc = "idle"
        /\ \A d \in Devs : dev[d].st # "dropped"
        /\ at[p].op = "fleet" =>
              /\ \E n \in Names : at[p].name = {n} /\ n \notin at[p].todo
              /\ \A n \in Names : devices[n] = Nil <=> n \in at[p].name \cup at[p].todo

IInv == TypeOK /\ Wired /\ Known /\ Doomed /\ Fleet /\ ConnsOwned
-----------------------------------------------------------------------------
LEMMA NilNoDev == Nil \notin Devs
BY DEF Nil, Devs

LEMMA IdleTyped ==
    Idle \in CallRec /\ Idle.pc = "idle" /\ Idle.op = "none" /\ Idle.todo = {} /\ Idle.dev = Nil
BY DEF Idle, CallRec

LEMMA CallTyped ==
    ASSUME NEW n \in Names, NEW op \in {"get", "register", "fleet"}
    PROVE  /\ Call(op, n) \in CallRec
           /\ Call(op, n).pc = "lock" /\ Call(op, n).op = op /\ Call(op, n).name = {n}
           /\ Call(op, n).todo = {} /\ Call(op, n).dev = Nil
BY IdleTyped DEF Call, CallRec, Idle

\* The lock is free or has one holder.
LEMMA LockTyped ==
    ASSUME NEW p \in Callers
    PROVE  /\ {p} \in SUBSET Callers /\ Cardinality({p}) <= 1
           /\ {} \in SUBSET Callers /\ Cardinality({}) <= 1
<1>1. Cardinality({p}) = 1
  BY FS_Singleton
<1>2. Cardinality({}) = 0
  BY FS_EmptySet
<1> QED
  BY <1>1, <1>2

LEMMA InitInv == Init => IInv
<1> SUFFICES ASSUME Init PROVE IInv
  OBVIOUS
<1>1. TypeOK
  <2>1. [st |-> "none", ctx |-> "live", open |-> {}] \in DevRec
    BY DEF DevRec
  <2>2. lock \in SUBSET Callers /\ Cardinality(lock) <= 1
    BY FS_EmptySet DEF Init
  <2> QED
    BY <2>1, <2>2, IdleTyped DEF Init, TypeOK
<1>2. Wired /\ Doomed /\ Fleet
  BY IdleTyped DEF Init, Wired, Doomed, Fleet, InFleet
<1>3. Known /\ ConnsOwned
  BY DEF Init, Known, ConnsOwned
<1> QED
  BY <1>1, <1>2, <1>3 DEF IInv

-----------------------------------------------------------------------------
(* Steps that change one part of the state.                                *)

\* A caller moves on outside the lock.
LEMMA MoveInv ==
    ASSUME IInv, NEW p \in Callers, NEW rec \in CallRec,
           at' = [at EXCEPT ![p] = rec], UNCHANGED <<lock, devices, dev>>,
           at[p].pc \in {"idle", "check", "lock"}, rec.pc \in {"idle", "check", "lock"},
           rec.pc = "idle" => rec.op = "none", rec.todo = {}, rec.pc = "lock" => rec.dev = Nil,
           rec.op \in {"get", "register", "fleet"} => \E n \in Names : rec.name = {n},
           \/ /\ ~InFleet(p) /\ rec.op \notin {"fleet", "abandon"}
              /\ at[p].pc # "idle" \/ \A q \in Callers : ~InFleet(q)
           \/ at[p].op = "fleet" /\ rec.op = "abandon" /\ rec.pc = "lock"
    PROVE  IInv'
<1>0. TypeOK /\ Wired /\ Known /\ Doomed /\ Fleet /\ ConnsOwned
  BY DEF IInv
<1>1. at'[p] = rec /\ \A q \in Callers \ {p} : at'[q] = at[q]
  BY <1>0 DEF TypeOK
<1>2. TypeOK'
  BY <1>0 DEF TypeOK
<1>3. Wired' /\ Doomed'
  BY <1>0, <1>1 DEF Wired, Doomed, Alive
<1>4. Known'
  BY <1>0 DEF Known
<1>5. Fleet'
  BY <1>0, <1>1 DEF Fleet, InFleet, Wired
<1>6. ConnsOwned'
  BY <1>0, <1>1 DEF ConnsOwned, InHand, Listed, Alive
<1> QED
  BY <1>2, <1>3, <1>4, <1>5, <1>6 DEF IInv

\* A caller takes the lock.
LEMMA EnterInv ==
    ASSUME IInv, NEW p \in Callers, NEW rec \in CallRec,
           at' = [at EXCEPT ![p] = rec], UNCHANGED <<devices, dev>>,
           at[p].pc = "lock", lock = {}, lock' = {p},
           rec.op = at[p].op, rec.name = at[p].name, rec.todo = at[p].todo, rec.dev = at[p].dev,
           \/ /\ rec.pc = "dial" /\ rec.op \in {"register", "fleet"}
              /\ \A n \in rec.name : ~Alive(devices[n])
           \/ rec.pc = "sweep" /\ rec.op \in {"closeall", "abandon"}
    PROVE  IInv'
<1>0. TypeOK /\ Wired /\ Known /\ Doomed /\ Fleet /\ ConnsOwned
  BY DEF IInv
<1>1. at'[p] = rec /\ \A q \in Callers \ {p} : at'[q] = at[q]
  BY <1>0 DEF TypeOK
<1>2. \A q \in Callers : at[q].pc \notin {"dial", "store", "sweep"}
  BY <1>0 DEF Wired
<1>3. TypeOK'
  BY <1>0, LockTyped DEF TypeOK
<1>4. Wired' /\ Doomed'
  BY <1>0, <1>1, <1>2 DEF Wired, Doomed, Alive
<1>5. Known'
  BY <1>0 DEF Known
<1>6. Fleet'
  BY <1>0, <1>1 DEF Fleet, InFleet
<1>7. ConnsOwned'
  BY <1>0, <1>1, <1>2 DEF ConnsOwned, InHand, Listed, Alive
<1> QED
  BY <1>3, <1>4, <1>5, <1>6, <1>7 DEF IInv

\* A device is closed, or dies, where it is.
LEMMA DeviceInv ==
    ASSUME IInv, NEW d \in Devs, AppClose(d) \/ ParentDone(d) PROVE IInv'
<1>0. TypeOK /\ Wired /\ Known /\ Doomed /\ Fleet /\ ConnsOwned
  BY DEF IInv
<1>1. UNCHANGED <<lock, devices, at>>
  BY DEF AppClose, ParentDone
<1>2. /\ dev' \in [Devs -> DevRec]
      /\ \A e \in Devs : /\ dev'[e].st = dev[e].st
                         /\ dev'[e].open \in {dev[e].open, {}}
                         /\ dev'[e].ctx = "live" => dev[e].ctx = "live"
  <2>1. \A e \in Devs : /\ [dev[e] EXCEPT !.ctx = "cancelled", !.open = {}] \in DevRec
                        /\ [dev[e] EXCEPT !.ctx = "ended"] \in DevRec
    BY <1>0 DEF TypeOK, DevRec
  <2>2. CASE AppClose(d)
    BY <1>0, <2>1, <2>2 DEF AppClose, Closed, TypeOK, DevRec
  <2>3. CASE ParentDone(d)
    <3>1. dev' = [dev EXCEPT ![d] = [dev[d] EXCEPT !.ctx = "ended"]]
      BY <1>0, <2>3 DEF ParentDone, TypeOK
    <3> QED
      BY <1>0, <2>1, <3>1 DEF TypeOK, DevRec
  <2> QED
    BY <2>2, <2>3
<1>3. TypeOK'
  BY <1>0, <1>1, <1>2 DEF TypeOK
<1>4. Wired' /\ Fleet'
  <2>1. \A e \in Devs : dev'[e].st = dev[e].st
    BY <1>2
  <2>2. \A p \in Callers : at[p].dev \in Devs \cup {Nil}
    BY <1>0 DEF TypeOK, CallRec
  <2> QED
    BY <1>0, <1>1, <2>1, <2>2 DEF Wired, Fleet, InFleet
<1>5. Known' /\ Doomed'
  BY <1>0, <1>1, <1>2 DEF Known, Doomed, Alive, TypeOK, CallRec
<1>6. ConnsOwned'
  BY <1>0, <1>1, <1>2, NilNoDev DEF ConnsOwned, InHand, Listed, Alive
<1> QED
  BY <1>3, <1>4, <1>5, <1>6 DEF IInv

\* An entry is closed and deleted, under the lock.
LEMMA DeleteInv ==
    ASSUME IInv, NEW n \in Names, UNCHANGED <<lock, at>>,
           dev' = Closed({devices[n]} \ {Nil}), devices' = [devices EXCEPT ![n] = Nil],
           \A p \in Callers : ~InFleet(p) \/ at[p].op = "abandon"
    PROVE  IInv'
<1>0. TypeOK /\ Wired /\ Known /\ Doomed /\ Fleet /\ ConnsOwned
  BY DEF IInv
<1>1. /\ dev' \in [Devs -> DevRec]
      /\ \A e \in Devs : /\ dev'[e].st = dev[e].st
                         /\ e # devices[n] => dev'[e] = dev[e]
                         /\ e = devices[n] => dev'[e].open = {}
                         /\ dev'[e].ctx = "live" => dev[e].ctx = "live"
                         /\ dev'[e].open \in {dev[e].open, {}}
  <2>1. \A e \in Devs : [dev[e] EXCEPT !.ctx = "cancelled", !.open = {}] \in DevRec
    BY <1>0 DEF TypeOK, DevRec
  <2> QED
    BY <1>0, <2>1, NilNoDev DEF Closed, TypeOK, DevRec
<1>2. devices'[n] = Nil /\ \A m \in Names \ {n} : devices'[m] = devices[m]
  BY <1>0 DEF TypeOK
<1>3. TypeOK'
  BY <1>0, <1>1 DEF TypeOK
<1>4. Wired' /\ Fleet'
  <2>1. \A p \in Callers : at[p].op # "fleet"
    BY DEF InFleet
  <2>3. \A e \in Devs : dev'[e].st = dev[e].st
    BY <1>1
  <2>5. \A p \in Callers : at[p].dev \in Devs \cup {Nil}
    BY <1>0 DEF TypeOK, CallRec
  <2>2. Wired'
    BY <1>0, <2>3, <2>5 DEF Wired
  <2>4. Fleet'
    BY <1>0, <2>1, <2>3 DEF Fleet, InFleet
  <2> QED
    BY <2>2, <2>4
<1>5. Known' /\ Doomed'
  <2>1. \A m \in Names : devices[m] \in Devs \cup {Nil}
    BY <1>0 DEF TypeOK
  <2>2. \A p \in Callers : at[p].name \subseteq Names
    BY <1>0 DEF TypeOK, CallRec
  <2>3. Known'
    <3>1. \A m \in Names : devices'[m] # Nil => devices'[m] = devices[m] /\ devices[m] \in Devs
      BY <1>2, <2>1
    <3>2. \A e \in Devs : dev'[e].st = dev[e].st /\ dev'[e].open \in {dev[e].open, {}}
      BY <1>1
    <3> QED
      BY <1>0, <3>1, <3>2 DEF Known
  <2>4. Doomed'
    <3>1. \A m \in Names : ~Alive(devices[m]) => ~Alive(devices[m])'
      <4>1. \A m \in Names : devices'[m] = Nil \/ (devices'[m] = devices[m] /\ devices[m] \in Devs)
        BY <1>2, <2>1
      <4>2. \A e \in Devs : dev'[e].ctx = "live" => dev[e].ctx = "live"
        BY <1>1
      <4> QED
        BY <4>1, <4>2, NilNoDev DEF Alive
    <3> QED
      BY <1>0, <2>2, <3>1 DEF Doomed, Alive
  <2> QED
    BY <2>3, <2>4
<1>6. ConnsOwned'
  <2> SUFFICES ASSUME NEW d \in Devs, dev'[d].open # {}
               PROVE  Listed(d)' \/ InHand(d)' \/ (dev'[d].st = "dropped" /\ ~Alive(d)')
    BY DEF ConnsOwned
  <2>1. d # devices[n] /\ dev'[d] = dev[d]
    BY <1>1
  <2> QED
    BY <1>0, <1>2, <2>1 DEF ConnsOwned, InHand, Listed, Alive
<1> QED
  BY <1>3, <1>4, <1>5, <1>6 DEF IInv

-----------------------------------------------------------------------------
(* Calls up to the lock.                                                   *)

LEMMA BeginInv ==
    ASSUME IInv, NEW p \in Callers,
           \/ \E n \in Names : GetOrConnect(p, n) \/ Register(p, n)
           \/ CloseAll(p) \/ GetCheck(p)
    PROVE  IInv'
<1>0. TypeOK /\ Wired /\ at[p] \in CallRec /\ devices \in [Names -> Devs \cup {Nil}]
  BY DEF IInv, TypeOK
<1>1. CASE CloseAll(p) \/ \E n \in Names : GetOrConnect(p, n) \/ Register(p, n)
  <2>1. PICK rec \in CallRec : /\ at' = [at EXCEPT ![p] = rec]
                               /\ rec.pc \in {"check", "lock"} /\ rec.todo = {}
                               /\ rec.pc = "lock" => rec.dev = Nil
                               /\ rec.op \in {"get", "register", "closeall"}
                               /\ rec.op # "closeall" => \E n \in Names : rec.name = {n}
    <3>1. CASE CloseAll(p)
      <4>1. [Idle EXCEPT !.pc = "lock", !.op = "closeall"] \in CallRec
        BY DEF Idle, CallRec
      <4> QED
        BY <3>1, <4>1 DEF CloseAll, Idle
    <3>2. ASSUME NEW n \in Names, Register(p, n)
          PROVE  at' = [at EXCEPT ![p] = Call("register", n)]
      BY <3>2 DEF Register
    <3>3. ASSUME NEW n \in Names, GetOrConnect(p, n)
          PROVE  \E rec \in CallRec : /\ at' = [at EXCEPT ![p] = rec]
                                      /\ rec.pc = "check" /\ rec.todo = {} /\ rec.op = "get"
                                      /\ rec.name = {n}
      <4>1. /\ Call("get", n) \in CallRec /\ Call("get", n).todo = {} /\ Call("get", n).op = "get"
            /\ Call("get", n).name = {n}
        BY CallTyped
      <4>2. [Call("get", n) EXCEPT !.pc = "check", !.dev = devices[n]] \in CallRec
        BY <1>0, <4>1 DEF CallRec
      <4>3. WITNESS [Call("get", n) EXCEPT !.pc = "check", !.dev = devices[n]] \in CallRec
      <4> QED
        BY <3>3, <4>1 DEF GetOrConnect, CallRec
    <3> QED
      BY <1>1, <3>1, <3>2, <3>3, CallTyped
  <2>2. /\ at[p].pc = "idle" /\ \A q \in Callers : ~InFleet(q)
        /\ UNCHANGED <<lock, devices, dev>>
    BY <1>1 DEF CloseAll, GetOrConnect, Register, Starts, InFleet
  <2> QED
    BY <1>0, <2>1, <2>2, MoveInv
<1>2. CASE GetCheck(p)
  <2>1. at[p].pc = "check" /\ UNCHANGED <<lock, devices, dev>>
    BY <1>2 DEF GetCheck
  <2>2. ~InFleet(p) /\ at[p].todo = {}
    BY <1>0, <2>1 DEF Wired, InFleet
  <2>3. CASE Alive(at[p].dev)
    <3>1. at' = [at EXCEPT ![p] = Idle]
      BY <1>0, <1>2, <2>3 DEF GetCheck, TypeOK
    <3> QED
      BY <1>0, <2>1, <2>2, <3>1, IdleTyped, MoveInv
  <2>4. CASE ~Alive(at[p].dev)
    <3> DEFINE rec == [at[p] EXCEPT !.pc = "lock", !.dev = Nil]
    <3>1. /\ rec \in CallRec /\ rec.pc = "lock" /\ rec.op = at[p].op /\ rec.todo = at[p].todo
          /\ rec.name = at[p].name /\ rec.dev = Nil
      BY <1>0 DEF CallRec
    <3>2. at' = [at EXCEPT ![p] = rec]
      BY <1>0, <1>2, <2>4 DEF GetCheck, TypeOK
    <3>3. at[p].op \in {"get", "register", "fleet"} => \E n \in Names : at[p].name = {n}
      BY <1>0 DEF Wired
    <3> HIDE DEF rec
    <3>4. rec.op \in {"get", "register", "fleet"} => \E n \in Names : rec.name = {n}
      BY <3>1, <3>3
    <3>5. ~InFleet(p) /\ rec.op \notin {"fleet", "abandon"} /\ rec.todo = {}
      BY <2>2, <3>1 DEF InFleet
    <3> QED
      BY <2>1, <3>1, <3>2, <3>4, <3>5, MoveInv
  <2> QED
    BY <2>3, <2>4
<1> QED
  BY <1>1, <1>2

LEMMA NewFleetInv == ASSUME IInv, NEW p \in Callers, NewFleet(p) PROVE IInv'
<1>0. TypeOK /\ Wired /\ Known /\ Doomed /\ Fleet /\ ConnsOwned
  BY DEF IInv
<1>1. PICK n \in Names : at' = [at EXCEPT ![p] = [Call("fleet", n) EXCEPT !.todo = Names \ {n}]]
  BY DEF NewFleet
<1> DEFINE rec == [Call("fleet", n) EXCEPT !.todo = Names \ {n}]
<1>2. /\ rec \in CallRec /\ rec.pc = "lock" /\ rec.op = "fleet" /\ rec.name = {n}
      /\ rec.todo = Names \ {n} /\ rec.dev = Nil
  BY CallTyped DEF CallRec
<1>3. at'[p] = rec /\ (\A q \in Callers \ {p} : at'[q] = at[q]) /\ at' \in [Callers -> CallRec]
  BY <1>0, <1>1, <1>2 DEF TypeOK
<1> HIDE DEF rec
<1>4. /\ \A q \in Callers : at[q].pc = "idle" /\ ~InFleet(q)
      /\ \A d \in Devs : dev[d].st = "none"
      /\ UNCHANGED <<lock, devices, dev>>
  BY <1>0 DEF NewFleet, Unused, Wired, InFleet
<1>5. \A m \in Names : devices[m] = Nil
  BY <1>0, <1>4 DEF Known, TypeOK
<1>6. TypeOK' /\ Known'
  BY <1>0, <1>3, <1>4 DEF TypeOK, Known
<1>7. Wired' /\ Doomed'
  BY <1>0, <1>2, <1>3, <1>4 DEF Wired, Doomed
<1>8. Fleet'
  BY <1>2, <1>3, <1>4, <1>5 DEF Fleet, InFleet
<1>9. ConnsOwned'
  BY <1>0, <1>4 DEF ConnsOwned, Known
<1> QED
  BY <1>6, <1>7, <1>8, <1>9 DEF IInv

-----------------------------------------------------------------------------
(* Calls that take the lock.                                               *)

LEMMA RegisterLockInv == ASSUME IInv, NEW p \in Callers, RegisterLock(p) PROVE IInv'
<1>0. TypeOK /\ Wired /\ Fleet /\ at[p] \in CallRec
  BY DEF IInv, TypeOK
<1>1. /\ at[p].pc = "lock" /\ at[p].op \in {"register", "fleet"} /\ lock = {}
      /\ UNCHANGED <<devices, dev>>
  BY DEF RegisterLock, Lockable
<1>2. PICK n \in at[p].name :
         \/ /\ Taken(n)
            /\ at' = [at EXCEPT ![p] = IF @.op = "fleet" THEN Abandoned(@) ELSE Idle]
            /\ UNCHANGED lock
         \/ /\ ~Taken(n)
            /\ lock' = lock \cup {p}
            /\ at' = [at EXCEPT ![p].pc = "dial"]
  BY DEF RegisterLock
<1>3. CASE Taken(n)
  <2>1. PICK rec \in CallRec : /\ at' = [at EXCEPT ![p] = rec] /\ rec.todo = {} /\ rec.dev = Nil
                               /\ \/ at[p].op = "fleet" /\ rec.op = "abandon" /\ rec.pc = "lock"
                                  \/ at[p].op = "register" /\ rec.op = "none" /\ rec.pc = "idle"
    <3>1. /\ Abandoned(at[p]) \in CallRec /\ Abandoned(at[p]).op = "abandon"
          /\ Abandoned(at[p]).pc = "lock" /\ Abandoned(at[p]).todo = {}
          /\ Abandoned(at[p]).dev = Nil
      BY DEF Abandoned, Idle, CallRec
    <3>2. at' = [at EXCEPT ![p] = IF at[p].op = "fleet" THEN Abandoned(at[p]) ELSE Idle]
      BY <1>0, <1>2, <1>3 DEF TypeOK
    <3> QED
      BY <1>1, <3>1, <3>2, IdleTyped
  <2>2. lock' = lock
    BY <1>2, <1>3
  <2> QED
    BY <1>1, <2>1, <2>2, MoveInv DEF InFleet
<1>4. CASE ~Taken(n)
  <2>1. at[p].name = {n}
    \* a call has one name
    BY <1>0, <1>1, <1>2 DEF Wired
  <2> DEFINE rec == [at[p] EXCEPT !.pc = "dial"]
  <2>2. /\ rec \in CallRec /\ rec.pc = "dial" /\ rec.op = at[p].op /\ rec.name = at[p].name
        /\ rec.todo = at[p].todo /\ rec.dev = at[p].dev
    BY <1>0 DEF CallRec
  <2>3. at' = [at EXCEPT ![p] = rec] /\ lock' = {p}
    BY <1>0, <1>1, <1>2, <1>4 DEF TypeOK
  <2>4. \A m \in at[p].name : ~Alive(devices[m])
    BY <1>4, <2>1 DEF Taken
  <2> HIDE DEF rec
  <2> QED
    BY <1>1, <2>2, <2>3, <2>4, EnterInv
<1> QED
  BY <1>3, <1>4

LEMMA CloseAllLockInv == ASSUME IInv, NEW p \in Callers, CloseAllLock(p) PROVE IInv'
<1>0. TypeOK /\ at[p] \in CallRec
  BY DEF IInv, TypeOK
<1> DEFINE rec == [at[p] EXCEPT !.pc = "sweep"]
<1>1. /\ rec \in CallRec /\ rec.pc = "sweep" /\ rec.op = at[p].op /\ rec.name = at[p].name
      /\ rec.todo = at[p].todo /\ rec.dev = at[p].dev
  BY <1>0 DEF CallRec
<1>2. at' = [at EXCEPT ![p] = rec] /\ lock = {} /\ lock' = {p}
  BY <1>0 DEF CloseAllLock, Lockable, TypeOK
<1> HIDE DEF rec
<1> QED
  BY <1>1, <1>2, EnterInv DEF CloseAllLock

LEMMA GetLockInv == ASSUME IInv, NEW p \in Callers, GetLock(p) PROVE IInv'
<1>0. TypeOK /\ Wired /\ Known /\ Doomed /\ Fleet /\ ConnsOwned /\ at[p] \in CallRec
  BY DEF IInv, TypeOK
<1>1. at[p].pc = "lock" /\ at[p].op = "get" /\ lock = {}
  BY DEF GetLock, Lockable
<1>2. PICK n \in at[p].name :
         \/ /\ Recheck(devices[n])
            /\ at' = [at EXCEPT ![p] = Idle]
            /\ UNCHANGED <<lock, devices, dev>>
         \/ /\ ~Recheck(devices[n])
            /\ lock' = lock \cup {p}
            /\ dev' = Closed(Stale(n))
            /\ devices' = [devices EXCEPT ![n] = Nil]
            /\ at' = [at EXCEPT ![p].pc = "dial"]
  BY DEF GetLock
<1>3. n \in Names /\ at[p].name = {n} /\ at[p].todo = {} /\ ~InFleet(p)
  BY <1>0, <1>1, <1>2 DEF Wired, InFleet
<1>4. CASE Recheck(devices[n])
  BY <1>1, <1>2, <1>3, <1>4, IdleTyped, MoveInv
<1>5. CASE ~Recheck(devices[n])
  <2> DEFINE rec == [at[p] EXCEPT !.pc = "dial"]
  <2>1. /\ rec \in CallRec /\ rec.pc = "dial" /\ rec.op = "get" /\ rec.name = {n} /\ rec.todo = {}
        /\ rec.dev = Nil
    BY <1>0, <1>1, <1>3 DEF CallRec, Wired
  <2>2. at' = [at EXCEPT ![p] = rec] /\ lock' = {p}
    BY <1>0, <1>1, <1>2, <1>5 DEF TypeOK
  <2> HIDE DEF rec
  <2>3. at'[p] = rec /\ \A q \in Callers \ {p} : at'[q] = at[q]
    BY <1>0, <2>2 DEF TypeOK
  <2>4. \A q \in Callers : at[q].pc \notin {"dial", "store", "sweep"} /\ ~InFleet(q)
    <3>1. \A q \in Callers : ~InFleet(q)
      BY <1>0, <1>1, <1>3 DEF Fleet
    <3> QED
      BY <1>0, <1>1, <3>1 DEF Wired
  <2>5. /\ devices'[n] = Nil /\ \A m \in Names \ {n} : devices'[m] = devices[m]
        /\ \A m \in Names : devices[m] \in Devs \cup {Nil}
    BY <1>0, <1>2, <1>3, <1>5 DEF TypeOK
  <2>6. /\ dev' \in [Devs -> DevRec]
        /\ \A e \in Devs : /\ dev'[e].st = dev[e].st
                           /\ e # devices[n] => dev'[e] = dev[e]
                           /\ e = devices[n] => dev'[e].open = {}
                           /\ dev'[e].open \in {dev[e].open, {}}
    <3>1. \A e \in Devs : [dev[e] EXCEPT !.ctx = "cancelled", !.open = {}] \in DevRec
      BY <1>0 DEF TypeOK, DevRec
    <3>2. dev' = Closed({devices[n]} \ {Nil})
      BY <1>2, <1>5 DEF Stale
    <3> QED
      BY <1>0, <3>1, <3>2, NilNoDev DEF Closed, TypeOK, DevRec
  <2>7. TypeOK'
    <3>1. at' \in [Callers -> CallRec]
      BY <1>0, <2>1, <2>2 DEF TypeOK
    <3>2. devices' = [devices EXCEPT ![n] = Nil]
      BY <1>2, <1>5
    <3>3. devices' \in [Names -> Devs \cup {Nil}]
      BY <1>0, <3>2 DEF TypeOK
    <3> QED
      BY <2>2, <2>6, <3>1, <3>3, LockTyped DEF TypeOK
  <2>8. Wired'
    BY <1>0, <1>3, <2>1, <2>2, <2>3, <2>4 DEF Wired, InFleet
  <2>9. Fleet'
    BY <2>1, <2>3, <2>4 DEF Fleet, InFleet
  <2>10. Known'
    <3>1. \A m \in Names : devices'[m] # Nil => devices'[m] = devices[m] /\ devices[m] \in Devs
      BY <2>5
    <3> QED
      BY <1>0, <2>6, <3>1 DEF Known
  <2>11. Doomed'
    <3>1. ~Alive(devices[n])'
      BY <2>5 DEF Alive
    <3> QED
      BY <2>1, <2>3, <2>4, <3>1 DEF Doomed
  <2>12. ConnsOwned'
    <3> SUFFICES ASSUME NEW d \in Devs, dev'[d].open # {}
                 PROVE  Listed(d)' \/ InHand(d)' \/ (dev'[d].st = "dropped" /\ ~Alive(d)')
      BY DEF ConnsOwned
    <3>1. d # devices[n] /\ dev'[d] = dev[d]
      BY <2>6
    <3>2. ~InHand(d)
      BY <2>4 DEF InHand
    <3> QED
      BY <1>0, <2>5, <3>1, <3>2 DEF ConnsOwned, Listed, Alive
  <2> QED
    BY <2>7, <2>8, <2>9, <2>10, <2>11, <2>12 DEF IInv
<1> QED
  BY <1>4, <1>5

LEMMA UnregisterInv ==
    ASSUME IInv, NEW p \in Callers, NEW n \in Names, Unregister(p, n) PROVE IInv'
<1>1. /\ dev' = Closed({devices[n]} \ {Nil}) /\ devices' = [devices EXCEPT ![n] = Nil]
      /\ UNCHANGED <<lock, at>> /\ \A q \in Callers : ~InFleet(q)
  <2>1. {devices[n]} \ {Nil} = {devices[n]}
    BY DEF Unregister
  <2> QED
    BY <2>1 DEF Unregister, Starts, InFleet
<1> QED
  BY <1>1, DeleteInv

LEMMA CloseAllNextInv == ASSUME IInv, NEW p \in Callers, CloseAllNext(p) PROVE IInv'
<1>0. Wired /\ Fleet
  BY DEF IInv
<1>1. PICK n \in Names : /\ devices[n] # Nil /\ dev' = Closed({devices[n]})
                         /\ devices' = [devices EXCEPT ![n] = Nil]
  BY DEF CloseAllNext
<1>2. {devices[n]} \ {Nil} = {devices[n]}
  BY <1>1
<1>3. \A q \in Callers : ~InFleet(q) \/ at[q].op = "abandon"
  BY <1>0 DEF CloseAllNext, Wired, Fleet, InFleet
<1> QED
  BY <1>1, <1>2, <1>3, DeleteInv DEF CloseAllNext

-----------------------------------------------------------------------------
(* Inside the lock.                                                        *)

LEMMA DialStreamInv == ASSUME IInv, NEW p \in Callers, DialStream(p) PROVE IInv'
<1>0. TypeOK /\ Wired /\ Known /\ Doomed /\ Fleet /\ ConnsOwned /\ at[p] \in CallRec
  BY DEF IInv, TypeOK
<1>1. PICK d \in Devs : /\ dev[d].st = "none"
                        /\ dev' = [dev EXCEPT ![d].st = "new", ![d].open = {"stream"}]
                        /\ at' = [at EXCEPT ![p].dev = d]
  BY DEF DialStream, Unused
<1>2. at[p].pc = "dial" /\ at[p].dev = Nil /\ UNCHANGED <<lock, devices>>
  BY DEF DialStream
<1>3. /\ dev' \in [Devs -> DevRec] /\ dev'[d].st = "new" /\ dev'[d].ctx = dev[d].ctx
      /\ \A e \in Devs \ {d} : dev'[e] = dev[e]
  <2>1. dev[d] \in DevRec /\ {"stream"} \in SUBSET Roles
    BY <1>0 DEF TypeOK, Roles
  <2>2. [dev[d] EXCEPT !.st = "new", !.open = {"stream"}] \in DevRec
    BY <2>1 DEF DevRec
  <2>3. dev' = [dev EXCEPT ![d] = [dev[d] EXCEPT !.st = "new", !.open = {"stream"}]]
    BY <1>0, <1>1 DEF TypeOK
  <2> QED
    BY <1>0, <2>1, <2>2, <2>3 DEF TypeOK, DevRec
<1>4. /\ at' \in [Callers -> CallRec] /\ \A q \in Callers \ {p} : at'[q] = at[q]
      /\ at'[p].pc = "dial" /\ at'[p].op = at[p].op /\ at'[p].name = at[p].name
      /\ at'[p].todo = at[p].todo /\ at'[p].dev = d
  BY <1>0, <1>1, <1>2 DEF TypeOK, CallRec
<1>5. \A n \in Names : devices[n] \in (Devs \ {d}) \cup {Nil}
  BY <1>0, <1>1, NilNoDev DEF TypeOK, Known
<1>6. TypeOK'
  BY <1>0, <1>2, <1>3, <1>4 DEF TypeOK
<1>7. Wired'
  <2>1. \A q \in Callers \ {p} : at[q].pc \notin {"dial", "store", "sweep"}
    BY <1>0, <1>2 DEF Wired
  <2>2. dev'[d].st # "none" /\ d # Nil
    BY <1>3, NilNoDev
  <2> QED
    BY <1>0, <1>2, <1>4, <2>1, <2>2 DEF Wired
<1>8. Known'
  BY <1>0, <1>2, <1>3, <1>5, NilNoDev DEF Known
<1>9. Doomed'
  <2>1. \A n \in Names : ~Alive(devices[n]) => ~Alive(devices[n])'
    BY <1>2, <1>3, <1>5, NilNoDev DEF Alive
  <2>2. \A q \in Callers : at[q].name \subseteq Names
    BY <1>0 DEF TypeOK, CallRec
  <2> QED
    BY <1>0, <1>2, <1>4, <2>1, <2>2 DEF Doomed
<1>10. Fleet'
  BY <1>0, <1>2, <1>3, <1>4 DEF Fleet, InFleet
<1>11. ConnsOwned'
  <2> SUFFICES ASSUME NEW e \in Devs, dev'[e].open # {}
               PROVE  Listed(e)' \/ InHand(e)' \/ (dev'[e].st = "dropped" /\ ~Alive(e)')
    BY DEF ConnsOwned
  <2>1. CASE e = d
    BY <1>4, <2>1 DEF InHand
  <2>2. CASE e # d
    <3>1. Listed(e) \/ InHand(e) \/ (dev[e].st = "dropped" /\ ~Alive(e))
      BY <1>0, <1>3, <2>2 DEF ConnsOwned
    <3>2. InHand(e) => InHand(e)'
      BY <1>2, <1>4, NilNoDev DEF InHand
    <3> QED
      BY <1>2, <1>3, <2>2, <3>1, <3>2 DEF Listed, Alive
  <2> QED
    BY <2>1, <2>2
<1> QED
  BY <1>6, <1>7, <1>8, <1>9, <1>10, <1>11 DEF IInv

LEMMA DialCommandInv == ASSUME IInv, NEW p \in Callers, DialCommand(p) PROVE IInv'
<1>0. TypeOK /\ Wired /\ Known /\ Doomed /\ Fleet /\ ConnsOwned /\ at[p] \in CallRec
  BY DEF IInv, TypeOK
<1>1. PICK d \in Devs : d = at[p].dev
  BY <1>0 DEF DialCommand, CallRec
<1>2. /\ at[p].pc = "dial" /\ Alive(d) /\ UNCHANGED <<lock, devices>>
      /\ dev' = [dev EXCEPT ![d].open = Roles]
      /\ at' = [at EXCEPT ![p].pc = "store"]
  BY <1>1 DEF DialCommand
<1>3. /\ dev' \in [Devs -> DevRec] /\ dev'[d].open = Roles
      /\ \A e \in Devs : dev'[e].st = dev[e].st /\ dev'[e].ctx = dev[e].ctx
      /\ \A e \in Devs \ {d} : dev'[e] = dev[e]
  <2>1. dev[d] \in DevRec /\ [dev[d] EXCEPT !.open = Roles] \in DevRec
    BY <1>0 DEF TypeOK, DevRec
  <2>2. dev' = [dev EXCEPT ![d] = [dev[d] EXCEPT !.open = Roles]]
    BY <1>0, <1>2 DEF TypeOK
  <2> QED
    BY <1>0, <2>1, <2>2 DEF TypeOK, DevRec
<1>4. /\ at' \in [Callers -> CallRec] /\ \A q \in Callers \ {p} : at'[q] = at[q]
      /\ at'[p].pc = "store" /\ at'[p].op = at[p].op /\ at'[p].name = at[p].name
      /\ at'[p].todo = at[p].todo /\ at'[p].dev = d
  BY <1>0, <1>1, <1>2 DEF TypeOK, CallRec
<1>5. dev[d].st # "none"
  BY <1>0, <1>1, <1>2, NilNoDev DEF Wired
<1>6. TypeOK'
  BY <1>0, <1>2, <1>3, <1>4 DEF TypeOK
<1>7. Wired'
  <2>1. \A q \in Callers \ {p} : at[q].pc \notin {"dial", "store", "sweep"}
    BY <1>0, <1>2 DEF Wired
  <2>2. dev'[d].st # "none" /\ d # Nil
    BY <1>1, <1>3, <1>5, NilNoDev
  <2> QED
    BY <1>0, <1>2, <1>4, <2>1, <2>2 DEF Wired
<1>8. Known'
  BY <1>0, <1>2, <1>3, <1>5 DEF Known, TypeOK
<1>9. Doomed'
  <2>1. \A n \in Names : ~Alive(devices[n]) => ~Alive(devices[n])'
    BY <1>0, <1>2, <1>3 DEF Alive, TypeOK
  <2>2. \A q \in Callers : at[q].name \subseteq Names
    BY <1>0 DEF TypeOK, CallRec
  <2> QED
    BY <1>0, <1>2, <1>4, <2>1, <2>2 DEF Doomed
<1>10. Fleet'
  BY <1>0, <1>2, <1>3, <1>4 DEF Fleet, InFleet
<1>11. ConnsOwned'
  <2> SUFFICES ASSUME NEW e \in Devs, dev'[e].open # {}
               PROVE  Listed(e)' \/ InHand(e)' \/ (dev'[e].st = "dropped" /\ ~Alive(e)')
    BY DEF ConnsOwned
  <2>1. CASE e = d
    BY <1>4, <2>1 DEF InHand
  <2>2. CASE e # d
    <3>1. Listed(e) \/ InHand(e) \/ (dev[e].st = "dropped" /\ ~Alive(e))
      BY <1>0, <1>3, <2>2 DEF ConnsOwned
    <3>2. InHand(e) => InHand(e)'
      BY <1>1, <1>4, <2>2 DEF InHand
    <3> QED
      BY <1>2, <1>3, <2>2, <3>1, <3>2 DEF Listed, Alive
  <2> QED
    BY <2>1, <2>2
<1> QED
  BY <1>6, <1>7, <1>8, <1>9, <1>10, <1>11 DEF IInv

LEMMA DialFailInv == ASSUME IInv, NEW p \in Callers, DialFail(p) PROVE IInv'
<1>0. TypeOK /\ Wired /\ Known /\ Doomed /\ Fleet /\ ConnsOwned /\ at[p] \in CallRec
  BY DEF IInv, TypeOK
<1>1. PICK d \in Devs \cup {Nil} : d = at[p].dev
  BY <1>0 DEF CallRec
<1>2. /\ at[p].pc = "dial" /\ lock' = {} /\ devices' = devices
      /\ dev' = IF d = Nil THEN dev ELSE Failed(d)
      /\ at' = [at EXCEPT ![p] = IF at[p].op = "fleet" THEN Abandoned(at[p]) ELSE Idle]
  BY <1>0, <1>1 DEF DialFail, Unlocked, Wired, TypeOK
<1>3. PICK rec \in CallRec : /\ at' = [at EXCEPT ![p] = rec] /\ rec.todo = {} /\ rec.dev = Nil
                             /\ \/ at[p].op = "fleet" /\ rec.op = "abandon" /\ rec.pc = "lock"
                                \/ at[p].op # "fleet" /\ rec.op = "none" /\ rec.pc = "idle"
  <2>1. /\ Abandoned(at[p]) \in CallRec /\ Abandoned(at[p]).op = "abandon"
        /\ Abandoned(at[p]).pc = "lock" /\ Abandoned(at[p]).todo = {}
        /\ Abandoned(at[p]).dev = Nil
    BY DEF Abandoned, Idle, CallRec
  <2> QED
    BY <1>2, <2>1, IdleTyped
<1>4. at'[p] = rec /\ (\A q \in Callers \ {p} : at'[q] = at[q]) /\ at' \in [Callers -> CallRec]
  BY <1>0, <1>3 DEF TypeOK
<1>5. /\ dev' \in [Devs -> DevRec]
      /\ \A e \in Devs : /\ dev'[e].st = dev[e].st
                         /\ e # d => dev'[e] = dev[e]
                         /\ e = d => dev'[e].open = {}
  <2>1. CASE d = Nil
    BY <1>0, <1>2, <2>1, NilNoDev DEF TypeOK
  <2>2. CASE d # Nil
    <3>1. dev[d] \in DevRec /\ [dev[d] EXCEPT !.ctx = "cancelled", !.open = {}] \in DevRec
      BY <1>0, <2>2 DEF TypeOK, DevRec
    <3>2. dev' = [dev EXCEPT ![d] = [dev[d] EXCEPT !.ctx = "cancelled", !.open = {}]]
      BY <1>0, <1>2, <2>2 DEF Failed, TypeOK
    <3> QED
      BY <1>0, <2>2, <3>1, <3>2 DEF TypeOK, DevRec
  <2> QED
    BY <2>1, <2>2
<1>6. \A q \in Callers \ {p} : at[q].pc \notin {"dial", "store", "sweep"}
  BY <1>0, <1>2 DEF Wired
<1>7. TypeOK'
  BY <1>0, <1>2, <1>4, <1>5, LockTyped DEF TypeOK
<1>8. Wired' /\ Doomed'
  BY <1>0, <1>3, <1>4, <1>6 DEF Wired, Doomed
<1>9. Known'
  <2>1. \A n \in Names : devices[n] \in Devs \cup {Nil}
    BY <1>0 DEF TypeOK
  <2> QED
    BY <1>0, <1>2, <1>5, <2>1 DEF Known
<1>10. Fleet'
  BY <1>0, <1>2, <1>3, <1>4, <1>5 DEF Fleet, InFleet
<1>11. ConnsOwned'
  <2> SUFFICES ASSUME NEW e \in Devs, dev'[e].open # {}
               PROVE  Listed(e)' \/ InHand(e)' \/ (dev'[e].st = "dropped" /\ ~Alive(e)')
    BY DEF ConnsOwned
  <2>1. e # d /\ dev'[e] = dev[e]
    BY <1>5
  <2>2. ~InHand(e)
    BY <1>1, <1>6, <2>1 DEF InHand
  <2> QED
    BY <1>0, <1>2, <2>1, <2>2 DEF ConnsOwned, Listed, Alive
<1> QED
  BY <1>7, <1>8, <1>9, <1>10, <1>11 DEF IInv

LEMMA StoreInv ==
    ASSUME IInv, NEW p \in Callers, Store(p)
    PROVE  /\ IInv'
           /\ at[p].op = "fleet" /\ at'[p].op = "none" => \A n \in Names : devices'[n] # Nil
<1>0. TypeOK /\ Wired /\ Known /\ Doomed /\ Fleet /\ ConnsOwned /\ at[p] \in CallRec
  BY DEF IInv, TypeOK
<1>1. PICK d \in Devs : d = at[p].dev
  BY <1>0 DEF Store, Wired, CallRec
<1>2. PICK n \in Names : /\ n \in at[p].name
                         /\ devices' = [devices EXCEPT ![n] = d]
                         /\ dev' = [Overwritten(devices[n]) EXCEPT ![d].st = "ready"]
  BY <1>0, <1>1 DEF Store, CallRec
<1>3. at[p].pc = "store" /\ lock' = {} /\ ~Alive(devices[n])
  BY <1>0, <1>2 DEF Store, Unlocked, Wired, Doomed
<1>4. \A q \in Callers \ {p} : at[q].pc \notin {"dial", "store", "sweep"}
  BY <1>0, <1>3 DEF Wired
<1>5. PICK rec \in CallRec :
         /\ at' = [at EXCEPT ![p] = rec] /\ rec.dev = Nil
         /\ \/ at[p].todo = {} /\ rec = Idle
            \/ \E m \in at[p].todo : /\ rec.pc = "lock" /\ rec.op = "fleet" /\ rec.name = {m}
                                     /\ rec.todo = at[p].todo \ {m}
  <2>1. CASE at[p].todo = {} /\ at' = [at EXCEPT ![p] = Idle]
    BY <2>1, IdleTyped
  <2>2. ASSUME NEW m \in at[p].todo,
               at' = [at EXCEPT ![p] = [Call("fleet", m) EXCEPT !.todo = at[p].todo \ {m}]]
        PROVE  \E rec \in CallRec :
                  /\ at' = [at EXCEPT ![p] = rec] /\ rec.dev = Nil
                  /\ rec.pc = "lock" /\ rec.op = "fleet" /\ rec.name = {m}
                  /\ rec.todo = at[p].todo \ {m}
    <3>1. m \in Names /\ at[p].todo \subseteq Names
      BY <1>0 DEF CallRec
    <3>2. /\ Call("fleet", m) \in CallRec /\ Call("fleet", m).dev = Nil
          /\ Call("fleet", m).pc = "lock" /\ Call("fleet", m).op = "fleet"
          /\ Call("fleet", m).name = {m}
      BY <3>1, CallTyped
    <3>3. [Call("fleet", m) EXCEPT !.todo = at[p].todo \ {m}] \in CallRec
      BY <3>1, <3>2 DEF CallRec
    <3>4. WITNESS [Call("fleet", m) EXCEPT !.todo = at[p].todo \ {m}] \in CallRec
    <3> QED
      BY <2>2, <3>2 DEF CallRec
  <2> QED
    BY <2>1, <2>2 DEF Store
<1>6. at'[p] = rec /\ (\A q \in Callers \ {p} : at'[q] = at[q]) /\ at' \in [Callers -> CallRec]
  BY <1>0, <1>5 DEF TypeOK
<1>7. /\ devices' \in [Names -> Devs \cup {Nil}] /\ devices'[n] = d
      /\ \A m \in Names \ {n} : devices'[m] = devices[m]
      /\ \A m \in Names : devices[m] \in Devs \cup {Nil}
  BY <1>0, <1>2 DEF TypeOK
<1>8. /\ dev' \in [Devs -> DevRec] /\ dev'[d].st = "ready"
      /\ \A e \in Devs : /\ dev'[e].open = dev[e].open /\ dev'[e].ctx = dev[e].ctx
                         /\ e \notin {d, devices[n]} => dev'[e] = dev[e]
                         /\ e # d /\ e = devices[n] => dev'[e].st = "dropped"
  <2>1. PICK mid \in [Devs -> DevRec] :
           /\ mid = Overwritten(devices[n])
           /\ \A e \in Devs : /\ mid[e].open = dev[e].open /\ mid[e].ctx = dev[e].ctx
                              /\ e # devices[n] => mid[e] = dev[e]
                              /\ e = devices[n] => mid[e].st = "dropped"
    <3>1. CASE devices[n] = Nil
      BY <1>0, <3>1, NilNoDev DEF Overwritten, TypeOK
    <3>2. CASE devices[n] # Nil
      <4>1. PICK o \in Devs : o = devices[n]
        BY <1>7, <3>2
      <4>2. dev[o] \in DevRec /\ [dev[o] EXCEPT !.st = "dropped"] \in DevRec
        BY <1>0 DEF TypeOK, DevRec
      <4>3. Overwritten(devices[n]) = [dev EXCEPT ![o] = [dev[o] EXCEPT !.st = "dropped"]]
        BY <1>0, <3>2, <4>1 DEF Overwritten, TypeOK
      <4> QED
        BY <1>0, <4>1, <4>2, <4>3 DEF TypeOK, DevRec
    <3> QED
      BY <3>1, <3>2
  <2>2. mid[d] \in DevRec /\ [mid[d] EXCEPT !.st = "ready"] \in DevRec
    BY DEF DevRec
  <2>3. dev' = [mid EXCEPT ![d] = [mid[d] EXCEPT !.st = "ready"]]
    BY <1>2, <2>1
  <2> QED
    BY <2>1, <2>2, <2>3 DEF DevRec
<1>9. TypeOK'
  BY <1>3, <1>6, <1>7, <1>8, LockTyped DEF TypeOK
<1>10. Wired' /\ Doomed'
  <2>1. rec.pc \in {"idle", "lock"}
    BY <1>5, IdleTyped
  <2>2. \/ rec.pc = "idle" /\ rec.op = "none" /\ rec.todo = {}
        \/ rec.pc = "lock" /\ rec.op = "fleet" /\ \E m \in Names : rec.name = {m}
    <3>1. at[p].todo \subseteq Names
      BY <1>0 DEF CallRec
    <3> QED
      BY <1>5, <3>1, IdleTyped
  <2> QED
    BY <1>0, <1>4, <1>5, <1>6, <2>1, <2>2 DEF Wired, Doomed
<1>11. Known'
  <2>1. \A e \in Devs : dev'[e].st = "none" => dev[e].st = "none"
    BY <1>8
  <2> QED
    BY <1>0, <1>7, <1>8, <2>1 DEF Known
<1>12. ConnsOwned'
  <2> SUFFICES ASSUME NEW e \in Devs, dev'[e].open # {}
               PROVE  Listed(e)' \/ InHand(e)' \/ (dev'[e].st = "dropped" /\ ~Alive(e)')
    BY DEF ConnsOwned
  <2>1. CASE e = d
    BY <1>7, <2>1 DEF Listed
  <2>2. CASE e # d /\ e = devices[n]
    <3>1. ~Alive(e)'
      BY <1>3, <1>8, <2>2, NilNoDev DEF Alive
    <3> QED
      BY <1>8, <2>2, <3>1
  <2>3. CASE e # d /\ e # devices[n]
    <3>1. ~InHand(e)
      BY <1>1, <1>4, <2>3 DEF InHand
    <3>2. dev'[e] = dev[e]
      BY <1>8, <2>3
    <3> QED
      BY <1>0, <1>7, <2>3, <3>1, <3>2 DEF ConnsOwned, Listed, Alive
  <2> QED
    BY <2>1, <2>2, <2>3
<1>13. CASE at[p].op = "fleet"
  <2>1. /\ \A q \in Callers \ {p} : at[q].pc = "idle" /\ at[q].op = "none"
        /\ \A e \in Devs : dev[e].st # "dropped"
        /\ at[p].name = {n} /\ n \notin at[p].todo
        /\ \A m \in Names : devices[m] = Nil <=> m \in at[p].name \cup at[p].todo
    BY <1>0, <1>2, <1>13 DEF Fleet, InFleet, Wired
  <2>2. \A e \in Devs : dev'[e].st # "dropped"
    <3>1. devices[n] = Nil
      BY <2>1
    <3> QED
      BY <1>8, <2>1, <3>1, NilNoDev
  <2>3. \A m \in Names : devices'[m] = Nil <=> m \in at[p].todo
    BY <1>7, <2>1, NilNoDev
  <2>4. CASE at[p].todo = {} /\ rec = Idle
    <3>1. Fleet'
      BY <1>6, <2>1, <2>4, IdleTyped DEF Fleet, InFleet
    <3> QED
      BY <1>9, <1>10, <1>11, <1>12, <2>3, <2>4, <3>1 DEF IInv
  <2>5. ASSUME NEW m \in at[p].todo, rec.pc = "lock", rec.op = "fleet", rec.name = {m},
               rec.todo = at[p].todo \ {m}
        PROVE  Fleet' /\ at'[p].op # "none"
    <3>1. m \in Names
      BY <1>0 DEF CallRec
    <3>2. \A k \in Names : devices'[k] = Nil <=> k \in rec.name \cup rec.todo
      BY <2>3, <2>5
    <3>3. \E k \in Names : rec.name = {k} /\ k \notin rec.todo
      BY <2>5, <3>1
    <3> QED
      BY <1>6, <2>1, <2>2, <2>5, <3>2, <3>3 DEF Fleet, InFleet
  <2> QED
    BY <1>5, <1>9, <1>10, <1>11, <1>12, <2>4, <2>5 DEF IInv
<1>14. CASE at[p].op # "fleet"
  <2>1. rec = Idle
    BY <1>0, <1>5, <1>14 DEF Wired
  <2>2. \A q \in Callers \ {p} : ~InFleet(q)
    BY <1>0, <1>3 DEF Fleet
  <2>3. Fleet'
    BY <1>6, <2>1, <2>2, IdleTyped DEF Fleet, InFleet
  <2> QED
    BY <1>9, <1>10, <1>11, <1>12, <1>14, <2>3 DEF IInv
<1> QED
  BY <1>13, <1>14

LEMMA CloseAllReturnInv ==
    ASSUME IInv, NEW p \in Callers, CloseAllReturn(p)
    PROVE  /\ IInv'
           /\ InFleet(p) => \A d \in Devs : dev'[d].open = {}
<1>0. TypeOK /\ Wired /\ Known /\ Doomed /\ Fleet /\ ConnsOwned
  BY DEF IInv
<1>1. /\ at[p].pc = "sweep" /\ lock' = {} /\ at' = [at EXCEPT ![p] = Idle]
      /\ UNCHANGED <<devices, dev>> /\ \A n \in Names : devices[n] = Nil
  BY <1>0 DEF CloseAllReturn, Unlocked, Wired
<1>2. at'[p] = Idle /\ (\A q \in Callers \ {p} : at'[q] = at[q]) /\ at' \in [Callers -> CallRec]
  BY <1>0, <1>1, IdleTyped DEF TypeOK
<1>3. \A q \in Callers : at[q].pc \notin {"dial", "store"}
  BY <1>0, <1>1 DEF Wired
<1>4. TypeOK'
  BY <1>0, <1>1, <1>2, LockTyped DEF TypeOK
<1>5. Wired' /\ Doomed'
  <2>1. \A q \in Callers \ {p} : at[q].pc # "sweep"
    BY <1>0, <1>1 DEF Wired
  <2> QED
    BY <1>0, <1>1, <1>2, <1>3, <2>1, IdleTyped DEF Wired, Doomed
<1>6. Known'
  BY <1>0, <1>1 DEF Known
<1>7. Fleet'
  BY <1>0, <1>1, <1>2, IdleTyped DEF Fleet, InFleet
<1>8. \A d \in Devs : dev[d].open # {} => dev[d].st = "dropped" /\ ~Alive(d)
  BY <1>0, <1>1, <1>3, NilNoDev DEF ConnsOwned, Listed, InHand
<1>9. ConnsOwned'
  BY <1>1, <1>8 DEF ConnsOwned, Alive
<1>10. InFleet(p) => \A d \in Devs : dev'[d].open = {}
  BY <1>0, <1>1, <1>8 DEF Fleet
<1> QED
  BY <1>4, <1>5, <1>6, <1>7, <1>9, <1>10 DEF IInv

-----------------------------------------------------------------------------
LEMMA NextInv == IInv /\ [Next]_vars => IInv'
<1> SUFFICES ASSUME IInv, [Next]_vars PROVE IInv'
  OBVIOUS
<1>1. CASE UNCHANGED vars
  BY <1>1 DEF vars, IInv, TypeOK, Wired, Known, Doomed, Fleet, InFleet, ConnsOwned, InHand,
              Listed, Alive
<1>2. ASSUME NEW p \in Callers, Calling(p) \/ Entry(p) \/ Inside(p) PROVE IInv'
  BY <1>2, BeginInv, NewFleetInv, GetLockInv, RegisterLockInv, CloseAllLockInv, DialStreamInv,
     DialCommandInv, DialFailInv, StoreInv, UnregisterInv, CloseAllNextInv, CloseAllReturnInv
     DEF Calling, Entry, Inside
<1>3. ASSUME NEW d \in Devs, AppClose(d) \/ ParentDone(d) PROVE IInv'
  BY <1>3, DeviceInv
<1> QED
  BY <1>1, <1>2, <1>3 DEF Next

\* The strengthened invariant holds for every instance.
THEOREM Invariance == Spec => []IInv
  BY InitInv, NextInv, PTL DEF Spec

\* The lock has at most one holder and every variable keeps its type.
THEOREM TypeCorrect == Spec => []TypeOK
<1>1. IInv => TypeOK
  BY DEF IInv
<1> QED
  BY <1>1, Invariance, PTL

\* Whatever connection is open belongs to a device of the map or to the one being
\* made, except those of a dead device that Register has overwritten.
THEOREM NoConnIsLost == Spec => []ConnsOwned
<1>1. IInv => ConnsOwned
  BY DEF IInv
<1> QED
  BY <1>1, Invariance, PTL

\* The slow path of GetOrConnect closes no device that is alive.
THEOREM SlowPathKeepsTheLiving == Spec => LiveIsKept
<1>1. ASSUME IInv, NEW p \in Callers, GetLock(p), NEW d \in Devs, Alive(d) PROVE Alive(d)'
  <2>1. TypeOK /\ d # Nil /\ dev[d].ctx = "live"
    BY <1>1 DEF IInv, Alive
  <2>2. dev' = dev \/ \E n \in at[p].name : ~Alive(devices[n]) /\ dev' = Closed(Stale(n))
    BY <1>1 DEF GetLock, Recheck
  <2>3. dev'[d] = dev[d]
    BY <1>1, <2>1, <2>2 DEF Closed, Stale
  <2> QED
    BY <2>1, <2>3 DEF Alive
<1>2. IInv => (\A p \in Callers : GetLock(p) => \A d \in Devs : Alive(d) => Alive(d)')
  BY <1>1
<1> QED
  BY <1>2, Invariance, PTL DEF LiveIsKept

\* Who moves is the caller of the step.
LEMMA OneMoves ==
    ASSUME TypeOK, NEW p \in Callers, Calling(p) \/ Entry(p) \/ Inside(p), NEW q \in Callers, q # p
    PROVE  at'[q] = at[q]
  BY DEF Calling, Entry, Inside, NewFleet, CloseAll, GetOrConnect, Register, Unregister, GetLock,
         RegisterLock, CloseAllLock, GetCheck, DialStream, DialCommand, DialFail, Store,
         CloseAllNext, CloseAllReturn, TypeOK

\* NewFleet returns with a device for every router, or with every connection closed.
THEOREM FleetIsAllOrNothing == Spec => AllOrNothing
<1> DEFINE Kept(p) == \/ \A n \in Names : devices'[n] # Nil
                      \/ \A d \in Devs : dev'[d].open = {}
<1>1. ASSUME IInv, Next, NEW p \in Callers, InFleet(p), at'[p].op = "none" PROVE Kept(p)
  <2>0. TypeOK /\ Wired /\ Fleet /\ at[p] \in CallRec
    BY <1>1 DEF IInv, TypeOK
  <2>1. at[p].pc # "idle" /\ at'[p] # at[p]
    BY <1>1, <2>0 DEF Wired, InFleet
  <2>2. Calling(p) \/ Entry(p) \/ Inside(p)
    <3>1. \A d \in Devs : ~(AppClose(d) \/ ParentDone(d))
      BY <2>1 DEF AppClose, ParentDone
    <3> QED
      BY <1>1, <2>0, <2>1, <3>1, OneMoves DEF Next
  <2>3. Store(p) \/ CloseAllReturn(p)
    <3>1. ~Calling(p)
      BY <1>1, <2>1, <2>0 DEF Calling, NewFleet, CloseAll, GetOrConnect, Register, Unregister, Starts
    <3>2. at[p].pc # "check" /\ at[p].op # "get" /\ (at[p].pc = "dial" => at[p].op = "fleet")
      BY <1>1, <2>0 DEF Wired, InFleet
    <3>3. Abandoned(at[p]).op = "abandon"
      BY DEF Abandoned, Idle
    <3>4. ~Entry(p)
      <4>1. ~GetLock(p)
        BY <3>2 DEF GetLock
      <4>2. ASSUME CloseAllLock(p) PROVE FALSE
        <5>1. at'[p].op = at[p].op
          BY <2>0, <4>2 DEF CloseAllLock, TypeOK, CallRec
        <5> QED
          BY <1>1, <5>1 DEF InFleet
      <4>3. ASSUME RegisterLock(p) PROVE FALSE
        <5>1. at[p].op = "fleet"
          BY <1>1, <4>3 DEF RegisterLock, InFleet
        <5>2. \/ at' = [at EXCEPT ![p] = Abandoned(at[p])]
              \/ at' = [at EXCEPT ![p] = [at[p] EXCEPT !.pc = "dial"]]
          BY <2>0, <4>3, <5>1 DEF RegisterLock, TypeOK
        <5>3. [at[p] EXCEPT !.pc = "dial"].op = "fleet"
          BY <2>0, <5>1 DEF CallRec
        <5> QED
          BY <1>1, <2>0, <3>3, <5>2, <5>3 DEF TypeOK
      <4> QED
        BY <4>1, <4>2, <4>3 DEF Entry
    <3>5. ~(GetCheck(p) \/ DialStream(p) \/ DialCommand(p) \/ DialFail(p) \/ CloseAllNext(p))
      <4>1. ~GetCheck(p) /\ ~CloseAllNext(p)
        BY <2>1, <3>2 DEF GetCheck, CloseAllNext
      <4>2. ASSUME DialStream(p) \/ DialCommand(p) PROVE FALSE
        <5>1. at'[p].op = at[p].op
          <6>1. \/ \E d \in Devs : at' = [at EXCEPT ![p] = [at[p] EXCEPT !.dev = d]]
                \/ at' = [at EXCEPT ![p] = [at[p] EXCEPT !.pc = "store"]]
            BY <2>0, <4>2 DEF DialStream, DialCommand, Unused, TypeOK
          <6>2. \A d \in Devs : [at[p] EXCEPT !.dev = d].op = at[p].op
            BY <2>0 DEF CallRec
          <6>3. [at[p] EXCEPT !.pc = "store"].op = at[p].op
            BY <2>0 DEF CallRec
          <6> QED
            BY <2>0, <6>1, <6>2, <6>3 DEF TypeOK
        <5> QED
          BY <1>1, <5>1 DEF InFleet
      <4>3. ASSUME DialFail(p) PROVE FALSE
        <5>1. at' = [at EXCEPT ![p] = Abandoned(at[p])]
          BY <2>0, <3>2, <4>3 DEF DialFail, TypeOK
        <5> QED
          BY <1>1, <2>0, <3>3, <5>1 DEF TypeOK
      <4> QED
        BY <4>1, <4>2, <4>3
    <3> QED
      BY <2>2, <3>1, <3>4, <3>5 DEF Inside
  <2>4. CASE Store(p)
    <3>1. at[p].op = "fleet"
      BY <1>1, <2>0, <2>4 DEF Store, Wired, InFleet
    <3> QED
      BY <1>1, <2>4, <3>1, StoreInv
  <2>5. CASE CloseAllReturn(p)
    BY <1>1, <2>5, CloseAllReturnInv
  <2> QED
    BY <2>3, <2>4, <2>5
<1>2. IInv /\ [Next]_vars =>
        [\A p \in Callers : at[p].op \in {"fleet", "abandon"} /\ at'[p].op = "none" => Kept(p)]_vars
  BY <1>1 DEF InFleet
<1> QED
  BY <1>2, Invariance, PTL DEF AllOrNothing, Spec
=============================================================================
