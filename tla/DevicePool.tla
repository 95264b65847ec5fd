----------------------------- MODULE DevicePool -----------------------------
(***************************************************************************)
(* device.Manager (src/device/manager.go), the pool of devices by name,    *)
(* with device.New as it runs inside it (dialBoth of src/device/connect.go)*)
(* and the loop of roslib.NewFleet (src/roslib.go).                        *)
(*                                                                         *)
(* m.mu is an RWMutex. A section that cannot block is one action; New      *)
(* dials with the write lock held, so the holder is a variable. IsAlive of *)
(* the fast path runs without the lock.                                    *)
(*                                                                         *)
(* A device is what is left of DeviceLifecycle here: its context and which *)
(* of its connections were opened and not closed. Close is one step. When  *)
(* the context ends through its parent, the device is dead, and nothing in *)
(* src/ closes its connections until somebody calls Close.                 *)
(***************************************************************************)
EXTENDS Naturals, FiniteSets

CONSTANTS Callers,   \* application goroutines
          Names,     \* keys of the map
          MaxDevs    \* bound: devices ever constructed

Devs  == 1..MaxDevs
Nil   == 0
Roles == {"stream", "command"}

ASSUME PoolAssumption == MaxDevs \in Nat /\ IsFiniteSet(Names) /\ IsFiniteSet(Callers)

VARIABLES lock,      \* the holders of m.mu across actions: nobody or one caller
          devices,   \* m.devices
          dev,       \* the RouterDevice structs
          at         \* the callers

vars == <<lock, devices, dev, at>>

DevRec  == [st : {"none", "new", "ready", "dropped"},  \* dropped: replaced, not closed
            ctx : {"live", "ended", "cancelled"},      \* ended: through the parent
            open : SUBSET Roles]
CallRec == [pc : {"idle", "check", "lock", "dial", "store", "sweep"},
            op : {"none", "get", "register", "closeall", "fleet", "abandon"},
            name : SUBSET Names,                       \* the name of the call, if any
            todo : SUBSET Names,                       \* the routers NewFleet has still to register
            dev : Devs \cup {Nil}]                     \* the local variable of the call

Idle == [pc |-> "idle", op |-> "none", name |-> {}, todo |-> {}, dev |-> Nil]
Call(op, n) == [Idle EXCEPT !.pc = "lock", !.op = op, !.name = {n}]

TypeOK == /\ lock \in SUBSET Callers /\ Cardinality(lock) <= 1
          /\ devices \in [Names -> Devs \cup {Nil}]
          /\ dev \in [Devs -> DevRec]
          /\ at \in [Callers -> CallRec]

Init == /\ lock = {}
        /\ devices = [n \in Names |-> Nil]
        /\ dev = [d \in Devs |-> [st |-> "none", ctx |-> "live", open |-> {}]]
        /\ at = [p \in Callers |-> Idle]

-----------------------------------------------------------------------------
(* The parts of the methods. A name with an underscore is a faulty variant *)
(* of the definition below it; no specification uses it.                   *)

\* RouterDevice.IsAlive: after New both connections are set.
Alive(d) == d # Nil /\ dev[d].ctx = "live"

\* The second check of GetOrConnect.
Recheck_None(d) == FALSE
Recheck(d) == Alive(d)

\* Register refuses a name whose device is alive.
Taken(n) == Alive(devices[n])

\* RouterDevice.Close on the devices ds.
Closed(ds) == [d \in Devs |-> IF d \in ds THEN [dev[d] EXCEPT !.ctx = "cancelled", !.open = {}]
                                          ELSE dev[d]]

\* The stale device of GetOrConnect.
Stale(n) == {devices[n]} \ {Nil}

\* dialBoth closes the first connection when the second dial fails; New cancels.
Failed_Open(d) == [dev EXCEPT ![d].ctx = "cancelled"]
Failed(d) == [dev EXCEPT ![d].ctx = "cancelled", ![d].open = {}]

\* m.mu.Lock(), as opposed to the read lock.
Lockable_Shared == TRUE
Lockable == lock = {}

\* Every path out of a method unlocks (defer m.mu.Unlock()).
Unlocked_Not(p) == lock
Unlocked(p) == lock \ {p}

\* What NewFleet does when Register has failed.
Abandoned_Keeps(c) == Idle
Abandoned(c) == [Idle EXCEPT !.pc = "lock", !.op = "abandon"]

\* What Register does with the entry it overwrites: nothing.
Overwritten(d) == IF d = Nil THEN dev ELSE [dev EXCEPT ![d].st = "dropped"]

-----------------------------------------------------------------------------
Unused == {d \in Devs : dev[d].st = "none"}

\* A call that may dial starts only when the bound leaves it a device, and nobody
\* else uses the manager before NewFleet has returned it.
Calls == {p \in Callers : /\ at[p].op \in {"get", "register"}
                          /\ at[p].pc \in {"check", "lock"} \/ at[p].dev = Nil}
Starts(p, k) == /\ at[p].pc = "idle"
                /\ \A q \in Callers : at[q].op \notin {"fleet", "abandon"}
                /\ Cardinality(Calls) + k <= Cardinality(Unused)

\* The fast path: the map is read under the read lock ...
GetOrConnect(p, n) ==
    /\ Starts(p, 1) /\ lock = {}
    /\ at' = [at EXCEPT ![p] = [Call("get", n) EXCEPT !.pc = "check", !.dev = devices[n]]]
    /\ UNCHANGED <<lock, devices, dev>>

\* ... and the device is asked after the unlock.
GetCheck(p) ==
    /\ at[p].pc = "check"
    /\ at' = [at EXCEPT ![p] = IF Alive(at[p].dev) THEN Idle
                               ELSE [@ EXCEPT !.pc = "lock", !.dev = Nil]]
    /\ UNCHANGED <<lock, devices, dev>>

\* The slow path up to New: check again, close and delete the dead device.
GetLock(p) ==
    /\ at[p].pc = "lock" /\ at[p].op = "get" /\ Lockable
    /\ \E n \in at[p].name :
         \/ /\ Recheck(devices[n])
            /\ at' = [at EXCEPT ![p] = Idle]
            /\ UNCHANGED <<lock, devices, dev>>
         \/ /\ ~Recheck(devices[n])
            /\ lock' = lock \cup {p}
            /\ dev' = Closed(Stale(n))
            /\ devices' = [devices EXCEPT ![n] = Nil]
            /\ at' = [at EXCEPT ![p].pc = "dial"]

Register(p, n) ==
    /\ Starts(p, 1)
    /\ at' = [at EXCEPT ![p] = Call("register", n)]
    /\ UNCHANGED <<lock, devices, dev>>

\* roslib.NewFleet: a new manager, and Register for one router after the other.
NewFleet(p) ==
    /\ Starts(p, Cardinality(Names))
    /\ \A q \in Callers : at[q].pc = "idle"
    /\ Unused = Devs
    /\ \E n \in Names : at' = [at EXCEPT ![p] = [Call("fleet", n) EXCEPT !.todo = Names \ {n}]]
    /\ UNCHANGED <<lock, devices, dev>>

\* Register up to New. The order of the routers is that of the configuration.
RegisterLock(p) ==
    /\ at[p].pc = "lock" /\ at[p].op \in {"register", "fleet"} /\ Lockable
    /\ \E n \in at[p].name :
         \/ /\ Taken(n)
            /\ at' = [at EXCEPT ![p] = IF @.op = "fleet" THEN Abandoned(@) ELSE Idle]
            /\ UNCHANGED lock
         \/ /\ ~Taken(n)
            /\ lock' = lock \cup {p}
            /\ at' = [at EXCEPT ![p].pc = "dial"]
    /\ UNCHANGED <<devices, dev>>

-----------------------------------------------------------------------------
\* New, under the write lock: the context, then dialOne for the stream connection ...
DialStream(p) ==
    /\ at[p].pc = "dial" /\ at[p].dev = Nil
    /\ \E d \in Unused :
         /\ \A e \in Unused : d <= e
         /\ dev' = [dev EXCEPT ![d].st = "new", ![d].open = {"stream"}]
         /\ at' = [at EXCEPT ![p].dev = d]
    /\ UNCHANGED <<lock, devices>>

\* ... and for the command connection.
DialCommand(p) ==
    /\ at[p].pc = "dial" /\ at[p].dev # Nil /\ Alive(at[p].dev)
    /\ dev' = [dev EXCEPT ![at[p].dev].open = Roles]
    /\ at' = [at EXCEPT ![p].pc = "store"]
    /\ UNCHANGED <<lock, devices>>

\* A dial fails: New and the method return the error; NewFleet closes everything.
DialFail(p) ==
    /\ at[p].pc = "dial"
    /\ dev' = IF at[p].dev = Nil THEN dev ELSE Failed(at[p].dev)
    /\ lock' = Unlocked(p)
    /\ at' = [at EXCEPT ![p] = IF @.op = "fleet" THEN Abandoned(@) ELSE Idle]
    /\ UNCHANGED devices

\* m.devices[name] = dev. GetOrConnect has emptied the entry, Register overwrites it.
Store(p) ==
    /\ at[p].pc = "store"
    /\ \E n \in at[p].name :
         /\ devices' = [devices EXCEPT ![n] = at[p].dev]
         /\ dev' = [Overwritten(devices[n]) EXCEPT ![at[p].dev].st = "ready"]
    /\ \/ /\ at[p].todo = {}
          /\ at' = [at EXCEPT ![p] = Idle]
       \/ \E n \in at[p].todo :
            at' = [at EXCEPT ![p] = [Call("fleet", n) EXCEPT !.todo = at[p].todo \ {n}]]
    /\ lock' = Unlocked(p)

-----------------------------------------------------------------------------
Unregister(p, n) ==
    /\ Starts(p, 0) /\ Lockable /\ devices[n] # Nil
    /\ dev' = Closed({devices[n]})
    /\ devices' = [devices EXCEPT ![n] = Nil]
    /\ UNCHANGED <<lock, at>>

\* CloseAll: one device after the other, under the lock.
CloseAll(p) ==
    /\ Starts(p, 0)
    /\ at' = [at EXCEPT ![p] = [Idle EXCEPT !.pc = "lock", !.op = "closeall"]]
    /\ UNCHANGED <<lock, devices, dev>>

CloseAllLock(p) ==
    /\ at[p].pc = "lock" /\ at[p].op \in {"closeall", "abandon"} /\ Lockable
    /\ lock' = lock \cup {p}
    /\ at' = [at EXCEPT ![p].pc = "sweep"]
    /\ UNCHANGED <<devices, dev>>

CloseAllNext(p) ==
    /\ at[p].pc = "sweep"
    /\ \E n \in Names : /\ devices[n] # Nil
                        /\ dev' = Closed({devices[n]})
                        /\ devices' = [devices EXCEPT ![n] = Nil]
    /\ UNCHANGED <<lock, at>>

CloseAllReturn(p) ==
    /\ at[p].pc = "sweep" /\ \A n \in Names : devices[n] = Nil
    /\ lock' = Unlocked(p)
    /\ at' = [at EXCEPT ![p] = Idle]
    /\ UNCHANGED <<devices, dev>>
-----------------------------------------------------------------------------
\* The application closes a device it got from the pool.
AppClose(d) ==
    /\ dev[d].st = "ready" /\ dev[d].ctx # "cancelled"
    /\ dev' = Closed({d})
    /\ UNCHANGED <<lock, devices, at>>

\* The context given to New is cancelled.
ParentDone(d) ==
    /\ dev[d].st \in {"new", "ready"} /\ Alive(d)
    /\ dev' = [dev EXCEPT ![d].ctx = "ended"]
    /\ UNCHANGED <<lock, devices, at>>

Entry(p)  == GetLock(p) \/ RegisterLock(p) \/ CloseAllLock(p)
Inside(p) == \/ GetCheck(p) \/ DialStream(p) \/ DialCommand(p) \/ DialFail(p) \/ Store(p)
             \/ CloseAllNext(p) \/ CloseAllReturn(p)
Calling(p) == \/ NewFleet(p) \/ CloseAll(p)
              \/ \E n \in Names : GetOrConnect(p, n) \/ Register(p, n) \/ Unregister(p, n)

Next == \/ \E p \in Callers : Calling(p) \/ Entry(p) \/ Inside(p)
        \/ \E d \in Devs : AppClose(d) \/ ParentDone(d)

\* A dial ends, by its timeout at the latest, and a waiting writer gets the lock:
\* a sync.RWMutex keeps new readers out and hands over to the longest waiter.
Fairness == \A p \in Callers : WF_vars(Inside(p)) /\ SF_vars(Entry(p))

Spec     == Init /\ [][Next]_vars
FairSpec == Spec /\ Fairness

-----------------------------------------------------------------------------
InHand(d) == \E p \in Callers : at[p].dev = d /\ at[p].pc \in {"dial", "store"}
Listed(d) == \E n \in Names : devices[n] = d

\* No connection is lost (GetOrConnect, Register, Unregister, CloseAll and the error
\* paths of New): whatever is open belongs to a device in the map or to the one
\* that the holder of the lock is making. The exception is a dead device that
\* Register has overwritten: it is out of reach with its connections open.
ConnsOwned == \A d \in Devs : dev[d].open # {} =>
                 Listed(d) \/ InHand(d) \/ (dev[d].st = "dropped" /\ ~Alive(d))

\* Double-checked locking (GetOrConnect): the slow path never closes a device that
\* is alive, so a device that another goroutine has just made and returned under
\* this name survives.
LiveIsKept == [][\A p \in Callers : GetLock(p) => \A d \in Devs : Alive(d) => Alive(d)']_vars

\* NewFleet: when it returns, it has made a device for every router, or every
\* connection it opened is closed again ("all-or-nothing").
AllOrNothing ==
    [][\A p \in Callers :
         at[p].op \in {"fleet", "abandon"} /\ at'[p].op = "none" =>
             \/ \A n \in Names : devices'[n] # Nil
             \/ \A d \in Devs : dev'[d].open = {}]_vars

\* Every call of the pool returns: the lock is released on every path, the error
\* returns included.
CallsReturn == \A p \in Callers : at[p].pc # "idle" ~> at[p].pc = "idle"
=============================================================================
