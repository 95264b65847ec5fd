--------------------------- MODULE Sequential_proofs ---------------------------
(***************************************************************************)
(* Proofs about the parts that have no concurrency of their own: Setup,    *)
(* for every environment, any number of routers and all values of the      *)
(* settings; and Builder with Decode, for every reply, every quantity in   *)
(* every notation, and all chains of calls. The two share no state.        *)
(*                                                                         *)
(* Decode and Builder compute by recursion over texts and words. What they *)
(* compute is proved by induction, in the form of sets: a set that has 0,  *)
(* and n + 1 for every n it has, has all natural numbers (Induction), and  *)
(* likewise for sequences (SeqInduction).                                  *)
(***************************************************************************)
EXTENDS Setup, Builder, SequenceTheorems, WellFoundedInduction, TLAPS

-----------------------------------------------------------------------------
(* Starting up.                                                            *)

Config == IF mode = "single" THEN SingleConfig ELSE FleetConfig

Options(k) == IF mode = "single" THEN ToDeviceOptions(RouterConfig(k, SingleDefault), Config)
              ELSE FleetOptions(RouterConfig(k, FleetDefault), Config)

\* The configuration is that of the environment.
Loaded ==
    /\ cfg # None => cfg = Config /\ (mode = "fleet" => FleetComplete)
    /\ pc = "loaded" => cfg = (IF mode = "single" \/ FleetComplete THEN Config ELSE None)
    /\ pc = "start" => cfg = None

\* How far the constructor is: the entries before `next` have a device, each its own.
Progress ==
    /\ pc \in {"start", "loaded"} => client = "none" /\ devices = Empty /\ next = 1
    /\ pc \in {"register", "up"} =>
          /\ cfg # None /\ Sufficient
          /\ client = (IF cfg.shared.influx THEN "open" ELSE "none")
          /\ \A k \in Keys : devices[k] # None <=>
                \E i \in DOMAIN cfg.entries : i < next /\ cfg.entries[i].id = k
          /\ \A i, j \in DOMAIN cfg.entries :
                i < j /\ j < next => cfg.entries[i].id # cfg.entries[j].id
    /\ pc = "register" => next \in DOMAIN cfg.entries
    /\ pc = "up" => next = Len(cfg.entries) + 1
    /\ pc = "failed" => devices = Empty /\ client # "open" /\ (cause = "config" <=> ~Sufficient)
                        /\ (cause = "duplicate" => Repeated)

\* The options of a device are those the environment gives its router.
Given ==
    \A k \in Keys : devices[k] # None =>
        /\ devices[k] = Options(k)
        /\ mode = "single" <=> k = Single

IInv == TypeOK /\ Loaded /\ Progress /\ Given
-----------------------------------------------------------------------------
(* What the loaders make of the environment.                               *)

LEMMA NoneApart ==
    /\ \A a \in Addresses : a # None
    /\ \A k \in Keys : k # None
    /\ \A o \in OptionsType : o # None
    /\ \A c \in ConfigType : c # None
BY NoneAssumption

LEMMA EnvTyped ==
    ASSUME env \in Environment
    PROVE  /\ env.number \in [Numbers -> Int \cup {Unset, Bad}]
           /\ env.router \in [{EnvName[k] : k \in Keys} ->
                                  [address : Addresses \cup {None}, tls : Flags]]
           /\ env.list \in Seq(Routers)
           /\ env.host \in BOOLEAN /\ env.database \in BOOLEAN
BY DEF Environment

LEMMA DefaultsTyped ==
    SingleDefault \in [Numbers -> Int] /\ FleetDefault \in [Numbers -> Int]
BY DEF SingleDefault, FleetDefault, Numbers

LEMMA RouterConfigTyped ==
    ASSUME env \in Environment, NEW k \in Keys, NEW d \in [Numbers -> Int]
    PROVE  /\ RouterConfig(k, d) \in EntryType
           /\ RouterConfig(k, d).id = k
           /\ RouterConfig(k, d).address = env.router[EnvName[k]].address
<1>1. env.router[EnvName[k]] \in [address : Addresses \cup {None}, tls : Flags]
  BY EnvTyped
<1>2. \A n \in Numbers : envNumber(n, d[n]) \in Int
  BY EnvTyped DEF envNumber
<1> QED
  BY <1>1, <1>2 DEF RouterConfig, EntryType, envBool

LEMMA SharedTyped ==
    ASSUME env \in Environment
    PROVE  /\ Shared \in [cache : BOOLEAN, influx : BOOLEAN, host : BOOLEAN, database : BOOLEAN]
           /\ Shared.influx <=> env.influx = "true"
           /\ Shared.cache <=> env.cache = "true"
           /\ Shared.host = env.host /\ Shared.database = env.database
BY EnvTyped DEF Shared, envBool

LEMMA SingleTyped ==
    ASSUME env \in Environment
    PROVE  /\ SingleConfig \in ConfigType
           /\ SingleConfig.shared = Shared
           /\ DOMAIN SingleConfig.entries = {1} /\ Len(SingleConfig.entries) = 1
           /\ SingleConfig.entries[1] = RouterConfig(Single, SingleDefault)
<1>1. RouterConfig(Single, SingleDefault) \in EntryType
  BY RouterConfigTyped, DefaultsTyped DEF Keys
<1> QED
  BY <1>1, SharedTyped DEF SingleConfig, ConfigType

LEMMA FleetTyped ==
    ASSUME env \in Environment
    PROVE  /\ FleetConfig \in ConfigType
           /\ FleetConfig.shared = Shared
           /\ DOMAIN FleetConfig.entries = DOMAIN env.list
           /\ Len(FleetConfig.entries) = Len(env.list)
           /\ \A i \in DOMAIN env.list :
                 /\ env.list[i] \in Routers
                 /\ FleetConfig.entries[i] = RouterConfig(env.list[i], FleetDefault)
<1>1. \A i \in DOMAIN env.list : env.list[i] \in Routers
  BY EnvTyped
<1>2. \A i \in DOMAIN env.list : RouterConfig(env.list[i], FleetDefault) \in EntryType
  BY <1>1, RouterConfigTyped, DefaultsTyped DEF Keys
<1>3. Len(env.list) \in Nat /\ DOMAIN env.list = 1..Len(env.list)
  BY EnvTyped
<1>4. [i \in DOMAIN env.list |-> RouterConfig(env.list[i], FleetDefault)] \in Seq(EntryType)
  BY <1>2, <1>3
<1> QED
  BY <1>1, <1>3, <1>4, SharedTyped DEF FleetConfig, ConfigType

\* The loaders and the validation let through what the mode needs, and no less.
LEMMA AcceptableIsSufficient ==
    ASSUME IInv, pc = "loaded" PROVE Acceptable <=> Sufficient
<1>1. env \in Environment /\ mode \in {"single", "fleet"}
  BY DEF IInv, TypeOK
<1>2. CASE mode = "single"
  <2>1. cfg = SingleConfig
    BY <1>2 DEF IInv, Loaded, Config
  <2>2. cfg.entries[1].address = env.router[EnvName[Single]].address
    BY <1>1, <2>1, SingleTyped, RouterConfigTyped, DefaultsTyped DEF Keys
  <2>3. InfluxGiven(cfg) <=> (env.influx = "true" => env.host /\ env.database)
    BY <1>1, <2>1, SingleTyped, SharedTyped DEF InfluxGiven
  <2> QED
    BY <1>2, <2>2, <2>3 DEF Acceptable, Validate, Sufficient
<1>3. CASE mode = "fleet"
  <2>1. FleetConfig # None
    BY <1>1, FleetTyped, NoneAssumption
  <2>2. Acceptable <=> FleetComplete
    BY <1>3, <2>1 DEF IInv, Loaded, Config, Acceptable
  <2>3. InfluxGiven(FleetConfig) <=> (env.influx = "true" => env.host /\ env.database)
    BY <1>1, FleetTyped, SharedTyped DEF InfluxGiven
  <2>4. \A i \in DOMAIN env.list :
            FleetConfig.entries[i].address = env.router[EnvName[env.list[i]]].address
    BY <1>1, FleetTyped, RouterConfigTyped, DefaultsTyped DEF Keys
  <2> QED
    BY <1>3, <2>2, <2>3, <2>4 DEF FleetComplete, Sufficient, ListedIDs
<1> QED
  BY <1>1, <1>2, <1>3

\* Every entry of the configuration in use is that of its router, with an address.
LEMMA EntriesGiven ==
    ASSUME IInv, pc \in {"register", "up"}, NEW i \in DOMAIN cfg.entries
    PROVE  /\ cfg.entries[i].id \in Keys
           /\ cfg.entries[i].id = Single <=> mode = "single"
           /\ cfg.entries[i] = RouterConfig(cfg.entries[i].id,
                                 IF mode = "single" THEN SingleDefault ELSE FleetDefault)
           /\ cfg.entries[i].address \in Addresses
<1>1. env \in Environment /\ mode \in {"single", "fleet"} /\ cfg = Config /\ Sufficient
  BY DEF IInv, TypeOK, Loaded, Progress
<1>2. CASE mode = "single"
  <2>1. cfg.entries[i] = RouterConfig(Single, SingleDefault)
    BY <1>1, <1>2, SingleTyped DEF Config
  <2> QED
    BY <1>1, <1>2, <2>1, RouterConfigTyped, DefaultsTyped DEF Keys, EntryType, Sufficient
<1>3. CASE mode = "fleet"
  <2>1. i \in DOMAIN env.list /\ env.list[i] \in Routers
        /\ cfg.entries[i] = RouterConfig(env.list[i], FleetDefault)
    BY <1>1, <1>3, FleetTyped DEF Config
  <2>2. env.list[i] \in Keys /\ env.list[i] # Single /\ env.list[i] \in ListedIDs
    BY <2>1, NamesAssumption DEF Keys, ListedIDs
  <2>3. /\ cfg.entries[i] \in EntryType /\ cfg.entries[i].id = env.list[i]
        /\ cfg.entries[i].address = env.router[EnvName[env.list[i]]].address
    BY <1>1, <2>1, <2>2, RouterConfigTyped, DefaultsTyped
  <2>4. cfg.entries[i].address \in Addresses
    BY <1>1, <1>3, <2>2, <2>3 DEF EntryType, Sufficient
  <2> QED
    BY <1>3, <2>1, <2>2, <2>3, <2>4
<1> QED
  BY <1>1, <1>2, <1>3

\* The fields of the options that a router gets.
LEMMA OptionsFields ==
    ASSUME env \in Environment, mode \in {"single", "fleet"}, NEW k \in Keys,
           mode = "fleet" => k # Single
    PROVE  /\ Options(k).id = (IF mode = "single" THEN None ELSE k)
           /\ Options(k).address = env.router[EnvName[k]].address
           /\ Options(k).number = [n \in Numbers |->
                 envNumber(n, (IF mode = "single" THEN SingleDefault ELSE FleetDefault)[n])]
           /\ Options(k).cache <=> env.cache = "true"
           /\ env.router[EnvName[k]].address # None => Options(k) \in OptionsType
<1>1. Config.shared.cache \in BOOLEAN /\ (Config.shared.cache <=> env.cache = "true")
  BY SingleTyped, FleetTyped, SharedTyped DEF Config
<1> DEFINE d == IF mode = "single" THEN SingleDefault ELSE FleetDefault
           e == RouterConfig(k, d)
<1>2. d \in [Numbers -> Int]
  BY DefaultsTyped
<1>3. /\ e \in EntryType /\ e.id = k /\ e.address = env.router[EnvName[k]].address
      /\ e.number = [n \in Numbers |-> envNumber(n, d[n])]
  BY <1>2, RouterConfigTyped DEF RouterConfig
<1>4. Options(k) = [id |-> IF mode = "single" THEN None ELSE k, address |-> e.address,
                    tls |-> IF mode = "single" THEN e.tls ELSE FALSE,
                    number |-> e.number, cache |-> Config.shared.cache]
  <2>1. CASE mode = "single"
    BY <2>1 DEF Options, ToDeviceOptions
  <2>2. CASE mode = "fleet"
    <3>1. Options(k) = FleetOptions(e, Config)
      BY <2>2 DEF Options
    <3>2. FleetOptions(e, Config) =
            [id |-> e.id, address |-> e.address, tls |-> FALSE, number |-> e.number,
             cache |-> Config.shared.cache]
      BY DEF FleetOptions
    <3>3. mode # "single" /\ e.id = k
      BY <1>3, <2>2
    <3> HIDE DEF e
    <3> QED
      BY <3>1, <3>2, <3>3
  <2> QED
    BY <2>1, <2>2
<1> HIDE DEF d, e
<1>5. e.address \in Addresses \cup {None} /\ e.tls \in BOOLEAN /\ e.number \in [Numbers -> Int]
  BY <1>3 DEF EntryType
<1>6. (IF mode = "single" THEN None ELSE k) \in Routers \cup {None}
  BY DEF Keys
<1>7. Options(k).number = [n \in Numbers |-> envNumber(n, d[n])]
  BY <1>3, <1>4
<1>8. env.router[EnvName[k]].address # None => Options(k) \in OptionsType
  <2> SUFFICES ASSUME env.router[EnvName[k]].address # None
               PROVE  Options(k) \in OptionsType
    OBVIOUS
  <2>1. e.address \in Addresses
    BY <1>3, <1>5
  <2> DEFINE i == IF mode = "single" THEN None ELSE k
             t == IF mode = "single" THEN e.tls ELSE FALSE
  <2>2. i \in Routers \cup {None} /\ t \in BOOLEAN
    BY <1>5, <1>6
  <2>3. Options(k) = [id |-> i, address |-> e.address, tls |-> t, number |-> e.number,
                      cache |-> Config.shared.cache]
    BY <1>4
  <2> HIDE DEF i, t
  <2> QED
    BY <1>1, <1>5, <2>1, <2>2, <2>3 DEF OptionsType
<1> QED
  BY <1>1, <1>3, <1>4, <1>7, <1>8 DEF d

LEMMA InitInv == Init => IInv
<1> SUFFICES ASSUME Init PROVE IInv
  OBVIOUS
<1>1. env \in Environment
  BY EnvironmentAssumption DEF Init
<1>2. TypeOK
  BY <1>1 DEF Init, TypeOK, Empty
<1>3. Loaded /\ Progress /\ Given
  BY DEF Init, Loaded, Progress, Given, Empty
<1> QED
  BY <1>2, <1>3 DEF IInv

-----------------------------------------------------------------------------
(* Each step.                                                              *)

\* What the environment means does not change.
LEMMA SameEnvironment ==
    ASSUME UNCHANGED <<env, mode>>
    PROVE  /\ Config' = Config /\ FleetComplete' = FleetComplete /\ Sufficient' = Sufficient
           /\ Repeated' = Repeated /\ \A k \in Keys : Options(k)' = Options(k)
BY DEF Config, Repeated, FleetComplete, Sufficient, Options, SingleConfig, FleetConfig, RouterConfig,
       envNumber, Shared, InfluxGiven, ListedIDs, ToDeviceOptions, FleetOptions

LEMMA LoadFromEnvInv == ASSUME IInv, LoadFromEnv PROVE IInv'
<1>1. env \in Environment
  BY DEF IInv, TypeOK
<1>2. TypeOK'
  BY <1>1, SingleTyped DEF IInv, TypeOK, LoadFromEnv
<1>3. Loaded'
  BY SameEnvironment DEF LoadFromEnv, Loaded, Config
<1>4. Progress' /\ Given'
  BY SameEnvironment DEF IInv, LoadFromEnv, Progress, Given, Empty
<1> QED
  BY <1>2, <1>3, <1>4 DEF IInv

LEMMA LoadFleetFromEnvInv == ASSUME IInv, LoadFleetFromEnv PROVE IInv'
<1>1. env \in Environment
  BY DEF IInv, TypeOK
<1>2. TypeOK'
  BY <1>1, FleetTyped DEF IInv, TypeOK, LoadFleetFromEnv
<1>3. Loaded'
  BY SameEnvironment DEF LoadFleetFromEnv, Loaded, Config
<1>4. Progress' /\ Given'
  BY SameEnvironment DEF IInv, LoadFleetFromEnv, Progress, Given, Empty
<1> QED
  BY <1>2, <1>3, <1>4 DEF IInv

LEMMA RefuseInv == ASSUME IInv, Refuse PROVE IInv'
<1>1. ~Sufficient
  BY AcceptableIsSufficient DEF Refuse
<1>2. TypeOK'
  BY DEF IInv, TypeOK, Refuse
<1>3. Loaded'
  BY SameEnvironment DEF IInv, Loaded, Refuse
<1>4. Progress' /\ Given'
  BY <1>1, SameEnvironment DEF IInv, Refuse, Progress, Given, Empty
<1> QED
  BY <1>2, <1>3, <1>4 DEF IInv

LEMMA NewClientInv == ASSUME IInv, NewClient PROVE IInv'
<1>1. Sufficient /\ env \in Environment /\ mode \in {"single", "fleet"}
  BY AcceptableIsSufficient DEF NewClient, IInv, TypeOK
<1>2. cfg # None /\ cfg = Config
  <2>1. CASE mode = "single"
    BY <1>1, <2>1, SingleTyped, NoneAssumption DEF IInv, Loaded, NewClient, Config
  <2>2. CASE mode = "fleet"
    BY <2>2 DEF IInv, Loaded, NewClient, Acceptable
  <2> QED
    BY <1>1, <2>1, <2>2
<1>3. cfg.shared = Shared /\ 1 \in DOMAIN cfg.entries
      /\ \A i \in DOMAIN cfg.entries : ~(i < 1)
  <2>1. CASE mode = "single"
    BY <1>1, <1>2, <2>1, SingleTyped DEF Config
  <2>2. CASE mode = "fleet"
    <3>1. env.list # <<>> /\ env.list \in Seq(Routers)
      BY <1>1, <2>2, EnvTyped DEF Sufficient
    <3>2. cfg.shared = Shared /\ DOMAIN cfg.entries = DOMAIN env.list
      BY <1>1, <1>2, <2>2, FleetTyped DEF Config
    <3> QED
      BY <3>1, <3>2
  <2> QED
    BY <1>1, <2>1, <2>2
<1>4. cfg.shared.influx => cfg.shared.host /\ cfg.shared.database
  BY <1>1, <1>3, SharedTyped DEF Sufficient
<1>5. TypeOK'
  BY <1>1 DEF IInv, TypeOK, NewClient
<1>6. Loaded'
  BY SameEnvironment DEF IInv, Loaded, NewClient
<1>7. Progress'
  BY <1>1, <1>2, <1>3, <1>4, SameEnvironment DEF IInv, TypeOK, Progress, NewClient, Empty
<1>8. Given'
  BY SameEnvironment DEF IInv, NewClient, Given
<1> QED
  BY <1>5, <1>6, <1>7, <1>8 DEF IInv

LEMMA RegisterInv == ASSUME IInv, Register PROVE IInv'
<1> DEFINE i == next
           k == Entry.id
<1>1. /\ env \in Environment /\ mode \in {"single", "fleet"} /\ cfg = Config /\ cfg # None
      /\ i \in DOMAIN cfg.entries /\ Sufficient /\ devices \in [Keys -> OptionsType \cup {None}]
  BY DEF IInv, TypeOK, Loaded, Progress, Register
<1>2. /\ k \in Keys /\ Entry.address \in Addresses
      /\ k = Single <=> mode = "single"
      /\ Entry = RouterConfig(k, IF mode = "single" THEN SingleDefault ELSE FleetDefault)
  BY <1>1, EntriesGiven DEF Register, Entry
<1>3. devices' = [devices EXCEPT ![k] = Options(k)]
  BY <1>1, <1>2 DEF Register, Options
<1>4. cfg \in ConfigType /\ cfg.entries \in Seq(EntryType) /\ cfg.shared.cache \in BOOLEAN
  BY <1>1 DEF IInv, TypeOK, ConfigType
<1>5. Entry \in EntryType
  BY <1>1, <1>4 DEF Entry
<1>6. Options(k) \in OptionsType /\ Options(k) # None
  <2>1. env.router[EnvName[k]].address = Entry.address
    BY <1>1, <1>2, RouterConfigTyped, DefaultsTyped
  <2>2. env.router[EnvName[k]].address # None
    BY <1>2, <2>1, NoneApart
  <2>3. mode = "fleet" => k # Single
    BY <1>2
  <2>4. Options(k) \in OptionsType
    BY <1>1, <1>2, <2>2, <2>3, OptionsFields
  <2> QED
    BY <2>4, NoneApart
<1>7. i \in 1..Len(cfg.entries) /\ Len(cfg.entries) \in Nat
  BY <1>1, <1>4
<1>8. TypeOK'
  BY <1>2, <1>3, <1>6, <1>7 DEF IInv, TypeOK, Register
<1>9. Loaded'
  BY SameEnvironment DEF IInv, Loaded, Register
<1>10. Progress'
  <2>1. \A j \in Keys : devices'[j] # None <=>
            \E e \in DOMAIN cfg.entries : e < i + 1 /\ cfg.entries[e].id = j
    <3> TAKE j \in Keys
    <3>1. devices[j] # None <=> \E e \in DOMAIN cfg.entries : e < i /\ cfg.entries[e].id = j
      BY DEF IInv, Progress, Register
    <3>2. \A e \in DOMAIN cfg.entries : e < i + 1 <=> e < i \/ e = i
      BY <1>4, <1>7
    <3>3. cfg.entries[i].id = k
      BY DEF Entry
    <3>4. devices'[j] # None <=> (devices[j] # None \/ j = k)
      BY <1>1, <1>2, <1>3, <1>6
    <3> QED
      BY <1>1, <3>1, <3>2, <3>3, <3>4
  <2>2. next' = i + 1 /\ cfg' = cfg /\ client' = client /\ Sufficient'
        /\ pc' \in {"register", "up"}
        /\ pc' = (IF i = Len(cfg.entries) THEN "up" ELSE "register")
    BY <1>1, SameEnvironment DEF Register
  <2>3. pc' = "register" => i + 1 \in DOMAIN cfg.entries
    BY <1>4, <1>7, <2>2
  <2>4. client = (IF cfg.shared.influx THEN "open" ELSE "none")
    BY DEF IInv, Progress, Register
  <2>5. \A e, f \in DOMAIN cfg.entries :
            e < f /\ f < i + 1 => cfg.entries[e].id # cfg.entries[f].id
    <3> SUFFICES ASSUME NEW e \in DOMAIN cfg.entries, NEW f \in DOMAIN cfg.entries,
                        e < f, f < i + 1
                 PROVE  cfg.entries[e].id # cfg.entries[f].id
      OBVIOUS
    <3>1. CASE f < i
      BY <3>1 DEF IInv, Progress, Register
    <3>2. CASE f = i
      <4>1. devices[k] = None
        BY DEF Register, Taken
      <4>2. cfg.entries[e].id # k
        BY <1>2, <3>2, <4>1 DEF IInv, Progress, Register
      <4> QED
        BY <3>2, <4>2 DEF Entry
    <3> QED
      BY <1>4, <1>7, <3>1, <3>2
  <2> QED
    BY <1>1, <2>1, <2>2, <2>3, <2>4, <2>5 DEF Progress
<1>11. Given'
  BY <1>1, <1>2, <1>3, SameEnvironment DEF IInv, Given, Register
<1> QED
  BY <1>8, <1>9, <1>10, <1>11 DEF IInv

LEMMA RegisterFailsInv == ASSUME IInv, RegisterFails PROVE IInv'
<1>1. /\ env \in Environment /\ mode \in {"single", "fleet"} /\ cfg # None
      /\ next \in DOMAIN cfg.entries /\ Sufficient /\ devices \in [Keys -> OptionsType \cup {None}]
  BY DEF IInv, TypeOK, Progress, RegisterFails
<1>2. Entry.address # None
  BY <1>1, EntriesGiven, NoneAssumption DEF RegisterFails, Entry
<1>3. devices' = Empty
  <2>1. CASE mode = "fleet"
    BY <2>1 DEF RegisterFails
  <2>2. CASE mode = "single"
    <3>1. cfg = SingleConfig
      BY <1>1, <2>2 DEF IInv, Loaded, Config
    <3>2. next = 1 /\ \A e \in DOMAIN cfg.entries : ~(e < next)
      BY <1>1, <3>1, SingleTyped
    <3>3. \A k \in Keys : devices[k] = None
      BY <1>1, <3>2 DEF IInv, Progress, RegisterFails
    <3> QED
      BY <1>1, <2>2, <3>3 DEF RegisterFails, Empty
  <2> QED
    BY <1>1, <2>1, <2>2
<1>4. TypeOK'
  BY <1>3 DEF IInv, TypeOK, RegisterFails, Released, Empty
<1>5. Loaded'
  BY SameEnvironment DEF IInv, Loaded, RegisterFails
<1>6. Taken => Repeated
  <2> SUFFICES ASSUME Taken PROVE Repeated
    OBVIOUS
  <2>1. Entry.id \in Keys
    BY <1>1, EntriesGiven DEF RegisterFails, Entry
  <2>2. PICK e \in DOMAIN cfg.entries : e < next /\ cfg.entries[e].id = Entry.id
    BY <2>1 DEF Taken, IInv, Progress, RegisterFails
  <2>3. mode = "fleet"
    <3>1. ASSUME mode = "single" PROVE FALSE
      <4>1. cfg = SingleConfig
        BY <1>1, <3>1 DEF IInv, Loaded, Config
      <4> QED
        BY <1>1, <2>2, <4>1, SingleTyped
    <3> QED
      BY <1>1, <3>1
  <2>4. /\ DOMAIN cfg.entries = DOMAIN env.list
        /\ \A i \in DOMAIN env.list : cfg.entries[i].id = env.list[i]
    <3>1. cfg = FleetConfig
      BY <1>1, <2>3 DEF IInv, Loaded, Config
    <3> QED
      BY <1>1, <3>1, FleetTyped, RouterConfigTyped, DefaultsTyped DEF Keys
  <2>5. env.list[e] = env.list[next] /\ e \in DOMAIN env.list /\ next \in DOMAIN env.list
    BY <1>1, <2>2, <2>4 DEF Entry
  <2> QED
    BY <2>2, <2>3, <2>5 DEF Repeated
<1>7. Progress' /\ Given'
  BY <1>1, <1>2, <1>3, <1>6, SameEnvironment DEF Progress, Given, RegisterFails, Released, Empty,
     Repeated
<1> QED
  BY <1>4, <1>5, <1>7 DEF IInv

\* Every step keeps the invariant.
LEMMA NextInv == IInv /\ [Next]_vars => IInv'
<1> SUFFICES ASSUME IInv, [Next]_vars PROVE IInv'
  OBVIOUS
<1>1. CASE UNCHANGED vars
  BY <1>1, SameEnvironment DEF vars, IInv, TypeOK, Loaded, Progress, Given
<1> QED
  BY <1>1, LoadFromEnvInv, LoadFleetFromEnvInv, RefuseInv, NewClientInv, RegisterInv,
     RegisterFailsInv DEF Next

\* The configuration and the devices are those of the environment, at every step of the
\* constructors.
THEOREM Invariant == Spec => []IInv
BY InitInv, NextInv, PTL DEF Spec

-----------------------------------------------------------------------------
(* What the invariant says.                                                *)

\* A setting of a device is the documented one, whichever defaults the loader filled in:
\* those of the fleet are zero, and the device replaces a zero.
LEMMA SettingsDocumented ==
    ASSUME IInv, NEW k \in Keys, devices[k] # None
    PROVE  Settings(devices[k]) = [n \in Numbers |-> Documented(n)]
<1> DEFINE d == IF mode = "single" THEN SingleDefault ELSE FleetDefault
<1>1. env.number \in [Numbers -> Int \cup {Unset, Bad}]
  BY EnvTyped DEF IInv, TypeOK
<1>2. devices[k].number = [n \in Numbers |-> envNumber(n, d[n])]
  <2>1. devices[k] = Options(k) /\ env \in Environment /\ mode \in {"single", "fleet"}
        /\ (mode = "fleet" => k # Single)
    BY DEF IInv, TypeOK, Given
  <2> QED
    BY <2>1, OptionsFields
<1>3. SUFFICES ASSUME NEW n \in Numbers
               PROVE  Settings(devices[k])[n] = Documented(n)
  BY DEF Settings
<1>4. d[n] \in Int /\ d[n] \in {SingleDefault[n], 0} /\ SingleDefault[n] \in Int
      /\ (n \in {"elapsed", "ttl"} => d[n] = SingleDefault[n])
      /\ (n \notin {"elapsed", "ttl"} => SingleDefault[n] > 0)
  BY DEF SingleDefault, FleetDefault, Numbers
<1> HIDE DEF d
<1>5. CASE env.number[n] \in {Unset, Bad}
  <2>1. devices[k].number[n] = d[n]
    BY <1>2, <1>5 DEF envNumber
  <2>2. Documented(n) = SingleDefault[n]
    BY <1>5, TextAssumption DEF Documented
  <2>3. CASE n \in {"elapsed", "ttl"}
    BY <1>4, <2>1, <2>2, <2>3 DEF Settings
  <2>4. CASE n \notin {"elapsed", "ttl"}
    BY <1>4, <2>1, <2>2, <2>4 DEF Settings, positiveOr
  <2> QED
    BY <2>3, <2>4
<1>6. CASE env.number[n] \in Int
  BY <1>2, <1>4, <1>6, TextAssumption DEF Settings, Documented, envNumber, positiveOr
<1> QED
  BY <1>1, <1>5, <1>6

\* Every device runs with the documented settings, on the address of its router, with an
\* ID of its own (LoadFromEnv, LoadFleetFromEnv, NewFromConfig, NewFleet, device.Options).
THEOREM SettingsAreDocumented == Spec => []DocumentedSettings
<1>1. IInv => DocumentedSettings
  <2> SUFFICES ASSUME IInv PROVE DocumentedSettings
    OBVIOUS
  <2>1. env \in Environment /\ mode \in {"single", "fleet"}
    BY DEF IInv, TypeOK
  <2>2. ASSUME NEW k \in Keys, devices[k] # None
        PROVE  /\ devices[k].address = env.router[EnvName[k]].address
               /\ devices[k].cache <=> env.cache = "true"
    <3>1. devices[k] = Options(k) /\ (mode = "fleet" => k # Single)
      BY <2>2 DEF IInv, Given
    <3> QED
      BY <2>1, <3>1, OptionsFields
  <2>3. ASSUME NEW j \in Keys, NEW k \in Keys, j # k, devices[j] # None, devices[k] # None
        PROVE  DeviceID(devices[j]) # DeviceID(devices[k])
    <3>1. mode = "fleet"
      BY <2>1, <2>3 DEF IInv, Given
    <3>2. devices[j].id = j /\ devices[k].id = k
      <4>1. devices[j] = Options(j) /\ devices[k] = Options(k) /\ j # Single /\ k # Single
        BY <2>3, <3>1 DEF IInv, Given
      <4> QED
        BY <2>1, <3>1, <4>1, OptionsFields
    <3> QED
      BY <2>3, <3>2, NoneAssumption DEF DeviceID
  <2> QED
    BY <2>2, <2>3, SettingsDocumented DEF DocumentedSettings
<1> QED
  BY <1>1, Invariant, PTL

\* Everything asked for is there after success, nothing after failure, and the check of the
\* configuration refuses exactly the environments that lack something; a fleet that names an
\* ID twice never comes up (Validate, NewClient, NewFromConfig, NewFleet).
THEOREM AllIsUpOrNothing == Spec => []UpOrNothing
<1>1. IInv => UpOrNothing
  <2> SUFFICES ASSUME IInv PROVE UpOrNothing
    OBVIOUS
  <2>1. env \in Environment /\ mode \in {"single", "fleet"}
    BY DEF IInv, TypeOK
  <2>2. ASSUME pc = "up"
        PROVE  /\ ~Repeated
               /\ {k \in Keys : devices[k] # None} =
                      IF mode = "single" THEN {Single} ELSE ListedIDs
               /\ client = "open" <=> env.influx = "true"
    <3>1. cfg = Config /\ next = Len(cfg.entries) + 1
          /\ client = (IF cfg.shared.influx THEN "open" ELSE "none")
          /\ \A k \in Keys : devices[k] # None <=>
                \E i \in DOMAIN cfg.entries : i < next /\ cfg.entries[i].id = k
      BY <2>2 DEF IInv, Loaded, Progress
    <3>2. CASE mode = "single"
      <4>1. /\ cfg.shared = Shared /\ DOMAIN cfg.entries = {1} /\ next = 2
            /\ Single \in Keys /\ cfg.entries[1].id = Single
        <5>1. cfg = SingleConfig /\ Single \in Keys
          BY <3>1, <3>2 DEF Config, Keys
        <5>2. RouterConfig(Single, SingleDefault).id = Single
          BY DEF RouterConfig
        <5>3. /\ SingleConfig.shared = Shared /\ DOMAIN SingleConfig.entries = {1}
              /\ Len(SingleConfig.entries) = 1
              /\ SingleConfig.entries[1] = RouterConfig(Single, SingleDefault)
          BY <2>1, SingleTyped
        <5>4. next = 2
          BY <3>1, <5>1, <5>3
        <5> QED
          BY <5>1, <5>2, <5>3, <5>4
      <4>2. \A k \in Keys : devices[k] # None <=> k = Single
        BY <3>1, <4>1
      <4>3. client = "open" <=> env.influx = "true"
        BY <2>1, <3>1, <4>1, SharedTyped
      <4> QED
        BY <3>2, <4>1, <4>2, <4>3 DEF Repeated
    <3>3. CASE mode = "fleet"
      <4>1. /\ DOMAIN cfg.entries = DOMAIN env.list /\ next = Len(env.list) + 1
            /\ cfg.shared = Shared
            /\ \A i \in DOMAIN env.list : env.list[i] \in Keys /\ cfg.entries[i].id = env.list[i]
        BY <2>1, <3>1, <3>3, FleetTyped, RouterConfigTyped, DefaultsTyped DEF Config, Keys
      <4>2. \A i \in DOMAIN env.list : i < next
        BY <2>1, <4>1, EnvTyped
      <4>3. ~Repeated
        <5>1. ASSUME NEW i \in DOMAIN env.list, NEW j \in DOMAIN env.list, i < j
              PROVE  env.list[i] # env.list[j]
          <6>1. i \in DOMAIN cfg.entries /\ j \in DOMAIN cfg.entries /\ j < next
            BY <4>1, <4>2
          <6>2. cfg.entries[i].id # cfg.entries[j].id
            <7>1. i \in Nat /\ j \in Nat /\ next \in Nat
              BY <2>1, <4>1, EnvTyped
            <7> QED
              BY <2>2, <5>1, <6>1, <7>1 DEF IInv, Progress
          <6>3. cfg.entries[i].id = env.list[i]
            BY <4>1
          <6>4. cfg.entries[j].id = env.list[j]
            BY <4>1
          <6> QED
            BY <6>2, <6>3, <6>4
        <5> QED
          BY <5>1 DEF Repeated
      <4>4. {k \in Keys : devices[k] # None} = ListedIDs
        <5>1. \A k \in Keys : devices[k] # None <=> \E i \in DOMAIN env.list : env.list[i] = k
          BY <3>1, <4>1, <4>2
        <5>2. ListedIDs \subseteq Keys
          BY <4>1 DEF ListedIDs
        <5> QED
          BY <5>1, <5>2 DEF ListedIDs
      <4>5. client = "open" <=> env.influx = "true"
        <5>1. cfg.shared.influx <=> env.influx = "true"
          <6>1. cfg.shared = Shared
            BY <4>1
          <6> QED
            BY <2>1, <6>1, SharedTyped
        <5> QED
          BY <3>1, <5>1
      <4> QED
        BY <3>3, <4>3, <4>4, <4>5
    <3> QED
      BY <2>1, <3>2, <3>3
  <2> QED
    BY <2>2 DEF IInv, Progress, UpOrNothing
<1> QED
  BY <1>1, Invariant, PTL

\* The types of the variables.
THEOREM TypeCorrect == Spec => []TypeOK
<1>1. IInv => TypeOK
  BY DEF IInv
<1> QED
  BY <1>1, Invariant, PTL

-----------------------------------------------------------------------------
(* Induction over the natural numbers, for sets instead of predicates.     *)

Less == OpToRel(<, Nat)

LEMMA LessIsLess == ASSUME NEW x \in Nat, NEW y \in Nat PROVE <<x, y>> \in Less <=> x < y
BY DEF Less, OpToRel

LEMMA Least == ASSUME NEW T, T \subseteq Nat, T # {} PROVE \E n \in T : \A m \in T : n <= m
<1>1. IsWellFoundedOn(Less, Nat)
  BY NatLessThanWellFounded DEF Less
<1>2. PICK n \in T : \A m \in T : <<m, n>> \notin Less
  BY <1>1, WFMin
<1>3. ASSUME NEW m \in T PROVE n <= m
  <2>1. ~(m < n)
    BY <1>2, LessIsLess
  <2> QED
    BY <2>1
<1> QED
  BY <1>3

LEMMA Induction ==
    ASSUME NEW S, 0 \in S, \A n \in Nat : n \in S => n + 1 \in S PROVE Nat \subseteq S
<1> SUFFICES ASSUME NEW k \in Nat, k \notin S PROVE FALSE
  OBVIOUS
<1> DEFINE T == {n \in Nat : n \notin S}
<1>1. T \subseteq Nat /\ T # {}
  OBVIOUS
<1> HIDE DEF T
<1>2. PICK n \in T : \A m \in T : n <= m
  BY <1>1, Least
<1> USE DEF T
<1>3. n # 0 /\ n - 1 \in Nat /\ n - 1 \notin T
  BY <1>2
<1> QED
  BY <1>2, <1>3

-----------------------------------------------------------------------------
(* Dropping and Total, from their recursive definitions.                   *)

Drops(f, m, seq, out) ==
    f = [n \in 0..m |->
            IF n = 0 THEN <<>>
            ELSE IF seq[n] \in out THEN f[n - 1] ELSE Append(f[n - 1], seq[n])]

LEMMA DropsExist == ASSUME NEW seq, NEW out PROVE \A m \in Nat : \E f : Drops(f, m, seq, out)
<1> DEFINE S == {m \in Nat : \E f : Drops(f, m, seq, out)}
<1>1. 0 \in S
  <2> DEFINE f == [n \in 0..0 |-> <<>>]
  <2>1. Drops(f, 0, seq, out)
    BY DEF Drops
  <2> QED
    BY <2>1
<1>2. ASSUME NEW m \in Nat, m \in S PROVE m + 1 \in S
  <2>1. PICK f : Drops(f, m, seq, out)
    BY <1>2
  <2> DEFINE g == [n \in 0..(m + 1) |->
                      IF n <= m THEN f[n]
                      ELSE IF seq[n] \in out THEN f[n - 1] ELSE Append(f[n - 1], seq[n])]
  <2>2. \A n \in 0..m : f[n] = IF n = 0 THEN <<>>
                               ELSE IF seq[n] \in out THEN f[n - 1] ELSE Append(f[n - 1], seq[n])
    BY <2>1 DEF Drops
  <2>3. \A n \in 0..(m + 1) : g[n] = IF n = 0 THEN <<>>
                                     ELSE IF seq[n] \in out THEN g[n - 1] ELSE Append(g[n - 1], seq[n])
    BY <2>2
  <2>4. Drops(g, m + 1, seq, out)
    BY <2>3 DEF Drops
  <2> QED
    BY <2>4
<1> HIDE DEF S
<1>3. Nat \subseteq S
  BY <1>1, <1>2, Induction
<1> QED
  BY <1>3 DEF S

LEMMA DroppingIs ==
    ASSUME NEW seq, NEW out, Len(seq) \in Nat
    PROVE  \E f : Drops(f, Len(seq), seq, out) /\ Dropping(seq, out) = f[Len(seq)]
<1> DEFINE F == CHOOSE f : Drops(f, Len(seq), seq, out)
<1>1. Drops(F, Len(seq), seq, out)
  BY DropsExist, Zenon
<1>2. Dropping(seq, out) = F[Len(seq)]
  BY Zenon DEF Dropping, Drops
<1> HIDE DEF F
<1> QED
  BY <1>1, <1>2

\* One step of the recursion.
LEMMA DropsStep ==
    ASSUME NEW f, NEW m \in Nat, NEW s, NEW out, Drops(f, m, s, out), NEW n \in Nat, n + 1 <= m
    PROVE  f[n + 1] = IF s[n + 1] \in out THEN f[n] ELSE Append(f[n], s[n + 1])
<1>1. \A k \in 0..m : f[k] = IF k = 0 THEN <<>>
                             ELSE IF s[k] \in out THEN f[k - 1] ELSE Append(f[k - 1], s[k])
  BY Zenon DEF Drops
<1>2. n + 1 \in 0..m /\ n + 1 # 0 /\ (n + 1) - 1 = n
  OBVIOUS
<1> QED
  BY Zenon, <1>1, <1>2

\* The recursion, as a rule for Append.
LEMMA DropsAgree ==
    ASSUME NEW f, NEW g, NEW m \in Nat, NEW k \in Nat, NEW s, NEW t, NEW out, m <= k,
           \A i \in 1..m : t[i] = s[i],
           Drops(f, m, s, out), Drops(g, k, t, out)
    PROVE  \A n \in 0..m : g[n] = f[n]
<1> DEFINE S == {n \in Nat : n <= m => g[n] = f[n]}
<1>1. 0 \in S
  BY DEF Drops
<1>2. ASSUME NEW n \in Nat, n \in S PROVE n + 1 \in S
  <2> SUFFICES ASSUME n + 1 <= m PROVE g[n + 1] = f[n + 1]
    OBVIOUS
  <2>1. g[n] = f[n] /\ t[n + 1] = s[n + 1]
    BY <1>2
  <2>2. n + 1 <= k
    OBVIOUS
  <2>3. f[n + 1] = IF s[n + 1] \in out THEN f[n] ELSE Append(f[n], s[n + 1])
    BY DropsStep
  <2>4. g[n + 1] = IF t[n + 1] \in out THEN g[n] ELSE Append(g[n], t[n + 1])
    BY <2>2, DropsStep
  <2> QED
    BY Zenon, <2>1, <2>3, <2>4
<1> HIDE DEF S
<1>3. Nat \subseteq S
  BY <1>1, <1>2, Induction
<1> QED
  BY <1>3 DEF S

LEMMA DroppingEmpty == ASSUME NEW out PROVE Dropping(<<>>, out) = <<>>
<1>1. PICK f : Drops(f, 0, <<>>, out) /\ Dropping(<<>>, out) = f[0]
  <2>1. Len(<<>>) = 0
    OBVIOUS
  <2> QED
    BY <2>1, DroppingIs
<1> QED
  BY <1>1 DEF Drops

LEMMA DroppingAppend ==
    ASSUME NEW S, NEW s \in Seq(S), NEW e \in S, NEW out
    PROVE  Dropping(Append(s, e), out) =
               IF e \in out THEN Dropping(s, out) ELSE Append(Dropping(s, out), e)
<1> DEFINE t == Append(s, e)   n == Len(s)
<1>1. /\ n \in Nat /\ Len(t) = n + 1 /\ t[n + 1] = e
      /\ \A i \in 1..n : t[i] = s[i]
  BY AppendProperties, LenProperties
<1> HIDE DEF t, n
<1>2. PICK f : Drops(f, n, s, out) /\ Dropping(s, out) = f[n]
  BY <1>1, DroppingIs DEF n
<1>3. PICK g : Drops(g, n + 1, t, out) /\ Dropping(t, out) = g[n + 1]
  BY <1>1, DroppingIs
<1>4. g[n + 1] = IF e \in out THEN g[n] ELSE Append(g[n], e)
  <2>1. n + 1 \in Nat /\ n + 1 <= n + 1
    BY <1>1
  <2> QED
    BY <1>1, <1>3, <2>1, DropsStep
<1>5. g[n] = f[n]
  BY <1>1, <1>2, <1>3, DropsAgree
<1> QED
  BY Zenon, <1>2, <1>3, <1>4, <1>5 DEF t

LEMMA DropsOrKeeps ==
    ASSUME NEW S, NEW out, NEW s \in Seq(S), NEW e \in S
    PROVE  /\ e \in out => Dropping(Append(s, e), out) = Dropping(s, out)
           /\ e \notin out => Dropping(Append(s, e), out) = Append(Dropping(s, out), e)
<1>1. Dropping(Append(s, e), out) =
          IF e \in out THEN Dropping(s, out) ELSE Append(Dropping(s, out), e)
  BY DroppingAppend
<1> QED
  BY <1>1

\* Induction over sequences, likewise for sets.
LEMMA SeqInduction ==
    ASSUME NEW S, NEW P, <<>> \in P,
           \A s \in Seq(S), e \in S : s \in P => Append(s, e) \in P
    PROVE  Seq(S) \subseteq P
<1> DEFINE T == {n \in Nat : \A s \in Seq(S) : Len(s) = n => s \in P}
<1>1. 0 \in T
  BY EmptySeq
<1>2. ASSUME NEW n \in Nat, n \in T PROVE n + 1 \in T
  <2> SUFFICES ASSUME NEW s \in Seq(S), Len(s) = n + 1 PROVE s \in P
    OBVIOUS
  <2>1. s # <<>>
    BY EmptySeq
  <2>2. PICK r \in Seq(S), e \in S : s = Append(r, e)
    BY <2>1, SequenceEmptyOrAppend
  <2>3. Len(r) = n
    BY <2>2, AppendProperties, LenProperties
  <2> QED
    BY <1>2, <2>2, <2>3
<1> HIDE DEF T
<1>3. Nat \subseteq T
  BY <1>1, <1>2, Induction
<1>4. \A s \in Seq(S) : Len(s) \in Nat
  BY LenProperties
<1> QED
  BY <1>3, <1>4 DEF T

LEMMA DroppingTyped == ASSUME NEW S, NEW out PROVE \A s \in Seq(S) : Dropping(s, out) \in Seq(S)
<1> DEFINE P == {s \in Seq(S) : Dropping(s, out) \in Seq(S)}
<1>1. <<>> \in P
  BY DroppingEmpty, EmptySeq
<1>2. ASSUME NEW s \in Seq(S), NEW e \in S, s \in P PROVE Append(s, e) \in P
  <2>1. Append(s, e) \in Seq(S) /\ Append(Dropping(s, out), e) \in Seq(S)
    BY <1>2, AppendProperties
  <2>2. Dropping(Append(s, e), out) \in {Dropping(s, out), Append(Dropping(s, out), e)}
    BY DropsOrKeeps
  <2> QED
    BY <1>2, <2>1, <2>2
<1> HIDE DEF P
<1>3. Seq(S) \subseteq P
  BY <1>1, <1>2, SeqInduction
<1> QED
  BY <1>3 DEF P

LEMMA ConcatAppend ==
    ASSUME NEW S, NEW s \in Seq(S), NEW t \in Seq(S), NEW e \in S
    PROVE  s \o Append(t, e) = Append(s \o t, e)
<1> DEFINE x == s \o Append(t, e)   y == Append(s \o t, e)
<1>1. Append(t, e) \in Seq(S) /\ s \o t \in Seq(S)
  BY AppendProperties, ConcatProperties
<1>2. x \in Seq(S) /\ y \in Seq(S)
  BY <1>1, AppendProperties, ConcatProperties
<1>3. Len(x) = Len(y)
  BY <1>1, AppendProperties, ConcatProperties, LenProperties
<1>4. ASSUME NEW i \in 1..Len(x) PROVE x[i] = y[i]
  <2> DEFINE m == Len(s)   n == Len(t)   u == Append(t, e)   v == s \o t
  <2>1. m \in Nat /\ n \in Nat /\ Len(u) = n + 1 /\ Len(v) = m + n /\ Len(x) = m + n + 1
    BY <1>1, AppendProperties, ConcatProperties, LenProperties
  <2>2. (\A j \in 1..n : u[j] = t[j]) /\ u[n + 1] = e
    BY AppendProperties
  <2>3. (\A j \in 1..(m + n) : y[j] = v[j]) /\ y[m + n + 1] = e
    BY <1>1, <2>1, AppendProperties
  <2>4. \A j \in 1..(m + n) : v[j] = IF j <= m THEN s[j] ELSE t[j - m]
    BY ConcatProperties
  <2>5. \A j \in 1..(m + Len(u)) : x[j] = IF j <= m THEN s[j] ELSE u[j - m]
    BY <1>1, ConcatProperties
  <2> HIDE DEF m, n, u, v, x, y
  <2>6. CASE i = m + n + 1
    BY <2>1, <2>2, <2>3, <2>5, <2>6
  <2>7. CASE i \in 1..(m + n) /\ i <= m
    BY <2>1, <2>3, <2>4, <2>5, <2>7
  <2>8. CASE i \in 1..(m + n) /\ i > m
    <3>1. i - m \in 1..n
      BY <2>1, <2>8
    <3> QED
      BY <2>1, <2>2, <2>3, <2>4, <2>5, <2>8, <3>1
  <2> QED
    BY <2>1, <2>6, <2>7, <2>8
<1> QED
  BY <1>2, <1>3, <1>4, SeqEqual

LEMMA DroppingConcat ==
    ASSUME NEW S, NEW out, NEW s \in Seq(S)
    PROVE  \A t \in Seq(S) : Dropping(s \o t, out) = Dropping(s, out) \o Dropping(t, out)
<1> DEFINE P == {t \in Seq(S) : Dropping(s \o t, out) = Dropping(s, out) \o Dropping(t, out)}
<1>1. <<>> \in P
  BY DroppingEmpty, DroppingTyped, EmptySeq, ConcatEmptySeq
<1>2. ASSUME NEW t \in Seq(S), NEW e \in S, t \in P PROVE Append(t, e) \in P
  <2> DEFINE a == Dropping(s, out)   b == Dropping(t, out)
  <2>1. a \in Seq(S) /\ b \in Seq(S) /\ s \o t \in Seq(S)
    BY DroppingTyped, ConcatProperties
  <2>2. s \o Append(t, e) = Append(s \o t, e) /\ a \o Append(b, e) = Append(a \o b, e)
    <3> HIDE DEF a, b
    <3>1. \A q, r \in Seq(S) : q \o Append(r, e) = Append(q \o r, e)
      BY ConcatAppend
    <3> QED
      BY Zenon, <2>1, <3>1
  <2>3. Dropping(s \o t, out) = a \o b
    BY <1>2
  <2>4. Append(t, e) \in Seq(S)
    BY AppendProperties
  <2>5. /\ e \in out => Dropping(Append(s \o t, e), out) = a \o b
        /\ e \notin out => Dropping(Append(s \o t, e), out) = Append(a \o b, e)
    <3>1. Dropping(Append(s \o t, e), out) =
              IF e \in out THEN Dropping(s \o t, out) ELSE Append(Dropping(s \o t, out), e)
      <4>1. \A r \in Seq(S) : Dropping(Append(r, e), out) =
                IF e \in out THEN Dropping(r, out) ELSE Append(Dropping(r, out), e)
        BY DroppingAppend
      <4> QED
        BY Zenon, <2>1, <4>1
    <3> QED
      BY Zenon, <2>3, <3>1
  <2>6. /\ e \in out => Dropping(Append(t, e), out) = b
        /\ e \notin out => Dropping(Append(t, e), out) = Append(b, e)
    BY DropsOrKeeps
  <2> HIDE DEF a, b
  <2>7. Dropping(s \o Append(t, e), out) = a \o Dropping(Append(t, e), out)
    BY Zenon, <2>2, <2>5, <2>6
  <2> QED
    BY <2>4, <2>7 DEF a
<1> HIDE DEF P
<1>3. Seq(S) \subseteq P
  BY <1>1, <1>2, SeqInduction
<1> QED
  BY <1>3 DEF P

\* Nothing is dropped where nothing is to be dropped.
LEMMA DroppingNone ==
    ASSUME NEW S, NEW out, S \cap out = {}
    PROVE  \A s \in Seq(S) : Dropping(s, out) = s
<1> DEFINE P == {s \in Seq(S) : Dropping(s, out) = s}
<1>1. <<>> \in P
  BY DroppingEmpty, EmptySeq
<1>2. ASSUME NEW s \in Seq(S), NEW e \in S, s \in P PROVE Append(s, e) \in P
  BY <1>2, AppendProperties, DroppingAppend
<1> HIDE DEF P
<1>3. Seq(S) \subseteq P
  BY <1>1, <1>2, SeqInduction
<1> QED
  BY <1>3 DEF P

-----------------------------------------------------------------------------
Sums(f, m, v) == f = [n \in 0..m |-> IF n = 0 THEN 0 ELSE f[n - 1] + v[n]]

LEMMA SumsExist == ASSUME NEW v PROVE \A m \in Nat : \E f : Sums(f, m, v)
<1> DEFINE S == {m \in Nat : \E f : Sums(f, m, v)}
<1>1. 0 \in S
  <2> DEFINE f == [n \in 0..0 |-> 0]
  <2>1. Sums(f, 0, v)
    BY DEF Sums
  <2> QED
    BY <2>1
<1>2. ASSUME NEW m \in Nat, m \in S PROVE m + 1 \in S
  <2>1. PICK f : Sums(f, m, v)
    BY <1>2
  <2> DEFINE g == [n \in 0..(m + 1) |-> IF n <= m THEN f[n] ELSE f[n - 1] + v[n]]
  <2>2. \A n \in 0..m : f[n] = IF n = 0 THEN 0 ELSE f[n - 1] + v[n]
    BY <2>1 DEF Sums
  <2>3. \A n \in 0..(m + 1) : g[n] = IF n = 0 THEN 0 ELSE g[n - 1] + v[n]
    BY <2>2
  <2>4. Sums(g, m + 1, v)
    BY <2>3 DEF Sums
  <2> QED
    BY <2>4
<1> HIDE DEF S
<1>3. Nat \subseteq S
  BY <1>1, <1>2, Induction
<1> QED
  BY <1>3 DEF S

LEMMA TotalIs ==
    ASSUME NEW v, Len(v) \in Nat
    PROVE  \E f : Sums(f, Len(v), v) /\ Total(v) = f[Len(v)]
<1> DEFINE F == CHOOSE f : Sums(f, Len(v), v)
<1>1. Sums(F, Len(v), v)
  BY SumsExist, Zenon
<1>2. Total(v) = F[Len(v)]
  BY Zenon DEF Total, Sums
<1> HIDE DEF F
<1> QED
  BY <1>1, <1>2

LEMMA SumsAgree ==
    ASSUME NEW f, NEW g, NEW m \in Nat, NEW k \in Nat, NEW v, NEW u, m <= k,
           \A i \in 1..m : u[i] = v[i], Sums(f, m, v), Sums(g, k, u)
    PROVE  \A n \in 0..m : g[n] = f[n]
<1> DEFINE S == {n \in Nat : n <= m => g[n] = f[n]}
<1>1. 0 \in S
  BY DEF Sums
<1>2. ASSUME NEW n \in Nat, n \in S PROVE n + 1 \in S
  <2> SUFFICES ASSUME n + 1 <= m PROVE g[n + 1] = f[n + 1]
    OBVIOUS
  <2>1. g[n] = f[n] /\ u[n + 1] = v[n + 1]
    BY <1>2
  <2>2. f[n + 1] = f[n] + v[n + 1] /\ g[n + 1] = g[n] + u[n + 1]
    BY DEF Sums
  <2> QED
    BY <2>1, <2>2
<1> HIDE DEF S
<1>3. Nat \subseteq S
  BY <1>1, <1>2, Induction
<1> QED
  BY <1>3 DEF S

LEMMA TotalEmpty == Total(<<>>) = 0
<1>1. PICK f : Sums(f, 0, <<>>) /\ Total(<<>>) = f[0]
  BY TotalIs
<1> QED
  BY <1>1 DEF Sums

LEMMA TotalAppend ==
    ASSUME NEW v \in Seq(Int), NEW e \in Int PROVE Total(Append(v, e)) = Total(v) + e
<1> DEFINE u == Append(v, e)   n == Len(v)
<1>1. /\ n \in Nat /\ Len(u) = n + 1 /\ u[n + 1] = e
      /\ \A i \in 1..n : u[i] = v[i]
  BY AppendProperties, LenProperties
<1> HIDE DEF u, n
<1>2. PICK f : Sums(f, n, v) /\ Total(v) = f[n]
  BY <1>1, TotalIs DEF n
<1>3. PICK g : Sums(g, n + 1, u) /\ Total(u) = g[n + 1]
  BY <1>1, TotalIs
<1>4. g[n + 1] = g[n] + e
  BY <1>1, <1>3 DEF Sums
<1>5. g[n] = f[n]
  BY <1>1, <1>2, <1>3, SumsAgree
<1> QED
  BY <1>2, <1>3, <1>4, <1>5 DEF u

LEMMA TotalTyped == \A v \in Seq(Int) : Total(v) \in Int
<1> DEFINE P == {v \in Seq(Int) : Total(v) \in Int}
<1>1. <<>> \in P
  BY TotalEmpty, EmptySeq
<1>2. ASSUME NEW v \in Seq(Int), NEW e \in Int, v \in P PROVE Append(v, e) \in P
  BY <1>2, TotalAppend, AppendProperties
<1> HIDE DEF P
<1>3. Seq(Int) \subseteq P
  BY <1>1, <1>2, SeqInduction
<1> QED
  BY <1>3 DEF P

-----------------------------------------------------------------------------
(* What the cache does to a text.                                          *)

\* The letters of a group. The provers do not know that a literal is in STRING.
LEMMA NoTextIs == NoText \notin {"w", "d", "h", "m", "s", "ms", "k", "KiB", "M", "MiB", "GiB", "<ff>", "<fffd>",
                                 "follow", "follow-only", "interval", "path", "print", "set", "unused"}
BY Zenon DEF NoText

Unit == STRING \cup {NoText, "w", "d", "h", "m", "s", "ms", "k", "KiB", "M", "MiB", "GiB", "<fffd>"}

AGroup == [num : BOOLEAN, neg : BOOLEAN, whole : Nat, tenth : 0..9, unit : Unit]
Text   == Seq(Seq(AGroup))

\* A group reads the same after JSON, unless its unit is no unit of anything.
SameGroup(g, h) ==
    /\ g.num = h.num /\ g.neg = h.neg /\ g.whole = h.whole /\ g.tenth = h.tenth
    /\ g.unit = h.unit \/ (g.unit = "<ff>" /\ h.unit = "<fffd>")

SameText(t, u) ==
    /\ Len(t) = Len(u)
    /\ \A i \in 1..Len(t) : /\ Len(t[i]) = Len(u[i])
                            /\ \A j \in 1..Len(t[i]) : SameGroup(t[i][j], u[i][j])

LEMMA Parts ==
    ASSUME NEW t \in Text
    PROVE  /\ Len(t) \in Nat /\ DOMAIN t = 1..Len(t)
           /\ \A i \in 1..Len(t) :
                 /\ t[i] \in Seq(AGroup) /\ Len(t[i]) \in Nat /\ DOMAIN t[i] = 1..Len(t[i])
                 /\ \A j \in 1..Len(t[i]) : t[i][j] \in AGroup
BY LenProperties, ElementOfSeq DEF Text

LEMMA FunctionIsSeq ==
    ASSUME NEW S, NEW n \in Nat, NEW f \in [1..n -> S] PROVE f \in Seq(S) /\ Len(f) = n
OBVIOUS

LEMMA JSONText ==
    ASSUME NEW t \in Text PROVE JSON(t) \in Text /\ SameText(t, JSON(t))
<1> DEFINE u == JSON(t)
           G(g) == [g EXCEPT !.unit = IF @ = "<ff>" THEN "<fffd>" ELSE @]
<1>p. /\ Len(t) \in Nat /\ DOMAIN t = 1..Len(t)
      /\ \A i \in 1..Len(t) :
            /\ t[i] \in Seq(AGroup) /\ Len(t[i]) \in Nat /\ DOMAIN t[i] = 1..Len(t[i])
            /\ \A j \in 1..Len(t[i]) : t[i][j] \in AGroup
  BY Parts
<1>1. u = [i \in 1..Len(t) |-> [j \in 1..Len(t[i]) |-> G(t[i][j])]]
  BY <1>p DEF JSON
<1>2. \A g \in AGroup : G(g) \in AGroup /\ SameGroup(g, G(g))
  <2> TAKE g \in AGroup
  <2>1. CASE g.unit = "<ff>"
    <3>1. G(g) = [g EXCEPT !.unit = "<fffd>"]
      BY <2>1
    <3>2. [g EXCEPT !.unit = "<fffd>"] \in AGroup
      BY DEF AGroup, Unit
    <3>3. SameGroup(g, [g EXCEPT !.unit = "<fffd>"])
      <4> DEFINE h == [g EXCEPT !.unit = "<fffd>"]
      <4>1. DOMAIN g = {"num", "neg", "whole", "tenth", "unit"}
        BY DEF AGroup, Unit
      <4>2. h.unit = "<fffd>"
        BY <4>1
      <4>3. h.num = g.num /\ h.neg = g.neg /\ h.whole = g.whole /\ h.tenth = g.tenth
        BY <4>1, Zenon
      <4> QED
        BY <2>1, <4>2, <4>3, Zenon DEF SameGroup
    <3> QED
      BY Zenon, <3>1, <3>2, <3>3
  <2>2. CASE g.unit # "<ff>"
    <3>1. G(g) = g
      BY <2>2 DEF AGroup, Unit
    <3> QED
      BY <2>2, <3>1 DEF SameGroup
  <2> QED
    BY <2>1, <2>2
<1> HIDE DEF G, u
<1>3. ASSUME NEW i \in 1..Len(t)
      PROVE  /\ u[i] = [j \in 1..Len(t[i]) |-> G(t[i][j])]
             /\ u[i] \in Seq(AGroup) /\ Len(u[i]) = Len(t[i])
             /\ \A j \in 1..Len(t[i]) : SameGroup(t[i][j], u[i][j])
  <2>1. u[i] = [j \in 1..Len(t[i]) |-> G(t[i][j])]
    BY <1>1
  <2>2. \A j \in 1..Len(t[i]) : u[i][j] \in AGroup /\ SameGroup(t[i][j], u[i][j])
    BY <1>p, <1>2, <2>1
  <2>3. u[i] \in [1..Len(t[i]) -> AGroup]
    BY <2>1, <2>2
  <2>4. u[i] \in Seq(AGroup) /\ Len(u[i]) = Len(t[i])
    BY <1>p, <2>3, FunctionIsSeq
  <2> QED
    BY <2>1, <2>2, <2>4
<1>4. u \in [1..Len(t) -> Seq(AGroup)]
  BY <1>1, <1>3
<1>5. u \in Text /\ Len(u) = Len(t)
  BY <1>p, <1>4, FunctionIsSeq DEF Text
<1> QED
  BY <1>3, <1>5 DEF u, SameText

\* A text of one word.
LEMMA WordSame ==
    ASSUME NEW t \in Text, NEW u \in Text, SameText(t, u), NEW w, w # "<ff>", w # "<fffd>"
    PROVE  u = <<<<Letters(w)>>>> <=> t = <<<<Letters(w)>>>>
<1> DEFINE e == Letters(w)
<1>1. e = [num |-> FALSE, neg |-> FALSE, whole |-> 0, tenth |-> 0, unit |-> w]
  <2> DEFINE f == [num |-> TRUE, neg |-> FALSE, whole |-> 0, tenth |-> 0, unit |-> w]
             d == [num |-> FALSE, neg |-> FALSE, whole |-> 0, tenth |-> 0, unit |-> w]
  <2>1. e = [f EXCEPT !["num"] = FALSE]
    BY DEF Letters, Number
  <2>2. DOMAIN e = {"num", "neg", "whole", "tenth", "unit"}
    BY <2>1
  <2>3. e["num"] = FALSE /\ e["neg"] = FALSE /\ e["whole"] = 0 /\ e["tenth"] = 0 /\ e["unit"] = w
    BY <2>1
  <2> QED
    BY <2>1, <2>2, <2>3
<1>2. \A g, h \in AGroup : SameGroup(g, h) => (g = e <=> h = e)
  BY <1>1 DEF AGroup, SameGroup
<1> HIDE DEF e
<1>3. \A x \in Text : x = <<<<e>>>> <=> Len(x) = 1 /\ Len(x[1]) = 1 /\ x[1][1] = e
  <2> TAKE x \in Text
  <2>1. ASSUME Len(x) = 1, Len(x[1]) = 1, x[1][1] = e PROVE x = <<<<e>>>>
    <3>1. DOMAIN x = {1} /\ DOMAIN x[1] = {1}
      BY <2>1, Parts
    <3>2. x[1] = <<e>>
      BY <2>1, <3>1, Parts
    <3> QED
      BY <2>1, <3>1, <3>2, Parts DEF Text
  <2> QED
    BY <2>1
<1>4. Len(t) = 1 /\ Len(t[1]) = 1 => t[1][1] \in AGroup /\ u[1][1] \in AGroup /\ SameGroup(t[1][1], u[1][1])
  <2> SUFFICES ASSUME Len(t) = 1, Len(t[1]) = 1
               PROVE  t[1][1] \in AGroup /\ u[1][1] \in AGroup /\ SameGroup(t[1][1], u[1][1])
    OBVIOUS
  <2>1. Len(u) = 1 /\ Len(u[1]) = 1 /\ SameGroup(t[1][1], u[1][1])
    BY DEF SameText
  <2> QED
    BY <2>1, Parts
<1> QED
  BY SMTT(30), <1>2, <1>3, <1>4, Parts DEF SameText, e

LEMMA ReadsSame ==
    ASSUME NEW t \in Text, NEW u \in Text, SameText(t, u)
    PROVE  /\ Integer(u) = Integer(t) /\ Bytes(u) = Bytes(t)
           /\ Bool(u) = Bool(t) /\ Duration(u) = Duration(t)
<1>t. /\ Len(t) \in Nat /\ DOMAIN t = 1..Len(t)
      /\ \A i \in 1..Len(t) :
            /\ t[i] \in Seq(AGroup) /\ Len(t[i]) \in Nat /\ DOMAIN t[i] = 1..Len(t[i])
            /\ \A j \in 1..Len(t[i]) : t[i][j] \in AGroup
  BY Parts
<1>u. /\ DOMAIN u = 1..Len(t) /\ Len(u) = Len(t)
      /\ \A i \in 1..Len(t) :
            /\ u[i] \in Seq(AGroup) /\ Len(u[i]) = Len(t[i]) /\ DOMAIN u[i] = 1..Len(t[i])
            /\ \A j \in 1..Len(t[i]) : SameGroup(t[i][j], u[i][j])
  BY Parts DEF SameText
<1>s. ASSUME NEW g, NEW h, NEW weight, SameGroup(g, h)
      PROVE  Scaled(h, weight) = Scaled(g, weight)
  <2> DEFINE v(whole, tenth) == whole * weight + tenth * (weight \div 10) + (tenth * (weight % 10)) \div 10
  <2>1. h.whole = g.whole /\ h.tenth = g.tenth /\ h.neg = g.neg
    BY <1>s DEF SameGroup
  <2>2. \A x : Scaled(x, weight) = IF x.neg THEN -v(x.whole, x.tenth) ELSE v(x.whole, x.tenth)
    BY DEF Scaled
  <2> HIDE DEF v
  <2> QED
    BY Zenon, <2>1, <2>2
<1>d. \A i \in 1..Len(t) : /\ Decimal(u[i]) <=> Decimal(t[i])
                           /\ Whole(u[i]) <=> Whole(t[i])
  <2> TAKE i \in 1..Len(t)
  <2>1. Decimal(u[i]) <=> Decimal(t[i])
    <3>1. CASE Len(t[i]) = 1
      <4>1. SameGroup(t[i][1], u[i][1])
        BY <1>t, <1>u, <3>1
      <4> QED
        BY <1>u, <3>1, <4>1, NoTextIs DEF SameGroup, Decimal
    <3>2. CASE Len(t[i]) # 1
      BY <1>u, <3>2 DEF Decimal
    <3> QED
      BY <3>1, <3>2
  <2>2. ASSUME Decimal(t[i]) PROVE u[i][1].tenth = t[i][1].tenth
    <3>1. Len(t[i]) = 1
      BY <2>2 DEF Decimal
    <3>2. SameGroup(t[i][1], u[i][1])
      BY <1>u, <3>1
    <3> QED
      BY <3>2 DEF SameGroup
  <2>3. Whole(u[i]) <=> Whole(t[i])
    BY Zenon, <2>1, <2>2 DEF Whole
  <2> QED
    BY Zenon, <2>1, <2>3
<1>e. Len(t) = 1 => /\ Decimal(u[1]) <=> Decimal(t[1])
                    /\ Whole(u[1]) <=> Whole(t[1])
  <2>1. Len(t) = 1 => 1 \in 1..Len(t)
    OBVIOUS
  <2> QED
    BY Zenon, <1>d, <2>1
<1>1. Integer(u) = Integer(t)
  <2>1. CASE Len(t) = 1 /\ Whole(t[1])
    <3>1. Len(t[1]) = 1
      BY <2>1 DEF Whole, Decimal
    <3>2. SameGroup(t[1][1], u[1][1])
      BY <1>u, <2>1, <3>1
    <3>3. Scaled(u[1][1], 1) = Scaled(t[1][1], 1)
      BY Zenon, <1>s, <3>2
    <3> QED
      BY Zenon, <1>e, <1>u, <2>1, <3>3 DEF Integer
  <2>2. CASE ~(Len(t) = 1 /\ Whole(t[1]))
    BY Zenon, <1>e, <1>u, <2>2 DEF Integer
  <2> QED
    BY <2>1, <2>2
<1>2. Bytes(u) = Bytes(t)
  <2>1. CASE Len(t) = 1 /\ Len(t[1]) = 1
    <3> DEFINE g == t[1][1]   h == u[1][1]
    <3>1. SameGroup(g, h) /\ Len(u) = 1 /\ Len(u[1]) = 1
      BY <1>t, <1>u, <2>1
    <3>2. Scaled(h, 1) = Scaled(g, 1) /\ Scaled(h, SizeUnits[g.unit]) = Scaled(g, SizeUnits[g.unit])
      BY <1>s, <3>1
    <3>3. "<ff>" \notin DOMAIN SizeUnits /\ "<fffd>" \notin DOMAIN SizeUnits
      BY DEF SizeUnits
    <3>4. Decimal(u[1]) <=> Decimal(t[1])
      BY Zenon, <1>e, <2>1
    <3> HIDE DEF g, h
    <3>5. (h.num <=> g.num) /\ (h.unit \in DOMAIN SizeUnits <=> g.unit \in DOMAIN SizeUnits)
      BY Zenon, <3>1, <3>3 DEF SameGroup
    <3>6. g.unit \in DOMAIN SizeUnits => h.unit = g.unit
      BY Zenon, <3>1, <3>3 DEF SameGroup
    <3> QED
      BY Zenon, <2>1, <3>1, <3>2, <3>4, <3>5, <3>6 DEF Bytes, g, h
  <2>2. CASE Len(t) # 1
    BY <1>u, <2>2 DEF Bytes
  <2>3. CASE Len(t) = 1 /\ Len(t[1]) # 1
    <3>1. ~Decimal(t[1]) /\ ~Decimal(u[1]) /\ Len(u) = 1 /\ Len(u[1]) # 1
      <4>1. Len(u[1]) = Len(t[1])
        BY <1>u, <2>3
      <4> QED
        BY <1>u, <2>3, <4>1 DEF Decimal
    <3> QED
      BY Zenon, <2>3, <3>1 DEF Bytes
  <2> QED
    BY <2>1, <2>2, <2>3
<1>3. Bool(u) = Bool(t)
  <2>1. \A w \in {"true", "yes", "false", "no"} : u = <<<<Letters(w)>>>> <=> t = <<<<Letters(w)>>>>
    BY WordSame
  <2>2. \A S : S \subseteq {"true", "yes", "false", "no"} =>
            (u \in {<<<<Letters(w)>>>> : w \in S} <=> t \in {<<<<Letters(w)>>>> : w \in S})
    BY Zenon, <2>1
  <2> QED
    BY Zenon, <2>2 DEF Bool
<1>4. Duration(u) = Duration(t)
  <2>1. CASE Len(t) = 0
    BY <1>u, <2>1 DEF Duration, Text
  <2>2. CASE Len(t) > 1
    <3>1. parseClockDuration(u) = parseClockDuration(t)
      <4>1. Offset(u) = Offset(t)
        BY <1>u DEF Offset
      <4> DEFINE W(i) == <<Hour, Minute, Second>>[i + Offset(t)]
                 C(x) == \A i \in 1..Len(t) : IF W(i) = Second THEN Decimal(x[i]) ELSE Whole(x[i])
      <4>2. C(u) <=> C(t)
        <5> HIDE DEF W
        <5> QED
          BY Zenon, <1>d
      <4>3. ASSUME C(t)
            PROVE  [i \in 1..Len(t) |-> Scaled(u[i][1], W(i))] = [i \in 1..Len(t) |-> Scaled(t[i][1], W(i))]
        <5>1. \A i \in 1..Len(t) : Len(t[i]) = 1
          BY <4>3 DEF Decimal, Whole
        <5>2. \A i \in 1..Len(t) : SameGroup(t[i][1], u[i][1])
          BY <1>t, <1>u, <5>1
        <5>3. \A i \in 1..Len(t) : Scaled(u[i][1], W(i)) = Scaled(t[i][1], W(i))
          BY Zenon, <1>s, <5>2
        <5> QED
          BY Zenon, <5>3
      <4> QED
        BY Zenon, <1>t, <1>u, <4>1, <4>2, <4>3 DEF parseClockDuration
    <3>2. t # <<>> /\ u # <<>>
      BY <1>u, <2>2
    <3> QED
      BY Zenon, <1>u, <2>2, <3>1, <3>2 DEF Duration
  <2>3. CASE Len(t) = 1
    <3> DEFINE p == t[1]   q == u[1]   n == Len(p)
    <3>1. /\ n \in Nat /\ DOMAIN p = 1..n /\ DOMAIN q = 1..n
          /\ \A j \in 1..n : SameGroup(p[j], q[j])
          /\ Decimal(q) <=> Decimal(p)
      <4>1. 1 \in 1..Len(t)
        BY <2>3
      <4> QED
        BY Zenon, <1>t, <1>u, <1>e, <2>3, <4>1
    <3>2. parseUnitDuration(q) = parseUnitDuration(p)
      <4> HIDE DEF p, q, n
      <4>1. CASE Decimal(p)
        <5>1. SameGroup(p[1], q[1])
          <6>1. n = 1
            BY <4>1 DEF Decimal, n
          <6> QED
            BY <3>1, <6>1
        <5> QED
          BY Zenon, <1>s, <3>1, <4>1, <5>1 DEF parseUnitDuration
      <4>2. CASE ~Decimal(p)
        <5> DEFINE U == DOMAIN UnitTicks
                   C(x) == \A i \in 1..n : x[i].num /\ ~x[i].neg /\ x[i].unit \in U
        <5>1. "<ff>" \notin U /\ "<fffd>" \notin U
          BY DEF UnitTicks
        <5>2. \A i \in 1..n : p[i].unit \in U \/ q[i].unit \in U => p[i].unit = q[i].unit
          BY Zenon, <3>1, <5>1 DEF SameGroup
        <5>3. C(q) <=> C(p)
          BY Zenon, <3>1, <5>2 DEF SameGroup
        <5>4. ASSUME C(p)
              PROVE  [i \in 1..n |-> Scaled(q[i], UnitTicks[q[i].unit])] =
                     [i \in 1..n |-> Scaled(p[i], UnitTicks[p[i].unit])]
          <6>1. \A i \in 1..n : Scaled(q[i], UnitTicks[q[i].unit]) = Scaled(p[i], UnitTicks[p[i].unit])
            <7> TAKE i \in 1..n
            <7>1. q[i].unit = p[i].unit /\ SameGroup(p[i], q[i])
              BY Zenon, <3>1, <5>2, <5>4
            <7>2. Scaled(q[i], UnitTicks[p[i].unit]) = Scaled(p[i], UnitTicks[p[i].unit])
              BY Zenon, <1>s, <7>1
            <7> QED
              BY <7>1, <7>2
          <6> QED
            BY Zenon, <6>1
        <5> QED
          BY Zenon, <3>1, <4>2, <5>3, <5>4 DEF parseUnitDuration
      <4> QED
        BY <4>1, <4>2
    <3>3. t # <<>> /\ u # <<>> /\ ~(Len(t) > 1) /\ ~(Len(u) > 1)
      <4>1. Len(u) = 1
        BY <1>u, <2>3
      <4>2. t # <<>> /\ u # <<>>
        BY <2>3, <4>1
      <4> QED
        BY <2>3, <4>1, <4>2
    <3> QED
      BY Zenon, <3>2, <3>3 DEF Duration
  <2> QED
    BY <1>t, <2>1, <2>2, <2>3
<1> QED
  BY <1>1, <1>2, <1>3, <1>4

-----------------------------------------------------------------------------
(* The texts of the router and of the library are texts.                   *)

LEMMA NumberTyped ==
    ASSUME NEW whole \in Nat, NEW tenth \in 0..9, NEW unit \in Unit
    PROVE  Number(whole, tenth, unit) \in AGroup
BY DEF Number, AGroup

LEMMA OneGroup == \A g \in AGroup : <<g>> \in Seq(AGroup) /\ <<<<g>>>> \in Text
BY DEF Text

LEMMA Ticks ==
    /\ Second = 1000 /\ Minute = 60000 /\ Hour = 3600000 /\ Day = 86400000
    /\ 7 * Day = 604800000
BY DEF Second, Minute, Hour, Day

LEMMA FormatTyped == \A d \in Nat : formatDuration(d) \in Text
<1> TAKE d \in Nat
<1>1. /\ d \div Hour \in Nat /\ d \div Minute \in Nat /\ d \div Second \in Nat /\ d \div 1 \in Nat
  BY Ticks
<1>2. {"h", "m", "s", "ms"} \subseteq Unit /\ 0 \in 0..9
  BY DEF Unit
<1>3. \A n \in {Hour, Minute, Second, 1}, unit \in {"h", "m", "s", "ms"} :
          <<<<Number(d \div n, 0, unit)>>>> \in Text
  BY <1>1, <1>2, NumberTyped, OneGroup
<1> QED
  BY <1>3 DEF formatDuration

UnitNames   == <<"w", "d", "h", "m", "s", "ms">>
UnitWeights == <<7 * Day, Day, Hour, Minute, Second, 1>>
Amount(d, i) == (IF i = 1 THEN d ELSE d % UnitWeights[i - 1]) \div UnitWeights[i]
AllGroups(d) == [i \in 1..6 |-> Number(Amount(d, i), 0, UnitNames[i])]
ZeroGroups == {Number(0, 0, UnitNames[i]) : i \in 1..6}

LEMMA UnitTextIs ==
    ASSUME NEW d
    PROVE  LET groups == Dropping(AllGroups(d), ZeroGroups)
           IN  UnitText(d) = <<IF groups = <<>> THEN <<Number(0, 0, "s")>> ELSE groups>>
BY Zenon DEF UnitText, AllGroups, ZeroGroups, Amount, UnitNames, UnitWeights

LEMMA AmountsTyped == \A d \in Nat : \A i \in 1..6 : Amount(d, i) \in Nat
<1> TAKE d \in Nat
<1>1. /\ Amount(d, 1) = d \div 604800000
      /\ Amount(d, 2) = (d % 604800000) \div 86400000
      /\ Amount(d, 3) = (d % 86400000) \div 3600000
      /\ Amount(d, 4) = (d % 3600000) \div 60000
      /\ Amount(d, 5) = (d % 60000) \div 1000
      /\ Amount(d, 6) = (d % 1000) \div 1
  BY Ticks DEF Amount, UnitWeights
<1> QED
  BY <1>1

LEMMA UnitTextTyped ==
    ASSUME NEW d \in Nat
    PROVE  UnitText(d) \in Text /\ AllGroups(d) \in Seq(AGroup) /\ Len(AllGroups(d)) = 6
<1>1. \A i \in 1..6 : UnitNames[i] \in Unit
  <2>1. /\ UnitNames[1] = "w" /\ UnitNames[2] = "d" /\ UnitNames[3] = "h"
        /\ UnitNames[4] = "m" /\ UnitNames[5] = "s" /\ UnitNames[6] = "ms"
    BY DEF UnitNames
  <2>2. \A i \in 1..6 : i = 1 \/ i = 2 \/ i = 3 \/ i = 4 \/ i = 5 \/ i = 6
    OBVIOUS
  <2>3. {"w", "d", "h", "m", "s", "ms"} \subseteq Unit
    BY DEF Unit
  <2> QED
    BY <2>1, <2>2, <2>3
<1>2. \A i \in 1..6 : Number(Amount(d, i), 0, UnitNames[i]) \in AGroup
  <2> TAKE i \in 1..6
  <2>1. Amount(d, i) \in Nat
    BY Zenon, AmountsTyped
  <2>2. UnitNames[i] \in Unit /\ 0 \in 0..9
    BY <1>1
  <2> QED
    BY Zenon, <2>1, <2>2, NumberTyped
<1>3. AllGroups(d) \in [1..6 -> AGroup]
  BY <1>2 DEF AllGroups
<1>4. AllGroups(d) \in Seq(AGroup) /\ Len(AllGroups(d)) = 6
  BY <1>3, FunctionIsSeq
<1>5. Dropping(AllGroups(d), ZeroGroups) \in Seq(AGroup)
  BY <1>4, DroppingTyped
<1>6. <<Number(0, 0, "s")>> \in Seq(AGroup)
  <2>1. "s" \in Unit /\ 0 \in 0..9 /\ 0 \in Nat
    BY DEF Unit
  <2>2. Number(0, 0, "s") \in AGroup
    BY <2>1, NumberTyped
  <2> QED
    BY <2>2, OneGroup
<1>7. \A p \in Seq(AGroup) : <<p>> \in Text
  BY DEF Text
<1> QED
  BY <1>4, <1>5, <1>6, <1>7, UnitTextIs

LEMMA ClockTyped == ASSUME NEW d \in Nat PROVE ClockTexts(d) \subseteq Text
<1>1. /\ d \div Hour \in Nat /\ (d % Hour) \div Minute \in Nat
      /\ (d % Minute) \div Second \in Nat /\ (d % Second) \div 100 \in 0..9
  BY Ticks
<1>2. NoText \in Unit
  BY DEF Unit
<1> DEFINE h == <<Number(d \div Hour, 0, NoText)>>
           m == <<Number((d % Hour) \div Minute, 0, NoText)>>
           s == <<Number((d % Minute) \div Second, (d % Second) \div 100, NoText)>>
<1>3. h \in Seq(AGroup) /\ m \in Seq(AGroup) /\ s \in Seq(AGroup)
  <2>1. /\ Number(d \div Hour, 0, NoText) \in AGroup
        /\ Number((d % Hour) \div Minute, 0, NoText) \in AGroup
        /\ Number((d % Minute) \div Second, (d % Second) \div 100, NoText) \in AGroup
    <3>1. \A x \in Nat, y \in 0..9 : Number(x, y, NoText) \in AGroup
      BY <1>2, NumberTyped
    <3>2. 0 \in 0..9
      OBVIOUS
    <3> QED
      BY Zenon, <1>1, <3>1, <3>2
  <2> QED
    BY <2>1, OneGroup
<1>4. ClockTexts(d) \subseteq {<<h, m, s>>, <<m, s>>}
  BY Zenon DEF ClockTexts
<1> HIDE DEF h, m, s
<1>5. <<h, m, s>> \in Text /\ <<m, s>> \in Text
  BY <1>3 DEF Text
<1> QED
  BY <1>4, <1>5

LEMMA SizesAre == Kilo = 1024 /\ Mega = 1048576 /\ Giga = 1073741824
BY DEF Kilo, Mega, Giga

LEMMA SizesTyped == ASSUME NEW b \in Nat PROVE SizeTexts(b) \subseteq Text
<1> DEFINE weight == [k |-> Kilo, KiB |-> Kilo, M |-> Mega, MiB |-> Mega, GiB |-> Giga]
           units  == {"k", "KiB", "M", "MiB", "GiB"}
<1>1. /\ DOMAIN weight = units
      /\ \A u \in units : weight[u] \in {Kilo, Mega, Giga}
  OBVIOUS
<1> HIDE DEF weight
<1>2. \A u \in units : b \div weight[u] \in Nat /\ u \in Unit
  BY <1>1, SizesAre DEF Unit
<1>3. \A u \in units, t \in {0, 5} : <<<<Number(b \div weight[u], t, u)>>>> \in Text
  BY <1>2, NumberTyped, OneGroup
<1>4. <<<<Number(b, 0, NoText)>>>> \in Text
  <2>1. 0 \in 0..9 /\ NoText \in Unit
    BY DEF Unit
  <2> QED
    BY Zenon, <2>1, NumberTyped, OneGroup
<1> QED
  BY <1>1, <1>3, <1>4, Zenon DEF SizeTexts, weight

LEMMA TextsTyped == ASSUME NEW q \in Quantities PROVE Texts(q) \subseteq Text
<1>1. CASE q[1] = "duration"
  <2>1. q[2] \in Nat
    BY <1>1, QuantitiesAssumption
  <2> QED
    BY <1>1, <2>1, FormatTyped, UnitTextTyped, ClockTyped DEF Texts
<1>2. CASE q[1] = "bytes"
  <2>1. q[2] \in Nat
    BY <1>2, QuantitiesAssumption
  <2> QED
    BY <1>2, <2>1, SizesTyped DEF Texts
<1>3. CASE q[1] = "int"
  <2>1. q[2] \in Int
    BY <1>3, QuantitiesAssumption
  <2>a. \A w \in Nat : Number(w, 0, NoText) \in AGroup
    <3>1. 0 \in 0..9 /\ NoText \in Unit
      BY DEF Unit
    <3> QED
      BY Zenon, <3>1, NumberTyped
  <2>b. \A g \in AGroup : Minus(g) \in AGroup
    BY DEF Minus, AGroup
  <2>2. q[2] >= 0 => Number(q[2], 0, NoText) \in AGroup
    BY <2>1, <2>a
  <2>3. q[2] < 0 => Minus(Number(-q[2], 0, NoText)) \in AGroup
    BY <2>1, <2>a, <2>b
  <2> QED
    BY <1>3, <2>1, <2>2, <2>3, OneGroup DEF Texts
<1> QED
  BY <1>1, <1>2, <1>3, QuantitiesAssumption

LEMMA OddTyped == OddTexts \subseteq Text
<1>1. Group \subseteq AGroup
  BY DEF Group, AGroup, Unit
<1>2. Seq(Group) \subseteq Seq(AGroup)
  BY <1>1
<1>3. Seq(Seq(Group)) \subseteq Seq(Seq(AGroup))
  BY <1>2
<1> QED
  BY <1>3, OddTextsAssumption DEF Text

-----------------------------------------------------------------------------
(* What the accessors make of these texts.                                 *)

LEMMA NumberIs ==
    \A w, t, u : LET g == Number(w, t, u)
                 IN  g.num = TRUE /\ g.neg = FALSE /\ g.whole = w /\ g.tenth = t /\ g.unit = u
BY DEF Number

\* A number times a weight, to the tenth and truncated.
Weighed(w, t, weight) == w * weight + t * (weight \div 10) + (t * (weight % 10)) \div 10

LEMMA ScaledIs ==
    ASSUME NEW w \in Nat, NEW t \in 0..9, NEW u, NEW weight \in Nat
    PROVE  Scaled(Number(w, t, u), weight) = Weighed(w, t, weight)
<1> DEFINE g == Number(w, t, u)
<1>1. g.neg = FALSE /\ g.whole = w /\ g.tenth = t
  BY NumberIs
<1> HIDE DEF g
<1> QED
  BY Zenon, <1>1 DEF Scaled, Weighed, g

LEMMA ScaledWhole ==
    ASSUME NEW w \in Nat, NEW u, NEW weight \in Nat
    PROVE  Scaled(Number(w, 0, u), weight) = w * weight
<1>1. 0 \in 0..9 /\ 0 * (weight \div 10) = 0 /\ (0 * (weight % 10)) \div 10 = 0
  OBVIOUS
<1>2. w * weight \in Nat
  OBVIOUS
<1>3. Weighed(w, 0, weight) = w * weight
  BY <1>1, <1>2 DEF Weighed
<1>4. Scaled(Number(w, 0, u), weight) = Weighed(w, 0, weight)
  BY Zenon, <1>1, ScaledIs
<1> QED
  BY Zenon, <1>3, <1>4

Units == {"w", "d", "h", "m", "s", "ms"}

LEMMA UnitTicksAre ==
    /\ DOMAIN UnitTicks = Units
    /\ UnitTicks["w"] = 604800000 /\ UnitTicks["d"] = 86400000 /\ UnitTicks["h"] = 3600000
    /\ UnitTicks["m"] = 60000 /\ UnitTicks["s"] = 1000 /\ UnitTicks["ms"] = 1
BY Ticks DEF UnitTicks, Units

\* Groups of a duration, and their values.
UnitGroups == {Number(w, 0, u) : w \in Nat, u \in Units}
Value(g)   == Scaled(g, UnitTicks[g.unit])
Values(s)  == [i \in DOMAIN s |-> Value(s[i])]

LEMMA UnitGroupIs ==
    \A g \in UnitGroups : /\ g.num = TRUE /\ g.neg = FALSE /\ g.unit \in Units
                          /\ Value(g) \in Int
<1>1. ASSUME NEW w \in Nat, NEW u \in Units, NEW g, g = Number(w, 0, u)
      PROVE  g.num = TRUE /\ g.neg = FALSE /\ g.unit \in Units /\ Value(g) \in Int
  <2>1. g.num = TRUE /\ g.neg = FALSE /\ g.unit = u
    BY <1>1, NumberIs
  <2>2. UnitTicks[u] \in Nat
    BY UnitTicksAre DEF Units
  <2>3. Value(g) = w * UnitTicks[u]
    BY <1>1, <2>1, <2>2, ScaledWhole DEF Value
  <2>4. w * UnitTicks[u] \in Int
    BY <2>2
  <2> QED
    BY <2>1, <2>3, <2>4
<1> TAKE g \in UnitGroups
<1>2. PICK w \in Nat, u \in Units : g = Number(w, 0, u)
  BY DEF UnitGroups
<1> QED
  BY Zenon, <1>1, <1>2

LEMMA ValuesTyped == \A s \in Seq(UnitGroups) : Values(s) \in Seq(Int) /\ Len(Values(s)) = Len(s)
<1> TAKE s \in Seq(UnitGroups)
<1>1. DOMAIN s = 1..Len(s) /\ Len(s) \in Nat /\ \A i \in 1..Len(s) : s[i] \in UnitGroups
  BY LenProperties, ElementOfSeq
<1>2. Values(s) \in [1..Len(s) -> Int]
  BY <1>1, UnitGroupIs DEF Values
<1> QED
  BY <1>1, <1>2, FunctionIsSeq

LEMMA ValuesAppend ==
    ASSUME NEW s \in Seq(UnitGroups), NEW e \in UnitGroups
    PROVE  Values(Append(s, e)) = Append(Values(s), Value(e))
<1> DEFINE x == Values(Append(s, e))   y == Append(Values(s), Value(e))
<1>1. Append(s, e) \in Seq(UnitGroups) /\ Values(s) \in Seq(Int) /\ Value(e) \in Int
  BY AppendProperties, ValuesTyped, UnitGroupIs
<1>2. x \in Seq(Int) /\ y \in Seq(Int) /\ Len(s) \in Nat
      /\ Len(x) = Len(s) + 1 /\ Len(y) = Len(s) + 1
  <2>1. Len(s) \in Nat /\ Len(Append(s, e)) = Len(s) + 1 /\ Len(Values(s)) = Len(s)
    BY ValuesTyped, AppendProperties, LenProperties
  <2>2. x \in Seq(Int) /\ Len(x) = Len(s) + 1
    BY <1>1, <2>1, ValuesTyped
  <2>3. y \in Seq(Int) /\ Len(y) = Len(s) + 1
    BY <1>1, <2>1, AppendProperties
  <2> QED
    BY <2>1, <2>2, <2>3
<1>3. /\ \A i \in 1..Len(s) : Append(s, e)[i] = s[i]
      /\ Append(s, e)[Len(s) + 1] = e
      /\ DOMAIN s = 1..Len(s) /\ DOMAIN Append(s, e) = 1..(Len(s) + 1)
  BY <1>1, <1>2, AppendProperties, LenProperties
<1>4. /\ \A i \in 1..Len(s) : y[i] = Values(s)[i]
      /\ y[Len(s) + 1] = Value(e)
  BY <1>1, ValuesTyped, AppendProperties
<1>5. \A i \in 1..(Len(s) + 1) : x[i] = Value(Append(s, e)[i])
  BY <1>3 DEF Values
<1>6. \A i \in 1..Len(s) : Values(s)[i] = Value(s[i])
  BY <1>3 DEF Values
<1> HIDE DEF x, y
<1>7. \A i \in 1..Len(x) : x[i] = y[i]
  <2> TAKE i \in 1..Len(x)
  <2>1. CASE i = Len(s) + 1
    BY <1>2, <1>3, <1>4, <1>5, <2>1
  <2>2. CASE i \in 1..Len(s)
    BY <1>2, <1>3, <1>4, <1>5, <1>6, <2>2
  <2> QED
    BY <1>2, <2>1, <2>2
<1>8. x = y
  BY <1>2, <1>7, SeqEqual
<1> QED
  BY <1>8 DEF x, y

\* Groups that are worth nothing can be left out.
LEMMA TotalDropped ==
    ASSUME NEW out, \A g \in out : Value(g) = 0
    PROVE  \A s \in Seq(UnitGroups) : Total(Values(Dropping(s, out))) = Total(Values(s))
<1> DEFINE P == {s \in Seq(UnitGroups) : Total(Values(Dropping(s, out))) = Total(Values(s))}
<1>1. <<>> \in P
  BY DroppingEmpty, EmptySeq
<1>2. ASSUME NEW s \in Seq(UnitGroups), NEW e \in UnitGroups, s \in P PROVE Append(s, e) \in P
  <2> DEFINE r == Dropping(s, out)
  <2>1. r \in Seq(UnitGroups)
    BY DroppingTyped
  <2>2. Total(Values(Append(s, e))) = Total(Values(s)) + Value(e)
    <3>1. Values(s) \in Seq(Int) /\ Value(e) \in Int
      BY ValuesTyped, UnitGroupIs
    <3> QED
      BY <3>1, ValuesAppend, TotalAppend
  <2> HIDE DEF r
  <2>3. Total(Values(Append(r, e))) = Total(Values(r)) + Value(e)
    <3>1. Values(r) \in Seq(Int) /\ Value(e) \in Int
      BY <2>1, ValuesTyped, UnitGroupIs
    <3> QED
      BY <2>1, <3>1, ValuesAppend, TotalAppend
  <2>4. Total(Values(r)) = Total(Values(s)) /\ Total(Values(s)) \in Int
    BY <1>2, TotalTyped, ValuesTyped DEF r
  <2>5. Dropping(Append(s, e), out) = IF e \in out THEN r ELSE Append(r, e)
    BY DroppingAppend DEF r
  <2>6. Append(s, e) \in Seq(UnitGroups)
    BY AppendProperties
  <2>7. CASE e \in out
    <3>1. Value(e) = 0 /\ Dropping(Append(s, e), out) = r
      BY <2>5, <2>7
    <3> QED
      BY <2>2, <2>4, <2>6, <3>1
  <2>8. CASE e \notin out
    <3>1. Dropping(Append(s, e), out) = Append(r, e)
      BY <2>5, <2>8
    <3> QED
      BY <2>2, <2>3, <2>4, <2>6, <3>1
  <2> QED
    BY <2>7, <2>8
<1> HIDE DEF P
<1>3. Seq(UnitGroups) \subseteq P
  BY <1>1, <1>2, SeqInduction
<1> QED
  BY <1>3 DEF P

-----------------------------------------------------------------------------
(* Durations by their units.                                               *)

LEMMA TotalOne == ASSUME NEW v, Len(v) = 1, v[1] \in Int PROVE Total(v) = v[1]
<1>1. PICK f : Sums(f, Len(v), v) /\ Total(v) = f[Len(v)]
  <2>1. Len(v) \in Nat
    OBVIOUS
  <2> QED
    BY Zenon, <2>1, TotalIs
<1>2. f[0] = 0 /\ f[1] = f[0] + v[1]
  BY <1>1 DEF Sums
<1> QED
  BY <1>1, <1>2

LEMMA TotalTwo ==
    ASSUME NEW v, Len(v) = 2, \A i \in 1..2 : v[i] \in Int PROVE Total(v) = v[1] + v[2]
<1>1. PICK f : Sums(f, Len(v), v) /\ Total(v) = f[Len(v)]
  <2>1. Len(v) \in Nat
    OBVIOUS
  <2> QED
    BY Zenon, <2>1, TotalIs
<1>2. f[0] = 0 /\ f[1] = f[0] + v[1] /\ f[2] = f[1] + v[2]
  BY <1>1 DEF Sums
<1> QED
  BY <1>1, <1>2

LEMMA TotalThree ==
    ASSUME NEW v, Len(v) = 3, \A i \in 1..3 : v[i] \in Int PROVE Total(v) = v[1] + v[2] + v[3]
<1>1. PICK f : Sums(f, Len(v), v) /\ Total(v) = f[Len(v)]
  <2>1. Len(v) \in Nat
    OBVIOUS
  <2> QED
    BY Zenon, <2>1, TotalIs
<1>2. f[0] = 0 /\ f[1] = f[0] + v[1] /\ f[2] = f[1] + v[2] /\ f[3] = f[2] + v[3]
  BY <1>1 DEF Sums
<1> QED
  BY <1>1, <1>2

LEMMA TotalSix ==
    ASSUME NEW v, Len(v) = 6, \A i \in 1..6 : v[i] \in Int
    PROVE  Total(v) = v[1] + v[2] + v[3] + v[4] + v[5] + v[6]
<1>1. PICK f : Sums(f, Len(v), v) /\ Total(v) = f[Len(v)]
  <2>1. Len(v) \in Nat
    OBVIOUS
  <2> QED
    BY Zenon, <2>1, TotalIs
<1>2. f[0] = 0 /\ f[1] = f[0] + v[1] /\ f[2] = f[1] + v[2] /\ f[3] = f[2] + v[3]
      /\ f[4] = f[3] + v[4] /\ f[5] = f[4] + v[5] /\ f[6] = f[5] + v[6]
  BY <1>1 DEF Sums
<1> QED
  BY <1>1, <1>2

\* A part of such groups is read as the sum of their values.
LEMMA UnitPart ==
    ASSUME NEW p \in Seq(UnitGroups) PROVE Duration(<<p>>) = Ok(Total(Values(p)))
<1>1. DOMAIN p = 1..Len(p) /\ \A i \in 1..Len(p) : p[i] \in UnitGroups
  BY LenProperties, ElementOfSeq
<1>2. \A i \in DOMAIN p : p[i].num /\ ~p[i].neg /\ p[i].unit \in DOMAIN UnitTicks
  BY <1>1, UnitGroupIs, UnitTicksAre
<1>3. ~Decimal(p)
  <2>1. NoText \notin Units
    BY NoTextIs DEF Units
  <2>2. Len(p) = 1 => p[1].unit \in Units
    BY <1>1, UnitGroupIs
  <2> QED
    BY <2>1, <2>2 DEF Decimal
<1>4. parseUnitDuration(p) = Ok(Total(Values(p)))
  BY Zenon, <1>2, <1>3 DEF parseUnitDuration, Values, Value
<1>5. <<p>> # <<>> /\ ~(Len(<<p>>) > 1) /\ <<p>>[1] = p
  OBVIOUS
<1> QED
  BY Zenon, <1>4, <1>5 DEF Duration

LEMMA OneUnit ==
    ASSUME NEW w \in Nat, NEW u \in Units
    PROVE  Duration(<<<<Number(w, 0, u)>>>>) = Ok(w * UnitTicks[u])
<1> DEFINE g == Number(w, 0, u)   p == <<g>>
<1>1. g \in UnitGroups
  BY DEF UnitGroups
<1>2. Value(g) = w * UnitTicks[u]
  <2>1. g.unit = u
    BY NumberIs
  <2>2. UnitTicks[u] \in Nat
    BY UnitTicksAre DEF Units
  <2> HIDE DEF g
  <2>3. Scaled(g, UnitTicks[u]) = w * UnitTicks[u]
    BY <2>2, ScaledWhole DEF g
  <2> QED
    BY <2>1, <2>3 DEF Value
<1> HIDE DEF g
<1>3. p \in Seq(UnitGroups) /\ Len(p) = 1 /\ Value(g) \in Int
  BY <1>1, UnitGroupIs
<1>4. Values(p)[1] = Value(g) /\ Len(Values(p)) = 1
  BY <1>3, ValuesTyped DEF Values
<1>5. Total(Values(p)) = Value(g)
  BY <1>3, <1>4, TotalOne
<1>6. Duration(<<p>>) = Ok(Total(Values(p)))
  BY <1>3, UnitPart
<1> QED
  BY Zenon, <1>2, <1>5, <1>6 DEF g

LEMMA FormatReads == \A d \in Nat : Duration(formatDuration(d)) = Ok(d)
<1> TAKE d \in Nat
<1>1. \A u \in Units : \A w \in Nat : w * UnitTicks[u] = d => Duration(<<<<Number(w, 0, u)>>>>) = Ok(d)
  BY OneUnit
<1>2. /\ d % Hour = 0 => d \div Hour \in Nat /\ (d \div Hour) * UnitTicks["h"] = d
      /\ d % Minute = 0 => d \div Minute \in Nat /\ (d \div Minute) * UnitTicks["m"] = d
      /\ d % Second = 0 => d \div Second \in Nat /\ (d \div Second) * UnitTicks["s"] = d
      /\ d \div 1 \in Nat /\ (d \div 1) * UnitTicks["ms"] = d
  BY Ticks, UnitTicksAre
<1>3. {"h", "m", "s", "ms"} \subseteq Units
  BY DEF Units
<1> QED
  BY Zenon, <1>1, <1>2, <1>3 DEF formatDuration

LEMMA UnitTextReads == ASSUME NEW d \in Nat PROVE Duration(UnitText(d)) = Ok(d)
<1> DEFINE all == AllGroups(d)   groups == Dropping(all, ZeroGroups)
<1>1. \A i \in 1..6 : i = 1 \/ i = 2 \/ i = 3 \/ i = 4 \/ i = 5 \/ i = 6
  OBVIOUS
<1>2. /\ UnitNames[1] = "w" /\ UnitNames[2] = "d" /\ UnitNames[3] = "h"
      /\ UnitNames[4] = "m" /\ UnitNames[5] = "s" /\ UnitNames[6] = "ms"
  BY DEF UnitNames
<1>3. \A i \in 1..6 : UnitNames[i] \in Units
  BY <1>1, <1>2 DEF Units
<1>4. \A i \in 1..6 : all[i] \in UnitGroups
  BY <1>3, AmountsTyped DEF AllGroups, UnitGroups
<1>5. all \in Seq(UnitGroups) /\ Len(all) = 6
  <2>1. all \in [1..6 -> UnitGroups]
    BY <1>4 DEF AllGroups
  <2> HIDE DEF all
  <2> QED
    BY <2>1, FunctionIsSeq
<1>6. \A i \in 1..6 : Value(all[i]) = Amount(d, i) * UnitTicks[UnitNames[i]]
  <2> TAKE i \in 1..6
  <2>1. all[i] = Number(Amount(d, i), 0, UnitNames[i])
    BY DEF AllGroups
  <2>2. UnitTicks[UnitNames[i]] \in Nat
    BY <1>3, UnitTicksAre DEF Units
  <2>3. Amount(d, i) \in Nat
    BY AmountsTyped
  <2>4. all[i].unit = UnitNames[i]
    BY <2>1, NumberIs
  <2>5. Scaled(all[i], UnitTicks[UnitNames[i]]) = Amount(d, i) * UnitTicks[UnitNames[i]]
    BY <2>1, <2>2, <2>3, ScaledWhole
  <2> QED
    BY Zenon, <2>4, <2>5 DEF Value
<1>7. /\ Amount(d, 1) = d \div 604800000
      /\ Amount(d, 2) = (d % 604800000) \div 86400000
      /\ Amount(d, 3) = (d % 86400000) \div 3600000
      /\ Amount(d, 4) = (d % 3600000) \div 60000
      /\ Amount(d, 5) = (d % 60000) \div 1000
      /\ Amount(d, 6) = (d % 1000) \div 1
  BY Ticks DEF Amount, UnitWeights
<1> HIDE DEF all
<1>8. Total(Values(all)) = d
  <2>1. Values(all) \in Seq(Int) /\ Len(Values(all)) = 6
    BY <1>5, ValuesTyped
  <2>2. \A i \in 1..6 : Values(all)[i] = Value(all[i])
    BY <1>5, LenProperties DEF Values
  <2>3. \A i \in 1..6 : Values(all)[i] \in Int
    BY <2>1, ElementOfSeq
  <2>4. Total(Values(all)) = Values(all)[1] + Values(all)[2] + Values(all)[3]
                              + Values(all)[4] + Values(all)[5] + Values(all)[6]
    BY <2>1, <2>3, TotalSix
  <2>5. /\ Values(all)[1] = (d \div 604800000) * 604800000
        /\ Values(all)[2] = ((d % 604800000) \div 86400000) * 86400000
        /\ Values(all)[3] = ((d % 86400000) \div 3600000) * 3600000
        /\ Values(all)[4] = ((d % 3600000) \div 60000) * 60000
        /\ Values(all)[5] = ((d % 60000) \div 1000) * 1000
        /\ Values(all)[6] = d % 1000
    BY <1>2, <1>6, <1>7, <2>2, UnitTicksAre
  <2> QED
    BY SMTT(30), <2>4, <2>5
<1>9. Total(Values(groups)) = d /\ groups \in Seq(UnitGroups)
  <2>1. \A g \in ZeroGroups : Value(g) = 0
    <3> SUFFICES ASSUME NEW i \in 1..6, NEW g, g = Number(0, 0, UnitNames[i]) PROVE Value(g) = 0
      BY DEF ZeroGroups
    <3>1. UnitTicks[UnitNames[i]] \in Nat /\ g.unit = UnitNames[i]
      BY <1>3, UnitTicksAre, NumberIs DEF Units
    <3>2. Scaled(g, UnitTicks[UnitNames[i]]) = 0 * UnitTicks[UnitNames[i]]
      BY <3>1, ScaledWhole
    <3> QED
      BY <3>1, <3>2 DEF Value
  <2> QED
    BY <1>5, <1>8, <2>1, TotalDropped, DroppingTyped
<1>10. Duration(<<groups>>) = Ok(d)
  BY <1>9, UnitPart
<1>11. UnitText(d) = <<IF groups = <<>> THEN <<Number(0, 0, "s")>> ELSE groups>>
  BY UnitTextIs DEF all
<1> HIDE DEF groups
<1>12. CASE groups = <<>>
  <2>1. d = 0
    <3>1. DOMAIN <<>> = {} /\ Values(<<>>) = <<>>
      BY DEF Values
    <3> QED
      BY <1>9, <1>12, <3>1, TotalEmpty
  <2>2. Duration(<<<<Number(0, 0, "s")>>>>) = Ok(0 * UnitTicks["s"])
    BY OneUnit DEF Units
  <2>3. 0 * UnitTicks["s"] = d
    BY <2>1, UnitTicksAre
  <2> QED
    BY Zenon, <1>11, <1>12, <2>2, <2>3
<1>13. CASE groups # <<>>
  BY Zenon, <1>10, <1>11, <1>13
<1> QED
  BY <1>12, <1>13

-----------------------------------------------------------------------------
(* Clocks, sizes and integers.                                             *)

LEMMA PlainPart ==
    \A w, t : LET p == <<Number(w, t, NoText)>>
              IN  Decimal(p) /\ (t = 0 => Whole(p)) /\ p[1] = Number(w, t, NoText)
<1> TAKE w, t
<1> DEFINE g == Number(w, t, NoText)
<1>1. g.num = TRUE /\ g.unit = NoText /\ g.tenth = t
  BY Zenon DEF Number
<1> HIDE DEF g
<1>2. Len(<<g>>) = 1 /\ <<g>>[1] = g
  OBVIOUS
<1> QED
  BY Zenon, <1>1, <1>2 DEF Decimal, Whole, g

\* The numbers of a clock, weighed.
Clock(h, m, s, t) == h * Hour + m * Minute + Weighed(s, t, Second)

\* The same with the units written out.
Tenths(s, t) == s * 1000 + t * 100
Written(h, m, s, t) == h * 3600000 + m * 60000 + Tenths(s, t)

LEMMA ClockUnits ==
    /\ Hour \in Nat /\ Minute \in Nat /\ Second \in Nat
    /\ Hour # Second /\ Minute # Second
BY SMT, Ticks

LEMMA SecondsAre ==
    \A w \in Nat, t \in 0..9 : Weighed(w, t, Second) = Tenths(w, t) /\ Tenths(w, t) \in Int
<1> TAKE w \in Nat, t \in 0..9
<1> DEFINE q == Second \div 10   r == Second % 10
<1>1. Second = 1000 /\ q = 100 /\ r = 0
  BY SMT, Ticks
<1>2. Weighed(w, t, Second) = w * Second + t * q + (t * r) \div 10
  BY Zenon DEF Weighed
<1> HIDE DEF q, r
<1>3. t * r = 0
  BY SMT, <1>1
<1> QED
  BY SMT, <1>1, <1>2, <1>3 DEF Tenths

LEMMA ClockNumbers ==
    /\ \A k \in Nat : k * Hour \in Int /\ k * Minute \in Int
    /\ \A s \in Nat, t \in 0..9 : Weighed(s, t, Second) \in Int
<1>1. \A k \in Nat : k * Hour \in Int /\ k * Minute \in Int
  BY SMT, ClockUnits
<1> QED
  BY Zenon, <1>1, SecondsAre

LEMMA ClockIs ==
    ASSUME NEW h, NEW m, NEW s \in Nat, NEW t \in 0..9
    PROVE  Clock(h, m, s, t) = Written(h, m, s, t)
<1>1. h * Hour = h * 3600000 /\ m * Minute = m * 60000
  BY SMT, Ticks
<1> QED
  BY SMT, <1>1, SecondsAre DEF Clock, Written

\* Hours, minutes and seconds; minutes and seconds.
LEMMA ThreeParts ==
    ASSUME NEW h \in Nat, NEW m \in Nat, NEW s \in Nat, NEW t \in 0..9
    PROVE  Duration(<<<<Number(h, 0, NoText)>>, <<Number(m, 0, NoText)>>, <<Number(s, t, NoText)>>>>) =
               Ok(Clock(h, m, s, t))
<1> DEFINE a == <<Number(h, 0, NoText)>>   b == <<Number(m, 0, NoText)>>   c == <<Number(s, t, NoText)>>
           x == <<a, b, c>>
           W(i) == <<Hour, Minute, Second>>[i + Offset(x)]
           v == [i \in DOMAIN x |-> Scaled(x[i][1], W(i))]
<1>1. /\ Whole(a) /\ Whole(b) /\ Decimal(c)
      /\ a[1] = Number(h, 0, NoText) /\ b[1] = Number(m, 0, NoText) /\ c[1] = Number(s, t, NoText)
  BY PlainPart
<1> HIDE DEF a, b, c
<1>2. /\ Scaled(a[1], Hour) = h * Hour /\ Scaled(b[1], Minute) = m * Minute
      /\ Scaled(c[1], Second) = Weighed(s, t, Second)
  <2>1. Scaled(Number(h, 0, NoText), Hour) = h * Hour
    BY Zenon, ClockUnits, ScaledWhole
  <2>2. Scaled(Number(m, 0, NoText), Minute) = m * Minute
    BY Zenon, ClockUnits, ScaledWhole
  <2>3. Scaled(Number(s, t, NoText), Second) = Weighed(s, t, Second)
    BY Zenon, ClockUnits, ScaledIs
  <2> QED
    BY Zenon, <1>1, <2>1, <2>2, <2>3
<1>3. Len(x) = 3 /\ DOMAIN x = 1..3 /\ x[1] = a /\ x[2] = b /\ x[3] = c /\ x # <<>>
  OBVIOUS
<1> HIDE DEF x
<1>4. Offset(x) = 0
  BY <1>3 DEF Offset
<1>5. W(1) = Hour /\ W(2) = Minute /\ W(3) = Second
  BY <1>4
<1> HIDE DEF W
<1>7. \A i \in DOMAIN x : IF W(i) = Second THEN Decimal(x[i]) ELSE Whole(x[i])
  BY <1>1, <1>3, <1>5, ClockUnits
<1>8. v[1] = h * Hour /\ v[2] = m * Minute /\ v[3] = Weighed(s, t, Second) /\ Len(v) = 3
  BY <1>2, <1>3, <1>5
<1> HIDE DEF v
<1>9. Total(v) = Clock(h, m, s, t)
  <2>1. \A i \in 1..3 : v[i] \in Int
    <3>1. v[1] \in Int /\ v[2] \in Int /\ v[3] \in Int
      BY Zenon, <1>8, ClockNumbers
    <3> QED
      BY <3>1
  <2>2. Total(v) = v[1] + v[2] + v[3]
    BY Zenon, <1>8, <2>1, TotalThree
  <2> QED
    BY Zenon, <1>8, <2>2 DEF Clock
<1>10. 3 \in 2..3 /\ 3 > 1
  OBVIOUS
<1>11. parseClockDuration(x) = Ok(Total(v))
  BY Zenon, <1>3, <1>7, <1>10 DEF parseClockDuration, W, v
<1> QED
  BY Zenon, <1>3, <1>9, <1>10, <1>11 DEF Duration, x, a, b, c

LEMMA TwoParts ==
    ASSUME NEW m \in Nat, NEW s \in Nat, NEW t \in 0..9
    PROVE  Duration(<<<<Number(m, 0, NoText)>>, <<Number(s, t, NoText)>>>>) =
               Ok(m * Minute + Weighed(s, t, Second))
<1> DEFINE b == <<Number(m, 0, NoText)>>   c == <<Number(s, t, NoText)>>
           x == <<b, c>>
           W(i) == <<Hour, Minute, Second>>[i + Offset(x)]
           v == [i \in DOMAIN x |-> Scaled(x[i][1], W(i))]
<1>1. /\ Whole(b) /\ Decimal(c)
      /\ b[1] = Number(m, 0, NoText) /\ c[1] = Number(s, t, NoText)
  BY PlainPart
<1> HIDE DEF b, c
<1>2. Scaled(b[1], Minute) = m * Minute /\ Scaled(c[1], Second) = Weighed(s, t, Second)
  <2>1. Scaled(Number(m, 0, NoText), Minute) = m * Minute
    BY Zenon, ClockUnits, ScaledWhole
  <2>2. Scaled(Number(s, t, NoText), Second) = Weighed(s, t, Second)
    BY Zenon, ClockUnits, ScaledIs
  <2> QED
    BY Zenon, <1>1, <2>1, <2>2
<1>3. Len(x) = 2 /\ DOMAIN x = 1..2 /\ x[1] = b /\ x[2] = c /\ x # <<>>
  OBVIOUS
<1> HIDE DEF x
<1>4. Offset(x) = 1
  BY <1>3 DEF Offset
<1>5. W(1) = Minute /\ W(2) = Second
  BY <1>4
<1> HIDE DEF W
<1>7. \A i \in DOMAIN x : IF W(i) = Second THEN Decimal(x[i]) ELSE Whole(x[i])
  BY <1>1, <1>3, <1>5, ClockUnits
<1>8. v[1] = m * Minute /\ v[2] = Weighed(s, t, Second) /\ Len(v) = 2
  BY <1>2, <1>3, <1>5
<1> HIDE DEF v
<1>9. Total(v) = m * Minute + Weighed(s, t, Second)
  <2>1. \A i \in 1..2 : v[i] \in Int
    <3>1. v[1] \in Int /\ v[2] \in Int
      BY Zenon, <1>8, ClockNumbers
    <3> QED
      BY <3>1
  <2>2. Total(v) = v[1] + v[2]
    BY Zenon, <1>8, <2>1, TotalTwo
  <2> QED
    BY Zenon, <1>8, <2>2
<1>10. 2 \in 2..3 /\ 2 > 1
  OBVIOUS
<1>11. parseClockDuration(x) = Ok(Total(v))
  BY Zenon, <1>3, <1>7, <1>10 DEF parseClockDuration, W, v
<1> QED
  BY Zenon, <1>3, <1>9, <1>10, <1>11 DEF Duration, x, b, c

LEMMA ClockReads ==
    ASSUME NEW d \in Nat, NEW t \in ClockTexts(d) PROVE Duration(t) = Ok(d)
<1> DEFINE h == d \div Hour             m == (d % Hour) \div Minute
           s == (d % Minute) \div Second   n == (d % Second) \div 100
           T == <<<<Number(h, 0, NoText)>>, <<Number(m, 0, NoText)>>, <<Number(s, n, NoText)>>>>
           U == <<<<Number(m, 0, NoText)>>, <<Number(s, n, NoText)>>>>
<1>1. d % 100 = 0 /\ (t = T \/ (t = U /\ d < Hour))
  BY DEF ClockTexts
<1> HIDE DEF T, U
<1>2. /\ h = d \div 3600000 /\ m = (d % 3600000) \div 60000
      /\ s = (d % 60000) \div 1000 /\ n = (d % 1000) \div 100
  BY SMT, Ticks
<1> HIDE DEF h, m, s, n
<1>3. h \in Nat /\ m \in Nat /\ s \in Nat /\ n \in 0..9
  BY SMT, <1>2
<1>4. d = Clock(h, m, s, n)
  <2>1. Clock(h, m, s, n) = Written(h, m, s, n)
    BY Zenon, <1>3, ClockIs
  <2>2. d = 3600000 * h + (d % 3600000)
    BY SMT, <1>2
  <2>3. d % 3600000 = 60000 * m + (d % 60000)
    BY SMT, <1>2
  <2>4. d % 60000 = 1000 * s + (d % 1000) /\ d % 1000 = 100 * n
    BY SMT, <1>1, <1>2
  <2>5. Written(h, m, s, n) = d
    BY SMT, <1>3, <2>2, <2>3, <2>4 DEF Written, Tenths
  <2> QED
    BY Zenon, <2>1, <2>5
<1>5. d < Hour => d = m * Minute + Weighed(s, n, Second)
  <2>1. d < Hour => h = 0
    BY SMT, <1>2, Ticks
  <2>2. h = 0 => h * Hour + m * Minute = m * Minute
    BY SMT, <1>3, ClockUnits
  <2> QED
    BY Zenon, <1>4, <2>1, <2>2 DEF Clock
<1>6. Duration(T) = Ok(Clock(h, m, s, n))
  BY Zenon, <1>3, ThreeParts DEF T
<1>7. Duration(U) = Ok(m * Minute + Weighed(s, n, Second))
  BY Zenon, <1>3, TwoParts DEF U
<1> QED
  BY Zenon, <1>1, <1>4, <1>5, <1>6, <1>7

LEMMA PlainReads ==
    ASSUME NEW w \in Nat
    PROVE  /\ Bytes(<<<<Number(w, 0, NoText)>>>>) = Ok(w) /\ Integer(<<<<Number(w, 0, NoText)>>>>) = Ok(w)
           /\ Integer(<<<<Minus(Number(w, 0, NoText))>>>>) = Ok(-w)
<1> DEFINE g == Number(w, 0, NoText)   x == <<<<g>>>>   n == Minus(g)   y == <<<<n>>>>
<1>1. g.num = TRUE /\ g.neg = FALSE /\ g.whole = w /\ g.tenth = 0 /\ g.unit = NoText
  BY NumberIs
<1>2. n.num = TRUE /\ n.neg = TRUE /\ n.whole = w /\ n.tenth = 0 /\ n.unit = NoText
  BY DEF Minus, Number
<1>3. Scaled(g, 1) = w
  <2>1. Scaled(g, 1) = w * 1
    BY ScaledWhole
  <2> QED
    BY <2>1
<1> HIDE DEF g, n
<1>4. Scaled(n, 1) = -w
  <2>1. Scaled(n, 1) = -(w * 1 + 0 * (1 \div 10) + (0 * (1 % 10)) \div 10)
    BY Zenon, <1>2 DEF Scaled
  <2> QED
    BY <2>1
<1>5. Len(x) = 1 /\ Len(x[1]) = 1 /\ x[1][1] = g
  OBVIOUS
<1>6. Len(y) = 1 /\ Len(y[1]) = 1 /\ y[1][1] = n
  OBVIOUS
<1> HIDE DEF x, y
<1>7. Whole(x[1]) /\ Decimal(x[1]) /\ Whole(y[1])
  BY Zenon, <1>1, <1>2, <1>5, <1>6 DEF Whole, Decimal
<1> QED
  BY Zenon, <1>3, <1>4, <1>5, <1>6, <1>7 DEF Bytes, Integer, x, y, g, n

SizeNames == {"k", "KiB", "M", "MiB", "GiB"}

\* A multiple of half a unit is what its number says, though a tenth of the unit is not whole.
LEMMA HalvesAre ==
    ASSUME NEW b \in Nat, NEW w \in {Kilo, Mega, Giga}, b % (w \div 2) = 0,
           NEW t, t = IF b % w = 0 THEN 0 ELSE 5
    PROVE  Weighed(b \div w, t, w) = b
<1>1. CASE w = 1024
  <2>1. b % 512 = 0 /\ (b % 1024 = 0 => t = 0) /\ (b % 1024 # 0 => t = 5)
    BY SMT, <1>1
  <2>2. Weighed(b \div w, t, w) = (b \div 1024) * 1024 + t * 102 + (t * 4) \div 10
    BY SMT, <1>1, <2>1 DEF Weighed
  <2> QED
    BY SMT, <2>1, <2>2
<1>2. CASE w = 1048576
  <2>1. b % 524288 = 0 /\ (b % 1048576 = 0 => t = 0) /\ (b % 1048576 # 0 => t = 5)
    BY SMT, <1>2
  <2>2. Weighed(b \div w, t, w) = (b \div 1048576) * 1048576 + t * 104857 + (t * 6) \div 10
    BY SMT, <1>2, <2>1 DEF Weighed
  <2> QED
    BY SMT, <2>1, <2>2
<1>3. CASE w = 1073741824
  <2>1. b % 536870912 = 0 /\ (b % 1073741824 = 0 => t = 0) /\ (b % 1073741824 # 0 => t = 5)
    BY SMT, <1>3
  <2>2. Weighed(b \div w, t, w) = (b \div 1073741824) * 1073741824 + t * 107374182 + (t * 4) \div 10
    BY SMT, <1>3, <2>1 DEF Weighed
  <2> QED
    BY SMT, <2>1, <2>2
<1> QED
  BY SMT, <1>1, <1>2, <1>3, SizesAre

LEMMA SizeReads == ASSUME NEW b \in Nat, NEW t \in SizeTexts(b) PROVE Bytes(t) = Ok(b)
<1> DEFINE weight == [k |-> Kilo, KiB |-> Kilo, M |-> Mega, MiB |-> Mega, GiB |-> Giga]
           tenth(u) == IF b % weight[u] = 0 THEN 0 ELSE 5
<1>1. /\ DOMAIN weight = SizeNames
      /\ \A u \in SizeNames : weight[u] \in {Kilo, Mega, Giga}
  BY DEF SizeNames
<1>2. \A u \in SizeNames : u \in DOMAIN SizeUnits /\ SizeUnits[u] = weight[u] /\ u # NoText
  BY NoTextIs DEF SizeNames, SizeUnits
<1> HIDE DEF weight
<1>3. \/ t = <<<<Number(b, 0, NoText)>>>>
      \/ \E u \in SizeNames : /\ b % (weight[u] \div 2) = 0
                              /\ t = <<<<Number(b \div weight[u], tenth(u), u)>>>>
  BY Zenon, <1>1 DEF SizeTexts, weight
<1>4. ASSUME NEW u \in SizeNames, b % (weight[u] \div 2) = 0,
             t = <<<<Number(b \div weight[u], tenth(u), u)>>>>
      PROVE  Bytes(t) = Ok(b)
  <2> DEFINE w == weight[u]   g == Number(b \div w, tenth(u), u)
  <2>1. w \in {Kilo, Mega, Giga}
    BY Zenon, <1>1
  <2>2. Scaled(g, w) = b
    <3>1. b \div w \in Nat /\ tenth(u) \in 0..9 /\ w \in Nat
      BY SMT, <2>1, SizesAre
    <3>2. Scaled(g, w) = Weighed(b \div w, tenth(u), w)
      BY Zenon, <3>1, ScaledIs
    <3>3. tenth(u) = IF b % w = 0 THEN 0 ELSE 5
      OBVIOUS
    <3> HIDE DEF tenth, w
    <3>4. b % (w \div 2) = 0
      BY Zenon, <1>4 DEF w
    <3> QED
      BY Zenon, <2>1, <3>2, <3>3, <3>4, HalvesAre
  <2>3. g.num = TRUE /\ g.unit = u
    BY NumberIs
  <2>4. t = <<<<g>>>>
    BY <1>4
  <2> HIDE DEF g
  <2>5. Len(t) = 1 /\ Len(t[1]) = 1 /\ t[1][1] = g
    BY <2>4
  <2>6. ~Decimal(t[1])
    BY Zenon, <1>2, <2>3, <2>5 DEF Decimal
  <2> QED
    BY Zenon, <1>2, <2>2, <2>3, <2>5, <2>6 DEF Bytes
<1> QED
  BY Zenon, <1>3, <1>4, PlainReads

\* What a quantity is read with.
Read(kind, text) == CASE kind = "duration" -> Duration(text)
                      [] kind = "bytes"    -> Bytes(text)
                      [] kind = "int"      -> Integer(text)

LEMMA TextsRead ==
    ASSUME NEW q \in Quantities, NEW t \in Texts(q) PROVE Read(q[1], t) = Ok(q[2])
<1>1. CASE q[1] = "duration"
  <2>1. q[2] \in Nat
    BY <1>1, QuantitiesAssumption
  <2>2. t = UnitText(q[2]) \/ t = formatDuration(q[2]) \/ t \in ClockTexts(q[2])
    BY <1>1 DEF Texts
  <2> QED
    BY <1>1, <2>1, <2>2, UnitTextReads, FormatReads, ClockReads DEF Read
<1>2. CASE q[1] = "bytes"
  <2>1. q[2] \in Nat
    BY <1>2, QuantitiesAssumption
  <2>2. t \in SizeTexts(q[2])
    BY <1>2 DEF Texts
  <2> QED
    BY <1>2, <2>1, <2>2, SizeReads DEF Read
<1>3. CASE q[1] = "int"
  <2>1. q[2] \in Int
    BY <1>3, QuantitiesAssumption
  <2>2. t = <<<<IF q[2] < 0 THEN Minus(Number(-q[2], 0, NoText)) ELSE Number(q[2], 0, NoText)>>>>
    BY <1>3 DEF Texts
  <2>3. CASE q[2] < 0
    <3>1. -q[2] \in Nat /\ -(-q[2]) = q[2]
      BY <2>1, <2>3
    <3>2. Integer(<<<<Minus(Number(-q[2], 0, NoText))>>>>) = Ok(-(-q[2]))
      BY <3>1, PlainReads
    <3> QED
      BY Zenon, <1>3, <2>2, <2>3, <3>1, <3>2 DEF Read
  <2>4. CASE ~(q[2] < 0)
    <3>1. q[2] \in Nat
      BY <2>1, <2>4
    <3>2. Integer(<<<<Number(q[2], 0, NoText)>>>>) = Ok(q[2])
      BY <3>1, PlainReads
    <3> QED
      BY Zenon, <1>3, <2>2, <2>4, <3>2 DEF Read
  <2> QED
    BY <2>3, <2>4
<1> QED
  BY <1>1, <1>2, <1>3, QuantitiesAssumption

-----------------------------------------------------------------------------
(* Reading a reply, from the router and from the cache.                    *)

\* The rows of a reply: what the cache makes of the word of a row, it was before; the keys
\* are known, and what they map to is a text.
Rows == \A i \in DOMAIN raw.rows :
            /\ raw.rows[i].word = "!re" /\ DOMAIN raw.rows[i].map \subseteq RowKeys
            /\ \A k \in DOMAIN raw.rows[i].map : raw.rows[i].map[k] \in Text

\* The reply to a quantity has it in one of its notations.
Meant == meant # <<>> =>
            /\ meant \in Quantities /\ 1 \in DOMAIN raw.rows
            /\ raw.rows[1].map["value"] \in Texts(meant) /\ "value" \in DOMAIN raw.rows[1].map

\* What a caller has read is what there is to read.
AsRead == /\ seen # <<>> => seen[1] = Reading(wrapReply(raw))
          /\ again # <<>> => seen # <<>> /\ again[1] = Reading(toReply(toCached(raw)))

ReadInv == Rows /\ Meant /\ AsRead

LEMMA CachedReading == Rows => Reading(toReply(toCached(raw))) = Reading(wrapReply(raw))
<1> SUFFICES ASSUME Rows PROVE Reading(toReply(toCached(raw))) = Reading(wrapReply(raw))
  OBVIOUS
<1> DEFINE rows == raw.rows   cached == toReply(toCached(raw)).rows
<1>1. wrapReply(raw).rows = rows
  BY DEF wrapReply
<1>2. cached = [i \in DOMAIN rows |->
                  [word |-> "!re", tag |-> NoText,
                   map |-> [k \in DOMAIN rows[i].map |-> JSON(rows[i].map[k])]]]
  BY Zenon DEF toReply, toCached, Kept
<1>3. ASSUME NEW i \in DOMAIN rows, NEW k \in RowKeys
      PROVE  Accessors(cached[i], k) = Accessors(rows[i], k)
  <2> DEFINE c == cached[i]   r == rows[i]
  <2>1. /\ c.word = r.word /\ DOMAIN c.map = DOMAIN r.map
        /\ \A j \in DOMAIN r.map : c.map[j] = JSON(r.map[j])
    <3>1. c = [word |-> "!re", tag |-> NoText, map |-> [j \in DOMAIN r.map |-> JSON(r.map[j])]]
      BY Zenon, <1>2
    <3>2. r.word = "!re"
      BY DEF Rows
    <3> HIDE DEF c, r
    <3> QED
      BY <3>1, <3>2
  <2>2. \A j \in DOMAIN r.map : r.map[j] \in Text
    BY DEF Rows
  <2> HIDE DEF c, r
  <2>3. CASE k \in DOMAIN r.map
    <3> DEFINE t == r.map[k]   u == c.map[k]
    <3>1. t \in Text /\ u = JSON(t)
      BY <2>1, <2>2, <2>3
    <3> HIDE DEF t, u
    <3>2. Integer(u) = Integer(t) /\ Bytes(u) = Bytes(t) /\ Bool(u) = Bool(t) /\ Duration(u) = Duration(t)
      BY <3>1, JSONText, ReadsSame
    <3>3. Has(c, k) = TRUE /\ Has(r, k) = TRUE /\ Get(c, k) = u /\ Get(r, k) = t
      BY <2>1, <2>3 DEF Has, Get, t, u
    <3> QED
      BY Zenon, <2>1, <3>2, <3>3 DEF Accessors, c, r
  <2>4. CASE k \notin DOMAIN r.map
    <3>1. Has(c, k) = FALSE /\ Has(r, k) = FALSE /\ Get(c, k) = <<>> /\ Get(r, k) = <<>>
      BY <2>1, <2>4 DEF Has, Get
    <3> QED
      BY Zenon, <2>1, <3>1 DEF Accessors, c, r
  <2> QED
    BY <2>3, <2>4
<1>4. DOMAIN cached = DOMAIN rows
  BY <1>2
<1> HIDE DEF rows, cached
<1>5. [i \in DOMAIN cached |-> [k \in RowKeys |-> Accessors(cached[i], k)]] =
      [i \in DOMAIN rows |-> [k \in RowKeys |-> Accessors(rows[i], k)]]
  BY Zenon, <1>3, <1>4
<1> QED
  BY Zenon, <1>1, <1>5 DEF Reading, rows, cached

LEMMA ReadInitial == WordsInit => ReadInv
<1> SUFFICES ASSUME WordsInit PROVE ReadInv
  OBVIOUS
<1>1. seen = <<>> /\ again = <<>>
  BY DEF WordsInit, ReadInit
<1>2. CASE meant = <<>> /\ raw = NoReply
  BY <1>1, <1>2 DEF ReadInv, Rows, Meant, AsRead, NoReply
<1>3. ASSUME NEW q \in Quantities, NEW text \in Texts(q), meant = q,
             raw = [rows |-> <<[word |-> "!re", tag |-> "l1", map |-> [k \in RowKeys |-> text]]>>,
                    ret |-> <<>>]
      PROVE  ReadInv
  <2>1. text \in Text
    BY TextsTyped
  <2>2. /\ DOMAIN raw.rows = {1} /\ raw.rows[1].word = "!re"
        /\ raw.rows[1].map = [k \in RowKeys |-> text]
    BY <1>3
  <2> QED
    BY <1>1, <1>3, <2>1, <2>2 DEF ReadInv, Rows, Meant, AsRead, RowKeys
<1>4. ASSUME meant = <<>>, NEW text \in OddTexts, raw \in Replies(text) PROVE ReadInv
  <2>1. text \in Text
    BY OddTyped
  <2>2. \/ raw = [rows |-> <<[word |-> "!re", tag |-> "l1", map |-> [k \in RowKeys |-> text]]>>,
                  ret |-> <<>>]
        \/ raw = [rows |-> <<[word |-> "!re", tag |-> "l1", map |-> [k \in {} |-> text]]>>, ret |-> <<>>]
        \/ raw = [rows |-> <<>>, ret |-> text]
    BY <1>4 DEF Replies
  <2>3. \A i \in DOMAIN raw.rows :
            /\ raw.rows[i].word = "!re"
            /\ raw.rows[i].map \in {[k \in RowKeys |-> text], [k \in {} |-> text]}
    BY <2>2
  <2> QED
    BY <1>1, <1>4, <2>1, <2>3 DEF ReadInv, Rows, Meant, AsRead
<1> QED
  BY <1>2, <1>3, <1>4 DEF WordsInit, ReadInit

LEMMA ReadStep == ReadInv /\ [WordsNext]_<<buildVars, readVars>> => ReadInv'
<1> SUFFICES ASSUME ReadInv, [WordsNext]_<<buildVars, readVars>> PROVE ReadInv'
  OBVIOUS
<1>1. CASE UNCHANGED readVars
  BY <1>1 DEF readVars, ReadInv, Rows, Meant, AsRead
<1>2. CASE Exec
  BY <1>2 DEF Exec, ReadInv, Rows, Meant, AsRead
<1>3. CASE Hit
  BY <1>3 DEF Hit, ReadInv, Rows, Meant, AsRead
<1>4. BuildNext => UNCHANGED readVars
  BY Zenon DEF BuildNext, Add, MakeStream, Combine, PathStream, PrintStream, KeepSpec, Building
<1> QED
  BY Zenon, <1>1, <1>2, <1>3, <1>4 DEF WordsNext, ReadNext

\* What a reply holds, and what was read from it (Exec, ExecCached).
THEOREM ReadInvariance == WordsSpec => []ReadInv
BY ReadInitial, ReadStep, PTL DEF WordsSpec

\* A cache hit reads like a miss, for every reply: what JSON makes of bytes that are not
\* UTF-8 is no more a unit, a number or a word of a flag than they were.
THEOREM HitReadsLikeMiss == WordsSpec => []CachedReadsTheSame
<1>1. ReadInv => CachedReadsTheSame
  BY CachedReading DEF ReadInv, AsRead, CachedReadsTheSame
<1> QED
  BY <1>1, ReadInvariance, PTL

\* The accessors read every quantity back, in every notation.
THEOREM QuantitiesReadBack == WordsSpec => []ReadsBack
<1>1. ASSUME ReadInv, seen # <<>>, meant # <<>>
      PROVE  seen[1][1]["value"][meant[1]] = Ok(meant[2])
  <2> DEFINE row == raw.rows[1]   text == row.map["value"]   a == Accessors(row, "value")
  <2>1. seen[1] = Reading(wrapReply(raw)) /\ 1 \in DOMAIN raw.rows
    BY <1>1 DEF ReadInv, AsRead, Meant
  <2>2. seen[1][1]["value"] = a
    BY <2>1 DEF Reading, wrapReply, RowKeys
  <2>3. meant \in Quantities /\ text \in Texts(meant) /\ "value" \in DOMAIN row.map
    BY <1>1 DEF ReadInv, Meant
  <2>4. Get(row, "value") = text
    BY <2>3 DEF Get, Has
  <2>5. Read(meant[1], text) = Ok(meant[2])
    BY <2>3, TextsRead
  <2>6. a["duration"] = Duration(text) /\ a["bytes"] = Bytes(text) /\ a["int"] = Integer(text)
    BY <2>4 DEF Accessors
  <2>7. meant[1] \in {"duration", "bytes", "int"}
    BY <2>3, QuantitiesAssumption
  <2> HIDE DEF row, text, a
  <2> QED
    BY <2>2, <2>5, <2>6, <2>7 DEF Read
<1>2. ReadInv => ReadsBack
  BY <1>1 DEF ReadsBack
<1> QED
  BY <1>2, ReadInvariance, PTL

-----------------------------------------------------------------------------
(* Slices.                                                                 *)

\* The words. The provers do not know that a literal is in STRING.
AWord == [w : STRING \cup {NoText, "path", "print", "set", "follow", "follow-only", "interval", "unused"},
          text : Text]

Arrays == Seq(Seq(AWord))

\* A slice that lies within its array.
SliceType == [array : Nat, len : Nat]
Valid(h, s) == s \in SliceType /\ s.array <= Len(h) /\ s.len <= Cap(h, s)

LEMMA ContentsIs ==
    ASSUME NEW h \in Arrays, NEW s, Valid(h, s)
    PROVE  /\ Contents(h, s) \in Seq(AWord) /\ Len(Contents(h, s)) = s.len
           /\ \A i \in 1..s.len : Contents(h, s)[i] = h[s.array][i]
           /\ s.array # 0 => /\ s.array \in 1..Len(h) /\ h[s.array] \in Seq(AWord)
                             /\ s.len <= Len(h[s.array])
           /\ s.array = 0 => s.len = 0
<1>1. s.array \in Nat /\ s.len \in Nat
  BY DEF Valid, SliceType
<1>2. /\ s.array # 0 => s.array \in 1..Len(h) /\ h[s.array] \in Seq(AWord)
                        /\ s.len <= Len(h[s.array])
      /\ s.array = 0 => s.len = 0
  <2>1. Len(h) \in Nat
    BY LenProperties DEF Arrays
  <2>2. s.array # 0 => s.array \in 1..Len(h)
    BY <1>1, <2>1 DEF Valid
  <2>3. \A i \in 1..Len(h) : h[i] \in Seq(AWord)
    BY ElementOfSeq DEF Arrays
  <2> QED
    BY <1>1, <2>2, <2>3 DEF Valid, Cap
<1>3. \A i \in 1..s.len : h[s.array][i] \in AWord
  <2> TAKE i \in 1..s.len
  <2>1. s.array # 0 /\ i \in 1..Len(h[s.array])
    BY <1>1, <1>2, LenProperties
  <2> QED
    BY <1>2, <2>1, ElementOfSeq
<1>4. Contents(h, s) \in [1..s.len -> AWord]
  BY <1>3 DEF Contents
<1> QED
  BY <1>1, <1>2, <1>4, FunctionIsSeq DEF Contents

IsContents(words, h, s) ==
    /\ words \in Seq(AWord) /\ Len(words) = s.len
    /\ \A i \in 1..s.len : words[i] = h[s.array][i]

LEMMA ContentsAt == \A h \in Arrays : \A s : Valid(h, s) => IsContents(Contents(h, s), h, s)
BY ContentsIs DEF IsContents

LEMMA NewArrayIs ==
    ASSUME NEW words \in Seq(AWord), NEW cap \in Nat, Len(words) <= cap
    PROVE  /\ NewArray(words, cap) \in Seq(AWord) /\ Len(NewArray(words, cap)) = cap
           /\ \A i \in 1..Len(words) : NewArray(words, cap)[i] = words[i]
<1> DEFINE n == cap - Len(words)   blanks == [i \in 1..n |-> Blank]
<1>1. n \in Nat /\ Len(words) \in Nat
  BY LenProperties
<1>2. Blank \in AWord
  <2>1. <<>> \in Text
    BY DEF Text
  <2> QED
    BY <2>1 DEF Blank, Plain, AWord
<1>3. blanks \in Seq(AWord) /\ Len(blanks) = n
  <2>1. blanks \in [1..n -> AWord]
    BY <1>2
  <2> HIDE DEF blanks, n
  <2> QED
    BY <1>1, <2>1, FunctionIsSeq
<1>4. NewArray(words, cap) = words \o blanks
  BY DEF NewArray
<1> HIDE DEF blanks
<1>5. words \o blanks \in Seq(AWord) /\ Len(words \o blanks) = Len(words) + n
      /\ \A i \in 1..(Len(words) + n) : i <= Len(words) => (words \o blanks)[i] = words[i]
  BY <1>3, ConcatProperties
<1> QED
  BY <1>1, <1>4, <1>5

\* append, as its callers see it: the words are added, and no slice that ends before them
\* is affected.
Adds(h, s, words, a) ==
    /\ a.heap \in Arrays /\ Len(h) <= Len(a.heap)
    /\ Valid(a.heap, a.slice) /\ Contents(a.heap, a.slice) = Contents(h, s) \o words
    /\ a.slice.len = s.len + Len(words) /\ a.slice.array # 0
    /\ a.slice.array = s.array \/ a.slice.array = Len(h) + 1
    /\ \A t : Valid(h, t) /\ (t.array = s.array => t.len <= s.len) =>
                 Valid(a.heap, t) /\ Contents(a.heap, t) = Contents(h, t)

LEMMA AppendedIs ==
    ASSUME NEW h \in Arrays, NEW s, Valid(h, s), NEW words \in Seq(AWord), s.array # 0 \/ Len(words) > 0,
           NEW a, a = Appended(h, s, words)
    PROVE  Adds(h, s, words, a)
<1> DEFINE len == s.len + Len(words)
           sum == Contents(h, s) \o words
<1>1. /\ s.array \in Nat /\ s.len \in Nat /\ Len(words) \in Nat /\ Len(h) \in Nat
      /\ Cap(h, s) \in Nat /\ s.len <= Cap(h, s)
      /\ DOMAIN h = 1..Len(h) /\ \A i \in 1..Len(h) : h[i] \in Seq(AWord) /\ Len(h[i]) \in Nat
  <2>1. Len(h) \in Nat /\ DOMAIN h = 1..Len(h) /\ \A i \in 1..Len(h) : h[i] \in Seq(AWord)
    BY LenProperties, ElementOfSeq DEF Arrays
  <2>2. \A i \in 1..Len(h) : Len(h[i]) \in Nat
    BY <2>1, LenProperties
  <2>3. s.array \in Nat /\ s.len \in Nat /\ s.len <= Cap(h, s) /\ Len(words) \in Nat
    BY LenProperties DEF Valid, SliceType
  <2>4. Cap(h, s) \in Nat
    BY <2>1, <2>2, <2>3 DEF Cap, Valid
  <2> QED
    BY <2>1, <2>2, <2>3, <2>4
<1>2. /\ Contents(h, s) \in Seq(AWord) /\ Len(Contents(h, s)) = s.len
      /\ \A i \in 1..s.len : Contents(h, s)[i] = h[s.array][i]
  BY ContentsIs
<1>3. /\ sum \in Seq(AWord) /\ Len(sum) = len
      /\ \A i \in 1..len : sum[i] = IF i <= s.len THEN h[s.array][i] ELSE words[i - s.len]
  <2>1. sum \in Seq(AWord) /\ Len(sum) = len
    BY <1>2, ConcatProperties
  <2>2. \A i \in 1..len : sum[i] = IF i <= s.len THEN Contents(h, s)[i] ELSE words[i - s.len]
    BY <1>2, ConcatProperties
  <2>3. \A i \in 1..len : i <= s.len => i \in 1..s.len
    BY <1>1
  <2> QED
    BY <1>2, <2>1, <2>2, <2>3
<1>4. CASE len <= Cap(h, s)
  <2> DEFINE arr == h[s.array]
             new == [i \in DOMAIN arr |-> IF i \in (s.len + 1)..len THEN words[i - s.len] ELSE arr[i]]
  <2>1. a.heap = [h EXCEPT ![s.array] = new] /\ a.slice = [s EXCEPT !.len = len]
    BY <1>4 DEF Appended
  <2>2. s.array \in 1..Len(h) /\ Cap(h, s) = Len(arr) /\ arr \in Seq(AWord) /\ DOMAIN arr = 1..Len(arr)
        /\ Len(arr) \in Nat
    <3>1. s.array # 0
      BY <1>1, <1>4 DEF Cap
    <3>2. s.array \in 1..Len(h)
      BY <1>1, <3>1 DEF Valid
    <3> QED
      BY <1>1, <3>1, <3>2, LenProperties DEF Cap
  <2>3. \A i \in DOMAIN arr : new[i] = IF i \in (s.len + 1)..len THEN words[i - s.len] ELSE arr[i]
    OBVIOUS
  <2>4. new \in Seq(AWord) /\ Len(new) = Len(arr)
    <3>1. \A i \in (s.len + 1)..len : words[i - s.len] \in AWord
      <4> TAKE i \in (s.len + 1)..len
      <4>1. i - s.len \in 1..Len(words)
        BY <1>1
      <4> QED
        BY <4>1, ElementOfSeq
    <3>2. \A i \in 1..Len(arr) : arr[i] \in AWord
      BY <2>2, ElementOfSeq
    <3>3. new \in [1..Len(arr) -> AWord]
      BY <2>2, <3>1, <3>2
    <3> HIDE DEF new, arr
    <3> QED
      BY <2>2, <3>3, FunctionIsSeq
  <2> HIDE DEF new
  <2>5. /\ a.heap \in Arrays /\ Len(a.heap) = Len(h) /\ a.heap[s.array] = new
        /\ \A i \in 1..Len(h) : i # s.array => a.heap[i] = h[i]
    <3>1. a.heap \in [1..Len(h) -> Seq(AWord)]
      BY <1>1, <2>1, <2>2, <2>4
    <3>2. a.heap \in Arrays /\ Len(a.heap) = Len(h)
      BY <1>1, <3>1, FunctionIsSeq DEF Arrays
    <3> QED
      BY <1>1, <2>1, <2>2, <3>2
  <2>6. a.slice.array = s.array /\ a.slice.len = len /\ a.slice \in SliceType
    BY <1>1, <2>1 DEF Valid, SliceType
  <2>7. Valid(a.heap, a.slice)
    BY <1>1, <1>4, <2>2, <2>4, <2>5, <2>6 DEF Valid, Cap
  <2>8. Contents(a.heap, a.slice) = sum
    <3>1. Contents(a.heap, a.slice) \in Seq(AWord) /\ Len(Contents(a.heap, a.slice)) = len
          /\ \A i \in 1..len : Contents(a.heap, a.slice)[i] = new[i]
      <4> DEFINE x == Contents(a.heap, a.slice)
      <4>1. a.heap \in Arrays /\ Valid(a.heap, a.slice)
        BY <2>5, <2>6, <2>7
      <4>2. IsContents(x, a.heap, a.slice)
        BY Zenon, <4>1, ContentsAt
      <4> HIDE DEF x
      <4>3. x \in Seq(AWord) /\ Len(x) = a.slice.len
            /\ \A i \in 1..a.slice.len : x[i] = a.heap[a.slice.array][i]
        BY Zenon, <4>2 DEF IsContents
      <4>4. a.slice.len = len /\ a.heap[a.slice.array] = new
        BY <2>5, <2>6, <2>7
      <4>5. \A i \in 1..len : x[i] = new[i]
        BY Zenon, <4>3, <4>4
      <4> QED
        BY <4>3, <4>4, <4>5 DEF x
    <3>2. \A i \in 1..len : new[i] = sum[i]
      <4> TAKE i \in 1..len
      <4>1. i \in DOMAIN arr
        BY <1>1, <1>4, <2>2
      <4>2. new[i] = IF i \in (s.len + 1)..len THEN words[i - s.len] ELSE arr[i]
        BY Zenon, <2>3, <4>1
      <4>3. i \in (s.len + 1)..len <=> ~(i <= s.len)
        BY <1>1
      <4> QED
        BY <1>3, <4>2, <4>3
    <3> QED
      BY <1>3, <3>1, <3>2, SeqEqual
  <2>9. ASSUME NEW t, Valid(h, t), t.array = s.array => t.len <= s.len
        PROVE  Valid(a.heap, t) /\ Contents(a.heap, t) = Contents(h, t)
    <3>1. t.array \in Nat /\ t.len \in Nat /\ t.array <= Len(h) /\ t.len <= Cap(h, t)
      BY <2>9 DEF Valid, SliceType
    <3>2. Cap(a.heap, t) = Cap(h, t)
      <4>1. CASE t.array = 0
        BY <4>1 DEF Cap
      <4>2. CASE t.array = s.array
        BY <1>1, <2>2, <2>4, <2>5, <4>2 DEF Cap
      <4>3. CASE t.array # 0 /\ t.array # s.array
        BY <1>1, <2>5, <3>1, <4>3 DEF Cap
      <4> QED
        BY <4>1, <4>2, <4>3
    <3>3. Valid(a.heap, t)
      BY <2>5, <2>9, <3>2 DEF Valid
    <3>4. \A i \in 1..t.len : a.heap[t.array][i] = h[t.array][i]
      <4> TAKE i \in 1..t.len
      <4>1. t.array \in 1..Len(h) /\ i \in 1..Len(h[t.array])
        BY <1>1, <3>1 DEF Cap
      <4>2. CASE t.array = s.array
        <5>1. i \in DOMAIN arr /\ i \notin (s.len + 1)..len
          BY <1>1, <2>2, <2>9, <3>1, <4>1, <4>2
        <5>2. new[i] = arr[i]
          BY Zenon, <2>3, <5>1
        <5> QED
          BY <2>5, <4>2, <5>2
      <4>3. CASE t.array # s.array
        BY <2>5, <4>1, <4>3
      <4> QED
        BY <4>2, <4>3
    <3> QED
      BY <3>3, <3>4 DEF Contents
  <2> QED
    BY <1>1, <2>2, <2>5, <2>6, <2>7, <2>8, <2>9 DEF Adds
<1>5. CASE ~(len <= Cap(h, s))
  <2> DEFINE cap == IF len > 2 * Cap(h, s) THEN len ELSE 2 * Cap(h, s)
             new == NewArray(sum, cap)
  <2>1. a.heap = Append(h, new) /\ a.slice = [array |-> Len(h) + 1, len |-> len]
    BY <1>5 DEF Appended
  <2>2. cap \in Nat /\ len <= cap /\ len \in Nat
    BY <1>1
  <2>3. new \in Seq(AWord) /\ Len(new) = cap /\ \A i \in 1..len : new[i] = sum[i]
    <3>1. sum \in Seq(AWord) /\ Len(sum) = len
      BY <1>3
    <3> HIDE DEF cap, sum, len
    <3> QED
      BY <2>2, <3>1, NewArrayIs
  <2> HIDE DEF new, cap
  <2>4. /\ a.heap \in Arrays /\ Len(a.heap) = Len(h) + 1 /\ a.heap[Len(h) + 1] = new
        /\ \A i \in 1..Len(h) : a.heap[i] = h[i]
    BY <1>1, <2>1, <2>3, AppendProperties DEF Arrays
  <2>5. a.slice.array = Len(h) + 1 /\ a.slice.len = len /\ a.slice \in SliceType
    BY <1>1, <2>1, <2>2 DEF SliceType
  <2>6. Valid(a.heap, a.slice)
    <3>1. Cap(a.heap, a.slice) = cap
      BY <1>1, <2>3, <2>4, <2>5 DEF Cap
    <3> QED
      BY <1>1, <2>2, <2>4, <2>5, <3>1 DEF Valid
  <2>7. Contents(a.heap, a.slice) = sum
    <3>1. Contents(a.heap, a.slice) \in Seq(AWord) /\ Len(Contents(a.heap, a.slice)) = len
          /\ \A i \in 1..len : Contents(a.heap, a.slice)[i] = new[i]
      <4> DEFINE x == Contents(a.heap, a.slice)
      <4>1. a.heap \in Arrays /\ Valid(a.heap, a.slice)
        BY <2>4, <2>5, <2>6
      <4>2. IsContents(x, a.heap, a.slice)
        BY Zenon, <4>1, ContentsAt
      <4> HIDE DEF x
      <4>3. x \in Seq(AWord) /\ Len(x) = a.slice.len
            /\ \A i \in 1..a.slice.len : x[i] = a.heap[a.slice.array][i]
        BY Zenon, <4>2 DEF IsContents
      <4>4. a.slice.len = len /\ a.heap[a.slice.array] = new
        BY <2>4, <2>5, <2>6
      <4>5. \A i \in 1..len : x[i] = new[i]
        BY Zenon, <4>3, <4>4
      <4> QED
        BY <4>3, <4>4, <4>5 DEF x
    <3> QED
      BY <1>3, <2>3, <3>1, SeqEqual
  <2>8. ASSUME NEW t, Valid(h, t) PROVE Valid(a.heap, t) /\ Contents(a.heap, t) = Contents(h, t)
    <3>1. t.array \in Nat /\ t.len \in Nat /\ t.array <= Len(h) /\ t.len <= Cap(h, t)
      BY <2>8 DEF Valid, SliceType
    <3>2. t.array # 0 => a.heap[t.array] = h[t.array]
      BY <1>1, <2>4, <3>1
    <3>3. Valid(a.heap, t)
      BY <1>1, <2>4, <2>8, <3>1, <3>2 DEF Valid, Cap
    <3>4. \A i \in 1..t.len : a.heap[t.array][i] = h[t.array][i]
      BY <3>1, <3>2 DEF Cap
    <3> QED
      BY <3>3, <3>4 DEF Contents
  <2> QED
    BY <1>1, <2>4, <2>5, <2>6, <2>7, <2>8 DEF Adds
<1> QED
  BY <1>4, <1>5

-----------------------------------------------------------------------------
(* Builders and specs.                                                     *)

\* The words that calls add, and the words of a chain: none is empty, none a streaming flag.
Added == {v \in AWord : v # Plain("follow") /\ v # Plain("follow-only")}

StreamType == [p : PrintBuilders, follow : BOOLEAN, followOnly : BOOLEAN, interval : Int]

\* The arrays, and slices that lie within them.
Owned ==
    /\ heap \in Arrays
    /\ said \in [Builders -> [Classes -> Seq(Added)]]
    /\ slice \in [Builders -> [Classes -> SliceType]]
    /\ \A b \in Builders, c \in Classes : Valid(heap, slice[b][c])
    /\ DOMAIN stream = StreamBuilders /\ DOMAIN spec = IDs /\ DOMAIN asked = IDs
    /\ \A s \in StreamBuilders : stream[s] # Nothing => stream[s] \in StreamType
    /\ \A id \in IDs : spec[id] # Nothing => \A c \in Classes : Valid(heap, spec[id].slices[c])

\* No two slices of builders share an array ...
Apart ==
    \A b1, b2 \in Builders, c1, c2 \in Classes :
        slice[b1][c1].array = slice[b2][c2].array /\ slice[b1][c1].array # 0 => b1 = b2 /\ c1 = c2

\* ... and where a spec shares one with a builder, it ends before the builder's slice does.
Behind ==
    \A id \in IDs, b \in Builders, c, k \in Classes :
        spec[id] # Nothing /\ spec[id].slices[c].array = slice[b][k].array =>
            spec[id].slices[c].len <= slice[b][k].len

\* The words in the builders are those of the calls.
Said ==
    \A b \in Builders :
        /\ NonEmpty(Contents(heap, slice[b]["flags"])) = said[b]["flags"]
        /\ Contents(heap, slice[b]["pairs"]) = said[b]["pairs"]
        /\ Contents(heap, slice[b]["where"]) = said[b]["where"]

\* A spec makes the sentence that was asked for.
Asked ==
    \A id \in IDs : spec[id] # Nothing =>
        /\ SentenceOf(heap, spec[id].command, spec[id].slices) = asked[id]
        /\ spec[id].command = Plain("print") =>
              /\ \E word \in ToSet(asked[id]) : word.w \in {"follow", "follow-only", "interval"}
              /\ ~({Plain("follow"), Plain("follow-only")} \subseteq ToSet(asked[id]))

BuildInv == Owned /\ Apart /\ Behind /\ Said /\ Asked

LEMMA PlainTyped ==
    ASSUME NEW w \in STRING \cup {NoText, "path", "print", "set", "follow", "follow-only", "interval", "unused"}
    PROVE  Plain(w) \in AWord
<1>1. <<>> \in Text
  BY EmptySeq DEF Text
<1> QED
  BY <1>1 DEF Plain, AWord

LEMMA PlainIs == \A v, w : (Plain(v) = Plain(w) <=> v = w) /\ Plain(v).w = v
BY DEF Plain

LEMMA WordTyped ==
    ASSUME NEW c \in Classes, NEW w \in Words[c]
    PROVE  Plain(w) \in Added /\ (c # "flags" => w # NoText)
<1>1. w \in STRING /\ w # "follow" /\ w # "follow-only" /\ (c # "flags" => w # NoText)
  BY WordsAssumption DEF Classes
<1>2. Plain(w) \in AWord
  BY <1>1, PlainTyped
<1> QED
  BY <1>1, <1>2, PlainIs DEF Added

\* The words that are not empty.
LEMMA NonEmptyAppend ==
    ASSUME NEW s \in Seq(AWord), NEW e \in AWord
    PROVE  NonEmpty(Append(s, e)) = IF e = Plain(NoText) THEN NonEmpty(s) ELSE Append(NonEmpty(s), e)
<1> DEFINE out == {Plain(NoText)}
<1>1. e \in out <=> e = Plain(NoText)
  OBVIOUS
<1>2. NonEmpty(s) = Dropping(s, out) /\ NonEmpty(Append(s, e)) = Dropping(Append(s, e), out)
  BY DEF NonEmpty
<1> HIDE DEF out
<1>3. Dropping(Append(s, e), out) = IF e \in out THEN Dropping(s, out) ELSE Append(Dropping(s, out), e)
  BY DroppingAppend
<1> QED
  BY <1>1, <1>2, <1>3

LEMMA NonEmptyConcat ==
    ASSUME NEW s \in Seq(AWord), NEW t \in Seq(AWord)
    PROVE  NonEmpty(s \o t) = NonEmpty(s) \o NonEmpty(t) /\ NonEmpty(s) \in Seq(AWord)
<1> DEFINE out == {Plain(NoText)}
<1> HIDE DEF out
<1>1. Dropping(s \o t, out) = Dropping(s, out) \o Dropping(t, out)
  BY DroppingConcat
<1>2. Dropping(s, out) \in Seq(AWord)
  BY DroppingTyped
<1> QED
  BY <1>1, <1>2 DEF NonEmpty, out

LEMMA NonEmptyNone == \A s \in Seq({v \in AWord : v # Plain(NoText)}) : NonEmpty(s) = s
<1> DEFINE out == {Plain(NoText)}   S == {v \in AWord : v # Plain(NoText)}
<1>1. S \cap out = {}
  OBVIOUS
<1> HIDE DEF out, S
<1>2. \A s \in Seq(S) : Dropping(s, out) = s
  BY <1>1, DroppingNone
<1> QED
  BY <1>2 DEF NonEmpty, out, S

\* A heap in which the slices there were are what they were.
Grown(h) ==
    /\ h \in Arrays
    /\ \A b \in Builders, c \in Classes :
          /\ Valid(h, slice[b][c])
          /\ Contents(h, slice[b][c]) = Contents(heap, slice[b][c])
    /\ \A id \in IDs, c \in Classes : spec[id] # Nothing =>
          /\ Valid(h, spec[id].slices[c])
          /\ Contents(h, spec[id].slices[c]) = Contents(heap, spec[id].slices[c])

\* The sentence depends on the contents only.
LEMMA SameSentence ==
    ASSUME NEW h, NEW g, NEW command, NEW x, NEW y,
           \A c \in Classes : Contents(h, x[c]) = Contents(g, y[c])
    PROVE  SentenceOf(h, command, x) = SentenceOf(g, command, y)
BY Zenon DEF SentenceOf, Classes

\* A call that adds a word.
LEMMA AddStep ==
    ASSUME BuildInv, NEW b \in Builders, NEW c \in Classes, NEW w \in Words[c], Add(b, c, w)
    PROVE  BuildInv'
<1> DEFINE e == Plain(w)   old == slice[b][c]   a == Appended(heap, old, <<e>>)   new == a.slice
<1>0. /\ heap \in Arrays /\ Valid(heap, old) /\ slice \in [Builders -> [Classes -> SliceType]]
      /\ "flags" \in Classes /\ "pairs" \in Classes /\ "where" \in Classes
  BY DEF BuildInv, Owned, Classes
<1>s. said \in [Builders -> [Classes -> Seq(Added)]]
  BY DEF BuildInv, Owned
<1>1. heap' = a.heap /\ slice' = [slice EXCEPT ![b][c] = new] /\ UNCHANGED <<stream, spec, asked>>
      /\ said' = [said EXCEPT ![b][c] = IF w = NoText THEN @ ELSE Append(@, e)]
  BY DEF Add
<1>2. e \in AWord /\ e \in Added /\ (c # "flags" => w # NoText) /\ <<e>> \in Seq(AWord) /\ Len(<<e>>) = 1
  <2>1. e \in Added
    BY WordTyped
  <2>2. c # "flags" => w # NoText
    BY WordTyped
  <2> HIDE DEF e
  <2>3. e \in AWord
    BY <2>1 DEF Added
  <2>4. <<e>> \in Seq(AWord) /\ Len(<<e>>) = 1
    BY <2>3
  <2> QED
    BY Zenon, <2>1, <2>2, <2>3, <2>4
<1>w. e \in AWord
  BY <1>2
<1>e. e = Plain(NoText) <=> w = NoText
  BY PlainIs
<1>a. a = Appended(heap, old, <<e>>)
  OBVIOUS
<1> HIDE DEF a, e, old
<1>3. /\ a.heap \in Arrays /\ Len(heap) <= Len(a.heap)
      /\ Valid(a.heap, new) /\ Contents(a.heap, new) = Contents(heap, old) \o <<e>>
      /\ new.len = old.len + 1 /\ new.array # 0
      /\ new.array = old.array \/ new.array = Len(heap) + 1
      /\ \A t : Valid(heap, t) /\ (t.array = old.array => t.len <= old.len) =>
                   Valid(a.heap, t) /\ Contents(a.heap, t) = Contents(heap, t)
  <2>2. <<e>> \in Seq(AWord) /\ heap \in Arrays /\ Valid(heap, old)
    BY <1>0, <1>2
  <2> DEFINE words == <<e>>
  <2>3. Len(words) = 1
    BY <1>2
  <2> HIDE DEF words
  <2>1. old.array # 0 \/ Len(words) > 0
    BY <2>3
  <2>5. words \in Seq(AWord)
    BY <2>2 DEF words
  <2>4. Adds(heap, old, words, a)
    BY Zenon, <1>a, <2>1, <2>2, <2>5, AppendedIs DEF words
  <2> QED
    BY Zenon, <2>3, <2>4 DEF words, Adds
<1>4. ASSUME NEW b2 \in Builders, NEW c2 \in Classes, b2 # b \/ c2 # c
      PROVE  /\ slice'[b2][c2] = slice[b2][c2]
             /\ Valid(a.heap, slice[b2][c2]) /\ Contents(a.heap, slice[b2][c2]) = Contents(heap, slice[b2][c2])
  <2> DEFINE t == slice[b2][c2]
  <2>1. slice'[b2][c2] = t
    BY <1>0, <1>1, <1>4
  <2>2. Valid(heap, t) /\ (t.array = old.array => t.array = 0)
    BY <1>4 DEF BuildInv, Owned, Apart, old
  <2> HIDE DEF t
  <2>3. t.array = 0 => t.len = 0 /\ 0 <= old.len
    <3>1. t.array = 0 => t.len = 0
      BY <1>0, <2>2, ContentsIs
    <3>2. old.len \in Nat
      BY <1>0 DEF Valid, SliceType
    <3> QED
      BY <3>1, <3>2
  <2>4. Valid(a.heap, t) /\ Contents(a.heap, t) = Contents(heap, t)
    <3>1. t.array = old.array => t.len <= old.len
      BY <2>2, <2>3
    <3> QED
      BY Zenon, <1>3, <2>2, <3>1
  <2> QED
    BY <2>1, <2>4 DEF t
<1>5. slice'[b][c] = new /\ slice' \in [Builders -> [Classes -> SliceType]]
  <2>1. new \in SliceType
    BY <1>3 DEF Valid
  <2> HIDE DEF new
  <2> QED
    BY <1>0, <1>1, <2>1
<1>6. ASSUME NEW id \in IDs, spec[id] # Nothing, NEW k \in Classes
      PROVE  /\ Valid(a.heap, spec[id].slices[k])
             /\ Contents(a.heap, spec[id].slices[k]) = Contents(heap, spec[id].slices[k])
  <2> DEFINE t == spec[id].slices[k]
  <2>1. Valid(heap, t) /\ (t.array = old.array => t.len <= old.len)
    BY <1>6 DEF BuildInv, Owned, Behind, old
  <2> HIDE DEF t
  <2>2. Valid(a.heap, t) /\ Contents(a.heap, t) = Contents(heap, t)
    BY Zenon, <1>3, <2>1
  <2> QED
    BY <2>2 DEF t
<1> HIDE DEF new
<1>7. Owned'
  <2>1. \A b2 \in Builders, c2 \in Classes : Valid(a.heap, slice'[b2][c2])
    <3> TAKE b2 \in Builders, c2 \in Classes
    <3>1. CASE b2 = b /\ c2 = c
      BY <1>3, <1>5, <3>1
    <3>2. CASE b2 # b \/ c2 # c
      BY <1>4, <3>2
    <3> QED
      BY <3>1, <3>2
  <2>2. /\ DOMAIN stream' = StreamBuilders /\ DOMAIN spec' = IDs /\ DOMAIN asked' = IDs
        /\ \A s \in StreamBuilders : stream'[s] # Nothing => stream'[s] \in StreamType
    BY <1>1 DEF BuildInv, Owned
  <2>3. said' \in [Builders -> [Classes -> Seq(Added)]]
    <3>1. \A x \in Seq(Added) : Append(x, e) \in Seq(Added)
      BY <1>2, AppendProperties
    <3> QED
      BY <1>1, <1>s, <3>1
  <2> QED
    BY Zenon, <1>1, <1>3, <1>5, <1>6, <2>1, <2>2, <2>3 DEF Owned
<1>8. \A b2 \in Builders, c2 \in Classes : slice[b2][c2].array <= Len(heap) /\ slice[b2][c2].array \in Nat
  BY DEF BuildInv, Owned, Valid, SliceType
<1>l. Len(heap) \in Nat
  BY <1>0, LenProperties DEF Arrays
<1>9. Apart'
  <2> SUFFICES ASSUME NEW b1 \in Builders, NEW b2 \in Builders, NEW c1 \in Classes, NEW c2 \in Classes,
                      slice'[b1][c1].array = slice'[b2][c2].array, slice'[b1][c1].array # 0
               PROVE  b1 = b2 /\ c1 = c2
    BY DEF Apart
  <2>1. ASSUME NEW b3 \in Builders, NEW c3 \in Classes, b3 # b \/ c3 # c
        PROVE  slice'[b3][c3].array # new.array \/ slice'[b3][c3].array = 0
    <3>1. slice'[b3][c3] = slice[b3][c3]
      BY <1>4, <2>1
    <3>2. slice[b3][c3].array = old.array => slice[b3][c3].array = 0
      BY <2>1 DEF BuildInv, Apart, old
    <3> QED
      BY <1>3, <1>8, <1>l, <3>1, <3>2
  <2>2. CASE b1 = b /\ c1 = c
    BY <1>5, <2>1, <2>2
  <2>3. CASE b2 = b /\ c2 = c
    BY <1>5, <2>1, <2>3
  <2>4. CASE (b1 # b \/ c1 # c) /\ (b2 # b \/ c2 # c)
    BY <1>4, <2>4 DEF BuildInv, Apart
  <2> QED
    BY <2>2, <2>3, <2>4
<1>10. Behind'
  <2> SUFFICES ASSUME NEW id \in IDs, NEW b2 \in Builders, NEW k \in Classes, NEW c2 \in Classes,
                      spec[id] # Nothing, spec[id].slices[k].array = slice'[b2][c2].array
               PROVE  spec[id].slices[k].len <= slice'[b2][c2].len
    BY <1>1 DEF Behind
  <2>1. CASE b2 = b /\ c2 = c
    <3>1. spec[id].slices[k].array <= Len(heap) /\ spec[id].slices[k].len \in Nat
      BY DEF BuildInv, Owned, Valid, SliceType
    <3>2. new.array = old.array
      BY <1>3, <1>5, <1>l, <2>1, <3>1
    <3>3. spec[id].slices[k].len <= old.len
      BY <1>5, <2>1, <3>2 DEF BuildInv, Behind, old
    <3>4. old.len \in Nat
      BY <1>0 DEF Valid, SliceType
    <3> QED
      BY <1>3, <1>5, <2>1, <3>1, <3>3, <3>4
  <2>2. CASE b2 # b \/ c2 # c
    BY <1>4, <2>2 DEF BuildInv, Behind
  <2> QED
    BY <2>1, <2>2
<1>11. Said'
  <2>1. ASSUME NEW b2 \in Builders, NEW k \in Classes, b2 # b \/ k # c
        PROVE  /\ said'[b2][k] = said[b2][k]
               /\ Contents(heap', slice'[b2][k]) = Contents(heap, slice[b2][k])
    <3>1. said'[b2][k] = said[b2][k]
      BY <1>1, <1>s, <2>1
    <3> QED
      BY <1>1, <1>4, <2>1, <3>1
  <2> DEFINE x == Contents(heap, old)
  <2>2. x \in Seq(AWord)
    BY <1>0, ContentsIs
  <2>3. Contents(heap', slice'[b][c]) = Append(x, e)
    <3>1. x \o <<e>> = Append(x, e)
      BY <1>2, <2>2, AppendIsConcat
    <3> QED
      BY <1>1, <1>3, <1>5, <3>1
  <2>4. said'[b][c] = IF w = NoText THEN said[b][c] ELSE Append(said[b][c], e)
    BY <1>1, <1>s
  <2> HIDE DEF x
  <2>6. NonEmpty(Append(x, e)) = IF w = NoText THEN NonEmpty(x) ELSE Append(NonEmpty(x), e)
    BY Zenon, <1>e, <1>w, <2>2, NonEmptyAppend
  <2>7. ASSUME NEW b2 \in Builders
        PROVE  /\ NonEmpty(Contents(heap', slice'[b2]["flags"])) = said'[b2]["flags"]
               /\ Contents(heap', slice'[b2]["pairs"]) = said'[b2]["pairs"]
               /\ Contents(heap', slice'[b2]["where"]) = said'[b2]["where"]
    <3>2. NonEmpty(Contents(heap', slice'[b2]["flags"])) = said'[b2]["flags"]
      <4>1. CASE b2 = b /\ c = "flags"
        <5>1. NonEmpty(x) = said[b][c]
          BY <4>1 DEF BuildInv, Said, x, old
        <5> QED
          BY Zenon, <2>3, <2>4, <2>6, <4>1, <5>1
      <4>2. CASE b2 # b \/ c # "flags"
        BY <1>0, <2>1, <4>2 DEF BuildInv, Said
      <4> QED
        BY <4>1, <4>2
    <3>3. \A k \in {"pairs", "where"} : Contents(heap', slice'[b2][k]) = said'[b2][k]
      <4> TAKE k \in {"pairs", "where"}
      <4>1. CASE b2 = b /\ c = k
        <5>1. x = said[b][c] /\ w # NoText
          BY <1>2, <4>1 DEF BuildInv, Said, x, old
        <5> QED
          BY Zenon, <2>3, <2>4, <4>1, <5>1
      <4>2. CASE b2 # b \/ c # k
        BY <1>0, <2>1, <4>2 DEF BuildInv, Said
      <4> QED
        BY <4>1, <4>2
    <3> QED
      BY <3>2, <3>3
  <2> QED
    BY Zenon, <2>7 DEF Said
<1>12. Asked'
  <2> SUFFICES ASSUME NEW id \in IDs, spec[id] # Nothing
               PROVE  SentenceOf(heap', spec[id].command, spec[id].slices) =
                      SentenceOf(heap, spec[id].command, spec[id].slices)
    BY <1>1 DEF BuildInv, Asked
  <2>1. \A k \in Classes : Contents(heap', spec[id].slices[k]) = Contents(heap, spec[id].slices[k])
    BY <1>1, <1>6
  <2> QED
    BY <2>1, SameSentence
<1> QED
  BY <1>7, <1>9, <1>10, <1>11, <1>12 DEF BuildInv

\* What the builder's slices make a sentence of.
LEMMA BuilderSentence ==
    ASSUME Said, Owned, NEW b \in Builders, NEW command \in AWord
    PROVE  SentenceOf(heap, command, slice[b]) =
               <<command>> \o <<>> \o said[b]["flags"] \o said[b]["pairs"] \o said[b]["where"]
<1>1. <<command>> \o <<>> = <<command>>
  BY ConcatEmptySeq
<1> QED
  BY <1>1 DEF SentenceOf, BuildSentence, Said

\* A step that changes the options of a stream builder only.
LEMMA StreamStep ==
    ASSUME BuildInv, UNCHANGED <<heap, slice, spec, said, asked>>,
           DOMAIN stream' = StreamBuilders,
           \A s \in StreamBuilders : stream'[s] # Nothing => stream'[s] \in StreamType
    PROVE  BuildInv'
<1>1. Owned'
  BY DEF BuildInv, Owned
<1>2. Apart' /\ Behind' /\ Said' /\ Asked'
  BY DEF BuildInv, Apart, Behind, Said, Asked
<1> QED
  BY <1>1, <1>2 DEF BuildInv

LEMMA MakeStreamStep ==
    ASSUME BuildInv, NEW s \in StreamBuilders, NEW p \in PrintBuilders, NEW f, NEW d \in Int,
           MakeStream(s, p, f, d)
    PROVE  BuildInv'
<1>1. [p |-> p, follow |-> f = "follow", followOnly |-> f = "follow-only", interval |-> d] \in StreamType
  BY DEF StreamType
<1>2. /\ DOMAIN stream' = StreamBuilders
      /\ \A r \in StreamBuilders : stream'[r] # Nothing => stream'[r] \in StreamType
  BY <1>1 DEF MakeStream, BuildInv, Owned
<1> QED
  BY <1>2, StreamStep DEF MakeStream

LEMMA CombineStep ==
    ASSUME BuildInv, NEW s \in StreamBuilders, NEW f, NEW d \in Int, Combine(s, f, d)
    PROVE  BuildInv'
<1>1. stream[s] \in StreamType /\ DOMAIN stream = StreamBuilders
  BY DEF Combine, BuildInv, Owned
<1>2. stream'[s] \in StreamType
  BY <1>1 DEF Combine, StreamType
<1>3. \A r \in StreamBuilders : r # s => stream'[r] = stream[r]
  BY <1>1 DEF Combine
<1>4. DOMAIN stream' = StreamBuilders
  BY <1>1 DEF Combine
<1>5. \A r \in StreamBuilders : stream'[r] # Nothing => stream'[r] \in StreamType
  BY <1>2, <1>3 DEF BuildInv, Owned
<1> QED
  BY <1>4, <1>5, StreamStep DEF Combine

\* A spec that is kept.
LEMMA KeepStep ==
    ASSUME BuildInv, NEW id \in IDs, NEW h, NEW command, NEW slices, NEW chain,
           KeepSpec(id, h, command, slices, chain), Grown(h),
           \A c \in Classes : Valid(h, slices[c]),
           \A b \in Builders, c, k \in Classes :
               slices[c].array = slice[b][k].array => slices[c].len <= slice[b][k].len,
           SentenceOf(h, Plain(command), slices) = chain,
           command = "print" =>
               /\ \E word \in ToSet(chain) : word.w \in {"follow", "follow-only", "interval"}
               /\ ~({Plain("follow"), Plain("follow-only")} \subseteq ToSet(chain))
    PROVE  BuildInv'
<1> DEFINE it == [command |-> Plain(command), slices |-> slices]
<1>1. /\ heap' = h /\ spec' = [spec EXCEPT ![id] = it] /\ asked' = [asked EXCEPT ![id] = chain]
      /\ UNCHANGED <<slice, stream, said>>
  BY DEF KeepSpec
<1>2. it.command = Plain(command) /\ it.slices = slices
  OBVIOUS
<1> HIDE DEF it
<1>3. /\ DOMAIN spec = IDs /\ DOMAIN asked = IDs /\ DOMAIN spec' = IDs /\ DOMAIN asked' = IDs
      /\ spec'[id] = it /\ asked'[id] = chain
      /\ \A i \in IDs : i # id => spec'[i] = spec[i] /\ asked'[i] = asked[i]
  BY <1>1 DEF BuildInv, Owned
<1>4. \A i \in IDs, c \in Classes : spec'[i] # Nothing => Valid(h, spec'[i].slices[c])
  BY <1>2, <1>3 DEF Grown
<1>5. Owned'
  <2>1. \A b \in Builders, c \in Classes : Valid(heap', slice'[b][c])
    BY <1>1 DEF Grown
  <2>2. heap' \in Arrays
    BY <1>1 DEF Grown
  <2>3. /\ said' \in [Builders -> [Classes -> Seq(Added)]]
        /\ slice' \in [Builders -> [Classes -> SliceType]]
        /\ DOMAIN stream' = StreamBuilders
        /\ \A s \in StreamBuilders : stream'[s] # Nothing => stream'[s] \in StreamType
    BY <1>1 DEF BuildInv, Owned
  <2> QED
    BY <1>1, <1>3, <1>4, <2>1, <2>2, <2>3 DEF Owned
<1>6. Apart'
  BY <1>1 DEF BuildInv, Apart
<1>7. Behind'
  BY <1>1, <1>2, <1>3 DEF BuildInv, Behind
<1>8. Said'
  <2>1. "flags" \in Classes /\ "pairs" \in Classes /\ "where" \in Classes
    BY DEF Classes
  <2>2. \A b \in Builders, c \in Classes : Contents(heap', slice'[b][c]) = Contents(heap, slice[b][c])
    BY <1>1 DEF Grown
  <2> QED
    BY <1>1, <2>1, <2>2 DEF BuildInv, Said
<1>9. Asked'
  <2> SUFFICES ASSUME NEW i \in IDs, spec'[i] # Nothing
               PROVE  /\ SentenceOf(h, spec'[i].command, spec'[i].slices) = asked'[i]
                      /\ spec'[i].command = Plain("print") =>
                            /\ \E word \in ToSet(asked'[i]) : word.w \in {"follow", "follow-only", "interval"}
                            /\ ~({Plain("follow"), Plain("follow-only")} \subseteq ToSet(asked'[i]))
    BY <1>1 DEF Asked
  <2>1. CASE i = id
    <3>1. Plain(command) = Plain("print") => command = "print"
      BY PlainIs
    <3> QED
      BY <1>2, <1>3, <2>1, <3>1
  <2>2. CASE i # id
    <3>1. spec'[i] = spec[i] /\ asked'[i] = asked[i] /\ spec[i] # Nothing
      BY <1>3, <2>2
    <3>2. \A c \in Classes : Contents(h, spec[i].slices[c]) = Contents(heap, spec[i].slices[c])
      BY <3>1 DEF Grown
    <3>3. SentenceOf(h, spec[i].command, spec[i].slices) = SentenceOf(heap, spec[i].command, spec[i].slices)
      BY <3>2, SameSentence
    <3> QED
      BY <3>1, <3>3 DEF BuildInv, Asked
  <2> QED
    BY <2>1, <2>2
<1> QED
  BY <1>5, <1>6, <1>7, <1>8, <1>9 DEF BuildInv

\* PathBuilder.Stream.
LEMMA PathStreamStep ==
    ASSUME BuildInv, NEW b \in PathBuilders, NEW id \in IDs, PathStream(b, id)
    PROVE  BuildInv'
<1>1. b \in Builders /\ Plain("path") \in AWord /\ "path" # "print"
  BY PlainTyped DEF Builders
<1>2. Grown(heap)
  BY DEF BuildInv, Owned, Grown
<1>3. \A c \in Classes : Valid(heap, slice[b][c])
  BY <1>1 DEF BuildInv, Owned
<1>4. ASSUME NEW b2 \in Builders, NEW c \in Classes, NEW k \in Classes,
             slice[b][c].array = slice[b2][k].array
      PROVE  slice[b][c].len <= slice[b2][k].len
  <2>1. Valid(heap, slice[b][c]) /\ Valid(heap, slice[b2][k]) /\ heap \in Arrays
    BY <1>1 DEF BuildInv, Owned
  <2>2. slice[b][c].len \in Nat /\ slice[b2][k].len \in Nat
    BY <2>1 DEF Valid, SliceType
  <2>3. CASE slice[b][c].array = 0
    BY <1>4, <2>1, <2>2, <2>3, ContentsIs
  <2>4. CASE slice[b][c].array # 0
    BY <1>1, <1>4, <2>2, <2>4 DEF BuildInv, Apart
  <2> QED
    BY <2>3, <2>4
<1>5. SentenceOf(heap, Plain("path"), slice[b]) = Chain("path", <<>>, b)
  BY <1>1, BuilderSentence DEF BuildInv, Chain
<1>6. KeepSpec(id, heap, "path", slice[b], Chain("path", <<>>, b))
  BY DEF PathStream
<1> QED
  BY <1>1, <1>2, <1>3, <1>4, <1>5, <1>6, KeepStep

LEMMA PartsOf ==
    ASSUME NEW S, NEW s \in Seq(S), NEW t \in Seq(S)
    PROVE  ToSet(s \o t) = ToSet(s) \cup ToSet(t) /\ ToSet(s) \subseteq S
<1> DEFINE u == s \o t
<1>1. /\ u \in Seq(S) /\ Len(u) = Len(s) + Len(t)
      /\ \A i \in 1..(Len(s) + Len(t)) : u[i] = IF i <= Len(s) THEN s[i] ELSE t[i - Len(s)]
  BY ConcatProperties
<1>2. /\ Len(s) \in Nat /\ Len(t) \in Nat /\ DOMAIN s = 1..Len(s) /\ DOMAIN t = 1..Len(t)
      /\ DOMAIN u = 1..Len(u)
  BY <1>1, LenProperties
<1> HIDE DEF u
<1>3. ASSUME NEW i \in DOMAIN s PROVE s[i] \in ToSet(u)
  <2>1. i \in DOMAIN u /\ u[i] = s[i]
    BY <1>1, <1>2
  <2> QED
    BY <2>1 DEF ToSet
<1>4. ASSUME NEW i \in DOMAIN t PROVE t[i] \in ToSet(u)
  <2>1. i + Len(s) \in DOMAIN u /\ i + Len(s) > Len(s) /\ (i + Len(s)) - Len(s) = i
    BY <1>1, <1>2
  <2>2. u[i + Len(s)] = t[i]
    BY <1>1, <1>2, <2>1
  <2> QED
    BY <2>1, <2>2 DEF ToSet
<1>5. ASSUME NEW i \in DOMAIN u PROVE u[i] \in ToSet(s) \cup ToSet(t)
  <2>1. CASE i <= Len(s)
    <3>1. i \in DOMAIN s /\ u[i] = s[i]
      BY <1>1, <1>2, <2>1
    <3> QED
      BY <3>1 DEF ToSet
  <2>2. CASE ~(i <= Len(s))
    <3>1. i - Len(s) \in DOMAIN t /\ u[i] = t[i - Len(s)]
      BY <1>1, <1>2, <2>2
    <3> QED
      BY <3>1 DEF ToSet
  <2> QED
    BY <2>1, <2>2
<1>6. \A i \in DOMAIN s : s[i] \in S
  BY <1>2, ElementOfSeq
<1> QED
  BY <1>3, <1>4, <1>5, <1>6 DEF ToSet, u

LEMMA PartsOfWords ==
    \A s, t \in Seq(AWord) : ToSet(s \o t) = ToSet(s) \cup ToSet(t)
BY PartsOf

\* The streaming flags.
LEMMA StreamingIs ==
    ASSUME NEW st \in StreamType
    PROVE  /\ Streaming(st) \in Seq({v \in AWord : v # Plain(NoText)}) /\ Len(Streaming(st)) <= 2
           /\ HasFlag(st) =>
                 \E word \in ToSet(Streaming(st)) : word.w \in {"follow", "follow-only", "interval"}
           /\ ~({Plain("follow"), Plain("follow-only")} \subseteq ToSet(Streaming(st)))
<1> DEFINE S == {v \in AWord : v # Plain(NoText)}
           f == Plain("follow")   o == Plain("follow-only")
           i == [w |-> "interval", text |-> formatDuration(st.interval)]
           x == IF st.followOnly THEN <<o>> ELSE IF st.follow THEN <<f>> ELSE <<>>
           y == IF st.interval > 0 THEN <<i>> ELSE <<>>
<1>1. st.follow \in BOOLEAN /\ st.followOnly \in BOOLEAN /\ st.interval \in Int
  BY DEF StreamType
<1>2. f \in S /\ o \in S /\ f # o /\ f.w = "follow" /\ o.w = "follow-only"
  <2>1. f \in AWord /\ o \in AWord
    BY PlainTyped
  <2>2. f # Plain(NoText) /\ o # Plain(NoText) /\ f # o /\ f.w = "follow" /\ o.w = "follow-only"
    BY NoTextIs DEF Plain
  <2> HIDE DEF f, o
  <2> QED
    BY <2>1, <2>2
<1>3. i.w = "interval" /\ i # f /\ i # o /\ i # Plain(NoText)
  BY NoTextIs DEF Plain
<1>4. st.interval > 0 => i \in S
  <2>1. st.interval > 0 => st.interval \in Nat
    BY <1>1
  <2>2. st.interval > 0 => formatDuration(st.interval) \in Text
    BY <2>1, FormatTyped
  <2> QED
    BY <1>3, <2>2 DEF AWord
<1>5. Streaming(st) = x \o y
  BY DEF Streaming
<1> HIDE DEF i, f, o, S
<1>6. x \in Seq(S) /\ Len(x) <= 1 /\ Len(x) \in Nat
  BY <1>2
<1>7. y \in Seq(S) /\ Len(y) <= 1 /\ Len(y) \in Nat
  BY <1>4
<1>8. /\ ToSet(x) \subseteq {f, o} /\ ~({f, o} \subseteq ToSet(x))
      /\ st.follow \/ st.followOnly => \E word \in ToSet(x) : word \in {f, o}
  <2>1. ToSet(<<o>>) = {o} /\ ToSet(<<f>>) = {f} /\ ToSet(<<>>) = {}
    BY DEF ToSet
  <2> QED
    BY <1>2, <2>1
<1>9. ToSet(y) = IF st.interval > 0 THEN {i} ELSE {}
  BY DEF ToSet
<1> HIDE DEF x, y
<1>10. ToSet(x \o y) = ToSet(x) \cup ToSet(y)
  BY <1>6, <1>7, PartsOf
<1>11. x \o y \in Seq(S) /\ Len(x \o y) <= 2
  BY <1>6, <1>7, ConcatProperties
<1>12. HasFlag(st) => \E word \in ToSet(x \o y) : word.w \in {"follow", "follow-only", "interval"}
  BY <1>2, <1>3, <1>8, <1>9, <1>10 DEF HasFlag
<1>13. ~({f, o} \subseteq ToSet(x \o y))
  BY <1>3, <1>8, <1>9, <1>10
<1> QED
  BY <1>5, <1>11, <1>12, <1>13 DEF S, f, o

\* An array of its own.
Owns(h, g, s, words) ==
    /\ g \in Arrays /\ Len(g) = Len(h) + 1
    /\ Valid(g, s) /\ Contents(g, s) = words
    /\ \A t : Valid(h, t) => Valid(g, t) /\ Contents(g, t) = Contents(h, t)

LEMMA OwnArray ==
    ASSUME NEW h \in Arrays, NEW words \in Seq(AWord), NEW cap \in Nat, Len(words) <= cap,
           NEW g, g = Append(h, NewArray(words, cap)),
           NEW s, s = [array |-> Len(h) + 1, len |-> Len(words)]
    PROVE  Owns(h, g, s, words)
<1> DEFINE new == NewArray(words, cap)
<1>1. new \in Seq(AWord) /\ Len(new) = cap /\ \A i \in 1..Len(words) : new[i] = words[i]
  BY NewArrayIs
<1>2. /\ Len(h) \in Nat /\ Len(words) \in Nat /\ DOMAIN h = 1..Len(h)
  BY LenProperties DEF Arrays
<1> HIDE DEF new
<1>3. /\ g \in Arrays /\ Len(g) = Len(h) + 1 /\ g[Len(h) + 1] = new
      /\ \A i \in 1..Len(h) : g[i] = h[i]
  BY <1>1, AppendProperties DEF Arrays, new
<1>4. s.array = Len(h) + 1 /\ s.len = Len(words) /\ s \in SliceType
  BY <1>2 DEF SliceType
<1>5. Valid(g, s)
  BY <1>1, <1>2, <1>3, <1>4 DEF Valid, Cap
<1>6. Contents(g, s) = words
  <2> DEFINE x == Contents(g, s)
  <2>1. x \in Seq(AWord) /\ Len(x) = s.len /\ \A i \in 1..s.len : x[i] = g[s.array][i]
    <3>1. g \in Arrays
      BY <1>3
    <3>2. IsContents(x, g, s)
      BY Zenon, <1>5, <3>1, ContentsAt
    <3> HIDE DEF x
    <3> QED
      BY Zenon, <3>2 DEF IsContents
  <2> HIDE DEF x
  <2>2. Len(x) = Len(words) /\ \A i \in 1..Len(words) : x[i] = words[i]
    <3>1. Len(x) = Len(words) /\ \A i \in 1..Len(words) : x[i] = g[s.array][i]
      BY Zenon, <1>4, <2>1
    <3>2. g[s.array] = new
      BY Zenon, <1>3, <1>4
    <3> QED
      BY Zenon, <1>1, <3>1, <3>2
  <2>3. x = words
    BY <2>1, <2>2, SeqEqual
  <2> QED
    BY <2>3 DEF x
<1>7. ASSUME NEW t, Valid(h, t) PROVE Valid(g, t) /\ Contents(g, t) = Contents(h, t)
  <2>1. t.array \in Nat /\ t.len \in Nat /\ t.array <= Len(h) /\ t.len <= Cap(h, t)
    BY <1>7 DEF Valid, SliceType
  <2>2. t.array # 0 => g[t.array] = h[t.array]
    BY <1>2, <1>3, <2>1
  <2>3. Valid(g, t)
    BY <1>2, <1>3, <1>7, <2>1, <2>2 DEF Valid, Cap
  <2>4. \A i \in 1..t.len : g[t.array][i] = h[t.array][i]
    BY <2>1, <2>2 DEF Cap
  <2> QED
    BY <2>3, <2>4 DEF Contents
<1> QED
  BY <1>3, <1>5, <1>6, <1>7 DEF Owns

\* StreamBuilder.Stream.
LEMMA PrintStreamStep ==
    ASSUME BuildInv, NEW s \in StreamBuilders, NEW id \in IDs, PrintStream(s, id)
    PROVE  BuildInv'
<1> DEFINE st == stream[s]   v == Streaming(st)   flags == slice[st.p]["flags"]   F == Contents(heap, flags)
           g == Append(heap, NewArray(v, 2))
           own == [array |-> Len(heap) + 1, len |-> Len(v)]
           args == Args(st)
           slices == [slice[st.p] EXCEPT !["flags"] = args.slice]
           chain == Chain("print", v, st.p)
<1>1. st \in StreamType /\ HasFlag(st)
  BY DEF PrintStream, BuildInv, Owned
<1>2. /\ st.p \in Builders /\ heap \in Arrays /\ Len(heap) \in Nat
      /\ slice \in [Builders -> [Classes -> SliceType]]
      /\ "flags" \in Classes /\ "pairs" \in Classes /\ "where" \in Classes
      /\ \A b \in Builders, c \in Classes : Valid(heap, slice[b][c])
  BY <1>1, LenProperties DEF StreamType, Builders, BuildInv, Owned, Classes, Arrays
<1>3. /\ v \in Seq({w \in AWord : w # Plain(NoText)}) /\ Len(v) <= 2
      /\ \E word \in ToSet(v) : word.w \in {"follow", "follow-only", "interval"}
      /\ ~({Plain("follow"), Plain("follow-only")} \subseteq ToSet(v))
  BY <1>1, StreamingIs
<1>4. v \in Seq(AWord) /\ NonEmpty(v) = v
  <2>1. {w \in AWord : w # Plain(NoText)} \subseteq AWord
    OBVIOUS
  <2>2. v \in Seq(AWord)
    BY <1>3, <2>1, SeqMonotonic
  <2> QED
    BY <1>3, <2>2, NonEmptyNone
<1>5. KeepSpec(id, args.heap, "print", slices, chain)
  BY Zenon DEF PrintStream
<1>6. args = Appended(g, own, F)
  BY Zenon DEF Args
<1>7. /\ g \in Arrays /\ Len(g) = Len(heap) + 1 /\ Valid(g, own) /\ Contents(g, own) = v
      /\ \A t : Valid(heap, t) => Valid(g, t) /\ Contents(g, t) = Contents(heap, t)
  <2> HIDE DEF v
  <2>1. 2 \in Nat /\ Len(v) <= 2
    BY <1>3
  <2>2. v \in Seq(AWord)
    BY <1>4
  <2>3. Owns(heap, g, own, v)
    BY Zenon, <1>2, <2>1, <2>2, OwnArray
  <2> HIDE DEF g, own
  <2> QED
    BY Zenon, <2>3 DEF Owns
<1>8. own.array = Len(heap) + 1 /\ own.array # 0
  BY <1>2
<1>9. F \in Seq(AWord) /\ Valid(heap, flags)
  BY <1>2, ContentsIs
<1>10. slices["flags"] = args.slice /\ \A c \in Classes : c # "flags" => slices[c] = slice[st.p][c]
  <2> HIDE DEF args, st
  <2> QED
    BY <1>2
<1>11. chain = <<Plain("print")>> \o v \o said[st.p]["flags"] \o said[st.p]["pairs"] \o said[st.p]["where"]
  BY Zenon DEF Chain
<1> HIDE DEF args, g, own, F, flags, slices, v, st, chain
<1>12. Adds(g, own, F, args)
  BY Zenon, <1>6, <1>7, <1>8, <1>9, AppendedIs
<1>13. \A t : Valid(heap, t) => /\ t.array <= Len(heap) /\ t.array \in Nat /\ t.len \in Nat
                               /\ Valid(args.heap, t) /\ Contents(args.heap, t) = Contents(heap, t)
  <2> SUFFICES ASSUME NEW t, Valid(heap, t)
               PROVE  /\ t.array <= Len(heap) /\ t.array \in Nat /\ t.len \in Nat
                      /\ Valid(args.heap, t) /\ Contents(args.heap, t) = Contents(heap, t)
    OBVIOUS
  <2>1. t.array <= Len(heap) /\ t.array \in Nat /\ t.len \in Nat
    BY DEF Valid, SliceType
  <2>2. Valid(g, t) /\ Contents(g, t) = Contents(heap, t) /\ t.array # own.array
    BY <1>2, <1>7, <1>8, <2>1
  <2> QED
    BY <1>12, <2>1, <2>2 DEF Adds
<1>14. /\ args.heap \in Arrays /\ Valid(args.heap, args.slice) /\ Contents(args.heap, args.slice) = v \o F
       /\ args.slice.array > Len(heap)
  BY <1>2, <1>7, <1>8, <1>12 DEF Adds
<1>15. Grown(args.heap)
  BY <1>2, <1>13, <1>14 DEF Grown, BuildInv, Owned
<1>16. \A c \in Classes : Valid(args.heap, slices[c])
  <2> TAKE c \in Classes
  <2>1. CASE c = "flags"
    BY <1>10, <1>14, <2>1
  <2>2. CASE c # "flags"
    BY <1>2, <1>10, <1>13, <2>2
  <2> QED
    BY <2>1, <2>2
<1>17. ASSUME NEW b \in Builders, NEW c \in Classes, NEW k \in Classes,
              slices[c].array = slice[b][k].array
       PROVE  slices[c].len <= slice[b][k].len
  <2>0. slice[b][k].array <= Len(heap) /\ slice[b][k].array \in Nat /\ slice[b][k].len \in Nat
    BY <1>2, <1>13
  <2>1. CASE c = "flags"
    BY <1>2, <1>10, <1>14, <1>17, <2>0, <2>1
  <2>2. CASE c # "flags"
    <3>1. slices[c] = slice[st.p][c] /\ Valid(heap, slice[st.p][c])
      BY <1>2, <1>10, <2>2
    <3>2. CASE slices[c].array = 0
      <4>1. slices[c].len = 0
        BY <1>2, <3>1, <3>2, ContentsIs
      <4> QED
        BY <2>0, <4>1
    <3>3. CASE slices[c].array # 0
      BY <1>2, <1>13, <1>17, <3>1, <3>3 DEF BuildInv, Apart
    <3> QED
      BY <3>2, <3>3
  <2> QED
    BY <2>1, <2>2
<1> DEFINE print == <<Plain("print")>>   fs == said[st.p]["flags"]
           ps == said[st.p]["pairs"]   ws == said[st.p]["where"]
<1>18. print \in Seq(AWord) /\ fs \in Seq(Added) /\ ps \in Seq(Added) /\ ws \in Seq(Added)
  <2>1. Plain("print") \in AWord
    BY PlainTyped
  <2>2. print \in Seq(AWord)
    BY <2>1
  <2> QED
    BY <1>2, <2>2 DEF BuildInv, Owned
<1>19. fs \in Seq(AWord) /\ ps \in Seq(AWord) /\ ws \in Seq(AWord)
  <2>1. Added \subseteq AWord
    BY DEF Added
  <2> QED
    BY <1>18, <2>1, SeqMonotonic
<1>20. SentenceOf(args.heap, Plain("print"), slices) = chain
  <2>1. /\ Contents(args.heap, slices["pairs"]) = ps
        /\ Contents(args.heap, slices["where"]) = ws
        /\ NonEmpty(F) = fs
    BY <1>2, <1>10, <1>13 DEF BuildInv, Said, F, flags
  <2>2. NonEmpty(v \o F) = v \o fs
    BY <1>4, <1>9, <2>1, NonEmptyConcat
  <2>3. print \o (v \o fs) = (print \o v) \o fs
    <3>1. print \in Seq(AWord) /\ v \in Seq(AWord) /\ fs \in Seq(AWord)
      BY Zenon, <1>4, <1>18, <1>19
    <3> HIDE DEF print, fs
    <3> QED
      BY SMTT(30), <3>1, ConcatAssociative
  <2>4. SentenceOf(args.heap, Plain("print"), slices) = print \o (v \o fs) \o ps \o ws
    BY Zenon, <1>10, <1>14, <2>1, <2>2 DEF SentenceOf, BuildSentence
  <2> QED
    BY Zenon, <1>11, <2>3, <2>4
<1>21. ToSet(chain) = {Plain("print")} \cup ToSet(v) \cup ToSet(fs) \cup ToSet(ps) \cup ToSet(ws)
  <2>1. ToSet(print) = {Plain("print")}
    BY DEF ToSet
  <2> HIDE DEF print, fs, ps, ws
  <2>2. print \o v \in Seq(AWord) /\ print \o v \o fs \in Seq(AWord) /\ print \o v \o fs \o ps \in Seq(AWord)
    BY <1>4, <1>18, <1>19, ConcatProperties
  <2>3. ToSet(print \o v) = ToSet(print) \cup ToSet(v)
    BY Zenon, <1>4, <1>18, PartsOfWords
  <2>4. ToSet(print \o v \o fs) = ToSet(print \o v) \cup ToSet(fs)
    BY Zenon, <1>19, <2>2, PartsOfWords
  <2>5. ToSet(print \o v \o fs \o ps) = ToSet(print \o v \o fs) \cup ToSet(ps)
    BY Zenon, <1>19, <2>2, PartsOfWords
  <2>6. ToSet(print \o v \o fs \o ps \o ws) = ToSet(print \o v \o fs \o ps) \cup ToSet(ws)
    BY Zenon, <1>19, <2>2, PartsOfWords
  <2> USE DEF print, fs, ps, ws
  <2>7. chain = print \o v \o fs \o ps \o ws
    BY Zenon, <1>11
  <2> HIDE DEF print, fs, ps, ws
  <2> QED
    BY Zenon, <2>1, <2>3, <2>4, <2>5, <2>6, <2>7
<1>22. /\ \E word \in ToSet(chain) : word.w \in {"follow", "follow-only", "interval"}
       /\ ~({Plain("follow"), Plain("follow-only")} \subseteq ToSet(chain))
  <2>1. ToSet(fs) \subseteq Added /\ ToSet(ps) \subseteq Added /\ ToSet(ws) \subseteq Added
    BY <1>18, PartsOf
  <2>2. \A x \in Added \cup {Plain("print")} : x # Plain("follow") /\ x # Plain("follow-only")
    BY PlainIs DEF Added
  <2> HIDE DEF fs, ps, ws
  <2>3. ToSet(v) \subseteq ToSet(chain)
    BY <1>21
  <2>4. \A x \in {Plain("follow"), Plain("follow-only")} : x \in ToSet(chain) => x \in ToSet(v)
    BY <1>21, <2>1, <2>2
  <2> QED
    BY <1>3, <2>3, <2>4
<1> QED
  BY <1>5, <1>15, <1>16, <1>17, <1>20, <1>22, KeepStep

LEMMA BuildInitial == WordsInit => BuildInv
<1> SUFFICES ASSUME WordsInit PROVE BuildInv
  OBVIOUS
<1>1. BuildInit
  BY DEF WordsInit
<1>2. heap = <<>> /\ heap \in Arrays
  BY <1>1, EmptySeq DEF BuildInit, Arrays
<1>3. slice = [b \in Builders |-> [c \in Classes |-> Nil]] /\ Nil \in SliceType /\ Nil.len = 0 /\ Nil.array = 0
  BY <1>1 DEF BuildInit, Nil, SliceType
<1>4. Valid(heap, Nil)
  BY <1>2, <1>3 DEF Valid, Cap
<1>5. Contents(heap, Nil) = <<>>
  <2>1. Contents(heap, Nil) \in Seq(AWord) /\ Len(Contents(heap, Nil)) = 0
    BY <1>2, <1>3, <1>4, ContentsIs
  <2> QED
    BY <2>1, EmptySeq
<1>6. said = [b \in Builders |-> [c \in Classes |-> <<>>]] /\ <<>> \in Seq(Added)
  BY <1>1, EmptySeq DEF BuildInit
<1>7. Owned
  <2>1. said \in [Builders -> [Classes -> Seq(Added)]]
    BY <1>6
  <2>2. slice \in [Builders -> [Classes -> SliceType]]
    BY <1>3
  <2>3. \A b \in Builders, c \in Classes : Valid(heap, slice[b][c])
    BY <1>3, <1>4
  <2> QED
    BY <1>1, <1>2, <2>1, <2>2, <2>3 DEF Owned, BuildInit
<1>8. Apart /\ Behind /\ Asked
  BY <1>1, <1>3 DEF Apart, Behind, Asked, BuildInit
<1>9. Said
  <2>1. NonEmpty(<<>>) = <<>>
    BY DroppingEmpty DEF NonEmpty
  <2>2. "flags" \in Classes /\ "pairs" \in Classes /\ "where" \in Classes
    BY DEF Classes
  <2>3. \A b \in Builders, c \in Classes : slice[b][c] = Nil /\ said[b][c] = <<>>
    BY <1>3, <1>6
  <2> QED
    BY <1>5, <2>1, <2>2, <2>3 DEF Said
<1> QED
  BY <1>7, <1>8, <1>9 DEF BuildInv

LEMMA BuildStep == BuildInv /\ [WordsNext]_<<buildVars, readVars>> => BuildInv'
<1> SUFFICES ASSUME BuildInv, [WordsNext]_<<buildVars, readVars>> PROVE BuildInv'
  OBVIOUS
<1>1. CASE UNCHANGED buildVars
  BY <1>1 DEF buildVars, BuildInv, Owned, Apart, Behind, Said, Asked
<1>2. ASSUME NEW b \in Builders, NEW c \in Classes, NEW w \in Words[c], Add(b, c, w) PROVE BuildInv'
  BY <1>2, AddStep
<1>3. ASSUME NEW s \in StreamBuilders, NEW p \in PrintBuilders, NEW f, NEW d \in Int, MakeStream(s, p, f, d)
      PROVE  BuildInv'
  BY <1>3, MakeStreamStep
<1>4. ASSUME NEW s \in StreamBuilders, NEW f, NEW d \in Int, Combine(s, f, d) PROVE BuildInv'
  BY <1>4, CombineStep
<1>5. ASSUME NEW b \in PathBuilders, NEW id \in IDs, PathStream(b, id) PROVE BuildInv'
  BY <1>5, PathStreamStep
<1>6. ASSUME NEW s \in StreamBuilders, NEW id \in IDs, PrintStream(s, id) PROVE BuildInv'
  BY <1>6, PrintStreamStep
<1>7. 0 \in Int /\ \A d \in Intervals : d \in Int
  BY IntervalsAssumption
<1>8. BuildNext => BuildInv'
  BY Zenon, <1>2, <1>3, <1>4, <1>5, <1>6, <1>7 DEF BuildNext
<1> QED
  BY Zenon, <1>1, <1>8 DEF WordsNext

\* Which slices share an array, and what the words in them stand for (the builders, Stream,
\* Spec).
THEOREM BuildInvariance == WordsSpec => []BuildInv
BY BuildInitial, BuildStep, PTL DEF WordsSpec

\* What is sent once.
LEMMA AsSaid ==
    ASSUME BuildInv, NEW shot \in OneShots
    PROVE  shot[1] = shot[2]
<1>9. "flags" \in Classes /\ "pairs" \in Classes /\ <<>> \in Seq(AWord)
  BY EmptySeq DEF Classes
<1>4. NonEmpty(<<>>) = <<>>
  BY DroppingEmpty DEF NonEmpty
<1>5. \A s \in Seq(AWord) : s \o <<>> = s
  BY ConcatEmptySeq
<1>s. \A w \in Words["flags"] \cup Words["pairs"] : Plain(w) \in AWord
  <2>1. \A c \in Classes : \A w \in Words[c] : Plain(w) \in Added
    BY WordTyped
  <2> QED
    BY <1>9, <2>1 DEF Added
<1>1. ASSUME NEW b \in PrintBuilders, shot = RunPrint(b) PROVE shot[1] = shot[2]
  <2>1. b \in Builders /\ Plain("print") \in AWord
    BY PlainTyped DEF Builders
  <2>2. SentenceOf(heap, Plain("print"), slice[b]) = Chain("print", <<>>, b)
    BY <2>1, BuilderSentence DEF BuildInv, Chain
  <2> QED
    BY <1>1, <2>2 DEF RunPrint
<1>2. ASSUME NEW numbers \in Words["flags"], NEW w \in Words["pairs"], shot = Write(numbers, <<Plain(w)>>)
      PROVE  shot[1] = shot[2]
  <2> DEFINE all == NonEmpty(<<Plain(numbers)>>) \o <<Plain(w)>>   set == <<Plain("set")>>
  <2>1. Plain(numbers) \in AWord /\ Plain(w) \in AWord /\ Plain("set") \in AWord
    BY <1>s, PlainTyped
  <2>2. <<Plain(numbers)>> \in Seq(AWord) /\ <<Plain(w)>> \in Seq(AWord) /\ set \in Seq(AWord)
    BY <2>1
  <2>3. all \in Seq(AWord)
    <3>1. NonEmpty(<<Plain(numbers)>>) \in Seq(AWord)
      BY Zenon, <2>2, NonEmptyConcat
    <3> QED
      BY Zenon, <2>2, <3>1, ConcatProperties
  <2>4. shot = <<set \o NonEmpty(<<>>) \o all \o <<>>, set \o all>>
    BY Zenon, <1>2 DEF Write, BuildSentence
  <2> HIDE DEF all, set
  <2>5. set \o all \in Seq(AWord)
    BY <2>2, <2>3, ConcatProperties
  <2>6. set \o NonEmpty(<<>>) \o all \o <<>> = set \o all
    BY Zenon, <1>5, <1>4, <2>2, <2>5
  <2> QED
    BY <2>4, <2>6
<1>3. ASSUME NEW args \in {<<>>} \cup (Words["flags"] \X Words["flags"]), shot = Poll(args)
      PROVE  shot[1] = shot[2]
  <2> DEFINE words  == [i \in DOMAIN args |-> Plain(args[i])]
             action == IF words = <<>> THEN Plain("print") ELSE Head(words)
             flags  == IF words = <<>> THEN <<>> ELSE Tail(words)
  <2>1. words \in Seq(AWord)
    <3>1. CASE args = <<>>
      <4>1. words \in [1..0 -> AWord]
        BY <3>1
      <4> HIDE DEF words
      <4> QED
        BY <4>1, FunctionIsSeq
    <3>2. CASE args # <<>>
      <4>1. PICK v \in Words["flags"], w \in Words["flags"] : args = <<v, w>>
        BY <3>2
      <4>2. words \in [1..2 -> AWord]
        BY <1>s, <4>1
      <4>3. 2 \in Nat
        OBVIOUS
      <4> HIDE DEF words
      <4> QED
        BY Zenon, <4>2, <4>3, FunctionIsSeq
    <3> QED
      BY <3>1, <3>2
  <2>2. shot = <<<<action>> \o NonEmpty(flags) \o <<>> \o <<>>, <<action>> \o NonEmpty(flags)>>
    BY <1>3 DEF Poll, BuildSentence
  <2> HIDE DEF words
  <2>3. action \in AWord /\ flags \in Seq(AWord)
    <3>1. CASE words = <<>>
      BY <1>9, <3>1, PlainTyped
    <3>2. CASE words # <<>>
      BY <2>1, <3>2, HeadTailProperties
    <3> QED
      BY <3>1, <3>2
  <2> HIDE DEF action, flags
  <2>4. <<action>> \in Seq(AWord) /\ NonEmpty(flags) \in Seq(AWord)
    BY <2>3, NonEmptyConcat
  <2> DEFINE all == <<action>> \o NonEmpty(flags)
  <2>5. all \in Seq(AWord)
    BY <2>4, ConcatProperties
  <2> HIDE DEF all
  <2>6. all \o <<>> \o <<>> = all
    BY Zenon, <1>5, <2>5
  <2> USE DEF all
  <2> QED
    BY <2>2, <2>6
<1>6. CASE shot \in {RunPrint(b) : b \in PrintBuilders}
  BY <1>1, <1>6
<1>7. CASE shot \in {Write(numbers, <<Plain(w)>>) : numbers \in Words["flags"], w \in Words["pairs"]}
  <2>1. \E numbers \in Words["flags"], w \in Words["pairs"] : shot = Write(numbers, <<Plain(w)>>)
    BY <1>7
  <2> QED
    BY Zenon, <1>2, <2>1
<1>8. CASE shot \in {Poll(args) : args \in {<<>>} \cup (Words["flags"] \X Words["flags"])}
  BY <1>3, <1>8
<1> QED
  BY <1>6, <1>7, <1>8 DEF OneShots

\* Every sentence is what its chain of calls says, whatever the builders that share its
\* arrays are used for after it (BuildSentence, Stream, Spec.command).
THEOREM SentencesAsAsked == WordsSpec => []WordsAsAsked
<1>1. BuildInv => WordsAsAsked
  <2> SUFFICES ASSUME BuildInv PROVE WordsAsAsked
    OBVIOUS
  <2>1. \A shot \in OneShots : shot[1] = shot[2]
    BY AsSaid
  <2>2. Asked
    BY DEF BuildInv
  <2> QED
    BY <2>1, <2>2 DEF WordsAsAsked, Asked
<1> QED
  BY <1>1, BuildInvariance, PTL
=============================================================================
