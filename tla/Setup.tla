-------------------------------- MODULE Setup --------------------------------
(***************************************************************************)
(* From the environment to devices: the loaders and validation of          *)
(* src/config, the constructors of src/roslib.go for one router and for a  *)
(* fleet, the Influx client they open, and the defaults that a device      *)
(* applies to its options (src/device/options.go).                         *)
(*                                                                         *)
(* The environment does not change while the library starts. A setting is  *)
(* a number (milliseconds for a duration), Unset or Bad, which does not    *)
(* parse. The list of a fleet is what splitAndTrim makes of it: the IDs    *)
(* between commas, blank ones dropped; empty if there are none. User names, *)
(* passwords, the Redis address, and the names of organisation and         *)
(* measurement are passed on unread and left out.                          *)
(***************************************************************************)
EXTENDS Integers, Sequences

CONSTANTS Routers,      \* the router IDs that may be listed
          Single,       \* the one router, and the key of its device
          EnvName,      \* per router, the part of a variable's name that stands for it
          Addresses,
          None,         \* no address, no ID, no device
          Unset, Bad,   \* a variable that is empty, or does not parse
          Environments  \* the environments to start in

Numbers == {"dial", "queue", "initial", "max", "elapsed", "ttl"}
Flags   == {"true", "false", Unset, Bad}
Keys    == Routers \cup {Single}

\* strings.ToUpper and the underscore for the dash: names may fall together.
ASSUME NamesAssumption == Single \notin Routers /\ EnvName \in [Keys -> STRING]

ASSUME TextAssumption == Unset \notin Int /\ Bad \notin Int
Environment ==
    [number : [Numbers -> Int \cup {Unset, Bad}],
     cache : Flags, influx : Flags, host : BOOLEAN, database : BOOLEAN,
     router : [{EnvName[k] : k \in Keys} -> [address : Addresses \cup {None}, tls : Flags]],
     list : Seq(Routers)]
ASSUME EnvironmentAssumption == Environments \subseteq Environment

\* Options, an entry of a configuration, and a configuration.
OptionsType == [id : Routers \cup {None}, address : Addresses, tls : BOOLEAN,
                number : [Numbers -> Int], cache : BOOLEAN]
EntryType   == [id : Keys, address : Addresses \cup {None}, tls : BOOLEAN,
                number : [Numbers -> Int]]
ConfigType  == [entries : Seq(EntryType),
                shared : [cache : BOOLEAN, influx : BOOLEAN, host : BOOLEAN, database : BOOLEAN]]
ASSUME NoneAssumption == None \notin Addresses \cup Keys \cup OptionsType \cup ConfigType

VARIABLES env,     \* the environment
          mode,    \* which of the two constructors
          pc,      \* how far the caller is
          cfg,     \* the Config or FleetConfig, or None
          next,    \* the entry to register next
          devices, \* the pool: per key, the options of its device
          client,  \* the Influx client
          cause    \* history: why it failed

vars == <<env, mode, pc, cfg, next, devices, client, cause>>
-----------------------------------------------------------------------------
(* The environment variables, and the two sets of defaults. A name with an *)
(* underscore is a faulty variant of the definition below it; no           *)
(* specification uses it.                                                  *)

\* envInt and envDuration.
envNumber_Zero(name, def) == CASE env.number[name] = Unset -> def
                               [] env.number[name] = Bad   -> 0
                               [] OTHER -> env.number[name]
envNumber(name, def) == IF env.number[name] \in {Unset, Bad} THEN def ELSE env.number[name]

\* envBool, whose default is always FALSE.
envBool(text) == text = "true"

SingleDefault == [dial |-> 10000, queue |-> 100, initial |-> 500, max |-> 30000,
                  elapsed |-> 0, ttl |-> 30000]
FleetDefault  == [n \in Numbers |-> IF n = "ttl" THEN 30000 ELSE 0]

RouterConfig(key, default) ==
    [id |-> key, address |-> env.router[EnvName[key]].address,
     tls |-> envBool(env.router[EnvName[key]].tls),
     number |-> [n \in Numbers |-> envNumber(n, default[n])]]

\* What the entries of a fleet share, and the one router has for itself.
Shared == [cache |-> envBool(env.cache), influx |-> envBool(env.influx),
           host |-> env.host, database |-> env.database]

\* Validate: the condition on the Influx settings, and the address of the one router.
InfluxGiven(c) == c.shared.influx => c.shared.host /\ c.shared.database
Validate(c)    == c.entries[1].address # None /\ InfluxGiven(c)

SingleConfig == [entries |-> <<RouterConfig(Single, SingleDefault)>>, shared |-> Shared]

\* LoadFleetFromEnv. Its call of LoadFromEnv may fail for want of the
\* address of the one router, which is no concern of a fleet.
FleetConfig == [entries |-> [i \in DOMAIN env.list |-> RouterConfig(env.list[i], FleetDefault)],
                shared |-> Shared]
FleetComplete == /\ env.list # <<>>
                 /\ \A i \in DOMAIN env.list : FleetConfig.entries[i].address # None
                 /\ InfluxGiven(FleetConfig)
-----------------------------------------------------------------------------
(* Options of a device.                                                    *)

\* ToDeviceOptions, and the options of NewFleet, which have an ID and no TLS.
ToDeviceOptions(e, c) ==
    [id |-> None, address |-> e.address, tls |-> e.tls, number |-> e.number, cache |-> c.shared.cache]
FleetOptions(e, c) ==
    [id |-> e.id, address |-> e.address, tls |-> FALSE, number |-> e.number, cache |-> c.shared.cache]

\* listenQueueSize, dialTimeout, reconnectInitial and reconnectMax; ReconnectMaxElapsed and
\* CacheTTL are used as they are.
positiveOr(v, def) == IF v > 0 THEN v ELSE def
Settings(o) == [n \in Numbers |-> IF n \in {"elapsed", "ttl"} THEN o.number[n]
                                  ELSE positiveOr(o.number[n], SingleDefault[n])]

DeviceID(o) == IF o.id # None THEN o.id ELSE o.address
-----------------------------------------------------------------------------
Empty == [k \in Keys |-> None]

Init ==
    /\ env \in Environments
    /\ mode \in {"single", "fleet"}
    /\ pc = "start" /\ cfg = None /\ next = 1
    /\ devices = Empty /\ client = "none" /\ cause = "none"

\* LoadFromEnv returns the Config with the error; a caller may go on with it.
LoadFromEnv ==
    /\ pc = "start" /\ mode = "single"
    /\ cfg' = SingleConfig
    /\ pc' = "loaded"
    /\ UNCHANGED <<env, mode, next, devices, client, cause>>

\* LoadFleetFromEnv returns nil with the error.
LoadFleetFromEnv ==
    /\ pc = "start" /\ mode = "fleet"
    /\ cfg' = IF FleetComplete THEN FleetConfig ELSE None
    /\ pc' = "loaded"
    /\ UNCHANGED <<env, mode, next, devices, client, cause>>

\* The checks at the beginning of NewFromConfig and of NewFleet, without the latter's for an
\* empty list of routers: LoadFleetFromEnv returns no such configuration.
Acceptable == IF mode = "single" THEN Validate(cfg) ELSE cfg # None

Refuse ==
    /\ pc = "loaded" /\ ~Acceptable
    /\ pc' = "failed" /\ cause' = "config"
    /\ UNCHANGED <<env, mode, cfg, next, devices, client>>

\* influx.NewClient, if Influx is enabled; nothing is registered before it.
NewClient ==
    /\ pc = "loaded" /\ Acceptable
    /\ \/ /\ ~cfg.shared.influx
          /\ pc' = "register" /\ UNCHANGED <<client, cause>>
       \/ /\ cfg.shared.influx /\ cfg.shared.host /\ cfg.shared.database
          /\ pc' = "register" /\ client' = "open" /\ UNCHANGED cause
       \/ /\ cfg.shared.influx
          /\ pc' = "failed" /\ UNCHANGED client
          /\ cause' = IF cfg.shared.host /\ cfg.shared.database THEN "client" ELSE "config"
    /\ UNCHANGED <<env, mode, cfg, next, devices>>

Entry == cfg.entries[next]
Taken == devices[Entry.id] # None

\* Register dials and adds a device to the pool.
Register ==
    /\ pc = "register" /\ ~Taken /\ Entry.address # None
    /\ devices' = [devices EXCEPT ![Entry.id] = IF mode = "single" THEN ToDeviceOptions(Entry, cfg)
                                                ELSE FleetOptions(Entry, cfg)]
    /\ next' = next + 1
    /\ pc' = IF next = Len(cfg.entries) THEN "up" ELSE "register"
    /\ UNCHANGED <<env, mode, cfg, client, cause>>

\* What the constructor does with the client when Register fails.
Released_Not == client
Released == IF client = "open" THEN "closed" ELSE client

\* Register fails, by the dial or because the ID is listed twice; CloseAll takes the devices
\* of a fleet back.
RegisterFails ==
    /\ pc = "register"
    /\ pc' = "failed"
    /\ cause' = IF Taken THEN "duplicate" ELSE IF Entry.address = None THEN "config" ELSE "dial"
    /\ devices' = IF mode = "fleet" THEN Empty ELSE devices
    /\ client' = Released
    /\ UNCHANGED <<env, mode, cfg, next>>

Next == LoadFromEnv \/ LoadFleetFromEnv \/ Refuse \/ NewClient \/ Register \/ RegisterFails

Spec == Init /\ [][Next]_vars
-----------------------------------------------------------------------------
\* The types of the variables.
TypeOK ==
    /\ env \in Environment
    /\ mode \in {"single", "fleet"}
    /\ pc \in {"start", "loaded", "register", "up", "failed"}
    /\ cfg \in ConfigType \cup {None}
    /\ next \in Nat
    /\ devices \in [Keys -> OptionsType \cup {None}]
    /\ client \in {"none", "open", "closed"}
    /\ cause \in {"none", "config", "client", "dial", "duplicate"}

\* The table of docs/USAGE.md, and "0 = default" of device.Options.
Documented(n) ==
    CASE env.number[n] \in {Unset, Bad} -> SingleDefault[n]
      [] env.number[n] \in Int /\ n \in {"elapsed", "ttl"} -> env.number[n]
      [] OTHER -> IF env.number[n] > 0 THEN env.number[n] ELSE SingleDefault[n]

\* Whichever loader and constructor it came through, a device runs with the documented
\* numbers, on the address the environment has for its router, and with the cache if that
\* is enabled. Devices of a fleet, which share the cache, have different IDs there, also
\* when the same variables describe them (ToDeviceOptions, NewFleet, device.Options,
\* DeviceID). Two documented settings are not part of it, because the code loses them: the
\* TLS flag of a fleet's router (TLSKept below), and ROSLIB_ROUTER_ID (.env.example:8), which
\* no loader reads.
DocumentedSettings ==
    /\ \A k \in Keys : devices[k] # None =>
          /\ Settings(devices[k]) = [n \in Numbers |-> Documented(n)]
          /\ devices[k].address = env.router[EnvName[k]].address
          /\ devices[k].cache <=> env.cache = "true"
    /\ \A j, k \in Keys : j # k /\ devices[j] # None /\ devices[k] # None =>
          DeviceID(devices[j]) # DeviceID(devices[k])

ListedIDs == {env.list[i] : i \in DOMAIN env.list}

\* A fleet is asked for that names an ID twice.
Repeated == mode = "fleet" /\ \E i, j \in DOMAIN env.list : i < j /\ env.list[i] = env.list[j]

\* What the mode needs, said without the loaders.
Sufficient ==
    /\ env.influx = "true" => env.host /\ env.database
    /\ IF mode = "single" THEN env.router[EnvName[Single]].address # None
       ELSE /\ env.list # <<>>
            /\ \A k \in ListedIDs : env.router[EnvName[k]].address # None

\* A constructor that succeeds leaves a device for every router asked for and, if Influx is
\* enabled, an open client; one that fails leaves no device and no open client. The check of
\* the configuration refuses exactly the environments that lack what the mode needs. A list
\* that names an ID twice passes it and never comes up: Register fails at the second one at
\* the latest, and it finds an ID taken for no other reason (NewFromConfig, NewFleet, Validate,
\* NewClient, Manager.Register).
UpOrNothing ==
    /\ pc = "up" => /\ Sufficient /\ ~Repeated
                    /\ {k \in Keys : devices[k] # None} =
                          IF mode = "single" THEN {Single} ELSE ListedIDs
                    /\ client = "open" <=> env.influx = "true"
    /\ pc = "failed" => /\ devices = Empty
                        /\ client # "open"
                        /\ cause = "config" <=> ~Sufficient
                        /\ cause = "duplicate" => Repeated

\* src/config/fleet.go:73 reads the TLS setting of a router of a fleet: its device uses TLS
\* if the environment says so. NewFleet drops the setting.
TLSKept ==
    \A k \in Keys : devices[k] # None => (devices[k].tls <=> env.router[EnvName[k]].tls = "true")
=============================================================================
