# roslib in TLA+

A verification development for roslib, the Go library that keeps persistent
connections to RouterOS devices: two connections per router, listeners that
survive reconnects, periodic polls, a pool of devices, a cache and a metrics
writer. The modules here model the concurrent core of the library and the sequential
code around it that has boundaries to get wrong: sentences, parsers, start-up. TLC checks
them on small instances, and TLAPS proves their safety properties for every instance.

## The system

| Component | State it keeps | Operations | What is hard about it | Here |
|---|---|---|---|---|
| stream manager, `src/stream` | map of listeners by ID, current connection, per listener the reply and the cancel function | Register, Unregister, ReattachAll, Close; one consume goroutine per attach | `listener.reply` and `listener.cancel` are touched outside the mutex by four kinds of goroutines; reconnects, finite streams, /cancel that times out | `StreamManager`, `IDRegistry` |
| poll engine, `src/poll` | groups by interval, index by ID, current connection, in-flight counters | Register, Unregister, Close, AttachConn; one ticker goroutine per interval, one goroutine per command | waiting for a goroutine with a lock held; counters tested in one goroutine and kept in another | `PollEngine` |
| device lifecycle, `src/device/device.go`, `supervisor.go`, `connect.go` | two connections, their error channels, the context, closeOnce, the wait group | New, Close, CloseAndWait, IsAlive; two supervisors | shutdown against reconnect, giving up, order of status callbacks | `DeviceLifecycle` |
| device pool, `src/device/manager.go` | map of devices by name | Register, GetOrConnect, Unregister, CloseAll | double-checked locking, dead entries, dials with the lock held, half-made devices | `DevicePool` |
| caches, `src/cache` | entries with a TTL, two path indexes; the same in Redis | Get, Set, SetForPath, InvalidatePath, InvalidatePathForDevice | expiry against a fresh Set, invalidation against a fill in progress, several Redis requests per operation | `CacheStore`, `RedisCache` |
| builder and query, `src/builder`, `src/query` | the slices of a chain of calls, shared with the specs of listeners; `ExecCached` uses the cache | fluent sentences, Exec, Stream | append into a shared array; the cached read is a check and a later act | `Builder`; `ExecCached` in `CacheStore` and `RedisCache` |
| decode, `src/decode` | none | parse durations, sizes, numbers, flags | boundaries of the notations; what the cache keeps of a reply | `Decode` |
| metrics, `src/metrics/influx` | buffer, flush signal | Add, Start, Close and the loop; NewClient | points that fall between a flush, Close and the loop | `BatchedWriter`; `NewClient` in `Setup` |
| config and facade, `src/config`, `src/roslib.go` | none that outlives the start | LoadFromEnv, LoadFleetFromEnv, NewFromConfig, NewFleet | three tables of defaults; a constructor that fails half-way | `Setup`; `NewFleet` against other callers in `DevicePool` |
| logging adapter, commands and examples | none | | | not modelled |

How they interact: a `RouterDevice` owns one stream manager and one poll engine.
Its stream supervisor calls `ReattachAll`, its command supervisor `AttachConn`,
each after it has dialled a new connection. `shutdown` cancels the context that
both parts derive theirs from, calls `Close` on both, and closes the connections.
The application calls Register and Unregister of the parts, and Close or
CloseAndWait of the device, from any goroutine. Replies, errors and `!done` come
from the routeros client, which is external and modelled from how the code uses it.

## The modules

| Module | Content |
|---|---|
| `IDRegistry` | what the maps of listeners and of polls promise: an ID belongs to one registration, and a registration that left never comes back; `StreamManager` and `PollEngine` implement it |
| `StreamManager` | `stream.Manager` in detail |
| `MCStreamRaces` | the same for TLC, with symmetry |
| `StreamManager_proofs` | theorems about `StreamManager` |
| `PollEngine`, `MCPollEngine` | `poll.Engine` and `poll.group` |
| `PollPrompt` | the behaviours of `PollEngine` without its one deadlock, for liveness |
| `PollEngine_proofs` | theorems about `PollEngine` |
| `DeviceLifecycle`, `DeviceLifecycle_proofs` | `device.RouterDevice`: supervisors and shutdown |
| `DevicePool`, `DevicePool_proofs` | `device.Manager`, with `New` and the dials inside it, and `roslib.NewFleet` |
| `CacheStore`, `MCCacheStore` | `cache.InMemoryCache` with `ExecCached` of the print builder |
| `CacheStore_proofs` | theorems about `CacheStore` |
| `RedisCache`, `MCRedisCache`, `RedisCache_proofs` | `cache.RedisCache` with `ExecCached`, request by request |
| `BatchedWriter`, `BatchedWriter_proofs` | `influx.BatchedWriter` |
| `Decode` | the typed accessors, and what a reply becomes on its way through the cache |
| `Builder`, `MCBuilder` | the fluent builders and `BuildSentence`, on Go slices; extends `Decode` |
| `Setup`, `MCSetup` | from the environment to devices: both loaders, both constructors, the defaults of a device |
| `Sequential_proofs` | theorems about `Setup`, and about `Builder` with `Decode` |

Conventions. A critical section of a mutex is one action; whatever is read or
written outside it is an action of its own. Structs, attempts, connections and
goroutines are numbers in the order of their creation, 0 is nil. A call that
returns before it changes anything is a stuttering step. A name with an
underscore, like `Holds_ByID`, is a faulty variant of the definition below it;
no specification uses it. It documents the bug that a property catches, and
`PROJECT.json` pairs each property with one.

### StreamManager

`entries` is `m.listeners`, `lsn` the listener structs, `stream` what `attach`
creates per call (the context and the client's reply), `cons` the consume
goroutines, `proc` the goroutines inside a method, `up` the connections alive.
Register is `Register`, then `AttachBegin`, `ListenOk` and `AttachStore`, or
`ListenErr` and `Rollback`. Unregister and Close share `Detach` and `Release`, one
per half of `detach`. consume is split where it reads `l.reply`: for `Chan()` when the
goroutine starts (`ConsumeStart`), and again for `Err()` when the channel is closed
(`ConsumeErr`), which is nil for a reply that is still open. The check of `m.ctx`
(`ConsumeCheck`), the deletion (`FinishDelete`) and the callback (`OnFinish`) are
separate steps. The environment ends a stream (`StreamDone`, `StreamTrap`) or drops
the connection (`ConnDrop`), which ends every reply open on it with an error.
`ListenErr` is possible on a dead connection or under a cancelled context.

Left out: sentences and calls of `Handler`, which change no state of the manager; `attach`
with a nil connection, which no caller in `src/` can cause; a torn read of the interface
value `l.reply`, which Go allows for the unsynchronised accesses to it.

### PollEngine

`lock` is the holder of `e.mu` across actions. Only `Unregister` keeps it while it
blocks, waiting for the goroutine of the group it empties; that goroutine needs the
lock in `GetConn`. A tick takes its snapshot, then the connection, then goes through
the polls (`Skip`, `Spawn`). A spawned `runOne` counts itself in later (`RunStart`)
and out at its end (`RunEnd`). Commands succeed or fail at any time; the length of
intervals and timeouts is abstracted away. `Register` does not look at the context, as
in the code: after Close it starts a group whose goroutine ends at once. Left out: the return of
`tick` for a nil connection, which no caller in `src/` attaches.

### DeviceLifecycle

`link` holds the connections (alive, dead, closed by us), `current` what the device
holds, `attached` what its parts were given, `sup` the supervisors, `at` the closers.
`SupDone`, `SupSilent` and `SupError` are the outcomes of the supervisors' select;
dialling, `Swap` under `d.mu`, `AttachNew` and `Announce` are the steps of a
reconnect. `shutdown` is `NotifyClosed`, `Cancel`, `CloseParts` twice, `CloseConns`.
`closeOnce` makes the other closers wait. `streams.Close`, `polls.Close` and `ReattachAll`
are single steps here, so a deadlock inside them is not a matter of this module.

### DevicePool

`devices` is the map, `lock` who holds the write lock across actions, `dev` the devices
with their context and the connections that were opened and not closed, `at` the
callers. GetOrConnect is `GetOrConnect` (the map under the read lock), `GetCheck` (IsAlive
without it), `GetLock` (the second check; Close and delete of a dead entry), then
`DialStream`, `DialCommand` or `DialFail`, and `Store`. Register shares the dials. NewFleet
registers the names one after the other, in any order, on a manager nobody else has yet,
and goes on as CloseAll when one fails. A device dies when the context given to New is
cancelled (`ParentDone`) or when the application closes it. Close is one step here; what
happens inside it is the matter of `DeviceLifecycle`.

### CacheStore

`data`, `pathIdx`, `keyPath` are the maps of the cache, `at` the callers of ExecCached. Get is split
where it gives up the read lock: `ExecCached` decides what was found, `Remove` takes the
write lock and deletes whatever is there by then. `RunCommand` and `SetForPath` follow. The value
of an entry is abstracted to its age relative to the router and to the invalidations, which
is all that the properties tell apart and leaves no version number to bound. A key stands
for a device and a path; that a key is filed under one path only is how ExecCached, the
only caller in `src/`, uses `SetForPath`. A hit changes nothing and is a stuttering step. The
test by prefix in InvalidatePathForDevice is the relation `Extends`. Left out: the counters of
Stats, and `NoopCache`, which has no state.

### RedisCache

`data` and `index` are the server's keys with the time each has left; `call` and `inv` are the
prints and the invalidations in progress. `Tick` lets time pass and keys expire. SetForPath is one
transaction; an invalidation is `InvalidatePath` or `InvalidatePathForDevice` (SMEMBERS and the
filter) and then `Finish` (the transaction). A request may fail, executed or not: ExecCached
ignores that, an invalidation returns it and then promises nothing. `stale` holds the entries
that an invalidation returning nil should have deleted, `orphan` those that the index of their path
does not cover to their end: an invalidation deleted the index without them, or `SetForPath` left it
with less time than they have (`Exposed`). Both are history. Every print chooses its TTL, as
the argument of ExecCached does; 0 is no expiry. Counting the time that is left, and not the time of day, leaves
the state space finite without a bound.

### BatchedWriter

`buf`, `flush` are the fields, `loop` the goroutine (it has closed `b.done` when it is gone),
`batch` the snapshots being written. `Add` and the send of the signal are two steps. The loop
may take any ready case of its select. A write that begins under a cancelled context fails;
one that was begun before may succeed or fail. `written` and `lost` are where points end.
Close may come at any time, several times, and before Start, where it waits.

### Decode

A text is its parts between colons, a part its numbers with the letters after each, so that
`1w2d`, `01:02:03` and `1.5MiB` are three shapes of one structure and the parsers work on what
they tell apart. `Duration`, `Integer`, `Bytes` and `Bool` are the accessors, `Or` their forms with
a default. The router's notations (`UnitText`, `ClockTexts`, `SizeTexts`) are external; `formatDuration` is
the library's own. `Exec` reads a reply as it comes, `Hit` reads it after `toCached` and `toReply`.
A sign on an hour of `-1:30` counts for the hour only, and `1w2d03:04:05` is an error, in the
model as in the code. `Total` is the running sum of both duration parsers, `Dropping` the loop
that leaves out words; they are recursive functions, since the proofs need their definitions.
The empty word and the sizes have names (`NoText`, `Kilo` and so on) because the provers cannot
read the literals. Left out: Float and Time, which the Go library parses; `us` and `ns`, since
durations are counted in milliseconds; sizes in T, which leave TLC's integers.

### Builder

A slice is an array and a length, `heap` all arrays made, and `Appended` is Go's append: in place
while the capacity lasts, else in a new array of twice the size. `slice` has the slices of the
builders, `spec` those of the registered listeners, which share the arrays of the builder they
came from. `Add` stands for every method that adds a word of its class, `MakeStream` and `Combine`
for Follow, FollowOnly and Interval, `PathStream` and `PrintStream` for Stream with `Args`, the slice
that the spec gets. A spec stays registered for ever here; that it may be turned into a
sentence again at any time is what the property is about. Commands that are sent once
(`RunPrint`, `Write`, `Poll`) change no slice and are part of the property. How a pair or a filter is
spelled as a word is abstracted. `WordsAssumption` says that the words of the calls are neither
empty, where that is a pair or a filter, nor the streaming flags: who writes follow by hand with
Flag, and calls FollowOnly as well, gets both, and is left out. `WordsSpec` is the
specification: builders are used or a reply is read, and neither touches the state of the other.

### Setup

`env` is the environment, `cfg` the Config or FleetConfig, `devices` the options of the devices
that were registered, `client` the Influx client. `LoadFromEnv` and `LoadFleetFromEnv` parse with
their own defaults; `Refuse`, `NewClient`, `Register` and `RegisterFails` are the constructors, each with
the outcomes it can have. Settings that do not parse fall back to the default of their loader,
as do zero and negative ones later in the device (`positiveOr`), except that ReconnectMaxElapsed and CacheTTL are used as they are. IDs "rb-1" and "rb_1" have the
same variables, because the dash becomes an underscore in a name; they are two routers in the
list. Left out: strings that are only passed on, among them ROSLIB_ROUTER_ID, which
`.env.example:8` has and no loader reads; how the list is split; and NewFleet's check for an empty list
of routers (`src/roslib.go:194`), since LoadFleetFromEnv returns no such configuration.

## The runs

| Run | Instance | Shows |
|---|---|---|
| `stream_manager` | 1 caller, 2 IDs, 2 listeners, 2 attaches, 2 connections, /cancel may fail, fairness; 316,000 states | `TypeOK`; `FinishedIsGone`: OnFinish(id, nil) comes after the removal; `FinishRemovesOwn`: a late goroutine leaves a newer registration alone; `RefinesRegistry`; `EndedLeavesMap`: Len is accurate for finite streams |
| `stream_races` | 2 callers, 2 IDs, 2 listeners, 2 attaches, 2 connections, /cancel may fail; 1,163,000 states | `DetachedOnce`: racing Unregister and Close calls never stop a listener twice; `OpenIsRead`: a running stream is the one its listener holds and reads, with one exception; `DropKeepsEntry`: a drop removes an entry only through a reply that was replaced; `ReattachMissesNone`: whatever overlaps with a reconnect, it leaves out no listener |
| `poll_engine` | 2 callers, 2 IDs, 2 intervals, 2 polls, 2 groups, 2 commands, 2 connections; 650,000 states | `IndexAgrees`, `OneTicker`, `InFlightExact`; `LimitCountsTheCounted`: only commands that have not counted themselves in take a poll beyond MaxInFlight; `RefinesRegistry`: polls behave like listeners as far as their IDs go |
| `poll_prompt` | 1 caller, 2 IDs, 1 interval, 2 commands, 2 connections, fairness, `PromptSpec`; 95,000 states | `CallsReturn`, `PollsFollowReconnect`, where Unregister does not empty a group in the middle of a tick |
| `device` | 2 callers, 4 connections, fairness | `EveryConnOwned`, `AttachedIsCurrent`, `WaitedIsQuiet`, `LossIsSeen`, `CloseReturns` |
| `pool` | 2 callers, 2 names, 4 devices, fairness | `ConnsOwned`: no connection is lost, on no error path; `LiveIsKept`: double-checked locking; `AllOrNothing`: NewFleet; `CallsReturn` |
| `cache` | 2 callers, 3 keys of 2 devices and 2 paths, one ID extending the other | `IndexExact`: the three maps agree; `FreshUnlessLate`: an invalidation deletes every stale entry that was stored before it |
| `redis` | 1 print, 2 invalidations, 2 keys of 2 devices, TTLs 0, 1 and 3, `Minute` 1; 905,000 states | `FreshUnlessOrphaned`: an invalidation that returns nil misses an entry only if the index was gone before it, in one of three ways |
| `batch` | 2 adders, 2 closers, capacity 2, 3 points, fairness | `EveryPointOnce`; `FullIsNoticed`; `CloseLeavesNothing`; `CloseReturns`; `BufferDrains` |
| `words` | 1 path builder, 1 print builder, 1 stream builder, 1 listener, 4 flags and 1 pair or filter; 32 quantities in every notation and 201 odd texts; 1,099,000 states | `ReadsBack`: the accessors read what the router meant, in every notation; `CachedReadsTheSame`: a cache hit reads like a miss; `WordsAsAsked`: a sentence is what the chain says, also at a reattach after the builder was used further |
| `setup` | 3 routers, two of them with the same variables; every setting unset, malformed, negative, zero and positive; 265,000 states | `DocumentedSettings`: either way in, a device has the documented numbers, address and cache setting and an ID of its own; `UpOrNothing`: a constructor leaves all it was asked for, or nothing, and a list with an ID twice never comes up |
| `poll_deadlock` | 1 caller, 1 poll, fairness | Unregister can block for ever: `CallsReturn` fails |

The last one is a disagreement between the code and its own comment; the finding in
`PROJECT.json` quotes the lines. One run restricts its specification: `PollPrompt` takes out, with
`EmptiedAtRest`, the behaviours in which Unregister empties a group in the middle of a tick,
because there a call can block for ever, as `poll_deadlock` shows; its properties say what holds of all
others. All other runs check the specification of the module as it is.

Some properties state an exception, because the code has it. Each is as narrow as the code
allows, and but for the last, the claim without it has a configuration below:

* `OpenIsRead`: a listener may hold the dead reply of an earlier connection while its new stream runs
  (`HoldsOlder`). A Register that was in `attach` during the reconnect has stored its reply last.
* `DropKeepsEntry`: the goroutine of a dropped connection may remove the entry when the reply it was
  started for has been replaced before it read the error.
* `LimitCountsTheCounted`: a command that was started and has not run its first statement.
* `FreshUnlessLate`: an entry that was printed before the invalidation and stored after it.
* `FreshUnlessOrphaned`: an entry that outlives the index of its path.
* `ConnsOwned`: a dead device that Register has overwritten.

Further disagreements have a configuration that reproduces them, and are not among the runs:

| Configuration | Property that fails | Why |
|---|---|---|
| `MCStreamRollback.cfg` | `RollbackRemovesOwn` | the roll-back of a failed Register deletes by ID (`src/stream/manager.go:73`), and may delete a newer registration |
| `MCStreamDropKeeps.cfg` | `FinishMeansDone` | a dropped connection can remove a listener, because its error is read from the reply of a later attach (`src/stream/manager.go:183`), against `src/stream/listener.go:22-23` |
| `MCStreamOrphan.cfg` | `NoOrphan` | Unregister that comes between the reply of ListenArgs and its store cancels nothing on the router, and the stream runs on without a listener (`src/stream/manager.go:228`) |
| `MCStreamReaders.cfg` | `OneReader` | a goroutine that first runs after ReattachAll has stored the next reply reads that one, so that one reply has two readers and the other none (`src/stream/manager.go:178`) |
| `MCStreamMissed.cfg` | `AllReattached` | a Register that overlaps with a reconnect stores its dead reply over the new one, which nobody can cancel any more (`src/stream/manager.go:65`, 172) |
| `MCPollLimit.cfg` | `LimitKept` | two ticks test the counter before either goroutine has counted itself (`src/poll/group.go:120`) |
| `MCDeviceLeak.cfg` | `ClosedIsClosed` | a supervisor that had dialled before the shutdown installs its connection after it (`src/device/supervisor.go:79`) |
| `MCDeviceAlive.cfg` | `AliveIsSupervised` | IsAlive does not see that a supervisor gave up (`src/device/device.go:141`) |
| `MCCacheStale.cfg` | `FreshAfterInvalidate` | a print answered before an invalidation is stored after it (`src/builder/print.go:164`), against "fresh" in `docs/USAGE.md:550` |
| `MCBatchLoss.cfg` | `NoneLostToClose` | a batch in progress is cancelled by Close and lost (`src/metrics/influx/writer.go:133`), against the last flush its comment promises |
| `MCCachedReply.cfg` | `CachedIsIdentical` | a reply from the cache has no `Raw`, so that the `=ret=` of a Count() is gone, no tag, and replacement characters for bytes that are not UTF-8 (`src/builder/print.go:182`), against "identical" at line 128 |
| `MCSetupTLS.cfg` | `TLSKept` | NewFleet drops the TLS setting of a router (`src/roslib.go:214`) that `src/config/fleet.go:73` has read |
| `MCCacheScope.cfg` | `ScopedToDevice` | InvalidatePathForDevice tests a prefix, so it deletes the entries of a device whose ID continues the other's with a colon (`src/cache/cache.go:191`), which `src/cache/cache.go:178-180` rules out |
| `MCRedisStale.cfg` | `FreshAfterInvalidate` | an entry stored between the two requests of an invalidation loses its index with it, and the next invalidation does not find it (`src/cache/redis.go:85`), against `src/cache/cache.go:29-31` |
| `MCRedisTTL.cfg` | `IndexOutlives` | a later SetForPath with a shorter TTL shortens the life of the index (`src/cache/redis.go:73`), against the comment above it |

Seen in the models, without a configuration: OnFinish can run while or after Close, because
the context is checked before and not with the callback (`src/stream/manager.go:187` and
205); ReattachAll can start a finished stream again when it runs between `!done` and
`finishListener` (`src/stream/manager.go:109` and 203); a loss of the stream connection is
never reported to OnStatusChange (`src/device/supervisor.go:58`); Register overwrites a dead
device without closing it (`src/device/manager.go:47`, the exception in `ConnsOwned`); Close of
a batched writer that was never started does not return (`src/metrics/influx/writer.go:135`).

### Bounds

`MaxListeners`, `MaxAttempts`, `MaxConns`, `MaxPolls`, `MaxGroups` and `MaxRuns` bound how
often something may be created; the guards that use them stand for nothing in the
code. Two connections allow one reconnect, which is what meets a listener's earlier
stream; two listeners under one ID allow the stale goroutine and the newer
registration. Two callers, which allow each race of two calls with each other and with a reconnect, are
in `stream_races`; in `stream_manager`, which checks liveness and the refinement, one caller races with the
supervisor, the consume goroutines and the router, and the safety properties are proved for
any number of callers. ReattachAll starts only with
room for an attach of every listener in its snapshot, so a bound never cuts a loop
short (`Room`). In `poll_engine` two slots for `runOne` let two commands of one poll overlap at a limit of
one, and two polls share a group, sit in two, or follow each other under one ID. In `device`
each side can reconnect once or one side twice, which allows a close at each point
of a reconnect. In `pool`, four devices let both names be made, lost and made again, and a
fleet fail after its first router. `cache` has no bound but its keys: two devices on one path
for the scope of an invalidation, two paths on one device for its target. In `redis` the TTLs
are none, one and three, and an index gets one more (`Minute`): so a print can shorten the life of an
index below that of an entry in it, or leave it a life that an entry without TTL outlasts, and an
entry, an index and both can expire between any two requests. One print at a time is stored
between the requests of two invalidations; the second invalidation is what finds the damage of the
first. In `batch`, three
points overfill a buffer of two. In `words`, arrays grow from one to two to four words, so four
flags (`MaxFlags`) let an append hit a full array and one with room, before and after a listener
has a part of it; `MaxArrays` stops the making of arrays at five, and one pair or filter
(`MaxOthers`) is enough since the three classes use the same append. The quantities lie on, below
and above every unit. In `setup` the settings vary with one list of routers and the lists, flags
and addresses with one choice of settings, because no code relates the two. Deadlock checking is off everywhere: an application that makes
no further call, and a bound that is used up, stop the system legitimately.

Symmetry is used over callers, IDs and intervals, in runs without liveness only.

### Fairness

Weak fairness of each goroutine's next step: the Go scheduler runs every goroutine
that can run. Nothing obliges a caller to call, a router to answer a listener, or a
connection to break. In `PollEngine` the ticker fires for ever and every command ends,
by its timeout at the latest (`RunEnd`); a select whose context case and ticker case are
both ready picks at random, hence strong fairness of `GroupExit`. In
`DeviceLifecycle` a dial ends by its timeout or with the device's context, so that
`DialFail` is enabled, and due, once the device is closed. With ReconnectMaxElapsed
set (`GivesUp`) it may also end earlier. In `DevicePool` a dial ends likewise, and a waiting
writer gets the lock in the end (strong fairness of `Entry`), as sync.RWMutex promises. In
`BatchedWriter` every write ends and the ticker fires again and again; its select, too,
takes the case of the context some time when that stays ready. `Builder`, `Decode`, `Setup`, the
caches and `IDRegistry` state no fairness: nothing in them has to happen.

## The proofs

`StreamManager_proofs` proves, for any number of callers, IDs, listeners, attaches and
connections, and with the assumptions `ProcsAssumption`, `BoundsAssumption`,
`TimeoutAssumption` and `IDsAssumption` of `StreamManager` only:

| Theorem | Statement |
|---|---|
| `Invariance` | `Spec => []IInv` |
| `TypeCorrect` | `Spec => []TypeOK` |
| `FinishCallbackContract` | `Spec => []FinishedIsGone` |
| `StoppedAtMostOnce` | `Spec => []DetachedOnce` |
| `FinishIsPointerSafe` | `Spec => FinishRemovesOwn` |
| `ImplementsRegistry` | `Spec => RefinesRegistry`, that is, StreamManager implements IDRegistry |
| `RacesInvariance` | `Spec => []Races` |
| `HeldStreamIsRead` | `Spec => []OpenIsRead` |
| `DropKeepsListener` | `Spec => []DropKeepsEntry` |
| `ReattachLeavesNoneOut` | `Spec => []ReattachMissesNone` |

The inductive invariant `IInv` is `TypeOK /\ Wiring /\ FinishedIsGone /\ DetachedOnce`.
None of the three others is inductive alone. Type correctness needs to know that
consume never starts on a listener without a reply, because `AttachStore` stores the
reply before it starts the goroutine; that the roll-back deletes an ID that exists; that
an attach in progress has an attempt. `Wiring` says these: which pointers are set in
which control state, and that an entry is filed under the ID of its own struct. The
latter is what makes the pointer comparison in `finishListener` sufficient: if the entry
under `spec.ID` is not this struct, no other entry can be, so after `FinishDelete` the
listener is gone, and no action puts an old struct back into the map. The refinement
then maps `Register` to `Claim`, `Rollback`, `Unregister` and `FinishDelete` to
`Release` or a stutter, `CloseSweep` to `ReleaseAll`, and every other step to a
stutter. Each preservation lemma has one step per action.

`Races` is what holds of overlapping activities, and is inductive together with `IInv`; no discipline
of use is assumed. At most one connection is alive and it is `m.conn` (`OneConn`); only the supervisor
reattaches, and to that one (`Roles`). So a listener is attached to a connection at most once
(`Once`): by Register on the connection it has read, by ReattachAll on each later one. Hence two attaches of
one listener that race are for different connections, and of two replies that are stored in the wrong
order the one that stays is the older, which is the exception of `OpenIsRead`; in the right order
the older one is dead. `Attempted` says whose an attempt is until its goroutine starts. As long as a listener holds the reply that
a goroutine was started for, what the goroutine reads from `l.reply` is that reply (`EndSeen`), and so it
takes no drop for an end. For `ReattachMissesNone` it matters that filing an entry and reading `m.conn`,
and setting it and taking the snapshot, are one critical section each.

`CacheStore_proofs` proves, for any number of callers, devices and paths and any relation
`Extends`, from `CacheAssumption` only:

| Theorem | Statement |
|---|---|
| `Invariance` | `Spec => []IInv` |
| `TypeCorrect` | `Spec => []TypeOK` |
| `IndexesAgree` | `Spec => []IndexExact` |
| `InvalidationComplete` | `Spec => []FreshUnlessLate` |

Its invariant adds to these that the index of a path holds keys of this path only (`OwnPath`)
and that a caller about to store has a reply (`Fetched`). With `OwnPath`, the one path that
`keyPath` knows is the only index a key can be in, which is why `removeKeyLocked` leaves
nothing behind; with `IndexExact`, what an invalidation is meant to delete is in the index it
reads. `DeletedInv` proves both invalidations at once.

`PollEngine_proofs` proves, for any number of callers, IDs, intervals, polls, groups, commands and
connections, from `PollBounds` and `PollNames`:

| Theorem | Statement |
|---|---|
| `Invariance`, `TypeCorrect` | `Spec => []IInv`, `Spec => []TypeOK` |
| `IndexAndGroupsAgree` | `Spec => []IndexAgrees` |
| `OneTickerPerInterval` | `Spec => []OneTicker` |
| `CountersAreExact` | `Spec => []InFlightExact` |

`IndexAgrees` speaks of the moments when the lock is free; `Indexed` says what holds of it in
between: the one group that is filed and empty is the one whose goroutine the lock's holder waits
for. `Waiting` ties that holder to the group, so that the group dropped at the end of the wait has no
goroutine left, which is `OneTicker`. For the counters, cardinalities of the set of commands in
flight go up by one at `RunStart` and down by one at `RunEnd`, whether or not the poll is still
in a group.

| Theorem | Statement |
|---|---|
| `LimitOfTheCounted` | `Spec => LimitCountsTheCounted` |
| `ImplementsRegistry` | `Spec => RefinesRegistry`, that is, PollEngine implements IDRegistry |

For the limit, only `Spawn` adds to the commands of a poll (`OnlySpawnAdds`), and when all of them have
counted themselves in, they are as many as the counter that it tests, by `InFlightExact` (`CountedIsExact`).
That the code does not order the count of a command before the next test is the exception in the
property, and the theorem needs no other. For the registry, no poll outlives its group in `e.groups` (`Filed`),
so that the lookups of Register and Unregister lead to the one poll of an ID, wherever it is, and
Register claims an ID that is free. `Unregister` may wait for ever, as `poll_deadlock` shows; these are safety properties.

`DeviceLifecycle_proofs` proves, for any number of callers and connections, from
`SidesAssumption` and `DeviceAssumption`:

| Theorem | Statement |
|---|---|
| `Invariance`, `TypeCorrect` | `Spec => []IInv`, `Spec => []TypeOK` |
| `ConnsAreOwned` | `Spec => []EveryConnOwned` |
| `PartsFollow` | `Spec => []AttachedIsCurrent` |
| `NothingAfterWait` | `Spec => []WaitedIsQuiet` |
| `LossIsReported` | `Spec => []LossIsSeen` |

What is added is `Wired`: where a supervisor stands tells which connection it has dialled, and who
waits for the supervisors has seen the shutdown end.

`DevicePool_proofs` proves, for any number of callers, names and devices, from `PoolAssumption`:

| Theorem | Statement |
|---|---|
| `Invariance`, `TypeCorrect` | `Spec => []IInv`, `Spec => []TypeOK` |
| `NoConnIsLost` | `Spec => []ConnsOwned` |
| `SlowPathKeepsTheLiving` | `Spec => LiveIsKept` |
| `FleetIsAllOrNothing` | `Spec => AllOrNothing` |

Whoever is inside holds the lock alone (`Wired`), so that only one device is ever in the making. The
entry that a call is going to replace was found dead under the lock and cannot come back to
life (`Doomed`), hence what Register overwrites is dead. NewFleet is alone on its manager, has
overwritten nothing, and the names without a device are those it has still to do (`Fleet`); when
none is left all are there, and when it gives up, CloseAll empties a map that owns every open
connection.

`RedisCache_proofs` proves, for any number of callers, keys and devices, from `RedisAssumption`:

| Theorem | Statement |
|---|---|
| `TypeCorrect` | `Spec => []TypeOK` |
| `Invariance` | `Spec => []IInv` |
| `InvalidationReaches` | `Spec => []FreshUnlessOrphaned` |

The TTLs are any. An entry is an orphan, or is in the index of its path and the index lives at
least as long (`Indexed`): SetForPath renews the index for its own entry, and the other entries that
would now outlast it become orphans (`Exposed`). So an entry that is live and in no index is an orphan (`Lost`), and
whatever an invalidation in progress must delete is among the keys it has read or was lost
before (`Pending`); what it has missed when it returns was lost (`Missed`). `Timed` says that an entry that
is there has time left, and `OwnPath` that an index holds keys of its path only.

`BatchedWriter_proofs` proves, for any number of adders, closers and points and any capacity, from
`BatchAssumption`:

| Theorem | Statement |
|---|---|
| `Invariance`, `TypeCorrect` | `Spec => []IInv`, `Spec => []TypeOK` |
| `PointsAreConserved` | `Spec => []EveryPointOnce` |
| `FullBufferIsNoticed` | `Spec => []FullIsNoticed` |
| `CloseIsComplete` | `Spec => []CloseLeavesNothing` |

`Places` is `EveryPointOnce` written place by place. That a drain overwrites no batch is `BatchInWrite`;
that a closer drains only after the loop has gone, which does not come back, is `LoopFirst`.

`Sequential_proofs` proves two things that have no state in common. The first, for any routers, any
names of their variables and any environments, from `NamesAssumption`, `TextAssumption`,
`EnvironmentAssumption` and `NoneAssumption` of `Setup`:

| Theorem | Statement |
|---|---|
| `Invariant`, `TypeCorrect` | `Spec => []IInv`, `Spec => []TypeOK` |
| `SettingsAreDocumented` | `Spec => []DocumentedSettings` |
| `AllIsUpOrNothing` | `Spec => []UpOrNothing` |

The configuration is that of the environment (`Loaded`), the entries before `next` are those with
a device, and no two of them have one ID (`Progress`), and each device has the options of its entry (`Given`).

The second, for any builders, IDs, words and intervals, any quantities and any odd texts, from
`QuantitiesAssumption`, `OddTextsAssumption`, `WordsAssumption` and `IntervalsAssumption`:

| Theorem | Statement |
|---|---|
| `ReadInvariance`, `BuildInvariance` | `WordsSpec => []ReadInv`, `WordsSpec => []BuildInv` |
| `HitReadsLikeMiss` | `WordsSpec => []CachedReadsTheSame` |
| `QuantitiesReadBack` | `WordsSpec => []ReadsBack` |
| `SentencesAsAsked` | `WordsSpec => []WordsAsAsked` |

What these say is mostly about data: texts and sentences of any length, computed by recursion. The
theorems of the library about induction take an operator as a parameter, which the provers
cannot instantiate, so `Induction` states it for sets: a set of natural numbers that
has 0, and with each number the next, has them all. It follows from the well-foundedness of
the order (`NatLessThanWellFounded`), and `SeqInduction` from it for sequences. With these, a
recursive definition is shown to have the function it asks for (`DropsExist`, `SumsExist`),
and from there come the equations that are used (`DroppingAppend`, `DroppingConcat`, `TotalAppend`).

`HitReadsLikeMiss` rests on `ReadsSame`: what JSON does to a text changes no number and turns no
group into one with a unit, so every accessor takes the same branch (`SameGroup`). For `ReadsBack`, the
sum over the units of `UnitText` is the quantity again, the units that are left out being zero
(`TotalDropped`); a clock is the same sum with three weights or two (`ThreeParts`, `TwoParts`); and
a size with a half of a unit survives tenths that are rounded twice (`HalvesAre`).

`BuildInv` is the argument about aliasing. No two slices of builders share an array (`Apart`), and a spec that
shares one with a builder ends before the builder's slice does (`Behind`), so an append in place
writes only where no spec looks. `PrintStream` makes a new array for its flags, which is why
a stream builder may be used for several listeners. `Said` and `Asked` tie the contents to the calls.
The invariant is not type correctness with extras: without `Behind`, `Asked` is not kept by `Add`.

Only model-checked: liveness (`EndedLeavesMap`, `CallsReturn`, `PollsFollowReconnect`, `CloseReturns`,
`BufferDrains`), which is out of the reach of the prover, as is ENABLED.

## Not modelled

The logging adapter forwards records and has no state. The commands, examples and tests are
programs that use the library. Of the metrics, the reader, the handlers and the building of points
are calls into the InfluxDB library; of decode, Float and Time are calls into the Go library. What a
callback of the application does (Handler, OnFinish, OnStatusChange) is the application's; a
callback of OnStatusChange that calls the pool would meet the lock that `Close` is called under
(`src/device/device.go:92`). TCP, TLS and the protocol are the routeros client, an environment here.

## Plan

1. The composition of DeviceLifecycle with StreamManager and PollEngine, in which
   `streams.Close` inside `shutdown` meets a `ReattachAll` in progress: one reconnect, one
   listener, one poll, one closer, to keep it in TLC's reach.
2. An abstract cache that CacheStore and RedisCache both implement, up to their exceptions.
