# ZimaScope: TLA+ models, model checking and proofs

ZimaScope is a network observability daemon (`zimascoped`) with eBPF programs
(`zimascope-ebpf`) that count flows at the device boundary and enforce Traffic
Rules, an HTTP/SSE API over SQLite, and a web frontend. This directory holds
its formal models. Every definition is translated from the source; `map` in
`PROJECT.json` names the lines. Paths below are relative to the repository;
`policy/`, `collector/`, `api/`, `query/` and `main.rs` are under
`zimascoped/src/`.

## 1. The system

| Part | State | Operations | Talks to |
|---|---|---|---|
| Rule API (`api/mod.rs`, `api/db.rs`) | table `traffic_rules`, `rules_revision`, settings, `PolicyView`, the `PolicyHandle` | create, update, delete, list, resolve; `apply_policy`; settings; status | compiles with the resolver, sends commands to the worker |
| Compiler and diff (`policy/mod.rs`) | none (pure) | `compile`, `diff`, capacity checks | called under the API's lock; `diff` in the worker |
| Selector resolution (`query/`) | cgroup index, application table | `resolve`: selector to targets | `/sys/fs/cgroup`, SQLite |
| Collector worker (`collector/mod.rs`) | `applied_policy`, sequence, boundary, health, tracker | serve a command, tick, poll, stop | command channel (4), batch channel (4), kernel |
| Policy maps (`collector/aya.rs`, `zimascope-ebpf/src/maps.rs`) | eight match maps (64), `rule_states` (128), `policy_config` | `apply_policy_op`, counters, detach | read by every packet |
| Packet path (`zimascope-ebpf/src/policy.rs`, `tc.rs`, `owner.rs`) | token buckets, flow and owner maps, ring buffers | `evaluate`, `enforce`, `refill`, flow accounting, samples | the maps |
| Flow tracker (`collector/tracker.rs`) | previous totals, owners, pending services | merge, reconcile, record | flow map snapshots; updates go into the batch |
| Boundary and health (`collector/interfaces.rs`, `health.rs`) | attached links, open gaps, kernel counters | reconcile, gaps, deltas | netlink, `/sys/class/net` |
| Flow store (`api/db.rs`) | flows, rollups, domains, exports | `ingest`, retention, queries, exports | the batch |
| Live stream (`api/mod.rs`) | broadcast backlog | publish, subscribe, lag | SSE clients |
| Domain evidence, fingerprints, listeners, cgroup index | caches | parse, dedup, match, refresh | ring buffers, `/proc`, cgroupfs |
| Proxy, enrichment | last snapshot, GeoIP database | poll, look up | HTTP, files |
| `main.rs` | none | start servers, collector, apply rules, drain batches, stop | all of the above |
| Frontend, packaging, `xtask` | caches of API responses | | API |

Where it is hard: packets read the maps between any two map operations;
handlers lock, release, await and lock again, and may be dropped at an await;
the worker is one task between two bounded channels; a failed map operation
leaves the maps half way; a restart keeps the database and loses the kernel;
LRU maps forget flows; timers and cadences decide when evidence is refreshed.

What makes each part correct: *compiler and diff*: the operations lead from
one program exactly to the next, in an order under which packets never see a
third; *rule API*: bound on the table, no stale program over a newer one, a
status that tells what is enforced; *worker*: every request ends, no batch is
lost, a stop ends and detaches; *token bucket*: never more than rate and burst
allow, and no starvation by rounding; *tracker*: the deltas add up to what the
kernel counted, each flow ends once; *store*: rollups agree with the deltas
ingested, retention keeps them consistent; *health*: a gap is open exactly
while something cannot be observed; *live stream*: a subscriber that missed
events learns it.

`PROJECT.json` lists the hazards one by one at their lines, with the
properties that cover them or the reason why none does.

## 2. Modules

| Module | Models | How |
|---|---|---|
| `PolicyProgram` | `policy/mod.rs` | Pure operators: a compiled program, what each rule owns in the maps, `Diff` between two programs as a set of operations with the order `Precedes`. |
| `PolicyApply` | `CollectorCore::apply_policy`, `AyaKernelSource::apply_policy` | One action per map operation. `kmatch`, `kstate`, `kconfig` are the kernel maps; `applied` is `applied_policy`. A refused operation (absent key, full map) or a kernel fault aborts the rest. |
| `PolicyControl` | rule handlers, `ApiState::apply_policy`, `PolicyHandle`, `run_worker`, `main` | Extends `PolicyApply`. Each handler is a small process (`pc`) with one step per lock section or await; the channel is `queue`; `view` is `PolicyView`; `Drain` is `main` entering its loop. Also hang-ups, changing container evidence, crash and restart. |
| `CollectorWorker` | `run_worker`, the two channels, `main`'s startup, drain and stop | One action per step of the worker's loop and of `main`; commands are reduced to their senders (a settings change sends two), batches to sequence numbers. |
| `FlowTracker` | `tc.rs` `update_flow`/`record`, `CollectorCore::poll_once`, `FlowTracker::reconcile`/`observe`, `MonoClock` | Packets on one side (`FirstPacket`, `Packet` and `Stored`, `Evict`), the worker on the other (`BeginPoll`, `Visit`, `WalkEnds` or `WalkFails`, `Observe` per flow, `Retain`). `kernel` is the flow map, `previous` the tracker's, `walk` what the poll has read. |
| `FlowEvidence` | `owner.rs`, `udp.rs`, service samples of `tc.rs`, `listeners.rs`, `fingerprint.rs`, the evidence side of `tracker.rs` and `poll_once` | Sockets, packets, evictions and uploads on one side, a poll in four steps on the other: seed listeners, read flows, read samples, read owners and join. |
| `DomainEvidence` | `parse.rs`, `tc.rs` and `domain.rs` of the eBPF programs, `collector/domain.rs` | `Receive` takes a frame through the parser, the filters, the sample limit and the ring; `Poll` drains the ring, decodes, deduplicates and reports. |
| `TokenBucket` | `enforce`, `refill` (`policy.rs` of the eBPF programs), `UpsertState` in `AyaKernelSource::apply_policy_op` | One rule in one direction. Per CPU `Match` and then `Charge` (or `Missing`); the worker's operations one by one, with `UpsertState` split into `ReadState` and `StoreState`. |
| `Boundary` | `collector/interfaces.rs`, `health.rs`, attach and detach in `aya.rs`, `reconcile` and the settings path in `collector/mod.rs`, `api/mod.rs`, `main.rs` | The network (`Appear`, `Vanish`, `Rename`, `RouteLost`, `Displace`, `Drop`), the API (`Put`, `ReadSelectors`, `SendBoundary`, and `HangUp`, which drops a handler that awaits `apply_policy` or room for its command), the worker (`SetBoundary`, `Poll`, `PollReconciling`), start and restart. |
| `FlowStore` | the writing half of `api/db.rs` | One action per durable step of an ingest, each of which may fail or be the last of the process; clear, settings and restart between batches. |
| `FlowQueries` | the reading half of `api/db.rs` | Lists, connections, splits, details and timelines as operators over the rows and buckets; the overview page, its cache and exports as state. |
| `LiveFeed` | the promise of the stream (doc comment of `stream`) | Abstract: intervals one by one, announced gaps, snapshots that cover them. |
| `LiveStream` | `ingest_batch`, the broadcast channel, `stream` and its filters, and the page that merges ticks with lists | `StartIngest`, `Send`, `Subscribe`, `Serve`, `ReadPage` in the daemon; `ReceiveTick`, `ReceiveResync`, `PageArrives`, `Refresh`, `Lose`, `Reopen` in the page (external). |
| `*Proofs` | | theorems, see section 5 |
| `MC*` | | instances for TLC |

`PolicyControl` composes the handlers with the worker of `PolicyApply`, whose
variables it shares. `CollectorWorker` looks at the same worker from the side
of its channels and leaves out what a command does; `FlowTracker`, `FlowEvidence`,
`DomainEvidence` and `Boundary` each follow one part of what a poll does, and
share no variable but the order of the worker's steps. `FlowStore` takes what the
tracker reports, `FlowQueries` and `LiveStream` what the store holds. `LiveStream`
implements `LiveFeed` (`INSTANCE LiveFeed WITH`, property `FeedSpec`): published
intervals are those of the store, the reader's place is the last event the page
took in, and the snapshot shown is the list it read last.

Abstractions. A target is a model value with the kind of map that holds it; an
LPM entry, a comm and a cgroup id are all keys. The pair (rate, burst) is one
value: the API always sets burst to rate. `diff` builds a list; the model keeps
the set and the order, and leaves the order of entries inside one rule open,
since `compile_rule` takes it from the resolver. Counters and tokens of
`rule_states` are left out here. Errors are "failed", their text is dropped.
A direction dropped by an updated rule keeps its `rule_states` entry, as in the
code: only rules that are gone have their states removed.

In `FlowTracker` a value is what the CPUs' slots of an entry add up to, and a
packet is recorded in two steps: `Packet` stores some of the fields (`Partial`),
`Stored` the others, and the worker may read in between. One packet is being
recorded at a time, which takes an instant of the clock: neither the clock nor
a second poll passes it. An evicted entry takes the packet in flight with it.
The order and the restart of the walk are those of the kernel's hash map, seen
through aya's iterator, and are external. The clock has one instant per
packet, so stamps differ. Owners, services and addresses, which ride along, are
left out.

`TokenBucket` looks at one rule of `PolicyApply` more closely. A packet's lookup
of the rule state, its clock reading and its critical section are one step,
with a time of any moment since it matched: what a program does with a state
that is removed under its hands is left to the kernel. `matched` and `dropped`
stand for the packet and the byte counters. The clock counts in ticks, `Second`
of them a second, so that slow rates round as they do in nanoseconds.

`FlowStore` counts time in batches, a minute is one, and an hour `HourLen`. All
methods of `Db` hold one mutex, so only the steps that are durable by themselves
are separate. The key of a row stands for its addresses and ports; the Application is
not fixed by it: an update carries what the tracker has found for the flow, or none,
and keeps what it found as long as the flow is tracked. Where SQLite
leaves a choice (which of equally old rows capacity deletes), so does the model.

`FlowQueries` writes a batch with three outcomes (all of it, rows without
rollups, nothing) and leaves the steps to `FlowStore`. A read is one step under
the mutex, so its value is an operator of the store. A byte stands for bytes and
packets; a flow has a fixed pair of endpoints, Application, service and names.
An ingest costs two units of `MaxWork`, every other request one.

`LiveStream` follows one row: how often it moved, and its descriptive fields, of
which `Signature` is the part that `flow_detail_signature` looks at, a constant map.
When the daemon forgets a signature is left open: quiet updates, closures, a full map,
cleared history and new settings all do it. An interval is stored and broadcast in
one step, although `events.send` comes after the unlock: a page read in between has the
interval already, as one read right after the broadcast does, and no receiver can miss it.
The other rows of a list are handled alike and by themselves. A frame on the
wire carries what the handler's filter left of the event. The page is the
frontend's store and views, external to the daemon.

`Boundary` models kernels with TCX, where a link is checked by interface name
and a displaced program shows only there. Indexes grow and are never reused. A
configuration that names an interface twice is refused by `resolve_selectors`.

`FlowEvidence` keeps of a packet whether it has a payload and which. `/proc` is
the set `bound`, and the owner of a socket without process is `KernelTask`.
`DomainEvidence` writes a payload as a sequence of parts (a DNS header, question
or record, a TLS hello or extension, a request line or header); lengths count
parts, lengths of network headers words. Names are spellings that normalise to
a name or are refused.

History variables, which no action's guard reads: `tainted` (an apply failed,
or two rules owned one match entry), `stamp`, `installed`, `shown` (which
attempt to apply was compiled, applied and recorded last); in `FlowTracker` what
the environment counted (`counted`, and `born`, what had been counted of a flow
before its entry), what the updates add up to (`reported`, `shown`, `lastRead`)
and the map as the poll began (`before`, `complete`); in `TokenBucket` what has
happened since the parameters were stored (`top`, `opened`, `passed`, `mark`,
`refused`) and since the state was created (`charged`); in `FlowStore` what a
stream reader has (`sent`), what went wrong since the file was made (`slips`) and, in
a row, the last packet of an update that named its Application (`vouched`);
in `FlowQueries` the stores a page may describe (`recent`), the bytes given to the
rollups (`carried`) and exports that failed or were there at the start (`failed`,
`kept`); in `Boundary` the interfaces seen without a program (`report.missed`) and
whether the call that ended last was overtaken or dropped (`spent.astray`, `late`); `news` in `FlowEvidence`
and `heard` in `DomainEvidence`, what there was to know, and `arrived` in the latter,
the samples and refusals that the packets were, counted apart from the code's counters.

Bounds, each named in `CONSTANTS`: `PolicyControl` `MaxFaults`, `MaxRequests`,
`MaxBreaks` (crashes and hang-ups); `CollectorWorker` `MaxRequests`, `MaxHangups`,
`MaxStartupTicks`, `SeqBound`; `FlowTracker` `MaxTime`, `MaxPackets`,
`MaxEvictions`, `MaxFails`; `TokenBucket` `MaxTime`, `MaxPackets`, `MaxUpdates`,
`MaxMapFaults`; `FlowStore` `SightedAt` (the batches that may
carry an observation), `MaxClock`, `MaxTotal`, `MaxEvents`; `FlowQueries` `MaxTime`,
`MaxWork`, `MaxKept`; `LiveStream` `WireCap`, `MaxSeq`, `MaxBreaks`; `Boundary`
`MaxIndex`, `MaxPuts`, `MaxChanges`, `MaxFaults`, `MaxDrops`; `FlowEvidence`
`MaxEvents`; `DomainEvidence` `MaxFrames`, `MaxTime`.

## 3. Runs

| Run | Instance | What it shows |
|---|---|---|
| `policy` | a client and main, 3 ids, at most 2 rules, two targets in match maps of one entry each, 1 fault, 2 requests, 1 crash or hang-up | `ApplyExact`, `OldOrNew`, `MatchHasState`, `RemovalsFindTheirKey`, `SwitchGuards` of the worker, `StatusHonest`, `HandlersEnd` of the handlers that drive it. Two requests race each other and main's startup apply; a map of one entry is full after one. |
| `collector_worker` | 3 clients, channels of 1 and 2, 3 requests, 1 hang-up, sequence numbers modulo 4 | `NoBatchLost`, `StopsDetached`, `StopEnds`, `RequestsEnd`. Small channels fill at once, so every wait for room occurs; the sequence bound exceeds the batches in flight, so a lost or reordered batch shows. |
| `flow_tracker` | 2 flows, 3 packets, 5 instants, 1 eviction, 1 failed walk, idle timeout 1, retention 2 | `NeverOvercounts`, `PollIsComplete`, `ClosuresAreTrue`, `IdleIsQuiet`, `ReopensOnNews`. Three packets are enough to open a flow, end it and open it again; one eviction to recreate an entry between two readings, or to send the walk back to its start; the clock runs past the retention. Entries may be read half stored in two ways: the counters without the stamp and flags, and the other way round. |
| `token_bucket` | 2 CPUs, a block and two limits, 4 packets of lengths 1 and 3, 5 instants, a second of 4 ticks, 2 changes, 1 fault | `LimitHolds`, `HalfTheRate`. Rates of 1 and 3 in 4 ticks gain nothing in one tick, so the rounding bites; a block changed to a limit starts empty, and four packets meet it so on every tick after; two successful changes cover every pair of parameters, with a failed one before, between or after them. |
| `flow_store` | 2 flows to one address, updates with and without the one Application, one name, observed in the second batch, capacity 1, retention 1, 4 instants, 1 disturbance | `AggregatesAreExact` (trigger counters and mirrors, rates, rollups), `RecordsAreKept`, `PatchesApply`, `NoLateAssociation`. Capacity 1 deletes a row as soon as the second flow comes; the clock passes minute and row retention and the life of an observation; the first batch has no name to use, the second puts it on new rows and old ones, the third finds it expired. |
| `flow_queries` | both directions of a connection and another flow, 4 instants, 3 units of work, an empty and a full table left by an earlier process | `ListsAddUp`, `TimelineIsWhole`, `OverviewIsCurrent`, `ExportsRecover`. The flows share a name and differ in Application, service and direction, so that every grouping splits and joins them; ranges of one and two buckets begin inside a bucket and outlive it. |
| `live_stream` | 3 details of 2 signatures, one of them the row's at the start, 2 filters, backlog 1, wire 1, 2 intervals, 2 breaks | `CountersCurrent`, `DetailsFollow`, `FeedSpec`, `Repaired`. A backlog of 1 lags after two intervals; two breaks lose a connection and reopen it. Two details share a signature, so that a patch meets details it does not carry; what the row had before the first interval is in no tick. |
| `boundary` | an uplink and a container bridge, 3 indexes, 2 changes, 1 put, 1 fault, 1 drop | `HooksAreOwned`, `LossIsReported`, `BoundaryFollows`, `DropsKept`, `AttachRetried`. The third index recreates an interface; two changes remove and bring back, or rename onto another's name. The fault may also be a client that hangs up. |
| `flow_evidence` | a connection and a UDP exchange, one process and the kernel's task, rings, stash and owner caches of 1, 3 events | `EvidenceIsUsed`, `IdentityIsKept`. A second owner overflows a cache, which is then dropped whole. Gaps of 1 and 4 ticks fall on both sides of the seed interval and the retentions. |
| `domain_evidence` | 11 frames, sample of 6 parts, ring of 2, 3 frames, 5 instants | `NothingIsLost`, `ReportedOnce`. The frames are one per outcome of the parsers; short and long lives, and two interfaces, meet in the deduplication; three samples between two polls overflow the ring, and a loss that no counter shows breaks the equalities. |
| `never_more` | violation | see findings |
| `startup_deadlock` | violation, the code's capacities 4 and 4 | see findings |

TLC's deadlock check is on for `live_stream`, where a page may always ask again.
It is off for the others: requests, faults and packets are bounded and the
daemon stops, so behaviours end. What must not stop is stated as liveness.

`StatusHonest` speaks of *settled* states: nothing is in progress, and the last
program compiled is the one applied and the one recorded. Overtaking and
hung-up clients make a system that is quiet and not settled; what goes wrong
there is in section 6. `StopEnds` is conditioned on `main` having reached the
stop, `RequestsEnd` on `main` draining batches: the startup deadlock is reachable
in that run too and is stated on its own. `BoundaryFollows` excludes the states
after a call that was overtaken between its read and its command or dropped with its
client, until another call ends; `EvidenceIsUsed`
starts from samples that were recognised and, of what `/proc` shows, from
listeners no overflow has dropped since the seed, `DropsKept` allows a drop to be counted
twice after a failed read; section 6 says why.

Every property of a passing run has a mutant of the code's model that breaks
it; the mutated forms stand beside the definitions, marked `Variant`.

## 4. Fairness

The worker is one tokio task on a multi-threaded runtime (`main.rs:35`): weak
fairness of its steps taken together. `CollectorWorker` has the batch channel, in
which the worker waits for room after every command (`collector/mod.rs:276`).
`PolicyControl` has not: there the worker is fair only while `Draining`, that is
once main has come out of its startup apply and of the boundary refresh that
follows it (`main.rs:161-168`) and takes batches. Nothing makes it come out: that
it may not is the finding of `startup_deadlock`, and `HandlersEnd` promises an end to
requests that see main drain, and nothing to main. Each handler is a task: weak fairness of
its steps. `tokio::sync::mpsc` hands room in a full channel to waiters in FIFO
order, so a waiting sender is not overtaken for ever: strong fairness of
`Send`. `main` is a task, too (`MainStep`), and a dropped sender is noticed
(`Dropped`). Nothing is assumed of clients, signals, kernel faults, evidence, or
the opening of the eBPF objects. A stop that comes while `main` is still starting
is not a stop to the program: `ctrl_c` is first awaited in the drain loop
(`main.rs:174`), and before that SIGINT kills the process, a crash.

`Boundary` assumes weak fairness of `Retry`, a reconciling poll while something
is left to attach: the timer keeps firing and every `reconcile_interval` a poll
reconciles; faults are bounded, so that an attachment that is tried for ever
succeeds. `LiveStream` assumes weak fairness of what the daemon's runtime does
for a connection (`Serve`, `ReadPage`, `Subscribe`) and of what a browser does
with what has arrived (`ReceiveTick`, `ReceiveResync`, `PageArrives`); nothing of
lost connections, changed filters or intervals.

## 5. Proofs

TLAPS proves, for every set of rules, targets, programs, capacities and every
number of clients, requests, breaks and faults:

- `PolicyProofs`, about `PolicyApply`: `ApplyTypes`, `MapsAreExact`, `NoForeignRule`,
  `NoMissingState`, `RemovalsSucceed`, `SwitchInOrder`. They rest on
  `ApplyInvariant`. The properties are not inductive: while an apply runs, what
  a map holds depends on which operations are left. The invariant says that an
  entry (a state) whose operation is still in `todo` has its old value, that one
  whose operation is done has its new value, that one without operation is the
  same in both programs, and that what is in `todo` is closed upwards under
  `Precedes`. From the last follows, rule by rule, that a state is there before the
  entries that refer to it and after they have gone.
- `PolicyProofs`, about `PolicyControl`: `ControlTypes`, and that the worker's
  invariant, hence `ApplyExact` and `OldOrNew`, is kept when handlers, the
  channel, hang-ups and crashes drive it: every program that reaches the worker
  is one a handler compiled, and every step of the composition is a step of the
  worker, a reset or leaves it alone. `StatusIsHonest` rests on two more
  invariants (`StatusInvariant`). `Addressed`: a command names the handler that
  waits for its answer, and no two name the same. `StatusInv`: attempts to apply
  are numbered as they are compiled; what carries the latest number, a
  handler, the queue, the worker, the maps or the view, carries the same program
  (`Same`); and that program agrees with the rules, the evidence and the switch as
  they are stored (`Agrees`) unless a handler has yet to compile. So if the
  latest attempt is both applied and recorded, the states shown, which are
  computed from the stored rules, are those of the maps; `ApplyExact` gives the
  rest.
- `FlowTrackerProofs`: `FlowTypes`, `FlowNeverOvercounts`, `FlowOpenIsTracked`,
  `FlowEvictedIsGone`, `FlowClosuresAreTrue`, `FlowReopensOnNews`, for any number of flows, packets,
  evictions and failed walks and any way to store a value in parts. They rest on
  `FlowInvariant`. What was last taken in of a flow, what the walk holds of it and
  what the map holds now are in the order they were written (`Precedes`): either
  all counters only grew (`Grows`), or the later one is of a newer entry
  (`Replaced`), and then starts from no less than the older one ever reached
  (`born`). So whichever way `observe` decides, whether the entry was recreated
  or not, the delta is at most the difference of what had been counted at the two
  readings (`DeltaIsBounded`). For `EvictedIsGone` the invariant says that every
  known entry still in the map is behind the cursor's walk or ahead of it, also
  when the walk starts again. `FlowPollIsComplete` and `FlowIdleIsQuiet` rest on
  `FlowPollInvariant`, about the poll beside the packets: a reading with the newest
  stamp of its entry lacks at most the packet that is being recorded (`LagInv`);
  what the map held as the poll began comes before all the poll reads of the same
  entry (`BeforeInv`); an entry that stands since then is ahead of the cursor, in the
  walk or taken in (`TakeInv`); until something is evicted every reading is of the
  first entry of its flow (`ExactInv`); and ages are taken with a clock that has its
  anchor (`OffsetInv`). `PollIsComplete` allows an ended flow to lack one packet: it
  is the one `LagInv` allows.
- `PolicyProofs`, about `TokenBucket`: `BucketTypes`, `BucketLimitHolds`, `BucketHalfTheRate`, for
  any rates, lengths, CPUs and updates, and `RefillFits` for the constants of the
  code. They rest on `BucketInvariant`: bytes passed plus tokens left stay
  within a full bucket and what the rate gives (`Within`), where the time before
  the parameters were stored counts at most a byte once something has passed; and
  since a refill gains at least a byte and rounds off less than one, at least
  half of what the rate gave is in the bucket (`Earning`). An update may give
  back the tokens spent between its lookup and its insert; both bounds speak of
  the time since.
- `LiveStreamProofs`: `StreamIsChained` and `StreamImplementsFeed`, the refinement
  of `LiveFeed` for any details, filters, backlog and number of breaks. The
  invariant says that the frames on the wire continue one another from what the
  page has taken in (`FramesFollow`), that the receiver in the backlog stands where
  the last of them ends (`ReceiverFollows`), and that while a snapshot is owed a
  request for it is on its way (`Repairing`). Then each frame the page takes is
  the next interval or announces the gap before it, whatever was lost.
  `StreamCountersAreCurrent` and `StreamDetailsFollow` rest on
  `StreamShowsWhatItHeard`: the counter of the row never falls over the
  intervals, a patch follows only a signature that was sent (`History`); after the
  first interval of a connection every ingest knows of a subscriber
  (`Listening`); a list under way is the row of one interval (`Snapshot`); and the row
  shown is no newer than the snapshot or the last tick, and no older than what was
  heard (`RowKept`). While the ticks catch up with the snapshot the row may still
  have its details, afterwards they have the signature last sent unless the filter
  hides it (`DetailsKept`); `DetailsFollow` alone is not inductive, since the page drops
  a patch of details it has yet to be sent.
- `CollectorWorkerProofs`: `WorkerTypeOK`, `WorkerNoBatchLost`,
  `WorkerStopsDetached`, for any clients, capacities and bounds. `NoBatchLost` is
  about numbers that wrap; four lemmas on the remainder (`ModRange` to `ModPlus`)
  carry it past the bound. The invariant relates where `main`, the worker and
  each client stand (`Together`, `Requests`): hooks are attached only while the
  worker runs, and a command in the queue or in the worker's hand has one client
  waiting for it or none.
- `FlowQueriesProofs`: `QueriesExportsRecover`, `QueriesOverviewIsCurrent`,
  `QueriesTimelineIsWhole` and `QueriesListsAddUp`. The
  exports stored with an id the counter has yet to reach, and the creations that
  have failed, are together no more than the exports there were at the start;
  each failure moves the counter past one of them. A page of the overview cache
  that is still young describes a store of the moment it was made in, and
  whatever makes that store old drops all pages with it (`PagesInvariant`). What a
  page is made of plays no part in it. `TimelineInvariant` says that a bucket which
  retention must still keep holds the bytes of exactly the times it covers
  (`BucketsAreExact`); a timeline begins no earlier than what is kept
  (`Keep >= Span + Step`, true of the code's constants), and its buckets part the
  times since its first point. `ListsAddUp` is a fact of every store of well-formed
  tables, by its five parts: the groups of a list are disjoint and their sums
  add up (`SumByParts`, `GroupedWhole`), a split cut off keeps the first of a total
  order, shows less than the whole only when it says so (`BiggestLaws`,
  `SplitAddsUp`), and a filter on state or service takes a connection whole, under
  one state and at most one service (`ConnectionsSame`). Names are integers in the model, for `Biggest`
  orders by bytes and then by name, as `ORDER BY` does; `None` is not among them.
- `FlowStoreProofs`: `CountersAreKept`, `PatchesAlwaysApply`,
  `AggregatesAreAlwaysExact`, `RecordsAreAlwaysKept`, `NoNameIsLate`, for any flows,
  addresses, names, settings, batches, faults and bounds. The properties
  speak of sums, which the community modules define by recursion over a finite set.
  The library's induction takes an operator, so the module does without: of a set of
  counterexamples the smallest member is chosen (`SmallestSubset`), and gives
  the laws of a sum (`SumOfLaws`, `SumUnion`, `SumAtMost`, `SumParts`); also that the
  recursion has one value at all (`SumsExist`, `AddsUnique`). One lemma for each
  operator of the store then says what it leaves in each table (`WriteRowsIs`,
  `PolicyIs`, `ClearedIs`, `AddBucketsIs`), and one for each action which of them
  ran. The counters are kept by every statement on its own (`PutRowsMirrors`,
  `DropRowsMirrors`), so nothing depends on where a cleanup stops.
  `AggregatesInv`: no event is out while a batch is in work, so the rates it
  carried are still the table's (`TickIsIdle`); every hour covers its minutes, also
  while the cleanup drops minutes and hours in different statements
  (`HoursCover`, which needs that minutes age first); and the traffic of an hour that
  has not aged is the sum of its endpoints (`HoursAreWhole`: an aged hour may lose
  one before the other). `PatchesApply` follows from one fact about `Db`: the details it
  remembers are those that readers have (`DetailsWereSent`). For
  `RowsAreBacked` the invariant is a ledger: for each flow the larger of what the
  tracker and the row say, summed over an address, is at most what its hours
  hold and what the batch in work has yet to add (`LedgerIsBacked`). A batch
  raises both sides by its deltas, a rollup moves them from the batch to
  the hours, since without a slip all that moved was read back (`MovesWereRead`),
  and a restart or a cleanup only lowers the left. `AppsAreKept` is inductive: an update
that names an Application raises its record at least to its own packet, and retention
deletes a record only when all the packets it stands for are older. `NoLateAssociation` holds step by
  step from what `Associate` returns.
- `BoundaryProofs`: `BoundaryHooksAreOwned`, `BoundaryLossIsReported`,
  `BoundaryIsFollowed`, `BoundaryDropsKept`, for any interfaces with any facts and
  metrics, any choices of the clients and any number of changes, faults and
  drops. Whatever `reconcile` is asked and whatever fails in it, the entries it
  leaves own the programs that run (`ReconcileOwns`), provided they did before; that
  is all of `HooksAreOwned`. A batch says "running" only if no interface is degraded and the
  observation found both programs on each (`ObservedTellsLoss`). For
  `BoundaryFollows` the invariant looks at where the worker will be once it has
  served what was sent (`Target`): that is the boundary of the settings, or a call
  is under way that has yet to read them or read what they still hold (`Current`), or
  the last call to end went astray.
  The total of drops is no less than what was last read, and that no more than
  the kernel has counted (`Counted`).
- `EvidenceProofs`, about `FlowEvidence`: `FlowEvidenceIsUsed`, `FlowIdentityIsKept`, for
  any flows, owners, payloads, libraries, gaps and capacities. A poll folds each drained
  ring into a cache. The library's facts on folds take an operator, so the module
  states, once for each operator that is folded, that what `FoldLeft` gives is the
  last of a chain of states (`TakenExists`, `FoldIs`), and an invariant of the links
  holds of the last. `World` says where ports, events and samples come from; `Caches`
  that a listener `/proc` showed is cached no older than the last seed until
  an overflow drops it; `Flows` that the name of a recognised sample is in the
  stash or known (`NamedBy`), that owners the poll has read let `reconcile` find one for
  their flows (`Findable`), and that a flow is still known by what was told of it.
  What `reconcile` does to a flow is read off once (`ReconcileIs`, `ReconcileTells`).
  The attempt to prove `EvidenceIsUsed`
  without the overflow failed for a good reason: a full listener cache forgets what
  only `/proc` knew (section 6).
- `EvidenceProofs`, about `DomainEvidence`: `DomainNothingIsLost`, `DomainReportedOnce`, for
  any frames, lives and bounds. A poll is a fold of folds: of the ring over the
  samples, and of a sample over what its parts say. What the decoder remembers is
  backed by a report (`Backed`), every report whose life lasts is remembered
  (`Remembered`), and both hold of each link of the inner chain (`PushKeeps`), hence of
  a sample (`DecodeKeeps`) and of a ring (`RingDecoded`). What a drained sample said
  has a report (`Covered`), and the samples the packets held are exactly those
  drained, in the ring or counted as dropped (`Counted`).

Assumptions: the named ASSUMEs of the modules; that rule ids are natural
numbers and finitely many, that markers such as `None` are not rules, details,
clients or numbers,
that a patch of a rule is a rule, that a limit's burst is at most one second of its rate (the API sets it
to that), that header lengths and TTLs on the wire are natural numbers and payloads
sequences, and that capacities and bounds are natural numbers.

Every safety invariant and every action property of a passing run is a theorem
here. Only model-checked are the liveness properties (`HandlersEnd`, `StopEnds`,
`RequestsEnd`, `Repaired`, `AttachRetried`): fairness and ENABLED are out of the
provers' reach.

## 6. Findings

With a run:

- `never_more`: two rules on one selector share a match entry. Once one removes
  it, the other's removal fails with ENOENT, and so does every later apply.
  What is still in the maps stays enforced although no rule asks for it,
  against `docs/design/traffic-rules.md:276-278`.
- `startup_deadlock`: `main` waits for command replies before it drains the
  batches the worker blocks on (`main.rs:161-168`).

The models show more disagreements between code and documents, and behaviour a
reader of the properties should know of; they are in the models as the code has
them, and the properties are stated so that they hold beside them.

*Rules, tracker, bucket.* An older program may be applied after a newer one
(`api/mod.rs:184-213`), against the revision monotonicity of
`traffic-rules.md:389`. A compile error leaves `apply_policy` before it is recorded
(`api/mod.rs:203`), against `traffic-rules.md:297`. Selectors are resolved only when
a rule or setting changes, against the refresh of `traffic-rules.md:257`. A value
read with the FIN of a packet and without its count closes the flow, and the
packet stays uncounted until there is more traffic (`collector/tracker.rs:280`).
`UpsertState` undoes what was counted between its lookup and its insert
(`collector/aya.rs:538`).

*Store and queries.* Retention keeps rows that an earlier process left active.
With history off an ingest still writes, against `PRD.md:365`; after a cleared
history the next batch brings open flows back (`PRD.md:366`); a failed ingest
sends a tick without rates where `PRD.md:315` wants the live view to go on. The
overview may be two seconds old after a quiet batch whose retention deleted
rows. The tie-breaking of connections does not name all of their key, against the
"tie-breaking in every sort order" of `api/mod.rs:11-12`. A range, Application or destination
filter can drop one direction of a connection from its totals. A service that is
shown from domain evidence is not found by the service filter. Expired exports
are refused and never deleted; ids start at `exp-1` in every process, so
creation fails until the counter has passed the ids that are stored.
The Application list passes `association_filters = false` to `flow_clauses`
(`api/db.rs:1715`), which the comment there reserves for "domain queries, which
evaluate `domain`, `evidence` and `confidence` on the joined association"
(`db.rs:3496-3497`), and evaluates none of them: asked for a domain,
`/v1/applications` lists every Application, where flows, endpoints and domains
answer for the domain. `ListsAddUp` compares it with the question it answers.

Retention may delete an Application that a fresh row names: an update without an
Application (after a restart, or when the owner's record has been purged) advances
`flows.last_seen_ms` and keeps `app_id` by `COALESCE` (`db.rs:3823-3827`), and
`applications.last_seen_ms`, by which the cleanup goes (`db.rs:1379`), stays. The row is
then shown with the Application's id, without its name, and as a process.
`AppsAreKept` is about the packets of updates that named the Application.

*Live stream.* `FlowPatchDto` is for flows "whose descriptive fields did not change
this interval" (`api/dto.rs:976-978`), but `flow_detail_signature`
(`api/db.rs:4445-4470`) leaves out `remote_profile`, `interface` and the name of the
Application. A patch hides a change of these until the list is read again; and under a
`q` filter, which looks at interface and name (`dto.rs:1223`), a change of the signature
that the filter hid may be patched afterwards. `DetailsFollow` is about
signatures and filters that respect them. A filtered tick carries the summaries of endpoints, domains and
Applications of its full records only, not of those it patches
(`api/db.rs:511-545`), where `api/db.rs:470-473` speaks of all that were touched.
Details that change and change back while a page reads its list may leave it
with those in between. A page that subscribes
while an ingest is under way gets zeros for the counters; a connection lost
before its first tick resumes without a resync; a list read before the
subscription may miss the intervals between.

*Boundary.* A gap opened for an interface that leaves the boundary is never
closed (`collector/health.rs:60`), and a renamed interface is looked for under its
old name: both stay degraded. A displaced TCX program is reported, not attached
again. A settings write may be stored while memory keeps the old one; a refresh
may be overtaken by another (`api/mod.rs:270`). A client that hangs up while `put_settings` or `patch_settings` awaits
`apply_policy` (`api/mod.rs:864-878`) takes the rest of its handler with it: the settings
are stored and the worker is never told, until another change or a restart, against
`collector/mod.rs:201-202`. `BoundaryFollows` excludes this state and the overtaken
refresh, and no other. A failed read of the counters
reports the last difference again (`collector/mod.rs:512`).

*Evidence.* A TLS record longer than the sample yields no name (`domain.rs:226` of
the eBPF programs). The walk over DNS answers reads at most eight records and counts only the
address records it emits against the number the header announces, so that it may
read on into the next section (`domain.rs:78-84`); a repeated answer with a longer life is not reported
until the first expires. The ring buffer's loss of a service sample costs the
flow its service name; `pending_services` is never purged, and a full one forgets
services recognised before their flow. A listener or socket cache that passes
65,536 entries is dropped whole (`collector/tracker.rs:426-431`), so that until
the next seed a new flow on a port that only `/proc` shows gets no Application. The kernel's UDP owner lookup has no
listener fallback, where `traffic-rules.md:194-199` says "exactly as the
user-space join does". A reused tuple keeps its Application and service while
the tracker knows the flow.

## 7. Not modelled

Proxy polling and IP enrichment: I/O and lookups whose results are columns of a
row. The lowering of selectors to SQL, DTOs, the text of CSV and JSON: pure
translations. Paging and sort order, country, ASN and interface rollups: the
same statements once more over other columns. Schema migrations. IPv6 extension
headers and fragments, kernels without TCX (clsact). The file of the
fingerprint library. The frontend apart from what `LiveStream` needs of it, packaging. The
panic of a task. Up to `BatchCapacity + 1` batches are lost at a stop, by
design of the stop (`NoBatchLost` ends with the worker).

## 8. Plan

Done: 1 `PolicyProgram`, `PolicyApply`, proofs; 2 `PolicyControl`, proofs;
3 `CollectorWorker`, proofs; 4 `FlowTracker`, proofs; 5 `TokenBucket`, proofs;
6 `FlowStore`, proofs, `FlowQueries`, proofs; 7 `Boundary`, proofs;
8 `LiveFeed`, `LiveStream`, proof of the refinement and of what a page shows;
9 `FlowEvidence`, `DomainEvidence`, proofs.

Next, in this order:

10. Abstract specifications: a switch of programs that `PolicyApply` implements,
    a ledger per flow that `FlowTracker` implements.
11. Paging and sort order of the lists under changing rows.
