------------------------------ MODULE FlowEvidence ------------------------------
(***************************************************************************)
(* What the worker learns about a flow besides its counters: the           *)
(* application that owns its socket and the service its first payload      *)
(* shows.                                                                  *)
(*                                                                         *)
(* Socket hooks write the owners of connections and listeners into kernel  *)
(* maps (owner.rs, udp.rs), the tc programs sample one payload of each     *)
(* flow (tc.rs).  A poll seeds listeners from /proc (listeners.rs), reads  *)
(* flows, samples and owners in this order, and joins them in the tracker  *)
(* (collector/mod.rs poll_once, tracker.rs), with sockets, packets,        *)
(* evictions and library uploads (fingerprint.rs) in between.              *)
(***************************************************************************)
EXTENDS Integers, Sequences, FiniteSets, SequencesExt, FiniteSetsExt, Functions

CONSTANTS
  Flow,          \* flow keys, and for each:
  Protocol,      \*   "tcp" or "udp"
  Port,          \*   its local port
  Remote,        \*   its remote address and port
  App,           \* processes
  KernelTask,    \* the owner of sockets that no process has (tgid 0)
  Payload,       \* what a first payload may be
  Silent,        \* a packet without payload
  Document,      \* fingerprint documents that clients upload
  Default,       \* the built-in one
  None,
  RingRoom,      \* samples the ring buffer holds
  StashRoom,     \* capacity of pending_services
  OwnerRoom,     \* OWNER_CACHE_CAPACITY
  MaxRules, MaxPredicates,
  Idle, Retention, EndedRetention, SeedInterval,    \* in ticks
  Gaps,          \* ticks that pass between two polls
  MaxEvents      \* bound: events around the worker

ASSUME FlowEvidenceAssumption ==
  /\ Protocol \in [Flow -> {"tcp", "udp"}] /\ None \notin App /\ KernelTask \notin App
  /\ Gaps \subseteq Nat \ {0} /\ {Idle, Retention, EndedRetention, SeedInterval} \subseteq Nat
  /\ SeedInterval < Retention /\ Idle <= Retention     \* max(2 * idle, 30 s) and 20 s

VARIABLES
  sockets,    \* OWNER_MAP: key -> process
  listens,    \* LISTENER_MAP: key -> process
  bound,      \* /proc: listener key -> process
  entries,    \* FLOW_MAP, of each entry: sampled, fin, packets since the last poll
  ring,       \* SERVICE_EVENTS
  library,    \* the fingerprint library in force
  owners, listeners,   \* the tracker's caches: key -> process and age
  known,      \* previous: of each flow its service, application, state and age
  pending,    \* pending_services
  poll,       \* where the worker stands and what it has read
  seeded,     \* ticks since the last seed
  told,       \* the last update of every flow
  news,       \* history: what the last whole poll had to go on
  events      \* bound

kernel == <<sockets, listens, bound, entries, ring>>
tracker == <<owners, listeners, known, pending, seeded, told>>
vars == <<kernel, tracker, library, poll, news, events>>

\* What is written over what was there.
Over(new, old) ==
  [k \in DOMAIN new \cup DOMAIN old |-> IF k \in DOMAIN new THEN new[k] ELSE old[k]]
Put(f, k, v) == Over([x \in {k} |-> v], f)
Without(f, ks) == [k \in DOMAIN f \ ks |-> f[k]]
Only(f, Test(_)) == LET ks == {k \in DOMAIN f : Test(f[k])} IN [k \in ks |-> f[k]]

SocketKey(f) == <<Protocol[f], "socket", Port[f], Remote[f]>>
RemoteKey(f) == <<"udp", "socket", 0, Remote[f]>>
ListenerKey(f) == <<Protocol[f], "listener", Port[f], None>>
Keys(f) == {SocketKey(f), ListenerKey(f)} \cup (IF Protocol[f] = "udp" THEN {RemoteKey(f)} ELSE {})

Event == events < MaxEvents /\ events' = events + 1

------------------------------------------------------------------------------
\* Sockets: owner.rs, udp.rs, and binds that no hook sees.

Connect(f, app) ==
  /\ Event /\ Protocol[f] = "tcp"
  /\ sockets' = Put(sockets, SocketKey(f), app)
  /\ UNCHANGED <<listens, bound, entries, ring, tracker, library, poll, news>>

SendTo(f, app) ==
  /\ Event /\ Protocol[f] = "udp"
  /\ sockets' = Put(sockets, RemoteKey(f), app)
  /\ UNCHANGED <<listens, bound, entries, ring, tracker, library, poll, news>>

Listen(f, app) ==
  /\ Event /\ ListenerKey(f) \notin DOMAIN bound
  /\ bound' = Put(bound, ListenerKey(f), app)
  /\ listens' = IF Protocol[f] = "tcp" THEN Put(listens, ListenerKey(f), app) ELSE listens
  /\ UNCHANGED <<sockets, entries, ring, tracker, library, poll, news>>

Unbind(k) ==
  /\ Event /\ bound' = Without(bound, {k})
  /\ news' = [news EXCEPT !.bound = @ \ {k}]
  /\ UNCHANGED <<sockets, listens, entries, ring, tracker, library, poll>>

\* The maps are LRU: an entry may be evicted at any time.
LoseOwner(k) ==
  /\ Event /\ sockets' = Without(sockets, {k}) /\ listens' = Without(listens, {k})
  /\ UNCHANGED <<bound, entries, ring, tracker, library, poll, news>>

------------------------------------------------------------------------------
\* tc.rs update_flow and sample_service.  A new entry may find no room in the
\* map, after its sample has been taken.

Entry(f) == IF f \in DOMAIN entries THEN entries[f] ELSE [sampled |-> FALSE, fin |-> FALSE]
Samples(f, payload) == payload # Silent /\ ~Entry(f).sampled

Packet(f, payload, fin, fits) ==
  LET entry == [sampled |-> Entry(f).sampled \/ payload # Silent,
                fin |-> Entry(f).fin \/ fin, fresh |-> TRUE]
  IN /\ Event
     /\ fits \/ f \notin DOMAIN entries
     /\ ring' = IF Samples(f, payload) /\ Len(ring) < RingRoom
                  THEN Append(ring, [flow |-> f, payload |-> payload]) ELSE ring
     /\ entries' = IF fits THEN Put(entries, f, entry) ELSE entries
     /\ UNCHANGED <<sockets, listens, bound, tracker, library, poll, news>>

Evict(f) ==
  /\ Event /\ entries' = Without(entries, {f})
  /\ UNCHANGED <<sockets, listens, bound, ring, tracker, library, poll, news>>

------------------------------------------------------------------------------
\* fingerprint.rs, and put_fingerprints and reset_fingerprints of the API.  A
\* rule has a service name and predicates, each the payloads it accepts.

ValidRule(rule) == rule.service # "" /\ Cardinality(rule.predicates) \in 1..MaxPredicates
Valid(document) ==
  Len(document) \in 1..MaxRules /\ \A i \in DOMAIN document : ValidRule(document[i])

Accepts(predicate, payload) == payload \in predicate
Matches(rule, payload) == \A p \in rule.predicates : Accepts(p, payload)
Classify(document, payload) ==
  LET i == SelectInSeq(document, LAMBDA rule : Matches(rule, payload))
  IN IF i = 0 THEN None ELSE document[i].service

PutLibrary(document) ==
  /\ Event /\ Valid(document) /\ library' = document
  /\ UNCHANGED <<kernel, tracker, poll, news>>

ResetLibrary ==
  /\ Event /\ library' = Default /\ UNCHANGED <<kernel, tracker, poll, news>>

------------------------------------------------------------------------------
\* tracker.rs

\* Variant: a record keeps the time it was first made.
RecordOnce(cache, seen) ==
  Over(cache, [k \in {k \in DOMAIN seen : seen[k] # KernelTask} |-> [app |-> seen[k], age |-> 0]])

\* record_owner: sockets without a process are passed over.
Record(cache, seen) ==
  Over([k \in {k \in DOMAIN seen : seen[k] # KernelTask} |-> [app |-> seen[k], age |-> 0]], cache)

\* resolve_application: the connection, for UDP the remote, then the local port.
Resolve(f) ==
  CASE SocketKey(f) \in DOMAIN owners -> owners[SocketKey(f)].app
    [] SocketKey(f) \notin DOMAIN owners /\ Protocol[f] = "udp" /\ RemoteKey(f) \in DOMAIN owners ->
         owners[RemoteKey(f)].app
    [] OTHER -> IF ListenerKey(f) \in DOMAIN listeners THEN listeners[ListenerKey(f)].app ELSE None

\* listeners.rs seed: every port that /proc shows bound, with its process.
Seeded(cache) == Record(cache, bound)

\* Variant: the owner is looked up at every poll.
OwnerAnew(f, application) == Resolve(f)

\* An owner found once stays with the flow.
Owner(f, application) == IF application = None THEN Resolve(f) ELSE application

StashTakes(stash) == Cardinality(DOMAIN stash) < StashRoom

\* set_service, for a sample the library knows.
SetService(state, sample) ==
  LET service == Classify(library, sample.payload)
      f == sample.flow
  IN CASE service = None -> state
       [] service # None /\ f \in DOMAIN state.known ->
            [state EXCEPT !.known[f].service = service, !.named = @ \cup {f}]
       [] service # None /\ f \notin DOMAIN state.known /\ StashTakes(state.pending) ->
            [state EXCEPT !.pending = Put(@, f, service), !.named = @ \cup {f}]
       [] OTHER -> state

\* observe: what the tracker knows of a flow it has read, and whether it tells.
Observed(f, read) ==
  LET old == known[f]
      application == Owner(f, old.application)
      ends == (read.fin /\ ~old.fin) \/ (~read.fresh /\ old.age >= Idle)
  IN CASE f \notin DOMAIN known ->
            [service |-> IF f \in DOMAIN pending THEN pending[f] ELSE None,
             application |-> Resolve(f), active |-> TRUE, fin |-> read.fin, age |-> 0]
       [] f \in DOMAIN known /\ ~read.fresh /\ ~old.active -> [old EXCEPT !.application = application]
       [] OTHER ->
            [service |-> old.service, application |-> application, active |-> ~ends,
             fin |-> read.fin, age |-> IF read.fresh THEN 0 ELSE old.age]

Tells(f, read) == f \notin DOMAIN known \/ read.fresh \/ known[f].active

\* reconcile: flows that were not read are kept, closed or forgotten by age.
Keeps(f) == known[f].age < (IF known[f].active THEN Idle ELSE EndedRetention)
Gone == {f \in DOMAIN known \ DOMAIN poll.read : ~Keeps(f)}

\* purge_owners: what is too old is dropped, and everything when that leaves too
\* much.
Lasting(cache) == Only(cache, LAMBDA r : r.age < Retention)
Overflows(cache) == Cardinality(DOMAIN Lasting(cache)) > OwnerRoom
Purged(cache) == IF Overflows(cache) THEN <<>> ELSE Lasting(cache)

------------------------------------------------------------------------------
\* collector/mod.rs poll_once, one step for each thing it reads.

Aged(cache, gap, most) ==
  [k \in DOMAIN cache |-> [cache[k] EXCEPT !.age = IF @ + gap > most THEN most ELSE @ + gap]]

\* The poll starts: time has passed, listeners are seeded when it is time, and
\* the flow map is read, whole or not at all.
Begin(gap, readable) ==
  LET seeds == seeded + gap >= SeedInterval
      aged == Aged(listeners, gap, Retention)
  IN /\ poll.at = "idle"
     /\ owners' = Aged(owners, gap, Retention)
     /\ listeners' = IF seeds THEN Seeded(aged) ELSE aged
     /\ seeded' = IF seeds THEN 0 ELSE seeded + gap
     /\ known' = Aged(known, gap, EndedRetention)
     /\ poll' = [at |-> "services", flows |-> readable, owners |-> FALSE,
                 read |-> IF readable THEN entries ELSE <<>>]
     /\ entries' = IF readable THEN [f \in DOMAIN entries |-> [entries[f] EXCEPT !.fresh = FALSE]]
                               ELSE entries
     /\ news' = [news EXCEPT !.bound = IF seeds THEN DOMAIN bound ELSE @, !.keys = {}, !.told = {}]
     /\ UNCHANGED <<sockets, listens, bound, ring, pending, told, library, events>>

ReadSamples ==
  LET result == FoldLeft(SetService, [known |-> known, pending |-> pending, named |-> news.named], ring)
  IN /\ poll.at = "services"
     /\ known' = result.known /\ pending' = result.pending
     /\ news' = [news EXCEPT !.named = result.named]
     /\ ring' = <<>>
     /\ poll' = [poll EXCEPT !.at = "owners"]
     /\ UNCHANGED <<sockets, listens, bound, entries, owners, listeners, seeded, told, library, events>>

\* A walk that fails has recorded some owners; listeners come after sockets.
ReadOwners(some, all) ==
  LET ofSockets == IF all THEN sockets ELSE Restrict(sockets, some)
      ofListens == IF all THEN listens ELSE <<>>
  IN /\ poll.at = "owners"
     /\ some \subseteq DOMAIN sockets /\ (all => some = {})
     /\ owners' = Record(owners, ofSockets)
     /\ listeners' = Record(listeners, ofListens)
     /\ poll' = [poll EXCEPT !.at = "reconcile", !.owners = all]
     /\ news' = [news EXCEPT !.keys = {k \in DOMAIN ofSockets : ofSockets[k] # KernelTask}
                                         \cup DOMAIN ofListens]
     /\ UNCHANGED <<kernel, known, pending, seeded, told, library, events>>

Reconcile ==
  LET read == poll.read
      after == Over([f \in DOMAIN read |-> Observed(f, read[f])], Without(known, Gone))
      telling == {f \in DOMAIN read : Tells(f, read[f])} \cup {f \in Gone : known[f].active}
      update(f) == IF f \in Gone THEN [known[f] EXCEPT !.active = FALSE] ELSE after[f]
  IN /\ poll.at = "reconcile"
     /\ poll' = [poll EXCEPT !.at = "idle"]
     /\ IF poll.flows
          THEN /\ known' = after
               /\ pending' = Without(pending, DOMAIN read)
               /\ told' = Over([f \in telling |-> [service |-> update(f).service,
                                                   application |-> update(f).application,
                                                   active |-> update(f).active]], told)
               /\ owners' = Purged(owners) /\ listeners' = Purged(listeners)
               /\ news' = [news EXCEPT !.told = telling, !.named = @ \ Gone,
                                       !.bound = IF Overflows(listeners) THEN {} ELSE @]
          ELSE UNCHANGED <<known, pending, told, owners, listeners, news>>
     /\ UNCHANGED <<kernel, seeded, library, events>>

------------------------------------------------------------------------------
\* Collector::open seeds once what is bound already.
Init ==
  /\ sockets = <<>> /\ listens = <<>> /\ entries = <<>> /\ ring = <<>> /\ library = Default
  /\ \E ks \in SUBSET {ListenerKey(f) : f \in Flow} : \E app \in App : bound = [k \in ks |-> app]
  /\ owners = <<>> /\ listeners = Seeded(<<>>) /\ seeded = 0
  /\ known = <<>> /\ pending = <<>> /\ told = <<>>
  /\ poll = [at |-> "idle", flows |-> FALSE, owners |-> FALSE, read |-> <<>>]
  /\ news = [bound |-> DOMAIN bound, keys |-> {}, named |-> {}, told |-> {}]
  /\ events = 0

Next ==
  \/ \E f \in Flow, app \in App \cup {KernelTask} : Connect(f, app) \/ SendTo(f, app)
  \/ \E f \in Flow, app \in App : Listen(f, app)
  \/ \E k \in DOMAIN bound : Unbind(k)
  \/ \E k \in DOMAIN sockets \cup DOMAIN listens : LoseOwner(k)
  \/ \E f \in Flow, p \in Payload \cup {Silent}, fin, fits \in BOOLEAN : Packet(f, p, fin, fits)
  \/ \E f \in DOMAIN entries : Evict(f)
  \/ \E d \in Document : PutLibrary(d)
  \/ ResetLibrary
  \/ \E gap \in Gaps, readable \in BOOLEAN : Begin(gap, readable)
  \/ ReadSamples
  \/ \E some \in SUBSET DOMAIN sockets, all \in BOOLEAN : ReadOwners(some, all)
  \/ Reconcile

Spec == Init /\ [][Next]_vars

------------------------------------------------------------------------------
\* Properties

\* Every update of a poll carries what was there to be known when it ran: an
\* application, if the kernel maps named a process for the flow when they were
\* read, or /proc did at the last seed, the port is still bound and no cache of
\* listeners was dropped for its size since; and a service, if a sample of the
\* flow was recognised, in this poll or before.  Owners are read after flows,
\* seeded listeners expire, caches are cleared, and samples come before the flow
\* they belong to.  (tracker.rs, collector/mod.rs LISTENER_SEED_INTERVAL and
\* poll_once)
EvidenceIsUsed ==
  poll.at = "idle" =>
    \A f \in news.told :
      /\ told[f].active /\ Keys(f) \cap (news.keys \cup news.bound) # {}
           => told[f].application # None
      /\ f \in news.named => told[f].service # None

\* A flow that was told with an application or a service keeps the application
\* and never loses the service while the tracker knows it.
\* (tracker.rs observe: "fill it in once and keep it for the life of the Flow")
IdentityIsKept ==
  [][\A f \in DOMAIN known \cap DOMAIN told :
       f \in DOMAIN known' =>
         /\ told[f].application # None => told'[f].application = told[f].application
         /\ told[f].service # None => told'[f].service # None]_vars
=============================================================================
