------------------------------ MODULE FlowQueries ------------------------------
(***************************************************************************)
(* What the API reads back from the store (api/db.rs): the lists of flows, *)
(* connections, endpoints, Applications and domains, their splits and      *)
(* timelines, the overview with its shared page cache, and the exports.    *)
(*                                                                         *)
(* A read runs under the storage mutex, so each is one step; what can go   *)
(* wrong is that two of them disagree about one store, that a page outlives *)
(* the rows it was made of, and that an id given out by one process meets  *)
(* the ids an earlier one left in the file.  How a batch is written, step  *)
(* by step and with a failure at each, is FlowStore's; here a batch has    *)
(* three outcomes.                                                         *)
(*                                                                         *)
(* Every flow has a fixed pair of endpoints, remote address, Application,  *)
(* service and domains.  A byte stands for bytes and packets.              *)
(***************************************************************************)
EXTENDS Integers, FiniteSets, FiniteSetsExt, Functions

CONSTANTS
  None,
  Flow,            \* directional flows
  Inbound,         \* those that come in
  Broadcast,       \* inbound flows to a multicast or broadcast address
  PairOf,          \* protocol, interface and unordered endpoints
  RemoteOf,
  AppOf,           \* an Application, numbered in id order, or None
  ServiceOf,       \* a service, numbered in name order, or None
  NamesOf,         \* the Associated Domains
  TimeRange,           \* 1h, read from minutes, and 7d, read from hours
  Span, Step,      \* length of a range and of its buckets
  Keep,            \* MINUTE_BUCKET_RETENTION_MS, HOUR_BUCKET_RETENTION_MS
  Retention,       \* settings.history.retention_days
  PolicyEvery,     \* POLICY_INTERVAL
  PageTtl,         \* OVERVIEW_PAGE_CACHE_TTL
  PageCapacity,    \* OVERVIEW_PAGE_CACHE_CAPACITY
  RateTtl,         \* how long the rates of a batch are shown
  MaxUsage,        \* MAX_ENTITY_APPLICATIONS
  MaxDestinations, \* MAX_APPLICATION_DESTINATIONS
  Left,            \* the tables an earlier process may have left
  MaxTime, MaxWork, MaxKept   \* bounds of the model

\* A table of flows.
Row == [bytes : Nat, last : Int, active : BOOLEAN]
IsTable(r) == DOMAIN r \subseteq Flow /\ \A f \in DOMAIN r : r[f] \in Row

ASSUME QueriesAssumption ==
  /\ IsFiniteSet(Flow) /\ Inbound \subseteq Flow /\ Broadcast \subseteq Inbound
  /\ \A f \in Flow : /\ RemoteOf[f] \in Int
                     /\ AppOf[f] = None \/ AppOf[f] \in Int
                     /\ ServiceOf[f] = None \/ ServiceOf[f] \in Int
  /\ {PageTtl, PageCapacity, MaxUsage, MaxDestinations} \subseteq Nat \ {0}
  /\ MaxKept \in Nat
  /\ \A k \in TimeRange : /\ Step[k] \in Nat \ {0} /\ Span[k] \in Nat /\ Keep[k] \in Nat
                          /\ Keep[k] >= Span[k] + Step[k]
  /\ \A r \in Left : IsTable(r)

ASSUME NoneAssumption == None \notin Int /\ None \notin BOOLEAN

VARIABLES
  now,
  rows,      \* flows: what each row holds
  buckets,   \* traffic_buckets, by resolution and start
  exports,   \* exports: id and expiry
  mem,       \* Db beside the file: the last batch, the policy, the counter
  pages,     \* overview_pages
  open,      \* the tracker's open flows: each is in every batch
  recent,    \* history: the stores an overview may describe
  carried,   \* history: bytes added to the rollups, by time
  failed,    \* history: exports that could not be created by this process
  kept,      \* history: exports there were when it started
  used       \* bound: batches with flows and requests so far

data == <<rows, buckets, exports>>
vars == <<now, data, mem, pages, open, recent, carried, failed, kept, used>>

Started == [batchAt |-> None, rate |-> 0, policyAt |-> None, counter |-> 0]
Store == [rows |-> rows, buckets |-> buckets, rate |-> mem.rate, batchAt |-> mem.batchAt,
          at |-> now]

\* What is written over what was there.
Over(new, old) ==
  [k \in DOMAIN new \cup DOMAIN old |-> IF k \in DOMAIN new THEN new[k] ELSE old[k]]

Bytes(r, S) == FoldSet(LAMBDA f, n : n + r[f].bytes, 0, S)

\* The database of an earlier process, with what it put into the rollups at 0.
Init ==
  /\ now = 0
  /\ rows \in Left
  /\ carried = IF rows = <<>> THEN <<>> ELSE [t \in {0} |-> Bytes(rows, DOMAIN rows)]
  /\ buckets = [k \in TimeRange |-> carried]
  /\ exports \in UNION {[S -> {0}] : S \in SUBSET (1..MaxKept)}
  /\ mem = Started
  /\ pages = <<>>
  /\ open = {}
  /\ recent = {Store}
  /\ failed = 0
  /\ kept = Cardinality(DOMAIN exports)
  /\ used = 0

------------------------------------------------------------------------------
\* Aggregates, over a table r of rows

Totals(r, S) == [in |-> Bytes(r, S \cap Inbound), out |-> Bytes(r, S \ Inbound),
                 flows |-> Cardinality(S)]
\* GROUP BY
Grouped(r, S, key) == [k \in {key[f] : f \in S} |-> Totals(r, {f \in S : key[f] = k})]
Whole(groups) ==
  FoldFunction(LAMBDA g, n : [in |-> n.in + g.in, out |-> n.out + g.out, flows |-> n.flows + g.flows],
               [in |-> 0, out |-> 0, flows |-> 0], groups)

\* A FlowQuery: None where nothing is asked.
AnyQuery == [range |-> None, direction |-> None, state |-> None, service |-> None, app |-> None,
        name |-> None]
DirectionOf(f) == IF f \in Inbound THEN "inbound" ELSE "outbound"

\* flow_clauses, and the rows of the flow list.
Selected(r, q, t) ==
  {f \in DOMAIN r :
     /\ q.range # None => r[f].last >= t - Span[q.range]
     /\ q.direction \in {None, DirectionOf(f)}
     /\ q.state \in {None, r[f].active}
     /\ q.service \in {None, ServiceOf[f]}
     /\ q.app \in {None, AppOf[f]}
     /\ q.name \in {None} \cup NamesOf[f]}

\* The rows of a question that leaves its domain out (association_filters).
Unnamed(r, q, t) == Selected(r, [q EXCEPT !.name = None], t)

\* endpoint_rows
Endpoints(r, q, t) == Grouped(r, Selected(r, q, t), RemoteOf)

\* application_rows takes the clauses without the domain, like domain_rows, and
\* unlike domain_rows does not ask for it otherwise.
Applications(r, q, t) ==
  Grouped(r, {f \in Unnamed(r, q, t) : AppOf[f] # None}, AppOf)

\* domain_rows: flow_domains joined with the flows, so that a flow counts for
\* each of its domains.
Domains(r, q, t) ==
  LET S == Unnamed(r, q, t)
  IN [x \in {y \in UNION {NamesOf[f] : f \in S} : q.name \in {None, y}}
        |-> Totals(r, {f \in S : x \in NamesOf[f]})]

\* MAX(service), where a row without one does not count
Services(S) == {ServiceOf[f] : f \in S} \ {None}
ServiceIs(S, s) == Services(S) # {} /\ Max(Services(S)) = s

\* Variant: the service filters the rows, not the pairs.
ConnectionsByRow(r, q, t) ==
  LET S == Selected(r, [q EXCEPT !.direction = None, !.state = None], t)
      Of(p) == {f \in S : PairOf[f] = p}
  IN Restrict(Grouped(r, S, PairOf),
              {p \in {PairOf[f] : f \in S} :
                 q.state # None => q.state = (\E f \in Of(p) : r[f].active)})

\* list_connections: the rows of both directions are merged first, and the
\* service and the state asked for are those of the pair (HAVING).
Connections(r, q, t) ==
  LET S == Selected(r, [q EXCEPT !.direction = None, !.state = None, !.service = None], t)
      Of(p) == {f \in S : PairOf[f] = p}
  IN Restrict(Grouped(r, S, PairOf),
              {p \in {PairOf[f] : f \in S} :
                 /\ q.service # None => ServiceIs(Of(p), q.service)
                 /\ q.state # None => q.state = (\E f \in Of(p) : r[f].active)})

\* ORDER BY bytes DESC, key LIMIT n
Biggest(groups, n) ==
  LET Size(k) == groups[k].in + groups[k].out
      Before(j, k) == Size(j) > Size(k) \/ (Size(j) = Size(k) /\ j < k)
  IN Restrict(groups, {k \in DOMAIN groups :
                         Cardinality({j \in DOMAIN groups : Before(j, k)}) < n})

\* entity_applications: the MaxUsage biggest Applications of a set of flows,
\* and always the flows of none, the broadcasts apart.
Usage(r, S) ==
  [apps |-> Biggest(Grouped(r, {f \in S : AppOf[f] # None}, AppOf), MaxUsage),
   rest |-> Grouped(r, {f \in S : AppOf[f] = None}, [f \in Flow |-> f \in Broadcast])]

\* application_destinations
Destinations(r, p) ==
  Biggest(Grouped(r, {f \in DOMAIN r : AppOf[f] = p}, RemoteOf), MaxDestinations)

\* get_endpoint, get_domain and get_application: the pages of one entity.
EndpointDetail(r, a) ==
  LET S == {f \in DOMAIN r : RemoteOf[f] = a}
  IN [totals |-> Totals(r, S), names |-> UNION {NamesOf[f] : f \in S}, usage |-> Usage(r, S)]
DomainDetail(r, x, t) ==
  [totals |-> Domains(r, [AnyQuery EXCEPT !.name = x], t)[x],
   addresses |-> Grouped(r, {f \in DOMAIN r : x \in NamesOf[f]}, RemoteOf),
   usage |-> Usage(r, {f \in DOMAIN r : x \in NamesOf[f]})]
ApplicationDetail(r, p, t) ==
  [totals |-> Applications(r, [AnyQuery EXCEPT !.app = p], t)[p],
   names |-> UNION {NamesOf[f] : f \in {g \in DOMAIN r : AppOf[g] = p}},
   destinations |-> Destinations(r, p)]

\* buckets_timeline: every bucket from the one the range begins in to this one.
Timeline(b, k, t) ==
  [n \in ((t - Span[k]) \div Step[k])..(t \div Step[k]) |->
     IF n \in DOMAIN b[k] THEN b[k][n] ELSE 0]

\* rates_are_fresh
RatesAreFresh(s) == s.batchAt # None /\ s.at - s.batchAt <= RateTtl

\* The page overview computes from a store.
Page(s, k) ==
  LET q == [AnyQuery EXCEPT !.range = k]
      S == Selected(s.rows, q, s.at)
  IN [totals |-> Totals(s.rows, S),
      active |-> Cardinality({f \in S : s.rows[f].active}),
      named |-> Cardinality({f \in S : NamesOf[f] # {}}),
      rate |-> IF RatesAreFresh(s) THEN s.rate ELSE 0,
      timeline |-> Timeline(s.buckets, k, s.at),
      endpoints |-> Endpoints(s.rows, q, s.at),
      domains |-> Domains(s.rows, q, s.at)]

------------------------------------------------------------------------------
\* Actions

\* enforce_policy, at most once per interval; the capacity is FlowStore's.
Due == mem.policyAt = None \/ now - mem.policyAt >= PolicyEvery
KeptRows(r) ==
  IF Due THEN RestrictDomain(r, LAMBDA f : r[f].active \/ r[f].last >= now - Retention) ELSE r
\* Variant: the rollups are kept for exactly the range that is read.
KeptBucketsShort(b) ==
  IF Due THEN [k \in TimeRange |-> RestrictDomain(b[k], LAMBDA n : n * Step[k] >= now - Span[k])]
  ELSE b
KeptBuckets(b) ==
  IF Due THEN [k \in TimeRange |-> RestrictDomain(b[k], LAMBDA n : n * Step[k] >= now - Keep[k])]
  ELSE b
PolicyTime == IF Due THEN now ELSE mem.policyAt

Add(fn, k, n) == Over([x \in {k} |-> n + (IF x \in DOMAIN fn THEN fn[x] ELSE 0)], fn)
\* Everything but reads and time is bounded together.
Work(n) == used + n <= MaxWork /\ used' = used + n

\* An announced change: no overview of an earlier store may be given any more.
Invalidate == pages' = <<>> /\ recent' = {Store'}
\* A change nobody is told of.
Silently == recent' = recent \cup {Store'} /\ UNCHANGED pages

\* Rows, then the policy, then the rollups of the flows that still have a row;
\* a failure comes before the rows or before the rollups.
Stored(S, ended, outcome) ==
  /\ Work(2)
  /\ mem.batchAt # now
  /\ open \subseteq S /\ S # {} /\ ended \subseteq S
  /\ open' = S \ ended
  /\ LET put == Over([f \in S |-> [bytes |-> 1 + (IF f \in DOMAIN rows THEN rows[f].bytes ELSE 0),
                                   last |-> now, active |-> f \notin ended]], rows)
         moved == Cardinality(S \cap DOMAIN rows')
     IN /\ rows' = IF outcome = "none" THEN rows ELSE KeptRows(put)
        /\ mem' = [mem EXCEPT !.batchAt = now, !.rate = Cardinality(S),
                              !.policyAt = IF outcome = "none" THEN @ ELSE PolicyTime]
        /\ buckets' = CASE outcome = "none" -> buckets
                        [] outcome = "rows" -> KeptBuckets(buckets)
                        [] outcome = "all" ->
                             [k \in TimeRange |-> Add(KeptBuckets(buckets)[k], now \div Step[k], moved)]
        /\ carried' = IF outcome = "all" THEN Add(carried, now, moved) ELSE carried
  /\ UNCHANGED <<now, exports, failed, kept>>

\* Variant: the pages are dropped only when the batch ends a flow.
IngestKeepsPages(S, ended, outcome) ==
  Stored(S, ended, outcome) /\ (IF ended # {} THEN Invalidate
                                ELSE recent' = {Store'} /\ UNCHANGED pages)

\* try_ingest of a batch with flows: the pages are dropped, whatever comes of it.
Ingest(S, ended, outcome) == Stored(S, ended, outcome) /\ Invalidate

\* A batch without flows and domains: the rates fall to nothing, retention may
\* delete rows, and the pages stay.
QuietBatch ==
  /\ Work(1)
  /\ mem.batchAt # now /\ open = {}
  /\ rows' = KeptRows(rows)
  /\ buckets' = KeptBuckets(buckets)
  /\ mem' = [mem EXCEPT !.batchAt = now, !.rate = 0, !.policyAt = PolicyTime]
  /\ UNCHANGED <<now, exports, open, carried, failed, kept>>
  /\ Silently

Pass ==
  /\ now < MaxTime
  /\ now' = now + 1
  /\ UNCHANGED <<data, mem, pages, open, carried, failed, kept, used>>
  /\ recent' = {s \in recent : now' - s.at < PageTtl} \cup {Store'}

\* overview: a young page is given again, a new one is kept for the others.
Young(k) == k \in DOMAIN pages /\ now - pages[k].at < PageTtl
GetOverview ==
  \E k \in TimeRange :
    /\ ~Young(k)
    /\ LET others == IF Cardinality(DOMAIN pages) >= PageCapacity THEN {} ELSE DOMAIN pages
       IN pages' = [j \in {k} \cup others |->
                      IF j = k THEN [at |-> now, page |-> Page(Store, k)] ELSE pages[j]]
    /\ UNCHANGED <<now, data, mem, open, recent, carried, failed, kept, used>>

ClearHistory ==
  /\ Work(1)
  /\ rows' = <<>>
  /\ buckets' = [k \in TimeRange |-> <<>>]
  /\ exports' = <<>>
  /\ carried' = <<>>
  /\ mem' = [mem EXCEPT !.rate = 0]
  /\ UNCHANGED <<now, open, failed, kept>>
  /\ Invalidate

\* Db::save_settings
SaveSettings ==
  /\ Work(1)
  /\ rows' = KeptRows(rows)
  /\ buckets' = KeptBuckets(buckets)
  /\ mem' = [mem EXCEPT !.policyAt = PolicyTime]
  /\ UNCHANGED <<now, exports, open, carried, failed, kept>>
  /\ Invalidate

\* Variant: the counter moves on only when the export could be stored.
CreateExportOnce ==
  /\ Work(1)
  /\ LET id == mem.counter + 1
     IN IF id \in DOMAIN exports
        THEN failed' = failed + 1 /\ UNCHANGED <<exports, mem>>
        ELSE /\ exports' = Over([e \in {id} |-> now + 1], exports)
             /\ mem' = [mem EXCEPT !.counter = id]
             /\ UNCHANGED failed
  /\ UNCHANGED <<now, rows, buckets, pages, open, recent, carried, kept>>

\* create_export: the counter of the process names it, and the INSERT fails
\* when an earlier process gave out the same id.
CreateExport ==
  /\ Work(1)
  /\ LET id == mem.counter + 1
     IN /\ mem' = [mem EXCEPT !.counter = id]
        /\ IF id \in DOMAIN exports THEN failed' = failed + 1 /\ UNCHANGED exports
           ELSE /\ exports' = Over([e \in {id} |-> now + 1], exports)
                /\ UNCHANGED failed
  /\ UNCHANGED <<now, rows, buckets, pages, open, recent, carried, kept>>

DeleteExport ==
  /\ Work(1)
  /\ \E id \in DOMAIN exports : exports' = Restrict(exports, DOMAIN exports \ {id})
  /\ UNCHANGED <<now, rows, buckets, mem, pages, open, recent, carried, failed, kept>>

\* Db::open on the file an earlier process left.
Restart ==
  /\ Work(1)
  /\ mem' = Started
  /\ pages' = <<>>
  /\ open' = {}
  /\ failed' = 0
  /\ kept' = Cardinality(DOMAIN exports)
  /\ UNCHANGED <<now, data, carried>>
  /\ recent' = {Store'}

Next ==
  \/ \E S \in SUBSET Flow, ended \in SUBSET Flow, outcome \in {"none", "rows", "all"} :
       Ingest(S, ended, outcome)
  \/ QuietBatch \/ Pass \/ GetOverview
  \/ ClearHistory \/ SaveSettings \/ CreateExport \/ DeleteExport \/ Restart

Spec == Init /\ [][Next]_vars

------------------------------------------------------------------------------
\* Properties

\* The queries whose answers are compared: nothing asked, or one thing.
Asked ==
  {AnyQuery} \cup {[AnyQuery EXCEPT !.range = k] : k \in TimeRange}
        \cup {[AnyQuery EXCEPT !.direction = d] : d \in {"inbound", "outbound"}}
        \cup {[AnyQuery EXCEPT !.state = b] : b \in BOOLEAN}
        \cup {[AnyQuery EXCEPT !.app = AppOf[f]] : f \in Flow}
        \cup {[AnyQuery EXCEPT !.name = x] : x \in UNION {NamesOf[f] : f \in Flow}}

\* A split loses only Applications beyond the cap, none bigger than one it shows.
SplitIsHonest(usage, S) ==
  LET apps == Whole(usage.apps)
      rest == Whole(usage.rest)
      hidden == {f \in S : AppOf[f] \notin DOMAIN usage.apps \cup {None}}
  IN /\ apps.in + apps.out + rest.in + rest.out + Bytes(rows, hidden) = Bytes(rows, S)
     /\ hidden # {} => Cardinality(DOMAIN usage.apps) = MaxUsage
     /\ \A f \in hidden, p \in DOMAIN usage.apps :
          rows[f].bytes <= usage.apps[p].in + usage.apps[p].out

\* Endpoints add up to the flow list of the same question, and Applications with
\* the flows of none to that of the question without its domain.
ListsSum ==
  \A q \in Asked :
    LET S == Selected(rows, q, now)
        N == Unnamed(rows, q, now)
        byApp == Whole(Applications(rows, q, now))
    IN /\ Whole(Endpoints(rows, q, now)) = Totals(rows, S)
       /\ byApp.in + byApp.out + Bytes(rows, {f \in N : AppOf[f] = None}) = Bytes(rows, N)

\* The page of an endpoint has the totals of its row; it names a domain just
\* when the domain lists the endpoint, and an Application's share of it is what
\* the Application says it exchanged with it.
EndpointsAgree ==
  LET domains == Domains(rows, AnyQuery, now)
  IN \A a \in DOMAIN Endpoints(rows, AnyQuery, now) :
       LET page == EndpointDetail(rows, a)
       IN /\ page.totals = Endpoints(rows, AnyQuery, now)[a]
          /\ SplitIsHonest(page.usage, {f \in DOMAIN rows : RemoteOf[f] = a})
          /\ \A x \in DOMAIN domains :
               x \in page.names <=> a \in DOMAIN DomainDetail(rows, x, now).addresses
          /\ \A p \in DOMAIN page.usage.apps :
               LET shown == ApplicationDetail(rows, p, now).destinations
               IN a \in DOMAIN shown => shown[a] = page.usage.apps[p]
\* The page of a domain has the totals of its row, its addresses add up to them,
\* and the Applications it shows name the domain.
DomainsAgree ==
  LET domains == Domains(rows, AnyQuery, now)
  IN \A x \in DOMAIN domains :
       LET page == DomainDetail(rows, x, now)
       IN /\ page.totals = domains[x] /\ Whole(page.addresses) = domains[x]
          /\ SplitIsHonest(page.usage, {f \in DOMAIN rows : x \in NamesOf[f]})
          /\ \A p \in DOMAIN page.usage.apps : x \in ApplicationDetail(rows, p, now).names
\* The page of an Application has the totals of its row.
ApplicationsAgree ==
  LET apps == Applications(rows, AnyQuery, now)
  IN \A p \in DOMAIN apps : ApplicationDetail(rows, p, now).totals = apps[p]

\* A connection is shown with the traffic of both directions whatever service
\* or state is asked for, under exactly one state and, when one of its flows has
\* a service, under exactly one service.
ConnectionsAreWhole ==
  LET All == Connections(rows, AnyQuery, now)
      Of(b) == Connections(rows, [AnyQuery EXCEPT !.state = b], now)
      With(n) == Connections(rows, [AnyQuery EXCEPT !.service = n], now)
  IN \A p \in {PairOf[f] : f \in DOMAIN rows} :
       LET S == {f \in DOMAIN rows : PairOf[f] = p}
           states == {b \in BOOLEAN : p \in DOMAIN Of(b)}
           services == {n \in Services(DOMAIN rows) : p \in DOMAIN With(n)}
       IN /\ p \in DOMAIN All /\ All[p] = Totals(rows, S)
          /\ \A b \in states : Of(b)[p] = Totals(rows, S)
          /\ \A n \in services : With(n)[p] = Totals(rows, S)
          /\ Cardinality(states) = 1
          /\ Cardinality(services) = IF Services(S) = {} THEN 0 ELSE 1

\* Lists and pages tell one story about one store, whichever of them a client
\* opens, and a connection is the same in all its lists (db.rs:1790 "`state` is
\* evaluated on the aggregate", 1653 "so the split stays honest").
ListsAddUp ==
  ListsSum /\ EndpointsAgree /\ DomainsAgree /\ ApplicationsAgree /\ ConnectionsAreWhole

\* A timeline misses nothing: the points of a range add up to every byte the
\* rollups were given since the first point began, though retention deletes
\* old buckets and the range begins inside one.
TimelineIsWhole ==
  \A k \in TimeRange :
    LET line == Timeline(buckets, k, now)
        since == {t \in DOMAIN carried : t \div Step[k] \in DOMAIN line}
    IN /\ SumFunction(line) = SumFunctionOnSet(carried, since)
       /\ \A t \in DOMAIN carried : t >= now - Span[k] => t \in since

\* A page that is still given describes a store the daemon had within the last
\* PageTtl, and none from before the last batch with flows, cleared history or
\* changed setting: the shared cache never serves what one of them made old.
OverviewIsCurrent ==
  \A k \in TimeRange : Young(k) => \E s \in recent : pages[k].page = Page(s, k)

\* The ids of earlier processes get in the way of a new export at most once
\* each: creation fails no more often than there were exports at the start.
ExportsRecover == failed <= kept
==============================================================================
