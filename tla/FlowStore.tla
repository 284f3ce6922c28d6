------------------------------- MODULE FlowStore -------------------------------
(***************************************************************************)
(* The SQLite store of the daemon (api/db.rs): what one collection batch   *)
(* does to the rows, the trigger-kept counters, the rollups, the rates and *)
(* the live tick, and what retention, a cleared history, a changed setting *)
(* and a restart do between two batches.                                   *)
(*                                                                         *)
(* Every method of Db runs under one mutex, so nothing interleaves with the *)
(* statements of a batch; but each of its transactions and each statement  *)
(* of its cleanup is durable by itself, can fail, and can be the last one  *)
(* of the process.  An ingest is therefore one action per durable step,    *)
(* with a failure and a restart possible at each.                          *)
(*                                                                         *)
(* Time is counted in batches, and a minute is one; bytes are units.  The key of a row stands    *)
(* for its addresses and ports; each domain comes with one evidence.       *)
(***************************************************************************)
EXTENDS Integers, FiniteSets, FiniteSetsExt, Functions

CONSTANTS
  Flow,            \* flow keys
  Remote,          \* remote addresses
  App,             \* Applications
  Domain,          \* domain names, numbered in name order
  RemoteOf,        \* the remote address of a flow
  Rank,            \* evidence_rank of a domain's evidence
  None,
  Capacity,        \* settings.resources.max_flow_entries
  Retention,       \* settings.history.retention_days
  Ttl,             \* how long an observation may be used
  PolicyEvery,     \* POLICY_INTERVAL
  MaxCandidates,   \* MAX_DOMAIN_CANDIDATES
  HourLen,         \* minutes in an hour
  MinuteKeep,      \* MINUTE_BUCKET_RETENTION_MS
  HourKeep,        \* HOUR_BUCKET_RETENTION_MS
  SightedAt,       \* bound of the model: the batches that may carry an observation
  MaxClock, MaxTotal, MaxEvents   \* bounds of the model

ASSUME StoreAssumption ==
  /\ Domain \subseteq Nat /\ None \notin App
  /\ IsFiniteSet(Flow) /\ IsFiniteSet(Remote) /\ IsFiniteSet(App) /\ IsFiniteSet(Domain)
  /\ RemoteOf \in [Flow -> Remote]
  /\ Rank \in [Domain -> 1..2]
  /\ {Capacity, Ttl, PolicyEvery, MaxCandidates, HourLen} \subseteq Nat \ {0}
  /\ {Retention, MinuteKeep, HourKeep, MaxClock, MaxTotal, MaxEvents} \subseteq Nat
  /\ MinuteKeep + HourLen <= HourKeep

VARIABLES
  clock,
  known,      \* the tracker: state, total, last packet and Application of every flow
  db,         \* the database file
  mem,        \* what Db and Inner keep beside it
  work,       \* the batch being ingested, and how far
  tick,       \* the live event of the last ingest
  sent,       \* history: the signature of the last full record of a flow
  slips,      \* history: what has gone wrong since the file was made
  events      \* bound on the disturbances (faults, clears, settings, restarts)

vars == <<clock, known, db, mem, work, tick, sent, slips, events>>

Hour(t) == t \div HourLen

\* What is written over what was there.
Over(new, old) ==
  [k \in DOMAIN new \cup DOMAIN old |-> IF k \in DOMAIN new THEN new[k] ELSE old[k]]

SumOf(fn, K) == SumFunctionOnSet(fn, K \cap DOMAIN fn)

\* The entities that have rates and rollups; the first stands for traffic_buckets.
All == <<"traffic", None>>
Endpoint(a) == <<"endpoint", a>>
Application(p) == <<"application", p>>
Named(x) == <<"domain", x>>
Entity == {All} \cup {Endpoint(a) : a \in Remote} \cup {Application(p) : p \in App}
                \cup {Named(x) : x \in Domain}

EmptyDb == [rows |-> <<>>, stats |-> [flows |-> 0, active |-> 0, named |-> 0], links |-> {},
            obs |-> <<>>, apps |-> <<>>, minute |-> <<>>, hour |-> <<>>, rates |-> <<>>,
            history |-> TRUE, version |-> 0]
\* Variant: a start that assumes entity_rates to be empty.
OpenedEmpty(d) == [mirror |-> <<>>, details |-> <<>>, policyAt |-> -1,
                   history |-> d.history, version |-> d.version]

\* Db::open, from_connection
Opened(d) == [mirror |-> d.rates, details |-> <<>>, policyAt |-> -1,
              history |-> d.history, version |-> d.version]
Idle == [stage |-> "idle", up |-> <<>>, read |-> {}]
Blank == [full |-> <<>>, patched |-> {}, ended |-> {}, done |-> FALSE, rates |-> <<>>]

Init ==
  /\ clock = 0
  /\ known = [f \in Flow |-> [state |-> "none", total |-> 0, last |-> 0, app |-> None]]
  /\ db = EmptyDb
  /\ mem = Opened(EmptyDb)
  /\ work = Idle
  /\ tick = Blank
  /\ sent = <<>>
  /\ slips = {}
  /\ events = 0

------------------------------------------------------------------------------
\* Rows and what the triggers derive from them

ActiveIn(rows) == {f \in DOMAIN rows : rows[f].active}
NamedIn(rows) == {f \in DOMAIN rows : rows[f].domains # {}}

\* Variant: a replaced row is counted as a new one.
PutRowsAsNew(d, new) ==
  [d EXCEPT !.rows = Over(new, @),
            !.links = {l \in @ : l[1] \notin DOMAIN new}
                        \cup {l \in (DOMAIN new) \X Domain : l[2] \in new[l[1]].domains},
            !.stats.flows = @ + Cardinality(DOMAIN new)]

\* INSERT .. ON CONFLICT DO UPDATE of several rows: trg_flow_stats_insert and
\* _update count the change of each, trg_flow_domains_* replace its links.
PutRows(d, new) ==
  LET old == Restrict(d.rows, DOMAIN new \cap DOMAIN d.rows)
      gain(N, O) == Cardinality(N) - Cardinality(O)
  IN [d EXCEPT
        !.rows = Over(new, @),
        !.links = {l \in @ : l[1] \notin DOMAIN new}
                    \cup {l \in (DOMAIN new) \X Domain : l[2] \in new[l[1]].domains},
        !.stats = [flows |-> @.flows + gain(DOMAIN new, DOMAIN old),
                   active |-> @.active + gain(ActiveIn(new), ActiveIn(old)),
                   named |-> @.named + gain(NamedIn(new), NamedIn(old))]]

\* DELETE FROM flows: trg_flow_stats_delete and trg_flow_domains_delete.
DropRows(d, S) ==
  LET old == Restrict(d.rows, S)
  IN [d EXCEPT
        !.rows = Restrict(@, DOMAIN @ \ S),
        !.links = {l \in @ : l[1] \notin S},
        !.stats = [flows |-> @.flows - Cardinality(S),
                   active |-> @.active - Cardinality(ActiveIn(old)),
                   named |-> @.named - Cardinality(NamedIn(old))]]

\* store_observation: what has expired when it is stored is dropped.
Fresh(seen, now) == {o \in seen : o.at + Ttl > now}
Later(x, y) == IF x > y THEN x ELSE y
Observe(d, seen) ==
  LET at(k) == Max({o.at : o \in {p \in seen : <<p.domain, p.remote>> = k}})
      stored == [k \in {<<o.domain, o.remote>> : o \in seen} |->
                   IF k \in DOMAIN d.obs THEN Later(d.obs[k], at(k)) ELSE at(k)]
  IN [d EXCEPT !.obs = Over(stored, @)]

\* Variant: expired evidence is used as long as it is stored.
AssociateStored(d, a, now) == {x \in Domain : <<x, a>> \in DOMAIN d.obs}

\* associate_address: the unexpired domains of an address, best evidence first.
Associate(d, a, now) ==
  LET usable == {x \in Domain : <<x, a>> \in DOMAIN d.obs /\ d.obs[<<x, a>>] + Ttl > now}
      Before(x, y) == \/ Rank[x] > Rank[y]
                      \/ Rank[x] = Rank[y] /\ d.obs[<<x, a>>] > d.obs[<<y, a>>]
                      \/ Rank[x] = Rank[y] /\ d.obs[<<x, a>>] = d.obs[<<y, a>>] /\ x < y
  IN {x \in usable : Cardinality({y \in usable : Before(y, x)}) < MaxCandidates}

\* UPDATE flows SET domains_json for the addresses that were observed again.
Rename(d, addresses, now) ==
  LET touched == {f \in DOMAIN d.rows : RemoteOf[f] \in addresses}
  IN PutRows(d, [f \in touched |-> [d.rows[f] EXCEPT !.domains = Associate(d, RemoteOf[f], now)]])

\* The row an update leaves: the kernel's totals replace the stored ones, an
\* update without an Application keeps the row's.  Field vouched is history: the
\* last packet of the last update that named the Application.
NewRow(d, f, u, now) ==
  LET old == IF f \in DOMAIN d.rows THEN d.rows[f] ELSE [last |-> u.last, app |-> None, vouched |-> 0]
  IN [total |-> u.total, active |-> u.active, domains |-> Associate(d, RemoteOf[f], now),
      last |-> Later(u.last, old.last),
      app |-> IF u.app = None THEN old.app ELSE u.app,
      vouched |-> IF u.app = None THEN old.vouched ELSE u.last]
AppsOf(up) == {up[f].app : f \in DOMAIN up} \ {None}
LastOf(up, p) == Max({up[f].last : f \in {g \in DOMAIN up : up[g].app = p}})

\* Variant: an Application takes the time of the latest update, not the latest time.
UpsertLatest(d, up, now) ==
  [PutRows(d, [f \in DOMAIN up |-> NewRow(d, f, up[f], now)]) EXCEPT
     !.apps = Over([p \in AppsOf(up) |-> LastOf(up, p)], @)]

\* upsert_application and upsert_flow for the flows of a batch: an update that
\* names no Application leaves the record of the row's as it is.
Upsert(d, up, now) ==
  LET used == [p \in AppsOf(up) |-> IF p \in DOMAIN d.apps THEN Later(d.apps[p], LastOf(up, p))
                                    ELSE LastOf(up, p)]
  IN [PutRows(d, [f \in DOMAIN up |-> NewRow(d, f, up[f], now)]) EXCEPT !.apps = Over(used, @)]

\* The first transaction of try_ingest.
WriteRows(d, up, seen, now) ==
  LET fresh == Fresh(seen, now)
  IN Upsert(Rename(Observe(d, fresh), {o.remote : o \in fresh}, now), up, now)

------------------------------------------------------------------------------
\* enforce_policy: eight statements, each committed by itself

Overflow(d) == IF d.stats.flows > Capacity THEN d.stats.flows - Capacity ELSE 0
\* ORDER BY last_seen_ms LIMIT overflow, whatever the order of equal times.
OldestRows(d) ==
  {S \in kSubset(Overflow(d), DOMAIN d.rows) :
     \A f \in S, g \in DOMAIN d.rows \ S : d.rows[f].last <= d.rows[g].last}

EndedRows(d, history, now) ==
  {f \in DOMAIN d.rows : ~d.rows[f].active /\ (history => d.rows[f].last < now - Retention)}
OldApps(d, history, now) ==
  {p \in DOMAIN d.apps : IF history THEN d.apps[p] < now - Retention
                         ELSE \A f \in DOMAIN d.rows : d.rows[f].app # p}

\* The first n of them, with S the rows over capacity.
Policy(d, n, S, history, now) ==
  LET capped == IF n >= 1 THEN DropRows(d, S) ELSE d
      aged == IF n >= 2 THEN DropRows(capped, EndedRows(capped, history, now)) ELSE capped
  IN [aged EXCEPT
        !.apps = RestrictDomain(@, LAMBDA p : n >= 3 => p \notin OldApps(aged, history, now)),
        !.obs = RestrictDomain(@, LAMBDA k : n >= 4 => d.obs[k] + Ttl > now),
        !.minute = RestrictDomain(@, LAMBDA k : n >= (IF k[1] = All THEN 5 ELSE 7)
                                                   => k[2] >= now - MinuteKeep),
        !.hour = RestrictDomain(@, LAMBDA k : n >= (IF k[1] = All THEN 6 ELSE 8)
                                                 => k[2] * HourLen >= now - HourKeep)]

\* POLICY_INTERVAL since the last time, in this process.
Due == mem.policyAt = -1 \/ clock - mem.policyAt >= PolicyEvery

------------------------------------------------------------------------------
\* Rollups, rates and the tick, for the flows that could be read back

\* The entities a row counts for.
EntitiesOf(d, f) ==
  {Endpoint(RemoteOf[f])} \cup {Named(x) : x \in d.rows[f].domains}
    \cup {Application(p) : p \in {d.rows[f].app} \ {None}}
Moved(up, f) == up[f].delta > 0
Share(d, up, read, e) ==
  SumOf([f \in DOMAIN up |-> up[f].delta],
        {f \in read : Moved(up, f) /\ (e = All \/ e \in EntitiesOf(d, f))})

\* Variant: hours are cut one minute late.
AddBucketsLate(d, up, read, now) ==
  LET gain == {e \in Entity : Share(d, up, read, e) > 0}
      Plus(fn, t) == Over([k \in gain \X {t} |-> Share(d, up, read, k[1])
                                                  + (IF k \in DOMAIN fn THEN fn[k] ELSE 0)], fn)
  IN [d EXCEPT !.minute = Plus(@, now), !.hour = Plus(@, Hour(now - 1))]

\* The second transaction: add_bucket, add_entity_bucket.
AddBuckets(d, up, read, now) ==
  LET gain == {e \in Entity : Share(d, up, read, e) > 0}
      Plus(fn, t) == Over([k \in gain \X {t} |-> Share(d, up, read, k[1])
                                                  + (IF k \in DOMAIN fn THEN fn[k] ELSE 0)], fn)
  IN [d EXCEPT !.minute = Plus(@, now), !.hour = Plus(@, Hour(now))]

\* roll_entity_rates leaves nothing of the interval before (RATE_WINDOW_TICKS = 1).
RatesOf(d, up, read) ==
  Over([k \in {<<"flow", f>> : f \in {g \in DOMAIN up : Moved(up, g)}} |-> up[k[2]].delta],
       [e \in {x \in Entity \ {All} : Share(d, up, read, x) > 0} |-> Share(d, up, read, e)])

\* store_entity_rates writes the difference to the mirror, not to the table.
StoreRates(d, next) ==
  LET changed == {k \in DOMAIN next : k \notin DOMAIN mem.mirror \/ mem.mirror[k] # next[k]}
      gone == DOMAIN mem.mirror \ DOMAIN next
  IN [d EXCEPT !.rates = Over(Restrict(next, changed), Restrict(@, DOMAIN @ \ gone))]

\* flow_detail_signature: the state, the Application by its id and the domains
\* with their evidence; the remote profile, the interface and the Application's
\* name are not in it, and its kind goes with the id.
Signature(d, f) ==
  [active |-> d.rows[f].active, app |-> d.rows[f].app, domains |-> d.rows[f].domains]

Details(d, up, read) ==
  LET open == {f \in read : d.rows[f].active}
      next == Over([f \in open |-> Signature(d, f)],
                   Restrict(mem.details, DOMAIN mem.details \ read))
  IN IF Cardinality(DOMAIN next) > Capacity THEN <<>> ELSE next

\* Variant: a flow that was sent once is patched ever after.
TickOnce(d, up, read) ==
  LET patched == {f \in read : d.rows[f].active /\ f \in DOMAIN mem.details}
  IN [full |-> [f \in read \ patched |-> Signature(d, f)], patched |-> patched, done |-> TRUE,
      ended |-> {f \in DOMAIN up : ~up[f].active}, rates |-> RatesOf(d, up, read)]

Tick(d, up, read) ==
  LET patched == {f \in read : /\ d.rows[f].active
                               /\ f \in DOMAIN mem.details /\ mem.details[f] = Signature(d, f)}
  IN [full |-> [f \in read \ patched |-> Signature(d, f)], patched |-> patched, done |-> TRUE,
      ended |-> {f \in DOMAIN up : ~up[f].active}, rates |-> RatesOf(d, up, read)]

------------------------------------------------------------------------------
\* Actions

\* The time of the batch that is collected next.
Now == clock + 1

\* FlowTracker::observe: an open flow is reported at every poll, a closed one
\* only when it sends again; the counters of a recreated entry start again.  An
\* Application, once found, is reported as long as the flow is tracked, and a
\* closed flow may have been dropped by the tracker when it comes back.
Reports(f) ==
  LET k == known[f]
      Found == IF k.app = None THEN App \cup {None} ELSE {k.app}
      New(t, b, a, p) == [total |-> t, delta |-> b, last |-> IF b > 0 THEN Now ELSE k.last,
                          active |-> a, app |-> p]
      More == {New(k.total + b, b, a, p) : b \in 1..(MaxTotal - k.total), a \in BOOLEAN, p \in Found}
      Again(P) == {New(1, 1, a, p) : a \in BOOLEAN, p \in P}
      Quiet == {New(k.total, 0, a, p) : a \in BOOLEAN, p \in Found}
  IN CASE k.state = "none"   -> {None} \cup {New(1, 1, TRUE, p) : p \in App \cup {None}}
       [] k.state = "active" -> More \cup Again(Found) \cup Quiet
       [] k.state = "ended"  -> More \cup Again(App \cup {None}) \cup {None}

\* Observations of the batch, one of them expired when it arrives.
Sightings ==
  {{}} \cup {{[domain |-> x, remote |-> a, at |-> t]} :
               x \in Domain, a \in Remote, t \in {u \in {Now, Now - 1} : Now \in SightedAt}}

Batches ==
  LET Picks == {c \in [Flow -> UNION {Reports(f) : f \in Flow}] :
                  \A f \in Flow : c[f] \in Reports(f)}
  IN {Restrict(c, {f \in Flow : c[f] # None}) : c \in Picks}

\* A batch that leaves try_ingest with an error: its deltas are gone, and
\* subscribers get an event without flows.
Abandon ==
  /\ events < MaxEvents
  /\ events' = events + 1
  /\ work' = Idle
  /\ tick' = Blank

\* A delta that does not reach the rollups.
Lost(up, S) == IF \E f \in S : Moved(up, f) THEN {"delta"} ELSE {}

\* The collector hands over a batch, and the first transaction commits or not.
Begin ==
  /\ work.stage = "idle" /\ clock < MaxClock
  /\ clock' = Now
  /\ \E up \in Batches, seen \in Sightings :
       /\ known' = [f \in Flow |->
                      IF f \in DOMAIN up
                        THEN [state |-> IF up[f].active THEN "active" ELSE "ended",
                              total |-> up[f].total, last |-> up[f].last, app |-> up[f].app]
                        ELSE known[f]]
       /\ \/ /\ db' = WriteRows(db, up, seen, Now)
             /\ work' = [stage |-> "policy", up |-> up, read |-> {}]
             /\ tick' = Blank
             /\ UNCHANGED <<slips, events>>
          \/ /\ Abandon
             /\ slips' = slips \cup Lost(up, DOMAIN up)
             /\ UNCHANGED db
  /\ UNCHANGED <<mem, sent>>

\* flow_by_id of every flow that moved or was closed, if it still has a row.
ReadBack(d, up) == {f \in DOMAIN up \cap DOMAIN d.rows : Moved(up, f) \/ ~up[f].active}

\* enforce_policy, then the rows of the batch are read back.
Enforce ==
  /\ work.stage = "policy"
  /\ mem' = [mem EXCEPT !.policyAt = IF Due THEN clock ELSE @]
  /\ \E S \in OldestRows(db) :
       \/ /\ db' = IF Due THEN Policy(db, 8, S, mem.history, clock) ELSE db
          /\ work' = [work EXCEPT !.stage = "rollup", !.read = ReadBack(db', work.up)]
          /\ slips' = slips \cup Lost(work.up, DOMAIN work.up \ DOMAIN db'.rows)
          /\ UNCHANGED <<tick, events>>
       \/ \E n \in 0..7 :
            /\ Due
            /\ db' = Policy(db, n, S, mem.history, clock)
            /\ Abandon
            /\ slips' = slips \cup Lost(work.up, DOMAIN work.up)
  /\ UNCHANGED <<clock, known, sent>>

Rollup ==
  /\ work.stage = "rollup"
  /\ \/ /\ db' = AddBuckets(db, work.up, work.read, clock)
        /\ work' = [work EXCEPT !.stage = "rates"]
        /\ UNCHANGED <<tick, slips, events>>
     \/ /\ Abandon
        /\ slips' = slips \cup Lost(work.up, DOMAIN work.up)
        /\ UNCHANGED db
  /\ UNCHANGED <<clock, known, mem, sent>>

\* store_entity_rates, and the event for the subscribers.
Publish ==
  /\ work.stage = "rates"
  /\ LET next == RatesOf(db, work.up, work.read)
     IN \/ /\ db' = StoreRates(db, next)
           /\ mem' = [mem EXCEPT !.mirror = next, !.details = Details(db, work.up, work.read)]
           /\ work' = Idle
           /\ tick' = Tick(db, work.up, work.read)
           /\ sent' = Over(tick'.full, sent)
           /\ UNCHANGED events
        \/ Abandon /\ UNCHANGED <<db, mem, sent>>
  /\ UNCHANGED <<clock, known, slips>>

\* clear_history: seven statements in a row, of which the first n take effect;
\* the memory is cleared in any case, the tracker keeps its totals.
ClearHistory ==
  \E n \in 0..7 :
    LET noRows == IF n >= 1 THEN DropRows(db, DOMAIN db.rows) ELSE db
    IN /\ work.stage = "idle" /\ events < MaxEvents
       /\ db' = [noRows EXCEPT
                   !.obs = IF n >= 2 THEN <<>> ELSE @,
                   !.minute = RestrictDomain(@, LAMBDA k : n < (IF k[1] = All THEN 3 ELSE 4)),
                   !.hour = RestrictDomain(@, LAMBDA k : n < (IF k[1] = All THEN 3 ELSE 4)),
                   !.rates = IF n >= 5 THEN <<>> ELSE @,
                   !.apps = IF n >= 6 THEN <<>> ELSE @]
       /\ mem' = [mem EXCEPT !.details = <<>>, !.mirror = <<>>]
       /\ slips' = slips \cup {"cleared"} \cup (IF n < 4 THEN {"rollups"} ELSE {})
                        \cup (IF n < 5 THEN {"rates"} ELSE {})
       /\ tick' = Blank
       /\ events' = events + 1
       /\ UNCHANGED <<clock, known, work, sent>>

\* save_settings and apply_settings: the row is written, then the policy is
\* enforced with it; the memory follows only when all of it succeeded.
SaveSettings ==
  \E history \in BOOLEAN, n \in 0..9, S \in OldestRows(db) :
    LET stored == [db EXCEPT !.history = history, !.version = mem.version + 1]
    IN /\ work.stage = "idle" /\ events < MaxEvents
       /\ n \in 1..8 => Due
       /\ db' = IF n = 0 THEN db
                ELSE Policy(stored, IF Due THEN n - 1 ELSE 0, S, history, clock)
       /\ mem' = [mem EXCEPT !.details = IF n > 0 THEN <<>> ELSE @,
                             !.policyAt = IF n > 0 /\ Due THEN clock ELSE @,
                             !.history = IF n = 9 THEN history ELSE @,
                             !.version = @ + 1]
       /\ tick' = Blank
       /\ events' = events + 1
       /\ UNCHANGED <<clock, known, work, sent, slips>>

\* A new process: an empty tracker and kernel map, and Db::open on the file.
Restart ==
  /\ events < MaxEvents
  /\ known' = [f \in Flow |-> [state |-> "none", total |-> 0, last |-> 0, app |-> None]]
  /\ mem' = Opened(db)
  /\ work' = Idle
  /\ tick' = Blank
  /\ sent' = <<>>
  /\ slips' = (slips \ {"rates"}) \cup
       (IF work.stage \in {"policy", "rollup"} THEN Lost(work.up, DOMAIN work.up) ELSE {})
  /\ events' = events + 1
  /\ UNCHANGED <<clock, db>>

Next == Begin \/ Enforce \/ Rollup \/ Publish \/ ClearHistory \/ SaveSettings \/ Restart

Spec == Init /\ [][Next]_vars

------------------------------------------------------------------------------
\* Properties

\* The counters of the overview and the domain index say what a scan of the
\* flows would say, whatever inserts, replaces or deletes rows and wherever it
\* stops (db.rs:167 "Whole-history Flow counters maintained by triggers").
MirrorsExact ==
  /\ db.stats = [flows |-> Cardinality(DOMAIN db.rows), active |-> Cardinality(ActiveIn(db.rows)),
                 named |-> Cardinality(NamedIn(db.rows))]
  /\ db.links = UNION {{f} \X db.rows[f].domains : f \in DOMAIN db.rows}

\* The difference that is written to entity_rates is taken against what the
\* table holds, so after an ingest the table has the rates of that interval and
\* no others; only a clear that stops before the table breaks this, until the
\* next start (db.rs:1267 store_entity_rates, 804 the mirror).
RatesExact ==
  "rates" \notin slips => /\ mem.mirror = db.rates
                          /\ tick.done => db.rates = tick.rates

\* Minutes and hours, traffic and endpoints are summed from the same deltas: no
\* failure, cleanup or restart leaves them with different sums for a time both
\* still cover (db.rs:1060 the second transaction, 1392 the cleanup).
RollupsAgree ==
  /\ \A e \in Entity, h \in 0..Hour(MaxClock) :
       SumOf(db.minute, {e} \X {t \in 0..MaxClock : Hour(t) = h}) <= SumOf(db.hour, {<<e, h>>})
  /\ "rollups" \notin slips =>
       \A h \in 0..Hour(MaxClock) :
         <<All, h>> \in DOMAIN db.hour =>
           db.hour[<<All, h>>] = SumOf(db.hour, {<<Endpoint(a), h>> : a \in Remote})

\* Everything the store derives from its rows and deltas instead of computing it
\* says what computing it would say.
AggregatesAreExact == MirrorsExact /\ RatesExact /\ RollupsAgree

\* What the rows of an address say was transferred is in its rollups: totals
\* are replaced by the kernel's and rollups grow by deltas, and the two stay
\* together over closures, reopenings, recreated entries and restarts, as long
\* as no delta was lost, no history cleared and no hour aged out.
RowsAreBacked ==
  (slips \cap {"delta", "cleared"} = {} /\ clock <= HourKeep /\ work.stage \in {"idle", "rates"}) =>
    \A a \in Remote :
      SumOf([f \in DOMAIN db.rows |-> db.rows[f].total], {f \in Flow : RemoteOf[f] = a})
        <= SumOf(db.hour, {Endpoint(a)} \X (0..Hour(MaxClock)))

\* An Application is kept as long as an update that named it is within the
\* retention: its own last_seen never falls behind the packets of the rows it
\* was found for, whichever flows named it and in which order (db.rs:3894
\* upsert_application, 1379 the cleanup of applications).  A row whose later
\* updates name no Application has a newer last_seen than its Application's and
\* may outlive it.
AppsAreKept ==
  \A f \in DOMAIN db.rows :
    LET row == db.rows[f]
    IN row.app # None /\ row.vouched >= clock - Retention =>
         row.app \in DOMAIN db.apps /\ db.apps[row.app] >= row.vouched

\* No record that another one rests on is missing or behind it.
RecordsAreKept == RowsAreBacked /\ AppsAreKept

\* A reader that followed the stream can apply a patch: it has had a full record
\* with the state, Application and domains the row has now, also after the flow
\* was closed and reused (db.rs:1184 the compact patch).  It says nothing of the
\* fields flow_detail_signature leaves out (db.rs:4445).
PatchesApply ==
  \A f \in tick.patched : f \in DOMAIN sent /\ sent[f] = Signature(db, f)

\* A name is never put on a flow after its evidence has expired (PRD.md:364).
NoLateAssociation ==
  [][\A f \in DOMAIN db'.rows :
       \A x \in db'.rows[f].domains \
                  (IF f \in DOMAIN db.rows THEN db.rows[f].domains ELSE {}) :
         <<x, RemoteOf[f]>> \in DOMAIN db'.obs /\ db'.obs[<<x, RemoteOf[f]>>] + Ttl > clock']_vars

=============================================================================
