----------------------------- MODULE TokenBucket -----------------------------
(***************************************************************************)
(* The token bucket of one Traffic Rule in one direction: the packet path  *)
(* that spends from it (enforce and refill in zimascope-ebpf/src/policy.rs)*)
(* and the worker that changes its parameters (AyaKernelSource::apply_policy*)
(* in zimascoped/src/collector/aya.rs, in the order of policy::diff).      *)
(* Packets of several CPUs meet in the bucket's spin lock; the worker reads*)
(* the bucket and writes it back in two map operations.                    *)
(***************************************************************************)
EXTENDS Integers

CONSTANTS
  Cpu,
  Nothing,
  Size,        \* packet lengths
  Params,      \* rate_bytes_per_s and burst_bytes; both zero for a block
  Second,      \* NS_PER_SECOND, and REFILL_CAP_NS
  MaxTime,     \* bound: the clock
  MaxPackets,  \* bound: packets that meet the rule
  MaxUpdates,  \* bound: changes of the rule that succeed
  MaxMapFaults    \* bound: map operations that fail

ASSUME BucketAssumption ==
  /\ Size \subseteq Nat \ {0}
  /\ Params \subseteq [rate : Nat, burst : Nat]
  /\ \A p \in Params : p.burst <= p.rate    \* the API derives burst from rate
  /\ Second \in Nat \ {0}
  /\ MaxTime \in Nat /\ MaxPackets \in Nat /\ MaxUpdates \in Nat /\ MaxMapFaults \in Nat

RuleState == [rate : Nat, burst : Nat, tokens : Nat, last : Nat,
              matched : Nat, dropped : Nat]
Action == {"limit", "block"}
Matched == [action : Action, size : Size, since : Nat]

ASSUME NothingAssumption ==
  Nothing \notin RuleState /\ Nothing \notin Matched /\ Nothing \notin Action /\ Nothing \notin Params

VARIABLES
  now,      \* bpf_ktime_get_ns
  ref,      \* the rule's match entry: its action, or Nothing
  state,    \* the entry of rule_states, or Nothing
  cpu,      \* the packet a CPU has matched and not yet charged, or Nothing
  step,     \* the operation the worker is at: "idle", "read", "store", ...
  want,     \* the rule being installed, Nothing when it is being removed
  holding,  \* what the worker read of the state
  inForce,  \* the rule as applied_policy has it
  \* What the properties compare with.
  top,      \* the most tokens there were, or may be, as the parameters were stored
  opened,   \* the time of that, or of the oldest packet then in flight
  passed,   \* bytes passed since
  mark,     \* state.last as the last packet passed, or the parameters were stored
  refused,  \* the last limited packet dropped since: [size, stamp], or Nothing
  packets, updates, mapFaults   \* counters for the bounds

stepVars == <<step, want, holding, inForce>>
ghostVars == <<top, opened, passed, mark, refused>>
bucketCounters == <<packets, updates, mapFaults>>
bucketVars == <<now, ref, state, cpu, stepVars, ghostVars, bucketCounters>>

ActionOf(p) == IF p.rate = 0 THEN "block" ELSE "limit"
Least(a, b) == IF a <= b THEN a ELSE b
Most(a, b) == IF a <= b THEN b ELSE a

BucketInit ==
  /\ now = 0
  /\ ref = Nothing /\ state = Nothing
  /\ cpu = [c \in Cpu |-> Nothing]
  /\ step = "idle" /\ want = Nothing /\ holding = Nothing /\ inForce = Nothing
  /\ top = 0 /\ opened = 0 /\ passed = 0 /\ mark = 0 /\ refused = Nothing
  /\ packets = 0 /\ updates = 0 /\ mapFaults = 0

Tick ==
  /\ now < MaxTime
  /\ now' = now + 1
  /\ UNCHANGED <<ref, state, cpu, stepVars, ghostVars, bucketCounters>>

-----------------------------------------------------------------------------
\* The packet path.
\* evaluate finds the rule's match entry.
Match(c, size) ==
  /\ packets < MaxPackets
  /\ cpu[c] = Nothing
  /\ ref # Nothing
  /\ packets' = packets + 1
  /\ cpu' = [cpu EXCEPT ![c] = [action |-> ref, size |-> size, since |-> now]]
  /\ UNCHANGED <<now, ref, state, stepVars, ghostVars, updates, mapFaults>>

\* Variant: the difference is taken in whatever order it comes.
ElapsedEither(s, t) == Least(IF t <= s.last THEN s.last - t ELSE t - s.last, Second)
Elapsed(s, t) == Least(IF t <= s.last THEN 0 ELSE t - s.last, Second)
Gain(s, t) == (Elapsed(s, t) * s.rate) \div Second
\* Variant: a refill that adds nothing moves the time as well.
RefilledAlways(s, t) ==
  [s EXCEPT !.tokens = Least(@ + Gain(s, t), s.burst), !.last = Most(@, t)]
Refilled(s, t) ==
  IF Gain(s, t) > 0
  THEN [s EXCEPT !.tokens = Least(@ + Gain(s, t), s.burst), !.last = t]
  ELSE s

Counted(s) == [s EXCEPT !.matched = @ + 1]

Pass(s, k) ==
  /\ k.action = "limit"
  /\ s.tokens >= k.size
  /\ state' = [s EXCEPT !.tokens = @ - k.size]
  /\ passed' = passed + k.size
  /\ mark' = s.last
  /\ refused' = Nothing

Drop(s, k, t) ==
  /\ k.action = "block" \/ s.tokens < k.size
  /\ state' = [s EXCEPT !.dropped = @ + 1]
  /\ refused' = IF k.action = "limit" THEN [size |-> k.size, stamp |-> t] ELSE refused
  /\ UNCHANGED <<passed, mark>>

\* enforce: the time t is read before the lock is taken, and a CPU may wait for
\* the lock while others take it with a later one.
Charge(c, t) ==
  /\ cpu[c] # Nothing
  /\ state # Nothing
  /\ cpu[c].since <= t /\ t <= now
  /\ LET s == Counted(Refilled(state, t))
     IN Pass(s, cpu[c]) \/ Drop(s, cpu[c], t)
  /\ cpu' = [cpu EXCEPT ![c] = Nothing]
  /\ UNCHANGED <<now, ref, stepVars, top, opened, bucketCounters>>

\* record_missing_state: the packet passes.
Missing(c) ==
  /\ cpu[c] # Nothing
  /\ state = Nothing
  /\ cpu' = [cpu EXCEPT ![c] = Nothing]
  /\ UNCHANGED <<now, ref, state, stepVars, ghostVars, bucketCounters>>

-----------------------------------------------------------------------------
\* The worker.
\* diff: what is done first to install the rule p, or to remove it.
ChangeRule(p) ==
  /\ step = "idle"
  /\ updates < MaxUpdates
  /\ p # inForce
  /\ want' = p
  /\ step' = IF p = Nothing THEN "unmatch" ELSE "read"
  /\ UNCHANGED <<now, ref, state, cpu, holding, inForce, ghostVars, bucketCounters>>

\* The last operation is done.
Done(p) ==
  /\ step' = "idle"
  /\ inForce' = p
  /\ updates' = updates + 1

\* UpsertState, its lookup; one that fails is taken for a miss.
ReadState ==
  /\ step = "read"
  /\ \/ holding' = state /\ UNCHANGED mapFaults
     \/ holding' = Nothing /\ mapFaults < MaxMapFaults /\ mapFaults' = mapFaults + 1
  /\ step' = "store"
  /\ UNCHANGED <<now, ref, state, cpu, want, inForce, ghostVars, packets, updates>>

Upserted(old, p) ==
  IF old = Nothing
  THEN [rate |-> p.rate, burst |-> p.burst, tokens |-> p.burst, last |-> 0,
        matched |-> 0, dropped |-> 0]
  ELSE [old EXCEPT !.rate = p.rate, !.burst = p.burst]

\* diff adds no UpsertMatch for a rule whose action stays.
SameAction == inForce # Nothing /\ ActionOf(inForce) = ActionOf(want)

Oldest == {now} \cup {cpu[c].since : c \in {d \in Cpu : cpu[d] # Nothing}}

\* UpsertState, its insert.
StoreState ==
  /\ step = "store"
  /\ state' = Upserted(holding, want)
  /\ holding' = Nothing
  /\ IF SameAction
     THEN Done(want)
     ELSE step' = "match" /\ UNCHANGED <<inForce, updates>>
  /\ top' = Most(Upserted(holding, want).tokens, want.burst)
  /\ opened' \in {t \in Oldest : \A u \in Oldest : t <= u}
  /\ passed' = 0
  /\ mark' = Upserted(holding, want).last
  /\ refused' = Nothing
  /\ UNCHANGED <<now, ref, cpu, want, packets, mapFaults>>

PutMatch ==
  /\ step = "match"
  /\ ref' = ActionOf(want)
  /\ Done(want)
  /\ UNCHANGED <<now, state, cpu, want, holding, ghostVars, packets, mapFaults>>

DropMatch ==
  /\ step = "unmatch"
  /\ ref # Nothing
  /\ ref' = Nothing
  /\ step' = "drop"
  /\ UNCHANGED <<now, state, cpu, want, holding, inForce, ghostVars, bucketCounters>>

DropState ==
  /\ step = "drop"
  /\ state # Nothing
  /\ state' = Nothing
  /\ Done(Nothing)
  /\ UNCHANGED <<now, ref, cpu, want, holding, ghostVars, packets, mapFaults>>

GiveUp ==
  /\ step' = "idle"
  /\ holding' = Nothing
  /\ UNCHANGED <<now, ref, state, cpu, want, inForce, ghostVars, packets, updates>>

\* A map refuses to remove what it does not hold.
RefuseRemoval ==
  /\ step = "unmatch" /\ ref = Nothing
  /\ UNCHANGED mapFaults
  /\ GiveUp

\* A map operation fails.
FailMap ==
  /\ step \notin {"idle", "read"}
  /\ mapFaults < MaxMapFaults
  /\ mapFaults' = mapFaults + 1
  /\ GiveUp

BucketNext ==
  \/ Tick
  \/ \E c \in Cpu, size \in Size : Match(c, size)
  \/ \E c \in Cpu, t \in 0..now : Charge(c, t)
  \/ \E c \in Cpu : Missing(c)
  \/ \E p \in Params \cup {Nothing} : ChangeRule(p)
  \/ ReadState \/ StoreState \/ PutMatch \/ DropMatch \/ DropState
  \/ RefuseRemoval \/ FailMap

BucketSpec == BucketInit /\ [][BucketNext]_bucketVars

-----------------------------------------------------------------------------
\* Properties.
\* Every variable has its type; the tokens of a bucket never run below zero.
TypeOK ==
  /\ now \in Nat
  /\ ref \in Action \cup {Nothing}
  /\ state \in RuleState \cup {Nothing}
  /\ cpu \in [Cpu -> Matched \cup {Nothing}]
  /\ step \in {"idle", "read", "store", "match", "unmatch", "drop"}
  /\ want \in Params \cup {Nothing} /\ inForce \in Params \cup {Nothing}
  /\ step \in {"read", "store", "match"} => want # Nothing
  /\ holding \in RuleState \cup {Nothing}
  /\ top \in Nat /\ opened \in Nat /\ passed \in Nat /\ mark \in Nat
  /\ refused \in [size : Size, stamp : Nat] \cup {Nothing}
  /\ packets \in Nat /\ updates \in Nat /\ mapFaults \in Nat

\* A limit holds (enforce, refill): whatever CPUs wait for the lock with a time
\* they read before it, no more has passed since the parameters were stored than
\* one full bucket, the rate times the time since, and one byte of rounding.
LimitHolds ==
  state # Nothing =>
    Second * passed <= Second * (top + 1) + state.rate * (now - opened)

\* A limit does not starve (refill leaves the time alone when it adds nothing):
\* a packet that fits the bucket is dropped only if, since the last one passed,
\* less than twice its length could have been earned at the rate.
HalfTheRate ==
  state # Nothing /\ refused # Nothing /\ refused.size <= state.burst =>
      state.rate * (refused.stamp - mark) < Second * (2 * refused.size + 1)

=============================================================================
