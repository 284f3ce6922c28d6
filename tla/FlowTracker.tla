----------------------------- MODULE FlowTracker -----------------------------
(***************************************************************************)
(* Flow accounting: the eBPF programs count packets into an LRU map        *)
(* (zimascope-ebpf/src/tc.rs) while the worker walks it once a poll and    *)
(* turns what it read into deltas and closures (collector/tracker.rs,      *)
(* collector/mod.rs).  Nothing synchronises the two: an entry is read while*)
(* it is written, and may be evicted and created again between two reads.  *)
(* Services, owners and addresses ride along and are left out.             *)
(***************************************************************************)
EXTENDS Integers, Sequences

CONSTANTS
  Flow,            \* flow keys, in the order the map is walked
  None,
  Size,            \* packet lengths
  Flags,           \* what a packet may carry, sets of TCP flags
  Partial,         \* the parts of a value that may be stored before the rest
  IdleTimeout,     \* CollectorConfig::idle_timeout (30 s)
  EndedRetention,  \* max(4 * idle_timeout, 120 s)
  MaxTime,         \* bound: the clock; every packet takes one instant
  MaxPackets,      \* bound: packets over a behaviour
  MaxEvictions,    \* bound: entries the kernel evicts
  MaxFails         \* bound: map reads that fail

\* packets and bytes; FlowValue; PreviousFlow, as far as it is read again.
\* "born" is not in the code: what had been counted of the flow before the entry.
Traffic == [packets : Nat, bytes : Nat]
Value == [packets : Nat, bytes : Nat, first : Nat, stamp : Nat,
          flags : SUBSET {"FIN", "RST"}, born : Traffic]
Reason == {"tcp_reset", "tcp_fin", "idle_timeout", "evicted"}
Kept == [packets : Nat, bytes : Nat, stamp : Nat, flags : SUBSET {"FIN", "RST"},
         state : {"active"} \cup Reason]
Reading == [flow : Flow, value : Value]

ASSUME TrackerAssumption ==
  /\ Flow \subseteq Nat \ {0}
  /\ None \notin Value /\ None \notin Kept /\ None \notin Reading /\ None \notin Int
  /\ Size \subseteq Nat \ {0}
  /\ Flags \subseteq SUBSET {"FIN", "RST"}
  /\ Partial \subseteq SUBSET {"packets", "bytes", "stamp", "flags"}
  /\ IdleTimeout \in Nat \ {0}
  /\ EndedRetention \in Nat /\ EndedRetention >= IdleTimeout
  /\ MaxTime \in Nat /\ MaxPackets \in Nat
  /\ MaxEvictions \in Nat /\ MaxFails \in Nat

VARIABLES
  now,       \* CLOCK_MONOTONIC, read by both sides
  kernel,    \* FLOW_MAP: one value per flow, summed over the CPUs
  writing,   \* the packet a program is recording: [flow, value], or None
  phase,     \* the worker: "idle", "walking" or "reconciling"
  started,   \* poll_started
  cursor,    \* the key the walk stands at; 0 before the first
  walk,      \* FlowTracker::merged
  offset,    \* MonoClock: what turns a kernel stamp into an Instant
  previous,  \* FlowTracker::previous
  seen,      \* the flows met in this generation of reconcile
  \* What the environment and the consumers of the updates know.
  counted,   \* packets and bytes of each flow since the start
  reported,  \* the sum of its deltas
  shown,     \* the state of its last update
  lastRead,  \* the last reading the tracker took in
  before,    \* the map as the last poll began
  complete,  \* the last poll read the map to its end
  packets, evictions, fails   \* counters for the bounds

kernelVars == <<kernel, writing>>
pollVars == <<phase, started, cursor, walk>>
trackerVars == <<offset, previous, seen>>
updateVars == <<reported, shown, lastRead>>
counters == <<packets, evictions, fails>>
vars == <<now, kernelVars, pollVars, trackerVars, counted, updateVars,
          before, complete, counters>>

Nothing == [packets |-> 0, bytes |-> 0]
Plus(a, b) == [packets |-> a.packets + b.packets, bytes |-> a.bytes + b.bytes]
Total(v) == [packets |-> v.packets, bytes |-> v.bytes]

Init ==
  /\ now = 0
  /\ kernel = [f \in Flow |-> None]
  /\ writing = None
  /\ phase = "idle" /\ started = 0 /\ cursor = 0 /\ walk = <<>>
  /\ offset = None
  /\ previous = [f \in Flow |-> None]
  /\ seen = {}
  /\ counted = [f \in Flow |-> Nothing]
  /\ reported = [f \in Flow |-> Nothing]
  /\ shown = [f \in Flow |-> "none"]
  /\ lastRead = [f \in Flow |-> None]
  /\ before = [f \in Flow |-> None]
  /\ complete = FALSE
  /\ packets = 0 /\ evictions = 0 /\ fails = 0

-----------------------------------------------------------------------------
\* The kernel side.
\* record: the value after one more packet.
Recorded(v, size, flags, t) ==
  [packets |-> v.packets + 1, bytes |-> v.bytes + size,
   first |-> v.first, stamp |-> t, flags |-> v.flags \cup flags, born |-> v.born]

\* What is seen of the new value when only some fields have been stored.
Half(old, new, stored) ==
  [field \in DOMAIN old |-> IF field \in stored THEN new[field] ELSE old[field]]

\* A packet of a flow that has no entry: the value is built on the stack and
\* inserted whole.
FirstPacket(f, size, flags) ==
  /\ packets < MaxPackets /\ now < MaxTime
  /\ kernel[f] = None
  /\ now' = now + 1
  /\ packets' = packets + 1
  /\ kernel' = [kernel EXCEPT ![f] =
       [packets |-> 1, bytes |-> size, first |-> now + 1, stamp |-> now + 1,
        flags |-> flags, born |-> counted[f]]]
  /\ counted' = [counted EXCEPT ![f] = Plus(@, [packets |-> 1, bytes |-> size])]
  /\ UNCHANGED <<writing, pollVars, trackerVars, updateVars, before, complete,
                 evictions, fails>>

\* A packet of a flow that has one.  The fields are stored one by one and the
\* worker copies them one by one, with no lock: it may see any part of them.
\* Recording takes an instant, no tick and no second poll.
Packet(f, size, flags, stored) ==
  /\ packets < MaxPackets /\ now < MaxTime
  /\ kernel[f] # None
  /\ writing = None
  /\ now' = now + 1
  /\ packets' = packets + 1
  /\ LET new == Recorded(kernel[f], size, flags, now + 1)
     IN /\ writing' = [flow |-> f, value |-> new]
        /\ kernel' = [kernel EXCEPT ![f] = Half(@, new, stored)]
  /\ counted' = [counted EXCEPT ![f] = Plus(@, [packets |-> 1, bytes |-> size])]
  /\ UNCHANGED <<pollVars, trackerVars, updateVars, before, complete,
                 evictions, fails>>

Stored ==
  /\ writing # None
  /\ kernel' = [kernel EXCEPT ![writing.flow] = writing.value]
  /\ writing' = None
  /\ UNCHANGED <<now, pollVars, trackerVars, counted, updateVars, before,
                 complete, counters>>

\* The LRU map makes room for another key.
Evict(f) ==
  /\ evictions < MaxEvictions
  /\ kernel[f] # None
  /\ evictions' = evictions + 1
  /\ kernel' = [kernel EXCEPT ![f] = None]
  /\ writing' = IF writing # None /\ writing.flow = f THEN None ELSE writing
  /\ UNCHANGED <<now, pollVars, trackerVars, counted, updateVars, before,
                 complete, packets, fails>>

Tick ==
  /\ now < MaxTime
  /\ writing = None
  /\ now' = now + 1
  /\ UNCHANGED <<kernelVars, pollVars, trackerVars, counted, updateVars, before,
                 complete, counters>>

-----------------------------------------------------------------------------
\* The poll: visit_flows.
BeginPoll ==
  /\ phase = "idle"
  /\ writing = None
  /\ phase' = "walking"
  /\ started' = now
  /\ walk' = <<>>
  /\ complete' = FALSE
  /\ before' = kernel
  /\ UNCHANGED <<now, kernelVars, cursor, trackerVars, counted, updateVars,
                 counters>>

\* bpf_map_get_next_key starts again from the first key when the one it is
\* given has gone.
From == IF cursor # 0 /\ kernel[cursor] = None THEN 0 ELSE cursor
\* Variant: the walk ends where its key has gone.
AheadOrLost == IF From # cursor THEN {} ELSE {f \in Flow : f > From /\ kernel[f] # None}
Ahead == {f \in Flow : f > From /\ kernel[f] # None}

\* merge_entry, over the CPUs' slots of one entry.
Visit(f) ==
  /\ phase = "walking"
  /\ f \in Ahead
  /\ \A g \in Ahead : f <= g
  /\ walk' = Append(walk, [flow |-> f, value |-> kernel[f]])
  /\ cursor' = f
  /\ UNCHANGED <<now, kernelVars, phase, started, trackerVars, counted, updateVars,
                 before, complete, counters>>

\* reconcile anchors the clock at the newest stamp it read, and else the first
\* domain sample does.
Anchor(stamps) ==
  IF offset # None \/ stamps = {} THEN {offset}
  ELSE {started - s : s \in {t \in stamps : \A u \in stamps : u <= t}}

Readings == {walk[i].value : i \in 1..Len(walk)}

WalkEnds ==
  /\ phase = "walking"
  /\ Ahead = {}
  /\ phase' = "reconciling"
  /\ cursor' = 0
  /\ offset' \in Anchor({v.stamp : v \in Readings})
  /\ UNCHANGED <<now, kernelVars, started, walk, previous, seen, counted,
                 updateVars, before, complete, counters>>

\* A domain sample read in the same poll, of a packet still in the map.
Samples == {{}} \cup {{kernel[f].stamp} : f \in {g \in Flow : kernel[g] # None}}

\* A map read that fails leaves the tracker alone.
WalkFails ==
  /\ phase = "walking"
  /\ fails < MaxFails
  /\ fails' = fails + 1
  /\ phase' = "idle"
  /\ cursor' = 0
  /\ \E stamps \in Samples : offset' \in Anchor(stamps)
  /\ UNCHANGED <<now, kernelVars, started, walk, previous, seen, counted,
                 updateVars, before, complete, packets, evictions>>
-----------------------------------------------------------------------------
\* reconcile.
Age(p) == started - (p.stamp + offset)

\* observe: the merged value v of flow f.  A value lower than the last one is
\* taken for a new entry.
Recreated(p, v) == v.packets < p.packets \/ v.bytes < p.bytes
\* Variant: an equal stamp passes for news.
ActiveAgain(p, v) == Recreated(p, v) \/ v.stamp >= p.stamp
Active(p, v) == Recreated(p, v) \/ v.stamp > p.stamp
Minus(m, n) == IF n <= m THEN m - n ELSE 0   \* saturating_sub
Delta(p, v) ==
  IF Recreated(p, v) THEN Total(v)
  ELSE [packets |-> Minus(v.packets, p.packets), bytes |-> Minus(v.bytes, p.bytes)]
Gained(p, v, flag) == flag \in v.flags \ p.flags
\* Variant: the age of the previous reading alone.
StateByAge(p, v) == IF Age(p) >= IdleTimeout THEN "idle_timeout" ELSE "active"
NextState(p, v) ==
  IF Gained(p, v, "RST") THEN "tcp_reset"
  ELSE IF Gained(p, v, "FIN") THEN "tcp_fin"
  ELSE IF ~Active(p, v) /\ Age(p) >= IdleTimeout THEN "idle_timeout"
  ELSE "active"

Remember(v, state) ==
  [packets |-> v.packets, bytes |-> v.bytes, stamp |-> v.stamp, flags |-> v.flags,
   state |-> state]

\* One FlowUpdate.
Update(f, delta, state) ==
  /\ reported' = [reported EXCEPT ![f] = Plus(@, delta)]
  /\ shown' = [shown EXCEPT ![f] = state]

Insert(f, v) ==
  /\ previous[f] = None
  /\ previous' = [previous EXCEPT ![f] = Remember(v, "active")]
  /\ Update(f, Total(v), "active")
  /\ lastRead' = [lastRead EXCEPT ![f] = v]

\* Nothing new of a flow that has ended.
Silent(f, v) ==
  /\ previous[f] # None
  /\ ~Active(previous[f], v) /\ previous[f].state # "active"
  /\ UNCHANGED <<previous, updateVars>>

Renew(f, v) ==
  /\ previous[f] # None
  /\ Active(previous[f], v) \/ previous[f].state = "active"
  /\ LET state == NextState(previous[f], v)
     IN /\ previous' = [previous EXCEPT ![f] = Remember(v, state)]
        /\ Update(f, Delta(previous[f], v), state)
  /\ lastRead' = [lastRead EXCEPT ![f] = v]

Observe ==
  /\ phase = "reconciling"
  /\ walk # <<>>
  /\ LET f == Head(walk).flow
         v == Head(walk).value
     IN /\ Insert(f, v) \/ Silent(f, v) \/ Renew(f, v)
        /\ seen' = seen \cup {f}
  /\ walk' = Tail(walk)
  /\ UNCHANGED <<now, kernelVars, phase, started, cursor, offset, counted, before,
                 complete, counters>>

\* The flows this walk did not meet: open ones end after the idle timeout and
\* are forgotten, ended ones are forgotten later, in silence.
\* Variant: the generation is not compared.
AnyPrevious == {f \in Flow : previous[f] # None}
Missing == {f \in Flow \ seen : previous[f] # None}
Lost == {f \in Missing : previous[f].state = "active" /\ Age(previous[f]) >= IdleTimeout}
Expired == {f \in Missing : previous[f].state # "active"
                            /\ Age(previous[f]) >= EndedRetention}

\* Variant: lost flows are dropped without an update.
RetainSilently ==
  /\ phase = "reconciling"
  /\ walk = <<>>
  /\ previous' = [f \in Flow |-> IF f \in Lost \cup Expired THEN None ELSE previous[f]]
  /\ phase' = "idle"
  /\ seen' = {}
  /\ complete' = TRUE
  /\ UNCHANGED <<now, kernelVars, started, cursor, walk, offset, counted, updateVars,
                 before, counters>>

Retain ==
  /\ phase = "reconciling"
  /\ walk = <<>>
  /\ previous' = [f \in Flow |-> IF f \in Lost \cup Expired THEN None ELSE previous[f]]
  /\ shown' = [f \in Flow |-> IF f \in Lost THEN "evicted" ELSE shown[f]]
  /\ phase' = "idle"
  /\ seen' = {}
  /\ complete' = TRUE
  /\ \E stamps \in Samples : offset' \in Anchor(stamps)
  /\ UNCHANGED <<now, kernelVars, started, cursor, walk, counted, reported,
                 lastRead, before, counters>>

Next ==
  \/ \E f \in Flow, size \in Size, flags \in Flags : FirstPacket(f, size, flags)
  \/ \E f \in Flow, size \in Size, flags \in Flags, stored \in Partial :
        Packet(f, size, flags, stored)
  \/ Stored
  \/ \E f \in Flow : Evict(f)
  \/ Tick
  \/ BeginPoll
  \/ \E f \in Flow : Visit(f)
  \/ WalkEnds
  \/ WalkFails
  \/ Observe
  \/ Retain

Spec == Init /\ [][Next]_vars

-----------------------------------------------------------------------------
\* Properties.
\* Every variable has its type.
TypeOK ==
  /\ now \in Nat /\ started \in Nat
  /\ kernel \in [Flow -> Value \cup {None}]
  /\ writing \in Reading \cup {None}
  /\ phase \in {"idle", "walking", "reconciling"}
  /\ cursor \in Flow \cup {0}
  /\ walk \in Seq(Reading)
  /\ offset \in Int \cup {None}
  /\ previous \in [Flow -> Kept \cup {None}]
  /\ seen \subseteq Flow
  /\ counted \in [Flow -> Traffic] /\ reported \in [Flow -> Traffic]
  /\ shown \in [Flow -> {"none", "active"} \cup Reason]
  /\ lastRead \in [Flow -> Value \cup {None}]
  /\ before \in [Flow -> Value \cup {None}]
  /\ complete \in BOOLEAN
  /\ packets \in Nat /\ evictions \in Nat /\ fails \in Nat

\* The deltas of a flow never add up to more than the packets that were
\* counted, however the map is evicted, torn or walked twice (the saturating
\* subtraction and the recreation test of observe, the retention of ended
\* flows).
NeverOvercounts ==
  \A f \in Flow : /\ reported[f].packets <= counted[f].packets
                  /\ reported[f].bytes <= counted[f].bytes

\* After a poll that read the map to its end, an entry that was there when it
\* began has had all its packets taken in, but for at most the one that was
\* being recorded when the flow closed; and until something is evicted what has
\* been reported is the total last read (poll algorithm, steps 1 and 3).
PollIsComplete ==
  /\ complete => \A f \in Flow :
       before[f] # None /\ kernel[f] # None /\ kernel[f].first = before[f].first =>
         /\ previous[f] # None
         /\ IF previous[f].state = "active"
            THEN previous[f].packets >= before[f].packets
            ELSE previous[f].packets + 1 >= before[f].packets
  /\ evictions = 0 => \A f \in Flow :
       reported[f] = IF previous[f] = None THEN Nothing ELSE Total(previous[f])

\* A flow the consumers hold open is one the tracker will yet close: entries
\* leave FlowTracker::previous only with a closing update, or already ended.
OpenFlowsAreTracked ==
  \A f \in Flow :
    shown[f] = "active" <=> previous[f] # None /\ previous[f].state = "active"

\* A flow is closed as evicted only when the entry last read is really gone,
\* and not because a read failed or stopped early (reconcile's contract).
EvictedIsGone ==
  \A f \in Flow : shown[f] = "evicted" /\ kernel[f] # None =>
    kernel[f].first # lastRead[f].first

\* What a consumer is told of a flow's end is true on both sides: nothing is
\* open that will never be closed, and nothing is closed as evicted that is
\* still counted (reconcile's retain and its closing updates).
ClosuresAreTrue == OpenFlowsAreTracked /\ EvictedIsGone

\* The clock's error: negative when the anchor is a packet of the first walk.
Skew == IF offset # None /\ offset < 0 THEN 0 - offset ELSE 0

\* A flow is closed as idle only if the map held no packet of it younger than
\* the idle timeout when the poll began, up to the error of MonoClock's anchor.
IdleIsQuiet ==
  [][\A f \in Flow :
       shown'[f] = "idle_timeout" /\ shown[f] # "idle_timeout" /\ before[f] # None
         => started - before[f].stamp >= IdleTimeout - Skew]_vars

\* A flow that was closed is opened again only by a packet recorded after the
\* reading that closed it, and closed again only on such a packet too (observe:
\* an ended flow with nothing new makes no update).
ReopensOnNews ==
  [][\A f \in Flow : shown[f] \in Reason /\ shown'[f] # shown[f] =>
       lastRead'[f].stamp > lastRead[f].stamp]_vars
=============================================================================
