-------------------------- MODULE FlowTrackerProofs --------------------------
(***************************************************************************)
(* What FlowTracker keeps for any flows, packets and timeouts: the deltas  *)
(* never exceed what was counted, an open flow stays tracked, a flow closed*)
(* as evicted is gone and one closed as idle was quiet, and a whole poll   *)
(* takes in all it found.  The argument follows the readings of one flow:  *)
(* what the tracker took in, what the walk holds and what the map holds are*)
(* in the order they were written.                                         *)
(***************************************************************************)
EXTENDS FlowTracker, SequenceTheorems, TLAPS

-----------------------------------------------------------------------------
\* The inductive invariant.
Leq(a, b) == a.packets <= b.packets /\ a.bytes <= b.bytes

\* Everything counted of the flow when the value v was read.
Upto(v) == Plus(v.born, Total(v))

\* Two values of one entry, the first read no later than the second.
Grows(v, w) ==
  /\ v.first = w.first /\ v.born = w.born
  /\ v.packets <= w.packets /\ v.bytes <= w.bytes /\ v.stamp <= w.stamp

\* Values of two entries, the first evicted before the second was created.
Replaced(v, w) == v.stamp < w.first /\ Leq(Upto(v), w.born)

Precedes(v, w) == Grows(v, w) \/ Replaced(v, w)

Sound(f, v) == v.first <= v.stamp /\ v.stamp <= now /\ Leq(Upto(v), counted[f])

KernelInv == \A f \in Flow : kernel[f] # None => Sound(f, kernel[f])

WritingInv ==
  writing # None => /\ kernel[writing.flow] # None
                    /\ Grows(kernel[writing.flow], writing.value)
                    /\ Sound(writing.flow, writing.value)

ReadInv ==
  \A f \in Flow : lastRead[f] # None =>
    /\ Sound(f, lastRead[f])
    /\ kernel[f] # None => Precedes(lastRead[f], kernel[f])

\* A reading of the walk lies between what was taken in and the map.
Between(f, v) ==
  /\ Sound(f, v)
  /\ kernel[f] # None => Precedes(v, kernel[f])
  /\ lastRead[f] # None => Precedes(lastRead[f], v)
  /\ lastRead[f] # None /\ previous[f] = None => Replaced(lastRead[f], v)

WalkInv ==
  \A i \in 1..Len(walk) :
    /\ Between(walk[i].flow, walk[i].value)
    /\ \A j \in 1..Len(walk) :
         i < j /\ walk[i].flow = walk[j].flow => Precedes(walk[i].value, walk[j].value)

CountInv ==
  \A f \in Flow :
    IF lastRead[f] = None THEN reported[f] = Nothing /\ previous[f] = None
    ELSE Leq(reported[f], Upto(lastRead[f]))

PreviousInv ==
  \A f \in Flow :
    IF previous[f] = None
    THEN shown[f] # "active" /\ (lastRead[f] = None => shown[f] = "none")
    ELSE /\ lastRead[f] # None
         /\ Total(previous[f]) = Total(lastRead[f])
         /\ previous[f].stamp = lastRead[f].stamp
         /\ shown[f] = previous[f].state /\ shown[f] # "evicted"

\* What the tracker has forgotten will not be read again.
ForgottenInv ==
  \A f \in Flow : previous[f] = None /\ lastRead[f] # None /\ kernel[f] # None =>
    Replaced(lastRead[f], kernel[f])

\* The entry the tracker knows is in the map, and must be in the walk.
Known(f) == /\ kernel[f] # None /\ lastRead[f] # None
            /\ kernel[f].first = lastRead[f].first
InWalk(f) == \E i \in 1..Len(walk) : walk[i].flow = f

CoverInv ==
  /\ phase \in {"idle", "reconciling"} => cursor = 0
  /\ phase = "walking" => \A f \in Flow : f <= cursor /\ Known(f) => InWalk(f)
  /\ phase = "reconciling" => \A f \in Flow : Known(f) => f \in seen \/ InWalk(f)

Inv == /\ KernelInv /\ WritingInv /\ ReadInv /\ WalkInv /\ CountInv
       /\ PreviousInv /\ ForgottenInv /\ CoverInv

-----------------------------------------------------------------------------
\* Types.
LEMMA PlusType ==
  ASSUME NEW a \in Traffic, NEW b \in Traffic
  PROVE  Plus(a, b) \in Traffic
BY DEF Plus, Traffic

LEMMA TotalType ==
  ASSUME NEW v \in Value
  PROVE  Total(v) \in Traffic
BY DEF Total, Traffic, Value

LEMMA RecordedType ==
  ASSUME NEW v \in Value, NEW size \in Size, NEW flags \in Flags, NEW t \in Nat
  PROVE  Recorded(v, size, flags, t) \in Value
<1>1. size \in Nat /\ flags \subseteq {"FIN", "RST"}
  BY TrackerAssumption
<1>2. v.flags \cup flags \subseteq {"FIN", "RST"}
  BY <1>1 DEF Value
<1> QED BY <1>1, <1>2 DEF Recorded, Value

\* A value half stored is a value.
LEMMA HalfType ==
  ASSUME NEW v \in Value, NEW w \in Value, NEW stored
  PROVE  Half(v, w, stored) \in Value
<1> DEFINE h == Half(v, w, stored)
<1>1. DOMAIN v = {"packets", "bytes", "first", "stamp", "flags", "born"}
  BY DEF Value
<1>2. h = [packets |-> h.packets, bytes |-> h.bytes, first |-> h.first,
           stamp |-> h.stamp, flags |-> h.flags, born |-> h.born]
  BY <1>1 DEF Half
<1>3. /\ h.packets \in Nat /\ h.bytes \in Nat /\ h.first \in Nat /\ h.stamp \in Nat
      /\ h.flags \in SUBSET {"FIN", "RST"} /\ h.born \in Traffic
  BY <1>1 DEF Half, Value
<1> HIDE DEF h
<1>4. h \in Value
  BY <1>2, <1>3 DEF Value
<1> QED BY <1>4 DEF h

LEMMA DeltaType ==
  ASSUME NEW p \in Kept, NEW v \in Value
  PROVE  Delta(p, v) \in Traffic
BY DEF Delta, Minus, Recreated, Total, Traffic, Value, Kept

LEMMA NextStateType ==
  ASSUME NEW p, NEW v
  PROVE  NextState(p, v) \in {"active"} \cup (Reason \ {"evicted"})
BY DEF NextState, Reason

LEMMA RememberType ==
  ASSUME NEW v \in Value, NEW state \in {"active"} \cup Reason
  PROVE  Remember(v, state) \in Kept
BY DEF Remember, Kept, Value

LEMMA AnchorType ==
  ASSUME TypeOK, NEW stamps \in SUBSET Nat
  PROVE  Anchor(stamps) \subseteq Int \cup {None}
BY DEF Anchor, TypeOK

LEMMA SampleType ==
  ASSUME TypeOK
  PROVE  Samples \subseteq SUBSET Nat
BY DEF Samples, TypeOK, Value

LEMMA WalkElements ==
  ASSUME TypeOK, NEW i \in 1..Len(walk)
  PROVE  walk[i].flow \in Flow /\ walk[i].value \in Value
<1>1. walk[i] \in Reading
  BY DEF TypeOK
<1> QED BY <1>1 DEF Reading

LEMMA Reads ==
  ASSUME TypeOK
  PROVE  {v.stamp : v \in Readings} \subseteq Nat
<1>1. \A i \in 1..Len(walk) : walk[i] \in Reading
  BY DEF TypeOK
<1> QED BY <1>1 DEF Readings, Reading, Value

\* Every step keeps the types.
LEMMA TypeStep == TypeOK /\ [Next]_vars => TypeOK'
<1> SUFFICES ASSUME TypeOK, [Next]_vars PROVE TypeOK'
  OBVIOUS
<1> USE TrackerAssumption DEF TypeOK
<1>1. ASSUME NEW f \in Flow, NEW size \in Size, NEW flags \in Flags,
             FirstPacket(f, size, flags)
      PROVE  TypeOK'
  <2>1. [packets |-> 1, bytes |-> size] \in Traffic
    BY DEF Traffic
  <2>2. [packets |-> 1, bytes |-> size, first |-> now + 1, stamp |-> now + 1,
         flags |-> flags, born |-> counted[f]] \in Value
    BY DEF Value
  <2>3. Plus(counted[f], [packets |-> 1, bytes |-> size]) \in Traffic
    BY <2>1, PlusType
  <2> QED BY <1>1, <2>2, <2>3
       DEF FirstPacket, pollVars, trackerVars, updateVars
<1>2. ASSUME NEW f \in Flow, NEW size \in Size, NEW flags \in Flags,
             NEW stored \in Partial, Packet(f, size, flags, stored)
      PROVE  TypeOK'
  <2> DEFINE new == Recorded(kernel[f], size, flags, now + 1)
  <2>1. kernel[f] \in Value /\ now + 1 \in Nat
    BY <1>2 DEF Packet
  <2>2. new \in Value
    BY <2>1, RecordedType
  <2>3. Half(kernel[f], new, stored) \in Value
    BY <2>1, <2>2, HalfType
  <2>4. [packets |-> 1, bytes |-> size] \in Traffic
    BY DEF Traffic
  <2>5. Plus(counted[f], [packets |-> 1, bytes |-> size]) \in Traffic
    BY <2>4, PlusType
  <2>6. [flow |-> f, value |-> new] \in Reading
    BY <2>2 DEF Reading
  <2>7. kernel' \in [Flow -> Value \cup {None}]
    BY <1>2, <2>3 DEF Packet
  <2>8. writing' \in Reading
    BY <1>2, <2>6 DEF Packet
  <2> QED BY <1>2, <2>5, <2>7, <2>8
       DEF Packet, pollVars, trackerVars, updateVars
<1>3. CASE Stored
  <2>1. writing.flow \in Flow /\ writing.value \in Value
    BY <1>3 DEF Stored, Reading
  <2> QED BY <1>3, <2>1
       DEF Stored, pollVars, trackerVars, updateVars, counters
<1>4. ASSUME NEW f \in Flow, Evict(f)
      PROVE  TypeOK'
  BY <1>4 DEF Evict, pollVars, trackerVars, updateVars
<1>5. CASE Tick
  BY <1>5 DEF Tick, kernelVars, pollVars, trackerVars, updateVars, counters
<1>6. CASE BeginPoll
  BY <1>6, EmptySeq DEF BeginPoll, kernelVars, trackerVars, updateVars, counters
<1>7. ASSUME NEW f \in Flow, Visit(f)
      PROVE  TypeOK'
  <2>1. kernel[f] \in Value
    BY <1>7 DEF Visit, Ahead
  <2>2. [flow |-> f, value |-> kernel[f]] \in Reading
    BY <2>1 DEF Reading
  <2> QED BY <1>7, <2>2 DEF Visit, kernelVars, trackerVars, updateVars, counters
<1>8. CASE WalkEnds
  <2>1. offset' \in Int \cup {None}
    BY <1>8, Reads, AnchorType DEF WalkEnds
  <2> QED BY <1>8, <2>1 DEF WalkEnds, kernelVars, updateVars, counters
<1>9. CASE WalkFails
  <2>1. offset' \in Int \cup {None}
    BY <1>9, SampleType, AnchorType DEF WalkFails
  <2> QED BY <1>9, <2>1 DEF WalkFails, kernelVars, updateVars
<1>10. CASE Observe
  <2> DEFINE f == Head(walk).flow
             v == Head(walk).value
  <2>0. Head(walk) \in Reading /\ Tail(walk) \in Seq(Reading)
    <3>1. walk \in Seq(Reading) /\ walk # <<>>
      BY <1>10 DEF Observe
    <3> QED BY <3>1, HeadTailProperties
  <2>1. f \in Flow /\ v \in Value
    BY <2>0 DEF Reading
  <2>2. walk' \in Seq(Reading) /\ seen' \subseteq Flow
    BY <1>10, <2>0, <2>1 DEF Observe
  <2> HIDE DEF f, v
  <2>3. /\ previous' \in [Flow -> Kept \cup {None}]
        /\ reported' \in [Flow -> Traffic]
        /\ shown' \in [Flow -> {"none", "active"} \cup Reason]
        /\ lastRead' \in [Flow -> Value \cup {None}]
    <3>1. CASE Insert(f, v)
      <4>1. Plus(reported[f], Total(v)) \in Traffic
        BY <2>1, TotalType, PlusType
      <4>2. Remember(v, "active") \in Kept
        BY <2>1, RememberType
      <4> QED BY <3>1, <2>1, <4>1, <4>2 DEF Insert, Update
    <3>2. CASE Silent(f, v)
      BY <3>2 DEF Silent, updateVars
    <3>3. CASE Renew(f, v)
      <4> DEFINE state == NextState(previous[f], v)
      <4>1. previous[f] \in Kept
        BY <3>3, <2>1 DEF Renew
      <4>2. state \in {"active"} \cup Reason
        BY NextStateType
      <4>3. Plus(reported[f], Delta(previous[f], v)) \in Traffic
        BY <2>1, <4>1, DeltaType, PlusType
      <4>4. Remember(v, state) \in Kept
        BY <2>1, <4>2, RememberType
      <4> HIDE DEF state
      <4>5. /\ previous' = [previous EXCEPT ![f] = Remember(v, state)]
            /\ Update(f, Delta(previous[f], v), state)
            /\ lastRead' = [lastRead EXCEPT ![f] = v]
        BY <3>3 DEF Renew, state
      <4> QED BY <2>1, <4>2, <4>3, <4>4, <4>5 DEF Update
    <3> QED BY <1>10, <3>1, <3>2, <3>3 DEF Observe, f, v
  <2> QED BY <1>10, <2>2, <2>3 DEF Observe, kernelVars, counters
<1>11. CASE Retain
  <2>1. offset' \in Int \cup {None}
    BY <1>11, SampleType, AnchorType DEF Retain
  <2> QED BY <1>11, <2>1 DEF Retain, Reason, kernelVars, counters
<1>12. CASE UNCHANGED vars
  BY <1>12 DEF vars, kernelVars, pollVars, trackerVars, updateVars, counters
<1> QED BY <1>1, <1>2, <1>3, <1>4, <1>5, <1>6, <1>7, <1>8, <1>9, <1>10, <1>11, <1>12
     DEF Next

\* The map, the walk and FlowTracker's state keep their types: counters stay
\* natural numbers, since observe's subtractions never go below zero.
THEOREM FlowTypes == Spec => []TypeOK
<1>1. Init => TypeOK
  <2> SUFFICES ASSUME Init PROVE TypeOK
    OBVIOUS
  <2>1. Nothing \in Traffic /\ <<>> \in Seq(Reading)
    BY EmptySeq DEF Nothing, Traffic
  <2> QED BY <2>1 DEF Init, TypeOK
<1> QED BY <1>1, TypeStep, PTL DEF Spec

-----------------------------------------------------------------------------
\* The order of readings.
LEMMA ValueTypes ==
  ASSUME NEW v \in Value
  PROVE  /\ v.packets \in Nat /\ v.bytes \in Nat /\ v.first \in Nat /\ v.stamp \in Nat
         /\ v.born.packets \in Nat /\ v.born.bytes \in Nat
         /\ Upto(v).packets = v.born.packets + v.packets
         /\ Upto(v).bytes = v.born.bytes + v.bytes
BY DEF Value, Traffic, Upto, Plus, Total

LEMMA PrecedesItself ==
  ASSUME NEW v \in Value
  PROVE  Precedes(v, v)
BY ValueTypes DEF Precedes, Grows

LEMMA PrecedesTransitive ==
  ASSUME NEW u \in Value, NEW v \in Value, NEW w \in Value,
         v.first <= v.stamp, Precedes(u, v), Precedes(v, w)
  PROVE  Precedes(u, w)
BY ValueTypes DEF Precedes, Grows, Replaced, Leq

LEMMA ReplacedFirst ==
  ASSUME NEW u \in Value, NEW v \in Value, NEW w \in Value,
         v.first <= v.stamp, Replaced(u, v), Precedes(v, w)
  PROVE  Replaced(u, w)
BY ValueTypes DEF Precedes, Grows, Replaced, Leq

\* One observation adds no more than lies between the two readings.
LEMMA DeltaIsBounded ==
  ASSUME NEW p \in Kept, NEW u \in Value, NEW v \in Value, NEW r \in Traffic,
         Total(p) = Total(u), Precedes(u, v), Leq(r, Upto(u))
  PROVE  Leq(Plus(r, Delta(p, v)), Upto(v))
<1>1. /\ p.packets = u.packets /\ p.bytes = u.bytes
      /\ r.packets \in Nat /\ r.bytes \in Nat
  BY DEF Total, Traffic
<1>2. CASE Grows(u, v)
  <2>1. Delta(p, v) = [packets |-> v.packets - u.packets, bytes |-> v.bytes - u.bytes]
    BY <1>1, <1>2, ValueTypes DEF Delta, Recreated, Grows, Minus
  <2> QED BY <1>1, <1>2, <2>1, ValueTypes DEF Plus, Leq, Grows
<1>3. CASE Replaced(u, v)
  <2>1. /\ Delta(p, v).packets \in Nat /\ Delta(p, v).packets <= v.packets
        /\ Delta(p, v).bytes \in Nat /\ Delta(p, v).bytes <= v.bytes
    BY <1>1, ValueTypes DEF Delta, Recreated, Minus, Total
  <2> QED BY <1>1, <1>3, <2>1, ValueTypes DEF Plus, Leq, Replaced
<1> QED BY <1>2, <1>3 DEF Precedes

-----------------------------------------------------------------------------
\* The steps of the kernel: an entry grows, goes, or is created after all that
\* was counted before it.
Fresh(f) == now < kernel'[f].first /\ kernel'[f].born = counted[f]

KernelMoves ==
  /\ \A f \in Flow : kernel'[f] # None =>
       \/ kernel[f] # None /\ Grows(kernel[f], kernel'[f])
       \/ Fresh(f)
  /\ now <= now'
  /\ \A f \in Flow : Leq(counted[f], counted'[f])
  /\ UNCHANGED <<pollVars, trackerVars, updateVars>>

LEMMA SoundStays ==
  ASSUME TypeOK, TypeOK', KernelMoves, NEW f \in Flow, NEW v \in Value, Sound(f, v)
  PROVE  Sound(f, v)'
<1>1. Leq(counted[f], counted'[f]) /\ now <= now'
  BY DEF KernelMoves
<1>2. /\ now \in Nat /\ now' \in Nat
      /\ counted[f].packets \in Nat /\ counted[f].bytes \in Nat
      /\ counted'[f].packets \in Nat /\ counted'[f].bytes \in Nat
  BY DEF TypeOK, Traffic
<1> QED BY <1>1, <1>2, ValueTypes DEF Sound, Leq

LEMMA OrderStays ==
  ASSUME TypeOK, TypeOK', KernelInv, KernelMoves,
         NEW f \in Flow, NEW v \in Value, Sound(f, v), kernel'[f] # None,
         kernel[f] # None => Precedes(v, kernel[f])
  PROVE  Precedes(v, kernel'[f])
<1>1. kernel'[f] \in Value
  BY DEF TypeOK
<1>2. CASE kernel[f] # None /\ Grows(kernel[f], kernel'[f])
  <2>1. kernel[f] \in Value /\ kernel[f].first <= kernel[f].stamp
    BY <1>2 DEF TypeOK, KernelInv, Sound
  <2> QED BY <1>1, <1>2, <2>1, PrecedesTransitive DEF Precedes
<1>3. CASE Fresh(f)
  <2>1. v.stamp < kernel'[f].first
    BY <1>1, <1>3, ValueTypes DEF Fresh, Sound, TypeOK
  <2> QED BY <1>3, <2>1 DEF Precedes, Replaced, Fresh, Sound
<1> QED BY <1>2, <1>3 DEF KernelMoves

LEMMA ReplacedStays ==
  ASSUME TypeOK, TypeOK', KernelInv, KernelMoves,
         NEW f \in Flow, NEW v \in Value, Sound(f, v), kernel'[f] # None,
         kernel[f] # None => Replaced(v, kernel[f])
  PROVE  Replaced(v, kernel'[f])
<1>1. kernel'[f] \in Value
  BY DEF TypeOK
<1>2. CASE kernel[f] # None /\ Grows(kernel[f], kernel'[f])
  <2>1. kernel[f] \in Value /\ kernel[f].first <= kernel[f].stamp
    BY <1>2 DEF TypeOK, KernelInv, Sound
  <2> QED BY <1>1, <1>2, <2>1, ReplacedFirst DEF Precedes
<1>3. CASE Fresh(f)
  <2>1. v.stamp < kernel'[f].first
    BY <1>1, <1>3, ValueTypes DEF Fresh, Sound, TypeOK
  <2> QED BY <1>3, <2>1 DEF Replaced, Fresh, Sound
<1> QED BY <1>2, <1>3 DEF KernelMoves

\* The tracker's side of the invariant does not see them.
LEMMA KernelStep ==
  ASSUME TypeOK, TypeOK', Inv, KernelMoves
  PROVE  ReadInv' /\ WalkInv' /\ CountInv' /\ PreviousInv' /\ ForgottenInv' /\ CoverInv'
<1>0. KernelInv /\ ReadInv /\ WalkInv /\ CountInv /\ PreviousInv /\ ForgottenInv /\ CoverInv
  BY DEF Inv
<1>u. UNCHANGED <<phase, cursor, walk, previous, seen, reported, shown, lastRead>>
  BY DEF KernelMoves, pollVars, trackerVars, updateVars
<1>1. ReadInv'
  <2> SUFFICES ASSUME NEW f \in Flow, lastRead[f] # None
               PROVE  /\ Sound(f, lastRead[f])'
                      /\ kernel'[f] # None => Precedes(lastRead[f], kernel'[f])
    BY <1>u DEF ReadInv
  <2>1. lastRead[f] \in Value
    BY DEF TypeOK
  <2>2. Sound(f, lastRead[f]) /\ (kernel[f] # None => Precedes(lastRead[f], kernel[f]))
    BY <1>0 DEF ReadInv
  <2>3. Sound(f, lastRead[f])'
    BY <1>u, <2>1, <2>2, SoundStays DEF Sound
  <2> QED BY <1>0, <2>1, <2>2, <2>3, OrderStays
<1>2. WalkInv'
  <2>1. ASSUME NEW f \in Flow, NEW v \in Value, Between(f, v)
        PROVE  Between(f, v)'
    <3>1. Sound(f, v)'
      BY <2>1, SoundStays DEF Between
    <3>2. kernel'[f] # None => Precedes(v, kernel'[f])
      BY <1>0, <2>1, OrderStays DEF Between
    <3> QED BY <1>u, <2>1, <3>1, <3>2 DEF Between
  <2>2. ASSUME NEW i \in 1..Len(walk)
        PROVE  Between(walk[i].flow, walk[i].value)'
    <3>1. walk[i].flow \in Flow /\ walk[i].value \in Value
      BY WalkElements
    <3>2. PICK f \in Flow, v \in Value : f = walk[i].flow /\ v = walk[i].value
      BY <3>1
    <3>3. Between(f, v)'
      BY <1>0, <2>1, <3>2 DEF WalkInv
    <3> QED BY <1>u, <3>2, <3>3
  <2> QED BY <1>0, <1>u, <2>2 DEF WalkInv, Precedes, Grows, Replaced, Leq
<1>3. CountInv' /\ PreviousInv'
  BY <1>0, <1>u DEF CountInv, PreviousInv
<1>4. ForgottenInv'
  <2> SUFFICES ASSUME NEW f \in Flow, previous[f] = None, lastRead[f] # None,
                      kernel'[f] # None
               PROVE  Replaced(lastRead[f], kernel'[f])
    BY <1>u DEF ForgottenInv
  <2>1. lastRead[f] \in Value /\ Sound(f, lastRead[f])
    BY <1>0 DEF TypeOK, ReadInv
  <2> QED BY <1>0, <2>1, ReplacedStays DEF ForgottenInv
<1>5. CoverInv'
  <2>1. ASSUME NEW f \in Flow, Known(f)'
        PROVE  Known(f)
    <3>1. /\ kernel'[f] \in Value /\ lastRead[f] \in Value
          /\ kernel'[f].first = lastRead[f].first
      BY <1>u, <2>1 DEF Known, TypeOK
    <3>2. lastRead[f].first <= lastRead[f].stamp /\ lastRead[f].stamp <= now
      BY <1>0, <1>u, <2>1 DEF Known, ReadInv, Sound
    <3>3. ~Fresh(f)
      BY <3>1, <3>2, ValueTypes DEF Fresh, TypeOK
    <3>4. kernel[f] # None /\ Grows(kernel[f], kernel'[f])
      BY <2>1, <3>3 DEF KernelMoves, Known
    <3> QED BY <1>u, <2>1, <3>1, <3>4 DEF Known, Grows
  <2>2. \A f \in Flow : InWalk(f)' <=> InWalk(f)
    BY <1>u DEF InWalk
  <2> QED BY <1>0, <1>u, <2>1, <2>2 DEF CoverInv
<1> QED BY <1>1, <1>2, <1>3, <1>4, <1>5

LEMMA LeqItself ==
  ASSUME NEW a \in Traffic
  PROVE  Leq(a, a)
BY DEF Leq, Traffic

LEMMA CountsGrow ==
  ASSUME TypeOK, NEW f \in Flow, NEW size \in Nat,
         counted' = [counted EXCEPT ![f] = Plus(@, [packets |-> 1, bytes |-> size])]
  PROVE  /\ \A g \in Flow : Leq(counted[g], counted'[g])
         /\ counted'[f].packets = counted[f].packets + 1
         /\ counted'[f].bytes = counted[f].bytes + size
<1>1. counted \in [Flow -> Traffic]
  BY DEF TypeOK
<1>2. \A g \in Flow : counted[g].packets \in Nat /\ counted[g].bytes \in Nat
  BY <1>1 DEF Traffic
<1>3. counted'[f] = [packets |-> counted[f].packets + 1, bytes |-> counted[f].bytes + size]
  BY <1>1 DEF Plus
<1>4. \A g \in Flow \ {f} : counted'[g] = counted[g]
  BY <1>1
<1> QED BY <1>2, <1>3, <1>4 DEF Leq

\* Each step of the environment is such a move.
Environment ==
  \/ \E f \in Flow, size \in Size, flags \in Flags : FirstPacket(f, size, flags)
  \/ \E f \in Flow, size \in Size, flags \in Flags, stored \in Partial :
        Packet(f, size, flags, stored)
  \/ Stored
  \/ \E f \in Flow : Evict(f)
  \/ Tick

LEMMA EnvironmentMoves ==
  ASSUME TypeOK, TypeOK', Inv, Environment
  PROVE  KernelMoves /\ KernelInv' /\ WritingInv'
<1>a. Size \subseteq Nat
  BY TrackerAssumption
<1>0. KernelInv /\ WritingInv
  BY DEF Inv
<1>g. \A v \in Value : Grows(v, v)
  BY ValueTypes DEF Grows
<1>1. ASSUME NEW f \in Flow, NEW size \in Size, NEW flags \in Flags,
             FirstPacket(f, size, flags)
      PROVE  KernelMoves /\ KernelInv' /\ WritingInv'
  <2> DEFINE new == [packets |-> 1, bytes |-> size, first |-> now + 1, stamp |-> now + 1,
                     flags |-> flags, born |-> counted[f]]
  <2>1. /\ now' = now + 1 /\ kernel[f] = None
        /\ kernel' = [kernel EXCEPT ![f] = new]
        /\ counted' = [counted EXCEPT ![f] = Plus(@, [packets |-> 1, bytes |-> size])]
        /\ UNCHANGED <<writing, pollVars, trackerVars, updateVars>>
    BY <1>1 DEF FirstPacket
  <2>2. now \in Nat /\ size \in Nat
    BY <1>a DEF TypeOK
  <2>3. /\ \A g \in Flow : Leq(counted[g], counted'[g])
        /\ counted'[f].packets = counted[f].packets + 1
        /\ counted'[f].bytes = counted[f].bytes + size
    BY <2>1, <2>2, CountsGrow
  <2>4. KernelMoves
    <3>1. ASSUME NEW g \in Flow, kernel'[g] # None
          PROVE  (kernel[g] # None /\ Grows(kernel[g], kernel'[g])) \/ Fresh(g)
      <4>1. CASE g = f
        BY <2>1, <2>2, <4>1 DEF Fresh, TypeOK
      <4>2. CASE g # f
        BY <1>g, <2>1, <3>1, <4>2 DEF TypeOK
      <4> QED BY <4>1, <4>2
    <3> QED BY <2>1, <2>2, <2>3, <3>1 DEF KernelMoves
  <2>5. ASSUME NEW g \in Flow, kernel'[g] # None
        PROVE  Sound(g, kernel[g])'
    <3>1. CASE g = f
      <4>1. kernel'[f] = new
        BY <2>1 DEF TypeOK
      <4>2. Leq(Upto(new), counted'[f])
        <5>1. counted[f].packets \in Nat /\ counted[f].bytes \in Nat
          BY DEF TypeOK, Traffic
        <5> QED BY <2>2, <2>3, <5>1 DEF Upto, Plus, Total, Leq
      <4> HIDE DEF new
      <4> QED BY <2>1, <2>2, <3>1, <4>1, <4>2 DEF Sound, new
    <3>2. CASE g # f
      <4>1. kernel'[g] = kernel[g] /\ kernel[g] # None /\ kernel[g] \in Value
        BY <2>1, <2>5, <3>2 DEF TypeOK
      <4>2. Sound(g, kernel[g])
        BY <1>0, <4>1 DEF KernelInv
      <4> QED BY <2>4, <4>1, <4>2, SoundStays DEF Sound
    <3> QED BY <3>1, <3>2
  <2>6. WritingInv'
    <3> SUFFICES ASSUME writing # None
                 PROVE  /\ kernel'[writing.flow] # None
                        /\ Grows(kernel'[writing.flow], writing.value)
                        /\ Sound(writing.flow, writing.value)'
      BY <2>1 DEF WritingInv
    <3>1. PICK g \in Flow, v \in Value : g = writing.flow /\ v = writing.value
      BY DEF TypeOK, Reading
    <3>2. kernel[g] # None /\ Grows(kernel[g], v) /\ Sound(g, v)
      BY <1>0, <3>1 DEF WritingInv
    <3>3. kernel'[g] = kernel[g]
      BY <2>1, <3>2 DEF TypeOK
    <3>4. Sound(g, v)'
      BY <2>4, <3>2, SoundStays
    <3> QED BY <2>1, <3>1, <3>2, <3>3, <3>4
  <2> QED BY <2>4, <2>5, <2>6 DEF KernelInv
<1>2. ASSUME NEW f \in Flow, NEW size \in Size, NEW flags \in Flags,
             NEW stored \in Partial, Packet(f, size, flags, stored)
      PROVE  KernelMoves /\ KernelInv' /\ WritingInv'
  <2>1. PICK old \in Value : old = kernel[f]
    BY <1>2 DEF Packet, TypeOK
  <2>2. now \in Nat /\ now + 1 \in Nat /\ size \in Nat
    BY <1>a DEF TypeOK
  <2>3. PICK new \in Value : new = Recorded(old, size, flags, now + 1)
    BY <2>2, RecordedType
  <2>4. PICK half \in Value : half = Half(old, new, stored)
    BY HalfType
  <2>5. /\ now' = now + 1 /\ kernel[f] # None
        /\ kernel' = [kernel EXCEPT ![f] = half]
        /\ writing' = [flow |-> f, value |-> new]
        /\ counted' = [counted EXCEPT ![f] = Plus(@, [packets |-> 1, bytes |-> size])]
        /\ UNCHANGED <<pollVars, trackerVars, updateVars>>
    BY <1>2, <2>1, <2>3, <2>4 DEF Packet
  <2>6. Sound(f, old)
    BY <1>0, <2>1, <2>5 DEF KernelInv
  <2>7. /\ new.packets = old.packets + 1 /\ new.bytes = old.bytes + size
        /\ new.first = old.first /\ new.stamp = now + 1 /\ new.born = old.born
    BY <2>3 DEF Recorded
  <2>8. /\ half.packets \in {old.packets, new.packets}
        /\ half.bytes \in {old.bytes, new.bytes}
        /\ half.first \in {old.first, new.first}
        /\ half.stamp \in {old.stamp, new.stamp}
        /\ half.born \in {old.born, new.born}
    <3>1. DOMAIN old = {"packets", "bytes", "first", "stamp", "flags", "born"}
      BY DEF Value
    <3> QED BY <2>4, <3>1 DEF Half
  <2>9. Grows(old, half) /\ Grows(half, new)
    BY <2>2, <2>6, <2>7, <2>8, ValueTypes DEF Grows, Sound
  <2>10. /\ \A g \in Flow : Leq(counted[g], counted'[g])
         /\ counted'[f].packets = counted[f].packets + 1
         /\ counted'[f].bytes = counted[f].bytes + size
    BY <2>2, <2>5, CountsGrow
  <2>11. KernelMoves
    <3>1. \A g \in Flow : kernel'[g] # None =>
            kernel[g] # None /\ Grows(kernel[g], kernel'[g])
      BY <1>g, <2>1, <2>5, <2>9 DEF TypeOK
    <3> QED BY <2>2, <2>5, <2>10, <3>1 DEF KernelMoves
  <2>12. Sound(f, new)' /\ Sound(f, half)'
    <3>1. counted[f].packets \in Nat /\ counted[f].bytes \in Nat
      BY DEF TypeOK, Traffic
    <3>2. /\ old.first <= old.stamp /\ old.stamp <= now
          /\ old.born.packets + old.packets <= counted[f].packets
          /\ old.born.bytes + old.bytes <= counted[f].bytes
      BY <2>6, ValueTypes DEF Sound, Leq
    <3>3. new.first <= new.stamp /\ new.stamp <= now' /\ Leq(Upto(new), counted'[f])
      BY <2>2, <2>5, <2>7, <2>10, <3>1, <3>2, ValueTypes DEF Leq
    <3>4. half.first <= half.stamp /\ half.stamp <= now' /\ Leq(Upto(half), counted'[f])
      BY <2>2, <2>5, <2>7, <2>8, <2>10, <3>1, <3>2, ValueTypes DEF Leq
    <3> QED BY <3>3, <3>4 DEF Sound
  <2>13. kernel'[f] = half /\ half # None
    <3>1. kernel'[f] = half
      BY <2>5 DEF TypeOK
    <3> QED BY <3>1, TrackerAssumption
  <2>14. ASSUME NEW g \in Flow, kernel'[g] # None
         PROVE  Sound(g, kernel[g])'
    <3>1. CASE g = f
      BY <2>12, <2>13, <3>1 DEF Sound
    <3>2. CASE g # f
      <4>1. kernel'[g] = kernel[g] /\ kernel[g] # None /\ kernel[g] \in Value
        BY <2>5, <2>14, <3>2 DEF TypeOK
      <4>2. Sound(g, kernel[g])
        BY <1>0, <4>1 DEF KernelInv
      <4> QED BY <2>11, <4>1, <4>2, SoundStays DEF Sound
    <3> QED BY <3>1, <3>2
  <2>15. WritingInv'
    <3>1. writing'.flow = f /\ writing'.value = new
      BY <2>5
    <3> QED BY <2>9, <2>12, <2>13, <3>1 DEF WritingInv, Sound
  <2> QED BY <2>11, <2>14, <2>15 DEF KernelInv
<1>3. ASSUME Stored
      PROVE  KernelMoves /\ KernelInv' /\ WritingInv'
  <2>1. PICK f \in Flow, v \in Value : f = writing.flow /\ v = writing.value
    BY <1>3 DEF Stored, TypeOK, Reading
  <2>2. kernel[f] # None /\ Grows(kernel[f], v) /\ Sound(f, v)
    BY <1>0, <1>3, <2>1 DEF Stored, WritingInv
  <2>3. /\ kernel' = [kernel EXCEPT ![f] = v]
        /\ writing' = None
        /\ UNCHANGED <<now, counted, pollVars, trackerVars, updateVars>>
    BY <1>3, <2>1 DEF Stored
  <2>4. now \in Nat /\ \A g \in Flow : Leq(counted[g], counted[g])
    BY LeqItself DEF TypeOK
  <2>5. KernelMoves
    BY <1>g, <2>2, <2>3, <2>4 DEF KernelMoves, TypeOK
  <2>6. KernelInv'
    BY <1>0, <2>2, <2>3 DEF KernelInv, Sound, TypeOK
  <2> QED BY <2>3, <2>5, <2>6 DEF WritingInv
<1>4. ASSUME NEW f \in Flow, Evict(f)
      PROVE  KernelMoves /\ KernelInv' /\ WritingInv'
  <2>1. /\ kernel' = [kernel EXCEPT ![f] = None]
        /\ writing' = IF writing # None /\ writing.flow = f THEN None ELSE writing
        /\ UNCHANGED <<now, counted, pollVars, trackerVars, updateVars>>
    BY <1>4 DEF Evict
  <2>2. now \in Nat /\ \A g \in Flow : Leq(counted[g], counted[g])
    BY LeqItself DEF TypeOK
  <2>3. KernelMoves
    BY <1>g, <2>1, <2>2 DEF KernelMoves, TypeOK
  <2>4. KernelInv'
    BY <1>0, <2>1 DEF KernelInv, Sound, TypeOK
  <2>5. WritingInv'
    <3> SUFFICES ASSUME writing' # None PROVE WritingInv'
      BY DEF WritingInv
    <3>1. writing' = writing /\ writing.flow # f /\ writing # None
      BY <2>1
    <3>2. kernel'[writing.flow] = kernel[writing.flow]
      BY <2>1, <3>1 DEF TypeOK, Reading
    <3> QED BY <1>0, <2>1, <3>1, <3>2 DEF WritingInv, Sound
  <2> QED BY <2>3, <2>4, <2>5
<1>5. ASSUME Tick
      PROVE  KernelMoves /\ KernelInv' /\ WritingInv'
  <2>1. now' = now + 1 /\ writing = None
        /\ UNCHANGED <<kernel, writing, counted, pollVars, trackerVars, updateVars>>
    BY <1>5 DEF Tick, kernelVars
  <2>2. now \in Nat /\ \A g \in Flow : Leq(counted[g], counted[g])
    BY LeqItself DEF TypeOK
  <2>3. KernelMoves
    BY <1>g, <2>1, <2>2 DEF KernelMoves, TypeOK
  <2>4. KernelInv'
    BY <1>0, <2>1, <2>2, ValueTypes DEF KernelInv, Sound, TypeOK
  <2> QED BY <2>1, <2>3, <2>4 DEF WritingInv
<1> QED BY <1>1, <1>2, <1>3, <1>4, <1>5 DEF Environment

LEMMA EnvironmentStep ==
  ASSUME TypeOK, TypeOK', Inv, Environment
  PROVE  Inv'
BY EnvironmentMoves, KernelStep DEF Inv

-----------------------------------------------------------------------------
\* The steps of the worker.
LEMMA WorkerKeeps ==
  ASSUME Inv, UNCHANGED <<now, kernel, writing, counted>>
  PROVE  KernelInv' /\ WritingInv'
BY DEF Inv, KernelInv, WritingInv, Sound

LEMMA BeginPollStep ==
  ASSUME TypeOK, Inv, BeginPoll
  PROVE  Inv'
<1>1. /\ phase = "idle" /\ phase' = "walking" /\ walk' = <<>>
      /\ UNCHANGED <<now, kernel, writing, cursor, previous, counted, reported, shown,
                     lastRead>>
  BY DEF BeginPoll, kernelVars, trackerVars, updateVars
<1>2. KernelInv' /\ WritingInv'
  BY <1>1, WorkerKeeps
<1>3. ReadInv' /\ CountInv' /\ PreviousInv' /\ ForgottenInv'
  BY <1>1 DEF Inv, ReadInv, CountInv, PreviousInv, ForgottenInv, Sound
<1>4. WalkInv'
  <2>1. Len(walk') = 0
    BY <1>1, EmptySeq
  <2> QED BY <2>1 DEF WalkInv
<1>5. CoverInv'
  <2>1. cursor' = 0
    BY <1>1 DEF Inv, CoverInv
  <2>2. \A f \in Flow : ~(f <= 0)
    BY TrackerAssumption
  <2> QED BY <1>1, <2>1, <2>2 DEF CoverInv
<1> QED BY <1>2, <1>3, <1>4, <1>5 DEF Inv

LEMMA VisitStep ==
  ASSUME TypeOK, Inv, NEW f \in Flow, Visit(f)
  PROVE  Inv'
<1>0. KernelInv /\ ReadInv /\ WalkInv /\ ForgottenInv /\ CoverInv
  BY DEF Inv
<1>1. PICK v \in Value : v = kernel[f]
  BY DEF TypeOK, Visit, Ahead
<1>2. /\ phase = "walking" /\ kernel[f] # None /\ f > From
      /\ \A g \in Ahead : f <= g
      /\ walk' = Append(walk, [flow |-> f, value |-> v])
      /\ cursor' = f
      /\ UNCHANGED <<now, kernel, writing, phase, previous, counted, reported, shown,
                     lastRead>>
  BY <1>1 DEF Visit, Ahead, kernelVars, trackerVars, updateVars
<1>3. KernelInv' /\ WritingInv'
  BY <1>2, WorkerKeeps
<1>4. ReadInv' /\ CountInv' /\ PreviousInv' /\ ForgottenInv'
  BY <1>2 DEF Inv, ReadInv, CountInv, PreviousInv, ForgottenInv, Sound
<1>5. /\ Len(walk) \in Nat /\ Len(walk') = Len(walk) + 1
      /\ \A i \in 1..Len(walk) : walk'[i] = walk[i]
      /\ walk'[Len(walk) + 1].flow = f /\ walk'[Len(walk) + 1].value = v
  <2>1. walk \in Seq(Reading) /\ [flow |-> f, value |-> v] \in Reading
    BY DEF TypeOK, Reading
  <2>2. Len(walk) \in Nat
    BY <2>1, LenProperties
  <2> QED BY <1>2, <2>1, <2>2, AppendProperties
<1>6. WalkInv'
  <2>1. Between(f, v)
    BY <1>0, <1>1, <1>2, PrecedesItself
       DEF Between, KernelInv, ReadInv, ForgottenInv
  <2>2. ASSUME NEW i \in 1..Len(walk')
        PROVE  Between(walk'[i].flow, walk'[i].value)
    BY <1>0, <1>5, <2>1 DEF WalkInv
  <2>3. ASSUME NEW i \in 1..Len(walk'), NEW j \in 1..Len(walk'), i < j,
               walk'[i].flow = walk'[j].flow
        PROVE  Precedes(walk'[i].value, walk'[j].value)
    <3>1. CASE j \in 1..Len(walk)
      BY <1>0, <1>5, <2>3, <3>1 DEF WalkInv
    <3>2. CASE j = Len(walk) + 1
      <4>1. i \in 1..Len(walk) /\ walk[i].flow = f
        BY <1>5, <2>3, <3>2
      <4>2. Precedes(walk[i].value, v)
        BY <1>0, <1>1, <1>2, <4>1 DEF WalkInv, Between
      <4> QED BY <1>5, <3>2, <4>1, <4>2
    <3> QED BY <1>5, <3>1, <3>2
  <2> QED BY <1>2, <2>2, <2>3 DEF WalkInv, Between, Sound
<1>7. CoverInv'
  <2> SUFFICES ASSUME NEW g \in Flow, g <= f, Known(g)
               PROVE  \E i \in 1..Len(walk') : walk'[i].flow = g
    BY <1>2 DEF CoverInv, Known, InWalk
  <2>1. f \in Nat /\ g \in Nat /\ f # 0 /\ g # 0 /\ cursor \in Nat
    BY TrackerAssumption DEF TypeOK
  <2>2. CASE g = f
    BY <1>5, <2>2
  <2>3. CASE g # f
    <3>1. g <= From
      BY <1>2, <2>1, <2>3 DEF Ahead, Known, From
    <3>2. From = cursor
      BY <2>1, <3>1 DEF From
    <3>3. InWalk(g)
      BY <1>0, <1>2, <3>1, <3>2 DEF CoverInv
    <3> QED BY <1>5, <3>3 DEF InWalk
  <2> QED BY <2>2, <2>3
<1> QED BY <1>3, <1>4, <1>6, <1>7 DEF Inv

LEMMA WalkEndsStep ==
  ASSUME TypeOK, Inv, WalkEnds
  PROVE  Inv'
<1>1. /\ phase = "walking" /\ Ahead = {} /\ phase' = "reconciling" /\ cursor' = 0
      /\ UNCHANGED <<now, kernel, writing, walk, previous, seen, counted, reported,
                     shown, lastRead>>
  BY DEF WalkEnds, kernelVars, updateVars
<1>2. KernelInv' /\ WritingInv'
  BY <1>1, WorkerKeeps
<1>3. ReadInv' /\ CountInv' /\ PreviousInv' /\ ForgottenInv' /\ WalkInv'
  BY <1>1 DEF Inv, ReadInv, CountInv, PreviousInv, ForgottenInv, WalkInv, Between, Sound
<1>4. CoverInv'
  <2> SUFFICES ASSUME NEW f \in Flow, Known(f) PROVE InWalk(f)
    BY <1>1 DEF CoverInv, Known, InWalk
  <2>1. f \in Nat /\ f # 0 /\ cursor \in Nat
    BY TrackerAssumption DEF TypeOK
  <2>2. f <= cursor
    BY <1>1, <2>1 DEF Ahead, Known, From
  <2> QED BY <1>1, <2>2 DEF Inv, CoverInv
<1> QED BY <1>2, <1>3, <1>4 DEF Inv

LEMMA WalkFailsStep ==
  ASSUME TypeOK, Inv, WalkFails
  PROVE  Inv'
<1>1. /\ phase' = "idle" /\ cursor' = 0
      /\ UNCHANGED <<now, kernel, writing, walk, previous, seen, counted, reported,
                     shown, lastRead>>
  BY DEF WalkFails, kernelVars, updateVars
<1>2. KernelInv' /\ WritingInv'
  BY <1>1, WorkerKeeps
<1>3. ReadInv' /\ CountInv' /\ PreviousInv' /\ ForgottenInv' /\ WalkInv'
  BY <1>1 DEF Inv, ReadInv, CountInv, PreviousInv, ForgottenInv, WalkInv, Between, Sound
<1>4. CoverInv'
  BY <1>1 DEF CoverInv
<1> QED BY <1>2, <1>3, <1>4 DEF Inv

LEMMA ObserveStep ==
  ASSUME TypeOK, Inv, Observe
  PROVE  Inv'
<1>0. KernelInv /\ ReadInv /\ WalkInv /\ CountInv /\ PreviousInv /\ ForgottenInv /\ CoverInv
  BY DEF Inv
<1>1. walk \in Seq(Reading) /\ walk # <<>> /\ walk' = Tail(walk)
  BY DEF Observe, TypeOK
<1>2. /\ Len(walk) \in Nat \ {0} /\ Len(walk') = Len(walk) - 1
      /\ \A i \in 1..Len(walk') : walk'[i] = walk[i + 1]
      /\ walk[1] = Head(walk)
  BY <1>1, HeadTailProperties, EmptySeq, LenProperties
<1>3. PICK f \in Flow, v \in Value : f = walk[1].flow /\ v = walk[1].value
  BY <1>2, WalkElements
<1>4. /\ phase = "reconciling"
      /\ Insert(f, v) \/ Silent(f, v) \/ Renew(f, v)
      /\ seen' = seen \cup {f}
      /\ UNCHANGED <<now, kernel, writing, phase, cursor, counted>>
  BY <1>2, <1>3 DEF Observe, kernelVars
<1>5. /\ Between(f, v)
      /\ \A i \in 1..Len(walk') :
           /\ Between(walk'[i].flow, walk'[i].value)
           /\ walk'[i].flow = f => Precedes(v, walk'[i].value)
           /\ walk'[i].flow \in Flow
      /\ \A i, j \in 1..Len(walk') :
           i < j /\ walk'[i].flow = walk'[j].flow =>
             Precedes(walk'[i].value, walk'[j].value)
  <2>1. /\ 1 \in 1..Len(walk)
        /\ \A i \in 1..Len(walk') : i + 1 \in 1..Len(walk) /\ 1 < i + 1
        /\ \A i, j \in 1..Len(walk') : i < j => i + 1 < j + 1
    BY <1>2
  <2> QED BY <1>0, <1>2, <1>3, <2>1, WalkElements DEF WalkInv
<1>6. KernelInv' /\ WritingInv'
  BY <1>4, WorkerKeeps
<1>7. CoverInv'
  <2> SUFFICES ASSUME NEW g \in Flow, Known(g)', g # f
               PROVE  g \in seen \/ InWalk(g)'
    BY <1>0, <1>4 DEF CoverInv
  <2>1. lastRead'[g] = lastRead[g]
    BY <1>4 DEF Insert, Silent, Renew, updateVars, TypeOK
  <2>2. Known(g)
    BY <1>4, <2>1 DEF Known
  <2>3. g \in seen \/ InWalk(g)
    BY <1>0, <1>4, <2>2 DEF CoverInv
  <2>4. ASSUME NEW i \in 1..Len(walk), walk[i].flow = g
        PROVE  InWalk(g)'
    <3>1. i # 1
      BY <1>3, <2>4
    <3>2. i - 1 \in 1..Len(walk') /\ walk'[i - 1] = walk[i]
      BY <1>2, <3>1
    <3> QED BY <2>4, <3>2 DEF InWalk
  <2> QED BY <2>3, <2>4 DEF InWalk
<1>8. CASE Silent(f, v)
  <2>1. UNCHANGED <<previous, reported, shown, lastRead>>
    BY <1>8 DEF Silent, updateVars
  <2>2. ReadInv' /\ CountInv' /\ PreviousInv' /\ ForgottenInv'
    BY <1>0, <1>4, <2>1 DEF ReadInv, CountInv, PreviousInv, ForgottenInv, Sound
  <2>3. WalkInv'
    BY <1>4, <1>5, <2>1 DEF WalkInv, Between, Sound
  <2> QED BY <1>6, <1>7, <2>2, <2>3 DEF Inv
<1>9. ASSUME NEW p \in Kept, NEW state \in {"active"} \cup (Reason \ {"evicted"}),
             p = Remember(v, state),
             previous' = [previous EXCEPT ![f] = p],
             shown' = [shown EXCEPT ![f] = state],
             lastRead' = [lastRead EXCEPT ![f] = v],
             reported' \in [Flow -> Traffic],
             \A g \in Flow \ {f} : reported'[g] = reported[g],
             Leq(reported'[f], Upto(v))
      PROVE  Inv'
  <2>1. /\ previous'[f] = p /\ shown'[f] = state /\ lastRead'[f] = v
        /\ p # None /\ v # None
        /\ \A g \in Flow \ {f} : /\ previous'[g] = previous[g]
                                  /\ shown'[g] = shown[g]
                                  /\ lastRead'[g] = lastRead[g]
    BY <1>9, TrackerAssumption DEF TypeOK
  <2>2. ReadInv'
    BY <1>0, <1>4, <1>5, <2>1 DEF ReadInv, Between, Sound
  <2>3. CountInv'
    BY <1>0, <1>9, <2>1 DEF CountInv
  <2>4. PreviousInv'
    <3>1. Total(p) = Total(v) /\ p.stamp = v.stamp /\ p.state = state /\ state # "evicted"
      BY <1>9 DEF Total, Remember
    <3> QED BY <1>0, <2>1, <3>1 DEF PreviousInv
  <2>5. ForgottenInv'
    BY <1>0, <1>4, <2>1 DEF ForgottenInv
  <2>6. WalkInv'
    <3>1. ASSUME NEW i \in 1..Len(walk')
          PROVE  Between(walk[i].flow, walk[i].value)'
      BY <1>4, <1>5, <2>1, <3>1 DEF Between, Sound
    <3> QED BY <1>5, <3>1 DEF WalkInv
  <2> QED BY <1>6, <1>7, <2>2, <2>3, <2>4, <2>5, <2>6 DEF Inv
<1>10. Sound(f, v) /\ (lastRead[f] # None => lastRead[f] \in Value /\ Precedes(lastRead[f], v))
  BY <1>5 DEF Between, TypeOK
<1>11. CASE Insert(f, v)
  <2>1. /\ previous[f] = None
        /\ previous' = [previous EXCEPT ![f] = Remember(v, "active")]
        /\ shown' = [shown EXCEPT ![f] = "active"]
        /\ lastRead' = [lastRead EXCEPT ![f] = v]
        /\ reported' = [reported EXCEPT ![f] = Plus(@, Total(v))]
    BY <1>11 DEF Insert, Update
  <2>2. Leq(Plus(reported[f], Total(v)), Upto(v))
    <3>1. CASE lastRead[f] = None
      <4>1. reported[f] = Nothing
        BY <1>0, <3>1 DEF CountInv
      <4> QED BY <4>1, ValueTypes DEF Nothing, Plus, Total, Leq
    <3>2. CASE lastRead[f] # None
      <4>1. Replaced(lastRead[f], v) /\ Leq(reported[f], Upto(lastRead[f]))
        BY <1>0, <1>5, <2>1, <3>2 DEF Between, CountInv
      <4>2. reported[f].packets \in Nat /\ reported[f].bytes \in Nat
        BY DEF TypeOK, Traffic
      <4> QED BY <1>10, <3>2, <4>1, <4>2, ValueTypes DEF Replaced, Plus, Total, Leq
    <3> QED BY <3>1, <3>2
  <2>3. Plus(reported[f], Total(v)) \in Traffic
    BY TotalType, PlusType DEF TypeOK
  <2>4. /\ reported' \in [Flow -> Traffic] /\ Leq(reported'[f], Upto(v))
        /\ \A g \in Flow \ {f} : reported'[g] = reported[g]
    BY <2>1, <2>2, <2>3 DEF TypeOK
  <2>5. Remember(v, "active") \in Kept
    BY RememberType
  <2> QED BY <1>9, <2>1, <2>4, <2>5
<1>12. CASE Renew(f, v)
  <2>1. previous[f] \in Kept /\ previous[f] # None
    BY <1>12 DEF Renew, TypeOK
  <2>2. PICK state \in {"active"} \cup (Reason \ {"evicted"}) :
          state = NextState(previous[f], v)
    BY NextStateType
  <2>3. /\ previous' = [previous EXCEPT ![f] = Remember(v, state)]
        /\ shown' = [shown EXCEPT ![f] = state]
        /\ lastRead' = [lastRead EXCEPT ![f] = v]
        /\ reported' = [reported EXCEPT ![f] = Plus(@, Delta(previous[f], v))]
    BY <1>12, <2>2 DEF Renew, Update
  <2>4. /\ lastRead[f] # None /\ Total(previous[f]) = Total(lastRead[f])
        /\ Leq(reported[f], Upto(lastRead[f]))
    BY <1>0, <2>1 DEF PreviousInv, CountInv
  <2>5. Leq(Plus(reported[f], Delta(previous[f], v)), Upto(v))
    BY <1>10, <2>1, <2>4, DeltaIsBounded DEF TypeOK
  <2>6. Plus(reported[f], Delta(previous[f], v)) \in Traffic
    BY <2>1, DeltaType, PlusType DEF TypeOK
  <2>7. /\ reported' \in [Flow -> Traffic] /\ Leq(reported'[f], Upto(v))
        /\ \A g \in Flow \ {f} : reported'[g] = reported[g]
    BY <2>3, <2>5, <2>6 DEF TypeOK
  <2>8. Remember(v, state) \in Kept
    BY RememberType
  <2> QED BY <1>9, <2>3, <2>7, <2>8
<1> QED BY <1>4, <1>8, <1>11, <1>12

LEMMA RetainStep ==
  ASSUME TypeOK, Inv, Retain
  PROVE  Inv'
<1>0. KernelInv /\ ReadInv /\ WalkInv /\ CountInv /\ PreviousInv /\ ForgottenInv /\ CoverInv
  BY DEF Inv
<1>1. /\ phase = "reconciling" /\ walk = <<>> /\ phase' = "idle"
      /\ previous' = [f \in Flow |-> IF f \in Lost \cup Expired THEN None ELSE previous[f]]
      /\ shown' = [f \in Flow |-> IF f \in Lost THEN "evicted" ELSE shown[f]]
      /\ UNCHANGED <<now, kernel, writing, cursor, walk, counted, reported, lastRead>>
  BY DEF Retain, kernelVars
<1>2. KernelInv' /\ WritingInv'
  BY <1>1, WorkerKeeps
<1>3. ReadInv'
  BY <1>0, <1>1 DEF ReadInv, Sound
<1>4. Len(walk) = 0 /\ Len(walk') = 0
  BY <1>1, EmptySeq
<1>5. WalkInv'
  BY <1>4 DEF WalkInv
<1>6. CountInv'
  BY <1>0, <1>1 DEF CountInv
<1>7. PreviousInv'
  BY <1>0, <1>1 DEF PreviousInv, Lost, Expired, Missing
<1>8. ForgottenInv'
  <2> SUFFICES ASSUME NEW f \in Flow, previous'[f] = None, lastRead[f] # None,
                      kernel[f] # None
               PROVE  Replaced(lastRead[f], kernel[f])
    BY <1>1 DEF ForgottenInv
  <2>1. CASE previous[f] = None
    BY <1>0, <2>1 DEF ForgottenInv
  <2>2. CASE previous[f] # None
    <3>1. f \notin seen
      BY <1>1, <2>2 DEF Lost, Expired, Missing
    <3>2. ~Known(f)
      BY <1>0, <1>1, <1>4, <3>1 DEF CoverInv, InWalk
    <3>3. Precedes(lastRead[f], kernel[f]) /\ lastRead[f].first # kernel[f].first
      BY <1>0, <3>2 DEF ReadInv, Known
    <3> QED BY <3>3 DEF Precedes, Grows
  <2> QED BY <2>1, <2>2
<1>9. CoverInv'
  BY <1>0, <1>1 DEF CoverInv
<1> QED BY <1>2, <1>3, <1>5, <1>6, <1>7, <1>8, <1>9 DEF Inv

-----------------------------------------------------------------------------
LEMMA InvInit == Init => Inv
<1> SUFFICES ASSUME Init PROVE Inv
  OBVIOUS
<1>1. Len(walk) = 0
  BY EmptySeq DEF Init
<1> QED BY <1>1 DEF Init, Inv, KernelInv, WritingInv, ReadInv, WalkInv, CountInv, PreviousInv,
     ForgottenInv, CoverInv

LEMMA InvStep == TypeOK /\ TypeOK' /\ Inv /\ [Next]_vars => Inv'
<1> SUFFICES ASSUME TypeOK, TypeOK', Inv, [Next]_vars PROVE Inv'
  OBVIOUS
<1>1. CASE UNCHANGED vars
  BY <1>1 DEF vars, kernelVars, pollVars, trackerVars, updateVars, Inv, KernelInv,
     WritingInv, ReadInv, WalkInv, CountInv, PreviousInv, ForgottenInv, CoverInv,
     Between, Sound, Known, InWalk
<1>2. CASE Next
  BY <1>2, EnvironmentStep, BeginPollStep, VisitStep, WalkEndsStep, WalkFailsStep,
     ObserveStep, RetainStep DEF Next, Environment
<1> QED BY <1>1, <1>2

\* Reading (visit_flows), reconciling (observe) and counting (update_flow) keep
\* what was taken in, what the walk holds and what the map holds in the order
\* they were written.
THEOREM FlowInvariant == Spec => []Inv
BY InvInit, InvStep, FlowTypes, PTL DEF Spec

\* The deltas observe reports never add up to more than update_flow counted: what has been reported is
\* bounded by all that was counted when the last reading was written.
THEOREM FlowNeverOvercounts == Spec => []NeverOvercounts
<1>1. TypeOK /\ Inv => NeverOvercounts
  <2> SUFFICES ASSUME TypeOK, Inv, NEW f \in Flow
               PROVE  /\ reported[f].packets <= counted[f].packets
                      /\ reported[f].bytes <= counted[f].bytes
    BY DEF NeverOvercounts
  <2>1. /\ reported[f].packets \in Nat /\ reported[f].bytes \in Nat
        /\ counted[f].packets \in Nat /\ counted[f].bytes \in Nat
    BY DEF TypeOK, Traffic
  <2>2. CASE lastRead[f] = None
    BY <2>1, <2>2 DEF Inv, CountInv, Nothing
  <2>3. CASE lastRead[f] # None
    <3>1. lastRead[f] \in Value
      BY <2>3 DEF TypeOK
    <3> QED BY <2>1, <2>3, <3>1, ValueTypes DEF Inv, CountInv, ReadInv, Sound, Leq
  <2> QED BY <2>2, <2>3
<1> QED BY <1>1, FlowTypes, FlowInvariant, PTL

\* A flow whose last update was active is one FlowTracker::previous holds as
\* active, and the other way round: retain forgets no open flow in silence.
THEOREM FlowOpenIsTracked == Spec => []OpenFlowsAreTracked
<1>1. Inv => OpenFlowsAreTracked
  BY DEF Inv, PreviousInv, OpenFlowsAreTracked
<1> QED BY <1>1, FlowInvariant, PTL

\* A flow that reconcile closes as evicted has no entry in the map, or one
\* created since; a walk that failed or started again closes none.
THEOREM FlowEvictedIsGone == Spec => []EvictedIsGone
<1>1. TypeOK /\ Inv => EvictedIsGone
  <2> SUFFICES ASSUME TypeOK, Inv, NEW f \in Flow, shown[f] = "evicted", kernel[f] # None
               PROVE  kernel[f].first # lastRead[f].first
    BY DEF EvictedIsGone
  <2>1. previous[f] = None
    BY DEF Inv, PreviousInv
  <2>2. lastRead[f] # None
    BY <2>1 DEF Inv, PreviousInv
  <2>3. lastRead[f] \in Value /\ kernel[f] \in Value
    BY <2>2 DEF TypeOK
  <2>4. Replaced(lastRead[f], kernel[f]) /\ lastRead[f].first <= lastRead[f].stamp
    BY <2>1, <2>2 DEF Inv, ForgottenInv, ReadInv, Sound
  <2> QED BY <2>3, <2>4, ValueTypes DEF Replaced
<1> QED BY <1>1, FlowTypes, FlowInvariant, PTL

\* Both at once: what a consumer holds open will be closed, what it was told is
\* evicted is no longer counted (reconcile).
THEOREM FlowClosuresAreTrue == Spec => []ClosuresAreTrue
<1>1. ClosuresAreTrue <=> OpenFlowsAreTracked /\ EvictedIsGone
  BY DEF ClosuresAreTrue
<1> QED BY <1>1, FlowOpenIsTracked, FlowEvictedIsGone, PTL

\* A closed flow makes an update (observe) only on a reading with a later packet.
THEOREM FlowReopensOnNews == Spec => ReopensOnNews
<1>1. TypeOK /\ Inv /\ [Next]_vars =>
        [\A f \in Flow : shown[f] \in Reason /\ shown'[f] # shown[f] =>
           lastRead'[f].stamp > lastRead[f].stamp]_vars
  <2> SUFFICES ASSUME TypeOK, Inv, [Next]_vars, NEW f \in Flow,
                      shown[f] \in Reason, shown'[f] # shown[f]
               PROVE  lastRead'[f].stamp > lastRead[f].stamp
    OBVIOUS
  <2>0. WalkInv /\ PreviousInv
    BY DEF Inv
  <2>1. Observe \/ Retain
    BY DEF Next, FirstPacket, Packet, Stored, Evict, Tick, BeginPoll, Visit, WalkEnds,
       WalkFails, vars, updateVars
  <2>2. lastRead[f] # None /\ lastRead[f] \in Value
    BY <2>0 DEF PreviousInv, TypeOK, Reason
  <2>3. ~Retain
    BY <2>0 DEF Retain, Lost, Missing, PreviousInv, Reason, TypeOK
  <2>4. walk \in Seq(Reading) /\ walk # <<>>
    BY <2>1, <2>3 DEF Observe, TypeOK
  <2>5. Len(walk) \in Nat \ {0} /\ walk[1] = Head(walk)
    BY <2>4, EmptySeq
  <2>6. PICK g \in Flow, v \in Value : g = walk[1].flow /\ v = walk[1].value
    BY <2>5, WalkElements
  <2>7. Insert(g, v) \/ Renew(g, v)
    BY <2>1, <2>3, <2>5, <2>6 DEF Observe, Silent, updateVars
  <2>8. g = f /\ lastRead'[f] = v
    BY <2>7 DEF Insert, Renew, Update, TypeOK
  <2>9. Between(f, v)
    BY <2>0, <2>5, <2>6, <2>8 DEF WalkInv
  <2>10. CASE Replaced(lastRead[f], v)
    BY <2>2, <2>8, <2>9, <2>10, ValueTypes DEF Replaced, Between, Sound
  <2>11. CASE Renew(f, v)
    <3>1. /\ previous[f] # None /\ previous[f].state # "active"
          /\ Total(previous[f]) = Total(lastRead[f])
          /\ previous[f].stamp = lastRead[f].stamp
      BY <2>0, <2>11 DEF Renew, PreviousInv, Reason
    <3>2. v.packets < lastRead[f].packets \/ v.bytes < lastRead[f].bytes
            \/ v.stamp > lastRead[f].stamp
      BY <2>11, <3>1 DEF Renew, Active, Recreated, Total
    <3>3. Grows(lastRead[f], v) => v.stamp > lastRead[f].stamp
      BY <2>2, <3>2, ValueTypes DEF Grows
    <3> QED BY <2>2, <2>8, <2>9, <2>10, <3>3 DEF Between, Precedes
  <2>12. CASE Insert(f, v)
    <3>1. Replaced(lastRead[f], v)
      BY <2>2, <2>9, <2>12 DEF Between, Insert
    <3> QED BY <2>10, <3>1
  <2> QED BY <2>7, <2>8, <2>11, <2>12
<1> QED BY <1>1, FlowTypes, FlowInvariant, PTL DEF Spec, ReopensOnNews
-----------------------------------------------------------------------------
\* What a whole poll takes in.

\* The entry the last poll found as it began, still there.
Standing(f) == before[f] # None /\ kernel[f] # None /\ kernel[f].first = before[f].first

Taken(f) ==
  /\ previous[f] # None
  /\ IF previous[f].state = "active" THEN previous[f].packets >= before[f].packets
     ELSE previous[f].packets + 1 >= before[f].packets

\* The value of an entry once the packet that is being recorded is stored.
Final(f) == IF writing # None /\ writing.flow = f THEN writing.value ELSE kernel[f]

\* A reading with the newest stamp of its entry misses one packet at most: the
\* one whose stamp was stored before its count.
Lags(f, v) ==
  kernel[f] # None /\ v.first = kernel[f].first /\ Final(f).stamp <= v.stamp =>
    Final(f).packets <= v.packets + 1

LagInv ==
  /\ writing # None => writing.value.packets <= kernel[writing.flow].packets + 1
  /\ \A f \in Flow : lastRead[f] # None => Lags(f, lastRead[f])
  /\ \A i \in 1..Len(walk) : Lags(walk[i].flow, walk[i].value)

\* What the poll found as it began comes before all it reads; what had been taken
\* in by then, with that stamp, misses one packet at most.
BeforeInv ==
  \A f \in Flow : before[f] # None =>
    /\ Sound(f, before[f])
    /\ kernel[f] # None => Precedes(before[f], kernel[f])
    /\ \A i \in 1..Len(walk) : walk[i].flow = f => Precedes(before[f], walk[i].value)
    /\ lastRead[f] # None /\ lastRead[f].first = before[f].first
         /\ before[f].stamp <= lastRead[f].stamp
         => before[f].packets <= lastRead[f].packets + 1

\* An entry that stands is in the walk until it is taken in.
TakeInv ==
  /\ phase = "walking" => \A f \in Flow : f <= cursor /\ Standing(f) => InWalk(f)
  /\ phase = "reconciling" => \A f \in Flow : Standing(f) => InWalk(f) \/ (f \in seen /\ Taken(f))
  /\ complete => phase = "idle" /\ \A f \in Flow : Standing(f) => Taken(f)

\* Without an eviction every entry read is the first of its flow.
ExactInv ==
  evictions = 0 => \A f \in Flow :
    /\ reported[f] = IF previous[f] = None THEN Nothing ELSE Total(previous[f])
    /\ lastRead[f] # None => Known(f) /\ previous[f] # None
    /\ \A i \in 1..Len(walk) :
         walk[i].flow = f => kernel[f] # None /\ walk[i].value.first = kernel[f].first

\* Ages are taken with a clock.
OffsetInv == phase = "reconciling" /\ walk # <<>> => offset # None

PollInv == LagInv /\ BeforeInv /\ TakeInv /\ ExactInv /\ OffsetInv

\* What a step of the environment does to a reading.
ReadingsStay ==
  /\ \A f \in Flow : kernel'[f] # None =>
       \/ /\ kernel[f] # None /\ kernel'[f].first = kernel[f].first
          /\ Final(f)' = Final(f)
       \/ now < Final(f)'.stamp
  /\ writing' # None => writing'.value.packets <= kernel'[writing'.flow].packets + 1
  /\ evictions' = 0 =>
       /\ evictions = 0
       /\ \A f \in Flow : kernel[f] # None => kernel'[f] # None /\ kernel'[f].first = kernel[f].first
  /\ UNCHANGED <<before, complete>>

LEMMA EnvironmentReads ==
  ASSUME TypeOK, TypeOK', Inv, LagInv, Environment
  PROVE  ReadingsStay
<1>0. WritingInv
  BY DEF Inv
<1>n. now \in Nat /\ now < now + 1
  BY DEF TypeOK
<1>1. ASSUME NEW f \in Flow, NEW size \in Size, NEW flags \in Flags,
             FirstPacket(f, size, flags)
      PROVE  ReadingsStay
  <2> DEFINE new == [packets |-> 1, bytes |-> size, first |-> now + 1, stamp |-> now + 1,
                     flags |-> flags, born |-> counted[f]]
  <2>1. /\ kernel[f] = None /\ kernel' = [kernel EXCEPT ![f] = new]
        /\ UNCHANGED <<writing, before, complete, evictions>>
    BY <1>1 DEF FirstPacket
  <2>2. new.stamp = now + 1
    OBVIOUS
  <2> HIDE DEF new
  <2>3. writing # None => writing.flow # f /\ writing.flow \in Flow
    BY <1>0, <2>1 DEF WritingInv, TypeOK, Reading
  <2>4. kernel'[f] = new /\ \A g \in Flow \ {f} : kernel'[g] = kernel[g]
    BY <2>1 DEF TypeOK
  <2>5. now < Final(f)'.stamp
    BY <1>n, <2>1, <2>2, <2>3, <2>4 DEF Final
  <2>6. \A g \in Flow \ {f} : Final(g)' = Final(g)
    BY <2>1, <2>4 DEF Final
  <2> QED BY <2>1, <2>3, <2>4, <2>5, <2>6 DEF ReadingsStay, LagInv
<1>2. ASSUME NEW f \in Flow, NEW size \in Size, NEW flags \in Flags,
             NEW stored \in Partial, Packet(f, size, flags, stored)
      PROVE  ReadingsStay
  <2>1. PICK old \in Value : old = kernel[f]
    BY <1>2 DEF Packet, TypeOK
  <2>0. now + 1 \in Nat
    BY <1>n
  <2>2. PICK new \in Value : new = Recorded(old, size, flags, now + 1)
    BY <2>0, RecordedType
  <2>3. PICK half \in Value : half = Half(old, new, stored)
    BY HalfType
  <2>4. /\ kernel[f] # None /\ writing = None
        /\ kernel' = [kernel EXCEPT ![f] = half]
        /\ writing' = [flow |-> f, value |-> new]
        /\ UNCHANGED <<before, complete, evictions>>
    BY <1>2, <2>1, <2>2, <2>3 DEF Packet
  <2>5. /\ new.packets = old.packets + 1 /\ new.stamp = now + 1 /\ new.first = old.first
    BY <2>2 DEF Recorded
  <2>6. half.packets \in {old.packets, new.packets} /\ half.first \in {old.first, new.first}
    <3>1. DOMAIN old = {"packets", "bytes", "first", "stamp", "flags", "born"}
      BY DEF Value
    <3> QED BY <2>3, <3>1 DEF Half
  <2>7. kernel'[f] = half /\ \A g \in Flow \ {f} : kernel'[g] = kernel[g]
    BY <2>4 DEF TypeOK
  <2>8. writing' # None /\ writing'.flow = f /\ writing'.value = new
    <3>1. [flow |-> f, value |-> new] \in Reading
      BY DEF Reading
    <3> QED BY <2>4, <3>1, TrackerAssumption
  <2>9. now < Final(f)'.stamp
    BY <1>n, <2>5, <2>8 DEF Final
  <2>10. \A g \in Flow \ {f} : Final(g)' = Final(g)
    BY <2>4, <2>7, <2>8 DEF Final
  <2>11. new.packets <= half.packets + 1
    BY <2>5, <2>6, ValueTypes
  <2>12. kernel'[f] # None
    BY <2>7, TrackerAssumption
  <2> QED BY <2>1, <2>4, <2>5, <2>6, <2>7, <2>8, <2>9, <2>10, <2>11, <2>12 DEF ReadingsStay
<1>3. ASSUME Stored
      PROVE  ReadingsStay
  <2>1. PICK f \in Flow, v \in Value : f = writing.flow /\ v = writing.value
    BY <1>3 DEF Stored, TypeOK, Reading
  <2>2. kernel[f] # None /\ Grows(kernel[f], v) /\ v # None
    BY <1>0, <1>3, <2>1, TrackerAssumption DEF Stored, WritingInv
  <2>3. /\ kernel' = [kernel EXCEPT ![f] = v] /\ writing # None /\ writing' = None
        /\ UNCHANGED <<before, complete, evictions>>
    BY <1>3, <2>1 DEF Stored, counters
  <2>4. kernel'[f] = v /\ \A g \in Flow \ {f} : kernel'[g] = kernel[g]
    BY <2>3 DEF TypeOK
  <2>5. \A g \in Flow : Final(g)' = Final(g)
    BY <2>1, <2>3, <2>4 DEF Final
  <2> QED BY <2>2, <2>3, <2>4, <2>5 DEF ReadingsStay, Grows
<1>4. ASSUME NEW f \in Flow, Evict(f)
      PROVE  ReadingsStay
  <2>1. /\ kernel' = [kernel EXCEPT ![f] = None] /\ evictions' = evictions + 1
        /\ writing' = IF writing # None /\ writing.flow = f THEN None ELSE writing
        /\ UNCHANGED <<before, complete>>
    BY <1>4 DEF Evict
  <2>2. kernel'[f] = None /\ \A g \in Flow \ {f} : kernel'[g] = kernel[g]
    BY <2>1 DEF TypeOK
  <2>3. \A g \in Flow \ {f} : Final(g)' = Final(g)
    BY <2>1, <2>2 DEF Final
  <2>4. evictions' # 0
    BY <2>1 DEF TypeOK
  <2>5. writing' # None => writing' = writing /\ writing.flow \in Flow \ {f}
    BY <2>1 DEF TypeOK, Reading
  <2> QED BY <2>1, <2>2, <2>3, <2>4, <2>5 DEF ReadingsStay, LagInv
<1>5. ASSUME Tick
      PROVE  ReadingsStay
  <2>1. UNCHANGED <<kernel, writing, before, complete, evictions>>
    BY <1>5 DEF Tick, kernelVars, counters
  <2> QED BY <2>1 DEF ReadingsStay, LagInv, Final
<1> QED BY <1>1, <1>2, <1>3, <1>4, <1>5 DEF Environment

LEMMA PollEnvironment ==
  ASSUME TypeOK, TypeOK', Inv, PollInv, Environment
  PROVE  PollInv'
<1>0. /\ KernelInv /\ ReadInv /\ WalkInv
      /\ LagInv /\ BeforeInv /\ TakeInv /\ ExactInv /\ OffsetInv
  BY DEF Inv, PollInv
<1>m. KernelMoves
  BY EnvironmentMoves
<1>r. ReadingsStay
  BY <1>0, EnvironmentReads
<1>u. UNCHANGED <<phase, cursor, walk, offset, previous, seen, reported, lastRead,
                  before, complete>>
  BY <1>m, <1>r DEF KernelMoves, ReadingsStay, pollVars, trackerVars, updateVars
<1>1. LagInv'
  <2>1. ASSUME NEW f \in Flow, NEW v \in Value, Sound(f, v), Lags(f, v)
        PROVE  Lags(f, v)'
    <3> SUFFICES ASSUME kernel'[f] # None, v.first = kernel'[f].first,
                        Final(f)'.stamp <= v.stamp
                 PROVE  Final(f)'.packets <= v.packets + 1
      BY DEF Lags
    <3>1. ~(now < Final(f)'.stamp)
      <4>1. kernel'[f] \in Value /\ (writing' # None => writing'.value \in Value)
        BY DEF TypeOK, Reading
      <4>2. Final(f)'.stamp \in Nat
        BY <4>1, ValueTypes DEF Final
      <4>3. now \in Nat /\ v.stamp \in Nat /\ v.stamp <= now
        BY <2>1, ValueTypes DEF TypeOK, Sound
      <4> QED BY <4>2, <4>3
    <3>2. kernel[f] # None /\ kernel'[f].first = kernel[f].first /\ Final(f)' = Final(f)
      BY <1>r, <3>1 DEF ReadingsStay
    <3> QED BY <2>1, <3>2 DEF Lags
  <2>2. ASSUME NEW f \in Flow, lastRead'[f] # None
        PROVE  Lags(f, lastRead[f])'
    <3>1. PICK v \in Value : v = lastRead[f]
      BY <1>u, <2>2 DEF TypeOK
    <3>2. Lags(f, v)'
      BY <1>0, <1>u, <2>1, <2>2, <3>1 DEF LagInv, ReadInv
    <3> QED BY <1>u, <3>1, <3>2
  <2>3. ASSUME NEW i \in 1..Len(walk)
        PROVE  Lags(walk[i].flow, walk[i].value)'
    <3>1. PICK f \in Flow, v \in Value : f = walk[i].flow /\ v = walk[i].value
      BY WalkElements
    <3>2. Lags(f, v)'
      BY <1>0, <2>1, <3>1 DEF LagInv, WalkInv, Between
    <3> QED BY <1>u, <3>1, <3>2
  <2> QED BY <1>r, <1>u, <2>2, <2>3 DEF LagInv, ReadingsStay
<1>2. BeforeInv'
  <2> SUFFICES ASSUME NEW f \in Flow, before[f] # None
               PROVE  /\ Sound(f, before[f])'
                      /\ kernel'[f] # None => Precedes(before[f], kernel'[f])
    BY <1>0, <1>u DEF BeforeInv
  <2>1. before[f] \in Value
    BY DEF TypeOK
  <2>2. Sound(f, before[f]) /\ (kernel[f] # None => Precedes(before[f], kernel[f]))
    BY <1>0 DEF BeforeInv
  <2>3. Sound(f, before[f])'
    BY <1>m, <1>u, <2>1, <2>2, SoundStays DEF Sound
  <2> QED BY <1>0, <1>m, <2>1, <2>2, <2>3, OrderStays
<1>3. TakeInv'
  <2>1. ASSUME NEW f \in Flow, Standing(f)'
        PROVE  Standing(f)
    <3>1. /\ kernel'[f] \in Value /\ before[f] \in Value
          /\ kernel'[f].first = before[f].first
      BY <1>u, <2>1 DEF Standing, TypeOK
    <3>2. before[f].first <= before[f].stamp /\ before[f].stamp <= now
      BY <1>0, <1>u, <2>1 DEF Standing, BeforeInv, Sound
    <3>3. ~Fresh(f)
      BY <3>1, <3>2, ValueTypes DEF Fresh, TypeOK
    <3>4. kernel[f] # None /\ Grows(kernel[f], kernel'[f])
      BY <1>m, <2>1, <3>3 DEF KernelMoves, Standing
    <3> QED BY <1>u, <2>1, <3>1, <3>4 DEF Standing, Grows
  <2>2. \A f \in Flow : (InWalk(f)' <=> InWalk(f)) /\ (Taken(f)' <=> Taken(f))
    BY <1>u DEF InWalk, Taken
  <2> QED BY <1>0, <1>u, <2>1, <2>2 DEF TakeInv
<1>4. ExactInv'
  <2> SUFFICES ASSUME evictions' = 0, NEW f \in Flow
               PROVE  /\ reported[f] = IF previous[f] = None THEN Nothing
                                       ELSE Total(previous[f])
                      /\ lastRead[f] # None => Known(f)' /\ previous[f] # None
                      /\ \A i \in 1..Len(walk) : walk[i].flow = f =>
                           kernel'[f] # None /\ walk[i].value.first = kernel'[f].first
    BY <1>u DEF ExactInv
  <2>1. /\ evictions = 0
        /\ kernel[f] # None => kernel'[f] # None /\ kernel'[f].first = kernel[f].first
    BY <1>r DEF ReadingsStay
  <2>2. lastRead[f] # None => Known(f) /\ previous[f] # None
    BY <1>0, <2>1 DEF ExactInv
  <2>3. lastRead[f] # None => Known(f)'
    BY <1>u, <2>1, <2>2 DEF Known
  <2> QED BY <1>0, <2>1, <2>2, <2>3 DEF ExactInv
<1>5. OffsetInv'
  BY <1>0, <1>u DEF OffsetInv
<1> QED BY <1>1, <1>2, <1>3, <1>4, <1>5 DEF PollInv

\* Two readings of one entry, with another between them or none.
LEMMA SameEntry ==
  ASSUME NEW u \in Value, NEW v \in Value, u.first = v.first, v.first <= v.stamp,
         u.first <= u.stamp, Precedes(u, v)
  PROVE  Grows(u, v)
BY ValueTypes DEF Precedes, Replaced

LEMMA SameEntryBetween ==
  ASSUME NEW u \in Value, NEW v \in Value, NEW w \in Value, u.first = w.first,
         u.first <= u.stamp, v.first <= v.stamp, Precedes(u, v), Precedes(v, w)
  PROVE  Grows(u, v)
BY ValueTypes DEF Precedes, Replaced, Grows

LEMMA PollBegins ==
  ASSUME TypeOK, Inv, PollInv, BeginPoll
  PROVE  PollInv'
<1>0. /\ KernelInv /\ ReadInv /\ CoverInv
      /\ LagInv /\ BeforeInv /\ TakeInv /\ ExactInv /\ OffsetInv
  BY DEF Inv, PollInv
<1>1. /\ phase' = "walking" /\ walk' = <<>> /\ complete' = FALSE /\ before' = kernel
      /\ writing = None /\ phase = "idle"
      /\ UNCHANGED <<now, kernel, writing, cursor, previous, counted, reported,
                     lastRead, evictions>>
  BY DEF BeginPoll, kernelVars, trackerVars, updateVars, counters
<1>2. Len(walk') = 0
  BY <1>1, EmptySeq
<1>3. LagInv'
  BY <1>0, <1>1, <1>2 DEF LagInv, Lags, Final
<1>4. BeforeInv'
  <2> SUFFICES ASSUME NEW f \in Flow, kernel[f] # None
               PROVE  /\ Sound(f, kernel[f])
                      /\ Precedes(kernel[f], kernel[f])
                      /\ lastRead[f] # None /\ lastRead[f].first = kernel[f].first
                           /\ kernel[f].stamp <= lastRead[f].stamp
                           => kernel[f].packets <= lastRead[f].packets + 1
    BY <1>1, <1>2 DEF BeforeInv, Sound
  <2>1. kernel[f] \in Value
    BY DEF TypeOK
  <2>2. lastRead[f] # None => Lags(f, lastRead[f])
    BY <1>0 DEF LagInv
  <2> QED BY <1>0, <1>1, <2>1, <2>2, PrecedesItself DEF KernelInv, Lags, Final
<1>5. TakeInv'
  <2>1. cursor' = 0
    BY <1>0, <1>1 DEF CoverInv
  <2>2. \A f \in Flow : ~(f <= 0)
    BY TrackerAssumption
  <2> QED BY <1>1, <2>1, <2>2 DEF TakeInv
<1>6. ExactInv'
  BY <1>0, <1>1, <1>2 DEF ExactInv, Known
<1>7. OffsetInv'
  BY <1>1 DEF OffsetInv
<1> QED BY <1>3, <1>4, <1>5, <1>6, <1>7 DEF PollInv

LEMMA PollVisits ==
  ASSUME TypeOK, Inv, PollInv, NEW f \in Flow, Visit(f)
  PROVE  PollInv'
<1>0. /\ KernelInv /\ ReadInv /\ WalkInv /\ CoverInv
      /\ LagInv /\ BeforeInv /\ TakeInv /\ ExactInv /\ OffsetInv
  BY DEF Inv, PollInv
<1>1. PICK v \in Value : v = kernel[f]
  BY DEF TypeOK, Visit, Ahead
<1>2. /\ phase = "walking" /\ kernel[f] # None /\ f > From
      /\ \A g \in Ahead : f <= g
      /\ walk' = Append(walk, [flow |-> f, value |-> v])
      /\ cursor' = f
      /\ UNCHANGED <<now, kernel, writing, phase, offset, previous, seen, counted,
                     reported, lastRead, before, complete, evictions>>
  BY <1>1 DEF Visit, Ahead, kernelVars, trackerVars, updateVars, counters
<1>3. /\ Len(walk) \in Nat /\ Len(walk') = Len(walk) + 1
      /\ \A i \in 1..Len(walk) : walk'[i] = walk[i]
      /\ walk'[Len(walk) + 1].flow = f /\ walk'[Len(walk) + 1].value = v
  <2>1. walk \in Seq(Reading) /\ [flow |-> f, value |-> v] \in Reading
    BY DEF TypeOK, Reading
  <2>2. Len(walk) \in Nat
    BY <2>1, LenProperties
  <2> QED BY <1>2, <2>1, <2>2, AppendProperties
<1>4. LagInv'
  <2>1. Lags(f, v)
    <3>1. Final(f).packets <= v.packets + 1
      BY <1>0, <1>1, ValueTypes DEF Final, LagInv
    <3> QED BY <3>1 DEF Lags
  <2>2. \A i \in 1..Len(walk') : Lags(walk'[i].flow, walk'[i].value)
    BY <1>0, <1>3, <2>1 DEF LagInv
  <2> QED BY <1>0, <1>2, <2>2 DEF LagInv, Lags, Final
<1>5. BeforeInv'
  <2>1. ASSUME NEW g \in Flow, before[g] # None, NEW i \in 1..Len(walk'), walk'[i].flow = g
        PROVE  Precedes(before[g], walk'[i].value)
    BY <1>0, <1>1, <1>2, <1>3, <2>1 DEF BeforeInv
  <2> QED BY <1>0, <1>2, <2>1 DEF BeforeInv, Sound
<1>6. TakeInv'
  <2> SUFFICES ASSUME NEW g \in Flow, g <= f, Standing(g)
               PROVE  \E i \in 1..Len(walk') : walk'[i].flow = g
    BY <1>0, <1>2 DEF TakeInv, Standing, InWalk
  <2>1. f \in Nat /\ g \in Nat /\ f # 0 /\ g # 0 /\ cursor \in Nat
    BY TrackerAssumption DEF TypeOK
  <2>2. CASE g = f
    BY <1>3, <2>2
  <2>3. CASE g # f
    <3>1. g <= From
      BY <1>2, <2>1, <2>3 DEF Ahead, Standing, From
    <3>2. From = cursor
      BY <2>1, <3>1 DEF From
    <3>3. InWalk(g)
      BY <1>0, <1>2, <3>1, <3>2 DEF TakeInv
    <3> QED BY <1>3, <3>3 DEF InWalk
  <2> QED BY <2>2, <2>3
<1>7. ExactInv'
  <2>1. ASSUME evictions = 0, NEW g \in Flow, NEW i \in 1..Len(walk'), walk'[i].flow = g
        PROVE  kernel[g] # None /\ walk'[i].value.first = kernel[g].first
    BY <1>0, <1>1, <1>2, <1>3, <2>1 DEF ExactInv
  <2> QED BY <1>0, <1>2, <2>1 DEF ExactInv, Known
<1>8. OffsetInv'
  BY <1>2 DEF OffsetInv
<1> QED BY <1>4, <1>5, <1>6, <1>7, <1>8 DEF PollInv

LEMMA PollWalkEnds ==
  ASSUME TypeOK, Inv, PollInv, WalkEnds
  PROVE  PollInv'
<1>0. LagInv /\ BeforeInv /\ TakeInv /\ ExactInv
  BY DEF PollInv
<1>1. /\ phase = "walking" /\ Ahead = {} /\ phase' = "reconciling" /\ cursor' = 0
      /\ offset' \in Anchor({v.stamp : v \in Readings})
      /\ UNCHANGED <<now, kernel, writing, walk, previous, seen, counted, reported,
                     lastRead, before, complete, evictions>>
  BY DEF WalkEnds, kernelVars, updateVars, counters
<1>2. LagInv' /\ BeforeInv' /\ ExactInv'
  BY <1>0, <1>1 DEF LagInv, Lags, Final, BeforeInv, Sound, ExactInv, Known
<1>3. TakeInv'
  <2> SUFFICES ASSUME NEW f \in Flow, Standing(f) PROVE InWalk(f)
    BY <1>0, <1>1 DEF TakeInv, Standing, InWalk
  <2>1. f \in Nat /\ f # 0 /\ cursor \in Nat
    BY TrackerAssumption DEF TypeOK
  <2>2. f <= cursor
    BY <1>1, <2>1 DEF Ahead, Standing, From
  <2> QED BY <1>0, <1>1, <2>2 DEF TakeInv
<1>4. OffsetInv'
  <2> SUFFICES ASSUME walk # <<>> PROVE offset' # None
    BY <1>1 DEF OffsetInv
  <2> DEFINE stamps == {v.stamp : v \in Readings}
  <2>1. Len(walk) \in Nat \ {0}
    BY EmptySeq DEF TypeOK
  <2>2. stamps # {}
    <3>1. walk[1].value \in Readings
      BY <2>1 DEF Readings
    <3> QED BY <3>1
  <2>3. stamps \subseteq Nat
    BY Reads
  <2> HIDE DEF stamps
  <2>4. CASE offset # None
    BY <1>1, <2>4 DEF Anchor
  <2>5. CASE offset = None
    <3>1. offset' \in {started - s : s \in {t \in stamps : \A u \in stamps : u <= t}}
      BY <1>1, <2>2, <2>5 DEF Anchor, stamps
    <3>2. offset' \in Int
      BY <2>3, <3>1 DEF TypeOK
    <3> QED BY <3>2, TrackerAssumption
  <2> QED BY <2>4, <2>5
<1> QED BY <1>2, <1>3, <1>4 DEF PollInv

LEMMA PollWalkFails ==
  ASSUME PollInv, WalkFails
  PROVE  PollInv'
<1>1. /\ phase = "walking" /\ phase' = "idle"
      /\ UNCHANGED <<now, kernel, writing, walk, previous, seen, counted, reported,
                     lastRead, before, complete, evictions>>
  BY DEF WalkFails, kernelVars, updateVars
<1>2. ~complete
  BY <1>1 DEF PollInv, TakeInv
<1> QED BY <1>1, <1>2
     DEF PollInv, LagInv, Lags, Final, BeforeInv, Sound, TakeInv, ExactInv, Known, OffsetInv

LEMMA PollRetains ==
  ASSUME TypeOK, Inv, PollInv, Retain
  PROVE  PollInv'
<1>0. /\ CoverInv /\ PreviousInv
      /\ LagInv /\ BeforeInv /\ TakeInv /\ ExactInv
  BY DEF Inv, PollInv
<1>1. /\ phase = "reconciling" /\ walk = <<>> /\ phase' = "idle"
      /\ previous' = [f \in Flow |-> IF f \in Lost \cup Expired THEN None ELSE previous[f]]
      /\ UNCHANGED <<now, kernel, writing, walk, counted, reported, lastRead, before,
                     evictions>>
  BY DEF Retain, kernelVars, counters
<1>2. Len(walk) = 0 /\ Len(walk') = 0
  BY <1>1, EmptySeq
<1>3. \A f \in seen : previous'[f] = previous[f]
  BY <1>1 DEF Lost, Expired, Missing, TypeOK
<1>4. LagInv' /\ BeforeInv'
  BY <1>0, <1>1 DEF LagInv, Lags, Final, BeforeInv, Sound
<1>5. TakeInv'
  <2>1. ASSUME NEW f \in Flow, Standing(f)
        PROVE  Taken(f)'
    <3>1. f \in seen /\ Taken(f)
      BY <1>0, <1>1, <1>2, <2>1 DEF TakeInv, InWalk
    <3> QED BY <1>1, <1>3, <3>1 DEF Taken
  <2> QED BY <1>1, <2>1 DEF TakeInv, Standing
<1>6. ExactInv'
  <2> SUFFICES ASSUME evictions = 0, NEW f \in Flow
               PROVE  previous'[f] = previous[f]
    BY <1>0, <1>1, <1>2 DEF ExactInv, Known
  <2>1. CASE previous[f] = None
    BY <1>1, <2>1
  <2>2. CASE previous[f] # None
    <3>1. Known(f)
      BY <1>0, <2>2 DEF ExactInv, PreviousInv
    <3> QED BY <1>0, <1>1, <1>2, <1>3, <3>1 DEF CoverInv, InWalk
  <2> QED BY <2>1, <2>2
<1>7. OffsetInv'
  BY <1>1 DEF OffsetInv
<1> QED BY <1>4, <1>5, <1>6, <1>7 DEF PollInv

LEMMA PollObserves ==
  ASSUME TypeOK, Inv, PollInv, Observe
  PROVE  PollInv'
<1>0. /\ KernelInv /\ ReadInv /\ WalkInv /\ PreviousInv
      /\ LagInv /\ BeforeInv /\ TakeInv /\ ExactInv /\ OffsetInv
  BY DEF Inv, PollInv
<1>1. walk \in Seq(Reading) /\ walk # <<>> /\ walk' = Tail(walk)
  BY DEF Observe, TypeOK
<1>2. /\ Len(walk) \in Nat \ {0} /\ Len(walk') = Len(walk) - 1
      /\ \A i \in 1..Len(walk') : walk'[i] = walk[i + 1]
      /\ walk[1] = Head(walk)
  BY <1>1, HeadTailProperties, EmptySeq, LenProperties
<1>3. PICK f \in Flow, v \in Value : f = walk[1].flow /\ v = walk[1].value
  BY <1>2, WalkElements
<1>4. /\ phase = "reconciling"
      /\ Insert(f, v) \/ Silent(f, v) \/ Renew(f, v)
      /\ seen' = seen \cup {f}
      /\ UNCHANGED <<now, kernel, writing, phase, cursor, offset, counted, before,
                     complete, evictions>>
  BY <1>2, <1>3 DEF Observe, kernelVars, counters
<1>5. \A i \in 1..Len(walk') : i + 1 \in 1..Len(walk)
  BY <1>2
<1>6. /\ v.first <= v.stamp /\ Lags(f, v)
      /\ kernel[f] # None => Precedes(v, kernel[f])
      /\ lastRead[f] # None => /\ lastRead[f] \in Value
                               /\ lastRead[f].first <= lastRead[f].stamp
                               /\ Precedes(lastRead[f], v)
      /\ before[f] # None => /\ before[f] \in Value
                             /\ before[f].first <= before[f].stamp
                             /\ Precedes(before[f], v)
      /\ evictions = 0 => kernel[f] # None /\ v.first = kernel[f].first
  <2>1. 1 \in 1..Len(walk)
    BY <1>2
  <2> QED BY <1>0, <1>3, <2>1
       DEF WalkInv, Between, Sound, LagInv, ReadInv, BeforeInv, ExactInv, TypeOK
<1>7. \/ UNCHANGED <<previous, reported, lastRead>> /\ Silent(f, v)
      \/ \E state \in {"active"} \cup Reason :
           /\ previous' = [previous EXCEPT ![f] = Remember(v, state)]
           /\ lastRead' = [lastRead EXCEPT ![f] = v]
           /\ reported' = [reported EXCEPT ![f] = Plus(@,
                IF previous[f] = None THEN Total(v) ELSE Delta(previous[f], v))]
           /\ previous[f] # None => previous[f] \in Kept
  <2>1. CASE Insert(f, v)
    BY <2>1 DEF Insert, Update, Reason
  <2>2. CASE Renew(f, v)
    <3>1. PICK state \in {"active"} \cup (Reason \ {"evicted"}) :
            state = NextState(previous[f], v)
      BY NextStateType
    <3> QED BY <2>2, <3>1 DEF Renew, Update, TypeOK
  <2> QED BY <1>4, <2>1, <2>2 DEF Silent, updateVars
<1>8. /\ \A g \in Flow \ {f} : /\ previous'[g] = previous[g]
                                /\ lastRead'[g] = lastRead[g]
                                /\ reported'[g] = reported[g]
      /\ lastRead'[f] \in {lastRead[f], v}
  BY <1>7 DEF TypeOK
<1>9. LagInv'
  <2>1. \A g \in Flow : lastRead'[g] # None => Lags(g, lastRead'[g])
    BY <1>0, <1>6, <1>8 DEF LagInv
  <2>2. \A i \in 1..Len(walk') : Lags(walk'[i].flow, walk'[i].value)
    BY <1>0, <1>2, <1>5 DEF LagInv
  <2> QED BY <1>0, <1>4, <2>1, <2>2 DEF LagInv, Lags, Final
<1>10. BeforeInv'
  <2>1. ASSUME NEW g \in Flow, before[g] # None, NEW i \in 1..Len(walk'), walk'[i].flow = g
        PROVE  Precedes(before[g], walk'[i].value)
    BY <1>0, <1>2, <1>5, <2>1 DEF BeforeInv
  <2>2. ASSUME before[f] # None, v.first = before[f].first
        PROVE  before[f].packets <= v.packets + 1
    BY <1>6, <2>2, SameEntry, ValueTypes DEF Grows
  <2>3. ASSUME NEW g \in Flow, before[g] # None, lastRead'[g] # None,
               lastRead'[g].first = before[g].first,
               before[g].stamp <= lastRead'[g].stamp
        PROVE  before[g].packets <= lastRead'[g].packets + 1
    BY <1>0, <1>8, <2>2, <2>3 DEF BeforeInv
  <2> QED BY <1>0, <1>4, <2>1, <2>3 DEF BeforeInv, Sound
<1>11. TakeInv'
  <2>1. ASSUME Standing(f)
        PROVE  Taken(f)'
    <3>1. Grows(before[f], v)
      <4>1. kernel[f] \in Value /\ before[f].first = kernel[f].first
        BY <2>1 DEF Standing, TypeOK
      <4> QED BY <1>6, <2>1, <4>1, SameEntryBetween DEF Standing
    <3>2. CASE Silent(f, v)
      <4>1. /\ previous' = previous /\ previous[f] \in Kept /\ previous[f] # None
            /\ ~Active(previous[f], v) /\ previous[f].state # "active"
        BY <3>2 DEF Silent, TypeOK
      <4>2. /\ lastRead[f] # None /\ Total(previous[f]) = Total(lastRead[f])
            /\ previous[f].stamp = lastRead[f].stamp
        BY <1>0, <4>1 DEF PreviousInv
      <4>3. v.stamp <= lastRead[f].stamp
        BY <1>6, <4>1, <4>2, ValueTypes DEF Active
      <4>4. lastRead[f].first = v.first
        BY <1>6, <4>2, <4>3, ValueTypes DEF Precedes, Grows, Replaced
      <4>5. before[f].packets <= lastRead[f].packets + 1
        BY <1>0, <1>6, <2>1, <3>1, <4>2, <4>3, <4>4, ValueTypes
           DEF BeforeInv, Grows, Standing
      <4> QED BY <1>4, <4>1, <4>2, <4>5 DEF Taken, Total
    <3>3. ASSUME NEW state \in {"active"} \cup Reason,
                 previous' = [previous EXCEPT ![f] = Remember(v, state)]
          PROVE  Taken(f)'
      <4>1. previous'[f] = Remember(v, state) /\ Remember(v, state) \in Kept
        BY <3>3, RememberType DEF TypeOK
      <4>2. previous'[f] # None /\ previous'[f].packets = v.packets
        BY <4>1, TrackerAssumption DEF Remember
      <4> QED BY <1>4, <1>6, <2>1, <3>1, <4>2, ValueTypes DEF Taken, Grows, Standing
    <3> QED BY <1>7, <3>2, <3>3
  <2>2. ASSUME NEW g \in Flow \ {f}, InWalk(g)
        PROVE  InWalk(g)'
    <3>1. PICK i \in 1..Len(walk) : walk[i].flow = g
      BY <2>2 DEF InWalk
    <3>2. i # 1
      BY <1>3, <3>1
    <3>3. i - 1 \in 1..Len(walk') /\ walk'[i - 1] = walk[i]
      BY <1>2, <3>2
    <3> QED BY <3>1, <3>3 DEF InWalk
  <2>3. ASSUME NEW g \in Flow, Standing(g)
        PROVE  InWalk(g)' \/ (g \in seen' /\ Taken(g)')
    <3>1. CASE g = f
      BY <1>4, <2>1, <2>3, <3>1
    <3>2. CASE g # f
      BY <1>0, <1>4, <1>8, <2>2, <2>3, <3>2 DEF TakeInv, Taken
    <3> QED BY <3>1, <3>2
  <2> QED BY <1>0, <1>4, <2>3 DEF TakeInv, Standing
<1>12. ExactInv'
  <2> SUFFICES ASSUME evictions = 0
               PROVE  \A g \in Flow :
                        /\ reported'[g] = IF previous'[g] = None THEN Nothing
                                          ELSE Total(previous'[g])
                        /\ lastRead'[g] # None => Known(g)' /\ previous'[g] # None
                        /\ \A i \in 1..Len(walk') : walk'[i].flow = g =>
                             kernel[g] # None /\ walk'[i].value.first = kernel[g].first
    BY <1>4 DEF ExactInv
  <2>1. \A g \in Flow : \A i \in 1..Len(walk') : walk'[i].flow = g =>
          kernel[g] # None /\ walk'[i].value.first = kernel[g].first
    BY <1>0, <1>2, <1>5 DEF ExactInv
  <2>2. \A g \in Flow : /\ reported[g] = IF previous[g] = None THEN Nothing
                                         ELSE Total(previous[g])
                        /\ lastRead[g] # None => Known(g) /\ previous[g] # None
    BY <1>0 DEF ExactInv
  <2>3. CASE UNCHANGED <<previous, reported, lastRead>>
    BY <1>4, <2>1, <2>2, <2>3 DEF Known
  <2>4. ASSUME NEW state \in {"active"} \cup Reason,
               previous' = [previous EXCEPT ![f] = Remember(v, state)],
               lastRead' = [lastRead EXCEPT ![f] = v],
               reported' = [reported EXCEPT ![f] = Plus(@,
                 IF previous[f] = None THEN Total(v) ELSE Delta(previous[f], v))],
               previous[f] # None => previous[f] \in Kept
        PROVE  /\ reported'[f] = Total(previous'[f]) /\ previous'[f] # None
               /\ lastRead'[f] = v /\ Known(f)'
    <3>1. PICK p \in Kept : p = Remember(v, state)
      BY RememberType
    <3>2. previous'[f] = p /\ p # None /\ lastRead'[f] = v /\ v # None
      BY <2>4, <3>1, TrackerAssumption DEF TypeOK
    <3>3. Total(p) = Total(v)
      BY <3>1 DEF Remember, Total
    <3>4. Known(f)'
      BY <1>4, <1>6, <3>2 DEF Known
    <3>5. CASE previous[f] = None
      <4>1. reported'[f] = Plus(Nothing, Total(v))
        BY <2>2, <2>4, <3>5 DEF TypeOK
      <4>2. Plus(Nothing, Total(v)) = Total(v)
        BY ValueTypes DEF Plus, Nothing, Total
      <4> QED BY <3>2, <3>3, <3>4, <4>1, <4>2
    <3>6. CASE previous[f] # None
      <4>1. PICK old \in Kept : old = previous[f]
        BY <2>4, <3>6
      <4>2. reported'[f] = Plus(Total(old), Delta(old, v))
        BY <2>2, <2>4, <3>6, <4>1 DEF TypeOK
      <4>3. /\ lastRead[f] # None /\ Total(old) = Total(lastRead[f])
            /\ lastRead[f].first = kernel[f].first
        BY <1>0, <2>2, <3>6, <4>1 DEF PreviousInv, Known
      <4>4. Grows(lastRead[f], v)
        BY <1>6, <4>3, SameEntry
      <4>5. /\ old.packets = lastRead[f].packets /\ old.bytes = lastRead[f].bytes
            /\ old.packets \in Nat /\ old.bytes \in Nat
        BY <4>3 DEF Total, Kept
      <4>6. Delta(old, v) = [packets |-> v.packets - old.packets,
                             bytes |-> v.bytes - old.bytes]
        BY <4>4, <4>5, ValueTypes DEF Delta, Recreated, Grows, Minus
      <4>7. Plus(Total(old), Delta(old, v)) = Total(v)
        BY <4>5, <4>6, ValueTypes DEF Plus, Total
      <4> QED BY <3>2, <3>3, <3>4, <4>2, <4>7
    <3> QED BY <3>5, <3>6
  <2>5. \A g \in Flow \ {f} : Known(g)' <=> Known(g)
    BY <1>4, <1>8 DEF Known
  <2>6. \/ UNCHANGED <<previous, reported, lastRead>>
        \/ /\ reported'[f] = Total(previous'[f]) /\ previous'[f] # None
           /\ lastRead'[f] = v /\ Known(f)'
    BY <1>7, <2>4
  <2>7. CASE /\ reported'[f] = Total(previous'[f]) /\ previous'[f] # None
             /\ lastRead'[f] = v /\ Known(f)'
    BY <1>8, <2>1, <2>2, <2>5, <2>7
  <2> QED BY <2>3, <2>6, <2>7
<1>13. OffsetInv'
  BY <1>0, <1>1, <1>4 DEF OffsetInv
<1> QED BY <1>9, <1>10, <1>11, <1>12, <1>13 DEF PollInv

-----------------------------------------------------------------------------
\* Whatever is recorded or evicted meanwhile, an entry visit_flows found as it
\* began is in the walk until reconcile has taken it in, with all its packets but
\* the one whose stamp was stored before its count; without evictions the deltas
\* add up to the last reading.
THEOREM FlowPollInvariant == Spec => []PollInv
<1>1. Init => PollInv
  <2> SUFFICES ASSUME Init PROVE PollInv
    OBVIOUS
  <2>1. Len(walk) = 0
    BY EmptySeq DEF Init
  <2> QED BY <2>1 DEF Init, PollInv, LagInv, BeforeInv, TakeInv, ExactInv, OffsetInv, Nothing
<1>2. TypeOK /\ TypeOK' /\ Inv /\ PollInv /\ [Next]_vars => PollInv'
  <2> SUFFICES ASSUME TypeOK, TypeOK', Inv, PollInv, [Next]_vars PROVE PollInv'
    OBVIOUS
  <2>1. CASE UNCHANGED vars
    BY <2>1 DEF vars, kernelVars, pollVars, trackerVars, updateVars, counters, PollInv,
       LagInv, BeforeInv, TakeInv, ExactInv, OffsetInv, Lags, Final, Sound, Standing,
       Taken, Known, InWalk
  <2>2. CASE Next
    BY <2>2, PollEnvironment, PollBegins, PollVisits, PollWalkEnds, PollWalkFails,
       PollObserves, PollRetains DEF Next, Environment
  <2> QED BY <2>1, <2>2
<1> QED BY <1>1, <1>2, FlowTypes, FlowInvariant, PTL DEF Spec

\* A poll that read the map to its end has taken in every entry that was there
\* when it began (visit_flows, observe, retain), and without evictions what was
\* reported is exactly what was last read.
THEOREM FlowPollIsComplete == Spec => []PollIsComplete
<1>1. PollInv => PollIsComplete
  BY DEF PollInv, TakeInv, Standing, Taken, ExactInv, PollIsComplete
<1> QED BY <1>1, FlowPollInvariant, PTL

\* observe closes a flow as idle only when the map, as the poll began, held no
\* packet of it younger than idle_timeout: the stamp it judges by is the last it
\* took in, and no reading since has a later one.
THEOREM FlowIdleIsQuiet == Spec => IdleIsQuiet
<1>1. TypeOK /\ Inv /\ PollInv /\ [Next]_vars =>
        [\A f \in Flow :
           shown'[f] = "idle_timeout" /\ shown[f] # "idle_timeout" /\ before[f] # None
             => started - before[f].stamp >= IdleTimeout - Skew]_vars
  <2> SUFFICES ASSUME TypeOK, Inv, PollInv, [Next]_vars, NEW f \in Flow,
                      shown'[f] = "idle_timeout", shown[f] # "idle_timeout",
                      before[f] # None
               PROVE  started - before[f].stamp >= IdleTimeout - Skew
    OBVIOUS
  <2>1. Observe \/ Retain
    BY DEF Next, FirstPacket, Packet, Stored, Evict, Tick, BeginPoll, Visit, WalkEnds,
       WalkFails, vars, updateVars
  <2>2. ~Retain
    BY DEF Retain, TypeOK
  <2>3. walk \in Seq(Reading) /\ walk # <<>> /\ phase = "reconciling"
    BY <2>1, <2>2 DEF Observe, TypeOK
  <2>4. Len(walk) \in Nat \ {0} /\ walk[1] = Head(walk)
    BY <2>3, EmptySeq
  <2>5. PICK g \in Flow, v \in Value : g = walk[1].flow /\ v = walk[1].value
    BY <2>4, WalkElements
  <2>6. Insert(g, v) \/ Silent(g, v) \/ Renew(g, v)
    BY <2>1, <2>2, <2>4, <2>5 DEF Observe
  <2>7. g = f /\ Renew(f, v) /\ NextState(previous[f], v) = "idle_timeout"
    BY <2>6 DEF Insert, Silent, Renew, Update, updateVars, TypeOK
  <2>8. PICK p \in Kept : p = previous[f]
    BY <2>7 DEF Renew, TypeOK
  <2>9. v.stamp <= p.stamp /\ Age(p) >= IdleTimeout
    <3>1. ~Active(p, v) /\ Age(p) >= IdleTimeout
      BY <2>7, <2>8 DEF NextState
    <3> QED BY <3>1, ValueTypes DEF Active, Kept
  <2>10. before[f] \in Value /\ before[f].stamp <= v.stamp
    <3>1. 1 \in 1..Len(walk) /\ walk[1].flow = f
      BY <2>4, <2>5, <2>7
    <3>2. Precedes(before[f], v) /\ v.first <= v.stamp /\ before[f] \in Value
      BY <2>5, <3>1 DEF PollInv, BeforeInv, Inv, WalkInv, Between, Sound, TypeOK
    <3> QED BY <3>2, ValueTypes DEF Precedes, Grows, Replaced
  <2>11. offset \in Int /\ offset # None
    BY <2>3, TrackerAssumption DEF PollInv, OffsetInv, TypeOK
  <2>12. started \in Nat /\ p.stamp \in Nat /\ IdleTimeout \in Nat
    BY TrackerAssumption DEF TypeOK, Kept
  <2>13. before[f].stamp \in Nat /\ v.stamp \in Nat
    BY <2>10, ValueTypes
  <2>14. CASE offset < 0
    BY <2>9, <2>10, <2>11, <2>12, <2>13, <2>14 DEF Age, Skew
  <2>15. CASE ~(offset < 0)
    BY <2>9, <2>10, <2>11, <2>12, <2>13, <2>15 DEF Age, Skew
  <2> QED BY <2>11, <2>14, <2>15
<1> QED BY <1>1, FlowTypes, FlowInvariant, FlowPollInvariant, PTL DEF Spec, IdleIsQuiet
=============================================================================
