---------------------------- MODULE EvidenceProofs ----------------------------
(***************************************************************************)
(* Proofs about evidence: what a flow is told to be (FlowEvidence) and what*)
(* is reported of domains (DomainEvidence).                                *)
(*                                                                         *)
(* Both systems fold a drained ring into their state in one step, so both  *)
(* proofs rest on lemmas about folds: what FoldLeft gives is the last of a *)
(* chain of states, and an invariant of every link holds of the last.  They*)
(* are stated for each folded operator, since a lemma cannot be instantiated*)
(* with an operator.                                                       *)
(*                                                                         *)
(* FlowEvidence: what the caches, the stash and a poll's readings may hold *)
(* (World, Caches, Flows), and with them that an update of a poll carries  *)
(* the evidence there was.  DomainEvidence: what the decoder remembers is  *)
(* backed by a report, and every report still valid is remembered.         *)
(***************************************************************************)
EXTENDS FlowEvidence, DomainEvidence, FiniteSetTheorems, SequenceTheorems, TLAPS

------------------------------------------------------------------------------
\* Folds over sequences.  The library's induction takes an operator; here a set
\* of counterexamples takes its place, which has a least member.

LEMMA LeastNumber ==
  ASSUME NEW T \in SUBSET Nat, T # {}
  PROVE  \E x \in T : \A y \in T : x <= y
  <1> DEFINE R == {p \in Nat \X Nat : p[1] < p[2]}
  <1>1. OpToRel(<, Nat) = R
    BY DEF OpToRel
  <1>2. IsWellFoundedOn(R, Nat)
    BY <1>1, NatLessThanWellFounded
  <1>3. PICK x \in T : \A y \in T : ~(<<y, x>> \in R)
    <2> HIDE DEF R
    <2> QED BY <1>2, WFMin
  <1>4. ASSUME NEW y \in T PROVE x <= y
    <2>1. <<y, x>> \in Nat \X Nat /\ <<y, x>>[1] = y /\ <<y, x>>[2] = x /\ y \in Nat /\ x \in Nat
      OBVIOUS
    <2>2. y < x => <<y, x>> \in R
      BY <2>1
    <2> HIDE DEF R
    <2> QED BY <1>3, <2>1, <2>2
  <1> QED BY <1>4

LEMMA EveryNumber ==
  ASSUME NEW T \in SUBSET Nat, 0 \in T, \A n \in Nat : n \in T => n + 1 \in T
  PROVE  T = Nat
  <1>1. SUFFICES ASSUME Nat \ T # {} PROVE FALSE
    OBVIOUS
  <1>2. PICK x \in Nat \ T : \A y \in Nat \ T : x <= y
    BY <1>1, LeastNumber
  <1>3. x # 0 /\ x - 1 \in Nat /\ (x - 1) + 1 = x
    BY <1>2
  <1> QED BY <1>2, <1>3

\* The greatest number of a bounded set.
LEMMA MaxLaws ==
  ASSUME NEW n \in Nat, NEW t \in SUBSET (1..n), t # {}
  PROVE  /\ Max(t) \in t /\ \A y \in t : y <= Max(t)
         /\ n # 0 /\ t \ {Max(t)} \in SUBSET (1..(n - 1))
  <1> DEFINE U == {n - y : y \in t}
  <1>1. U \in SUBSET Nat /\ U # {}
    <2>1. \A y \in t : n - y \in Nat
      OBVIOUS
    <2> QED BY <2>1
  <1>2. PICK u \in U : \A v \in U : u <= v
    <2> HIDE DEF U
    <2> QED BY <1>1, LeastNumber
  <1>3. PICK x \in t : u = n - x
    BY <1>2
  <1>4. \A y \in t : x >= y
    <2> SUFFICES ASSUME NEW y \in t PROVE x >= y
      OBVIOUS
    <2>1. n - y \in U
      OBVIOUS
    <2> HIDE DEF U
    <2>2. u <= n - y
      BY <1>2, <2>1
    <2> QED BY <1>3, <2>2
  <1>5. \E z \in t : \A y \in t : z >= y
    BY <1>3, <1>4
  <1>6. Max(t) \in t /\ \A y \in t : Max(t) >= y
    BY <1>5 DEF Max
  <1>7. n # 0
    OBVIOUS
  <1>8. ASSUME NEW y \in t \ {Max(t)} PROVE y \in 1..(n - 1)
    <2>1. Max(t) \in 1..n /\ y \in 1..n /\ Max(t) >= y /\ y # Max(t)
      BY <1>6
    <2> QED BY <2>1
  <1>9. ASSUME NEW y \in t PROVE y <= Max(t)
    <2>1. Max(t) \in 1..n /\ y \in 1..n /\ Max(t) >= y
      BY <1>6
    <2> QED BY <2>1
  <1> QED BY <1>6, <1>7, <1>8, <1>9

LEMMA MaxPrefix ==
  ASSUME NEW n \in Nat \ {0}
  PROVE  1..n # {} /\ Max(1..n) = n /\ (1..n) \ {n} = 1..(n - 1)
  <1>1. n \in 1..n /\ 1..n \in SUBSET (1..n)
    OBVIOUS
  <1>2. Max(1..n) \in 1..n /\ n <= Max(1..n)
    <2> DEFINE t == 1..n
    <2>1. t \in SUBSET (1..n) /\ t # {} /\ n \in t
      BY <1>1
    <2> HIDE DEF t
    <2>2. Max(t) \in t /\ \A y \in t : y <= Max(t)
      BY <2>1, MaxLaws
    <2> QED BY <2>1, <2>2 DEF t
  <1> QED BY <1>1, <1>2

------------------------------------------------------------------------------
\* Samples are taken into the tracker one after the other.

Taken(g, start, s, n) ==
  \A t \in SUBSET (1..n) :
    g[t] = IF t = {} THEN start ELSE SetService(g[t \ {Max(t)}], s[Max(t)])

LEMMA TakenExists ==
  ASSUME NEW start, NEW s, NEW n \in Nat
  PROVE  \E g : Taken(g, start, s, n)
  <1> DEFINE T == {m \in Nat : \E g : Taken(g, start, s, m)}
  <1>1. 0 \in T
    <2>1. Taken([t \in {{}} |-> start], start, s, 0)
      BY DEF Taken
    <2> QED BY <2>1
  <1>2. ASSUME NEW m \in Nat, m \in T PROVE m + 1 \in T
    <2>1. PICK g : Taken(g, start, s, m)
      BY <1>2
    <2> DEFINE h == [t \in SUBSET (1..(m + 1)) |->
                       IF t = {} THEN start ELSE SetService(g[t \ {Max(t)}], s[Max(t)])]
    <2>2. \A t \in SUBSET (1..m) : t \in SUBSET (1..(m + 1)) /\ h[t] = g[t]
      BY <2>1 DEF Taken
    <2>3. \A t \in SUBSET (1..(m + 1)) : t # {} => t \ {Max(t)} \in SUBSET (1..m)
      <3>1. ASSUME NEW t \in SUBSET (1..(m + 1)), t # {} PROVE t \ {Max(t)} \in SUBSET (1..m)
        <4>1. m + 1 \in Nat /\ (m + 1) - 1 = m
          OBVIOUS
        <4>2. t \ {Max(t)} \in SUBSET (1..((m + 1) - 1))
          BY <3>1, <4>1, MaxLaws
        <4> QED BY <4>1, <4>2
      <3> QED BY <3>1
    <2>4. ASSUME NEW t \in SUBSET (1..(m + 1))
          PROVE  h[t] = IF t = {} THEN start ELSE SetService(h[t \ {Max(t)}], s[Max(t)])
      <3>1. h[t] = IF t = {} THEN start ELSE SetService(g[t \ {Max(t)}], s[Max(t)])
        OBVIOUS
      <3>2. t # {} => h[t \ {Max(t)}] = g[t \ {Max(t)}]
        BY <2>2, <2>3
      <3> HIDE DEF h
      <3> QED BY <3>1, <3>2
    <2>5. Taken(h, start, s, m + 1)
      BY <2>4 DEF Taken
    <2> QED BY <2>5
  <1> HIDE DEF T
  <1>3. T \in SUBSET Nat
    BY DEF T
  <1>4. n \in T
    BY <1>1, <1>2, <1>3, EveryNumber
  <1> QED BY <1>4 DEF T

\* What the fold gives is the last of a chain of states.
LEMMA FoldIs ==
  ASSUME NEW start, NEW s, Len(s) \in Nat, DOMAIN s = 1..Len(s)
  PROVE  \E g : /\ g[0] = start
                /\ \A n \in 1..Len(s) : g[n] = SetService(g[n - 1], s[n])
                /\ FoldLeft(SetService, start, s) = g[Len(s)]
  <1> DEFINE K == 1..Len(s)
             Is(g) == g = [t \in SUBSET K |->
                        IF t = {} THEN start ELSE SetService(g[t \ {Max(t)}], s[Max(t)])]
             g0 == CHOOSE g : Is(g)
  <1>1. \E g : Is(g)
    <2>1. PICK g : Taken(g, start, s, Len(s))
      BY TakenExists
    <2> DEFINE h == [t \in SUBSET K |-> g[t]]
    <2>2. ASSUME NEW t \in SUBSET K
          PROVE  h[t] = IF t = {} THEN start ELSE SetService(h[t \ {Max(t)}], s[Max(t)])
      BY <2>1 DEF Taken
    <2>3. Is(h)
      <3> HIDE DEF h
      <3>1. h = [t \in SUBSET K |-> h[t]]
        BY DEF h
      <3> QED BY <2>2, <3>1
    <2> QED BY <2>3
  <1>2. Is(g0)
    <2> HIDE DEF Is
    <2> QED BY <1>1
  <1>3. FoldLeft(SetService, start, s) = g0[K]
    BY DEF FoldLeft, MapThenFoldSet
  <1>4. \A t \in SUBSET K : g0[t] = IF t = {} THEN start ELSE SetService(g0[t \ {Max(t)}], s[Max(t)])
    <2> HIDE DEF g0
    <2> QED BY <1>2
  <1> DEFINE g == [n \in 0..Len(s) |-> g0[1..n]]
  <1> HIDE DEF g0
  <1>5. g[0] = start
    <2>1. 0 \in 0..Len(s) /\ 1..0 = {} /\ {} \in SUBSET K
      OBVIOUS
    <2>2. g0[{}] = start
      BY <1>4, <2>1
    <2> QED BY <2>1, <2>2
  <1>6. ASSUME NEW n \in 1..Len(s) PROVE g[n] = SetService(g[n - 1], s[n])
    <2>1. 1..n # {} /\ Max(1..n) = n /\ (1..n) \ {n} = 1..(n - 1)
      BY MaxPrefix
    <2>2. 1..n \in SUBSET K /\ n \in 0..Len(s) /\ n - 1 \in 0..Len(s)
      OBVIOUS
    <2>3. g0[1..n] = SetService(g0[1..(n - 1)], s[n])
      <3> HIDE DEF K
      <3> QED BY <1>4, <2>1, <2>2
    <2>4. g[n] = g0[1..n] /\ g[n - 1] = g0[1..(n - 1)]
      BY <2>2
    <2> QED BY <2>3, <2>4
  <1>7. FoldLeft(SetService, start, s) = g[Len(s)]
    BY <1>3
  <1> HIDE DEF g
  <1> QED BY <1>5, <1>6, <1>7

------------------------------------------------------------------------------
\* What the tracker knows of a flow.

World ==
  /\ DOMAIN sockets \subseteq {SocketKey(f) : f \in Flow} \cup {RemoteKey(f) : f \in Flow}
  /\ \A k \in DOMAIN sockets : sockets[k] \in App \cup {KernelTask}
  /\ DOMAIN listens \subseteq {ListenerKey(f) : f \in Flow}
  /\ \A k \in DOMAIN listens : listens[k] \in App
  /\ DOMAIN bound \subseteq {ListenerKey(f) : f \in Flow}
  /\ \A k \in DOMAIN bound : bound[k] \in App
  /\ ring \in Seq([flow : Flow, payload : Payload \cup {Silent}])
  /\ DOMAIN entries \subseteq Flow
  /\ poll = [at |-> poll.at, flows |-> poll.flows, owners |-> poll.owners, read |-> poll.read]
  /\ poll.at \in {"idle", "services", "owners", "reconcile"}
  /\ DOMAIN poll.read \subseteq Flow

LEMMA WorldStart == ASSUME Init PROVE World
  <1>1. PICK ks \in SUBSET {ListenerKey(f) : f \in Flow}, app \in App : bound = [k \in ks |-> app]
    BY DEF Init
  <1>2. DOMAIN bound \subseteq {ListenerKey(f) : f \in Flow} /\ \A k \in DOMAIN bound : bound[k] \in App
    BY <1>1
  <1> QED BY <1>2 DEF Init, World

LEMMA WorldStep == ASSUME World, [Next]_vars PROVE World'
  <1>1. ASSUME NEW f \in Flow, NEW app \in App \cup {KernelTask}, Connect(f, app) \/ SendTo(f, app)
        PROVE  World'
    <2>1. PICK k \in {SocketKey(f), RemoteKey(f)} : sockets' = Put(sockets, k, app)
      BY <1>1 DEF Connect, SendTo
    <2>2. DOMAIN sockets' = DOMAIN sockets \cup {k} /\ sockets'[k] = app
          /\ \A x \in DOMAIN sockets : x # k => sockets'[x] = sockets[x]
      BY <2>1 DEF Put, Over
    <2>3. UNCHANGED <<listens, bound, entries, ring, poll>>
      BY <1>1 DEF Connect, SendTo
    <2> QED BY <2>2, <2>3 DEF World
  <1>2. ASSUME NEW f \in Flow, NEW app \in App, Listen(f, app) PROVE World'
    <2>1. DOMAIN bound' = DOMAIN bound \cup {ListenerKey(f)} /\ bound'[ListenerKey(f)] = app
          /\ \A x \in DOMAIN bound : x # ListenerKey(f) => bound'[x] = bound[x]
      BY <1>2 DEF Listen, Put, Over
    <2>2. \/ UNCHANGED listens
          \/ /\ DOMAIN listens' = DOMAIN listens \cup {ListenerKey(f)} /\ listens'[ListenerKey(f)] = app
             /\ \A x \in DOMAIN listens : x # ListenerKey(f) => listens'[x] = listens[x]
      BY <1>2 DEF Listen, Put, Over
    <2>3. UNCHANGED <<sockets, entries, ring, poll>>
      BY <1>2 DEF Listen
    <2>4. DOMAIN bound' \subseteq {ListenerKey(g) : g \in Flow} /\ \A k \in DOMAIN bound' : bound'[k] \in App
      BY <2>1 DEF World
    <2>5. DOMAIN listens' \subseteq {ListenerKey(g) : g \in Flow} /\ \A k \in DOMAIN listens' : listens'[k] \in App
      BY <2>2 DEF World
    <2> QED BY <2>3, <2>4, <2>5 DEF World
  <1>3. ASSUME NEW k \in DOMAIN bound, Unbind(k) PROVE World'
    BY <1>3 DEF Unbind, World, Without, tracker
  <1>4. ASSUME NEW k, LoseOwner(k) PROVE World'
    BY <1>4 DEF LoseOwner, World, Without, tracker
  <1>5. ASSUME NEW f \in Flow, NEW p \in Payload \cup {Silent},
               NEW fin \in BOOLEAN, NEW fits \in BOOLEAN, Packet(f, p, fin, fits)
        PROVE  World'
    <2>1. DOMAIN entries' \subseteq Flow
      BY <1>5 DEF Packet, World, Put, Over
    <2>2. ring' \in Seq([flow : Flow, payload : Payload \cup {Silent}])
      <3> DEFINE S == [flow : Flow, payload : Payload \cup {Silent}]
                 x == [flow |-> f, payload |-> p]
      <3>1. x \in S /\ ring \in Seq(S)
        BY DEF World
      <3>2. ring' = ring \/ ring' = Append(ring, x)
        BY <1>5 DEF Packet
      <3> HIDE DEF S, x
      <3>3. ring' \in Seq(S)
        BY <3>1, <3>2
      <3> QED BY <3>3 DEF S
    <2>3. UNCHANGED <<sockets, listens, bound, poll>>
      BY <1>5 DEF Packet
    <2> QED BY <2>1, <2>2, <2>3 DEF World
  <1>6. ASSUME NEW f, Evict(f) PROVE World'
    BY <1>6 DEF Evict, World, Without
  <1>7. ASSUME NEW gap, NEW readable, Begin(gap, readable) PROVE World'
    BY <1>7 DEF Begin, World
  <1>8. CASE ReadSamples
    BY <1>8 DEF ReadSamples, World
  <1>9. ASSUME NEW some, NEW all, ReadOwners(some, all) PROVE World'
    BY <1>9 DEF ReadOwners, World, kernel
  <1>10. CASE Reconcile
    BY <1>10 DEF Reconcile, World, kernel
  <1>11. ASSUME UNCHANGED <<kernel, poll>> PROVE World'
    BY <1>11 DEF World, kernel
  <1>12. ASSUME NEW d, PutLibrary(d) PROVE World'
    BY <1>11, <1>12 DEF PutLibrary
  <1>13. CASE ResetLibrary
    BY <1>11, <1>13 DEF ResetLibrary
  <1>14. CASE UNCHANGED vars
    BY <1>11, <1>14 DEF vars
  <1> QED BY <1>1, <1>2, <1>3, <1>4, <1>5, <1>6, <1>7, <1>8, <1>9, <1>10, <1>12, <1>13, <1>14 DEF Next

\* The tracker's caches.  A listener that /proc showed at the last seed is no
\* older than that seed.
Cached(cache) ==
  \A k \in DOMAIN cache : /\ cache[k] = [app |-> cache[k].app, age |-> cache[k].age]
                          /\ cache[k].app \in App /\ cache[k].age \in Nat

Caches ==
  /\ Cached(owners) /\ Cached(listeners)
  /\ seeded \in Nat /\ seeded <= SeedInterval
  /\ news = [bound |-> news.bound, keys |-> news.keys, named |-> news.named, told |-> news.told]
  /\ news.bound \subseteq {ListenerKey(f) : f \in Flow}
  /\ \A k \in news.bound : k \in DOMAIN listeners /\ listeners[k].age <= seeded

LEMMA RecordIs ==
  ASSUME NEW cache, NEW seen, Cached(cache), \A k \in DOMAIN seen : seen[k] \in App \cup {KernelTask}
  PROVE  /\ Cached(Record(cache, seen))
         /\ DOMAIN Record(cache, seen) = DOMAIN cache \cup {k \in DOMAIN seen : seen[k] # KernelTask}
         /\ \A k \in DOMAIN Record(cache, seen) :
              \/ Record(cache, seen)[k].age = 0
              \/ k \in DOMAIN cache /\ Record(cache, seen)[k] = cache[k]
  <1> DEFINE new == [k \in {k \in DOMAIN seen : seen[k] # KernelTask} |-> [app |-> seen[k], age |-> 0]]
  <1>1. \A k \in DOMAIN new : new[k].app \in App /\ new[k].age = 0
                              /\ new[k] = [app |-> new[k].app, age |-> new[k].age]
    OBVIOUS
  <1>2. DOMAIN new = {k \in DOMAIN seen : seen[k] # KernelTask} /\ Record(cache, seen) = Over(new, cache)
    BY DEF Record
  <1> HIDE DEF new
  <1>3. DOMAIN Over(new, cache) = DOMAIN cache \cup DOMAIN new
        /\ \A k \in DOMAIN Over(new, cache) :
             \/ k \in DOMAIN new /\ Over(new, cache)[k] = new[k]
             \/ k \in DOMAIN cache /\ Over(new, cache)[k] = cache[k]
    BY DEF Over
  <1>4. Cached(Over(new, cache))
    <2> SUFFICES ASSUME NEW k \in DOMAIN Over(new, cache)
                 PROVE  LET r == Over(new, cache)[k]
                        IN  r = [app |-> r.app, age |-> r.age] /\ r.app \in App /\ r.age \in Nat
      BY DEF Cached
    <2> QED BY <1>1, <1>3 DEF Cached
  <1> QED BY <1>1, <1>2, <1>3, <1>4

LEMMA AgedIs ==
  ASSUME NEW cache, Cached(cache), NEW gap \in Nat
  PROVE  /\ Cached(Aged(cache, gap, Retention)) /\ DOMAIN Aged(cache, gap, Retention) = DOMAIN cache
         /\ \A k \in DOMAIN cache :
              Aged(cache, gap, Retention)[k].age <= cache[k].age + gap
  <1>1. Retention \in Nat
    BY FlowEvidenceAssumption
  <1>2. ASSUME NEW k \in DOMAIN cache
        PROVE  LET r == Aged(cache, gap, Retention)[k]
               IN  /\ r = [app |-> r.app, age |-> r.age] /\ r.app \in App /\ r.age \in Nat
                   /\ r.age <= cache[k].age + gap
    <2>1. cache[k] = [app |-> cache[k].app, age |-> cache[k].age]
          /\ cache[k].app \in App /\ cache[k].age \in Nat
      BY DEF Cached
    <2> DEFINE age == IF cache[k].age + gap > Retention THEN Retention ELSE cache[k].age + gap
    <2>2. Aged(cache, gap, Retention)[k] = [app |-> cache[k].app, age |-> age]
      BY <2>1 DEF Aged
    <2>3. age \in Nat /\ age <= cache[k].age + gap
      BY <1>1, <2>1
    <2> HIDE DEF age
    <2> QED BY <2>1, <2>2, <2>3
  <1>3. DOMAIN Aged(cache, gap, Retention) = DOMAIN cache
    BY DEF Aged
  <1> QED BY <1>2, <1>3 DEF Cached

LEMMA PurgedIs ==
  ASSUME NEW cache, Cached(cache)
  PROVE  /\ Cached(Purged(cache))
         /\ \A k \in DOMAIN cache : cache[k].age < Retention /\ ~Overflows(cache)
              => k \in DOMAIN Purged(cache) /\ Purged(cache)[k] = cache[k]
  BY DEF Purged, Lasting, Only, Cached

LEMMA CachesStart == ASSUME Init, World PROVE Caches
  <1>1. Cached(<<>>)
    BY DEF Cached
  <1>2. \A k \in DOMAIN bound : bound[k] \in App /\ bound[k] \in App \cup {KernelTask} /\ bound[k] # KernelTask
    BY FlowEvidenceAssumption DEF World
  <1>3. Cached(listeners) /\ DOMAIN listeners = DOMAIN bound /\ \A k \in DOMAIN bound : listeners[k].age = 0
    <2>1. listeners = Record(<<>>, bound)
      BY DEF Init, Seeded
    <2>2. DOMAIN <<>> = {}
      OBVIOUS
    <2>3. {k \in DOMAIN bound : bound[k] # KernelTask} = DOMAIN bound
      BY <1>2
    <2> QED BY <1>1, <1>2, <2>1, <2>2, <2>3, RecordIs
  <1>4. SeedInterval \in Nat
    BY FlowEvidenceAssumption
  <1>5. owners = <<>> /\ seeded = 0 /\ news = [bound |-> DOMAIN bound, keys |-> {}, named |-> {}, told |-> {}]
    BY DEF Init
  <1> QED BY <1>1, <1>3, <1>4, <1>5 DEF Caches, World

LEMMA CachesStep == ASSUME World, Caches, [Next]_vars PROVE Caches'
  <1>0. /\ {Idle, Retention, EndedRetention, SeedInterval} \subseteq Nat /\ SeedInterval < Retention
        /\ Gaps \subseteq Nat
    BY FlowEvidenceAssumption
  <1>1. ASSUME UNCHANGED <<owners, listeners, seeded, news>> PROVE Caches'
    BY <1>1 DEF Caches, Cached
  <1>2. ASSUME NEW k, Unbind(k) PROVE Caches'
    BY <1>2 DEF Unbind, Caches, Cached, tracker
  <1>3. ASSUME NEW gap \in Gaps, NEW readable, Begin(gap, readable) PROVE Caches'
    <2> DEFINE aged == Aged(listeners, gap, Retention)
    <2>0. gap \in Nat /\ SeedInterval \in Nat /\ seeded \in Nat
      BY <1>0 DEF Caches
    <2>1. Cached(owners') /\ Cached(aged) /\ DOMAIN aged = DOMAIN listeners
          /\ \A k \in DOMAIN listeners : aged[k].age <= listeners[k].age + gap /\ aged[k].age \in Nat
      BY <1>3, <2>0, AgedIs DEF Begin, Caches, Cached
    <2>2. \A k \in DOMAIN bound : bound[k] \in App /\ bound[k] \in App \cup {KernelTask} /\ bound[k] # KernelTask
      BY FlowEvidenceAssumption DEF World
    <2>3. /\ news' = [bound |-> news'.bound, keys |-> news'.keys, named |-> news'.named, told |-> news'.told]
      BY <1>3 DEF Begin, Caches
    <2>4. CASE seeded + gap >= SeedInterval
      <3>1. listeners' = Record(aged, bound) /\ seeded' = 0 /\ news'.bound = DOMAIN bound
        BY <1>3, <2>4 DEF Begin, Seeded, Caches
      <3> HIDE DEF aged
      <3>2. {k \in DOMAIN bound : bound[k] # KernelTask} = DOMAIN bound
        BY <2>2
      <3>3. Cached(listeners') /\ DOMAIN bound \subseteq DOMAIN listeners'
        <4>1. \A k \in DOMAIN bound : bound[k] \in App \cup {KernelTask}
          BY <2>2
        <4>2. Cached(Record(aged, bound))
              /\ DOMAIN Record(aged, bound) = DOMAIN aged \cup {k \in DOMAIN bound : bound[k] # KernelTask}
          BY <2>1, <4>1, RecordIs
        <4>3. Cached(listeners') <=> Cached(Record(aged, bound))
          BY <3>1 DEF Cached
        <4> QED BY <3>1, <3>2, <4>2, <4>3
      <3>4. \A k \in DOMAIN bound : listeners'[k].age = 0
        BY <2>2, <3>1 DEF Record, Over
      <3> QED BY <2>0, <2>1, <2>3, <3>1, <3>3, <3>4 DEF Caches, World
    <2>5. CASE ~(seeded + gap >= SeedInterval)
      <3>1. listeners' = aged /\ seeded' = seeded + gap /\ news'.bound = news.bound
        BY <1>3, <2>5 DEF Begin, Caches
      <3> HIDE DEF aged
      <3>2. seeded' \in Nat /\ seeded' <= SeedInterval
        BY <2>0, <2>5, <3>1
      <3>3. ASSUME NEW k \in news.bound PROVE k \in DOMAIN listeners' /\ listeners'[k].age <= seeded'
        <4>1. k \in DOMAIN listeners /\ listeners[k].age <= seeded /\ listeners[k].age \in Nat
          BY DEF Caches, Cached
        <4> QED BY <2>0, <2>1, <3>1, <4>1
      <3> QED BY <2>1, <2>3, <3>1, <3>2, <3>3 DEF Caches
    <2> QED BY <2>4, <2>5
  <1>4. CASE ReadSamples
    BY <1>4 DEF ReadSamples, Caches, Cached
  <1>5. ASSUME NEW some \in SUBSET DOMAIN sockets, NEW all \in BOOLEAN, ReadOwners(some, all) PROVE Caches'
    <2> DEFINE ofSockets == IF all THEN sockets ELSE Restrict(sockets, some)
               ofListens == IF all THEN listens ELSE <<>>
    <2>1. \A k \in DOMAIN ofSockets : ofSockets[k] \in App \cup {KernelTask}
      BY DEF World, Restrict
    <2>2. \A k \in DOMAIN ofListens : ofListens[k] \in App \cup {KernelTask}
      BY DEF World
    <2>3. owners' = Record(owners, ofSockets) /\ listeners' = Record(listeners, ofListens)
      BY <1>5 DEF ReadOwners
    <2>4. UNCHANGED seeded /\ news'.bound = news.bound
          /\ news' = [bound |-> news'.bound, keys |-> news'.keys, named |-> news'.named, told |-> news'.told]
      BY <1>5 DEF ReadOwners, Caches
    <2> HIDE DEF ofSockets, ofListens
    <2>5. Cached(owners') /\ Cached(listeners') /\ DOMAIN listeners \subseteq DOMAIN listeners'
          /\ \A k \in DOMAIN listeners' : listeners'[k].age = 0 \/ listeners'[k] = listeners[k]
      <3>1. Cached(owners) /\ Cached(listeners)
        BY DEF Caches
      <3>2. Cached(Record(owners, ofSockets))
        BY <2>1, <3>1, RecordIs
      <3>3. /\ Cached(Record(listeners, ofListens))
            /\ DOMAIN Record(listeners, ofListens)
                 = DOMAIN listeners \cup {k \in DOMAIN ofListens : ofListens[k] # KernelTask}
            /\ \A k \in DOMAIN Record(listeners, ofListens) :
                 \/ Record(listeners, ofListens)[k].age = 0
                 \/ k \in DOMAIN listeners /\ Record(listeners, ofListens)[k] = listeners[k]
        BY <2>2, <3>1, RecordIs
      <3>4. Cached(owners') <=> Cached(Record(owners, ofSockets))
        BY <2>3 DEF Cached
      <3>5. Cached(listeners') <=> Cached(Record(listeners, ofListens))
        BY <2>3 DEF Cached
      <3> QED BY <2>3, <3>2, <3>3, <3>4, <3>5
    <2> QED BY <2>4, <2>5 DEF Caches
  <1>6. CASE Reconcile
    <2>1. CASE poll.flows
      <3>1. owners' = Purged(owners) /\ listeners' = Purged(listeners) /\ UNCHANGED seeded
            /\ news' = [bound |-> news'.bound, keys |-> news'.keys, named |-> news'.named, told |-> news'.told]
            /\ news'.bound = IF Overflows(listeners) THEN {} ELSE news.bound
        BY <1>6, <2>1 DEF Reconcile, Caches
      <3>2. Cached(owners') /\ Cached(listeners')
        BY <3>1, PurgedIs DEF Caches
      <3>3. ASSUME NEW k \in news'.bound PROVE k \in DOMAIN listeners' /\ listeners'[k].age <= seeded'
        <4>1. k \in news.bound /\ ~Overflows(listeners)
          BY <3>1
        <4>2. k \in DOMAIN listeners /\ listeners[k].age <= seeded /\ listeners[k].age \in Nat
              /\ seeded \in Nat /\ seeded <= SeedInterval
          BY <4>1 DEF Caches, Cached
        <4>3. listeners[k].age < Retention
          BY <1>0, <4>2
        <4>4. Cached(listeners)
          BY DEF Caches
        <4> QED BY <3>1, <4>1, <4>2, <4>3, <4>4, PurgedIs
      <3> QED BY <3>1, <3>2, <3>3 DEF Caches
    <2>2. CASE ~poll.flows
      BY <1>1, <1>6, <2>2 DEF Reconcile
    <2> QED BY <2>1, <2>2
  <1>7. CASE UNCHANGED <<tracker, news>>
    BY <1>1, <1>7 DEF tracker
  <1>8. ASSUME NEW f, NEW app, Connect(f, app) \/ SendTo(f, app) \/ Listen(f, app) PROVE Caches'
    BY <1>7, <1>8 DEF Connect, SendTo, Listen
  <1>9. ASSUME NEW k, LoseOwner(k) PROVE Caches'
    BY <1>7, <1>9 DEF LoseOwner
  <1>10. ASSUME NEW f, NEW p, NEW fin, NEW fits, Packet(f, p, fin, fits) PROVE Caches'
    BY <1>7, <1>10 DEF Packet
  <1>11. ASSUME NEW f, Evict(f) PROVE Caches'
    BY <1>7, <1>11 DEF Evict
  <1>12. ASSUME NEW d, PutLibrary(d) \/ ResetLibrary PROVE Caches'
    BY <1>7, <1>12 DEF PutLibrary, ResetLibrary
  <1>13. CASE ResetLibrary
    BY <1>7, <1>13 DEF ResetLibrary
  <1>14. CASE UNCHANGED vars
    BY <1>7, <1>14 DEF vars
  <1> QED BY <1>2, <1>3, <1>4, <1>5, <1>6, <1>8, <1>9, <1>10, <1>11, <1>12, <1>13, <1>14 DEF Next

\* What a flow's next update rests on.
Tracked(r) ==
  r = [service |-> r.service, application |-> r.application, active |-> r.active,
       fin |-> r.fin, age |-> r.age]

NamedBy(k, p, f) ==
  \/ f \in DOMAIN k /\ k[f].service # None
  \/ f \in DOMAIN p /\ p[f] # None

Findable(f) ==
  \/ SocketKey(f) \in DOMAIN owners
  \/ Protocol[f] = "udp" /\ RemoteKey(f) \in DOMAIN owners
  \/ ListenerKey(f) \in DOMAIN listeners

Flows ==
  /\ \A f \in DOMAIN known : Tracked(known[f])
  /\ DOMAIN pending \cap DOMAIN known = {}
  /\ \A f \in news.named : NamedBy(known, pending, f)
  /\ poll.at = "reconcile" => \A f \in Flow : Keys(f) \cap news.keys # {} => Findable(f)
  /\ poll.at # "idle" => news.told = {}
  /\ \A f \in DOMAIN known \cap DOMAIN told :
       /\ told[f].application # None => known[f].application = told[f].application
       /\ told[f].service # None => known[f].service # None

EvidenceInvariant == World /\ Caches /\ Flows /\ EvidenceIsUsed

LEMMA KeysDiffer ==
  \A f, g \in Flow : /\ SocketKey(f) # ListenerKey(g) /\ RemoteKey(f) # ListenerKey(g)
                     /\ ListenerKey(g) \in Keys(f) => ListenerKey(g) = ListenerKey(f)
  BY DEF SocketKey, ListenerKey, RemoteKey, Keys

LEMMA FindableResolves ==
  ASSUME Cached(owners), Cached(listeners), NEW f, Findable(f)
  PROVE  Resolve(f) # None
  BY FlowEvidenceAssumption DEF Cached, Findable, Resolve

\* Samples are taken: services come to known flows or wait for unknown ones.
Reading(st) ==
  /\ st = [known |-> st.known, pending |-> st.pending, named |-> st.named]
  /\ DOMAIN st.known = DOMAIN known
  /\ \A f \in DOMAIN known : /\ Tracked(st.known[f])
                             /\ st.known[f].application = known[f].application
                             /\ known[f].service # None => st.known[f].service # None
  /\ DOMAIN st.pending \cap DOMAIN known = {}
  /\ \A f \in st.named : NamedBy(st.known, st.pending, f)

LEMMA SetServiceKeeps ==
  ASSUME NEW st, Reading(st), NEW x
  PROVE  Reading(SetService(st, x))
  <1> DEFINE service == Classify(library, x.payload)
             f == x.flow
             res == SetService(st, x)
  <1> HIDE DEF service, f
  <1>1. CASE service # None /\ f \in DOMAIN st.known
    <2> DEFINE k == [st.known EXCEPT ![f] = [@ EXCEPT !.service = service]]
    <2>1. res = [known |-> k, pending |-> st.pending, named |-> st.named \cup {f}]
      BY <1>1 DEF SetService, Reading, service, f
    <2>2. DOMAIN k = DOMAIN known
          /\ \A g \in DOMAIN known : IF g = f THEN k[g] = [st.known[g] EXCEPT !.service = service]
                                              ELSE k[g] = st.known[g]
      BY DEF Reading
    <2> HIDE DEF k, res
    <2>3. ASSUME NEW g \in DOMAIN known
          PROVE  /\ Tracked(k[g]) /\ k[g].application = known[g].application
                 /\ st.known[g].service # None => k[g].service # None
                 /\ g = f => k[g].service # None
      BY <1>1, <2>2 DEF Reading, Tracked
    <2>4. f \in DOMAIN known
      BY <1>1 DEF Reading
    <2> QED BY <2>1, <2>2, <2>3, <2>4 DEF Reading, NamedBy, res
  <1>2. CASE service # None /\ f \notin DOMAIN st.known /\ StashTakes(st.pending)
    <2>1. res = [known |-> st.known, pending |-> Put(st.pending, f, service), named |-> st.named \cup {f}]
      BY <1>2 DEF SetService, Reading, service, f
    <2>2. DOMAIN Put(st.pending, f, service) = DOMAIN st.pending \cup {f}
          /\ Put(st.pending, f, service)[f] = service
          /\ \A g \in DOMAIN st.pending : g # f => Put(st.pending, f, service)[g] = st.pending[g]
      BY DEF Put, Over
    <2> HIDE DEF res
    <2> QED BY <1>2, <2>1, <2>2 DEF Reading, NamedBy, res
  <1>3. CASE service = None \/ (f \notin DOMAIN st.known /\ ~StashTakes(st.pending))
    BY <1>3 DEF SetService, service, f
  <1> QED BY <1>1, <1>2, <1>3

LEMMA SamplesRead ==
  ASSUME World, Flows
  PROVE  Reading(FoldLeft(SetService, [known |-> known, pending |-> pending, named |-> news.named], ring))
  <1> DEFINE start == [known |-> known, pending |-> pending, named |-> news.named]
  <1>1. Reading(start)
    BY DEF Flows, Reading
  <1> HIDE DEF start
  <1>2. Len(ring) \in Nat /\ DOMAIN ring = 1..Len(ring)
    BY DEF World
  <1>3. PICK g : /\ g[0] = start
                 /\ \A n \in 1..Len(ring) : g[n] = SetService(g[n - 1], ring[n])
                 /\ FoldLeft(SetService, start, ring) = g[Len(ring)]
    BY <1>2, FoldIs
  <1> DEFINE T == {n \in Nat : n <= Len(ring) => Reading(g[n])}
  <1>4. 0 \in T
    BY <1>1, <1>3
  <1>5. ASSUME NEW n \in Nat, n \in T PROVE n + 1 \in T
    <2> SUFFICES ASSUME n + 1 <= Len(ring) PROVE Reading(g[n + 1])
      OBVIOUS
    <2>1. n <= Len(ring) /\ n + 1 \in 1..Len(ring) /\ (n + 1) - 1 = n
      BY <1>2
    <2>2. Reading(g[n])
      BY <1>5, <2>1
    <2>3. g[n + 1] = SetService(g[n], ring[n + 1])
      BY <1>3, <2>1
    <2>4. Reading(SetService(g[n], ring[n + 1]))
      BY <2>2, SetServiceKeeps
    <2> QED BY <2>3, <2>4
  <1> HIDE DEF T
  <1>6. T \in SUBSET Nat
    BY DEF T
  <1>7. Len(ring) \in T
    BY <1>2, <1>4, <1>5, <1>6, EveryNumber
  <1>8. Reading(g[Len(ring)])
    BY <1>2, <1>7 DEF T
  <1> QED BY <1>3, <1>8 DEF start

LEMMA ObservedIs ==
  ASSUME NEW f, NEW read, f \in DOMAIN known => Tracked(known[f])
  PROVE  LET r == Observed(f, read)
         IN  /\ Tracked(r)
             /\ f \notin DOMAIN known => /\ r.application = Resolve(f)
                                         /\ f \in DOMAIN pending => r.service = pending[f]
             /\ f \in DOMAIN known => /\ r.application = Owner(f, known[f].application)
                                      /\ r.service = known[f].service
  <1>1. CASE f \notin DOMAIN known
    BY <1>1 DEF Observed, Tracked
  <1>2. CASE f \in DOMAIN known /\ ~read.fresh /\ ~known[f].active
    BY <1>2 DEF Observed, Tracked
  <1>3. CASE f \in DOMAIN known /\ ~(~read.fresh /\ ~known[f].active)
    BY <1>3 DEF Observed, Tracked
  <1> QED BY <1>1, <1>2, <1>3

\* What a whole reconcile leaves.
Reconciled == Over([f \in DOMAIN poll.read |-> Observed(f, poll.read[f])], Without(known, Gone))
Telling == {f \in DOMAIN poll.read : Tells(f, poll.read[f])} \cup {f \in Gone : known[f].active}
UpdateOf(f) == IF f \in Gone THEN [known[f] EXCEPT !.active = FALSE] ELSE Reconciled[f]

LEMMA ReconcileIs ==
  ASSUME Reconcile, poll.flows, Caches, Flows
  PROVE  /\ poll.at = "reconcile" /\ known' = Reconciled
         /\ DOMAIN pending' = DOMAIN pending \ DOMAIN poll.read
         /\ \A f \in DOMAIN pending' : pending'[f] = pending[f]
         /\ news'.told = Telling /\ news'.named = news.named \ Gone
         /\ news'.keys = news.keys /\ news'.bound \subseteq news.bound
         /\ DOMAIN told' = DOMAIN told \cup Telling
         /\ \A f \in Telling : /\ told'[f].service = UpdateOf(f).service
                               /\ told'[f].active = UpdateOf(f).active
                               /\ told'[f].application = UpdateOf(f).application
         /\ \A f \in DOMAIN told \ Telling : told'[f] = told[f]
  <1>1. news = [bound |-> news.bound, keys |-> news.keys, named |-> news.named, told |-> news.told]
    BY DEF Caches
  <1> DEFINE new == [f \in Telling |-> [service |-> UpdateOf(f).service,
                                        application |-> UpdateOf(f).application,
                                        active |-> UpdateOf(f).active]]
  <1>2. /\ poll.at = "reconcile" /\ known' = Reconciled /\ pending' = Without(pending, DOMAIN poll.read)
        /\ told' = Over(new, told)
        /\ news' = [news EXCEPT !.told = Telling, !.named = @ \ Gone,
                                !.bound = IF Overflows(listeners) THEN {} ELSE @]
    BY DEF Reconcile, Reconciled, Telling, UpdateOf
  <1>3. news'.told = Telling /\ news'.named = news.named \ Gone
        /\ news'.keys = news.keys /\ news'.bound \subseteq news.bound
    BY <1>1, <1>2
  <1>4. DOMAIN pending' = DOMAIN pending \ DOMAIN poll.read
        /\ \A f \in DOMAIN pending' : pending'[f] = pending[f]
    BY <1>2 DEF Without
  <1>5. DOMAIN told' = DOMAIN told \cup Telling
        /\ \A f \in DOMAIN told \ Telling : told'[f] = told[f]
    BY <1>2 DEF Over
  <1>6. ASSUME NEW f \in Telling
        PROVE  /\ told'[f].service = UpdateOf(f).service
               /\ told'[f].active = UpdateOf(f).active
               /\ told'[f].application = UpdateOf(f).application
    <2>1. told'[f] = [service |-> UpdateOf(f).service, application |-> UpdateOf(f).application,
                      active |-> UpdateOf(f).active]
      BY <1>2 DEF Over
    <2> HIDE DEF new
    <2> QED BY <2>1
  <1>7. poll.at = "reconcile" /\ known' = Reconciled
    BY <1>2
  <1> HIDE DEF new
  <1> QED BY <1>3, <1>4, <1>5, <1>6, <1>7

LEMMA ReconciledIs ==
  /\ DOMAIN Reconciled = DOMAIN poll.read \cup (DOMAIN known \ Gone)
  /\ \A f \in DOMAIN poll.read : f \notin Gone /\ Reconciled[f] = Observed(f, poll.read[f])
  /\ \A f \in (DOMAIN known \ Gone) \ DOMAIN poll.read : Reconciled[f] = known[f]
  BY DEF Reconciled, Over, Without, Gone

\* A reconcile tells what was there to be known, and keeps what it told.
LEMMA ReconcileTells ==
  ASSUME Reconcile, poll.flows, World, Caches, Flows
  PROVE  Flows' /\ EvidenceIsUsed'
  <1>0. Cached(owners) /\ Cached(listeners) /\ news.bound \subseteq {ListenerKey(f) : f \in Flow}
        /\ \A k \in news.bound : k \in DOMAIN listeners
    BY DEF Caches
  <1>1. /\ poll.at = "reconcile" /\ known' = Reconciled
        /\ DOMAIN pending' = DOMAIN pending \ DOMAIN poll.read
        /\ \A f \in DOMAIN pending' : pending'[f] = pending[f]
        /\ news'.told = Telling /\ news'.named = news.named \ Gone
        /\ news'.keys = news.keys /\ news'.bound \subseteq news.bound
        /\ DOMAIN told' = DOMAIN told \cup Telling
        /\ \A f \in DOMAIN told \ Telling : told'[f] = told[f]
    BY ReconcileIs
  <1>2. \A f \in Telling : /\ told'[f].service = UpdateOf(f).service
                               /\ told'[f].active = UpdateOf(f).active
                               /\ told'[f].application = UpdateOf(f).application
    BY ReconcileIs
  <1>3. poll'.at = "idle"
    BY DEF Reconcile, World
  <1>4. \A f \in DOMAIN known : Tracked(known[f])
    BY DEF Flows
  <1>5. DOMAIN poll.read \subseteq Flow
    BY DEF World
  <1>6. \A f \in DOMAIN known' : Tracked(known'[f])
    BY <1>1, <1>4, ReconciledIs, ObservedIs
  <1>7. DOMAIN pending' \cap DOMAIN known' = {}
    BY <1>1, ReconciledIs DEF Flows
  <1>8. ASSUME NEW f \in news'.named PROVE NamedBy(known', pending', f)
    <2>1. f \in news.named /\ f \notin Gone /\ NamedBy(known, pending, f)
      BY <1>1 DEF Flows
    <2>2. CASE f \in DOMAIN poll.read
      <3>1. known'[f].service = IF f \in DOMAIN known THEN known[f].service ELSE pending[f]
        BY <1>1, <1>4, <2>1, <2>2, ReconciledIs, ObservedIs DEF NamedBy
      <3>2. known'[f].service # None
        BY <2>1, <3>1 DEF NamedBy, Flows
      <3> QED BY <1>1, <2>2, <3>2, ReconciledIs DEF NamedBy
    <2>3. CASE f \notin DOMAIN poll.read
      BY <1>1, <2>1, <2>3, ReconciledIs DEF NamedBy
    <2> QED BY <2>2, <2>3
  <1>9. ASSUME NEW f \in Telling, f \in DOMAIN poll.read
        PROVE  /\ f \in Flow /\ f \in DOMAIN known' /\ told'[f].service = known'[f].service
               /\ told'[f].application = known'[f].application
               /\ known'[f].application = IF f \in DOMAIN known THEN Owner(f, known[f].application) ELSE Resolve(f)
    <2>1. f \notin Gone /\ f \in Flow /\ f \in DOMAIN known' /\ Reconciled[f] = Observed(f, poll.read[f])
      BY <1>1, <1>5, <1>9, ReconciledIs
    <2>2. told'[f].service = Reconciled[f].service /\ told'[f].application = Reconciled[f].application
      BY <1>2, <2>1 DEF UpdateOf
    <2>3. f \in DOMAIN known => Tracked(known[f])
      BY <1>4
    <2>4. Observed(f, poll.read[f]).application
            = IF f \in DOMAIN known THEN Owner(f, known[f].application) ELSE Resolve(f)
      BY <2>3, ObservedIs
    <2> QED BY <1>1, <2>1, <2>2, <2>4
  <1>10. ASSUME NEW f \in Telling, f \notin DOMAIN poll.read PROVE f \in Gone /\ told'[f].active = FALSE
    <2>1. f \in Gone /\ f \in DOMAIN known
      BY <1>10 DEF Telling, Gone
    <2>2. told'[f].active = [known[f] EXCEPT !.active = FALSE].active
      BY <1>2, <2>1 DEF UpdateOf
    <2>3. [known[f] EXCEPT !.active = FALSE].active = FALSE
      BY <1>4, <2>1 DEF Tracked
    <2> QED BY <2>1, <2>2, <2>3
  <1>11. ASSUME NEW f \in news'.told, told'[f].active, Keys(f) \cap (news'.keys \cup news'.bound) # {}
         PROVE  told'[f].application # None
    <2>1. f \in Telling /\ f \in DOMAIN poll.read /\ f \in Flow
      BY <1>1, <1>9, <1>10, <1>11
    <2>2. Findable(f)
      <3>1. CASE Keys(f) \cap news.keys # {}
        BY <1>1, <2>1, <3>1 DEF Flows
      <3>2. CASE Keys(f) \cap news.bound # {}
        <4>1. PICK k \in Keys(f) : k \in news.bound
          BY <3>2
        <4>2. PICK g \in Flow : k = ListenerKey(g)
          BY <1>0, <4>1
        <4>3. k = ListenerKey(f)
          BY <2>1, <4>1, <4>2, KeysDiffer
        <4> QED BY <1>0, <4>1, <4>3 DEF Findable
      <3> QED BY <1>1, <1>11, <3>1, <3>2
    <2>3. Resolve(f) # None
      BY <1>0, <2>2, FindableResolves
    <2> QED BY <1>9, <2>1, <2>3 DEF Owner
  <1>12. ASSUME NEW f \in news'.told, f \in news'.named PROVE told'[f].service # None
    <2>1. f \in Telling /\ f \notin Gone /\ f \in DOMAIN poll.read
      BY <1>1, <1>10, <1>12
    <2>2. NamedBy(known', pending', f) /\ f \notin DOMAIN pending'
      BY <1>1, <1>8, <1>12, <2>1
    <2> QED BY <1>9, <2>1, <2>2 DEF NamedBy
  <1>13. ASSUME NEW f \in DOMAIN known' \cap DOMAIN told'
         PROVE  /\ told'[f].application # None => known'[f].application = told'[f].application
                /\ told'[f].service # None => known'[f].service # None
    <2>1. CASE f \in Telling
      <3>1. f \in DOMAIN poll.read
        BY <1>1, <1>10, <1>13, <2>1, ReconciledIs
      <3> QED BY <1>9, <2>1, <3>1
    <2>2. CASE f \notin Telling
      <3>1. f \in DOMAIN told /\ told'[f] = told[f]
        BY <1>1, <2>2
      <3>2. f \in DOMAIN known
        BY <1>1, <1>13, <2>2, ReconciledIs DEF Telling, Tells
      <3>3. /\ told[f].application # None => known[f].application = told[f].application
            /\ told[f].service # None => known[f].service # None
        BY <3>1, <3>2 DEF Flows
      <3>4. CASE f \in DOMAIN poll.read
        <4>1. known'[f].application = Owner(f, known[f].application) /\ known'[f].service = known[f].service
          BY <1>1, <1>4, <3>2, <3>4, ReconciledIs, ObservedIs
        <4> QED BY <3>1, <3>3, <4>1 DEF Owner
      <3>5. CASE f \notin DOMAIN poll.read
        BY <1>1, <1>13, <3>1, <3>3, <3>5, ReconciledIs
      <3> QED BY <3>4, <3>5
    <2> QED BY <2>1, <2>2
  <1>14. Flows'
    BY <1>3, <1>6, <1>7, <1>8, <1>13 DEF Flows
  <1>15. EvidenceIsUsed'
    BY <1>11, <1>12 DEF EvidenceIsUsed
  <1> QED BY <1>14, <1>15

\* Nothing else of what a poll does touches what was told.
LEMMA FlowsStay ==
  ASSUME Flows, EvidenceIsUsed, UNCHANGED <<owners, listeners, known, pending, told, poll>>,
         news'.named = news.named, news'.keys = news.keys, news'.told = news.told,
         news'.bound \subseteq news.bound
  PROVE  Flows' /\ EvidenceIsUsed'
  <1>1. Flows'
    BY DEF Flows, NamedBy, Findable, Tracked, Keys
  <1>2. EvidenceIsUsed'
    BY DEF EvidenceIsUsed, Keys
  <1> QED BY <1>1, <1>2

LEMMA BeginKeeps ==
  ASSUME Caches, Flows, NEW gap, NEW readable, Begin(gap, readable)
  PROVE  Flows' /\ EvidenceIsUsed'
  <1>1. /\ poll'.at = "services" /\ known' = Aged(known, gap, EndedRetention)
        /\ UNCHANGED <<pending, told>> /\ news'.named = news.named /\ news'.told = {}
    BY DEF Begin, Caches
  <1>2. DOMAIN known' = DOMAIN known
        /\ \A f \in DOMAIN known : /\ Tracked(known'[f])
                                   /\ known'[f].service = known[f].service
                                   /\ known'[f].application = known[f].application
    BY <1>1 DEF Aged, Flows, Tracked
  <1>3. Flows'
    BY <1>1, <1>2 DEF Flows, NamedBy
  <1> QED BY <1>1, <1>3 DEF EvidenceIsUsed

LEMMA ReadSamplesKeeps ==
  ASSUME World, Caches, Flows, ReadSamples
  PROVE  Flows' /\ EvidenceIsUsed'
  <1> DEFINE res == FoldLeft(SetService, [known |-> known, pending |-> pending, named |-> news.named], ring)
  <1>1. Reading(res)
    BY SamplesRead
  <1>2. /\ known' = res.known /\ pending' = res.pending /\ news'.named = res.named
        /\ news'.told = news.told /\ poll.at = "services" /\ poll'.at = "owners" /\ UNCHANGED told
    BY DEF ReadSamples, Caches, World
  <1> HIDE DEF res
  <1>3. news'.told = {}
    BY <1>2 DEF Flows
  <1>4. Flows'
    BY <1>1, <1>2, <1>3 DEF Flows, Reading
  <1> QED BY <1>2, <1>4 DEF EvidenceIsUsed

LEMMA ReadOwnersKeeps ==
  ASSUME World, Caches, Flows, NEW some \in SUBSET DOMAIN sockets, NEW all \in BOOLEAN, ReadOwners(some, all)
  PROVE  Flows' /\ EvidenceIsUsed'
  <1> DEFINE ofSockets == IF all THEN sockets ELSE Restrict(sockets, some)
             ofListens == IF all THEN listens ELSE <<>>
  <1>1. DOMAIN ofSockets \subseteq DOMAIN sockets
    BY DEF Restrict
  <1>2. DOMAIN ofListens \subseteq DOMAIN listens
        /\ \A k \in DOMAIN ofListens : ofListens[k] \in App /\ ofListens[k] # KernelTask
    BY FlowEvidenceAssumption DEF World
  <1>3. /\ owners' = Record(owners, ofSockets) /\ listeners' = Record(listeners, ofListens)
        /\ news'.keys = {k \in DOMAIN ofSockets : ofSockets[k] # KernelTask} \cup DOMAIN ofListens
        /\ news'.named = news.named /\ news'.told = news.told
        /\ poll.at = "owners" /\ poll'.at = "reconcile" /\ UNCHANGED <<known, pending, told>>
    BY DEF ReadOwners, Caches, World
  <1> HIDE DEF ofSockets, ofListens
  <1>4. /\ {k \in DOMAIN ofSockets : ofSockets[k] # KernelTask} \subseteq DOMAIN owners'
        /\ DOMAIN ofListens \subseteq DOMAIN listeners'
    BY <1>2, <1>3 DEF Record, Over
  <1>5. ASSUME NEW f \in Flow, Keys(f) \cap news'.keys # {} PROVE Findable(f)'
    <2>1. PICK k \in Keys(f) : k \in news'.keys
      BY <1>5
    <2>2. CASE k \in DOMAIN ofListens
      <3>1. PICK g \in Flow : k = ListenerKey(g)
        BY <1>2, <2>2 DEF World
      <3>2. k = ListenerKey(f)
        BY <2>1, <3>1, KeysDiffer
      <3> QED BY <1>4, <2>2, <3>2 DEF Findable
    <2>3. CASE k \notin DOMAIN ofListens
      <3>1. k \in DOMAIN owners' /\ k \in DOMAIN sockets
        BY <1>1, <1>3, <1>4, <2>1, <2>3
      <3>2. \A g \in Flow : k # ListenerKey(g)
        BY <3>1, KeysDiffer DEF World
      <3>3. k = SocketKey(f) \/ (Protocol[f] = "udp" /\ k = RemoteKey(f))
        BY <2>1, <3>2 DEF Keys
      <3> QED BY <3>1, <3>3 DEF Findable
    <2> QED BY <2>2, <2>3
  <1>6. news'.told = {}
    BY <1>3 DEF Flows
  <1>7. Flows'
    BY <1>3, <1>5, <1>6 DEF Flows, NamedBy, Tracked, Keys
  <1> QED BY <1>3, <1>7 DEF EvidenceIsUsed

LEMMA EvidenceStart == ASSUME Init PROVE EvidenceInvariant
  <1>1. World
    BY WorldStart
  <1>2. Caches
    BY <1>1, CachesStart
  <1>3. Flows /\ EvidenceIsUsed
    BY DEF Init, Flows, EvidenceIsUsed
  <1> QED BY <1>1, <1>2, <1>3 DEF EvidenceInvariant

LEMMA EvidenceStep == ASSUME EvidenceInvariant, [Next]_vars PROVE EvidenceInvariant'
  <1>0. World /\ Caches /\ Flows /\ EvidenceIsUsed /\ World' /\ Caches'
    BY WorldStep, CachesStep DEF EvidenceInvariant
  <1> SUFFICES Flows' /\ EvidenceIsUsed'
    BY <1>0 DEF EvidenceInvariant
  <1>1. ASSUME UNCHANGED <<tracker, poll, news>> PROVE Flows' /\ EvidenceIsUsed'
    BY <1>0, <1>1, FlowsStay DEF tracker
  <1>2. ASSUME NEW f, NEW app, Connect(f, app) \/ SendTo(f, app) \/ Listen(f, app) PROVE Flows' /\ EvidenceIsUsed'
    BY <1>1, <1>2 DEF Connect, SendTo, Listen
  <1>3. ASSUME NEW k, Unbind(k) PROVE Flows' /\ EvidenceIsUsed'
    BY <1>0, <1>3, FlowsStay DEF Unbind, tracker, Caches
  <1>4. ASSUME NEW k, LoseOwner(k) PROVE Flows' /\ EvidenceIsUsed'
    BY <1>1, <1>4 DEF LoseOwner
  <1>5. ASSUME NEW f, NEW p, NEW fin, NEW fits, Packet(f, p, fin, fits) PROVE Flows' /\ EvidenceIsUsed'
    BY <1>1, <1>5 DEF Packet
  <1>6. ASSUME NEW f, Evict(f) PROVE Flows' /\ EvidenceIsUsed'
    BY <1>1, <1>6 DEF Evict
  <1>7. ASSUME NEW d, PutLibrary(d) PROVE Flows' /\ EvidenceIsUsed'
    <2>1. UNCHANGED <<tracker, poll, news>>
      BY <1>7 DEF PutLibrary
    <2> QED BY <1>1, <2>1
  <1>8. CASE ResetLibrary
    BY <1>1, <1>8 DEF ResetLibrary
  <1>9. ASSUME NEW gap, NEW readable, Begin(gap, readable) PROVE Flows' /\ EvidenceIsUsed'
    BY <1>0, <1>9, BeginKeeps
  <1>10. CASE ReadSamples
    BY <1>0, <1>10, ReadSamplesKeeps
  <1>11. ASSUME NEW some \in SUBSET DOMAIN sockets, NEW all \in BOOLEAN, ReadOwners(some, all)
         PROVE  Flows' /\ EvidenceIsUsed'
    BY <1>0, <1>11, ReadOwnersKeeps
  <1>12. CASE Reconcile
    <2>1. CASE poll.flows
      BY <1>0, <1>12, <2>1, ReconcileTells
    <2>2. CASE ~poll.flows
      <3>1. UNCHANGED <<known, pending, told, owners, listeners, news>> /\ poll.at = "reconcile" /\ poll'.at = "idle"
        BY <1>0, <1>12, <2>2 DEF Reconcile, World
      <3>2. news'.told = {}
        BY <1>0, <3>1 DEF Flows
      <3>3. Flows'
        BY <1>0, <3>1 DEF Flows, NamedBy, Tracked
      <3> QED BY <3>2, <3>3 DEF EvidenceIsUsed
    <2> QED BY <2>1, <2>2
  <1>13. CASE UNCHANGED vars
    BY <1>1, <1>13 DEF vars
  <1> QED BY <1>2, <1>3, <1>4, <1>5, <1>6, <1>7, <1>8, <1>9, <1>10, <1>11, <1>12, <1>13 DEF Next

\* Every update of a poll carries the application and the service that were
\* there to be known when it ran (collector/mod.rs poll_once, tracker.rs
\* observe, resolve_application and purge_owners).
THEOREM FlowEvidenceIsUsed == Spec => []EvidenceIsUsed
  <1>1. Init => EvidenceInvariant
    BY EvidenceStart
  <1>2. EvidenceInvariant /\ [Next]_vars => EvidenceInvariant'
    BY EvidenceStep
  <1>3. EvidenceInvariant => EvidenceIsUsed
    BY DEF EvidenceInvariant
  <1> QED BY <1>1, <1>2, <1>3, PTL DEF Spec

\* A step may not take from a flow the application it was told with, nor its
\* service, while the tracker knows it (tracker.rs observe).
THEOREM FlowIdentityIsKept == Spec => IdentityIsKept
  <1> DEFINE Kept == \A f \in DOMAIN known \cap DOMAIN told :
                       f \in DOMAIN known' =>
                         /\ told[f].application # None => told'[f].application = told[f].application
                         /\ told[f].service # None => told'[f].service # None
  <1>1. Init => EvidenceInvariant
    BY EvidenceStart
  <1>2. EvidenceInvariant /\ [Next]_vars => EvidenceInvariant'
    BY EvidenceStep
  <1>3. EvidenceInvariant /\ [Next]_vars => [Kept]_vars
    <2> SUFFICES ASSUME EvidenceInvariant, [Next]_vars PROVE Kept
      OBVIOUS
    <2>1. World /\ Caches /\ Flows
      BY DEF EvidenceInvariant
    <2>2. CASE Reconcile /\ poll.flows
      <3> SUFFICES ASSUME NEW f \in DOMAIN known \cap DOMAIN told, f \in DOMAIN known'
                   PROVE  /\ told[f].application # None => told'[f].application = told[f].application
                          /\ told[f].service # None => told'[f].service # None
        OBVIOUS
      <3>1. /\ known' = Reconciled
            /\ \A g \in Telling : /\ told'[g].service = UpdateOf(g).service
                                  /\ told'[g].application = UpdateOf(g).application
            /\ \A g \in DOMAIN told \ Telling : told'[g] = told[g]
        BY <2>1, <2>2, ReconcileIs
      <3>2. Tracked(known[f]) /\ (told[f].application # None => known[f].application = told[f].application)
            /\ (told[f].service # None => known[f].service # None)
        BY <2>1 DEF Flows
      <3>3. CASE f \in Telling
        <4>1. f \notin Gone /\ f \in DOMAIN poll.read /\ Reconciled[f] = Observed(f, poll.read[f])
          BY <3>1, <3>3, ReconciledIs DEF Telling
        <4>2. Reconciled[f].application = Owner(f, known[f].application)
              /\ Reconciled[f].service = known[f].service
          BY <3>2, <4>1, ObservedIs
        <4>3. told'[f].service = Reconciled[f].service /\ told'[f].application = Reconciled[f].application
          BY <3>1, <3>3, <4>1 DEF UpdateOf
        <4> QED BY <3>2, <4>2, <4>3 DEF Owner
      <3>4. CASE f \notin Telling
        BY <3>1, <3>4
      <3> QED BY <3>3, <3>4
    <2>3. CASE UNCHANGED told
      BY <2>3
    <2>4. (Reconcile /\ poll.flows) \/ UNCHANGED told
      BY DEF Next, vars, tracker, Connect, SendTo, Listen, Unbind, LoseOwner, Packet, Evict,
             PutLibrary, ResetLibrary, Begin, ReadSamples, ReadOwners, Reconcile
    <2> QED BY <2>2, <2>3, <2>4
  <1> QED BY <1>1, <1>2, <1>3, PTL DEF Spec, IdentityIsKept

------------------------------------------------------------------------------
\* What a sample may hold, and what it says.

SamplesOf(f) ==
  {[kind |-> Candidate(f), at |-> t, ifindex |-> f.ifindex, peer |-> f.peer,
    payload |-> SubSeq(f.payload, 1, n)] : t \in Nat, n \in {m \in Int : m <= Len(f.payload)}}
AllSamples == UNION {SamplesOf(f) : f \in Frame}
Spoken == (UNION {ToSet(Said(s)) : s \in AllSamples}) \ {NoName}

\* What is copied of a payload is its start.
LEMMA PartsCopied ==
  ASSUME NEW s \in AllSamples
  PROVE  /\ Len(s.payload) \in Nat
         /\ \A i \in 1..Len(s.payload) : IsAnswer(s.payload[i]) => s.payload[i].ttl \in Nat
         /\ s.at \in Nat
  <1>1. PICK f \in Frame : s \in SamplesOf(f)
    BY DEF AllSamples
  <1>2. PICK t \in Nat, n \in {m \in Int : m <= Len(f.payload)} :
          s = [kind |-> Candidate(f), at |-> t, ifindex |-> f.ifindex, peer |-> f.peer,
               payload |-> SubSeq(f.payload, 1, n)]
    BY <1>1 DEF SamplesOf
  <1> DEFINE p == f.payload
             S == ToSet(p)
  <1>3. p \in Seq(S) /\ (\A x \in S : IsAnswer(x) => x.ttl \in Nat) /\ n \in Int /\ n <= Len(p)
    BY <1>2, WireAssumption
  <1>4. s.payload = SubSeq(p, 1, n) /\ s.at \in Nat
    BY <1>2
  <1> HIDE DEF p, S
  <1>5. \A i \in 1..n : p[i] \in S
    BY <1>3
  <1>6. SubSeq(p, 1, n) \in Seq(S)
    BY <1>3, <1>5, SubSeqProperties
  <1>7. \A q \in Seq(S) : Len(q) \in Nat /\ \A i \in 1..Len(q) : q[i] \in S
    OBVIOUS
  <1> QED BY <1>3, <1>4, <1>6, <1>7

LEMMA SaidIs ==
  ASSUME NEW s \in AllSamples
  PROVE  /\ Len(Said(s)) \in Nat /\ DOMAIN Said(s) = 1..Len(Said(s))
         /\ \A o \in ToSet(Said(s)) : o = NoName \/ o.expires \in Int
  <1> DEFINE p == s.payload
             answer(i) == Observation(s, p[2].spelling, p[i].address, clamp_dns_ttl(p[i].ttl))
             all == [i \in 1..Len(p) |-> IF i \in parse_dns_response(p) THEN answer(i) ELSE NoName]
  <1>1. Len(p) \in Nat /\ s.at \in Nat /\ \A i \in 1..Len(p) : IsAnswer(p[i]) => p[i].ttl \in Nat
    BY PartsCopied
  <1>2. \A spelling, address : \A life \in Nat :
          \/ Observation(s, spelling, address, life) = NoName
          \/ Observation(s, spelling, address, life).expires \in Int
    BY <1>1 DEF Observation
  <1>3. DirectTTL \in Nat /\ MinTTL \in Nat /\ MaxTTL \in Nat /\ MaxAnswers \in Nat
    BY EvidenceAssumption
  <1>4. \A ttl \in Nat : clamp_dns_ttl(ttl) \in Nat
    BY <1>3 DEF clamp_dns_ttl, Least, Most
  <1>5. ASSUME NEW i \in parse_dns_response(p) PROVE i \in 1..Len(p) /\ IsAnswer(p[i])
    <2>1. i \in Answers(p)
      BY DEF parse_dns_response, Emitted
    <2>2. i \in 3..Least(Len(p), 2 + MaxAnswers) /\ IsAnswer(p[i])
      BY <2>1 DEF Answers
    <2>3. Least(Len(p), 2 + MaxAnswers) \in Int /\ Least(Len(p), 2 + MaxAnswers) <= Len(p)
      <3> HIDE DEF p
      <3> QED BY <1>1, <1>3 DEF Least
    <2> HIDE DEF p
    <2> QED BY <1>1, <2>2, <2>3
  <1>6. ASSUME NEW i \in 1..Len(p) PROVE all[i] = NoName \/ all[i].expires \in Int
    <2>1. CASE i \in parse_dns_response(p)
      <3>1. clamp_dns_ttl(p[i].ttl) \in Nat
        BY <1>1, <1>4, <1>5, <2>1
      <3> QED BY <1>2, <2>1, <3>1
    <2>2. CASE i \notin parse_dns_response(p)
      BY <2>2
    <2> QED BY <2>1, <2>2
  <1>7. \/ Said(s) = all
        \/ \E spelling : Said(s) = <<Observation(s, spelling, s.peer, DirectTTL)>>
    BY DEF Said
  <1>8. CASE Said(s) = all
    <2>1. DOMAIN all = 1..Len(p) /\ Len(all) = Len(p)
      <3> HIDE DEF answer, p
      <3> QED BY <1>1
    <2> HIDE DEF all, p
    <2> QED BY <1>1, <1>6, <1>8, <2>1 DEF ToSet
  <1>9. ASSUME NEW spelling, Said(s) = <<Observation(s, spelling, s.peer, DirectTTL)>>
        PROVE  /\ Len(Said(s)) \in Nat /\ DOMAIN Said(s) = 1..Len(Said(s))
               /\ \A o \in ToSet(Said(s)) : o = NoName \/ o.expires \in Int
    <2> DEFINE o == Observation(s, spelling, s.peer, DirectTTL)
    <2>1. o = NoName \/ o.expires \in Int
      BY <1>2, <1>3
    <2>2. Said(s) = <<o>>
      BY <1>9
    <2> HIDE DEF o
    <2> QED BY <2>1, <2>2 DEF ToSet
  <1> QED BY <1>7, <1>8, <1>9

------------------------------------------------------------------------------
\* The same chains for the observations of a sample and the samples of a ring.

Pushed(g, start, s, n) ==
  \A t \in SUBSET (1..n) :
    g[t] = IF t = {} THEN start ELSE Push(g[t \ {Max(t)}], s[Max(t)])

LEMMA PushedExists ==
  ASSUME NEW start, NEW s, NEW n \in Nat
  PROVE  \E g : Pushed(g, start, s, n)
  <1> DEFINE T == {m \in Nat : \E g : Pushed(g, start, s, m)}
  <1>1. 0 \in T
    <2>1. Pushed([t \in {{}} |-> start], start, s, 0)
      BY DEF Pushed
    <2> QED BY <2>1
  <1>2. ASSUME NEW m \in Nat, m \in T PROVE m + 1 \in T
    <2>1. PICK g : Pushed(g, start, s, m)
      BY <1>2
    <2> DEFINE h == [t \in SUBSET (1..(m + 1)) |->
                       IF t = {} THEN start ELSE Push(g[t \ {Max(t)}], s[Max(t)])]
    <2>2. \A t \in SUBSET (1..m) : t \in SUBSET (1..(m + 1)) /\ h[t] = g[t]
      BY <2>1 DEF Pushed
    <2>3. \A t \in SUBSET (1..(m + 1)) : t # {} => t \ {Max(t)} \in SUBSET (1..m)
      <3>1. ASSUME NEW t \in SUBSET (1..(m + 1)), t # {} PROVE t \ {Max(t)} \in SUBSET (1..m)
        <4>1. m + 1 \in Nat /\ (m + 1) - 1 = m
          OBVIOUS
        <4>2. t \ {Max(t)} \in SUBSET (1..((m + 1) - 1))
          BY <3>1, <4>1, MaxLaws
        <4> QED BY <4>1, <4>2
      <3> QED BY <3>1
    <2>4. ASSUME NEW t \in SUBSET (1..(m + 1))
          PROVE  h[t] = IF t = {} THEN start ELSE Push(h[t \ {Max(t)}], s[Max(t)])
      <3>1. h[t] = IF t = {} THEN start ELSE Push(g[t \ {Max(t)}], s[Max(t)])
        OBVIOUS
      <3>2. t # {} => h[t \ {Max(t)}] = g[t \ {Max(t)}]
        BY <2>2, <2>3
      <3> HIDE DEF h
      <3> QED BY <3>1, <3>2
    <2>5. Pushed(h, start, s, m + 1)
      BY <2>4 DEF Pushed
    <2> QED BY <2>5
  <1> HIDE DEF T
  <1>3. T \in SUBSET Nat
    BY DEF T
  <1>4. n \in T
    BY <1>1, <1>2, <1>3, EveryNumber
  <1> QED BY <1>4 DEF T

\* What the fold gives is the last of a chain of states.
LEMMA PushFoldIs ==
  ASSUME NEW start, NEW s, Len(s) \in Nat, DOMAIN s = 1..Len(s)
  PROVE  \E g : /\ g[0] = start
                /\ \A n \in 1..Len(s) : g[n] = Push(g[n - 1], s[n])
                /\ FoldLeft(Push, start, s) = g[Len(s)]
  <1> DEFINE K == 1..Len(s)
             Is(g) == g = [t \in SUBSET K |->
                        IF t = {} THEN start ELSE Push(g[t \ {Max(t)}], s[Max(t)])]
             g0 == CHOOSE g : Is(g)
  <1>1. \E g : Is(g)
    <2>1. PICK g : Pushed(g, start, s, Len(s))
      BY PushedExists
    <2> DEFINE h == [t \in SUBSET K |-> g[t]]
    <2>2. ASSUME NEW t \in SUBSET K
          PROVE  h[t] = IF t = {} THEN start ELSE Push(h[t \ {Max(t)}], s[Max(t)])
      BY <2>1 DEF Pushed
    <2>3. Is(h)
      <3> HIDE DEF h
      <3>1. h = [t \in SUBSET K |-> h[t]]
        BY DEF h
      <3> QED BY <2>2, <3>1
    <2> QED BY <2>3
  <1>2. Is(g0)
    <2> HIDE DEF Is
    <2> QED BY <1>1
  <1>3. FoldLeft(Push, start, s) = g0[K]
    BY DEF FoldLeft, MapThenFoldSet
  <1>4. \A t \in SUBSET K : g0[t] = IF t = {} THEN start ELSE Push(g0[t \ {Max(t)}], s[Max(t)])
    <2> HIDE DEF g0
    <2> QED BY <1>2
  <1> DEFINE g == [n \in 0..Len(s) |-> g0[1..n]]
  <1> HIDE DEF g0
  <1>5. g[0] = start
    <2>1. 0 \in 0..Len(s) /\ 1..0 = {} /\ {} \in SUBSET K
      OBVIOUS
    <2>2. g0[{}] = start
      BY <1>4, <2>1
    <2> QED BY <2>1, <2>2
  <1>6. ASSUME NEW n \in 1..Len(s) PROVE g[n] = Push(g[n - 1], s[n])
    <2>1. 1..n # {} /\ Max(1..n) = n /\ (1..n) \ {n} = 1..(n - 1)
      BY MaxPrefix
    <2>2. 1..n \in SUBSET K /\ n \in 0..Len(s) /\ n - 1 \in 0..Len(s)
      OBVIOUS
    <2>3. g0[1..n] = Push(g0[1..(n - 1)], s[n])
      <3> HIDE DEF K
      <3> QED BY <1>4, <2>1, <2>2
    <2>4. g[n] = g0[1..n] /\ g[n - 1] = g0[1..(n - 1)]
      BY <2>2
    <2> QED BY <2>3, <2>4
  <1>7. FoldLeft(Push, start, s) = g[Len(s)]
    BY <1>3
  <1> HIDE DEF g
  <1> QED BY <1>5, <1>6, <1>7

Decoded(g, start, s, n) ==
  \A t \in SUBSET (1..n) :
    g[t] = IF t = {} THEN start ELSE Decode(g[t \ {Max(t)}], s[Max(t)])

LEMMA DecodedExists ==
  ASSUME NEW start, NEW s, NEW n \in Nat
  PROVE  \E g : Decoded(g, start, s, n)
  <1> DEFINE T == {m \in Nat : \E g : Decoded(g, start, s, m)}
  <1>1. 0 \in T
    <2>1. Decoded([t \in {{}} |-> start], start, s, 0)
      BY DEF Decoded
    <2> QED BY <2>1
  <1>2. ASSUME NEW m \in Nat, m \in T PROVE m + 1 \in T
    <2>1. PICK g : Decoded(g, start, s, m)
      BY <1>2
    <2> DEFINE h == [t \in SUBSET (1..(m + 1)) |->
                       IF t = {} THEN start ELSE Decode(g[t \ {Max(t)}], s[Max(t)])]
    <2>2. \A t \in SUBSET (1..m) : t \in SUBSET (1..(m + 1)) /\ h[t] = g[t]
      BY <2>1 DEF Decoded
    <2>3. \A t \in SUBSET (1..(m + 1)) : t # {} => t \ {Max(t)} \in SUBSET (1..m)
      <3>1. ASSUME NEW t \in SUBSET (1..(m + 1)), t # {} PROVE t \ {Max(t)} \in SUBSET (1..m)
        <4>1. m + 1 \in Nat /\ (m + 1) - 1 = m
          OBVIOUS
        <4>2. t \ {Max(t)} \in SUBSET (1..((m + 1) - 1))
          BY <3>1, <4>1, MaxLaws
        <4> QED BY <4>1, <4>2
      <3> QED BY <3>1
    <2>4. ASSUME NEW t \in SUBSET (1..(m + 1))
          PROVE  h[t] = IF t = {} THEN start ELSE Decode(h[t \ {Max(t)}], s[Max(t)])
      <3>1. h[t] = IF t = {} THEN start ELSE Decode(g[t \ {Max(t)}], s[Max(t)])
        OBVIOUS
      <3>2. t # {} => h[t \ {Max(t)}] = g[t \ {Max(t)}]
        BY <2>2, <2>3
      <3> HIDE DEF h
      <3> QED BY <3>1, <3>2
    <2>5. Decoded(h, start, s, m + 1)
      BY <2>4 DEF Decoded
    <2> QED BY <2>5
  <1> HIDE DEF T
  <1>3. T \in SUBSET Nat
    BY DEF T
  <1>4. n \in T
    BY <1>1, <1>2, <1>3, EveryNumber
  <1> QED BY <1>4 DEF T

\* What the fold gives is the last of a chain of states.
LEMMA DecodeFoldIs ==
  ASSUME NEW start, NEW s, Len(s) \in Nat, DOMAIN s = 1..Len(s)
  PROVE  \E g : /\ g[0] = start
                /\ \A n \in 1..Len(s) : g[n] = Decode(g[n - 1], s[n])
                /\ FoldLeft(Decode, start, s) = g[Len(s)]
  <1> DEFINE K == 1..Len(s)
             Is(g) == g = [t \in SUBSET K |->
                        IF t = {} THEN start ELSE Decode(g[t \ {Max(t)}], s[Max(t)])]
             g0 == CHOOSE g : Is(g)
  <1>1. \E g : Is(g)
    <2>1. PICK g : Decoded(g, start, s, Len(s))
      BY DecodedExists
    <2> DEFINE h == [t \in SUBSET K |-> g[t]]
    <2>2. ASSUME NEW t \in SUBSET K
          PROVE  h[t] = IF t = {} THEN start ELSE Decode(h[t \ {Max(t)}], s[Max(t)])
      BY <2>1 DEF Decoded
    <2>3. Is(h)
      <3> HIDE DEF h
      <3>1. h = [t \in SUBSET K |-> h[t]]
        BY DEF h
      <3> QED BY <2>2, <3>1
    <2> QED BY <2>3
  <1>2. Is(g0)
    <2> HIDE DEF Is
    <2> QED BY <1>1
  <1>3. FoldLeft(Decode, start, s) = g0[K]
    BY DEF FoldLeft, MapThenFoldSet
  <1>4. \A t \in SUBSET K : g0[t] = IF t = {} THEN start ELSE Decode(g0[t \ {Max(t)}], s[Max(t)])
    <2> HIDE DEF g0
    <2> QED BY <1>2
  <1> DEFINE g == [n \in 0..Len(s) |-> g0[1..n]]
  <1> HIDE DEF g0
  <1>5. g[0] = start
    <2>1. 0 \in 0..Len(s) /\ 1..0 = {} /\ {} \in SUBSET K
      OBVIOUS
    <2>2. g0[{}] = start
      BY <1>4, <2>1
    <2> QED BY <2>1, <2>2
  <1>6. ASSUME NEW n \in 1..Len(s) PROVE g[n] = Decode(g[n - 1], s[n])
    <2>1. 1..n # {} /\ Max(1..n) = n /\ (1..n) \ {n} = 1..(n - 1)
      BY MaxPrefix
    <2>2. 1..n \in SUBSET K /\ n \in 0..Len(s) /\ n - 1 \in 0..Len(s)
      OBVIOUS
    <2>3. g0[1..n] = Decode(g0[1..(n - 1)], s[n])
      <3> HIDE DEF K
      <3> QED BY <1>4, <2>1, <2>2
    <2>4. g[n] = g0[1..n] /\ g[n - 1] = g0[1..(n - 1)]
      BY <2>2
    <2> QED BY <2>3, <2>4
  <1>7. FoldLeft(Decode, start, s) = g[Len(s)]
    BY <1>3
  <1> HIDE DEF g
  <1> QED BY <1>5, <1>6, <1>7

------------------------------------------------------------------------------
\* What the decoder remembers, against all it has reported.

Backed(memory, all) ==
  \A k \in DOMAIN memory : \E r \in all : r.key = k /\ r.polled <= now /\ r.expires = memory[k]
Remembered(memory, all) ==
  \A r \in all : r.expires > now => r.key \in DOMAIN memory /\ memory[r.key] >= r.expires
Dated(all) == \A r \in all : r.expires \in Int /\ r.polled \in Nat /\ r.polled <= now

\* In the middle of a poll: what has been pushed so far is new.
Held(st) == reported \cup {Stamp(o) : o \in ToSet(st.out)}
Decoding(st) ==
  /\ st = [dedupe |-> st.dedupe, out |-> st.out]
  /\ st.out \in Seq(Spoken)
  /\ Backed(st.dedupe, Held(st)) /\ Remembered(st.dedupe, Held(st)) /\ Dated(Held(st))
  /\ \A o \in ToSet(st.out), r \in reported : r.key = o.key => r.expires <= now

\* The store has what a sample said, or an earlier report of it that is valid.
Covered(h, all) ==
  \E o \in all : /\ o.key = h.key /\ o.polled <= h.polled
                 /\ o.expires > h.polled \/ o = h

LEMMA SpokenIs ==
  ASSUME NEW o \in Spoken
  PROVE  o.expires \in Int /\ o # NoName
  <1> DEFINE all == {ToSet(Said(s)) : s \in AllSamples}
  <1>0. o \in UNION all /\ o # NoName
    BY DEF Spoken
  <1>1. PICK s \in AllSamples : o \in ToSet(Said(s))
    <2>1. PICK t \in all : o \in t
      BY <1>0
    <2> QED BY <2>1
  <1>2. \A x \in ToSet(Said(s)) : x = NoName \/ x.expires \in Int
    BY SaidIs
  <1> QED BY <1>0, <1>1, <1>2

LEMMA PushKeeps ==
  ASSUME NEW st, Decoding(st), NEW o \in Spoken \cup {NoName}, now \in Nat
  PROVE  /\ Decoding(Push(st, o)) /\ Held(st) \subseteq Held(Push(st, o))
         /\ o # NoName => Covered(Stamp(o), Held(Push(st, o)))
  <1> DEFINE new == Push(st, o)
             d == [k \in DOMAIN st.dedupe \cup {o.key} |->
                     IF k = o.key THEN o.expires ELSE st.dedupe[k]]
  <1>0. /\ st = [dedupe |-> st.dedupe, out |-> st.out] /\ st.out \in Seq(Spoken)
        /\ Backed(st.dedupe, Held(st)) /\ Remembered(st.dedupe, Held(st)) /\ Dated(Held(st))
        /\ \A x \in ToSet(st.out), r \in reported : r.key = x.key => r.expires <= now
    BY DEF Decoding
  <1>1. CASE o # NoName /\ Fresh(st.dedupe, o)
    <2>1. o \in Spoken /\ o.expires \in Int
      BY <1>1, SpokenIs
    <2>2. new = [dedupe |-> d, out |-> Append(st.out, o)]
      BY <1>1 DEF Push
    <2>3. new.dedupe = d /\ new.out = Append(st.out, o) /\ new = [dedupe |-> new.dedupe, out |-> new.out]
      BY <2>2
    <2>4. new.out \in Seq(Spoken) /\ ToSet(new.out) = ToSet(st.out) \cup {o}
      <3> DEFINE q == st.out
      <3>1. q \in Seq(Spoken) /\ new.out = Append(q, o)
        BY <1>0, <2>3
      <3> HIDE DEF q, new
      <3>2. /\ DOMAIN q = 1..Len(q) /\ Len(q) \in Nat
            /\ DOMAIN Append(q, o) = 1..(Len(q) + 1) /\ Append(q, o)[Len(q) + 1] = o
            /\ \A i \in 1..Len(q) : Append(q, o)[i] = q[i]
        BY <3>1
      <3>3. Append(q, o) \in Seq(Spoken)
        BY <2>1, <3>1
      <3>4. ToSet(Append(q, o)) = ToSet(q) \cup {o}
        <4>1. ASSUME NEW x \in ToSet(Append(q, o)) PROVE x \in ToSet(q) \cup {o}
          <5>1. PICK i \in 1..(Len(q) + 1) : x = Append(q, o)[i]
            BY <3>2 DEF ToSet
          <5> QED BY <3>2, <5>1 DEF ToSet
        <4>2. ASSUME NEW x \in ToSet(q) PROVE x \in ToSet(Append(q, o))
          BY <3>2 DEF ToSet
        <4>3. o \in ToSet(Append(q, o))
          <5>1. Len(q) + 1 \in DOMAIN Append(q, o)
            BY <3>2
          <5> QED BY <3>2, <5>1 DEF ToSet
        <4> QED BY <4>1, <4>2, <4>3
      <3> QED BY <3>1, <3>3, <3>4 DEF q
    <2>5. DOMAIN d = DOMAIN st.dedupe \cup {o.key} /\ d[o.key] = o.expires
          /\ \A k \in DOMAIN st.dedupe : k # o.key => d[k] = st.dedupe[k]
      OBVIOUS
    <2>6. /\ Stamp(o).key = o.key /\ Stamp(o).expires = o.expires /\ Stamp(o).polled = now
      BY DEF Stamp
    <2> HIDE DEF new, d
    <2>7. Held(new) = Held(st) \cup {Stamp(o)}
      BY <2>4 DEF Held
    <2>8. Dated(Held(new))
      BY <1>0, <2>1, <2>6, <2>7 DEF Dated
    <2>9. Backed(new.dedupe, Held(new))
      BY <1>0, <2>3, <2>5, <2>6, <2>7 DEF Backed
    <2>10. \A r \in Held(st) : r.key = o.key => r.expires <= now
      BY <1>0, <1>1 DEF Remembered, Dated, Fresh, Backed
    <2>11. Remembered(new.dedupe, Held(new))
      BY <1>0, <2>1, <2>3, <2>5, <2>6, <2>7, <2>8, <2>10 DEF Remembered, Dated
    <2>12. \A x \in ToSet(new.out), r \in reported : r.key = x.key => r.expires <= now
      BY <1>0, <2>4, <2>10 DEF Held
    <2>13. Covered(Stamp(o), Held(new))
      BY <2>6, <2>7 DEF Covered
    <2> QED BY <2>3, <2>4, <2>7, <2>8, <2>9, <2>11, <2>12, <2>13 DEF Decoding, new
  <1>2. CASE o # NoName /\ ~Fresh(st.dedupe, o)
    <2>1. new = st /\ o.key \in DOMAIN st.dedupe /\ ~(st.dedupe[o.key] <= now)
      BY <1>2 DEF Push, Fresh
    <2>2. PICK r \in Held(st) : r.key = o.key /\ r.polled <= now /\ r.expires = st.dedupe[o.key]
      BY <1>0, <2>1 DEF Backed
    <2>3. r.expires > now
      BY <1>0, <2>1, <2>2 DEF Dated
    <2>4. Stamp(o).key = o.key /\ Stamp(o).polled = now
      BY DEF Stamp
    <2>5. Covered(Stamp(o), Held(st))
      BY <2>2, <2>3, <2>4 DEF Covered
    <2> QED BY <2>1, <2>5
  <1>3. CASE o = NoName
    BY <1>3 DEF Push
  <1> QED BY <1>1, <1>2, <1>3

LEMMA CoveredStays ==
  ASSUME NEW h, NEW R, NEW S, R \subseteq S, Covered(h, R)
  PROVE  Covered(h, S)
  BY DEF Covered

LEMMA DecodeKeeps ==
  ASSUME NEW st, Decoding(st), NEW s \in AllSamples, now \in Nat
  PROVE  /\ Decoding(Decode(st, s)) /\ Held(st) \subseteq Held(Decode(st, s))
         /\ \A o \in ToSet(Said(s)) : o # NoName => Covered(Stamp(o), Held(Decode(st, s)))
  <1> DEFINE q == Said(s)
  <1>1. /\ Len(q) \in Nat /\ DOMAIN q = 1..Len(q) /\ Decode(st, s) = FoldLeft(Push, st, q)
        /\ \A i \in 1..Len(q) : q[i] \in Spoken \cup {NoName}
    <2>1. Len(q) \in Nat /\ DOMAIN q = 1..Len(q)
      BY SaidIs
    <2>2. ASSUME NEW i \in 1..Len(q) PROVE q[i] \in Spoken \cup {NoName}
      <3>1. q[i] \in ToSet(Said(s))
        BY <2>1 DEF ToSet
      <3> QED BY <3>1 DEF Spoken
    <2> QED BY <2>1, <2>2 DEF Decode
  <1>2. ToSet(Said(s)) = {q[i] : i \in 1..Len(q)}
    BY <1>1 DEF ToSet
  <1> HIDE DEF q
  <1>3. PICK g : /\ g[0] = st
                 /\ \A n \in 1..Len(q) : g[n] = Push(g[n - 1], q[n])
                 /\ FoldLeft(Push, st, q) = g[Len(q)]
    <2>1. Len(q) \in Nat /\ DOMAIN q = 1..Len(q)
      BY <1>1
    <2> QED BY <2>1, PushFoldIs
  <1> DEFINE Done(n) == /\ Decoding(g[n]) /\ Held(st) \subseteq Held(g[n])
                        /\ \A i \in 1..n : q[i] # NoName => Covered(Stamp(q[i]), Held(g[n]))
             T == {n \in Nat : n <= Len(q) => Done(n)}
  <1>4. 0 \in T
    BY <1>3
  <1>5. ASSUME NEW n \in Nat, n \in T PROVE n + 1 \in T
    <2> SUFFICES ASSUME n + 1 <= Len(q) PROVE Done(n + 1)
      OBVIOUS
    <2>1. n <= Len(q) /\ n + 1 \in 1..Len(q) /\ (n + 1) - 1 = n
      BY <1>1
    <2>2. Done(n)
      BY <1>5, <2>1
    <2>3. g[n + 1] = Push(g[n], q[n + 1]) /\ q[n + 1] \in Spoken \cup {NoName}
      BY <1>1, <1>3, <2>1
    <2>4. /\ Decoding(g[n + 1]) /\ Held(g[n]) \subseteq Held(g[n + 1])
          /\ q[n + 1] # NoName => Covered(Stamp(q[n + 1]), Held(g[n + 1]))
      BY <2>2, <2>3, PushKeeps
    <2>5. ASSUME NEW i \in 1..(n + 1), q[i] # NoName
          PROVE  Covered(Stamp(q[i]), Held(g[n + 1]))
      <3>1. CASE i = n + 1
        BY <2>4, <2>5, <3>1
      <3>2. CASE i # n + 1
        <4>1. i \in 1..n
          BY <3>2
        <4>2. Covered(Stamp(q[i]), Held(g[n]))
          BY <2>2, <2>5, <4>1
        <4> QED BY <2>4, <4>2, CoveredStays
      <3> QED BY <3>1, <3>2
    <2> QED BY <2>2, <2>4, <2>5
  <1> HIDE DEF T
  <1>6. T \in SUBSET Nat
    BY DEF T
  <1>7. Len(q) \in T
    BY <1>1, <1>4, <1>5, <1>6, EveryNumber
  <1>8. Done(Len(q))
    BY <1>1, <1>7 DEF T
  <1> QED BY <1>1, <1>2, <1>3, <1>8

\* The whole ring, from what is remembered when the poll starts.
LEMMA RingDecoded ==
  ASSUME NEW st, Decoding(st), NEW q \in Seq(AllSamples), now \in Nat
  PROVE  LET res == FoldLeft(Decode, st, q)
         IN  /\ Decoding(res) /\ Held(st) \subseteq Held(res)
             /\ \A i \in 1..Len(q) : \A o \in ToSet(Said(q[i])) :
                  o # NoName => Covered(Stamp(o), Held(res))
  <1>1. Len(q) \in Nat /\ DOMAIN q = 1..Len(q) /\ \A i \in 1..Len(q) : q[i] \in AllSamples
    OBVIOUS
  <1>2. PICK g : /\ g[0] = st
                 /\ \A n \in 1..Len(q) : g[n] = Decode(g[n - 1], q[n])
                 /\ FoldLeft(Decode, st, q) = g[Len(q)]
    BY <1>1, DecodeFoldIs
  <1> DEFINE Done(n) == /\ Decoding(g[n]) /\ Held(st) \subseteq Held(g[n])
                        /\ \A i \in 1..n : \A o \in ToSet(Said(q[i])) :
                             o # NoName => Covered(Stamp(o), Held(g[n]))
             T == {n \in Nat : n <= Len(q) => Done(n)}
  <1>3. 0 \in T
    BY <1>2
  <1>4. ASSUME NEW n \in Nat, n \in T PROVE n + 1 \in T
    <2> SUFFICES ASSUME n + 1 <= Len(q) PROVE Done(n + 1)
      OBVIOUS
    <2>1. n <= Len(q) /\ n + 1 \in 1..Len(q) /\ (n + 1) - 1 = n
      BY <1>1
    <2>2. Done(n)
      BY <1>4, <2>1
    <2>3. g[n + 1] = Decode(g[n], q[n + 1]) /\ q[n + 1] \in AllSamples
      BY <1>1, <1>2, <2>1
    <2>4. /\ Decoding(g[n + 1]) /\ Held(g[n]) \subseteq Held(g[n + 1])
          /\ \A o \in ToSet(Said(q[n + 1])) : o # NoName => Covered(Stamp(o), Held(g[n + 1]))
      BY <2>2, <2>3, DecodeKeeps
    <2>5. ASSUME NEW i \in 1..(n + 1), NEW o \in ToSet(Said(q[i])), o # NoName
          PROVE  Covered(Stamp(o), Held(g[n + 1]))
      <3>1. CASE i = n + 1
        BY <2>4, <2>5, <3>1
      <3>2. CASE i # n + 1
        <4>1. i \in 1..n
          BY <3>2
        <4>2. Covered(Stamp(o), Held(g[n]))
          BY <2>2, <2>5, <4>1
        <4> QED BY <2>4, <4>2, CoveredStays
      <3> QED BY <3>1, <3>2
    <2> QED BY <2>2, <2>4, <2>5
  <1> HIDE DEF T
  <1>5. T \in SUBSET Nat
    BY DEF T
  <1>6. Len(q) \in T
    BY <1>1, <1>3, <1>4, <1>5, EveryNumber
  <1>7. Done(Len(q))
    BY <1>1, <1>6 DEF T
  <1> QED BY <1>2, <1>7

------------------------------------------------------------------------------
\* Every step of the path from packet to report.

Counts == [seen : Nat, parsed : Nat, failed : Nat, emitted : Nat, dropped : Nat]
Arrivals == [offered : Nat, refused : Nat, drained : Nat]
Counted ==
  /\ arrived.offered = arrived.drained + Len(domainRing) + stats.dropped
  /\ stats.emitted = arrived.drained + Len(domainRing)
  /\ stats.failed = arrived.refused
Told == \A h \in heard : Covered(h, reported)

DomainInvariant ==
  /\ now \in Nat /\ domainRing \in Seq(AllSamples) /\ stats \in Counts /\ arrived \in Arrivals
  /\ Backed(dedupe, reported) /\ Remembered(dedupe, reported) /\ Dated(reported)
  /\ Counted /\ Told /\ ReportedOnce

LEMMA SampleIs ==
  ASSUME NEW f \in Frame, now \in Nat, Copies(f, Parse(f))
  PROVE  Sample(f, Parse(f)) \in AllSamples
  <1> DEFINE r == Parse(f)
  <1>1. {f.ihl, f.total, f.dataOffset} \subseteq Nat /\ SampleMax \in Nat
    BY WireAssumption, EvidenceAssumption
  <1>2. r.start \in Int /\ r.end \in Int
    <2>1. NetworkHeader(f) \in Nat /\ TransportLength(f) \in Nat
      BY <1>1 DEF NetworkHeader, TransportLength, EthHeader, VlanHeader, UdpHeader
    <2>2. f.ihl \in Nat /\ f.total \in Nat
      BY <1>1
    <2> QED BY <2>1, <2>2 DEF Parse
  <1> DEFINE n == Least(Available(f, r), SampleMax)
  <1>3. n \in Int
    <2> HIDE DEF r
    <2> QED BY <1>1, <1>2 DEF Least, Available
  <1>4. n <= Len(f.payload)
    BY DEF Copies
  <1>5. Sample(f, r) = [kind |-> Candidate(f), at |-> now, ifindex |-> f.ifindex, peer |-> f.peer,
                        payload |-> SubSeq(f.payload, 1, n)]
    BY DEF Sample
  <1> HIDE DEF r, n
  <1>6. Sample(f, r) \in SamplesOf(f)
    BY <1>3, <1>4, <1>5 DEF SamplesOf
  <1> QED BY <1>6 DEF AllSamples, r

LEMMA DomainStart == ASSUME DomainInit PROVE DomainInvariant
  BY DEF DomainInit, DomainInvariant, Counts, Arrivals, Backed, Remembered, Dated, Counted,
        Told, ReportedOnce

\* A frame that is no flow is skipped or refused.
LEMMA OutcomeIs ==
  ASSUME NEW f
  PROVE  Outcome(f) \in {"flow", "skipped", "truncated", "invalid"}
  <1> DEFINE l3 == NetworkHeader(f)
             l4 == l3 + f.ihl
             limit == Least(l3 + f.total, f.captured)
             least == IF f.protocol = "tcp" THEN TcpHeader ELSE UdpHeader
             checks ==
               <<[fails |-> l3 > f.captured, as |-> "truncated"],
                 [fails |-> f.tags > 1 \/ ~f.ipv4, as |-> "skipped"],
                 [fails |-> l3 + 1 > f.captured, as |-> "truncated"],
                 [fails |-> f.version # 4 \/ f.ihl < Ipv4Header \/ f.total < f.ihl, as |-> "invalid"],
                 [fails |-> l3 + 2 > f.captured, as |-> "truncated"],
                 [fails |-> f.later, as |-> "skipped"],
                 [fails |-> l3 + Ipv4Header > f.captured, as |-> "truncated"],
                 [fails |-> f.protocol \notin {"tcp", "udp"}, as |-> "skipped"],
                 [fails |-> l4 + least > limit, as |-> "truncated"],
                 [fails |-> TransportLength(f) < least, as |-> "invalid"],
                 [fails |-> l4 + TransportLength(f) > limit, as |-> "truncated"]>>
             failing == {i \in DOMAIN checks : checks[i].fails}
  <1>1. Outcome(f) = IF failing = {} THEN "flow" ELSE checks[Min(failing)].as
    BY DEF Outcome
  <1>2. \A i \in 1..11 : checks[i].as \in {"skipped", "truncated", "invalid"}
    OBVIOUS
  <1>3. DOMAIN checks = 1..11
    OBVIOUS
  <1> HIDE DEF checks
  <1>4. failing # {} => Min(failing) \in 1..11
    <2> SUFFICES ASSUME failing # {} PROVE Min(failing) \in failing
      BY <1>3
    <2>1. failing \in SUBSET Nat
      BY <1>3
    <2> HIDE DEF failing
    <2>2. \E x \in failing : \A y \in failing : x <= y
      BY <2>1, LeastNumber
    <2> QED BY <2>2 DEF Min
  <1> QED BY <1>1, <1>2, <1>4

LEMMA ReceiveKeeps ==
  ASSUME DomainInvariant, NEW f \in Frame, Receive(f)
  PROVE  DomainInvariant'
  <1> DEFINE r == Parse(f)
  <1>1. UNCHANGED <<now, dedupe, reported, heard>>
    BY DEF Receive
  <1>2. /\ stats \in Counts /\ arrived \in Arrivals /\ Counted
        /\ domainRing \in Seq(AllSamples) /\ now \in Nat
    BY DEF DomainInvariant
  <1>3. /\ arrived' \in Arrivals /\ arrived'.drained = arrived.drained
        /\ arrived'.offered = IF Offered(f) THEN arrived.offered + 1 ELSE arrived.offered
        /\ arrived'.refused = IF Refused(f) THEN arrived.refused + 1 ELSE arrived.refused
    <2>1. arrived' = Arrived(f)
      BY DEF Receive
    <2> DEFINE i == Once(Offered(f))
               j == Once(Refused(f))
    <2>2. i = (IF Offered(f) THEN 1 ELSE 0) /\ j = (IF Refused(f) THEN 1 ELSE 0)
      BY DEF Once
    <2>3. i \in {0, 1} /\ j \in {0, 1}
      BY <2>2
    <2>4. arrived' = [arrived EXCEPT !.offered = @ + i, !.refused = @ + j]
      BY <2>1 DEF Arrived
    <2> HIDE DEF i, j
    <2>5. /\ arrived' \in Arrivals /\ arrived'.drained = arrived.drained
          /\ arrived'.offered = arrived.offered + i /\ arrived'.refused = arrived.refused + j
      <3> DEFINE x == [arrived EXCEPT !.offered = @ + i]
      <3>1. x \in Arrivals /\ x.drained = arrived.drained /\ x.offered = arrived.offered + i
            /\ x.refused = arrived.refused
        BY <1>2, <2>3 DEF Arrivals
      <3>2. arrived' = [x EXCEPT !.refused = @ + j]
        BY <2>4
      <3> HIDE DEF x
      <3> QED BY <2>3, <3>1, <3>2 DEF Arrivals
    <2>6. arrived.offered \in Nat /\ arrived.refused \in Nat
      BY <1>2 DEF Arrivals
    <2> QED BY <2>2, <2>5, <2>6
  <1>4. r.outcome = Outcome(f)
    BY DEF Parse
  <1> DEFINE seen == Count("seen")
             parsed == [seen EXCEPT !.parsed = @ + 1]
  <1>5. seen \in Counts /\ seen.failed = stats.failed /\ seen.emitted = stats.emitted
        /\ seen.dropped = stats.dropped
    BY <1>2 DEF Count, Counts
  <1>6. parsed \in Counts /\ parsed.failed = stats.failed /\ parsed.emitted = stats.emitted
        /\ parsed.dropped = stats.dropped
    <2> HIDE DEF seen
    <2> QED BY <1>5 DEF Counts
  <1>7. CASE r.outcome # "flow"
    <2>1. /\ stats' = IF r.outcome = "skipped" THEN seen ELSE [seen EXCEPT !.failed = @ + 1]
          /\ UNCHANGED domainRing
      BY <1>7 DEF Receive
    <2>2. ~Offered(f) /\ (Refused(f) <=> r.outcome # "skipped")
      BY <1>4, <1>7, OutcomeIs DEF Offered, Refused
    <2> HIDE DEF seen, r
    <2>3. arrived' \in Arrivals /\ arrived'.offered = arrived.offered /\ arrived'.drained = arrived.drained
          /\ arrived'.refused = IF r.outcome # "skipped" THEN arrived.refused + 1 ELSE arrived.refused
      BY <1>3, <2>2
    <2>4. stats' \in Counts /\ stats'.emitted = stats.emitted /\ stats'.dropped = stats.dropped
          /\ stats'.failed = IF r.outcome # "skipped" THEN stats.failed + 1 ELSE stats.failed
      BY <1>5, <2>1 DEF Counts
    <2>5. Counted'
      BY <1>2, <2>1, <2>3, <2>4 DEF Counted, Counts, Arrivals
    <2> QED BY <1>1, <1>2, <2>1, <2>3, <2>4, <2>5
          DEF DomainInvariant, Backed, Remembered, Dated, Told, ReportedOnce
  <1>8. CASE r.outcome = "flow"
    <2>1. ~Refused(f)
      BY <1>4, <1>8 DEF Refused
    <2>2. Offered(f) <=> ~(Candidate(f) = "none" \/ Available(f, r) = 0)
      BY <1>4, <1>8 DEF Offered
    <2>3. arrived' \in Arrivals /\ arrived'.refused = arrived.refused /\ arrived'.drained = arrived.drained
          /\ arrived'.offered = IF Offered(f) THEN arrived.offered + 1 ELSE arrived.offered
      BY <1>3, <2>1
    <2>4. CASE ~Offered(f)
      <3>1. stats' = parsed /\ UNCHANGED domainRing
        BY <1>8, <2>2, <2>4 DEF Receive
      <3> HIDE DEF seen, parsed, r
      <3>2. Counted'
        BY <1>2, <1>6, <2>3, <2>4, <3>1 DEF Counted, Counts, Arrivals
      <3> QED BY <1>1, <1>2, <1>6, <2>3, <3>1, <3>2
            DEF DomainInvariant, Backed, Remembered, Dated, Told, ReportedOnce
    <2>5. CASE Offered(f) /\ Len(domainRing) < DomainRoom /\ Copies(f, r)
      <3> DEFINE x == Sample(f, r)
      <3>1. stats' = [parsed EXCEPT !.emitted = @ + 1] /\ domainRing' = Append(domainRing, x)
        BY <1>8, <2>2, <2>5 DEF Receive
      <3>2. x \in AllSamples
        BY <1>2, <2>5, SampleIs
      <3> HIDE DEF seen, parsed, r, x
      <3>3. domainRing' \in Seq(AllSamples) /\ Len(domainRing') = Len(domainRing) + 1
        BY <1>2, <3>1, <3>2
      <3>4. stats' \in Counts /\ stats'.emitted = stats.emitted + 1 /\ stats'.dropped = stats.dropped
            /\ stats'.failed = stats.failed
        BY <1>6, <3>1 DEF Counts
      <3>5. Counted'
        <4>1. Len(domainRing) \in Nat
          BY <1>2
        <4>2. arrived'.offered = arrived.offered + 1
          BY <2>3, <2>5
        <4>3. stats.emitted \in Nat /\ stats.dropped \in Nat /\ arrived.drained \in Nat
              /\ arrived.offered \in Nat
          BY <1>2 DEF Counts, Arrivals
        <4>4. /\ arrived.offered = arrived.drained + Len(domainRing) + stats.dropped
              /\ stats.emitted = arrived.drained + Len(domainRing) /\ stats.failed = arrived.refused
          BY <1>2 DEF Counted
        <4>5. Len(domainRing') = Len(domainRing) + 1
          BY <3>3
        <4>6. arrived'.refused = arrived.refused /\ arrived'.drained = arrived.drained
          BY <2>3
        <4> DEFINE n == Len(domainRing)
                   m == Len(domainRing')
        <4> HIDE DEF n, m
        <4>7. /\ arrived'.offered = arrived'.drained + m + stats'.dropped
              /\ stats'.emitted = arrived'.drained + m /\ stats'.failed = arrived'.refused
          <5>1. m = n + 1 /\ n \in Nat
            BY <4>1, <4>5 DEF n, m
          <5>2. arrived.offered = arrived.drained + n + stats.dropped /\ stats.emitted = arrived.drained + n
            BY <4>4 DEF n
          <5> QED BY <3>4, <4>2, <4>3, <4>4, <4>6, <5>1, <5>2
        <4> QED BY <4>7 DEF Counted, m
      <3> QED BY <1>1, <1>2, <2>3, <3>3, <3>4, <3>5
            DEF DomainInvariant, Backed, Remembered, Dated, Told, ReportedOnce
    <2>6. CASE Offered(f) /\ ~(Len(domainRing) < DomainRoom /\ Copies(f, r))
      <3>1. stats' = Lost(parsed) /\ UNCHANGED domainRing
        BY <1>8, <2>2, <2>6 DEF Receive
      <3> HIDE DEF seen, parsed, r
      <3>2. stats' \in Counts /\ stats'.emitted = stats.emitted /\ stats'.dropped = stats.dropped + 1
            /\ stats'.failed = stats.failed
        BY <1>6, <3>1 DEF Counts, Lost
      <3>3. Counted'
        <4>1. Len(domainRing) \in Nat
          BY <1>2
        <4> QED BY <1>2, <2>3, <2>6, <3>1, <3>2, <4>1 DEF Counted, Counts, Arrivals
      <3> QED BY <1>1, <1>2, <2>3, <3>1, <3>2, <3>3
            DEF DomainInvariant, Backed, Remembered, Dated, Told, ReportedOnce
    <2> QED BY <2>4, <2>5, <2>6
  <1> QED BY <1>7, <1>8

LEMMA TickKeeps ==
  ASSUME DomainInvariant, Tick
  PROVE  DomainInvariant'
  <1>1. now \in Nat /\ now' = now + 1 /\ UNCHANGED <<stats, domainRing, dedupe, reported, heard, arrived>>
    BY DEF Tick, DomainInvariant
  <1>2. Dated(reported)'
    BY <1>1 DEF DomainInvariant, Dated
  <1>3. Backed(dedupe, reported)'
    BY <1>1 DEF DomainInvariant, Dated, Backed
  <1>4. Remembered(dedupe, reported)'
    BY <1>1 DEF DomainInvariant, Dated, Remembered
  <1> QED BY <1>1, <1>2, <1>3, <1>4 DEF DomainInvariant, Counted, Told, ReportedOnce

LEMMA PollKeeps ==
  ASSUME DomainInvariant, Poll
  PROVE  DomainInvariant'
  <1> DEFINE st == [dedupe |-> dedupe, out |-> <<>>]
             res == FoldLeft(Decode, st, domainRing)
             said == (UNION {ToSet(Said(s)) : s \in ToSet(domainRing)}) \ {NoName}
  <1>1. /\ dedupe' = Unexpired(res.dedupe) /\ reported' = reported \cup {Stamp(o) : o \in ToSet(res.out)}
        /\ heard' = heard \cup {Stamp(o) : o \in said} /\ domainRing' = <<>> /\ UNCHANGED <<now, stats>>
    BY DEF Poll
  <1>2. now \in Nat /\ domainRing \in Seq(AllSamples)
    BY DEF DomainInvariant
  <1>3. Held(st) = reported /\ Decoding(st)
    <2>1. st.out = <<>> /\ st.dedupe = dedupe /\ st = [dedupe |-> st.dedupe, out |-> st.out]
      OBVIOUS
    <2> HIDE DEF st
    <2>2. ToSet(st.out) = {}
      BY <2>1 DEF ToSet
    <2>3. Held(st) = reported
      BY <2>2 DEF Held
    <2> QED BY <2>1, <2>2, <2>3 DEF Decoding, DomainInvariant
  <1> HIDE DEF st
  <1>4. /\ Decoding(res) /\ Held(st) \subseteq Held(res)
        /\ \A i \in 1..Len(domainRing) : \A o \in ToSet(Said(domainRing[i])) :
             o # NoName => Covered(Stamp(o), Held(res))
    BY <1>2, <1>3, RingDecoded
  <1> HIDE DEF res
  <1>5. reported' = Held(res)
    BY <1>1 DEF Held
  <1>6. ASSUME NEW o \in said PROVE Covered(Stamp(o), Held(res))
    <2>1. PICK s \in ToSet(domainRing) : o \in ToSet(Said(s)) /\ o # NoName
      OBVIOUS
    <2>2. PICK i \in 1..Len(domainRing) : s = domainRing[i]
      BY <1>2 DEF ToSet
    <2> QED BY <1>4, <2>1, <2>2
  <1> HIDE DEF said
  <1>7. Told'
    <2>1. \A h \in heard : Covered(h, reported')
      BY <1>3, <1>4, <1>5, CoveredStays DEF DomainInvariant, Told
    <2> QED BY <1>1, <1>5, <1>6, <2>1 DEF Told, Covered
  <1>8. Dated(reported)'
    BY <1>1, <1>4, <1>5 DEF Decoding, Dated
  <1>9. Backed(res.dedupe, reported') /\ Remembered(res.dedupe, reported')
    BY <1>4, <1>5 DEF Decoding
  <1>10. DOMAIN dedupe' = {k \in DOMAIN res.dedupe : res.dedupe[k] > now}
         /\ \A k \in DOMAIN dedupe' : dedupe'[k] = res.dedupe[k]
    BY <1>1 DEF Unexpired
  <1>11. Backed(dedupe, reported)'
    BY <1>1, <1>9, <1>10 DEF Backed
  <1>12. Remembered(dedupe, reported)'
    <2> SUFFICES ASSUME NEW r \in reported', r.expires > now
                 PROVE  r.key \in DOMAIN dedupe' /\ dedupe'[r.key] >= r.expires
      BY <1>1 DEF Remembered
    <2>1. r.key \in DOMAIN res.dedupe /\ res.dedupe[r.key] >= r.expires /\ r.expires \in Int
      BY <1>1, <1>8, <1>9 DEF Remembered, Dated
    <2>2. res.dedupe[r.key] \in Int
      BY <1>1, <1>8, <1>9, <2>1 DEF Backed, Dated
    <2> QED BY <1>2, <1>10, <2>1, <2>2
  <1>13. ReportedOnce'
    <2> SUFFICES ASSUME NEW o \in reported', NEW p \in reported', o.key = p.key, o.polled < p.polled
                 PROVE  o.expires <= p.polled
      BY DEF ReportedOnce
    <2>1. \A x \in ToSet(res.out) : Stamp(x).key = x.key /\ Stamp(x).polled = now
      BY DEF Stamp
    <2>2. o.polled <= now /\ p.polled <= now /\ o.polled \in Nat /\ p.polled \in Nat
      BY <1>1, <1>8 DEF Dated
    <2>3. o \in reported
      BY <1>1, <1>2, <2>1, <2>2
    <2>4. CASE p \in reported
      BY <2>3, <2>4 DEF DomainInvariant, ReportedOnce
    <2>5. CASE p \notin reported
      <3>1. PICK x \in ToSet(res.out) : p = Stamp(x)
        BY <1>1, <2>5
      <3>2. o.key = x.key /\ p.polled = now
        BY <2>1, <3>1
      <3>3. o.expires <= now
        BY <1>4, <2>3, <3>2 DEF Decoding
      <3> QED BY <3>2, <3>3
    <2> QED BY <2>4, <2>5
  <1>14. Counted' /\ arrived' \in Arrivals
    <2>1. arrived' = [arrived EXCEPT !.drained = @ + Len(domainRing)]
      BY DEF Poll
    <2>2. /\ arrived \in Arrivals /\ stats \in Counts /\ Counted /\ Len(domainRing) \in Nat
          /\ Len(domainRing') = 0
      BY <1>1, <1>2 DEF DomainInvariant
    <2>3. arrived' \in Arrivals /\ arrived'.drained = arrived.drained + Len(domainRing)
          /\ arrived'.offered = arrived.offered /\ arrived'.refused = arrived.refused
      BY <2>1, <2>2 DEF Arrivals
    <2> QED BY <1>1, <2>2, <2>3 DEF Counted, Counts, Arrivals
  <1> QED BY <1>1, <1>2, <1>7, <1>8, <1>11, <1>12, <1>13, <1>14 DEF DomainInvariant

LEMMA DomainStep == ASSUME DomainInvariant, [DomainNext]_domainVars PROVE DomainInvariant'
  <1>1. CASE UNCHANGED domainVars
    BY <1>1 DEF domainVars, DomainInvariant, Counted, Backed, Remembered, Dated, Told, ReportedOnce
  <1> QED BY <1>1, ReceiveKeeps, PollKeeps, TickKeeps DEF DomainNext

\* What a drained sample says is in the store, from that poll or from an earlier
\* one that is still valid; each sample a packet held is drained, in the ring or
\* counted as dropped, and each refused packet is counted as failed
\* (collector/domain.rs push and purge_expired, tc.rs process and emit_domain_sample).
THEOREM DomainNothingIsLost == DomainSpec => []NothingIsLost
  <1>1. DomainInit => DomainInvariant
    BY DomainStart
  <1>2. DomainInvariant /\ [DomainNext]_domainVars => DomainInvariant'
    BY DomainStep
  <1>3. DomainInvariant => NothingIsLost
    BY DEF DomainInvariant, Counted, Told, Covered, NothingIsLost
  <1> QED BY <1>1, <1>2, <1>3, PTL DEF DomainSpec

\* While a report is valid, no later poll reports the same again
\* (collector/domain.rs push and purge_expired).
THEOREM DomainReportedOnce == DomainSpec => []ReportedOnce
  <1>1. DomainInit => DomainInvariant
    BY DomainStart
  <1>2. DomainInvariant /\ [DomainNext]_domainVars => DomainInvariant'
    BY DomainStep
  <1>3. DomainInvariant => ReportedOnce
    BY DEF DomainInvariant
  <1> QED BY <1>1, <1>2, <1>3, PTL DEF DomainSpec
=============================================================================
