---------------------------- MODULE BoundaryProofs ----------------------------
(***************************************************************************)
(* The safety of the Device Boundary, for any interfaces with any facts    *)
(* and metrics, any choices of the clients and any number of changes,      *)
(* faults and drops.                                                       *)
(***************************************************************************)
EXTENDS Boundary, SequenceTheorems, TLAPS

------------------------------------------------------------------------------
\* The invariant

\* Boundaries that settings may hold.
Boundaries == {<<>>} \cup {Normal(names) : names \in Choice}

Types ==
  /\ hooks \in [Index -> SUBSET Hook]
  /\ settings \in [memory : Boundaries, stored : Boundaries]
  /\ refresh \in [Caller -> [at : {"idle", "applying", "read"}, names : Boundaries, late : BOOLEAN]]
  /\ mailbox \in Seq(Boundaries)
  /\ main \in [at : {"booting", "opening", "opened", "serving", "unavailable"}, names : Boundaries]
  /\ core = [boundary |-> core.boundary, attached |-> core.attached, gaps |-> core.gaps]
  /\ core.boundary \in Boundaries
  /\ counts \in [kernel : Nat, last : Nat, delta : Nat, total : Nat]
  /\ spent = [puts |-> spent.puts, changes |-> spent.changes, faults |-> spent.faults,
              astray |-> spent.astray]
  /\ spent.astray \in BOOLEAN

\* The boundary the worker has once it has served what was sent.
Target == IF mailbox = <<>> THEN core.boundary ELSE mailbox[Len(mailbox)]

\* A call that will bring the worker the boundary of the settings.
Current(c) == refresh[c].at = "applying" \/ (refresh[c].at = "read" /\ ~refresh[c].late)

\* What a call has read is what the settings hold, unless they were changed
\* since; and the worker is on its way to the settings, or such a call is, unless the
\* last call to end was overtaken or dropped.
Following ==
  /\ main.at # "serving" => mailbox = <<>>
  /\ \A c \in Caller : refresh[c].at = "read" /\ ~refresh[c].late => refresh[c].names = settings.memory
  /\ main.at = "serving" /\ ~spent.astray =>
       Target = settings.memory \/ \E c \in Caller : Current(c)

\* The total has every drop that was read, and none is read before it happens.
Counted == counts.last <= counts.kernel /\ counts.last <= counts.total

BoundaryInvariant == Types /\ Following /\ Counted /\ HooksAreOwned /\ LossIsReported

------------------------------------------------------------------------------
\* Reconciling

\* Whatever fails, an interface runs programs after a reconcile only if its entry
\* is linked, and an entry that is kept is the one there was.
LEMMA ReconcileOwns ==
  ASSUME NEW attached, NEW names, NEW failing,
         hooks \in [Index -> SUBSET Hook],
         \A i \in Index : hooks[i] # {} => i \in DOMAIN attached /\ attached[i].linked
  PROVE  LET r == Reconciled(attached, names, failing)
         IN  /\ r = [attached |-> r.attached, hooks |-> r.hooks]
             /\ r.hooks \in [Index -> SUBSET Hook]
             /\ \A i \in Index : r.hooks[i] # {} => i \in DOMAIN r.attached /\ r.attached[i].linked
  <1> DEFINE r == Reconciled(attached, names, failing)
             wanted == Wanted(names)
             kept == {i \in DOMAIN wanted \cap DOMAIN attached : attached[i].linked}
             fresh == DOMAIN wanted \ kept
             entries == [i \in DOMAIN wanted |->
                           IF i \in kept THEN attached[i] ELSE Entry(wanted[i], i \notin failing)]
             running == [i \in Index |->
                           IF i \in kept THEN hooks[i] ELSE IF i \in fresh \ failing THEN Hook ELSE {}]
  <1>1. CASE ~Resolvable(names)
    <2>1. r = [attached |-> attached, hooks |-> hooks]
      BY <1>1 DEF Reconciled
    <2> QED BY <2>1
  <1>2. CASE Resolvable(names)
    <2>1. r = [attached |-> entries, hooks |-> running]
      BY <1>2 DEF Reconciled
    <2>2. running \in [Index -> SUBSET Hook]
      OBVIOUS
    <2>3. ASSUME NEW i \in Index, running[i] # {}
          PROVE  i \in DOMAIN entries /\ entries[i].linked
      <3>1. CASE i \in kept
        <4> HIDE DEF wanted
        <4> QED BY <3>1
      <3>2. CASE i \notin kept
        <4>1. i \in fresh \ failing
          BY <2>3, <3>2
        <4>2. i \in DOMAIN wanted /\ entries[i] = Entry(wanted[i], TRUE)
          <5> HIDE DEF wanted
          <5> QED BY <4>1, <3>2
        <4> HIDE DEF entries, wanted
        <4>3. entries[i].linked
          BY <4>2 DEF Entry
        <4> QED BY <4>2, <4>3 DEF entries
      <3> QED BY <3>1, <3>2
    <2> HIDE DEF entries, running
    <2> QED BY <2>1, <2>2, <2>3
  <1> QED BY <1>1, <1>2

\* A poll that finds every attached interface watched has seen both programs of
\* each one that is still the interface of its name.
LEMMA ObservedTellsLoss ==
  ASSUME NEW r, NEW read, Observed(r, read) PROVE LossIsReported'
  <1> DEFINE watched == Watched(r.attached, r.hooks)
             gaps == ((core.gaps \ watched) \ {StatsGap}) \cup (DOMAIN r.attached \ watched)
                       \cup (IF read THEN {} ELSE {StatsGap})
             missed == {i \in DOMAIN r.attached :
                          r.hooks[i] # Hook /\ net.index[r.attached[i].name] \in {0, i}}
  <1>1. report' = [state |-> IF gaps = {} THEN "running" ELSE "degraded", missed |-> missed]
    BY DEF Observed
  <1>2. ASSUME gaps = {}, NEW i \in missed PROVE FALSE
    <2>1. i \in DOMAIN r.attached /\ i \in watched
      BY <1>2
    <2>2. net.index[r.attached[i].name] # 0 /\ r.hooks[net.index[r.attached[i].name]] = Hook
      BY <2>1 DEF Watched, Present
    <2>3. r.hooks[i] # Hook /\ net.index[r.attached[i].name] \in {0, i}
      BY <1>2
    <2> QED BY <2>2, <2>3
  <1>3. report'.state = "running" => gaps = {}
    <2> HIDE DEF gaps, missed
    <2> QED BY <1>1
  <1>4. report'.missed = missed
    <2> HIDE DEF gaps, missed
    <2> QED BY <1>1
  <1> QED BY <1>2, <1>3, <1>4 DEF LossIsReported

\* The counters after a poll, read or not.
LEMMA ObservedCounts ==
  ASSUME NEW r, NEW read \in BOOLEAN, Observed(r, read), Counted,
         counts \in [kernel : Nat, last : Nat, delta : Nat, total : Nat]
  PROVE  Counted' /\ counts' \in [kernel : Nat, last : Nat, delta : Nat, total : Nat]
  <1>1. counts' = [counts EXCEPT !.last = IF read THEN counts.kernel ELSE @,
                                 !.delta = Delta(read), !.total = @ + Delta(read)]
    BY DEF Observed
  <1> DEFINE last == IF read THEN counts.kernel ELSE counts.last
             delta == Delta(read)
  <1>2. delta \in Nat /\ last \in Nat /\ last <= counts.kernel /\ last <= counts.total + delta
    BY DEF Delta, Counted
  <1>3. counts' = [counts EXCEPT !.last = last, !.delta = delta, !.total = counts.total + delta]
    BY <1>1
  <1> HIDE DEF last, delta
  <1>4. counts' = [kernel |-> counts.kernel, last |-> last, delta |-> delta, total |-> counts.total + delta]
    BY <1>3
  <1> QED BY <1>2, <1>4 DEF Counted

\* What a poll leaves alone, and what it keeps.
LEMMA ObservedKeeps ==
  ASSUME NEW r, NEW read \in BOOLEAN, BoundaryInvariant, Observed(r, read),
         r.hooks \in [Index -> SUBSET Hook],
         \A i \in Index : r.hooks[i] # {} => Running /\ i \in DOMAIN r.attached /\ r.attached[i].linked,
         UNCHANGED <<net, settings, refresh, mailbox, main>>,
         NEW faults, spent' = [spent EXCEPT !.faults = faults]
  PROVE  BoundaryInvariant'
  <1>1. core' = [boundary |-> core.boundary, attached |-> r.attached, gaps |-> core'.gaps] /\ hooks' = r.hooks
    <2> DEFINE watched == Watched(r.attached, r.hooks)
               gaps == ((core.gaps \ watched) \ {StatsGap}) \cup (DOMAIN r.attached \ watched)
                         \cup (IF read THEN {} ELSE {StatsGap})
    <2>1. core' = [core EXCEPT !.attached = r.attached, !.gaps = gaps] /\ hooks' = r.hooks
      BY DEF Observed
    <2>2. core = [boundary |-> core.boundary, attached |-> core.attached, gaps |-> core.gaps]
      BY DEF BoundaryInvariant, Types
    <2> HIDE DEF gaps
    <2> QED BY <2>1, <2>2
  <1>2. spent'.astray = spent.astray /\
        spent' = [puts |-> spent'.puts, changes |-> spent'.changes, faults |-> spent'.faults,
                  astray |-> spent'.astray]
    BY DEF BoundaryInvariant, Types
  <1>3. Counted' /\ counts' \in [kernel : Nat, last : Nat, delta : Nat, total : Nat]
    BY ObservedCounts DEF BoundaryInvariant, Types
  <1>4. core'.boundary = core.boundary /\ core'.attached = r.attached
    BY <1>1
  <1>5. Types'
    BY <1>1, <1>2, <1>3, <1>4 DEF BoundaryInvariant, Types
  <1>6. Following'
    BY <1>2, <1>4 DEF BoundaryInvariant, Following, Target, Current
  <1>7. HooksAreOwned'
    BY <1>1, <1>4 DEF HooksAreOwned, Running
  <1>8. LossIsReported'
    BY ObservedTellsLoss
  <1> QED BY <1>3, <1>5, <1>6, <1>7, <1>8 DEF BoundaryInvariant

------------------------------------------------------------------------------
\* The initial states and the steps

LEMMA BoundaryStarts == ASSUME Init PROVE BoundaryInvariant
  <1> USE DEF Init
  <1>1. Types
    BY DEF Types, Boundaries, NoCore
  <1>2. Following
    BY DEF Following
  <1>3. Counted /\ HooksAreOwned /\ LossIsReported
    BY DEF Counted, HooksAreOwned, LossIsReported, NoReport
  <1> QED BY <1>1, <1>2, <1>3 DEF BoundaryInvariant

\* The network moves interfaces and takes programs away, and gives none.
LEMMA NetworkKeeps == ASSUME BoundaryInvariant, Network PROVE BoundaryInvariant'
  <1> USE DEF BoundaryInvariant
  <1>1. UNCHANGED <<settings, refresh, mailbox, main, core, report>>
    BY DEF Network, Appear, Vanish, Rename, RouteLost, Displace, Drop
  <1>2. hooks' \in [Index -> SUBSET Hook] /\ \A i \in Index : hooks'[i] \subseteq hooks[i]
    <2> USE DEF Types
    <2>1. CASE Vanish
      BY <2>1 DEF Vanish
    <2>2. CASE Displace
      BY <2>2 DEF Displace
    <2>3. CASE Appear \/ Rename \/ RouteLost \/ Drop
      BY <2>3 DEF Appear, Rename, RouteLost, Drop
    <2> QED BY <2>1, <2>2, <2>3 DEF Network
  <1>3. /\ spent'.astray = spent.astray
        /\ spent' = [puts |-> spent'.puts, changes |-> spent'.changes, faults |-> spent'.faults,
                     astray |-> spent'.astray]
    <2> USE DEF Types
    <2>1. CASE Drop
      BY <2>1 DEF Drop
    <2>2. CASE Change
      BY <2>2 DEF Change
    <2> QED BY <2>1, <2>2 DEF Network, Appear, Vanish, Rename, RouteLost, Displace
  <1>4. Counted' /\ counts' \in [kernel : Nat, last : Nat, delta : Nat, total : Nat]
    <2> USE DEF Types, Counted
    <2>1. CASE Drop
      BY <2>1 DEF Drop
    <2>2. CASE UNCHANGED counts
      BY <2>2
    <2> QED BY <2>1, <2>2 DEF Network, Appear, Vanish, Rename, RouteLost, Displace
  <1>5. Types'
    BY <1>1, <1>2, <1>3, <1>4 DEF Types
  <1>6. Following'
    BY <1>1, <1>3 DEF Following, Target, Current
  <1>7. HooksAreOwned' /\ LossIsReported'
    BY <1>1, <1>2 DEF HooksAreOwned, LossIsReported, Running
  <1> QED BY <1>4, <1>5, <1>6, <1>7

\* A call tells no one until it is sent; sent, it is the settings' or overtaken.
LEMMA ApiKeeps == ASSUME BoundaryInvariant, Api PROVE BoundaryInvariant'
  <1> USE DEF BoundaryInvariant
  <1>1. UNCHANGED <<hooks, main, core, report, counts>>
    BY DEF Api, Put, ReadSelectors, SendBoundary, HangUp
  <1>2. HooksAreOwned' /\ LossIsReported' /\ Counted'
    BY <1>1 DEF HooksAreOwned, LossIsReported, Counted, Running
  <1>3. ASSUME NEW c \in Client, Put(c) PROVE Types' /\ Following'
    <2>1. PICK names \in Choice :
            \/ /\ settings' = [memory |-> Normal(names), stored |-> Normal(names)]
               /\ refresh' = [d \in Caller |-> IF d = c THEN [refresh[c] EXCEPT !.at = "applying"]
                                              ELSE [refresh[d] EXCEPT !.late = refresh[d].at = "read"]]
               /\ spent' = [spent EXCEPT !.puts = @ + 1]
            \/ /\ settings' \in {settings, [settings EXCEPT !.stored = Normal(names)]}
               /\ spent' = [spent EXCEPT !.puts = @ + 1, !.faults = @ + 1]
               /\ UNCHANGED refresh
      BY <1>3 DEF Put
    <2>2. Normal(names) \in Boundaries /\ c \in Caller
      BY DEF Boundaries, Caller
    <2>3. mailbox' = mailbox
      BY <1>3 DEF Put
    <2>4. CASE /\ settings' = [memory |-> Normal(names), stored |-> Normal(names)]
               /\ refresh' = [d \in Caller |-> IF d = c THEN [refresh[c] EXCEPT !.at = "applying"]
                                              ELSE [refresh[d] EXCEPT !.late = refresh[d].at = "read"]]
               /\ spent' = [spent EXCEPT !.puts = @ + 1]
      <3>1. \A d \in Caller :
              /\ refresh'[d].at \in {"idle", "applying", "read"} /\ refresh'[d].names \in Boundaries
              /\ refresh'[d].late \in BOOLEAN /\ (refresh'[d].at = "read" => refresh'[d].late)
              /\ refresh'[d] = [at |-> refresh'[d].at, names |-> refresh'[d].names, late |-> refresh'[d].late]
        <4> TAKE d \in Caller
        <4>1. CASE d = c
          BY <2>4, <4>1 DEF Types
        <4>2. CASE d # c
          <5> DEFINE late == refresh[d].at = "read"
          <5>1. refresh'[d] = [at |-> refresh[d].at, names |-> refresh[d].names, late |-> late]
            BY <2>4, <4>2 DEF Types
          <5>2. /\ refresh[d].at \in {"idle", "applying", "read"} /\ refresh[d].names \in Boundaries
                /\ late \in BOOLEAN
            BY DEF Types
          <5>3. refresh[d].at = "read" => late
            OBVIOUS
          <5> HIDE DEF late
          <5> QED BY <5>1, <5>2, <5>3
        <4> QED BY <4>1, <4>2
      <3>2. refresh' \in [Caller -> [at : {"idle", "applying", "read"}, names : Boundaries, late : BOOLEAN]]
        BY <2>4, <3>1
      <3>3. Types'
        BY <1>1, <2>2, <2>3, <2>4, <3>2 DEF Types
      <3>4. refresh'[c].at = "applying"
        BY <2>2, <2>4 DEF Types
      <3>5. Following'
        BY <1>1, <2>2, <2>3, <3>1, <3>4 DEF Following, Current
      <3> QED BY <3>3, <3>5
    <2>5. CASE /\ settings' \in {settings, [settings EXCEPT !.stored = Normal(names)]}
               /\ spent' = [spent EXCEPT !.puts = @ + 1, !.faults = @ + 1]
               /\ UNCHANGED refresh
      <3>1. settings' \in [memory : Boundaries, stored : Boundaries] /\ settings'.memory = settings.memory
        BY <2>2, <2>5 DEF Types
      <3>2. /\ spent'.astray = spent.astray
            /\ spent' = [puts |-> spent'.puts, changes |-> spent'.changes, faults |-> spent'.faults,
                         astray |-> spent'.astray]
        BY <2>5 DEF Types
      <3>3. Types'
        BY <1>1, <2>3, <2>5, <3>1, <3>2 DEF Types
      <3>4. Following'
        BY <1>1, <2>3, <2>5, <3>1, <3>2 DEF Following, Target, Current
      <3> QED BY <3>3, <3>4
    <2> QED BY <2>1, <2>4, <2>5
  <1>4. ASSUME NEW c \in Caller, ReadSelectors(c) PROVE Types' /\ Following'
    <2> DEFINE answer == [at |-> "read", names |-> settings.memory, late |-> FALSE]
    <2>1. /\ refresh' = [refresh EXCEPT ![c] = answer]
          /\ UNCHANGED <<settings, mailbox, spent>>
      BY <1>4 DEF ReadSelectors
    <2>2. answer \in [at : {"idle", "applying", "read"}, names : Boundaries, late : BOOLEAN]
      BY DEF Types
    <2>3. Types'
      BY <1>1, <2>1, <2>2 DEF Types
    <2>4. refresh'[c] = answer /\ \A d \in Caller \ {c} : refresh'[d] = refresh[d]
      BY <2>1 DEF Types
    <2>5. Following'
      BY <1>1, <2>1, <2>4 DEF Following, Target, Current
    <2> QED BY <2>3, <2>5
  <1>5. ASSUME NEW c \in Caller, SendBoundary(c) PROVE Types' /\ Following'
    <2>1. /\ refresh[c].at = "read"
          /\ mailbox' = IF main.at = "serving" THEN Append(mailbox, refresh[c].names) ELSE mailbox
          /\ refresh' = [refresh EXCEPT ![c] = [at |-> "idle", names |-> @.names, late |-> FALSE]]
          /\ spent' = [spent EXCEPT !.astray = refresh[c].late]
          /\ UNCHANGED settings
      BY <1>5 DEF SendBoundary
    <2>2. refresh[c].names \in Boundaries /\ refresh[c].late \in BOOLEAN
      BY DEF Types
    <2>3. refresh' = [refresh EXCEPT ![c] = [at |-> "idle", names |-> refresh[c].names, late |-> FALSE]]
      BY <2>1 DEF Types
    <2>4. mailbox' \in Seq(Boundaries)
      BY <2>1, <2>2 DEF Types
    <2>5. /\ spent'.astray = refresh[c].late
          /\ spent' = [puts |-> spent.puts, changes |-> spent.changes, faults |-> spent.faults,
                       astray |-> spent'.astray]
      BY <2>1 DEF Types
    <2>6. Types'
      BY <1>1, <2>1, <2>2, <2>3, <2>4, <2>5 DEF Types
    <2>7. refresh'[c].at = "idle" /\ \A d \in Caller \ {c} : refresh'[d] = refresh[d]
      BY <2>3 DEF Types
    <2>8. main.at = "serving" => Target' = refresh[c].names
      <3> SUFFICES ASSUME main.at = "serving" PROVE Target' = refresh[c].names
        OBVIOUS
      <3>1. mailbox' = Append(mailbox, refresh[c].names) /\ mailbox \in Seq(Boundaries)
        BY <2>1 DEF Types
      <3>2. mailbox' # <<>> /\ mailbox'[Len(mailbox')] = refresh[c].names
        BY <2>2, <3>1
      <3> QED BY <3>2 DEF Target
    <2>9. Following'
      <3>1. main'.at # "serving" => mailbox' = <<>>
        BY <1>1, <2>1 DEF Following
      <3>2. \A d \in Caller : refresh'[d].at = "read" /\ ~refresh'[d].late => refresh'[d].names = settings'.memory
        BY <2>1, <2>7 DEF Following
      <3>3. main'.at = "serving" /\ ~spent'.astray => Target' = settings'.memory
        BY <1>1, <2>1, <2>2, <2>5, <2>8 DEF Following
      <3> QED BY <3>1, <3>2, <3>3 DEF Following
    <2> QED BY <2>6, <2>9
  <1>6. ASSUME NEW c \in Client, HangUp(c) PROVE Types' /\ Following'
    <2>1. /\ refresh' = [refresh EXCEPT ![c] = [at |-> "idle", names |-> @.names, late |-> FALSE]]
          /\ spent' = [spent EXCEPT !.faults = @ + 1, !.astray = TRUE]
          /\ UNCHANGED <<settings, mailbox>>
      BY <1>6 DEF HangUp
    <2>2. c \in Caller /\ refresh[c].names \in Boundaries
      BY DEF Types, Caller
    <2>3. refresh' = [refresh EXCEPT ![c] = [at |-> "idle", names |-> refresh[c].names, late |-> FALSE]]
      BY <2>1, <2>2 DEF Types
    <2>4. /\ spent' = [puts |-> spent'.puts, changes |-> spent'.changes, faults |-> spent'.faults,
                       astray |-> spent'.astray]
          /\ spent'.astray = TRUE
      BY <2>1 DEF Types
    <2>5. Types'
      BY <1>1, <2>1, <2>2, <2>3, <2>4 DEF Types
    <2>6. refresh'[c].at = "idle" /\ \A d \in Caller \ {c} : refresh'[d] = refresh[d]
      BY <2>2, <2>3 DEF Types
    <2>7. Following'
      BY <1>1, <2>1, <2>4, <2>6 DEF Following
    <2> QED BY <2>5, <2>7
  <1> QED BY <1>2, <1>3, <1>4, <1>5, <1>6 DEF Api

\* main opens the collector, serves, and starts again after a crash.
LEMMA DaemonKeeps == ASSUME BoundaryInvariant, Daemon PROVE BoundaryInvariant'
  <1> USE DEF BoundaryInvariant
  <1>1. CASE ReadSettings
    <2>1. /\ main.at = "booting" /\ main' = [at |-> "opening", names |-> settings.memory]
          /\ UNCHANGED <<hooks, settings, refresh, mailbox, core, report, counts, spent>>
      BY <1>1 DEF ReadSettings
    <2>2. Types'
      BY <2>1 DEF Types
    <2>3. Following'
      BY <2>1 DEF Following, Target, Current
    <2>4. HooksAreOwned' /\ LossIsReported' /\ Counted'
      BY <2>1 DEF HooksAreOwned, LossIsReported, Counted, Running
    <2> QED BY <2>2, <2>3, <2>4
  <1>2. CASE Open
    <2> DEFINE r == Reconciled(<<>>, main.names, {})
    <2>1. main.at = "opening" /\ UNCHANGED <<settings, refresh, mailbox, report, counts>>
      BY <1>2 DEF Open
    <2>2. \A i \in Index : hooks[i] = {}
      BY <2>1 DEF HooksAreOwned, Running
    <2>3. /\ r.hooks \in [Index -> SUBSET Hook]
          /\ \A i \in Index : r.hooks[i] # {} => i \in DOMAIN r.attached /\ r.attached[i].linked
      BY <2>2, ReconcileOwns DEF Types
    <2>4. CASE /\ hooks' = r.hooks
               /\ core' = [boundary |-> main.names, attached |-> r.attached, gaps |-> {}]
               /\ main' = [main EXCEPT !.at = "opened"]
               /\ UNCHANGED spent
      <3> HIDE DEF r
      <3>1. main' = [at |-> "opened", names |-> main.names] /\ main.names \in Boundaries
        BY <2>4 DEF Types
      <3>2. Types'
        BY <2>1, <2>3, <2>4, <3>1 DEF Types
      <3>3. Following'
        BY <2>1, <3>1 DEF Following, Target, Current
      <3>4. HooksAreOwned'
        BY <2>3, <2>4, <3>1 DEF HooksAreOwned, Running
      <3> QED BY <2>1, <3>2, <3>3, <3>4 DEF LossIsReported, Counted
    <2>5. CASE /\ IF Resolvable(main.names) THEN Fault /\ Wanted(main.names) # <<>> ELSE UNCHANGED spent
               /\ main' = [main EXCEPT !.at = "unavailable"]
               /\ UNCHANGED <<hooks, core>>
      <3>1. main' = [at |-> "unavailable", names |-> main.names] /\ main.names \in Boundaries
        BY <2>5 DEF Types
      <3>2. /\ spent'.astray = spent.astray
            /\ spent' = [puts |-> spent'.puts, changes |-> spent'.changes, faults |-> spent'.faults,
                         astray |-> spent'.astray]
        <4>1. Fault \/ UNCHANGED spent
          BY <2>5
        <4> QED BY <4>1 DEF Fault, Types
      <3>3. Types'
        BY <2>1, <2>5, <3>1, <3>2 DEF Types
      <3>4. Following'
        BY <2>1, <3>1 DEF Following, Target, Current
      <3>5. HooksAreOwned'
        BY <2>2, <2>5 DEF HooksAreOwned
      <3> QED BY <2>1, <3>3, <3>4, <3>5 DEF LossIsReported, Counted
    <2> QED BY <1>2, <2>4, <2>5 DEF Open
  <1>3. CASE Serve
    <2>1. /\ main.at = "opened" /\ main' = [main EXCEPT !.at = "serving"]
          /\ refresh' = [refresh EXCEPT ![Main] = [@ EXCEPT !.at = "applying"]]
          /\ UNCHANGED <<hooks, settings, mailbox, core, report, counts, spent>>
      BY <1>3 DEF Serve
    <2>2. main' = [at |-> "serving", names |-> main.names] /\ main.names \in Boundaries
      BY <2>1 DEF Types
    <2>3. Main \in Caller
      BY DEF Caller
    <2> DEFINE asked == [refresh[Main] EXCEPT !.at = "applying"]
    <2>4. /\ asked \in [at : {"idle", "applying", "read"}, names : Boundaries, late : BOOLEAN]
          /\ asked.at = "applying"
      BY <2>3 DEF Types
    <2>5. refresh' = [refresh EXCEPT ![Main] = asked]
      BY <2>1
    <2> HIDE DEF asked
    <2>6. Types'
      <3>1. refresh' \in [Caller -> [at : {"idle", "applying", "read"}, names : Boundaries, late : BOOLEAN]]
        BY <2>4, <2>5 DEF Types
      <3>2. main' \in [at : {"booting", "opening", "opened", "serving", "unavailable"}, names : Boundaries]
        BY <2>2
      <3> QED BY <2>1, <3>1, <3>2 DEF Types
    <2>7. refresh'[Main].at = "applying" /\ \A d \in Caller \ {Main} : refresh'[d] = refresh[d]
      BY <2>3, <2>4, <2>5 DEF Types
    <2>8. Following'
      BY <2>1, <2>2, <2>3, <2>7 DEF Following, Current
    <2>9. HooksAreOwned' /\ LossIsReported' /\ Counted'
      BY <2>1, <2>2 DEF HooksAreOwned, LossIsReported, Counted, Running
    <2> QED BY <2>6, <2>8, <2>9
  <1>4. CASE Restart
    <2> USE DEF Restart
    <2>1. /\ settings'.memory = settings.stored
          /\ settings' \in [memory : Boundaries, stored : Boundaries]
      BY <1>4 DEF Types
    <2>2. /\ spent' = [puts |-> spent'.puts, changes |-> spent'.changes, faults |-> spent'.faults,
                       astray |-> spent'.astray]
          /\ spent'.astray = FALSE
      BY <1>4 DEF Types
    <2>3. Types'
      <3>1. hooks' \in [Index -> SUBSET Hook] /\ mailbox' \in Seq(Boundaries)
        BY <1>4
      <3>2. <<>> \in Boundaries
        BY DEF Boundaries
      <3>3. refresh' \in [Caller -> [at : {"idle", "applying", "read"}, names : Boundaries, late : BOOLEAN]]
        BY <1>4, <3>2
      <3>4. main' \in [at : {"booting", "opening", "opened", "serving", "unavailable"}, names : Boundaries]
        BY <1>4, <3>2
      <3>5. /\ core' = [boundary |-> core'.boundary, attached |-> core'.attached, gaps |-> core'.gaps]
            /\ core'.boundary \in Boundaries
        BY <1>4, <3>2 DEF NoCore
      <3>6. counts' \in [kernel : Nat, last : Nat, delta : Nat, total : Nat]
        BY <1>4
      <3> QED BY <2>1, <2>2, <3>1, <3>3, <3>4, <3>5, <3>6 DEF Types
    <2>4. Following'
      BY <1>4 DEF Following
    <2>5. HooksAreOwned' /\ LossIsReported' /\ Counted'
      BY <1>4 DEF HooksAreOwned, LossIsReported, Counted, NoReport
    <2> QED BY <2>3, <2>4, <2>5
  <1> QED BY <1>1, <1>2, <1>3, <1>4 DEF Daemon

\* The worker serves a command, or polls with or without reconciling first.
LEMMA WorkerKeeps == ASSUME BoundaryInvariant, Worker PROVE BoundaryInvariant'
  <1> USE DEF BoundaryInvariant
  <1>1. CASE SetBoundary
    <2>1. PICK failing \in Failures(Head(mailbox)) :
            \E r \in {Reconciled(core.attached, Head(mailbox), failing)} :
              /\ core' = [core EXCEPT !.boundary = Head(mailbox), !.attached = r.attached]
              /\ hooks' = r.hooks
              /\ spent' = Charged(failing # {})
      BY <1>1 DEF SetBoundary
    <2> DEFINE r == Reconciled(core.attached, Head(mailbox), failing)
    <2>2. /\ core' = [core EXCEPT !.boundary = Head(mailbox), !.attached = r.attached]
          /\ hooks' = r.hooks
          /\ spent' = Charged(failing # {})
      BY <2>1
    <2>3. /\ Running /\ mailbox # <<>> /\ mailbox' = Tail(mailbox)
          /\ UNCHANGED <<settings, refresh, main, report, counts>>
      BY <1>1 DEF SetBoundary
    <2>4. /\ r.hooks \in [Index -> SUBSET Hook]
          /\ \A i \in Index : r.hooks[i] # {} => i \in DOMAIN r.attached /\ r.attached[i].linked
      BY ReconcileOwns DEF Types, HooksAreOwned
    <2> HIDE DEF r
    <2>5. core' = [boundary |-> Head(mailbox), attached |-> r.attached, gaps |-> core.gaps]
      BY <2>2 DEF Types
    <2>6. mailbox \in Seq(Boundaries) /\ mailbox # <<>>
      BY <2>3 DEF Types
    <2>7. Head(mailbox) \in Boundaries /\ mailbox' \in Seq(Boundaries)
      BY <2>3, <2>6
    <2>8. /\ spent'.astray = spent.astray
          /\ spent' = [puts |-> spent'.puts, changes |-> spent'.changes, faults |-> spent'.faults,
                       astray |-> spent'.astray]
      BY <2>2 DEF Types, Charged
    <2>9. Types'
      BY <2>2, <2>3, <2>4, <2>5, <2>7, <2>8 DEF Types
    <2>10. Target' = Target
      <3>1. CASE Len(mailbox) = 1
        <4>1. Len(mailbox') = 0 /\ Head(mailbox) = mailbox[1]
          BY <2>3, <2>6, <3>1
        <4>2. mailbox' = <<>> /\ Target' = core'.boundary
          BY <2>7, <4>1 DEF Target
        <4> QED BY <2>5, <2>6, <3>1, <4>1, <4>2 DEF Target
      <3>2. CASE Len(mailbox) > 1
        <4>1. Len(mailbox') = Len(mailbox) - 1 /\ Len(mailbox) \in Nat
          BY <2>3, <2>6
        <4>2. mailbox'[Len(mailbox')] = mailbox[Len(mailbox') + 1]
          BY <2>3, <2>6, <3>2, <4>1
        <4>3. mailbox' # <<>> /\ mailbox'[Len(mailbox')] = mailbox[Len(mailbox)]
          BY <3>2, <4>1, <4>2
        <4> QED BY <2>6, <4>3 DEF Target
      <3>3. Len(mailbox) = 1 \/ Len(mailbox) > 1
        <4>1. Len(mailbox) \in Nat /\ Len(mailbox) # 0
          BY <2>6, EmptySeq
        <4> QED BY <4>1
      <3> QED BY <3>1, <3>2, <3>3
    <2>11. main.at = "serving"
      BY <2>3 DEF Following
    <2>12. Following'
      BY <2>3, <2>8, <2>10, <2>11 DEF Following, Current
    <2>13. HooksAreOwned'
      BY <2>2, <2>3, <2>4, <2>5 DEF HooksAreOwned, Running
    <2>14. LossIsReported' /\ Counted'
      BY <2>3 DEF LossIsReported, Counted
    <2> QED BY <2>9, <2>12, <2>13, <2>14
  <1>2. CASE Poll
    <2> DEFINE r == [attached |-> core.attached, hooks |-> hooks]
    <2>1. PICK read \in BOOLEAN : Observed(r, read) /\ spent' = Charged(~read)
      BY <1>2 DEF Poll
    <2>2. Running /\ UNCHANGED <<net, settings, refresh, mailbox, main>>
      BY <1>2 DEF Poll
    <2>3. r.hooks \in [Index -> SUBSET Hook]
      BY DEF Types
    <2>4. \A i \in Index : r.hooks[i] # {} => Running /\ i \in DOMAIN r.attached /\ r.attached[i].linked
      BY <2>2 DEF HooksAreOwned
    <2> HIDE DEF r
    <2> QED BY <2>1, <2>2, <2>3, <2>4, ObservedKeeps DEF Charged
  <1>3. CASE PollReconciling
    <2>1. PICK failing \in Failures(core.boundary) :
            /\ spent' = Charged(failing # {})
            /\ Observed(Reconciled(core.attached, core.boundary, failing), TRUE)
      BY <1>3 DEF PollReconciling
    <2> DEFINE r == Reconciled(core.attached, core.boundary, failing)
    <2>2. Running /\ UNCHANGED <<net, settings, refresh, mailbox, main>>
      BY <1>3 DEF PollReconciling
    <2>3. /\ r.hooks \in [Index -> SUBSET Hook]
          /\ \A i \in Index : r.hooks[i] # {} => i \in DOMAIN r.attached /\ r.attached[i].linked
      BY ReconcileOwns DEF Types, HooksAreOwned
    <2>4. Observed(r, TRUE)
      BY <2>1
    <2> HIDE DEF r
    <2> QED BY <2>1, <2>2, <2>3, <2>4, ObservedKeeps DEF Charged
  <1> QED BY <1>1, <1>2, <1>3 DEF Worker

------------------------------------------------------------------------------
\* The theorems

\* The inductive invariant: who is on the way to the worker with the boundary of
\* the settings (refresh_boundary, set_boundary), whose programs run (reconcile),
\* and what the counters add up to (record_kernel).
THEOREM BoundaryKeeps == Spec => []BoundaryInvariant
  <1>1. Init => BoundaryInvariant
    BY BoundaryStarts
  <1>2. BoundaryInvariant /\ [Next]_vars => BoundaryInvariant'
    <2> SUFFICES ASSUME BoundaryInvariant, [Next]_vars PROVE BoundaryInvariant'
      OBVIOUS
    <2>1. CASE UNCHANGED vars
      BY <2>1 DEF vars, BoundaryInvariant, Types, Following, Target, Current, Counted, HooksAreOwned,
                  Running, LossIsReported
    <2> QED BY <2>1, NetworkKeeps, ApiKeeps, DaemonKeeps, WorkerKeeps DEF Next
  <1> QED BY <1>1, <1>2, PTL DEF Spec

\* No program is left on an interface the collector has let go, for any network
\* and any attachments that fail (reconcile, attach_interfaces).
THEOREM BoundaryHooksAreOwned == Spec => []HooksAreOwned
  <1>1. BoundaryInvariant => HooksAreOwned
    BY DEF BoundaryInvariant
  <1> QED BY <1>1, BoundaryKeeps, PTL

\* No batch says "running" that missed a program (attachment_health, poll_once).
THEOREM BoundaryLossIsReported == Spec => []LossIsReported
  <1>1. BoundaryInvariant => LossIsReported
    BY DEF BoundaryInvariant
  <1> QED BY <1>1, BoundaryKeeps, PTL

\* A settled worker has the boundary of the settings, unless the last
\* call to end was overtaken or dropped with its client (refresh_boundary,
\* put_settings).
THEOREM BoundaryIsFollowed == Spec => []BoundaryFollows
  <1>1. BoundaryInvariant => BoundaryFollows
    BY DEF BoundaryInvariant, Following, Target, Current, BoundaryFollows, Settled
  <1> QED BY <1>1, BoundaryKeeps, PTL

\* Drops that were read are in the total (record_kernel, ingest_batch).
THEOREM BoundaryDropsKept == Spec => []DropsKept
  <1>1. BoundaryInvariant => DropsKept
    BY DEF BoundaryInvariant, Types, Counted, DropsKept
  <1> QED BY <1>1, BoundaryKeeps, PTL
=============================================================================
