--------------------------- MODULE FlowQueriesProofs ---------------------------
(***************************************************************************)
(* Exports recover from the ids of an earlier process, an overview that is *)
(* served from the cache is current, a timeline is whole and the lists add *)
(* up, for any stores, tables and number of exports that were left.        *)
(*                                                                         *)
(* That creations fail at most as often as there were exports says nothing *)
(* of the step to come.  What is kept is that the failures so far and the  *)
(* exports still ahead of the counter are together no more than there were *)
(* at the start: each failure moves the counter past one of them, and no   *)
(* new export lands ahead of it.  Of a page it is kept that it describes   *)
(* the store of the moment it was made in, as long as it is young.         *)
(*                                                                         *)
(* A timeline is whole because each bucket that retention must keep holds  *)
(* the bytes of exactly the times it covers (BucketsAreExact): a timeline  *)
(* begins no earlier than that, and its buckets part the times.            *)
(* The lists add up in every store of well-formed tables.  A group is      *)
(* summed over the flows that share its name, so groups add up by parts;   *)
(* a split that is cut off keeps the greatest of a total order and says    *)
(* so; and a filter on state or service takes a connection whole.         *)
(***************************************************************************)
EXTENDS FlowQueries, FiniteSetTheorems, TLAPS

Ahead == {id \in DOMAIN exports : id > mem.counter}

ExportsInvariant ==
  /\ "counter" \in DOMAIN mem /\ mem.counter \in Nat
  /\ DOMAIN exports \subseteq Nat /\ IsFiniteSet(DOMAIN exports)
  /\ failed \in Nat /\ kept \in Nat
  /\ failed + Cardinality(Ahead) <= kept

\* A part of the exports is not larger than they are.
LEMMA AheadIsFinite ==
  ASSUME IsFiniteSet(DOMAIN exports)
  PROVE  IsFiniteSet(Ahead) /\ Cardinality(Ahead) \in Nat /\ Cardinality(Ahead) <= Cardinality(DOMAIN exports)
  <1>1. Ahead \subseteq DOMAIN exports
    BY DEF Ahead
  <1> QED BY <1>1, FS_Subset, FS_CardinalityType

LEMMA ExportsStart == ASSUME Init PROVE ExportsInvariant
  <1>1. PICK S \in SUBSET (1..MaxKept) : exports \in [S -> {0}]
    BY DEF Init
  <1>2. DOMAIN exports = S /\ IsFiniteSet(S) /\ S \subseteq Nat
    <2>1. MaxKept \in Int
      BY QueriesAssumption
    <2>2. IsFiniteSet(1..MaxKept)
      BY <2>1, FS_Interval
    <2>3. IsFiniteSet(S)
      BY <2>2, FS_Subset
    <2> QED BY <1>1, <2>1, <2>3
  <1>3. mem = [batchAt |-> None, rate |-> 0, policyAt |-> None, counter |-> 0]
    BY DEF Init, Started
  <1>4. kept = Cardinality(DOMAIN exports) /\ failed = 0
    BY DEF Init
  <1> QED BY <1>2, <1>3, <1>4, AheadIsFinite, FS_CardinalityType DEF ExportsInvariant

\* Steps that create no export and move no counter.
LEMMA ExportsShrink ==
  ASSUME ExportsInvariant, "counter" \in DOMAIN mem', mem'.counter = mem.counter,
         DOMAIN exports' \subseteq DOMAIN exports, failed' = failed, kept' = kept
  PROVE  ExportsInvariant'
  <1>1. Ahead' \subseteq Ahead
    BY DEF Ahead
  <1>2. IsFiniteSet(DOMAIN exports') /\ IsFiniteSet(Ahead) /\ Cardinality(Ahead) \in Nat
    BY FS_Subset, AheadIsFinite DEF ExportsInvariant
  <1>3. Cardinality(Ahead') <= Cardinality(Ahead) /\ Cardinality(Ahead') \in Nat
    BY <1>1, <1>2, FS_Subset, FS_CardinalityType
  <1> QED BY <1>2, <1>3 DEF ExportsInvariant

LEMMA ExportsStep == ASSUME ExportsInvariant, [Next]_vars PROVE ExportsInvariant'
  <1>1. CASE \E S \in SUBSET Flow, ended \in SUBSET Flow, outcome \in {"none", "rows", "all"} :
               Ingest(S, ended, outcome)
    BY <1>1, ExportsShrink DEF Ingest, Stored, ExportsInvariant
  <1>2. CASE QuietBatch \/ Pass \/ GetOverview \/ SaveSettings
    BY <1>2, ExportsShrink DEF QuietBatch, Pass, GetOverview, SaveSettings, ExportsInvariant, data
  <1>3. CASE ClearHistory
    BY <1>3, ExportsShrink DEF ClearHistory, ExportsInvariant
  <1>4. CASE DeleteExport
    <2>1. PICK id \in DOMAIN exports : exports' = Restrict(exports, DOMAIN exports \ {id})
      BY <1>4 DEF DeleteExport
    <2>2. DOMAIN exports' \subseteq DOMAIN exports
      BY <2>1 DEF Restrict
    <2> QED BY <1>4, <2>2, ExportsShrink DEF DeleteExport, ExportsInvariant
  <1>5. CASE CreateExport
    <2> DEFINE id == mem.counter + 1
    <2>1. /\ id \in Nat /\ mem' = [mem EXCEPT !.counter = id] /\ kept' = kept
          /\ "counter" \in DOMAIN mem' /\ mem'.counter = id
      BY <1>5 DEF CreateExport, ExportsInvariant
    <2>2. IsFiniteSet(Ahead) /\ Cardinality(Ahead) \in Nat
      BY AheadIsFinite DEF ExportsInvariant
    <2>3. CASE id \in DOMAIN exports
      <3>1. failed' = failed + 1 /\ exports' = exports
        BY <1>5, <2>3 DEF CreateExport
      <3>2. Ahead' = Ahead \ {id} /\ id \in Ahead
        BY <2>1, <2>3, <3>1 DEF Ahead, ExportsInvariant
      <3>3. Cardinality(Ahead') = Cardinality(Ahead) - 1
        BY <2>2, <3>2, FS_RemoveElement
      <3> QED BY <2>1, <2>2, <3>1, <3>3 DEF ExportsInvariant
    <2>4. CASE id \notin DOMAIN exports
      <3>1. failed' = failed /\ DOMAIN exports' = DOMAIN exports \cup {id}
        BY <1>5, <2>4 DEF CreateExport, Over
      <3>2. Ahead' = Ahead
        BY <2>1, <2>4, <3>1 DEF Ahead, ExportsInvariant
      <3>3. IsFiniteSet(DOMAIN exports')
        BY <3>1, FS_AddElement DEF ExportsInvariant
      <3> QED BY <2>1, <3>1, <3>2, <3>3 DEF ExportsInvariant
    <2> QED BY <2>3, <2>4
  <1>6. CASE Restart
    <2>1. /\ mem' = [batchAt |-> None, rate |-> 0, policyAt |-> None, counter |-> 0]
          /\ failed' = 0 /\ kept' = Cardinality(DOMAIN exports) /\ exports' = exports
      BY <1>6 DEF Restart, Started, data
    <2>2. IsFiniteSet(DOMAIN exports') /\ Cardinality(DOMAIN exports) \in Nat
      BY <2>1, FS_CardinalityType DEF ExportsInvariant
    <2>3. Ahead' \subseteq DOMAIN exports
      BY <2>1 DEF Ahead
    <2>4. Cardinality(Ahead') \in Nat /\ Cardinality(Ahead') <= Cardinality(DOMAIN exports)
      BY <2>3, FS_Subset, FS_CardinalityType DEF ExportsInvariant
    <2> QED BY <2>1, <2>2, <2>4 DEF ExportsInvariant
  <1>7. CASE UNCHANGED vars
    BY <1>7, ExportsShrink DEF vars, data, ExportsInvariant
  <1> QED BY <1>1, <1>2, <1>3, <1>4, <1>5, <1>6, <1>7 DEF Next

\* Creating an export fails at most once for each export an earlier process left
\* (db.rs create_export, the counter of the process against the stored ids).
THEOREM QueriesExportsRecover == Spec => []ExportsRecover
  <1>1. Init => ExportsInvariant
    BY ExportsStart
  <1>2. ExportsInvariant /\ [Next]_vars => ExportsInvariant'
    BY ExportsStep
  <1>3. ExportsInvariant => ExportsRecover
    BY AheadIsFinite DEF ExportsInvariant, ExportsRecover
  <1> QED BY <1>1, <1>2, <1>3, PTL DEF Spec

------------------------------------------------------------------------------
\* A young page is of a store as old as itself, and the store there is now is
\* one an overview may describe.
PagesInvariant ==
  /\ now \in Int
  /\ {"batchAt", "rate"} \subseteq DOMAIN mem
  /\ Store \in recent
  /\ \A k \in DOMAIN pages : pages[k].at \in Int
  /\ \A k \in DOMAIN pages : Young(k) =>
       \E s \in recent : s.at = pages[k].at /\ pages[k].page = Page(s, k)

\* Where nothing but the stores changes, or only more of them may be described.
LEMMA PagesStay ==
  ASSUME PagesInvariant, pages' = pages, now' = now, recent \subseteq recent',
         {"batchAt", "rate"} \subseteq DOMAIN mem', Store' \in recent'
  PROVE  PagesInvariant'
  <1>1. \A k : Young(k)' <=> Young(k)
    BY DEF Young
  <1> QED BY <1>1 DEF PagesInvariant

\* Where the pages are dropped.
LEMMA PagesDropped ==
  ASSUME PagesInvariant, pages' = <<>>, now' = now, recent' = {Store'},
         {"batchAt", "rate"} \subseteq DOMAIN mem'
  PROVE  PagesInvariant'
  <1>1. DOMAIN pages' = {}
    OBVIOUS
  <1> QED BY <1>1 DEF PagesInvariant

LEMMA PagesStep == ASSUME PagesInvariant, [Next]_vars PROVE PagesInvariant'
  <1> USE QueriesAssumption
  <1>m. {"batchAt", "rate"} \subseteq DOMAIN mem
    BY DEF PagesInvariant
  <1>1. CASE \E S \in SUBSET Flow, ended \in SUBSET Flow, outcome \in {"none", "rows", "all"} :
               Ingest(S, ended, outcome)
    BY <1>m, <1>1, PagesDropped DEF Ingest, Stored, Invalidate
  <1>2. CASE ClearHistory \/ SaveSettings
    BY <1>m, <1>2, PagesDropped DEF ClearHistory, SaveSettings, Invalidate
  <1>3. CASE QuietBatch
    BY <1>m, <1>3, PagesStay DEF QuietBatch, Silently
  <1>4. CASE Restart
    <2>1. {"batchAt", "rate"} \subseteq DOMAIN mem'
      BY <1>4 DEF Restart, Started
    <2> QED BY <1>4, <2>1, PagesDropped DEF Restart
  <1>5. CASE CreateExport
    <2>1. mem' = [mem EXCEPT !.counter = mem.counter + 1]
          /\ UNCHANGED <<now, rows, buckets, pages, recent>>
      BY <1>5 DEF CreateExport
    <2>2. DOMAIN mem' = DOMAIN mem /\ mem'.rate = mem.rate /\ mem'.batchAt = mem.batchAt
      BY <1>m, <2>1
    <2>3. Store' = Store
      BY <2>1, <2>2 DEF Store
    <2> QED BY <1>m, <2>1, <2>2, <2>3, PagesStay DEF PagesInvariant
  <1>6. CASE DeleteExport \/ UNCHANGED vars
    <2>1. UNCHANGED <<now, rows, buckets, mem, pages, recent>>
      BY <1>6 DEF DeleteExport, vars, data
    <2> QED BY <1>m, <2>1, PagesStay DEF PagesInvariant, Store
  <1>7. CASE Pass
    <2>1. /\ now' = now + 1 /\ UNCHANGED <<mem, pages>>
          /\ recent' = {s \in recent : now' - s.at < PageTtl} \cup {Store'}
      BY <1>7 DEF Pass
    <2>2. now \in Int /\ \A k \in DOMAIN pages : pages[k].at \in Int
      BY DEF PagesInvariant
    <2>3. ASSUME NEW k \in DOMAIN pages, Young(k)'
          PROVE  \E s \in recent' : s.at = pages[k].at /\ pages[k].page = Page(s, k)
      <3>0. pages[k].at \in Int
        BY <2>2
      <3>1. now' - pages[k].at < PageTtl
        BY <2>1, <2>3 DEF Young
      <3>2. Young(k)
        BY <2>1, <2>2, <2>3, <3>0, <3>1 DEF Young
      <3>3. PICK s \in recent : s.at = pages[k].at /\ pages[k].page = Page(s, k)
        BY <3>2 DEF PagesInvariant
      <3>4. s \in recent'
        BY <2>1, <3>1, <3>3
      <3> QED BY <3>3, <3>4
    <2>4. now' \in Int /\ Store' \in recent'
      BY <2>1, <2>2
    <2> QED BY <1>m, <2>1, <2>2, <2>3, <2>4 DEF PagesInvariant
  <1>8. CASE GetOverview
    <2>1. /\ UNCHANGED <<now, rows, buckets, mem, recent>>
          /\ \E k \in TimeRange :
               LET others == IF Cardinality(DOMAIN pages) >= PageCapacity THEN {}
                             ELSE DOMAIN pages
               IN pages' = [j \in {k} \cup others |->
                              IF j = k THEN [at |-> now, page |-> Page(Store, k)]
                              ELSE pages[j]]
      BY <1>8 DEF GetOverview, data
    <2>2. PICK k \in TimeRange, others \in SUBSET DOMAIN pages :
            pages' = [j \in {k} \cup others |->
                        IF j = k THEN [at |-> now, page |-> Page(Store, k)] ELSE pages[j]]
      BY <2>1
    <2>3. PICK s \in recent : s = Store
      BY DEF PagesInvariant
    <2>4. /\ DOMAIN pages' = {k} \cup others
          /\ pages'[k].at = now /\ pages'[k].page = Page(s, k)
          /\ \A j \in others \ {k} : pages'[j] = pages[j]
      BY <2>2, <2>3
    <2>5. Store' = Store /\ s.at = now
      BY <2>1, <2>3 DEF Store
    <2>6. ASSUME NEW j \in DOMAIN pages', Young(j)'
          PROVE  \E x \in recent : x.at = pages'[j].at /\ pages'[j].page = Page(x, j)
      <3>1. CASE j = k
        BY <2>4, <2>5, <3>1
      <3>2. CASE j # k
        <4>1. j \in DOMAIN pages /\ pages'[j] = pages[j]
          BY <2>4, <2>6, <3>2
        <4>2. Young(j)
          BY <2>1, <2>6, <4>1 DEF Young
        <4> QED BY <4>1, <4>2 DEF PagesInvariant
      <3> QED BY <3>1, <3>2
    <2>7. \A j \in DOMAIN pages' : pages'[j].at \in Int
      BY <2>4 DEF PagesInvariant
    <2> QED BY <1>m, <2>1, <2>5, <2>6, <2>7 DEF PagesInvariant
  <1> QED BY <1>1, <1>2, <1>3, <1>4, <1>5, <1>6, <1>7, <1>8 DEF Next

\* An overview that is still given out is the page of a store the daemon had
\* within the time to live of the cache, and of none that a batch, a cleared
\* history or a saved setting replaced (db.rs overview_pages).
THEOREM QueriesOverviewIsCurrent == Spec => []OverviewIsCurrent
  <1>1. Init => PagesInvariant
    <2> SUFFICES ASSUME Init PROVE PagesInvariant
      OBVIOUS
    <2>1. DOMAIN pages = {} /\ {"batchAt", "rate"} \subseteq DOMAIN mem
      BY DEF Init, Started
    <2> QED BY <2>1 DEF Init, PagesInvariant
  <1>2. PagesInvariant /\ [Next]_vars => PagesInvariant'
    BY PagesStep
  <1>3. PagesInvariant => OverviewIsCurrent
    BY DEF PagesInvariant, OverviewIsCurrent, Young
  <1> QED BY <1>1, <1>2, <1>3, PTL DEF Spec

------------------------------------------------------------------------------
\* Sums over finite sets, as in FlowStoreProofs.  The library's induction takes
\* an operator; here a set of counterexamples takes its place, which has a
\* smallest member.
SumOf(fn, K) == SumFunctionOnSet(fn, K \cap DOMAIN fn)

LEMMA SmallestSubset ==
  ASSUME NEW S, IsFiniteSet(S), NEW C \in SUBSET (SUBSET S), C # {}
  PROVE  \E t \in C : \A u \in C : u \subseteq t => u = t
  <1>1. C \subseteq FiniteSubsetsOf(S)
    BY FS_Subset DEF FiniteSubsetsOf
  <1>2. PICK t \in C : \A u \in C : ~(<<u, t>> \in StrictSubsetOrdering(S))
    BY <1>1, FS_StrictSubsetOrderingWellFounded, WFMin
  <1>3. ASSUME NEW u \in C, u \subseteq t, u # t PROVE FALSE
    <2> DEFINE p == <<u, t>>
    <2>1. p \in (SUBSET S) \X (SUBSET S) /\ p[1] \subseteq p[2] /\ p[1] # p[2]
      BY <1>3
    <2> HIDE DEF p
    <2>2. p \in StrictSubsetOrdering(S)
      BY <2>1 DEF StrictSubsetOrdering
    <2>3. p = <<u, t>>
      BY DEF p
    <2> QED BY <1>2, <2>2, <2>3
  <1> QED BY <1>2, <1>3

LEMMA LeastNumber ==
  ASSUME NEW T \in SUBSET Nat, T # {}
  PROVE  \E x \in T : \A y \in T : x <= y
  <1> DEFINE R == {p \in Nat \X Nat : p[1] < p[2]}
  <1>1. OpToRel(<, Nat) = R
    BY DEF OpToRel
  <1>2. IsWellFoundedOn(R, Nat)
    BY <1>1, NatLessThanWellFounded
  <1>3. PICK x \in T : \A y \in T : ~(<<y, x>> \in R)
    <2> HIDE DEF R
    <2> QED BY <1>2, WFMin
  <1>4. ASSUME NEW y \in T PROVE x <= y
    <2>1. <<y, x>> \in Nat \X Nat /\ <<y, x>>[1] = y /\ <<y, x>>[2] = x /\ y \in Nat /\ x \in Nat
      OBVIOUS
    <2>2. y < x => <<y, x>> \in R
      BY <2>1
    <2> HIDE DEF R
    <2> QED BY <1>3, <2>1, <2>2
  <1> QED BY <1>4

LEMMA EveryNumber ==
  ASSUME NEW T \in SUBSET Nat, 0 \in T, \A n \in Nat : n \in T => n + 1 \in T
  PROVE  T = Nat
  <1>1. SUFFICES ASSUME Nat \ T # {} PROVE FALSE
    OBVIOUS
  <1>2. PICK x \in Nat \ T : \A y \in Nat \ T : x <= y
    BY <1>1, LeastNumber
  <1>3. x # 0 /\ x - 1 \in Nat /\ (x - 1) + 1 = x
    BY <1>2
  <1> QED BY <1>2, <1>3

\* g adds up fn over each of the sets in D.
First(s) == CHOOSE x \in s : TRUE
Adds(g, fn, D) ==
  \A s \in D : g[s] = IF s = {} THEN 0 ELSE fn[First(s)] + g[s \ {First(s)}]

LEMMA FirstIsIn == \A s : s # {} => First(s) \in s
  BY DEF First

Small(K, n) == {s \in SUBSET K : Cardinality(s) <= n}

Sums(g, fn, K) == g = [s \in SUBSET K |-> IF s = {} THEN 0 ELSE fn[First(s)] + g[s \ {First(s)}]]

LEMMA SumsExist ==
  ASSUME NEW K, IsFiniteSet(K), NEW fn
  PROVE  \E g : Sums(g, fn, K)
  <1> DEFINE T == {n \in Nat : \E g : Adds(g, fn, Small(K, n))}
  <1>1. \A s \in SUBSET K : IsFiniteSet(s) /\ Cardinality(s) \in Nat /\ Cardinality(s) <= Cardinality(K)
    BY FS_Subset, FS_CardinalityType
  <1>2. \A n \in Nat : \A s \in Small(K, n + 1) : s # {} => s \ {First(s)} \in Small(K, n)
    <2> SUFFICES ASSUME NEW n \in Nat, NEW s \in Small(K, n + 1), s # {}
                 PROVE  s \ {First(s)} \in Small(K, n)
      OBVIOUS
    <2>1. s \in SUBSET K /\ Cardinality(s) <= n + 1 /\ IsFiniteSet(s) /\ Cardinality(s) \in Nat
      BY <1>1 DEF Small
    <2>2. Cardinality(s \ {First(s)}) = Cardinality(s) - 1
      BY <2>1, FirstIsIn, FS_RemoveElement
    <2> QED BY <2>1, <2>2 DEF Small
  <1>3. 0 \in T
    <2>1. \A s \in Small(K, 0) : s = {}
      BY <1>1, FS_EmptySet DEF Small
    <2>2. Adds([s \in {{}} |-> 0], fn, Small(K, 0))
      BY <2>1 DEF Adds
    <2> QED BY <2>2
  <1>4. ASSUME NEW n \in Nat, n \in T PROVE n + 1 \in T
    <2>1. PICK g : Adds(g, fn, Small(K, n))
      BY <1>4
    <2> DEFINE h == [s \in Small(K, n + 1) |->
                       IF s = {} THEN 0 ELSE fn[First(s)] + g[s \ {First(s)}]]
    <2>2. Small(K, n) \subseteq Small(K, n + 1)
      BY <1>1 DEF Small
    <2>3. \A s \in Small(K, n) : h[s] = g[s]
      BY <2>1, <2>2 DEF Adds
    <2>4. ASSUME NEW s \in Small(K, n + 1)
          PROVE  h[s] = IF s = {} THEN 0 ELSE fn[First(s)] + h[s \ {First(s)}]
      BY <1>2, <2>3
    <2>5. Adds(h, fn, Small(K, n + 1))
      BY <2>4 DEF Adds
    <2> QED BY <2>5
  <1>5. T = Nat
    <2> HIDE DEF T
    <2>1. T \in SUBSET Nat
      BY DEF T
    <2> QED BY <1>3, <1>4, <2>1, EveryNumber
  <1>6. Cardinality(K) \in Nat /\ Small(K, Cardinality(K)) = SUBSET K
    BY <1>1, FS_CardinalityType DEF Small
  <1>7. PICK g : Adds(g, fn, SUBSET K)
    <2>1. Cardinality(K) \in T
      <3> HIDE DEF T
      <3> QED BY <1>5, <1>6
    <2> QED BY <1>6, <2>1
  <1> DEFINE h == [s \in SUBSET K |-> g[s]]
  <1>8. ASSUME NEW s \in SUBSET K
        PROVE  h[s] = IF s = {} THEN 0 ELSE fn[First(s)] + h[s \ {First(s)}]
    BY <1>7 DEF Adds
  <1>9. Sums(h, fn, K)
    <2> HIDE DEF h
    <2>1. h = [s \in SUBSET K |-> h[s]]
      BY DEF h
    <2> QED BY <1>8, <2>1 DEF Sums
  <1> QED BY <1>9

\* The fold of SumFunctionOnSet is such a sum.
LEMMA SumIs ==
  ASSUME NEW K, IsFiniteSet(K), NEW fn
  PROVE  \E g : Adds(g, fn, SUBSET K) /\ SumFunctionOnSet(fn, K) = g[K]
  <1> DEFINE g0 == CHOOSE g : Sums(g, fn, K)
  <1>1. Sums(g0, fn, K)
    BY SumsExist
  <1>2. SumFunctionOnSet(fn, K) = g0[K]
    BY DEF SumFunctionOnSet, FoldFunctionOnSet, MapThenFoldSet, Sums, First
  <1>3. Adds(g0, fn, SUBSET K)
    <2>1. ASSUME NEW s \in SUBSET K
          PROVE  g0[s] = IF s = {} THEN 0 ELSE fn[First(s)] + g0[s \ {First(s)}]
      <3> HIDE DEF g0
      <3> QED BY <1>1 DEF Sums
    <2> QED BY <2>1 DEF Adds
  <1> QED BY <1>2, <1>3

\* Any two of them agree, and any element may be taken first.
LEMMA AddsUnique ==
  ASSUME NEW K, IsFiniteSet(K), NEW L, K \subseteq L, NEW fn, NEW g, NEW h,
         Adds(g, fn, SUBSET K), Adds(h, fn, SUBSET L)
  PROVE  \A t \in SUBSET K : g[t] = h[t]
  <1> DEFINE C == {t \in SUBSET K : g[t] # h[t]}
  <1>1. SUFFICES ASSUME C # {} PROVE FALSE
    OBVIOUS
  <1>2. PICK t \in C : \A u \in C : u \subseteq t => u = t
    <2>1. C \in SUBSET (SUBSET K)
      OBVIOUS
    <2> HIDE DEF C
    <2> QED BY <1>1, <2>1, SmallestSubset
  <1>3. t \in SUBSET K /\ t \in SUBSET L /\ g[t] # h[t]
    BY <1>2
  <1>4. t # {}
    BY <1>3 DEF Adds
  <1>5. First(t) \in t /\ t \ {First(t)} \in SUBSET K /\ t \ {First(t)} # t
    BY <1>3, <1>4, FirstIsIn
  <1>6. g[t \ {First(t)}] = h[t \ {First(t)}]
    BY <1>2, <1>5
  <1> QED BY <1>3, <1>4, <1>5, <1>6 DEF Adds

LEMMA AddsNat ==
  ASSUME NEW K, IsFiniteSet(K), NEW fn, \A k \in K : fn[k] \in Nat, NEW g, Adds(g, fn, SUBSET K)
  PROVE  \A t \in SUBSET K : g[t] \in Nat
  <1> DEFINE C == {t \in SUBSET K : g[t] \notin Nat}
  <1>1. SUFFICES ASSUME C # {} PROVE FALSE
    OBVIOUS
  <1>2. PICK t \in C : \A u \in C : u \subseteq t => u = t
    <2>1. C \in SUBSET (SUBSET K)
      OBVIOUS
    <2> HIDE DEF C
    <2> QED BY <1>1, <2>1, SmallestSubset
  <1>3. t \in SUBSET K /\ g[t] \notin Nat
    BY <1>2
  <1>4. t # {}
    BY <1>3 DEF Adds
  <1>5. First(t) \in t /\ t \ {First(t)} \in SUBSET K /\ t \ {First(t)} # t
    BY <1>3, <1>4, FirstIsIn
  <1>6. g[t \ {First(t)}] \in Nat /\ fn[First(t)] \in Nat
    BY <1>2, <1>3, <1>5
  <1> QED BY <1>3, <1>4, <1>6 DEF Adds

LEMMA AddsAny ==
  ASSUME NEW K, IsFiniteSet(K), NEW fn, \A k \in K : fn[k] \in Nat, NEW g, Adds(g, fn, SUBSET K)
  PROVE  \A t \in SUBSET K : \A x \in t : g[t] = fn[x] + g[t \ {x}]
  <1> DEFINE C == {t \in SUBSET K : \E x \in t : g[t] # fn[x] + g[t \ {x}]}
  <1>1. SUFFICES ASSUME C # {} PROVE FALSE
    OBVIOUS
  <1>2. PICK t \in C : \A u \in C : u \subseteq t => u = t
    <2>1. C \in SUBSET (SUBSET K)
      OBVIOUS
    <2> HIDE DEF C
    <2> QED BY <1>1, <2>1, SmallestSubset
  <1>3. PICK x \in t : g[t] # fn[x] + g[t \ {x}]
    BY <1>2
  <1>4. t \in SUBSET K
    BY <1>2
  <1> DEFINE c == First(t)
             both == (t \ {c}) \ {x}
  <1>5. c \in t
    BY <1>3, FirstIsIn
  <1>6. g[t] = fn[c] + g[t \ {c}]
    BY <1>3, <1>4 DEF Adds
  <1>7. c # x
    BY <1>3, <1>6
  <1>8. \A u \in SUBSET t : u # t => u \notin C
    BY <1>2
  <1>9. g[t \ {c}] = fn[x] + g[both]
    <2>1. t \ {c} \in SUBSET K /\ t \ {c} # t /\ x \in t \ {c}
      BY <1>3, <1>4, <1>5, <1>7
    <2> QED BY <1>8, <2>1
  <1>10. g[t \ {x}] = fn[c] + g[both]
    <2>1. t \ {x} \in SUBSET K /\ t \ {x} # t /\ c \in t \ {x} /\ (t \ {x}) \ {c} = both
      BY <1>3, <1>4, <1>5, <1>7
    <2>2. g[t \ {x}] = fn[c] + g[(t \ {x}) \ {c}]
      BY <1>8, <2>1
    <2> HIDE DEF both
    <2> QED BY <2>1, <2>2
  <1>11. both \in SUBSET K
    BY <1>4
  <1>12. g[both] \in Nat /\ fn[c] \in Nat /\ fn[x] \in Nat
    BY <1>3, <1>4, <1>5, <1>11, AddsNat
  <1> HIDE DEF c, both
  <1> QED BY <1>3, <1>6, <1>9, <1>10, <1>12

\* What SumFunctionOnSet computes.
LEMMA SumLaws ==
  ASSUME NEW K, IsFiniteSet(K), NEW fn, \A k \in K : fn[k] \in Nat
  PROVE  /\ SumFunctionOnSet(fn, {}) = 0
         /\ \A t \in SUBSET K : SumFunctionOnSet(fn, t) \in Nat
         /\ \A t \in SUBSET K : \A x \in t :
              SumFunctionOnSet(fn, t) = fn[x] + SumFunctionOnSet(fn, t \ {x})
  <1>1. PICK g : Adds(g, fn, SUBSET K)
    BY SumIs
  <1>2. \A t \in SUBSET K : SumFunctionOnSet(fn, t) = g[t]
    <2> SUFFICES ASSUME NEW t \in SUBSET K PROVE SumFunctionOnSet(fn, t) = g[t]
      OBVIOUS
    <2>1. IsFiniteSet(t)
      BY FS_Subset
    <2>2. PICK h : Adds(h, fn, SUBSET t) /\ SumFunctionOnSet(fn, t) = h[t]
      BY <2>1, SumIs
    <2> QED BY <1>1, <2>1, <2>2, AddsUnique
  <1>3. g[{}] = 0
    BY <1>1 DEF Adds
  <1>4. \A t \in SUBSET K : g[t] \in Nat
    BY <1>1, AddsNat
  <1>5. \A t \in SUBSET K : \A x \in t : g[t] = fn[x] + g[t \ {x}]
    <2> SUFFICES ASSUME NEW t \in SUBSET K, NEW x \in t PROVE g[t] = fn[x] + g[t \ {x}]
      OBVIOUS
    <2> QED BY <1>1, AddsAny
  <1>6. \A t \in SUBSET K : \A x \in t : t \ {x} \in SUBSET K
    OBVIOUS
  <1>7. {} \in SUBSET K
    OBVIOUS
  <1>8. SumFunctionOnSet(fn, {}) = 0
    BY <1>2, <1>3, <1>7
  <1>9. \A t \in SUBSET K : SumFunctionOnSet(fn, t) \in Nat
    BY <1>2, <1>4
  <1>10. \A t \in SUBSET K : \A x \in t :
           SumFunctionOnSet(fn, t) = fn[x] + SumFunctionOnSet(fn, t \ {x})
    BY <1>2, <1>5, <1>6
  <1> QED BY <1>8, <1>9, <1>10

Counts(fn) == IsFiniteSet(DOMAIN fn) /\ \A k \in DOMAIN fn : fn[k] \in Nat
At(fn, k) == IF k \in DOMAIN fn THEN fn[k] ELSE 0

LEMMA SumOfLaws ==
  ASSUME NEW fn, Counts(fn), NEW K
  PROVE  /\ SumOf(fn, K) \in Nat
         /\ K \cap DOMAIN fn = {} => SumOf(fn, K) = 0
         /\ \A x \in K : SumOf(fn, K) = At(fn, x) + SumOf(fn, K \ {x})
         /\ \A L : K \cap DOMAIN fn = L \cap DOMAIN fn => SumOf(fn, K) = SumOf(fn, L)
  <1> DEFINE D == DOMAIN fn
             t == K \cap D
  <1>1. IsFiniteSet(D) /\ \A k \in D : fn[k] \in Nat
    BY DEF Counts
  <1>2. t \in SUBSET D /\ SumOf(fn, K) = SumFunctionOnSet(fn, t)
    BY DEF SumOf
  <1>3. /\ SumFunctionOnSet(fn, {}) = 0
        /\ \A u \in SUBSET D : SumFunctionOnSet(fn, u) \in Nat
        /\ \A u \in SUBSET D : \A x \in u :
             SumFunctionOnSet(fn, u) = fn[x] + SumFunctionOnSet(fn, u \ {x})
    <2> HIDE DEF D
    <2> QED BY <1>1, SumLaws
  <1>4. SumOf(fn, K) \in Nat
    BY <1>2, <1>3
  <1>5. ASSUME NEW x \in K PROVE SumOf(fn, K) = At(fn, x) + SumOf(fn, K \ {x})
    <2>1. SumOf(fn, K \ {x}) = SumFunctionOnSet(fn, (K \ {x}) \cap D)
      BY DEF SumOf
    <2>2. CASE x \in D
      <3>1. (K \ {x}) \cap D = t \ {x} /\ x \in t
        BY <2>2
      <3>2. SumFunctionOnSet(fn, t) = fn[x] + SumFunctionOnSet(fn, t \ {x})
        <4> HIDE DEF t
        <4> QED BY <1>2, <1>3, <3>1
      <3> QED BY <1>2, <2>1, <2>2, <3>1, <3>2 DEF At
    <2>3. CASE x \notin D
      <3>1. (K \ {x}) \cap D = t
        BY <2>3
      <3> QED BY <1>2, <1>4, <2>1, <2>3, <3>1 DEF At
    <2> QED BY <2>2, <2>3
  <1>6. K \cap DOMAIN fn = {} => SumOf(fn, K) = 0
    BY <1>2, <1>3
  <1>7. \A L : K \cap DOMAIN fn = L \cap DOMAIN fn => SumOf(fn, K) = SumOf(fn, L)
    BY DEF SumOf
  <1> QED BY <1>4, <1>5, <1>6, <1>7

\* A sum over two sets that do not meet.
LEMMA SumUnion ==
  ASSUME NEW fn, Counts(fn), NEW A, NEW B, A \cap B = {}
  PROVE  SumOf(fn, A \cup B) = SumOf(fn, A) + SumOf(fn, B)
  <1> DEFINE D == DOMAIN fn \cap B
             Bad(t) == SumOf(fn, A \cup t) # SumOf(fn, A) + SumOf(fn, t)
             C == {t \in SUBSET D : Bad(t)}
  <1>1. IsFiniteSet(D)
    BY FS_Subset DEF Counts
  <1>2. C = {}
    <2> SUFFICES ASSUME C # {} PROVE FALSE
      OBVIOUS
    <2>1. PICK t \in C : \A u \in C : u \subseteq t => u = t
      <3>1. C \in SUBSET (SUBSET D)
        OBVIOUS
      <3> HIDE DEF C, D
      <3> QED BY <1>1, <3>1, SmallestSubset
    <2>2. t \in SUBSET D /\ Bad(t)
      BY <2>1
    <2>3. SumOf(fn, A) \in Nat
      BY SumOfLaws
    <2>4. PICK x : x \in t
      <3>1. SumOf(fn, {}) = 0 /\ A \cup {} = A
        BY SumOfLaws
      <3>2. Bad({}) => FALSE
        BY <2>3, <3>1
      <3> QED BY <2>2, <3>2
    <2> DEFINE rest == t \ {x}
    <2>5. SumOf(fn, A \cup rest) = SumOf(fn, A) + SumOf(fn, rest)
      <3>1. rest \in SUBSET D /\ rest \notin C
        BY <2>1, <2>2, <2>4
      <3> QED BY <3>1
    <2>6. x \notin A /\ (A \cup t) \ {x} = A \cup rest /\ x \in A \cup t
      BY <2>2, <2>4
    <2>7. SumOf(fn, t) = At(fn, x) + SumOf(fn, rest)
      BY <2>4, SumOfLaws
    <2>8. SumOf(fn, A \cup t) = At(fn, x) + SumOf(fn, A \cup rest)
      <3>1. SumOf(fn, A \cup t) = At(fn, x) + SumOf(fn, (A \cup t) \ {x})
        BY <2>6, SumOfLaws
      <3> HIDE DEF rest
      <3> QED BY <2>6, <3>1
    <2>9. SumOf(fn, rest) \in Nat /\ At(fn, x) \in Nat
      BY SumOfLaws DEF Counts, At
    <2>10. Bad(t)
      BY <2>2
    <2> HIDE DEF rest, C
    <2> QED BY <2>3, <2>5, <2>6, <2>7, <2>8, <2>9, <2>10
  <1>3. SumOf(fn, A \cup D) = SumOf(fn, A) + SumOf(fn, D)
    BY <1>2
  <1>4. SumOf(fn, A \cup D) = SumOf(fn, A \cup B) /\ SumOf(fn, D) = SumOf(fn, B)
    <2>1. (A \cup D) \cap DOMAIN fn = (A \cup B) \cap DOMAIN fn /\ D \cap DOMAIN fn = B \cap DOMAIN fn
      OBVIOUS
    <2> HIDE DEF D
    <2> QED BY <2>1 DEF SumOf
  <1> QED BY <1>3, <1>4

\* What is added to the terms of a sum by parts is added to the sum.
LEMMA SumParts ==
  ASSUME NEW fn, Counts(fn), NEW gn, Counts(gn), NEW up, Counts(up), NEW K, IsFiniteSet(K),
         NEW D, NEW part, \A d \in D : part[d] \in K,
         \A k \in K : At(gn, k) = At(fn, k) + SumOf(up, {d \in D : part[d] = k})
  PROVE  SumOf(gn, K) = SumOf(fn, K) + SumOf(up, D)
  <1> DEFINE In(t) == {d \in D : part[d] \in t}
             Bad(t) == SumOf(gn, t) # SumOf(fn, t) + SumOf(up, In(t))
             C == {t \in SUBSET K : Bad(t)}
  <1>0. In(K) = D
    OBVIOUS
  <1>1. SUFFICES ASSUME C # {} PROVE FALSE
    BY <1>0
  <1>2. PICK t \in C : \A u \in C : u \subseteq t => u = t
    <2>1. C \in SUBSET (SUBSET K)
      OBVIOUS
    <2> HIDE DEF C
    <2> QED BY <1>1, <2>1, SmallestSubset
  <1>3. t \in SUBSET K /\ Bad(t)
    BY <1>2
  <1>4. PICK x : x \in t
    <2>1. t = {} => In(t) = {}
      OBVIOUS
    <2>2. t = {} => SumOf(gn, t) = 0 /\ SumOf(fn, t) = 0 /\ SumOf(up, In(t)) = 0
      BY <2>1, SumOfLaws
    <2> QED BY <1>3, <2>2
  <1> DEFINE rest == t \ {x}
             of == {d \in D : part[d] = x}
  <1>5. SumOf(gn, rest) = SumOf(fn, rest) + SumOf(up, In(rest))
    <2>1. rest \in SUBSET K /\ rest \notin C
      BY <1>2, <1>3, <1>4
    <2> QED BY <2>1
  <1>6. SumOf(gn, t) = At(gn, x) + SumOf(gn, rest) /\ SumOf(fn, t) = At(fn, x) + SumOf(fn, rest)
    BY <1>4, SumOfLaws
  <1>7. At(gn, x) = At(fn, x) + SumOf(up, of)
    BY <1>3, <1>4
  <1>8. SumOf(up, In(t)) = SumOf(up, of) + SumOf(up, In(rest))
    <2>1. In(t) = of \cup In(rest) /\ of \cap In(rest) = {}
      BY <1>4
    <2> HIDE DEF In, of
    <2>2. SumOf(up, of \cup In(rest)) = SumOf(up, of) + SumOf(up, In(rest))
      BY <2>1, SumUnion
    <2> QED BY <2>1, <2>2
  <1>9. /\ SumOf(up, of) \in Nat /\ SumOf(up, In(rest)) \in Nat
        /\ SumOf(fn, rest) \in Nat /\ At(fn, x) \in Nat
    BY SumOfLaws DEF Counts, At
  <1>10. Bad(t)
    BY <1>3
  <1> HIDE DEF In, of, rest, C
  <1> QED BY <1>5, <1>6, <1>7, <1>8, <1>9, <1>10

\* Functions that agree on a set have the same sum there.
LEMMA SumSame ==
  ASSUME NEW fn, Counts(fn), NEW gn, Counts(gn), NEW K, \A k \in K : At(fn, k) = At(gn, k)
  PROVE  SumOf(fn, K) = SumOf(gn, K)
  <1> DEFINE L == K \cap (DOMAIN fn \cup DOMAIN gn)
  <1>1. IsFiniteSet(L)
    <2>1. IsFiniteSet(DOMAIN fn \cup DOMAIN gn)
      BY FS_Union DEF Counts
    <2> QED BY <2>1, FS_Subset
  <1>2. SumOf(fn, {}) = 0 /\ \A k \in L : At(fn, k) \in Nat
    BY SumOfLaws DEF Counts, At
  <1>3. L \cap DOMAIN fn = K \cap DOMAIN fn /\ L \cap DOMAIN gn = K \cap DOMAIN gn
    OBVIOUS
  <1>4. SumOf(fn, L) = SumOf(fn, K) /\ SumOf(gn, L) = SumOf(gn, K)
    BY <1>3 DEF SumOf
  <1> DEFINE none == {}
             part == <<>>
  <1>5. \A k \in L : At(gn, k) = At(fn, k) + SumOf(fn, {d \in none : part[d] = k})
    <2>1. \A k : {d \in none : part[d] = k} = {}
      OBVIOUS
    <2> HIDE DEF none, part
    <2>2. \A k \in L : SumOf(fn, {d \in none : part[d] = k}) = 0
      BY <1>2, <2>1
    <2> QED BY <1>2, <2>2
  <1>6. SumOf(gn, L) = SumOf(fn, L) + SumOf(fn, none)
    <2>1. \A d \in none : part[d] \in L
      OBVIOUS
    <2> HIDE DEF L, none, part
    <2> QED BY <1>1, <1>5, <2>1, SumParts
  <1>7. SumOf(fn, L) \in Nat
    BY SumOfLaws
  <1> HIDE DEF L
  <1> QED BY <1>2, <1>4, <1>6, <1>7

\* A sum of sums over the parts of a set.
LEMMA SumByParts ==
  ASSUME NEW gn, Counts(gn), NEW up, Counts(up), NEW K, IsFiniteSet(K),
         NEW D, NEW part, \A d \in D : part[d] \in K,
         \A k \in K : At(gn, k) = SumOf(up, {d \in D : part[d] = k})
  PROVE  SumOf(gn, K) = SumOf(up, D)
  <1> DEFINE zero == [x \in {} |-> 0]
  <1>1. Counts(zero) /\ \A k : At(zero, k) = 0
    BY FS_EmptySet DEF Counts, At
  <1>2. DOMAIN zero = {}
    OBVIOUS
  <1> HIDE DEF zero
  <1>3. SumOf(zero, K) = 0 /\ SumOf(up, D) \in Nat
    BY <1>1, <1>2, SumOfLaws
  <1>4. \A k \in K : At(gn, k) = At(zero, k) + SumOf(up, {d \in D : part[d] = k})
    <2>1. \A k \in K : At(gn, k) \in Nat
      BY DEF At, Counts
    <2> QED BY <1>1, <2>1
  <1>5. SumOf(gn, K) = SumOf(zero, K) + SumOf(up, D)
    BY <1>1, <1>4, SumParts
  <1> QED BY <1>3, <1>5

LEMMA AddAt ==
  ASSUME NEW fn, Counts(fn), NEW x, NEW n \in Nat, NEW k
  PROVE  At(Add(fn, x, n), k) = At(fn, k) + (IF k = x THEN n ELSE 0)
  <1> DEFINE gn == Add(fn, x, n)
  <1>1. gn = [j \in {x} \cup DOMAIN fn |->
                IF j = x THEN n + (IF x \in DOMAIN fn THEN fn[x] ELSE 0) ELSE fn[j]]
    BY DEF Add, Over
  <1> HIDE DEF gn
  <1>2. At(gn, k) = At(fn, k) + (IF k = x THEN n ELSE 0)
    BY <1>1 DEF At, Counts
  <1> QED BY <1>2 DEF gn

LEMMA AddLaws ==
  ASSUME NEW fn, Counts(fn), NEW x, NEW n \in Nat
  PROVE  Counts(Add(fn, x, n)) /\ DOMAIN Add(fn, x, n) = DOMAIN fn \cup {x}
  <1> DEFINE gn == Add(fn, x, n)
  <1>1. gn = [j \in {x} \cup DOMAIN fn |->
                IF j = x THEN n + (IF x \in DOMAIN fn THEN fn[x] ELSE 0) ELSE fn[j]]
    BY DEF Add, Over
  <1>2. DOMAIN gn = DOMAIN fn \cup {x} /\ IsFiniteSet(DOMAIN fn \cup {x})
    BY <1>1, FS_AddElement DEF Counts
  <1>3. \A j \in DOMAIN gn : gn[j] \in Nat
    BY <1>1 DEF Counts
  <1> HIDE DEF gn
  <1>4. Counts(gn)
    BY <1>2, <1>3 DEF Counts
  <1> QED BY <1>2, <1>4 DEF gn

LEMMA SumAdd ==
  ASSUME NEW fn, Counts(fn), NEW x, NEW n \in Nat, NEW K
  PROVE  SumOf(Add(fn, x, n), K) = SumOf(fn, K) + (IF x \in K THEN n ELSE 0)
  <1> DEFINE gn == Add(fn, x, n)
             rest == K \ {x}
  <1>1. Counts(gn)
    BY AddLaws
  <1>a. ASSUME NEW k PROVE At(gn, k) = At(fn, k) + (IF k = x THEN n ELSE 0)
    BY AddAt
  <1>2. \A k : At(fn, k) \in Nat
    BY DEF At, Counts
  <1> HIDE DEF gn
  <1>3. SumOf(gn, rest) = SumOf(fn, rest)
    <2>1. \A k \in rest : At(fn, k) = At(gn, k)
      BY <1>a, <1>2
    <2> HIDE DEF rest
    <2> QED BY <1>1, <2>1, SumSame
  <1>4. SumOf(fn, rest) \in Nat
    BY SumOfLaws
  <1>5. CASE x \in K
    <2>1. SumOf(gn, K) = At(gn, x) + SumOf(gn, rest)
      BY <1>1, <1>5, SumOfLaws
    <2>2. SumOf(fn, K) = At(fn, x) + SumOf(fn, rest)
      BY <1>5, SumOfLaws
    <2> HIDE DEF rest
    <2> QED BY <1>a, <1>2, <1>3, <1>4, <1>5, <2>1, <2>2 DEF gn
  <1>6. CASE x \notin K
    <2>1. rest = K
      BY <1>6
    <2> HIDE DEF rest
    <2> QED BY <1>3, <1>4, <1>6, <2>1 DEF gn
  <1> QED BY <1>5, <1>6

------------------------------------------------------------------------------
\* What the folds of the model compute.

BytesOf(r) == [f \in DOMAIN r |-> r[f].bytes]

LEMMA TableLaws ==
  ASSUME NEW r, IsTable(r)
  PROVE  /\ IsFiniteSet(DOMAIN r) /\ DOMAIN r \subseteq Flow
         /\ Counts(BytesOf(r)) /\ DOMAIN BytesOf(r) = DOMAIN r
         /\ \A f \in DOMAIN r : r[f] \in Row /\ r[f].bytes \in Nat /\ BytesOf(r)[f] = r[f].bytes
  <1>1. DOMAIN r \subseteq Flow /\ \A f \in DOMAIN r : r[f] \in Row
    BY DEF IsTable
  <1>2. IsFiniteSet(Flow)
    BY QueriesAssumption
  <1>3. IsFiniteSet(DOMAIN r)
    BY <1>1, <1>2, FS_Subset
  <1>4. \A f \in DOMAIN r : r[f].bytes \in Nat
    BY <1>1 DEF Row
  <1> QED BY <1>1, <1>3, <1>4 DEF BytesOf, Counts

LEMMA BytesIs ==
  ASSUME NEW r, IsTable(r), NEW S \in SUBSET DOMAIN r
  PROVE  Bytes(r, S) = SumOf(BytesOf(r), S)
  <1> DEFINE fn == BytesOf(r)
             Folds(g) == g = [s \in SUBSET S |->
                                IF s = {} THEN 0 ELSE g[s \ {First(s)}] + r[First(s)].bytes]
             g0 == CHOOSE g : Folds(g)
  <1>1. IsFiniteSet(S) /\ \A f \in S : fn[f] \in Nat /\ fn[f] = r[f].bytes
    BY TableLaws, FS_Subset
  <1>2. Bytes(r, S) = g0[S]
    BY DEF Bytes, FoldSet, MapThenFoldSet, First
  <1>3. PICK g : Sums(g, fn, S)
    <2> HIDE DEF fn
    <2> QED BY <1>1, SumsExist
  <1>4. Adds(g, fn, SUBSET S)
    BY <1>3 DEF Sums, Adds
  <1>5. \A s \in SUBSET S : g[s] \in Nat
    <2> HIDE DEF fn
    <2> QED BY <1>1, <1>4, AddsNat
  <1>6. Folds(g)
    <2>1. ASSUME NEW s \in SUBSET S, s # {}
          PROVE  fn[First(s)] + g[s \ {First(s)}] = g[s \ {First(s)}] + r[First(s)].bytes
      <3>1. First(s) \in S /\ s \ {First(s)} \in SUBSET S
        BY <2>1, FirstIsIn
      <3> HIDE DEF fn
      <3> QED BY <1>1, <1>5, <3>1
    <2> HIDE DEF fn
    <2> QED BY <1>3, <2>1 DEF Sums
  <1>7. Folds(g0)
    BY <1>6
  <1> HIDE DEF g0
  <1>8. \A s \in SUBSET S : g0[s] = IF s = {} THEN 0 ELSE g0[s \ {First(s)}] + r[First(s)].bytes
    BY <1>7
  <1>9. \A s \in SUBSET S : g0[s] = g[s]
    <2> DEFINE C == {s \in SUBSET S : g0[s] # g[s]}
    <2>1. SUFFICES ASSUME C # {} PROVE FALSE
      OBVIOUS
    <2>2. PICK t \in C : \A u \in C : u \subseteq t => u = t
      <3>1. C \in SUBSET (SUBSET S)
        OBVIOUS
      <3> HIDE DEF C
      <3> QED BY <1>1, <2>1, <3>1, SmallestSubset
    <2>3. t \in SUBSET S /\ g0[t] # g[t]
      BY <2>2
    <2>4. t # {}
      BY <1>4, <1>8, <2>3 DEF Adds
    <2>5. First(t) \in t /\ t \ {First(t)} \in SUBSET S /\ t \ {First(t)} # t
      BY <2>3, <2>4, FirstIsIn
    <2>6. g0[t \ {First(t)}] = g[t \ {First(t)}]
      BY <2>2, <2>5
    <2>7. fn[First(t)] \in Nat /\ fn[First(t)] = r[First(t)].bytes /\ g[t \ {First(t)}] \in Nat
      BY <1>1, <1>5, <2>3, <2>5
    <2>8. g0[t] = g0[t \ {First(t)}] + r[First(t)].bytes
      BY <1>8, <2>3, <2>4
    <2>9. g[t] = fn[First(t)] + g[t \ {First(t)}]
      BY <1>4, <2>3, <2>4 DEF Adds
    <2> HIDE DEF fn, C
    <2> QED BY <2>3, <2>6, <2>7, <2>8, <2>9
  <1>10. PICK h : Adds(h, fn, SUBSET S) /\ SumFunctionOnSet(fn, S) = h[S]
    <2> HIDE DEF fn
    <2> QED BY <1>1, SumIs
  <1>11. g[S] = h[S]
    <2> HIDE DEF fn
    <2>1. \A t \in SUBSET S : g[t] = h[t]
      BY <1>1, <1>4, <1>10, AddsUnique
    <2> QED BY <2>1
  <1>12. S \cap DOMAIN fn = S
    BY TableLaws
  <1> QED BY <1>2, <1>9, <1>10, <1>11, <1>12 DEF SumOf

------------------------------------------------------------------------------
\* A timeline is whole because, of every bucket young enough to be kept, the
\* store has exactly the bytes that were added in its time.

TimesOf(k, n) == {t \in Nat : t \div Step[k] = n}
BucketsAreExact ==
  \A k \in TimeRange, n \in Int :
    n * Step[k] >= now - Keep[k] => At(buckets[k], n) = SumOf(carried, TimesOf(k, n))

TimelineInvariant ==
  /\ now \in Nat
  /\ IsTable(rows)
  /\ Counts(carried) /\ DOMAIN carried \subseteq 0..now
  /\ DOMAIN buckets = TimeRange
  /\ \A k \in TimeRange : Counts(buckets[k]) /\ DOMAIN buckets[k] \subseteq Nat
  /\ BucketsAreExact

LEMMA RangeLaws ==
  ASSUME NEW k \in TimeRange
  PROVE  Step[k] \in Nat \ {0} /\ Span[k] \in Nat /\ Keep[k] \in Nat /\ Keep[k] >= Span[k] + Step[k]
  BY QueriesAssumption

LEMMA Division ==
  ASSUME NEW a \in Int, NEW s \in Nat \ {0}
  PROVE  a \div s \in Int /\ s * (a \div s) <= a /\ a < s * (a \div s) + s
  BY Z3

LEMMA DivisionNat ==
  ASSUME NEW a \in Nat, NEW s \in Nat \ {0}
  PROVE  a \div s \in Nat
  BY Z3

LEMMA DivisionGrows ==
  ASSUME NEW a \in Int, NEW b \in Int, a <= b, NEW s \in Nat \ {0}
  PROVE  a \div s <= b \div s
  <1> DEFINE p == a \div s
             q == b \div s
  <1>1. p \in Int /\ q \in Int /\ s * p <= a /\ b < s * q + s
    BY Division
  <1> HIDE DEF p, q
  <1>2. s * p < s * q + s
    <2>1. s * p \in Int /\ s * q + s \in Int
      BY <1>1
    <2> QED BY <1>1, <2>1
  <1>3. p > q => s * p >= s * q + s
    BY <1>1, Z3
  <1>4. s * p \in Int /\ s * q + s \in Int
    BY <1>1
  <1>5. p <= q
    BY <1>1, <1>2, <1>3, <1>4
  <1> QED BY <1>5 DEF p, q

\* Retention leaves a table and exact buckets.
LEMMA KeptTable ==
  ASSUME NEW r, IsTable(r)
  PROVE  IsTable(KeptRows(r))
  BY DEF KeptRows, RestrictDomain, Restrict, IsTable

LEMMA KeptLaws ==
  ASSUME TimelineInvariant, NEW k \in TimeRange
  PROVE  /\ Counts(KeptBuckets(buckets)[k])
         /\ DOMAIN KeptBuckets(buckets)[k] \subseteq DOMAIN buckets[k]
         /\ \A n \in Int : n * Step[k] >= now - Keep[k] =>
              At(KeptBuckets(buckets)[k], n) = At(buckets[k], n)
  <1> DEFINE b == buckets[k]
             c == KeptBuckets(buckets)[k]
             Fresh(n) == n * Step[k] >= now - Keep[k]
  <1>1. c = b \/ c = [n \in {m \in DOMAIN b : Fresh(m)} |-> b[n]]
    BY DEF KeptBuckets, RestrictDomain, Restrict
  <1>2. Counts(b)
    BY DEF TimelineInvariant
  <1>3. \A n : n \in DOMAIN c => n \in DOMAIN b /\ c[n] = b[n]
    BY <1>1
  <1>4. \A n : n \in DOMAIN b /\ Fresh(n) => n \in DOMAIN c
    BY <1>1
  <1> HIDE DEF c, b, Fresh
  <1>5. Counts(c) /\ DOMAIN c \subseteq DOMAIN b
    BY <1>2, <1>3, FS_Subset DEF Counts
  <1>6. \A n : Fresh(n) => At(c, n) = At(b, n)
    BY <1>3, <1>4 DEF At
  <1> QED BY <1>5, <1>6 DEF c, b, Fresh

LEMMA TimelineStart == ASSUME Init PROVE TimelineInvariant
  <1>1. IsTable(rows)
    BY QueriesAssumption DEF Init
  <1>2. Bytes(rows, DOMAIN rows) \in Nat
    <2>1. Bytes(rows, DOMAIN rows) = SumOf(BytesOf(rows), DOMAIN rows) /\ Counts(BytesOf(rows))
      BY <1>1, BytesIs, TableLaws
    <2> QED BY <2>1, SumOfLaws
  <1>3. Counts(carried) /\ DOMAIN carried \subseteq {0}
    <2>1. IsFiniteSet({0}) /\ IsFiniteSet({})
      BY FS_Singleton, FS_EmptySet
    <2>2. CASE rows = <<>>
      <3>1. carried = <<>> /\ DOMAIN carried = {}
        BY <2>2 DEF Init
      <3> QED BY <2>1, <3>1 DEF Counts
    <2>3. CASE rows # <<>>
      <3>1. carried = [t \in {0} |-> Bytes(rows, DOMAIN rows)]
        BY <2>3 DEF Init
      <3> QED BY <1>2, <2>1, <3>1 DEF Counts
    <2> QED BY <2>2, <2>3
  <1>4. now = 0 /\ buckets = [k \in TimeRange |-> carried]
    BY DEF Init
  <1>5. ASSUME NEW k \in TimeRange, NEW n \in Int
        PROVE  At(buckets[k], n) = SumOf(carried, TimesOf(k, n))
    <2>1. 0 \div Step[k] = 0
      BY RangeLaws, Z3
    <2>2. 0 \in TimesOf(k, n) <=> n = 0
      BY <2>1 DEF TimesOf
    <2>3. SumOf(carried, TimesOf(k, n)) = SumOf(carried, IF n = 0 THEN {0} ELSE {})
      <3>1. TimesOf(k, n) \cap DOMAIN carried = (IF n = 0 THEN {0} ELSE {}) \cap DOMAIN carried
        BY <1>3, <2>2
      <3> QED BY <3>1 DEF SumOf
    <2>4. SumOf(carried, {}) = 0
      BY <1>3, SumOfLaws
    <2>5. SumOf(carried, {0}) = At(carried, 0)
      <3>1. SumOf(carried, {0}) = At(carried, 0) + SumOf(carried, {0} \ {0})
        BY <1>3, SumOfLaws
      <3>2. {0} \ {0} = {} /\ At(carried, 0) \in Nat
        BY <1>3 DEF At, Counts
      <3> QED BY <2>4, <3>1, <3>2
    <2>6. n # 0 => At(carried, n) = 0
      BY <1>3 DEF At
    <2> QED BY <1>4, <2>3, <2>4, <2>5, <2>6
  <1>6. BucketsAreExact
    BY <1>5 DEF BucketsAreExact
  <1> QED BY <1>1, <1>3, <1>4, <1>6 DEF TimelineInvariant

\* Where no byte is added.
LEMMA TimelineStays ==
  ASSUME TimelineInvariant, now' = now, IsTable(rows'), carried' = carried,
         buckets' = buckets \/ buckets' = KeptBuckets(buckets)
  PROVE  TimelineInvariant'
  <1>1. DOMAIN KeptBuckets(buckets) = TimeRange
    BY DEF KeptBuckets, TimelineInvariant
  <1>2. ASSUME NEW k \in TimeRange
        PROVE  /\ Counts(buckets'[k]) /\ DOMAIN buckets'[k] \subseteq Nat
               /\ \A n \in Int : n * Step[k] >= now - Keep[k] => At(buckets'[k], n) = At(buckets[k], n)
    <2>1. Counts(buckets[k]) /\ DOMAIN buckets[k] \subseteq Nat
      BY DEF TimelineInvariant
    <2>2. CASE buckets' = buckets
      BY <2>1, <2>2
    <2>3. CASE buckets' = KeptBuckets(buckets)
      <3>1. /\ Counts(buckets'[k]) /\ DOMAIN buckets'[k] \subseteq DOMAIN buckets[k]
            /\ \A n \in Int : n * Step[k] >= now - Keep[k] => At(buckets'[k], n) = At(buckets[k], n)
        BY <2>3, KeptLaws
      <3> QED BY <2>1, <3>1
    <2> QED BY <2>2, <2>3
  <1>3. BucketsAreExact'
    BY <1>2 DEF BucketsAreExact, TimesOf, TimelineInvariant
  <1> QED BY <1>1, <1>2, <1>3 DEF TimelineInvariant

LEMMA TimelineGrows ==
  ASSUME TimelineInvariant, now' = now, IsTable(rows'), NEW moved \in Nat,
         carried' = Add(carried, now, moved),
         buckets' = [k \in TimeRange |-> Add(KeptBuckets(buckets)[k], now \div Step[k], moved)]
  PROVE  TimelineInvariant'
  <1>1. now \in Nat /\ Counts(carried) /\ DOMAIN carried \subseteq 0..now
    BY DEF TimelineInvariant
  <1>2. Counts(carried') /\ DOMAIN carried' = DOMAIN carried \cup {now}
    BY <1>1, AddLaws
  <1>3. ASSUME NEW k \in TimeRange
        PROVE  Counts(buckets'[k]) /\ DOMAIN buckets'[k] \subseteq Nat
    <2>1. /\ Counts(KeptBuckets(buckets)[k])
          /\ DOMAIN KeptBuckets(buckets)[k] \subseteq DOMAIN buckets[k]
          /\ DOMAIN buckets[k] \subseteq Nat
      BY KeptLaws DEF TimelineInvariant
    <2>2. now \div Step[k] \in Nat
      BY <1>1, RangeLaws, DivisionNat
    <2>3. /\ Counts(Add(KeptBuckets(buckets)[k], now \div Step[k], moved))
          /\ DOMAIN Add(KeptBuckets(buckets)[k], now \div Step[k], moved)
               = DOMAIN KeptBuckets(buckets)[k] \cup {now \div Step[k]}
      BY <2>1, AddLaws
    <2> QED BY <2>1, <2>2, <2>3
  <1>4. ASSUME NEW k \in TimeRange, NEW n \in Int, n * Step[k] >= now - Keep[k]
        PROVE  At(buckets'[k], n) = SumOf(carried', TimesOf(k, n))
    <2> DEFINE b == KeptBuckets(buckets)[k]
               m == now \div Step[k]
    <2>1. Counts(b) /\ At(b, n) = At(buckets[k], n)
      BY <1>4, KeptLaws
    <2>2. At(buckets[k], n) = SumOf(carried, TimesOf(k, n))
      BY <1>4 DEF TimelineInvariant, BucketsAreExact
    <2>3. buckets'[k] = Add(b, m, moved)
      OBVIOUS
    <2>4. SumOf(carried', TimesOf(k, n))
            = SumOf(carried, TimesOf(k, n)) + (IF now \in TimesOf(k, n) THEN moved ELSE 0)
      BY <1>1, SumAdd
    <2>5. now \in TimesOf(k, n) <=> n = m
      BY <1>1 DEF TimesOf
    <2>6. SumOf(carried, TimesOf(k, n)) \in Nat
      BY <1>1, SumOfLaws
    <2> HIDE DEF b, m
    <2>7. At(Add(b, m, moved), n) = At(b, n) + (IF n = m THEN moved ELSE 0)
      BY <2>1, AddAt
    <2> QED BY <2>1, <2>2, <2>3, <2>4, <2>5, <2>6, <2>7
  <1>5. BucketsAreExact'
    BY <1>4 DEF BucketsAreExact, TimesOf
  <1>6. DOMAIN carried' \subseteq 0..now /\ DOMAIN buckets' = TimeRange
    BY <1>1, <1>2
  <1> QED BY <1>1, <1>2, <1>3, <1>5, <1>6 DEF TimelineInvariant

LEMMA PutTable ==
  ASSUME TimelineInvariant, NEW S \in SUBSET Flow, NEW ended
  PROVE  IsTable(Over([f \in S |-> [bytes |-> 1 + (IF f \in DOMAIN rows THEN rows[f].bytes ELSE 0),
                                    last |-> now, active |-> f \notin ended]], rows))
  <1>1. IsTable(rows) /\ now \in Int
    BY DEF TimelineInvariant
  <1>2. \A f \in DOMAIN rows : f \in Flow /\ rows[f] \in Row /\ rows[f].bytes \in Nat
    BY <1>1, TableLaws DEF IsTable
  <1>3. \A f : [bytes |-> 1 + (IF f \in DOMAIN rows THEN rows[f].bytes ELSE 0),
                last |-> now, active |-> f \notin ended] \in Row
    BY <1>1, <1>2 DEF Row
  <1> QED BY <1>2, <1>3 DEF Over, IsTable

LEMMA TimelineStep == ASSUME TimelineInvariant, [Next]_vars PROVE TimelineInvariant'
  <1>0. IsTable(rows) /\ now \in Nat
    BY DEF TimelineInvariant
  <1>1. ASSUME NEW S \in SUBSET Flow, NEW ended \in SUBSET Flow,
               NEW outcome \in {"none", "rows", "all"}, Ingest(S, ended, outcome)
        PROVE  TimelineInvariant'
    <2> DEFINE put == Over([f \in S |-> [bytes |-> 1 + (IF f \in DOMAIN rows THEN rows[f].bytes ELSE 0),
                                         last |-> now, active |-> f \notin ended]], rows)
               moved == Cardinality(S \cap DOMAIN rows')
    <2>1. /\ rows' = IF outcome = "none" THEN rows ELSE KeptRows(put)
          /\ buckets' = CASE outcome = "none" -> buckets
                          [] outcome = "rows" -> KeptBuckets(buckets)
                          [] outcome = "all" ->
                               [k \in TimeRange |-> Add(KeptBuckets(buckets)[k], now \div Step[k], moved)]
          /\ carried' = IF outcome = "all" THEN Add(carried, now, moved) ELSE carried
          /\ now' = now
      BY <1>1 DEF Ingest, Stored
    <2>2. IsTable(rows')
      <3>1. IsTable(put)
        BY PutTable
      <3> HIDE DEF put
      <3> QED BY <1>0, <2>1, <3>1, KeptTable
    <2>3. moved \in Nat
      <3>1. IsFiniteSet(S \cap DOMAIN rows')
        BY <2>2, QueriesAssumption, FS_Subset DEF IsTable
      <3> QED BY <3>1, FS_CardinalityType
    <2> HIDE DEF put, moved
    <2>4. CASE outcome = "all"
      BY <2>1, <2>2, <2>3, <2>4, TimelineGrows
    <2>5. CASE outcome # "all"
      BY <2>1, <2>2, <2>5, TimelineStays
    <2> QED BY <2>4, <2>5
  <1>2. CASE QuietBatch \/ SaveSettings
    <2>1. IsTable(KeptRows(rows))
      BY <1>0, KeptTable
    <2> QED BY <1>2, <2>1, TimelineStays DEF QuietBatch, SaveSettings
  <1>3. CASE GetOverview \/ CreateExport \/ DeleteExport \/ Restart \/ UNCHANGED vars
    <2>1. UNCHANGED <<now, rows, buckets, carried>>
      BY <1>3 DEF GetOverview, CreateExport, DeleteExport, Restart, vars, data
    <2> QED BY <1>0, <2>1, TimelineStays
  <1>4. CASE Pass
    <2>1. now' = now + 1 /\ UNCHANGED <<rows, buckets, carried>>
      BY <1>4 DEF Pass, data
    <2>2. ASSUME NEW k \in TimeRange, NEW n \in Int, n * Step[k] >= now' - Keep[k]
          PROVE  n * Step[k] >= now - Keep[k]
      <3>1. n * Step[k] \in Int /\ Keep[k] \in Int
        BY RangeLaws
      <3> QED BY <1>0, <2>1, <2>2, <3>1
    <2>3. BucketsAreExact'
      BY <2>1, <2>2 DEF BucketsAreExact, TimesOf, TimelineInvariant
    <2>4. DOMAIN carried \subseteq 0..now' /\ now' \in Nat
      BY <1>0, <2>1 DEF TimelineInvariant
    <2> QED BY <2>1, <2>3, <2>4 DEF TimelineInvariant
  <1>5. CASE ClearHistory
    <2>1. /\ rows' = <<>> /\ carried' = <<>> /\ now' = now
          /\ buckets' = [k \in TimeRange |-> <<>>]
      BY <1>5 DEF ClearHistory
    <2>2. DOMAIN <<>> = {} /\ Counts(<<>>)
      BY FS_EmptySet DEF Counts
    <2>3. IsTable(rows')
      BY <2>1, <2>2 DEF IsTable
    <2>4. ASSUME NEW k \in TimeRange, NEW n \in Int
          PROVE  At(buckets'[k], n) = SumOf(carried', TimesOf(k, n))
      <3>1. SumOf(<<>>, TimesOf(k, n)) = 0
        BY <2>2, SumOfLaws
      <3> QED BY <2>1, <2>2, <3>1 DEF At
    <2>5. BucketsAreExact'
      BY <2>4 DEF BucketsAreExact, TimesOf
    <2> QED BY <1>0, <2>1, <2>2, <2>3, <2>5 DEF TimelineInvariant
  <1> QED BY <1>1, <1>2, <1>3, <1>4, <1>5 DEF Next

LEMMA TimelineMisses ==
  ASSUME TimelineInvariant PROVE TimelineIsWhole
  <1> SUFFICES ASSUME NEW k \in TimeRange
               PROVE  LET line == Timeline(buckets, k, now)
                          since == {t \in DOMAIN carried : t \div Step[k] \in DOMAIN line}
                      IN /\ SumFunction(line) = SumFunctionOnSet(carried, since)
                         /\ \A t \in DOMAIN carried : t >= now - Span[k] => t \in since
    BY DEF TimelineIsWhole
  <1> DEFINE first == (now - Span[k]) \div Step[k]
             final == now \div Step[k]
             line == Timeline(buckets, k, now)
             since == {t \in DOMAIN carried : t \div Step[k] \in DOMAIN line}
             part == [t \in since |-> t \div Step[k]]
  <1>1. /\ now \in Nat /\ Counts(carried) /\ DOMAIN carried \subseteq 0..now
        /\ Counts(buckets[k])
    BY DEF TimelineInvariant
  <1>2. /\ Step[k] \in Nat \ {0} /\ Span[k] \in Nat /\ Keep[k] \in Nat
        /\ Keep[k] >= Span[k] + Step[k]
    BY RangeLaws
  <1>3. first \in Int /\ final \in Int /\ now - Span[k] < Step[k] * first + Step[k]
    <2> DEFINE a == now - Span[k]
    <2>1. a \in Int /\ now \in Int
      BY <1>1, <1>2
    <2>2. final \in Int
      BY <1>2, <2>1, Division
    <2> HIDE DEF a
    <2>3. a \div Step[k] \in Int /\ a < Step[k] * (a \div Step[k]) + Step[k]
      BY <1>2, <2>1, Division
    <2> QED BY <2>2, <2>3 DEF a
  <1>4. DOMAIN line = first..final /\ \A n \in first..final : line[n] = At(buckets[k], n)
    BY DEF Timeline, At
  <1>5. IsFiniteSet(first..final)
    BY <1>3, FS_Interval
  <1>6. Counts(line)
    <2>1. \A n : At(buckets[k], n) \in Nat
      BY <1>1 DEF At, Counts
    <2> HIDE DEF line
    <2> QED BY <1>4, <1>5, <2>1 DEF Counts
  <1>7. ASSUME NEW n \in first..final PROVE At(line, n) = SumOf(carried, TimesOf(k, n))
    <2>1. n \in Int /\ n >= first
      BY <1>3
    <2>2. Step[k] * first <= n * Step[k]
      <3> HIDE DEF first
      <3>1. \A s \in Nat, a \in Int, b \in Int : a <= b => s * a <= b * s
        BY Z3
      <3> QED BY <1>2, <1>3, <2>1, <3>1
    <2>3. n * Step[k] >= now - Keep[k]
      <3> HIDE DEF first
      <3>1. Step[k] * first \in Int /\ n * Step[k] \in Int
        BY <1>2, <1>3, <2>1
      <3> QED BY <1>1, <1>2, <1>3, <2>2, <3>1
    <2>4. At(buckets[k], n) = SumOf(carried, TimesOf(k, n))
      BY <2>1, <2>3 DEF TimelineInvariant, BucketsAreExact
    <2> HIDE DEF line
    <2> QED BY <1>4, <2>4 DEF At
  <1>8. \A t \in since : part[t] \in first..final
    BY <1>4
  <1>9. ASSUME NEW n \in first..final
        PROVE  At(line, n) = SumOf(carried, {t \in since : part[t] = n})
    <2>1. TimesOf(k, n) \cap DOMAIN carried = {t \in since : part[t] = n} \cap DOMAIN carried
      <3>1. \A t \in DOMAIN carried : t \in Nat
        BY <1>1
      <3> HIDE DEF line
      <3> QED BY <1>4, <3>1 DEF TimesOf
    <2>2. SumOf(carried, TimesOf(k, n)) = SumOf(carried, {t \in since : part[t] = n})
      <3> HIDE DEF since, part
      <3> QED BY <2>1 DEF SumOf
    <2> QED BY <1>7, <2>2
  <1>10. SumOf(line, first..final) = SumOf(carried, since)
    <2> DEFINE K == first..final
    <2>1. IsFiniteSet(K) /\ \A t \in since : part[t] \in K
      BY <1>5, <1>8
    <2>2. \A n \in K : At(line, n) = SumOf(carried, {t \in since : part[t] = n})
      BY <1>9
    <2> HIDE DEF K, line, since, part
    <2>3. SumOf(line, K) = SumOf(carried, since)
      BY <1>1, <1>6, <2>1, <2>2, SumByParts
    <2> QED BY <2>3 DEF K
  <1>11. SumFunction(line) = SumOf(line, first..final)
    <2>1. (first..final) \cap DOMAIN line = DOMAIN line
      BY <1>4
    <2> HIDE DEF line, first, final
    <2> QED BY <2>1 DEF SumFunction, SumOf
  <1>12. SumFunctionOnSet(carried, since) = SumOf(carried, since)
    <2>1. since \cap DOMAIN carried = since
      OBVIOUS
    <2> HIDE DEF since
    <2> QED BY <2>1 DEF SumOf
  <1>13. ASSUME NEW t \in DOMAIN carried, t >= now - Span[k] PROVE t \in since
    <2>1. t \in Int /\ t <= now /\ now - Span[k] \in Int
      BY <1>1, <1>2
    <2>2. t \div Step[k] \in Int /\ first <= t \div Step[k] /\ t \div Step[k] <= final
      BY <1>1, <1>2, <1>13, <2>1, Division, DivisionGrows
    <2> HIDE DEF line, first, final
    <2> QED BY <1>3, <1>4, <2>2
  <1> HIDE DEF line, since
  <1> QED BY <1>10, <1>11, <1>12, <1>13 DEF line, since

\* A timeline adds up to every byte the rollups were given since its first
\* point began, whatever retention has deleted (db.rs buckets_timeline against
\* MINUTE_BUCKET_RETENTION_MS and HOUR_BUCKET_RETENTION_MS).
THEOREM QueriesTimelineIsWhole == Spec => []TimelineIsWhole
  <1>1. Init => TimelineInvariant
    BY TimelineStart
  <1>2. TimelineInvariant /\ [Next]_vars => TimelineInvariant'
    BY TimelineStep
  <1>3. TimelineInvariant => TimelineIsWhole
    BY TimelineMisses
  <1> QED BY <1>1, <1>2, <1>3, PTL DEF Spec

------------------------------------------------------------------------------
\* The lists.  All that is needed of the store is that it is a table.

LEMMA BytesLaws ==
  ASSUME NEW r, IsTable(r), NEW A \in SUBSET DOMAIN r
  PROVE  /\ Bytes(r, A) \in Nat
         /\ \A f \in A : r[f].bytes <= Bytes(r, A)
         /\ \A B \in SUBSET DOMAIN r : A \cap B = {} => Bytes(r, A \cup B) = Bytes(r, A) + Bytes(r, B)
  <1>1. Counts(BytesOf(r)) /\ \A B \in SUBSET DOMAIN r : Bytes(r, B) = SumOf(BytesOf(r), B)
    BY TableLaws, BytesIs
  <1>2. Bytes(r, A) \in Nat
    BY <1>1, SumOfLaws
  <1>3. ASSUME NEW f \in A PROVE r[f].bytes <= Bytes(r, A)
    <2>1. SumOf(BytesOf(r), A) = At(BytesOf(r), f) + SumOf(BytesOf(r), A \ {f})
      BY <1>1, SumOfLaws
    <2>2. SumOf(BytesOf(r), A \ {f}) \in Nat
      BY <1>1, SumOfLaws
    <2>3. At(BytesOf(r), f) = r[f].bytes /\ r[f].bytes \in Nat
      BY TableLaws DEF At
    <2> QED BY <1>1, <2>1, <2>2, <2>3
  <1>4. ASSUME NEW B \in SUBSET DOMAIN r, A \cap B = {}
        PROVE  Bytes(r, A \cup B) = Bytes(r, A) + Bytes(r, B)
    <2>1. SumOf(BytesOf(r), A \cup B) = SumOf(BytesOf(r), A) + SumOf(BytesOf(r), B)
      BY <1>1, <1>4, SumUnion
    <2>2. A \cup B \in SUBSET DOMAIN r
      OBVIOUS
    <2> QED BY <1>1, <2>1, <2>2
  <1> QED BY <1>2, <1>3, <1>4

LEMMA TotalsLaws ==
  ASSUME NEW r, IsTable(r), NEW S \in SUBSET DOMAIN r
  PROVE  /\ Totals(r, S).in \in Nat /\ Totals(r, S).out \in Nat /\ Totals(r, S).flows \in Nat
         /\ Totals(r, S).in + Totals(r, S).out = Bytes(r, S)
  <1>1. S \cap Inbound \in SUBSET DOMAIN r /\ S \ Inbound \in SUBSET DOMAIN r
    OBVIOUS
  <1>2. Bytes(r, S \cap Inbound) \in Nat /\ Bytes(r, S \ Inbound) \in Nat
    BY <1>1, BytesLaws
  <1>3. Cardinality(S) \in Nat
    BY TableLaws, FS_Subset, FS_CardinalityType
  <1>4. Bytes(r, (S \cap Inbound) \cup (S \ Inbound)) = Bytes(r, S \cap Inbound) + Bytes(r, S \ Inbound)
    <2>1. (S \cap Inbound) \cap (S \ Inbound) = {}
      OBVIOUS
    <2> QED BY <1>1, <2>1, BytesLaws
  <1>5. (S \cap Inbound) \cup (S \ Inbound) = S
    OBVIOUS
  <1> QED BY <1>2, <1>3, <1>4, <1>5 DEF Totals

\* A number of flows is a sum too.
Ones(S) == [f \in S |-> 1]

LEMMA CountIs ==
  ASSUME NEW S, IsFiniteSet(S), NEW T \in SUBSET S
  PROVE  Cardinality(T) = SumOf(Ones(S), T)
  <1> DEFINE fn == Ones(S)
             C == {t \in SUBSET S : Cardinality(t) # SumOf(fn, t)}
  <1>1. Counts(fn) /\ DOMAIN fn = S /\ \A f \in S : At(fn, f) = 1
    BY DEF Ones, Counts, At
  <1> HIDE DEF fn
  <1>2. SUFFICES ASSUME C # {} PROVE FALSE
    BY DEF fn
  <1>3. PICK t \in C : \A u \in C : u \subseteq t => u = t
    <2>1. C \in SUBSET (SUBSET S)
      OBVIOUS
    <2> HIDE DEF C
    <2> QED BY <1>2, <2>1, SmallestSubset
  <1>4. t \in SUBSET S /\ Cardinality(t) # SumOf(fn, t) /\ IsFiniteSet(t)
    BY <1>3, FS_Subset
  <1>5. PICK x : x \in t
    <2>1. SumOf(fn, {}) = 0 /\ Cardinality({}) = 0
      BY <1>1, SumOfLaws, FS_EmptySet
    <2> QED BY <1>4, <2>1
  <1>6. Cardinality(t \ {x}) = SumOf(fn, t \ {x})
    <2>1. t \ {x} \in SUBSET S /\ t \ {x} \notin C
      BY <1>3, <1>4, <1>5
    <2> QED BY <2>1
  <1>7. Cardinality(t \ {x}) = Cardinality(t) - 1 /\ Cardinality(t) \in Nat
    BY <1>4, <1>5, FS_RemoveElement, FS_CardinalityType
  <1>8. SumOf(fn, t) = At(fn, x) + SumOf(fn, t \ {x})
    BY <1>1, <1>5, SumOfLaws
  <1>9. At(fn, x) = 1
    BY <1>1, <1>4, <1>5
  <1> HIDE DEF C
  <1> QED BY <1>4, <1>6, <1>7, <1>8, <1>9

Group == [in : Nat, out : Nat, flows : Nat]
Groups(g) == IsFiniteSet(DOMAIN g) /\ \A k \in DOMAIN g : g[k] \in Group
InOf(g) == [k \in DOMAIN g |-> g[k].in]
OutOf(g) == [k \in DOMAIN g |-> g[k].out]
FlowsOf(g) == [k \in DOMAIN g |-> g[k].flows]

\* A column of the groups, summed.
LEMMA ColumnSums ==
  ASSUME NEW fn, Counts(fn), NEW D, D = DOMAIN fn
  PROVE  \E g : /\ \A s \in SUBSET D : g[s] \in Nat
                /\ \A s \in SUBSET D : s # {} => g[s] = g[s \ {First(s)}] + fn[First(s)]
                /\ g[{}] = 0
                /\ g[D] = SumOf(fn, D)
  <1>1. IsFiniteSet(D) /\ \A k \in D : fn[k] \in Nat
    BY DEF Counts
  <1>2. PICK g : Adds(g, fn, SUBSET D) /\ SumFunctionOnSet(fn, D) = g[D]
    BY <1>1, SumIs
  <1>3. \A s \in SUBSET D : g[s] \in Nat
    BY <1>1, <1>2, AddsNat
  <1>4. ASSUME NEW s \in SUBSET D, s # {} PROVE g[s] = g[s \ {First(s)}] + fn[First(s)]
    <2>1. g[s] = fn[First(s)] + g[s \ {First(s)}]
      BY <1>2, <1>4 DEF Adds
    <2>2. First(s) \in D /\ s \ {First(s)} \in SUBSET D
      BY <1>4, FirstIsIn
    <2>3. fn[First(s)] \in Nat /\ g[s \ {First(s)}] \in Nat
      BY <1>1, <1>3, <2>2
    <2> QED BY <2>1, <2>3
  <1>5. g[{}] = 0
    BY <1>2 DEF Adds
  <1>6. D \cap DOMAIN fn = D
    OBVIOUS
  <1> QED BY <1>2, <1>3, <1>4, <1>5, <1>6 DEF SumOf

LEMMA WholeIs ==
  ASSUME NEW g, Groups(g)
  PROVE  Whole(g) = [in |-> SumOf(InOf(g), DOMAIN g), out |-> SumOf(OutOf(g), DOMAIN g),
                     flows |-> SumOf(FlowsOf(g), DOMAIN g)]
  <1> DEFINE D == DOMAIN g
             zero == [in |-> 0, out |-> 0, flows |-> 0]
             plus(x, n) == [in |-> n.in + x.in, out |-> n.out + x.out, flows |-> n.flows + x.flows]
             Folds(h) == h = [s \in SUBSET D |->
                                IF s = {} THEN zero ELSE plus(g[First(s)], h[s \ {First(s)}])]
             h0 == CHOOSE h : Folds(h)
  <1>1. Whole(g) = h0[D]
    BY DEF Whole, FoldFunction, FoldFunctionOnSet, MapThenFoldSet, First
  <1>2. /\ Counts(InOf(g)) /\ D = DOMAIN InOf(g)
        /\ Counts(OutOf(g)) /\ D = DOMAIN OutOf(g)
        /\ Counts(FlowsOf(g)) /\ D = DOMAIN FlowsOf(g)
        /\ IsFiniteSet(D)
    BY DEF Groups, Group, Counts, InOf, OutOf, FlowsOf
  <1>3. PICK a : /\ \A s \in SUBSET D : a[s] \in Nat
                 /\ \A s \in SUBSET D : s # {} => a[s] = a[s \ {First(s)}] + InOf(g)[First(s)]
                 /\ a[{}] = 0
                 /\ a[D] = SumOf(InOf(g), D)
    <2> HIDE DEF D
    <2> QED BY <1>2, ColumnSums
  <1>4. PICK b : /\ \A s \in SUBSET D : b[s] \in Nat
                 /\ \A s \in SUBSET D : s # {} => b[s] = b[s \ {First(s)}] + OutOf(g)[First(s)]
                 /\ b[{}] = 0
                 /\ b[D] = SumOf(OutOf(g), D)
    <2> HIDE DEF D
    <2> QED BY <1>2, ColumnSums
  <1>5. PICK c : /\ \A s \in SUBSET D : c[s] \in Nat
                 /\ \A s \in SUBSET D : s # {} => c[s] = c[s \ {First(s)}] + FlowsOf(g)[First(s)]
                 /\ c[{}] = 0
                 /\ c[D] = SumOf(FlowsOf(g), D)
    <2> HIDE DEF D
    <2> QED BY <1>2, ColumnSums
  <1> DEFINE h == [s \in SUBSET D |-> [in |-> a[s], out |-> b[s], flows |-> c[s]]]
  <1>6. ASSUME NEW s \in SUBSET D
        PROVE  h[s] = IF s = {} THEN zero ELSE plus(g[First(s)], h[s \ {First(s)}])
    <2>1. CASE s = {}
      BY <1>3, <1>4, <1>5, <2>1
    <2>2. CASE s # {}
      <3>1. First(s) \in D /\ s \ {First(s)} \in SUBSET D
        BY <2>2, FirstIsIn
      <3>2. /\ InOf(g)[First(s)] = g[First(s)].in /\ OutOf(g)[First(s)] = g[First(s)].out
            /\ FlowsOf(g)[First(s)] = g[First(s)].flows
        BY <3>1 DEF InOf, OutOf, FlowsOf
      <3>3. /\ a[s] = a[s \ {First(s)}] + g[First(s)].in
            /\ b[s] = b[s \ {First(s)}] + g[First(s)].out
            /\ c[s] = c[s \ {First(s)}] + g[First(s)].flows
        BY <1>3, <1>4, <1>5, <2>2, <3>2
      <3>4. h[s \ {First(s)}] = [in |-> a[s \ {First(s)}], out |-> b[s \ {First(s)}],
                                 flows |-> c[s \ {First(s)}]]
        BY <3>1
      <3> HIDE DEF D
      <3> QED BY <2>2, <3>3, <3>4
    <2> QED BY <2>1, <2>2
  <1>7. Folds(h)
    <2> HIDE DEF D, zero, plus
    <2>1. h = [s \in SUBSET D |-> h[s]]
      OBVIOUS
    <2> HIDE DEF h
    <2> QED BY <1>6, <2>1
  <1>8. Folds(h0)
    <2> HIDE DEF h, D, zero, plus
    <2> QED BY <1>7
  <1>9. \A s \in SUBSET D : h0[s] = IF s = {} THEN zero ELSE plus(g[First(s)], h0[s \ {First(s)}])
    <2> HIDE DEF h0, D, zero, plus
    <2> QED BY <1>8
  <1>10. \A s \in SUBSET D : h0[s] = h[s]
    <2> DEFINE C == {s \in SUBSET D : h0[s] # h[s]}
    <2> HIDE DEF h0, h, D, zero, plus
    <2>1. SUFFICES ASSUME C # {} PROVE FALSE
      OBVIOUS
    <2>2. PICK t \in C : \A u \in C : u \subseteq t => u = t
      <3>1. C \in SUBSET (SUBSET D)
        OBVIOUS
      <3> HIDE DEF C
      <3> QED BY <1>2, <2>1, <3>1, SmallestSubset
    <2>3. t \in SUBSET D /\ h0[t] # h[t]
      BY <2>2
    <2>4. t # {}
      BY <1>6, <1>9, <2>3
    <2>5. First(t) \in t /\ t \ {First(t)} \in SUBSET D /\ t \ {First(t)} # t
      BY <2>3, <2>4, FirstIsIn
    <2>6. h0[t \ {First(t)}] = h[t \ {First(t)}]
      BY <2>2, <2>5
    <2>7. h0[t] = plus(g[First(t)], h0[t \ {First(t)}])
      BY <1>9, <2>3, <2>4
    <2>8. h[t] = plus(g[First(t)], h[t \ {First(t)}])
      BY <1>6, <2>3, <2>4
    <2> QED BY <2>3, <2>6, <2>7, <2>8
  <1>11. h0[D] = h[D] /\ h[D] = [in |-> a[D], out |-> b[D], flows |-> c[D]]
    <2> HIDE DEF h0, D
    <2> QED BY <1>10
  <1> HIDE DEF h0, h
  <1> QED BY <1>1, <1>3, <1>4, <1>5, <1>11

Keys(S, key) == {key[f] : f \in S}
Part(S, key, k) == {f \in S : key[f] = k}

LEMMA GroupedLaws ==
  ASSUME NEW r, IsTable(r), NEW S \in SUBSET DOMAIN r, NEW key
  PROVE  /\ DOMAIN Grouped(r, S, key) = Keys(S, key)
         /\ Groups(Grouped(r, S, key))
         /\ \A k \in Keys(S, key) : Grouped(r, S, key)[k] = Totals(r, Part(S, key, k))
  <1> DEFINE g == Grouped(r, S, key)
             K == Keys(S, key)
  <1>1. DOMAIN g = K /\ \A k \in K : g[k] = Totals(r, Part(S, key, k))
    BY DEF Grouped, Keys, Part
  <1>2. IsFiniteSet(K)
    <2>1. IsFiniteSet(S)
      BY TableLaws, FS_Subset
    <2> DEFINE onto == [f \in S |-> key[f]]
    <2>2. onto \in Surjection(S, K)
      BY DEF Surjection, Keys
    <2> HIDE DEF onto, K
    <2> QED BY <2>1, <2>2, FS_Surjection DEF ExistsSurjection
  <1>3. ASSUME NEW k \in K PROVE g[k] \in Group
    <2> DEFINE T == Part(S, key, k)
    <2>1. T \in SUBSET DOMAIN r
      BY DEF Part
    <2>2. g[k] = Totals(r, T)
      BY <1>1
    <2> HIDE DEF T, g
    <2>3. Totals(r, T).in \in Nat /\ Totals(r, T).out \in Nat /\ Totals(r, T).flows \in Nat
      BY <2>1, TotalsLaws
    <2> QED BY <2>2, <2>3 DEF Totals, Group
  <1> HIDE DEF g
  <1> QED BY <1>1, <1>2, <1>3 DEF Groups, g

\* The groups of a set of flows add up to the set.
LEMMA GroupedWhole ==
  ASSUME NEW r, IsTable(r), NEW S \in SUBSET DOMAIN r, NEW key
  PROVE  Whole(Grouped(r, S, key)) = Totals(r, S)
  <1> DEFINE g == Grouped(r, S, key)
             K == Keys(S, key)
             of(k) == Part(S, key, k)
  <1>1. /\ DOMAIN g = K /\ Groups(g)
        /\ \A k \in K : g[k] = Totals(r, of(k))
    BY GroupedLaws
  <1>2. IsFiniteSet(K) /\ Counts(InOf(g)) /\ Counts(OutOf(g)) /\ Counts(FlowsOf(g))
    BY <1>1 DEF Groups, Group, Counts, InOf, OutOf, FlowsOf
  <1>3. Counts(BytesOf(r)) /\ IsFiniteSet(S)
    BY TableLaws, FS_Subset
  <1>4. /\ \A k \in K : At(InOf(g), k) = Bytes(r, of(k) \cap Inbound)
        /\ \A k \in K : At(OutOf(g), k) = Bytes(r, of(k) \ Inbound)
        /\ \A k \in K : At(FlowsOf(g), k) = Cardinality(of(k))
    <2> HIDE DEF g, K, of
    <2>1. ASSUME NEW k \in K
          PROVE  /\ At(InOf(g), k) = g[k].in /\ At(OutOf(g), k) = g[k].out
                 /\ At(FlowsOf(g), k) = g[k].flows
      BY <1>1 DEF InOf, OutOf, FlowsOf, At
    <2>2. ASSUME NEW T
          PROVE  /\ Totals(r, T).in = Bytes(r, T \cap Inbound)
                 /\ Totals(r, T).out = Bytes(r, T \ Inbound)
                 /\ Totals(r, T).flows = Cardinality(T)
      BY DEF Totals
    <2> QED BY <1>1, <2>1, <2>2
  <1>5. \A T \in SUBSET DOMAIN r : Bytes(r, T) = SumOf(BytesOf(r), T)
    BY BytesIs
  <1> HIDE DEF g
  <1>6. SumOf(InOf(g), K) = Bytes(r, S \cap Inbound)
    <2> DEFINE D == S \cap Inbound
    <2>1. \A d \in D : key[d] \in K
      BY DEF Keys
    <2>2. \A k \in K : At(InOf(g), k) = SumOf(BytesOf(r), {d \in D : key[d] = k})
      <3>1. \A k : of(k) \cap Inbound = {d \in D : key[d] = k} /\ of(k) \cap Inbound \in SUBSET DOMAIN r
        BY DEF Part
      <3> HIDE DEF of, D, K
      <3> QED BY <1>4, <1>5, <3>1
    <2>3. Bytes(r, D) = SumOf(BytesOf(r), D)
      BY <1>5
    <2> HIDE DEF D, K
    <2>4. SumOf(InOf(g), K) = SumOf(BytesOf(r), D)
      BY <1>2, <1>3, <2>1, <2>2, SumByParts
    <2> QED BY <2>3, <2>4 DEF D
  <1>7. SumOf(OutOf(g), K) = Bytes(r, S \ Inbound)
    <2> DEFINE D == S \ Inbound
    <2>1. \A d \in D : key[d] \in K
      BY DEF Keys
    <2>2. \A k \in K : At(OutOf(g), k) = SumOf(BytesOf(r), {d \in D : key[d] = k})
      <3>1. \A k : of(k) \ Inbound = {d \in D : key[d] = k} /\ of(k) \ Inbound \in SUBSET DOMAIN r
        BY DEF Part
      <3> HIDE DEF of, D, K
      <3> QED BY <1>4, <1>5, <3>1
    <2>3. Bytes(r, D) = SumOf(BytesOf(r), D)
      BY <1>5
    <2> HIDE DEF D, K
    <2>4. SumOf(OutOf(g), K) = SumOf(BytesOf(r), D)
      BY <1>2, <1>3, <2>1, <2>2, SumByParts
    <2> QED BY <2>3, <2>4 DEF D
  <1>8. SumOf(FlowsOf(g), K) = Cardinality(S)
    <2>1. \A d \in S : key[d] \in K
      BY DEF Keys
    <2>2. \A T \in SUBSET S : Cardinality(T) = SumOf(Ones(S), T)
      BY <1>3, CountIs
    <2>3. \A k \in K : At(FlowsOf(g), k) = SumOf(Ones(S), {d \in S : key[d] = k})
      BY <1>4, <2>2 DEF Part
    <2>4. Counts(Ones(S)) /\ Cardinality(S) = SumOf(Ones(S), S)
      BY <1>3, <2>2 DEF Counts, Ones
    <2> HIDE DEF K
    <2>5. SumOf(FlowsOf(g), K) = SumOf(Ones(S), S)
      BY <1>2, <2>1, <2>3, <2>4, SumByParts
    <2> QED BY <2>4, <2>5
  <1>9. Whole(g) = [in |-> SumOf(InOf(g), K), out |-> SumOf(OutOf(g), K), flows |-> SumOf(FlowsOf(g), K)]
    BY <1>1, WholeIs
  <1> HIDE DEF K
  <1> QED BY <1>6, <1>7, <1>8, <1>9 DEF Totals, g

\* ORDER BY bytes DESC, key: which keys come before k, and which are shown.
SizeOf(g, k) == g[k].in + g[k].out
Precedes(g, j, k) == SizeOf(g, j) > SizeOf(g, k) \/ (SizeOf(g, j) = SizeOf(g, k) /\ j < k)
Preds(g, k) == {j \in DOMAIN g : Precedes(g, j, k)}
Shown(g, n) == {k \in DOMAIN g : Cardinality(Preds(g, k)) < n}

LEMMA BiggestIs ==
  ASSUME NEW g, NEW n
  PROVE  Biggest(g, n) = [k \in Shown(g, n) |-> g[k]]
  <1>1. Shown(g, n) \cap DOMAIN g = Shown(g, n)
    BY DEF Shown
  <1> QED BY <1>1 DEF Biggest, Restrict, Shown, Preds, Precedes, SizeOf

\* It is a strict total order, and ranks follow it.
LEMMA RankLaws ==
  ASSUME NEW g, Groups(g), DOMAIN g \subseteq Int
  PROVE  /\ \A k : IsFiniteSet(Preds(g, k)) /\ Cardinality(Preds(g, k)) \in Nat
         /\ \A j, k \in DOMAIN g : j # k => Precedes(g, j, k) \/ Precedes(g, k, j)
         /\ \A k \in DOMAIN g : ~Precedes(g, k, k)
         /\ \A j, k \in DOMAIN g : Precedes(g, j, k) =>
              Cardinality(Preds(g, j)) < Cardinality(Preds(g, k))
  <1>1. \A k \in DOMAIN g : k \in Int /\ SizeOf(g, k) \in Nat
    BY DEF Groups, Group, SizeOf
  <1>2. ASSUME NEW k PROVE IsFiniteSet(Preds(g, k)) /\ Cardinality(Preds(g, k)) \in Nat
    <2>1. Preds(g, k) \subseteq DOMAIN g
      BY DEF Preds
    <2> QED BY <2>1, FS_Subset, FS_CardinalityType DEF Groups
  <1>3. \A j, k \in DOMAIN g : j # k => Precedes(g, j, k) \/ Precedes(g, k, j)
    BY <1>1 DEF Precedes
  <1>4. \A k \in DOMAIN g : ~Precedes(g, k, k)
    BY <1>1 DEF Precedes
  <1>5. ASSUME NEW j \in DOMAIN g, NEW k \in DOMAIN g, Precedes(g, j, k)
        PROVE  Cardinality(Preds(g, j)) < Cardinality(Preds(g, k))
    <2>1. \A i \in DOMAIN g : Precedes(g, i, j) => Precedes(g, i, k)
      BY <1>1, <1>5 DEF Precedes
    <2>2. Preds(g, j) \subseteq Preds(g, k) /\ j \in Preds(g, k) /\ j \notin Preds(g, j)
      BY <1>4, <1>5, <2>1 DEF Preds
    <2>3. Preds(g, j) # Preds(g, k)
      BY <2>2
    <2>4. Cardinality(Preds(g, j)) <= Cardinality(Preds(g, k))
      BY <1>2, <2>2, FS_Subset
    <2>5. Cardinality(Preds(g, j)) # Cardinality(Preds(g, k))
      BY <1>2, <2>2, <2>3, FS_Subset
    <2> QED BY <1>2, <2>4, <2>5
  <1> QED BY <1>2, <1>3, <1>4, <1>5

\* A limited list is full when it leaves something out, and what it leaves out
\* is no bigger than what it shows.
LEMMA BiggestLaws ==
  ASSUME NEW g, Groups(g), DOMAIN g \subseteq Int, NEW n \in Nat \ {0},
         NEW h \in DOMAIN g \ Shown(g, n)
  PROVE  /\ Cardinality(Shown(g, n)) = n
         /\ \A p \in Shown(g, n) : SizeOf(g, h) <= SizeOf(g, p)
  <1> DEFINE Rank(k) == Cardinality(Preds(g, k))
             S == Shown(g, n)
             D == DOMAIN g
  <1>1. \A k \in D : k \in Int /\ SizeOf(g, k) \in Nat
    BY DEF Groups, Group, SizeOf
  <1>2. /\ \A k : IsFiniteSet(Preds(g, k)) /\ Rank(k) \in Nat
        /\ \A j, k \in D : j # k => Precedes(g, j, k) \/ Precedes(g, k, j)
        /\ \A k \in D : ~Precedes(g, k, k)
        /\ \A j, k \in D : Precedes(g, j, k) => Rank(j) < Rank(k)
    BY RankLaws
  <1>3. /\ S \subseteq D
        /\ \A k \in D : k \in S <=> Rank(k) < n
    BY DEF Shown
  <1>4. \A k : Preds(g, k) = {j \in D : Precedes(g, j, k)}
    BY DEF Preds
  <1> HIDE DEF Rank, S, D
  <1>5. ASSUME NEW k \in D \ S, NEW p \in S PROVE Precedes(g, p, k)
    <2>1. Rank(p) < n /\ ~(Rank(k) < n) /\ p \in D /\ p # k
      BY <1>3, <1>5
    <2>2. ~(Rank(k) < Rank(p))
      BY <1>2, <2>1
    <2> QED BY <1>2, <2>1, <2>2
  <1>6. \A p \in S : SizeOf(g, h) <= SizeOf(g, p)
    <2> SUFFICES ASSUME NEW p \in S PROVE SizeOf(g, h) <= SizeOf(g, p)
      OBVIOUS
    <2>1. h \in D \ S /\ p \in D
      BY <1>3 DEF S, D
    <2>2. Precedes(g, p, h)
      BY <1>5, <2>1
    <2> QED BY <1>1, <2>1, <2>2 DEF Precedes
  <1>7. PICK k \in D \ S : \A j \in D \ S : Rank(k) <= Rank(j)
    <2> DEFINE T == {Rank(j) : j \in D \ S}
    <2>1. T \in SUBSET Nat /\ T # {}
      <3>1. h \in D \ S
        BY DEF S, D
      <3> QED BY <1>2, <3>1
    <2>2. PICK x \in T : \A y \in T : x <= y
      <3> HIDE DEF T
      <3> QED BY <2>1, LeastNumber
    <2>3. PICK k \in D \ S : x = Rank(k)
      BY <2>2
    <2> QED BY <2>2, <2>3
  <1>8. S = Preds(g, k)
    <2>1. \A p \in S : p \in Preds(g, k)
      BY <1>3, <1>4, <1>5
    <2>2. \A p \in Preds(g, k) : p \in D /\ Rank(p) < Rank(k)
      BY <1>2, <1>4
    <2>3. \A p \in Preds(g, k) : p \in S
      <3> SUFFICES ASSUME NEW p \in Preds(g, k), p \notin S PROVE FALSE
        OBVIOUS
      <3>1. p \in D \ S /\ Rank(p) < Rank(k) /\ Rank(k) <= Rank(p)
        BY <1>7, <2>2
      <3> QED BY <1>2, <3>1
    <2> QED BY <2>1, <2>3
  <1>9. Rank(k) = Cardinality(S) /\ Rank(k) >= n /\ IsFiniteSet(S)
    BY <1>2, <1>3, <1>8 DEF Rank
  <1>10. PICK m \in S : \A j \in S : Rank(j) <= Rank(m)
    <2> DEFINE T == {n - Rank(j) : j \in S}
    <2>1. T \in SUBSET Nat
      BY <1>2, <1>3
    <2>2. T # {}
      <3>1. S # {}
        <4>1. S = {} => Cardinality(S) = 0
          BY FS_EmptySet
        <4> QED BY <1>9, <4>1
      <3> QED BY <3>1
    <2>3. PICK x \in T : \A y \in T : x <= y
      <3> HIDE DEF T
      <3> QED BY <2>1, <2>2, LeastNumber
    <2>4. PICK m \in S : x = n - Rank(m)
      BY <2>3
    <2>5. ASSUME NEW j \in S PROVE Rank(j) <= Rank(m)
      <3>1. n - Rank(m) <= n - Rank(j)
        BY <2>3, <2>4
      <3> QED BY <1>2, <3>1
    <2> QED BY <2>5
  <1>11. S = Preds(g, m) \cup {m} /\ m \notin Preds(g, m)
    <2>1. m \in D /\ Rank(m) < n
      BY <1>3, <1>10
    <2>2. m \notin Preds(g, m)
      BY <1>2, <1>4, <2>1
    <2>3. ASSUME NEW j \in S, j # m PROVE j \in Preds(g, m)
      <3>1. j \in D /\ Rank(j) <= Rank(m)
        BY <1>3, <1>10, <2>3
      <3>2. ~(Rank(m) < Rank(j))
        BY <1>2, <3>1
      <3>3. Precedes(g, j, m)
        BY <1>2, <2>1, <2>3, <3>1, <3>2
      <3> QED BY <1>4, <3>1, <3>3
    <2>4. ASSUME NEW j \in Preds(g, m) PROVE j \in S
      <3>1. j \in D /\ Rank(j) < Rank(m)
        BY <1>2, <1>4, <2>1, <2>4
      <3>2. Rank(j) < n
        BY <1>2, <2>1, <3>1
      <3> QED BY <1>3, <3>1, <3>2
    <2> QED BY <1>10, <2>2, <2>3, <2>4
  <1>12. Cardinality(S) = Rank(m) + 1
    <2>1. Cardinality(Preds(g, m) \cup {m}) = Cardinality(Preds(g, m)) + 1
      BY <1>2, <1>11, FS_AddElement
    <2> QED BY <1>11, <2>1, Zenon DEF Rank
  <1>13. Rank(m) < n
    BY <1>3, <1>10
  <1>14. Cardinality(S) = n
    BY <1>2, <1>9, <1>12, <1>13
  <1> QED BY <1>6, <1>14 DEF S

\* The biggest groups are the groups of the flows that are shown.
Within(S, key, K) == {f \in S : key[f] \in K}

LEMMA BiggestGroups ==
  ASSUME NEW r, IsTable(r), NEW S \in SUBSET DOMAIN r, NEW key, NEW n,
         NEW K, K = Shown(Grouped(r, S, key), n)
  PROVE  /\ DOMAIN Biggest(Grouped(r, S, key), n) = K
         /\ K \subseteq Keys(S, key)
         /\ \A k \in K : Biggest(Grouped(r, S, key), n)[k] = Totals(r, Part(S, key, k))
         /\ Biggest(Grouped(r, S, key), n) = Grouped(r, Within(S, key, K), key)
  <1> DEFINE g == Grouped(r, S, key)
             T == Within(S, key, K)
  <1>1. DOMAIN g = Keys(S, key) /\ \A k \in Keys(S, key) : g[k] = Totals(r, Part(S, key, k))
    BY GroupedLaws
  <1>2. K \subseteq Keys(S, key)
    BY <1>1 DEF Shown
  <1>3. Biggest(g, n) = [k \in K |-> g[k]]
    BY BiggestIs
  <1> HIDE DEF g
  <1>4. Keys(T, key) = K
    BY <1>2 DEF Keys, Within
  <1>5. \A k \in K : Part(T, key, k) = Part(S, key, k)
    BY DEF Part, Within
  <1>6. Grouped(r, T, key) = [k \in Keys(T, key) |-> Totals(r, Part(T, key, k))]
    BY DEF Grouped, Keys, Part
  <1>7. Grouped(r, T, key) = [k \in K |-> g[k]]
    <2> HIDE DEF T
    <2> QED BY <1>1, <1>2, <1>4, <1>5, <1>6
  <1>8. \A k \in K : Biggest(g, n)[k] = Totals(r, Part(S, key, k))
    BY <1>1, <1>2, <1>3
  <1> HIDE DEF T
  <1>9. Biggest(g, n) = Grouped(r, T, key) /\ DOMAIN Biggest(g, n) = K
    BY <1>3, <1>7
  <1> QED BY <1>2, <1>8, <1>9 DEF g, T

LEMMA SplitAddsUp ==
  ASSUME IsTable(rows), NEW S \in SUBSET DOMAIN rows
  PROVE  SplitIsHonest(Usage(rows, S), S)
  <1> DEFINE A == {f \in S : AppOf[f] # None}
             B == {f \in S : AppOf[f] = None}
             g == Grouped(rows, A, AppOf)
             apps == Biggest(g, MaxUsage)
             side == [f \in Flow |-> f \in Broadcast]
             rest == Grouped(rows, B, side)
             shown == Shown(g, MaxUsage)
             seen == Within(A, AppOf, shown)
             hidden == {f \in S : AppOf[f] \notin shown \cup {None}}
  <1>1. MaxUsage \in Nat \ {0} /\ None \notin Int
    BY QueriesAssumption, NoneAssumption
  <1>2. A \in SUBSET DOMAIN rows /\ B \in SUBSET DOMAIN rows /\ seen \in SUBSET DOMAIN rows
        /\ hidden \in SUBSET DOMAIN rows
    BY DEF Within
  <1>3. Usage(rows, S) = [apps |-> apps, rest |-> rest]
    BY DEF Usage
  <1>4. /\ DOMAIN apps = shown /\ shown \subseteq Keys(A, AppOf)
        /\ \A k \in shown : apps[k] = Totals(rows, Part(A, AppOf, k))
        /\ apps = Grouped(rows, seen, AppOf)
    <2> HIDE DEF A, shown
    <2>1. shown = Shown(Grouped(rows, A, AppOf), MaxUsage)
      BY DEF shown
    <2> QED BY <1>2, <2>1, BiggestGroups
  <1>5. Whole(apps) = Totals(rows, seen) /\ Whole(rest) = Totals(rows, B)
    <2> HIDE DEF A, B, g, apps, rest, side, shown, seen
    <2>1. Whole(Grouped(rows, seen, AppOf)) = Totals(rows, seen)
      BY <1>2, GroupedWhole
    <2>2. Whole(Grouped(rows, B, side)) = Totals(rows, B)
      BY <1>2, GroupedWhole
    <2> QED BY <1>4, <2>1, <2>2 DEF rest
  <1>6. /\ Totals(rows, seen).in \in Nat /\ Totals(rows, seen).out \in Nat
        /\ Totals(rows, seen).in + Totals(rows, seen).out = Bytes(rows, seen)
        /\ Totals(rows, B).in \in Nat /\ Totals(rows, B).out \in Nat
        /\ Totals(rows, B).in + Totals(rows, B).out = Bytes(rows, B)
    <2> HIDE DEF A, B, g, shown, seen
    <2> QED BY <1>2, TotalsLaws
  <1>7. Bytes(rows, S) = Bytes(rows, seen) + Bytes(rows, B) + Bytes(rows, hidden)
    <2>1. /\ seen \cap B = {} /\ (seen \cup B) \cap hidden = {} /\ (seen \cup B) \cup hidden = S
          /\ seen \cup B \in SUBSET DOMAIN rows
      <3>1. None \notin shown
        <4>1. \A k \in Keys(A, AppOf) : k # None
          BY DEF Keys
        <4> QED BY <1>4, <4>1
      <3> HIDE DEF shown
      <3> QED BY <3>1 DEF Within
    <2> HIDE DEF A, B, g, shown, seen, hidden
    <2>2. Bytes(rows, seen \cup B) = Bytes(rows, seen) + Bytes(rows, B)
      BY <1>2, <2>1, BytesLaws
    <2>3. Bytes(rows, (seen \cup B) \cup hidden) = Bytes(rows, seen \cup B) + Bytes(rows, hidden)
      BY <1>2, <2>1, BytesLaws
    <2> QED BY <2>1, <2>2, <2>3
  <1>8. Bytes(rows, hidden) \in Nat
    <2> HIDE DEF hidden
    <2> QED BY <1>2, BytesLaws
  <1>9. Groups(g) /\ DOMAIN g = Keys(A, AppOf) /\ DOMAIN g \subseteq Int
    <2>1. Groups(g) /\ DOMAIN g = Keys(A, AppOf)
      <3> HIDE DEF A
      <3> QED BY <1>2, GroupedLaws
    <2>2. \A f \in A : AppOf[f] \in Int
      BY QueriesAssumption DEF IsTable
    <2>3. Keys(A, AppOf) \subseteq Int
      BY <2>2 DEF Keys
    <2> QED BY <2>1, <2>3
  <1>10. ASSUME NEW f \in hidden
         PROVE  /\ Cardinality(shown) = MaxUsage
                /\ \A p \in shown : rows[f].bytes <= apps[p].in + apps[p].out
    <2> DEFINE h == AppOf[f]
               P == Part(A, AppOf, h)
    <2>1. h \in DOMAIN g \ shown /\ f \in A
      <3>1. f \in A /\ h \notin shown
        OBVIOUS
      <3>2. h \in Keys(A, AppOf)
        BY <3>1 DEF Keys
      <3> HIDE DEF g, shown, A
      <3> QED BY <1>9, <3>1, <3>2
    <2>2. Cardinality(shown) = MaxUsage /\ \A p \in shown : SizeOf(g, h) <= SizeOf(g, p)
      <3> HIDE DEF g, h
      <3> QED BY <1>1, <1>9, <2>1, BiggestLaws
    <2>3. g[h] = Totals(rows, P)
      <3> HIDE DEF A, shown, h
      <3> QED BY <1>2, <1>9, <2>1, GroupedLaws
    <2>4. P \in SUBSET DOMAIN rows /\ f \in P
      BY <2>1 DEF Part
    <2>5. rows[f].bytes <= Bytes(rows, P) /\ Bytes(rows, P) = SizeOf(g, h)
      <3> HIDE DEF P, g, h
      <3>1. rows[f].bytes <= Bytes(rows, P)
        BY <2>4, BytesLaws
      <3>2. Totals(rows, P).in + Totals(rows, P).out = Bytes(rows, P)
        BY <2>4, TotalsLaws
      <3> QED BY <2>3, <3>1, <3>2 DEF SizeOf
    <2>6. \A p \in shown : g[p] = apps[p] /\ SizeOf(g, p) \in Nat
      <3>1. apps = [k \in shown |-> g[k]] /\ shown \subseteq DOMAIN g
        BY BiggestIs DEF Shown
      <3> HIDE DEF g, apps, shown
      <3> QED BY <1>9, <3>1 DEF Groups, Group, SizeOf
    <2>7. SizeOf(g, h) \in Nat
      <3> HIDE DEF g, h, shown
      <3> QED BY <1>9, <2>1 DEF Groups, Group, SizeOf
    <2>8. rows[f].bytes \in Nat
      BY <2>4, TableLaws
    <2>9. ASSUME NEW p \in shown PROVE rows[f].bytes <= apps[p].in + apps[p].out
      <3>1. SizeOf(g, h) <= SizeOf(g, p) /\ SizeOf(g, p) \in Nat /\ SizeOf(g, p) = apps[p].in + apps[p].out
        BY <2>2, <2>6 DEF SizeOf
      <3> HIDE DEF g, apps, shown, h, P
      <3> QED BY <2>5, <2>7, <2>8, <3>1
    <2> QED BY <2>2, <2>9
  <1>11. \A f \in hidden, p \in shown : rows[f].bytes <= apps[p].in + apps[p].out
    <2> HIDE DEF hidden, shown, apps
    <2> QED BY <1>10
  <1>12. hidden # {} => Cardinality(shown) = MaxUsage
    <2> HIDE DEF hidden, shown, apps
    <2> QED BY <1>10
  <1>13. Whole(apps).in + Whole(apps).out + Whole(rest).in + Whole(rest).out + Bytes(rows, hidden)
           = Bytes(rows, S)
    <2> HIDE DEF A, B, g, apps, rest, shown, seen, hidden
    <2> QED BY <1>5, <1>6, <1>7, <1>8
  <1>14. hidden = {f \in S : AppOf[f] \notin DOMAIN apps \cup {None}}
    <2> HIDE DEF apps, shown
    <2> QED BY <1>4
  <1> DEFINE usage == Usage(rows, S)
  <1>15. usage.apps = apps /\ usage.rest = rest
    BY <1>3
  <1> HIDE DEF apps, rest, shown, hidden, usage
  <1>16. SplitIsHonest(usage, S)
    BY <1>4, <1>11, <1>12, <1>13, <1>14, <1>15 DEF SplitIsHonest
  <1> QED BY <1>16 DEF usage

LEMMA ListsSumUp ==
  ASSUME IsTable(rows) PROVE ListsSum
  <1> SUFFICES ASSUME NEW q \in Asked
               PROVE  LET S == Selected(rows, q, now)
                          N == Unnamed(rows, q, now)
                          byApp == Whole(Applications(rows, q, now))
                      IN /\ Whole(Endpoints(rows, q, now)) = Totals(rows, S)
                         /\ byApp.in + byApp.out + Bytes(rows, {f \in N : AppOf[f] = None})
                              = Bytes(rows, N)
    BY DEF ListsSum
  <1> DEFINE S == Selected(rows, q, now)
             N == Unnamed(rows, q, now)
             A == {f \in N : AppOf[f] # None}
             B == {f \in N : AppOf[f] = None}
             byApp == Whole(Applications(rows, q, now))
  <1>1. S \in SUBSET DOMAIN rows /\ N \in SUBSET DOMAIN rows
    BY DEF Selected, Unnamed
  <1>2. /\ A \in SUBSET DOMAIN rows /\ B \in SUBSET DOMAIN rows
        /\ A \cap B = {} /\ A \cup B = N
    BY <1>1
  <1>3. Whole(Endpoints(rows, q, now)) = Totals(rows, S)
    <2> HIDE DEF S, N
    <2>1. Whole(Grouped(rows, S, RemoteOf)) = Totals(rows, S)
      BY <1>1, GroupedWhole
    <2> QED BY <2>1 DEF Endpoints, S
  <1>4. byApp = Totals(rows, A)
    <2>1. Applications(rows, q, now) = Grouped(rows, A, AppOf)
      BY DEF Applications
    <2> HIDE DEF A
    <2>2. Whole(Grouped(rows, A, AppOf)) = Totals(rows, A)
      BY <1>2, GroupedWhole
    <2> QED BY <2>1, <2>2
  <1> HIDE DEF A, B, byApp
  <1>5. byApp.in + byApp.out = Bytes(rows, A)
    BY <1>2, <1>4, TotalsLaws
  <1>6. Bytes(rows, A \cup B) = Bytes(rows, A) + Bytes(rows, B)
    BY <1>2, BytesLaws
  <1>7. byApp.in + byApp.out + Bytes(rows, B) = Bytes(rows, N)
    BY <1>2, <1>5, <1>6
  <1> QED BY <1>3, <1>7 DEF byApp, B

LEMMA AllSelected ==
  ASSUME NEW r, NEW t
  PROVE  /\ Selected(r, AnyQuery, t) = DOMAIN r
         /\ Selected(r, [AnyQuery EXCEPT !.name = None], t) = DOMAIN r
         /\ \A x : Selected(r, [[AnyQuery EXCEPT !.name = x] EXCEPT !.name = None], t) = DOMAIN r
  <1>1. /\ AnyQuery.range = None /\ AnyQuery.direction = None /\ AnyQuery.state = None
        /\ AnyQuery.service = None /\ AnyQuery.app = None /\ AnyQuery.name = None
    BY DEF AnyQuery
  <1>2. Selected(r, AnyQuery, t) = DOMAIN r
    BY <1>1 DEF Selected
  <1>3. ASSUME NEW x
        PROVE  Selected(r, [[AnyQuery EXCEPT !.name = x] EXCEPT !.name = None], t) = DOMAIN r
    <2> DEFINE q == [[AnyQuery EXCEPT !.name = x] EXCEPT !.name = None]
    <2>1. /\ q.range = None /\ q.direction = None /\ q.state = None
          /\ q.service = None /\ q.app = None /\ q.name = None
      BY DEF AnyQuery
    <2> HIDE DEF q
    <2>2. Selected(r, q, t) = DOMAIN r
      BY <2>1 DEF Selected
    <2> QED BY <2>2 DEF q
  <1>4. Selected(r, [AnyQuery EXCEPT !.name = None], t) = DOMAIN r
    <2> DEFINE q == [AnyQuery EXCEPT !.name = None]
    <2>1. /\ q.range = None /\ q.direction = None /\ q.state = None
          /\ q.service = None /\ q.app = None /\ q.name = None
      BY DEF AnyQuery
    <2> HIDE DEF q
    <2>2. Selected(r, q, t) = DOMAIN r
      BY <2>1 DEF Selected
    <2> QED BY <2>2 DEF q
  <1> QED BY <1>2, <1>3, <1>4

LEMMA ApplicationsSame ==
  ASSUME IsTable(rows) PROVE ApplicationsAgree
  <1> DEFINE apps == Applications(rows, AnyQuery, now)
             A == {f \in DOMAIN rows : AppOf[f] # None}
  <1>1. apps = Grouped(rows, A, AppOf)
    BY AllSelected DEF Applications, Unnamed
  <1>2. DOMAIN apps = Keys(A, AppOf) /\ \A p \in Keys(A, AppOf) : apps[p] = Totals(rows, Part(A, AppOf, p))
    <2>1. A \in SUBSET DOMAIN rows
      OBVIOUS
    <2> HIDE DEF A, apps
    <2> QED BY <1>1, <2>1, GroupedLaws
  <1> HIDE DEF apps
  <1>3. ASSUME NEW p \in DOMAIN apps PROVE ApplicationDetail(rows, p, now).totals = apps[p]
    <2> DEFINE q == [AnyQuery EXCEPT !.app = p]
               asked == [q EXCEPT !.name = None]
               C == {f \in Selected(rows, asked, now) : AppOf[f] # None}
    <2>1. p \in Keys(A, AppOf) /\ p # None
      BY <1>2, <1>3 DEF Keys
    <2>2. /\ asked.range = None /\ asked.direction = None /\ asked.state = None
          /\ asked.service = None /\ asked.app = p /\ asked.name = None
      BY DEF AnyQuery
    <2>0. Selected(rows, asked, now) = Unnamed(rows, q, now)
      BY DEF Unnamed
    <2> HIDE DEF q, asked
    <2>3. C = Part(A, AppOf, p)
      BY <2>1, <2>2 DEF Selected, Part
    <2>4. Applications(rows, q, now) = Grouped(rows, C, AppOf)
      BY <2>0 DEF Applications
    <2> HIDE DEF C, A
    <2>5. Keys(C, AppOf) = {p} /\ Part(C, AppOf, p) = C
      BY <2>1, <2>3 DEF Keys, Part
    <2>6. C \in SUBSET DOMAIN rows
      BY <2>3 DEF Part, A
    <2>7. Grouped(rows, C, AppOf)[p] = Totals(rows, C)
      BY <2>5, <2>6, GroupedLaws
    <2>8. ApplicationDetail(rows, p, now).totals = Applications(rows, q, now)[p]
      BY DEF ApplicationDetail, q
    <2> QED BY <1>2, <2>1, <2>3, <2>4, <2>7, <2>8
  <1> QED BY <1>3 DEF ApplicationsAgree, apps

Named(x) == {f \in DOMAIN rows : x \in NamesOf[f]}
Known == UNION {NamesOf[f] : f \in DOMAIN rows}

LEMMA DomainsAre ==
  /\ DOMAIN Domains(rows, AnyQuery, now) = Known
  /\ \A x \in Known : Domains(rows, AnyQuery, now)[x] = Totals(rows, Named(x))
  /\ \A x \in Known : Domains(rows, [AnyQuery EXCEPT !.name = x], now)[x] = Totals(rows, Named(x))
  <1>1. Domains(rows, AnyQuery, now) = [x \in Known |-> Totals(rows, Named(x))]
    <2> DEFINE K == {y \in Known : AnyQuery.name \in {None, y}}
    <2>1. Selected(rows, [AnyQuery EXCEPT !.name = None], now) = DOMAIN rows
      BY AllSelected
    <2>2. K = Known
      <3>1. AnyQuery.name = None
        BY DEF AnyQuery
      <3> QED BY <3>1
    <2>3. Domains(rows, AnyQuery, now) = [y \in K |-> Totals(rows, Named(y))]
      BY <2>1 DEF Domains, Unnamed, Known, Named
    <2> HIDE DEF K
    <2> QED BY <2>2, <2>3
  <1>2. ASSUME NEW x \in Known
        PROVE  Domains(rows, [AnyQuery EXCEPT !.name = x], now)[x] = Totals(rows, Named(x))
    <2> DEFINE q == [AnyQuery EXCEPT !.name = x]
               K == {y \in Known : q.name \in {None, y}}
    <2>1. Selected(rows, [q EXCEPT !.name = None], now) = DOMAIN rows
      BY AllSelected
    <2>2. x \in K
      <3>1. q.name = x
        BY DEF AnyQuery
      <3> HIDE DEF q
      <3> QED BY <3>1
    <2> HIDE DEF q
    <2>3. Domains(rows, q, now) = [y \in K |-> Totals(rows, Named(y))]
      BY <2>1 DEF Domains, Unnamed, Known, Named
    <2> HIDE DEF K
    <2> QED BY <2>2, <2>3 DEF q
  <1> QED BY <1>1, <1>2

LEMMA UsageApps ==
  ASSUME IsTable(rows), NEW S \in SUBSET DOMAIN rows, NEW p \in DOMAIN Usage(rows, S).apps
  PROVE  /\ \E f \in S : AppOf[f] = p
         /\ p # None
         /\ Usage(rows, S).apps[p] = Totals(rows, Part(S, AppOf, p))
  <1> DEFINE A == {f \in S : AppOf[f] # None}
             K == Shown(Grouped(rows, A, AppOf), MaxUsage)
             apps == Biggest(Grouped(rows, A, AppOf), MaxUsage)
  <1>1. A \in SUBSET DOMAIN rows
    OBVIOUS
  <1>2. Usage(rows, S).apps = apps
    BY DEF Usage
  <1>3. /\ DOMAIN apps = K /\ K \subseteq Keys(A, AppOf)
        /\ \A k \in K : apps[k] = Totals(rows, Part(A, AppOf, k))
    <2> HIDE DEF A, K
    <2>1. K = Shown(Grouped(rows, A, AppOf), MaxUsage)
      BY DEF K
    <2> QED BY <1>1, <2>1, BiggestGroups
  <1>4. p \in K
    <2> HIDE DEF K, apps
    <2> QED BY <1>2, <1>3
  <1>5. p \in Keys(A, AppOf)
    <2> HIDE DEF A, K
    <2> QED BY <1>3, <1>4
  <1>6. (\E f \in S : AppOf[f] = p) /\ p # None
    BY <1>5 DEF Keys
  <1>7. Part(A, AppOf, p) = Part(S, AppOf, p)
    BY <1>6 DEF Part
  <1>8. apps[p] = Totals(rows, Part(S, AppOf, p))
    <2> HIDE DEF A, K, apps
    <2> QED BY <1>3, <1>4, <1>7
  <1> HIDE DEF apps
  <1> QED BY <1>2, <1>6, <1>8

LEMMA DomainsSame ==
  ASSUME IsTable(rows) PROVE DomainsAgree
  <1> DEFINE domains == Domains(rows, AnyQuery, now)
  <1>1. DOMAIN domains = Known /\ \A x \in Known : domains[x] = Totals(rows, Named(x))
    BY DomainsAre
  <1> HIDE DEF domains
  <1>2. ASSUME NEW x \in DOMAIN domains
        PROVE  LET page == DomainDetail(rows, x, now)
               IN /\ page.totals = domains[x] /\ Whole(page.addresses) = domains[x]
                  /\ SplitIsHonest(page.usage, {f \in DOMAIN rows : x \in NamesOf[f]})
                  /\ \A p \in DOMAIN page.usage.apps : x \in ApplicationDetail(rows, p, now).names
    <2> DEFINE page == DomainDetail(rows, x, now)
    <2>1. Named(x) \in SUBSET DOMAIN rows
      BY DEF Named
    <2>2. /\ page.totals = Domains(rows, [AnyQuery EXCEPT !.name = x], now)[x]
          /\ page.addresses = Grouped(rows, Named(x), RemoteOf)
          /\ page.usage = Usage(rows, Named(x))
      BY DEF DomainDetail, Named
    <2> HIDE DEF page
    <2>3. page.totals = domains[x]
      BY <1>1, <1>2, <2>2, DomainsAre
    <2>4. Whole(page.addresses) = domains[x]
      <3>1. Whole(Grouped(rows, Named(x), RemoteOf)) = Totals(rows, Named(x))
        BY <2>1, GroupedWhole
      <3> QED BY <1>1, <1>2, <2>2, <3>1
    <2>5. SplitIsHonest(page.usage, Named(x))
      BY <2>1, <2>2, SplitAddsUp
    <2>6. ASSUME NEW p \in DOMAIN page.usage.apps PROVE x \in ApplicationDetail(rows, p, now).names
      <3>1. \E f \in Named(x) : AppOf[f] = p
        BY <2>1, <2>2, <2>6, UsageApps
      <3>2. ApplicationDetail(rows, p, now).names
              = UNION {NamesOf[f] : f \in {g \in DOMAIN rows : AppOf[g] = p}}
        BY DEF ApplicationDetail
      <3> QED BY <3>1, <3>2 DEF Named
    <2>7. SplitIsHonest(page.usage, {f \in DOMAIN rows : x \in NamesOf[f]})
      BY <2>5 DEF Named
    <2> QED BY <2>3, <2>4, <2>6, <2>7 DEF page
  <1> QED BY <1>2 DEF DomainsAgree, domains

LEMMA EndpointsSame ==
  ASSUME IsTable(rows) PROVE EndpointsAgree
  <1> DEFINE endpoints == Endpoints(rows, AnyQuery, now)
             domains == Domains(rows, AnyQuery, now)
             of(a) == Part(DOMAIN rows, RemoteOf, a)
  <1>1. endpoints = Grouped(rows, DOMAIN rows, RemoteOf)
    BY AllSelected DEF Endpoints
  <1>2. \A a : of(a) \in SUBSET DOMAIN rows
    BY DEF Part
  <1>3. \A a \in DOMAIN endpoints : endpoints[a] = Totals(rows, of(a))
    <2> HIDE DEF endpoints
    <2> QED BY <1>1, GroupedLaws
  <1>4. DOMAIN domains = Known
    BY DomainsAre
  <1> HIDE DEF endpoints, domains
  <1>5. ASSUME NEW a \in DOMAIN endpoints
        PROVE  LET page == EndpointDetail(rows, a)
               IN /\ page.totals = endpoints[a]
                  /\ SplitIsHonest(page.usage, {f \in DOMAIN rows : RemoteOf[f] = a})
                  /\ \A x \in DOMAIN domains :
                       x \in page.names <=> a \in DOMAIN DomainDetail(rows, x, now).addresses
                  /\ \A p \in DOMAIN page.usage.apps :
                       LET shown == ApplicationDetail(rows, p, now).destinations
                       IN a \in DOMAIN shown => shown[a] = page.usage.apps[p]
    <2> DEFINE page == EndpointDetail(rows, a)
               S == of(a)
    <2>1. /\ page.totals = Totals(rows, S) /\ page.usage = Usage(rows, S)
          /\ page.names = UNION {NamesOf[f] : f \in S}
      BY DEF EndpointDetail, Part
    <2>2. S \in SUBSET DOMAIN rows /\ S = {f \in DOMAIN rows : RemoteOf[f] = a}
      BY DEF Part
    <2> HIDE DEF page
    <2>3. page.totals = endpoints[a]
      BY <1>3, <1>5, <2>1
    <2>4. SplitIsHonest(page.usage, S)
      <3> HIDE DEF of
      <3> QED BY <2>1, <2>2, SplitAddsUp
    <2>5. ASSUME NEW x
          PROVE  x \in page.names <=> a \in DOMAIN DomainDetail(rows, x, now).addresses
      <3>1. DomainDetail(rows, x, now).addresses = Grouped(rows, Named(x), RemoteOf)
        BY DEF DomainDetail, Named
      <3>2. DOMAIN Grouped(rows, Named(x), RemoteOf) = Keys(Named(x), RemoteOf)
        BY DEF Grouped, Keys
      <3>3. x \in page.names <=> \E f \in DOMAIN rows : RemoteOf[f] = a /\ x \in NamesOf[f]
        BY <2>1, <2>2
      <3>4. a \in Keys(Named(x), RemoteOf) <=> \E f \in DOMAIN rows : RemoteOf[f] = a /\ x \in NamesOf[f]
        BY DEF Keys, Named
      <3> QED BY <3>1, <3>2, <3>3, <3>4
    <2>6. ASSUME NEW p \in DOMAIN page.usage.apps,
                 a \in DOMAIN ApplicationDetail(rows, p, now).destinations
          PROVE  ApplicationDetail(rows, p, now).destinations[a] = page.usage.apps[p]
      <3> DEFINE P == {f \in DOMAIN rows : AppOf[f] = p}
                 K == Shown(Grouped(rows, P, RemoteOf), MaxDestinations)
                 shown == Biggest(Grouped(rows, P, RemoteOf), MaxDestinations)
      <3>1. ApplicationDetail(rows, p, now).destinations = shown
        BY DEF ApplicationDetail, Destinations
      <3>2. DOMAIN shown = K /\ \A k \in K : shown[k] = Totals(rows, Part(P, RemoteOf, k))
        <4>1. P \in SUBSET DOMAIN rows
          OBVIOUS
        <4> HIDE DEF P, K
        <4>2. K = Shown(Grouped(rows, P, RemoteOf), MaxDestinations)
          BY DEF K
        <4> QED BY <4>1, <4>2, BiggestGroups
      <3>3. page.usage.apps[p] = Totals(rows, Part(S, AppOf, p))
        <4> HIDE DEF of
        <4> QED BY <2>1, <2>2, <2>6, UsageApps
      <3>4. Part(P, RemoteOf, a) = Part(S, AppOf, p)
        BY <2>2 DEF Part
      <3> HIDE DEF P, K, shown, of
      <3> QED BY <2>6, <3>1, <3>2, <3>3, <3>4
    <2>7. SplitIsHonest(page.usage, {f \in DOMAIN rows : RemoteOf[f] = a})
      BY <2>2, <2>4
    <2> HIDE DEF of
    <2> QED BY <2>3, <2>5, <2>6, <2>7 DEF page
  <1> QED BY <1>5 DEF EndpointsAgree, endpoints, domains

LEMMA MaxIsIn ==
  ASSUME NEW T, T \subseteq Int, IsFiniteSet(T), T # {}
  PROVE  Max(T) \in T
  <1> DEFINE C == {t \in SUBSET T : t # {} /\ ~\E x \in t : \A y \in t : x >= y}
  <1>1. C = {}
    <2>0. SUFFICES ASSUME C # {} PROVE FALSE
      OBVIOUS
    <2>1. PICK t \in C : \A u \in C : u \subseteq t => u = t
      <3>1. C \in SUBSET (SUBSET T)
        OBVIOUS
      <3>2. IsFiniteSet(T)
        OBVIOUS
      <3> HIDE DEF C
      <3> QED BY ONLY <2>0, <3>1, <3>2, SmallestSubset
    <2>2. t \in SUBSET T /\ t # {} /\ ~\E x \in t : \A y \in t : x >= y
      BY <2>1
    <2>3. PICK z : z \in t
      BY <2>2
    <2>4. t \ {z} \in SUBSET T /\ t \ {z} \notin C
      BY <2>1, <2>2, <2>3
    <2>5. t \ {z} # {}
      BY <2>2, <2>3
    <2>6. PICK x \in t \ {z} : \A y \in t \ {z} : x >= y
      BY <2>4, <2>5
    <2> HIDE DEF C
    <2> QED BY <2>2, <2>3, <2>6
  <1>2. T \in SUBSET T /\ T \notin C
    BY <1>1
  <1>3. \E x \in T : \A y \in T : x >= y
    BY <1>2
  <1> QED BY <1>3 DEF Max

Active(S) == \E f \in S : rows[f].active

LEMMA ConnectionsAre ==
  ASSUME IsTable(rows), NEW q,
         Selected(rows, [q EXCEPT !.direction = None, !.state = None, !.service = None], now) = DOMAIN rows,
         NEW p \in Keys(DOMAIN rows, PairOf)
  PROVE  /\ p \in DOMAIN Connections(rows, q, now) <=>
              /\ q.service # None => ServiceIs(Part(DOMAIN rows, PairOf, p), q.service)
              /\ q.state # None => q.state = Active(Part(DOMAIN rows, PairOf, p))
         /\ p \in DOMAIN Connections(rows, q, now) =>
              Connections(rows, q, now)[p] = Totals(rows, Part(DOMAIN rows, PairOf, p))
  <1> DEFINE all == Grouped(rows, DOMAIN rows, PairOf)
             K == {x \in Keys(DOMAIN rows, PairOf) :
                     /\ q.service # None => ServiceIs(Part(DOMAIN rows, PairOf, x), q.service)
                     /\ q.state # None => q.state = Active(Part(DOMAIN rows, PairOf, x))}
  <1>1. Connections(rows, q, now) = Restrict(all, K)
    BY DEF Connections, Keys, Part, Active
  <1>2. DOMAIN all = Keys(DOMAIN rows, PairOf) /\ all[p] = Totals(rows, Part(DOMAIN rows, PairOf, p))
    BY GroupedLaws
  <1>3. K \subseteq Keys(DOMAIN rows, PairOf)
    OBVIOUS
  <1> HIDE DEF all
  <1>4. DOMAIN Restrict(all, K) = K /\ \A x \in K : Restrict(all, K)[x] = all[x]
    <2> HIDE DEF K
    <2> QED BY <1>2, <1>3 DEF Restrict
  <1>5. p \in K <=> /\ q.service # None => ServiceIs(Part(DOMAIN rows, PairOf, p), q.service)
                    /\ q.state # None => q.state = Active(Part(DOMAIN rows, PairOf, p))
    OBVIOUS
  <1> HIDE DEF K
  <1> QED BY <1>1, <1>2, <1>4, <1>5

LEMMA ConnectionsSame ==
  ASSUME IsTable(rows) PROVE ConnectionsAreWhole
  <1> DEFINE q0 == AnyQuery
             qs(b) == [AnyQuery EXCEPT !.state = b]
             qn(n) == [AnyQuery EXCEPT !.service = n]
             strip(q) == [q EXCEPT !.direction = None, !.state = None, !.service = None]
  <1>1. /\ Selected(rows, strip(q0), now) = DOMAIN rows
        /\ q0.service = None /\ q0.state = None
    <2> DEFINE q == strip(q0)
    <2>1. /\ q.range = None /\ q.direction = None /\ q.state = None
          /\ q.service = None /\ q.app = None /\ q.name = None
      BY DEF AnyQuery
    <2> HIDE DEF q
    <2>2. Selected(rows, q, now) = DOMAIN rows
      BY <2>1 DEF Selected
    <2> QED BY <2>2 DEF q, AnyQuery
  <1>2. ASSUME NEW b
        PROVE  Selected(rows, strip(qs(b)), now) = DOMAIN rows /\ qs(b).service = None /\ qs(b).state = b
    <2> DEFINE q == strip(qs(b))
    <2>1. /\ q.range = None /\ q.direction = None /\ q.state = None
          /\ q.service = None /\ q.app = None /\ q.name = None
      BY DEF AnyQuery
    <2> HIDE DEF q
    <2>2. Selected(rows, q, now) = DOMAIN rows
      BY <2>1 DEF Selected
    <2> QED BY <2>2 DEF q, AnyQuery
  <1>3. ASSUME NEW n
        PROVE  Selected(rows, strip(qn(n)), now) = DOMAIN rows /\ qn(n).service = n /\ qn(n).state = None
    <2> DEFINE q == strip(qn(n))
    <2>1. /\ q.range = None /\ q.direction = None /\ q.state = None
          /\ q.service = None /\ q.app = None /\ q.name = None
      BY DEF AnyQuery
    <2> HIDE DEF q
    <2>2. Selected(rows, q, now) = DOMAIN rows
      BY <2>1 DEF Selected
    <2> QED BY <2>2 DEF q, AnyQuery
  <1> SUFFICES ASSUME NEW p \in Keys(DOMAIN rows, PairOf)
               PROVE  LET S == {f \in DOMAIN rows : PairOf[f] = p}
                          states == {b \in BOOLEAN : p \in DOMAIN Connections(rows, qs(b), now)}
                          services == {n \in Services(DOMAIN rows) :
                                         p \in DOMAIN Connections(rows, qn(n), now)}
                      IN /\ p \in DOMAIN Connections(rows, q0, now)
                         /\ Connections(rows, q0, now)[p] = Totals(rows, S)
                         /\ \A b \in states : Connections(rows, qs(b), now)[p] = Totals(rows, S)
                         /\ \A n \in services : Connections(rows, qn(n), now)[p] = Totals(rows, S)
                         /\ Cardinality(states) = 1
                         /\ Cardinality(services) = IF Services(S) = {} THEN 0 ELSE 1
    BY DEF ConnectionsAreWhole, Keys
  <1> DEFINE S == Part(DOMAIN rows, PairOf, p)
             states == {b \in BOOLEAN : p \in DOMAIN Connections(rows, qs(b), now)}
             services == {n \in Services(DOMAIN rows) : p \in DOMAIN Connections(rows, qn(n), now)}
  <1>4. S = {f \in DOMAIN rows : PairOf[f] = p} /\ S \subseteq DOMAIN rows
    BY DEF Part
  <1>5. p \in DOMAIN Connections(rows, q0, now) /\ Connections(rows, q0, now)[p] = Totals(rows, S)
    <2> HIDE DEF q0
    <2> QED BY <1>1, ConnectionsAre
  <1>6. ASSUME NEW b \in BOOLEAN
        PROVE  /\ p \in DOMAIN Connections(rows, qs(b), now) <=> b = Active(S)
               /\ p \in DOMAIN Connections(rows, qs(b), now) =>
                    Connections(rows, qs(b), now)[p] = Totals(rows, S)
    <2>1. b # None
      <3>1. None \notin BOOLEAN
        BY NoneAssumption
      <3> QED BY <3>1, Zenon
    <2> HIDE DEF qs, S
    <2> QED BY <1>2, <2>1, ConnectionsAre DEF S
  <1>7. ASSUME NEW n \in Services(DOMAIN rows)
        PROVE  /\ p \in DOMAIN Connections(rows, qn(n), now) <=> ServiceIs(S, n)
               /\ p \in DOMAIN Connections(rows, qn(n), now) =>
                    Connections(rows, qn(n), now)[p] = Totals(rows, S)
    <2>1. n # None
      BY DEF Services
    <2> HIDE DEF qn, S
    <2> QED BY <1>3, <2>1, ConnectionsAre DEF S
  <1>8. Cardinality(states) = 1
    <2>1. Active(S) \in BOOLEAN
      BY DEF Active
    <2>2. states = {Active(S)}
      <3> HIDE DEF qs, S
      <3> QED BY <1>6, <2>1
    <2> HIDE DEF states, S
    <2> QED BY <2>2, FS_Singleton
  <1>9. Cardinality(services) = IF Services(S) = {} THEN 0 ELSE 1
    <2>1. services = {n \in Services(DOMAIN rows) : ServiceIs(S, n)}
      <3> HIDE DEF qn, S
      <3> QED BY <1>7
    <2>2. CASE Services(S) = {}
      <3>1. services = {}
        <4> HIDE DEF S, services
        <4> QED BY <2>1, <2>2 DEF ServiceIs
      <3> HIDE DEF S, services
      <3> QED BY <2>2, <3>1, FS_EmptySet
    <2>3. CASE Services(S) # {}
      <3>1. Services(S) \in SUBSET Int /\ IsFiniteSet(Services(S)) /\ Services(S) \subseteq Services(DOMAIN rows)
        <4>1. IsFiniteSet(Keys(S, ServiceOf))
          <5>1. IsFiniteSet(S)
            BY <1>4, TableLaws, FS_Subset
          <5> DEFINE onto == [f \in S |-> ServiceOf[f]]
          <5>2. onto \in Surjection(S, Keys(S, ServiceOf))
            BY DEF Surjection, Keys
          <5> HIDE DEF onto, S
          <5> QED BY <5>1, <5>2, FS_Surjection
        <4>2. Services(S) \subseteq Keys(S, ServiceOf)
          BY DEF Services, Keys
        <4>3. \A f \in DOMAIN rows : ServiceOf[f] = None \/ ServiceOf[f] \in Int
          BY QueriesAssumption DEF IsTable
        <4> HIDE DEF S
        <4>4. IsFiniteSet(Services(S))
          BY <4>1, <4>2, FS_Subset
        <4>5. Services(S) \in SUBSET Int /\ Services(S) \subseteq Services(DOMAIN rows)
          BY <1>4, <4>3 DEF Services
        <4> QED BY <4>4, <4>5
      <3>2. Max(Services(S)) \in Services(DOMAIN rows)
        <4> HIDE DEF S
        <4> QED BY <2>3, <3>1, MaxIsIn
      <3>3. services = {Max(Services(S))}
        <4> HIDE DEF S, services
        <4> QED BY <2>1, <2>3, <3>2 DEF ServiceIs
      <3> HIDE DEF S, services
      <3> QED BY <2>3, <3>3, FS_Singleton
    <2> QED BY <2>2, <2>3
  <1> HIDE DEF q0, qs, qn, S
  <1>10. (\A b \in states : Connections(rows, qs(b), now)[p] = Totals(rows, S))
    BY <1>6
  <1>11. (\A n \in services : Connections(rows, qn(n), now)[p] = Totals(rows, S))
    BY <1>7
  <1> HIDE DEF states, services
  <1> QED BY <1>4, <1>5, <1>8, <1>9, <1>10, <1>11 DEF states, services

\* Lists and pages of one store tell one story: sums agree, pages have the
\* totals of their rows, a split that is cut off says so, and a connection is
\* the same in every list (db.rs list_flows, list_connections, list_endpoints,
\* list_domains, list_applications and the detail pages).
THEOREM QueriesListsAddUp == Spec => []ListsAddUp
  <1>1. Init => TimelineInvariant
    BY TimelineStart
  <1>2. TimelineInvariant /\ [Next]_vars => TimelineInvariant'
    BY TimelineStep
  <1>3. TimelineInvariant => ListsAddUp
    BY ListsSumUp, EndpointsSame, DomainsSame, ApplicationsSame, ConnectionsSame
       DEF ListsAddUp, TimelineInvariant
  <1> QED BY <1>1, <1>2, <1>3, PTL DEF Spec
===============================================================================
