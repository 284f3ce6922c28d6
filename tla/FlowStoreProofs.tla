---------------------------- MODULE FlowStoreProofs ----------------------------
(***************************************************************************)
(* What the store keeps, for any flows, addresses, names and settings, any *)
(* batches, and whatever fails or stops between two durable steps.         *)
(***************************************************************************)
EXTENDS FlowStore, FiniteSetTheorems, TLAPS

------------------------------------------------------------------------------
\* Sums over finite sets.  The library's induction takes an operator; here a set
\* of counterexamples takes its place, which has a smallest member.

LEMMA SmallestSubset ==
  ASSUME NEW S, IsFiniteSet(S), NEW C \in SUBSET (SUBSET S), C # {}
  PROVE  \E t \in C : \A u \in C : u \subseteq t => u = t
  <1>1. C \subseteq FiniteSubsetsOf(S)
    BY FS_Subset DEF FiniteSubsetsOf
  <1>2. PICK t \in C : \A u \in C : ~(<<u, t>> \in StrictSubsetOrdering(S))
    BY <1>1, FS_StrictSubsetOrderingWellFounded, WFMin
  <1>3. ASSUME NEW u \in C, u \subseteq t, u # t PROVE FALSE
    <2> DEFINE p == <<u, t>>
    <2>1. p \in (SUBSET S) \X (SUBSET S) /\ p[1] \subseteq p[2] /\ p[1] # p[2]
      BY <1>3
    <2> HIDE DEF p
    <2>2. p \in StrictSubsetOrdering(S)
      BY <2>1 DEF StrictSubsetOrdering
    <2>3. p = <<u, t>>
      BY DEF p
    <2> QED BY <1>2, <2>2, <2>3
  <1> QED BY <1>2, <1>3

LEMMA LeastNumber ==
  ASSUME NEW T \in SUBSET Nat, T # {}
  PROVE  \E x \in T : \A y \in T : x <= y
  <1> DEFINE R == {p \in Nat \X Nat : p[1] < p[2]}
  <1>1. OpToRel(<, Nat) = R
    BY DEF OpToRel
  <1>2. IsWellFoundedOn(R, Nat)
    BY <1>1, NatLessThanWellFounded
  <1>3. PICK x \in T : \A y \in T : ~(<<y, x>> \in R)
    <2> HIDE DEF R
    <2> QED BY <1>2, WFMin
  <1>4. ASSUME NEW y \in T PROVE x <= y
    <2>1. <<y, x>> \in Nat \X Nat /\ <<y, x>>[1] = y /\ <<y, x>>[2] = x /\ y \in Nat /\ x \in Nat
      OBVIOUS
    <2>2. y < x => <<y, x>> \in R
      BY <2>1
    <2> HIDE DEF R
    <2> QED BY <1>3, <2>1, <2>2
  <1> QED BY <1>4

LEMMA EveryNumber ==
  ASSUME NEW T \in SUBSET Nat, 0 \in T, \A n \in Nat : n \in T => n + 1 \in T
  PROVE  T = Nat
  <1>1. SUFFICES ASSUME Nat \ T # {} PROVE FALSE
    OBVIOUS
  <1>2. PICK x \in Nat \ T : \A y \in Nat \ T : x <= y
    BY <1>1, LeastNumber
  <1>3. x # 0 /\ x - 1 \in Nat /\ (x - 1) + 1 = x
    BY <1>2
  <1> QED BY <1>2, <1>3

\* g adds up fn over each of the sets in D.
First(s) == CHOOSE x \in s : TRUE
Adds(g, fn, D) ==
  \A s \in D : g[s] = IF s = {} THEN 0 ELSE fn[First(s)] + g[s \ {First(s)}]

LEMMA FirstIsIn == \A s : s # {} => First(s) \in s
  BY DEF First

Small(K, n) == {s \in SUBSET K : Cardinality(s) <= n}

Sums(g, fn, K) == g = [s \in SUBSET K |-> IF s = {} THEN 0 ELSE fn[First(s)] + g[s \ {First(s)}]]

LEMMA SumsExist ==
  ASSUME NEW K, IsFiniteSet(K), NEW fn
  PROVE  \E g : Sums(g, fn, K)
  <1> DEFINE T == {n \in Nat : \E g : Adds(g, fn, Small(K, n))}
  <1>1. \A s \in SUBSET K : IsFiniteSet(s) /\ Cardinality(s) \in Nat /\ Cardinality(s) <= Cardinality(K)
    BY FS_Subset, FS_CardinalityType
  <1>2. \A n \in Nat : \A s \in Small(K, n + 1) : s # {} => s \ {First(s)} \in Small(K, n)
    <2> SUFFICES ASSUME NEW n \in Nat, NEW s \in Small(K, n + 1), s # {}
                 PROVE  s \ {First(s)} \in Small(K, n)
      OBVIOUS
    <2>1. s \in SUBSET K /\ Cardinality(s) <= n + 1 /\ IsFiniteSet(s) /\ Cardinality(s) \in Nat
      BY <1>1 DEF Small
    <2>2. Cardinality(s \ {First(s)}) = Cardinality(s) - 1
      BY <2>1, FirstIsIn, FS_RemoveElement
    <2> QED BY <2>1, <2>2 DEF Small
  <1>3. 0 \in T
    <2>1. \A s \in Small(K, 0) : s = {}
      BY <1>1, FS_EmptySet DEF Small
    <2>2. Adds([s \in {{}} |-> 0], fn, Small(K, 0))
      BY <2>1 DEF Adds
    <2> QED BY <2>2
  <1>4. ASSUME NEW n \in Nat, n \in T PROVE n + 1 \in T
    <2>1. PICK g : Adds(g, fn, Small(K, n))
      BY <1>4
    <2> DEFINE h == [s \in Small(K, n + 1) |->
                       IF s = {} THEN 0 ELSE fn[First(s)] + g[s \ {First(s)}]]
    <2>2. Small(K, n) \subseteq Small(K, n + 1)
      BY <1>1 DEF Small
    <2>3. \A s \in Small(K, n) : h[s] = g[s]
      BY <2>1, <2>2 DEF Adds
    <2>4. ASSUME NEW s \in Small(K, n + 1)
          PROVE  h[s] = IF s = {} THEN 0 ELSE fn[First(s)] + h[s \ {First(s)}]
      BY <1>2, <2>3
    <2>5. Adds(h, fn, Small(K, n + 1))
      BY <2>4 DEF Adds
    <2> QED BY <2>5
  <1>5. T = Nat
    <2> HIDE DEF T
    <2>1. T \in SUBSET Nat
      BY DEF T
    <2> QED BY <1>3, <1>4, <2>1, EveryNumber
  <1>6. Cardinality(K) \in Nat /\ Small(K, Cardinality(K)) = SUBSET K
    BY <1>1, FS_CardinalityType DEF Small
  <1>7. PICK g : Adds(g, fn, SUBSET K)
    <2>1. Cardinality(K) \in T
      <3> HIDE DEF T
      <3> QED BY <1>5, <1>6
    <2> QED BY <1>6, <2>1
  <1> DEFINE h == [s \in SUBSET K |-> g[s]]
  <1>8. ASSUME NEW s \in SUBSET K
        PROVE  h[s] = IF s = {} THEN 0 ELSE fn[First(s)] + h[s \ {First(s)}]
    BY <1>7 DEF Adds
  <1>9. Sums(h, fn, K)
    <2> HIDE DEF h
    <2>1. h = [s \in SUBSET K |-> h[s]]
      BY DEF h
    <2> QED BY <1>8, <2>1 DEF Sums
  <1> QED BY <1>9

\* The fold of SumFunctionOnSet is such a sum.
LEMMA SumIs ==
  ASSUME NEW K, IsFiniteSet(K), NEW fn
  PROVE  \E g : Adds(g, fn, SUBSET K) /\ SumFunctionOnSet(fn, K) = g[K]
  <1> DEFINE g0 == CHOOSE g : Sums(g, fn, K)
  <1>1. Sums(g0, fn, K)
    BY SumsExist
  <1>2. SumFunctionOnSet(fn, K) = g0[K]
    BY DEF SumFunctionOnSet, FoldFunctionOnSet, MapThenFoldSet, Sums, First
  <1>3. Adds(g0, fn, SUBSET K)
    <2>1. ASSUME NEW s \in SUBSET K
          PROVE  g0[s] = IF s = {} THEN 0 ELSE fn[First(s)] + g0[s \ {First(s)}]
      <3> HIDE DEF g0
      <3> QED BY <1>1 DEF Sums
    <2> QED BY <2>1 DEF Adds
  <1> QED BY <1>2, <1>3

\* Any two of them agree, and any element may be taken first.
LEMMA AddsUnique ==
  ASSUME NEW K, IsFiniteSet(K), NEW L, K \subseteq L, NEW fn, NEW g, NEW h,
         Adds(g, fn, SUBSET K), Adds(h, fn, SUBSET L)
  PROVE  \A t \in SUBSET K : g[t] = h[t]
  <1> DEFINE C == {t \in SUBSET K : g[t] # h[t]}
  <1>1. SUFFICES ASSUME C # {} PROVE FALSE
    OBVIOUS
  <1>2. PICK t \in C : \A u \in C : u \subseteq t => u = t
    <2>1. C \in SUBSET (SUBSET K)
      OBVIOUS
    <2> HIDE DEF C
    <2> QED BY <1>1, <2>1, SmallestSubset
  <1>3. t \in SUBSET K /\ t \in SUBSET L /\ g[t] # h[t]
    BY <1>2
  <1>4. t # {}
    BY <1>3 DEF Adds
  <1>5. First(t) \in t /\ t \ {First(t)} \in SUBSET K /\ t \ {First(t)} # t
    BY <1>3, <1>4, FirstIsIn
  <1>6. g[t \ {First(t)}] = h[t \ {First(t)}]
    BY <1>2, <1>5
  <1> QED BY <1>3, <1>4, <1>5, <1>6 DEF Adds

LEMMA AddsNat ==
  ASSUME NEW K, IsFiniteSet(K), NEW fn, \A k \in K : fn[k] \in Nat, NEW g, Adds(g, fn, SUBSET K)
  PROVE  \A t \in SUBSET K : g[t] \in Nat
  <1> DEFINE C == {t \in SUBSET K : g[t] \notin Nat}
  <1>1. SUFFICES ASSUME C # {} PROVE FALSE
    OBVIOUS
  <1>2. PICK t \in C : \A u \in C : u \subseteq t => u = t
    <2>1. C \in SUBSET (SUBSET K)
      OBVIOUS
    <2> HIDE DEF C
    <2> QED BY <1>1, <2>1, SmallestSubset
  <1>3. t \in SUBSET K /\ g[t] \notin Nat
    BY <1>2
  <1>4. t # {}
    BY <1>3 DEF Adds
  <1>5. First(t) \in t /\ t \ {First(t)} \in SUBSET K /\ t \ {First(t)} # t
    BY <1>3, <1>4, FirstIsIn
  <1>6. g[t \ {First(t)}] \in Nat /\ fn[First(t)] \in Nat
    BY <1>2, <1>3, <1>5
  <1> QED BY <1>3, <1>4, <1>6 DEF Adds

LEMMA AddsAny ==
  ASSUME NEW K, IsFiniteSet(K), NEW fn, \A k \in K : fn[k] \in Nat, NEW g, Adds(g, fn, SUBSET K)
  PROVE  \A t \in SUBSET K : \A x \in t : g[t] = fn[x] + g[t \ {x}]
  <1> DEFINE C == {t \in SUBSET K : \E x \in t : g[t] # fn[x] + g[t \ {x}]}
  <1>1. SUFFICES ASSUME C # {} PROVE FALSE
    OBVIOUS
  <1>2. PICK t \in C : \A u \in C : u \subseteq t => u = t
    <2>1. C \in SUBSET (SUBSET K)
      OBVIOUS
    <2> HIDE DEF C
    <2> QED BY <1>1, <2>1, SmallestSubset
  <1>3. PICK x \in t : g[t] # fn[x] + g[t \ {x}]
    BY <1>2
  <1>4. t \in SUBSET K
    BY <1>2
  <1> DEFINE c == First(t)
             both == (t \ {c}) \ {x}
  <1>5. c \in t
    BY <1>3, FirstIsIn
  <1>6. g[t] = fn[c] + g[t \ {c}]
    BY <1>3, <1>4 DEF Adds
  <1>7. c # x
    BY <1>3, <1>6
  <1>8. \A u \in SUBSET t : u # t => u \notin C
    BY <1>2
  <1>9. g[t \ {c}] = fn[x] + g[both]
    <2>1. t \ {c} \in SUBSET K /\ t \ {c} # t /\ x \in t \ {c}
      BY <1>3, <1>4, <1>5, <1>7
    <2> QED BY <1>8, <2>1
  <1>10. g[t \ {x}] = fn[c] + g[both]
    <2>1. t \ {x} \in SUBSET K /\ t \ {x} # t /\ c \in t \ {x} /\ (t \ {x}) \ {c} = both
      BY <1>3, <1>4, <1>5, <1>7
    <2>2. g[t \ {x}] = fn[c] + g[(t \ {x}) \ {c}]
      BY <1>8, <2>1
    <2> HIDE DEF both
    <2> QED BY <2>1, <2>2
  <1>11. both \in SUBSET K
    BY <1>4
  <1>12. g[both] \in Nat /\ fn[c] \in Nat /\ fn[x] \in Nat
    BY <1>3, <1>4, <1>5, <1>11, AddsNat
  <1> HIDE DEF c, both
  <1> QED BY <1>3, <1>6, <1>9, <1>10, <1>12

\* What SumFunctionOnSet computes.
LEMMA SumLaws ==
  ASSUME NEW K, IsFiniteSet(K), NEW fn, \A k \in K : fn[k] \in Nat
  PROVE  /\ SumFunctionOnSet(fn, {}) = 0
         /\ \A t \in SUBSET K : SumFunctionOnSet(fn, t) \in Nat
         /\ \A t \in SUBSET K : \A x \in t :
              SumFunctionOnSet(fn, t) = fn[x] + SumFunctionOnSet(fn, t \ {x})
  <1>1. PICK g : Adds(g, fn, SUBSET K)
    BY SumIs
  <1>2. \A t \in SUBSET K : SumFunctionOnSet(fn, t) = g[t]
    <2> SUFFICES ASSUME NEW t \in SUBSET K PROVE SumFunctionOnSet(fn, t) = g[t]
      OBVIOUS
    <2>1. IsFiniteSet(t)
      BY FS_Subset
    <2>2. PICK h : Adds(h, fn, SUBSET t) /\ SumFunctionOnSet(fn, t) = h[t]
      BY <2>1, SumIs
    <2> QED BY <1>1, <2>1, <2>2, AddsUnique
  <1>3. g[{}] = 0
    BY <1>1 DEF Adds
  <1>4. \A t \in SUBSET K : g[t] \in Nat
    BY <1>1, AddsNat
  <1>5. \A t \in SUBSET K : \A x \in t : g[t] = fn[x] + g[t \ {x}]
    <2> SUFFICES ASSUME NEW t \in SUBSET K, NEW x \in t PROVE g[t] = fn[x] + g[t \ {x}]
      OBVIOUS
    <2> QED BY <1>1, AddsAny
  <1>6. \A t \in SUBSET K : \A x \in t : t \ {x} \in SUBSET K
    OBVIOUS
  <1>7. {} \in SUBSET K
    OBVIOUS
  <1>8. SumFunctionOnSet(fn, {}) = 0
    BY <1>2, <1>3, <1>7
  <1>9. \A t \in SUBSET K : SumFunctionOnSet(fn, t) \in Nat
    BY <1>2, <1>4
  <1>10. \A t \in SUBSET K : \A x \in t :
           SumFunctionOnSet(fn, t) = fn[x] + SumFunctionOnSet(fn, t \ {x})
    BY <1>2, <1>5, <1>6
  <1> QED BY <1>8, <1>9, <1>10

Counts(fn) == IsFiniteSet(DOMAIN fn) /\ \A k \in DOMAIN fn : fn[k] \in Nat
At(fn, k) == IF k \in DOMAIN fn THEN fn[k] ELSE 0

LEMMA SumOfLaws ==
  ASSUME NEW fn, Counts(fn), NEW K
  PROVE  /\ SumOf(fn, K) \in Nat
         /\ K \cap DOMAIN fn = {} => SumOf(fn, K) = 0
         /\ \A x \in K : SumOf(fn, K) = At(fn, x) + SumOf(fn, K \ {x})
         /\ \A L : K \cap DOMAIN fn = L \cap DOMAIN fn => SumOf(fn, K) = SumOf(fn, L)
  <1> DEFINE D == DOMAIN fn
             t == K \cap D
  <1>1. IsFiniteSet(D) /\ \A k \in D : fn[k] \in Nat
    BY DEF Counts
  <1>2. t \in SUBSET D /\ SumOf(fn, K) = SumFunctionOnSet(fn, t)
    BY DEF SumOf
  <1>3. /\ SumFunctionOnSet(fn, {}) = 0
        /\ \A u \in SUBSET D : SumFunctionOnSet(fn, u) \in Nat
        /\ \A u \in SUBSET D : \A x \in u :
             SumFunctionOnSet(fn, u) = fn[x] + SumFunctionOnSet(fn, u \ {x})
    <2> HIDE DEF D
    <2> QED BY <1>1, SumLaws
  <1>4. SumOf(fn, K) \in Nat
    BY <1>2, <1>3
  <1>5. ASSUME NEW x \in K PROVE SumOf(fn, K) = At(fn, x) + SumOf(fn, K \ {x})
    <2>1. SumOf(fn, K \ {x}) = SumFunctionOnSet(fn, (K \ {x}) \cap D)
      BY DEF SumOf
    <2>2. CASE x \in D
      <3>1. (K \ {x}) \cap D = t \ {x} /\ x \in t
        BY <2>2
      <3>2. SumFunctionOnSet(fn, t) = fn[x] + SumFunctionOnSet(fn, t \ {x})
        <4> HIDE DEF t
        <4> QED BY <1>2, <1>3, <3>1
      <3> QED BY <1>2, <2>1, <2>2, <3>1, <3>2 DEF At
    <2>3. CASE x \notin D
      <3>1. (K \ {x}) \cap D = t
        BY <2>3
      <3> QED BY <1>2, <1>4, <2>1, <2>3, <3>1 DEF At
    <2> QED BY <2>2, <2>3
  <1>6. K \cap DOMAIN fn = {} => SumOf(fn, K) = 0
    BY <1>2, <1>3
  <1>7. \A L : K \cap DOMAIN fn = L \cap DOMAIN fn => SumOf(fn, K) = SumOf(fn, L)
    BY DEF SumOf
  <1> QED BY <1>4, <1>5, <1>6, <1>7

\* A sum over two sets that do not meet.
LEMMA SumUnion ==
  ASSUME NEW fn, Counts(fn), NEW A, NEW B, A \cap B = {}
  PROVE  SumOf(fn, A \cup B) = SumOf(fn, A) + SumOf(fn, B)
  <1> DEFINE D == DOMAIN fn \cap B
             Bad(t) == SumOf(fn, A \cup t) # SumOf(fn, A) + SumOf(fn, t)
             C == {t \in SUBSET D : Bad(t)}
  <1>1. IsFiniteSet(D)
    BY FS_Subset DEF Counts
  <1>2. C = {}
    <2> SUFFICES ASSUME C # {} PROVE FALSE
      OBVIOUS
    <2>1. PICK t \in C : \A u \in C : u \subseteq t => u = t
      <3>1. C \in SUBSET (SUBSET D)
        OBVIOUS
      <3> HIDE DEF C, D
      <3> QED BY <1>1, <3>1, SmallestSubset
    <2>2. t \in SUBSET D /\ Bad(t)
      BY <2>1
    <2>3. SumOf(fn, A) \in Nat
      BY SumOfLaws
    <2>4. PICK x : x \in t
      <3>1. SumOf(fn, {}) = 0 /\ A \cup {} = A
        BY SumOfLaws
      <3>2. Bad({}) => FALSE
        BY <2>3, <3>1
      <3> QED BY <2>2, <3>2
    <2> DEFINE rest == t \ {x}
    <2>5. SumOf(fn, A \cup rest) = SumOf(fn, A) + SumOf(fn, rest)
      <3>1. rest \in SUBSET D /\ rest \notin C
        BY <2>1, <2>2, <2>4
      <3> QED BY <3>1
    <2>6. x \notin A /\ (A \cup t) \ {x} = A \cup rest /\ x \in A \cup t
      BY <2>2, <2>4
    <2>7. SumOf(fn, t) = At(fn, x) + SumOf(fn, rest)
      BY <2>4, SumOfLaws
    <2>8. SumOf(fn, A \cup t) = At(fn, x) + SumOf(fn, A \cup rest)
      <3>1. SumOf(fn, A \cup t) = At(fn, x) + SumOf(fn, (A \cup t) \ {x})
        BY <2>6, SumOfLaws
      <3> HIDE DEF rest
      <3> QED BY <2>6, <3>1
    <2>9. SumOf(fn, rest) \in Nat /\ At(fn, x) \in Nat
      BY SumOfLaws DEF Counts, At
    <2>10. Bad(t)
      BY <2>2
    <2> HIDE DEF rest, C
    <2> QED BY <2>3, <2>5, <2>6, <2>7, <2>8, <2>9, <2>10
  <1>3. SumOf(fn, A \cup D) = SumOf(fn, A) + SumOf(fn, D)
    BY <1>2
  <1>4. SumOf(fn, A \cup D) = SumOf(fn, A \cup B) /\ SumOf(fn, D) = SumOf(fn, B)
    <2>1. (A \cup D) \cap DOMAIN fn = (A \cup B) \cap DOMAIN fn /\ D \cap DOMAIN fn = B \cap DOMAIN fn
      OBVIOUS
    <2> HIDE DEF D
    <2> QED BY <2>1 DEF SumOf
  <1> QED BY <1>3, <1>4

\* A sum is at most two others if each of its terms is.
LEMMA SumAtMost ==
  ASSUME NEW fn, Counts(fn), NEW gn, Counts(gn), NEW hn, Counts(hn), NEW K, IsFiniteSet(K),
         \A k \in K : At(fn, k) <= At(gn, k) + At(hn, k)
  PROVE  SumOf(fn, K) <= SumOf(gn, K) + SumOf(hn, K)
  <1> DEFINE C == {t \in SUBSET K : ~(SumOf(fn, t) <= SumOf(gn, t) + SumOf(hn, t))}
  <1>1. SUFFICES ASSUME C # {} PROVE FALSE
    OBVIOUS
  <1>2. PICK t \in C : \A u \in C : u \subseteq t => u = t
    <2>1. C \in SUBSET (SUBSET K)
      OBVIOUS
    <2> HIDE DEF C
    <2> QED BY <1>1, <2>1, SmallestSubset
  <1>3. t \in SUBSET K /\ ~(SumOf(fn, t) <= SumOf(gn, t) + SumOf(hn, t))
    BY <1>2
  <1>4. SumOf(fn, t) \in Nat /\ SumOf(gn, t) \in Nat /\ SumOf(hn, t) \in Nat
    BY SumOfLaws
  <1>5. PICK x : x \in t
    <2>1. t = {} => SumOf(fn, t) = 0
      BY SumOfLaws
    <2> QED BY <1>3, <1>4, <2>1
  <1>6. t \ {x} \in SUBSET K /\ t \ {x} \notin C
    BY <1>2, <1>3, <1>5
  <1>7. SumOf(fn, t \ {x}) <= SumOf(gn, t \ {x}) + SumOf(hn, t \ {x})
    BY <1>6
  <1>8. /\ SumOf(fn, t \ {x}) \in Nat /\ SumOf(gn, t \ {x}) \in Nat /\ SumOf(hn, t \ {x}) \in Nat
    BY SumOfLaws
  <1>9. SumOf(fn, t) = At(fn, x) + SumOf(fn, t \ {x})
    BY <1>5, SumOfLaws
  <1>10. SumOf(gn, t) = At(gn, x) + SumOf(gn, t \ {x})
    BY <1>5, SumOfLaws
  <1>11. SumOf(hn, t) = At(hn, x) + SumOf(hn, t \ {x})
    BY <1>5, SumOfLaws
  <1>12. At(fn, x) \in Nat /\ At(gn, x) \in Nat /\ At(hn, x) \in Nat /\ At(fn, x) <= At(gn, x) + At(hn, x)
    BY <1>3, <1>5 DEF At, Counts
  <1> HIDE DEF C
  <1> QED BY <1>3, <1>7, <1>8, <1>9, <1>10, <1>11, <1>12

\* What is added to the terms of a sum by parts is added to the sum.
LEMMA SumParts ==
  ASSUME NEW fn, Counts(fn), NEW gn, Counts(gn), NEW up, Counts(up), NEW K, IsFiniteSet(K),
         NEW D, NEW part, \A d \in D : part[d] \in K,
         \A k \in K : At(gn, k) = At(fn, k) + SumOf(up, {d \in D : part[d] = k})
  PROVE  SumOf(gn, K) = SumOf(fn, K) + SumOf(up, D)
  <1> DEFINE In(t) == {d \in D : part[d] \in t}
             Bad(t) == SumOf(gn, t) # SumOf(fn, t) + SumOf(up, In(t))
             C == {t \in SUBSET K : Bad(t)}
  <1>0. In(K) = D
    OBVIOUS
  <1>1. SUFFICES ASSUME C # {} PROVE FALSE
    BY <1>0
  <1>2. PICK t \in C : \A u \in C : u \subseteq t => u = t
    <2>1. C \in SUBSET (SUBSET K)
      OBVIOUS
    <2> HIDE DEF C
    <2> QED BY <1>1, <2>1, SmallestSubset
  <1>3. t \in SUBSET K /\ Bad(t)
    BY <1>2
  <1>4. PICK x : x \in t
    <2>1. t = {} => In(t) = {}
      OBVIOUS
    <2>2. t = {} => SumOf(gn, t) = 0 /\ SumOf(fn, t) = 0 /\ SumOf(up, In(t)) = 0
      BY <2>1, SumOfLaws
    <2> QED BY <1>3, <2>2
  <1> DEFINE rest == t \ {x}
             of == {d \in D : part[d] = x}
  <1>5. SumOf(gn, rest) = SumOf(fn, rest) + SumOf(up, In(rest))
    <2>1. rest \in SUBSET K /\ rest \notin C
      BY <1>2, <1>3, <1>4
    <2> QED BY <2>1
  <1>6. SumOf(gn, t) = At(gn, x) + SumOf(gn, rest) /\ SumOf(fn, t) = At(fn, x) + SumOf(fn, rest)
    BY <1>4, SumOfLaws
  <1>7. At(gn, x) = At(fn, x) + SumOf(up, of)
    BY <1>3, <1>4
  <1>8. SumOf(up, In(t)) = SumOf(up, of) + SumOf(up, In(rest))
    <2>1. In(t) = of \cup In(rest) /\ of \cap In(rest) = {}
      BY <1>4
    <2> HIDE DEF In, of
    <2>2. SumOf(up, of \cup In(rest)) = SumOf(up, of) + SumOf(up, In(rest))
      BY <2>1, SumUnion
    <2> QED BY <2>1, <2>2
  <1>9. /\ SumOf(up, of) \in Nat /\ SumOf(up, In(rest)) \in Nat
        /\ SumOf(fn, rest) \in Nat /\ At(fn, x) \in Nat
    BY SumOfLaws DEF Counts, At
  <1>10. Bad(t)
    BY <1>3
  <1> HIDE DEF In, of, rest, C
  <1> QED BY <1>5, <1>6, <1>7, <1>8, <1>9, <1>10

------------------------------------------------------------------------------
\* The database and what the triggers keep.

Row == [total : Nat, active : BOOLEAN, domains : SUBSET Domain, last : Int,
        app : App \cup {None}, vouched : Int]
Rows(rows) == \A f \in DOMAIN rows : f \in Flow /\ rows[f] \in Row

\* A database has these parts.
IsFile(d) == DOMAIN d = {"rows", "stats", "links", "obs", "apps", "minute", "hour", "rates",
                         "history", "version"}

\* The parts of a database that rows and triggers do not touch.
SameRest(e, d) ==
  /\ IsFile(e)
  /\ e.obs = d.obs /\ e.apps = d.apps /\ e.minute = d.minute /\ e.hour = d.hour
  /\ e.rates = d.rates /\ e.history = d.history /\ e.version = d.version

\* What MirrorsExact says, of any database.
Mirrors(d) ==
  /\ d.stats = [flows |-> Cardinality(DOMAIN d.rows), active |-> Cardinality(ActiveIn(d.rows)),
                named |-> Cardinality(NamedIn(d.rows))]
  /\ d.links = UNION {{f} \X d.rows[f].domains : f \in DOMAIN d.rows}

LEMMA MirrorsOf == Mirrors(db) <=> MirrorsExact
  BY DEF Mirrors, MirrorsExact

LEMMA PutRowsIs ==
  ASSUME NEW d, IsFile(d), NEW new, NEW e, e = PutRows(d, new)
  PROVE  SameRest(e, d) /\ e.rows = Over(new, d.rows)
  BY DEF PutRows, SameRest, IsFile

LEMMA DropRowsIs ==
  ASSUME NEW d, IsFile(d), NEW S, NEW e, e = DropRows(d, S)
  PROVE  SameRest(e, d) /\ e.rows = Restrict(d.rows, DOMAIN d.rows \ S)
  BY DEF DropRows, SameRest, IsFile

\* A part O of a finite set X is taken out, or replaced by N.
LEMMA Removed ==
  ASSUME NEW X, IsFiniteSet(X), NEW O, O \subseteq X, NEW Y, Y = X \ O
  PROVE  /\ Cardinality(Y) = Cardinality(X) - Cardinality(O)
         /\ IsFiniteSet(Y) /\ Cardinality(Y) \in Nat
         /\ Cardinality(X) \in Nat /\ Cardinality(O) \in Nat
  <1>1. IsFiniteSet(O) /\ IsFiniteSet(X \ O) /\ X \cap O = O
    BY FS_Subset, FS_Difference
  <1>2. Cardinality(X \ O) = Cardinality(X) - Cardinality(X \cap O)
    BY FS_Difference
  <1> QED BY <1>1, <1>2, FS_CardinalityType

LEMMA Replaced ==
  ASSUME NEW X, IsFiniteSet(X), NEW O, O \subseteq X, NEW N, IsFiniteSet(N), (X \ O) \cap N = {},
         NEW Y, Y = (X \ O) \cup N
  PROVE  Cardinality(Y) = Cardinality(X) + (Cardinality(N) - Cardinality(O))
  <1> DEFINE Z == X \ O
  <1>1. /\ Cardinality(Z) = Cardinality(X) - Cardinality(O)
        /\ IsFiniteSet(Z) /\ Cardinality(Z) \in Nat
        /\ Cardinality(X) \in Nat /\ Cardinality(O) \in Nat
    BY Removed
  <1>2. Z \cap N = {} /\ Y = Z \cup N
    OBVIOUS
  <1> HIDE DEF Z
  <1>3. Cardinality(Z \cup N) = Cardinality(Z) + Cardinality(N) - Cardinality(Z \cap N)
    BY <1>1, FS_Union
  <1>4. Cardinality(Z \cap N) = 0 /\ Cardinality(N) \in Nat
    BY <1>2, FS_EmptySet, FS_CardinalityType
  <1>5. Cardinality(Y) = Cardinality(Z) + Cardinality(N)
    <2>1. Cardinality(Y) = Cardinality(Z \cup N)
      BY <1>2, Zenon
    <2> QED BY <1>1, <1>3, <1>4, <2>1
  <1> QED BY <1>1, <1>4, <1>5

LEMMA RowsFinite ==
  ASSUME NEW rows, Rows(rows)
  PROVE  /\ IsFiniteSet(DOMAIN rows) /\ IsFiniteSet(ActiveIn(rows)) /\ IsFiniteSet(NamedIn(rows))
         /\ ActiveIn(rows) \subseteq DOMAIN rows /\ NamedIn(rows) \subseteq DOMAIN rows
  <1>1. IsFiniteSet(Flow)
    BY StoreAssumption
  <1>2. DOMAIN rows \subseteq Flow
    BY DEF Rows
  <1>3. ActiveIn(rows) \subseteq DOMAIN rows /\ NamedIn(rows) \subseteq DOMAIN rows
    BY DEF ActiveIn, NamedIn
  <1> QED BY <1>1, <1>2, <1>3, FS_Subset

\* Inserted and replaced rows are counted and linked.
LEMMA PutRowsMirrors ==
  ASSUME NEW d, IsFile(d), Rows(d.rows), Mirrors(d), NEW new, Rows(new),
         NEW e, e = PutRows(d, new)
  PROVE  Rows(e.rows) /\ Mirrors(e)
  <1> DEFINE old == Restrict(d.rows, DOMAIN new \cap DOMAIN d.rows)
  <1>1. /\ e.rows = Over(new, d.rows)
        /\ e.links = {l \in d.links : l[1] \notin DOMAIN new}
                     \cup {l \in (DOMAIN new) \X Domain : l[2] \in new[l[1]].domains}
        /\ e.stats = [flows |-> d.stats.flows + (Cardinality(DOMAIN new) - Cardinality(DOMAIN old)),
                active |-> d.stats.active + (Cardinality(ActiveIn(new)) - Cardinality(ActiveIn(old))),
                named |-> d.stats.named + (Cardinality(NamedIn(new)) - Cardinality(NamedIn(old)))]
    BY DEF PutRows, IsFile
  <1>2. /\ DOMAIN e.rows = DOMAIN new \cup DOMAIN d.rows
        /\ \A f \in DOMAIN e.rows : e.rows[f] = IF f \in DOMAIN new THEN new[f] ELSE d.rows[f]
    BY <1>1 DEF Over
  <1>3. /\ DOMAIN old = DOMAIN new \cap DOMAIN d.rows
        /\ \A f \in DOMAIN old : old[f] = d.rows[f]
    BY DEF Restrict
  <1>4. Rows(e.rows)
    BY <1>2 DEF Rows
  <1> HIDE DEF old
  <1>5. /\ DOMAIN e.rows = (DOMAIN d.rows \ DOMAIN old) \cup DOMAIN new
        /\ (DOMAIN d.rows \ DOMAIN old) \cap DOMAIN new = {} /\ DOMAIN old \subseteq DOMAIN d.rows
    BY <1>2, <1>3
  <1>6. /\ ActiveIn(e.rows) = (ActiveIn(d.rows) \ ActiveIn(old)) \cup ActiveIn(new)
        /\ (ActiveIn(d.rows) \ ActiveIn(old)) \cap ActiveIn(new) = {}
        /\ ActiveIn(old) \subseteq ActiveIn(d.rows)
    BY <1>2, <1>3 DEF ActiveIn
  <1>7. /\ NamedIn(e.rows) = (NamedIn(d.rows) \ NamedIn(old)) \cup NamedIn(new)
        /\ (NamedIn(d.rows) \ NamedIn(old)) \cap NamedIn(new) = {}
        /\ NamedIn(old) \subseteq NamedIn(d.rows)
    BY <1>2, <1>3 DEF NamedIn
  <1>10. /\ IsFiniteSet(DOMAIN d.rows) /\ IsFiniteSet(DOMAIN new)
         /\ IsFiniteSet(ActiveIn(d.rows)) /\ IsFiniteSet(ActiveIn(new))
         /\ IsFiniteSet(NamedIn(d.rows)) /\ IsFiniteSet(NamedIn(new))
    BY RowsFinite
  <1>8. e.stats = [flows |-> Cardinality(DOMAIN e.rows), active |-> Cardinality(ActiveIn(e.rows)),
                   named |-> Cardinality(NamedIn(e.rows))]
    <2>1. Cardinality(DOMAIN e.rows) =
            Cardinality(DOMAIN d.rows) + (Cardinality(DOMAIN new) - Cardinality(DOMAIN old))
      BY <1>5, <1>10, Replaced
    <2>2. Cardinality(ActiveIn(e.rows)) =
            Cardinality(ActiveIn(d.rows)) + (Cardinality(ActiveIn(new)) - Cardinality(ActiveIn(old)))
      BY <1>6, <1>10, Replaced
    <2>3. Cardinality(NamedIn(e.rows)) =
            Cardinality(NamedIn(d.rows)) + (Cardinality(NamedIn(new)) - Cardinality(NamedIn(old)))
      BY <1>7, <1>10, Replaced
    <2>4. /\ d.stats.flows = Cardinality(DOMAIN d.rows)
          /\ d.stats.active = Cardinality(ActiveIn(d.rows))
          /\ d.stats.named = Cardinality(NamedIn(d.rows))
      BY DEF Mirrors
    <2> QED BY <1>1, <2>1, <2>2, <2>3, <2>4
  <1>9. e.links = UNION {{f} \X e.rows[f].domains : f \in DOMAIN e.rows}
    <2>1. d.links = UNION {{f} \X d.rows[f].domains : f \in DOMAIN d.rows}
      BY DEF Mirrors
    <2>2. \A f \in DOMAIN new : new[f].domains \subseteq Domain
      BY DEF Rows, Row
    <2> QED BY <1>1, <1>2, <2>1, <2>2
  <1> QED BY <1>4, <1>8, <1>9 DEF Mirrors

\* Deleted rows are neither.
LEMMA DropRowsMirrors ==
  ASSUME NEW d, IsFile(d), Rows(d.rows), Mirrors(d), NEW S, S \subseteq DOMAIN d.rows,
         NEW e, e = DropRows(d, S)
  PROVE  Rows(e.rows) /\ Mirrors(e)
  <1> DEFINE old == Restrict(d.rows, S)
  <1>1. /\ e.rows = Restrict(d.rows, DOMAIN d.rows \ S)
        /\ e.links = {l \in d.links : l[1] \notin S}
        /\ e.stats = [flows |-> d.stats.flows - Cardinality(S),
                      active |-> d.stats.active - Cardinality(ActiveIn(old)),
                      named |-> d.stats.named - Cardinality(NamedIn(old))]
    BY DEF DropRows, IsFile
  <1>2. /\ DOMAIN e.rows = DOMAIN d.rows \ S
        /\ \A f \in DOMAIN e.rows : e.rows[f] = d.rows[f]
    BY <1>1 DEF Restrict
  <1>3. DOMAIN old = S /\ \A f \in S : old[f] = d.rows[f]
    BY DEF Restrict
  <1>4. Rows(e.rows)
    BY <1>2 DEF Rows
  <1> HIDE DEF old
  <1>5. ActiveIn(e.rows) = ActiveIn(d.rows) \ ActiveIn(old) /\ ActiveIn(old) \subseteq ActiveIn(d.rows)
    BY <1>2, <1>3 DEF ActiveIn
  <1>6. NamedIn(e.rows) = NamedIn(d.rows) \ NamedIn(old) /\ NamedIn(old) \subseteq NamedIn(d.rows)
    BY <1>2, <1>3 DEF NamedIn
  <1>10. IsFiniteSet(DOMAIN d.rows) /\ IsFiniteSet(ActiveIn(d.rows)) /\ IsFiniteSet(NamedIn(d.rows))
    BY RowsFinite
  <1>8. e.stats = [flows |-> Cardinality(DOMAIN e.rows), active |-> Cardinality(ActiveIn(e.rows)),
                   named |-> Cardinality(NamedIn(e.rows))]
    <2>1. Cardinality(DOMAIN e.rows) = Cardinality(DOMAIN d.rows) - Cardinality(S)
      BY <1>2, <1>10, Removed
    <2>2. Cardinality(ActiveIn(e.rows)) = Cardinality(ActiveIn(d.rows)) - Cardinality(ActiveIn(old))
      BY <1>5, <1>10, Removed
    <2>3. Cardinality(NamedIn(e.rows)) = Cardinality(NamedIn(d.rows)) - Cardinality(NamedIn(old))
      BY <1>6, <1>10, Removed
    <2>4. /\ d.stats.flows = Cardinality(DOMAIN d.rows)
          /\ d.stats.active = Cardinality(ActiveIn(d.rows))
          /\ d.stats.named = Cardinality(NamedIn(d.rows))
      BY DEF Mirrors
    <2> QED BY <1>1, <2>1, <2>2, <2>3, <2>4
  <1>9. e.links = UNION {{f} \X e.rows[f].domains : f \in DOMAIN e.rows}
    <2>1. d.links = UNION {{f} \X d.rows[f].domains : f \in DOMAIN d.rows}
      BY DEF Mirrors
    <2>2. ASSUME NEW l \in e.links PROVE \E f \in DOMAIN e.rows : l \in {f} \X e.rows[f].domains
      <3>1. l \in d.links /\ l[1] \notin S
        BY <1>1
      <3>2. PICK f \in DOMAIN d.rows : l \in {f} \X d.rows[f].domains
        BY <2>1, <3>1
      <3>3. l[1] = f
        BY <3>2
      <3>4. f \in DOMAIN e.rows /\ e.rows[f] = d.rows[f]
        BY <1>2, <3>1, <3>3
      <3> QED BY <3>2, <3>4
    <2>3. ASSUME NEW f \in DOMAIN e.rows, NEW l \in {f} \X e.rows[f].domains PROVE l \in e.links
      <3>1. f \in DOMAIN d.rows /\ f \notin S /\ e.rows[f] = d.rows[f]
        BY <1>2
      <3>2. l[1] = f /\ l \in {f} \X d.rows[f].domains
        BY <3>1
      <3>3. l \in d.links
        BY <2>1, <3>1, <3>2
      <3> QED BY <1>1, <3>1, <3>2, <3>3
    <2> QED BY <2>2, <2>3
  <1> QED BY <1>4, <1>8, <1>9 DEF Mirrors

------------------------------------------------------------------------------
\* What each step leaves in the database.

Times(fn) == \A k \in DOMAIN fn : fn[k] \in Int
Buckets(fn) == Counts(fn) /\ DOMAIN fn \subseteq Entity \X Nat
Update == [total : Nat, delta : Nat, last : Int, active : BOOLEAN, app : App \cup {None}]
Updates(up) == DOMAIN up \subseteq Flow /\ \A f \in DOMAIN up : up[f] \in Update
Sighting == [domain : Domain, remote : Remote, at : Int]

Stored(d) ==
  /\ IsFile(d) /\ Rows(d.rows) /\ Times(d.obs) /\ Times(d.apps) /\ Buckets(d.minute) /\ Buckets(d.hour)
  /\ Mirrors(d)

LEMMA ImageFinite ==
  ASSUME NEW S, IsFiniteSet(S), NEW g
  PROVE  IsFiniteSet({g[x] : x \in S})
  <1> DEFINE T == {g[x] : x \in S}
             h == [x \in S |-> g[x]]
  <1>1. h \in Surjection(S, T)
    BY DEF Surjection
  <1> HIDE DEF h, T
  <1>2. IsFiniteSet(T)
    BY <1>1, FS_Surjection
  <1> QED BY <1>2 DEF T

LEMMA MaxIs ==
  ASSUME NEW S, IsFiniteSet(S), S \subseteq Int, S # {}
  PROVE  Max(S) \in S /\ \A y \in S : y <= Max(S)
  <1> DEFINE Has(t) == \E x \in t : \A y \in t : x >= y
             C == {t \in SUBSET S : t # {} /\ ~Has(t)}
  <1>1. C = {}
    <2> SUFFICES ASSUME C # {} PROVE FALSE
      OBVIOUS
    <2>1. PICK t \in C : \A u \in C : u \subseteq t => u = t
      <3>1. C \in SUBSET (SUBSET S)
        OBVIOUS
      <3> HIDE DEF C
      <3> QED BY ONLY IsFiniteSet(S), C # {}, <3>1, SmallestSubset
    <2>2. t \in SUBSET S /\ t # {} /\ ~Has(t)
      BY <2>1
    <2>3. PICK x : x \in t
      BY <2>2
    <2>4. t \ {x} # {}
      BY <2>2, <2>3
    <2>5. PICK z \in t \ {x} : \A y \in t \ {x} : z >= y
      <3>1. t \ {x} \in SUBSET S /\ t \ {x} \notin C
        BY <2>1, <2>2, <2>3
      <3> QED BY <2>4, <3>1
    <2>6. x \in Int /\ z \in Int /\ t \subseteq Int
      BY <2>2, <2>3, <2>5
    <2>7. CASE x >= z
      <3>1. \A y \in t : x >= y
        BY <2>5, <2>6, <2>7
      <3> QED BY <2>2, <2>3, <3>1
    <2>8. CASE z >= x
      <3>1. \A y \in t : z >= y
        BY <2>5, <2>6, <2>8
      <3> QED BY <2>2, <2>5, <3>1
    <2> QED BY <2>6, <2>7, <2>8
  <1>2. \E x \in S : \A y \in S : x >= y
    BY <1>1
  <1>3. Max(S) \in S /\ \A y \in S : Max(S) >= y
    BY <1>2 DEF Max
  <1> QED BY <1>3

LEMMA ObserveIs ==
  ASSUME NEW d, IsFile(d), Times(d.obs), NEW seen, IsFiniteSet(seen), seen \subseteq Sighting,
         NEW e, e = Observe(d, seen)
  PROVE  /\ IsFile(e) /\ Times(e.obs)
         /\ e.rows = d.rows /\ e.stats = d.stats /\ e.links = d.links
         /\ e.apps = d.apps /\ e.minute = d.minute /\ e.hour = d.hour
         /\ e.rates = d.rates /\ e.history = d.history /\ e.version = d.version
  <1> DEFINE Of(k) == {o.at : o \in {p \in seen : <<p.domain, p.remote>> = k}}
             at == [p \in seen |-> p.at]
             stored == [k \in {<<o.domain, o.remote>> : o \in seen} |->
                          IF k \in DOMAIN d.obs THEN Later(d.obs[k], Max(Of(k))) ELSE Max(Of(k))]
  <1>1. e = [d EXCEPT !.obs = Over(stored, @)]
    BY DEF Observe
  <1>2. ASSUME NEW k \in DOMAIN stored PROVE stored[k] \in Int
    <2>1. Of(k) # {} /\ Of(k) \subseteq Int
      BY DEF Sighting
    <2>2. IsFiniteSet(Of(k))
      <3>1. IsFiniteSet({p \in seen : <<p.domain, p.remote>> = k})
        BY FS_Subset
      <3>2. IsFiniteSet({at[p] : p \in {p \in seen : <<p.domain, p.remote>> = k}})
        BY <3>1, ImageFinite
      <3>3. \A p \in seen : at[p] = p.at
        OBVIOUS
      <3>4. Of(k) = {at[p] : p \in {p \in seen : <<p.domain, p.remote>> = k}}
        BY <3>3
      <3> HIDE DEF Of, at
      <3> QED BY <3>2, <3>4
    <2>3. Max(Of(k)) \in Int
      <3> HIDE DEF Of
      <3> QED BY <2>1, <2>2, MaxIs
    <2>4. k \in DOMAIN d.obs => d.obs[k] \in Int
      BY DEF Times
    <2> HIDE DEF Of
    <2> QED BY <2>3, <2>4 DEF Later
  <1> HIDE DEF stored
  <1>3. Times(Over(stored, d.obs))
    BY <1>2 DEF Times, Over
  <1>4. e.obs = Over(stored, d.obs)
    BY <1>1 DEF IsFile
  <1> QED BY <1>1, <1>3, <1>4 DEF IsFile

LEMMA AssociateIs ==
  ASSUME NEW d, NEW a, NEW now
  PROVE  /\ Associate(d, a, now) \subseteq Domain
         /\ \A x \in Associate(d, a, now) : <<x, a>> \in DOMAIN d.obs /\ d.obs[<<x, a>>] + Ttl > now
  BY DEF Associate

\* A row names the same Application, from the same packet, as another.
Vouches(row, other) == row.app = other.app /\ row.vouched = other.vouched

\* The rows are the same but for the names of some.
LEMMA RenameIs ==
  ASSUME NEW d, Stored(d), NEW A, NEW now, NEW e, e = Rename(d, A, now)
  PROVE  /\ SameRest(e, d) /\ Rows(e.rows) /\ Mirrors(e)
         /\ DOMAIN e.rows = DOMAIN d.rows
         /\ \A f \in DOMAIN d.rows :
              /\ e.rows[f].total = d.rows[f].total /\ e.rows[f].last = d.rows[f].last
              /\ e.rows[f].active = d.rows[f].active /\ Vouches(e.rows[f], d.rows[f])
              /\ e.rows[f].domains \in {d.rows[f].domains, Associate(d, RemoteOf[f], now)}
  <1> DEFINE touched == {f \in DOMAIN d.rows : RemoteOf[f] \in A}
             new == [f \in touched |->
                       [d.rows[f] EXCEPT !.domains = Associate(d, RemoteOf[f], now)]]
  <1>1. e = PutRows(d, new)
    BY DEF Rename
  <1>2. ASSUME NEW f \in touched
        PROVE  /\ new[f] \in Row /\ f \in Flow /\ f \in DOMAIN d.rows
               /\ new[f].total = d.rows[f].total /\ new[f].last = d.rows[f].last
               /\ new[f].active = d.rows[f].active /\ Vouches(new[f], d.rows[f])
               /\ new[f].domains = Associate(d, RemoteOf[f], now)
    <2>1. d.rows[f] \in Row /\ f \in Flow /\ f \in DOMAIN d.rows
      BY DEF Stored, Rows
    <2>2. Associate(d, RemoteOf[f], now) \subseteq Domain
      BY AssociateIs
    <2> QED BY <2>1, <2>2 DEF Row, Vouches
  <1>3. DOMAIN new = touched /\ Rows(new)
    <2>1. DOMAIN new = touched
      OBVIOUS
    <2> HIDE DEF new
    <2> QED BY <1>2, <2>1 DEF Rows
  <1>4. touched \subseteq DOMAIN d.rows
    OBVIOUS
  <1> HIDE DEF new, touched
  <1>5. SameRest(e, d) /\ e.rows = Over(new, d.rows)
    BY <1>1, PutRowsIs DEF Stored
  <1>6. Rows(e.rows) /\ Mirrors(e)
    BY <1>1, <1>3, PutRowsMirrors DEF Stored
  <1>7. /\ DOMAIN e.rows = DOMAIN d.rows
        /\ \A f \in DOMAIN d.rows : e.rows[f] = IF f \in touched THEN new[f] ELSE d.rows[f]
    BY <1>3, <1>4, <1>5 DEF Over
  <1>8. \A f \in DOMAIN d.rows : Vouches(e.rows[f], d.rows[f])
    BY <1>2, <1>7 DEF Vouches
  <1> QED BY <1>2, <1>3, <1>5, <1>6, <1>7, <1>8

LEMMA LatestUpdate ==
  ASSUME NEW up, Updates(up), NEW f \in DOMAIN up, up[f].app # None
  PROVE  /\ up[f].app \in AppsOf(up)
         /\ LastOf(up, up[f].app) \in Int /\ up[f].last <= LastOf(up, up[f].app)
  <1> DEFINE G == {g \in DOMAIN up : up[g].app = up[f].app}
             last == [g \in G |-> up[g].last]
             T == {up[g].last : g \in G}
  <1>1. IsFiniteSet(G) /\ f \in G /\ \A g \in G : up[g].last \in Int
    <2>1. IsFiniteSet(Flow) /\ G \subseteq Flow
      BY StoreAssumption DEF Updates
    <2> QED BY <2>1, FS_Subset DEF Updates, Update
  <1>2. IsFiniteSet({last[g] : g \in G})
    <2> HIDE DEF last, G
    <2> QED BY <1>1, ImageFinite
  <1>3. T = {last[g] : g \in G}
    OBVIOUS
  <1>4. T \subseteq Int /\ up[f].last \in T
    BY <1>1
  <1>5. LastOf(up, up[f].app) = Max(T)
    BY DEF LastOf
  <1> HIDE DEF T, last, G
  <1>6. IsFiniteSet(T)
    BY <1>2, <1>3
  <1>7. Max(T) \in T /\ \A y \in T : y <= Max(T)
    BY <1>4, <1>6, MaxIs
  <1>8. up[f].app \in AppsOf(up)
    BY DEF AppsOf
  <1> QED BY <1>4, <1>5, <1>7, <1>8

\* The rows and Applications of a batch.
LEMMA UpsertIs ==
  ASSUME NEW d, Stored(d), NEW up, Updates(up), NEW now, NEW e, e = Upsert(d, up, now)
  PROVE  /\ IsFile(e) /\ Rows(e.rows) /\ Mirrors(e) /\ Times(e.apps)
         /\ e.obs = d.obs /\ e.minute = d.minute /\ e.hour = d.hour
         /\ e.rates = d.rates /\ e.history = d.history /\ e.version = d.version
         /\ DOMAIN e.rows = DOMAIN up \cup DOMAIN d.rows
         /\ \A f \in DOMAIN e.rows :
              e.rows[f] = IF f \in DOMAIN up THEN NewRow(d, f, up[f], now) ELSE d.rows[f]
         /\ \A p \in DOMAIN d.apps : p \in DOMAIN e.apps /\ e.apps[p] >= d.apps[p]
         /\ \A f \in DOMAIN up : up[f].app # None =>
              up[f].app \in DOMAIN e.apps /\ e.apps[up[f].app] >= up[f].last
  <1> DEFINE new == [f \in DOMAIN up |-> NewRow(d, f, up[f], now)]
             used == [p \in AppsOf(up) |-> IF p \in DOMAIN d.apps THEN Later(d.apps[p], LastOf(up, p))
                                           ELSE LastOf(up, p)]
             r == PutRows(d, new)
  <1>1. e = [r EXCEPT !.apps = Over(used, @)]
    BY DEF Upsert
  <1>2. ASSUME NEW f \in DOMAIN up PROVE new[f] \in Row /\ f \in Flow
    <2>1. up[f] \in Update /\ f \in Flow
      BY DEF Updates
    <2>2. f \in DOMAIN d.rows => d.rows[f] \in Row
      BY DEF Stored, Rows
    <2>3. Associate(d, RemoteOf[f], now) \subseteq Domain
      BY AssociateIs
    <2> QED BY <2>1, <2>2, <2>3 DEF NewRow, Later, Row, Update
  <1>3. Rows(new) /\ DOMAIN new = DOMAIN up
    BY <1>2 DEF Rows
  <1>4. /\ DOMAIN used = AppsOf(up)
        /\ \A p \in AppsOf(up) :
             used[p] = IF p \in DOMAIN d.apps THEN Later(d.apps[p], LastOf(up, p)) ELSE LastOf(up, p)
    OBVIOUS
  <1>5. \A f \in DOMAIN up : new[f] = NewRow(d, f, up[f], now)
    OBVIOUS
  <1> HIDE DEF new, used, r
  <1>6. SameRest(r, d) /\ r.rows = Over(new, d.rows)
    BY PutRowsIs DEF Stored, r
  <1>7. Rows(r.rows) /\ Mirrors(r)
    BY <1>3, PutRowsMirrors DEF Stored, r
  <1>8. /\ IsFile(e) /\ e.rows = r.rows /\ e.stats = r.stats /\ e.links = r.links
        /\ e.obs = r.obs /\ e.minute = r.minute /\ e.hour = r.hour
        /\ e.rates = r.rates /\ e.history = r.history /\ e.version = r.version
        /\ e.apps = Over(used, r.apps)
    BY <1>1, <1>6 DEF IsFile, SameRest
  <1>9. Mirrors(e)
    BY <1>7, <1>8 DEF Mirrors
  <1>10. /\ DOMAIN e.rows = DOMAIN up \cup DOMAIN d.rows
         /\ \A f \in DOMAIN e.rows :
              e.rows[f] = IF f \in DOMAIN up THEN NewRow(d, f, up[f], now) ELSE d.rows[f]
    BY <1>3, <1>5, <1>6, <1>8 DEF Over
  <1>11. r.apps = d.apps /\ Times(d.apps)
    BY <1>6 DEF SameRest, Stored
  <1>12. ASSUME NEW p \in AppsOf(up)
         PROVE  used[p] \in Int /\ used[p] >= LastOf(up, p)
                /\ (p \in DOMAIN d.apps => used[p] >= d.apps[p])
    <2>1. PICK f \in DOMAIN up : up[f].app = p /\ up[f].app # None
      BY DEF AppsOf
    <2>2. LastOf(up, p) \in Int
      BY <2>1, LatestUpdate
    <2>3. p \in DOMAIN d.apps => d.apps[p] \in Int
      BY <1>11 DEF Times
    <2> QED BY <1>4, <2>2, <2>3 DEF Later
  <1>13. /\ DOMAIN e.apps = AppsOf(up) \cup DOMAIN d.apps
         /\ \A p \in DOMAIN e.apps : e.apps[p] = IF p \in AppsOf(up) THEN used[p] ELSE d.apps[p]
    BY <1>4, <1>8, <1>11 DEF Over
  <1>14. Times(e.apps)
    BY <1>11, <1>12, <1>13 DEF Times
  <1>15. ASSUME NEW p \in DOMAIN d.apps PROVE p \in DOMAIN e.apps /\ e.apps[p] >= d.apps[p]
    <2>1. d.apps[p] \in Int
      BY <1>11 DEF Times
    <2> QED BY <1>12, <1>13, <2>1
  <1>16. ASSUME NEW f \in DOMAIN up, up[f].app # None
         PROVE  up[f].app \in DOMAIN e.apps /\ e.apps[up[f].app] >= up[f].last
    <2>1. up[f].app \in AppsOf(up) /\ LastOf(up, up[f].app) \in Int /\ up[f].last <= LastOf(up, up[f].app)
      BY <1>16, LatestUpdate
    <2>2. up[f].last \in Int
      BY DEF Updates, Update
    <2> QED BY <1>12, <1>13, <2>1, <2>2
  <1> QED BY <1>6, <1>7, <1>8, <1>9, <1>10, <1>14, <1>15, <1>16 DEF SameRest

LEMMA FreshIs ==
  ASSUME NEW seen, IsFiniteSet(seen), seen \subseteq Sighting, NEW now
  PROVE  IsFiniteSet(Fresh(seen, now)) /\ Fresh(seen, now) \subseteq Sighting
  BY FS_Subset DEF Fresh

\* The first transaction of a batch.
LEMMA WriteRowsIs ==
  ASSUME NEW d, Stored(d), NEW up, Updates(up), NEW seen, IsFiniteSet(seen), seen \subseteq Sighting,
         NEW now, NEW e, e = WriteRows(d, up, seen, now)
  PROVE  /\ Stored(e)
         /\ e.minute = d.minute /\ e.hour = d.hour
         /\ e.rates = d.rates /\ e.history = d.history /\ e.version = d.version
         /\ DOMAIN e.rows = DOMAIN up \cup DOMAIN d.rows
         /\ \A f \in DOMAIN e.rows \ DOMAIN up :
              /\ e.rows[f].total = d.rows[f].total /\ e.rows[f].last = d.rows[f].last
              /\ Vouches(e.rows[f], d.rows[f])
         /\ \A f \in DOMAIN up :
              /\ e.rows[f].total = up[f].total
              /\ \/ up[f].app # None /\ e.rows[f].app = up[f].app /\ e.rows[f].vouched = up[f].last
                 \/ up[f].app = None /\ f \in DOMAIN d.rows /\ Vouches(e.rows[f], d.rows[f])
                 \/ up[f].app = None /\ e.rows[f].app = None
         /\ \A f \in DOMAIN e.rows : \A x \in e.rows[f].domains :
              \/ f \in DOMAIN d.rows /\ x \in d.rows[f].domains
              \/ <<x, RemoteOf[f]>> \in DOMAIN e.obs /\ e.obs[<<x, RemoteOf[f]>>] + Ttl > now
         /\ \A p \in DOMAIN d.apps : p \in DOMAIN e.apps /\ e.apps[p] >= d.apps[p]
         /\ \A f \in DOMAIN up : up[f].app # None =>
              up[f].app \in DOMAIN e.apps /\ e.apps[up[f].app] >= up[f].last
  <1> DEFINE fresh == Fresh(seen, now)
             A == {o.remote : o \in fresh}
             b == Observe(d, fresh)
             c == Rename(b, A, now)
  <1>1. e = Upsert(c, up, now)
    BY DEF WriteRows
  <1>2. IsFiniteSet(fresh) /\ fresh \subseteq Sighting
    BY FreshIs
  <1> HIDE DEF fresh, A
  <1>3. /\ IsFile(b) /\ Times(b.obs)
        /\ b.rows = d.rows /\ b.stats = d.stats /\ b.links = d.links
        /\ b.apps = d.apps /\ b.minute = d.minute /\ b.hour = d.hour
        /\ b.rates = d.rates /\ b.history = d.history /\ b.version = d.version
    BY <1>2, ObserveIs DEF Stored
  <1>4. Stored(b)
    BY <1>3 DEF Stored, Mirrors
  <1> HIDE DEF b
  <1>5. /\ SameRest(c, b) /\ Rows(c.rows) /\ Mirrors(c)
        /\ DOMAIN c.rows = DOMAIN b.rows
        /\ \A f \in DOMAIN b.rows :
             /\ c.rows[f].total = b.rows[f].total /\ c.rows[f].last = b.rows[f].last
             /\ c.rows[f].active = b.rows[f].active /\ Vouches(c.rows[f], b.rows[f])
             /\ c.rows[f].domains \in {b.rows[f].domains, Associate(b, RemoteOf[f], now)}
    BY <1>4, RenameIs
  <1>6. Stored(c)
    BY <1>4, <1>5 DEF Stored, SameRest
  <1> HIDE DEF c
  <1>7. /\ IsFile(e) /\ Rows(e.rows) /\ Mirrors(e) /\ Times(e.apps)
        /\ e.obs = c.obs /\ e.minute = c.minute /\ e.hour = c.hour
        /\ e.rates = c.rates /\ e.history = c.history /\ e.version = c.version
        /\ DOMAIN e.rows = DOMAIN up \cup DOMAIN c.rows
        /\ \A f \in DOMAIN e.rows :
             e.rows[f] = IF f \in DOMAIN up THEN NewRow(c, f, up[f], now) ELSE c.rows[f]
        /\ \A p \in DOMAIN c.apps : p \in DOMAIN e.apps /\ e.apps[p] >= c.apps[p]
        /\ \A f \in DOMAIN up : up[f].app # None =>
             up[f].app \in DOMAIN e.apps /\ e.apps[up[f].app] >= up[f].last
    BY <1>1, <1>6, UpsertIs
  <1>8. c.obs = b.obs /\ c.apps = d.apps /\ c.minute = d.minute /\ c.hour = d.hour
        /\ c.rates = d.rates /\ c.history = d.history /\ c.version = d.version
    BY <1>3, <1>5 DEF SameRest
  <1>9. Stored(e)
    BY <1>6, <1>7 DEF Stored
  <1>10. DOMAIN e.rows = DOMAIN up \cup DOMAIN d.rows /\ DOMAIN c.rows = DOMAIN d.rows
    BY <1>3, <1>5, <1>7
  <1>11. \A f \in DOMAIN e.rows \ DOMAIN up :
           /\ e.rows[f].total = d.rows[f].total /\ e.rows[f].last = d.rows[f].last
           /\ Vouches(e.rows[f], d.rows[f])
    BY <1>3, <1>5, <1>7, <1>10
  <1>12. ASSUME NEW f \in DOMAIN up
         PROVE  /\ e.rows[f].total = up[f].total
                /\ \/ up[f].app # None /\ e.rows[f].app = up[f].app /\ e.rows[f].vouched = up[f].last
                   \/ up[f].app = None /\ f \in DOMAIN d.rows /\ Vouches(e.rows[f], d.rows[f])
                   \/ up[f].app = None /\ e.rows[f].app = None
    <2>1. e.rows[f] = NewRow(c, f, up[f], now)
      BY <1>7
    <2>2. f \in DOMAIN d.rows => Vouches(c.rows[f], d.rows[f])
      BY <1>3, <1>5
    <2>3. CASE f \in DOMAIN d.rows
      BY <1>10, <2>1, <2>2, <2>3 DEF NewRow, Vouches
    <2>4. CASE f \notin DOMAIN d.rows
      BY <1>10, <2>1, <2>4 DEF NewRow
    <2> QED BY <2>3, <2>4
  <1>13. ASSUME NEW f \in DOMAIN e.rows, NEW x \in e.rows[f].domains
         PROVE  \/ f \in DOMAIN d.rows /\ x \in d.rows[f].domains
                \/ <<x, RemoteOf[f]>> \in DOMAIN e.obs /\ e.obs[<<x, RemoteOf[f]>>] + Ttl > now
    <2> DEFINE k == <<x, RemoteOf[f]>>
    <2>1. e.obs = c.obs /\ e.obs = b.obs
      BY <1>7, <1>8
    <2>2. CASE f \in DOMAIN up
      <3>0. e.rows[f] = NewRow(c, f, up[f], now)
        BY <1>7, <2>2
      <3>1. e.rows[f].domains = Associate(c, RemoteOf[f], now)
        BY <3>0 DEF NewRow
      <3>2. k \in DOMAIN c.obs /\ c.obs[k] + Ttl > now
        BY <3>1, AssociateIs
      <3> HIDE DEF k
      <3> QED BY <2>1, <3>2 DEF k
    <2>3. CASE f \notin DOMAIN up
      <3>1. f \in DOMAIN b.rows /\ e.rows[f].domains \in {b.rows[f].domains, Associate(b, RemoteOf[f], now)}
        BY <1>5, <1>7, <2>3
      <3>2. x \in Associate(b, RemoteOf[f], now) => k \in DOMAIN b.obs /\ b.obs[k] + Ttl > now
        BY AssociateIs
      <3> HIDE DEF k
      <3> QED BY <1>3, <2>1, <3>1, <3>2 DEF k
    <2> QED BY <2>2, <2>3
  <1>14. \A p \in DOMAIN d.apps : p \in DOMAIN e.apps /\ e.apps[p] >= d.apps[p]
    BY <1>7, <1>8
  <1> QED BY <1>7, <1>8, <1>9, <1>10, <1>11, <1>12, <1>13, <1>14

\* What is left of a table after a deletion.
Within(g, fn) == DOMAIN g \subseteq DOMAIN fn /\ \A k \in DOMAIN g : g[k] = fn[k]

LEMMA WithinBuckets ==
  ASSUME NEW fn, Buckets(fn), NEW g, Within(g, fn)
  PROVE  Buckets(g)
  <1>1. IsFiniteSet(DOMAIN g)
    BY FS_Subset DEF Buckets, Counts, Within
  <1> QED BY <1>1 DEF Buckets, Counts, Within

LEMMA DropRowsStored ==
  ASSUME NEW d, Stored(d), NEW S, S \subseteq DOMAIN d.rows, NEW e, e = DropRows(d, S)
  PROVE  Stored(e) /\ SameRest(e, d) /\ Within(e.rows, d.rows)
  <1>1. SameRest(e, d) /\ e.rows = Restrict(d.rows, DOMAIN d.rows \ S)
    <2>1. IsFile(d)
      BY DEF Stored
    <2> QED BY ONLY <2>1, e = DropRows(d, S), DropRowsIs
  <1>2. Rows(e.rows) /\ Mirrors(e)
    BY DropRowsMirrors DEF Stored
  <1>3. Within(e.rows, d.rows)
    BY <1>1 DEF Within, Restrict
  <1>4. Stored(e)
    BY <1>1, <1>2 DEF Stored, SameRest
  <1> QED BY <1>1, <1>3, <1>4

LEMMA StoredParts ==
  ASSUME NEW d, Stored(d), NEW e, IsFile(e), e.rows = d.rows, e.stats = d.stats, e.links = d.links,
         Times(e.obs), Times(e.apps), Buckets(e.minute), Buckets(e.hour)
  PROVE  Stored(e)
  BY DEF Stored, Mirrors

\* The cleanup of d after n of its statements.
Cleaned(d, e, n, history, now) ==
  /\ Stored(e) /\ Within(e.rows, d.rows) /\ Within(e.apps, d.apps)
  /\ Within(e.minute, d.minute) /\ Within(e.hour, d.hour) /\ e.rates = d.rates
  /\ DOMAIN e.minute = {k \in DOMAIN d.minute :
       n >= (IF k[1] = All THEN 5 ELSE 7) => k[2] >= now - MinuteKeep}
  /\ DOMAIN e.hour = {k \in DOMAIN d.hour :
       n >= (IF k[1] = All THEN 6 ELSE 8) => k[2] * HourLen >= now - HourKeep}
  /\ \A p \in DOMAIN d.apps \ DOMAIN e.apps :
       IF history THEN d.apps[p] < now - Retention
       ELSE \A f \in DOMAIN e.rows : e.rows[f].app # p

LEMMA PolicyIs ==
  ASSUME NEW d, Stored(d), NEW n \in 0..8, NEW S, S \subseteq DOMAIN d.rows,
         NEW history \in BOOLEAN, NEW now, NEW e, e = Policy(d, n, S, history, now)
  PROVE  Cleaned(d, e, n, history, now) /\ e.history = d.history /\ e.version = d.version
  <1> DEFINE c == IF n >= 1 THEN DropRows(d, S) ELSE d
             E == EndedRows(c, history, now)
             a == IF n >= 2 THEN DropRows(c, E) ELSE c
  <1>1. e = [a EXCEPT
        !.apps = RestrictDomain(@, LAMBDA p : n >= 3 => p \notin OldApps(a, history, now)),
        !.obs = RestrictDomain(@, LAMBDA k : n >= 4 => d.obs[k] + Ttl > now),
        !.minute = RestrictDomain(@, LAMBDA k : n >= (IF k[1] = All THEN 5 ELSE 7)
                                                   => k[2] >= now - MinuteKeep),
        !.hour = RestrictDomain(@, LAMBDA k : n >= (IF k[1] = All THEN 6 ELSE 8)
                                                 => k[2] * HourLen >= now - HourKeep)]
    BY DEF Policy
  <1>2. Stored(c) /\ SameRest(c, d) /\ Within(c.rows, d.rows)
    <2>1. SameRest(d, d) /\ Within(d.rows, d.rows)
      BY DEF SameRest, Within, Stored
    <2> QED BY <2>1, DropRowsStored
  <1>3. E \subseteq DOMAIN c.rows
    BY DEF EndedRows
  <1> HIDE DEF c, E
  <1>4. Stored(a) /\ SameRest(a, c) /\ Within(a.rows, c.rows)
    <2>1. SameRest(c, c) /\ Within(c.rows, c.rows)
      BY <1>2 DEF SameRest, Within, Stored
    <2> QED BY <1>2, <1>3, <2>1, DropRowsStored
  <1> HIDE DEF a
  <1>5. /\ a.obs = d.obs /\ a.apps = d.apps /\ a.minute = d.minute /\ a.hour = d.hour
        /\ a.rates = d.rates /\ a.history = d.history /\ a.version = d.version /\ IsFile(a)
    BY <1>2, <1>4 DEF SameRest
  <1>6. Within(a.rows, d.rows)
    BY <1>2, <1>4 DEF Within
  <1>7. /\ IsFile(e) /\ e.rows = a.rows /\ e.stats = a.stats /\ e.links = a.links
        /\ e.rates = a.rates /\ e.history = a.history /\ e.version = a.version
    BY <1>1, <1>5 DEF IsFile
  <1>8. /\ e.apps = Restrict(a.apps, {p \in DOMAIN a.apps : n >= 3 => p \notin OldApps(a, history, now)})
        /\ e.obs = Restrict(a.obs, {k \in DOMAIN a.obs : n >= 4 => d.obs[k] + Ttl > now})
        /\ e.minute = Restrict(a.minute, {k \in DOMAIN a.minute :
                        n >= (IF k[1] = All THEN 5 ELSE 7) => k[2] >= now - MinuteKeep})
        /\ e.hour = Restrict(a.hour, {k \in DOMAIN a.hour :
                        n >= (IF k[1] = All THEN 6 ELSE 8) => k[2] * HourLen >= now - HourKeep})
    BY <1>1, <1>5 DEF IsFile, RestrictDomain
  <1>9. Within(e.apps, d.apps) /\ Within(e.obs, d.obs) /\ Within(e.minute, d.minute)
        /\ Within(e.hour, d.hour)
    BY <1>5, <1>8 DEF Within, Restrict
  <1>10. Times(e.apps) /\ Times(e.obs) /\ Buckets(e.minute) /\ Buckets(e.hour)
    BY <1>9, WithinBuckets DEF Stored, Times, Within
  <1>11. Stored(e)
    BY <1>4, <1>7, <1>10, StoredParts
  <1>12. Within(e.rows, d.rows)
    BY <1>6, <1>7
  <1>13. DOMAIN e.minute = {k \in DOMAIN d.minute :
              n >= (IF k[1] = All THEN 5 ELSE 7) => k[2] >= now - MinuteKeep}
    BY <1>5, <1>8 DEF Restrict
  <1>14. DOMAIN e.hour = {k \in DOMAIN d.hour :
              n >= (IF k[1] = All THEN 6 ELSE 8) => k[2] * HourLen >= now - HourKeep}
    BY <1>5, <1>8 DEF Restrict
  <1>15. ASSUME NEW p \in DOMAIN d.apps \ DOMAIN e.apps
         PROVE  IF history THEN d.apps[p] < now - Retention
                ELSE \A f \in DOMAIN e.rows : e.rows[f].app # p
    <2>1. p \in OldApps(a, history, now)
      BY <1>5, <1>8 DEF Restrict
    <2> QED BY <1>5, <1>7, <2>1 DEF OldApps
  <1> QED BY <1>5, <1>7, <1>9, <1>11, <1>12, <1>13, <1>14, <1>15 DEF Cleaned

LEMMA OldestRowsIs ==
  ASSUME NEW d, NEW S \in OldestRows(d)
  PROVE  S \subseteq DOMAIN d.rows
  BY DEF OldestRows, kSubset

\* Clearing and changing the settings, as far as they get.
Cleared(d, n) ==
  LET noRows == IF n >= 1 THEN DropRows(d, DOMAIN d.rows) ELSE d
  IN [noRows EXCEPT
        !.obs = IF n >= 2 THEN <<>> ELSE @,
        !.minute = RestrictDomain(@, LAMBDA k : n < (IF k[1] = All THEN 3 ELSE 4)),
        !.hour = RestrictDomain(@, LAMBDA k : n < (IF k[1] = All THEN 3 ELSE 4)),
        !.rates = IF n >= 5 THEN <<>> ELSE @,
        !.apps = IF n >= 6 THEN <<>> ELSE @]

LEMMA ClearedIs ==
  ASSUME NEW d, Stored(d), NEW n \in 0..7, NEW e, e = Cleared(d, n)
  PROVE  /\ Stored(e) /\ Within(e.rows, d.rows) /\ e.history = d.history /\ e.version = d.version
         /\ n >= 1 => DOMAIN e.rows = {}
         /\ Within(e.minute, d.minute) /\ Within(e.hour, d.hour)
         /\ DOMAIN e.minute = {k \in DOMAIN d.minute : n < (IF k[1] = All THEN 3 ELSE 4)}
         /\ DOMAIN e.hour = {k \in DOMAIN d.hour : n < (IF k[1] = All THEN 3 ELSE 4)}
         /\ e.rates = IF n >= 5 THEN <<>> ELSE d.rates
         /\ e.apps = IF n >= 6 THEN <<>> ELSE d.apps
  <1> DEFINE c == IF n >= 1 THEN DropRows(d, DOMAIN d.rows) ELSE d
  <1>1. e = [c EXCEPT
        !.obs = IF n >= 2 THEN <<>> ELSE @,
        !.minute = RestrictDomain(@, LAMBDA k : n < (IF k[1] = All THEN 3 ELSE 4)),
        !.hour = RestrictDomain(@, LAMBDA k : n < (IF k[1] = All THEN 3 ELSE 4)),
        !.rates = IF n >= 5 THEN <<>> ELSE @,
        !.apps = IF n >= 6 THEN <<>> ELSE @]
    BY DEF Cleared
  <1>2. Stored(c) /\ SameRest(c, d) /\ Within(c.rows, d.rows)
    <2>1. SameRest(d, d) /\ Within(d.rows, d.rows)
      BY DEF SameRest, Within, Stored
    <2> QED BY <2>1, DropRowsStored
  <1>3. n >= 1 => DOMAIN c.rows = {}
    <2>1. IsFile(d)
      BY DEF Stored
    <2>2. ASSUME NEW b, b = DropRows(d, DOMAIN d.rows)
          PROVE  b.rows = Restrict(d.rows, DOMAIN d.rows \ DOMAIN d.rows)
      BY ONLY <2>1, <2>2, DropRowsIs
    <2>3. n >= 1 => c.rows = Restrict(d.rows, DOMAIN d.rows \ DOMAIN d.rows)
      BY <2>2
    <2> QED BY <2>3 DEF Restrict
  <1> HIDE DEF c
  <1>4. /\ c.obs = d.obs /\ c.apps = d.apps /\ c.minute = d.minute /\ c.hour = d.hour
        /\ c.rates = d.rates /\ c.history = d.history /\ c.version = d.version /\ IsFile(c)
    BY <1>2 DEF SameRest
  <1>5. /\ IsFile(e) /\ e.rows = c.rows /\ e.stats = c.stats /\ e.links = c.links
        /\ e.history = c.history /\ e.version = c.version
        /\ e.rates = (IF n >= 5 THEN <<>> ELSE c.rates)
        /\ e.apps = (IF n >= 6 THEN <<>> ELSE c.apps)
        /\ e.obs = (IF n >= 2 THEN <<>> ELSE c.obs)
    BY <1>1, <1>4 DEF IsFile
  <1>6. /\ e.minute = Restrict(c.minute, {k \in DOMAIN c.minute : n < (IF k[1] = All THEN 3 ELSE 4)})
        /\ e.hour = Restrict(c.hour, {k \in DOMAIN c.hour : n < (IF k[1] = All THEN 3 ELSE 4)})
    BY <1>1, <1>4 DEF IsFile, RestrictDomain
  <1>7. Within(e.minute, d.minute) /\ Within(e.hour, d.hour)
    BY <1>4, <1>6 DEF Within, Restrict
  <1>8. Times(e.apps) /\ Times(e.obs)
    BY <1>4, <1>5 DEF Stored, Times
  <1>9. Buckets(e.minute) /\ Buckets(e.hour)
    BY <1>7, WithinBuckets DEF Stored
  <1>10. Stored(e)
    BY <1>2, <1>5, <1>8, <1>9, StoredParts
  <1>11. /\ DOMAIN e.minute = {k \in DOMAIN d.minute : n < (IF k[1] = All THEN 3 ELSE 4)}
         /\ DOMAIN e.hour = {k \in DOMAIN d.hour : n < (IF k[1] = All THEN 3 ELSE 4)}
    BY <1>4, <1>6 DEF Restrict
  <1>12. /\ Within(e.rows, d.rows) /\ e.history = d.history /\ e.version = d.version
         /\ n >= 1 => DOMAIN e.rows = {}
         /\ e.rates = (IF n >= 5 THEN <<>> ELSE d.rates)
         /\ e.apps = (IF n >= 6 THEN <<>> ELSE d.apps)
    BY <1>2, <1>3, <1>4, <1>5
  <1> QED BY <1>7, <1>10, <1>11, <1>12

------------------------------------------------------------------------------
\* Sums that agree, and the deltas of a batch.

Nothing == [k \in {} |-> 0]

LEMMA NothingSums ==
  Counts(Nothing) /\ (\A K : SumOf(Nothing, K) = 0) /\ (\A k : At(Nothing, k) = 0)
  <1>1. Counts(Nothing) /\ DOMAIN Nothing = {}
    BY FS_EmptySet DEF Counts, Nothing
  <1>2. ASSUME NEW K PROVE SumOf(Nothing, K) = 0
    <2>1. K \cap DOMAIN Nothing = {}
      BY <1>1
    <2> QED BY <1>1, <2>1, SumOfLaws
  <1> QED BY <1>1, <1>2 DEF At

\* Only what is in a table counts, so the keys need not be finitely many.
LEMMA SumNoMore ==
  ASSUME NEW fn, Counts(fn), NEW gn, Counts(gn), NEW K, \A k \in K : At(fn, k) <= At(gn, k)
  PROVE  SumOf(fn, K) <= SumOf(gn, K)
  <1> DEFINE L == K \cap (DOMAIN fn \cup DOMAIN gn)
  <1>1. IsFiniteSet(DOMAIN fn \cup DOMAIN gn)
    BY FS_Union DEF Counts
  <1>2. IsFiniteSet(L) /\ L \subseteq K
    BY <1>1, FS_Subset
  <1>3. SumOf(fn, K) = SumOf(fn, L) /\ SumOf(gn, K) = SumOf(gn, L)
    <2>1. K \cap DOMAIN fn = L \cap DOMAIN fn /\ K \cap DOMAIN gn = L \cap DOMAIN gn
      OBVIOUS
    <2> HIDE DEF L
    <2> QED BY <2>1, SumOfLaws
  <1> HIDE DEF L
  <1>4. \A k \in L : At(fn, k) <= At(gn, k) + At(Nothing, k)
    <2>1. \A k : At(gn, k) \in Nat /\ At(Nothing, k) = 0
      BY NothingSums DEF At, Counts
    <2>2. \A k \in L : At(fn, k) <= At(gn, k)
      BY <1>2
    <2> QED BY <2>1, <2>2
  <1>5. SumOf(fn, L) <= SumOf(gn, L) + SumOf(Nothing, L)
    BY <1>2, <1>4, NothingSums, SumAtMost
  <1>6. SumOf(Nothing, L) = 0 /\ SumOf(gn, L) \in Nat
    BY NothingSums, SumOfLaws
  <1> QED BY <1>3, <1>5, <1>6

LEMMA SumSame ==
  ASSUME NEW fn, Counts(fn), NEW gn, Counts(gn), NEW K, \A k \in K : At(fn, k) = At(gn, k)
  PROVE  SumOf(fn, K) = SumOf(gn, K)
  <1>1. \A k \in K : At(fn, k) <= At(gn, k) /\ At(gn, k) <= At(fn, k)
    <2>1. \A k : At(gn, k) \in Nat
      BY DEF At, Counts
    <2> QED BY <2>1
  <1>2. SumOf(fn, K) <= SumOf(gn, K) /\ SumOf(gn, K) <= SumOf(fn, K)
    BY <1>1, SumNoMore
  <1> QED BY <1>2, SumOfLaws

LEMMA SumOne ==
  ASSUME NEW fn, Counts(fn), NEW k
  PROVE  SumOf(fn, {k}) = At(fn, k)
  <1>1. SumOf(fn, {k}) = At(fn, k) + SumOf(fn, {k} \ {k})
    BY SumOfLaws
  <1>2. SumOf(fn, {k} \ {k}) = 0
    <2>1. ({k} \ {k}) \cap DOMAIN fn = {}
      OBVIOUS
    <2> QED BY <2>1, SumOfLaws
  <1>3. At(fn, k) \in Nat
    BY DEF At, Counts
  <1> QED BY <1>1, <1>2, <1>3

LEMMA SumZero ==
  ASSUME NEW fn, Counts(fn), NEW K, \A k \in K : At(fn, k) = 0
  PROVE  SumOf(fn, K) = 0
  <1>1. \A k \in K : At(fn, k) = At(Nothing, k)
    BY NothingSums
  <1> QED BY <1>1, NothingSums, SumSame

Deltas(up) == [f \in DOMAIN up |-> up[f].delta]

LEMMA DeltasCount ==
  ASSUME NEW up, Updates(up)
  PROVE  Counts(Deltas(up)) /\ \A f \in DOMAIN up : At(Deltas(up), f) = up[f].delta
  <1>1. IsFiniteSet(DOMAIN up)
    BY StoreAssumption, FS_Subset DEF Updates
  <1>2. \A f \in DOMAIN up : up[f].delta \in Nat
    BY DEF Updates, Update
  <1> QED BY <1>1, <1>2 DEF Counts, Deltas, At

\* What moved of an address.
MovedTo(up, read, a) == {f \in read : Moved(up, f) /\ RemoteOf[f] = a}

LEMMA ShareIs ==
  ASSUME NEW d, NEW up, NEW read, NEW x
  PROVE  Share(d, up, read, x) =
           SumOf(Deltas(up), {f \in read : Moved(up, f) /\ (x = All \/ x \in EntitiesOf(d, f))})
  BY DEF Share, Deltas

LEMMA ShareNat ==
  ASSUME NEW d, NEW up, Updates(up), NEW read, NEW x
  PROVE  Share(d, up, read, x) \in Nat
  <1> DEFINE K == {f \in read : Moved(up, f) /\ (x = All \/ x \in EntitiesOf(d, f))}
  <1>1. Share(d, up, read, x) = SumOf(Deltas(up), K)
    BY ShareIs
  <1> HIDE DEF K
  <1> QED BY <1>1, DeltasCount, SumOfLaws

LEMMA ShareOfAll ==
  ASSUME NEW d, NEW up, NEW read
  PROVE  Share(d, up, read, All) = SumOf(Deltas(up), {f \in read : Moved(up, f)})
  <1>1. {f \in read : Moved(up, f) /\ (All = All \/ All \in EntitiesOf(d, f))}
          = {f \in read : Moved(up, f)}
    OBVIOUS
  <1> QED BY <1>1, ShareIs

LEMMA ShareOfEndpoint ==
  ASSUME NEW d, NEW up, NEW read, NEW a
  PROVE  Share(d, up, read, Endpoint(a)) = SumOf(Deltas(up), MovedTo(up, read, a))
  <1>1. \A f : Endpoint(a) \in EntitiesOf(d, f) <=> RemoteOf[f] = a
    BY DEF EntitiesOf, Endpoint, Named, Application
  <1>2. Endpoint(a) # All
    BY DEF Endpoint, All
  <1>3. {f \in read : Moved(up, f) /\ (Endpoint(a) = All \/ Endpoint(a) \in EntitiesOf(d, f))}
          = MovedTo(up, read, a)
    BY <1>1, <1>2 DEF MovedTo
  <1> QED BY <1>3, ShareIs

LEMMA EntityFinite == IsFiniteSet(Entity)
  <1> DEFINE E == [a \in Remote |-> Endpoint(a)]
             P == [p \in App |-> Application(p)]
             N == [x \in Domain |-> Named(x)]
             ES == {E[a] : a \in Remote}
             PS == {P[p] : p \in App}
             NS == {N[x] : x \in Domain}
  <1>1. IsFiniteSet(Remote) /\ IsFiniteSet(App) /\ IsFiniteSet(Domain)
    BY StoreAssumption
  <1>2. Entity = {All} \cup ES \cup PS \cup NS
    BY DEF Entity
  <1> HIDE DEF E, P, N
  <1>3. IsFiniteSet(ES) /\ IsFiniteSet(PS) /\ IsFiniteSet(NS)
    BY <1>1, ImageFinite
  <1> HIDE DEF ES, PS, NS
  <1> QED BY <1>2, <1>3, FS_Union, FS_Singleton

\* One table of buckets takes the shares of a batch.
Plus(fn, share, t) ==
  Over([k \in {x \in Entity : share[x] > 0} \X {t} |->
          share[k[1]] + (IF k \in DOMAIN fn THEN fn[k] ELSE 0)], fn)

\* gn is fn with these shares at t.
Grown(gn, fn, share, t) ==
  /\ Buckets(gn) /\ DOMAIN fn \subseteq DOMAIN gn
  /\ \A k \in DOMAIN gn \ DOMAIN fn : k[2] = t
  /\ \A k : k \notin Entity \X {t} => At(gn, k) = At(fn, k)
  /\ \A x \in Entity : At(gn, <<x, t>>) = At(fn, <<x, t>>) + share[x]

LEMMA PlusIs ==
  ASSUME NEW fn, Buckets(fn), NEW share, NEW t \in Nat, \A x \in Entity : share[x] \in Nat,
         NEW gn, gn = Plus(fn, share, t)
  PROVE  Grown(gn, fn, share, t)
  <1> DEFINE G == {x \in Entity : share[x] > 0}
             D == G \X {t}
             new == [k \in D |-> share[k[1]] + (IF k \in DOMAIN fn THEN fn[k] ELSE 0)]
  <1>0. gn = Over(new, fn)
    BY DEF Plus
  <1>1. IsFiniteSet(D)
    <2>1. IsFiniteSet(G) /\ IsFiniteSet({t})
      BY EntityFinite, FS_Subset, FS_Singleton
    <2> HIDE DEF G
    <2> QED BY <2>1, FS_Product
  <1>2. \A k \in D : k[1] \in Entity /\ k[2] = t /\ k = <<k[1], t>> /\ share[k[1]] \in Nat
    OBVIOUS
  <1>3. DOMAIN new = D /\ \A k \in D : new[k] = share[k[1]] + At(fn, k)
    BY DEF At
  <1>4. \A k : At(fn, k) \in Nat
    BY DEF At, Buckets, Counts
  <1>5. \A x : <<x, t>> \in D <=> x \in Entity /\ share[x] > 0
    OBVIOUS
  <1>6. D \subseteq Entity \X {t} /\ D \subseteq Entity \X Nat
    OBVIOUS
  <1> HIDE DEF new, D, G
  <1>7. /\ DOMAIN gn = D \cup DOMAIN fn
        /\ \A k \in DOMAIN gn : gn[k] = IF k \in D THEN new[k] ELSE fn[k]
    BY <1>0, <1>3 DEF Over
  <1>8. Buckets(gn)
    <2>1. IsFiniteSet(DOMAIN gn)
      <3>1. IsFiniteSet(DOMAIN fn)
        BY DEF Buckets, Counts
      <3> QED BY <1>1, <1>7, <3>1, FS_Union
    <2>2. \A k \in DOMAIN gn : gn[k] \in Nat
      BY <1>2, <1>3, <1>4, <1>7 DEF Buckets, Counts
    <2>3. DOMAIN gn \subseteq Entity \X Nat
      BY <1>6, <1>7 DEF Buckets
    <2> QED BY <2>1, <2>2, <2>3 DEF Buckets, Counts
  <1>9. \A k : k \notin Entity \X {t} => At(gn, k) = At(fn, k)
    BY <1>6, <1>7 DEF At
  <1>10. ASSUME NEW x \in Entity PROVE At(gn, <<x, t>>) = At(fn, <<x, t>>) + share[x]
    <2> DEFINE k == <<x, t>>
    <2>1. share[x] \in Nat /\ k[1] = x
      OBVIOUS
    <2>2. k \in D <=> share[x] > 0
      BY <1>5
    <2> HIDE DEF k
    <2>3. CASE share[x] > 0
      <3>1. At(gn, k) = new[k]
        BY <1>7, <2>2, <2>3 DEF At
      <3>2. new[k] = share[x] + At(fn, k)
        BY <1>3, <2>1, <2>2, <2>3
      <3> QED BY <1>4, <2>1, <3>1, <3>2 DEF k
    <2>4. CASE ~(share[x] > 0)
      <3>1. share[x] = 0
        BY <2>1, <2>4
      <3>2. At(gn, k) = At(fn, k)
        BY <1>7, <2>2, <2>4 DEF At
      <3> QED BY <1>4, <3>1, <3>2 DEF k
    <2> QED BY <2>3, <2>4
  <1> QED BY <1>2, <1>7, <1>8, <1>9, <1>10 DEF Grown

Shares(d, up, read) == [x \in Entity |-> Share(d, up, read, x)]

\* e is d with these shares in its buckets.
Added(d, e, share, now) ==
  /\ Stored(e) /\ e.rows = d.rows /\ e.apps = d.apps /\ e.obs = d.obs
  /\ e.rates = d.rates /\ e.history = d.history /\ e.version = d.version
  /\ Grown(e.minute, d.minute, share, now) /\ Grown(e.hour, d.hour, share, Hour(now))

LEMMA AddBucketsIs ==
  ASSUME NEW d, Stored(d), NEW up, Updates(up), NEW read, read \subseteq DOMAIN up,
         NEW now, Hour(now) \in Nat, now \in Nat,
         NEW e, e = AddBuckets(d, up, read, now)
  PROVE  Added(d, e, Shares(d, up, read), now)
  <1> DEFINE share == Shares(d, up, read)
  <1>1. \A x \in Entity : share[x] \in Nat
    BY ShareNat DEF Shares
  <1>2. e = [d EXCEPT !.minute = Plus(@, share, now), !.hour = Plus(@, share, Hour(now))]
    BY DEF AddBuckets, Plus, Shares
  <1>3. /\ IsFile(e) /\ e.rows = d.rows /\ e.stats = d.stats /\ e.links = d.links
        /\ e.apps = d.apps /\ e.obs = d.obs
        /\ e.rates = d.rates /\ e.history = d.history /\ e.version = d.version
    BY <1>2 DEF IsFile, Stored
  <1>4. e.minute = Plus(d.minute, share, now) /\ e.hour = Plus(d.hour, share, Hour(now))
    BY <1>2 DEF IsFile, Stored
  <1> HIDE DEF share
  <1>5. Buckets(d.minute) /\ Buckets(d.hour)
    BY DEF Stored
  <1>6. Grown(e.minute, d.minute, share, now) /\ Grown(e.hour, d.hour, share, Hour(now))
    BY <1>1, <1>4, <1>5, PlusIs
  <1>7. Stored(e)
    BY <1>3, <1>6, StoredParts DEF Stored, Grown
  <1> QED BY <1>3, <1>6, <1>7 DEF share, Added

\* The hour of a minute.
LEMMA HourIs ==
  ASSUME NEW t \in Nat
  PROVE  /\ Hour(t) \in Nat
         /\ Hour(t) * HourLen <= t /\ t < Hour(t) * HourLen + HourLen
  BY StoreAssumption DEF Hour

LEMMA HourGrows ==
  ASSUME NEW s \in Nat, NEW t \in Nat, s <= t
  PROVE  Hour(s) <= Hour(t)
  <1>1. SUFFICES ASSUME Hour(t) < Hour(s) PROVE FALSE
    BY HourIs
  <1>2. HourLen \in Nat /\ HourLen > 0
    BY StoreAssumption
  <1>3. \A a, b \in Nat : a < b => (a + 1) * HourLen <= b * HourLen
    BY <1>2
  <1>4. Hour(s) \in Nat /\ Hour(t) \in Nat
    BY HourIs
  <1>5. (Hour(t) + 1) * HourLen <= Hour(s) * HourLen
    BY <1>1, <1>3, <1>4
  <1>6. (Hour(t) + 1) * HourLen = Hour(t) * HourLen + HourLen
    BY <1>2, <1>4
  <1>7. t < Hour(t) * HourLen + HourLen /\ Hour(s) * HourLen <= s
    BY HourIs
  <1>8. Hour(t) * HourLen \in Nat /\ Hour(s) * HourLen \in Nat
    BY <1>2, <1>4
  <1> QED BY <1>2, <1>5, <1>6, <1>7, <1>8

\* The whole difference is written, so the table has the new rates.
LEMMA StoreRatesIs ==
  ASSUME NEW d, Stored(d), mem.mirror = d.rates, NEW next,
         next = [k \in DOMAIN next |-> next[k]],
         NEW e, e = StoreRates(d, next)
  PROVE  e.rates = next
  <1> DEFINE changed == {k \in DOMAIN next : k \notin DOMAIN mem.mirror \/ mem.mirror[k] # next[k]}
             gone == DOMAIN mem.mirror \ DOMAIN next
             left == Restrict(d.rates, DOMAIN d.rates \ gone)
             new == Restrict(next, changed)
  <1>1. e.rates = Over(new, left)
    BY DEF StoreRates, Stored, IsFile
  <1>2. DOMAIN new = changed /\ DOMAIN left = DOMAIN d.rates \cap DOMAIN next
    BY DEF Restrict
  <1>3. \A k \in changed : new[k] = next[k]
    BY DEF Restrict
  <1>4. \A k \in DOMAIN left : left[k] = d.rates[k]
    BY DEF Restrict
  <1>5. \A k \in DOMAIN next \ changed : k \in DOMAIN d.rates /\ d.rates[k] = next[k]
    OBVIOUS
  <1>6. changed \subseteq DOMAIN next
    OBVIOUS
  <1> HIDE DEF changed, left, new
  <1>7. DOMAIN new \cup DOMAIN left = DOMAIN next
    BY <1>2, <1>5, <1>6
  <1>8. Over(new, left) = [k \in DOMAIN next |-> IF k \in DOMAIN new THEN new[k] ELSE left[k]]
    BY <1>7 DEF Over
  <1>9. \A k \in DOMAIN next : (IF k \in DOMAIN new THEN new[k] ELSE left[k]) = next[k]
    BY <1>2, <1>3, <1>4, <1>5
  <1>10. [k \in DOMAIN next |-> IF k \in DOMAIN new THEN new[k] ELSE left[k]]
           = [k \in DOMAIN next |-> next[k]]
    BY <1>9
  <1> QED BY <1>1, <1>8, <1>10

LEMMA StoreRatesKeeps ==
  ASSUME NEW d, Stored(d), NEW next, NEW e, e = StoreRates(d, next)
  PROVE  /\ Stored(e) /\ e.rows = d.rows /\ e.apps = d.apps /\ e.obs = d.obs
         /\ e.minute = d.minute /\ e.hour = d.hour /\ e.history = d.history /\ e.version = d.version
  <1>1. /\ IsFile(e) /\ e.rows = d.rows /\ e.stats = d.stats /\ e.links = d.links
        /\ e.apps = d.apps /\ e.obs = d.obs
        /\ e.minute = d.minute /\ e.hour = d.hour /\ e.history = d.history /\ e.version = d.version
    BY DEF StoreRates, Stored, IsFile
  <1>2. Stored(e)
    BY <1>1, StoredParts DEF Stored
  <1> QED BY <1>1, <1>2

------------------------------------------------------------------------------
\* The shape of the state, with the counters that the triggers keep.

IsKnown(k) ==
  \A f \in Flow : /\ k[f].state \in {"none", "active", "ended"}
                  /\ k[f].total \in Nat /\ k[f].last \in Int /\ k[f].app \in App \cup {None}

IsWork(w) ==
  /\ DOMAIN w = {"stage", "up", "read"} /\ w.stage \in {"idle", "policy", "rollup", "rates"}
  /\ Updates(w.up) /\ w.read \subseteq DOMAIN w.up

Shape ==
  /\ clock \in 0..MaxClock
  /\ IsKnown(known)
  /\ Stored(db) /\ db.history \in BOOLEAN
  /\ DOMAIN mem = {"mirror", "details", "policyAt", "history", "version"} /\ mem.history \in BOOLEAN
  /\ IsWork(work)

\* What a batch reports of a flow is never more than it had and has moved since.
LEMMA ReportIs ==
  ASSUME NEW f \in Flow, IsKnown(known), clock \in Nat, NEW u \in Reports(f), u # None
  PROVE  u \in Update /\ u.total <= known[f].total + u.delta
  <1>1. /\ known[f].state \in {"none", "active", "ended"}
        /\ known[f].total \in Nat /\ known[f].last \in Int /\ known[f].app \in App \cup {None}
    BY DEF IsKnown
  <1> DEFINE Found == IF known[f].app = None THEN App \cup {None} ELSE {known[f].app}
             New(t, b, a, p) == [total |-> t, delta |-> b,
                                 last |-> IF b > 0 THEN Now ELSE known[f].last, active |-> a, app |-> p]
             Good(x) == x \in Update /\ x.total <= known[f].total + x.delta
  <1>2. Now \in Int /\ Found \subseteq App \cup {None}
    BY <1>1 DEF Now
  <1>3. ASSUME NEW b \in 1..(MaxTotal - known[f].total), NEW a \in BOOLEAN, NEW p \in App \cup {None}
        PROVE  Good(New(known[f].total + b, b, a, p))
    <2>1. b \in Nat /\ known[f].total + b \in Nat
      BY <1>1, StoreAssumption
    <2> QED BY <1>1, <1>2, <2>1 DEF Update
  <1>4. ASSUME NEW a \in BOOLEAN, NEW p \in App \cup {None}
        PROVE  Good(New(1, 1, a, p)) /\ Good(New(known[f].total, 0, a, p))
    BY <1>1, <1>2 DEF Update
  <1>5. \/ \E b \in 1..(MaxTotal - known[f].total), a \in BOOLEAN, p \in Found :
             u = New(known[f].total + b, b, a, p)
        \/ \E a \in BOOLEAN, p \in App \cup {None} : u = New(1, 1, a, p)
        \/ \E a \in BOOLEAN, p \in Found : u = New(known[f].total, 0, a, p)
    <2>1. CASE known[f].state = "none"
      <3>1. \E p \in App \cup {None} : u = New(1, 1, TRUE, p)
        BY <2>1 DEF Reports
      <3> QED BY <3>1
    <2>2. CASE known[f].state = "active"
      <3>1. \/ \E b \in 1..(MaxTotal - known[f].total), a \in BOOLEAN, p \in Found :
                 u = New(known[f].total + b, b, a, p)
            \/ \E a \in BOOLEAN, p \in Found : u = New(1, 1, a, p)
            \/ \E a \in BOOLEAN, p \in Found : u = New(known[f].total, 0, a, p)
        BY <2>2 DEF Reports
      <3> HIDE DEF New, Found
      <3> QED BY <1>2, <3>1
    <2>3. CASE known[f].state = "ended"
      BY <2>3 DEF Reports
    <2> QED BY <1>1, <2>1, <2>2, <2>3
  <1> HIDE DEF New, Found, Good
  <1>6. Good(u)
    BY <1>2, <1>3, <1>4, <1>5
  <1> QED BY <1>6 DEF Good

LEMMA BatchIs ==
  ASSUME IsKnown(known), clock \in Nat, NEW up \in Batches
  PROVE  Updates(up) /\ \A f \in DOMAIN up : up[f].total <= known[f].total + up[f].delta
  <1>1. PICK c \in [Flow -> UNION {Reports(f) : f \in Flow}] :
          /\ \A f \in Flow : c[f] \in Reports(f)
          /\ up = Restrict(c, {f \in Flow : c[f] # None})
    BY DEF Batches
  <1>2. /\ DOMAIN up = {f \in Flow : c[f] # None}
        /\ \A f \in DOMAIN up : up[f] = c[f]
    BY <1>1 DEF Restrict
  <1>3. ASSUME NEW f \in DOMAIN up
        PROVE  f \in Flow /\ up[f] \in Update /\ up[f].total <= known[f].total + up[f].delta
    BY <1>1, <1>2, ReportIs
  <1> QED BY <1>3 DEF Updates

LEMMA SightingsAre ==
  ASSUME clock \in Nat, NEW seen \in Sightings
  PROVE  IsFiniteSet(seen) /\ seen \subseteq Sighting
  <1>1. \/ seen = {}
        \/ \E x \in Domain, a \in Remote, t \in {Now, Now - 1} :
             seen = {[domain |-> x, remote |-> a, at |-> t]}
    BY DEF Sightings
  <1>2. Now \in Int /\ Now - 1 \in Int
    BY DEF Now
  <1>3. CASE seen = {}
    BY <1>3, FS_EmptySet
  <1>4. CASE seen # {}
    <2>1. PICK x \in Domain, a \in Remote, t \in {Now, Now - 1} :
             seen = {[domain |-> x, remote |-> a, at |-> t]}
      BY <1>1, <1>4
    <2>2. [domain |-> x, remote |-> a, at |-> t] \in Sighting
      BY <1>2 DEF Sighting
    <2>3. seen \subseteq Sighting
      BY <2>1, <2>2
    <2>4. IsFiniteSet({[domain |-> x, remote |-> a, at |-> t]})
      BY FS_Singleton
    <2> QED BY <2>1, <2>3, <2>4
  <1> QED BY <1>3, <1>4

\* What each action does to the database.
LEMMA BeginIs ==
  ASSUME Shape, Begin
  PROVE  /\ clock' \in 1..MaxClock /\ clock' = clock + 1
         /\ \E up \in Batches, seen \in Sightings :
              /\ known' = [f \in Flow |->
                             IF f \in DOMAIN up
                               THEN [state |-> IF up[f].active THEN "active" ELSE "ended",
                                     total |-> up[f].total, last |-> up[f].last, app |-> up[f].app]
                               ELSE known[f]]
              /\ \/ /\ db' = WriteRows(db, up, seen, clock')
                    /\ work' = [stage |-> "policy", up |-> up, read |-> {}]
                    /\ slips' = slips
                 \/ /\ db' = db /\ work' = Idle
                    /\ slips' = slips \cup Lost(up, DOMAIN up)
         /\ work.stage = "idle" /\ tick' = Blank /\ mem' = mem /\ sent' = sent
  BY StoreAssumption DEF Shape, Begin, Now, Abandon

LEMMA EnforceIs ==
  ASSUME Shape, Enforce
  PROVE  /\ \E n \in 0..8 : Cleaned(db, db', n, mem.history, clock)
         /\ db'.history = db.history
         /\ \/ /\ work' = [work EXCEPT !.stage = "rollup", !.read = ReadBack(db', work.up)]
               /\ slips' = slips \cup Lost(work.up, DOMAIN work.up \ DOMAIN db'.rows)
               /\ tick' = tick
            \/ /\ work' = Idle /\ tick' = Blank
               /\ slips' = slips \cup Lost(work.up, DOMAIN work.up)
         /\ work.stage = "policy" /\ clock' = clock /\ known' = known /\ sent' = sent
         /\ \E t : mem' = [mem EXCEPT !.policyAt = t]
  <1>1. PICK S \in OldestRows(db) :
       \/ /\ db' = IF Due THEN Policy(db, 8, S, mem.history, clock) ELSE db
          /\ work' = [work EXCEPT !.stage = "rollup", !.read = ReadBack(db', work.up)]
          /\ slips' = slips \cup Lost(work.up, DOMAIN work.up \ DOMAIN db'.rows)
          /\ UNCHANGED <<tick, events>>
       \/ \E n \in 0..7 :
            /\ Due
            /\ db' = Policy(db, n, S, mem.history, clock)
            /\ Abandon
            /\ slips' = slips \cup Lost(work.up, DOMAIN work.up)
    BY DEF Enforce
  <1>2. S \subseteq DOMAIN db.rows /\ Stored(db) /\ mem.history \in BOOLEAN
    BY OldestRowsIs DEF Shape
  <1>3. ASSUME NEW n \in 0..8, db' = Policy(db, n, S, mem.history, clock)
        PROVE  Cleaned(db, db', n, mem.history, clock) /\ db'.history = db.history
    BY <1>2, <1>3, PolicyIs
  <1>4. ASSUME db' = db PROVE Cleaned(db, db', 0, mem.history, clock)
    BY <1>2, <1>4 DEF Cleaned, Within
  <1>5. (\E n \in 0..8 : Cleaned(db, db', n, mem.history, clock)) /\ db'.history = db.history
    BY <1>1, <1>3, <1>4
  <1>6. \/ /\ work' = [work EXCEPT !.stage = "rollup", !.read = ReadBack(db', work.up)]
           /\ slips' = slips \cup Lost(work.up, DOMAIN work.up \ DOMAIN db'.rows)
           /\ tick' = tick
        \/ /\ work' = Idle /\ tick' = Blank
           /\ slips' = slips \cup Lost(work.up, DOMAIN work.up)
    BY <1>1 DEF Abandon
  <1> QED BY <1>5, <1>6 DEF Enforce

LEMMA SaveIs ==
  ASSUME Shape, SaveSettings
  PROVE  /\ \E n \in 0..8, history \in BOOLEAN : Cleaned(db, db', n, history, clock)
         /\ db'.history \in BOOLEAN
         /\ work.stage = "idle" /\ tick' = Blank
         /\ clock' = clock /\ known' = known /\ work' = work /\ sent' = sent /\ slips' = slips
         /\ mem'.mirror = mem.mirror /\ mem'.details \in {mem.details, <<>>}
         /\ mem'.history \in BOOLEAN /\ DOMAIN mem' = DOMAIN mem
  <1>1. PICK history \in BOOLEAN, n \in 0..9, S \in OldestRows(db) :
       /\ db' = IF n = 0 THEN db
                ELSE Policy([db EXCEPT !.history = history, !.version = mem.version + 1],
                            IF Due THEN n - 1 ELSE 0, S, history, clock)
       /\ mem' = [mem EXCEPT !.details = IF n > 0 THEN <<>> ELSE @,
                             !.policyAt = IF n > 0 /\ Due THEN clock ELSE @,
                             !.history = IF n = 9 THEN history ELSE @,
                             !.version = @ + 1]
    BY DEF SaveSettings
  <1> DEFINE d == [db EXCEPT !.history = history, !.version = mem.version + 1]
             m == IF Due THEN n - 1 ELSE 0
  <1>2. /\ IsFile(d) /\ d.rows = db.rows /\ d.stats = db.stats /\ d.links = db.links
        /\ d.obs = db.obs /\ d.apps = db.apps /\ d.minute = db.minute /\ d.hour = db.hour
        /\ d.rates = db.rates /\ d.history = history
    BY DEF Shape, Stored, IsFile
  <1> HIDE DEF d
  <1>3. Stored(d) /\ S \subseteq DOMAIN d.rows
    BY <1>2, OldestRowsIs, StoredParts DEF Shape, Stored
  <1>4. ASSUME n # 0 PROVE Cleaned(d, db', m, history, clock) /\ db'.history = d.history
    <2>1. m \in 0..8 /\ db' = Policy(d, m, S, history, clock)
      BY <1>1, <1>4 DEF d
    <2> HIDE DEF m
    <2> QED BY <1>3, <2>1, PolicyIs
  <1>5. ASSUME n # 0 PROVE Cleaned(db, db', m, history, clock) /\ db'.history \in BOOLEAN
    <2> HIDE DEF m
    <2> QED BY <1>2, <1>4, <1>5 DEF Cleaned
  <1>6. ASSUME n = 0 PROVE Cleaned(db, db', 0, history, clock) /\ db'.history \in BOOLEAN
    BY <1>1, <1>6 DEF Cleaned, Within, Shape
  <1>7. m \in 0..8 \/ n = 0
    OBVIOUS
  <1>8. /\ mem'.mirror = mem.mirror /\ mem'.details \in {mem.details, <<>>}
        /\ mem'.history \in BOOLEAN /\ DOMAIN mem' = DOMAIN mem
    BY <1>1 DEF Shape
  <1>9. \E k \in 0..8, h \in BOOLEAN : Cleaned(db, db', k, h, clock)
    <2> HIDE DEF m
    <2> QED BY <1>5, <1>6, <1>7
  <1> QED BY <1>5, <1>6, <1>8, <1>9 DEF SaveSettings

LEMMA ClearIs ==
  ASSUME Shape, ClearHistory
  PROVE  \E n \in 0..7 :
           /\ db' = Cleared(db, n)
           /\ work.stage = "idle" /\ tick' = Blank
           /\ clock' = clock /\ known' = known /\ work' = work /\ sent' = sent
           /\ mem'.mirror = <<>> /\ mem'.details = <<>> /\ mem'.history = mem.history
           /\ DOMAIN mem' = DOMAIN mem
           /\ slips' = slips \cup {"cleared"} \cup (IF n < 4 THEN {"rollups"} ELSE {})
                         \cup (IF n < 5 THEN {"rates"} ELSE {})
  <1>1. PICK n \in 0..7 :
    LET noRows == IF n >= 1 THEN DropRows(db, DOMAIN db.rows) ELSE db
    IN /\ work.stage = "idle" /\ events < MaxEvents
       /\ db' = [noRows EXCEPT
                   !.obs = IF n >= 2 THEN <<>> ELSE @,
                   !.minute = RestrictDomain(@, LAMBDA k : n < (IF k[1] = All THEN 3 ELSE 4)),
                   !.hour = RestrictDomain(@, LAMBDA k : n < (IF k[1] = All THEN 3 ELSE 4)),
                   !.rates = IF n >= 5 THEN <<>> ELSE @,
                   !.apps = IF n >= 6 THEN <<>> ELSE @]
       /\ mem' = [mem EXCEPT !.details = <<>>, !.mirror = <<>>]
       /\ slips' = slips \cup {"cleared"} \cup (IF n < 4 THEN {"rollups"} ELSE {})
                        \cup (IF n < 5 THEN {"rates"} ELSE {})
       /\ tick' = Blank
       /\ events' = events + 1
       /\ UNCHANGED <<clock, known, work, sent>>
    BY DEF ClearHistory
  <1>2. db' = Cleared(db, n)
    BY <1>1 DEF Cleared
  <1>3. /\ mem'.mirror = <<>> /\ mem'.details = <<>> /\ mem'.history = mem.history
        /\ DOMAIN mem' = DOMAIN mem
    BY <1>1 DEF Shape
  <1> QED BY <1>1, <1>2, <1>3

LEMMA RollupIs ==
  ASSUME Shape, Rollup
  PROVE  /\ \/ /\ Added(db, db', Shares(db, work.up, work.read), clock)
               /\ work' = [work EXCEPT !.stage = "rates"]
               /\ tick' = tick /\ slips' = slips
            \/ /\ db' = db /\ work' = Idle /\ tick' = Blank
               /\ slips' = slips \cup Lost(work.up, DOMAIN work.up)
         /\ work.stage = "rollup"
         /\ clock' = clock /\ known' = known /\ mem' = mem /\ sent' = sent
  <1>1. /\ Stored(db) /\ Updates(work.up) /\ work.read \subseteq DOMAIN work.up
        /\ clock \in Nat /\ Hour(clock) \in Nat
    BY HourIs DEF IsWork, Shape
  <1>2. ASSUME NEW e, e = AddBuckets(db, work.up, work.read, clock)
        PROVE  Added(db, e, Shares(db, work.up, work.read), clock)
    BY <1>1, <1>2, AddBucketsIs
  <1>3. db' = AddBuckets(db, work.up, work.read, clock) =>
          Added(db, db', Shares(db, work.up, work.read), clock)
    BY <1>2
  <1> QED BY <1>3 DEF Rollup, Abandon

LEMMA PublishIs ==
  ASSUME Shape, Publish
  PROVE  /\ work.stage = "rates" /\ work' = Idle
         /\ clock' = clock /\ known' = known /\ slips' = slips
         /\ \/ /\ db' = StoreRates(db, RatesOf(db, work.up, work.read))
               /\ mem'.mirror = RatesOf(db, work.up, work.read)
               /\ mem'.details = Details(db, work.up, work.read)
               /\ mem'.history = mem.history /\ DOMAIN mem' = DOMAIN mem
               /\ tick' = Tick(db, work.up, work.read)
               /\ sent' = Over(tick'.full, sent)
            \/ db' = db /\ mem' = mem /\ sent' = sent /\ tick' = Blank
  BY DEF Publish, Abandon, Shape

------------------------------------------------------------------------------
\* Every reachable state has this shape, and exact counters.

LEMMA OpenedIs ==
  ASSUME NEW d
  PROVE  /\ DOMAIN Opened(d) = {"mirror", "details", "policyAt", "history", "version"}
         /\ Opened(d).mirror = d.rates /\ Opened(d).details = <<>> /\ Opened(d).history = d.history
  BY DEF Opened

LEMMA IdleIs ==
  /\ DOMAIN Idle = {"stage", "up", "read"} /\ Idle.stage = "idle"
  /\ Updates(Idle.up) /\ Idle.read \subseteq DOMAIN Idle.up /\ DOMAIN Idle.up = {}
  BY DEF Idle, Updates

LEMMA ShapeInit == ASSUME Init PROVE Shape
  <1>1. clock \in 0..MaxClock
    BY StoreAssumption DEF Init
  <1>2. IsKnown(known)
    BY DEF Init, IsKnown
  <1>3. Stored(db) /\ db.history \in BOOLEAN
    <2> DEFINE no == <<>>
    <2>1. /\ db.rows = no /\ db.obs = no /\ db.apps = no /\ db.minute = no /\ db.hour = no
          /\ db.links = {} /\ db.stats = [flows |-> 0, active |-> 0, named |-> 0]
          /\ IsFile(db) /\ db.history \in BOOLEAN
      BY DEF Init, EmptyDb, IsFile
    <2>2. DOMAIN no = {}
      OBVIOUS
    <2> HIDE DEF no
    <2>3. Rows(db.rows) /\ Times(db.obs) /\ Times(db.apps)
      BY <2>1, <2>2 DEF Rows, Times
    <2>4. Buckets(db.minute) /\ Buckets(db.hour)
      BY <2>1, <2>2, FS_EmptySet DEF Buckets, Counts
    <2>5. DOMAIN db.rows = {} /\ ActiveIn(db.rows) = {} /\ NamedIn(db.rows) = {}
      BY <2>1, <2>2 DEF ActiveIn, NamedIn
    <2>6. Cardinality({}) = 0
      BY FS_EmptySet
    <2>7. db.links = UNION {{f} \X db.rows[f].domains : f \in DOMAIN db.rows}
      BY <2>1, <2>5
    <2>8. /\ Cardinality(DOMAIN db.rows) = 0 /\ Cardinality(ActiveIn(db.rows)) = 0
          /\ Cardinality(NamedIn(db.rows)) = 0
      BY <2>5, <2>6
    <2>9. Mirrors(db)
      BY <2>1, <2>7, <2>8 DEF Mirrors
    <2> QED BY <2>1, <2>3, <2>4, <2>9 DEF Stored
  <1>4. DOMAIN mem = {"mirror", "details", "policyAt", "history", "version"} /\ mem.history \in BOOLEAN
    BY OpenedIs DEF Init, EmptyDb
  <1>5. IsWork(work)
    BY IdleIs DEF Init, IsWork
  <1> QED BY <1>1, <1>2, <1>3, <1>4, <1>5 DEF Shape

LEMMA ShapeStep == ASSUME Shape, [Next]_vars PROVE Shape'
  <1> USE DEF Shape
  <1>0. IsWork(Idle)
    BY IdleIs DEF IsWork
  <1>1. CASE Begin
    <2>1. PICK up \in Batches, seen \in Sightings :
              /\ known' = [f \in Flow |->
                             IF f \in DOMAIN up
                               THEN [state |-> IF up[f].active THEN "active" ELSE "ended",
                                     total |-> up[f].total, last |-> up[f].last, app |-> up[f].app]
                               ELSE known[f]]
              /\ \/ /\ db' = WriteRows(db, up, seen, clock')
                    /\ work' = [stage |-> "policy", up |-> up, read |-> {}]
                 \/ db' = db /\ work' = Idle
      BY <1>1, BeginIs
    <2>2. Updates(up) /\ IsFiniteSet(seen) /\ seen \subseteq Sighting
      BY BatchIs, SightingsAre
    <2>3. IsKnown(known')
      <3>1. \A f \in Flow : /\ known[f].state \in {"none", "active", "ended"}
                            /\ known[f].total \in Nat /\ known[f].last \in Int
                            /\ known[f].app \in App \cup {None}
        BY DEF IsKnown
      <3>2. \A f \in DOMAIN up : /\ up[f].total \in Nat /\ up[f].last \in Int
                                  /\ up[f].app \in App \cup {None}
        BY <2>2 DEF Updates, Update
      <3> QED BY <2>1, <3>1, <3>2 DEF IsKnown
    <2>4. ASSUME NEW e, e = WriteRows(db, up, seen, clock')
          PROVE  Stored(e) /\ e.history = db.history
      BY <2>2, <2>4, WriteRowsIs
    <2>5. Stored(db') /\ db'.history \in BOOLEAN
      BY <2>1, <2>4
    <2>6. IsWork(work')
      BY <1>0, <2>1, <2>2 DEF IsWork
    <2>7. mem' = mem /\ clock' \in 0..MaxClock
      BY <1>1, BeginIs
    <2> QED BY <1>0, <2>3, <2>5, <2>6, <2>7
  <1>2. CASE Enforce
    <2>1. Stored(db') /\ db'.history \in BOOLEAN
      BY <1>2, EnforceIs DEF Cleaned
    <2>2. PICK t : mem' = [mem EXCEPT !.policyAt = t]
      BY <1>2, EnforceIs
    <2>3. DOMAIN mem' = DOMAIN mem /\ mem'.history = mem.history
      BY <2>2
    <2>4. work' = [work EXCEPT !.stage = "rollup", !.read = ReadBack(db', work.up)] \/ work' = Idle
      BY <1>2, EnforceIs
    <2>5. IsWork(work')
      BY <1>0, <2>4 DEF IsWork, ReadBack
    <2>6. clock' = clock /\ known' = known
      BY <1>2, EnforceIs
    <2> QED BY <1>0, <2>1, <2>3, <2>5, <2>6
  <1>3. CASE Rollup
    <2>2. Stored(db') /\ db'.history \in BOOLEAN
      BY <1>3, RollupIs DEF Added
    <2>3. work' = [work EXCEPT !.stage = "rates"] \/ work' = Idle
      BY <1>3, RollupIs
    <2>4. IsWork(work')
      BY <1>0, <2>3 DEF IsWork
    <2>5. clock' = clock /\ known' = known /\ mem' = mem
      BY <1>3, RollupIs
    <2> QED BY <1>0, <2>2, <2>4, <2>5
  <1>4. CASE Publish
    <2>1. ASSUME NEW next, NEW e, e = StoreRates(db, next)
          PROVE  Stored(e) /\ e.history = db.history
      BY <2>1, StoreRatesKeeps
    <2>2. Stored(db') /\ db'.history \in BOOLEAN
      BY <1>4, <2>1, PublishIs
    <2>3. clock' = clock /\ known' = known /\ work' = Idle /\ mem'.history = mem.history
          /\ DOMAIN mem' = DOMAIN mem
      BY <1>4, PublishIs
    <2> QED BY <1>0, <2>2, <2>3
  <1>5. CASE ClearHistory
    <2>1. PICK n \in 0..7 : db' = Cleared(db, n)
      BY <1>5, ClearIs
    <2>2. Stored(db') /\ db'.history = db.history
      BY <2>1, ClearedIs
    <2>3. clock' = clock /\ known' = known /\ work' = work /\ mem'.history = mem.history
          /\ DOMAIN mem' = DOMAIN mem
      BY <1>5, ClearIs
    <2> QED BY <2>2, <2>3
  <1>6. CASE SaveSettings
    <2>1. Stored(db') /\ db'.history \in BOOLEAN
      BY <1>6, SaveIs DEF Cleaned
    <2>2. clock' = clock /\ known' = known /\ work' = work /\ mem'.history \in BOOLEAN
          /\ DOMAIN mem' = DOMAIN mem
      BY <1>6, SaveIs
    <2> QED BY <2>1, <2>2
  <1>7. CASE Restart
    <2>1. clock' = clock /\ db' = db /\ work' = Idle /\ mem' = Opened(db)
      BY <1>7 DEF Restart
    <2>2. IsKnown(known')
      BY <1>7 DEF Restart, IsKnown
    <2>3. DOMAIN mem' = DOMAIN mem /\ mem'.history \in BOOLEAN
      BY <2>1, OpenedIs
    <2> QED BY <1>0, <2>1, <2>2, <2>3
  <1>8. CASE UNCHANGED vars
    BY <1>8 DEF vars
  <1> QED BY <1>1, <1>2, <1>3, <1>4, <1>5, <1>6, <1>7, <1>8 DEF Next

\* Whatever inserts, replaces or deletes rows and wherever it stops, the counters
\* of the overview and the domain index say what a scan would (db.rs:167).
THEOREM CountersAreKept == Spec => [](Shape /\ MirrorsExact)
  <1>1. Init => Shape
    BY ShapeInit
  <1>2. Shape /\ [Next]_vars => Shape'
    BY ShapeStep
  <1>3. Shape => Shape /\ MirrorsExact
    BY MirrorsOf DEF Shape, Stored
  <1> QED BY <1>1, <1>2, <1>3, PTL DEF Spec

------------------------------------------------------------------------------
\* The live event, the rates, and what a reader of the stream was sent.

\* Between two batches there is an event; a reader has the details in memory.
TickIsIdle == work.stage # "idle" => tick = Blank
DetailsWereSent == \A f \in DOMAIN mem.details : f \in DOMAIN sent /\ sent[f] = mem.details[f]

LEMMA TickStep == ASSUME Shape, TickIsIdle, [Next]_vars PROVE TickIsIdle'
  <1>1. CASE Begin
    BY <1>1, BeginIs DEF TickIsIdle
  <1>2. CASE Enforce
    BY <1>2, EnforceIs DEF TickIsIdle
  <1>3. CASE Rollup
    BY <1>3, RollupIs DEF TickIsIdle
  <1>4. CASE Publish
    BY <1>4, PublishIs, IdleIs DEF TickIsIdle
  <1>5. CASE ClearHistory
    BY <1>5, ClearIs DEF TickIsIdle
  <1>6. CASE SaveSettings
    BY <1>6, SaveIs DEF TickIsIdle
  <1>7. CASE Restart
    BY <1>7 DEF Restart, TickIsIdle
  <1>8. CASE UNCHANGED vars
    BY <1>8 DEF vars, TickIsIdle
  <1> QED BY <1>1, <1>2, <1>3, <1>4, <1>5, <1>6, <1>7, <1>8 DEF Next

LEMMA RatesAreFunction ==
  ASSUME NEW d, NEW up, NEW read, NEW next, next = RatesOf(d, up, read)
  PROVE  next = [k \in DOMAIN next |-> next[k]]
  BY DEF RatesOf, Over

LEMMA RatesStep == ASSUME Shape, TickIsIdle, RatesExact, [Next]_vars PROVE RatesExact'
  <1>0. Blank.done = FALSE
    BY DEF Blank
  <1>1. CASE Begin
    <2>1. PICK up \in Batches, seen \in Sightings :
            \/ db' = WriteRows(db, up, seen, clock') /\ slips' = slips
            \/ db' = db /\ slips' = slips \cup Lost(up, DOMAIN up)
      BY <1>1, BeginIs
    <2>2. Updates(up) /\ IsFiniteSet(seen) /\ seen \subseteq Sighting /\ Stored(db)
      BY BatchIs, SightingsAre DEF Shape
    <2>3. ASSUME NEW e, e = WriteRows(db, up, seen, clock') PROVE e.rates = db.rates
      BY <2>2, <2>3, WriteRowsIs
    <2>4. db'.rates = db.rates
      BY <2>1, <2>3
    <2>5. "rates" \in slips => "rates" \in slips'
      BY <2>1
    <2>6. mem' = mem /\ tick' = Blank
      BY <1>1, BeginIs
    <2> QED BY <1>0, <2>4, <2>5, <2>6 DEF RatesExact
  <1>2. CASE Enforce
    <2>1. db'.rates = db.rates /\ mem'.mirror = mem.mirror
      <3>1. PICK t : mem' = [mem EXCEPT !.policyAt = t]
        BY <1>2, EnforceIs
      <3>2. mem'.mirror = mem.mirror
        BY <3>1 DEF Shape
      <3>3. db'.rates = db.rates
        BY <1>2, EnforceIs DEF Cleaned
      <3> QED BY <3>2, <3>3
    <2>2. tick = Blank /\ tick' = Blank
      BY <1>2, EnforceIs DEF TickIsIdle
    <2>3. slips \subseteq slips'
      BY <1>2, EnforceIs
    <2> QED BY <1>0, <2>1, <2>2, <2>3 DEF RatesExact
  <1>3. CASE Rollup
    <2>3. db'.rates = db.rates
      BY <1>3, RollupIs DEF Added
    <2>4. tick = Blank /\ tick' = Blank /\ slips \subseteq slips' /\ mem' = mem
      BY <1>3, RollupIs DEF TickIsIdle
    <2> QED BY <1>0, <2>3, <2>4 DEF RatesExact
  <1>4. CASE Publish
    <2> DEFINE next == RatesOf(db, work.up, work.read)
    <2>1. CASE db' = db /\ mem' = mem /\ tick' = Blank
      BY <1>0, <1>4, <2>1, PublishIs DEF RatesExact
    <2>2. CASE /\ db' = StoreRates(db, next) /\ mem'.mirror = next
               /\ tick' = Tick(db, work.up, work.read)
      <3>1. tick'.rates = next
        BY <2>2 DEF Tick
      <3>2. next = [k \in DOMAIN next |-> next[k]]
        BY RatesAreFunction
      <3> HIDE DEF next
      <3>3. "rates" \notin slips => db'.rates = next
        <4>1. ASSUME NEW e, e = StoreRates(db, next), mem.mirror = db.rates PROVE e.rates = next
          BY <3>2, <4>1, StoreRatesIs DEF Shape
        <4> QED BY <2>2, <4>1 DEF RatesExact
      <3>4. slips' = slips
        BY <1>4, PublishIs
      <3> QED BY <2>2, <3>1, <3>3, <3>4 DEF RatesExact
    <2> QED BY <1>4, <2>1, <2>2, PublishIs
  <1>5. CASE ClearHistory
    <2>1. PICK n \in 0..7 :
            /\ db' = Cleared(db, n) /\ tick' = Blank /\ mem'.mirror = <<>>
            /\ slips' = slips \cup {"cleared"} \cup (IF n < 4 THEN {"rollups"} ELSE {})
                         \cup (IF n < 5 THEN {"rates"} ELSE {})
      BY <1>5, ClearIs
    <2>2. n >= 5 => db'.rates = <<>>
      <3>1. ASSUME NEW e, e = Cleared(db, n) PROVE e.rates = IF n >= 5 THEN <<>> ELSE db.rates
        BY <3>1, ClearedIs DEF Shape
      <3> QED BY <2>1, <3>1
    <2>3. n < 5 => "rates" \in slips'
      BY <2>1
    <2> QED BY <1>0, <2>1, <2>2, <2>3 DEF RatesExact
  <1>6. CASE SaveSettings
    <2>1. db'.rates = db.rates /\ mem'.mirror = mem.mirror /\ tick' = Blank /\ slips' = slips
      BY <1>6, SaveIs DEF Cleaned
    <2> QED BY <1>0, <2>1 DEF RatesExact
  <1>7. CASE Restart
    <2>1. db' = db /\ mem' = Opened(db) /\ tick' = Blank
      BY <1>7 DEF Restart
    <2> QED BY <1>0, <2>1, OpenedIs DEF RatesExact
  <1>8. CASE UNCHANGED vars
    BY <1>8 DEF vars, RatesExact
  <1> QED BY <1>1, <1>2, <1>3, <1>4, <1>5, <1>6, <1>7, <1>8 DEF Next

LEMMA SentStep ==
  ASSUME Shape, TickIsIdle, DetailsWereSent, PatchesApply, [Next]_vars
  PROVE  DetailsWereSent' /\ PatchesApply'
  <1>0. Blank.patched = {}
    BY DEF Blank
  <1>1. CASE Begin
    <2>1. mem' = mem /\ sent' = sent /\ tick' = Blank
      BY <1>1, BeginIs
    <2> QED BY <1>0, <2>1 DEF DetailsWereSent, PatchesApply
  <1>2. CASE Enforce
    <2>1. PICK t : mem' = [mem EXCEPT !.policyAt = t]
      BY <1>2, EnforceIs
    <2>2. mem'.details = mem.details
      BY <2>1 DEF Shape
    <2>3. tick' = Blank /\ sent' = sent
      BY <1>2, EnforceIs DEF TickIsIdle
    <2> QED BY <1>0, <2>2, <2>3 DEF DetailsWereSent, PatchesApply
  <1>3. CASE Rollup
    <2>1. mem' = mem /\ sent' = sent /\ tick' = Blank
      BY <1>3, RollupIs DEF TickIsIdle
    <2> QED BY <1>0, <2>1 DEF DetailsWereSent, PatchesApply
  <1>4. CASE Publish
    <2> DEFINE up == work.up
               read == work.read
    <2>1. CASE db' = db /\ mem' = mem /\ sent' = sent /\ tick' = Blank
      BY <1>0, <2>1 DEF DetailsWereSent, PatchesApply
    <2>2. CASE /\ db' = StoreRates(db, RatesOf(db, up, read))
               /\ mem'.details = Details(db, up, read)
               /\ tick' = Tick(db, up, read) /\ sent' = Over(tick'.full, sent)
      <3> DEFINE patched == {f \in read : /\ db.rows[f].active
                               /\ f \in DOMAIN mem.details /\ mem.details[f] = Signature(db, f)}
                 full == [f \in read \ patched |-> Signature(db, f)]
      <3>1. tick'.patched = patched /\ tick'.full = full
        BY <2>2 DEF Tick
      <3>2. /\ DOMAIN sent' = (read \ patched) \cup DOMAIN sent
            /\ \A f \in DOMAIN sent' :
                 sent'[f] = IF f \in read \ patched THEN Signature(db, f) ELSE sent[f]
        BY <2>2, <3>1 DEF Over
      <3>3. db'.rows = db.rows
        <4>1. ASSUME NEW next, NEW e, e = StoreRates(db, next) PROVE e.rows = db.rows
          BY <4>1, StoreRatesKeeps DEF Shape
        <4> QED BY <2>2, <4>1
      <3>4. \A f : Signature(db', f) = Signature(db, f)
        BY <3>3 DEF Signature
      <3>5. \A f \in patched : f \in DOMAIN sent /\ sent[f] = Signature(db, f)
        BY DEF DetailsWereSent
      <3>6. PatchesApply'
        <4> HIDE DEF patched, full
        <4> QED BY <3>1, <3>2, <3>4, <3>5 DEF PatchesApply
      <3>7. ASSUME NEW f \in DOMAIN mem'.details
            PROVE  f \in DOMAIN sent' /\ sent'[f] = mem'.details[f]
        <4> DEFINE open == {g \in read : db.rows[g].active}
                   left == DOMAIN mem.details \ read
                   next == Over([g \in open |-> Signature(db, g)], Restrict(mem.details, left))
        <4>1. mem'.details = next
          <5>1. mem'.details = IF Cardinality(DOMAIN next) > Capacity THEN <<>> ELSE next
            BY <2>2 DEF Details
          <5>2. DOMAIN <<>> = {}
            OBVIOUS
          <5> HIDE DEF next
          <5> QED BY <5>1, <5>2
        <4>2. /\ DOMAIN next = open \cup left
              /\ \A g \in DOMAIN next : next[g] = IF g \in open THEN Signature(db, g) ELSE mem.details[g]
          BY DEF Over, Restrict
        <4> HIDE DEF next
        <4>3. CASE f \in open
          <5>1. mem'.details[f] = Signature(db, f) /\ f \in read
            BY <4>1, <4>2, <4>3
          <5> HIDE DEF patched
          <5> QED BY <3>2, <3>5, <5>1
        <4>4. CASE f \notin open
          <5>1. f \in DOMAIN mem.details /\ f \notin read /\ mem'.details[f] = mem.details[f]
            BY <4>1, <4>2, <4>4
          <5>2. f \in DOMAIN sent /\ sent[f] = mem.details[f]
            BY <5>1 DEF DetailsWereSent
          <5> HIDE DEF patched
          <5> QED BY <3>2, <5>1, <5>2
        <4> QED BY <4>3, <4>4
      <3> QED BY <3>6, <3>7 DEF DetailsWereSent
    <2> QED BY <1>4, <2>1, <2>2, PublishIs
  <1>5. CASE ClearHistory
    <2>1. mem'.details = <<>> /\ tick' = Blank
      BY <1>5, ClearIs
    <2> QED BY <1>0, <2>1 DEF DetailsWereSent, PatchesApply
  <1>6. CASE SaveSettings
    <2>1. mem'.details \in {mem.details, <<>>} /\ tick' = Blank /\ sent' = sent
      BY <1>6, SaveIs
    <2> QED BY <1>0, <2>1 DEF DetailsWereSent, PatchesApply
  <1>7. CASE Restart
    <2>1. mem' = Opened(db) /\ tick' = Blank
      BY <1>7 DEF Restart
    <2> QED BY <1>0, <2>1, OpenedIs DEF DetailsWereSent, PatchesApply
  <1>8. CASE UNCHANGED vars
    BY <1>8 DEF vars, DetailsWereSent, PatchesApply, Signature
  <1> QED BY <1>1, <1>2, <1>3, <1>4, <1>5, <1>6, <1>7, <1>8 DEF Next

\* A reader that followed the stream has, for every flow it is sent a patch of,
\* a full record with the fields the row has now (db.rs:1184 the compact patch).
THEOREM PatchesAlwaysApply == Spec => []PatchesApply
  <1> DEFINE Inv == Shape /\ TickIsIdle /\ DetailsWereSent /\ PatchesApply
  <1>1. Init => Inv
    <2> SUFFICES ASSUME Init PROVE Inv
      OBVIOUS
    <2>1. TickIsIdle /\ PatchesApply
      BY IdleIs DEF Init, TickIsIdle, PatchesApply, Blank
    <2>2. DetailsWereSent
      BY OpenedIs DEF Init, DetailsWereSent
    <2> QED BY <2>1, <2>2, ShapeInit
  <1>2. Inv /\ [Next]_vars => Inv'
    BY ShapeStep, TickStep, SentStep
  <1>3. Inv => PatchesApply
    OBVIOUS
  <1> QED BY <1>1, <1>2, <1>3, PTL DEF Spec

------------------------------------------------------------------------------
\* Minutes, hours, traffic and endpoints.

MinutesOf(x, h) == {x} \X {t \in Nat : Hour(t) = h}
Ends(h) == {<<Endpoint(a), h>> : a \in Remote}
Aged(h, now) == h * HourLen < now - HourKeep

\* An hour has what its minutes have; the traffic of an hour is that of its
\* endpoints, unless the hour has aged out of the traffic first.
HoursCover(d) ==
  \A x \in Entity, h \in Nat : SumOf(d.minute, MinutesOf(x, h)) <= At(d.hour, <<x, h>>)
Whole(d, h, now) ==
  \/ At(d.hour, <<All, h>>) = SumOf(d.hour, Ends(h))
  \/ <<All, h>> \notin DOMAIN d.hour /\ Aged(h, now)
HoursAreWhole == "rollups" \notin slips => \A h \in Nat : Whole(db, h, clock)

LEMMA SumSubset ==
  ASSUME NEW fn, Counts(fn), NEW A, NEW B, A \subseteq B
  PROVE  SumOf(fn, A) <= SumOf(fn, B)
  <1>1. B = A \cup (B \ A) /\ A \cap (B \ A) = {}
    OBVIOUS
  <1>2. SumOf(fn, A \cup (B \ A)) = SumOf(fn, A) + SumOf(fn, B \ A)
    BY <1>1, SumUnion
  <1>3. SumOf(fn, B) = SumOf(fn, A \cup (B \ A))
    BY <1>1, Zenon
  <1>4. SumOf(fn, A) \in Nat /\ SumOf(fn, B \ A) \in Nat
    BY SumOfLaws
  <1> QED BY <1>2, <1>3, <1>4

LEMMA EntityHas == All \in Entity /\ \A a \in Remote : Endpoint(a) \in Entity /\ Endpoint(a) # All
  BY DEF Entity, All, Endpoint

LEMMA GrownCovers ==
  ASSUME NEW d, Stored(d), HoursCover(d), NEW e, NEW now \in Nat, NEW share,
         \A x \in Entity : share[x] \in Nat, Added(d, e, share, now)
  PROVE  HoursCover(e)
  <1>1. SUFFICES ASSUME NEW x \in Entity, NEW h \in Nat
                 PROVE  SumOf(e.minute, MinutesOf(x, h)) <= At(e.hour, <<x, h>>)
    BY DEF HoursCover
  <1> DEFINE M == MinutesOf(x, h)
             k == <<x, now>>
  <1>2. /\ Counts(d.minute) /\ Counts(d.hour) /\ Counts(e.minute) /\ Counts(e.hour)
        /\ Grown(e.minute, d.minute, share, now) /\ Grown(e.hour, d.hour, share, Hour(now))
    BY DEF Added, Stored, Buckets
  <1>3. SumOf(d.minute, M) <= At(d.hour, <<x, h>>)
    BY DEF HoursCover
  <1>4. CASE h # Hour(now)
    <2>1. \A m \in M : At(e.minute, m) = At(d.minute, m)
      <3>1. \A m \in M : m \notin Entity \X {now}
        BY <1>4 DEF MinutesOf
      <3> QED BY <1>2, <3>1 DEF Grown
    <2>2. <<x, h>> \notin Entity \X {Hour(now)}
      BY <1>4
    <2>3. At(e.hour, <<x, h>>) = At(d.hour, <<x, h>>)
      BY <1>2, <2>2 DEF Grown
    <2> HIDE DEF M
    <2>4. SumOf(e.minute, M) = SumOf(d.minute, M)
      BY <1>2, <2>1, SumSame
    <2> QED BY <1>3, <2>3, <2>4 DEF M
  <1>5. CASE h = Hour(now)
    <2>1. k \in M
      BY <1>5 DEF MinutesOf
    <2>2. \A m \in M \ {k} : At(e.minute, m) = At(d.minute, m)
      <3>1. \A m \in M \ {k} : m \notin Entity \X {now}
        BY DEF MinutesOf
      <3> QED BY <1>2, <3>1 DEF Grown
    <2>3. At(e.minute, k) = At(d.minute, k) + share[x]
      BY <1>2 DEF Grown
    <2>4. At(e.hour, <<x, h>>) = At(d.hour, <<x, h>>) + share[x]
      BY <1>2, <1>5 DEF Grown
    <2> HIDE DEF M, k
    <2>5. SumOf(e.minute, M \ {k}) = SumOf(d.minute, M \ {k})
      BY <1>2, <2>2, SumSame
    <2>6. SumOf(e.minute, M) = At(e.minute, k) + SumOf(e.minute, M \ {k})
      BY <1>2, <2>1, SumOfLaws
    <2>7. SumOf(d.minute, M) = At(d.minute, k) + SumOf(d.minute, M \ {k})
      BY <1>2, <2>1, SumOfLaws
    <2>8. SumOf(d.minute, M \ {k}) \in Nat
      BY <1>2, SumOfLaws
    <2>9. At(d.minute, k) \in Nat /\ At(d.hour, <<x, h>>) \in Nat /\ share[x] \in Nat
      BY <1>2 DEF At, Counts
    <2> QED BY <1>3, <2>3, <2>4, <2>5, <2>6, <2>7, <2>8, <2>9 DEF M
  <1> QED BY <1>4, <1>5

\* Rows may go from both tables, from the hours only with their minutes.
LEMMA LessCovers ==
  ASSUME NEW d, Stored(d), HoursCover(d), NEW e, Stored(e),
         Within(e.minute, d.minute), Within(e.hour, d.hour),
         \A x \in Entity, h \in Nat : <<x, h>> \in DOMAIN d.hour \ DOMAIN e.hour =>
           \A t \in Nat : Hour(t) = h => <<x, t>> \notin DOMAIN e.minute
  PROVE  HoursCover(e)
  <1>1. SUFFICES ASSUME NEW x \in Entity, NEW h \in Nat
                 PROVE  SumOf(e.minute, MinutesOf(x, h)) <= At(e.hour, <<x, h>>)
    BY DEF HoursCover
  <1>2. Counts(d.minute) /\ Counts(d.hour) /\ Counts(e.minute) /\ Counts(e.hour)
    BY DEF Stored, Buckets
  <1>3. SumOf(d.minute, MinutesOf(x, h)) <= At(d.hour, <<x, h>>)
    BY DEF HoursCover
  <1>4. CASE <<x, h>> \in DOMAIN d.hour \ DOMAIN e.hour
    <2>1. MinutesOf(x, h) \cap DOMAIN e.minute = {}
      BY <1>4 DEF MinutesOf
    <2>2. SumOf(e.minute, MinutesOf(x, h)) = 0
      BY <1>2, <2>1, SumOfLaws
    <2>3. At(e.hour, <<x, h>>) \in Nat
      BY <1>2 DEF At, Counts
    <2> QED BY <2>2, <2>3
  <1>5. CASE <<x, h>> \notin DOMAIN d.hour \ DOMAIN e.hour
    <2>1. At(e.hour, <<x, h>>) = At(d.hour, <<x, h>>)
      BY <1>5 DEF At, Within
    <2>2. \A m : At(e.minute, m) <= At(d.minute, m)
      BY <1>2 DEF At, Within, Counts
    <2>3. SumOf(e.minute, MinutesOf(x, h)) <= SumOf(d.minute, MinutesOf(x, h))
      BY <1>2, <2>2, SumNoMore
    <2>4. /\ SumOf(e.minute, MinutesOf(x, h)) \in Nat /\ SumOf(d.minute, MinutesOf(x, h)) \in Nat
      BY <1>2, SumOfLaws
    <2>5. At(d.hour, <<x, h>>) \in Nat
      BY <1>2 DEF At, Counts
    <2> QED BY <1>3, <2>1, <2>3, <2>4, <2>5
  <1> QED BY <1>4, <1>5

\* The cleanup drops an hour only after its minutes (MINUTE_BUCKET_RETENTION_MS).
LEMMA CleanedCovers ==
  ASSUME NEW d, Stored(d), HoursCover(d), NEW n \in 0..8, NEW history, NEW now \in Nat,
         NEW e, Cleaned(d, e, n, history, now)
  PROVE  HoursCover(e)
  <1>1. Stored(e) /\ Within(e.minute, d.minute) /\ Within(e.hour, d.hour)
    BY DEF Cleaned
  <1>2. ASSUME NEW x \in Entity, NEW h \in Nat, <<x, h>> \in DOMAIN d.hour \ DOMAIN e.hour,
               NEW t \in Nat, Hour(t) = h
        PROVE  <<x, t>> \notin DOMAIN e.minute
    <2> DEFINE k == <<x, h>>
               m == <<x, t>>
    <2>1. k[1] = x /\ k[2] = h /\ m[1] = x /\ m[2] = t
      OBVIOUS
    <2> HIDE DEF k, m
    <2>2. n >= (IF x = All THEN 6 ELSE 8) /\ ~(h * HourLen >= now - HourKeep)
      BY <1>2, <2>1 DEF Cleaned, k
    <2>3. t < h * HourLen + HourLen /\ h * HourLen \in Nat
      BY <1>2, HourIs, StoreAssumption
    <2>4. /\ HourLen \in Nat /\ HourKeep \in Nat /\ MinuteKeep \in Nat
          /\ MinuteKeep + HourLen <= HourKeep
      BY StoreAssumption
    <2>5. ~(t >= now - MinuteKeep)
      BY <2>2, <2>3, <2>4
    <2>6. n >= (IF x = All THEN 5 ELSE 7)
      BY <2>2
    <2>7. m \notin DOMAIN e.minute
      BY <2>1, <2>5, <2>6 DEF Cleaned
    <2> QED BY <2>7 DEF m
  <1> QED BY <1>1, <1>2, LessCovers

LEMMA ClearedCovers ==
  ASSUME NEW d, Stored(d), HoursCover(d), NEW n \in 0..7, NEW e, e = Cleared(d, n)
  PROVE  HoursCover(e)
  <1>1. Stored(e) /\ Within(e.minute, d.minute) /\ Within(e.hour, d.hour)
    BY ClearedIs
  <1>2. DOMAIN e.minute = {k \in DOMAIN d.minute : n < (IF k[1] = All THEN 3 ELSE 4)}
    BY ClearedIs
  <1>3. DOMAIN e.hour = {k \in DOMAIN d.hour : n < (IF k[1] = All THEN 3 ELSE 4)}
    BY ClearedIs
  <1>4. ASSUME NEW x \in Entity, NEW h \in Nat, <<x, h>> \in DOMAIN d.hour \ DOMAIN e.hour,
               NEW t \in Nat, Hour(t) = h
        PROVE  <<x, t>> \notin DOMAIN e.minute
    <2> DEFINE k == <<x, h>>
               m == <<x, t>>
    <2>1. k[1] = x /\ m[1] = x
      OBVIOUS
    <2> HIDE DEF k, m
    <2>2. ~(n < (IF x = All THEN 3 ELSE 4))
      BY <1>3, <1>4, <2>1 DEF k
    <2>3. m \notin DOMAIN e.minute
      BY <1>2, <2>1, <2>2
    <2> QED BY <2>3 DEF m
  <1> QED BY <1>1, <1>4, LessCovers

LEMMA SharesAre ==
  ASSUME NEW d, NEW up, Updates(up), NEW read, read \subseteq DOMAIN up
  PROVE  \A x \in Entity : Shares(d, up, read)[x] \in Nat
  BY ShareNat DEF Shares

LEMMA CoverStep == ASSUME Shape, HoursCover(db), [Next]_vars PROVE HoursCover(db')
  <1>0. Stored(db) /\ clock \in Nat
    BY DEF Shape
  <1>1. CASE Begin
    <2>1. PICK up \in Batches, seen \in Sightings : db' = WriteRows(db, up, seen, clock') \/ db' = db
      BY <1>1, BeginIs
    <2>2. Updates(up) /\ IsFiniteSet(seen) /\ seen \subseteq Sighting
      BY <1>0, BatchIs, SightingsAre DEF Shape
    <2>3. ASSUME NEW e, e = WriteRows(db, up, seen, clock')
          PROVE  e.minute = db.minute /\ e.hour = db.hour
      BY <1>0, <2>2, <2>3, WriteRowsIs
    <2>4. db'.minute = db.minute /\ db'.hour = db.hour
      BY <2>1, <2>3
    <2> QED BY <2>4 DEF HoursCover
  <1>2. CASE Enforce
    <2>1. PICK n \in 0..8 : Cleaned(db, db', n, mem.history, clock)
      BY <1>2, EnforceIs
    <2> QED BY <1>0, <2>1, CleanedCovers
  <1>3. CASE Rollup
    <2> DEFINE share == Shares(db, work.up, work.read)
    <2>1. \A x \in Entity : share[x] \in Nat
      BY SharesAre DEF Shape, IsWork
    <2>2. Added(db, db', share, clock) \/ db' = db
      BY <1>3, RollupIs
    <2> HIDE DEF share
    <2> QED BY <1>0, <2>1, <2>2, GrownCovers
  <1>4. CASE Publish
    <2>1. ASSUME NEW next, NEW e, e = StoreRates(db, next)
          PROVE  e.minute = db.minute /\ e.hour = db.hour
      BY <1>0, <2>1, StoreRatesKeeps
    <2>2. db'.minute = db.minute /\ db'.hour = db.hour
      BY <1>4, <2>1, PublishIs
    <2> QED BY <2>2 DEF HoursCover
  <1>5. CASE ClearHistory
    <2>1. PICK n \in 0..7 : db' = Cleared(db, n)
      BY <1>5, ClearIs
    <2> QED BY <1>0, <2>1, ClearedCovers
  <1>6. CASE SaveSettings
    <2>1. PICK n \in 0..8, history \in BOOLEAN : Cleaned(db, db', n, history, clock)
      BY <1>6, SaveIs
    <2> QED BY <1>0, <2>1, CleanedCovers
  <1>7. CASE Restart
    BY <1>7 DEF Restart
  <1>8. CASE UNCHANGED vars
    BY <1>8 DEF vars
  <1> QED BY <1>1, <1>2, <1>3, <1>4, <1>5, <1>6, <1>7, <1>8 DEF Next

LEMMA EndsAre ==
  ASSUME NEW h
  PROVE  IsFiniteSet(Ends(h)) /\ \A k \in Ends(h) : k[2] = h /\ k[1] # All
  <1> DEFINE end == [a \in Remote |-> <<Endpoint(a), h>>]
  <1>1. IsFiniteSet(Remote) /\ Ends(h) = {end[a] : a \in Remote}
    BY StoreAssumption DEF Ends
  <1> HIDE DEF end
  <1>2. IsFiniteSet(Ends(h))
    BY <1>1, ImageFinite
  <1>3. \A k \in Ends(h) : k[2] = h /\ k[1] # All
    BY EntityHas DEF Ends
  <1> QED BY <1>2, <1>3

\* The hour of the batch has not aged out.
LEMMA NowIsFresh == ASSUME NEW now \in Nat PROVE ~Aged(Hour(now), now)
  <1>1. now < Hour(now) * HourLen + HourLen /\ Hour(now) \in Nat
    BY HourIs
  <1>2. /\ HourLen \in Nat /\ HourKeep \in Nat /\ MinuteKeep \in Nat
        /\ MinuteKeep + HourLen <= HourKeep
    BY StoreAssumption
  <1>3. Hour(now) * HourLen \in Nat
    BY <1>1, <1>2
  <1> QED BY <1>1, <1>2, <1>3 DEF Aged

\* The deltas of a batch add the same to the traffic and to the endpoints.
LEMMA GrownWhole ==
  ASSUME NEW d, Stored(d), NEW now \in Nat, \A h \in Nat : Whole(d, h, now),
         NEW up, Updates(up), NEW read, read \subseteq DOMAIN up,
         NEW e, Added(d, e, Shares(d, up, read), now)
  PROVE  \A h \in Nat : Whole(e, h, now)
  <1>1. SUFFICES ASSUME NEW h \in Nat PROVE Whole(e, h, now)
    OBVIOUS
  <1> DEFINE share == Shares(d, up, read)
  <1>2. /\ Counts(d.hour) /\ Counts(e.hour)
        /\ Grown(e.hour, d.hour, share, Hour(now))
    BY DEF Added, Stored, Buckets
  <1>3. Whole(d, h, now)
    OBVIOUS
  <1>4. CASE h # Hour(now)
    <2>1. \A k \in Ends(h) \cup {<<All, h>>} : k \notin Entity \X {Hour(now)}
      BY <1>4, EndsAre
    <2>2. At(e.hour, <<All, h>>) = At(d.hour, <<All, h>>)
      BY <1>2, <2>1 DEF Grown
    <2>3. \A k \in Ends(h) : At(e.hour, k) = At(d.hour, k)
      BY <1>2, <2>1 DEF Grown
    <2>4. SumOf(e.hour, Ends(h)) = SumOf(d.hour, Ends(h))
      BY <1>2, <2>3, SumSame
    <2>5. <<All, h>> \notin DOMAIN d.hour => <<All, h>> \notin DOMAIN e.hour
      <3> DEFINE k == <<All, h>>
      <3>1. k[2] = h
        OBVIOUS
      <3> HIDE DEF k
      <3>2. k \in DOMAIN e.hour => k \in DOMAIN d.hour
        BY <1>2, <1>4, <3>1 DEF Grown
      <3> QED BY <3>2 DEF k
    <2> QED BY <1>3, <2>2, <2>4, <2>5 DEF Whole
  <1>5. CASE h = Hour(now)
    <2> DEFINE D == {f \in read : Moved(up, f)}
               part == [f \in D |-> <<Endpoint(RemoteOf[f]), h>>]
               delta == Deltas(up)
    <2>1. At(d.hour, <<All, h>>) = SumOf(d.hour, Ends(h))
      BY <1>3, <1>5, NowIsFresh DEF Whole
    <2>2. D \subseteq Flow /\ RemoteOf \in [Flow -> Remote]
      BY StoreAssumption DEF Updates
    <2>3. \A f \in D : part[f] \in Ends(h)
      BY <2>2 DEF Ends
    <2>4. ASSUME NEW k \in Ends(h)
          PROVE  At(e.hour, k) = At(d.hour, k) + SumOf(delta, {f \in D : part[f] = k})
      <3>1. PICK a \in Remote : k = <<Endpoint(a), h>>
        BY DEF Ends
      <3>2. At(e.hour, k) = At(d.hour, k) + share[Endpoint(a)]
        BY <1>2, <1>5, <3>1, EntityHas DEF Grown
      <3>3. share[Endpoint(a)] = Share(d, up, read, Endpoint(a))
        BY EntityHas DEF Shares
      <3>4. Share(d, up, read, Endpoint(a)) = SumOf(delta, MovedTo(up, read, a))
        BY ShareOfEndpoint
      <3>5. \A f \in D : part[f] = k <=> RemoteOf[f] = a
        BY <3>1 DEF Endpoint
      <3>6. MovedTo(up, read, a) = {f \in D : part[f] = k}
        BY <3>5 DEF MovedTo
      <3> HIDE DEF D, part, share, delta
      <3> QED BY <3>2, <3>3, <3>4, <3>6
    <2>5. Counts(delta)
      BY DeltasCount
    <2>6. IsFiniteSet(Ends(h))
      BY EndsAre
    <2>7. share[All] = SumOf(delta, D)
      <3>1. share[All] = Share(d, up, read, All)
        BY EntityHas DEF Shares
      <3>2. Share(d, up, read, All) = SumOf(delta, D)
        BY ShareOfAll
      <3> QED BY <3>1, <3>2
    <2>8. At(e.hour, <<All, h>>) = At(d.hour, <<All, h>>) + share[All]
      BY <1>2, <1>5, EntityHas DEF Grown
    <2> HIDE DEF D, part, share, delta
    <2>9. SumOf(e.hour, Ends(h)) = SumOf(d.hour, Ends(h)) + SumOf(delta, D)
      <3> DEFINE gn == e.hour
                 fn == d.hour
                 K == Ends(h)
      <3>1. Counts(fn) /\ Counts(gn) /\ IsFiniteSet(K) /\ \A f \in D : part[f] \in K
        BY <1>2, <2>3, <2>6
      <3>2. \A k \in K : At(gn, k) = At(fn, k) + SumOf(delta, {f \in D : part[f] = k})
        BY <2>4
      <3> HIDE DEF gn, fn, K
      <3>3. SumOf(gn, K) = SumOf(fn, K) + SumOf(delta, D)
        BY <2>5, <3>1, <3>2, SumParts
      <3> QED BY <3>3 DEF gn, fn, K
    <2> QED BY <2>1, <2>7, <2>8, <2>9 DEF Whole
  <1> QED BY <1>4, <1>5

\* The cleanup drops the endpoints of an hour only after its traffic.
LEMMA CleanedWhole ==
  ASSUME NEW d, Stored(d), NEW n \in 0..8, NEW history, NEW now \in Nat,
         \A h \in Nat : Whole(d, h, now), NEW e, Cleaned(d, e, n, history, now)
  PROVE  \A h \in Nat : Whole(e, h, now)
  <1>1. SUFFICES ASSUME NEW h \in Nat PROVE Whole(e, h, now)
    OBVIOUS
  <1> DEFINE k == <<All, h>>
  <1>2. Within(e.hour, d.hour) /\ Counts(d.hour) /\ Counts(e.hour)
    BY DEF Cleaned, Stored, Buckets
  <1>3. Whole(d, h, now)
    OBVIOUS
  <1>4. k[1] = All /\ k[2] = h
    OBVIOUS
  <1>5. Aged(h, now) <=> ~(h * HourLen >= now - HourKeep)
    <2>1. h * HourLen \in Int /\ now - HourKeep \in Int
      BY StoreAssumption
    <2> QED BY <2>1 DEF Aged
  <1> HIDE DEF k
  <1>6. k \in DOMAIN e.hour <=> k \in DOMAIN d.hour /\ (n >= 6 => ~Aged(h, now))
    BY <1>4, <1>5 DEF Cleaned
  <1>7. \A m \in Ends(h) :
          m \in DOMAIN e.hour <=> m \in DOMAIN d.hour /\ (n >= 8 => ~Aged(h, now))
    BY <1>5, EndsAre DEF Cleaned
  <1>8. CASE n >= 6 /\ Aged(h, now)
    BY <1>6, <1>8 DEF Whole, k
  <1>9. CASE ~(n >= 6 /\ Aged(h, now))
    <2>1. \A m \in Ends(h) : At(e.hour, m) = At(d.hour, m)
      BY <1>2, <1>7, <1>9 DEF At, Within
    <2>2. At(e.hour, k) = At(d.hour, k) /\ (k \in DOMAIN e.hour <=> k \in DOMAIN d.hour)
      BY <1>2, <1>6, <1>9 DEF At, Within
    <2>3. SumOf(e.hour, Ends(h)) = SumOf(d.hour, Ends(h))
      BY <1>2, <2>1, SumSame
    <2> QED BY <1>3, <2>2, <2>3 DEF Whole, k
  <1> QED BY <1>8, <1>9

LEMMA ClearedWhole ==
  ASSUME NEW d, Stored(d), NEW n \in 4..7, NEW e, e = Cleared(d, n), NEW now
  PROVE  \A h \in Nat : Whole(e, h, now)
  <1>1. SUFFICES ASSUME NEW h \in Nat PROVE Whole(e, h, now)
    OBVIOUS
  <1>2. n \in 0..7 /\ \A k : ~(n < (IF k[1] = All THEN 3 ELSE 4))
    OBVIOUS
  <1>3. DOMAIN e.hour = {k \in DOMAIN d.hour : n < (IF k[1] = All THEN 3 ELSE 4)}
    BY <1>2, ClearedIs
  <1>4. DOMAIN e.hour = {}
    BY <1>2, <1>3
  <1>5. Counts(e.hour)
    BY <1>4, FS_EmptySet DEF Counts
  <1>6. At(e.hour, <<All, h>>) = 0 /\ SumOf(e.hour, Ends(h)) = 0
    BY <1>4, <1>5, SumOfLaws DEF At
  <1> QED BY <1>6 DEF Whole

LEMMA WholeStep == ASSUME Shape, HoursAreWhole, [Next]_vars PROVE HoursAreWhole'
  <1>0. Stored(db) /\ clock \in Nat
    BY DEF Shape
  <1>1. CASE Begin
    <2>1. PICK up \in Batches, seen \in Sightings : db' = WriteRows(db, up, seen, clock') \/ db' = db
      BY <1>1, BeginIs
    <2>2. Updates(up) /\ IsFiniteSet(seen) /\ seen \subseteq Sighting
      BY <1>0, BatchIs, SightingsAre DEF Shape
    <2>3. ASSUME NEW e, e = WriteRows(db, up, seen, clock') PROVE e.hour = db.hour
      BY <1>0, <2>2, <2>3, WriteRowsIs
    <2>4. db'.hour = db.hour /\ slips \subseteq slips' /\ clock' = clock + 1
      BY <1>1, <2>1, <2>3, BeginIs
    <2>5. \A h \in Nat : Aged(h, clock) => Aged(h, clock')
      <3>1. \A h \in Nat : h * HourLen \in Int
        BY StoreAssumption
      <3>2. HourKeep \in Nat
        BY StoreAssumption
      <3> QED BY <1>0, <2>4, <3>1, <3>2 DEF Aged
    <2> QED BY <2>4, <2>5 DEF HoursAreWhole, Whole
  <1>2. CASE Enforce
    <2>1. PICK n \in 0..8 : Cleaned(db, db', n, mem.history, clock)
      BY <1>2, EnforceIs
    <2>2. slips \subseteq slips' /\ clock' = clock
      BY <1>2, EnforceIs
    <2>3. (\A h \in Nat : Whole(db, h, clock)) => (\A h \in Nat : Whole(db', h, clock))
      BY <1>0, <2>1, CleanedWhole
    <2> QED BY <2>2, <2>3 DEF HoursAreWhole
  <1>3. CASE Rollup
    <2>1. Updates(work.up) /\ work.read \subseteq DOMAIN work.up
      BY DEF Shape, IsWork
    <2>2. Added(db, db', Shares(db, work.up, work.read), clock) \/ db' = db
      BY <1>3, RollupIs
    <2>3. slips \subseteq slips' /\ clock' = clock
      BY <1>3, RollupIs
    <2>4. (\A h \in Nat : Whole(db, h, clock)) => (\A h \in Nat : Whole(db', h, clock))
      BY <1>0, <2>1, <2>2, GrownWhole
    <2> QED BY <2>3, <2>4 DEF HoursAreWhole
  <1>4. CASE Publish
    <2>1. ASSUME NEW next, NEW e, e = StoreRates(db, next) PROVE e.hour = db.hour
      BY <1>0, <2>1, StoreRatesKeeps
    <2>2. db'.hour = db.hour /\ clock' = clock /\ slips' = slips
      BY <1>4, <2>1, PublishIs
    <2> QED BY <2>2 DEF HoursAreWhole, Whole
  <1>5. CASE ClearHistory
    <2>1. PICK n \in 0..7 :
            /\ db' = Cleared(db, n) /\ clock' = clock
            /\ slips' = slips \cup {"cleared"} \cup (IF n < 4 THEN {"rollups"} ELSE {})
                         \cup (IF n < 5 THEN {"rates"} ELSE {})
      BY <1>5, ClearIs
    <2>2. CASE n < 4
      BY <2>1, <2>2 DEF HoursAreWhole
    <2>3. CASE n >= 4
      <3>1. \A h \in Nat : Whole(db', h, clock')
        BY <1>0, <2>1, <2>3, ClearedWhole
      <3> QED BY <3>1 DEF HoursAreWhole
    <2> QED BY <2>2, <2>3
  <1>6. CASE SaveSettings
    <2>1. PICK n \in 0..8, history \in BOOLEAN : Cleaned(db, db', n, history, clock)
      BY <1>6, SaveIs
    <2>2. slips' = slips /\ clock' = clock
      BY <1>6, SaveIs
    <2>3. (\A h \in Nat : Whole(db, h, clock)) => (\A h \in Nat : Whole(db', h, clock))
      BY <1>0, <2>1, CleanedWhole
    <2> QED BY <2>2, <2>3 DEF HoursAreWhole
  <1>7. CASE Restart
    <2>1. db' = db /\ clock' = clock /\ ("rollups" \notin slips' => "rollups" \notin slips)
      BY <1>7 DEF Restart
    <2> QED BY <2>1 DEF HoursAreWhole
  <1>8. CASE UNCHANGED vars
    BY <1>8 DEF vars, HoursAreWhole
  <1> QED BY <1>1, <1>2, <1>3, <1>4, <1>5, <1>6, <1>7, <1>8 DEF Next

LEMMA RollupsFollow ==
  ASSUME Shape, HoursCover(db), HoursAreWhole
  PROVE  RollupsAgree
  <1>1. Counts(db.minute) /\ Counts(db.hour)
    BY DEF Shape, Stored, Buckets
  <1>2. \A h \in 0..Hour(MaxClock) : h \in Nat
    OBVIOUS
  <1>3. ASSUME NEW x \in Entity, NEW h \in 0..Hour(MaxClock)
        PROVE  SumOf(db.minute, {x} \X {t \in 0..MaxClock : Hour(t) = h}) <= SumOf(db.hour, {<<x, h>>})
    <2> DEFINE K == {x} \X {t \in 0..MaxClock : Hour(t) = h}
               M == MinutesOf(x, h)
               k == <<x, h>>
    <2>1. K \subseteq M
      BY DEF MinutesOf
    <2>2. SumOf(db.minute, M) <= At(db.hour, k)
      BY <1>2 DEF HoursCover
    <2> HIDE DEF K, M, k
    <2>3. SumOf(db.minute, K) <= SumOf(db.minute, M)
      BY <1>1, <2>1, SumSubset
    <2>4. SumOf(db.hour, {k}) = At(db.hour, k)
      BY <1>1, SumOne
    <2>5. SumOf(db.minute, K) \in Nat /\ SumOf(db.minute, M) \in Nat /\ SumOf(db.hour, {k}) \in Nat
      BY <1>1, SumOfLaws
    <2>6. SumOf(db.minute, K) <= SumOf(db.hour, {k})
      BY <2>2, <2>3, <2>4, <2>5
    <2> QED BY <2>6 DEF K, k
  <1>4. ASSUME "rollups" \notin slips, NEW h \in 0..Hour(MaxClock), <<All, h>> \in DOMAIN db.hour
        PROVE  db.hour[<<All, h>>] = SumOf(db.hour, {<<Endpoint(a), h>> : a \in Remote})
    <2>1. At(db.hour, <<All, h>>) = SumOf(db.hour, Ends(h))
      BY <1>2, <1>4 DEF HoursAreWhole, Whole
    <2>2. At(db.hour, <<All, h>>) = db.hour[<<All, h>>]
      BY <1>4 DEF At
    <2> QED BY <2>1, <2>2 DEF Ends
  <1> QED BY <1>3, <1>4 DEF RollupsAgree

\* What makes every derived figure exact, whatever fails, ages or is cleared.
AggregatesInv == Shape /\ TickIsIdle /\ RatesExact /\ HoursCover(db) /\ HoursAreWhole

LEMMA AggregatesInit == ASSUME Init PROVE AggregatesInv
  <1>1. db.minute = <<>> /\ db.hour = <<>> /\ db.rates = <<>>
    BY DEF Init, EmptyDb
  <1>2. DOMAIN db.minute = {} /\ DOMAIN db.hour = {}
    BY <1>1
  <1>3. Counts(db.minute) /\ Counts(db.hour)
    BY <1>2, FS_EmptySet DEF Counts
  <1>4. \A K : SumOf(db.minute, K) = 0 /\ SumOf(db.hour, K) = 0
    <2>1. ASSUME NEW K PROVE SumOf(db.minute, K) = 0 /\ SumOf(db.hour, K) = 0
      BY <1>2, <1>3, SumOfLaws
    <2> QED BY <2>1
  <1>5. \A k : At(db.hour, k) = 0
    BY <1>2 DEF At
  <1>6. HoursCover(db) /\ HoursAreWhole
    BY <1>4, <1>5 DEF HoursCover, HoursAreWhole, Whole
  <1>7. TickIsIdle
    BY DEF Init, TickIsIdle
  <1>8. RatesExact
    <2>1. mem.mirror = db.rates
      BY OpenedIs DEF Init
    <2>2. tick.done = FALSE
      BY DEF Init, Blank
    <2> QED BY <2>1, <2>2 DEF RatesExact
  <1> QED BY <1>6, <1>7, <1>8, ShapeInit DEF AggregatesInv

\* Counters, domain index, stored rates, minutes and hours: everything the store
\* derives instead of computing it says what computing it would (db.rs:167,
\* 1060, 1267, 1392).
THEOREM AggregatesAreAlwaysExact == Spec => []AggregatesAreExact
  <1>1. Init => AggregatesInv
    BY AggregatesInit
  <1>2. AggregatesInv /\ [Next]_vars => AggregatesInv'
    <2> SUFFICES ASSUME AggregatesInv, [Next]_vars PROVE AggregatesInv'
      OBVIOUS
    <2> USE DEF AggregatesInv
    <2>1. Shape'
      BY ShapeStep
    <2>2. TickIsIdle'
      BY TickStep
    <2>3. RatesExact'
      BY RatesStep
    <2>4. HoursCover(db')
      BY CoverStep
    <2>5. HoursAreWhole'
      BY WholeStep
    <2> QED BY <2>1, <2>2, <2>3, <2>4, <2>5
  <1>3. AggregatesInv => AggregatesAreExact
    BY MirrorsOf, RollupsFollow DEF AggregatesInv, AggregatesAreExact, Shape, Stored
  <1> QED BY <1>1, <1>2, <1>3, PTL DEF Spec

------------------------------------------------------------------------------
\* What a record rests on: Applications, and the bytes of an address.

LEMMA AppsStep == ASSUME Shape, AppsAreKept, [Next]_vars PROVE AppsAreKept'
  <1>0. Stored(db) /\ clock \in Nat /\ Retention \in Nat
    BY StoreAssumption DEF Shape
  <1>1. CASE Begin
    <2>1. PICK up \in Batches, seen \in Sightings : db' = WriteRows(db, up, seen, clock') \/ db' = db
      BY <1>1, BeginIs
    <2>2. Updates(up) /\ IsFiniteSet(seen) /\ seen \subseteq Sighting
      BY <1>0, BatchIs, SightingsAre DEF Shape
    <2>3. clock' = clock + 1
      BY <1>1, BeginIs
    <2>4. ASSUME NEW e, e = WriteRows(db, up, seen, clock'), NEW f \in DOMAIN e.rows,
                 e.rows[f].app # None, e.rows[f].vouched >= clock' - Retention
          PROVE  e.rows[f].app \in DOMAIN e.apps /\ e.apps[e.rows[f].app] >= e.rows[f].vouched
      <3> DEFINE p == e.rows[f].app
      <3>1. Stored(e) /\ DOMAIN e.rows = DOMAIN up \cup DOMAIN db.rows
        BY <1>0, <2>2, <2>4, WriteRowsIs
      <3>2. \/ f \in DOMAIN up /\ up[f].app = p /\ e.rows[f].vouched = up[f].last
            \/ f \in DOMAIN db.rows /\ Vouches(e.rows[f], db.rows[f])
        <4>1. CASE f \in DOMAIN up
          <5>1. \/ up[f].app # None /\ e.rows[f].app = up[f].app /\ e.rows[f].vouched = up[f].last
                \/ up[f].app = None /\ f \in DOMAIN db.rows /\ Vouches(e.rows[f], db.rows[f])
                \/ up[f].app = None /\ e.rows[f].app = None
            BY <1>0, <2>2, <2>4, <4>1, WriteRowsIs
          <5> QED BY <2>4, <4>1, <5>1
        <4>2. CASE f \notin DOMAIN up
          BY <1>0, <2>2, <2>4, <3>1, <4>2, WriteRowsIs
        <4> QED BY <4>1, <4>2
      <3>3. p \in DOMAIN db.apps => p \in DOMAIN e.apps /\ e.apps[p] >= db.apps[p]
        BY <1>0, <2>2, <2>4, WriteRowsIs
      <3>4. f \in DOMAIN up /\ up[f].app = p => p \in DOMAIN e.apps /\ e.apps[p] >= up[f].last
        BY <1>0, <2>2, <2>4, WriteRowsIs
      <3>5. /\ f \in DOMAIN db.rows => db.rows[f].vouched \in Int
            /\ p \in DOMAIN e.apps => e.apps[p] \in Int
            /\ p \in DOMAIN db.apps => db.apps[p] \in Int
        BY <1>0, <3>1 DEF Stored, Rows, Row, Times
      <3>6. CASE f \in DOMAIN up /\ up[f].app = p /\ e.rows[f].vouched = up[f].last
        BY <3>4, <3>6
      <3>7. CASE f \in DOMAIN db.rows /\ Vouches(e.rows[f], db.rows[f])
        <4>1. db.rows[f].app = p /\ db.rows[f].vouched = e.rows[f].vouched
          BY <3>7 DEF Vouches
        <4>2. db.rows[f].vouched >= clock - Retention
          BY <1>0, <2>3, <2>4, <3>5, <3>7, <4>1
        <4>3. p \in DOMAIN db.apps /\ db.apps[p] >= db.rows[f].vouched
          BY <2>4, <3>7, <4>1, <4>2 DEF AppsAreKept
        <4>4. p \in DOMAIN e.apps /\ e.apps[p] >= db.rows[f].vouched
          BY <3>3, <3>5, <3>7, <4>3
        <4> QED BY <4>1, <4>4
      <3> QED BY <3>2, <3>6, <3>7
    <2>5. CASE db' = WriteRows(db, up, seen, clock')
      BY <2>4, <2>5 DEF AppsAreKept
    <2>6. CASE db' = db
      <3>1. ASSUME NEW f \in DOMAIN db.rows, db.rows[f].vouched >= clock' - Retention
            PROVE  db.rows[f].vouched >= clock - Retention
        <4>1. db.rows[f].vouched \in Int
          BY <1>0 DEF Stored, Rows, Row
        <4> QED BY <1>0, <2>3, <3>1, <4>1
      <3> QED BY <2>6, <3>1 DEF AppsAreKept
    <2> QED BY <2>1, <2>5, <2>6
  <1>2. ASSUME NEW n \in 0..8, NEW history \in BOOLEAN, Cleaned(db, db', n, history, clock),
               clock' = clock
        PROVE  AppsAreKept'
    <2>1. SUFFICES ASSUME NEW f \in DOMAIN db'.rows, db'.rows[f].app # None,
                          db'.rows[f].vouched >= clock - Retention
                   PROVE  /\ db'.rows[f].app \in DOMAIN db'.apps
                          /\ db'.apps[db'.rows[f].app] >= db'.rows[f].vouched
      BY <1>2 DEF AppsAreKept
    <2> DEFINE p == db.rows[f].app
    <2>2. /\ Within(db'.rows, db.rows) /\ Within(db'.apps, db.apps)
          /\ \A q \in DOMAIN db.apps \ DOMAIN db'.apps :
               IF history THEN db.apps[q] < clock - Retention
               ELSE \A g \in DOMAIN db'.rows : db'.rows[g].app # q
      BY <1>2 DEF Cleaned
    <2>3. f \in DOMAIN db.rows /\ db'.rows[f] = db.rows[f]
      BY <2>2 DEF Within
    <2>4. p \in DOMAIN db.apps /\ db.apps[p] >= db.rows[f].vouched
      BY <2>1, <2>3 DEF AppsAreKept
    <2>5. db.apps[p] \in Int /\ db.rows[f].vouched \in Int
      BY <1>0, <2>3, <2>4 DEF Stored, Times, Rows, Row
    <2>6. p \in DOMAIN db'.apps
      BY <1>0, <2>1, <2>2, <2>3, <2>4, <2>5
    <2> QED BY <2>2, <2>3, <2>4, <2>6 DEF Within
  <1>3. ASSUME db'.rows = db.rows, db'.apps = db.apps, clock' = clock PROVE AppsAreKept'
    BY <1>3 DEF AppsAreKept
  <1>4. CASE Enforce
    <2>1. mem.history \in BOOLEAN
      BY DEF Shape
    <2> QED BY <1>2, <1>4, <2>1, EnforceIs
  <1>5. CASE Rollup
    BY <1>3, <1>5, RollupIs DEF Added
  <1>6. CASE Publish
    <2>1. ASSUME NEW next, NEW e, e = StoreRates(db, next)
          PROVE  e.rows = db.rows /\ e.apps = db.apps
      BY <1>0, <2>1, StoreRatesKeeps
    <2>2. db'.rows = db.rows /\ db'.apps = db.apps /\ clock' = clock
      BY <1>6, <2>1, PublishIs
    <2> QED BY <1>3, <2>2
  <1>7. CASE ClearHistory
    <2>1. PICK n \in 0..7 : db' = Cleared(db, n) /\ clock' = clock
      BY <1>7, ClearIs
    <2>2. Within(db'.rows, db.rows) /\ (n >= 1 => DOMAIN db'.rows = {})
      BY <1>0, <2>1, ClearedIs
    <2>3. db'.apps = IF n >= 6 THEN <<>> ELSE db.apps
      BY <1>0, <2>1, ClearedIs
    <2> QED BY <2>1, <2>2, <2>3 DEF AppsAreKept, Within
  <1>8. CASE SaveSettings
    BY <1>2, <1>8, SaveIs
  <1>9. CASE Restart
    BY <1>3, <1>9 DEF Restart
  <1>10. CASE UNCHANGED vars
    BY <1>3, <1>10 DEF vars
  <1> QED BY <1>1, <1>4, <1>5, <1>6, <1>7, <1>8, <1>9, <1>10 DEF Next

\* The most a flow is known or stored to have transferred, for each flow; and
\* what of a batch has not reached the rollups.
Ledger(k, rows) ==
  [f \in Flow |-> IF f \in DOMAIN rows THEN Later(k[f].total, rows[f].total) ELSE k[f].total]
Pending(w) == IF w.stage \in {"policy", "rollup"} THEN Deltas(w.up) ELSE Nothing
FlowsOf(a) == {f \in Flow : RemoteOf[f] = a}
HoursOf(a) == {Endpoint(a)} \X (0..Hour(MaxClock))

Backed(k, d, p) ==
  \A a \in Remote :
    SumOf(Ledger(k, d.rows), FlowsOf(a)) <= SumOf(d.hour, HoursOf(a)) + SumOf(p, FlowsOf(a))

\* Nothing was lost, cleared or aged.
Untouched(s, now) == "delta" \notin s /\ "cleared" \notin s /\ now <= HourKeep
LedgerIsBacked == Untouched(slips, clock) => Backed(known, db, Pending(work))
MovesWereRead ==
  "delta" \notin slips /\ work.stage = "rollup" =>
    \A f \in DOMAIN work.up : Moved(work.up, f) => f \in work.read

LEMMA LedgerCounts ==
  ASSUME NEW k, IsKnown(k), NEW rows, Rows(rows)
  PROVE  /\ Counts(Ledger(k, rows))
         /\ \A f \in Flow : At(Ledger(k, rows), f) = Ledger(k, rows)[f] /\ Ledger(k, rows)[f] \in Nat
  <1>1. IsFiniteSet(Flow) /\ DOMAIN Ledger(k, rows) = Flow
    BY StoreAssumption DEF Ledger
  <1>2. \A f \in Flow : Ledger(k, rows)[f] \in Nat
    <2>1. \A f \in Flow : k[f].total \in Nat
      BY DEF IsKnown
    <2>2. \A f \in DOMAIN rows : rows[f].total \in Nat
      BY DEF Rows, Row
    <2> QED BY <2>1, <2>2 DEF Ledger, Later
  <1> QED BY <1>1, <1>2 DEF Counts, At

LEMMA PendingCounts ==
  ASSUME NEW w, IsWork(w)
  PROVE  Counts(Pending(w))
  BY DeltasCount, NothingSums DEF Pending, IsWork

\* No flow has more, no hour has less, and nothing that counts is left out.
LEMMA StillBacked ==
  ASSUME NEW k, IsKnown(k), NEW d, Stored(d), NEW p, Counts(p), Backed(k, d, p),
         NEW k2, IsKnown(k2), NEW e, Stored(e), NEW q, Counts(q),
         \A f \in Flow : Ledger(k2, e.rows)[f] <= Ledger(k, d.rows)[f],
         \A a \in Remote : \A h \in HoursOf(a) : At(e.hour, h) = At(d.hour, h),
         \A f \in Flow : At(p, f) = At(q, f)
  PROVE  Backed(k2, e, q)
  <1>1. SUFFICES ASSUME NEW a \in Remote
                 PROVE  SumOf(Ledger(k2, e.rows), FlowsOf(a))
                          <= SumOf(e.hour, HoursOf(a)) + SumOf(q, FlowsOf(a))
    BY DEF Backed
  <1> DEFINE F == FlowsOf(a)
             l == Ledger(k, d.rows)
             m == Ledger(k2, e.rows)
  <1>2. Rows(d.rows) /\ Rows(e.rows) /\ Counts(d.hour) /\ Counts(e.hour)
    BY DEF Stored, Buckets
  <1>3. Counts(l) /\ Counts(m)
    BY <1>2, LedgerCounts
  <1>4. \A f \in F : At(m, f) <= At(l, f)
    <2>1. \A f \in Flow : At(m, f) = m[f]
      BY <1>2, LedgerCounts
    <2>2. \A f \in Flow : At(l, f) = l[f]
      BY <1>2, LedgerCounts
    <2> QED BY <2>1, <2>2 DEF FlowsOf
  <1>5. \A f \in F : At(p, f) = At(q, f)
    BY DEF FlowsOf
  <1>6. SumOf(l, F) <= SumOf(d.hour, HoursOf(a)) + SumOf(p, F)
    BY DEF Backed
  <1> HIDE DEF F, l, m
  <1>7. SumOf(m, F) <= SumOf(l, F)
    BY <1>3, <1>4, SumNoMore
  <1>8. SumOf(p, F) = SumOf(q, F)
    BY <1>5, SumSame
  <1>9. SumOf(e.hour, HoursOf(a)) = SumOf(d.hour, HoursOf(a))
    BY <1>2, SumSame
  <1>10. /\ SumOf(m, F) \in Nat /\ SumOf(l, F) \in Nat /\ SumOf(p, F) \in Nat
         /\ SumOf(d.hour, HoursOf(a)) \in Nat
    BY <1>2, <1>3, SumOfLaws
  <1>11. SumOf(m, F) <= SumOf(e.hour, HoursOf(a)) + SumOf(q, F)
    BY <1>6, <1>7, <1>8, <1>9, <1>10
  <1> QED BY <1>11 DEF m, F

\* Before the hours age, the cleanup takes none.
LEMMA CleanedHours ==
  ASSUME NEW d, NEW n \in 0..8, NEW history, NEW now \in Nat, now <= HourKeep,
         NEW e, Cleaned(d, e, n, history, now)
  PROVE  \A a \in Remote : \A h \in HoursOf(a) : At(e.hour, h) = At(d.hour, h)
  <1>1. SUFFICES ASSUME NEW a \in Remote, NEW k \in HoursOf(a) PROVE At(e.hour, k) = At(d.hour, k)
    OBVIOUS
  <1>2. k[2] \in Nat
    <2>1. k[2] \in 0..Hour(MaxClock)
      BY DEF HoursOf
    <2> QED BY <2>1
  <1>3. k[2] * HourLen >= now - HourKeep
    <2>1. HourLen \in Nat /\ HourKeep \in Nat
      BY StoreAssumption
    <2>2. k[2] * HourLen \in Nat
      BY <1>2, <2>1
    <2> QED BY <2>1, <2>2
  <1>4. k \in DOMAIN d.hour => k \in DOMAIN e.hour
    BY <1>3 DEF Cleaned
  <1>5. Within(e.hour, d.hour)
    BY DEF Cleaned
  <1> QED BY <1>4, <1>5 DEF At, Within

\* No slip, no lost bytes.
LEMMA NothingLost ==
  ASSUME NEW up, Updates(up), NEW S, Lost(up, S) = {}
  PROVE  \A f \in DOMAIN up \cap S : up[f].delta = 0
  <1>1. \A f \in S : ~Moved(up, f)
    BY DEF Lost
  <1>2. \A f \in DOMAIN up : up[f].delta \in Nat
    BY DEF Updates, Update
  <1> QED BY <1>1, <1>2 DEF Moved

LEMMA LessSlips ==
  ASSUME Shape, [Next]_vars, Untouched(slips', clock')
  PROVE  /\ Untouched(slips, clock) /\ clock' \in {clock, clock + 1}
         /\ "delta" \notin slips
  <1>1. "delta" \in slips => "delta" \in slips'
    BY BeginIs, EnforceIs, RollupIs, PublishIs, ClearIs, SaveIs DEF Next, Restart, vars
  <1>2. "cleared" \in slips => "cleared" \in slips'
    BY BeginIs, EnforceIs, RollupIs, PublishIs, ClearIs, SaveIs DEF Next, Restart, vars
  <1>3. clock' = clock \/ clock' = clock + 1
    BY BeginIs, EnforceIs, RollupIs, PublishIs, ClearIs, SaveIs DEF Next, Restart, vars
  <1>4. HourKeep \in Nat /\ clock \in Nat
    BY StoreAssumption DEF Shape
  <1> QED BY <1>1, <1>2, <1>3, <1>4 DEF Untouched

\* A batch adds to what is known of a flow at most what it reports as moved.
LEMMA BatchIsBacked ==
  ASSUME Shape, LedgerIsBacked, Begin, Shape', Untouched(slips, clock), Untouched(slips', clock')
  PROVE  Backed(known', db', Pending(work'))
  <1>1. PICK up \in Batches, seen \in Sightings :
          /\ known' = [f \in Flow |->
                         IF f \in DOMAIN up
                           THEN [state |-> IF up[f].active THEN "active" ELSE "ended",
                                 total |-> up[f].total, last |-> up[f].last, app |-> up[f].app]
                           ELSE known[f]]
          /\ \/ /\ db' = WriteRows(db, up, seen, clock')
                /\ work' = [stage |-> "policy", up |-> up, read |-> {}]
                /\ slips' = slips
             \/ /\ db' = db /\ work' = Idle
                /\ slips' = slips \cup Lost(up, DOMAIN up)
    BY BeginIs
  <1>2. /\ IsKnown(known) /\ Stored(db) /\ clock \in Nat /\ IsKnown(known') /\ Stored(db')
        /\ work.stage = "idle"
    BY BeginIs DEF Shape
  <1>3. /\ Updates(up) /\ IsFiniteSet(seen) /\ seen \subseteq Sighting
        /\ \A f \in DOMAIN up : up[f].total <= known[f].total + up[f].delta
    BY <1>2, BatchIs, SightingsAre
  <1> DEFINE l == Ledger(known, db.rows)
             m == Ledger(known', db'.rows)
             p == Deltas(up)
  <1>4. Rows(db.rows) /\ Rows(db'.rows) /\ Counts(db.hour)
    BY <1>2 DEF Stored, Buckets
  <1>5. Counts(l) /\ Counts(m) /\ Counts(p) /\ \A f \in DOMAIN up : At(p, f) = up[f].delta
    BY <1>2, <1>3, <1>4, LedgerCounts, DeltasCount
  <1>6. \A f \in Flow \ DOMAIN up : At(p, f) = 0
    BY DEF At, Deltas
  <1>7. db'.hour = db.hour
    <2>1. ASSUME NEW e, e = WriteRows(db, up, seen, clock') PROVE e.hour = db.hour
      BY <1>2, <1>3, <2>1, WriteRowsIs
    <2> QED BY <1>1, <2>1
  <1>8. \A f \in DOMAIN up : f \in DOMAIN db'.rows => 
           db'.rows[f].total = up[f].total \/ (f \in DOMAIN db.rows /\ db'.rows[f].total = db.rows[f].total)
    <2>1. ASSUME NEW e, e = WriteRows(db, up, seen, clock'), NEW f \in DOMAIN up
          PROVE  e.rows[f].total = up[f].total
      BY <1>2, <1>3, <2>1, WriteRowsIs
    <2> QED BY <1>1, <2>1
  <1>9. \A f \in DOMAIN db'.rows \ DOMAIN up :
           f \in DOMAIN db.rows /\ db'.rows[f].total = db.rows[f].total
    <2>1. ASSUME NEW e, e = WriteRows(db, up, seen, clock'), NEW f \in DOMAIN e.rows \ DOMAIN up
          PROVE  f \in DOMAIN db.rows /\ e.rows[f].total = db.rows[f].total
      BY <1>2, <1>3, <2>1, WriteRowsIs
    <2> QED BY <1>1, <2>1
  <1>10. \A f \in Flow : m[f] <= l[f] + At(p, f)
    <2> SUFFICES ASSUME NEW f \in Flow PROVE m[f] <= l[f] + At(p, f)
      OBVIOUS
    <2>1. known[f].total \in Nat /\ (f \in DOMAIN db.rows => db.rows[f].total \in Nat)
      BY <1>2, <1>4 DEF IsKnown, Rows, Row
    <2>2. f \in DOMAIN up => /\ up[f].total \in Nat /\ up[f].delta \in Nat
                             /\ known'[f].total = up[f].total
      BY <1>1, <1>3 DEF Updates, Update
    <2>3. f \notin DOMAIN up => known'[f].total = known[f].total
      BY <1>1
    <2>4. l[f] = IF f \in DOMAIN db.rows THEN Later(known[f].total, db.rows[f].total)
                 ELSE known[f].total
      BY DEF Ledger
    <2>5. m[f] = IF f \in DOMAIN db'.rows THEN Later(known'[f].total, db'.rows[f].total)
                 ELSE known'[f].total
      BY DEF Ledger
    <2> HIDE DEF l, m, p
    <2>6. CASE f \in DOMAIN up
      <3>1. At(p, f) = up[f].delta
        BY <1>5, <2>6
      <3>2. up[f].total <= known[f].total + up[f].delta
        BY <1>3, <2>6
      <3> QED BY <1>8, <2>1, <2>2, <2>4, <2>5, <2>6, <3>1, <3>2 DEF Later
    <2>7. CASE f \notin DOMAIN up
      BY <1>6, <1>9, <2>1, <2>3, <2>4, <2>5, <2>7 DEF Later
    <2> QED BY <2>6, <2>7
  <1>11. \A f \in Flow : At(l, f) = l[f]
    BY <1>2, <1>4, LedgerCounts
  <1>12. \A f \in Flow : At(m, f) = m[f]
    BY <1>2, <1>4, LedgerCounts
  <1>13. \A f \in Flow : At(Pending(work'), f) = At(p, f)
    <2>1. CASE work' = [stage |-> "policy", up |-> up, read |-> {}]
      BY <2>1 DEF Pending
    <2>2. CASE work' = Idle /\ slips' = slips \cup Lost(up, DOMAIN up)
      <3>1. Pending(work') = Nothing
        BY <2>2, IdleIs DEF Pending
      <3>2. Lost(up, DOMAIN up) = {}
        BY <2>2 DEF Untouched, Lost
      <3>3. \A f \in DOMAIN up : up[f].delta = 0
        BY <1>3, <3>2, NothingLost
      <3> QED BY <1>5, <1>6, <3>1, <3>3, NothingSums
    <2> QED BY <1>1, <2>1, <2>2
  <1>14. SUFFICES ASSUME NEW a \in Remote
                  PROVE  SumOf(m, FlowsOf(a)) <=
                           SumOf(db.hour, HoursOf(a)) + SumOf(Pending(work'), FlowsOf(a))
    BY <1>7 DEF Backed
  <1> DEFINE F == FlowsOf(a)
  <1>15. IsFiniteSet(F) /\ F \subseteq Flow
    BY StoreAssumption, FS_Subset DEF FlowsOf
  <1>16. Counts(Pending(work')) /\ Pending(work) = Nothing
    <2>1. IsWork(work')
      BY DEF Shape
    <2> QED BY <1>2, <2>1, PendingCounts DEF Pending
  <1>17. SumOf(l, F) <= SumOf(db.hour, HoursOf(a)) + SumOf(Nothing, F)
    BY <1>16 DEF LedgerIsBacked, Backed
  <1> HIDE DEF l, m, p, F
  <1>18. SumOf(m, F) <= SumOf(l, F) + SumOf(p, F)
    <2>1. \A f \in F : At(m, f) <= At(l, f) + At(p, f)
      BY <1>10, <1>11, <1>12, <1>15
    <2> QED BY <1>5, <1>15, <2>1, SumAtMost
  <1>19. SumOf(Pending(work'), F) = SumOf(p, F)
    BY <1>5, <1>13, <1>15, <1>16, SumSame
  <1>20. /\ SumOf(m, F) \in Nat /\ SumOf(l, F) \in Nat /\ SumOf(p, F) \in Nat
         /\ SumOf(db.hour, HoursOf(a)) \in Nat /\ SumOf(Nothing, F) = 0
    BY <1>4, <1>5, NothingSums, SumOfLaws
  <1>21. SumOf(m, F) <= SumOf(db.hour, HoursOf(a)) + SumOf(Pending(work'), F)
    BY <1>17, <1>18, <1>19, <1>20
  <1> QED BY <1>21 DEF F

\* When every flow that moved was read back, the hour gets what the batch moved.
LEMMA RollupIsBacked ==
  ASSUME Shape, MovesWereRead, "delta" \notin slips, work.stage = "rollup",
         Backed(known, db, Pending(work)),
         Added(db, db', Shares(db, work.up, work.read), clock)
  PROVE  Backed(known, db', Nothing)
  <1> DEFINE up == work.up
             p == Deltas(up)
             share == Shares(db, up, work.read)
             l == Ledger(known, db.rows)
             t == Hour(clock)
  <1>1. /\ IsKnown(known) /\ Stored(db) /\ clock \in Nat /\ clock <= MaxClock /\ MaxClock \in Nat
        /\ Updates(up) /\ work.read \subseteq DOMAIN up
    BY StoreAssumption DEF Shape, IsWork
  <1>2. /\ Rows(db.rows) /\ Counts(db.hour) /\ Counts(db'.hour) /\ db'.rows = db.rows
        /\ Grown(db'.hour, db.hour, share, t)
    BY <1>1 DEF Added, Stored, Buckets
  <1>3. Counts(p) /\ \A f \in DOMAIN up : At(p, f) = up[f].delta
    BY <1>1, DeltasCount
  <1>4. SUFFICES ASSUME NEW a \in Remote
                 PROVE  SumOf(l, FlowsOf(a)) <=
                          SumOf(db'.hour, HoursOf(a)) + SumOf(Nothing, FlowsOf(a))
    BY <1>2 DEF Backed
  <1> DEFINE F == FlowsOf(a)
             M == MovedTo(up, work.read, a)
             k == <<Endpoint(a), t>>
             H == HoursOf(a)
  <1>5. SumOf(l, F) <= SumOf(db.hour, H) + SumOf(p, F)
    BY DEF Backed, Pending
  <1>6. share[Endpoint(a)] = SumOf(p, M)
    BY EntityHas, ShareOfEndpoint DEF Shares
  <1>7. M \subseteq F
    BY <1>1 DEF MovedTo, FlowsOf, Updates
  <1>8. \A f \in F \ M : At(p, f) = 0
    <2>1. SUFFICES ASSUME NEW f \in F \ M PROVE At(p, f) = 0
      OBVIOUS
    <2>2. CASE f \notin DOMAIN up
      BY <2>2 DEF At, Deltas
    <2>3. CASE f \in DOMAIN up
      <3>1. RemoteOf[f] = a /\ f \in Flow
        BY DEF FlowsOf
      <3>2. ~Moved(up, f)
        BY <2>3, <3>1 DEF MovesWereRead, MovedTo
      <3>3. up[f].delta \in Nat
        BY <1>1, <2>3 DEF Updates, Update
      <3> QED BY <1>3, <2>3, <3>2, <3>3 DEF Moved
    <2> QED BY <2>2, <2>3
  <1>9. k \in H /\ \A h \in H \ {k} : h \notin Entity \X {t}
    <2>1. Hour(clock) <= Hour(MaxClock) /\ Hour(clock) \in Nat /\ Hour(MaxClock) \in Nat
      BY <1>1, HourGrows, HourIs
    <2> QED BY <2>1 DEF HoursOf
  <1>10. /\ \A h \in H \ {k} : At(db'.hour, h) = At(db.hour, h)
         /\ At(db'.hour, k) = At(db.hour, k) + share[Endpoint(a)]
    <2>1. \A h \in H \ {k} : At(db'.hour, h) = At(db.hour, h)
      BY <1>2, <1>9 DEF Grown
    <2>2. At(db'.hour, k) = At(db.hour, k) + share[Endpoint(a)]
      BY <1>2, EntityHas DEF Grown
    <2> QED BY <2>1, <2>2
  <1>11. Counts(l)
    BY <1>1, <1>2, LedgerCounts
  <1> HIDE DEF up, p, share, l, t, F, M, k, H
  <1>12. SumOf(p, F) = SumOf(p, M)
    <2>1. F = M \cup (F \ M) /\ M \cap (F \ M) = {}
      BY <1>7
    <2>2. SumOf(p, M \cup (F \ M)) = SumOf(p, M) + SumOf(p, F \ M)
      BY <1>3, <2>1, SumUnion
    <2>3. SumOf(p, F) = SumOf(p, M \cup (F \ M))
      BY <2>1, Zenon
    <2>4. SumOf(p, F \ M) = 0
      BY <1>3, <1>8, SumZero
    <2>5. SumOf(p, M) \in Nat
      BY <1>3, SumOfLaws
    <2> QED BY <2>2, <2>3, <2>4, <2>5
  <1>13. SumOf(db'.hour, H) = At(db'.hour, k) + SumOf(db'.hour, H \ {k})
    BY <1>2, <1>9, SumOfLaws
  <1>14. SumOf(db.hour, H) = At(db.hour, k) + SumOf(db.hour, H \ {k})
    BY <1>2, <1>9, SumOfLaws
  <1>15. SumOf(db'.hour, H \ {k}) = SumOf(db.hour, H \ {k})
    BY <1>2, <1>10, SumSame
  <1>16. /\ SumOf(l, F) \in Nat /\ SumOf(p, M) \in Nat /\ SumOf(Nothing, F) = 0
         /\ SumOf(db.hour, H \ {k}) \in Nat /\ At(db.hour, k) \in Nat
    BY <1>2, <1>3, <1>11, NothingSums, SumOfLaws DEF At, Counts
  <1>17. SumOf(l, F) <= SumOf(db'.hour, H) + SumOf(Nothing, F)
    BY <1>5, <1>6, <1>10, <1>12, <1>13, <1>14, <1>15, <1>16
  <1> QED BY <1>17 DEF l, F, H

\* A batch that is given up without a slip had nothing to add.
LEMMA GivenUp ==
  ASSUME NEW w, IsWork(w), Lost(w.up, DOMAIN w.up) = {}
  PROVE  \A f \in Flow : At(Pending(w), f) = At(Nothing, f)
  <1>1. \A f \in DOMAIN w.up : w.up[f].delta = 0
    BY NothingLost DEF IsWork
  <1>2. \A f : At(Deltas(w.up), f) = 0
    BY <1>1 DEF At, Deltas
  <1>3. \A f : At(Nothing, f) = 0
    BY NothingSums
  <1> QED BY <1>2, <1>3 DEF Pending

\* Rows that are left as they were or removed leave a smaller ledger.
LEMMA SmallerLedger ==
  ASSUME NEW k, IsKnown(k), NEW rows, Rows(rows), NEW less, Rows(less), Within(less, rows)
  PROVE  \A f \in Flow : Ledger(k, less)[f] <= Ledger(k, rows)[f]
  <1>1. SUFFICES ASSUME NEW f \in Flow PROVE Ledger(k, less)[f] <= Ledger(k, rows)[f]
    OBVIOUS
  <1>2. k[f].total \in Nat /\ (f \in DOMAIN rows => rows[f].total \in Nat)
    BY DEF IsKnown, Rows, Row
  <1>3. f \in DOMAIN less => f \in DOMAIN rows /\ less[f] = rows[f]
    BY DEF Within
  <1> QED BY <1>2, <1>3 DEF Ledger, Later

LEMMA LedgerStep ==
  ASSUME Shape, LedgerIsBacked, MovesWereRead, [Next]_vars
  PROVE  LedgerIsBacked'
  <1>1. SUFFICES ASSUME Untouched(slips', clock') PROVE Backed(known', db', Pending(work'))
    BY DEF LedgerIsBacked
  <1>2. Shape' /\ Untouched(slips, clock) /\ "delta" \notin slips
    <2>1. Shape'
      BY ShapeStep
    <2>2. Untouched(slips, clock) /\ "delta" \notin slips
      BY <1>1, LessSlips
    <2> QED BY <2>1, <2>2
  <1>3. /\ Backed(known, db, Pending(work))
        /\ IsKnown(known) /\ Stored(db) /\ IsWork(work) /\ Counts(Pending(work))
        /\ IsKnown(known') /\ Stored(db') /\ IsWork(work') /\ Counts(Pending(work'))
    BY <1>2, PendingCounts DEF LedgerIsBacked, Shape
  <1>4. /\ Rows(db.rows) /\ Rows(db'.rows) /\ clock \in Nat /\ HourKeep \in Nat
        /\ clock <= HourKeep
    BY <1>2, <1>3, StoreAssumption DEF Stored, Shape, Untouched
  <1>5. ASSUME Within(db'.rows, db.rows), known' = known,
               \A a \in Remote : \A h \in HoursOf(a) : At(db'.hour, h) = At(db.hour, h),
               \A f \in Flow : At(Pending(work), f) = At(Pending(work'), f)
        PROVE  Backed(known', db', Pending(work'))
    <2>1. \A f \in Flow : Ledger(known', db'.rows)[f] <= Ledger(known, db.rows)[f]
      BY <1>3, <1>4, <1>5, SmallerLedger
    <2> QED BY <1>3, <1>5, <2>1, StillBacked
  <1>6. ASSUME db'.rows = db.rows PROVE Within(db'.rows, db.rows)
    BY <1>6 DEF Within
  <1>7. ASSUME work' = Idle PROVE Pending(work') = Nothing
    BY <1>7, IdleIs DEF Pending
  <1>8. CASE Begin
    BY <1>1, <1>2, <1>8, BatchIsBacked
  <1>9. CASE Enforce
    <2>1. PICK n \in 0..8 : Cleaned(db, db', n, mem.history, clock)
      BY <1>9, EnforceIs
    <2>2. \A a \in Remote : \A h \in HoursOf(a) : At(db'.hour, h) = At(db.hour, h)
      BY <1>4, <2>1, CleanedHours
    <2>3. Within(db'.rows, db.rows) /\ known' = known
      BY <1>9, <2>1, EnforceIs DEF Cleaned
    <2>4. CASE work' = [work EXCEPT !.stage = "rollup", !.read = ReadBack(db', work.up)]
      <3>1. work'.stage = "rollup" /\ work'.up = work.up /\ work.stage = "policy"
        BY <1>3, <1>9, <2>4, EnforceIs DEF IsWork
      <3>2. Pending(work') = Pending(work)
        BY <3>1 DEF Pending
      <3> QED BY <1>5, <2>2, <2>3, <3>2
    <2>5. CASE work' = Idle /\ slips' = slips \cup Lost(work.up, DOMAIN work.up)
      <3>1. Lost(work.up, DOMAIN work.up) = {}
        BY <1>1, <2>5 DEF Untouched, Lost
      <3>2. \A f \in Flow : At(Pending(work), f) = At(Pending(work'), f)
        BY <1>3, <1>7, <2>5, <3>1, GivenUp
      <3> QED BY <1>5, <2>2, <2>3, <3>2
    <2> QED BY <1>9, <2>4, <2>5, EnforceIs
  <1>10. CASE Rollup
    <2>1. known' = known /\ work.stage = "rollup"
      BY <1>10, RollupIs
    <2>2. CASE /\ Added(db, db', Shares(db, work.up, work.read), clock)
               /\ work' = [work EXCEPT !.stage = "rates"]
      <3>1. Pending(work') = Nothing
        BY <1>3, <2>2 DEF Pending, IsWork
      <3> QED BY <1>2, <1>3, <2>1, <2>2, <3>1, RollupIsBacked
    <2>3. CASE db' = db /\ work' = Idle /\ slips' = slips \cup Lost(work.up, DOMAIN work.up)
      <3>1. Lost(work.up, DOMAIN work.up) = {}
        BY <1>1, <2>3 DEF Untouched, Lost
      <3>2. \A f \in Flow : At(Pending(work), f) = At(Pending(work'), f)
        BY <1>3, <1>7, <2>3, <3>1, GivenUp
      <3> QED BY <1>5, <1>6, <2>1, <2>3, <3>2
    <2> QED BY <1>10, <2>2, <2>3, RollupIs
  <1>11. CASE Publish
    <2>1. ASSUME NEW next, NEW e, e = StoreRates(db, next) PROVE e.rows = db.rows /\ e.hour = db.hour
      BY <1>3, <2>1, StoreRatesKeeps
    <2>2. db'.rows = db.rows /\ db'.hour = db.hour /\ known' = known
      BY <1>11, <2>1, PublishIs
    <2>3. Pending(work) = Nothing /\ Pending(work') = Nothing
      BY <1>7, <1>11, PublishIs DEF Pending
    <2> QED BY <1>5, <1>6, <2>2, <2>3
  <1>12. CASE ClearHistory
    <2>1. "cleared" \in slips'
      BY <1>12, ClearIs
    <2> QED BY <1>1, <2>1 DEF Untouched
  <1>13. CASE SaveSettings
    <2>1. PICK n \in 0..8, history \in BOOLEAN : Cleaned(db, db', n, history, clock)
      BY <1>13, SaveIs
    <2>2. \A a \in Remote : \A h \in HoursOf(a) : At(db'.hour, h) = At(db.hour, h)
      BY <1>4, <2>1, CleanedHours
    <2>3. Within(db'.rows, db.rows) /\ known' = known /\ work' = work
      BY <1>13, <2>1, SaveIs DEF Cleaned
    <2> QED BY <1>5, <2>2, <2>3
  <1>14. CASE Restart
    <2>1. /\ known' = [f \in Flow |-> [state |-> "none", total |-> 0, last |-> 0, app |-> None]]
          /\ db' = db /\ work' = Idle
          /\ slips' = (slips \ {"rates"}) \cup
               (IF work.stage \in {"policy", "rollup"} THEN Lost(work.up, DOMAIN work.up) ELSE {})
      BY <1>14 DEF Restart
    <2>2. \A f \in Flow : Ledger(known', db'.rows)[f] <= Ledger(known, db.rows)[f]
      <3>1. SUFFICES ASSUME NEW f \in Flow
                     PROVE  Ledger(known', db.rows)[f] <= Ledger(known, db.rows)[f]
        BY <2>1
      <3>2. /\ known[f].total \in Nat /\ known'[f].total = 0
            /\ (f \in DOMAIN db.rows => db.rows[f].total \in Nat)
        BY <1>3, <1>4, <2>1 DEF IsKnown, Rows, Row
      <3> QED BY <3>2 DEF Ledger, Later
    <2>3. \A f \in Flow : At(Pending(work), f) = At(Pending(work'), f)
      <3>1. CASE work.stage \in {"policy", "rollup"}
        <4>1. Lost(work.up, DOMAIN work.up) = {}
          BY <1>1, <2>1, <3>1 DEF Untouched, Lost
        <4> QED BY <1>3, <1>7, <2>1, <4>1, GivenUp
      <3>2. CASE work.stage \notin {"policy", "rollup"}
        BY <1>7, <2>1, <3>2 DEF Pending
      <3> QED BY <3>1, <3>2
    <2> QED BY <1>3, <2>1, <2>2, <2>3, StillBacked
  <1>15. CASE UNCHANGED vars
    BY <1>3, <1>15 DEF vars
  <1> QED BY <1>8, <1>9, <1>10, <1>11, <1>12, <1>13, <1>14, <1>15 DEF Next

\* What is not read back has no row, and a delta without a row is a slip.
LEMMA ReadStep ==
  ASSUME Shape, MovesWereRead, [Next]_vars
  PROVE  MovesWereRead'
  <1>1. ASSUME work'.stage # "rollup" PROVE MovesWereRead'
    BY <1>1 DEF MovesWereRead
  <1>2. Idle.stage = "idle" /\ IsWork(work)
    BY IdleIs DEF Shape
  <1>3. CASE Begin
    <2>1. work'.stage # "rollup"
      BY <1>2, <1>3, BeginIs
    <2> QED BY <1>1, <2>1
  <1>4. CASE Enforce
    <2>1. CASE work' = Idle
      BY <1>1, <1>2, <2>1
    <2>2. CASE /\ work' = [work EXCEPT !.stage = "rollup", !.read = ReadBack(db', work.up)]
               /\ slips' = slips \cup Lost(work.up, DOMAIN work.up \ DOMAIN db'.rows)
      <3>1. work'.up = work.up /\ work'.read = ReadBack(db', work.up)
        BY <1>2, <2>2 DEF IsWork
      <3>2. ASSUME "delta" \notin slips', NEW f \in DOMAIN work.up, Moved(work.up, f)
            PROVE  f \in ReadBack(db', work.up)
        <4>1. f \in DOMAIN db'.rows
          BY <2>2, <3>2 DEF Lost
        <4> QED BY <3>2, <4>1 DEF ReadBack
      <3> QED BY <3>1, <3>2 DEF MovesWereRead
    <2> QED BY <1>4, <2>1, <2>2, EnforceIs
  <1>5. CASE Rollup
    <2>1. work'.stage # "rollup"
      BY <1>2, <1>5, RollupIs DEF IsWork
    <2> QED BY <1>1, <2>1
  <1>6. CASE Publish
    BY <1>1, <1>2, <1>6, PublishIs
  <1>7. CASE ClearHistory
    <2>1. work'.stage = "idle"
      BY <1>7, ClearIs
    <2> QED BY <1>1, <2>1
  <1>8. CASE SaveSettings
    <2>1. work'.stage = "idle"
      BY <1>8, SaveIs
    <2> QED BY <1>1, <2>1
  <1>9. CASE Restart
    BY <1>1, <1>2, <1>9 DEF Restart
  <1>10. CASE UNCHANGED vars
    BY <1>10 DEF vars, MovesWereRead
  <1> QED BY <1>3, <1>4, <1>5, <1>6, <1>7, <1>8, <1>9, <1>10 DEF Next

\* What the rows say is at most what the ledger says.
LEMMA RowsFollow ==
  ASSUME Shape, LedgerIsBacked
  PROVE  RowsAreBacked
  <1>1. SUFFICES ASSUME slips \cap {"delta", "cleared"} = {}, clock <= HourKeep,
                        work.stage \in {"idle", "rates"}, NEW a \in Remote
                 PROVE  SumOf([f \in DOMAIN db.rows |-> db.rows[f].total], FlowsOf(a))
                          <= SumOf(db.hour, HoursOf(a))
    BY DEF RowsAreBacked, FlowsOf, HoursOf
  <1> DEFINE totals == [f \in DOMAIN db.rows |-> db.rows[f].total]
             l == Ledger(known, db.rows)
             F == FlowsOf(a)
  <1>2. Rows(db.rows) /\ Mirrors(db) /\ IsKnown(known) /\ Counts(db.hour)
    BY DEF Shape, Stored, Buckets
  <1>3. Counts(totals)
    <2>1. DOMAIN db.rows \subseteq Flow /\ IsFiniteSet(Flow)
      BY <1>2, StoreAssumption DEF Rows
    <2>2. IsFiniteSet(DOMAIN db.rows)
      BY <2>1, FS_Subset
    <2>3. \A f \in DOMAIN db.rows : db.rows[f].total \in Nat
      BY <1>2 DEF Rows, Row
    <2> QED BY <2>2, <2>3 DEF Counts
  <1>4. Counts(l) /\ (\A f \in Flow : At(l, f) = l[f])
    BY <1>2, LedgerCounts
  <1>5. \A f \in F : At(totals, f) <= At(l, f)
    <2>1. SUFFICES ASSUME NEW f \in F PROVE At(totals, f) <= At(l, f)
      OBVIOUS
    <2>2. f \in Flow /\ known[f].total \in Nat /\ (f \in DOMAIN db.rows => db.rows[f].total \in Nat)
      BY <1>2 DEF FlowsOf, IsKnown, Rows, Row
    <2>3. At(l, f) = IF f \in DOMAIN db.rows THEN Later(known[f].total, db.rows[f].total)
                     ELSE known[f].total
      BY <1>4, <2>2 DEF Ledger
    <2>4. At(totals, f) = IF f \in DOMAIN db.rows THEN db.rows[f].total ELSE 0
      BY DEF At
    <2> HIDE DEF l, totals
    <2> QED BY <2>2, <2>3, <2>4 DEF Later
  <1>6. SumOf(l, F) <= SumOf(db.hour, HoursOf(a)) + SumOf(Nothing, F)
    <2>1. Untouched(slips, clock)
      BY <1>1 DEF Untouched
    <2>2. Pending(work) = Nothing
      BY <1>1 DEF Pending
    <2> QED BY <2>1, <2>2 DEF LedgerIsBacked, Backed
  <1> HIDE DEF totals, l, F
  <1>7. SumOf(totals, F) <= SumOf(l, F)
    BY <1>3, <1>4, <1>5, SumNoMore
  <1>8. /\ SumOf(totals, F) \in Nat /\ SumOf(l, F) \in Nat /\ SumOf(Nothing, F) = 0
        /\ SumOf(db.hour, HoursOf(a)) \in Nat
    BY <1>2, <1>3, <1>4, NothingSums, SumOfLaws
  <1>9. SumOf(totals, F) <= SumOf(db.hour, HoursOf(a))
    BY <1>6, <1>7, <1>8
  <1> QED BY <1>9 DEF totals, F

\* What keeps every record that another one rests on.
RecordsInv == Shape /\ AppsAreKept /\ LedgerIsBacked /\ MovesWereRead

LEMMA RecordsInit == ASSUME Init PROVE RecordsInv
  <1>1. /\ DOMAIN db.rows = {} /\ work = Idle /\ Shape
        /\ \A f \in Flow : known[f].total = 0
    BY ShapeInit DEF Init, EmptyDb
  <1>2. AppsAreKept /\ MovesWereRead
    BY <1>1, IdleIs DEF AppsAreKept, MovesWereRead
  <1>3. ASSUME NEW a \in Remote
        PROVE  SumOf(Ledger(known, db.rows), FlowsOf(a))
                 <= SumOf(db.hour, HoursOf(a)) + SumOf(Pending(work), FlowsOf(a))
    <2> DEFINE l == Ledger(known, db.rows)
    <2>1. IsKnown(known) /\ Rows(db.rows) /\ Counts(db.hour) /\ IsWork(work)
      BY <1>1 DEF Shape, Stored, Buckets
    <2>2. Counts(l) /\ (\A f \in Flow : At(l, f) = l[f])
      BY <2>1, LedgerCounts
    <2>3. \A f \in FlowsOf(a) : At(l, f) = 0
      BY <1>1, <2>2 DEF FlowsOf, Ledger
    <2> HIDE DEF l
    <2>4. SumOf(l, FlowsOf(a)) = 0
      BY <2>2, <2>3, SumZero
    <2>5. SumOf(db.hour, HoursOf(a)) \in Nat /\ SumOf(Pending(work), FlowsOf(a)) \in Nat
      BY <2>1, PendingCounts, SumOfLaws
    <2> QED BY <2>4, <2>5 DEF l
  <1> QED BY <1>1, <1>2, <1>3 DEF RecordsInv, LedgerIsBacked, Backed

\* What the rows of an address say was transferred is in its rollups, and an
\* Application stays as long as an update that named it is within the retention
\* (db.rs:1060 the second transaction, 1379 the cleanup of applications, 3894
\* upsert_application).
THEOREM RecordsAreAlwaysKept == Spec => []RecordsAreKept
  <1>1. Init => RecordsInv
    BY RecordsInit
  <1>2. RecordsInv /\ [Next]_vars => RecordsInv'
    <2> SUFFICES ASSUME RecordsInv, [Next]_vars PROVE RecordsInv'
      OBVIOUS
    <2> USE DEF RecordsInv
    <2>1. Shape'
      BY ShapeStep
    <2>2. AppsAreKept'
      BY AppsStep
    <2>3. LedgerIsBacked'
      BY LedgerStep
    <2>4. MovesWereRead'
      BY ReadStep
    <2> QED BY <2>1, <2>2, <2>3, <2>4
  <1>3. RecordsInv => RecordsAreKept
    BY RowsFollow DEF RecordsInv, RecordsAreKept
  <1> QED BY <1>1, <1>2, <1>3, PTL DEF Spec

------------------------------------------------------------------------------
\* A name is put on a flow by fresh evidence only.

\* The names that a step puts on the rows of a flow rest on unexpired evidence.
NamesAreFresh(d, e, now) ==
  \A f \in DOMAIN e.rows :
    \A x \in e.rows[f].domains \ (IF f \in DOMAIN d.rows THEN d.rows[f].domains ELSE {}) :
      <<x, RemoteOf[f]>> \in DOMAIN e.obs /\ e.obs[<<x, RemoteOf[f]>>] + Ttl > now

LEMMA NamesStep ==
  ASSUME Shape, [Next]_vars
  PROVE  NamesAreFresh(db, db', clock')
  <1>0. Stored(db) /\ clock \in Nat
    BY DEF Shape
  <1>1. ASSUME Within(db'.rows, db.rows) PROVE NamesAreFresh(db, db', clock')
    BY <1>1 DEF Within, NamesAreFresh
  <1>2. ASSUME db'.rows = db.rows PROVE NamesAreFresh(db, db', clock')
    BY <1>1, <1>2 DEF Within
  <1>3. CASE Begin
    <2>1. PICK up \in Batches, seen \in Sightings : db' = WriteRows(db, up, seen, clock') \/ db' = db
      BY <1>3, BeginIs
    <2>2. Updates(up) /\ IsFiniteSet(seen) /\ seen \subseteq Sighting
      BY <1>0, BatchIs, SightingsAre DEF Shape
    <2>3. ASSUME NEW e, e = WriteRows(db, up, seen, clock'), NEW f \in DOMAIN e.rows,
                 NEW x \in e.rows[f].domains
          PROVE  \/ f \in DOMAIN db.rows /\ x \in db.rows[f].domains
                 \/ <<x, RemoteOf[f]>> \in DOMAIN e.obs /\ e.obs[<<x, RemoteOf[f]>>] + Ttl > clock'
      BY <1>0, <2>2, <2>3, WriteRowsIs
    <2>4. CASE db' = WriteRows(db, up, seen, clock')
      BY <2>3, <2>4 DEF NamesAreFresh
    <2> QED BY <1>2, <2>1, <2>4
  <1>4. CASE Enforce
    BY <1>1, <1>4, EnforceIs DEF Cleaned
  <1>5. CASE Rollup
    BY <1>2, <1>5, RollupIs DEF Added
  <1>6. CASE Publish
    <2>1. ASSUME NEW next, NEW e, e = StoreRates(db, next) PROVE e.rows = db.rows
      BY <1>0, <2>1, StoreRatesKeeps
    <2> QED BY <1>2, <1>6, <2>1, PublishIs
  <1>7. CASE ClearHistory
    <2>1. PICK n \in 0..7 : db' = Cleared(db, n)
      BY <1>7, ClearIs
    <2> QED BY <1>0, <1>1, <2>1, ClearedIs
  <1>8. CASE SaveSettings
    BY <1>1, <1>8, SaveIs DEF Cleaned
  <1>9. CASE Restart
    BY <1>2, <1>9 DEF Restart
  <1>10. CASE UNCHANGED vars
    BY <1>2, <1>10 DEF vars
  <1> QED BY <1>3, <1>4, <1>5, <1>6, <1>7, <1>8, <1>9, <1>10 DEF Next

\* No step puts a name on a flow after the evidence for it has expired, whether
\* the flow is new, observed again or renamed with its address (db.rs
\* associate_address; PRD.md:364).
THEOREM NoNameIsLate == Spec => NoLateAssociation
  <1>1. Init => Shape
    BY ShapeInit
  <1>2. Shape /\ [Next]_vars => Shape'
    BY ShapeStep
  <1>3. Shape /\ [Next]_vars =>
          [\A f \in DOMAIN db'.rows :
             \A x \in db'.rows[f].domains \
                        (IF f \in DOMAIN db.rows THEN db.rows[f].domains ELSE {}) :
               <<x, RemoteOf[f]>> \in DOMAIN db'.obs
                 /\ db'.obs[<<x, RemoteOf[f]>>] + Ttl > clock']_vars
    BY NamesStep DEF NamesAreFresh
  <1> QED BY <1>1, <1>2, <1>3, PTL DEF Spec, NoLateAssociation
==============================================================================
