----------------------------- MODULE PolicyProofs -----------------------------
(***************************************************************************)
(* Proofs about PolicyApply and about PolicyControl, which drives it.      *)
(*                                                                         *)
(* The first part is about the worker and the maps, for every set of       *)
(* rules, targets and programs, every capacity and every number of kernel  *)
(* faults.  The second carries it over to the handlers, the channel and    *)
(* the restarts, for every set of clients and selectors and any number of  *)
(* requests, crashes and closed connections, and adds what the status says.*)
(* The third is about the token bucket, for any rates, packet lengths and  *)
(* CPUs.                                                                   *)
(***************************************************************************)
EXTENDS PolicyControl, TokenBucket, TLAPS

-----------------------------------------------------------------------------
(* The worker and the maps *)

\* The operation on match entry e, or on the state of r in direction d, is
\* still to come.
MatchPending(e) == \E op \in todo : op \in MatchOp /\ op.entry = e
StatePending(r, d) == \E op \in todo : op \in StateOp /\ op.id = r /\ op.dir = d

Shape ==
  /\ worker = "idle" => todo = {} /\ target = applied /\ ~configured
  /\ todo \subseteq Diff(applied, target)

\* What is left of the list is a suffix of it.
Suffix ==
  \A o \in todo, q \in Diff(applied, target) : Precedes(o, q, target) => q \in todo

ConfigProgress ==
  /\ configured => kconfig = ConfigOf(target)
  /\ ~tainted /\ ~configured => kconfig = ConfigOf(applied)
  /\ Disabling(applied, target) /\ ~configured => todo = Diff(applied, target)
  /\ ~Disabling(applied, target) /\ configured => todo = {}

AllApart == Apart(applied, applied) /\ Apart(applied, target) /\ Apart(target, target)

MatchProgress ==
  \A e \in MatchEntry :
    Installs(IF MatchPending(e) THEN applied ELSE target, e, kmatch[e])

StateProgress ==
  \A r \in RuleId, d \in Direction :
    /\ StatePending(r, d) /\ HasState(applied.rules[r], d)
         => kstate[r][d] = applied.rules[r].rate
    /\ ~StatePending(r, d) /\ HasState(target.rules[r], d)
         => kstate[r][d] = target.rules[r].rate
    /\ target.rules[r] # None /\ HasState(applied.rules[r], d) => kstate[r][d] # None

ApplyInv ==
  /\ ApplyTypeOK
  /\ Shape
  /\ Suffix
  /\ ConfigProgress
  /\ ~tainted => AllApart /\ MatchProgress /\ StateProgress

-----------------------------------------------------------------------------
(* Types *)

\* The empty program of CompiledPolicy::default is a program.
LEMMA EmptyIsProgram == EmptyProgram \in Program
  BY DEF EmptyProgram, Program

\* config_value of a program is a value of policy_config.
LEMMA ConfigType ==
  ASSUME NEW p \in Program
  PROVE  ConfigOf(p) \in PolicyConfig
  BY DEF ConfigOf, PolicyConfig, Program, Uses

\* diff yields policy operations only.
LEMMA DiffType ==
  ASSUME NEW p, NEW q
  PROVE  Diff(p, q) \subseteq PolicyOp
  BY DEF Diff, PolicyOp

\* The maps and the worker start with values of their types.
LEMMA TypeInit == ApplyInit => ApplyTypeOK
  <1>. SUFFICES ASSUME ApplyInit
                PROVE  ApplyTypeOK
    OBVIOUS
  <1>1. kmatch \in [MatchEntry -> RuleRef \cup {None}]
    BY DEF ApplyInit
  <1>2. kstate \in [RuleId -> [Direction -> Rate \cup {NoRate, None}]]
    BY DEF ApplyInit
  <1>3. kconfig \in PolicyConfig
    BY DEF ApplyInit, PolicyConfig
  <1>4. applied \in Program /\ target \in Program
    BY EmptyIsProgram DEF ApplyInit
  <1>5. faults \in 0 .. MaxFaults
    BY ApplyAssumption DEF ApplyInit
  <1>. QED
    BY <1>1, <1>2, <1>3, <1>4, <1>5 DEF ApplyInit, ApplyTypeOK

\* Taking a program keeps the types.
LEMMA TypeBegin ==
  ASSUME ApplyTypeOK, NEW p \in Program, Begin(p)
  PROVE  ApplyTypeOK'
  <1>1. tainted' \in BOOLEAN
    BY DEF Begin, Apart
  <1>2. todo' \subseteq PolicyOp
    BY DiffType DEF Begin
  <1>. QED
    BY <1>1, <1>2 DEF Begin, ApplyTypeOK

\* The fields of an operation, by the kind of its variant.
LEMMA OpParts ==
  ASSUME NEW op \in PolicyOp
  PROVE  /\ op \in StateOp <=> op.kind \in {"UpsertState", "RemoveState"}
         /\ op \in MatchOp <=> op.kind \in {"UpsertMatch", "RemoveMatch"}
         /\ op.id \in RuleId
         /\ op \in StateOp => op.dir \in Direction
         /\ op \in MatchOp => op.entry \in MatchEntry
  BY DEF PolicyOp, StateOp, MatchOp

\* An operation of the difference does what the two programs say.
LEMMA DiffParts ==
  ASSUME NEW p \in Program, NEW q \in Program, NEW op \in Diff(p, q)
  PROVE  /\ op \in PolicyOp
         /\ op.kind = "UpsertState" => HasState(q.rules[op.id], op.dir)
         /\ op.kind = "RemoveState" =>
              HasState(p.rules[op.id], op.dir) /\ q.rules[op.id] = None
         /\ op.kind = "UpsertMatch" => Owns(q.rules[op.id], op.entry)
         /\ op.kind = "RemoveMatch" =>
              Owns(p.rules[op.id], op.entry) /\ ~Owns(q.rules[op.id], op.entry)
  <1>1. CASE op \in StateOp /\ StateChange(op, p.rules[op.id], q.rules[op.id])
    BY <1>1 DEF StateOp, StateChange, PolicyOp
  <1>2. CASE op \in MatchOp /\ MatchChange(op, p.rules[op.id], q.rules[op.id])
    BY <1>2 DEF MatchOp, MatchChange, PolicyOp
  <1>. QED
    BY <1>1, <1>2 DEF Diff

\* A rule of a program is a compiled rule, and its reference a rule reference.
LEMMA RuleType ==
  ASSUME NEW p \in Program, NEW r \in RuleId, p.rules[r] # None
  PROVE  /\ p.rules[r] \in CompiledRule
         /\ p.rules[r].rate \in Rate \cup {NoRate}
         /\ RefTo(r, p.rules[r]) \in RuleRef
  <1>1. p.rules[r] \in CompiledRule
    BY DEF Program
  <1>. QED
    BY <1>1 DEF CompiledRule, RefTo, RuleRef

\* A map operation of apply_policy_op keeps the types.
LEMMA TypeApplyOp ==
  ASSUME ApplyTypeOK, Shape, NEW op \in todo, ApplyOp(op)
  PROVE  ApplyTypeOK'
  <1>1. op \in Diff(applied, target) /\ applied \in Program /\ target \in Program
    BY DEF Shape, ApplyTypeOK
  <1>2. op \in PolicyOp
    BY <1>1, DiffParts
  <1>3. op.id \in RuleId
    BY <1>2, OpParts
  <1>4. CASE op.kind = "UpsertState"
    <2>1. op.dir \in Direction /\ target.rules[op.id] # None
      BY <1>1, <1>2, <1>4, OpParts, DiffParts DEF HasState
    <2>2. target.rules[op.id].rate \in Rate \cup {NoRate}
      BY <1>1, <1>3, <2>1, RuleType
    <2>. QED
      BY <1>3, <1>4, <2>1, <2>2 DEF ApplyOp, SetState, ApplyTypeOK
  <1>5. CASE op.kind = "RemoveState"
    <2>1. op.dir \in Direction
      BY <1>2, <1>5, OpParts
    <2>. QED
      BY <1>3, <1>5, <2>1 DEF ApplyOp, SetState, ApplyTypeOK
  <1>6. CASE op.kind = "UpsertMatch"
    <2>1. op.entry \in MatchEntry /\ target.rules[op.id] # None
      BY <1>1, <1>2, <1>6, OpParts, DiffParts DEF Owns
    <2>2. RefTo(op.id, target.rules[op.id]) \in RuleRef
      BY <1>1, <1>3, <2>1, RuleType
    <2>. QED
      BY <1>6, <2>1, <2>2 DEF ApplyOp, SetMatch, ApplyTypeOK
  <1>7. CASE op.kind = "RemoveMatch"
    <2>1. op.entry \in MatchEntry
      BY <1>2, <1>7, OpParts
    <2>. QED
      BY <1>7, <2>1 DEF ApplyOp, SetMatch, ApplyTypeOK
  <1>. QED
    BY <1>4, <1>5, <1>6, <1>7 DEF ApplyOp

\* SetEnabled, the end of an apply and its failure keep the types.
LEMMA TypeOther ==
  ASSUME ApplyTypeOK, ApplyConfig \/ Refuse \/ Fault \/ Commit
  PROVE  ApplyTypeOK'
  <1>1. CASE ApplyConfig
    BY <1>1, ConfigType DEF ApplyConfig, ApplyTypeOK
  <1>2. CASE Refuse
    BY <1>2 DEF Refuse, Abort, ApplyTypeOK
  <1>3. CASE Fault
    <2>1. faults' \in 0 .. MaxFaults
      BY <1>3, ApplyAssumption DEF Fault, ApplyTypeOK
    <2>. QED
      BY <1>3, <2>1 DEF Fault, Abort, ApplyTypeOK
  <1>4. CASE Commit
    BY <1>4 DEF Commit, ApplyTypeOK
  <1>. QED
    BY <1>1, <1>2, <1>3, <1>4

-----------------------------------------------------------------------------
(* The difference and the maps *)

\* An entry diff has no operation for is one entry of both programs.
LEMMA Coincide ==
  ASSUME NEW p \in Program, NEW q \in Program, Apart(p, p), Apart(p, q), Apart(q, q),
         NEW e \in MatchEntry, NEW v,
         Installs(p, e, v),
         \A op \in Diff(p, q) : ~(op \in MatchOp /\ op.entry = e)
  PROVE  Installs(q, e, v)
  <1>1. ASSUME NEW r \in RuleId, Owns(q.rules[r], e)
        PROVE  Owns(p.rules[r], e) /\ p.rules[r].action = q.rules[r].action
    <2>. DEFINE op == [kind |-> "UpsertMatch", id |-> r, entry |-> e]
    <2>1. op \in MatchOp
      BY DEF MatchOp
    <2>2. ~MatchChange(op, p.rules[r], q.rules[r])
      BY <2>1 DEF Diff
    <2>. QED
      BY <1>1, <2>2 DEF MatchChange
  <1>2. ASSUME NEW r \in RuleId, Owns(p.rules[r], e)
        PROVE  Owns(q.rules[r], e)
    <2>. DEFINE op == [kind |-> "RemoveMatch", id |-> r, entry |-> e]
    <2>1. op \in MatchOp
      BY DEF MatchOp
    <2>2. ~MatchChange(op, p.rules[r], q.rules[r])
      BY <2>1 DEF Diff
    <2>. QED
      BY <1>2, <2>2 DEF MatchChange
  <1>. QED
    BY <1>1, <1>2 DEF Installs, RefTo

\* A rule that owns an entry of p is the only one, so p puts its reference there.
LEMMA OwnerInstalls ==
  ASSUME NEW p \in Program, Apart(p, p), NEW e \in MatchEntry, NEW r \in RuleId,
         Owns(p.rules[r], e), NEW v, Installs(p, e, v)
  PROVE  v = RefTo(r, p.rules[r]) /\ v # None
  <1>1. v = RefTo(r, p.rules[r])
    BY DEF Installs, Apart
  <1>2. RefTo(r, p.rules[r]) \in RuleRef
    BY RuleType DEF Owns
  <1>. QED
    BY <1>1, <1>2, ProgramAssumption

-----------------------------------------------------------------------------
(* The inductive invariant *)

\* The invariant holds in an empty kernel.
LEMMA InvInit == ApplyInit => ApplyInv
  <1>. SUFFICES ASSUME ApplyInit
                PROVE  ApplyInv
    OBVIOUS
  <1>1. \A r \in RuleId : applied.rules[r] = None
    BY DEF ApplyInit, EmptyProgram
  <1>3. \A e \in MatchEntry, r \in RuleId : ~Owns(applied.rules[r], e)
    BY <1>1 DEF Owns
  <1>4. AllApart
    BY <1>3 DEF AllApart, Apart, ApplyInit
  <1>5. MatchProgress
    BY <1>3 DEF MatchProgress, Installs, ApplyInit
  <1>6. StateProgress
    BY <1>1 DEF StateProgress, HasState, ApplyInit
  <1>7. kconfig = ConfigOf(applied)
    BY <1>1 DEF ApplyInit, ConfigOf, Uses, EmptyProgram
  <1>8. ConfigProgress
    BY <1>7 DEF ConfigProgress, ApplyInit, Disabling, EmptyProgram
  <1>. QED
    BY TypeInit, <1>4, <1>5, <1>6, <1>8 DEF ApplyInv, Shape, Suffix, ApplyInit

\* Computing the difference establishes the progress of the new apply.
LEMMA InvBegin ==
  ASSUME ApplyInv, NEW p \in Program, Begin(p)
  PROVE  ApplyInv'
  <1>. USE DEF ApplyInv
  <1>1. ApplyTypeOK'
    BY TypeBegin
  <1>2. Shape' /\ Suffix' /\ ConfigProgress'
    BY DEF Begin, Shape, Suffix, ConfigProgress
  <1>3. ASSUME ~tainted'
        PROVE  AllApart' /\ MatchProgress' /\ StateProgress'
    <2>1. ~tainted /\ Apart(applied, p) /\ Apart(p, p) /\ target = applied /\ todo = {}
      BY <1>3 DEF Begin, Shape
    <2>2. AllApart'
      BY <2>1 DEF Begin, AllApart
    <2>3. MatchProgress'
      <3>. SUFFICES ASSUME NEW e \in MatchEntry
                    PROVE  Installs(IF MatchPending(e)' THEN applied ELSE p, e, kmatch[e])
        BY DEF Begin, MatchProgress, Installs
      <3>1. Installs(applied, e, kmatch[e])
        BY <2>1 DEF MatchProgress, MatchPending
      <3>2. CASE ~MatchPending(e)'
        BY <3>1, <3>2, <2>1, Coincide DEF Begin, MatchPending, ApplyTypeOK, AllApart
      <3>. QED
        BY <3>1, <3>2
    <2>4. StateProgress'
      <3>. SUFFICES ASSUME NEW r \in RuleId, NEW d \in Direction
                    PROVE  /\ HasState(applied.rules[r], d)
                                => kstate[r][d] = applied.rules[r].rate
                           /\ ~StatePending(r, d)' /\ HasState(p.rules[r], d)
                                => kstate[r][d] = p.rules[r].rate
                           /\ HasState(applied.rules[r], d) => kstate[r][d] # None
        BY DEF Begin, StateProgress
      <3>1. HasState(applied.rules[r], d) => kstate[r][d] = applied.rules[r].rate
        BY <2>1 DEF StateProgress, StatePending
      <3>2. HasState(applied.rules[r], d) => kstate[r][d] # None
        BY <3>1, RuleType, ProgramAssumption DEF HasState, ApplyTypeOK
      <3>3. ASSUME ~StatePending(r, d)', HasState(p.rules[r], d)
            PROVE  HasState(applied.rules[r], d) /\ applied.rules[r].rate = p.rules[r].rate
        <4>. DEFINE op == [kind |-> "UpsertState", id |-> r, dir |-> d]
        <4>1. op \in StateOp
          BY DEF StateOp
        <4>2. op \notin Diff(applied, p)
          BY <3>3, <4>1 DEF Begin, StatePending
        <4>3. ~StateChange(op, applied.rules[r], p.rules[r])
          BY <4>1, <4>2 DEF Diff
        <4>. QED
          BY <3>3, <4>3 DEF StateChange
      <3>. QED
        BY <3>1, <3>2, <3>3
    <2>. QED
      BY <2>2, <2>3, <2>4
  <1>. QED
    BY <1>1, <1>2, <1>3

\* An operation whose turn it is leaves a suffix of the list.
LEMMA SuffixStep ==
  ASSUME Shape, Suffix, NEW op \in todo, Turn(op)
  PROVE  \A o \in todo \ {op}, q \in Diff(applied, target) :
           Precedes(o, q, target) => q \in todo \ {op}
  BY DEF Shape, Suffix, Turn

\* The rules of the two programs that own entry e are one rule.
LEMMA SameOwner ==
  ASSUME ApplyTypeOK, Shape, AllApart, NEW op \in todo, NEW q \in todo,
         op \in MatchOp, q \in MatchOp, op.entry = q.entry
  PROVE  op = q
  <1>1. applied \in Program /\ target \in Program
    BY DEF ApplyTypeOK
  <1>2. \/ Owns(applied.rules[op.id], op.entry)
        \/ Owns(target.rules[op.id], op.entry)
    BY <1>1, DiffParts DEF Shape, MatchOp
  <1>3. \/ Owns(applied.rules[q.id], q.entry)
        \/ Owns(target.rules[q.id], q.entry)
    BY <1>1, DiffParts DEF Shape, MatchOp
  <1>4. op.id = q.id
    BY <1>2, <1>3 DEF AllApart, Apart, MatchOp
  <1>5. op.kind = q.kind
    BY <1>1, <1>4, DiffParts DEF Shape, MatchOp
  <1>. QED
    BY <1>4, <1>5 DEF MatchOp

\* One list holds one operation for a rule state.
LEMMA SameState ==
  ASSUME ApplyTypeOK, Shape, NEW op \in todo, NEW q \in todo,
         op \in StateOp, q \in StateOp, op.id = q.id, op.dir = q.dir
  PROVE  op = q
  <1>1. applied \in Program /\ target \in Program
    BY DEF ApplyTypeOK
  <1>2. op.kind = q.kind
    BY <1>1, DiffParts DEF Shape, StateOp, HasState
  <1>. QED
    BY <1>2 DEF StateOp

\* An operation is about a rule state or about a match entry.
LEMMA KindsApart == StateOp \cap MatchOp = {}
  BY DEF StateOp, MatchOp

\* A map operation moves its match entry from the old program to the new.
LEMMA MatchStep ==
  ASSUME ApplyTypeOK, Shape, AllApart, MatchProgress, NEW op \in todo, ApplyOp(op)
  PROVE  MatchProgress'
  <1>. SUFFICES ASSUME NEW e \in MatchEntry
                PROVE  Installs(IF MatchPending(e)' THEN applied ELSE target, e, kmatch'[e])
    BY DEF ApplyOp, MatchProgress, Installs
  <1>1. applied \in Program /\ target \in Program /\ op \in Diff(applied, target)
    BY DEF ApplyTypeOK, Shape
  <1>2. op \in PolicyOp
    BY <1>1, DiffParts
  <1>3. CASE op \in MatchOp /\ op.entry = e
    <2>1. ~MatchPending(e)'
      BY <1>3, SameOwner DEF ApplyOp, MatchPending
    <2>2. CASE op.kind = "UpsertMatch"
      <3>1. kmatch'[e] = RefTo(op.id, target.rules[op.id])
        BY <1>3, <2>2 DEF ApplyOp, SetMatch, ApplyTypeOK
      <3>2. Owns(target.rules[op.id], e) /\ op.id \in RuleId
        BY <1>1, <1>2, <1>3, <2>2, DiffParts, OpParts
      <3>. QED
        BY <2>1, <3>1, <3>2 DEF Installs
    <2>3. CASE op.kind = "RemoveMatch"
      <3>1. kmatch'[e] = None
        BY <1>3, <2>3 DEF ApplyOp, SetMatch, ApplyTypeOK
      <3>2. Owns(applied.rules[op.id], e) /\ ~Owns(target.rules[op.id], e) /\ op.id \in RuleId
        BY <1>1, <1>2, <1>3, <2>3, DiffParts, OpParts
      <3>3. \A r \in RuleId : ~Owns(target.rules[r], e)
        BY <3>2 DEF AllApart, Apart
      <3>. QED
        BY <2>1, <3>1, <3>3 DEF Installs
    <2>. QED
      BY <1>3, <2>2, <2>3 DEF MatchOp
  <1>4. CASE ~(op \in MatchOp /\ op.entry = e)
    <2>1. MatchPending(e)' <=> MatchPending(e)
      BY <1>4 DEF ApplyOp, MatchPending
    <2>2. kmatch'[e] = kmatch[e]
      <3>1. CASE op \in MatchOp
        BY <1>4, <3>1 DEF ApplyOp, SetMatch, SetState, ApplyTypeOK
      <3>2. CASE op \in StateOp
        BY <3>2 DEF ApplyOp, SetMatch, SetState, StateOp
      <3>. QED
        BY <1>2, <3>1, <3>2 DEF PolicyOp
    <2>. QED
      BY <2>1, <2>2 DEF MatchProgress
  <1>. QED
    BY <1>3, <1>4

\* A map operation moves its rule state from the old program to the new.
LEMMA StateStep ==
  ASSUME ApplyTypeOK, Shape, StateProgress, NEW op \in todo, ApplyOp(op)
  PROVE  StateProgress'
  <1>. SUFFICES ASSUME NEW r \in RuleId, NEW d \in Direction
                PROVE
                  /\ StatePending(r, d)' /\ HasState(applied.rules[r], d)
                       => kstate'[r][d] = applied.rules[r].rate
                  /\ ~StatePending(r, d)' /\ HasState(target.rules[r], d)
                       => kstate'[r][d] = target.rules[r].rate
                  /\ target.rules[r] # None /\ HasState(applied.rules[r], d)
                       => kstate'[r][d] # None
    BY DEF ApplyOp, StateProgress
  <1>1. applied \in Program /\ target \in Program /\ op \in Diff(applied, target)
    BY DEF ApplyTypeOK, Shape
  <1>2. op \in PolicyOp
    BY <1>1, DiffParts
  <1>3. CASE op \in StateOp /\ op.id = r /\ op.dir = d
    <2>1. ~StatePending(r, d)'
      BY <1>3, SameState DEF ApplyOp, StatePending
    <2>2. CASE op.kind = "UpsertState"
      <3>1. kstate'[r][d] = target.rules[r].rate
        BY <1>3, <2>2 DEF ApplyOp, SetState, ApplyTypeOK
      <3>2. target.rules[r] # None
        BY <1>1, <1>3, <2>2, DiffParts DEF HasState
      <3>3. target.rules[r].rate # None
        BY <1>1, <3>2, RuleType, ProgramAssumption
      <3>. QED
        BY <2>1, <3>1, <3>3
    <2>3. CASE op.kind = "RemoveState"
      BY <1>1, <1>3, <2>1, <2>3, DiffParts DEF HasState
    <2>. QED
      BY <1>3, <2>2, <2>3 DEF StateOp
  <1>4. CASE ~(op \in StateOp /\ op.id = r /\ op.dir = d)
    <2>1. StatePending(r, d)' <=> StatePending(r, d)
      BY <1>4 DEF ApplyOp, StatePending
    <2>2. kstate'[r][d] = kstate[r][d]
      <3>1. CASE op \in StateOp
        <4>1. op.id \in RuleId /\ op.dir \in Direction
          BY <3>1 DEF StateOp
        <4>. QED
          BY <1>4, <3>1, <4>1 DEF ApplyOp, SetMatch, SetState, ApplyTypeOK, StateOp
      <3>2. CASE op \in MatchOp
        BY <3>2 DEF ApplyOp, SetMatch, SetState, MatchOp
      <3>. QED
        BY <1>2, <3>1, <3>2 DEF PolicyOp
    <2>. QED
      BY <2>1, <2>2 DEF StateProgress
  <1>. QED
    BY <1>3, <1>4

\* Each map operation of the list keeps the invariant.
LEMMA InvApplyOp ==
  ASSUME ApplyInv, NEW op \in todo, ApplyOp(op)
  PROVE  ApplyInv'
  <1>. USE DEF ApplyInv
  <1>1. ApplyTypeOK'
    BY TypeApplyOp
  <1>2. Shape'
    BY DEF ApplyOp, Turn, Shape
  <1>3. Suffix'
    BY SuffixStep DEF ApplyOp, Suffix
  <1>4. ConfigProgress'
    <2>1. Disabling(applied, target) => configured
      BY DEF ApplyOp, Turn
    <2>. QED
      BY <2>1 DEF ApplyOp, ConfigProgress
  <1>5. ASSUME ~tainted'
        PROVE  AllApart' /\ MatchProgress' /\ StateProgress'
    <2>1. ~tainted
      BY <1>5 DEF ApplyOp
    <2>2. AllApart'
      BY <2>1 DEF ApplyOp, AllApart
    <2>. QED
      BY <2>1, <2>2, MatchStep, StateStep
  <1>. QED
    BY <1>1, <1>2, <1>3, <1>4, <1>5

\* SetEnabled keeps the invariant, first or last in the list.
LEMMA InvConfig ==
  ASSUME ApplyInv, ApplyConfig
  PROVE  ApplyInv'
  <1>. USE DEF ApplyInv
  <1>1. ApplyTypeOK'
    BY TypeOther
  <1>2. Shape' /\ Suffix'
    BY DEF ApplyConfig, ConfigTurn, Shape, Suffix
  <1>3. ConfigProgress'
    BY DEF ApplyConfig, ConfigTurn, ConfigProgress
  <1>4. ~tainted' => AllApart' /\ MatchProgress' /\ StateProgress'
    BY DEF ApplyConfig, AllApart, MatchProgress, MatchPending, Installs,
           StateProgress, StatePending
  <1>. QED
    BY <1>1, <1>2, <1>3, <1>4

\* A failed operation keeps what the invariant says of a tainted worker.
LEMMA InvAbort ==
  ASSUME ApplyInv, Refuse \/ Fault
  PROVE  ApplyInv'
  <1>. USE DEF ApplyInv
  <1>1. ApplyTypeOK'
    BY TypeOther
  <1>2. Abort
    BY DEF Refuse, Fault
  <1>3. Shape' /\ Suffix'
    BY <1>2 DEF Abort, Shape, Suffix
  <1>4. tainted' = TRUE
    BY <1>2 DEF Abort
  <1>5. ConfigProgress'
    <2>1. ~Disabling(applied, applied)
      BY DEF Disabling
    <2>. QED
      BY <1>2, <1>4, <2>1 DEF Abort, ConfigProgress
  <1>. QED
    BY <1>1, <1>3, <1>4, <1>5

\* When the list is done the new program takes the place of the old.
LEMMA InvCommit ==
  ASSUME ApplyInv, Commit
  PROVE  ApplyInv'
  <1>. USE DEF ApplyInv
  <1>1. ApplyTypeOK'
    BY TypeOther
  <1>2. Shape' /\ Suffix'
    BY DEF Commit, Shape, Suffix
  <1>3. ConfigProgress'
    BY DEF Commit, ConfigProgress, Disabling
  <1>4. ASSUME ~tainted'
        PROVE  AllApart' /\ MatchProgress' /\ StateProgress'
    <2>1. ~tainted
      BY <1>4 DEF Commit
    <2>2. AllApart'
      BY <2>1 DEF Commit, AllApart
    <2>3. MatchProgress'
      BY <2>1 DEF Commit, MatchProgress, MatchPending, Installs
    <2>4. StateProgress'
      <3>. SUFFICES ASSUME NEW r \in RuleId, NEW d \in Direction
                    PROVE  HasState(target.rules[r], d)
                             => /\ kstate[r][d] = target.rules[r].rate
                                /\ kstate[r][d] # None
        BY DEF Commit, StateProgress, StatePending
      <3>1. HasState(target.rules[r], d) => kstate[r][d] = target.rules[r].rate
        BY <2>1 DEF Commit, StateProgress, StatePending
      <3>. QED
        BY <3>1, RuleType, ProgramAssumption DEF HasState, ApplyTypeOK
    <2>. QED
      BY <2>2, <2>3, <2>4
  <1>. QED
    BY <1>1, <1>2, <1>3, <1>4

\* Whatever leaves the maps and the worker alone keeps the invariant.
LEMMA InvStutter ==
  ASSUME ApplyInv, UNCHANGED applyVars
  PROVE  ApplyInv'
  BY DEF ApplyInv, applyVars, ApplyTypeOK, Shape, Suffix, ConfigProgress, AllApart,
         MatchProgress, MatchPending, StateProgress, StatePending

\* Every step of an apply keeps the invariant.
LEMMA InvApplyStep ==
  ASSUME ApplyInv, ApplyStep
  PROVE  ApplyInv'
  BY InvApplyOp, InvConfig, InvAbort, InvCommit DEF ApplyStep

\* The invariant is inductive.
THEOREM ApplyInvariant == ApplySpec => []ApplyInv
  <1>1. ApplyInv /\ [ApplyNext]_applyVars => ApplyInv'
    <2>. SUFFICES ASSUME ApplyInv, [ApplyNext]_applyVars
                  PROVE  ApplyInv'
      OBVIOUS
    <2>1. CASE ApplyStep
      BY <2>1, InvApplyStep
    <2>2. CASE \E p \in Programs : Begin(p)
      BY <2>2, InvBegin, ApplyAssumption
    <2>3. CASE UNCHANGED applyVars
      BY <2>3, InvStutter
    <2>. QED
      BY <2>1, <2>2, <2>3 DEF ApplyNext
  <1>. QED
    BY InvInit, <1>1, PTL DEF ApplySpec

-----------------------------------------------------------------------------
(* What the invariant gives *)

\* The invariant gives the content of the maps between two applies.
LEMMA ExactFromInv == ApplyInv => ApplyExact
  BY DEF ApplyInv, ApplyExact, Shape, ConfigProgress, MatchProgress, MatchPending,
         StateProgress, StatePending

\* The invariant gives the content of the maps within an apply.
LEMMA OldOrNewFromInv == ApplyInv => OldOrNew
  BY DEF ApplyInv, OldOrNew, MatchProgress

\* The invariant gives the place of SetEnabled in the list.
LEMMA SwitchFromInv == ApplyInv => SwitchGuards
  <1>. SUFFICES ASSUME ApplyInv, worker = "applying"
                PROVE
                  /\ Disabling(applied, target) /\ todo # Diff(applied, target)
                       => ~kconfig.enabled
                  /\ ~tainted /\ ~applied.enabled /\ kconfig.enabled => todo = {}
    BY DEF SwitchGuards
  <1>1. ConfigOf(applied).enabled = applied.enabled
    BY DEF ConfigOf
  <1>2. ConfigOf(target).enabled = target.enabled
    BY DEF ConfigOf
  <1>. QED
    BY <1>1, <1>2 DEF ApplyInv, ConfigProgress, Disabling

\* The invariant gives the key of a removal its entry.
LEMMA RemovalsFromInv == ApplyInv => RemovalsFindTheirKey
  <1>. SUFFICES ASSUME ApplyInv, ~tainted, NEW op \in todo
                PROVE  /\ op.kind = "RemoveMatch" => kmatch[op.entry] # None
                       /\ op.kind = "RemoveState" => kstate[op.id][op.dir] # None
    BY DEF RemovalsFindTheirKey
  <1>1. /\ applied \in Program /\ target \in Program /\ op \in Diff(applied, target)
        /\ MatchProgress /\ StateProgress /\ AllApart
    BY DEF ApplyInv, ApplyTypeOK, Shape
  <1>2. op \in PolicyOp
    BY <1>1, DiffParts
  <1>3. CASE op.kind = "RemoveMatch"
    <2>1. op \in MatchOp /\ op.id \in RuleId /\ op.entry \in MatchEntry
      BY <1>2, <1>3, OpParts
    <2>2. Installs(applied, op.entry, kmatch[op.entry])
      BY <1>1, <2>1 DEF MatchProgress, MatchPending
    <2>3. Owns(applied.rules[op.id], op.entry)
      BY <1>1, <1>3, DiffParts
    <2>. QED
      BY <1>1, <1>3, <2>1, <2>2, <2>3, OwnerInstalls DEF AllApart
  <1>4. CASE op.kind = "RemoveState"
    <2>1. op \in StateOp /\ op.id \in RuleId /\ op.dir \in Direction
      BY <1>2, <1>4, OpParts
    <2>2. HasState(applied.rules[op.id], op.dir)
      BY <1>1, <1>4, DiffParts
    <2>3. kstate[op.id][op.dir] = applied.rules[op.id].rate
      BY <1>1, <2>1, <2>2 DEF StateProgress, StatePending
    <2>. QED
      BY <1>1, <1>4, <2>1, <2>2, <2>3, RuleType, ProgramAssumption DEF HasState
  <1>. QED
    BY <1>3, <1>4

\* The order of the list is what gives an entry its state: an addition has its
\* state before its entry, a removal loses its entries before its state.
LEMMA MatchHasStateFromInv == ApplyInv => MatchHasState
  <1>. SUFFICES ASSUME ApplyInv, ~tainted, NEW e \in MatchEntry, kmatch[e] # None
                PROVE  kstate[kmatch[e].id][e.dir] # None
    BY DEF MatchHasState
  <1>. USE DEF ApplyInv
  <1>1. applied \in Program /\ target \in Program /\ e.dir \in Direction
    BY DEF ApplyTypeOK, MatchEntry
  <1>2. ASSUME NEW r \in RuleId, HasState(applied.rules[r], e.dir), target.rules[r] # None
        PROVE  kstate[r][e.dir] # None
    BY <1>1, <1>2 DEF StateProgress
  <1>3. ASSUME NEW r \in RuleId, HasState(applied.rules[r], e.dir), StatePending(r, e.dir)
        PROVE  kstate[r][e.dir] # None
    BY <1>1, <1>3, RuleType, ProgramAssumption DEF StateProgress, HasState
  <1>4. CASE MatchPending(e)
    <2>1. PICK op \in todo : op \in MatchOp /\ op.entry = e
      BY <1>4 DEF MatchPending
    <2>2. Installs(applied, e, kmatch[e])
      BY <1>4 DEF MatchProgress
    <2>3. PICK r \in RuleId : Owns(applied.rules[r], e) /\ kmatch[e] = RefTo(r, applied.rules[r])
      BY <2>2 DEF Installs
    <2>4. kmatch[e].id = r /\ HasState(applied.rules[r], e.dir)
      BY <2>3 DEF RefTo, Owns, HasState
    <2>5. CASE target.rules[r] # None
      BY <1>2, <2>4, <2>5
    <2>6. CASE target.rules[r] = None
      <3>. DEFINE last == [kind |-> "RemoveState", id |-> r, dir |-> e.dir]
      <3>1. last \in StateOp
        BY <1>1 DEF StateOp
      <3>2. last \in Diff(applied, target)
        BY <2>4, <2>6, <3>1 DEF Diff, StateChange
      <3>3. op \in Diff(applied, target) /\ op.id \in RuleId
        BY <2>1 DEF Shape, MatchOp
      <3>4. op.id = r
        BY <1>1, <2>1, <2>3, <3>3, DiffParts DEF AllApart, Apart, MatchOp
      <3>5. op.kind = "RemoveMatch"
        BY <1>1, <2>1, <2>6, <3>3, <3>4, DiffParts DEF MatchOp, Owns
      <3>6. Precedes(op, last, target)
        BY <3>4, <3>5 DEF Precedes, Stage
      <3>7. last \in todo
        BY <3>2, <3>6 DEF Suffix
      <3>8. StatePending(r, e.dir)
        BY <3>1, <3>7 DEF StatePending
      <3>. QED
        BY <1>3, <2>4, <3>8
    <2>. QED
      BY <2>5, <2>6
  <1>5. CASE ~MatchPending(e)
    <2>1. Installs(target, e, kmatch[e])
      BY <1>5 DEF MatchProgress
    <2>2. PICK r \in RuleId : Owns(target.rules[r], e) /\ kmatch[e] = RefTo(r, target.rules[r])
      BY <2>1 DEF Installs
    <2>3. kmatch[e].id = r /\ HasState(target.rules[r], e.dir)
      BY <2>2 DEF RefTo, Owns, HasState
    <2>4. CASE StatePending(r, e.dir)
      <3>1. PICK op \in todo : op \in StateOp /\ op.id = r /\ op.dir = e.dir
        BY <2>4 DEF StatePending
      <3>2. op \in Diff(applied, target)
        BY DEF Shape
      <3>3. op.kind = "UpsertState"
        BY <1>1, <2>3, <3>1, <3>2, DiffParts DEF StateOp, HasState
      <3>. DEFINE up == [kind |-> "UpsertMatch", id |-> r, entry |-> e]
      <3>4. up \in MatchOp
        BY DEF MatchOp
      <3>5. Precedes(op, up, target)
        BY <3>1, <3>3 DEF Precedes, Stage
      <3>6. up \notin Diff(applied, target)
        BY <1>5, <3>4, <3>5 DEF Suffix, MatchPending
      <3>7. Owns(applied.rules[r], e)
        BY <2>2, <3>4, <3>6 DEF Diff, MatchChange
      <3>8. HasState(applied.rules[r], e.dir)
        BY <3>7 DEF Owns, HasState
      <3>. QED
        BY <1>3, <2>3, <2>4, <3>8
    <2>5. CASE ~StatePending(r, e.dir)
      <3>1. kstate[r][e.dir] = target.rules[r].rate
        BY <1>1, <2>3, <2>5 DEF StateProgress
      <3>. QED
        BY <1>1, <2>3, <3>1, RuleType, ProgramAssumption DEF HasState
    <2>. QED
      BY <2>4, <2>5
  <1>. QED
    BY <1>4, <1>5
-----------------------------------------------------------------------------
(* The theorems *)

\* The worker, the maps and the bookkeeping of an apply keep their types.
THEOREM ApplyTypes == ApplySpec => []ApplyTypeOK
  <1>1. ApplyInv => ApplyTypeOK
    BY DEF ApplyInv
  <1>. QED
    BY ApplyInvariant, <1>1, PTL

\* Between two applies the maps hold exactly the program the worker believes
\* they hold (CollectorCore::apply_policy never reads them back).
THEOREM MapsAreExact == ApplySpec => []ApplyExact
  BY ApplyInvariant, ExactFromInv, PTL

\* No packet meets a rule reference of neither program while diff's list is
\* carried out.
THEOREM NoForeignRule == ApplySpec => []OldOrNew
  BY ApplyInvariant, OldOrNewFromInv, PTL

\* The order of diff never shows the packet path a reference without its state.
THEOREM NoMissingState == ApplySpec => []MatchHasState
  BY ApplyInvariant, MatchHasStateFromInv, PTL

\* No removal of diff's list ends an apply by missing its key.
THEOREM RemovalsSucceed == ApplySpec => []RemovalsFindTheirKey
  BY ApplyInvariant, RemovalsFromInv, PTL

\* Disabling comes first and enabling last, as diff places SetEnabled.
THEOREM SwitchInOrder == ApplySpec => []SwitchGuards
  BY ApplyInvariant, SwitchFromInv, PTL

-----------------------------------------------------------------------------
(* The handlers and the worker they drive *)

\* The worker's invariant, lifted to the whole control path.
ControlInv == ControlTypeOK /\ ApplyInv

\* The maps of a fresh process satisfy the worker's invariant.
LEMMA InvReset == ApplyReset => ApplyInv'
  <1>1. ApplyReset => ApplyInit'
    BY DEF ApplyReset, ApplyInit
  <1>. QED
    BY <1>1, InvInit, PTL

\* compile yields a program.
LEMMA CompiledType ==
  ASSUME ControlTypeOK
  PROVE  Compiled \in Program /\ Unresolved \subseteq RuleId
  <1>1. ASSUME NEW r \in RuleId, Resolved(r)
        PROVE  CompileRule(rules[r]) \in CompiledRule
    <2>1. rules[r] \in Rule
      BY <1>1 DEF Resolved, ControlTypeOK
    <2>2. evidence[rules[r].sel] \subseteq Target
      BY <2>1 DEF ControlTypeOK, Rule
    <2>. QED
      BY <2>1, <2>2 DEF CompileRule, CompiledRule, Rule
  <1>2. [r \in RuleId |-> IF Resolved(r) THEN CompileRule(rules[r]) ELSE None]
          \in [RuleId -> CompiledRule \cup {None}]
    BY <1>1
  <1>. QED
    BY <1>2 DEF Compiled, Program, Unresolved, ControlTypeOK

-----------------------------------------------------------------------------
(* Types *)

\* The daemon starts with values of the declared types.
LEMMA ControlTypeInit == Init => ControlTypeOK
  <1>. SUFFICES ASSUME Init
                PROVE  ControlTypeOK
    OBVIOUS
  <1>1. ApplyTypeOK /\ worker = "idle"
    BY TypeInit DEF Init, ApplyInit
  <1>2. rules \in [RuleId -> Rule \cup {None}]
    BY ControlAssumption DEF Init
  <1>3. \A c \in Client : HeldOK(c)
    BY DEF Init, HeldOK
  <1>4. queue \in Seq(Command)
    BY DEF Init
  <1>. QED
    BY <1>1, <1>2, <1>3, <1>4 DEF Init, ControlTypeOK

\* A request that starts, and the write of an update, keep the types.
LEMMA ControlTypeStore ==
  ASSUME ControlTypeOK, NEW c \in Client,
         \/ Request(c)
         \/ WriteUpdate(c)
  PROVE  ControlTypeOK'
  <1>. USE DEF Start, Goto
  <1>1. ApplyTypeOK' <=> ApplyTypeOK
    BY DEF Request, WriteUpdate, Create, Delete, ReadForUpdate, SetMaster, applyVars, ApplyTypeOK
  <1>2. CASE \E draft \in Draft : Create(c, draft)
    <2>1. rules' \in [RuleId -> Rule \cup {None}]
      BY <1>2, ControlAssumption DEF Create, ControlTypeOK
    <2>2. \A d \in Client : HeldOK(d)'
      BY <1>2 DEF Create, ControlTypeOK, HeldOK
    <2>. QED
      BY <1>1, <1>2, <2>1, <2>2 DEF Create, ControlTypeOK, applyVars, history
  <1>3. CASE \E r \in RuleId : Delete(c, r)
    <2>2. \A d \in Client : HeldOK(d)'
      BY <1>3 DEF Delete, ControlTypeOK, HeldOK
    <2>. QED
      BY <1>1, <1>3, <2>2 DEF Delete, ControlTypeOK, applyVars, history
  <1>4. CASE \E r \in RuleId, patch \in Patch : ReadForUpdate(c, r, patch)
    <2>1. PICK r \in RuleId, patch \in Patch : ReadForUpdate(c, r, patch)
      BY <1>4
    <2>2. Merge(rules[r], patch) \in Rule
      BY <2>1, ControlAssumption DEF ReadForUpdate, ControlTypeOK
    <2>3. [id |-> r, draft |-> Merge(rules[r], patch)] \in [id : RuleId, draft : Rule]
      BY <2>2
    <2>4. \A d \in Client : HeldOK(d)'
      BY <2>1, <2>3 DEF ReadForUpdate, ControlTypeOK, HeldOK
    <2>. QED
      BY <1>1, <2>1, <2>3, <2>4 DEF ReadForUpdate, ControlTypeOK, applyVars, storeVars, history
  <1>5. CASE \E on \in BOOLEAN : SetMaster(c, on)
    <2>2. \A d \in Client : HeldOK(d)'
      BY <1>5 DEF SetMaster, ControlTypeOK, HeldOK
    <2>. QED
      BY <1>1, <1>5, <2>2 DEF SetMaster, ControlTypeOK, applyVars, history
  <1>6. CASE WriteUpdate(c)
    <2>1. held[c] \in [id : RuleId, draft : Rule]
      BY <1>6 DEF WriteUpdate, ControlTypeOK, HeldOK
    <2>2. rules' \in [RuleId -> Rule \cup {None}] /\ revision' \in Nat
      BY <1>6, <2>1 DEF WriteUpdate, ControlTypeOK
    <2>3. pc' \in [Client -> {"start", "refresh", "idle", "drafted", "compile", "send", "await", "reply"}]
      BY <1>6 DEF WriteUpdate, ControlTypeOK
    <2>4. \A d \in Client : HeldOK(d)'
      BY <1>6 DEF WriteUpdate, ControlTypeOK, HeldOK
    <2>. QED
      BY <1>1, <1>6, <2>2, <2>3, <2>4 DEF WriteUpdate, ControlTypeOK, applyVars, history, counters
  <1>. QED
    BY <1>2, <1>3, <1>4, <1>5, <1>6 DEF Request
\* The steps of a handler outside the table keep the types.
LEMMA ControlTypeHandler ==
  ASSUME ControlTypeOK, NEW c \in Client,
         Attach \/ Drain \/ Compile(c) \/ Send(c) \/ Record(c)
  PROVE  ControlTypeOK'
  <1>. USE DEF Goto, End
  <1>1. ApplyTypeOK'
    BY DEF Attach, Drain, Compile, Send, Record, applyVars, ApplyTypeOK, ControlTypeOK
  <1>2. CASE Attach
    <2>1. \A d \in Client : HeldOK(d)'
      BY <1>2 DEF Attach, ControlTypeOK, HeldOK
    <2>. QED
      BY <1>1, <1>2, <2>1 DEF Attach, ControlTypeOK, applyVars, storeVars, history, counters
  <1>6. CASE Drain
    <2>1. \A d \in Client : HeldOK(d)'
      BY <1>6 DEF Drain, ControlTypeOK, HeldOK
    <2>. QED
      BY <1>1, <1>6, <2>1 DEF Drain, ControlTypeOK, applyVars, storeVars, history, counters
  <1>3. CASE Compile(c)
    <2>1. [client |-> c, program |-> Compiled, unresolved |-> Unresolved, stamp |-> stamp']
            \in Command
      BY <1>3, CompiledType DEF Compile, ControlTypeOK, Command
    <2>2. held[c] = None
      BY <1>3 DEF Compile, ControlTypeOK, HeldOK
    <2>3. \A d \in Client : HeldOK(d)'
      BY <1>3, <2>1, <2>2 DEF Compile, ControlTypeOK, HeldOK
    <2>4. view' \in [revision : Nat, unresolved : SUBSET RuleId, error : BOOLEAN]
      <3>1. view \in [revision : Nat, unresolved : SUBSET RuleId, error : BOOLEAN]
        BY DEF ControlTypeOK
      <3>2. [view EXCEPT !.error = TRUE]
              \in [revision : Nat, unresolved : SUBSET RuleId, error : BOOLEAN]
        BY <3>1
      <3>3. view' = view \/ view' = [view EXCEPT !.error = TRUE]
        BY <1>3 DEF Compile
      <3>. QED
        BY <3>1, <3>2, <3>3
    <2>5. /\ held' \in [Client -> {None} \cup [id : RuleId, draft : Rule] \cup Command \cup Answer]
          /\ pc' \in [Client -> {"start", "refresh", "idle", "drafted", "compile", "send", "await", "reply"}]
      BY <1>3, <2>1 DEF Compile, ControlTypeOK
    <2>6. stamp' \in Nat
      BY <1>3 DEF Compile, ControlTypeOK
    <2>. QED
      BY <1>1, <1>3, <2>3, <2>4, <2>5, <2>6 DEF Compile, ControlTypeOK, applyVars, storeVars, counters
  <1>4. CASE Send(c)
    <2>1. queue' \in Seq(Command)
      <3>1. held[c] \in Command
        BY <1>4 DEF Send, ControlTypeOK, HeldOK
      <3>. QED
        BY <1>4, <3>1 DEF Send, ControlTypeOK
    <2>2. \A d \in Client : HeldOK(d)'
      BY <1>4 DEF Send, ControlTypeOK, HeldOK
    <2>. QED
      BY <1>1, <1>4, <2>1, <2>2 DEF Send, ControlTypeOK, applyVars, storeVars, history, counters
  <1>5. CASE Record(c)
    <2>1. held[c] \in Answer
      BY <1>5 DEF Record, ControlTypeOK, HeldOK
    <2>2. /\ view' \in [revision : Nat, unresolved : SUBSET RuleId, error : BOOLEAN]
          /\ shown' \in Nat
      BY <1>5, <2>1 DEF Record, ControlTypeOK, Answer, Program
    <2>3. \A d \in Client : HeldOK(d)'
      BY <1>5 DEF Record, ControlTypeOK, HeldOK
    <2>. QED
      BY <1>1, <1>5, <2>2, <2>3 DEF Record, ControlTypeOK, applyVars, storeVars, counters
  <1>. QED
    BY <1>2, <1>3, <1>4, <1>5, <1>6

\* A closed connection, and a container that changes, keep the types.
LEMMA ControlTypeOutside ==
  ASSUME ControlTypeOK,
         \/ \E c \in Client : HangUp(c)
         \/ \E s \in Selector : EvidenceChange(s)
  PROVE  ControlTypeOK'
  <1>. USE DEF Goto, End
  <1>1. ApplyTypeOK'
    BY DEF HangUp, EvidenceChange, applyVars, ApplyTypeOK, ControlTypeOK
  <1>2. ASSUME NEW c \in Client, HangUp(c)
        PROVE  ControlTypeOK'
    <2>1. ASSUME NEW cmd \in Command
          PROVE  Orphaned(cmd, c) \in Command /\ Orphaned(cmd, c) # None
      BY <2>1, ControlAssumption DEF Orphaned, Command
    <2>2. queue' \in Seq(Command)
      <3>1. Len(queue) \in Nat /\ queue \in [1..Len(queue) -> Command]
        BY DEF ControlTypeOK
      <3>2. queue' = [i \in 1..Len(queue) |-> Orphaned(queue[i], c)]
        BY <1>2, <3>1 DEF HangUp
      <3>3. \A i \in 1..Len(queue) : Orphaned(queue[i], c) \in Command
        BY <2>1, <3>1
      <3>4. queue' \in [1..Len(queue) -> Command]
        BY <3>2, <3>3
      <3>. QED
        BY <3>1, <3>4
    <2>3. serving' \in Command \cup {None} /\ (serving' = None <=> serving = None)
      BY <1>2, <2>1 DEF HangUp, ControlTypeOK
    <2>4. \A d \in Client : HeldOK(d)'
      BY <1>2 DEF HangUp, ControlTypeOK, HeldOK
    <2>5. hangups' \in Nat
      BY <1>2 DEF HangUp, ControlTypeOK
    <2>6. worker' = worker
      BY <1>2 DEF HangUp, applyVars
    <2>. QED
      BY <1>1, <1>2, <2>2, <2>3, <2>4, <2>5, <2>6 DEF HangUp, ControlTypeOK, storeVars, history
  <1>3. ASSUME NEW s \in Selector, EvidenceChange(s)
        PROVE  ControlTypeOK'
    <2>1. evidence' \in [Selector -> SUBSET Target]
      <3>1. PICK targets \in Evidence[s] : evidence' = [evidence EXCEPT ![s] = targets]
        BY <1>3 DEF EvidenceChange
      <3>2. targets \in SUBSET Target
        BY <3>1, ControlAssumption
      <3>. QED
        BY <3>1, <3>2 DEF ControlTypeOK
    <2>2. \A d \in Client : HeldOK(d)'
      BY <1>3 DEF EvidenceChange, ControlTypeOK, HeldOK
    <2>. QED
      BY <1>1, <1>3, <2>1, <2>2 DEF EvidenceChange, ControlTypeOK, applyVars, storeVars, history
  <1>. QED
    BY <1>2, <1>3
\* Taking a command, and each operation of its list, keep the types.
LEMMA ControlTypeTake ==
  ASSUME ControlInv, Take \/ MapStep
  PROVE  ControlTypeOK'
  <1>. USE DEF ControlInv
  <1>1. CASE Take
    <2>1. /\ Head(queue) \in Command /\ Tail(queue) \in Seq(Command)
          /\ Head(queue) # None
      BY <1>1, ControlAssumption DEF Take, ControlTypeOK
    <2>2. ApplyTypeOK'
      BY <1>1, <2>1, TypeBegin DEF Take, Command, ControlTypeOK
    <2>3. \A d \in Client : HeldOK(d)'
      BY <1>1 DEF Take, ControlTypeOK, HeldOK
    <2>4. worker' = "applying"
      BY <1>1 DEF Take, Begin
    <2>. QED
      BY <1>1, <2>1, <2>2, <2>3, <2>4 DEF Take, ControlTypeOK, storeVars, history, counters
  <1>2. CASE MapStep
    <2>1. ApplyTypeOK'
      BY <1>2, TypeApplyOp, TypeOther DEF MapStep, ControlTypeOK, ApplyInv
    <2>2. worker' = worker
      BY <1>2 DEF MapStep, ApplyOp, ApplyConfig
    <2>3. \A d \in Client : HeldOK(d)'
      BY <1>2 DEF MapStep, ControlTypeOK, HeldOK
    <2>. QED
      BY <1>2, <2>1, <2>2, <2>3 DEF MapStep, ControlTypeOK, storeVars, history, counters
  <1>. QED
    BY <1>1, <1>2

\* The reply of the worker keeps the types.
LEMMA ControlTypeReply ==
  ASSUME ControlInv, Reply
  PROVE  ControlTypeOK'
  <1>. USE DEF ControlInv
  <1>1. ApplyTypeOK'
    BY TypeOther DEF Reply, ControlTypeOK
  <1>2. worker = "applying" /\ worker' = "idle" /\ outcome' \in {"ok", "failed"}
    BY DEF Reply, Commit, Refuse, Fault, Abort, Turn, ConfigTurn
  <1>3. serving \in Command
    BY <1>2 DEF ControlTypeOK
  <1>4. installed' \in Nat
    BY <1>3 DEF Reply, ControlTypeOK, Command
  <1>5. CASE serving.client = None
    <2>1. \A d \in Client : HeldOK(d)'
      BY <1>5 DEF Reply, ControlTypeOK, HeldOK
    <2>. QED
      BY <1>1, <1>2, <1>4, <1>5, <2>1 DEF Reply, ControlTypeOK, storeVars, counters
  <1>6. CASE serving.client # None
    <2>. DEFINE answer == [serving EXCEPT !.client = outcome']
    <2>1. answer \in Answer
      BY <1>2, <1>3 DEF Command, Answer
    <2>2. held' = [held EXCEPT ![serving.client] = answer]
      BY <1>6 DEF Reply
    <2>3. pc' = [pc EXCEPT ![serving.client] = "reply"]
      BY <1>6 DEF Reply, Goto
    <2>. HIDE DEF answer
    <2>4. \A d \in Client : HeldOK(d)'
      BY <2>1, <2>2, <2>3 DEF ControlTypeOK, HeldOK
    <2>. QED
      BY <1>1, <1>2, <1>4, <2>1, <2>2, <2>3, <2>4 DEF Reply, ControlTypeOK, storeVars, counters
  <1>. QED
    BY <1>5, <1>6

\* A restarted daemon has values of the declared types.
LEMMA ControlTypeCrash ==
  ASSUME ControlTypeOK, Crash
  PROVE  ControlTypeOK'
  <1>1. ApplyTypeOK'
    BY InvReset DEF Crash, ApplyInv
  <1>2. worker' = "idle" /\ serving' = None
    BY DEF Crash, ApplyReset, Boot
  <1>3. \A d \in Client : HeldOK(d)'
    BY DEF Crash, Boot, HeldOK
  <1>4. queue' \in Seq(Command)
    BY DEF Crash, Boot
  <1>5. crashes' \in Nat
    BY DEF Crash, ControlTypeOK
  <1>. QED
    BY <1>1, <1>2, <1>3, <1>4, <1>5 DEF Crash, Boot, ControlTypeOK

-----------------------------------------------------------------------------
(* The worker's invariant on the control path *)

\* The control path drives the worker by its own steps, leaves it alone, or
\* starts it anew.
LEMMA WorkerStep ==
  ASSUME ControlInv, [Next]_vars
  PROVE  ApplyInv'
  <1>. USE DEF ControlInv
  <1>1. CASE Take
    <2>1. Head(queue).program \in Program
      <3>1. Head(queue) \in Command
        BY <1>1 DEF Take, ControlTypeOK
      <3>. QED
        BY <3>1 DEF Command
    <2>. QED
      BY <1>1, <2>1, InvBegin DEF Take
  <1>2. CASE MapStep \/ Reply
    <2>1. ApplyStep
      BY <1>2 DEF MapStep, Reply, ApplyStep
    <2>. QED
      BY <2>1, InvApplyStep
  <1>3. CASE Crash
    BY <1>3, InvReset DEF Crash
  <1>4. CASE UNCHANGED applyVars
    BY <1>4, InvStutter
  <1>5. ASSUME NEW c \in Client, Request(c) \/ Handler(c) \/ HangUp(c)
        PROVE  UNCHANGED applyVars
    BY <1>5 DEF Request, Handler, Create, Delete, ReadForUpdate, SetMaster, WriteUpdate,
                Compile, Send, Record, HangUp
  <1>6. CASE Attach \/ Drain \/ \E s \in Selector : EvidenceChange(s)
    BY <1>4, <1>6 DEF Attach, Drain, EvidenceChange
  <1>7. CASE UNCHANGED vars
    BY <1>4, <1>7 DEF vars
  <1>8. CASE Next
    BY <1>1, <1>2, <1>3, <1>4, <1>5, <1>6, <1>8 DEF Next, Worker
  <1>. QED
    BY <1>7, <1>8

\* Every step of the control path keeps the types.
LEMMA ControlTypeStep ==
  ASSUME ControlInv, [Next]_vars
  PROVE  ControlTypeOK'
  <1>. USE DEF ControlInv
  <1>1. CASE UNCHANGED vars
    BY <1>1 DEF vars, applyVars, storeVars, history, counters, ControlTypeOK, ApplyTypeOK, HeldOK
  <1>2. ASSUME NEW c \in Client, Request(c) \/ WriteUpdate(c)
        PROVE  ControlTypeOK'
    BY <1>2, ControlTypeStore
  <1>3. ASSUME NEW c \in Client, Compile(c) \/ Send(c) \/ Record(c)
        PROVE  ControlTypeOK'
    BY <1>3, ControlTypeHandler
  <1>4. CASE Attach \/ Drain
    BY <1>4, ControlAssumption, ControlTypeHandler
  <1>5. CASE (\E c \in Client : HangUp(c)) \/ \E s \in Selector : EvidenceChange(s)
    BY <1>5, ControlTypeOutside
  <1>6. CASE Worker \/ Crash
    BY <1>6, ControlTypeTake, ControlTypeReply, ControlTypeCrash DEF Worker
  <1>7. CASE Next
    BY <1>2, <1>3, <1>4, <1>5, <1>6, <1>7 DEF Next, Handler
  <1>. QED
    BY <1>1, <1>7

-----------------------------------------------------------------------------
(* Who waits for an answer *)

\* A command names the handler that waits for it, and no two name the same.
Addressed ==
  /\ \A c \in Client : pc[c] = "send" => held[c].client = c
  /\ \A i \in DOMAIN queue : queue[i].client # None => pc[queue[i].client] = "await"
  /\ \A i, j \in DOMAIN queue : queue[i].client = queue[j].client /\ queue[i].client # None => i = j
  /\ serving # None /\ serving.client # None =>
       /\ pc[serving.client] = "await"
       /\ \A i \in DOMAIN queue : queue[i].client # serving.client

\* What is in the channel and with the worker are commands.
LEMMA CommandsSent ==
  ASSUME ControlTypeOK
  PROVE  /\ \A i \in DOMAIN queue : queue[i] \in Command /\ queue[i].client \in Client \cup {None}
         /\ serving # None => serving.client \in Client \cup {None}
  <1>1. Len(queue) \in Nat /\ queue \in [1..Len(queue) -> Command]
    BY DEF ControlTypeOK
  <1>2. \A i \in DOMAIN queue : queue[i] \in Command
    BY <1>1
  <1>. QED
    BY <1>2 DEF ControlTypeOK, Command

\* A handler that waits for nothing does not change who waits.
LEMMA AddressedElsewhere ==
  ASSUME ControlTypeOK, Addressed, NEW c \in Client, pc[c] # "await",
         UNCHANGED <<queue, serving>>,
         \A d \in Client \ {c} : pc'[d] = pc[d] /\ held'[d] = held[d],
         pc'[c] = "send" => held'[c].client = c
  PROVE  Addressed'
  <1>1. \A d \in Client : pc[d] = "await" => pc'[d] = "await"
    OBVIOUS
  <1>. QED
    BY <1>1, CommandsSent DEF Addressed

\* A handler waits from the moment its command is sent until the worker answers
\* or its connection closes.
LEMMA AddressedStep ==
  ASSUME ControlTypeOK, Addressed, [Next]_vars
  PROVE  Addressed'
  <1>. USE DEF Goto, End
  <1>1. ASSUME NEW c \in Client, Request(c) \/ WriteUpdate(c) \/ Record(c)
        PROVE  Addressed'
    <2>1. /\ UNCHANGED <<queue, serving>> /\ pc[c] # "await" /\ pc'[c] # "send"
          /\ \A d \in Client \ {c} : pc'[d] = pc[d] /\ held'[d] = held[d]
      BY <1>1 DEF Request, Create, Delete, ReadForUpdate, SetMaster, WriteUpdate, Record, Start, ControlTypeOK
    <2>. QED
      BY <2>1, AddressedElsewhere
  <1>2. ASSUME NEW c \in Client, Compile(c)
        PROVE  Addressed'
    <2>1. /\ UNCHANGED <<queue, serving>> /\ pc[c] # "await"
          /\ \A d \in Client \ {c} : pc'[d] = pc[d] /\ held'[d] = held[d]
          /\ pc'[c] = "send" => held'[c].client = c
      BY <1>2 DEF Compile, ControlTypeOK
    <2>. QED
      BY <2>1, AddressedElsewhere
  <1>3. CASE Attach \/ Drain
    <2>1. /\ UNCHANGED <<queue, serving>> /\ pc[Main] # "await" /\ pc'[Main] # "send"
          /\ \A d \in Client \ {Main} : pc'[d] = pc[d] /\ held'[d] = held[d]
      BY <1>3, ControlAssumption DEF Attach, Drain, ControlTypeOK
    <2>. QED
      BY <2>1, AddressedElsewhere, ControlAssumption
  <1>4. ASSUME NEW c \in Client, Send(c)
        PROVE  Addressed'
    <2>1. /\ pc[c] = "send" /\ queue' = Append(queue, held[c])
          /\ held' = [held EXCEPT ![c] = None] /\ pc' = [pc EXCEPT ![c] = "await"]
          /\ UNCHANGED serving
      BY <1>4 DEF Send
    <2>2. held[c] \in Command /\ held[c].client = c /\ c # None
      BY <2>1, ControlAssumption DEF Addressed, ControlTypeOK, HeldOK
    <2>3. /\ \A d \in Client \ {c} : pc'[d] = pc[d] /\ held'[d] = held[d]
          /\ pc'[c] = "await"
      BY <2>1 DEF ControlTypeOK
    <2>4. \A i \in DOMAIN queue' :
            \/ i \in DOMAIN queue /\ queue'[i] = queue[i]
            \/ i = Len(queue) + 1 /\ queue'[i] = held[c]
      BY <2>1, <2>2 DEF ControlTypeOK
    <2>5. /\ \A i \in DOMAIN queue : queue[i].client \in Client \cup {None}
          /\ serving # None => serving.client \in Client \cup {None}
      BY CommandsSent
    <2>6. /\ \A i \in DOMAIN queue : queue[i].client # c
          /\ serving # None => serving.client # c
      BY <2>1, <2>2 DEF Addressed
    <2>7. \A d \in Client : pc'[d] = "send" => held'[d].client = d
      BY <2>3 DEF Addressed
    <2>8. \A i \in DOMAIN queue' : queue'[i].client # None => pc'[queue'[i].client] = "await"
      BY <2>2, <2>3, <2>4, <2>5 DEF Addressed
    <2>9. \A i, j \in DOMAIN queue' :
            queue'[i].client = queue'[j].client /\ queue'[i].client # None => i = j
      BY <2>2, <2>4, <2>6 DEF Addressed
    <2>10. serving' # None /\ serving'.client # None =>
             /\ pc'[serving'.client] = "await"
             /\ \A i \in DOMAIN queue' : queue'[i].client # serving'.client
      BY <2>1, <2>2, <2>3, <2>4, <2>5, <2>6 DEF Addressed
    <2>. QED
      BY <2>7, <2>8, <2>9, <2>10 DEF Addressed
  <1>5. CASE Take
    <2>1. /\ queue # <<>> /\ serving' = Head(queue) /\ queue' = Tail(queue)
          /\ UNCHANGED <<pc, held>>
      BY <1>5 DEF Take
    <2>2. /\ 1 \in DOMAIN queue /\ serving' = queue[1]
          /\ \A i \in DOMAIN queue' : i \in Nat \ {0} /\ i + 1 \in DOMAIN queue /\ queue'[i] = queue[i + 1]
      BY <2>1 DEF ControlTypeOK
    <2>3. \A i, j \in DOMAIN queue' : i + 1 = j + 1 => i = j
      BY <2>2
    <2>4. \A i \in DOMAIN queue' : i + 1 # 1
      BY <2>2
    <2>. QED
      BY <2>1, <2>2, <2>3, <2>4 DEF Addressed
  <1>6. CASE MapStep
    <2>1. UNCHANGED <<pc, held, queue, serving>>
      BY <1>6 DEF MapStep
    <2>. QED
      BY <2>1 DEF Addressed
  <1>7. CASE Reply
    <2>1. serving \in Command /\ serving' = None /\ queue' = queue
      BY <1>7 DEF Reply, Commit, Refuse, Fault, Abort, Turn, ConfigTurn, ControlTypeOK
    <2>2. \A d \in Client : \/ pc'[d] = pc[d] /\ held'[d] = held[d]
                            \/ d = serving.client /\ d # None /\ pc'[d] = "reply"
      BY <1>7 DEF Reply, ControlTypeOK
    <2>3. \A i \in DOMAIN queue : queue[i].client \in Client \cup {None}
      BY CommandsSent
    <2>4. serving # None
      BY <2>1, ControlAssumption
    <2>5. \A i \in DOMAIN queue' : queue'[i].client # None => pc'[queue'[i].client] = "await"
      BY <2>1, <2>2, <2>3, <2>4 DEF Addressed
    <2>6. \A d \in Client : pc'[d] = "send" => held'[d].client = d
      BY <2>2 DEF Addressed
    <2>. QED
      BY <2>1, <2>5, <2>6 DEF Addressed
  <1>8. ASSUME NEW c \in Client, HangUp(c)
        PROVE  Addressed'
    <2>1. /\ queue' = [i \in DOMAIN queue |-> Orphaned(queue[i], c)]
          /\ serving' = IF serving = None THEN None ELSE Orphaned(serving, c)
          /\ pc' = [pc EXCEPT ![c] = "idle"] /\ held' = [held EXCEPT ![c] = None]
      BY <1>8 DEF HangUp
    <2>2. ASSUME NEW cmd \in Command
          PROVE  Orphaned(cmd, c).client = IF cmd.client = c THEN None ELSE cmd.client
      BY <2>2 DEF Orphaned, Command
    <2>3. \A d \in Client \ {c} : pc'[d] = pc[d] /\ held'[d] = held[d]
      BY <2>1 DEF ControlTypeOK
    <2>4. pc'[c] = "idle"
      BY <2>1 DEF ControlTypeOK
    <2>5. \A i \in DOMAIN queue : queue[i] \in Command /\ queue[i].client \in Client \cup {None}
      BY CommandsSent
    <2>6. /\ DOMAIN queue' = DOMAIN queue
          /\ \A i \in DOMAIN queue :
               queue'[i].client = IF queue[i].client = c THEN None ELSE queue[i].client
      BY <2>1, <2>2, <2>5
    <2>7. serving' # None =>
            /\ serving # None /\ serving.client \in Client \cup {None}
            /\ serving'.client = IF serving.client = c THEN None ELSE serving.client
      BY <2>1, <2>2 DEF ControlTypeOK, Command
    <2>8. \A d \in Client : pc'[d] = "send" => held'[d].client = d
      BY <2>3, <2>4 DEF Addressed
    <2>9. \A i \in DOMAIN queue' : queue'[i].client # None => pc'[queue'[i].client] = "await"
      BY <2>3, <2>5, <2>6 DEF Addressed
    <2>10. \A i, j \in DOMAIN queue' :
             queue'[i].client = queue'[j].client /\ queue'[i].client # None => i = j
      BY <2>6 DEF Addressed
    <2>11. serving' # None /\ serving'.client # None =>
             /\ pc'[serving'.client] = "await"
             /\ \A i \in DOMAIN queue' : queue'[i].client # serving'.client
      BY <2>3, <2>6, <2>7 DEF Addressed
    <2>. QED
      BY <2>8, <2>9, <2>10, <2>11 DEF Addressed
  <1>9. ASSUME NEW s \in Selector, EvidenceChange(s)
        PROVE  Addressed'
    BY <1>9 DEF EvidenceChange, Addressed
  <1>10. CASE Crash
    BY <1>10 DEF Crash, Boot, Addressed
  <1>11. CASE UNCHANGED vars
    BY <1>11 DEF vars, Addressed
  <1>12. CASE Next
    BY <1>1, <1>2, <1>3, <1>4, <1>5, <1>6, <1>7, <1>8, <1>9, <1>10, <1>12 DEF Next, Handler, Worker
  <1>. QED
    BY <1>11, <1>12

-----------------------------------------------------------------------------
(* The status and the kernel *)

\* The attempts on their way: compiled, queued, being applied, answered.
Attempts == {held[c] : c \in {d \in Client : pc[d] \in {"send", "reply"}}}
              \cup {queue[i] : i \in DOMAIN queue} \cup ({serving} \ {None})

Same(a, b) == a.stamp = b.stamp /\ a.program = b.program /\ a.unresolved = b.unresolved

Stamped == /\ \A a \in Attempts : a.stamp \in Nat /\ a.stamp <= stamp
           /\ installed <= stamp /\ shown <= stamp

Wired ==
  /\ Attempts # {} \/ installed # 0 => attached
  /\ serving # None => target = serving.program
  /\ \A c \in Client : pc[c] = "reply" /\ held[c].client = "failed" => tainted

\* Program p with the unresolved rules u comes from the rules and the switch as
\* they are stored, whatever the selectors resolved to.
Agrees(p, u) ==
  /\ p.enabled = master
  /\ \A r \in RuleId :
       /\ p.rules[r] # None =>
            /\ rules[r] # None /\ rules[r].enabled /\ p.rules[r].targets # {} /\ r \notin u
            /\ p.rules[r].action = rules[r].action /\ p.rules[r].rate = rules[r].rate
            /\ p.rules[r].dirs = rules[r].dirs
       /\ rules[r] # None /\ rules[r].enabled /\ p.rules[r] = None => r \in u

\* The newest attempt has one program, wherever it has got to, and that program
\* is the stored one unless a handler has yet to compile what it wrote.
LatestIs(p, u) ==
  /\ \A a \in Attempts : a.stamp = stamp => a.program = p /\ a.unresolved = u
  /\ installed = stamp => applied = p
  /\ shown = stamp /\ ~tainted => view.unresolved = u /\ ~view.error
  /\ (\A c \in Client : pc[c] # "compile") => Agrees(p, u)

Latest == stamp # 0 => \E p, u : LatestIs(p, u)

StatusInv == Stamped /\ Wired /\ Latest

\* Only compile makes an attempt: every other step passes on those there are.
PassOn == \A b \in Attempts' : \E a \in Attempts : Same(a, b)

\* What a step may do that is no compile: install, or show, an attempt there is,
\* and change what is stored only as a handler that has yet to compile.
Carries ==
  /\ stamp' = stamp /\ (attached => attached') /\ (tainted => tainted')
  /\ PassOn
  /\ \/ UNCHANGED <<installed, applied>>
     \/ \E a \in Attempts : installed' = a.stamp /\ applied' = a.program
  /\ \/ UNCHANGED <<shown, view>>
     \/ \E a \in Attempts : /\ shown' = a.stamp
                            /\ tainted' \/ (view'.unresolved = a.unresolved /\ ~view'.error)
  /\ UNCHANGED <<rules, master>> \/ \E c \in Client : pc'[c] = "compile"
  /\ \A c \in Client : pc[c] = "compile" => pc'[c] = "compile"

\* Such a step leaves the newest attempt what it is.
LEMMA LatestCarried ==
  ASSUME ControlTypeOK, StatusInv, Carries
  PROVE  /\ Stamped' /\ Latest'
         /\ Attempts' # {} \/ installed' # 0 => attached'
  <1>. USE DEF StatusInv, Carries
  <1>1. ASSUME NEW b \in Attempts'
        PROVE  \E a \in Attempts : Same(a, b)
    BY DEF PassOn
  <1>2. Stamped'
    <2>1. \A b \in Attempts' : b.stamp \in Nat /\ b.stamp <= stamp'
      BY <1>1 DEF Stamped, Same
    <2>2. installed' <= stamp' /\ shown' <= stamp'
      BY DEF Stamped
    <2>. QED
      BY <2>1, <2>2 DEF Stamped
  <1>3. Attempts' # {} \/ installed' # 0 => attached'
    BY <1>1 DEF Wired
  <1>4. Latest'
    <2>. SUFFICES ASSUME stamp' # 0
                  PROVE  \E p, u : LatestIs(p, u)'
      BY DEF Latest
    <2>1. PICK p, u : LatestIs(p, u)
      BY DEF Latest
    <2>2. \A b \in Attempts' : b.stamp = stamp' => b.program = p /\ b.unresolved = u
      BY <1>1, <2>1 DEF LatestIs, Same
    <2>3. installed' = stamp' => applied' = p
      BY <2>1 DEF LatestIs
    <2>4. shown' = stamp' /\ ~tainted' => view'.unresolved = u /\ ~view'.error
      BY <2>1 DEF LatestIs
    <2>5. (\A c \in Client : pc'[c] # "compile") => Agrees(p, u)'
      BY <2>1 DEF LatestIs, Agrees
    <2>6. LatestIs(p, u)'
      BY <2>2, <2>3, <2>4, <2>5 DEF LatestIs
    <2>. QED
      BY <2>6
  <1>. QED
    BY <1>2, <1>3, <1>4

\* A handler that stops carrying anything, and leaves the channel alone, passes
\* on what the others carry.
LEMMA PassOnWithout ==
  ASSUME UNCHANGED <<queue, serving>>,
         \A d \in Client : pc'[d] \in {"send", "reply"} => pc'[d] = pc[d] /\ held'[d] = held[d]
  PROVE  PassOn
  <1>1. Attempts' \subseteq Attempts
    BY DEF Attempts
  <1>. QED
    BY <1>1 DEF PassOn, Same

\* Handlers that write, read or hang up, and the startup code.
LEMMA StatusStore ==
  ASSUME ControlTypeOK, StatusInv, NEW c \in Client,
         Request(c) \/ WriteUpdate(c) \/ Record(c) \/ (c = Main /\ (Attach \/ Drain))
  PROVE  StatusInv'
  <1>. USE DEF Goto, End, Start
  <1>1. /\ UNCHANGED <<applyVars, queue, serving, stamp, installed>>
        /\ attached => attached'
        /\ \A d \in Client \ {c} : pc'[d] = pc[d] /\ held'[d] = held[d]
        /\ pc'[c] \in {"compile", "drafted", "refresh", "idle"}
        /\ pc[c] # "compile"
    BY DEF Request, Create, Delete, ReadForUpdate, SetMaster, WriteUpdate, Record, Attach, Drain, ControlTypeOK,
           storeVars, history
  <1>2. PassOn
    BY <1>1, PassOnWithout
  <1>3. UNCHANGED <<rules, master>> \/ pc'[c] = "compile"
    BY DEF Request, Create, Delete, ReadForUpdate, SetMaster, WriteUpdate, Record, Attach, Drain, ControlTypeOK,
           storeVars
  <1>4. UNCHANGED <<shown, view>> \/
        \E a \in Attempts : /\ shown' = a.stamp
                            /\ tainted' \/ (view'.unresolved = a.unresolved /\ ~view'.error)
    <2>1. CASE Record(c)
      <3>1. held[c] \in Attempts /\ held[c] \in Answer
        BY <2>1 DEF Record, Attempts, ControlTypeOK, HeldOK
      <3>2. CASE held[c].client = "ok"
        BY <2>1, <3>1, <3>2 DEF Record
      <3>3. CASE held[c].client = "failed"
        <4>1. tainted'
          BY <1>1, <2>1, <3>3 DEF Record, StatusInv, Wired, applyVars
        <4>. QED
          BY <2>1, <3>1, <4>1 DEF Record
      <3>. QED
        BY <3>1, <3>2, <3>3 DEF Answer
    <2>2. CASE ~Record(c)
      BY <2>2 DEF Request, Create, Delete, ReadForUpdate, SetMaster, WriteUpdate, Attach, Drain, history
    <2>. QED
      BY <2>1, <2>2
  <1>5. Carries
    BY <1>1, <1>2, <1>3, <1>4 DEF Carries, applyVars
  <1>6. \A d \in Client : pc'[d] = "reply" /\ held'[d].client = "failed" => tainted'
    BY <1>1 DEF StatusInv, Wired, applyVars
  <1>7. serving' # None => target' = serving'.program
    BY <1>1 DEF StatusInv, Wired, applyVars
  <1>. QED
    BY <1>5, <1>6, <1>7, LatestCarried DEF StatusInv, Wired

\* A command enters the channel, and the worker takes it and works on it.
LEMMA StatusQueue ==
  ASSUME ControlTypeOK, StatusInv,
         (\E c \in Client : Send(c)) \/ Take \/ MapStep
  PROVE  StatusInv'
  <1>. USE DEF Goto, End
  <1>1. ASSUME NEW c \in Client, Send(c)
        PROVE  StatusInv'
    <2>1. /\ pc[c] = "send" /\ queue' = Append(queue, held[c])
          /\ held' = [held EXCEPT ![c] = None] /\ pc' = [pc EXCEPT ![c] = "await"]
          /\ UNCHANGED <<applyVars, storeVars, attached, serving, view, history>>
      BY <1>1 DEF Send
    <2>2. held[c] \in Attempts /\ held[c] \in Command
      BY <2>1 DEF Attempts, ControlTypeOK, HeldOK
    <2>3. ASSUME NEW i \in DOMAIN queue'
          PROVE  queue'[i] \in Attempts
      <3>1. queue'[i] = held[c] \/ (i \in DOMAIN queue /\ queue'[i] = queue[i])
        BY <2>1, <2>2 DEF ControlTypeOK
      <3>. QED
        BY <2>2, <3>1 DEF Attempts
    <2>4. ASSUME NEW d \in Client, pc'[d] \in {"send", "reply"}
          PROVE  pc[d] = pc'[d] /\ held'[d] = held[d] /\ held[d] \in Attempts
      BY <2>1, <2>4 DEF Attempts, ControlTypeOK
    <2>5. Attempts' \subseteq Attempts
      BY <2>1, <2>3, <2>4 DEF Attempts
    <2>6. PassOn
      BY <2>5 DEF PassOn, Same
    <2>7. Carries
      BY <2>1, <2>6 DEF Carries, applyVars, storeVars, history, ControlTypeOK
    <2>8. \A d \in Client : pc'[d] = "reply" /\ held'[d].client = "failed" => tainted'
      BY <2>1, <2>4 DEF StatusInv, Wired, applyVars
    <2>9. serving' # None => target' = serving'.program
      BY <2>1 DEF StatusInv, Wired, applyVars
    <2>. QED
      BY <2>7, <2>8, <2>9, LatestCarried DEF StatusInv, Wired
  <1>2. CASE Take
    <2>1. /\ queue # <<>> /\ serving' = Head(queue) /\ queue' = Tail(queue)
          /\ target' = Head(queue).program /\ applied' = applied /\ (tainted => tainted')
          /\ UNCHANGED <<storeVars, attached, pc, held, view, history>>
      BY <1>2 DEF Take, Begin
    <2>2. /\ 1 \in DOMAIN queue /\ serving' = queue[1]
          /\ \A i \in DOMAIN queue' : i + 1 \in DOMAIN queue /\ queue'[i] = queue[i + 1]
      BY <2>1 DEF ControlTypeOK
    <2>3. Attempts' \subseteq Attempts
      BY <2>1, <2>2 DEF Attempts
    <2>4. PassOn
      BY <2>3 DEF PassOn, Same
    <2>5. Carries
      BY <2>1, <2>4 DEF Carries, storeVars, history
    <2>6. \A d \in Client : pc'[d] = "reply" /\ held'[d].client = "failed" => tainted'
      BY <2>1 DEF StatusInv, Wired
    <2>. QED
      BY <2>1, <2>5, <2>6, LatestCarried DEF StatusInv, Wired
  <1>3. CASE MapStep
    <2>1. /\ UNCHANGED <<applied, target, tainted>>
          /\ UNCHANGED <<storeVars, attached, pc, held, queue, serving, view, history>>
      BY <1>3 DEF MapStep, ApplyOp, ApplyConfig
    <2>2. PassOn
      BY <2>1 DEF PassOn, Same, Attempts
    <2>3. Carries
      BY <2>1, <2>2 DEF Carries, storeVars, history
    <2>. QED
      BY <2>1, <2>3, LatestCarried DEF StatusInv, Wired
  <1>. QED
    BY <1>1, <1>2, <1>3

\* The answer is of the program the worker was given, and a failure is on record.
LEMMA StatusReply ==
  ASSUME ControlTypeOK, Addressed, StatusInv, Reply
  PROVE  StatusInv'
  <1>. USE DEF Goto, End
  <1>1. /\ worker = "applying" /\ (tainted => tainted')
        /\ \/ outcome' = "ok" /\ applied' = target
           \/ outcome' = "failed" /\ applied' = applied /\ tainted'
    BY DEF Reply, Commit, Refuse, Fault, Abort, Turn, ConfigTurn
  <1>2. /\ serving \in Command /\ serving # None /\ serving \in Attempts
        /\ target = serving.program
    BY <1>1, ControlAssumption DEF ControlTypeOK, Attempts, StatusInv, Wired
  <1>3. /\ serving' = None
        /\ UNCHANGED <<storeVars, attached, queue, view, stamp, shown>>
        /\ installed' = IF outcome' = "ok" THEN serving.stamp ELSE installed
    BY DEF Reply
  <1>. DEFINE answer == [serving EXCEPT !.client = outcome']
  <1>4. Same(serving, answer) /\ answer.client = outcome'
    BY <1>2 DEF Same, Command
  <1>5. \/ UNCHANGED <<pc, held>>
        \/ /\ held' = [held EXCEPT ![serving.client] = answer]
           /\ pc' = [pc EXCEPT ![serving.client] = "reply"]
    BY DEF Reply
  <1>. HIDE DEF answer
  <1>6. ASSUME NEW d \in Client
        PROVE  \/ pc'[d] = pc[d] /\ held'[d] = held[d]
               \/ pc'[d] = "reply" /\ held'[d] = answer
    BY <1>5 DEF ControlTypeOK
  <1>7. \A b \in Attempts' : b \in Attempts \/ b = answer
    BY <1>3, <1>6 DEF Attempts
  <1>8. PassOn
    BY <1>2, <1>4, <1>7 DEF PassOn, Same
  <1>9. UNCHANGED <<installed, applied>> \/
        \E a \in Attempts : installed' = a.stamp /\ applied' = a.program
    BY <1>1, <1>2, <1>3
  <1>10. \A d \in Client : pc[d] = "compile" => pc'[d] = "compile"
    BY <1>2, <1>5, ControlAssumption DEF Addressed, ControlTypeOK
  <1>11. Carries
    BY <1>1, <1>3, <1>8, <1>9, <1>10 DEF Carries, storeVars
  <1>12. \A d \in Client : pc'[d] = "reply" /\ held'[d].client = "failed" => tainted'
    BY <1>1, <1>4, <1>6 DEF StatusInv, Wired
  <1>. QED
    BY <1>3, <1>11, <1>12, LatestCarried DEF StatusInv, Wired

\* A closed connection leaves its command, and its attempt, in the channel.
LEMMA StatusOutside ==
  ASSUME ControlTypeOK, StatusInv,
         \/ \E c \in Client : HangUp(c)
         \/ \E s \in Selector : EvidenceChange(s)
         \/ UNCHANGED vars
  PROVE  StatusInv'
  <1>. USE DEF Goto, End
  <1>1. ASSUME NEW c \in Client, HangUp(c)
        PROVE  StatusInv'
    <2>1. /\ queue' = [i \in DOMAIN queue |-> Orphaned(queue[i], c)]
          /\ serving' = IF serving = None THEN None ELSE Orphaned(serving, c)
          /\ pc' = [pc EXCEPT ![c] = "idle"] /\ held' = [held EXCEPT ![c] = None]
          /\ pc[c] \in {"send", "await"}
          /\ UNCHANGED <<applyVars, storeVars, attached, view, history>>
      BY <1>1 DEF HangUp
    <2>2. ASSUME NEW cmd \in Command
          PROVE  Same(cmd, Orphaned(cmd, c))
      BY <2>2 DEF Orphaned, Command, Same
    <2>3. \A i \in DOMAIN queue' : i \in DOMAIN queue /\ Same(queue[i], queue'[i])
      BY <2>1, <2>2, CommandsSent
    <2>4. serving' # None => serving # None /\ Same(serving, serving')
      BY <2>1, <2>2 DEF ControlTypeOK
    <2>5. \A d \in Client : pc'[d] \in {"send", "reply"} => pc'[d] = pc[d] /\ held'[d] = held[d]
      BY <2>1 DEF ControlTypeOK
    <2>6. PassOn
      <3>. SUFFICES ASSUME NEW b \in Attempts'
                    PROVE  \E a \in Attempts : Same(a, b)
        BY DEF PassOn
      <3>1. CASE \E d \in Client : pc'[d] \in {"send", "reply"} /\ b = held'[d]
        BY <2>5, <3>1 DEF Attempts, Same
      <3>2. CASE \E i \in DOMAIN queue' : b = queue'[i]
        BY <2>3, <3>2 DEF Attempts
      <3>3. CASE b = serving' /\ serving' # None
        BY <2>4, <3>3 DEF Attempts
      <3>. QED
        BY <3>1, <3>2, <3>3 DEF Attempts
    <2>7. Carries
      BY <2>1, <2>6 DEF Carries, applyVars, storeVars, history, ControlTypeOK
    <2>8. \A d \in Client : pc'[d] = "reply" /\ held'[d].client = "failed" => tainted'
      BY <2>1, <2>5 DEF StatusInv, Wired, applyVars
    <2>9. serving' # None => target' = serving'.program
      BY <2>1, <2>4 DEF StatusInv, Wired, applyVars, Same
    <2>. QED
      BY <2>7, <2>8, <2>9, LatestCarried DEF StatusInv, Wired
  <1>2. CASE (\E s \in Selector : EvidenceChange(s)) \/ UNCHANGED vars
    <2>1. UNCHANGED <<applyVars, storeVars, attached, pc, held, queue, serving, view, history>>
      BY <1>2 DEF EvidenceChange, vars
    <2>2. PassOn
      BY <2>1 DEF PassOn, Same, Attempts
    <2>3. Carries
      BY <2>1, <2>2 DEF Carries, applyVars, storeVars, history
    <2>. QED
      BY <2>1, <2>3, LatestCarried DEF StatusInv, Wired, applyVars
  <1>. QED
    BY <1>1, <1>2

\* What compile makes comes from what is stored.
LEMMA CompiledAgrees == ControlTypeOK => Agrees(Compiled, Unresolved)
  <1>. SUFFICES ASSUME ControlTypeOK
                PROVE  Agrees(Compiled, Unresolved)
    OBVIOUS
  <1>1. Compiled.enabled = master
    BY DEF Compiled
  <1>2. ASSUME NEW r \in RuleId, Resolved(r)
        PROVE  /\ Compiled.rules[r] = CompileRule(rules[r]) /\ Compiled.rules[r] # None
               /\ CompileRule(rules[r]).targets # {} /\ r \notin Unresolved
    <2>1. Compiled.rules[r] = CompileRule(rules[r])
      BY <1>2 DEF Compiled
    <2>2. Compiled.rules[r] # None
      <3>1. rules[r] \in Rule
        BY <1>2 DEF Resolved, ControlTypeOK
      <3>2. CompileRule(rules[r]) \in CompiledRule
        BY <3>1 DEF CompileRule, CompiledRule, Rule, ControlTypeOK
      <3>. QED
        BY <2>1, <3>2, ProgramAssumption
    <2>. QED
      BY <1>2, <2>1, <2>2 DEF CompileRule, Resolved, Unresolved
  <1>3. ASSUME NEW r \in RuleId, ~Resolved(r)
        PROVE  Compiled.rules[r] = None
    BY <1>3 DEF Compiled
  <1>4. \A r \in RuleId : rules[r] # None /\ rules[r].enabled /\ ~Resolved(r) => r \in Unresolved
    BY DEF Unresolved
  <1>5. \A r \in RuleId : Resolved(r) => rules[r] # None /\ rules[r].enabled
    BY DEF Resolved
  <1>6. \A r \in RuleId : /\ CompileRule(rules[r]).action = rules[r].action
                          /\ CompileRule(rules[r]).rate = rules[r].rate
                          /\ CompileRule(rules[r]).dirs = rules[r].dirs
    BY DEF CompileRule
  <1>. QED
    BY <1>1, <1>2, <1>3, <1>4, <1>5, <1>6 DEF Agrees

\* compile begins a new attempt, which nothing has installed or shown.
LEMMA StatusCompile ==
  ASSUME ControlTypeOK, StatusInv, NEW c \in Client, Compile(c)
  PROVE  StatusInv'
  <1>. USE DEF Goto, End
  <1>. DEFINE new == [client |-> c, program |-> Compiled, unresolved |-> Unresolved, stamp |-> stamp']
  <1>1. /\ stamp' = stamp + 1 /\ stamp \in Nat
        /\ UNCHANGED <<applyVars, storeVars, evidence, attached, queue, serving, installed, shown>>
    BY DEF Compile, ControlTypeOK
  <1>2. \/ held' = held /\ pc' = [pc EXCEPT ![c] = IF c = Main THEN "refresh" ELSE "idle"]
        \/ attached /\ held' = [held EXCEPT ![c] = new] /\ pc' = [pc EXCEPT ![c] = "send"]
    BY DEF Compile
  <1>. HIDE DEF new
  <1>3. \A d \in Client : pc'[d] \in {"send", "reply"} =>
          \/ pc'[d] = pc[d] /\ held'[d] = held[d]
          \/ pc'[d] = "send" /\ held'[d] = new /\ attached
    BY <1>2 DEF ControlTypeOK
  <1>4. \A b \in Attempts' : b \in Attempts \/ (b = new /\ attached)
    BY <1>1, <1>3 DEF Attempts
  <1>5. new.stamp = stamp' /\ new.program = Compiled /\ new.unresolved = Unresolved
    BY DEF new
  <1>6. installed \in Nat /\ shown \in Nat
    BY DEF ControlTypeOK
  <1>7. Stamped'
    <2>1. \A b \in Attempts' : b.stamp \in Nat /\ b.stamp <= stamp'
      BY <1>1, <1>4, <1>5 DEF StatusInv, Stamped
    <2>2. installed' <= stamp' /\ shown' <= stamp'
      BY <1>1, <1>6 DEF StatusInv, Stamped
    <2>. QED
      BY <2>1, <2>2 DEF Stamped
  <1>8. Wired'
    <2>1. Attempts' # {} \/ installed' # 0 => attached'
      BY <1>1, <1>4 DEF StatusInv, Wired
    <2>2. \A d \in Client : pc'[d] = "reply" /\ held'[d].client = "failed" => tainted'
      BY <1>1, <1>3 DEF StatusInv, Wired, applyVars
    <2>. QED
      BY <1>1, <2>1, <2>2 DEF StatusInv, Wired, applyVars
  <1>9. Latest'
    <2>1. PICK p, u : p = Compiled /\ u = Unresolved
      OBVIOUS
    <2>2. \A b \in Attempts' : b.stamp = stamp' => b.program = p /\ b.unresolved = u
      BY <1>1, <1>4, <1>5, <2>1 DEF StatusInv, Stamped
    <2>3. installed' # stamp' /\ shown' # stamp'
      BY <1>1, <1>6 DEF StatusInv, Stamped
    <2>4. Agrees(p, u)
      BY <2>1, CompiledAgrees
    <2>5. Agrees(p, u)'
      BY <1>1, <2>4 DEF Agrees, storeVars
    <2>6. LatestIs(p, u)'
      BY <2>2, <2>3, <2>5 DEF LatestIs
    <2>. QED
      BY <2>6 DEF Latest
  <1>. QED
    BY <1>7, <1>8, <1>9 DEF StatusInv

\* Before the first attempt there is nothing to agree on.
LEMMA StatusStart ==
  /\ Init => StatusInv
  /\ Crash => StatusInv'
  <1>1. ASSUME Init
        PROVE  StatusInv
    <2>1. /\ stamp = 0 /\ installed = 0 /\ shown = 0 /\ queue = <<>> /\ serving = None
          /\ \A c \in Client : pc[c] \in {"start", "idle"}
      BY <1>1 DEF Init
    <2>2. Attempts = {}
      BY <2>1 DEF Attempts
    <2>. QED
      BY <2>1, <2>2 DEF StatusInv, Stamped, Wired, Latest
  <1>2. ASSUME Crash
        PROVE  StatusInv'
    <2>1. /\ stamp' = 0 /\ installed' = 0 /\ shown' = 0 /\ queue' = <<>> /\ serving' = None
          /\ \A c \in Client : pc'[c] \in {"start", "idle"}
      BY <1>2 DEF Crash, Boot
    <2>2. Attempts' = {}
      BY <2>1 DEF Attempts
    <2>. QED
      BY <2>1, <2>2 DEF StatusInv, Stamped, Wired, Latest
  <1>. QED
    BY <1>1, <1>2

\* Every step keeps the status and the kernel together.
LEMMA StatusStep ==
  ASSUME ControlTypeOK, Addressed, StatusInv, [Next]_vars
  PROVE  StatusInv'
  <1>1. ASSUME NEW c \in Client, Request(c) \/ WriteUpdate(c) \/ Record(c)
        PROVE  StatusInv'
    BY <1>1, StatusStore
  <1>2. CASE Attach \/ Drain
    BY <1>2, StatusStore, ControlAssumption
  <1>3. ASSUME NEW c \in Client, Compile(c)
        PROVE  StatusInv'
    BY <1>3, StatusCompile
  <1>4. CASE (\E c \in Client : Send(c)) \/ Take \/ MapStep
    BY <1>4, StatusQueue
  <1>5. CASE Reply
    BY <1>5, StatusReply
  <1>6. CASE (\E c \in Client : HangUp(c)) \/ (\E s \in Selector : EvidenceChange(s)) \/ UNCHANGED vars
    BY <1>6, StatusOutside
  <1>7. CASE Crash
    BY <1>7, StatusStart
  <1>8. CASE Next
    BY <1>1, <1>2, <1>3, <1>4, <1>5, <1>6, <1>7, <1>8 DEF Next, Handler, Worker
  <1>. QED
    BY <1>6, <1>8

\* Settled, the applied program is the stored one, and what the status calls
\* unresolved is what it leaves out; the maps hold the applied program.
LEMMA HonestFromInv ==
  ASSUME ControlInv, StatusInv
  PROVE  StatusHonest
  <1>. SUFFICES ASSUME Settled, ~tainted
                PROVE  /\ ~view.error
                       /\ \A r \in RuleId : rules[r] # None /\ ShownState(r) = "active" => InForce(r)
                       /\ \A e \in MatchEntry : Enforcing(e) =>
                            rules[kmatch[e].id] # None /\ ShownState(kmatch[e].id) = "active"
    BY DEF StatusHonest
  <1>. USE DEF ControlInv
  <1>1. PICK p, u : LatestIs(p, u)
    BY DEF StatusInv, Latest, Settled
  <1>2. /\ applied = p /\ view.unresolved = u /\ ~view.error
        /\ Agrees(p, u)
    BY <1>1 DEF LatestIs, Settled, Quiet
  <1>3. attached
    BY DEF StatusInv, Wired, Settled
  <1>4. /\ \A e \in MatchEntry : Installs(applied, e, kmatch[e])
        /\ \A r \in RuleId, d \in Direction :
             HasState(applied.rules[r], d) => kstate[r][d] = applied.rules[r].rate
        /\ kconfig = ConfigOf(applied)
    BY ExactFromInv DEF ApplyExact, Settled, Quiet
  <1>5. Apart(applied, applied) /\ applied \in Program
    BY DEF ApplyInv, AllApart, ApplyTypeOK
  <1>6. ASSUME NEW r \in RuleId, rules[r] # None
        PROVE  ShownState(r) = "active" <=> master /\ rules[r].enabled /\ r \notin u
    BY <1>2, <1>3 DEF ShownState
  <1>7. ASSUME NEW r \in RuleId, rules[r] # None, ShownState(r) = "active"
        PROVE  InForce(r)
    <2>1. master /\ rules[r].enabled /\ r \notin u
      BY <1>6, <1>7
    <2>2. /\ applied.rules[r] # None /\ applied.rules[r].targets # {}
          /\ applied.rules[r].action = rules[r].action /\ applied.rules[r].rate = rules[r].rate
          /\ applied.rules[r].dirs = rules[r].dirs
      BY <1>2, <1>7, <2>1 DEF Agrees
    <2>3. ASSUME NEW e \in MatchEntry, Owns(applied.rules[r], e)
          PROVE  /\ Enforcing(e)
                 /\ kmatch[e] = [id |-> r, action |-> rules[r].action]
                 /\ kstate[r][e.dir] = rules[r].rate
      <3>1. kmatch[e] = RefTo(r, applied.rules[r]) /\ kmatch[e] # None
        BY <1>4, <1>5, <2>3, OwnerInstalls
      <3>2. kmatch[e] = [id |-> r, action |-> rules[r].action] /\ kmatch[e].id = r
        BY <2>2, <3>1 DEF RefTo
      <3>3. e.dir \in Direction /\ e.target \in Target /\ HasState(applied.rules[r], e.dir)
        BY <2>3 DEF MatchEntry, Owns, HasState
      <3>4. kstate[r][e.dir] = rules[r].rate
        BY <1>4, <2>2, <3>3
      <3>5. kstate[r][e.dir] # None
        BY <1>5, <2>2, <3>4, RuleType, ProgramAssumption
      <3>6. kconfig.enabled
        BY <1>2, <1>4, <2>1 DEF Agrees, ConfigOf
      <3>7. IF KindOf[e.target] \in AppKind THEN kconfig.app ELSE kconfig.endpoint
        <4>1. KindOf[e.target] \in MapKind /\ e.target \in applied.rules[r].targets
          BY <2>3, <3>3, ProgramAssumption DEF Owns
        <4>2. CASE KindOf[e.target] \in AppKind
          <5>1. Uses(applied, AppKind)
            BY <2>2, <4>1, <4>2 DEF Uses
          <5>. QED
            BY <1>4, <4>2, <5>1 DEF ConfigOf
        <4>3. CASE KindOf[e.target] \notin AppKind
          <5>1. Uses(applied, MapKind \ AppKind)
            BY <2>2, <4>1, <4>3 DEF Uses
          <5>. QED
            BY <1>4, <4>3, <5>1 DEF ConfigOf
        <4>. QED
          BY <4>2, <4>3
      <3>8. Enforcing(e)
        BY <3>1, <3>2, <3>5, <3>6, <3>7 DEF Enforcing
      <3>. QED
        BY <3>2, <3>4, <3>8
    <2>. QED
      BY <2>2, <2>3 DEF InForce
  <1>8. ASSUME NEW e \in MatchEntry, Enforcing(e)
        PROVE  rules[kmatch[e].id] # None /\ ShownState(kmatch[e].id) = "active"
    <2>1. kmatch[e] # None /\ kconfig.enabled
      BY <1>8 DEF Enforcing
    <2>2. PICK r \in RuleId : Owns(applied.rules[r], e) /\ kmatch[e] = RefTo(r, applied.rules[r])
      BY <1>4, <2>1 DEF Installs
    <2>3. kmatch[e].id = r /\ applied.rules[r] # None
      BY <2>2 DEF RefTo, Owns
    <2>4. rules[r] # None /\ rules[r].enabled /\ r \notin u
      BY <1>2, <2>3 DEF Agrees
    <2>5. master
      BY <1>2, <1>4, <2>1 DEF Agrees, ConfigOf
    <2>. QED
      BY <1>6, <2>3, <2>4, <2>5
  <1>. QED
    BY <1>2, <1>7, <1>8

-----------------------------------------------------------------------------
(* The theorems *)

\* The invariant of the control path is inductive.
THEOREM ControlInvariant == Spec => []ControlInv
  <1>1. Init => ControlInv
    <2>1. Init => ApplyInv
      BY InvInit DEF Init
    <2>. QED
      BY <2>1, ControlTypeInit DEF ControlInv
  <1>2. ControlInv /\ [Next]_vars => ControlInv'
    BY ControlTypeStep, WorkerStep DEF ControlInv
  <1>. QED
    BY <1>1, <1>2, PTL DEF Spec

\* The store, the handlers, the channel and the worker keep their types.
THEOREM ControlTypes == Spec => []ControlTypeOK
  <1>1. ControlInv => ControlTypeOK
    BY DEF ControlInv
  <1>. QED
    BY ControlInvariant, <1>1, PTL

\* Whatever handlers, hang-ups and crashes do around the worker, its maps hold
\* exactly the applied program between two applies.
THEOREM ControlMapsExact == Spec => []ApplyExact
  <1>1. ControlInv => ApplyExact
    BY ExactFromInv DEF ControlInv
  <1>. QED
    BY ControlInvariant, <1>1, PTL

\* And while it applies, packets meet only the old program's rules or the new.
THEOREM ControlOldOrNew == Spec => []OldOrNew
  <1>1. ControlInv => OldOrNew
    BY OldOrNewFromInv DEF ControlInv
  <1>. QED
    BY ControlInvariant, <1>1, PTL
\* The attempts on their way, what the worker installed and what the status shows
\* stay together: the newest is what is stored, or a handler has yet to compile.
THEOREM StatusInvariant == Spec => [](Addressed /\ StatusInv)
  <1>1. Init => Addressed /\ StatusInv
    <2>1. Init => Addressed
      BY DEF Init, Addressed
    <2>. QED
      BY <2>1, StatusStart
  <1>2. ControlInv /\ Addressed /\ StatusInv /\ [Next]_vars => Addressed' /\ StatusInv'
    BY AddressedStep, StatusStep DEF ControlInv
  <1>. QED
    BY ControlInvariant, <1>1, <1>2, PTL DEF Spec

\* The states /v1/traffic-rules shows are the ones packets meet, however handlers,
\* hang-ups, crashes and changes of the evidence interleave.
THEOREM StatusIsHonest == Spec => []StatusHonest
  <1>1. ControlInv /\ StatusInv => StatusHonest
    BY HonestFromInv
  <1>. QED
    BY ControlInvariant, StatusInvariant, <1>1, PTL

------------------------------------------------------------------------------
\* The token bucket: a limit holds and does not starve, for any rates, packet
\* lengths, CPUs and changes of the rule.

\* Arithmetic the solver does not find by itself.
LEMMA Division ==
  ASSUME NEW a \in Nat, NEW s \in Nat \ {0}
  PROVE  /\ a \div s \in Nat
         /\ s * (a \div s) <= a
         /\ a < s * (a \div s) + s
BY Z3

LEMMA ProductNat ==
  ASSUME NEW a \in Nat, NEW b \in Nat
  PROVE  a * b \in Nat
BY Z3

LEMMA ProductGrows ==
  ASSUME NEW r \in Nat, NEW a \in Int, NEW b \in Int, a <= b
  PROVE  r * a <= r * b
BY Z3

LEMMA ProductSplits ==
  ASSUME NEW r \in Int, NEW a \in Int, NEW b \in Int
  PROVE  r * (a + b) = r * a + r * b
BY Z3

LEMMA OneSecond ==
  ASSUME NEW r \in Nat
  PROVE  (Second * r) \div Second = r
BY BucketAssumption, Z3

-----------------------------------------------------------------------------
\* One refill.
LEMMA GainFacts ==
  ASSUME NEW s \in RuleState, NEW t \in Nat
  PROVE  /\ Gain(s, t) \in Nat
         /\ t <= s.last => Gain(s, t) = 0
         /\ t > s.last /\ Gain(s, t) = 0 => s.rate * (t - s.last) < Second
         /\ Gain(s, t) > 0 =>
              /\ t > s.last
              /\ Second * Gain(s, t) <= s.rate * (t - s.last)
              /\ Gain(s, t) = s.rate \/ s.rate * (t - s.last) < 2 * (Second * Gain(s, t))
<1> DEFINE d == t - s.last
           g == Gain(s, t)
<1>0. /\ s.rate \in Nat /\ s.last \in Nat /\ Second \in Nat \ {0}
  BY BucketAssumption DEF RuleState
<1>1. CASE t <= s.last
  <2>1. Elapsed(s, t) = 0
    BY <1>0, <1>1 DEF Elapsed, Least
  <2>2. g = 0
    BY <1>0, <2>1, Division, Z3 DEF Gain
  <2> QED BY <1>0, <1>1, <2>2
<1>2. CASE t > s.last /\ d >= Second
  <2>1. Elapsed(s, t) = Second
    BY <1>0, <1>2 DEF Elapsed, Least
  <2>2. g = s.rate
    BY <1>0, <2>1, OneSecond DEF Gain
  <2>3. Second * s.rate <= s.rate * d
    BY <1>0, <1>2, ProductGrows, Z3
  <2>4. g = 0 => s.rate * d = 0
    BY <1>0, <1>2, <2>2, Z3
  <2> QED BY <1>0, <1>2, <2>2, <2>3, <2>4
<1>3. CASE t > s.last /\ d < Second
  <2>1. Elapsed(s, t) = d /\ d \in Nat
    BY <1>0, <1>3 DEF Elapsed, Least
  <2>2. d * s.rate \in Nat /\ d * s.rate = s.rate * d
    BY <1>0, <2>1, ProductNat, Z3
  <2>3. g \in Nat /\ Second * g <= s.rate * d /\ s.rate * d < Second * g + Second
    BY <1>0, <2>1, <2>2, Division DEF Gain
  <2>4. Second * g \in Nat /\ (g = 0 => Second * g = 0) /\ (g > 0 => Second <= Second * g)
    BY <1>0, <2>3, ProductNat, Z3
  <2> QED BY <1>0, <1>3, <2>2, <2>3, <2>4
<1> QED BY <1>0, <1>1, <1>2, <1>3

LEMMA RefilledFields ==
  ASSUME NEW s \in RuleState, NEW t \in Nat
  PROVE  /\ Refilled(s, t) \in RuleState
         /\ Refilled(s, t).rate = s.rate /\ Refilled(s, t).burst = s.burst
         /\ Gain(s, t) = 0 => Refilled(s, t).tokens = s.tokens /\ Refilled(s, t).last = s.last
         /\ Gain(s, t) > 0 => /\ Refilled(s, t).last = t
                              /\ Refilled(s, t).tokens <= s.burst
                              /\ Refilled(s, t).tokens <= s.tokens + Gain(s, t)
                              /\ \/ Refilled(s, t).tokens = s.burst
                                 \/ Refilled(s, t).tokens = s.tokens + Gain(s, t)
<1> DEFINE g == Gain(s, t)
           n == Refilled(s, t)
<1>1. g \in Nat
  BY GainFacts
<1>2. CASE g = 0
  <2>1. n = s
    BY <1>2 DEF Refilled
  <2> QED BY <1>2, <2>1
<1>3. CASE g > 0
  <2>1. n = [s EXCEPT !.tokens = Least(s.tokens + g, s.burst), !.last = t]
    BY <1>3 DEF Refilled
  <2>2. s.tokens \in Nat /\ s.burst \in Nat
    BY DEF RuleState
  <2>3. /\ Least(s.tokens + g, s.burst) \in Nat
        /\ Least(s.tokens + g, s.burst) <= s.burst
        /\ Least(s.tokens + g, s.burst) <= s.tokens + g
        /\ \/ Least(s.tokens + g, s.burst) = s.burst
           \/ Least(s.tokens + g, s.burst) = s.tokens + g
    BY <1>1, <2>2 DEF Least
  <2>4. n.tokens = Least(s.tokens + g, s.burst) /\ n.last = t
        /\ n.rate = s.rate /\ n.burst = s.burst
    BY <2>1 DEF RuleState
  <2>5. n \in RuleState
    BY <2>1, <2>3 DEF RuleState
  <2> QED BY <1>3, <2>3, <2>4, <2>5
<1> QED BY <1>1, <1>2, <1>3

-----------------------------------------------------------------------------
\* The inductive invariant.
\* Of a bucket whose parameters were stored at o with at most u tokens, p bytes
\* have passed.  Tokens are earned from the last refill on, which may be long
\* before o; but the first gain after o fills the bucket at most.
Within(s, o, u, p) ==
  /\ s.tokens <= u /\ s.burst <= u
  /\ IF s.last < o
     THEN /\ Second * (p + s.tokens) <= Second * u
          /\ p > 0 => s.rate * (o - s.last) < Second
     ELSE Second * (p + s.tokens) <= Second * (u + 1) + s.rate * (s.last - o)

\* Half of what the rate gives from m on is in the bucket, or it is full.
Earning(s, m) ==
  /\ s.burst <= s.rate
  /\ m <= s.last
  /\ s.tokens >= s.burst \/ s.rate * (s.last - m) <= 2 * (Second * s.tokens)

RefusedInv(s, m, k) ==
  k # Nothing /\ k.size <= s.burst => s.rate * (k.stamp - m) < Second * (2 * k.size + 1)

FlightInv ==
  /\ opened <= now
  /\ \A c \in Cpu : cpu[c] # Nothing => opened <= cpu[c].since /\ cpu[c].since <= now

HeldInv == holding # Nothing => holding.last <= now

BucketInv ==
  state # Nothing =>
    /\ state.last <= now
    /\ Within(state, opened, top, passed)
    /\ Earning(state, mark)
    /\ RefusedInv(state, mark, refused)

Inv == FlightInv /\ HeldInv /\ BucketInv

\* A refill adds no more than the rate gives since the parameters were stored,
\* and leaves less than a byte of the time before them unpaid.
LEMMA RefillWithin ==
  ASSUME NEW s \in RuleState, NEW t \in Nat, NEW o \in Nat, NEW u \in Nat, NEW p \in Nat,
         o <= t, Within(s, o, u, p)
  PROVE  /\ Within(Refilled(s, t), o, u, p)
         /\ Refilled(s, t).last < o => s.rate * (o - s.last) < Second
<1> DEFINE g == Gain(s, t)
           n == Refilled(s, t)
<1>0. /\ s.rate \in Nat /\ s.burst \in Nat /\ s.tokens \in Nat /\ s.last \in Nat
      /\ Second \in Nat \ {0}
  BY BucketAssumption DEF RuleState
<1>1. g \in Nat /\ n \in RuleState /\ n.tokens \in Nat /\ n.last \in Nat
  BY GainFacts, RefilledFields DEF RuleState
<1>2. CASE g = 0
  <2>1. n.tokens = s.tokens /\ n.last = s.last /\ n.rate = s.rate /\ n.burst = s.burst
    BY <1>2, RefilledFields
  <2>2. ASSUME s.last < o PROVE s.rate * (o - s.last) < Second
    <3>1. s.rate * (t - s.last) < Second
      BY <1>0, <1>2, <2>2, GainFacts
    <3>2. s.rate * (o - s.last) <= s.rate * (t - s.last)
      BY <1>0, <2>2, ProductGrows
    <3> QED BY <1>0, <2>2, <3>1, <3>2, ProductNat
  <2> QED BY <2>1, <2>2 DEF Within
<1>3. CASE g > 0
  <2>1. /\ n.last = t /\ n.rate = s.rate /\ n.burst = s.burst
        /\ n.tokens <= s.burst /\ n.tokens <= s.tokens + g
    BY <1>3, RefilledFields
  <2>2. t > s.last /\ Second * g <= s.rate * (t - s.last)
    BY <1>3, GainFacts
  <2>3. n.tokens <= u /\ n.burst <= u
    BY <1>0, <1>1, <2>1 DEF Within
  <2>4. Second * (p + n.tokens) <= Second * (p + s.tokens) + Second * g
    BY <1>0, <1>1, <2>1, ProductGrows, ProductSplits, Z3
  <2>5. Second * (u + 1) = Second * u + Second
    BY <1>0, Z3
  <2>6. Second * (p + n.tokens) <= Second * (u + 1) + s.rate * (t - o)
    <3>0. s.rate * (t - o) \in Nat /\ s.rate * (t - s.last) \in Nat
          /\ Second * (p + n.tokens) \in Nat /\ Second * (p + s.tokens) \in Nat
          /\ Second * u \in Nat /\ Second * g \in Nat
      BY <1>0, <1>1, <2>2, ProductNat
    <3>1. CASE s.last < o /\ p = 0
      <4>1. Second * (p + n.tokens) <= Second * u
        BY <1>0, <1>1, <2>3, <3>1, ProductGrows
      <4> QED BY <1>0, <2>5, <3>0, <4>1
    <3>2. CASE s.last < o /\ p > 0
      <4>1. Second * (p + s.tokens) <= Second * u /\ s.rate * (o - s.last) < Second
        BY <3>2 DEF Within
      <4>2. s.rate * (t - s.last) = s.rate * (t - o) + s.rate * (o - s.last)
        BY <1>0, ProductSplits, Z3
      <4>3. s.rate * (o - s.last) \in Nat
        BY <1>0, <3>2, ProductNat
      <4> QED BY <1>0, <2>2, <2>4, <2>5, <3>0, <4>1, <4>2, <4>3
    <3>3. CASE ~(s.last < o)
      <4>1. Second * (p + s.tokens) <= Second * (u + 1) + s.rate * (s.last - o)
        BY <3>3 DEF Within
      <4>2. s.rate * (t - o) = s.rate * (t - s.last) + s.rate * (s.last - o)
        BY <1>0, ProductSplits, Z3
      <4>3. s.rate * (s.last - o) \in Nat
        BY <1>0, <3>3, ProductNat
      <4> QED BY <1>0, <2>2, <2>4, <2>5, <3>0, <4>1, <4>2, <4>3
    <3> QED BY <1>0, <3>1, <3>2, <3>3
  <2> QED BY <1>0, <2>1, <2>3, <2>6 DEF Within
<1> QED BY <1>1, <1>2, <1>3

LEMMA RefillEarning ==
  ASSUME NEW s \in RuleState, NEW t \in Nat, NEW m \in Nat, Earning(s, m)
  PROVE  Earning(Refilled(s, t), m)
<1> DEFINE g == Gain(s, t)
           n == Refilled(s, t)
<1>0. /\ s.rate \in Nat /\ s.burst \in Nat /\ s.tokens \in Nat /\ s.last \in Nat
      /\ Second \in Nat \ {0}
  BY BucketAssumption DEF RuleState
<1>1. g \in Nat /\ n \in RuleState /\ n.tokens \in Nat /\ n.last \in Nat
      /\ n.rate = s.rate /\ n.burst = s.burst
  BY GainFacts, RefilledFields DEF RuleState
<1>2. CASE g = 0
  BY <1>1, <1>2, RefilledFields DEF Earning
<1>3. CASE g > 0
  <2>1. /\ n.last = t /\ t > s.last
        /\ n.tokens = s.burst \/ n.tokens = s.tokens + g
        /\ g = s.rate \/ s.rate * (t - s.last) < 2 * (Second * g)
    BY <1>3, RefilledFields, GainFacts
  <2>2. CASE n.tokens >= s.burst
    BY <1>0, <1>1, <2>1, <2>2 DEF Earning
  <2>3. CASE n.tokens < s.burst
    <3>1. n.tokens = s.tokens + g /\ s.tokens < s.burst /\ g # s.rate
      BY <1>0, <1>1, <2>1, <2>3 DEF Earning
    <3>2. s.rate * (s.last - m) <= 2 * (Second * s.tokens)
      BY <1>0, <3>1 DEF Earning
    <3>3. s.rate * (t - m) = s.rate * (t - s.last) + s.rate * (s.last - m)
      BY <1>0, ProductSplits, Z3
    <3>4. Second * n.tokens = Second * s.tokens + Second * g
      BY <1>0, <1>1, <3>1, ProductSplits
    <3>5. /\ Second * s.tokens \in Nat /\ Second * g \in Nat
          /\ s.rate * (t - s.last) \in Nat /\ s.rate * (s.last - m) \in Nat
      BY <1>0, <1>1, <2>1, ProductNat DEF Earning
    <3>6. s.rate * (t - m) <= 2 * (Second * n.tokens)
      BY <2>1, <3>1, <3>2, <3>3, <3>4, <3>5
    <3> QED BY <1>0, <1>1, <2>1, <3>6 DEF Earning
  <2> QED BY <1>0, <1>1, <2>2, <2>3
<1> QED BY <1>1, <1>2, <1>3

\* A packet is dropped right after a refill, with fewer tokens than its length.
LEMMA RefusedBound ==
  ASSUME NEW s \in RuleState, NEW t \in Nat, NEW m \in Nat, NEW size \in Nat,
         Earning(s, m), Refilled(s, t).tokens < size, size <= s.burst
  PROVE  s.rate * (t - m) < Second * (2 * size + 1)
<1> DEFINE g == Gain(s, t)
           n == Refilled(s, t)
<1>0. /\ s.rate \in Nat /\ s.burst \in Nat /\ s.tokens \in Nat /\ s.last \in Nat
      /\ Second \in Nat \ {0}
  BY BucketAssumption DEF RuleState
<1>1. g \in Nat /\ n \in RuleState /\ n.tokens \in Nat /\ n.last \in Nat
      /\ n.rate = s.rate /\ n.burst = s.burst
  BY GainFacts, RefilledFields DEF RuleState
<1>2. m <= n.last /\ s.rate * (n.last - m) <= 2 * (Second * n.tokens)
  BY <1>0, <1>1, RefillEarning DEF Earning
<1>3. Second * n.tokens <= Second * size
  BY <1>0, <1>1, ProductGrows
<1>4. Second * (2 * size + 1) = 2 * (Second * size) + Second
  BY <1>0, Z3
<1>5. /\ Second * n.tokens \in Nat /\ Second * size \in Nat
      /\ s.rate * (n.last - m) \in Nat
  BY <1>0, <1>1, <1>2, ProductNat
<1>6. s.rate * (t - n.last) \in Int /\ s.rate * (t - n.last) < Second
  <2>0. s.rate * (t - n.last) \in Int
    BY <1>0, <1>1
  <2>1. CASE t <= n.last
    <3>1. s.rate * (t - n.last) <= s.rate * 0
      BY <1>0, <1>1, <2>1, ProductGrows
    <3>2. s.rate * 0 = 0
      BY <1>0
    <3> QED BY <1>0, <2>0, <3>1, <3>2
  <2>2. CASE t > n.last
    <3>1. /\ g > 0 => n.last = t
          /\ g = 0 => n.last = s.last
      BY RefilledFields
    <3>2. g = 0 /\ n.last = s.last
      BY <1>1, <2>2, <3>1
    <3>3. s.rate * (t - s.last) < Second
      BY <2>2, <3>2, GainFacts
    <3> QED BY <2>0, <3>2, <3>3
  <2> QED BY <1>1, <2>0, <2>1, <2>2
<1>7. s.rate * (t - m) = s.rate * (t - n.last) + s.rate * (n.last - m)
  BY <1>0, <1>1, ProductSplits, Z3
<1> QED BY <1>0, <1>2, <1>3, <1>4, <1>5, <1>6, <1>7

-----------------------------------------------------------------------------
\* Types.
LEMMA ChargeTypes ==
  ASSUME TypeOK, state # Nothing, NEW c \in Cpu, cpu[c] # Nothing, NEW t \in Nat
  PROVE  /\ state \in RuleState
         /\ cpu[c] \in Matched
         /\ Counted(Refilled(state, t)) \in RuleState
         /\ Counted(Refilled(state, t)).tokens = Refilled(state, t).tokens
         /\ Counted(Refilled(state, t)).last = Refilled(state, t).last
         /\ Counted(Refilled(state, t)).rate = state.rate
         /\ Counted(Refilled(state, t)).burst = state.burst
<1>1. state \in RuleState /\ cpu[c] \in Matched
  BY DEF TypeOK
<1>2. Refilled(state, t) \in RuleState
      /\ Refilled(state, t).rate = state.rate /\ Refilled(state, t).burst = state.burst
  BY <1>1, RefilledFields
<1> QED BY <1>1, <1>2 DEF Counted, RuleState

LEMMA UpsertedType ==
  ASSUME NEW old \in RuleState \cup {Nothing}, NEW p \in Params
  PROVE  /\ Upserted(old, p) \in RuleState
         /\ Upserted(old, p).rate = p.rate /\ Upserted(old, p).burst = p.burst
         /\ Upserted(old, p).last = IF old = Nothing THEN 0 ELSE old.last
BY BucketAssumption DEF Upserted, RuleState

LEMMA OldestType ==
  ASSUME TypeOK
  PROVE  Oldest \subseteq Nat
BY DEF Oldest, TypeOK, Matched

\* Every step keeps the types.
LEMMA TypeStep == TypeOK /\ [BucketNext]_bucketVars => TypeOK'
<1> SUFFICES ASSUME TypeOK, [BucketNext]_bucketVars PROVE TypeOK'
  OBVIOUS
<1> USE DEF stepVars, ghostVars, bucketCounters
<1>1. CASE Tick
  BY <1>1 DEF Tick, TypeOK
<1>2. ASSUME NEW c \in Cpu, NEW size \in Size, Match(c, size) PROVE TypeOK'
  <2>1. [action |-> ref, size |-> size, since |-> now] \in Matched
    BY <1>2 DEF Match, TypeOK, Matched
  <2> QED BY <1>2, <2>1 DEF Match, TypeOK
<1>3. ASSUME NEW c \in Cpu, NEW t \in 0..now, Charge(c, t) PROVE TypeOK'
  <2> DEFINE s == Counted(Refilled(state, t))
             k == cpu[c]
  <2>0. state # Nothing /\ k # Nothing /\ t \in Nat
    BY <1>3 DEF Charge, TypeOK
  <2>1. s \in RuleState /\ k \in Matched
    BY <2>0, ChargeTypes
  <2>2. s.tokens \in Nat /\ s.last \in Nat /\ s.dropped \in Nat /\ k.size \in Nat
        /\ k.size \in Size
    BY <2>1, BucketAssumption DEF RuleState, Matched
  <2>3. state' \in RuleState /\ passed' \in Nat /\ mark' \in Nat
        /\ refused' \in [size : Size, stamp : Nat] \cup {Nothing}
    <3>1. CASE Pass(s, k)
      <4>1. s.tokens - k.size \in Nat
        BY <2>2, <3>1 DEF Pass
      <4>2. state' \in RuleState
        BY <2>1, <3>1, <4>1 DEF Pass, RuleState
      <4> QED BY <2>2, <3>1, <4>2 DEF Pass, TypeOK
    <3>2. CASE Drop(s, k, t)
      <4>1. state' \in RuleState
        BY <2>1, <3>2 DEF Drop, RuleState
      <4>2. refused' \in [size : Size, stamp : Nat] \cup {Nothing}
        BY <2>0, <2>2, <3>2 DEF Drop, TypeOK
      <4> QED BY <3>2, <4>1, <4>2 DEF Drop, TypeOK
    <3> QED BY <1>3, <3>1, <3>2 DEF Charge
  <2> QED BY <1>3, <2>3 DEF Charge, TypeOK
<1>4. ASSUME NEW c \in Cpu, Missing(c) PROVE TypeOK'
  BY <1>4 DEF Missing, TypeOK
<1>5. ASSUME NEW p \in Params \cup {Nothing}, ChangeRule(p) PROVE TypeOK'
  BY <1>5 DEF ChangeRule, TypeOK
<1>6. CASE ReadState
  BY <1>6 DEF ReadState, TypeOK
<1>7. CASE StoreState
  <2>0. want \in Params /\ holding \in RuleState \cup {Nothing}
    BY <1>7 DEF StoreState, Done, TypeOK
  <2>1. Upserted(holding, want) \in RuleState
    BY <2>0, UpsertedType
  <2>2. Most(Upserted(holding, want).tokens, want.burst) \in Nat
        /\ Upserted(holding, want).last \in Nat
    BY <2>0, <2>1, BucketAssumption DEF Most, RuleState
  <2>3. opened' \in Nat
    BY <1>7, OldestType DEF StoreState
  <2>4. step' \in {"idle", "match"} /\ inForce' \in Params \cup {Nothing}
        /\ (step' = "match" => want' # Nothing)
    BY <1>7, <2>0, NothingAssumption DEF StoreState, Done, TypeOK
  <2> QED BY <1>7, <2>1, <2>2, <2>3, <2>4 DEF StoreState, Done, TypeOK
<1>8. CASE PutMatch
  <2>1. ActionOf(want) \in Action
    BY DEF ActionOf, Action
  <2> QED BY <1>8, <2>1 DEF PutMatch, Done, TypeOK
<1>9. CASE DropMatch
  BY <1>9 DEF DropMatch, TypeOK
<1>10. CASE DropState
  BY <1>10 DEF DropState, Done, TypeOK
<1>11. CASE RefuseRemoval
  BY <1>11 DEF RefuseRemoval, GiveUp, TypeOK
<1>12. CASE FailMap
  BY <1>12 DEF FailMap, GiveUp, TypeOK
<1>13. CASE UNCHANGED bucketVars
  BY <1>13 DEF bucketVars, TypeOK
<1> QED BY <1>1, <1>2, <1>3, <1>4, <1>5, <1>6, <1>7, <1>8, <1>9, <1>10, <1>11, <1>12,
           <1>13 DEF BucketNext

\* The bucket and the packets on their way to it keep their types: no
\* interleaving of CPUs spends more tokens than enforce has checked for.
THEOREM BucketTypes == BucketSpec => []TypeOK
<1>1. BucketInit => TypeOK
  BY DEF BucketInit, TypeOK
<1> QED BY <1>1, TypeStep, PTL DEF BucketSpec

-----------------------------------------------------------------------------
\* Every step keeps the invariant.
LEMMA ChargeStep ==
  ASSUME TypeOK, Inv, NEW c \in Cpu, NEW t \in 0..now, Charge(c, t)
  PROVE  Inv'
<1> DEFINE r == Refilled(state, t)
           s == Counted(Refilled(state, t))
           k == cpu[c]
<1>0. /\ state # Nothing /\ k # Nothing /\ t \in Nat
      /\ opened \in Nat /\ top \in Nat /\ passed \in Nat /\ mark \in Nat
      /\ opened <= t /\ t <= now /\ now \in Nat
  <2>1. cpu[c] # Nothing /\ state # Nothing /\ cpu[c].since <= t /\ t <= now
    BY DEF Charge
  <2>2. cpu[c].since \in Nat
    BY <2>1 DEF TypeOK, Matched
  <2>3. opened <= cpu[c].since
    BY <2>1 DEF Inv, FlightInv
  <2>4. now \in Nat /\ opened \in Nat /\ top \in Nat /\ passed \in Nat /\ mark \in Nat
    BY DEF TypeOK
  <2> QED BY <2>1, <2>2, <2>3, <2>4
<1>1. /\ state \in RuleState /\ k \in Matched /\ k.size \in Nat /\ s \in RuleState
      /\ s.tokens = r.tokens /\ s.last = r.last /\ s.rate = state.rate
      /\ s.burst = state.burst
  BY <1>0, ChargeTypes, BucketAssumption DEF Matched
<1>2. /\ r \in RuleState /\ r.rate = state.rate /\ r.burst = state.burst
      /\ r.last = state.last \/ r.last = t
  BY <1>0, <1>1, RefilledFields, GainFacts
<1>3. /\ Within(state, opened, top, passed) /\ Earning(state, mark)
      /\ RefusedInv(state, mark, refused) /\ state.last <= now /\ opened <= now
  BY <1>0 DEF Inv, BucketInv, FlightInv
<1>4. Within(r, opened, top, passed)
      /\ (r.last < opened => state.rate * (opened - state.last) < Second)
  BY <1>0, <1>1, <1>3, RefillWithin
<1>5. Earning(r, mark)
  BY <1>0, <1>1, <1>3, RefillEarning
<1>6. r.last <= now /\ r.last \in Nat /\ r.tokens \in Nat /\ r.rate \in Nat /\ r.burst \in Nat
  BY <1>0, <1>2, <1>3 DEF RuleState
<1>7. FlightInv' /\ HeldInv'
  BY DEF Charge, Inv, FlightInv, HeldInv, stepVars
<1>8. CASE Pass(s, k)
  <2>1. /\ state' = [s EXCEPT !.tokens = s.tokens - k.size]
        /\ passed' = passed + k.size /\ mark' = s.last /\ refused' = Nothing
        /\ s.tokens >= k.size
    BY <1>8 DEF Pass
  <2>2. /\ state'.tokens = r.tokens - k.size /\ state'.last = r.last
        /\ state'.rate = r.rate /\ state'.burst = r.burst
    BY <1>1, <1>2, <2>1 DEF RuleState
  <2>3. /\ passed' + state'.tokens = passed + r.tokens
        /\ state'.tokens <= r.tokens /\ state'.tokens \in Nat
    BY <1>0, <1>1, <1>6, <2>1, <2>2
  <2>4. r.last < opened => r.rate * (opened - r.last) < Second
    <3>1. r.last < opened => r.last = state.last
      BY <1>0, <1>2
    <3> QED BY <1>2, <1>4, <3>1
  <2>5. Within(state', opened, top, passed')
    BY <1>0, <1>4, <1>6, <2>2, <2>3, <2>4 DEF Within
  <2>6. Earning(state', mark')
    <3>1. mark' = r.last
      BY <1>1, <2>1
    <3>2. state'.rate * (state'.last - mark') = 0
      BY <1>6, <2>2, <3>1
    <3>3. Second * state'.tokens \in Nat
      BY <2>3, ProductNat, BucketAssumption
    <3> QED BY <1>5, <1>6, <2>2, <3>1, <3>2, <3>3 DEF Earning
  <2>7. RefusedInv(state', mark', refused')
    BY <2>1 DEF RefusedInv
  <2>8. opened' = opened /\ top' = top /\ now' = now
    BY DEF Charge
  <2> QED BY <1>3, <1>6, <1>7, <2>2, <2>5, <2>6, <2>7, <2>8 DEF Inv, BucketInv
<1>9. CASE Drop(s, k, t)
  <2>1. /\ state' = [s EXCEPT !.dropped = s.dropped + 1]
        /\ passed' = passed /\ mark' = mark
        /\ k.action = "block" \/ s.tokens < k.size
    BY <1>9 DEF Drop
  <2>2. /\ state'.tokens = r.tokens /\ state'.last = r.last
        /\ state'.rate = r.rate /\ state'.burst = r.burst
    BY <1>1, <1>2, <2>1 DEF RuleState
  <2>3. Within(state', opened, top, passed')
    BY <1>4, <2>1, <2>2 DEF Within
  <2>4. Earning(state', mark')
    BY <1>5, <2>1, <2>2 DEF Earning
  <2>5. RefusedInv(state', mark', refused')
    <3>1. CASE k.action = "limit"
      <4>1. refused' = [size |-> k.size, stamp |-> t] /\ r.tokens < k.size
        BY <1>1, <1>9, <2>1, <3>1 DEF Drop
      <4>2. k.size <= state.burst => state.rate * (t - mark) < Second * (2 * k.size + 1)
        BY <1>0, <1>1, <1>3, <4>1, RefusedBound
      <4> QED BY <1>2, <2>1, <2>2, <4>1, <4>2 DEF RefusedInv
    <3>2. CASE k.action # "limit"
      BY <1>2, <1>3, <1>9, <2>1, <2>2, <3>2 DEF Drop, RefusedInv
    <3> QED BY <3>1, <3>2
  <2>6. opened' = opened /\ top' = top /\ now' = now
    BY DEF Charge
  <2> QED BY <1>3, <1>6, <1>7, <2>2, <2>3, <2>4, <2>5, <2>6 DEF Inv, BucketInv
<1> QED BY <1>8, <1>9 DEF Charge

LEMMA StoredWithin ==
  ASSUME NEW s \in RuleState, NEW o \in Nat, NEW u \in Nat, s.tokens <= u, s.burst <= u
  PROVE  Within(s, o, u, 0)
<1>0. /\ s.rate \in Nat /\ s.tokens \in Nat /\ s.last \in Nat
      /\ Second \in Nat /\ 0 + s.tokens = s.tokens
  BY BucketAssumption DEF RuleState
<1>1. Second * s.tokens <= Second * u
  BY <1>0, ProductGrows
<1>2. Second * (u + 1) = Second * u + Second
  BY <1>0, Z3
<1>3. ~(s.last < o) => s.rate * (s.last - o) \in Nat
  BY <1>0, ProductNat
<1>4. Second * s.tokens \in Nat /\ Second * u \in Nat
  BY <1>0, ProductNat
<1> QED BY <1>0, <1>1, <1>2, <1>3, <1>4 DEF Within

LEMMA StoreStep ==
  ASSUME TypeOK, Inv, StoreState
  PROVE  Inv'
<1> DEFINE s == Upserted(holding, want)
<1>0. want \in Params /\ holding \in RuleState \cup {Nothing} /\ now \in Nat
  BY DEF StoreState, TypeOK
<1>1. /\ s \in RuleState /\ s.rate = want.rate /\ s.burst = want.burst
      /\ s.last = IF holding = Nothing THEN 0 ELSE holding.last
  BY <1>0, UpsertedType
<1>2. /\ state' = s /\ top' = Most(s.tokens, want.burst) /\ passed' = 0
      /\ mark' = s.last /\ refused' = Nothing /\ holding' = Nothing /\ now' = now /\ cpu' = cpu
      /\ opened' \in Oldest /\ \A u \in Oldest : opened' <= u
  BY DEF StoreState
<1>3. /\ s.rate \in Nat /\ s.burst \in Nat /\ s.tokens \in Nat /\ s.last \in Nat
      /\ s.last <= now /\ opened' \in Nat /\ opened' <= now /\ top' \in Nat
      /\ s.tokens <= top' /\ s.burst <= top' /\ s.burst <= s.rate
      /\ Second \in Nat
  BY <1>0, <1>1, <1>2, OldestType, BucketAssumption
     DEF Inv, HeldInv, RuleState, Most, Oldest
<1>4. FlightInv'
  BY <1>2 DEF Inv, FlightInv, Oldest
<1>5. Within(state', opened', top', passed')
  BY <1>1, <1>2, <1>3, StoredWithin
<1>6. Earning(state', mark')
  <2>1. s.rate * (s.last - s.last) = 0
    BY <1>3
  <2>2. Second * s.tokens \in Nat
    BY <1>3, ProductNat, BucketAssumption
  <2> QED BY <1>2, <1>3, <2>1, <2>2 DEF Earning
<1>7. RefusedInv(state', mark', refused')
  BY <1>2 DEF RefusedInv
<1> QED BY <1>2, <1>3, <1>4, <1>5, <1>6, <1>7 DEF Inv, HeldInv, BucketInv

LEMMA InvStep == TypeOK /\ Inv /\ [BucketNext]_bucketVars => Inv'
<1> SUFFICES ASSUME TypeOK, Inv, [BucketNext]_bucketVars PROVE Inv'
  OBVIOUS
<1> USE DEF stepVars, ghostVars, bucketCounters
<1>1. CASE Tick
  <2>1. now' = now + 1 /\ now \in Nat /\ opened \in Nat
    BY <1>1 DEF Tick, TypeOK
  <2>2. state # Nothing => state.last \in Nat
    BY DEF TypeOK, RuleState
  <2>3. holding # Nothing => holding.last \in Nat
    BY DEF TypeOK, RuleState
  <2>4. \A c \in Cpu : cpu[c] # Nothing => cpu[c].since \in Nat
    BY DEF TypeOK, Matched
  <2> QED BY <1>1, <2>1, <2>2, <2>3, <2>4
          DEF Tick, Inv, FlightInv, HeldInv, BucketInv
<1>2. ASSUME NEW c \in Cpu, NEW size \in Size, Match(c, size) PROVE Inv'
  <2>1. opened <= now /\ now \in Nat
    BY DEF TypeOK, Inv, FlightInv
  <2>2. FlightInv'
    BY <1>2, <2>1 DEF Match, TypeOK, Inv, FlightInv
  <2> QED BY <1>2, <2>2 DEF Match, Inv, HeldInv, BucketInv
<1>3. ASSUME NEW c \in Cpu, NEW t \in 0..now, Charge(c, t) PROVE Inv'
  BY <1>3, ChargeStep
<1>4. ASSUME NEW c \in Cpu, Missing(c) PROVE Inv'
  BY <1>4 DEF Missing, Inv, FlightInv, HeldInv, BucketInv, TypeOK
<1>5. ASSUME NEW p \in Params \cup {Nothing}, ChangeRule(p) PROVE Inv'
  BY <1>5 DEF ChangeRule, Inv, FlightInv, HeldInv, BucketInv
<1>6. CASE ReadState
  BY <1>6 DEF ReadState, Inv, FlightInv, HeldInv, BucketInv
<1>7. CASE StoreState
  BY <1>7, StoreStep
<1>8. CASE PutMatch
  BY <1>8 DEF PutMatch, Done, Inv, FlightInv, HeldInv, BucketInv
<1>9. CASE DropMatch
  BY <1>9 DEF DropMatch, Inv, FlightInv, HeldInv, BucketInv
<1>10. CASE DropState
  BY <1>10 DEF DropState, Done, Inv, FlightInv, HeldInv, BucketInv
<1>11. CASE RefuseRemoval
  BY <1>11 DEF RefuseRemoval, GiveUp, Inv, FlightInv, HeldInv, BucketInv
<1>12. CASE FailMap
  BY <1>12 DEF FailMap, GiveUp, Inv, FlightInv, HeldInv, BucketInv
<1>13. CASE UNCHANGED bucketVars
  BY <1>13 DEF bucketVars, Inv, FlightInv, HeldInv, BucketInv
<1> QED BY <1>1, <1>2, <1>3, <1>4, <1>5, <1>6, <1>7, <1>8, <1>9, <1>10, <1>11, <1>12,
           <1>13 DEF BucketNext

\* What enforce and refill keep of a bucket between two stores of its parameters.
THEOREM BucketInvariant == BucketSpec => []Inv
<1>1. BucketInit => Inv
  BY DEF BucketInit, Inv, FlightInv, HeldInv, BucketInv
<1> QED BY <1>1, BucketTypes, InvStep, PTL DEF BucketSpec

\* A limit holds: bytes that passed, and so could pass, stay within a full bucket,
\* the rate over the time and one byte, on whatever CPUs enforce ran.
THEOREM BucketLimitHolds == BucketSpec => []LimitHolds
<1>1. TypeOK /\ Inv => LimitHolds
  <2> SUFFICES ASSUME TypeOK, Inv, state # Nothing
               PROVE  Second * passed <= Second * (top + 1) + state.rate * (now - opened)
    BY DEF LimitHolds
  <2>0. /\ state.rate \in Nat /\ state.tokens \in Nat /\ state.last \in Nat
        /\ Second \in Nat /\ passed \in Nat /\ top \in Nat /\ opened \in Nat /\ now \in Nat
    BY BucketAssumption DEF TypeOK, RuleState
  <2>1. Within(state, opened, top, passed) /\ state.last <= now /\ opened <= now
    BY DEF Inv, BucketInv, FlightInv
  <2>2. Second * passed <= Second * (passed + state.tokens)
    BY <2>0, ProductGrows
  <2>3. Second * top <= Second * (top + 1)
    BY <2>0, ProductGrows
  <2>4. state.rate * (state.last - opened) <= state.rate * (now - opened)
    BY <2>0, <2>1, ProductGrows
  <2>5. state.rate * (now - opened) \in Nat /\ Second * passed \in Nat
        /\ Second * (passed + state.tokens) \in Nat /\ Second * top \in Nat
        /\ Second * (top + 1) \in Nat
    BY <2>0, <2>1, ProductNat
  <2>6. state.rate * (state.last - opened) \in Int
    BY <2>0
  <2> QED BY <2>0, <2>1, <2>2, <2>3, <2>4, <2>5, <2>6 DEF Within
<1> QED BY <1>1, BucketTypes, BucketInvariant, PTL

\* A limit does not starve: refill never loses more than it adds, however often
\* packets that are dropped call it.
THEOREM BucketHalfTheRate == BucketSpec => []HalfTheRate
<1>1. Inv => HalfTheRate
  BY DEF Inv, BucketInv, RefusedInv, HalfTheRate
<1> QED BY <1>1, BucketInvariant, PTL

-----------------------------------------------------------------------------
MAX_RATE_BYTES_PER_S == 10 * 1024 * 1024 * 1024

\* The product in refill fits its 64 bits, at the largest rate validate accepts
\* and the second the elapsed time is capped at.
THEOREM RefillFits ==
  ASSUME NEW s \in RuleState, NEW t \in Nat,
         Second = 1000000000, s.rate <= MAX_RATE_BYTES_PER_S
  PROVE  Elapsed(s, t) * s.rate < 18446744073709551616
<1>1. s.rate \in Nat /\ s.last \in Nat /\ s.rate <= 10737418240
  BY DEF RuleState, MAX_RATE_BYTES_PER_S
<1>2. Elapsed(s, t) \in Nat /\ Elapsed(s, t) <= 1000000000
  BY <1>1 DEF Elapsed, Least
<1>3. s.rate * Elapsed(s, t) <= s.rate * 1000000000
  BY <1>1, <1>2, ProductGrows
<1>4. s.rate * 1000000000 < 18446744073709551616
  BY <1>1
<1>5. Elapsed(s, t) * s.rate = s.rate * Elapsed(s, t)
  BY <1>1, <1>2, Z3
<1>6. s.rate * Elapsed(s, t) \in Nat /\ s.rate * 1000000000 \in Nat
  BY <1>1, <1>2, ProductNat
<1> QED BY <1>3, <1>4, <1>5, <1>6
=============================================================================
