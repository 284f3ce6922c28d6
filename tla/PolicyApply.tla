----------------------------- MODULE PolicyApply -----------------------------
(***************************************************************************)
(* The collector worker applying compiled programs to the policy maps      *)
(* (CollectorCore::apply_policy in zimascoped/src/collector/mod.rs and     *)
(* AyaKernelSource::apply_policy in collector/aya.rs).                     *)
(*                                                                         *)
(* Packets read the maps between any two map operations, so every          *)
(* operation is a step of its own.  The first operation that fails ends    *)
(* the apply: what was done stays done and the previous program stays the  *)
(* one the next difference starts from.                                    *)
(***************************************************************************)
EXTENDS PolicyProgram

CONSTANTS
  MatchCapacity,   \* entries one match map holds (64)
  StateCapacity,   \* entries rule_states holds (128)
  MaxFaults,       \* bound: map operations the kernel may fail for no reason of ours
  Programs         \* the programs offered to the worker

ASSUME ApplyAssumption ==
  /\ MatchCapacity \in Nat /\ StateCapacity \in Nat /\ MaxFaults \in Nat
  /\ Programs \subseteq Program

VARIABLES
  kmatch,      \* the eight match maps: entry -> rule reference or None
  kstate,      \* rule_states: rule, direction -> parameters or None
  kconfig,     \* policy_config[0]
  applied,     \* applied_policy: the last program applied with success
  worker,      \* "idle" or "applying"
  target,      \* the program being applied (applied while idle)
  todo,        \* the operations of the difference that are left
  configured,  \* the SetEnabled operation of this apply is done
  outcome,     \* what the last apply replied: "none", "ok" or "failed"
  faults,      \* bound: kernel faults so far
  tainted      \* history: an apply has failed, or two rules shared a match entry

kernel == <<kmatch, kstate, kconfig>>
applyVars == <<kmatch, kstate, kconfig, applied, worker, target, todo,
               configured, outcome, faults, tainted>>

ApplyInit ==
  /\ kmatch = [e \in MatchEntry |-> None]
  /\ kstate = [r \in RuleId |-> [d \in Direction |-> None]]
  /\ kconfig = [enabled |-> FALSE, app |-> FALSE, endpoint |-> FALSE, revision |-> 0]
  /\ applied = EmptyProgram
  /\ worker = "idle"
  /\ target = EmptyProgram
  /\ todo = {}
  /\ configured = FALSE
  /\ outcome = "none"
  /\ faults = 0
  /\ tainted = FALSE

\* A new process starts from there: the hooks and the maps went with the old one.
ApplyReset ==
  /\ kmatch' = [e \in MatchEntry |-> None]
  /\ kstate' = [r \in RuleId |-> [d \in Direction |-> None]]
  /\ kconfig' = [enabled |-> FALSE, app |-> FALSE, endpoint |-> FALSE, revision |-> 0]
  /\ applied' = EmptyProgram /\ target' = EmptyProgram
  /\ worker' = "idle" /\ todo' = {} /\ configured' = FALSE /\ outcome' = "none"
  /\ faults' = 0 /\ tainted' = FALSE

-----------------------------------------------------------------------------
\* The worker takes a program and computes the difference.
Begin(p) ==
  /\ worker = "idle"
  /\ worker' = "applying"
  /\ target' = p
  /\ todo' = Diff(applied, p)
  /\ configured' = FALSE
  /\ tainted' = (tainted \/ ~Apart(applied, p) \/ ~Apart(p, p))
  /\ UNCHANGED <<kmatch, kstate, kconfig, applied, outcome, faults>>

\* The next operation of the list, whose SetEnabled comes first when it
\* disables and last otherwise.
ConfigTurn ==
  /\ worker = "applying"
  /\ ~configured
  /\ Disabling(applied, target) \/ todo = {}

\* Variant: the list is carried out in its order, but the switch goes last even
\* when it disables.
TurnBeforeSwitch(op) ==
  /\ worker = "applying"
  /\ op \in todo
  /\ \A q \in todo : ~Precedes(q, op, target)

Turn(op) ==
  /\ worker = "applying"
  /\ op \in todo
  /\ Disabling(applied, target) => configured
  /\ \A q \in todo : ~Precedes(q, op, target)

\* A map refuses to remove an absent key and to add a key when it is full.
MapOf(e) == {f \in MatchEntry : f.dir = e.dir /\ KindOf[f.target] = KindOf[e.target]}
MatchRoom(e) ==
  kmatch[e] # None \/ Cardinality({f \in MapOf(e) : kmatch[f] # None}) < MatchCapacity
StateRoom(r, d) ==
  \/ kstate[r][d] # None
  \/ Cardinality({k \in RuleId \X Direction : kstate[k[1]][k[2]] # None}) < StateCapacity

Accepted(op) ==
  \/ op.kind = "UpsertState" /\ StateRoom(op.id, op.dir)
  \/ op.kind = "RemoveState" /\ kstate[op.id][op.dir] # None
  \/ op.kind = "UpsertMatch" /\ MatchRoom(op.entry)
  \/ op.kind = "RemoveMatch" /\ kmatch[op.entry] # None

SetState(op, v) == /\ kstate' = [kstate EXCEPT ![op.id][op.dir] = v]
                   /\ UNCHANGED kmatch
SetMatch(op, v) == /\ kmatch' = [kmatch EXCEPT ![op.entry] = v]
                   /\ UNCHANGED kstate

ApplyOp(op) ==
  /\ Turn(op)
  /\ Accepted(op)
  /\ \/ op.kind = "UpsertState" /\ SetState(op, target.rules[op.id].rate)
     \/ op.kind = "RemoveState" /\ SetState(op, None)
     \/ op.kind = "UpsertMatch" /\ SetMatch(op, RefTo(op.id, target.rules[op.id]))
     \/ op.kind = "RemoveMatch" /\ SetMatch(op, None)
  /\ todo' = todo \ {op}
  /\ UNCHANGED <<kconfig, applied, worker, target, configured, outcome, faults, tainted>>

ApplyConfig ==
  /\ ConfigTurn
  /\ kconfig' = ConfigOf(target)
  /\ configured' = TRUE
  /\ UNCHANGED <<kmatch, kstate, applied, worker, target, todo, outcome, faults, tainted>>

\* The error leaves apply_policy: applied_policy keeps its value.
Abort ==
  /\ worker' = "idle"
  /\ target' = applied
  /\ todo' = {}
  /\ configured' = FALSE
  /\ outcome' = "failed"
  /\ tainted' = TRUE
  /\ UNCHANGED <<kmatch, kstate, kconfig, applied>>

Refuse == /\ \E op \in todo : Turn(op) /\ ~Accepted(op)
          /\ Abort
          /\ UNCHANGED faults

Fault == /\ faults < MaxFaults
         /\ ConfigTurn \/ \E op \in todo : Turn(op)
         /\ faults' = faults + 1
         /\ Abort

Commit ==
  /\ worker = "applying"
  /\ todo = {}
  /\ configured
  /\ applied' = target
  /\ worker' = "idle"
  /\ configured' = FALSE
  /\ outcome' = "ok"
  /\ UNCHANGED <<kmatch, kstate, kconfig, target, todo, faults, tainted>>

ApplyStep == \/ \E op \in todo : ApplyOp(op)
             \/ ApplyConfig
             \/ Refuse
             \/ Fault
             \/ Commit

ApplyNext == ApplyStep \/ \E p \in Programs : Begin(p)

ApplySpec == ApplyInit /\ [][ApplyNext]_applyVars

-----------------------------------------------------------------------------
\* What a packet that carries match entry e meets (evaluate in
\* zimascope-ebpf/src/policy.rs): a rule reference counts when the switch and
\* the flag of its kind of map are set and the rule has its state.
Enforcing(e) ==
  /\ kconfig.enabled
  /\ IF KindOf[e.target] \in AppKind THEN kconfig.app ELSE kconfig.endpoint
  /\ kmatch[e] # None
  /\ kstate[kmatch[e].id][e.dir] # None

\* Every variable holds a value of its type.
ApplyTypeOK ==
  /\ kmatch \in [MatchEntry -> RuleRef \cup {None}]
  /\ kstate \in [RuleId -> [Direction -> Rate \cup {NoRate, None}]]
  /\ kconfig \in PolicyConfig
  /\ applied \in Program
  /\ worker \in {"idle", "applying"}
  /\ target \in Program
  /\ todo \subseteq PolicyOp
  /\ configured \in BOOLEAN
  /\ outcome \in {"none", "ok", "failed"}
  /\ faults \in 0 .. MaxFaults
  /\ tainted \in BOOLEAN

\* Between two applies the maps hold exactly the applied program: every match
\* entry of its rules and no other, the parameters of every rule, the switch.
\* CollectorCore::apply_policy computes the next difference from applied_policy
\* alone and never reads the maps, so each later apply relies on this.
ApplyExact ==
  worker = "idle" /\ ~tainted =>
    /\ \A e \in MatchEntry : Installs(applied, e, kmatch[e])
    /\ \A r \in RuleId, d \in Direction :
         HasState(applied.rules[r], d) => kstate[r][d] = applied.rules[r].rate
    /\ kconfig = ConfigOf(applied)

\* While the maps change, each match entry is still the one of the old program
\* or already the one of the new: no packet meets a rule of neither program
\* (the ordering comment of diff in policy/mod.rs).
OldOrNew ==
  ~tainted => \A e \in MatchEntry : \/ Installs(applied, e, kmatch[e])
                                    \/ Installs(target, e, kmatch[e])

\* A match entry never refers to a rule without its state: additions insert the
\* state first, removals delete the entries first, so the packet path never
\* counts policy_missing_state (enforce in zimascope-ebpf/src/policy.rs).
MatchHasState ==
  ~tainted => \A e \in MatchEntry :
    kmatch[e] # None => kstate[kmatch[e].id][e.dir] # None

\* Every key the worker is about to remove is in its map.  The kernel fails the
\* removal of an absent key, and that error ends the apply with the rest of the
\* list undone (bpf_map_delete_elem behind remove in collector/aya.rs).
RemovalsFindTheirKey ==
  ~tainted => \A op \in todo :
    /\ op.kind = "RemoveMatch" => kmatch[op.entry] # None
    /\ op.kind = "RemoveState" => kstate[op.id][op.dir] # None

\* The switch is off before the first map operation of an apply that turns
\* enforcement off, and stays off until the last of one that turns it on.
\* The first half holds after any failure too.
SwitchGuards ==
  worker = "applying" =>
    /\ Disabling(applied, target) /\ todo # Diff(applied, target) => ~kconfig.enabled
    /\ ~tainted /\ ~applied.enabled /\ kconfig.enabled => todo = {}
=============================================================================
