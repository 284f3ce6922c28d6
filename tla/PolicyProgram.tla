---------------------------- MODULE PolicyProgram ----------------------------
(***************************************************************************)
(* Compiled Traffic Rule programs and the kernel-map operations that lead  *)
(* from one program to another (zimascoped/src/policy/mod.rs).             *)
(*                                                                         *)
(* A match entry is a target seen in one direction.  A limit's rate and    *)
(* burst are one value of Rate, and a block carries NoRate, the (0, 0)     *)
(* pair of the code.  The list diff builds is kept as a set of operations  *)
(* and the order Precedes on it: the order of the entries inside one       *)
(* rule's list is left open, the order between rules, and between the      *)
(* kinds of operation of one rule, is the code's.                          *)
(***************************************************************************)
EXTENDS Naturals, FiniteSets

CONSTANTS
  RuleId,         \* the row ids of traffic_rules
  Target,         \* MatchTarget: endpoints, prefixes, cgroups, process names
  KindOf,         \* the pair of match maps (ingress, egress) that holds a target
  Rate,           \* the (rate, burst) parameters of a limit
  NoRate,         \* the parameters of a block
  None            \* an absent rule, match entry or rule state

AppKind == {"app_cgroup", "app_comm"}
MapKind == AppKind \cup {"endpoint_exact", "endpoint_cidr"}
Direction == {"inbound", "outbound"}

MatchEntry == [target : Target, dir : Direction]
RuleRef == [id : RuleId, action : {"limit", "block"}]

CompiledRule == [action : {"limit", "block"}, rate : Rate \cup {NoRate},
                 targets : SUBSET Target, dirs : SUBSET Direction]

Program == [revision : Nat, enabled : BOOLEAN,
            rules : [RuleId -> CompiledRule \cup {None}]]

PolicyConfig == [enabled : BOOLEAN, app : BOOLEAN, endpoint : BOOLEAN,
                 revision : Nat]

ASSUME ProgramAssumption ==
  /\ RuleId \subseteq Nat
  /\ KindOf \in [Target -> MapKind]
  /\ None \notin CompiledRule
  /\ None \notin RuleRef
  /\ None \notin Rate \cup {NoRate}

-----------------------------------------------------------------------------
\* What one compiled rule, or its absence, puts in the maps.
Owns(rule, e) == rule # None /\ e.target \in rule.targets /\ e.dir \in rule.dirs
HasState(rule, dir) == rule # None /\ dir \in rule.dirs

RefTo(id, rule) == [id |-> id, action |-> rule.action]

Uses(p, kinds) ==
  \E r \in RuleId : /\ p.rules[r] # None
                    /\ \E t \in p.rules[r].targets : KindOf[t] \in kinds

ConfigOf(p) == [enabled  |-> p.enabled,
                app      |-> Uses(p, AppKind),
                endpoint |-> Uses(p, MapKind \ AppKind),
                revision |-> p.revision]

EmptyProgram == [revision |-> 0, enabled |-> FALSE,
                 rules |-> [r \in RuleId |-> None]]

\* The value v of match entry e is the one program p puts there.
Installs(p, e, v) ==
  \/ \E r \in RuleId : Owns(p.rules[r], e) /\ v = RefTo(r, p.rules[r])
  \/ v = None /\ \A r \in RuleId : ~Owns(p.rules[r], e)

\* No match entry of a rule of p is an entry of another rule of q.  Nothing in
\* the code makes this so: two rules may name the same selector.
Apart(p, q) ==
  \A r, s \in RuleId : \A e \in MatchEntry :
    Owns(p.rules[r], e) /\ Owns(q.rules[s], e) => r = s

-----------------------------------------------------------------------------
\* The operations on rule states and on match entries.
StateOp == [kind : {"UpsertState", "RemoveState"}, id : RuleId, dir : Direction]
MatchOp == [kind : {"UpsertMatch", "RemoveMatch"}, id : RuleId, entry : MatchEntry]
PolicyOp == StateOp \cup MatchOp

\* Variant: both directions of a rule that is gone are removed, had or not.
StateChangeBothWays(op, before, after) ==
  \/ /\ op.kind = "UpsertState"
     /\ HasState(after, op.dir)
     /\ ~(HasState(before, op.dir) /\ before.rate = after.rate)
  \/ /\ op.kind = "RemoveState"
     /\ before # None
     /\ after = None

\* A rule that stays and loses a direction keeps its old state entry: only the
\* states of a rule that is gone are removed.
StateChange(op, before, after) ==
  \/ /\ op.kind = "UpsertState"
     /\ HasState(after, op.dir)
     /\ ~(HasState(before, op.dir) /\ before.rate = after.rate)
  \/ /\ op.kind = "RemoveState"
     /\ HasState(before, op.dir)
     /\ after = None

\* Variant: an entry the rule had is left alone, whatever its action is now.
MatchChangeKeepsAction(op, before, after) ==
  \/ /\ op.kind = "UpsertMatch"
     /\ Owns(after, op.entry)
     /\ ~Owns(before, op.entry)
  \/ /\ op.kind = "RemoveMatch"
     /\ Owns(before, op.entry)
     /\ ~Owns(after, op.entry)

\* Variant: the old entries go, those the new program keeps included.
MatchChangeDropsAll(op, before, after) ==
  \/ /\ op.kind = "UpsertMatch"
     /\ Owns(after, op.entry)
     /\ ~(Owns(before, op.entry) /\ before.action = after.action)
  \/ /\ op.kind = "RemoveMatch"
     /\ Owns(before, op.entry)

MatchChange(op, before, after) ==
  \/ /\ op.kind = "UpsertMatch"
     /\ Owns(after, op.entry)
     /\ ~(Owns(before, op.entry) /\ before.action = after.action)
  \/ /\ op.kind = "RemoveMatch"
     /\ Owns(before, op.entry)
     /\ ~Owns(after, op.entry)

\* The operations of diff, but for the SetEnabled that opens or closes them.
Diff(prev, next) ==
  {op \in StateOp : StateChange(op, prev.rules[op.id], next.rules[op.id])}
    \cup {op \in MatchOp : MatchChange(op, prev.rules[op.id], next.rules[op.id])}

Disabling(prev, next) == prev.enabled /\ ~next.enabled

\* Variant: entries before their state, on the way in and on the way out.
StageEntriesFirst == [UpsertMatch |-> 1, UpsertState |-> 2, RemoveState |-> 3, RemoveMatch |-> 4]

\* The order of diff: the rules that are gone first, then the rules of the new
\* program, each in id order; within one rule, by kind of operation.
Stage == [UpsertState |-> 1, UpsertMatch |-> 2, RemoveMatch |-> 3, RemoveState |-> 4]

Precedes(o, q, next) ==
  LET gone(op) == next.rules[op.id] = None
  IN  \/ gone(o) /\ ~gone(q)
      \/ /\ gone(o) <=> gone(q)
         /\ \/ o.id < q.id
            \/ o.id = q.id /\ Stage[o.kind] < Stage[q.kind]
=============================================================================
