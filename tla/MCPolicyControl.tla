--------------------------- MODULE MCPolicyControl ---------------------------
(***************************************************************************)
(* PolicyControl on two rules, a process and a container.  The container    *)
(* resolves to nothing or to one cgroup.                                   *)
(***************************************************************************)
EXTENDS PolicyControl

CONSTANTS proc, cont, comm, cg1, main, c1

MCSelector == {proc, cont}
MCTarget == {comm, cg1}
MCKindOf == [t \in MCTarget |-> IF t = comm THEN "app_comm" ELSE "app_cgroup"]
MCEvidence == [s \in MCSelector |->
                 IF s = proc THEN {{comm}} ELSE {{}, {cg1}}]

Limit(r, s, ds) == [action |-> "limit", rate |-> r, dirs |-> ds, sel |-> s, enabled |-> TRUE]
Block(s, ds) == [action |-> "block", rate |-> NoRate, dirs |-> ds, sel |-> s, enabled |-> TRUE]

Table(first, second) == [r \in RuleId |-> IF r = 1 THEN first ELSE IF r = 2 THEN second ELSE None]

\* The passing run: a limit on the process, a block on the container.
MCDraft == {Block(cont, {"outbound"})}
MCPatch == {[action |-> "block", rate |-> NoRate]}
MCStored == {Table(Limit(1, proc, {"outbound"}), None)}

\* Two rules on the process, one of which moves to the container and back.
SharedPatch == {[sel |-> proc], [sel |-> cont]}
NoDraft == {}
\* The clients leave main alone until the stored rules are applied.
ClientsWait == requests > 0 => pc[Main] = "idle"
SharedStored == {Table(Limit(1, proc, {"outbound"}), Limit(1, proc, {"outbound"}))}
FixedEvidence == [s \in MCSelector |-> IF s = proc THEN {{comm}} ELSE {{cg1}}]
=============================================================================
