------------------------------ MODULE MCFlowStore ------------------------------
(* Two flows to one address, one Application, one name, three batches. *)
EXTENDS FlowStore, TLC

CONSTANTS f1, f2, a1, app
MCFlow == {f1, f2}
MCRemoteOf == [f \in MCFlow |-> a1]
MCRank == <<1>>
Symmetry == Permutations(MCFlow)
=============================================================================
