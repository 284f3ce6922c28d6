---------------------------- MODULE MCFlowTracker ----------------------------
(***************************************************************************)
(* FlowTracker with two flows, and packets that may end a connection.      *)
(***************************************************************************)
EXTENDS FlowTracker

MCFlow == 1..2
MCSize == {1}
MCFlags == {{}, {"FIN"}}
MCPartial == {{"packets", "bytes"}, {"stamp", "flags"}}
=============================================================================
