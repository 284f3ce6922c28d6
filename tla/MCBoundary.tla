------------------------------ MODULE MCBoundary -------------------------------
(* An uplink and a container bridge; the last choice names the uplink twice. *)
EXTENDS Boundary

MCName == {"eth0", "docker0"}
MCFacts == [eth0 |-> {"device"}, docker0 |-> {"bridge", "container"}]
MCMetric == [eth0 |-> 1, docker0 |-> 2]
MCChoice == {<<"docker0">>, <<"eth0", "docker0", "eth0">>}
=============================================================================
