---------------------------- MODULE MCFlowEvidence ----------------------------
(* A connection and a UDP exchange, one process, and two libraries that name *)
(* the one payload differently; one document is refused.                     *)
EXTENDS FlowEvidence

MCFlow == {"web", "dns"}
MCProtocol == [web |-> "tcp", dns |-> "udp"]
MCPort == [web |-> 80, dns |-> 53]
MCRemote == [web |-> "r", dns |-> "r"]

Rule(service, payloads) == [service |-> service, predicates |-> {payloads}]
MCDefault == <<Rule("http", {"get"})>>
MCDocument == {<<Rule("dns", {}), Rule("web", {"get"})>>, <<>>}
=============================================================================
