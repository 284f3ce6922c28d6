----------------------------- MODULE MCFlowQueries -----------------------------
\* Both directions of one connection, and a flow of another Application to
\* another address with a domain in common; only the first direction of the
\* connection has a service.
EXTENDS FlowQueries

MCFlow == {"out", "in", "other"}
MCPair == [f \in MCFlow |-> IF f = "other" THEN 2 ELSE 1]
MCRemote == [f \in MCFlow |-> IF f = "other" THEN 2 ELSE 1]
MCApp == [f \in MCFlow |-> CASE f = "out" -> 1 [] f = "in" -> None [] f = "other" -> 2]
MCService == [f \in MCFlow |-> CASE f = "out" -> 1 [] f = "in" -> None [] f = "other" -> 2]
MCNames == [f \in MCFlow |-> CASE f = "out" -> {"x"} [] f = "in" -> {} [] f = "other" -> {"x", "y"}]
MCRange == {"1h", "7d"}
MCSpan == [k \in MCRange |-> IF k = "1h" THEN 1 ELSE 2]
MCStep == [k \in MCRange |-> IF k = "1h" THEN 1 ELSE 2]
MCKeep == [k \in MCRange |-> IF k = "1h" THEN 2 ELSE 4]
MCLeft == {<<>>, [f \in MCFlow |-> [bytes |-> IF f = "out" THEN 2 ELSE 1, last |-> 0,
                                    active |-> f # "other"]]}
==============================================================================
