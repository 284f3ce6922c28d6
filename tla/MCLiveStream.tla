------------------------------ MODULE MCLiveStream -----------------------------
(* Three values of the details, two of one signature.  One filter accepts all, *)
(* one hides a signature, one tells apart what the signature does not.        *)
EXTENDS LiveStream

CONSTANTS d1, d2, d3
MCDetail == {d1, d2, d3}
MCSignature == [d \in MCDetail |-> IF d = d3 THEN d2 ELSE d]
MCFilters == {{d1, d2, d3}, {d1}}

\* What the row was before the first interval is in no tick.
MCInit == Init /\ hist[1].d = d2
MCSpec == MCInit /\ [][Next]_vars /\ Fairness
=============================================================================
