------------------------------ MODULE MCSearch ------------------------------
(* An instance of Search for TLC: a wiki page with two versions, a local document with one. *)
EXTENDS Search
CONSTANTS d1, d2, c1, q1, q2, w1, w2, m1, m2
MCDocOf == <<d1, d2, d1>>
MCHome == [d \in Docs |-> IF d = d1 THEN c1 ELSE Local]
MCModelOf == [t \in Workers \cup Requests |-> IF t = w2 THEN m2 ELSE m1]
Along(list) == UNION {{<<list[i], list[j]>> : j \in (i + 1)..Len(list)} : i \in DOMAIN list}
Near == << <<1, 1>>, <<3, 1>>, <<2, 1>>, <<3, 2>>, <<1, 2>>, <<2, 2>> >>
Matches == << <<3, 2>>, <<2, 2>>, <<1, 2>>, <<3, 1>>, <<1, 1>> >>
MCNearer == <<Along(Near)>>
MCMatching == <<ToSet(Matches)>>
MCFitter == <<Along(Matches)>>
MCScopes == {[local |-> TRUE, allowed |-> {c1}]}
=============================================================================
