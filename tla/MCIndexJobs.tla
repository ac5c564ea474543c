----------------------------- MODULE MCIndexJobs -----------------------------
(* Instances of IndexJobs for TLC: bodies that share a chunk, or one without text. *)
EXTENDS IndexJobs, TLC
CONSTANTS b1, b2, x, y, z, w1, w2, m1, m2, i1, i2
MCContent == b1 :> {x, y} @@ b2 :> {x, z}
MCSmallContent == b1 :> {x} @@ b2 :> {x, z}
MCBlankContent == b1 :> {} @@ b2 :> {x, z}
MCOneModel == w1 :> m1 @@ w2 :> m1
MCTwoModels == w1 :> m1 @@ w2 :> m2
MCOneWorker == w1 :> m1
Writing == Permutations({i1, i2})
SameModelSymmetry == Writing \cup Permutations({w1, w2})
=============================================================================
