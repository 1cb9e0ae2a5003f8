----------------------------- MODULE MCKMeansApi -----------------------------
(* KMeansApi on points of the plane among which groups can become empty.   *)
EXTENDS KMeansApi

MCVectors == {<<0, 0>>, <<0, 1>>, <<3, 1>>, <<3, 2>>}
=============================================================================
