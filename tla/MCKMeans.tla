------------------------------ MODULE MCKMeans ------------------------------
(* Values for the threaded engine: analyses of one or more coordinates.    *)
EXTENDS KMeans

\* run lengths: as many coordinates as the packet has runs
MCRunLengths == {<<1>>, <<2, 1>>}

MCVectors == {<<0>>, <<1>>, <<4>>}

\* histograms, which have more coordinates than the learner has means
MCHistograms == {<<1, 0, 0>>, <<0, 0, 1>>}

Symmetry == Permutations(Submitters)

\* The worker's first read of the size meets nobody inside mSubmit, and gets the true size.
StartsUndisturbed == worker = "start" /\ worker' = "loop" => m_MainMutex = Nobody

LateStartSpec == Init /\ [][Next /\ StartsUndisturbed]_vars
=============================================================================
