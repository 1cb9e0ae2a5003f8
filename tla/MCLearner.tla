------------------------------ MODULE MCLearner ------------------------------
(* Packets with bytes of three types.                                      *)
EXTENDS Learner

MCPackets == {<<2, 0, 0>>, <<0, 1, 1>>}

\* A learner of five means, as many as there are types in the code.
Five == INSTANCE Clustering WITH NumArgs <- 5, NumMeans <- 5, UINT16 <- 65536

\* The analyses of ten packets: one byte of the second type, 400 and 400 more, the last
\* together with a byte of the first type, and then 30, 1, 30, 1, 2, 1 and 16 of those.
Ten ==
  LET analyses == << <<0, 1>>, <<0, 401>>, <<1, 801>>, <<31, 801>>, <<32, 801>>, <<62, 801>>,
                     <<63, 801>>, <<65, 801>>, <<66, 801>>, <<82, 801>> >>
  IN  [i \in 1 .. 10 |-> Five!DataPoint(analyses[i] \o <<0, 0, 0>>, i - 1)]

\* What a round of the worker that finds the first n of them makes of the means.
Round(means, n) ==
  LET found == SubSeq(Ten, 1, n)
  IN  Five!Averages(Five!Relabelled(found, Five!NearestLabels(found, means)), means)

(* Eight packets are there when the means are drawn; each of the other two *)
(* meets the worker at rest.  The analyses all differ, and yet the fourth  *)
(* mean loses its group: see MeansStayNumbers.                             *)
ASSUME GroupsMayEmpty ==
  LET drawn == [j \in 1 .. 5 |-> Five!MeanPoint(j - 1, Ten[<<1, 2, 8, 7, 3>>[j]].vec)]
  IN  Round(Round(drawn, 9), 10)[4].n = 0
=============================================================================
