---------------------------- MODULE MCPacketAlgos ----------------------------
(* An object is first given the empty packet or one of a single byte,      *)
(* whatever byte it is; then packets of up to two bytes, spaces, digits or *)
(* letters.  A fresh object also meets the packets of the two unit tests.   *)
EXTENDS PacketAlgos

MCBytes == {<<>>} \cup {<<byte>> : byte \in 0 .. 255}

MCTypes == BoundedSeq({32, 48, 65}, 2)

Decoded(contents) == [i \in DOMAIN contents |-> mClassify(contents[i])]

\* src/KMeansTests.cpp:7: one letter
DummyTest == CharDistribution(Decoded(<<97>>)) = (CHAR :> 1 @@ [t \in Types |-> 0])

\* src/PacketAnalyserTests.cpp:9: "RFB 003.008" and a newline
RunLengthTest ==
  RunLengths(Decoded(<<82, 70, 66, 32, 48, 48, 51, 46, 48, 48, 56, 10>>)) = <<3, 1, 3, 1, 3, 1>>

(* What the two test cases require of an algorithm object that has seen no *)
(* packet yet.                                                             *)
UnitTestsHold == m_Decoded = <<>> => DummyTest /\ RunLengthTest
=============================================================================
