---------------------------- MODULE KMeansTests ----------------------------
(***************************************************************************)
(* The tests of src/KMeansTests.cpp as programs that call the engine of    *)
(* KMeansApi.tla, checked for every order in which its shuffle may leave   *)
(* the points: the code seeds it with the time.  Coordinates are given in  *)
(* eighths.  The test with 1000 points is cut to ManyPoints points, and    *)
(* its random points to fixed ones; that the means end near the corners    *)
(* depends on the points drawn and is left out, that repeating the         *)
(* clustering settles is not.                                              *)
(***************************************************************************)
EXTENDS KMeansApi

VARIABLES
  test,  \* which test runs
  pc     \* the calls it has made

ManyPoints == 5

Submit(x, y) == [call |-> "mSubmit", vec |-> <<x, y>>]
Initialise(aNumMeans) == [call |-> "mInitialise", means |-> aNumMeans]
Assign == [call |-> "mAssignAll"]
Update == [call |-> "mUpdateMeans"]

TwoPackets == <<Submit(8, 0), Submit(0, 8), Initialise(2)>>

ThirdAssigned == TwoPackets \o <<Submit(6, 2), Assign>>

ThirdUpdated == ThirdAssigned \o <<Update>>

SingleMean ==
  <<Submit(2, 6), Initialise(1), Submit(6, 2), Assign, Update, Submit(1, 4), Assign, Update>>

Clustering1000 ==
  [i \in 1 .. ManyPoints |-> Submit(<<1, 2, 7, 6, 1>>[i], <<1, 7, 6, 2, 3>>[i])]
    \o <<Initialise(4), Assign, Update, Assign, Update, Assign, Update>>

Program ==
  [two |-> TwoPackets, assigned |-> ThirdAssigned, updated |-> ThirdUpdated,
   single |-> SingleMean, many |-> Clustering1000]

TestInit == Init /\ pc = 0 /\ test \in DOMAIN Program

Perform(call) ==
  \/ call.call = "mSubmit" /\ mSubmit(call.vec)
  \/ call.call = "mInitialise" /\ mInitialise(call.means)
  \/ call.call = "mAssignAll" /\ mAssignAll
  \/ call.call = "mUpdateMeans" /\ mUpdateMeans

TestNext ==
  \/ /\ pc < Len(Program[test])
     /\ Perform(Program[test][pc + 1])
     /\ pc' = pc + 1
     /\ UNCHANGED test
  \/ pc = Len(Program[test]) /\ UNCHANGED <<vars, test, pc>>

TestSpec == TestInit /\ [][TestNext]_<<vars, test, pc>>

-----------------------------------------------------------------------------
Done(t) == test = t /\ pc = Len(Program[t])

IsAt(m, x, y) == m.n # 0 /\ m.sum = <<x * m.n, y * m.n>>

Point(aIndex) == m_PointVector[mExtract(aIndex)]

MeanOfPoint(aIndex) == m_CurrentMeans[mExtractCurrentMeanBasedOnLabel(Point(aIndex).mean)]

(* What the tests REQUIRE at KMeansTests.cpp:41, 85, 133, 172, 202, 214    *)
(* and after line 253, whatever the seed of the shuffle: the initial means *)
(* are the points, an assignment does not move them, the third packet      *)
(* joins the mean at (1, 0) at its distance, the means become the middle   *)
(* of their points, and repeated clustering ends at a fixed point where    *)
(* every mean is that of the packets assigned to it.                       *)
RequiresHold ==
  /\ Done("two") \/ Done("assigned") =>
       \/ IsAt(m_CurrentMeans[1], 8, 0) /\ IsAt(m_CurrentMeans[2], 0, 8)
       \/ IsAt(m_CurrentMeans[1], 0, 8) /\ IsAt(m_CurrentMeans[2], 8, 0)
  /\ Done("assigned") =>
       /\ LET d == distances[mExtract(2)] IN d.num = 8 * d.den
       /\ IsAt(MeanOfPoint(2), 8, 0)
  /\ Done("updated") => IsAt(MeanOfPoint(2), 7, 1)
  /\ test = "single" /\ pc = 5 => IsAt(m_CurrentMeans[mExtractCurrentMeanBasedOnLabel(0)], 4, 4)
  /\ Done("single") => IsAt(m_CurrentMeans[mExtractCurrentMeanBasedOnLabel(0)], 3, 4)
  /\ Done("many") =>
       /\ MeanOfPoint(0) \in Range(m_CurrentMeans)
       /\ Relabelled(m_PointVector, NearestLabels(m_PointVector, m_CurrentMeans)) = m_PointVector
       /\ Averages(m_PointVector, m_CurrentMeans) = m_CurrentMeans

=============================================================================
