--------------------------- MODULE LearningEngine ---------------------------
(***************************************************************************)
(* What the clustering engine (include/KMeans.hpp) promises the threads    *)
(* that use it, without mutex, flags and loop: submissions are kept in     *)
(* order; the worker deals with everything there is in rounds that look    *)
(* atomic; the first round that finds enough points initialises; a stop    *)
(* ends the worker.  KMeans.tla is shown to implement it.                  *)
(***************************************************************************)
EXTENDS Integers, Sequences

CONSTANTS
  Analyses,  \* what is submitted
  Needed,    \* the number of points that initialises the engine
  Sizes      \* what the worker may take for the number of points when it starts

VARIABLES
  points,       \* the submissions, in order
  seen,         \* how many of them the worker takes for dealt with
  initialised,
  thread,       \* the worker: launched, looping, ended, or dead of an exception
  owner         \* running, joining, joined

vars == <<points, seen, initialised, thread, owner>>

Init ==
  /\ points = <<>>
  /\ seen = 0
  /\ initialised = FALSE
  /\ thread = "launched"
  /\ owner = "running"

Submit(analysis) ==
  /\ thread # "dead"
  /\ points' = Append(points, analysis)
  /\ UNCHANGED <<seen, initialised, thread, owner>>

Start ==
  /\ thread = "launched"
  /\ thread' = "looping"
  /\ seen' \in Sizes
  /\ UNCHANGED <<points, initialised, owner>>

News == Len(points) # seen

Initialise ==
  /\ thread = "looping"
  /\ News /\ Len(points) >= Needed /\ ~initialised
  /\ initialised' = TRUE
  /\ UNCHANGED <<points, seen, thread, owner>>

\* A round ends having seen all points, and initialised if there were enough new ones.
RoundEnds ==
  /\ News /\ Len(points) >= Needed => initialised
  /\ seen' = Len(points)

Round ==
  /\ thread = "looping"
  /\ RoundEnds
  /\ UNCHANGED <<points, initialised, thread, owner>>

Die ==
  /\ thread = "looping"
  /\ News /\ Len(points) > Needed /\ initialised
  /\ thread' = "dead"
  /\ UNCHANGED <<points, seen, initialised, owner>>

Stop ==
  /\ owner = "running"
  /\ owner' = "joining"
  /\ UNCHANGED <<points, seen, initialised, thread>>

\* The worker leaves at the head of its loop or at the end of a round.
Leave ==
  /\ thread = "looping"
  /\ owner = "joining"
  /\ thread' = "ended"
  /\ RoundEnds \/ UNCHANGED seen
  /\ UNCHANGED <<points, initialised, owner>>

Join ==
  /\ owner = "joining"
  /\ thread = "ended"
  /\ owner' = "joined"
  /\ UNCHANGED <<points, seen, initialised, thread>>

Next ==
  \/ \E analysis \in Analyses : Submit(analysis)
  \/ Start \/ Initialise \/ Round \/ Die
  \/ Stop \/ Leave \/ Join

Spec == Init /\ [][Next]_vars

Fairness ==
  /\ WF_vars(Start)
  /\ WF_vars(Initialise \/ Round)
  /\ WF_vars(Leave)
  /\ WF_vars(Join)

FairSpec == Spec /\ Fairness

=============================================================================
