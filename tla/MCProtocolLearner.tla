-------------------------- MODULE MCProtocolLearner --------------------------
(* Setups of the diode above an echo server, one per question.             *)
EXTENDS ProtocolLearner, TLC

\* what the other setups differ from
Diode ==
  [name |-> "diode", target |-> HighToLow, down |-> Server, up |-> Port0, quota |-> 3,
   algo |-> "CharDistributionAlgo", frames |-> <<2>>, listens |-> 1, ahead |-> 0, unasked |-> 0,
   failures |-> 0, refusals |-> FALSE]

\* who the answers go to, and the quota of both directions
Routing == [Diode EXCEPT !.name = "routing", !.up = Elsewhere, !.frames = <<2, 1>>, !.unasked = 1]

\* receives that fail and sends that are refused, and no port above
Failing == [Diode EXCEPT !.name = "failing", !.quota = 1, !.unasked = 1, !.failures = 1,
                         !.refusals = TRUE]

\* two operations for one buffer
ListeningTwice == [Diode EXCEPT !.name = "listening twice", !.up = Elsewhere, !.listens = 2]

\* no port below either
NoPorts == [Diode EXCEPT !.name = "no ports", !.down = Port0, !.unasked = 1]

\* packets without runs, and counters that wrap
Runs == [Diode EXCEPT !.name = "runs", !.quota = 2, !.algo = "RunLengthAlgo", !.frames = <<0, 1>>]

RoutingSetups == {Routing, Failing, ListeningTwice, NoPorts, Runs}

LateSendSetups == {[Diode EXCEPT !.name = "late send", !.frames = <<2, 2>>]}

Symmetry == Permutations(Clients)
=============================================================================
