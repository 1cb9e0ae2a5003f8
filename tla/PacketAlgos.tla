----------------------------- MODULE PacketAlgos -----------------------------
(***************************************************************************)
(* The analysis of packets: PacketAnalyser (include/PacketAnalyser.hpp)    *)
(* and the two algorithms it may be given, CharDistributionAlgo and        *)
(* RunLengthAlgo (include/Algos/).  The analyser is made for one packet    *)
(* but the algorithm object is shared by all of them and keeps m_Decoded,  *)
(* so an analysis is that of every byte the object was ever given.  Both   *)
(* algorithms have the same mAnalyse and differ in mGetAnalysis.           *)
(***************************************************************************)
EXTENDS Integers, Sequences, FiniteSets, SequencesExt, FiniteSetsExt

CONSTANTS
  Openings,  \* the packets to analyse first, sequences of bytes
  Packets,   \* the packets that follow
  MaxBytes,  \* bound on the bytes given to one algorithm object
  FLOATMAX   \* 2^24, where counting in a float ends; smaller in a run that reaches it

ASSUME PacketAlgosAssumption ==
  /\ Openings \cup Packets \subseteq Seq(0 .. 255)
  /\ MaxBytes \in Nat
  /\ FLOATMAX \in Nat \ {0}

VARIABLES
  m_Decoded,  \* the types of the bytes given so far
  bytes       \* history: those bytes

vars == <<m_Decoded, bytes>>

-----------------------------------------------------------------------------
(* eCharType and mClassify.                                                *)

CHAR == 0
WHITESPACE == 1
NUMERAL == 2
PUNCTUATION == 3
CONTROL == 4
Types == 0 .. 4

Steps == << [below |-> 32, type |-> CONTROL],     [below |-> 33, type |-> WHITESPACE],
            [below |-> 48, type |-> PUNCTUATION], [below |-> 58, type |-> NUMERAL],
            [below |-> 65, type |-> PUNCTUATION], [below |-> 91, type |-> CHAR],
            [below |-> 97, type |-> PUNCTUATION], [below |-> 123, type |-> CHAR],
            [below |-> 127, type |-> PUNCTUATION], [below |-> 256, type |-> CONTROL] >>

\* Mutant: <= for < at every step.
Classify_UpTo(aChar) == Steps[SelectInSeq(Steps, LAMBDA s : aChar <= s.below)].type

\* the first step of the chain of ifs whose limit the character is below
mClassify(aChar) == Steps[SelectInSeq(Steps, LAMBDA s : aChar < s.below)].type

-----------------------------------------------------------------------------
Init == m_Decoded = <<>> /\ bytes = <<>>

\* Mutant: what earlier packets left is dropped.
mAnalyse_Fresh(aContents) ==
  /\ Len(bytes) + Len(aContents) <= MaxBytes
  /\ m_Decoded' = [i \in DOMAIN aContents |-> mClassify(aContents[i])]
  /\ bytes' = bytes \o aContents

\* PacketAnalyser::mAnalysePacket
mAnalyse(aContents) ==
  /\ Len(bytes) + Len(aContents) <= MaxBytes
  /\ m_Decoded' = m_Decoded \o [i \in DOMAIN aContents |-> mClassify(aContents[i])]
  /\ bytes' = bytes \o aContents

Next == \E packet \in IF bytes = <<>> THEN Openings ELSE Packets : mAnalyse(packet)

Spec == Init /\ [][Next]_vars

-----------------------------------------------------------------------------
(* mGetAnalysis of the two algorithms, for the types decoded so far.       *)

\* ++ on a float: 2^24 + 1 is rounded to 2^24
Incremented(count) == IF count = FLOATMAX THEN count ELSE count + 1

CharDistribution(decoded) ==
  FoldLeft(LAMBDA counts, c : [counts EXCEPT ![c] = Incremented(@)], [t \in Types |-> 0], decoded)

\* Mutant: a run is also continued when the type differs.
Counted_Always(runs, c) ==
  IF runs # <<>> THEN [runs EXCEPT ![Len(runs)].length = Incremented(@)]
                 ELSE Append(runs, [type |-> c, length |-> 1])

\* Mutant: a new run starts from 0.
Counted_FromZero(runs, c) ==
  IF runs # <<>> /\ Last(runs).type = c
  THEN [runs EXCEPT ![Len(runs)].length = Incremented(@)]
  ELSE Append(runs, [type |-> c, length |-> 0])

\* the body of the loop over m_Decoded
Counted(runs, c) ==
  IF runs # <<>> /\ Last(runs).type = c
  THEN [runs EXCEPT ![Len(runs)].length = Incremented(@)]
  ELSE Append(runs, [type |-> c, length |-> 1])

RunLengths(decoded) ==
  LET runs == FoldLeft(Counted, <<>>, decoded) IN [i \in DOMAIN runs |-> runs[i].length]

-----------------------------------------------------------------------------
\* The characters of each type, as ASCII has them.
Class ==
  [t \in Types |->
     CASE t = CONTROL -> 0 .. 31 \cup 127 .. 255
       [] t = WHITESPACE -> {32}
       [] t = NUMERAL -> 48 .. 57
       [] t = CHAR -> 65 .. 90 \cup 97 .. 122
       [] t = PUNCTUATION -> 33 .. 47 \cup 58 .. 64 \cup 91 .. 96 \cup 123 .. 126]

At(t) == {i \in DOMAIN bytes : bytes[i] \in Class[t]}

(* The histogram that CharDistributionAlgo submits counts, per type, the   *)
(* characters of that type among all bytes of all packets: none is lost at *)
(* a limit of mClassify, none counted twice, none forgotten, until the     *)
(* float that counts them is full.                                         *)
DistributionCountsAllBytes ==
  \A t \in Types : CharDistribution(m_Decoded)[t] = Min({Cardinality(At(t)), FLOATMAX})

\* Where a maximal run of characters of one type begins, and the places up to the next one.
RunStarts == {i \in DOMAIN bytes : ~\E t \in Types : {i - 1, i} \subseteq At(t)}

RunFrom(i) == {k \in DOMAIN bytes : k >= i /\ RunStarts \cap (i + 1 .. k) = {}}

(* The run lengths are those of the maximal runs, in order, also where a   *)
(* run goes across the border of two packets; a full float stays full.     *)
RunLengthsAreMaximalRuns ==
  LET lengths == RunLengths(m_Decoded)
  IN  /\ Len(lengths) = Cardinality(RunStarts)
      /\ \A i \in RunStarts :
           lengths[Cardinality({k \in RunStarts : k <= i})] =
             Min({Cardinality(RunFrom(i)), FLOATMAX})

(* Successive analyses by one object: the histogram only grows, and of the *)
(* run lengths only the last may change, so a later analysis has at least  *)
(* the coordinates of an earlier one.                                      *)
AnalysesExtend ==
  [][LET old == RunLengths(m_Decoded)
         new == RunLengths(m_Decoded')
     IN  /\ \A t \in Types : CharDistribution(m_Decoded)[t] <= CharDistribution(m_Decoded')[t]
         /\ Len(old) <= Len(new)
         /\ \A k \in 1 .. Len(old) - 1 : new[k] = old[k]
         /\ old # <<>> => new[Len(old)] >= old[Len(old)]]_vars

=============================================================================
