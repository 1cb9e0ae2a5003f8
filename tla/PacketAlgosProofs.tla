-------------------------- MODULE PacketAlgosProofs --------------------------
(***************************************************************************)
(* The analyses, for packets of any bytes and any length.                  *)
(***************************************************************************)
EXTENDS PacketAlgos, FoldProofs

Least(m, n) == IF m <= n THEN m ELSE n

\* The smaller of two numbers.
LEMMA MinOfPair ==
  ASSUME NEW m \in Int, NEW n \in Int
  PROVE  Min({m, n}) = Least(m, n)
<1>1. Least(m, n) \in {m, n} /\ \A k \in {m, n} : Least(m, n) <= k
  BY DEF Least
<1>2. Min({m, n}) \in {m, n} /\ \A k \in {m, n} : Min({m, n}) <= k
  BY <1>1, Zenon DEF Min
<1> QED
  BY <1>1, <1>2

-----------------------------------------------------------------------------
(* The chain of ifs of mClassify.                                          *)

\* The table of the limits, entry by entry.
LEMMA StepsAre ==
  /\ Len(Steps) = 10
  /\ Steps[1].below = 32 /\ Steps[2].below = 33 /\ Steps[3].below = 48 /\ Steps[4].below = 58
  /\ Steps[5].below = 65 /\ Steps[6].below = 91 /\ Steps[7].below = 97 /\ Steps[8].below = 123
  /\ Steps[9].below = 127 /\ Steps[10].below = 256
  /\ Steps[1].type = 4 /\ Steps[2].type = 1 /\ Steps[3].type = 3 /\ Steps[4].type = 2
  /\ Steps[5].type = 3 /\ Steps[6].type = 0 /\ Steps[7].type = 3 /\ Steps[8].type = 0
  /\ Steps[9].type = 3 /\ Steps[10].type = 4
BY DEF Steps, CHAR, WHITESPACE, NUMERAL, PUNCTUATION, CONTROL

(* The first step whose limit a byte is below has the byte's type.         *)
LEMMA ClassifiedBy ==
  ASSUME NEW c \in 0 .. 255, NEW i \in 1 .. 10, c < Steps[i].below,
         \A j \in 1 .. 10 : j < i => ~(c < Steps[j].below)
  PROVE  mClassify(c) = Steps[i].type
<1> DEFINE I == {j \in 1 .. Len(Steps) : c < Steps[j].below}
<1>1. I # {} /\ i \in I
  BY StepsAre
<1>2. \A j \in I : i <= j
  BY StepsAre
<1>3. I \subseteq Int
  BY StepsAre
<1> HIDE DEF I
<1>4. Min(I) \in I /\ \A j \in I : Min(I) <= j
  BY <1>1, <1>2, Zenon DEF Min
<1>5. Min(I) = i
  <2>1. Min(I) \in I /\ Min(I) <= i /\ i <= Min(I)
    BY <1>1, <1>2, <1>4, Zenon
  <2>2. Min(I) \in Int
    BY <1>3, <2>1
  <2> QED
    BY <2>1, <2>2
<1>6. mClassify(c) = Steps[IF I # {} THEN Min(I) ELSE 0].type
  BY Zenon DEF mClassify, SelectInSeq, I
<1> QED
  BY <1>1, <1>5, <1>6

(* mClassify gives every byte the type that ASCII has for it.              *)
LEMMA ClassifyIs ==
  ASSUME NEW c \in 0 .. 255
  PROVE  mClassify(c) \in Types /\ \A t \in Types : mClassify(c) = t <=> c \in Class[t]
<1>1. /\ c < 32 => mClassify(c) = 4
      /\ 32 <= c /\ c < 33 => mClassify(c) = 1
      /\ 33 <= c /\ c < 48 => mClassify(c) = 3
      /\ 48 <= c /\ c < 58 => mClassify(c) = 2
      /\ 58 <= c /\ c < 65 => mClassify(c) = 3
      /\ 65 <= c /\ c < 91 => mClassify(c) = 0
      /\ 91 <= c /\ c < 97 => mClassify(c) = 3
      /\ 97 <= c /\ c < 123 => mClassify(c) = 0
      /\ 123 <= c /\ c < 127 => mClassify(c) = 3
      /\ 127 <= c => mClassify(c) = 4
  <2>1. \A j \in 1 .. 10 : \/ j = 1 \/ j = 2 \/ j = 3 \/ j = 4 \/ j = 5
                           \/ j = 6 \/ j = 7 \/ j = 8 \/ j = 9 \/ j = 10
    OBVIOUS
  <2>2. ASSUME NEW i \in 1 .. 10, c < Steps[i].below, i = 1 \/ Steps[i - 1].below <= c
        PROVE  mClassify(c) = Steps[i].type
    <3>1. \A j \in 1 .. 10 : j < i => ~(c < Steps[j].below)
      BY <2>1, <2>2, StepsAre
    <3> QED
      BY <2>2, <3>1, ClassifiedBy
  <2> QED
    BY <2>2, StepsAre
<1>2. /\ Class[0] = 65 .. 90 \cup 97 .. 122
      /\ Class[1] = {32}
      /\ Class[2] = 48 .. 57
      /\ Class[3] = 33 .. 47 \cup 58 .. 64 \cup 91 .. 96 \cup 123 .. 126
      /\ Class[4] = 0 .. 31 \cup 127 .. 255
  BY DEF Class, Types, CHAR, WHITESPACE, NUMERAL, PUNCTUATION, CONTROL
<1>3. \A t \in Types : t = 0 \/ t = 1 \/ t = 2 \/ t = 3 \/ t = 4
  BY DEF Types
<1>4. mClassify(c) \in Types
  BY <1>1 DEF Types
<1>5. \A t \in Types : mClassify(c) = t <=> c \in Class[t]
  BY <1>1, <1>2, <1>3
<1> QED
  BY <1>4, <1>5

-----------------------------------------------------------------------------
(* CharDistributionAlgo: one count more per byte, until the float is full. *)

Counts == [Types -> Nat]

None == [t \in Types |-> 0]

Tally == [z \in Counts \X Types |-> [z[1] EXCEPT ![z[2]] = Incremented(@)]]

\* The step of the histogram as a function, and its values.
LEMMA TallyIs ==
  /\ None \in Counts
  /\ \A n \in Nat : Incremented(n) \in Nat
  /\ Tally \in [Counts \X Types -> Counts]
  /\ \A counts \in Counts, c \in Types :
       Tally[<<counts, c>>] = [counts EXCEPT ![c] = Incremented(@)]
<1>1. None \in Counts
  BY DEF None, Counts
<1>2. \A n \in Nat : Incremented(n) \in Nat
  BY DEF Incremented
<1>3. \A counts \in Counts, c \in Types : [counts EXCEPT ![c] = Incremented(@)] \in Counts
  BY <1>2 DEF Counts
<1>4. \A counts \in Counts, c \in Types :
        Tally[<<counts, c>>] = [counts EXCEPT ![c] = Incremented(@)]
  BY DEF Tally
<1>5. Tally \in [Counts \X Types -> Counts]
  BY <1>3 DEF Tally
<1> QED
  BY <1>1, <1>2, <1>4, <1>5

\* The histogram of a sequence is reached by one step per type.
LEMMA DistributionSteps ==
  ASSUME NEW decoded \in Seq(Types)
  PROVE  FoldsTo(Tally, None, decoded, Counts, CharDistribution(decoded))
<1> DEFINE Body(iter) ==
      [s \in SUBSET DOMAIN decoded |->
         IF s = {} THEN [t \in Types |-> 0]
         ELSE [iter[s \ {Max(s)}] EXCEPT ![decoded[Max(s)]] = Incremented(@)]]
<1> DEFINE iter0 == CHOOSE iter : iter = Body(iter)
<1>1. CharDistribution(decoded) = iter0[DOMAIN decoded]
  BY Zenon DEF CharDistribution, FoldLeft, MapThenFoldSet
<1>2. \A s \in SUBSET DOMAIN decoded :
        s # {} => decoded[Max(s)] \in Types /\ s \ {Max(s)} \in SUBSET DOMAIN decoded
  BY SeqFacts, MaxOfInterval
<1>3. PICK g \in [SUBSET DOMAIN decoded -> Counts] : LeftRecursion(Tally, None, decoded, Counts, g)
  BY TallyIs, LeftExists, Zenon
<1>4. g = Body(g)
  <2>1. ASSUME NEW s \in SUBSET DOMAIN decoded, s # {}
        PROVE  g[s] = [g[s \ {Max(s)}] EXCEPT ![decoded[Max(s)]] = Incremented(@)]
    <3>1. decoded[Max(s)] \in Types /\ g[s \ {Max(s)}] \in Counts
      BY <1>2, <1>3, <2>1
    <3>2. g[s] = Tally[<<g[s \ {Max(s)}], decoded[Max(s)]>>]
      BY <1>3, <2>1, <3>1, Zenon DEF LeftRecursion
    <3> QED
      BY <3>1, <3>2, TallyIs, Zenon
  <2>2. g[{}] = [t \in Types |-> 0]
    BY <1>3, Zenon DEF LeftRecursion, None
  <2>3. \A s \in SUBSET DOMAIN decoded : Body(g)[s] = g[s]
    BY <2>1, <2>2, Zenon
  <2>4. g = [s \in SUBSET DOMAIN decoded |-> g[s]]
    BY <1>3
  <2> QED
    BY <2>3, <2>4
<1>5. iter0 = Body(iter0)
  <2> HIDE DEF Body
  <2> QED
    BY <1>4, Zenon
<1> HIDE DEF iter0
<1>6. LeftRecursion(Tally, None, decoded, Counts, iter0)
  <2>1. iter0[{}] = None
    <3>1. {} \in SUBSET DOMAIN decoded
      OBVIOUS
    <3> QED
      BY <1>5, <3>1, Zenon DEF None
  <2>2. ASSUME NEW s \in SUBSET DOMAIN decoded, s # {}, iter0[s \ {Max(s)}] \in Counts
        PROVE  iter0[s] = Tally[<<iter0[s \ {Max(s)}], decoded[Max(s)]>>]
    <3>1. iter0[s] = [iter0[s \ {Max(s)}] EXCEPT ![decoded[Max(s)]] = Incremented(@)]
      BY <1>5, <2>2, Zenon
    <3>2. decoded[Max(s)] \in Types
      BY <1>2, <2>2
    <3> QED
      BY <2>2, <3>1, <3>2, TallyIs, Zenon
  <2> QED
    BY <2>1, <2>2, Zenon DEF LeftRecursion
<1>7. FoldsTo(Tally, None, decoded, Counts, iter0[DOMAIN decoded])
  BY <1>6, TallyIs, LeftSteps, Zenon
<1> QED
  BY <1>1, <1>7, Zenon

\* The places up to k where d has the value v.
Places(d, v, k) == {i \in 1 .. k : d[i] = v}

(* One place more, or none.                                                *)
LEMMA PlacesGrow ==
  ASSUME NEW d, NEW v, NEW k \in Nat
  PROVE  /\ IsFiniteSet(Places(d, v, k)) /\ Cardinality(Places(d, v, k)) \in Nat
         /\ k = 0 => Cardinality(Places(d, v, k)) = 0
         /\ k > 0 => Cardinality(Places(d, v, k)) =
              Cardinality(Places(d, v, k - 1)) + IF d[k] = v THEN 1 ELSE 0
<1>1. ASSUME NEW n \in Nat
      PROVE  IsFiniteSet(Places(d, v, n)) /\ Cardinality(Places(d, v, n)) \in Nat
  <2>1. IsFiniteSet(1 .. n) /\ Places(d, v, n) \in SUBSET (1 .. n)
    BY FS_Interval DEF Places
  <2> QED
    BY <2>1, FS_Subset, FS_CardinalityType
<1>2. k = 0 => Places(d, v, k) = {}
  BY DEF Places
<1>3. ASSUME k > 0
      PROVE  Cardinality(Places(d, v, k)) =
               Cardinality(Places(d, v, k - 1)) + IF d[k] = v THEN 1 ELSE 0
  <2>1. CASE d[k] = v
    <3>1. Places(d, v, k) = Places(d, v, k - 1) \cup {k} /\ k \notin Places(d, v, k - 1)
      BY <1>3, <2>1 DEF Places
    <3>2. IsFiniteSet(Places(d, v, k - 1)) /\ Cardinality(Places(d, v, k - 1)) \in Nat
      BY <1>1, <1>3
    <3> QED
      BY <2>1, <3>1, <3>2, FS_AddElement
  <2>2. CASE d[k] # v
    <3>1. Places(d, v, k) = Places(d, v, k - 1)
      BY <1>3, <2>2 DEF Places
    <3>2. Cardinality(Places(d, v, k - 1)) \in Nat
      BY <1>1, <1>3
    <3> QED
      BY <2>2, <3>1, <3>2
  <2> QED
    BY <2>1, <2>2
<1> QED
  BY <1>1, <1>2, <1>3, FS_EmptySet

(* Counting stops at FLOATMAX.                                             *)
LEMMA CountIs ==
  ASSUME NEW n \in Nat
  PROVE  /\ Least(n, FLOATMAX) \in Nat
         /\ Incremented(Least(n, FLOATMAX)) = Least(n + 1, FLOATMAX)
         /\ Least(0, FLOATMAX) = 0 /\ Least(1, FLOATMAX) = 1
BY PacketAlgosAssumption DEF Least, Incremented

(* What CharDistributionAlgo computes.                                     *)
LEMMA DistributionIs ==
  ASSUME NEW decoded \in Seq(Types), NEW t \in Types
  PROVE  CharDistribution(decoded)[t] =
           Least(Cardinality(Places(decoded, t, Len(decoded))), FLOATMAX)
<1> DEFINE n == Len(decoded)
           c(k) == Cardinality(Places(decoded, t, k))
<1>1. PICK fold \in [0 .. n -> Counts] :
        LeftFold(Tally, None, decoded, fold) /\ CharDistribution(decoded) = fold[n]
  BY DistributionSteps DEF FoldsTo
<1> DEFINE G == {k \in 0 .. n : fold[k][t] = Least(c(k), FLOATMAX)}
<1>2. n \in Nat /\ \A k \in 1 .. n : decoded[k] \in Types
  BY SeqFacts
<1>3. 0 \in G
  <2>1. fold[0] = None /\ None[t] = 0
    BY <1>1 DEF LeftFold, None
  <2>2. c(0) = 0
    BY PlacesGrow
  <2>3. fold[0][t] = Least(c(0), FLOATMAX) /\ 0 \in 0 .. n
    BY <1>2, <2>1, <2>2, CountIs
  <2> QED
    BY <2>3
<1>4. ASSUME NEW k \in 1 .. n, k - 1 \in G PROVE k \in G
  <2>1. /\ fold[k] = Tally[<<fold[k - 1], decoded[k]>>]
        /\ fold[k - 1] \in Counts /\ decoded[k] \in Types
        /\ fold[k - 1][t] = Least(c(k - 1), FLOATMAX)
    BY <1>1, <1>2, <1>4 DEF LeftFold
  <2>2. fold[k] = [fold[k - 1] EXCEPT ![decoded[k]] = Incremented(@)]
    BY <2>1, TallyIs, Zenon
  <2>3. fold[k][t] = IF decoded[k] = t THEN Incremented(fold[k - 1][t]) ELSE fold[k - 1][t]
    BY <2>1, <2>2 DEF Counts
  <2>4. c(k - 1) \in Nat /\ c(k) = c(k - 1) + IF decoded[k] = t THEN 1 ELSE 0
    <3>1. k \in Nat /\ k - 1 \in Nat /\ k > 0
      BY <1>2
    <3> QED
      BY <3>1, PlacesGrow
  <2> HIDE DEF c
  <2>5. fold[k][t] = Least(c(k), FLOATMAX)
    <3>1. CASE decoded[k] = t
      BY <2>1, <2>3, <2>4, <3>1, CountIs
    <3>2. CASE decoded[k] # t
      BY <2>1, <2>3, <2>4, <3>2
    <3> QED
      BY <3>1, <3>2
  <2> QED
    BY <2>5
<1>5. 0 .. n \subseteq G
  <2> HIDE DEF G
  <2> QED
    BY <1>2, <1>3, <1>4, IntervalInduction
<1> QED
  BY <1>1, <1>2, <1>5

-----------------------------------------------------------------------------
(* RunLengthAlgo: the last run goes on, or a new one begins.               *)

Runs == Seq([type : Types, length : Nat])

Extend == [z \in Runs \X Types |-> Counted(z[1], z[2])]

AllRuns(decoded) == FoldLeft(Counted, <<>>, decoded)

Continues(runs, c) == Len(runs) > 0 /\ runs[Len(runs)].type = c

\* One step over a type: it adds to the last run, or begins one.
LEMMA CountedIs ==
  ASSUME NEW runs \in Runs, NEW c \in Types
  PROVE  /\ Counted(runs, c) \in Runs
         /\ \A q \in 1 .. Len(runs) - 1 : Counted(runs, c)[q] = runs[q]
         /\ Continues(runs, c) =>
              /\ Len(Counted(runs, c)) = Len(runs)
              /\ Counted(runs, c)[Len(runs)].type = c
              /\ Counted(runs, c)[Len(runs)].length = Incremented(runs[Len(runs)].length)
         /\ ~Continues(runs, c) =>
              /\ Len(Counted(runs, c)) = Len(runs) + 1
              /\ \A q \in 1 .. Len(runs) : Counted(runs, c)[q] = runs[q]
              /\ Counted(runs, c)[Len(runs) + 1].type = c
              /\ Counted(runs, c)[Len(runs) + 1].length = 1
<1> DEFINE Run == [type : Types, length : Nat]
           n == Len(runs)
           e == [type |-> c, length |-> 1]
           longer == [runs[n] EXCEPT !.length = Incremented(runs[n].length)]
<1>0. runs \in Seq(Run)
  BY Zenon DEF Runs
<1>1. /\ runs \in Seq(Run) /\ n \in Nat /\ DOMAIN runs = 1 .. n
      /\ \A q \in 1 .. n : runs[q] \in Run
  <2> HIDE DEF Run
  <2> QED
    BY <1>0, SeqFacts
<1>2. e \in Run /\ e.type = c /\ e.length = 1
  OBVIOUS
<1>3. runs # <<>> <=> n > 0
  BY <1>1
<1>4. CASE Continues(runs, c)
  <2>1. n > 0 /\ runs[n].type = c /\ n \in 1 .. n
    BY <1>1, <1>4 DEF Continues
  <2>2. Counted(runs, c) = [runs EXCEPT ![n] = longer]
    BY <1>3, <2>1, Zenon DEF Counted, Last
  <2>3. runs[n] \in Run /\ Incremented(runs[n].length) \in Nat
    BY <1>1, <2>1, TallyIs
  <2>4. longer \in Run /\ longer.type = c /\ longer.length = Incremented(runs[n].length)
    BY <2>1, <2>3
  <2> HIDE DEF longer, Run, n, e
  <2>5. /\ Counted(runs, c) \in Seq(Run) /\ Len(Counted(runs, c)) = n
        /\ Counted(runs, c)[n] = longer
        /\ \A q \in 1 .. n - 1 : Counted(runs, c)[q] = runs[q]
    BY <1>1, <2>1, <2>2, <2>4
  <2> QED
    BY <1>4, <2>4, <2>5 DEF Runs, Run, n
<1>5. CASE ~Continues(runs, c)
  <2>1. Counted(runs, c) = Append(runs, e)
    BY <1>3, <1>5, Zenon DEF Counted, Last, Continues
  <2> HIDE DEF Run, n, e, longer
  <2>2. /\ Counted(runs, c) \in Seq(Run) /\ Len(Counted(runs, c)) = n + 1
        /\ Counted(runs, c)[n + 1] = e
        /\ \A q \in 1 .. n : Counted(runs, c)[q] = runs[q]
    BY <1>1, <1>2, <2>1 DEF n
  <2>3. \A q \in 1 .. n - 1 : q \in 1 .. n
    BY <1>1
  <2> QED
    BY <1>2, <1>5, <2>2, <2>3 DEF Runs, Run, n
<1> QED
  BY <1>4, <1>5

\* The step of the run lengths as a function, and its values.
LEMMA ExtendIs ==
  /\ <<>> \in Runs
  /\ Extend \in [Runs \X Types -> Runs]
  /\ \A runs \in Runs, c \in Types : Extend[<<runs, c>>] = Counted(runs, c)
<1>1. \A runs \in Runs, c \in Types : Extend[<<runs, c>>] = Counted(runs, c)
  BY DEF Extend
<1>2. \A runs \in Runs, c \in Types : Counted(runs, c) \in Runs
  BY CountedIs
<1>3. Extend \in [Runs \X Types -> Runs]
  BY <1>2 DEF Extend
<1>4. <<>> \in Runs
  BY EmptySeq, Zenon DEF Runs
<1> QED
  BY <1>1, <1>3, <1>4

\* The run lengths of a sequence are reached by one step per type.
LEMMA RunSteps ==
  ASSUME NEW decoded \in Seq(Types)
  PROVE  FoldsTo(Extend, <<>>, decoded, Runs, AllRuns(decoded))
<1> DEFINE Body(iter) ==
      [s \in SUBSET DOMAIN decoded |->
         IF s = {} THEN <<>> ELSE Counted(iter[s \ {Max(s)}], decoded[Max(s)])]
<1> DEFINE iter0 == CHOOSE iter : iter = Body(iter)
<1>1. AllRuns(decoded) = iter0[DOMAIN decoded]
  BY Zenon DEF AllRuns, FoldLeft, MapThenFoldSet
<1>2. \A s \in SUBSET DOMAIN decoded :
        s # {} => decoded[Max(s)] \in Types /\ s \ {Max(s)} \in SUBSET DOMAIN decoded
  BY SeqFacts, MaxOfInterval
<1>3. PICK g \in [SUBSET DOMAIN decoded -> Runs] : LeftRecursion(Extend, <<>>, decoded, Runs, g)
  BY ExtendIs, LeftExists, Zenon
<1>4. g = Body(g)
  <2>1. ASSUME NEW s \in SUBSET DOMAIN decoded, s # {}
        PROVE  g[s] = Counted(g[s \ {Max(s)}], decoded[Max(s)])
    <3>1. decoded[Max(s)] \in Types /\ g[s \ {Max(s)}] \in Runs
      BY <1>2, <1>3, <2>1
    <3>2. g[s] = Extend[<<g[s \ {Max(s)}], decoded[Max(s)]>>]
      BY <1>3, <2>1, <3>1, Zenon DEF LeftRecursion
    <3> QED
      BY <3>1, <3>2, ExtendIs, Zenon
  <2>2. g[{}] = <<>>
    BY <1>3, Zenon DEF LeftRecursion
  <2>3. \A s \in SUBSET DOMAIN decoded : Body(g)[s] = g[s]
    BY <2>1, <2>2, Zenon
  <2>4. g = [s \in SUBSET DOMAIN decoded |-> g[s]]
    BY <1>3
  <2> QED
    BY <2>3, <2>4
<1>5. iter0 = Body(iter0)
  <2> HIDE DEF Body
  <2> QED
    BY <1>4, Zenon
<1> HIDE DEF iter0
<1>6. LeftRecursion(Extend, <<>>, decoded, Runs, iter0)
  <2>1. iter0[{}] = <<>>
    <3>1. {} \in SUBSET DOMAIN decoded
      OBVIOUS
    <3> QED
      BY <1>5, <3>1, Zenon
  <2>2. ASSUME NEW s \in SUBSET DOMAIN decoded, s # {}, iter0[s \ {Max(s)}] \in Runs
        PROVE  iter0[s] = Extend[<<iter0[s \ {Max(s)}], decoded[Max(s)]>>]
    <3>1. iter0[s] = Counted(iter0[s \ {Max(s)}], decoded[Max(s)])
      BY <1>5, <2>2, Zenon
    <3>2. decoded[Max(s)] \in Types
      BY <1>2, <2>2
    <3> QED
      BY <2>2, <3>1, <3>2, ExtendIs, Zenon
  <2> QED
    BY <2>1, <2>2, Zenon DEF LeftRecursion
<1>7. FoldsTo(Extend, <<>>, decoded, Runs, iter0[DOMAIN decoded])
  BY <1>6, ExtendIs, LeftSteps, Zenon
<1> QED
  BY <1>1, <1>7, Zenon

\* 1 where a run begins.
Begins(d) == [i \in DOMAIN d |-> IF i = 1 \/ d[i - 1] # d[i] THEN 1 ELSE 0]

\* The number of the run that place k belongs to.
Rank(d) == [k \in 0 .. Len(d) |-> Cardinality(Places(Begins(d), 1, k))]

\* How many runs have begun: none before the first place, and one more at every change.
LEMMA RankIs ==
  ASSUME NEW d \in Seq(Types)
  PROVE  /\ Rank(d)[0] = 0
         /\ \A k \in 0 .. Len(d) : Rank(d)[k] \in 0 .. k
         /\ \A k \in 1 .. Len(d) :
              Rank(d)[k] = Rank(d)[k - 1] + IF k = 1 \/ d[k - 1] # d[k] THEN 1 ELSE 0
         /\ \A j, k \in 0 .. Len(d) : j <= k => Rank(d)[j] <= Rank(d)[k]
<1> DEFINE n == Len(d)
           c(k) == Cardinality(Places(Begins(d), 1, k))
<1>1. n \in Nat /\ DOMAIN d = 1 .. n
  BY SeqFacts
<1>2. /\ \A k \in Nat : IsFiniteSet(Places(Begins(d), 1, k)) /\ c(k) \in Nat
      /\ c(0) = 0
      /\ \A k \in 1 .. n : c(k) = c(k - 1) + IF Begins(d)[k] = 1 THEN 1 ELSE 0
  BY <1>1, PlacesGrow
<1>3. \A k \in 1 .. n : Begins(d)[k] = 1 <=> k = 1 \/ d[k - 1] # d[k]
  BY <1>1 DEF Begins
<1>4. \A j, k \in 0 .. n : j <= k => c(j) <= c(k)
  <2> SUFFICES ASSUME NEW j \in 0 .. n, NEW k \in 0 .. n, j <= k PROVE c(j) <= c(k)
    OBVIOUS
  <2>1. Places(Begins(d), 1, j) \in SUBSET Places(Begins(d), 1, k)
    BY <1>1 DEF Places
  <2>2. IsFiniteSet(Places(Begins(d), 1, k))
    BY <1>1, <1>2
  <2> QED
    BY <2>1, <2>2, FS_Subset
<1>5. \A k \in 0 .. n : Rank(d)[k] = c(k)
  BY DEF Rank
<1> HIDE DEF c
<1>6. \A k \in 1 .. n : c(k) = c(k - 1) + IF k = 1 \/ d[k - 1] # d[k] THEN 1 ELSE 0
  BY <1>2, <1>3
<1> DEFINE G == {k \in 0 .. n : c(k) <= k}
<1>7. 0 .. n \subseteq G
  <2>1. 0 \in G
    BY <1>1, <1>2
  <2>2. ASSUME NEW k \in 1 .. n, k - 1 \in G PROVE k \in G
    <3>1. c(k - 1) <= k - 1 /\ c(k - 1) \in Nat /\ c(k) <= c(k - 1) + 1
      <4>1. k - 1 \in Nat /\ c(k - 1) <= k - 1
        BY <1>1, <2>2
      <4>2. c(k - 1) \in Nat
        BY <1>2, <4>1
      <4>3. c(k) = c(k - 1) + IF k = 1 \/ d[k - 1] # d[k] THEN 1 ELSE 0
        BY <1>6
      <4> QED
        BY <4>1, <4>2, <4>3
    <3>2. c(k) <= k
      BY <1>1, <1>2, <3>1
    <3> QED
      BY <3>2
  <2> HIDE DEF G
  <2> QED
    BY <1>1, <2>1, <2>2, IntervalInduction
<1>8. \A k \in 0 .. n : c(k) \in 0 .. k
  BY <1>1, <1>2, <1>7
<1>9. \A k \in 1 .. n : k \in 0 .. n /\ k - 1 \in 0 .. n
  BY <1>1
<1>10. 0 \in 0 .. n
  BY <1>1
<1> HIDE DEF n
<1>11. Rank(d)[0] = 0
  BY <1>2, <1>5, <1>10
<1>12. \A k \in 1 .. n : Rank(d)[k] = Rank(d)[k - 1] + IF k = 1 \/ d[k - 1] # d[k] THEN 1 ELSE 0
  BY <1>5, <1>6, <1>9
<1>13. \A k \in 0 .. n : Rank(d)[k] \in 0 .. k
  BY <1>5, <1>8
<1>14. \A j, k \in 0 .. n : j <= k => Rank(d)[j] <= Rank(d)[k]
  BY <1>4, <1>5
<1> QED
  BY <1>11, <1>12, <1>13, <1>14 DEF n

\* The runs after k types.
RunsUpTo(d, k, runs) ==
  /\ Len(runs) = Rank(d)[k]
  /\ k > 0 => Rank(d)[k] > 0 /\ runs[Rank(d)[k]].type = d[k]
  /\ \A q \in 1 .. Rank(d)[k] :
       runs[q].length = Least(Cardinality(Places(Rank(d), q, k)), FLOATMAX)

(* One more type: its run goes on or begins.                               *)
LEMMA RunsGrow ==
  ASSUME NEW d \in Seq(Types), NEW k \in 1 .. Len(d), NEW runs \in Runs, RunsUpTo(d, k - 1, runs)
  PROVE  RunsUpTo(d, k, Counted(runs, d[k]))
<1> DEFINE R == Rank(d)
           p(q, i) == Cardinality(Places(R, q, i))
           new == Counted(runs, d[k])
           n == Len(runs)
<1>1. Len(d) \in Nat /\ k \in Nat /\ k - 1 \in Nat /\ k > 0 /\ d[k] \in Types
  BY SeqFacts
<1>2. k \in 0 .. Len(d) /\ k - 1 \in 0 .. Len(d)
  BY <1>1
<1>3. /\ R[0] = 0 /\ R[k] \in 0 .. k /\ R[k - 1] \in 0 .. k - 1
      /\ R[k] = R[k - 1] + IF k = 1 \/ d[k - 1] # d[k] THEN 1 ELSE 0
      /\ \A j \in 0 .. Len(d) : j <= k - 1 => R[j] <= R[k - 1]
  BY <1>2, RankIs
<1>4. /\ n = R[k - 1]
      /\ k > 1 => n > 0 /\ runs[n].type = d[k - 1]
      /\ \A q \in 1 .. n : runs[q].length = Least(p(q, k - 1), FLOATMAX)
  BY <1>1 DEF RunsUpTo
<1>5. \A q : /\ p(q, k - 1) \in Nat
             /\ p(q, k) = p(q, k - 1) + IF R[k] = q THEN 1 ELSE 0
  BY <1>1, PlacesGrow
<1>6. \A q \in 1 .. n - 1 : new[q] = runs[q]
  BY <1>1, CountedIs
<1>7. p(n + 1, k - 1) = 0
  <2>1. \A j \in 1 .. (k - 1) : R[j] # n + 1
    <3> SUFFICES ASSUME NEW j \in 1 .. (k - 1) PROVE R[j] # n + 1
      OBVIOUS
    <3>1. j \in 0 .. Len(d) /\ j <= k - 1
      BY <1>1
    <3>2. R[j] <= n /\ n \in Nat
      BY <1>1, <1>3, <1>4, <3>1
    <3>3. R[j] \in Nat
      BY <3>1, RankIs
    <3> QED
      BY <3>2, <3>3
  <2>2. Places(R, n + 1, k - 1) = {}
    BY <2>1 DEF Places
  <2> QED
    BY <2>2, FS_EmptySet
<1> HIDE DEF R, p, new, n
<1>8. n \in Nat
  BY <1>1, <1>3, <1>4
<1>9. CASE k > 1 /\ d[k - 1] = d[k]
  <2>1. R[k] = n /\ n > 0
    BY <1>1, <1>3, <1>4, <1>8, <1>9
  <2>2. Continues(runs, d[k])
    BY <1>4, <1>9 DEF Continues, n
  <2>3. /\ Len(new) = n /\ new[n].type = d[k]
        /\ new[n].length = Incremented(runs[n].length)
    BY <1>1, <2>2, CountedIs DEF new, n
  <2>4. new[n].length = Least(p(n, k), FLOATMAX)
    <3>1. n \in 1 .. n
      BY <1>8, <2>1
    <3>2. p(n, k) = p(n, k - 1) + 1 /\ p(n, k - 1) \in Nat
      BY <1>5, <2>1
    <3>3. runs[n].length = Least(p(n, k - 1), FLOATMAX)
      BY <1>4, <3>1
    <3> QED
      BY <2>3, <3>2, <3>3, CountIs
  <2>5. \A q \in 1 .. n - 1 : new[q].length = Least(p(q, k), FLOATMAX)
    <3> SUFFICES ASSUME NEW q \in 1 .. n - 1 PROVE new[q].length = Least(p(q, k), FLOATMAX)
      OBVIOUS
    <3>1. q \in 1 .. n /\ q # n
      BY <1>8
    <3>2. p(q, k) = p(q, k - 1)
      BY <1>5, <2>1, <3>1
    <3> QED
      BY <1>4, <1>6, <3>1, <3>2
  <2>6. \A q \in 1 .. n : q \in 1 .. n - 1 \/ q = n
    BY <1>8
  <2>7. \A q \in 1 .. R[k] : new[q].length = Least(p(q, k), FLOATMAX)
    BY <2>1, <2>4, <2>5, <2>6
  <2> QED
    BY <2>1, <2>3, <2>7 DEF RunsUpTo, R, p, new
<1>10. CASE ~(k > 1 /\ d[k - 1] = d[k])
  <2>1. R[k] = n + 1
    BY <1>1, <1>3, <1>4, <1>8, <1>10
  <2>2. ~Continues(runs, d[k])
    <3>1. CASE k = 1
      BY <1>3, <1>4, <3>1 DEF Continues, n
    <3>2. CASE k > 1
      BY <1>4, <1>10, <3>2 DEF Continues, n
    <3> QED
      BY <1>1, <3>1, <3>2
  <2>3. /\ Len(new) = n + 1 /\ new[n + 1].type = d[k] /\ new[n + 1].length = 1
        /\ \A q \in 1 .. n : new[q] = runs[q]
    BY <1>1, <2>2, CountedIs DEF new, n
  <2>4. new[n + 1].length = Least(p(n + 1, k), FLOATMAX)
    <3>1. p(n + 1, k) = p(n + 1, k - 1) + 1 /\ p(n + 1, k - 1) = 0
      BY <1>5, <1>7, <1>8, <2>1
    <3> QED
      BY <2>3, <3>1, CountIs
  <2>5. \A q \in 1 .. n : new[q].length = Least(p(q, k), FLOATMAX)
    <3> SUFFICES ASSUME NEW q \in 1 .. n PROVE new[q].length = Least(p(q, k), FLOATMAX)
      OBVIOUS
    <3>1. q # n + 1
      BY <1>8
    <3>2. p(q, k) = p(q, k - 1)
      BY <1>5, <2>1, <3>1
    <3> QED
      BY <1>4, <2>3, <3>2
  <2>6. \A q \in 1 .. n + 1 : q \in 1 .. n \/ q = n + 1
    BY <1>8
  <2>7. \A q \in 1 .. R[k] : new[q].length = Least(p(q, k), FLOATMAX)
    BY <2>1, <2>4, <2>5, <2>6
  <2>8. R[k] > 0
    BY <1>8, <2>1
  <2> QED
    BY <2>1, <2>3, <2>7, <2>8 DEF RunsUpTo, R, p, new
<1> QED
  BY <1>9, <1>10

(* What RunLengthAlgo computes: the sizes of the runs, up to FLOATMAX.     *)
LEMMA RunLengthsAre ==
  ASSUME NEW decoded \in Seq(Types)
  PROVE  /\ DOMAIN RunLengths(decoded) = 1 .. Rank(decoded)[Len(decoded)]
         /\ RunLengths(decoded) \in Seq(Nat)
         /\ Len(RunLengths(decoded)) = Rank(decoded)[Len(decoded)]
         /\ \A q \in 1 .. Rank(decoded)[Len(decoded)] :
              RunLengths(decoded)[q] =
                Least(Cardinality(Places(Rank(decoded), q, Len(decoded))), FLOATMAX)
<1> DEFINE n == Len(decoded)
<1>1. PICK fold \in [0 .. n -> Runs] :
        LeftFold(Extend, <<>>, decoded, fold) /\ AllRuns(decoded) = fold[n]
  BY RunSteps DEF FoldsTo
<1> DEFINE G == {k \in 0 .. n : RunsUpTo(decoded, k, fold[k])}
<1>2. n \in Nat /\ \A k \in 1 .. n : decoded[k] \in Types
  BY SeqFacts
<1>3. 0 \in G
  <2>1. fold[0] = <<>> /\ Len(fold[0]) = 0
    BY <1>1 DEF LeftFold
  <2>2. Rank(decoded)[0] = 0
    BY RankIs
  <2>3. RunsUpTo(decoded, 0, fold[0])
    BY <2>1, <2>2 DEF RunsUpTo
  <2> QED
    BY <1>2, <2>3
<1>4. ASSUME NEW k \in 1 .. n, k - 1 \in G PROVE k \in G
  <2>1. k - 1 \in 0 .. n /\ k \in 0 .. n
    BY <1>2
  <2>2. fold[k - 1] \in Runs /\ decoded[k] \in Types /\ RunsUpTo(decoded, k - 1, fold[k - 1])
    BY <1>1, <1>2, <1>4, <2>1
  <2>3. fold[k] = Counted(fold[k - 1], decoded[k])
    BY <1>1, <2>2, ExtendIs, Zenon DEF LeftFold
  <2>4. RunsUpTo(decoded, k, fold[k])
    BY <2>2, <2>3, RunsGrow
  <2> QED
    BY <2>1, <2>4
<1>5. 0 .. n \subseteq G
  <2> HIDE DEF G
  <2> QED
    BY <1>2, <1>3, <1>4, IntervalInduction
<1>6. RunsUpTo(decoded, n, AllRuns(decoded)) /\ AllRuns(decoded) \in Runs
  <2>1. n \in 0 .. n
    BY <1>2
  <2> QED
    BY <1>1, <1>5, <2>1
<1> DEFINE r == AllRuns(decoded)
<1>7. RunLengths(decoded) = [i \in DOMAIN r |-> r[i].length]
  BY Zenon DEF RunLengths, AllRuns
<1> HIDE DEF r, n
<1>8. DOMAIN r = 1 .. Rank(decoded)[n] /\ Rank(decoded)[n] \in Nat
  <2>1. r \in Seq([type : Types, length : Nat])
    BY <1>6 DEF Runs, r
  <2>2. DOMAIN r = 1 .. Len(r) /\ Len(r) \in Nat
    BY <2>1, SeqFacts
  <2> QED
    BY <1>6, <2>2 DEF RunsUpTo, r
<1>9. \A q \in 1 .. Rank(decoded)[n] :
        RunLengths(decoded)[q] = Least(Cardinality(Places(Rank(decoded), q, n)), FLOATMAX)
  BY <1>6, <1>7, <1>8 DEF RunsUpTo, r
<1>10. \A q : Least(Cardinality(Places(Rank(decoded), q, n)), FLOATMAX) \in Nat
  BY <1>2, PlacesGrow, CountIs DEF n
<1>11. RunLengths(decoded) = [i \in 1 .. Rank(decoded)[n] |-> r[i].length]
  BY <1>7, <1>8
<1>12. \A i \in 1 .. Rank(decoded)[n] : r[i].length \in Nat
  BY <1>9, <1>10, <1>11
<1>13. RunLengths(decoded) \in Seq(Nat) /\ Len(RunLengths(decoded)) = Rank(decoded)[n]
  <2>1. ASSUME NEW m \in Nat, NEW e, \A i \in 1 .. m : e[i].length \in Nat
        PROVE  /\ [i \in 1 .. m |-> e[i].length] \in Seq(Nat)
               /\ Len([i \in 1 .. m |-> e[i].length]) = m
    BY <2>1
  <2> DEFINE m == Rank(decoded)[n]
             lengths == [i \in 1 .. m |-> r[i].length]
  <2>2. lengths \in Seq(Nat) /\ Len(lengths) = m
    BY <1>8, <1>12, <2>1, Zenon
  <2>3. RunLengths(decoded) = lengths
    BY <1>11
  <2> HIDE DEF m, lengths
  <2>4. RunLengths(decoded) \in Seq(Nat) /\ Len(RunLengths(decoded)) = m
    BY <2>2, <2>3
  <2> QED
    BY <2>4 DEF m
<1> QED
  BY <1>8, <1>9, <1>11, <1>13 DEF n

-----------------------------------------------------------------------------
(* The analyser and its history of bytes.                                  *)

Classified(contents) == [i \in DOMAIN contents |-> mClassify(contents[i])]

\* m_Decoded holds the types of all the bytes so far.
BytesInv == bytes \in Seq(0 .. 255) /\ m_Decoded = Classified(bytes)

\* A packet is classified byte by byte.
LEMMA ClassifiedIs ==
  ASSUME NEW contents \in Seq(0 .. 255)
  PROVE  /\ Classified(contents) \in Seq(Types)
         /\ Len(Classified(contents)) = Len(contents)
         /\ \A i \in 1 .. Len(contents) : Classified(contents)[i] = mClassify(contents[i])
<1>1. /\ DOMAIN contents = 1 .. Len(contents) /\ Len(contents) \in Nat
      /\ \A i \in 1 .. Len(contents) : contents[i] \in 0 .. 255
  BY SeqFacts
<1>2. \A i \in 1 .. Len(contents) : mClassify(contents[i]) \in Types
  BY <1>1, ClassifyIs
<1> QED
  BY <1>1, <1>2 DEF Classified

(* What a concatenation consists of.                                       *)
LEMMA Joined ==
  ASSUME NEW S, NEW s \in Seq(S), NEW t \in Seq(S)
  PROVE  /\ s \o t \in Seq(S)
         /\ Len(s \o t) = Len(s) + Len(t)
         /\ \A i \in 1 .. Len(s) : (s \o t)[i] = s[i]
         /\ \A i \in 1 .. Len(t) : (s \o t)[Len(s) + i] = t[i]
OBVIOUS

\* Classifying two packets one after the other is classifying them together.
LEMMA ClassifiedJoin ==
  ASSUME NEW s \in Seq(0 .. 255), NEW t \in Seq(0 .. 255)
  PROVE  Classified(s \o t) = Classified(s) \o Classified(t)
<1> DEFINE u == Classified(s \o t)
           v == Classified(s) \o Classified(t)
           m == Len(s)
           n == Len(t)
<1>1. m \in Nat /\ n \in Nat
  BY SeqFacts
<1>2. /\ s \o t \in Seq(0 .. 255) /\ Len(s \o t) = m + n
      /\ \A i \in 1 .. m : (s \o t)[i] = s[i]
      /\ \A i \in 1 .. n : (s \o t)[m + i] = t[i]
  BY Joined
<1>3. /\ u \in Seq(Types) /\ Len(u) = m + n
      /\ \A i \in 1 .. m + n : u[i] = mClassify((s \o t)[i])
  BY <1>2, ClassifiedIs
<1>4. PICK a \in Seq(Types), b \in Seq(Types) :
        /\ a = Classified(s) /\ Len(a) = m /\ \A i \in 1 .. m : a[i] = mClassify(s[i])
        /\ b = Classified(t) /\ Len(b) = n /\ \A i \in 1 .. n : b[i] = mClassify(t[i])
  BY ClassifiedIs, Zenon
<1>5. /\ v \in Seq(Types) /\ Len(v) = m + n
      /\ \A i \in 1 .. m : v[i] = a[i]
      /\ \A i \in 1 .. n : v[m + i] = b[i]
  <2>1. /\ a \o b \in Seq(Types) /\ Len(a \o b) = Len(a) + Len(b)
        /\ \A i \in 1 .. Len(a) : (a \o b)[i] = a[i]
        /\ \A i \in 1 .. Len(b) : (a \o b)[Len(a) + i] = b[i]
    BY Joined
  <2>2. v = a \o b
    BY <1>4, Zenon
  <2> HIDE DEF v, m, n
  <2> QED
    BY <1>4, <2>1, <2>2
<1> HIDE DEF u, v, m, n
<1>6. \A i \in 1 .. m + n : i \in 1 .. m \/ \E j \in 1 .. n : i = m + j
  <2> SUFFICES ASSUME NEW i \in 1 .. m + n, i \notin 1 .. m PROVE \E j \in 1 .. n : i = m + j
    OBVIOUS
  <2>1. i - m \in 1 .. n /\ i = m + (i - m)
    BY <1>1
  <2> QED
    BY <2>1
<1>7. \A i \in 1 .. m + n : u[i] = v[i]
  <2> SUFFICES ASSUME NEW i \in 1 .. m + n PROVE u[i] = v[i]
    OBVIOUS
  <2>1. CASE i \in 1 .. m
    <3>1. u[i] = mClassify(s[i])
      BY <1>2, <1>3, <2>1
    <3>2. v[i] = mClassify(s[i])
      BY <1>4, <1>5, <2>1
    <3> QED
      BY <3>1, <3>2
  <2>2. ASSUME NEW j \in 1 .. n, i = m + j PROVE u[i] = v[i]
    <3>1. u[i] = mClassify(t[j])
      BY <1>2, <1>3, <2>2
    <3>2. v[i] = mClassify(t[j])
      BY <1>4, <1>5, <2>2
    <3> QED
      BY <3>1, <3>2
  <2> QED
    BY <1>6, <2>1, <2>2
<1>8. u = v
  BY <1>3, <1>5, <1>7, SeqEqual
<1> QED
  BY <1>8 DEF u, v

\* A step analyses one more packet.
LEMMA BytesStep ==
  ASSUME BytesInv, [Next]_vars
  PROVE  /\ BytesInv'
         /\ \E more \in Seq(Types) : m_Decoded' = m_Decoded \o more
<1>1. CASE Next
  <2>1. PICK packet \in Openings \cup Packets : mAnalyse(packet)
    BY <1>1 DEF Next
  <2>2. packet \in Seq(0 .. 255)
    BY PacketAlgosAssumption
  <2>3. bytes' = bytes \o packet /\ m_Decoded' = m_Decoded \o Classified(packet)
    BY <2>1, Zenon DEF mAnalyse, Classified
  <2>4. bytes' \in Seq(0 .. 255)
    BY <2>2, <2>3, Joined DEF BytesInv
  <2>5. Classified(packet) \in Seq(Types)
    BY <2>2, ClassifiedIs
  <2>6. m_Decoded' = Classified(bytes')
    BY <2>2, <2>3, ClassifiedJoin DEF BytesInv
  <2> QED
    BY <2>3, <2>4, <2>5, <2>6 DEF BytesInv
<1>2. CASE UNCHANGED vars
  <2>1. m_Decoded' = m_Decoded /\ bytes' = bytes /\ m_Decoded \in Seq(Types)
    BY <1>2, ClassifiedIs DEF vars, BytesInv
  <2>2. m_Decoded = m_Decoded \o <<>> /\ <<>> \in Seq(Types)
    BY <2>1
  <2> QED
    BY <2>1, <2>2 DEF BytesInv
<1> QED
  BY <1>1, <1>2

\* m_Decoded always holds the types of all bytes of all packets, in order.
LEMMA BytesAlways == Spec => []BytesInv
<1>1. Init => BytesInv
  <2> SUFFICES ASSUME Init PROVE BytesInv
    OBVIOUS
  <2>1. bytes = <<>> /\ m_Decoded = <<>> /\ bytes \in Seq(0 .. 255)
    BY EmptySeq DEF Init
  <2>2. Len(bytes) = 0
    BY <2>1
  <2>3. Classified(bytes) \in Seq(Types) /\ Len(Classified(bytes)) = 0
    BY <2>1, <2>2, ClassifiedIs
  <2>4. Classified(bytes) = <<>>
    BY <2>3
  <2> QED
    BY <2>1, <2>4 DEF BytesInv
<1>2. BytesInv /\ [Next]_vars => BytesInv'
  BY BytesStep
<1> QED
  BY <1>1, <1>2, PTL DEF Spec

(* The types in m_Decoded are those that ASCII has for the bytes.          *)
LEMMA DecodedIs ==
  ASSUME BytesInv
  PROVE  /\ m_Decoded \in Seq(Types) /\ Len(m_Decoded) \in Nat
         /\ DOMAIN bytes = 1 .. Len(m_Decoded)
         /\ \A i \in 1 .. Len(m_Decoded), t \in Types : m_Decoded[i] = t <=> bytes[i] \in Class[t]
         /\ \A i \in 1 .. Len(m_Decoded) : m_Decoded[i] \in Types
<1>1. /\ bytes \in Seq(0 .. 255) /\ DOMAIN bytes = 1 .. Len(bytes) /\ Len(bytes) \in Nat
      /\ \A i \in 1 .. Len(bytes) : bytes[i] \in 0 .. 255
  BY SeqFacts DEF BytesInv
<1>2. /\ m_Decoded \in Seq(Types) /\ Len(m_Decoded) = Len(bytes)
      /\ \A i \in 1 .. Len(bytes) : m_Decoded[i] = mClassify(bytes[i])
  BY <1>1, ClassifiedIs DEF BytesInv
<1>3. \A i \in 1 .. Len(bytes) :
        m_Decoded[i] \in Types /\ \A t \in Types : m_Decoded[i] = t <=> bytes[i] \in Class[t]
  <2> SUFFICES ASSUME NEW i \in 1 .. Len(bytes)
               PROVE  /\ m_Decoded[i] \in Types
                      /\ \A t \in Types : m_Decoded[i] = t <=> bytes[i] \in Class[t]
    OBVIOUS
  <2>1. bytes[i] \in 0 .. 255 /\ m_Decoded[i] = mClassify(bytes[i])
    BY <1>1, <1>2
  <2> QED
    BY <2>1, ClassifyIs, Zenon
<1> QED
  BY <1>1, <1>2, <1>3, Zenon

(* The histogram counts every byte of every packet under the type that     *)
(* ASCII has for it, for any packets and any limit of the float.           *)
THEOREM AllBytesCounted == Spec => []DistributionCountsAllBytes
<1>1. BytesInv => DistributionCountsAllBytes
  <2> SUFFICES ASSUME BytesInv, NEW t \in Types
               PROVE  CharDistribution(m_Decoded)[t] = Min({Cardinality(At(t)), FLOATMAX})
    BY Zenon DEF DistributionCountsAllBytes
  <2>1. At(t) = Places(m_Decoded, t, Len(m_Decoded))
    BY DecodedIs DEF At, Places
  <2>2. Cardinality(At(t)) \in Nat /\ FLOATMAX \in Int
    BY <2>1, DecodedIs, PlacesGrow, PacketAlgosAssumption
  <2>3. CharDistribution(m_Decoded)[t] = Least(Cardinality(At(t)), FLOATMAX)
    BY <2>1, DecodedIs, DistributionIs
  <2> QED
    BY <2>2, <2>3, MinOfPair
<1> QED
  BY <1>1, BytesAlways, PTL

(* The run lengths are the sizes of the maximal runs of bytes of one type, *)
(* in their order and wherever the packets begin and end.                  *)
THEOREM RunsAreMaximal == Spec => []RunLengthsAreMaximalRuns
<1>1. BytesInv => RunLengthsAreMaximalRuns
  <2> SUFFICES ASSUME BytesInv PROVE RunLengthsAreMaximalRuns
    OBVIOUS
  <2> DEFINE d == m_Decoded
             n == Len(d)
             R == Rank(d)
             B(k) == Places(Begins(d), 1, k)
  <2>1. /\ d \in Seq(Types) /\ n \in Nat /\ DOMAIN d = 1 .. n /\ DOMAIN bytes = 1 .. n
        /\ \A i \in 1 .. n, t \in Types : d[i] = t <=> bytes[i] \in Class[t]
        /\ \A i \in 1 .. n : d[i] \in Types
    BY DecodedIs, SeqFacts
  <2>2. \A t \in Types : At(t) = {i \in 1 .. n : d[i] = t}
    BY <2>1 DEF At
  <2>3. \A i \in 1 .. n : Begins(d)[i] = 1 <=> i = 1 \/ d[i - 1] # d[i]
    BY <2>1 DEF Begins
  <2>4. \A i \in 1 .. n : (\E t \in Types : {i - 1, i} \subseteq At(t)) <=> Begins(d)[i] # 1
    <3> SUFFICES ASSUME NEW i \in 1 .. n
                 PROVE  (\E t \in Types : {i - 1, i} \subseteq At(t)) <=> Begins(d)[i] # 1
      OBVIOUS
    <3>1. ASSUME NEW t \in Types, {i - 1, i} \subseteq At(t) PROVE i # 1 /\ d[i - 1] = d[i]
      <4>1. i - 1 \in 1 .. n /\ d[i - 1] = t /\ d[i] = t
        BY <2>2, <3>1
      <4> QED
        BY <2>1, <4>1
    <3>2. ASSUME i # 1, d[i - 1] = d[i] PROVE \E t \in Types : {i - 1, i} \subseteq At(t)
      <4>1. i - 1 \in 1 .. n /\ d[i] \in Types
        BY <2>1, <3>2
      <4>2. {i - 1, i} \subseteq At(d[i])
        BY <2>2, <3>2, <4>1
      <4> QED
        BY <4>1, <4>2
    <3> QED
      BY <2>3, <3>1, <3>2
  <2>5. RunStarts = B(n)
    BY <2>1, <2>4 DEF RunStarts, Places
  <2> HIDE DEF d, n
  <2>6. \A k \in 0 .. n : R[k] = Cardinality(B(k)) /\ IsFiniteSet(B(k))
    <3>1. \A k \in 0 .. n : k \in Nat
      BY <2>1
    <3> QED
      BY <3>1, PlacesGrow DEF Rank, n
  <2>7. \A i, k \in 0 .. n : i <= k => B(i) \subseteq B(k) /\ (R[i] = R[k] => B(i) = B(k))
    <3> SUFFICES ASSUME NEW i \in 0 .. n, NEW k \in 0 .. n, i <= k
                 PROVE  B(i) \subseteq B(k) /\ (R[i] = R[k] => B(i) = B(k))
      OBVIOUS
    <3>1. B(i) \subseteq B(k)
      BY <2>1 DEF Places
    <3> HIDE DEF B, R
    <3> QED
      BY <2>6, <3>1, FS_Subset
  <2>8. /\ \A k \in 0 .. n : R[k] \in Nat
        /\ \A j, k \in 0 .. n : j <= k => R[j] <= R[k]
        /\ \A i \in RunStarts : i \in 1 .. n /\ R[i] = R[i - 1] + 1
    <3>1. \A i \in RunStarts : i \in 1 .. n /\ Begins(d)[i] = 1
      BY <2>5 DEF Places
    <3>2. /\ \A k \in 0 .. n : R[k] \in 0 .. k
          /\ \A j, k \in 0 .. n : j <= k => R[j] <= R[k]
          /\ \A i \in 1 .. n : R[i] = R[i - 1] + IF i = 1 \/ d[i - 1] # d[i] THEN 1 ELSE 0
      BY <2>1, RankIs DEF n
    <3>3. \A i \in RunStarts : R[i] = R[i - 1] + 1
      BY <2>3, <3>1, <3>2
    <3> QED
      BY <3>1, <3>2, <3>3
  <2>9. ASSUME NEW i \in RunStarts
        PROVE  {k \in RunStarts : k <= i} = B(i) /\ RunFrom(i) = Places(R, R[i], n)
    <3>1. i \in 1 .. n /\ i \in 0 .. n /\ i - 1 \in 0 .. n /\ R[i] = R[i - 1] + 1
      BY <2>1, <2>8
    <3>2. {k \in RunStarts : k <= i} = B(i)
      BY <2>1, <2>5, <3>1 DEF Places
    <3>3. \A k \in 1 .. n : k >= i => (RunStarts \cap (i + 1 .. k) = {} <=> B(i) = B(k))
      BY <2>1, <2>5, <3>1 DEF Places
    <3>4. ASSUME NEW k \in 1 .. n PROVE k \in RunFrom(i) <=> R[k] = R[i]
      <4>1. k \in 0 .. n /\ R[k] \in Nat /\ R[i] \in Nat /\ R[i - 1] \in Nat
        BY <2>1, <2>8, <3>1
      <4>2. CASE k >= i
        <5>1. k \in RunFrom(i) <=> RunStarts \cap (i + 1 .. k) = {}
          BY <2>1, <4>2 DEF RunFrom
        <5>2. i <= k
          BY <2>1, <3>1, <4>2
        <5>3. R[i] = R[k] <=> B(i) = B(k)
          BY <2>6, <2>7, <3>1, <4>1, <5>2, Zenon
        <5> QED
          BY <3>3, <4>2, <5>1, <5>3, Zenon
      <4>3. CASE k < i
        <5>1. k <= i - 1
          BY <2>1, <3>1, <4>3
        <5>2. R[k] <= R[i - 1]
          BY <2>8, <3>1, <4>1, <5>1
        <5> HIDE DEF R
        <5>3. R[k] # R[i]
          BY <3>1, <4>1, <5>2
        <5>4. ~(k >= i)
          BY <2>1, <3>1, <4>3
        <5> QED
          BY <5>3, <5>4 DEF RunFrom
      <4> QED
        BY <2>1, <3>1, <4>2, <4>3
    <3>5. RunFrom(i) \subseteq 1 .. n
      BY <2>1 DEF RunFrom
    <3> HIDE DEF R
    <3> QED
      BY <3>2, <3>4, <3>5 DEF Places
  <2>10. ASSUME NEW i \in RunStarts
         PROVE  RunLengths(m_Decoded)[Cardinality({k \in RunStarts : k <= i})] =
                  Min({Cardinality(RunFrom(i)), FLOATMAX})
    <3>1. i \in 0 .. n /\ Cardinality({k \in RunStarts : k <= i}) = R[i]
      <4>1. i \in 0 .. n
        BY <2>1, <2>8
      <4> QED
        BY <2>6, <2>9, <4>1, Zenon
    <3>2. R[i] \in 1 .. R[n]
      <4>1. i \in 1 .. n /\ i - 1 \in 0 .. n /\ n \in 0 .. n /\ i <= n /\ R[i] = R[i - 1] + 1
        BY <2>1, <2>8
      <4>2. R[i] \in Nat /\ R[n] \in Nat /\ R[i - 1] \in Nat /\ R[i] <= R[n]
        BY <2>8, <3>1, <4>1
      <4> HIDE DEF R
      <4> QED
        BY <4>1, <4>2
    <3>3. RunLengths(d)[R[i]] = Least(Cardinality(Places(R, R[i], n)), FLOATMAX)
      BY <2>1, <3>2, RunLengthsAre DEF n
    <3>4. Cardinality(Places(R, R[i], n)) \in Int /\ FLOATMAX \in Int
      BY <2>1, PlacesGrow, PacketAlgosAssumption
    <3> HIDE DEF R
    <3> QED
      BY <2>9, <3>1, <3>3, <3>4, MinOfPair DEF d
  <2>11. Len(RunLengths(m_Decoded)) = Cardinality(RunStarts)
    <3>1. n \in 0 .. n /\ Len(RunLengths(d)) = R[n]
      BY <2>1, RunLengthsAre DEF n
    <3> QED
      BY <2>5, <2>6, <3>1 DEF d
  <2> QED
    BY <2>10, <2>11, Zenon DEF RunLengthsAreMaximalRuns
<1> QED
  BY <1>1, BytesAlways, PTL

-----------------------------------------------------------------------------
(* Analyses of a longer sequence of types.                                 *)

\* A full float does not turn the order of two counts round.
LEMMA CountsKeepOrder ==
  ASSUME NEW m \in Nat, NEW n \in Nat, m <= n
  PROVE  Least(m, FLOATMAX) <= Least(n, FLOATMAX)
BY PacketAlgosAssumption DEF Least

\* e begins like d.
Prolongs(e, d) == Len(d) <= Len(e) /\ \A i \in 1 .. Len(d) : e[i] = d[i]

\* More types, no smaller count.
LEMMA DistributionGrows ==
  ASSUME NEW d \in Seq(Types), NEW e \in Seq(Types), Prolongs(e, d), NEW t \in Types
  PROVE  CharDistribution(d)[t] <= CharDistribution(e)[t]
<1>1. Len(d) \in Nat /\ Len(e) \in Nat
  OBVIOUS
<1>2. Places(d, t, Len(d)) \in SUBSET Places(e, t, Len(e))
  BY <1>1 DEF Places, Prolongs
<1>3. /\ IsFiniteSet(Places(e, t, Len(e))) /\ Cardinality(Places(e, t, Len(e))) \in Nat
      /\ Cardinality(Places(d, t, Len(d))) \in Nat
  BY <1>1, PlacesGrow
<1>4. Cardinality(Places(d, t, Len(d))) <= Cardinality(Places(e, t, Len(e)))
  BY <1>2, <1>3, FS_Subset
<1> QED
  BY <1>3, <1>4, DistributionIs, CountsKeepOrder

\* What follows a place does not change how many runs have begun up to it.
LEMMA RankKept ==
  ASSUME NEW d \in Seq(Types), NEW e \in Seq(Types), Prolongs(e, d), NEW k \in 0 .. Len(d)
  PROVE  Rank(e)[k] = Rank(d)[k]
<1>1. /\ Len(d) \in Nat /\ Len(e) \in Nat
      /\ DOMAIN d = 1 .. Len(d) /\ DOMAIN e = 1 .. Len(e)
  OBVIOUS
<1>2. \A i \in 1 .. k : Begins(e)[i] = Begins(d)[i]
  <2> SUFFICES ASSUME NEW i \in 1 .. k PROVE Begins(e)[i] = Begins(d)[i]
    OBVIOUS
  <2>1. i \in 1 .. Len(d) /\ i \in 1 .. Len(e) /\ (i # 1 => i - 1 \in 1 .. Len(d))
    BY <1>1 DEF Prolongs
  <2> QED
    BY <1>1, <2>1 DEF Begins, Prolongs
<1>3. Places(Begins(e), 1, k) = Places(Begins(d), 1, k)
  BY <1>2 DEF Places
<1>4. k \in 0 .. Len(e)
  BY <1>1 DEF Prolongs
<1> QED
  BY <1>3, <1>4 DEF Rank

\* More types leave all runs but the last as they are.
LEMMA RunLengthsExtend ==
  ASSUME NEW d \in Seq(Types), NEW e \in Seq(Types), Prolongs(e, d)
  PROVE  LET old == RunLengths(d)
             new == RunLengths(e)
         IN  /\ Len(old) <= Len(new)
             /\ \A k \in 1 .. Len(old) - 1 : new[k] = old[k]
             /\ old # <<>> => new[Len(old)] >= old[Len(old)]
<1> DEFINE old == RunLengths(d)
           new == RunLengths(e)
           m == Len(d)
           n == Len(e)
           r == Rank(d)[m]
           D(q) == Places(Rank(d), q, m)
           E(q) == Places(Rank(e), q, n)
<1>1. m \in Nat /\ n \in Nat /\ m <= n
  BY DEF Prolongs
<1>2. /\ \A k \in 0 .. n : Rank(e)[k] \in 0 .. k
      /\ \A j, k \in 0 .. n : j <= k => Rank(e)[j] <= Rank(e)[k]
  BY RankIs
<1>3. \A k \in 0 .. m : Rank(e)[k] = Rank(d)[k]
  BY RankKept
<1>4. /\ old \in Seq(Nat) /\ Len(old) = r
      /\ \A q \in 1 .. r : old[q] = Least(Cardinality(D(q)), FLOATMAX)
  BY RunLengthsAre
<1>5. /\ new \in Seq(Nat) /\ Len(new) = Rank(e)[n]
      /\ \A q \in 1 .. Rank(e)[n] : new[q] = Least(Cardinality(E(q)), FLOATMAX)
  BY RunLengthsAre
<1> HIDE DEF old, new, m, n
<1>6. r \in Nat /\ Rank(e)[n] \in Nat /\ r <= Rank(e)[n]
  <2>1. m \in 0 .. n /\ n \in 0 .. n /\ m \in 0 .. m
    BY <1>1
  <2>2. Rank(e)[m] <= Rank(e)[n] /\ Rank(e)[m] \in Nat /\ Rank(e)[n] \in Nat
    BY <1>1, <1>2, <2>1
  <2> QED
    BY <1>3, <2>1, <2>2
<1>7. ASSUME NEW q \in 1 .. r
      PROVE  D(q) \subseteq E(q) /\ (q < r => D(q) = E(q))
  <2>1. \A k \in 1 .. m : k \in 0 .. m /\ k \in 1 .. n
    BY <1>1
  <2>2. D(q) \subseteq E(q)
    BY <1>3, <2>1 DEF Places
  <2>3. ASSUME q < r, NEW k \in 1 .. n, Rank(e)[k] = q PROVE k \in 1 .. m /\ Rank(d)[k] = q
    <3>1. m \in 0 .. n /\ k \in 0 .. n /\ m \in 0 .. m
      BY <1>1
    <3>2. ~(m <= k)
      <4> SUFFICES ASSUME m <= k PROVE FALSE
        OBVIOUS
      <4>1. Rank(e)[m] <= Rank(e)[k] /\ Rank(e)[m] = r
        BY <1>2, <1>3, <3>1
      <4> HIDE DEF r
      <4> QED
        BY <1>6, <2>3, <4>1
    <3>3. k \in 1 .. m /\ k \in 0 .. m
      BY <1>1, <3>2
    <3> QED
      BY <1>3, <2>3, <3>3
  <2> QED
    BY <2>2, <2>3 DEF Places
<1>8. \A q : /\ IsFiniteSet(E(q)) /\ Cardinality(E(q)) \in Nat
             /\ Cardinality(D(q)) \in Nat
  BY <1>1, PlacesGrow
<1> HIDE DEF D, E, r
<1>9. \A q \in 1 .. r : q \in 1 .. Rank(e)[n]
  BY <1>6
<1>10. ASSUME NEW k \in 1 .. Len(old) - 1 PROVE new[k] = old[k]
  <2>1. k \in 1 .. r /\ k < r
    BY <1>4, <1>6
  <2>2. D(k) = E(k)
    BY <1>7, <2>1
  <2> QED
    BY <1>4, <1>5, <1>9, <2>1, <2>2
<1>11. ASSUME old # <<>> PROVE new[Len(old)] >= old[Len(old)]
  <2>1. r \in 1 .. r
    BY <1>4, <1>6, <1>11
  <2>2. Cardinality(D(r)) <= Cardinality(E(r))
    BY <1>7, <1>8, <2>1, FS_Subset
  <2>3. Least(Cardinality(D(r)), FLOATMAX) <= Least(Cardinality(E(r)), FLOATMAX)
    BY <1>8, <2>2, CountsKeepOrder
  <2>4. /\ old[r] = Least(Cardinality(D(r)), FLOATMAX)
        /\ new[r] = Least(Cardinality(E(r)), FLOATMAX)
        /\ old[r] \in Nat /\ new[r] \in Nat
    BY <1>4, <1>5, <1>8, <1>9, <2>1, CountIs
  <2> QED
    BY <1>4, <2>3, <2>4
<1> QED
  BY <1>4, <1>5, <1>6, <1>10, <1>11 DEF old, new

(* A packet more: the histogram only grows, and of the run lengths only    *)
(* the last one changes, so an analysis never has fewer coordinates than   *)
(* an earlier one by the same object.                                      *)
THEOREM AnalysesGrow == Spec => AnalysesExtend
<1>1. ASSUME BytesInv, [Next]_vars
      PROVE  m_Decoded \in Seq(Types) /\ m_Decoded' \in Seq(Types) /\ Prolongs(m_Decoded', m_Decoded)
  <2>1. PICK more \in Seq(Types) : m_Decoded' = m_Decoded \o more
    BY <1>1, BytesStep
  <2>2. m_Decoded \in Seq(Types)
    BY <1>1, DecodedIs
  <2>3. /\ m_Decoded' \in Seq(Types) /\ Len(m_Decoded') = Len(m_Decoded) + Len(more)
        /\ \A i \in 1 .. Len(m_Decoded) : m_Decoded'[i] = m_Decoded[i]
        /\ Len(m_Decoded) \in Nat /\ Len(more) \in Nat
    BY <2>1, <2>2, Joined
  <2> QED
    BY <2>2, <2>3 DEF Prolongs
<1> DEFINE Grows(d, e) ==
      LET old == RunLengths(d)
          new == RunLengths(e)
      IN  /\ \A t \in Types : CharDistribution(d)[t] <= CharDistribution(e)[t]
          /\ Len(old) <= Len(new)
          /\ \A k \in 1 .. Len(old) - 1 : new[k] = old[k]
          /\ old # <<>> => new[Len(old)] >= old[Len(old)]
<1>2. BytesInv /\ [Next]_vars => Grows(m_Decoded, m_Decoded')
  BY <1>1, DistributionGrows, RunLengthsExtend, Zenon
<1>3. BytesInv /\ [Next]_vars =>
        [LET old == RunLengths(m_Decoded)
             new == RunLengths(m_Decoded')
         IN  /\ \A t \in Types : CharDistribution(m_Decoded)[t] <= CharDistribution(m_Decoded')[t]
             /\ Len(old) <= Len(new)
             /\ \A k \in 1 .. Len(old) - 1 : new[k] = old[k]
             /\ old # <<>> => new[Len(old)] >= old[Len(old)]]_vars
  BY <1>2, Zenon
<1> QED
  BY <1>3, BytesAlways, PTL DEF Spec, AnalysesExtend

=============================================================================
