--------------------------- MODULE ReductionProofs --------------------------
(***************************************************************************)
(* Proofs about Reduction, for every spec, limit of trials and candidates, *)
(* set of invariants and behaviour of the executor that the constants      *)
(* allow: a finished search stands at a local minimum, the published       *)
(* minimized trace reproduces its incident, and what is executed is always *)
(* a compilable schedule.                                                  *)
(***************************************************************************)
EXTENDS Reduction, PlannerProofs, FiniteSetTheorems, SequenceTheorems

-----------------------------------------------------------------------------
(* Induction.  A set that holds 0 and with each number the next one holds    *)
(* all the numbers up to a bound: were the bound not in it, adding one would *)
(* be an injection of the set into itself without 0.                         *)

\* The bound of an interval is reached from 0 by steps of one.
LEMMA Reached ==
  ASSUME NEW n \in Nat, NEW G \in SUBSET (0 .. n), 0 \in G,
         \A k \in G : k < n => k + 1 \in G
  PROVE  n \in G
  <1> SUFFICES ASSUME n \notin G PROVE FALSE
    OBVIOUS
  <1> DEFINE f == [k \in G |-> k + 1]
  <1>1. IsFiniteSet(G)
    <2>1. IsFiniteSet(0 .. n)
      BY FS_Interval
    <2> QED  BY <2>1, FS_Subset
  <1>2. IsFiniteSet(G \ {0}) /\ Cardinality(G \ {0}) = Cardinality(G) - 1
    BY <1>1, FS_RemoveElement
  <1>3. Cardinality(G) \in Nat
    BY <1>1, FS_CardinalityType
  <1>4. f \in [G -> G \ {0}]
    OBVIOUS
  <1>5. \E x, y \in G : x # y /\ f[x] = f[y]
    <2>1. Cardinality(G \ {0}) < Cardinality(G)
      BY <1>2, <1>3
    <2> HIDE DEF f
    <2>2. \E x, y \in G : x # y /\ f[x] = f[y]
      BY <1>1, <1>2, <1>4, <2>1, FS_PigeonHole
    <2> QED  BY <2>2
  <1> QED  BY <1>5

\* Induction over the numbers up to n, for the set of those that have a property.
LEMMA SetInduction ==
  ASSUME NEW n \in Nat, NEW G, 0 \in G, \A k \in 0 .. n - 1 : k \in G => k + 1 \in G
  PROVE  \A m \in 0 .. n : m \in G
  <1> TAKE m \in 0 .. n
  <1> DEFINE H == G \cap (0 .. m)
  <1>1. m \in Nat /\ H \in SUBSET (0 .. m) /\ 0 \in H
    OBVIOUS
  <1>2. \A k \in H : k < m => k + 1 \in H
    OBVIOUS
  <1>3. m \in H
    <2> HIDE DEF H
    <2> QED  BY <1>1, <1>2, Reached
  <1> QED  BY <1>3

-----------------------------------------------------------------------------
(* The recursive functions are what their rounds say.                        *)

\* Normalized is the function its rounds define.
LEMMA NormalizedExists ==
  ASSUME NEW s, NEW legacy, NEW schedule, Len(schedule) \in Nat
  PROVE  Normalized(s, legacy, schedule) =
           [n \in 0 .. Len(schedule) |->
              IF n = 0 THEN [model |-> Initial(legacy), kept |-> <<>>]
              ELSE LET before == Normalized(s, legacy, schedule)[n - 1]
                       e == schedule[n] IN
                   IF e.act \in Eligible(s, before.model)
                   THEN [model |-> Apply(before.model, e.act),
                         kept  |-> Append(before.kept, e)]
                   ELSE before]
  <1> DEFINE L == Len(schedule)
             Round(x, n) == IF schedule[n].act \in Eligible(s, x.model)
               THEN [model |-> Apply(x.model, schedule[n].act),
                     kept  |-> Append(x.kept, schedule[n])]
               ELSE x
             Upto(m, f) == f = [n \in 0 .. m |->
                                  IF n = 0 THEN [model |-> Initial(legacy), kept |-> <<>>]
                                  ELSE Round(f[n - 1], n)]
             G == {m \in 0 .. L : \E f : Upto(m, f)}
             chosen == CHOOSE f : Upto(L, f)
  <1>0. Normalized(s, legacy, schedule) = chosen
    BY Zenon DEF Normalized
  <1>1. L \in Nat
    OBVIOUS
  <1> HIDE DEF L, Round
  <1>2. 0 \in G
    <2>1. Upto(0, [n \in 0 .. 0 |-> [model |-> Initial(legacy), kept |-> <<>>]])
      OBVIOUS
    <2> HIDE DEF Upto
    <2> QED  BY <1>1, <2>1
  <1>3. ASSUME NEW m \in 0 .. L - 1, m \in G
        PROVE  m + 1 \in G
    <2>1. PICK f : Upto(m, f)
      BY <1>3
    <2> DEFINE g == [n \in 0 .. m + 1 |-> IF n = m + 1 THEN Round(f[m], m + 1) ELSE f[n]]
    <2>2. \A n \in 0 .. m + 1 :
             g[n] =
                  IF n = 0 THEN [model |-> Initial(legacy), kept |-> <<>>]
                  ELSE Round(g[n - 1], n)
      <3> TAKE n \in 0 .. m + 1
      <3>1. CASE n = m + 1
        <4>1. g[n] = Round(f[m], m + 1) /\ g[n - 1] = f[m] /\ n # 0
          BY <1>1, <3>1
        <4> QED  BY <3>1, <4>1
      <3>2. CASE n # m + 1
        <4>1. n \in 0 .. m /\ g[n] = f[n] /\ (n # 0 => g[n - 1] = f[n - 1])
          BY <1>1, <3>2
        <4>2. f[n] =
             IF n = 0 THEN [model |-> Initial(legacy), kept |-> <<>>]
             ELSE Round(f[n - 1], n)
          BY <2>1, <4>1
        <4> HIDE DEF g
        <4> QED  BY <4>1, <4>2
      <3> QED  BY <3>1, <3>2
    <2>3. g = [n \in 0 .. m + 1 |-> g[n]]
      OBVIOUS
    <2> HIDE DEF g
    <2>4. g = [n \in 0 .. m + 1 |->
                 IF n = 0 THEN [model |-> Initial(legacy), kept |-> <<>>]
                 ELSE Round(g[n - 1], n)]
      BY <2>2, <2>3
    <2>5. m + 1 \in 0 .. L
      BY <1>1
    <2> QED  BY <2>4, <2>5
  <1>4. L \in G
    <2> HIDE DEF G
    <2>1. \A m \in 0 .. L : m \in G
      BY <1>1, <1>2, <1>3, SetInduction
    <2> HIDE DEF Upto
    <2> QED  BY <1>1, <2>1
  <1>5. Upto(L, chosen)
    <2>1. \E f : Upto(L, f)
      BY <1>4
    <2> HIDE DEF Upto
    <2> QED  BY <2>1
  <1> QED  BY <1>0, <1>5 DEF L, Round

\* Complexities is the function its rounds define.
LEMMA ComplexitiesExists ==
  ASSUME NEW schedule, Len(schedule) \in Nat
  PROVE  Complexities(schedule) =
           [n \in 0 .. Len(schedule) |->
              IF n = 0 THEN <<0, 0, 0, 0, 0>>
              ELSE LET c == Complexities(schedule)[n - 1] a == schedule[n].act IN
                   <<c[1] + 1,
                     c[2] + (IF IsFault(a) THEN 1 ELSE 0),
                     c[3] + Score(a), c[4] + CallCount(a), c[5] + Delay(a)>>]
  <1> DEFINE L == Len(schedule)
             Round(x, n) == <<x[1] + 1,
                 x[2] + (IF IsFault(schedule[n].act) THEN 1 ELSE 0),
                 x[3] + Score(schedule[n].act), x[4] + CallCount(schedule[n].act),
                 x[5] + Delay(schedule[n].act)>>
             Upto(m, f) == f = [n \in 0 .. m |->
                                  IF n = 0 THEN <<0, 0, 0, 0, 0>>
                                  ELSE Round(f[n - 1], n)]
             G == {m \in 0 .. L : \E f : Upto(m, f)}
             chosen == CHOOSE f : Upto(L, f)
  <1>0. Complexities(schedule) = chosen
    BY Zenon DEF Complexities
  <1>1. L \in Nat
    OBVIOUS
  <1> HIDE DEF L, Round
  <1>2. 0 \in G
    <2>1. Upto(0, [n \in 0 .. 0 |-> <<0, 0, 0, 0, 0>>])
      OBVIOUS
    <2> HIDE DEF Upto
    <2> QED  BY <1>1, <2>1
  <1>3. ASSUME NEW m \in 0 .. L - 1, m \in G
        PROVE  m + 1 \in G
    <2>1. PICK f : Upto(m, f)
      BY <1>3
    <2> DEFINE g == [n \in 0 .. m + 1 |-> IF n = m + 1 THEN Round(f[m], m + 1) ELSE f[n]]
    <2>2. \A n \in 0 .. m + 1 :
             g[n] = IF n = 0 THEN <<0, 0, 0, 0, 0>> ELSE Round(g[n - 1], n)
      <3> TAKE n \in 0 .. m + 1
      <3>1. CASE n = m + 1
        <4>1. g[n] = Round(f[m], m + 1) /\ g[n - 1] = f[m] /\ n # 0
          BY <1>1, <3>1
        <4> QED  BY <3>1, <4>1
      <3>2. CASE n # m + 1
        <4>1. n \in 0 .. m /\ g[n] = f[n] /\ (n # 0 => g[n - 1] = f[n - 1])
          BY <1>1, <3>2
        <4>2. f[n] = IF n = 0 THEN <<0, 0, 0, 0, 0>> ELSE Round(f[n - 1], n)
          BY <2>1, <4>1
        <4> HIDE DEF g
        <4> QED  BY <4>1, <4>2
      <3> QED  BY <3>1, <3>2
    <2>3. g = [n \in 0 .. m + 1 |-> g[n]]
      OBVIOUS
    <2> HIDE DEF g
    <2>4. g = [n \in 0 .. m + 1 |-> IF n = 0 THEN <<0, 0, 0, 0, 0>> ELSE Round(g[n - 1], n)]
      BY <2>2, <2>3
    <2>5. m + 1 \in 0 .. L
      BY <1>1
    <2> QED  BY <2>4, <2>5
  <1>4. L \in G
    <2> HIDE DEF G
    <2>1. \A m \in 0 .. L : m \in G
      BY <1>1, <1>2, <1>3, SetInduction
    <2> HIDE DEF Upto
    <2> QED  BY <1>1, <2>1
  <1>5. Upto(L, chosen)
    <2>1. \E f : Upto(L, f)
      BY <1>4
    <2> HIDE DEF Upto
    <2> QED  BY <2>1
  <1> QED  BY <1>0, <1>5 DEF L, Round

\* InTurn is the last value of the function its rounds define.
LEMMA InTurnExists ==
  ASSUME NEW seqs, Len(seqs) \in Nat
  PROVE  \E f : /\ f = [n \in 0 .. Len(seqs) |-> IF n = 0 THEN <<>> ELSE f[n - 1] \o seqs[n]]
                /\ InTurn(seqs) = f[Len(seqs)]
  <1> DEFINE L == Len(seqs)
             Round(x, n) == x \o seqs[n]
             Upto(m, f) == f = [n \in 0 .. m |-> IF n = 0 THEN <<>> ELSE Round(f[n - 1], n)]
             G == {m \in 0 .. L : \E f : Upto(m, f)}
             chosen == CHOOSE f : Upto(L, f)
  <1>0. InTurn(seqs) = chosen[L]
    BY Zenon DEF InTurn
  <1>1. L \in Nat
    OBVIOUS
  <1> HIDE DEF L, Round
  <1>2. 0 \in G
    <2>1. Upto(0, [n \in 0 .. 0 |-> <<>>])
      OBVIOUS
    <2> HIDE DEF Upto
    <2> QED  BY <1>1, <2>1
  <1>3. ASSUME NEW m \in 0 .. L - 1, m \in G
        PROVE  m + 1 \in G
    <2>1. PICK f : Upto(m, f)
      BY <1>3
    <2> DEFINE g == [n \in 0 .. m + 1 |-> IF n = m + 1 THEN Round(f[m], m + 1) ELSE f[n]]
    <2>2. \A n \in 0 .. m + 1 :
             g[n] = IF n = 0 THEN <<>> ELSE Round(g[n - 1], n)
      <3> TAKE n \in 0 .. m + 1
      <3>1. CASE n = m + 1
        <4>1. g[n] = Round(f[m], m + 1) /\ g[n - 1] = f[m] /\ n # 0
          BY <1>1, <3>1
        <4> QED  BY <3>1, <4>1
      <3>2. CASE n # m + 1
        <4>1. n \in 0 .. m /\ g[n] = f[n] /\ (n # 0 => g[n - 1] = f[n - 1])
          BY <1>1, <3>2
        <4>2. f[n] = IF n = 0 THEN <<>> ELSE Round(f[n - 1], n)
          BY <2>1, <4>1
        <4> HIDE DEF g
        <4> QED  BY <4>1, <4>2
      <3> QED  BY <3>1, <3>2
    <2>3. g = [n \in 0 .. m + 1 |-> g[n]]
      OBVIOUS
    <2> HIDE DEF g
    <2>4. g = [n \in 0 .. m + 1 |-> IF n = 0 THEN <<>> ELSE Round(g[n - 1], n)]
      BY <2>2, <2>3
    <2>5. m + 1 \in 0 .. L
      BY <1>1
    <2> QED  BY <2>4, <2>5
  <1>4. L \in G
    <2> HIDE DEF G
    <2>1. \A m \in 0 .. L : m \in G
      BY <1>1, <1>2, <1>3, SetInduction
    <2> HIDE DEF Upto
    <2> QED  BY <1>1, <2>1
  <1>5. Upto(L, chosen)
    <2>1. \E f : Upto(L, f)
      BY <1>4
    <2> HIDE DEF Upto
    <2> QED  BY <2>1
  <1> QED  BY <1>0, <1>5 DEF L, Round

\* Offers is the last value of the function its rounds define.
LEMMA OffersExists ==
  ASSUME NEW s, NEW legacy, NEW schedule, NEW origin, Len(Proposals(schedule)) \in Nat
  PROVE  \E f : /\ f = [n \in 0 .. Len(Proposals(schedule)) |->
                          IF n = 0 THEN <<>>
                          ELSE Push(s, legacy, schedule, origin, f[n - 1],
                                    Proposals(schedule)[n])]
                /\ Offers(s, legacy, schedule, origin) = f[Len(Proposals(schedule))]
  <1> DEFINE L == Len(Proposals(schedule))
             Round(x, n) == Push(s, legacy, schedule, origin, x, Proposals(schedule)[n])
             Upto(m, f) == f = [n \in 0 .. m |-> IF n = 0 THEN <<>> ELSE Round(f[n - 1], n)]
             G == {m \in 0 .. L : \E f : Upto(m, f)}
             chosen == CHOOSE f : Upto(L, f)
  <1>0. Offers(s, legacy, schedule, origin) = chosen[L]
    BY Zenon DEF Offers
  <1>1. L \in Nat
    OBVIOUS
  <1> HIDE DEF L, Round
  <1>2. 0 \in G
    <2>1. Upto(0, [n \in 0 .. 0 |-> <<>>])
      OBVIOUS
    <2> HIDE DEF Upto
    <2> QED  BY <1>1, <2>1
  <1>3. ASSUME NEW m \in 0 .. L - 1, m \in G
        PROVE  m + 1 \in G
    <2>1. PICK f : Upto(m, f)
      BY <1>3
    <2> DEFINE g == [n \in 0 .. m + 1 |-> IF n = m + 1 THEN Round(f[m], m + 1) ELSE f[n]]
    <2>2. \A n \in 0 .. m + 1 :
             g[n] = IF n = 0 THEN <<>> ELSE Round(g[n - 1], n)
      <3> TAKE n \in 0 .. m + 1
      <3>1. CASE n = m + 1
        <4>1. g[n] = Round(f[m], m + 1) /\ g[n - 1] = f[m] /\ n # 0
          BY <1>1, <3>1
        <4> QED  BY <3>1, <4>1
      <3>2. CASE n # m + 1
        <4>1. n \in 0 .. m /\ g[n] = f[n] /\ (n # 0 => g[n - 1] = f[n - 1])
          BY <1>1, <3>2
        <4>2. f[n] = IF n = 0 THEN <<>> ELSE Round(f[n - 1], n)
          BY <2>1, <4>1
        <4> HIDE DEF g
        <4> QED  BY <4>1, <4>2
      <3> QED  BY <3>1, <3>2
    <2>3. g = [n \in 0 .. m + 1 |-> g[n]]
      OBVIOUS
    <2> HIDE DEF g
    <2>4. g = [n \in 0 .. m + 1 |-> IF n = 0 THEN <<>> ELSE Round(g[n - 1], n)]
      BY <2>2, <2>3
    <2>5. m + 1 \in 0 .. L
      BY <1>1
    <2> QED  BY <2>4, <2>5
  <1>4. L \in G
    <2> HIDE DEF G
    <2>1. \A m \in 0 .. L : m \in G
      BY <1>1, <1>2, <1>3, SetInduction
    <2> HIDE DEF Upto
    <2> QED  BY <1>1, <2>1
  <1>5. Upto(L, chosen)
    <2>1. \E f : Upto(L, f)
      BY <1>4
    <2> HIDE DEF Upto
    <2> QED  BY <2>1
  <1> QED  BY <1>0, <1>5 DEF L, Round

\* Partitions is the function its rounds define.
LEMMA PartitionsExists ==
  ASSUME NEW n \in Nat
  PROVE  Partitions(n) = [k \in 1 .. n |-> IF k = 1 THEN 2 ELSE 2 * Partitions(n)[k - 1]]
  <1> DEFINE Round(x) == 2 * x
             Upto(m, f) == f = [k \in 1 .. m |-> IF k = 1 THEN 2 ELSE Round(f[k - 1])]
             G == {m \in 0 .. n : \E f : Upto(m, f)}
             chosen == CHOOSE f : Upto(n, f)
  <1>0. Partitions(n) = chosen
    BY Zenon DEF Partitions
  <1> HIDE DEF Round
  <1>2. 0 \in G
    <2>1. Upto(0, [k \in 1 .. 0 |-> 2])
      OBVIOUS
    <2> HIDE DEF Upto
    <2> QED  BY <2>1
  <1>3. ASSUME NEW m \in 0 .. n - 1, m \in G
        PROVE  m + 1 \in G
    <2>1. PICK f : Upto(m, f)
      BY <1>3
    <2> DEFINE g == [k \in 1 .. m + 1 |->
                       IF k = m + 1 THEN IF k = 1 THEN 2 ELSE Round(f[m]) ELSE f[k]]
    <2>2. \A k \in 1 .. m + 1 : g[k] = IF k = 1 THEN 2 ELSE Round(g[k - 1])
      <3> TAKE k \in 1 .. m + 1
      <3>1. CASE k = m + 1
        <4>1. g[k] = (IF k = 1 THEN 2 ELSE Round(f[m])) /\ (k # 1 => g[k - 1] = f[m])
          BY <3>1
        <4> QED  BY <3>1, <4>1
      <3>2. CASE k # m + 1
        <4>1. k \in 1 .. m /\ g[k] = f[k] /\ (k # 1 => g[k - 1] = f[k - 1])
          BY <3>2
        <4>2. f[k] = IF k = 1 THEN 2 ELSE Round(f[k - 1])
          BY <2>1, <4>1
        <4> HIDE DEF g
        <4> QED  BY <4>1, <4>2
      <3> QED  BY <3>1, <3>2
    <2>3. g = [k \in 1 .. m + 1 |-> g[k]]
      OBVIOUS
    <2> HIDE DEF g
    <2>4. g = [k \in 1 .. m + 1 |-> IF k = 1 THEN 2 ELSE Round(g[k - 1])]
      BY <2>2, <2>3
    <2>5. m + 1 \in 0 .. n
      OBVIOUS
    <2> QED  BY <2>4, <2>5
  <1>4. n \in G
    <2> HIDE DEF G
    <2>1. \A m \in 0 .. n : m \in G
      BY <1>2, <1>3, SetInduction
    <2> QED  BY <2>1
  <1>5. Upto(n, chosen)
    <2>1. \E f : Upto(n, f)
      BY <1>4
    <2> HIDE DEF Upto
    <2> QED  BY <2>1
  <1> QED  BY <1>0, <1>5 DEF Round

-----------------------------------------------------------------------------
(* Complexity is a lexical order on schedules whose delays are numbers.      *)

Sequence(x) == x \in Seq({x[i] : i \in DOMAIN x})

Timed(schedule) ==
  Sequence(schedule) /\ \A i \in 1 .. Len(schedule) : Delay(schedule[i].act) \in Nat

\* A sequence is a function on the numbers up to its length.
LEMMA SequenceFacts ==
  ASSUME NEW x, Sequence(x)
  PROVE  /\ Len(x) \in Nat /\ DOMAIN x = 1 .. Len(x)
         /\ x \in [1 .. Len(x) -> {x[i] : i \in DOMAIN x}]
  BY LenProperties DEF Sequence

\* A sequence over any set is one over its own elements.
LEMMA SeqIsSequence ==
  ASSUME NEW S, NEW x \in Seq(S)
  PROVE  Sequence(x)
  <1>1. Len(x) \in Nat /\ x \in [1 .. Len(x) -> S] /\ DOMAIN x = 1 .. Len(x)
    BY LenProperties
  <1> DEFINE T == {x[i] : i \in DOMAIN x}
  <1>2. x \in [1 .. Len(x) -> T]
    BY <1>1
  <1> HIDE DEF T
  <1>3. x \in Seq(T)
    BY <1>1, <1>2
  <1> QED  BY <1>3 DEF Sequence, T

\* The score and the calls of an action are numbers.
LEMMA ScoreType ==
  ASSUME NEW a
  PROVE  Score(a) \in Nat /\ CallCount(a) \in Nat
  <1>1. \A o : ProviderFaultScore(o) \in Nat
    BY DEF ProviderFaultScore
  <1> QED  BY <1>1 DEF Score, CallCount

\* Five counters, the first of which is the length.
IsComplexity(c, n) ==
  /\ c = <<c[1], c[2], c[3], c[4], c[5]>> /\ c[1] = n
  /\ c[1] \in Nat /\ c[2] \in Nat /\ c[3] \in Nat /\ c[4] \in Nat /\ c[5] \in Nat

\* The complexity of a schedule is five numbers, the first of them its length.
LEMMA ComplexityType ==
  ASSUME NEW schedule, Timed(schedule)
  PROVE  /\ \A k \in 1 .. 5 : Complexity(schedule)[k] \in Nat
         /\ Complexity(schedule)[1] = Len(schedule)
  <1> DEFINE C == Complexities(schedule)
             G == {n \in 0 .. Len(schedule) : IsComplexity(C[n], n)}
  <1>0. Len(schedule) \in Nat
    BY SequenceFacts DEF Timed
  <1>1. /\ C[0] = <<0, 0, 0, 0, 0>>
        /\ \A n \in 1 .. Len(schedule) :
             C[n] = LET c == C[n - 1] a == schedule[n].act IN
                    <<c[1] + 1, c[2] + (IF IsFault(a) THEN 1 ELSE 0),
                      c[3] + Score(a), c[4] + CallCount(a), c[5] + Delay(a)>>
    <2>1. C = [n \in 0 .. Len(schedule) |->
                 IF n = 0 THEN <<0, 0, 0, 0, 0>>
                 ELSE LET c == C[n - 1] a == schedule[n].act IN
                      <<c[1] + 1, c[2] + (IF IsFault(a) THEN 1 ELSE 0),
                        c[3] + Score(a), c[4] + CallCount(a), c[5] + Delay(a)>>]
      BY <1>0, ComplexitiesExists
    <2> HIDE DEF C
    <2> QED  BY <1>0, <2>1
  <1> HIDE DEF C
  <1>2. 0 \in G
    BY <1>0, <1>1 DEF IsComplexity
  <1>3. ASSUME NEW n \in 0 .. Len(schedule) - 1, n \in G
        PROVE  n + 1 \in G
    <2> DEFINE a == schedule[n + 1].act
               c == C[n]
               d == C[n + 1]
    <2>1. n + 1 \in 1 .. Len(schedule) /\ (n + 1) - 1 = n
      BY <1>0
    <2>2. d = <<c[1] + 1, c[2] + (IF IsFault(a) THEN 1 ELSE 0),
                c[3] + Score(a), c[4] + CallCount(a), c[5] + Delay(a)>>
      BY <1>1, <2>1
    <2>3. Score(a) \in Nat /\ CallCount(a) \in Nat
      BY ScoreType
    <2>4. Delay(a) \in Nat
      BY <2>1 DEF Timed
    <2>5. (IF IsFault(a) THEN 1 ELSE 0) \in Nat
      OBVIOUS
    <2>6. IsComplexity(c, n)
      BY <1>3
    <2> DEFINE e == IF IsFault(a) THEN 1 ELSE 0
    <2> HIDE DEF a, c, d, e
    <2>7. IsComplexity(d, n + 1)
      <3>1. /\ d[1] = c[1] + 1 /\ d[2] = c[2] + e /\ d[3] = c[3] + Score(a)
            /\ d[4] = c[4] + CallCount(a) /\ d[5] = c[5] + Delay(a)
        BY <2>2 DEF e
      <3>2. d = <<d[1], d[2], d[3], d[4], d[5]>>
        BY <2>2, Zenon
      <3>3. e \in Nat
        BY <2>5 DEF e
      <3>4. /\ c[1] = n
            /\ c[1] \in Nat /\ c[2] \in Nat /\ c[3] \in Nat /\ c[4] \in Nat /\ c[5] \in Nat
        BY <2>6 DEF IsComplexity
      <3>5. /\ d[1] = n + 1
            /\ d[1] \in Nat /\ d[2] \in Nat /\ d[3] \in Nat /\ d[4] \in Nat /\ d[5] \in Nat
        <4>1. d[1] = n + 1 /\ d[1] \in Nat
          BY <3>1, <3>4
        <4>2. \A u, v \in Nat : u + v \in Nat
          OBVIOUS
        <4>3. d[2] \in Nat
          BY <3>1, <3>3, <3>4, <4>2, Zenon
        <4>4. d[3] \in Nat /\ d[4] \in Nat
          BY <2>3, <3>1, <3>4, <4>2, Zenon
        <4>5. d[5] \in Nat
          BY <2>4, <3>1, <3>4, <4>2, Zenon
        <4> QED  BY <4>1, <4>3, <4>4, <4>5
      <3> QED  BY <3>2, <3>5 DEF IsComplexity
    <2> QED  BY <2>1, <2>7 DEF d
  <1>4. Len(schedule) \in G
    <2>1. \A n \in 0 .. Len(schedule) : n \in G
      <3> HIDE DEF G
      <3> QED  BY <1>0, <1>2, <1>3, SetInduction
    <2> QED  BY <1>0, <2>1
  <1> DEFINE c == C[Len(schedule)]
  <1>5. IsComplexity(c, Len(schedule)) /\ Complexity(schedule) = c
    BY <1>4 DEF Complexity, C
  <1> HIDE DEF c
  <1>6. /\ c[1] = Len(schedule)
        /\ c[1] \in Nat /\ c[2] \in Nat /\ c[3] \in Nat /\ c[4] \in Nat /\ c[5] \in Nat
    BY <1>5 DEF IsComplexity
  <1>7. \A k \in 1 .. 5 : c[k] \in Nat
    BY <1>6
  <1> QED  BY <1>5, <1>6, <1>7

\* To be simpler is a strict order, and no simpler schedule is longer.
LEMMA SimplerOrder ==
  ASSUME NEW a, NEW b, NEW c, Timed(a), Timed(b), Timed(c)
  PROVE  /\ ~Simpler(a, a)
         /\ Simpler(a, b) /\ Simpler(b, c) => Simpler(a, c)
         /\ Simpler(a, b) => Len(a) <= Len(b)
  <1> DEFINE x == Complexity(a)
             y == Complexity(b)
             z == Complexity(c)
  <1>1. /\ \A k \in 1 .. 5 : x[k] \in Nat /\ y[k] \in Nat /\ z[k] \in Nat
        /\ x[1] = Len(a) /\ y[1] = Len(b)
    BY ComplexityType
  <1>2. /\ Simpler(a, a) <=> \E k \in 1 .. 5 : x[k] < x[k] /\ \A j \in 1 .. k - 1 : x[j] = x[j]
        /\ Simpler(a, b) <=> \E k \in 1 .. 5 : x[k] < y[k] /\ \A j \in 1 .. k - 1 : x[j] = y[j]
        /\ Simpler(b, c) <=> \E k \in 1 .. 5 : y[k] < z[k] /\ \A j \in 1 .. k - 1 : y[j] = z[j]
        /\ Simpler(a, c) <=> \E k \in 1 .. 5 : x[k] < z[k] /\ \A j \in 1 .. k - 1 : x[j] = z[j]
    BY DEF Simpler
  <1> HIDE DEF x, y, z
  <1>3. ~Simpler(a, a)
    <2>1. ASSUME NEW k \in 1 .. 5 PROVE ~(x[k] < x[k])
      <3>1. x[k] \in Nat
        BY <1>1
      <3> QED  BY <3>1
    <2> QED  BY <1>2, <2>1
  <1>4. ASSUME Simpler(a, b), Simpler(b, c) PROVE Simpler(a, c)
    <2>1. PICK k \in 1 .. 5 : x[k] < y[k] /\ \A j \in 1 .. k - 1 : x[j] = y[j]
      BY <1>2, <1>4
    <2>2. PICK l \in 1 .. 5 : y[l] < z[l] /\ \A j \in 1 .. l - 1 : y[j] = z[j]
      BY <1>2, <1>4
    <2>3. CASE k <= l
      <3>1. y[k] <= z[k]
        <4>1. y[k] \in Nat /\ z[k] \in Nat
          BY <1>1
        <4>2. CASE k = l
          BY <2>2, <4>1, <4>2
        <4>3. CASE k < l
          <5>1. k \in 1 .. l - 1
            BY <4>3
          <5> QED  BY <2>2, <4>1, <5>1
        <4> QED  BY <2>3, <4>2, <4>3
      <3>2. x[k] < z[k]
        <4>1. x[k] \in Nat /\ y[k] \in Nat /\ z[k] \in Nat
          BY <1>1
        <4> QED  BY <2>1, <3>1, <4>1
      <3>3. \A j \in 1 .. k - 1 : x[j] = z[j]
        BY <2>1, <2>2, <2>3
      <3> QED  BY <1>2, <3>2, <3>3
    <2>4. CASE l < k
      <3>1. x[l] = y[l]
        BY <2>1, <2>4
      <3>2. \A j \in 1 .. l - 1 : x[j] = z[j]
        BY <2>1, <2>2, <2>4
      <3> QED  BY <1>2, <2>2, <3>1, <3>2
    <2> QED  BY <2>3, <2>4
  <1>5. ASSUME Simpler(a, b) PROVE Len(a) <= Len(b)
    <2>1. PICK k \in 1 .. 5 : x[k] < y[k] /\ \A j \in 1 .. k - 1 : x[j] = y[j]
      BY <1>2, <1>5
    <2>2. x[1] <= y[1]
      <3>1. CASE k = 1
        BY <1>1, <2>1, <3>1
      <3>2. CASE k > 1
        BY <1>1, <2>1, <3>2
      <3> QED  BY <3>1, <3>2
    <2> QED  BY <1>1, <2>2
  <1> QED  BY <1>3, <1>4, <1>5

-----------------------------------------------------------------------------
(* What is kept of a schedule.                                               *)

\* N is what normalising the schedule comes to, round by round.
NormalizedRounds(s, legacy, schedule, N) ==
  /\ N[0] = [model |-> Initial(legacy), kept |-> <<>>]
  /\ \A n \in 1 .. Len(schedule) :
       /\ schedule[n].act \in Eligible(s, N[n - 1].model) =>
            N[n] = [model |-> Apply(N[n - 1].model, schedule[n].act),
                    kept  |-> Append(N[n - 1].kept, schedule[n])]
       /\ schedule[n].act \notin Eligible(s, N[n - 1].model) => N[n] = N[n - 1]

\* Normalized goes by these rounds.
LEMMA NormalizedRoundsHold ==
  ASSUME NEW s, NEW legacy, NEW schedule, Len(schedule) \in Nat
  PROVE  NormalizedRounds(s, legacy, schedule, Normalized(s, legacy, schedule))
  <1> DEFINE N == Normalized(s, legacy, schedule)
             Round(x, n) ==
               IF schedule[n].act \in Eligible(s, x.model)
               THEN [model |-> Apply(x.model, schedule[n].act),
                     kept  |-> Append(x.kept, schedule[n])]
               ELSE x
  <1>1. N = [n \in 0 .. Len(schedule) |->
               IF n = 0 THEN [model |-> Initial(legacy), kept |-> <<>>]
               ELSE Round(N[n - 1], n)]
    BY NormalizedExists
  <1> HIDE DEF N, Round
  <1>2. /\ N[0] = [model |-> Initial(legacy), kept |-> <<>>]
        /\ \A n \in 1 .. Len(schedule) : N[n] = Round(N[n - 1], n)
    BY <1>1
  <1> QED  BY <1>2 DEF NormalizedRounds, N, Round

\* The state stays sound, and what is kept is made of entries of the schedule.
LEMMA KeptType ==
  ASSUME NEW s, ValidPlanSpec(s), NEW legacy \in BOOLEAN, NEW schedule, Sequence(schedule)
  PROVE  LET N == Normalized(s, legacy, schedule) IN
         \A n \in 0 .. Len(schedule) :
            /\ Sound(s, N[n].model)
            /\ N[n].kept \in Seq({schedule[i] : i \in DOMAIN schedule})
            /\ Len(N[n].kept) <= n
  <1> DEFINE N == Normalized(s, legacy, schedule)
             E == {schedule[i] : i \in DOMAIN schedule}
             Typed(n) == /\ Sound(s, N[n].model)
                         /\ N[n].kept \in Seq(E)
                         /\ Len(N[n].kept) <= n
             G == {n \in 0 .. Len(schedule) : Typed(n)}
  <1>0. Len(schedule) \in Nat /\ DOMAIN schedule = 1 .. Len(schedule)
    BY SequenceFacts
  <1>1. NormalizedRounds(s, legacy, schedule, N)
    BY <1>0, NormalizedRoundsHold
  <1> HIDE DEF N
  <1>2. 0 \in G
    <2>1. N[0] = [model |-> Initial(legacy), kept |-> <<>>]
      BY <1>1 DEF NormalizedRounds
    <2>2. N[0].model = Initial(legacy) /\ N[0].kept = <<>>
      BY <2>1
    <2>3. Sound(s, Initial(legacy))
      BY InitialIsSound
    <2>4. <<>> \in Seq(E) /\ Len(<<>>) = 0
      BY EmptySeq
    <2> HIDE DEF E
    <2>5. Sound(s, N[0].model) /\ N[0].kept \in Seq(E) /\ Len(N[0].kept) <= 0
      BY <2>2, <2>3, <2>4
    <2> QED  BY <1>0, <2>5
  <1>3. ASSUME NEW n \in 0 .. Len(schedule) - 1, n \in G
        PROVE  n + 1 \in G
    <2> DEFINE e == schedule[n + 1]
               x == N[n]
               y == N[n + 1]
    <2>1. n + 1 \in 1 .. Len(schedule) /\ (n + 1) - 1 = n /\ n \in Nat
      BY <1>0
    <2>2. /\ e.act \in Eligible(s, x.model) =>
               y = [model |-> Apply(x.model, e.act), kept |-> Append(x.kept, e)]
          /\ e.act \notin Eligible(s, x.model) => y = x
      BY <1>1, <2>1 DEF NormalizedRounds
    <2>3. Typed(n) /\ e \in E
      BY <1>0, <1>3, <2>1
    <2> HIDE DEF e, E
    <2>4. Sound(s, x.model) /\ x.kept \in Seq(E) /\ Len(x.kept) <= n /\ Len(x.kept) \in Nat
      BY <2>3, LenProperties
    <2> HIDE DEF x, y
    <2>5. CASE e.act \in Eligible(s, x.model)
      <3>1. y.model = Apply(x.model, e.act) /\ y.kept = Append(x.kept, e)
        BY <2>2, <2>5
      <3>2. Sound(s, y.model)
        BY <2>4, <2>5, <3>1, EligibleStep DEF Steps
      <3>3. y.kept \in Seq(E) /\ Len(y.kept) = Len(x.kept) + 1
        BY <2>3, <2>4, <3>1
      <3> QED  BY <2>1, <2>4, <3>2, <3>3 DEF y
    <2>6. CASE e.act \notin Eligible(s, x.model)
      <3>1. y = x
        BY <2>2, <2>6
      <3>2. Sound(s, y.model) /\ y.kept \in Seq(E) /\ Len(y.kept) <= n + 1
        BY <2>1, <2>4, <3>1
      <3> QED  BY <2>1, <3>2 DEF y
    <2> QED  BY <2>5, <2>6
  <1>4. \A m \in 0 .. Len(schedule) : m \in G
    <2> HIDE DEF G
    <2> QED  BY <1>0, <1>2, <1>3, SetInduction
  <1> QED  BY <1>4 DEF N

\* A schedule that is kept is executed: each of its actions was eligible.
Executable(s, legacy, schedule) ==
  /\ Sequence(schedule)
  /\ Normalize(s, legacy, schedule).kept = schedule

\* Each action of an executable schedule is eligible in its turn, and applied.
LEMMA KeptRounds ==
  ASSUME NEW s, ValidPlanSpec(s), NEW legacy \in BOOLEAN, NEW schedule,
         Executable(s, legacy, schedule)
  PROVE  LET N == Normalized(s, legacy, schedule) IN
         \A i \in 1 .. Len(schedule) :
            /\ schedule[i].act \in Eligible(s, N[i - 1].model)
            /\ N[i].model = Apply(N[i - 1].model, schedule[i].act)
  <1> DEFINE N == Normalized(s, legacy, schedule)
             L == Len(schedule)
             E == {schedule[i] : i \in DOMAIN schedule}
             Whole1(k) == Len(N[L - k].kept) = L - k
             G == {k \in 0 .. L : Whole1(k)}
  <1>0. L \in Nat /\ Sequence(schedule) /\ N[L].kept = schedule
    BY SequenceFacts DEF Executable, Normalize
  <1>1. NormalizedRounds(s, legacy, schedule, N)
    BY <1>0, NormalizedRoundsHold
  <1>9. \A n \in 0 .. Len(schedule) :
            /\ Sound(s, N[n].model)
            /\ N[n].kept \in Seq({schedule[i] : i \in DOMAIN schedule})
            /\ Len(N[n].kept) <= n
    <2>1. Sequence(schedule)
      BY <1>0
    <2> QED  BY <2>1, KeptType
  <1>2. \A n \in 0 .. L : N[n].kept \in Seq(E) /\ Len(N[n].kept) <= n
    <2> HIDE DEF N
    <2> QED  BY <1>9
  <1> HIDE DEF N, E
  <1>3. \A n \in 0 .. L : Len(N[n].kept) \in Nat
    BY <1>2, LenProperties
  <1>4. ASSUME NEW i \in 1 .. L, Len(N[i].kept) = i
        PROVE  /\ schedule[i].act \in Eligible(s, N[i - 1].model)
               /\ N[i].model = Apply(N[i - 1].model, schedule[i].act)
               /\ Len(N[i - 1].kept) = i - 1
    <2> DEFINE x == N[i - 1]
               y == N[i]
    <2>1. i - 1 \in 0 .. L /\ i \in 0 .. L /\ i \in Int
      BY <1>0
    <2>2. /\ schedule[i].act \in Eligible(s, x.model) =>
               y = [model |-> Apply(x.model, schedule[i].act),
                    kept |-> Append(x.kept, schedule[i])]
          /\ schedule[i].act \notin Eligible(s, x.model) => y = x
      BY <1>0, <1>1 DEF NormalizedRounds
    <2>3. x.kept \in Seq(E) /\ Len(x.kept) <= i - 1 /\ Len(x.kept) \in Nat /\ Len(y.kept) = i
      BY <1>2, <1>3, <1>4, <2>1
    <2> HIDE DEF x, y
    <2>4. schedule[i].act \in Eligible(s, x.model)
      BY <2>1, <2>2, <2>3
    <2>5. y.model = Apply(x.model, schedule[i].act) /\ y.kept = Append(x.kept, schedule[i])
      BY <2>2, <2>4
    <2>6. schedule[i] \in E
      BY <1>0, SequenceFacts DEF E
    <2>7. Len(y.kept) = Len(x.kept) + 1
      BY <2>3, <2>5, <2>6
    <2>8. Len(x.kept) = i - 1
      BY <2>1, <2>3, <2>7
    <2> QED  BY <2>4, <2>5, <2>8 DEF x, y
  <1>5. 0 \in G
    BY <1>0
  <1>6. ASSUME NEW k \in 0 .. L - 1, k \in G PROVE k + 1 \in G
    <2>1. L - k \in 1 .. L /\ (L - k) - 1 = L - (k + 1) /\ k + 1 \in 0 .. L
      BY <1>0
    <2>2. Len(N[L - k].kept) = L - k
      BY <1>6
    <2>3. Len(N[(L - k) - 1].kept) = (L - k) - 1
      BY <1>4, <2>1, <2>2
    <2> QED  BY <2>1, <2>3
  <1>7. \A k \in 0 .. L : k \in G
    <2> HIDE DEF G
    <2> QED  BY <1>0, <1>5, <1>6, SetInduction
  <1>8. ASSUME NEW i \in 1 .. L PROVE Len(N[i].kept) = i
    <2>1. L - i \in 0 .. L /\ L - (L - i) = i
      BY <1>0
    <2>2. L - i \in G
      BY <1>7, <2>1
    <2> QED  BY <2>1, <2>2
  <1> QED  BY <1>4, <1>8 DEF N, L

\* What is kept of a prefix depends on the prefix alone.
LEMMA SamePrefix ==
  ASSUME NEW s, NEW legacy, NEW x, NEW y, Len(x) \in Nat, Len(y) \in Nat,
         NEW n \in Nat, n <= Len(x), n <= Len(y), \A i \in 1 .. n : x[i] = y[i]
  PROVE  \A m \in 0 .. n : Normalized(s, legacy, x)[m] = Normalized(s, legacy, y)[m]
  <1> DEFINE M == Normalized(s, legacy, x)
             N == Normalized(s, legacy, y)
             G == {m \in 0 .. n : M[m] = N[m]}
  <1>1. NormalizedRounds(s, legacy, x, M) /\ NormalizedRounds(s, legacy, y, N)
    BY NormalizedRoundsHold
  <1> HIDE DEF M, N
  <1>2. 0 \in G
    BY <1>1 DEF NormalizedRounds
  <1>3. ASSUME NEW m \in 0 .. n - 1, m \in G PROVE m + 1 \in G
    <2>1. /\ m + 1 \in 1 .. Len(x) /\ m + 1 \in 1 .. Len(y) /\ m + 1 \in 1 .. n
          /\ m + 1 \in 0 .. n /\ (m + 1) - 1 = m
      OBVIOUS
    <2>2. M[m] = N[m] /\ x[m + 1] = y[m + 1]
      BY <1>3, <2>1
    <2> DEFINE k == m + 1
    <2>4. /\ x[k].act \in Eligible(s, M[m].model) =>
                M[k] = [model |-> Apply(M[m].model, x[k].act),
                        kept |-> Append(M[m].kept, x[k])]
          /\ x[k].act \notin Eligible(s, M[m].model) => M[k] = M[m]
      BY <1>1, <2>1 DEF NormalizedRounds
    <2>5. /\ y[k].act \in Eligible(s, N[m].model) =>
                N[k] = [model |-> Apply(N[m].model, y[k].act),
                        kept |-> Append(N[m].kept, y[k])]
          /\ y[k].act \notin Eligible(s, N[m].model) => N[k] = N[m]
      BY <1>1, <2>1 DEF NormalizedRounds
    <2>3. M[k] = N[k]
      <3> HIDE DEF k
      <3>1. x[k] = y[k]
        BY <2>2 DEF k
      <3> QED  BY <2>2, <2>4, <2>5, <3>1, Zenon
    <2> QED  BY <2>1, <2>3
  <1>4. \A m \in 0 .. n : m \in G
    <2> HIDE DEF G
    <2> QED  BY <1>2, <1>3, SetInduction
  <1> QED  BY <1>4 DEF M, N

-----------------------------------------------------------------------------
(* The proposals are schedules.                                              *)

\* Sequences in turn are a sequence of their elements.
LEMMA InTurnType ==
  ASSUME NEW S, NEW seqs, Len(seqs) \in Nat, \A k \in 1 .. Len(seqs) : seqs[k] \in Seq(S)
  PROVE  InTurn(seqs) \in Seq(S)
  <1>1. PICK f : /\ f = [n \in 0 .. Len(seqs) |-> IF n = 0 THEN <<>> ELSE f[n - 1] \o seqs[n]]
                 /\ InTurn(seqs) = f[Len(seqs)]
    BY InTurnExists
  <1> DEFINE G == {n \in 0 .. Len(seqs) : f[n] \in Seq(S)}
  <1>5. f[0] = <<>> /\ \A n \in 1 .. Len(seqs) : f[n] = f[n - 1] \o seqs[n]
    <2>1. \A n \in 0 .. Len(seqs) : f[n] = IF n = 0 THEN <<>> ELSE f[n - 1] \o seqs[n]
      BY <1>1, Zenon
    <2>2. 0 \in 0 .. Len(seqs) /\ \A n \in 1 .. Len(seqs) : n \in 0 .. Len(seqs) /\ n # 0
      OBVIOUS
    <2> QED  BY <2>1, <2>2, Zenon
  <1>2. 0 \in G
    <2>1. <<>> \in Seq(S)
      OBVIOUS
    <2>2. f[0] \in Seq(S)
      BY <1>5, <2>1, Zenon
    <2>3. 0 \in 0 .. Len(seqs)
      OBVIOUS
    <2> QED  BY <2>2, <2>3, Zenon
  <1>3. ASSUME NEW n \in 0 .. Len(seqs) - 1, n \in G PROVE n + 1 \in G
    <2>1. n + 1 \in 1 .. Len(seqs) /\ (n + 1) - 1 = n /\ n + 1 \in 0 .. Len(seqs)
      OBVIOUS
    <2>2. f[n + 1] = f[n] \o seqs[n + 1]
      BY <1>5, <2>1
    <2>3. f[n] \in Seq(S) /\ seqs[n + 1] \in Seq(S)
      BY <1>3, <2>1
    <2>4. f[n] \o seqs[n + 1] \in Seq(S)
      BY <2>3, ConcatProperties
    <2> QED  BY <2>1, <2>2, <2>4, Zenon
  <1>4. \A m \in 0 .. Len(seqs) : m \in G
    <2> HIDE DEF G
    <2> QED  BY <1>2, <1>3, SetInduction
  <1> QED  BY <1>1, <1>4

\* A round divides a schedule into one part or more.
LEMMA PartitionsType ==
  ASSUME NEW n \in Nat
  PROVE  \A k \in 1 .. n : Partitions(n)[k] \in Nat \ {0}
  <1> DEFINE P == Partitions(n)
             G == {k \in 0 .. n : k > 0 => P[k] \in Nat \ {0}}
  <1>1. P = [k \in 1 .. n |-> IF k = 1 THEN 2 ELSE 2 * P[k - 1]]
    BY PartitionsExists
  <1> HIDE DEF P
  <1>2. 0 \in G
    OBVIOUS
  <1>3. ASSUME NEW k \in 0 .. n - 1, k \in G PROVE k + 1 \in G
    <2>1. k + 1 \in 1 .. n /\ (k + 1) - 1 = k /\ k + 1 \in 0 .. n
      OBVIOUS
    <2>2. P[k + 1] = IF k + 1 = 1 THEN 2 ELSE 2 * P[k]
      BY <1>1, <2>1
    <2>3. P[k + 1] \in Nat \ {0}
      <3>1. CASE k = 0
        BY <2>2, <3>1
      <3>2. CASE k > 0
        <4>1. P[k] \in Nat \ {0}
          BY <1>3, <3>2
        <4> QED  BY <2>2, <3>2, <4>1
      <3> QED  BY <3>1, <3>2
    <2> QED  BY <2>1, <2>3
  <1>4. \A k \in 0 .. n : k \in G
    <2> HIDE DEF G
    <2> QED  BY <1>2, <1>3, SetInduction
  <1> QED  BY <1>4 DEF P

\* A share, rounded up, is not empty.
LEMMA ShareType ==
  ASSUME NEW n \in Nat \ {0}, NEW p \in Nat \ {0}
  PROVE  (n + p - 1) \div p \in Nat \ {0}
  OBVIOUS

\* The sizes of the chunks are at least one.
LEMMA ChunkSizesType ==
  ASSUME NEW n \in Nat
  PROVE  ChunkSizes(n) \in Seq(Nat \ {0})
  <1> DEFINE P == Partitions(n)
             Ceil(k) == (n + P[k] - 1) \div P[k]
             rounds == {k \in 1 .. n : k > 1 => Ceil(k - 1) > 1}
             C == Cardinality(rounds)
  <1>1. \A k \in 1 .. n : P[k] \in Nat \ {0}
    BY PartitionsType
  <1>2. ChunkSizes(n) = [k \in 1 .. C |-> Ceil(k)]
    BY Zenon DEF ChunkSizes
  <1>3. IsFiniteSet(1 .. n) /\ Cardinality(1 .. n) = n
    BY FS_Interval
  <1>4. C \in Nat /\ C <= n
    <2>1. rounds \in SUBSET (1 .. n)
      OBVIOUS
    <2> HIDE DEF rounds
    <2> QED  BY <1>3, <2>1, FS_Subset, FS_CardinalityType
  <1> HIDE DEF C, P
  <1>5. \A k \in 1 .. C : Ceil(k) \in Nat \ {0}
    <2> TAKE k \in 1 .. C
    <2>1. k \in 1 .. n /\ n \in Nat \ {0}
      BY <1>4
    <2> QED  BY <1>1, <2>1, ShareType
  <1> HIDE DEF Ceil
  <1> QED  BY <1>2, <1>4, <1>5

\* Removing chunks proposes schedules with a part left out.
LEMMA ChunksRemovedType ==
  ASSUME NEW schedule, Sequence(schedule)
  PROVE  ChunksRemoved(schedule) \in Seq({Without(schedule, i, k) : i \in Int, k \in Int})
  <1> DEFINE S == {Without(schedule, i, k) : i \in Int, k \in Int}
             sizes == ChunkSizes(Len(schedule))
             seqs == [k \in DOMAIN sizes |-> Removals(schedule, sizes[k])]
  <1>1. Len(schedule) \in Nat
    BY SequenceFacts
  <1>2. /\ Len(sizes) \in Nat /\ DOMAIN sizes = 1 .. Len(sizes)
        /\ \A k \in 1 .. Len(sizes) : sizes[k] \in Nat \ {0}
    <2>1. sizes \in Seq(Nat \ {0})
      BY <1>1, ChunkSizesType
    <2> HIDE DEF sizes
    <2> QED  BY <2>1
  <1>3. ASSUME NEW size \in Nat \ {0} PROVE Removals(schedule, size) \in Seq(S)
    <2> DEFINE n == (Len(schedule) + size - 1) \div size
    <2>1. n \in Int /\ n >= 0
      BY <1>1
    <2>2. \A c \in 1 .. n : Without(schedule, (c - 1) * size + 1, size) \in S
      <3> TAKE c \in 1 .. n
      <3>1. (c - 1) * size + 1 \in Int /\ size \in Int
        BY <2>1
      <3> QED  BY <3>1
    <2>3. Removals(schedule, size) =
            [c \in 1 .. n |-> Without(schedule, (c - 1) * size + 1, size)]
      BY DEF Removals
    <2> HIDE DEF n, S
    <2>4. n \in Nat
      BY <2>1
    <2> QED  BY <2>2, <2>3, <2>4
  <1> HIDE DEF sizes, S
  <1>4. Len(seqs) = Len(sizes) /\ \A k \in 1 .. Len(seqs) : seqs[k] \in Seq(S)
    BY <1>2, <1>3
  <1>5. InTurn(seqs) \in Seq(S)
    <2> HIDE DEF seqs
    <2> QED  BY <1>2, <1>4, InTurnType
  <1> QED  BY <1>5 DEF ChunksRemoved, sizes, S

\* The rewrites of an action are a sequence.
LEMMA ActionRewritesType ==
  ASSUME NEW a
  PROVE  \E n \in Nat : DOMAIN ActionRewrites(a) = 1 .. n
  <1> DEFINE x == [a EXCEPT !.script = Single(a.script.first)]
             y == [a EXCEPT !.script = [first |-> "CommitThenClose", retry |-> "Normal"]]
             z == [a EXCEPT !.script = Single("Normal")]
             T == {x, y, z}
  <1>1. /\ Rescripted(a, <<Single(a.script.first)>>) = <<x>>
        /\ Rescripted(a, <<[first |-> "CommitThenClose", retry |-> "Normal"]>>) = <<y>>
        /\ Rescripted(a, <<Single("Normal")>>) = <<z>>
    BY DEF Rescripted
  <1>2. ScriptRewrites(a) = (IF a.script.retry = NoRetry THEN <<>>
                             ELSE <<x>> \o (IF a.script.retry = "Normal" THEN <<>> ELSE <<y>>))
                            \o (IF a.script = Single("Normal") THEN <<>> ELSE <<z>>)
    BY <1>1, Zenon DEF ScriptRewrites
  <1> HIDE DEF x, y, z
  <1>3. <<>> \in Seq(T) /\ <<x>> \in Seq(T) /\ <<y>> \in Seq(T) /\ <<z>> \in Seq(T)
    OBVIOUS
  <1> HIDE DEF T
  <1>4. ScriptRewrites(a) \in Seq(T)
    <2> DEFINE p == IF a.script.retry = "Normal" THEN <<>> ELSE <<y>>
               q == IF a.script.retry = NoRetry THEN <<>> ELSE <<x>> \o p
               r == IF a.script = Single("Normal") THEN <<>> ELSE <<z>>
    <2>1. p \in Seq(T) /\ r \in Seq(T)
      BY <1>3, Zenon
    <2>2. ScriptRewrites(a) = q \o r
      BY <1>2, Zenon
    <2> HIDE DEF p, r
    <2>3. <<x>> \o p \in Seq(T)
      BY <1>3, <2>1
    <2>4. q \in Seq(T)
      BY <1>3, <2>3, Zenon
    <2> HIDE DEF q
    <2> QED  BY <2>1, <2>2, <2>4
  <1>5. Len(ScriptRewrites(a)) \in Nat /\ DOMAIN ScriptRewrites(a) = 1 .. Len(ScriptRewrites(a))
    BY <1>4, LenProperties
  <1>6. CASE a.kind \in Scripted
    <2>1. ActionRewrites(a) = ScriptRewrites(a)
      BY <1>6 DEF ActionRewrites, Scripted
    <2> QED  BY <1>5, <2>1
  <1>7. CASE a.kind \notin Scripted
    <2>1. \A u : Len(<<u>>) \in Nat /\ DOMAIN <<u>> = 1 .. 1
      OBVIOUS
    <2>2. DOMAIN <<>> = 1 .. 0
      OBVIOUS
    <2>3. \E u : ActionRewrites(a) \in {<<u>>, <<>>}
      BY <1>7 DEF ActionRewrites
    <2> QED  BY <2>1, <2>2, <2>3
  <1> QED  BY <1>6, <1>7

\* A schedule with a part left out is a schedule.
LEMMA WithoutType ==
  ASSUME NEW schedule, Sequence(schedule), NEW from \in Int, NEW size \in Int
  PROVE  Sequence(Without(schedule, from, size))
  <1> DEFINE S == {schedule[i] : i \in Int}
  <1>1. Len(schedule) \in Nat
    BY SequenceFacts
  <1>2. \A i \in Int : schedule[i] \in S
    OBVIOUS
  <1> HIDE DEF S
  <1>3. from - 1 \in Int /\ from + size \in Int /\ Len(schedule) \in Int
    BY <1>1
  <1>4. SubSeq(schedule, 1, from - 1) \in Seq(S)
    BY <1>2, <1>3, SubSeqProperties
  <1>5. SubSeq(schedule, from + size, Len(schedule)) \in Seq(S)
    BY <1>2, <1>3, SubSeqProperties
  <1>6. Without(schedule, from, size) \in Seq(S)
    BY <1>4, <1>5, ConcatProperties DEF Without
  <1> QED  BY <1>6, SeqIsSequence

\* A schedule with an action put in another form is a schedule.
LEMMA RewriteType ==
  ASSUME NEW schedule, Sequence(schedule), NEW i, NEW x
  PROVE  Sequence([schedule EXCEPT ![i].act = x])
  <1> DEFINE y == [schedule EXCEPT ![i].act = x]
             S == {y[j] : j \in DOMAIN y}
  <1>1. Len(schedule) \in Nat /\ DOMAIN schedule = 1 .. Len(schedule)
    BY SequenceFacts
  <1>2. DOMAIN y = 1 .. Len(schedule)
    BY <1>1
  <1>3. y = [j \in 1 .. Len(schedule) |-> y[j]]
    BY <1>1
  <1>4. \A j \in 1 .. Len(schedule) : y[j] \in S
    BY <1>2
  <1> HIDE DEF y, S
  <1>5. y \in Seq(S)
    BY <1>1, <1>3, <1>4
  <1> QED  BY <1>5, SeqIsSequence DEF y

\* The proposals are a sequence of schedules.
LEMMA ProposalsType ==
  ASSUME NEW schedule, Sequence(schedule)
  PROVE  /\ Len(Proposals(schedule)) \in Nat
         /\ \A k \in 1 .. Len(Proposals(schedule)) : Sequence(Proposals(schedule)[k])
  <1> DEFINE L == Len(schedule)
             Rewrite(i, r) == [schedule EXCEPT ![i].act = ActionRewrites(schedule[i].act)[r]]
             S == {Without(schedule, i, k) : i \in Int, k \in Int}
             U == {Rewrite(i, r) : i \in 1 .. L, r \in Nat}
             T == S \cup U
             seqs == [i \in DOMAIN schedule |-> ProposalsAt(schedule, i)]
  <1>1. L \in Nat /\ DOMAIN schedule = 1 .. L
    BY SequenceFacts
  <1>2. \A x \in T : Sequence(x)
    <2>1. \A x \in S : Sequence(x)
      BY WithoutType
    <2>2. \A i, r : Sequence(Rewrite(i, r))
      BY RewriteType
    <2> HIDE DEF Rewrite, S
    <2> QED  BY <2>1, <2>2
  <1>3. ASSUME NEW i \in 1 .. L PROVE ProposalsAt(schedule, i) \in Seq(T)
    <2>1. CASE schedule[i].act.kind = "KillApplication"
      <3> DEFINE k == IF i < Len(schedule)
                         /\ schedule[i + 1].act.kind = "RestartAndAwaitHealth"
                      THEN 2 ELSE 1
                 w == Without(schedule, i, k)
      <3>1. ProposalsAt(schedule, i) = <<w>>
        BY <2>1 DEF ProposalsAt
      <3>2. i \in Int /\ k \in Int
        BY <1>1
      <3> HIDE DEF k
      <3>3. w \in T
        BY <3>2
      <3> HIDE DEF w, T
      <3> QED  BY <3>1, <3>3
    <2>2. CASE schedule[i].act.kind # "KillApplication"
      <3> DEFINE rewrites == ActionRewrites(schedule[i].act)
      <3>1. PICK n \in Nat : DOMAIN rewrites = 1 .. n
        BY ActionRewritesType
      <3>2. ProposalsAt(schedule, i) = [r \in DOMAIN rewrites |-> Rewrite(i, r)]
        BY <2>2 DEF ProposalsAt
      <3> HIDE DEF rewrites, Rewrite, S, L
      <3>3. \A r \in 1 .. n : Rewrite(i, r) \in T
        <4> TAKE r \in 1 .. n
        <4>1. r \in Nat
          OBVIOUS
        <4>2. Rewrite(i, r) \in U
          BY <4>1
        <4> QED  BY <4>2
      <3> HIDE DEF T
      <3> QED  BY <3>1, <3>2, <3>3
    <2> QED  BY <2>1, <2>2
  <1>4. ChunksRemoved(schedule) \in Seq(T)
    <2>1. ChunksRemoved(schedule) \in Seq(S)
      BY ChunksRemovedType
    <2> HIDE DEF S, U
    <2>2. S \subseteq T
      OBVIOUS
    <2> HIDE DEF T
    <2> QED  BY <2>1, <2>2, SeqMonotonic
  <1> HIDE DEF T
  <1>5. InTurn(seqs) \in Seq(T)
    <2>1. Len(seqs) = L /\ \A i \in 1 .. L : seqs[i] \in Seq(T)
      BY <1>1, <1>3
    <2> HIDE DEF seqs, L
    <2> QED  BY <1>1, <2>1, InTurnType
  <1>6. Proposals(schedule) \in Seq(T)
    BY <1>4, <1>5, ConcatProperties DEF Proposals
  <1>7. \A k \in 1 .. Len(Proposals(schedule)) : Proposals(schedule)[k] \in T
    BY <1>6, ElementOfSeq
  <1> QED  BY <1>2, <1>6, <1>7, LenProperties

-----------------------------------------------------------------------------
(* What is offered for a schedule.                                           *)

\* The delay of an eligible action is a number of milliseconds.
LEMMA EligibleDelay ==
  ASSUME NEW s, ValidPlanSpec(s), NEW m, Sound(s, m), NEW a \in Eligible(s, m)
  PROVE  Delay(a) \in Nat
  <1>1. CASE a.kind # "DelayWebhook"
    BY <1>1 DEF Delay
  <1>2. CASE a.kind = "DelayWebhook"
    <2>1. a \in PhaseActions(s, m)
      BY <1>2 DEF Eligible, KillActions, Kinds
    <2>2. m.phase \in Phases
      BY DEF Sound, IsModel
    <2>3. a \in EventActions(s, m)
      BY <1>2, <2>1, <2>2 DEF PhaseActions, WithScript, Kinds, Phases
    <2> DEFINE D == {d \in s.delays : m.pending > 0 /\ ~m.delayUsed}
    <2>4. a \in [kind: {"DelayWebhook"}, milliseconds: D]
      BY <1>2, <2>3 DEF EventActions, Kinds
    <2>5. D \subseteq 0 .. 5000
      <3> DEFINE delays == s.delays
      <3>1. delays \subseteq 0 .. 5000
        BY DEF ValidPlanSpec
      <3> HIDE DEF delays
      <3>2. D \subseteq delays
        BY DEF delays
      <3> HIDE DEF D
      <3> QED  BY <3>1, <3>2
    <2> HIDE DEF D
    <2> DEFINE wait == a.milliseconds
    <2>6. wait \in D
      BY <2>4
    <2> HIDE DEF wait
    <2>7. wait \in Nat
      BY <2>5, <2>6
    <2> QED  BY <1>2, <2>7 DEF wait, Delay
  <1> QED  BY <1>1, <1>2

\* The delays of an executable schedule are numbers.
LEMMA ExecutableIsTimed ==
  ASSUME NEW s, ValidPlanSpec(s), NEW legacy \in BOOLEAN, NEW schedule,
         Executable(s, legacy, schedule)
  PROVE  Timed(schedule)
  <1> DEFINE N == Normalized(s, legacy, schedule)
  <1>0. Sequence(schedule) /\ Len(schedule) \in Nat
    BY SequenceFacts DEF Executable
  <1>1. \A i \in 1 .. Len(schedule) : schedule[i].act \in Eligible(s, N[i - 1].model)
    BY KeptRounds
  <1>2. \A i \in 1 .. Len(schedule) : Sound(s, N[i - 1].model)
    <2>1. \A n \in 0 .. Len(schedule) : Sound(s, N[n].model)
      BY <1>0, KeptType
    <2> HIDE DEF N
    <2> QED  BY <1>0, <2>1
  <1> HIDE DEF N
  <1> QED  BY <1>0, <1>1, <1>2, EligibleDelay DEF Timed

\* A schedule the search may execute.
CandidateOf(s, legacy, origin, x) ==
  Sequence(x) /\ IsCandidate(s, legacy, x, origin)

\* What a candidate is to the schedule it is offered for.
Offered(s, legacy, schedule, origin, x) ==
  CandidateOf(s, legacy, origin, x) /\ Simpler(x, schedule)

\* Whatever is offered for a schedule is a simpler candidate of the source.
LEMMA OffersType ==
  ASSUME NEW s, ValidPlanSpec(s), NEW legacy \in BOOLEAN, NEW schedule, NEW origin,
         Sequence(schedule)
  PROVE  /\ Sequence(Offers(s, legacy, schedule, origin))
         /\ \A i \in 1 .. Len(Offers(s, legacy, schedule, origin)) :
               Offered(s, legacy, schedule, origin, Offers(s, legacy, schedule, origin)[i])
  <1> DEFINE proposals == Proposals(schedule)
             P == Len(proposals)
             Kept(k) == Normalize(s, legacy, proposals[k]).kept
             S == {x \in {Kept(k) : k \in 1 .. P} : Offered(s, legacy, schedule, origin, x)}
             Pushed(offers, k) == Push(s, legacy, schedule, origin, offers, proposals[k])
  <1>1. P \in Nat /\ \A k \in 1 .. P : Sequence(proposals[k])
    BY ProposalsType
  <1>2. PICK f : /\ f = [n \in 0 .. P |-> IF n = 0 THEN <<>> ELSE Pushed(f[n - 1], n)]
                 /\ Offers(s, legacy, schedule, origin) = f[P]
    <2>1. Len(Proposals(schedule)) \in Nat
      BY ProposalsType
    <2>2. PICK g : /\ g = [n \in 0 .. Len(Proposals(schedule)) |->
                              IF n = 0 THEN <<>>
                              ELSE Push(s, legacy, schedule, origin, g[n - 1],
                                        Proposals(schedule)[n])]
                   /\ Offers(s, legacy, schedule, origin) = g[Len(Proposals(schedule))]
      BY <2>1, OffersExists
    <2> QED  BY <2>2, Zenon
  <1>3. \A k \in 1 .. P : Sequence(Kept(k))
    <2> TAKE k \in 1 .. P
    <2> DEFINE x == proposals[k]
    <2>1. Sequence(x) /\ Len(x) \in Nat
      BY <1>1, SequenceFacts
    <2>2. Normalize(s, legacy, x).kept \in Seq({x[i] : i \in DOMAIN x})
      <3>1. Len(x) \in 0 .. Len(x)
        BY <2>1
      <3>2. Normalized(s, legacy, x)[Len(x)].kept \in Seq({x[i] : i \in DOMAIN x})
        BY <2>1, <3>1, KeptType
      <3> QED  BY <3>2 DEF Normalize
    <2> QED  BY <2>2, SeqIsSequence
  <1>4. ASSUME NEW k \in 1 .. P, NEW offers \in Seq(S)
        PROVE  Pushed(offers, k) \in Seq(S)
    <2>1. Pushed(offers, k) = offers
          \/ /\ Pushed(offers, k) = Append(offers, Kept(k))
             /\ Simpler(Kept(k), schedule)
             /\ IsCandidate(s, legacy, Kept(k), origin)
      BY Zenon DEF Push
    <2>2. CASE Pushed(offers, k) = offers
      BY <2>2
    <2>3. CASE /\ Pushed(offers, k) = Append(offers, Kept(k))
               /\ Simpler(Kept(k), schedule)
               /\ IsCandidate(s, legacy, Kept(k), origin)
      <3>1. Offered(s, legacy, schedule, origin, Kept(k))
        BY <1>3, <2>3 DEF Offered, CandidateOf
      <3> HIDE DEF Kept
      <3>2. Kept(k) \in S
        BY <3>1
      <3> HIDE DEF S, Pushed
      <3> QED  BY <2>3, <3>2
    <2> QED  BY <2>1, <2>2, <2>3
  <1>5. S = {x \in S : Offered(s, legacy, schedule, origin, x)}
    OBVIOUS
  <1> HIDE DEF P, proposals, Kept, S, Pushed
  <1>6. f[0] = <<>> /\ \A n \in 1 .. P : f[n] = Pushed(f[n - 1], n)
    <2>1. \A n \in 0 .. P : f[n] = IF n = 0 THEN <<>> ELSE Pushed(f[n - 1], n)
      BY <1>2, Zenon
    <2>2. 0 \in 0 .. P /\ \A n \in 1 .. P : n \in 0 .. P /\ n # 0
      BY <1>1
    <2> QED  BY <2>1, <2>2, Zenon
  <1> DEFINE G == {n \in 0 .. P : f[n] \in Seq(S)}
  <1>7. 0 \in G
    <2>1. <<>> \in Seq(S) /\ 0 \in 0 .. P
      BY <1>1
    <2> QED  BY <1>6, <2>1, Zenon
  <1>8. ASSUME NEW n \in 0 .. P - 1, n \in G PROVE n + 1 \in G
    <2>1. n + 1 \in 1 .. P /\ (n + 1) - 1 = n /\ n + 1 \in 0 .. P
      BY <1>1
    <2>2. f[n] \in Seq(S)
      BY <1>8
    <2>3. f[n + 1] = Pushed(f[n], n + 1)
      BY <1>6, <2>1
    <2>4. f[n + 1] \in Seq(S)
      BY <1>4, <2>1, <2>2, <2>3
    <2> QED  BY <2>1, <2>4
  <1>9. f[P] \in Seq(S)
    <2>1. \A n \in 0 .. P : n \in G
      <3> HIDE DEF G
      <3> QED  BY <1>1, <1>7, <1>8, SetInduction
    <2> QED  BY <1>1, <2>1
  <1>10. \A i \in 1 .. Len(f[P]) : f[P][i] \in S
    BY <1>9, ElementOfSeq
  <1> QED  BY <1>2, <1>5, <1>9, <1>10, SeqIsSequence

-----------------------------------------------------------------------------
(* Where an eligible action leads.                                           *)

\* Observing an action leaves the fields a step is judged by alone.
LEMMA ObservedFields ==
  ASSUME NEW s, NEW m, Sound(s, m), NEW a, NEW x, x = Observe(m, a)
  PROVE  /\ DOMAIN x = Fields /\ x.phase = m.phase /\ x.legacy = m.legacy
         /\ x.healthy = m.healthy
  BY DEF Observe, Sound, IsModel, Fields

\* Entering a phase keeps the scheduler and the process.
LEMMA EnteredFields ==
  ASSUME NEW x, DOMAIN x = Fields, NEW phase, NEW n, n = Enter(x, phase)
  PROVE  /\ DOMAIN n = Fields /\ n.phase = phase /\ n.legacy = x.legacy
         /\ n.healthy = x.healthy
  BY DEF Enter, Fields

\* What one action makes of the phase, the scheduler and the process: none leads
\* back to the start, and only a kill leaves the process down.
Moved(m, a, n) ==
  /\ n.legacy = m.legacy
  /\ n.phase # "Start"
  /\ a.kind # "KillApplication" => n.healthy
  /\ a.kind \in BusinessRequest \cup Delivery => n.phase # "Complete"
  /\ a.kind = "KillApplication" /\ n.phase = "Complete" => m.phase = "Complete"

\* A call leaves the start, and never completes the case.
LEMMA CalledFields ==
  ASSUME NEW x, DOMAIN x = Fields, NEW script, NEW attempts, NEW n,
         n = Created(CreatePhase(x, script, attempts), script)
         \/ n = ConfirmPhase(x, script, attempts)
  PROVE  /\ n.legacy = x.legacy /\ n.healthy = x.healthy
         /\ n.phase \notin {"Start", "Complete"}
  <1> DEFINE c == CreatePhase(x, script, attempts)
  <1>1. \A phase : LET e == Enter(x, phase) IN
           /\ DOMAIN e = Fields /\ e.phase = phase /\ e.legacy = x.legacy
           /\ e.healthy = x.healthy
    BY EnteredFields
  <1>2. \A phase : LET e == [Enter(x, phase) EXCEPT
                      !.attempts = attempts,
                      !.ambiguous = HasAmbiguousCommit(script)] IN
           /\ DOMAIN e = Fields /\ e.phase = phase /\ e.legacy = x.legacy
           /\ e.healthy = x.healthy
    BY <1>1 DEF Fields
  <1>3. /\ DOMAIN c = Fields /\ c.legacy = x.legacy /\ c.healthy = x.healthy
        /\ c.phase \notin {"Start", "Complete"}
    BY <1>1, <1>2 DEF CreatePhase
  <1>4. CASE n = Created(c, script)
    <2> HIDE DEF c
    <2> QED  BY <1>3, <1>4 DEF Created, Fields
  <1>5. CASE n = ConfirmPhase(x, script, attempts)
    BY <1>1, <1>2, <1>5 DEF ConfirmPhase
  <1> QED  BY <1>4, <1>5

\* An eligible action moves the case on.
LEMMA EligibleMoves ==
  ASSUME NEW s, NEW m, Sound(s, m), NEW a \in Eligible(s, m),
         m.phase # "Start" \/ a.kind \notin {"KillApplication", "RestartAndAwaitHealth"}
  PROVE  Moved(m, a, Apply(m, a))
  <1> DEFINE x == Observe(m, a)
             n == Apply(m, a)
  <1>1. /\ DOMAIN x = Fields /\ x.phase = m.phase /\ x.legacy = m.legacy
        /\ x.healthy = m.healthy
    BY ObservedFields
  <1>2. CASE a.kind = "KillApplication"
    <2> DEFINE cut == IF /\ a.cutPoint = "ClientResponseObserved"
                         /\ x.phase = "PaymentIntentKnown"
                      THEN Enter(x, "CheckoutRetryable") ELSE x
    <2>1. n = [cut EXCEPT !.healthy = FALSE, !.kills = @ + 1]
      BY <1>2 DEF Apply, Kill
    <2>2. /\ DOMAIN cut = Fields /\ cut.legacy = m.legacy
          /\ cut.phase = m.phase \/ cut.phase = "CheckoutRetryable"
      <3> HIDE DEF x
      <3> QED  BY <1>1, EnteredFields
    <2> HIDE DEF cut
    <2>3. n.legacy = m.legacy /\ n.phase = cut.phase
      BY <2>1, <2>2 DEF Fields
    <2> QED  BY <1>2, <2>2, <2>3 DEF Moved, BusinessRequest, Delivery
  <1>3. CASE a.kind = "RestartAndAwaitHealth"
    <2>1. n = [x EXCEPT !.healthy = TRUE]
      BY <1>3 DEF Apply
    <2> HIDE DEF x
    <2> QED  BY <1>1, <1>3, <2>1 DEF Moved, BusinessRequest, Delivery, Fields
  <1>4. CASE a.kind \notin {"KillApplication", "RestartAndAwaitHealth"}
    <2>1. m.healthy /\ a \in PhaseActions(s, m)
      BY <1>4 DEF Eligible, KillActions, Kinds
    <2>2. n = ApplyHealthy(x, a)
      BY <1>4 DEF Apply
    <2>3. m.phase \in Phases
      BY DEF Sound, IsModel
    <2>4. /\ m.phase # "Complete"
          /\ a.kind \in BusinessRequest => m.phase \in {"Start", "CheckoutRetryable"}
          /\ a.kind \in Delivery => m.phase = "Events"
          /\ m.phase = "Start" => a.kind = "DriveCheckout"
          /\ a.kind \in {"DriveCheckout", "RetryBusinessRequest", "ReleaseProviderGate",
                "RetrievePaymentIntent", "ConfirmPaymentIntent", "RetryProviderRequest",
                "GenerateProviderEvent", "DeliverWebhook", "DropWebhook",
                "DuplicateWebhook", "DelayWebhook", "ReorderWebhooks",
                "WaitForQuiescence", "CheckCheckpoint"}
      BY <2>1, <2>3 DEF PhaseActions, WithScript, Kinds, EventActions, Phases,
                        BusinessRequest, Delivery
    <2> HIDE DEF x
    <2>5. CASE a.kind \in {"DriveCheckout", "RetryBusinessRequest",
                           "ConfirmPaymentIntent", "RetryProviderRequest"}
      <3>1. \E attempts : n = Created(CreatePhase(x, a.script, attempts), a.script)
                          \/ n = ConfirmPhase(x, a.script, attempts)
        BY <2>2, <2>5 DEF ApplyHealthy
      <3>2. /\ n.legacy = x.legacy /\ n.healthy = x.healthy
            /\ n.phase \notin {"Start", "Complete"}
        BY <1>1, <3>1, CalledFields
      <3> QED  BY <1>1, <1>4, <2>1, <3>2 DEF Moved
    <2>6. CASE a.kind \in {"ReleaseProviderGate", "RetrievePaymentIntent",
                           "WaitForQuiescence", "CheckCheckpoint"}
      <3>1. \E phase \in Phases \ {"Start"} : n = Enter(x, phase)
        BY <2>2, <2>6 DEF ApplyHealthy, KnownOrConfirmed, Phases
      <3>2. n.legacy = x.legacy /\ n.healthy = x.healthy /\ n.phase # "Start"
        BY <1>1, <3>1, EnteredFields
      <3> QED  BY <1>1, <1>4, <2>1, <2>6, <3>2 DEF Moved, BusinessRequest, Delivery
    <2>7. CASE a.kind \in {"GenerateProviderEvent", "DeliverWebhook", "DropWebhook",
                "DuplicateWebhook", "DelayWebhook", "ReorderWebhooks"}
      <3>1. n.legacy = x.legacy /\ n.healthy = x.healthy /\ n.phase \in {x.phase, "Events"}
        BY <1>1, <2>2, <2>7 DEF ApplyHealthy, Generate, Fields
      <3> QED  BY <1>1, <1>4, <2>1, <2>4, <2>7, <3>1 DEF Moved, BusinessRequest
    <2> QED  BY <2>4, <2>5, <2>6, <2>7
  <1> QED  BY <1>2, <1>3, <1>4

\* The first action of a run is neither a kill nor a restart.
LEMMA FirstAction ==
  ASSUME NEW s, NEW legacy \in BOOLEAN, NEW a \in Eligible(s, Initial(legacy))
  PROVE  a.kind \notin {"KillApplication", "RestartAndAwaitHealth"}
  <1> DEFINE m == Initial(legacy)
  <1>1. m.healthy /\ m.phase = "Start" /\ m.observation = "None"
    BY DEF Initial
  <1>2. CutPointsOf(m) = {}
    BY <1>1 DEF CutPointsOf, Supports, ObservableCutPoints, CutPoints
  <1> HIDE DEF m
  <1>3. a \in PhaseActions(s, m) \cup KillActions(s, m)
    BY <1>1 DEF Eligible, m
  <1>4. KillActions(s, m) = {}
    BY <1>2 DEF KillActions
  <1> QED  BY <1>1, <1>3, <1>4 DEF PhaseActions, WithScript

\* A checkout is driven at the start only, with a script of the specification.
LEMMA CheckoutStarts ==
  ASSUME NEW s, NEW m, Sound(s, m), NEW a \in Eligible(s, m), a.kind = "DriveCheckout"
  PROVE  m.phase = "Start" /\ a.script \in BusinessScripts(s, s.outcomes)
  <1>1. a \in PhaseActions(s, m) /\ m.phase \in Phases
    BY DEF Eligible, KillActions, Kinds, Sound, IsModel
  <1>2. m.phase = "Start"
    BY <1>1 DEF PhaseActions, WithScript, Kinds, EventActions, Phases
  <1> QED  BY <1>1, <1>2 DEF PhaseActions, WithScript

\* Along a run the scheduler stays, the start is left for good, and each action
\* moves the case on.
LEMMA RunMoves ==
  ASSUME NEW s, ValidPlanSpec(s), NEW legacy \in BOOLEAN, NEW x,
         Executable(s, legacy, x)
  PROVE  LET N == Normalized(s, legacy, x) IN
         /\ N[0].model = Initial(legacy)
         /\ \A i \in 1 .. Len(x) : Moved(N[i - 1].model, x[i].act, N[i].model)
         /\ \A i \in 0 .. Len(x) : N[i].model.legacy = legacy
  <1> DEFINE N == Normalized(s, legacy, x)
             L == Len(x)
             M(i) == N[i].model
             Good(n) == M(n).legacy = legacy
                        /\ (n > 0 => Moved(M(n - 1), x[n].act, M(n)))
             G == {n \in 0 .. L : Good(n)}
  <1>0. L \in Nat /\ Sequence(x)
    BY SequenceFacts DEF Executable
  <1>1. \A n \in 0 .. L : Sound(s, M(n))
    BY <1>0, KeptType
  <1>2. \A i \in 1 .. L : x[i].act \in Eligible(s, M(i - 1))
                          /\ M(i) = Apply(M(i - 1), x[i].act)
    BY KeptRounds
  <1>3. M(0) = Initial(legacy)
    <2>1. NormalizedRounds(s, legacy, x, N)
      BY <1>0, NormalizedRoundsHold
    <2> HIDE DEF N
    <2>2. N[0] = [model |-> Initial(legacy), kept |-> <<>>]
      BY <2>1 DEF NormalizedRounds
    <2> QED  BY <2>2
  <1> HIDE DEF M, L
  <1>4. 0 \in G
    <2>1. M(0).legacy = legacy
      BY <1>3 DEF Initial
    <2> QED  BY <1>0, <2>1
  <1>5. ASSUME NEW n \in 0 .. L - 1, n \in G PROVE n + 1 \in G
    <2>1. n + 1 \in 1 .. L /\ (n + 1) - 1 = n /\ n \in 0 .. L /\ n + 1 \in 0 .. L
      BY <1>0
    <2> DEFINE a == x[n + 1].act
    <2>2. a \in Eligible(s, M(n)) /\ M(n + 1) = Apply(M(n), a) /\ Sound(s, M(n))
      BY <1>1, <1>2, <2>1
    <2>3. M(n).phase # "Start" \/ a.kind \notin {"KillApplication", "RestartAndAwaitHealth"}
      <3>1. CASE n = 0
        BY <1>3, <2>2, <3>1, FirstAction
      <3>2. CASE n > 0
        <4>1. Moved(M(n - 1), x[n].act, M(n))
          BY <1>5, <3>2
        <4> QED  BY <4>1 DEF Moved
      <3> QED  BY <3>1, <3>2
    <2> HIDE DEF a
    <2>4. Moved(M(n), a, M(n + 1))
      BY <2>2, <2>3, EligibleMoves
    <2>5. M(n + 1).legacy = legacy
      BY <1>5, <2>4 DEF Moved
    <2> QED  BY <2>1, <2>4, <2>5 DEF a
  <1>6. \A n \in 0 .. L : n \in G
    <2> HIDE DEF G
    <2> QED  BY <1>0, <1>4, <1>5, SetInduction
  <1>7. \A i \in 1 .. L : i \in 0 .. L /\ i > 0
    BY <1>0
  <1>8. \A i \in 1 .. L : Moved(M(i - 1), x[i].act, M(i))
    BY <1>6, <1>7
  <1> QED  BY <1>3, <1>6, <1>8 DEF M, L

\* The checkout is driven by the first action of a run, and by no other.
LEMMA CheckoutIsFirst ==
  ASSUME NEW s, ValidPlanSpec(s), NEW legacy \in BOOLEAN, NEW x,
         Executable(s, legacy, x), NEW i \in 1 .. Len(x), x[i].act.kind = "DriveCheckout"
  PROVE  i = 1 /\ x[i].act.script \in BusinessScripts(s, s.outcomes)
  <1> DEFINE N == Normalized(s, legacy, x)
             m == N[i - 1].model
  <1>0. Len(x) \in Nat /\ Sequence(x)
    BY SequenceFacts DEF Executable
  <1>1. x[i].act \in Eligible(s, m)
    BY KeptRounds
  <1>2. Sound(s, m)
    <2>1. i - 1 \in 0 .. Len(x)
      BY <1>0
    <2> QED  BY <1>0, <2>1, KeptType
  <1>3. \A j \in 1 .. Len(x) : N[j].model.phase # "Start"
    BY RunMoves DEF Moved
  <1> HIDE DEF N
  <1>4. m.phase = "Start" /\ x[i].act.script \in BusinessScripts(s, s.outcomes)
    BY <1>1, <1>2, CheckoutStarts
  <1>5. i = 1
    <2> SUFFICES ASSUME i # 1 PROVE FALSE
      OBVIOUS
    <2>1. i - 1 \in 1 .. Len(x)
      BY <1>0
    <2> QED  BY <1>3, <1>4, <2>1
  <1> QED  BY <1>4, <1>5

\* A kill is eligible at a cut point of the specification only.
LEMMA KillCuts ==
  ASSUME NEW s, ValidPlanSpec(s), NEW m, Sound(s, m), NEW a \in Eligible(s, m),
         a.kind = "KillApplication"
  PROVE  a.cutPoint \in CutPoints
  <1>1. m.phase \in Phases
    BY DEF Sound, IsModel
  <1>2. a \notin PhaseActions(s, m)
    BY PhaseKinds
  <1>3. a \in KillActions(s, m)
    BY <1>2 DEF Eligible, Kinds
  <1> DEFINE C == {c \in s.cutPoints \cap CutPointsOf(m) : m.kills < s.maxKills}
             all == s.cutPoints
  <1>4. a.cutPoint \in C
    BY <1>3 DEF KillActions
  <1>5. all \subseteq CutPoints
    BY DEF ValidPlanSpec
  <1> DEFINE c == a.cutPoint
  <1>6. c \in all
    BY <1>4
  <1> HIDE DEF c, all
  <1>7. c \in CutPoints
    BY <1>5, <1>6
  <1> QED  BY <1>7 DEF c

-----------------------------------------------------------------------------
(* A schedule the compiler could have made.                                  *)

\* It is executed whole, to the final checkpoint, and preflight accepts it.
Plannable(s, legacy, x) ==
  /\ Executable(s, legacy, x)
  /\ Normalize(s, legacy, x).model.phase = "Complete"
  /\ \A i \in 2 .. Len(x) : Preflight(x[i - 1].act, x[i].act)

\* No kill ends such a schedule: the action before it would have ended the case.
LEMMA EndIsHealthy ==
  ASSUME NEW s, ValidPlanSpec(s), NEW legacy \in BOOLEAN, NEW x,
         Plannable(s, legacy, x)
  PROVE  /\ Len(x) \in Nat \ {0}
         /\ Normalized(s, legacy, x)[Len(x)].model.healthy
  <1> DEFINE N == Normalized(s, legacy, x)
             L == Len(x)
             M(i) == N[i].model
             a == x[L].act
             b == x[L - 1].act
  <1>0. L \in Nat /\ Sequence(x) /\ Executable(s, legacy, x) /\ M(L).phase = "Complete"
    BY SequenceFacts DEF Plannable, Executable, Normalize
  <1>1. /\ M(0) = Initial(legacy)
        /\ \A i \in 1 .. L : Moved(M(i - 1), x[i].act, M(i))
    BY <1>0, RunMoves
  <1>2. \A i \in 1 .. L : x[i].act \in Eligible(s, M(i - 1))
    BY <1>0, KeptRounds
  <1>3. \A i \in 0 .. L : Sound(s, M(i))
    BY <1>0, KeptType
  <1>4. \A i \in 2 .. L : Preflight(x[i - 1].act, x[i].act)
    BY DEF Plannable
  <1> HIDE DEF M, L
  <1>5. L # 0
    BY <1>0, <1>1 DEF Initial
  <1>6. /\ L \in 1 .. L /\ L - 1 \in 0 .. L
        /\ L # 1 => L \in 2 .. L /\ L - 1 \in 1 .. L
    BY <1>0, <1>5
  <1>7. Moved(M(L - 1), a, M(L)) /\ a \in Eligible(s, M(L - 1)) /\ Sound(s, M(L - 1))
    BY <1>1, <1>2, <1>3, <1>6
  <1>8. ASSUME a.kind = "KillApplication" PROVE FALSE
    <2>1. L # 1
      <3> SUFFICES ASSUME L = 1 PROVE FALSE
        OBVIOUS
      <3>1. L - 1 = 0
        OBVIOUS
      <3>2. a \in Eligible(s, Initial(legacy))
        BY <1>1, <1>7, <3>1
      <3> HIDE DEF a
      <3> QED  BY <1>8, <3>2, FirstAction
    <2>2. Preflight(b, a) /\ Moved(M((L - 1) - 1), b, M(L - 1))
      BY <1>1, <1>4, <1>6, <2>1
    <2> HIDE DEF a, b
    <2>3. a.cutPoint \in CutPoints
      BY <1>7, <1>8, KillCuts
    <2>4. b.kind \in BusinessRequest \cup Delivery
      BY <1>8, <2>2, <2>3 DEF Preflight, CutBy, CutPoints, ClientRequestCut,
         ClientResponseCut, WebhookRequestCut, WebhookResponseCut, SqlProbeCut,
         BusinessRequest, Delivery
    <2>5. M(L - 1).phase # "Complete"
      BY <2>2, <2>4 DEF Moved
    <2> QED  BY <1>0, <1>7, <1>8, <2>5 DEF Moved
  <1>9. M(L).healthy
    BY <1>7, <1>8 DEF Moved
  <1> QED  BY <1>0, <1>5, <1>9 DEF M, L

\* A budget is a number.
LEMMA BudgetType ==
  ASSUME NEW s, ValidPlanSpec(s)
  PROVE  s.maxActions \in Int
  <1> DEFINE max == s.maxActions
  <1>1. max \in 1 .. 40
    BY DEF ValidPlanSpec
  <1> HIDE DEF max
  <1>2. max \in Int
    BY <1>1
  <1> QED  BY <1>2 DEF max

\* Every prefix of it leaves enough of the budget for the rest.
LEMMA PlannableFits ==
  ASSUME NEW s, ValidPlanSpec(s), NEW legacy \in BOOLEAN, NEW x,
         Plannable(s, legacy, x), Len(x) <= s.maxActions
  PROVE  \A i \in 1 .. Len(x) : Fits(s, Normalized(s, legacy, x)[i].model, i - 1)
  <1> DEFINE N == Normalized(s, legacy, x)
             L == Len(x)
             M(i) == N[i].model
             D(i) == Distance(s, M(i))
             G == {k \in 0 .. L : D(L - k) <= k}
  <1>0. L \in Nat /\ Sequence(x) /\ Executable(s, legacy, x) /\ M(L).phase = "Complete"
    BY SequenceFacts DEF Plannable, Executable, Normalize
  <1>1. \A i \in 1 .. L : x[i].act \in Eligible(s, M(i - 1))
                          /\ M(i) = Apply(M(i - 1), x[i].act)
    BY <1>0, KeptRounds
  <1>2. \A i \in 0 .. L : Sound(s, M(i))
    BY <1>0, KeptType
  <1>3. M(L).healthy
    BY EndIsHealthy
  <1> HIDE DEF M
  <1>4. \A i \in 0 .. L : D(i) \in Int
    BY <1>2, DistanceType
  <1>5. \A i \in 1 .. L : D(i - 1) - 1 <= D(i)
    <2> TAKE i \in 1 .. L
    <2>1. i - 1 \in 0 .. L
      BY <1>0
    <2>2. Steps(s, M(i - 1), Apply(M(i - 1), x[i].act))
      BY <1>1, <1>2, <2>1, EligibleStep
    <2> QED  BY <1>1, <2>2 DEF Steps
  <1>6. 0 \in G
    <2>1. D(L) = 0
      BY <1>0, <1>3 DEF Distance, HealthyDistance
    <2>2. L - 0 = L /\ 0 \in 0 .. L
      BY <1>0
    <2> HIDE DEF D
    <2> QED  BY <2>1, <2>2
  <1> HIDE DEF D, L
  <1>7. ASSUME NEW k \in 0 .. L - 1, k \in G PROVE k + 1 \in G
    <2>1. /\ L - k \in 1 .. L /\ L - k \in 0 .. L /\ (L - k) - 1 = L - (k + 1)
          /\ L - (k + 1) \in 0 .. L /\ k + 1 \in 0 .. L
      BY <1>0
    <2>2. D(L - (k + 1)) - 1 <= D(L - k) /\ D(L - k) <= k
      BY <1>5, <1>7, <2>1
    <2>3. D(L - (k + 1)) \in Int /\ D(L - k) \in Int
      BY <1>4, <2>1
    <2>4. D(L - (k + 1)) <= k + 1
      BY <2>2, <2>3
    <2> QED  BY <2>1, <2>4
  <1>8. \A k \in 0 .. L : k \in G
    <2> HIDE DEF G
    <2> QED  BY <1>0, <1>6, <1>7, SetInduction
  <1>9. s.maxActions \in Int /\ L <= s.maxActions
    <2>1. s.maxActions \in Int
      BY BudgetType
    <2>2. L <= s.maxActions
      BY DEF L
    <2> QED  BY <2>1, <2>2
  <1>10. ASSUME NEW i \in 1 .. L PROVE Fits(s, M(i), i - 1)
    <2>1. L - i \in 0 .. L /\ L - (L - i) = i /\ i \in 0 .. L
      BY <1>0
    <2>2. D(i) <= L - i /\ D(i) \in Int
      BY <1>4, <1>8, <2>1
    <2> DEFINE max == s.maxActions
    <2> HIDE DEF D
    <2>3. max \in Int /\ L <= max
      BY <1>9
    <2> HIDE DEF max
    <2>4. D(i) < max - (i - 1)
      BY <1>0, <2>2, <2>3
    <2> QED  BY <2>4 DEF Fits, D, max
  <1> QED  BY <1>10 DEF M, L

\* Action by action, it is what the compiler would have chosen.
LEMMA PlannableIsCompilable ==
  ASSUME NEW s, ValidPlanSpec(s), NEW legacy \in BOOLEAN, NEW x,
         Plannable(s, legacy, x), Len(x) <= s.maxActions
  PROVE  LET After(i) == Normalize(s, legacy, SubSeq(x, 1, i)).model IN
         /\ After(Len(x)).phase = "Complete"
         /\ \A i \in DOMAIN x :
              /\ x[i].act \in Eligible(s, After(i - 1))
              /\ Fits(s, After(i), i - 1)
              /\ i > 1 => Preflight(x[i - 1].act, x[i].act)
  <1> DEFINE After(i) == Normalize(s, legacy, SubSeq(x, 1, i)).model
             M(i) == Normalized(s, legacy, x)[i].model
             L == Len(x)
             S == {x[i] : i \in DOMAIN x}
  <1>0. L \in Nat /\ DOMAIN x = 1 .. L /\ x \in Seq(S) /\ Sequence(x)
    BY SequenceFacts DEF Plannable, Executable, Sequence
  <1>1. \A i \in 0 .. L : After(i) = M(i)
    <2> TAKE i \in 0 .. L
    <2> DEFINE y == SubSeq(x, 1, i)
    <2>1. Len(y) = i /\ \A j \in 1 .. i : y[j] = x[j]
      <3> HIDE DEF S
      <3> QED  BY <1>0
    <2>2. i \in Nat /\ i <= Len(x) /\ i \in 0 .. i
      BY <1>0
    <2> HIDE DEF y
    <2>3. Normalized(s, legacy, y)[i] = Normalized(s, legacy, x)[i]
      BY <1>0, <2>1, <2>2, SamePrefix
    <2> QED  BY <2>1, <2>3 DEF Normalize, y
  <1>2. \A i \in 1 .. L : x[i].act \in Eligible(s, M(i - 1))
    BY KeptRounds DEF Plannable
  <1>3. \A i \in 1 .. L : Fits(s, M(i), i - 1)
    BY PlannableFits
  <1>4. M(L).phase = "Complete" /\ \A i \in 2 .. L : Preflight(x[i - 1].act, x[i].act)
    BY DEF Plannable, Normalize
  <1> HIDE DEF After, M, L
  <1>5. After(L).phase = "Complete"
    BY <1>0, <1>1, <1>4
  <1>6. ASSUME NEW i \in 1 .. L
        PROVE  /\ x[i].act \in Eligible(s, After(i - 1))
               /\ Fits(s, After(i), i - 1)
               /\ i > 1 => Preflight(x[i - 1].act, x[i].act)
    <2>1. i - 1 \in 0 .. L /\ i \in 0 .. L /\ (i > 1 => i \in 2 .. L)
      BY <1>0
    <2> QED  BY <1>1, <1>2, <1>3, <1>4, <2>1
  <1> QED  BY <1>0, <1>5, <1>6 DEF After, L

\* A script simpler than one that succeeds succeeds, if it can be planned at all.
LEMMA SimplerStaysNormal ==
  ASSUME NEW s, ValidPlanSpec(s), NEW c \in BusinessScripts(s, s.outcomes),
         NEW b \in BusinessScripts(s, s.outcomes), b \in SimplerScripts(c),
         TerminalOutcome(c) = "Normal"
  PROVE  TerminalOutcome(b) = "Normal"
  <1> DEFINE O == s.outcomes
  <1>0. O \subseteq Outcomes
    BY DEF ValidPlanSpec
  <1> HIDE DEF O
  <1>1. \A script \in BusinessScripts(s, O) :
           \/ \E o \in O \ {"CommitThenClose"} : script = Single(o)
           \/ script.first = "CommitThenClose" /\ script.retry \in O
    <2> TAKE script \in BusinessScripts(s, O)
    <2>1. \/ script \in {Single(o) : o \in O \ {"CommitThenClose"}}
          \/ script \in [first: O \cap {"CommitThenClose"}, retry: O]
      BY Zenon DEF BusinessScripts, O
    <2>2. CASE script \in {Single(o) : o \in O \ {"CommitThenClose"}}
      BY <2>2
    <2>3. CASE script \in [first: O \cap {"CommitThenClose"}, retry: O]
      BY <2>3
    <2> QED  BY <2>1, <2>2, <2>3
  <1>2. "Normal" # NoRetry /\ \A o \in O : o # NoRetry
    BY <1>0, NoRetryAssumption DEF Outcomes
  <1>3. b \in BusinessScripts(s, O) /\ c \in BusinessScripts(s, O)
    BY DEF O
  <1>4. \/ b = Single("Normal")
        \/ c.retry # NoRetry /\ b = Single(c.first)
        \/ b.retry = "Normal"
    BY DEF SimplerScripts
  <1>5. CASE b = Single("Normal")
    BY <1>5 DEF TerminalOutcome, Single
  <1>6. CASE c.retry # NoRetry /\ b = Single(c.first)
    <2>1. c.first = "CommitThenClose"
      <3>1. ~ \E o \in O \ {"CommitThenClose"} : c = Single(o)
        BY <1>6 DEF Single
      <3> QED  BY <1>1, <1>3, <3>1
    <2>2. b.first = "CommitThenClose" /\ b.retry = NoRetry
      BY <1>6, <2>1 DEF Single
    <2>3. b.retry \notin O
      BY <1>2, <2>2
    <2>4. ~ \E o \in O \ {"CommitThenClose"} : b = Single(o)
      BY <2>2 DEF Single
    <2> QED  BY <1>1, <1>3, <2>3, <2>4
  <1>7. CASE b.retry = "Normal"
    BY <1>2, <1>7 DEF TerminalOutcome
  <1> QED  BY <1>4, <1>5, <1>6, <1>7

\* A kill and a checkout stay what they are when an action is made simpler.
LEMMA SimplificationKeeps ==
  ASSUME NEW old, NEW new, KindIsSimplification(old, new)
  PROVE  /\ new.kind = "KillApplication" => new = old
         /\ new.kind = "DriveCheckout" =>
               /\ old.kind = "DriveCheckout"
               /\ new = old \/ new.script \in SimplerScripts(old.script)
  BY DEF KindIsSimplification, Scripted

\* A candidate of a plan is one the compiler could have made, no longer than it:
\* where the search asks less than preflight, for the probe, the plan makes up
\* for it.
LEMMA CandidatePlannable ==
  ASSUME NEW s, ValidPlanSpec(s), NEW legacy \in BOOLEAN, NEW origin,
         Plannable(s, legacy, origin), NEW x, CandidateOf(s, legacy, origin, x)
  PROVE  Plannable(s, legacy, x) /\ Len(x) <= Len(origin)
  <1>1. /\ Executable(s, legacy, x) /\ Executable(s, legacy, origin)
        /\ Normalize(s, legacy, x).model.phase = "Complete"
        /\ Descends(x, origin) /\ CutPointsSupported(x) /\ Simpler(x, origin)
    BY Zenon DEF CandidateOf, IsCandidate, Executable, Plannable
  <1>2. /\ Len(x) \in Nat /\ DOMAIN x = 1 .. Len(x)
        /\ Len(origin) \in Nat /\ DOMAIN origin = 1 .. Len(origin)
    BY <1>1, SequenceFacts DEF Executable
  <1>3. Len(x) <= Len(origin)
    BY <1>1, ExecutableIsTimed, SimplerOrder
  <1>4. ASSUME NEW i \in 2 .. Len(x) PROVE Preflight(x[i - 1].act, x[i].act)
    <2> DEFINE a == x[i].act
               b == x[i - 1].act
               h == x[i - 1].id
               j == x[i].id
    <2>1. i \in 1 .. Len(x) /\ i - 1 \in 1 .. Len(x) /\ i > 1
      BY <1>2
    <2>2. /\ h < j /\ h \in 1 .. Len(origin) /\ j \in 1 .. Len(origin)
          /\ KindIsSimplification(origin[h].act, b)
          /\ KindIsSimplification(origin[j].act, a)
      BY <1>1, <1>2, <2>1 DEF Descends
    <2>3. a.kind = "KillApplication" =>
            IF a.cutPoint = "SqlProbe" THEN b.kind = "DriveCheckout"
            ELSE CutBy(a.cutPoint, b)
      BY <1>1, <1>2, <2>1 DEF CutPointsSupported
    <2>4. b.kind = "DriveCheckout" => b.script \in BusinessScripts(s, s.outcomes)
      BY <1>1, <2>1, CheckoutIsFirst
    <2>5. \A k \in 1 .. Len(origin) : origin[k].act.kind = "DriveCheckout" =>
             k = 1 /\ origin[k].act.script \in BusinessScripts(s, s.outcomes)
      BY <1>1, CheckoutIsFirst
    <2>6. \A k \in 2 .. Len(origin) : Preflight(origin[k - 1].act, origin[k].act)
      BY DEF Plannable
    <2> HIDE DEF a, b, h, j
    <2>7. ASSUME a.kind = "KillApplication", a.cutPoint = "SqlProbe",
                 b.kind = "DriveCheckout"
          PROVE  SqlProbeCut(b)
      <3>1. origin[j].act = a /\ origin[h].act.kind = "DriveCheckout"
        BY <2>2, <2>7, SimplificationKeeps
      <3>2. h = 1 /\ j \in 2 .. Len(origin) /\ j - 1 \in 1 .. Len(origin)
        BY <1>2, <2>2, <2>5, <3>1
      <3>3. SqlProbeCut(origin[j - 1].act)
        BY <2>6, <2>7, <3>1, <3>2 DEF Preflight, CutBy
      <3>4. j - 1 = h
        BY <2>5, <3>2, <3>3 DEF SqlProbeCut
      <3> DEFINE c == origin[h].act
      <3>5. /\ TerminalOutcome(c.script) = "Normal"
            /\ c.script \in BusinessScripts(s, s.outcomes)
        BY <2>2, <2>5, <3>1, <3>3, <3>4 DEF SqlProbeCut
      <3>6. b = c \/ b.script \in SimplerScripts(c.script)
        BY <2>2, <2>7, SimplificationKeeps
      <3> HIDE DEF c
      <3>7. TerminalOutcome(b.script) = "Normal"
        <4>1. CASE b = c
          BY <3>5, <4>1
        <4>2. CASE b.script \in SimplerScripts(c.script)
          <5>1. b.script \in BusinessScripts(s, s.outcomes)
            BY <2>4, <2>7
          <5> QED  BY <3>5, <4>2, <5>1, SimplerStaysNormal
        <4> QED  BY <3>6, <4>1, <4>2
      <3> QED  BY <2>7, <3>7 DEF SqlProbeCut
    <2>8. Preflight(b, a)
      BY <2>3, <2>7 DEF Preflight, CutBy
    <2> QED  BY <2>8 DEF a, b
  <1> QED  BY <1>1, <1>3, <1>4 DEF Plannable

-----------------------------------------------------------------------------
(* Three attempts.                                                           *)

\* The first of some numbers is one of them.
LEMMA FirstIsMember ==
  ASSUME NEW S, S \subseteq Nat, S # {}
  PROVE  First(S) \in S
  <1>1. \E i \in S : \A j \in S : i <= j
    <2> SUFFICES ASSUME \A i \in S : \E j \in S : ~(i <= j) PROVE FALSE
      OBVIOUS
    <2>1. PICK n \in S : TRUE
      OBVIOUS
    <2> DEFINE G == {k \in 0 .. n : \A i \in S : i > k}
    <2>2. 0 \in G
      OBVIOUS
    <2>3. ASSUME NEW k \in 0 .. n - 1, k \in G PROVE k + 1 \in G
      <3>1. k + 1 \in 0 .. n /\ k + 1 \in Nat
        BY <2>1
      <3>2. \A i \in S : i >= k + 1
        BY <2>3
      <3>3. k + 1 \notin S
        BY <3>1, <3>2
      <3>4. \A i \in S : i > k + 1
        BY <3>1, <3>2, <3>3
      <3> QED  BY <3>1, <3>4
    <2>4. n \in G
      <3>1. n \in Nat
        BY <2>1
      <3>2. \A k \in 0 .. n : k \in G
        <4> HIDE DEF G
        <4> QED  BY <2>2, <2>3, <3>1, SetInduction
      <3> QED  BY <3>1, <3>2
    <2> QED  BY <2>1, <2>4
  <1> QED  BY <1>1 DEF First

\* The expected identity is that of an invariant the source violated.
LEMMA ExpectedFacts ==
  ASSUME recorded \in SUBSET Invariants, recorded # {}
  PROVE  Expected \in recorded /\ Expected # Held
  <1>1. recorded \subseteq Nat \ {0}
    BY InvariantsAssumption
  <1>2. Expected \in recorded
    BY <1>1, FirstIsMember DEF Expected
  <1> QED  BY <1>1, <1>2 DEF Held

\* An attempt that matches violates the expected invariant, and its document is
\* one the loaders accept.
LEMMA AttemptFacts ==
  ASSUME recorded \in SUBSET Invariants, recorded # {}, NEW violated \in Findings
  PROVE  /\ Matches(violated) => Expected \in violated
         /\ Coherent(AttemptDocument(violated))
  <1> DEFINE result == AttemptResult(violated)
             document == AttemptDocument(violated)
  <1>1. Expected \in recorded /\ Expected # Held
    BY ExpectedFacts
  <1>2. violated \subseteq Nat
    BY InvariantsAssumption DEF Findings
  <1>3. result = Expected => Expected \in violated
    <2>1. CASE violated = {}
      BY <1>1, <2>1 DEF AttemptResult
    <2>2. CASE violated # {}
      BY <1>2, <2>2, FirstIsMember DEF AttemptResult
    <2> QED  BY <2>1, <2>2
  <1>4. /\ document.identity = result /\ document.invariants = violated
        /\ document.verdict = CASE result = Held -> "held"
                                [] result = Expected -> "expected"
                                [] OTHER -> "other"
    BY DEF AttemptDocument
  <1> HIDE DEF document
  <1>5. AttemptResult(document.invariants) = result
    BY <1>4
  <1> HIDE DEF result
  <1>6. /\ document.verdict = "held" <=> result = Held
        /\ document.verdict = "expected" <=> result = Expected
    BY <1>1, <1>4
  <1>7. Coherent(document)
    BY <1>4, <1>5, <1>6 DEF Coherent
  <1> QED  BY <1>3, <1>7 DEF Matches, document, result

\* As many attempts match as are made at most, and each of them showed the
\* failure; the loaders accept their documents.
TrialSound(t) ==
  /\ t \in [subject: {t.subject}, attempts: 0 .. ATTEMPT_COUNT, matching: Nat,
            shown: Nat, sound: {TRUE}, open: BOOLEAN]
  /\ t.matching <= t.attempts /\ t.matching <= t.shown
  /\ t.open => t.attempts < ATTEMPT_COUNT

\* A trial that has not begun is sound.
LEMMA NewTrial ==
  ASSUME NEW x
  PROVE  TrialSound(Trial(x)) /\ Trial(x).subject = x
  BY DEF TrialSound, Trial, ATTEMPT_COUNT

\* One more attempt is begun.
LEMMA TrialBegun ==
  ASSUME NEW t, TrialSound(t), t.attempts < ATTEMPT_COUNT,
         NEW u, u = [t EXCEPT !.open = TRUE]
  PROVE  TrialSound(u) /\ u.subject = t.subject
  BY DEF TrialSound, ATTEMPT_COUNT

\* One more attempt is counted.
LEMMA TrialCounted ==
  ASSUME NEW t, TrialSound(t), t.open, NEW c \in 0 .. 1, NEW d \in 0 .. 1, c <= d,
         NEW u, u = [subject |-> t.subject, attempts |-> t.attempts + 1,
                     matching |-> t.matching + c, shown |-> t.shown + d,
                     sound |-> TRUE, open |-> FALSE]
  PROVE  TrialSound(u) /\ u.subject = t.subject
  <1>1. /\ u.open = FALSE /\ u.attempts = t.attempts + 1 /\ u.matching = t.matching + c
        /\ u.shown = t.shown + d /\ u.sound = TRUE /\ u.subject = t.subject
        /\ DOMAIN u = {"subject", "attempts", "matching", "shown", "sound", "open"}
        /\ u = [subject |-> u.subject, attempts |-> u.attempts, matching |-> u.matching,
                shown |-> u.shown, sound |-> u.sound, open |-> u.open]
    BY DEF TrialSound
  <1>2. /\ t.attempts \in 0 .. 3 /\ t.attempts < 3 /\ t.matching \in Nat /\ t.shown \in Nat
        /\ t.sound = TRUE /\ t.matching <= t.attempts /\ t.matching <= t.shown
    BY DEF TrialSound, ATTEMPT_COUNT
  <1>3. /\ u.attempts \in 0 .. 3 /\ u.matching \in Nat /\ u.shown \in Nat
        /\ u.matching <= u.attempts /\ u.matching <= u.shown
    BY <1>1, <1>2
  <1> QED  BY <1>1, <1>3 DEF TrialSound, ATTEMPT_COUNT

-----------------------------------------------------------------------------
(* The search.                                                               *)

\* What is best so far: the source, or an accepted candidate simpler than all the
\* other ones accepted.
BestSound(s, legacy, origin, best, improved, shown, evaluated) ==
  /\ ~improved => best = origin
  /\ improved => /\ CandidateOf(s, legacy, origin, best) /\ shown >= 2
                 /\ \E e \in evaluated : e.schedule = best /\ e.accepted
  /\ \A e \in evaluated :
        e.accepted => improved /\ (e.schedule = best \/ Simpler(best, e.schedule))

\* The evaluations: each candidate once, within the limit.
EvaluatedSound(s, legacy, origin, evaluated) ==
  /\ IsFiniteSet(evaluated) /\ Cardinality(evaluated) <= CandidateLimit
  /\ \A e \in evaluated : e.sound = TRUE /\ CandidateOf(s, legacy, origin, e.schedule)
  /\ \A c, d \in evaluated : c.schedule = d.schedule => c = d

\* The frontier: of the batch offered for the best schedule, whatever has not
\* been evaluated is still in it.
FrontierSound(s, legacy, origin, best, frontier, capped, evaluated) ==
  LET batch == Batch(s, legacy, best, origin) IN
  /\ capped = batch.truncated /\ Sequence(frontier)
  /\ \A i \in 1 .. Len(frontier) : Offered(s, legacy, best, origin, frontier[i])
  /\ \A i \in 1 .. Len(batch.candidates) :
        \/ \E j \in 1 .. Len(frontier) : frontier[j] = batch.candidates[i]
        \/ \E e \in evaluated : e.schedule = batch.candidates[i]

SearchSound(s, legacy, origin, f) ==
  /\ f = [original |-> TRUE, best |-> f.best, improved |-> f.improved,
          shown |-> f.shown, frontier |-> f.frontier, capped |-> f.capped,
          evaluated |-> f.evaluated]
  /\ f.improved \in BOOLEAN
  /\ BestSound(s, legacy, origin, f.best, f.improved, f.shown, f.evaluated)
  /\ EvaluatedSound(s, legacy, origin, f.evaluated)
  /\ FrontierSound(s, legacy, origin, f.best, f.frontier, f.capped, f.evaluated)

\* A candidate is executed whole, and can be compared with the others.
LEMMA CandidateIsTimed ==
  ASSUME NEW s, ValidPlanSpec(s), NEW legacy \in BOOLEAN, NEW origin, NEW x,
         CandidateOf(s, legacy, origin, x)
  PROVE  Sequence(x) /\ Timed(x)
  <1>1. Sequence(x) /\ Executable(s, legacy, x)
    BY Zenon DEF CandidateOf, IsCandidate, Executable
  <1> QED  BY <1>1, ExecutableIsTimed

\* So can the best schedule.
LEMMA BestIsTimed ==
  ASSUME NEW s, ValidPlanSpec(s), NEW legacy \in BOOLEAN, NEW origin,
         Executable(s, legacy, origin), NEW best, NEW improved \in BOOLEAN, NEW shown,
         NEW evaluated, BestSound(s, legacy, origin, best, improved, shown, evaluated)
  PROVE  Sequence(best) /\ Timed(best)
  <1>1. CASE improved
    BY <1>1, CandidateIsTimed DEF BestSound
  <1>2. CASE ~improved
    BY <1>2, ExecutableIsTimed DEF BestSound, Executable
  <1> QED  BY <1>1, <1>2

\* A batch is the first of the offers, or all of them.
LEMMA BatchFacts ==
  ASSUME NEW s, ValidPlanSpec(s), NEW legacy \in BOOLEAN, NEW origin,
         NEW best, Sequence(best)
  PROVE  LET batch == Batch(s, legacy, best, origin)
             offers == Offers(s, legacy, best, origin) IN
         /\ Sequence(batch.candidates) /\ batch.truncated \in BOOLEAN
         /\ \A i \in 1 .. Len(batch.candidates) :
               Offered(s, legacy, best, origin, batch.candidates[i])
         /\ ~batch.truncated => batch.candidates = offers
         /\ DOMAIN offers = 1 .. Len(offers)
  <1> DEFINE batch == Batch(s, legacy, best, origin)
             offers == Offers(s, legacy, best, origin)
             S == {offers[i] : i \in DOMAIN offers}
             T == {x \in S : Offered(s, legacy, best, origin, x)}
  <1>1. /\ Sequence(offers) /\ Len(offers) \in Nat /\ DOMAIN offers = 1 .. Len(offers)
        /\ \A i \in 1 .. Len(offers) : Offered(s, legacy, best, origin, offers[i])
    BY OffersType, SequenceFacts
  <1>2. offers \in Seq(T)
    <2>1. offers \in Seq(S)
      BY <1>1 DEF Sequence
    <2>2. T = S
      BY <1>1
    <2> QED  BY <2>1, <2>2
  <1>3. /\ batch.candidates = IF Len(offers) > FrontierLimit
                              THEN SubSeq(offers, 1, FrontierLimit) ELSE offers
        /\ batch.truncated = (Len(offers) > FrontierLimit)
    BY Zenon DEF Batch
  <1>4. \A x \in T : Offered(s, legacy, best, origin, x)
    OBVIOUS
  <1> HIDE DEF T, offers, batch
  <1>5. batch.candidates \in Seq(T)
    <2>1. CASE Len(offers) > FrontierLimit
      <3>1. SubSeq(offers, 1, FrontierLimit) \in Seq(T)
        <4>1. FrontierLimit \in 1 .. 60
          BY FrontierLimitAssumption
        <4> QED  BY <1>1, <1>2, <2>1, <4>1
      <3> QED  BY <1>3, <2>1, <3>1
    <2>2. CASE ~(Len(offers) > FrontierLimit)
      BY <1>2, <1>3, <2>2
    <2> QED  BY <2>1, <2>2
  <1>6. /\ Sequence(batch.candidates)
        /\ \A i \in 1 .. Len(batch.candidates) : batch.candidates[i] \in T
    BY <1>5, SeqIsSequence, ElementOfSeq
  <1>7. \A i \in 1 .. Len(batch.candidates) :
           Offered(s, legacy, best, origin, batch.candidates[i])
    BY <1>4, <1>6
  <1>8. batch.truncated \in BOOLEAN /\ (~batch.truncated => batch.candidates = offers)
    <2>1. FrontierLimit \in 1 .. 60
      BY FrontierLimitAssumption
    <2>2. (Len(offers) > FrontierLimit) \in BOOLEAN
      BY <1>1, <2>1
    <2> QED  BY <1>3, <2>2, Zenon
  <1> QED  BY <1>1, <1>6, <1>7, <1>8 DEF batch, offers

\* The frontier begins with the batch.
LEMMA FrontierBegins ==
  ASSUME NEW s, ValidPlanSpec(s), NEW legacy \in BOOLEAN, NEW origin,
         NEW best, Sequence(best), NEW evaluated
  PROVE  FrontierSound(s, legacy, origin, best, Batch(s, legacy, best, origin).candidates,
                       Batch(s, legacy, best, origin).truncated, evaluated)
  <1> DEFINE c == Batch(s, legacy, best, origin).candidates
  <1>1. Sequence(c) /\ \A i \in 1 .. Len(c) : Offered(s, legacy, best, origin, c[i])
    BY BatchFacts
  <1>2. \A i \in 1 .. Len(c) : \E j \in 1 .. Len(c) : c[j] = c[i]
    OBVIOUS
  <1> QED  BY <1>1, <1>2 DEF FrontierSound

\* Its first candidate may go once it has been evaluated.
LEMMA FrontierShrinks ==
  ASSUME NEW s, NEW legacy, NEW origin, NEW best, NEW frontier, NEW capped,
         NEW evaluated, NEW more, evaluated \subseteq more,
         FrontierSound(s, legacy, origin, best, frontier, capped, evaluated),
         frontier # <<>>, \E e \in more : e.schedule = Head(frontier)
  PROVE  FrontierSound(s, legacy, origin, best, Tail(frontier), capped, more)
  <1> DEFINE batch == Batch(s, legacy, best, origin)
             c == batch.candidates
             S == {frontier[i] : i \in DOMAIN frontier}
             rest == Tail(frontier)
  <1>1. /\ capped = batch.truncated /\ Sequence(frontier)
        /\ \A i \in 1 .. Len(frontier) : Offered(s, legacy, best, origin, frontier[i])
        /\ \A i \in 1 .. Len(c) :
              \/ \E j \in 1 .. Len(frontier) : frontier[j] = c[i]
              \/ \E e \in evaluated : e.schedule = c[i]
    BY DEF FrontierSound
  <1>2. frontier \in Seq(S) /\ Len(frontier) \in Nat
    BY <1>1, SequenceFacts DEF Sequence
  <1> HIDE DEF S, c, batch
  <1>3. /\ rest \in Seq(S) /\ Len(frontier) >= 1 /\ Len(rest) = Len(frontier) - 1
        /\ Head(frontier) = frontier[1]
        /\ \A i \in 1 .. Len(rest) : rest[i] = frontier[i + 1]
    BY <1>2, HeadTailProperties, EmptySeq
  <1>4. Sequence(rest)
    BY <1>3, SeqIsSequence
  <1> HIDE DEF rest
  <1>5. \A i \in 1 .. Len(rest) : Offered(s, legacy, best, origin, rest[i])
    <2> TAKE i \in 1 .. Len(rest)
    <2>1. i + 1 \in 1 .. Len(frontier)
      BY <1>2, <1>3
    <2> QED  BY <1>1, <1>3, <2>1
  <1>6. ASSUME NEW i \in 1 .. Len(c)
        PROVE  \/ \E j \in 1 .. Len(rest) : rest[j] = c[i]
               \/ \E e \in more : e.schedule = c[i]
    <2>1. CASE \E e \in evaluated : e.schedule = c[i]
      BY <2>1
    <2>2. ASSUME NEW j \in 1 .. Len(frontier), frontier[j] = c[i]
          PROVE  \/ \E k \in 1 .. Len(rest) : rest[k] = c[i]
                 \/ \E e \in more : e.schedule = c[i]
      <3>1. CASE j = 1
        BY <1>3, <2>2, <3>1
      <3>2. CASE j # 1
        <4>1. j - 1 \in 1 .. Len(rest) /\ (j - 1) + 1 = j
          BY <1>2, <1>3, <3>2
        <4>2. rest[j - 1] = c[i]
          BY <1>3, <2>2, <4>1
        <4> QED  BY <4>1, <4>2
      <3> QED  BY <3>1, <3>2
    <2> QED  BY <1>1, <2>1, <2>2
  <1> QED  BY <1>1, <1>4, <1>5, <1>6 DEF FrontierSound, c, batch, rest

\* One more candidate is evaluated.
LEMMA EvaluatedGrows ==
  ASSUME NEW s, NEW legacy, NEW origin, NEW evaluated,
         EvaluatedSound(s, legacy, origin, evaluated),
         Cardinality(evaluated) # CandidateLimit,
         NEW e, e.sound = TRUE, CandidateOf(s, legacy, origin, e.schedule),
         \A d \in evaluated : d.schedule # e.schedule
  PROVE  EvaluatedSound(s, legacy, origin, evaluated \cup {e})
  <1>1. /\ IsFiniteSet(evaluated) /\ Cardinality(evaluated) <= CandidateLimit
        /\ \A d \in evaluated : d.sound = TRUE /\ CandidateOf(s, legacy, origin, d.schedule)
        /\ \A c, d \in evaluated : c.schedule = d.schedule => c = d
    BY DEF EvaluatedSound
  <1>2. e \notin evaluated
    OBVIOUS
  <1>3. /\ IsFiniteSet(evaluated \cup {e})
        /\ Cardinality(evaluated \cup {e}) = Cardinality(evaluated) + 1
        /\ Cardinality(evaluated) \in Nat
    BY <1>1, <1>2, FS_AddElement, FS_CardinalityType
  <1>4. Cardinality(evaluated \cup {e}) <= CandidateLimit
    BY <1>1, <1>3, CandidateLimitAssumption
  <1>5. \A c, d \in evaluated \cup {e} : c.schedule = d.schedule => c = d
    BY <1>1
  <1>6. \A d \in evaluated \cup {e} :
           d.sound = TRUE /\ CandidateOf(s, legacy, origin, d.schedule)
    BY <1>1
  <1> QED  BY <1>3, <1>4, <1>5, <1>6 DEF EvaluatedSound

\* A rejected candidate leaves the best one.
LEMMA BestStays ==
  ASSUME NEW s, NEW legacy, NEW origin, NEW best, NEW improved, NEW shown,
         NEW evaluated, BestSound(s, legacy, origin, best, improved, shown, evaluated),
         NEW e, ~e.accepted
  PROVE  BestSound(s, legacy, origin, best, improved, shown, evaluated \cup {e})
  BY DEF BestSound

\* An accepted one takes its place.
LEMMA BestImproves ==
  ASSUME NEW s, ValidPlanSpec(s), NEW legacy \in BOOLEAN, NEW origin,
         Executable(s, legacy, origin), NEW best, NEW improved \in BOOLEAN, NEW shown,
         NEW evaluated, BestSound(s, legacy, origin, best, improved, shown, evaluated),
         EvaluatedSound(s, legacy, origin, evaluated),
         NEW e, e.accepted, CandidateOf(s, legacy, origin, e.schedule),
         Simpler(e.schedule, best), NEW n, n >= 2
  PROVE  BestSound(s, legacy, origin, e.schedule, TRUE, n, evaluated \cup {e})
  <1> DEFINE x == e.schedule
  <1>1. Timed(x) /\ Timed(best)
    BY CandidateIsTimed, BestIsTimed
  <1>2. \A d \in evaluated : Timed(d.schedule)
    BY CandidateIsTimed DEF EvaluatedSound
  <1>3. \A d \in evaluated : d.accepted => d.schedule = best \/ Simpler(best, d.schedule)
    BY DEF BestSound
  <1>4. \A d \in evaluated : d.accepted => Simpler(x, d.schedule)
    <2> TAKE d \in evaluated
    <2> HAVE d.accepted
    <2> HIDE DEF x
    <2>1. Simpler(x, best)
      BY DEF x
    <2>2. CASE d.schedule = best
      BY <2>1, <2>2
    <2>3. CASE Simpler(best, d.schedule)
      BY <1>1, <1>2, <2>1, <2>3, SimplerOrder
    <2> QED  BY <1>3, <2>2, <2>3
  <1> QED  BY <1>4 DEF BestSound

\* When the frontier of an uncapped batch is used up, each offer for the best
\* schedule has been evaluated; none of them was accepted, for each is simpler.
LEMMA CompleteCovers ==
  ASSUME NEW s, ValidPlanSpec(s), NEW legacy \in BOOLEAN, NEW origin,
         Executable(s, legacy, origin), NEW best, NEW improved \in BOOLEAN, NEW shown,
         NEW evaluated, BestSound(s, legacy, origin, best, improved, shown, evaluated),
         EvaluatedSound(s, legacy, origin, evaluated), NEW capped, ~capped,
         FrontierSound(s, legacy, origin, best, <<>>, capped, evaluated)
  PROVE  \A i \in DOMAIN Offers(s, legacy, best, origin) :
            \E c \in evaluated :
               c.schedule = Offers(s, legacy, best, origin)[i] /\ ~c.accepted
  <1> DEFINE batch == Batch(s, legacy, best, origin)
             offers == Offers(s, legacy, best, origin)
  <1>1. Sequence(best) /\ Timed(best)
    BY BestIsTimed
  <1>2. ~batch.truncated /\ \A i \in 1 .. Len(batch.candidates) :
              \E e \in evaluated : e.schedule = batch.candidates[i]
    BY DEF FrontierSound
  <1>3. batch.candidates = offers /\ DOMAIN offers = 1 .. Len(offers)
    BY <1>1, <1>2, BatchFacts
  <1>4. \A i \in 1 .. Len(offers) : Offered(s, legacy, best, origin, offers[i])
    BY <1>1, OffersType
  <1> HIDE DEF batch, offers
  <1>5. ASSUME NEW i \in 1 .. Len(offers)
        PROVE  \E c \in evaluated : c.schedule = offers[i] /\ ~c.accepted
    <2>1. PICK c \in evaluated : c.schedule = offers[i]
      BY <1>2, <1>3
    <2> DEFINE x == offers[i]
    <2>2. Simpler(x, best) /\ Timed(x)
      BY <1>4, CandidateIsTimed DEF Offered
    <2> HIDE DEF x
    <2>3. ~(x = best \/ Simpler(best, x))
      BY <1>1, <2>2, SimplerOrder
    <2>4. c.accepted => x = best \/ Simpler(best, x)
      BY <2>1 DEF BestSound, x
    <2> QED  BY <2>1, <2>3, <2>4
  <1> QED  BY <1>3, <1>5 DEF offers

-----------------------------------------------------------------------------
(* What is published of a search.                                            *)

\* LoadsShrink, of a given source.
Loadable(s, legacy, origin, a) ==
  /\ a.written
  /\ <<a.completion, a.result>> \in {<<"complete", "counterexample">>,
                                     <<"budget_exhausted", "budget_exhausted">>}
  /\ a.original
  /\ Cardinality(a.candidates) <= CandidateLimit
  /\ \E c \in a.candidates : c.accepted
  /\ \A c, d \in a.candidates : c.schedule = d.schedule => c = d
  /\ \A c \in a.candidates : c.sound /\ IsCandidate(s, legacy, c.schedule, origin)
  /\ Len(a.minimized) <= Len(origin)
  /\ \E c \in a.candidates : c.schedule = a.minimized /\ c.accepted

\* The loader of the minimized replay takes these artifacts, and no others.
LEMMA LoadsIsLoadable ==
  ASSUME NEW a
  PROVE  LoadsShrink(a) <=> a # None /\ Loadable(spec, Legacy, Source, a)
  BY Zenon DEF LoadsShrink, Loadable, SoundSummary, SoundCandidate, IsCandidateOfSource

\* The artifact of a shrink: a minimized trace is one the next command loads, it
\* reproduced the failure, and a complete search left no offer out.
ShrinkSound(s, legacy, origin, a) ==
  /\ a.report.conclusion = a.result
  /\ a.report.run \subseteq {"shrink", "minimized"}
  /\ "minimized" \in a.report.run => a.written
  /\ a.written => /\ Loadable(s, legacy, origin, a) /\ a.shown >= 2
                  /\ CandidateOf(s, legacy, origin, a.minimized)
  /\ a.completion = "complete" =>
       \A i \in DOMAIN Offers(s, legacy, a.minimized, origin) :
          \E c \in a.candidates :
             c.schedule = Offers(s, legacy, a.minimized, origin)[i] /\ ~c.accepted

\* The artifact made of a search.
ArtifactOf(completion, f) ==
  [completion |-> completion, result |-> ResultOf(completion),
   minimized |-> f.best, written |-> f.improved, shown |-> f.shown,
   original |-> f.original, candidates |-> f.evaluated,
   report |-> ShrinkReport(completion, f)]

\* A report says what was found, and asks for what was written.
LEMMA ReportFacts ==
  ASSUME NEW completion, NEW f
  PROVE  LET a == ArtifactOf(completion, f) IN
         /\ a.completion = completion /\ a.result = ResultOf(completion)
         /\ a.minimized = f.best /\ a.written = f.improved /\ a.shown = f.shown
         /\ a.original = f.original /\ a.candidates = f.evaluated
         /\ a.report.conclusion = a.result
         /\ a.report.run \subseteq {"shrink", "minimized"}
         /\ "minimized" \in a.report.run => a.written
  <1> DEFINE a == ArtifactOf(completion, f)
  <1>1. /\ a.completion = completion /\ a.result = ResultOf(completion)
        /\ a.minimized = f.best /\ a.written = f.improved /\ a.shown = f.shown
        /\ a.original = f.original /\ a.candidates = f.evaluated
        /\ a.report = ShrinkReport(completion, f)
    BY DEF ArtifactOf
  <1>2. /\ ShrinkReport(completion, f).conclusion = ResultOf(completion)
        /\ ShrinkReport(completion, f).run =
             {"shrink"} \cup (IF f.improved THEN {"minimized"} ELSE {})
    BY DEF ShrinkReport
  <1> HIDE DEF a
  <1>3. a.report.run \subseteq {"shrink", "minimized"}
    BY <1>1, <1>2
  <1>4. "minimized" \in a.report.run => a.written
    BY <1>1, <1>2
  <1> QED  BY <1>1, <1>2, <1>3, <1>4 DEF a

\* The artifact of a sound search is sound.
LEMMA PublishSound ==
  ASSUME NEW s, ValidPlanSpec(s), NEW legacy \in BOOLEAN, NEW origin,
         Executable(s, legacy, origin), NEW f, SearchSound(s, legacy, origin, f),
         NEW completion \in {"complete", "budget_exhausted"},
         completion = "complete" => f.frontier = <<>> /\ ~f.capped
  PROVE  ShrinkSound(s, legacy, origin, ArtifactOf(completion, f))
  <1> DEFINE a == ArtifactOf(completion, f)
             best == f.best
             improved == f.improved
             shown == f.shown
             evaluated == f.evaluated
             frontier == f.frontier
             capped == f.capped
  <1>1. /\ f.original = TRUE /\ improved \in BOOLEAN
        /\ BestSound(s, legacy, origin, best, improved, shown, evaluated)
        /\ EvaluatedSound(s, legacy, origin, evaluated)
        /\ FrontierSound(s, legacy, origin, best, frontier, capped, evaluated)
    BY DEF SearchSound
  <1>2. /\ a.completion = completion /\ a.result = ResultOf(completion)
        /\ a.minimized = best /\ a.written = improved /\ a.shown = shown
        /\ a.original = TRUE /\ a.candidates = evaluated
        /\ a.report.conclusion = a.result
        /\ a.report.run \subseteq {"shrink", "minimized"}
        /\ "minimized" \in a.report.run => a.written
    BY <1>1, ReportFacts
  <1>3. completion = "complete" => frontier = <<>> /\ ~capped
    OBVIOUS
  <1> HIDE DEF a, best, improved, shown, evaluated, frontier, capped
  <1>4. ASSUME improved
        PROVE  /\ Loadable(s, legacy, origin, a) /\ shown >= 2
               /\ CandidateOf(s, legacy, origin, best)
    <2>1. /\ CandidateOf(s, legacy, origin, best) /\ shown >= 2
          /\ \E e \in evaluated : e.schedule = best /\ e.accepted
      BY <1>1, <1>4 DEF BestSound
    <2>2. /\ Cardinality(evaluated) <= CandidateLimit
          /\ \A c, d \in evaluated : c.schedule = d.schedule => c = d
          /\ \A c \in evaluated : c.sound /\ IsCandidate(s, legacy, c.schedule, origin)
      BY <1>1 DEF EvaluatedSound, CandidateOf
    <2>3. Len(best) <= Len(origin)
      <3>1. Simpler(best, origin)
        BY <2>1 DEF CandidateOf, IsCandidate
      <3> QED  BY <2>1, <3>1, CandidateIsTimed, ExecutableIsTimed, SimplerOrder
    <2>4. <<completion, ResultOf(completion)>> \in
             {<<"complete", "counterexample">>, <<"budget_exhausted", "budget_exhausted">>}
      BY DEF ResultOf
    <2>5. /\ a.written /\ a.original
          /\ <<a.completion, a.result>> \in
             {<<"complete", "counterexample">>, <<"budget_exhausted", "budget_exhausted">>}
      BY <1>2, <1>4, <2>4
    <2> QED  BY <1>2, <2>1, <2>2, <2>3, <2>5, Zenon DEF Loadable
  <1>5. ASSUME completion = "complete"
        PROVE  \A i \in DOMAIN Offers(s, legacy, best, origin) :
                  \E c \in evaluated :
                     c.schedule = Offers(s, legacy, best, origin)[i] /\ ~c.accepted
    BY <1>1, <1>3, <1>5, CompleteCovers
  <1>6. ShrinkSound(s, legacy, origin, a)
    BY <1>2, <1>4, <1>5, Zenon DEF ShrinkSound
  <1> QED  BY <1>6 DEF a

\* So is the one of a search that was never begun.
LEMMA PublishNothing ==
  ASSUME NEW s, NEW legacy, NEW origin, NEW original
  PROVE  ShrinkSound(s, legacy, origin,
                     ArtifactOf("source_inconclusive", NewSearch(original)))
  <1> DEFINE f == NewSearch(original)
             a == ArtifactOf("source_inconclusive", f)
  <1>1. ~f.improved
    BY DEF NewSearch
  <1> HIDE DEF f
  <1>2. /\ a.completion = "source_inconclusive" /\ a.written = f.improved
        /\ a.report.conclusion = a.result
        /\ a.report.run \subseteq {"shrink", "minimized"}
        /\ "minimized" \in a.report.run => a.written
    BY ReportFacts
  <1> HIDE DEF a
  <1>3. ~a.written
    BY <1>1, <1>2
  <1>4. ShrinkSound(s, legacy, origin, a)
    BY <1>2, <1>3 DEF ShrinkSound
  <1> QED  BY <1>4 DEF a, f

-----------------------------------------------------------------------------
(* The inductive invariant.                                                  *)

\* The plan so far is a run of the compiler, and leads to the state it is in.
PlanPart ==
  /\ PlanInv
  /\ Sequence(plan) /\ Len(plan) = used
  /\ Executable(spec, Legacy, Source) /\ Normalize(spec, Legacy, Source).model = model
  /\ \A i \in 2 .. Len(plan) : Preflight(plan[i - 1], plan[i])
  /\ recorded \in SUBSET Invariants

\* Each command and each artifact has the artifact before it.
CommandPart ==
  /\ command \in {"idle", "replay", "shrink", "minimized"}
  /\ command = "idle" => trial = None /\ search = None
  /\ command = "replay" => replay = None
  /\ command = "shrink" => shrink = None
  /\ search # None => command = "shrink"
  /\ command # "idle" \/ replay # None => model.phase = "Complete" /\ recorded # {}
  /\ command = "shrink" \/ shrink # None => LoadsReplay(replay)
  /\ command = "minimized" \/ minimized # None =>
        shrink # None /\ Loadable(spec, Legacy, Source, shrink)

\* What is tried is the source, the minimized trace, or the first candidate of
\* the frontier, which is new and within the limit.
TrialPart ==
  trial # None =>
    /\ TrialSound(trial)
    /\ command = "replay" \/ (command = "shrink" /\ search = None) =>
          trial.subject = Source
    /\ command = "minimized" => trial.subject = shrink.minimized
    /\ search # None => /\ search.frontier # <<>>
                        /\ trial.subject = Head(search.frontier)
                        /\ \A e \in search.evaluated : e.schedule # trial.subject
                        /\ Cardinality(search.evaluated) # CandidateLimit

SearchPart == search # None => SearchSound(spec, Legacy, Source, search)

\* What is published is what the reports say, and what the loaders ask for.
ArtifactPart ==
  /\ replay # None =>
        /\ replay.result = "counterexample" => replay.sound
        /\ replay.report.conclusion = replay.result /\ replay.report.run = {"replay"}
  /\ shrink # None => ShrinkSound(spec, Legacy, Source, shrink)
  /\ minimized # None =>
        /\ minimized.report.conclusion = minimized.result
        /\ minimized.report.run = {"minimized"}

ReductionInv == PlanPart /\ CommandPart /\ TrialPart /\ SearchPart /\ ArtifactPart

-----------------------------------------------------------------------------
(* The source.                                                               *)

\* The source is the plan, numbered.
LEMMA WholeFacts ==
  ASSUME NEW p, Sequence(p)
  PROVE  /\ Sequence(Whole(p)) /\ Len(Whole(p)) = Len(p)
         /\ \A i \in 1 .. Len(p) : Whole(p)[i] = [id |-> i, act |-> p[i]]
  <1> DEFINE S == {[id |-> i, act |-> p[i]] : i \in 1 .. Len(p)}
  <1>1. Len(p) \in Nat /\ DOMAIN p = 1 .. Len(p)
    BY SequenceFacts
  <1>2. Whole(p) = [i \in 1 .. Len(p) |-> [id |-> i, act |-> p[i]]]
    BY <1>1 DEF Whole
  <1>3. Whole(p) \in [1 .. Len(p) -> S]
    BY <1>2
  <1> HIDE DEF S
  <1>4. Whole(p) \in Seq(S) /\ Len(Whole(p)) = Len(p)
    BY <1>1, <1>3
  <1> QED  BY <1>2, <1>4, SeqIsSequence

\* One more eligible action makes one more executable schedule.
LEMMA ExtendedRun ==
  ASSUME NEW s, ValidPlanSpec(s), NEW legacy \in BOOLEAN, NEW x,
         Executable(s, legacy, x), NEW y, Sequence(y), Len(y) = Len(x) + 1,
         \A i \in 1 .. Len(x) : y[i] = x[i],
         y[Len(y)].act \in Eligible(s, Normalize(s, legacy, x).model)
  PROVE  /\ Executable(s, legacy, y)
         /\ Normalize(s, legacy, y).model =
              Apply(Normalize(s, legacy, x).model, y[Len(y)].act)
  <1> DEFINE M == Normalized(s, legacy, x)
             N == Normalized(s, legacy, y)
             n == Len(x)
             e == y[n + 1]
             S == {x[i] : i \in DOMAIN x}
             T == S \cup {e}
  <1>1. /\ n \in Nat /\ Sequence(x) /\ DOMAIN x = 1 .. n /\ Len(y) = n + 1
        /\ DOMAIN y = 1 .. n + 1 /\ M[n].kept = x
    BY SequenceFacts DEF Executable, Normalize
  <1>2. NormalizedRounds(s, legacy, y, N)
    BY <1>1, NormalizedRoundsHold
  <1>3. N[n] = M[n]
    <2>1. n <= Len(x) /\ n <= Len(y) /\ n \in 0 .. n /\ Len(y) \in Nat
      BY <1>1
    <2>2. \A m \in 0 .. n : M[m] = N[m]
      <3> HIDE DEF M, N
      <3>1. \A m \in 0 .. n : Normalized(s, legacy, x)[m] = Normalized(s, legacy, y)[m]
        BY <1>1, <2>1, SamePrefix
      <3> QED  BY <3>1 DEF M, N
    <2> QED  BY <2>1, <2>2
  <1>4. e.act \in Eligible(s, M[n].model)
    BY <1>1 DEF Normalize
  <1> HIDE DEF M, N, e
  <1>5. N[n + 1] = [model |-> Apply(M[n].model, e.act), kept |-> Append(x, e)]
    <2>1. n + 1 \in 1 .. Len(y) /\ (n + 1) - 1 = n
      BY <1>1
    <2>2. e = y[n + 1]
      BY DEF e
    <2>3. N[n + 1] = [model |-> Apply(N[n].model, e.act), kept |-> Append(N[n].kept, e)]
      BY <1>2, <1>3, <1>4, <2>1, <2>2 DEF NormalizedRounds
    <2> QED  BY <1>1, <1>3, <2>3
  <1>6. Append(x, e) = y
    <2>1. x \in Seq(S)
      BY <1>1 DEF Sequence
    <2>2. x \in Seq(T) /\ e \in T
      BY <2>1
    <2> HIDE DEF S, T
    <2>3. /\ Append(x, e) \in Seq(T) /\ Len(Append(x, e)) = n + 1
          /\ \A i \in 1 .. n : Append(x, e)[i] = x[i]
          /\ Append(x, e)[n + 1] = e
      BY <2>2, AppendProperties
    <2>4. y \in Seq({y[i] : i \in DOMAIN y})
      BY DEF Sequence
    <2>5. \A i \in 1 .. n + 1 : Append(x, e)[i] = y[i]
      <3> TAKE i \in 1 .. n + 1
      <3>1. CASE i = n + 1
        BY <2>3, <3>1 DEF e
      <3>2. CASE i # n + 1
        <4>1. i \in 1 .. n
          BY <1>1, <3>2
        <4> QED  BY <2>3, <4>1
      <3> QED  BY <3>1, <3>2
    <2> QED  BY <1>1, <2>3, <2>4, <2>5, SeqEqual
  <1>7. N[Len(y)].kept = y /\ N[Len(y)].model = Apply(M[Len(x)].model, e.act)
    BY <1>1, <1>5, <1>6
  <1> QED  BY <1>1, <1>7 DEF Executable, Normalize, M, N, e

\* Compiled to the end, the source is a plan that fits the budget.
LEMMA SourceFacts ==
  ASSUME PlanPart
  PROVE  /\ ValidPlanSpec(spec) /\ Legacy \in BOOLEAN
         /\ Executable(spec, Legacy, Source)
         /\ model.phase = "Complete" =>
               Plannable(spec, Legacy, Source) /\ Len(Source) <= spec.maxActions
  <1>1. /\ ValidPlanSpec(spec) /\ spec \in Specs /\ Sound(spec, model) /\ used \in Nat
        /\ BudgetSuffices
    BY SpecsAssumption DEF PlanPart, PlanInv
  <1>2. Legacy \in BOOLEAN
    BY <1>1 DEF Legacy, Sound, IsModel
  <1>3. /\ Sequence(plan) /\ Len(plan) = used /\ Executable(spec, Legacy, Source)
        /\ Normalize(spec, Legacy, Source).model = model
        /\ \A i \in 2 .. Len(plan) : Preflight(plan[i - 1], plan[i])
    BY DEF PlanPart
  <1>4. /\ Len(Source) = Len(plan)
        /\ \A i \in 1 .. Len(plan) : Source[i] = [id |-> i, act |-> plan[i]]
    BY <1>3, WholeFacts DEF Source
  <1>5. ASSUME model.phase = "Complete" PROVE Len(Source) <= spec.maxActions
    <2> DEFINE max == spec.maxActions
               d == Distance(spec, model)
    <2>1. d >= 0 /\ d \in Int
      BY <1>5 DEF Distance, HealthyDistance
    <2>2. max \in Int
      BY <1>1, BudgetType
    <2>3. used + d <= max
      BY <1>1 DEF BudgetSuffices
    <2> HIDE DEF max, d
    <2>4. used <= max
      BY <1>1, <2>1, <2>2, <2>3
    <2> QED  BY <1>3, <1>4, <2>4 DEF max
  <1>6. \A i \in 2 .. Len(Source) : Preflight(Source[i - 1].act, Source[i].act)
    <2> TAKE i \in 2 .. Len(Source)
    <2>1. i \in 2 .. Len(plan) /\ i \in 1 .. Len(plan) /\ i - 1 \in 1 .. Len(plan)
      BY <1>1, <1>3, <1>4
    <2>2. \A j \in 1 .. Len(plan) : Source[j].act = plan[j]
      <3> TAKE j \in 1 .. Len(plan)
      <3>1. Source[j] = [id |-> j, act |-> plan[j]]
        BY <1>4
      <3> QED  BY <3>1
    <2> QED  BY <1>3, <2>1, <2>2
  <1> QED  BY <1>1, <1>2, <1>3, <1>5, <1>6 DEF Plannable

\* Nothing but compiling changes the source.
LEMMA SourceStays ==
  ASSUME PlanPart, UNCHANGED <<vars, source>>
  PROVE  /\ PlanPart' /\ spec' = spec /\ model' = model /\ Legacy' = Legacy
         /\ Source' = Source /\ recorded' = recorded
  <1>1. /\ spec' = spec /\ model' = model /\ used' = used /\ plan' = plan
        /\ recorded' = recorded
    BY DEF vars, source
  <1>2. Legacy' = Legacy /\ Source' = Source
    BY <1>1 DEF Legacy, Source
  <1>3. PlanInv'
    BY <1>1 DEF PlanPart, PlanInv, BudgetSuffices
  <1> QED  BY <1>1, <1>2, <1>3 DEF PlanPart

-----------------------------------------------------------------------------
(* The steps.                                                                *)

\* The invariant holds at the start.
LEMMA ReductionInvInit == ReductionInit => ReductionInv
  <1> SUFFICES ASSUME ReductionInit PROVE ReductionInv
    OBVIOUS
  <1>1. /\ Init /\ plan = <<>> /\ recorded \in SUBSET Invariants /\ command = "idle"
        /\ trial = None /\ search = None /\ replay = None /\ shrink = None
        /\ minimized = None
    BY DEF ReductionInit
  <1>2. PlanInv /\ used = 0
    BY <1>1, PlanInvInit DEF Init
  <1>3. Sequence(plan) /\ Len(plan) = 0
    <2>1. <<>> \in Seq({}) /\ Len(<<>>) = 0
      BY EmptySeq
    <2> QED  BY <1>1, <2>1, SeqIsSequence
  <1>4. Sequence(Source) /\ Len(Source) = 0 /\ Source = <<>>
    <2>1. Sequence(Source) /\ Len(Source) = 0
      BY <1>3, WholeFacts DEF Source
    <2> QED  BY <2>1, EmptySeq DEF Sequence
  <1>5. PICK legacy \in BOOLEAN : model = Initial(legacy)
    BY <1>1 DEF Init
  <1>6. Legacy = legacy
    BY <1>5 DEF Legacy, Initial
  <1>7. Normalize(spec, Legacy, Source) = [model |-> Initial(legacy), kept |-> <<>>]
    <2>1. NormalizedRounds(spec, Legacy, Source, Normalized(spec, Legacy, Source))
      BY <1>4, NormalizedRoundsHold
    <2>2. Normalized(spec, Legacy, Source)[0] = [model |-> Initial(Legacy), kept |-> <<>>]
      BY <2>1 DEF NormalizedRounds
    <2> QED  BY <1>4, <1>6, <2>2 DEF Normalize
  <1>8. Executable(spec, Legacy, Source) /\ Normalize(spec, Legacy, Source).model = model
    BY <1>4, <1>5, <1>7 DEF Executable
  <1>9. PlanPart
    BY <1>1, <1>2, <1>3, <1>8 DEF PlanPart
  <1> QED  BY <1>1, <1>9 DEF ReductionInv, CommandPart, TrialPart, SearchPart, ArtifactPart

\* Compiling goes on only before the first command, and appends one action.
LEMMA CompileStep ==
  ASSUME ReductionInv, Compile
  PROVE  ReductionInv'
  <1>1. PICK a \in Eligible(spec, model) :
           /\ Fits(spec, Apply(model, a), used)
           /\ plan # <<>> => Preflight(plan[Len(plan)], a)
           /\ model' = Apply(model, a) /\ plan' = Append(plan, a)
    BY DEF Compile
  <1>2. /\ used' = used + 1 /\ spec' = spec /\ recorded' = recorded
        /\ UNCHANGED <<command, trial, search, replay, shrink, minimized>>
        /\ model.phase # "Complete"
    BY DEF Compile, run, artifacts
  <1>3. /\ PlanInv /\ Sequence(plan) /\ Len(plan) = used
        /\ Executable(spec, Legacy, Source)
        /\ Normalize(spec, Legacy, Source).model = model
        /\ \A i \in 2 .. Len(plan) : Preflight(plan[i - 1], plan[i])
        /\ recorded \in SUBSET Invariants
    BY DEF ReductionInv, PlanPart
  <1>4. ValidPlanSpec(spec) /\ Legacy \in BOOLEAN
    BY SourceFacts DEF ReductionInv
  <1>5. /\ Len(plan) \in Nat /\ plan \in Seq({plan[i] : i \in DOMAIN plan})
    BY <1>3, SequenceFacts DEF Sequence
  <1>6. /\ Sequence(plan') /\ Len(plan') = Len(plan) + 1
        /\ \A i \in 1 .. Len(plan) : plan'[i] = plan[i]
        /\ plan'[Len(plan) + 1] = a
    <2> DEFINE S == {plan[i] : i \in DOMAIN plan}
               T == S \cup {a}
    <2>1. plan \in Seq(T) /\ a \in T
      BY <1>5
    <2> HIDE DEF T
    <2>2. /\ Append(plan, a) \in Seq(T) /\ Len(Append(plan, a)) = Len(plan) + 1
          /\ \A i \in 1 .. Len(plan) : Append(plan, a)[i] = plan[i]
          /\ Append(plan, a)[Len(plan) + 1] = a
      BY <2>1, AppendProperties
    <2>3. Sequence(Append(plan, a))
      BY <2>2, SeqIsSequence
    <2> QED  BY <1>1, <2>2, <2>3
  <1>7. /\ Len(Source) = Len(plan) /\ Sequence(Source')
        /\ Len(Source') = Len(Source) + 1
        /\ \A i \in 1 .. Len(Source) : Source'[i] = Source[i]
        /\ Source'[Len(Source')].act = a
    <2>1. /\ Len(Source) = Len(plan)
          /\ \A i \in 1 .. Len(plan) : Source[i] = [id |-> i, act |-> plan[i]]
      BY <1>3, WholeFacts DEF Source
    <2>2. /\ Sequence(Source') /\ Len(Source') = Len(plan')
          /\ \A i \in 1 .. Len(plan') : Source'[i] = [id |-> i, act |-> plan'[i]]
      <3> DEFINE p == plan'
      <3>1. Sequence(p)
        BY <1>6
      <3>2. Source' = Whole(p)
        BY DEF Source
      <3> HIDE DEF p
      <3>3. /\ Sequence(Whole(p)) /\ Len(Whole(p)) = Len(p)
            /\ \A i \in 1 .. Len(p) : Whole(p)[i] = [id |-> i, act |-> p[i]]
        BY <3>1, WholeFacts
      <3> QED  BY <3>2, <3>3 DEF p
    <2>3. \A i \in 1 .. Len(Source) : Source'[i] = Source[i]
      <3> TAKE i \in 1 .. Len(Source)
      <3>1. i \in 1 .. Len(plan) /\ i \in 1 .. Len(plan')
        BY <1>5, <1>6, <2>1
      <3> QED  BY <1>6, <2>1, <2>2, <3>1
    <2>4. Source'[Len(Source')].act = a
      <3>1. Len(plan) + 1 \in 1 .. Len(plan')
        BY <1>5, <1>6
      <3>2. Source'[Len(plan) + 1] = [id |-> Len(plan) + 1, act |-> a]
        BY <1>6, <2>2, <3>1
      <3>3. Len(Source') = Len(plan) + 1
        BY <1>6, <2>2
      <3> QED  BY <3>2, <3>3
    <2> QED  BY <1>6, <2>1, <2>2, <2>3, <2>4
  <1> DEFINE y == Source'
  <1>8. /\ Executable(spec, Legacy, y)
        /\ Normalize(spec, Legacy, y).model = Apply(model, a)
    <2>1. /\ Sequence(y) /\ Len(y) = Len(Source) + 1
          /\ \A i \in 1 .. Len(Source) : y[i] = Source[i]
          /\ y[Len(y)].act = a
      BY <1>7
    <2>2. y[Len(y)].act \in Eligible(spec, Normalize(spec, Legacy, Source).model)
      BY <1>3, <2>1
    <2> HIDE DEF y
    <2>3. /\ Executable(spec, Legacy, y)
          /\ Normalize(spec, Legacy, y).model =
               Apply(Normalize(spec, Legacy, Source).model, y[Len(y)].act)
      BY <1>3, <1>4, <2>1, <2>2, ExtendedRun
    <2> QED  BY <1>3, <2>1, <2>3
  <1>9. Legacy' = Legacy
    <2>1. Len(y) \in 0 .. Len(y)
      BY <1>5, <1>7
    <2> HIDE DEF y
    <2>2. Normalized(spec, Legacy, y)[Len(y)].model.legacy = Legacy
      BY <1>4, <1>8, <2>1, RunMoves
    <2>3. model'.legacy = Legacy
      BY <1>1, <1>8, <2>2 DEF Normalize
    <2> QED  BY <2>3 DEF Legacy
  <1>10. PlanInv'
    <2>1. Sound(spec, model) /\ used \in Nat /\ spec \in Specs
      BY <1>3 DEF PlanInv
    <2>2. Sound(spec, model')
      BY <1>1, <1>4, <2>1, EligibleStep DEF Steps
    <2>3. Distance(spec, model') \in Int /\ spec.maxActions \in Int
      BY <1>4, <2>2, DistanceType, BudgetType
    <2>4. used' + Distance(spec, model') <= spec.maxActions
      BY <1>1, <1>2, <2>1, <2>3 DEF Fits
    <2> QED  BY <1>2, <2>1, <2>2, <2>4 DEF PlanInv, BudgetSuffices
  <1>11. \A i \in 2 .. Len(plan') : Preflight(plan'[i - 1], plan'[i])
    <2> TAKE i \in 2 .. Len(plan')
    <2>1. CASE i = Len(plan) + 1
      <3>1. Len(plan) \in 1 .. Len(plan) /\ i - 1 = Len(plan)
        BY <1>5, <1>6, <2>1
      <3>2. plan # <<>>
        BY <3>1, EmptySeq
      <3> QED  BY <1>1, <1>6, <2>1, <3>1, <3>2
    <2>2. CASE i # Len(plan) + 1
      <3>1. i \in 2 .. Len(plan) /\ i \in 1 .. Len(plan) /\ i - 1 \in 1 .. Len(plan)
        BY <1>5, <1>6, <2>2
      <3> QED  BY <1>3, <1>6, <3>1
    <2> QED  BY <2>1, <2>2
  <1>12. PlanPart'
    <2>1. /\ Executable(spec', Legacy', Source')
          /\ Normalize(spec', Legacy', Source').model = model'
      BY <1>1, <1>2, <1>8, <1>9
    <2> QED  BY <1>2, <1>3, <1>6, <1>7, <1>10, <1>11, <2>1 DEF PlanPart
  <1>13. /\ command = "idle" /\ trial = None /\ search = None /\ replay = None
         /\ shrink = None /\ minimized = None
    BY <1>2 DEF ReductionInv, CommandPart, LoadsReplay
  <1> QED  BY <1>2, <1>12, <1>13
           DEF ReductionInv, CommandPart, TrialPart, SearchPart, ArtifactPart

\* What is as it was.
LEMMA ArtifactsStay ==
  ASSUME ReductionInv, UNCHANGED <<vars, source, artifacts>>
  PROVE  /\ PlanPart' /\ ArtifactPart'
         /\ spec' = spec /\ model' = model /\ Legacy' = Legacy /\ Source' = Source
         /\ recorded' = recorded /\ replay' = replay /\ shrink' = shrink
         /\ minimized' = minimized
  <1>1. /\ PlanPart' /\ spec' = spec /\ model' = model /\ Legacy' = Legacy
        /\ Source' = Source /\ recorded' = recorded
    BY SourceStays DEF ReductionInv
  <1>2. replay' = replay /\ shrink' = shrink /\ minimized' = minimized
    BY DEF artifacts
  <1>3. ArtifactPart'
    BY <1>1, <1>2 DEF ReductionInv, ArtifactPart
  <1> QED  BY <1>1, <1>2, <1>3

\* A command that fails leaves what there was before it.
LEMMA AbandonStep ==
  ASSUME ReductionInv, Abandon, command # "idle"
  PROVE  ReductionInv'
  <1>1. /\ PlanPart' /\ ArtifactPart'
        /\ spec' = spec /\ model' = model /\ Legacy' = Legacy /\ Source' = Source
        /\ recorded' = recorded /\ replay' = replay /\ shrink' = shrink
        /\ minimized' = minimized
    BY ArtifactsStay DEF Abandon
  <1>2. command' = "idle" /\ trial' = None /\ search' = None
    BY DEF Abandon
  <1>3. CommandPart'
    BY <1>1, <1>2 DEF ReductionInv, CommandPart, LoadsReplay
  <1> QED  BY <1>1, <1>2, <1>3 DEF ReductionInv, TrialPart, SearchPart

\* The failure of the request leaves the search without an artifact.
LEMMA FailStep ==
  ASSUME ReductionInv, Fail
  PROVE  ReductionInv'
  <1>1. Abandon /\ command # "idle"
    BY DEF Fail, FailReplay, FailShrink, FailMinimized
  <1> QED  BY <1>1, AbandonStep

\* A command that starts has the artifact it takes, and nothing else runs.
LEMMA StartStep ==
  ASSUME ReductionInv, StartReplay \/ StartShrink \/ StartMinimized
  PROVE  ReductionInv'
  <1>1. /\ PlanPart' /\ ArtifactPart'
        /\ spec' = spec /\ model' = model /\ Legacy' = Legacy /\ Source' = Source
        /\ recorded' = recorded /\ replay' = replay /\ shrink' = shrink
        /\ minimized' = minimized
    BY ArtifactsStay DEF StartReplay, StartShrink, StartMinimized
  <1>2. search' = search /\ search = None /\ command = "idle"
    BY DEF StartReplay, StartShrink, StartMinimized, ReductionInv, CommandPart
  <1>3. CASE StartReplay
    <2>1. /\ command' = "replay" /\ trial' = Trial(Source) /\ replay = None
          /\ model.phase = "Complete" /\ recorded # {}
      BY <1>3 DEF StartReplay, LoadsCase, RecordsCounterexample
    <2>2. CommandPart'
      BY <1>1, <1>2, <2>1 DEF ReductionInv, CommandPart, LoadsReplay
    <2>3. TrialPart'
      BY <1>1, <1>2, <2>1, NewTrial DEF TrialPart
    <2> QED  BY <1>1, <1>2, <2>2, <2>3 DEF ReductionInv, SearchPart
  <1>4. CASE StartShrink
    <2>1. command' = "shrink" /\ trial' = Trial(Source) /\ LoadsReplay(replay) /\ shrink = None
      BY <1>4 DEF StartShrink
    <2>2. CommandPart'
      BY <1>1, <1>2, <2>1 DEF ReductionInv, CommandPart, LoadsReplay
    <2>3. TrialPart'
      BY <1>1, <1>2, <2>1, NewTrial DEF TrialPart
    <2> QED  BY <1>1, <1>2, <2>2, <2>3 DEF ReductionInv, SearchPart
  <1>5. CASE StartMinimized
    <2>1. /\ command' = "minimized" /\ trial' = Trial(shrink.minimized)
          /\ shrink # None /\ Loadable(spec, Legacy, Source, shrink)
      BY <1>5, LoadsIsLoadable DEF StartMinimized
    <2>2. LoadsReplay(replay) /\ model.phase = "Complete" /\ recorded # {}
      BY <2>1 DEF ReductionInv, CommandPart, LoadsReplay
    <2>3. CommandPart'
      BY <1>1, <1>2, <2>1, <2>2 DEF ReductionInv, CommandPart, LoadsReplay
    <2>4. TrialPart'
      BY <1>1, <1>2, <2>1, NewTrial DEF TrialPart
    <2> QED  BY <1>1, <1>2, <2>3, <2>4 DEF ReductionInv, SearchPart
  <1> QED  BY <1>3, <1>4, <1>5

\* An attempt is begun or counted; what is tried stays.
LEMMA AttemptStep ==
  ASSUME ReductionInv, BeginAttempt \/ EndAttempt
  PROVE  ReductionInv'
  <1>1. /\ PlanPart' /\ ArtifactPart'
        /\ spec' = spec /\ model' = model /\ Legacy' = Legacy /\ Source' = Source
        /\ recorded' = recorded /\ replay' = replay /\ shrink' = shrink
        /\ minimized' = minimized
    BY ArtifactsStay DEF BeginAttempt, EndAttempt
  <1>2. command' = command /\ search' = search /\ command # "idle" /\ trial # None
    BY DEF BeginAttempt, EndAttempt, AtLoopHead, Attempting
  <1>3. TrialSound(trial)
    BY <1>2 DEF ReductionInv, TrialPart
  <1>4. TrialSound(trial') /\ trial'.subject = trial.subject
    <2>1. CASE BeginAttempt
      <3>1. trial' = [trial EXCEPT !.open = TRUE] /\ trial.attempts < ATTEMPT_COUNT
        BY <2>1 DEF BeginAttempt, AtLoopHead
      <3> QED  BY <1>3, <3>1, TrialBegun
    <2>2. CASE EndAttempt
      <3>1. PICK violated \in Findings :
              trial' = [trial EXCEPT !.open = FALSE, !.attempts = @ + 1,
                                 !.matching = @ + Count(Matches(violated)),
                                 !.shown = @ + Count(Expected \in violated),
                                 !.sound = @ /\ Coherent(AttemptDocument(violated))]
        BY <2>2 DEF EndAttempt
      <3>2. trial.open
        BY <2>2 DEF EndAttempt
      <3>3. /\ Matches(violated) => Expected \in violated
            /\ Coherent(AttemptDocument(violated))
        <4>1. recorded \in SUBSET Invariants /\ recorded # {}
          BY <1>2 DEF ReductionInv, PlanPart, CommandPart
        <4> QED  BY <4>1, AttemptFacts
      <3> DEFINE c == Count(Matches(violated))
                 d == Count(Expected \in violated)
                 ok == Coherent(AttemptDocument(violated))
      <3>4. c \in 0 .. 1 /\ d \in 0 .. 1 /\ c <= d
        BY <3>3 DEF Count
      <3>5. ok = TRUE
        BY <3>3 DEF Coherent
      <3>6. trial' = [trial EXCEPT !.open = FALSE, !.attempts = @ + 1, !.matching = @ + c,
                                   !.shown = @ + d, !.sound = @ /\ ok]
        BY <3>1
      <3>7. trial = [subject |-> trial.subject, attempts |-> trial.attempts,
                     matching |-> trial.matching, shown |-> trial.shown,
                     sound |-> TRUE, open |-> trial.open]
        BY <1>3 DEF TrialSound
      <3>8. trial' = [subject |-> trial.subject, attempts |-> trial.attempts + 1,
                      matching |-> trial.matching + c, shown |-> trial.shown + d,
                      sound |-> TRUE, open |-> FALSE]
        <4> DEFINE x == trial.subject
                   n == trial.attempts
                   k == trial.matching
                   w == trial.shown
                   o == trial.open
        <4>1. trial = [subject |-> x, attempts |-> n, matching |-> k, shown |-> w,
                       sound |-> TRUE, open |-> o]
          BY <3>7
        <4> HIDE DEF c, d, ok, x, n, k, w, o
        <4>2. /\ DOMAIN trial' = {"subject", "attempts", "matching", "shown", "sound", "open"}
              /\ trial'.subject = x /\ trial'.attempts = n + 1 /\ trial'.matching = k + c
              /\ trial'.shown = w + d /\ trial'.open = FALSE
          BY <3>6, <4>1
        <4>3. trial'.sound = TRUE
          BY <3>5, <3>6, <4>1
        <4>4. trial' = [subject |-> trial'.subject, attempts |-> trial'.attempts,
                        matching |-> trial'.matching, shown |-> trial'.shown,
                        sound |-> trial'.sound, open |-> trial'.open]
          BY <3>6, <4>1
        <4> QED  BY <4>2, <4>3, <4>4 DEF x, n, k, w
      <3> HIDE DEF c, d, ok
      <3> QED  BY <1>3, <3>2, <3>4, <3>8, TrialCounted
    <2> QED  BY <2>1, <2>2
  <1>5. CommandPart'
    BY <1>1, <1>2 DEF ReductionInv, CommandPart, LoadsReplay
  <1>6. TrialPart'
    BY <1>1, <1>2, <1>4 DEF ReductionInv, TrialPart
  <1> QED  BY <1>1, <1>2, <1>5, <1>6 DEF ReductionInv, SearchPart

\* A replay is published: whether two attempts matched, and if so with documents
\* that the shrink loads.
LEMMA PublishReplayStep ==
  ASSUME ReductionInv, PublishReplay
  PROVE  ReductionInv'
  <1>1. /\ command = "replay" /\ trial # None /\ trial.attempts = ATTEMPT_COUNT
        /\ replay' = [result |-> Conclusion(trial.matching), sound |-> Convincing(trial),
                      report |-> ReplayReport(trial.matching)]
        /\ command' = "idle" /\ trial' = None
        /\ UNCHANGED <<vars, source, search, shrink, minimized>>
    BY DEF PublishReplay, Tried, Attempting
  <1>2. /\ PlanPart' /\ spec' = spec /\ model' = model /\ Legacy' = Legacy
        /\ Source' = Source /\ recorded' = recorded
    BY <1>1, SourceStays DEF ReductionInv
  <1>3. /\ search' = search /\ search = None /\ shrink' = shrink /\ shrink = None
        /\ minimized' = minimized /\ minimized = None
        /\ model.phase = "Complete" /\ recorded # {}
    BY <1>1 DEF ReductionInv, CommandPart, LoadsReplay
  <1>4. /\ replay'.result = "counterexample" => replay'.sound
        /\ replay'.report.conclusion = replay'.result /\ replay'.report.run = {"replay"}
    <2>1. /\ replay'.result = Conclusion(trial.matching)
          /\ replay'.sound = Convincing(trial)
          /\ replay'.report = ReplayReport(trial.matching)
      BY <1>1
    <2>2. Conclusion(trial.matching) = "counterexample" => Convincing(trial)
      <3>1. TrialSound(trial)
        BY <1>1 DEF ReductionInv, TrialPart
      <3>2. /\ trial.sound = TRUE /\ trial.matching \in Nat /\ trial.matching <= 3
        BY <1>1, <3>1 DEF TrialSound, ATTEMPT_COUNT
      <3> QED  BY <3>2 DEF Conclusion, Reproduced, Convincing, ATTEMPT_COUNT
    <2>3. /\ ReplayReport(trial.matching).conclusion = Conclusion(trial.matching)
          /\ ReplayReport(trial.matching).run = {"replay"}
      BY DEF ReplayReport
    <2> QED  BY <2>1, <2>2, <2>3
  <1>5. CommandPart'
    BY <1>1, <1>2, <1>3 DEF CommandPart
  <1>6. ArtifactPart'
    BY <1>3, <1>4 DEF ArtifactPart
  <1> QED  BY <1>1, <1>2, <1>3, <1>5, <1>6 DEF ReductionInv, TrialPart, SearchPart

\* Publishing the minimized trace ends the request with what was searched.
LEMMA PublishMinimizedStep ==
  ASSUME ReductionInv, PublishMinimized
  PROVE  ReductionInv'
  <1>1. /\ command = "minimized" /\ command' = "idle" /\ trial' = None
        /\ minimized' = [result |-> Conclusion(trial.matching),
                         report |-> MinimizedReport(trial.matching)]
        /\ UNCHANGED <<vars, source, search, replay, shrink>>
    BY DEF PublishMinimized
  <1>2. /\ PlanPart' /\ spec' = spec /\ model' = model /\ Legacy' = Legacy
        /\ Source' = Source /\ recorded' = recorded
    BY <1>1, SourceStays DEF ReductionInv
  <1>3. search' = search /\ search = None /\ shrink' = shrink /\ replay' = replay
    BY <1>1 DEF ReductionInv, CommandPart
  <1>4. /\ minimized'.report.conclusion = minimized'.result
        /\ minimized'.report.run = {"minimized"}
    <2>1. /\ minimized'.result = Conclusion(trial.matching)
          /\ minimized'.report = MinimizedReport(trial.matching)
      BY <1>1
    <2>2. /\ MinimizedReport(trial.matching).conclusion = Conclusion(trial.matching)
          /\ MinimizedReport(trial.matching).run = {"minimized"}
      BY DEF MinimizedReport
    <2> QED  BY <2>1, <2>2
  <1>5. CommandPart'
    BY <1>1, <1>2, <1>3 DEF ReductionInv, CommandPart, LoadsReplay
  <1>6. ArtifactPart'
    BY <1>2, <1>3, <1>4 DEF ReductionInv, ArtifactPart
  <1> QED  BY <1>1, <1>2, <1>3, <1>5, <1>6 DEF ReductionInv, TrialPart, SearchPart

\* A search that restarts from the frontier of its best schedule is sound.
LEMMA FrontierFacts ==
  ASSUME PlanPart, NEW f,
         f = [original |-> TRUE, best |-> f.best, improved |-> f.improved,
              shown |-> f.shown, frontier |-> f.frontier, capped |-> f.capped,
              evaluated |-> f.evaluated],
         f.improved \in BOOLEAN,
         BestSound(spec, Legacy, Source, f.best, f.improved, f.shown, f.evaluated),
         EvaluatedSound(spec, Legacy, Source, f.evaluated)
  PROVE  SearchSound(spec, Legacy, Source, Frontier(f))
  <1> DEFINE g == Frontier(f)
             batch == Batch(spec, Legacy, f.best, Source)
             best == f.best
             improved == f.improved
             shown == f.shown
             evaluated == f.evaluated
  <1>1. /\ ValidPlanSpec(spec) /\ Legacy \in BOOLEAN
        /\ Executable(spec, Legacy, Source)
    BY SourceFacts
  <1>2. Sequence(best)
    BY <1>1, BestIsTimed
  <1>3. FrontierSound(spec, Legacy, Source, best, batch.candidates, batch.truncated, evaluated)
    BY <1>1, <1>2, FrontierBegins
  <1>4. g = [f EXCEPT !.frontier = batch.candidates, !.capped = batch.truncated]
    BY Zenon DEF Frontier
  <1> DEFINE frontier == f.frontier
             capped == f.capped
  <1>5. f = [original |-> TRUE, best |-> best, improved |-> improved, shown |-> shown,
             frontier |-> frontier, capped |-> capped, evaluated |-> evaluated]
    OBVIOUS
  <1>6. /\ improved \in BOOLEAN
        /\ BestSound(spec, Legacy, Source, best, improved, shown, evaluated)
        /\ EvaluatedSound(spec, Legacy, Source, evaluated)
    OBVIOUS
  <1> HIDE DEF g, batch, best, improved, shown, evaluated, frontier, capped
  <1>7. g = [original |-> TRUE, best |-> best, improved |-> improved, shown |-> shown,
             frontier |-> batch.candidates, capped |-> batch.truncated,
             evaluated |-> evaluated]
    BY <1>4, <1>5
  <1>8. /\ g.best = best /\ g.improved = improved /\ g.shown = shown
        /\ g.frontier = batch.candidates /\ g.capped = batch.truncated
        /\ g.evaluated = evaluated
    BY <1>7
  <1>9. g = [original |-> TRUE, best |-> g.best, improved |-> g.improved,
             shown |-> g.shown, frontier |-> g.frontier, capped |-> g.capped,
             evaluated |-> g.evaluated]
    BY <1>7, <1>8, Zenon
  <1>10. SearchSound(spec, Legacy, Source, g)
    BY <1>3, <1>6, <1>8, <1>9 DEF SearchSound
  <1> QED  BY <1>10 DEF g

\* A shrink is published.
LEMMA PublishStep ==
  ASSUME ReductionInv, command = "shrink", NEW completion, NEW f,
         Publish(completion, f),
         ShrinkSound(spec, Legacy, Source, ArtifactOf(completion, f))
  PROVE  ReductionInv'
  <1>1. /\ shrink' = ArtifactOf(completion, f)
        /\ command' = "idle" /\ trial' = None /\ search' = None
        /\ UNCHANGED <<vars, source>> /\ replay' = replay /\ minimized' = minimized
    BY DEF Publish, ArtifactOf
  <1>2. /\ PlanPart' /\ spec' = spec /\ model' = model /\ Legacy' = Legacy
        /\ Source' = Source /\ recorded' = recorded
    BY <1>1, SourceStays DEF ReductionInv
  <1>3. shrink = None /\ minimized = None /\ LoadsReplay(replay)
    BY DEF ReductionInv, CommandPart
  <1>4. CommandPart'
    BY <1>1, <1>2, <1>3 DEF ReductionInv, CommandPart, LoadsReplay
  <1>5. ShrinkSound(spec', Legacy', Source', shrink')
    BY <1>1, <1>2
  <1>6. ArtifactPart'
    BY <1>1, <1>3, <1>5 DEF ReductionInv, ArtifactPart
  <1> QED  BY <1>1, <1>2, <1>4, <1>6 DEF ReductionInv, TrialPart, SearchPart

\* The attempts of the source are made: a search begins, or there is nothing to
\* search for.
LEMMA SourceEvaluatedStep ==
  ASSUME ReductionInv, SourceEvaluated
  PROVE  ReductionInv'
  <1>1. /\ command = "shrink" /\ search = None /\ trial # None
        /\ trial.attempts = ATTEMPT_COUNT
    BY DEF SourceEvaluated, Tried, Attempting
  <1>2. CASE ~Reproduced(trial.matching)
    <2> DEFINE f == NewSearch(Convincing(trial))
    <2>1. Publish("source_inconclusive", f)
      BY <1>2 DEF SourceEvaluated
    <2>2. ShrinkSound(spec, Legacy, Source, ArtifactOf("source_inconclusive", f))
      BY PublishNothing
    <2> HIDE DEF f
    <2> QED  BY <1>1, <2>1, <2>2, PublishStep
  <1>3. CASE Reproduced(trial.matching)
    <2> DEFINE f == NewSearch(Convincing(trial))
    <2>1. /\ search' = Frontier(f) /\ trial' = None
          /\ UNCHANGED <<vars, source, command, artifacts>>
      BY <1>3 DEF SourceEvaluated
    <2>2. Convincing(trial) = TRUE
      <3>1. TrialSound(trial)
        BY <1>1 DEF ReductionInv, TrialPart
      <3>2. /\ trial.sound = TRUE /\ trial.matching \in Nat /\ trial.matching <= 3
        BY <1>1, <3>1 DEF TrialSound, ATTEMPT_COUNT
      <3> QED  BY <1>3, <3>2 DEF Reproduced, Convincing, ATTEMPT_COUNT
    <2>3. f = [original |-> TRUE, best |-> Source, improved |-> FALSE, shown |-> 0,
               frontier |-> <<>>, capped |-> FALSE, evaluated |-> {}]
      BY <2>2 DEF NewSearch
    <2> HIDE DEF f
    <2>4. /\ f.best = Source /\ f.improved = FALSE /\ f.shown = 0 /\ f.evaluated = {}
          /\ f = [original |-> TRUE, best |-> f.best, improved |-> f.improved,
                  shown |-> f.shown, frontier |-> f.frontier, capped |-> f.capped,
                  evaluated |-> f.evaluated]
      BY <2>3
    <2>5. BestSound(spec, Legacy, Source, f.best, f.improved, f.shown, f.evaluated)
      <3>1. BestSound(spec, Legacy, Source, Source, FALSE, 0, {})
        BY DEF BestSound
      <3> QED  BY <2>4, <3>1
    <2>6. EvaluatedSound(spec, Legacy, Source, f.evaluated)
      <3>1. IsFiniteSet({}) /\ Cardinality({}) = 0 /\ 0 <= CandidateLimit
        BY FS_EmptySet, CandidateLimitAssumption
      <3>2. EvaluatedSound(spec, Legacy, Source, {})
        BY <3>1 DEF EvaluatedSound
      <3> QED  BY <2>4, <3>2
    <2>7. SearchSound(spec, Legacy, Source, search')
      <3>1. PlanPart /\ f.improved \in BOOLEAN
        BY <2>4 DEF ReductionInv
      <3> QED  BY <2>1, <2>4, <2>5, <2>6, <3>1, FrontierFacts
    <2>8. /\ PlanPart' /\ ArtifactPart'
          /\ spec' = spec /\ model' = model /\ Legacy' = Legacy /\ Source' = Source
          /\ recorded' = recorded /\ replay' = replay /\ shrink' = shrink
          /\ minimized' = minimized
      BY <2>1, ArtifactsStay
    <2>9. command' = command /\ trial' = None
      BY <2>1
    <2>10. CommandPart'
      BY <1>1, <2>8, <2>9 DEF ReductionInv, CommandPart, LoadsReplay
    <2> QED  BY <2>7, <2>8, <2>9, <2>10 DEF ReductionInv, TrialPart, SearchPart
  <1> QED  BY <1>2, <1>3

\* The search stops: for want of candidates or of time, or at an empty frontier.
LEMMA StopStep ==
  ASSUME ReductionInv, StopSearch \/ FrontierExhausted \/ BudgetExpires
  PROVE  ReductionInv'
  <1>1. /\ ValidPlanSpec(spec) /\ Legacy \in BOOLEAN
        /\ Executable(spec, Legacy, Source)
    BY SourceFacts DEF ReductionInv
  <1>2. ASSUME search # None, NEW completion \in {"complete", "budget_exhausted"},
               completion = "complete" => search.frontier = <<>> /\ ~search.capped,
               command = "shrink", Publish(completion, search)
        PROVE  ReductionInv'
    <2>1. SearchSound(spec, Legacy, Source, search)
      BY <1>2 DEF ReductionInv, SearchPart
    <2>2. ShrinkSound(spec, Legacy, Source, ArtifactOf(completion, search))
      BY <1>1, <1>2, <2>1, PublishSound
    <2> QED  BY <1>2, <2>2, PublishStep
  <1>3. CASE StopSearch
    <2>1. /\ search # None /\ command = "shrink" /\ Publish("budget_exhausted", search)
      BY <1>3 DEF StopSearch, Searching
    <2> QED  BY <1>2, <2>1
  <1>4. CASE FrontierExhausted
    <2>1. /\ search # None /\ command = "shrink" /\ search.frontier = <<>>
          /\ Publish(Completion(search), search)
      BY <1>4 DEF FrontierExhausted, Searching
    <2>2. /\ Completion(search) \in {"complete", "budget_exhausted"}
          /\ Completion(search) = "complete" => ~search.capped
      BY DEF Completion
    <2> QED  BY <1>2, <2>1, <2>2
  <1>5. CASE BudgetExpires
    <2>1. CASE Evaluating
      <3>1. search # None /\ command = "shrink" /\ Publish("budget_exhausted", search)
        BY <1>5, <2>1 DEF BudgetExpires, Evaluating
      <3> QED  BY <1>2, <3>1
    <2>2. CASE ~Evaluating
      <3> DEFINE f == NewSearch(Convincing(trial))
      <3>1. command = "shrink" /\ Publish("source_inconclusive", f)
        BY <1>5, <2>2 DEF BudgetExpires
      <3>2. ShrinkSound(spec, Legacy, Source, ArtifactOf("source_inconclusive", f))
        BY PublishNothing
      <3> HIDE DEF f
      <3> QED  BY <3>1, <3>2, PublishStep
    <2> QED  BY <2>1, <2>2
  <1> QED  BY <1>3, <1>4, <1>5

\* A search that goes on.
LEMMA SearchStep ==
  ASSUME ReductionInv, command = "shrink", search # None, trial' = None,
         UNCHANGED <<vars, source, command, artifacts>>,
         SearchSound(spec, Legacy, Source, search')
  PROVE  ReductionInv'
  <1>1. /\ PlanPart' /\ ArtifactPart'
        /\ spec' = spec /\ model' = model /\ Legacy' = Legacy /\ Source' = Source
        /\ recorded' = recorded /\ replay' = replay /\ shrink' = shrink
        /\ minimized' = minimized /\ command' = command
    BY ArtifactsStay
  <1>2. CommandPart'
    BY <1>1 DEF ReductionInv, CommandPart, LoadsReplay
  <1> QED  BY <1>1, <1>2 DEF ReductionInv, TrialPart, SearchPart

\* A candidate already evaluated is passed over.
LEMMA CacheHitStep ==
  ASSUME ReductionInv, CacheHit
  PROVE  ReductionInv'
  <1>1. /\ command = "shrink" /\ search # None /\ trial = None /\ search.frontier # <<>>
        /\ \E e \in search.evaluated : e.schedule = Head(search.frontier)
        /\ search' = [search EXCEPT !.frontier = Tail(@)]
        /\ UNCHANGED <<vars, source, command, trial, artifacts>>
    BY DEF CacheHit, Searching, Unseen
  <1> DEFINE best == search.best
             improved == search.improved
             shown == search.shown
             evaluated == search.evaluated
             frontier == search.frontier
             capped == search.capped
             rest == Tail(frontier)
  <1>2. /\ search = [original |-> TRUE, best |-> best, improved |-> improved,
                     shown |-> shown, frontier |-> frontier, capped |-> capped,
                     evaluated |-> evaluated]
        /\ improved \in BOOLEAN
        /\ BestSound(spec, Legacy, Source, best, improved, shown, evaluated)
        /\ EvaluatedSound(spec, Legacy, Source, evaluated)
        /\ FrontierSound(spec, Legacy, Source, best, frontier, capped, evaluated)
    BY <1>1 DEF ReductionInv, SearchPart, SearchSound
  <1>3. FrontierSound(spec, Legacy, Source, best, rest, capped, evaluated)
    BY <1>1, <1>2, FrontierShrinks
  <1>4. search' = [search EXCEPT !.frontier = rest]
    BY <1>1
  <1> HIDE DEF best, improved, shown, evaluated, frontier, capped, rest
  <1>5. search' = [original |-> TRUE, best |-> best, improved |-> improved,
                   shown |-> shown, frontier |-> rest, capped |-> capped,
                   evaluated |-> evaluated]
    BY <1>2, <1>4
  <1>6. /\ search'.best = best /\ search'.improved = improved /\ search'.shown = shown
        /\ search'.frontier = rest /\ search'.capped = capped
        /\ search'.evaluated = evaluated
    BY <1>5
  <1>7. search' = [original |-> TRUE, best |-> search'.best, improved |-> search'.improved,
                   shown |-> search'.shown, frontier |-> search'.frontier,
                   capped |-> search'.capped, evaluated |-> search'.evaluated]
    BY <1>5, <1>6, Zenon
  <1>8. SearchSound(spec, Legacy, Source, search')
    BY <1>2, <1>3, <1>6, <1>7 DEF SearchSound
  <1>9. trial' = None /\ UNCHANGED <<vars, source, command, artifacts>>
    BY <1>1
  <1> QED  BY <1>1, <1>8, <1>9, SearchStep

\* A new candidate is tried.
LEMMA EvaluateStep ==
  ASSUME ReductionInv, EvaluateCandidate
  PROVE  ReductionInv'
  <1>1. /\ command = "shrink" /\ search # None /\ search.frontier # <<>>
        /\ \A e \in search.evaluated : e.schedule # Head(search.frontier)
        /\ Cardinality(search.evaluated) # CandidateLimit
        /\ trial' = Trial(Head(search.frontier))
        /\ command' = command /\ search' = search
        /\ UNCHANGED <<vars, source, artifacts>>
    BY DEF EvaluateCandidate, Searching, Unseen, CandidatesSpent
  <1>2. /\ PlanPart' /\ ArtifactPart'
        /\ spec' = spec /\ model' = model /\ Legacy' = Legacy /\ Source' = Source
        /\ recorded' = recorded /\ replay' = replay /\ shrink' = shrink
        /\ minimized' = minimized
    BY <1>1, ArtifactsStay
  <1>3. TrialSound(trial') /\ trial'.subject = Head(search.frontier)
    BY <1>1, NewTrial
  <1>4. CommandPart'
    BY <1>1, <1>2 DEF ReductionInv, CommandPart, LoadsReplay
  <1>5. TrialPart'
    BY <1>1, <1>3 DEF TrialPart
  <1> QED  BY <1>1, <1>2, <1>4, <1>5 DEF ReductionInv, SearchPart

\* The verdict on a candidate.
LEMMA CandidateEvaluatedStep ==
  ASSUME ReductionInv, CandidateEvaluated
  PROVE  ReductionInv'
  <1> DEFINE accepted == Reproduced(trial.matching)
             e == [schedule |-> trial.subject, accepted |-> accepted,
                   sound |-> trial.sound /\ accepted = (trial.matching >= 2)]
             known == [search EXCEPT !.evaluated = @ \cup {e}]
             next == [known EXCEPT !.best = trial.subject, !.improved = TRUE,
                                   !.shown = trial.shown]
             x == trial.subject
             n == trial.shown
             best == search.best
             improved == search.improved
             shown == search.shown
             evaluated == search.evaluated
             frontier == search.frontier
             capped == search.capped
             more == evaluated \cup {e}
             rest == Tail(frontier)
  <1>1. /\ command = "shrink" /\ search # None /\ trial # None
        /\ search' = IF accepted THEN Frontier(next) ELSE [known EXCEPT !.frontier = Tail(@)]
        /\ trial' = None /\ UNCHANGED <<vars, source, command, artifacts>>
    BY DEF CandidateEvaluated, Evaluating, Tried, Attempting
  <1>2. /\ search = [original |-> TRUE, best |-> best, improved |-> improved,
                     shown |-> shown, frontier |-> frontier, capped |-> capped,
                     evaluated |-> evaluated]
        /\ improved \in BOOLEAN
        /\ BestSound(spec, Legacy, Source, best, improved, shown, evaluated)
        /\ EvaluatedSound(spec, Legacy, Source, evaluated)
        /\ FrontierSound(spec, Legacy, Source, best, frontier, capped, evaluated)
    BY <1>1 DEF ReductionInv, SearchPart, SearchSound
  <1>3. /\ frontier # <<>> /\ x = Head(frontier)
        /\ \A d \in evaluated : d.schedule # x
        /\ Cardinality(evaluated) # CandidateLimit
        /\ TrialSound(trial)
    BY <1>1 DEF ReductionInv, TrialPart
  <1>4. /\ trial.sound = TRUE /\ trial.matching \in Nat /\ n \in Nat /\ trial.matching <= n
    BY <1>3 DEF TrialSound
  <1>5. e.schedule = x /\ e.sound = TRUE /\ (e.accepted <=> accepted)
    BY <1>4 DEF Reproduced
  <1>6. /\ ValidPlanSpec(spec) /\ Legacy \in BOOLEAN /\ PlanPart
        /\ Executable(spec, Legacy, Source)
    BY SourceFacts DEF ReductionInv
  <1>7. CandidateOf(spec, Legacy, Source, x) /\ Simpler(x, best)
    <2> DEFINE S == {frontier[i] : i \in DOMAIN frontier}
    <2>1. /\ Sequence(frontier)
          /\ \A i \in 1 .. Len(frontier) : Offered(spec, Legacy, best, Source, frontier[i])
      BY <1>2 DEF FrontierSound
    <2>2. frontier \in Seq(S) /\ Len(frontier) \in Nat
      BY <2>1, SequenceFacts DEF Sequence
    <2> HIDE DEF S, frontier, x
    <2>3. Len(frontier) >= 1 /\ Head(frontier) = frontier[1]
      BY <1>3, <2>2, HeadTailProperties, EmptySeq
    <2>4. 1 \in 1 .. Len(frontier)
      BY <2>2, <2>3
    <2> QED  BY <1>3, <2>1, <2>3, <2>4 DEF Offered
  <1>8. trial' = None /\ UNCHANGED <<vars, source, command, artifacts>>
    BY <1>1
  <1>9. known = [search EXCEPT !.evaluated = more]
    OBVIOUS
  <1>10. accepted => n >= 2
    BY <1>4 DEF Reproduced
  <1>11. next = [known EXCEPT !.best = x, !.improved = TRUE, !.shown = n]
    OBVIOUS
  <1>12. ~accepted => search' = [known EXCEPT !.frontier = Tail(known.frontier)]
    BY <1>1
  <1>13. accepted => search' = Frontier(next)
    BY <1>1
  <1>14. more = evaluated \cup {e}
    OBVIOUS
  <1>15. rest = Tail(frontier)
    OBVIOUS
  <1> HIDE DEF accepted, e, known, next, x, n, best, improved, shown, evaluated,
               frontier, capped, more, rest
  <1>16. known = [original |-> TRUE, best |-> best, improved |-> improved,
                  shown |-> shown, frontier |-> frontier, capped |-> capped,
                  evaluated |-> more]
    BY <1>2, <1>9
  <1>17. EvaluatedSound(spec, Legacy, Source, more)
    BY <1>2, <1>3, <1>5, <1>7, <1>14, EvaluatedGrows
  <1>18. CASE ~accepted
    <2>1. search' = [original |-> TRUE, best |-> best, improved |-> improved,
                     shown |-> shown, frontier |-> rest, capped |-> capped,
                     evaluated |-> more]
      <3>1. known.frontier = frontier
        BY <1>16
      <3>2. search' = [known EXCEPT !.frontier = rest]
        BY <1>12, <1>15, <1>18, <3>1
      <3> QED  BY <1>16, <3>2
    <2>2. FrontierSound(spec, Legacy, Source, best, rest, capped, more)
      BY <1>2, <1>3, <1>5, <1>14, <1>15, FrontierShrinks
    <2>3. BestSound(spec, Legacy, Source, best, improved, shown, more)
      BY <1>2, <1>5, <1>14, <1>18, BestStays
    <2>4. /\ search'.best = best /\ search'.improved = improved /\ search'.shown = shown
          /\ search'.frontier = rest /\ search'.capped = capped
          /\ search'.evaluated = more
      BY <2>1
    <2>5. search' = [original |-> TRUE, best |-> search'.best, improved |-> search'.improved,
                     shown |-> search'.shown, frontier |-> search'.frontier,
                     capped |-> search'.capped, evaluated |-> search'.evaluated]
      BY <2>1, <2>4, Zenon
    <2>6. SearchSound(spec, Legacy, Source, search')
      BY <1>2, <1>17, <2>2, <2>3, <2>4, <2>5 DEF SearchSound
    <2> QED  BY <1>1, <1>8, <2>6, SearchStep
  <1>19. CASE accepted
    <2>1. next = [original |-> TRUE, best |-> x, improved |-> TRUE, shown |-> n,
                  frontier |-> frontier, capped |-> capped, evaluated |-> more]
      BY <1>11, <1>16
    <2>2. BestSound(spec, Legacy, Source, x, TRUE, n, more)
      <3>1. /\ CandidateOf(spec, Legacy, Source, e.schedule) /\ Simpler(e.schedule, best)
            /\ e.accepted /\ n >= 2
        BY <1>5, <1>7, <1>10, <1>19
      <3>2. BestSound(spec, Legacy, Source, e.schedule, TRUE, n, evaluated \cup {e})
        BY <1>2, <1>6, <3>1, BestImproves
      <3> QED  BY <1>5, <1>14, <3>2
    <2>3. /\ next.best = x /\ next.improved = TRUE /\ next.shown = n
          /\ next.frontier = frontier /\ next.capped = capped /\ next.evaluated = more
      BY <2>1
    <2>4. next = [original |-> TRUE, best |-> next.best, improved |-> next.improved,
                  shown |-> next.shown, frontier |-> next.frontier,
                  capped |-> next.capped, evaluated |-> next.evaluated]
      BY <2>1, <2>3, Zenon
    <2>5. /\ next.improved \in BOOLEAN
          /\ BestSound(spec, Legacy, Source, next.best, next.improved, next.shown,
                       next.evaluated)
          /\ EvaluatedSound(spec, Legacy, Source, next.evaluated)
      BY <1>17, <2>2, <2>3
    <2>6. SearchSound(spec, Legacy, Source, search')
      BY <1>6, <1>13, <1>19, <2>4, <2>5, FrontierFacts
    <2> QED  BY <1>1, <1>8, <2>6, SearchStep
  <1> QED  BY <1>18, <1>19

\* Each step keeps the invariant.
LEMMA ReductionInvStep == ReductionInv /\ [ReductionNext]_lineage => ReductionInv'
  <1> SUFFICES ASSUME ReductionInv, [ReductionNext]_lineage PROVE ReductionInv'
    OBVIOUS
  <1>1. CASE UNCHANGED lineage
    <2>1. UNCHANGED <<vars, source, artifacts>> /\ UNCHANGED run
      BY <1>1 DEF lineage
    <2>2. command' = command /\ trial' = trial /\ search' = search
      BY <2>1 DEF run
    <2>3. /\ PlanPart' /\ ArtifactPart'
          /\ spec' = spec /\ model' = model /\ Legacy' = Legacy /\ Source' = Source
          /\ recorded' = recorded /\ replay' = replay /\ shrink' = shrink
          /\ minimized' = minimized
      BY <2>1, ArtifactsStay
    <2>4. CommandPart' /\ TrialPart' /\ SearchPart'
      BY <2>2, <2>3 DEF ReductionInv, CommandPart, TrialPart, SearchPart, LoadsReplay
    <2> QED  BY <2>3, <2>4 DEF ReductionInv
  <1>2. CASE Compile
    BY <1>2, CompileStep
  <1>3. CASE StartReplay \/ StartShrink \/ StartMinimized
    BY <1>3, StartStep
  <1>4. CASE BeginAttempt \/ EndAttempt
    BY <1>4, AttemptStep
  <1>5. CASE Interrupted \/ BoundaryRefused \/ ExecutionFails \/ TraceDiverges \/ BaselineReused
    <2>1. Fail
      BY <1>5 DEF Interrupted, BoundaryRefused, ExecutionFails, TraceDiverges, BaselineReused
    <2> QED  BY <2>1, FailStep
  <1>6. CASE PublishReplay
    BY <1>6, PublishReplayStep
  <1>7. CASE SourceEvaluated
    BY <1>7, SourceEvaluatedStep
  <1>8. CASE CacheHit
    BY <1>8, CacheHitStep
  <1>9. CASE EvaluateCandidate
    BY <1>9, EvaluateStep
  <1>10. CASE CandidateEvaluated
    BY <1>10, CandidateEvaluatedStep
  <1>11. CASE StopSearch \/ FrontierExhausted \/ BudgetExpires
    BY <1>11, StopStep
  <1>12. CASE PublishMinimized
    BY <1>12, PublishMinimizedStep
  <1>13. CASE Finished
    BY <1>1, <1>13 DEF Finished
  <1> QED  BY <1>1, <1>2, <1>3, <1>4, <1>5, <1>6, <1>7, <1>8, <1>9, <1>10, <1>11, <1>12,
              <1>13 DEF ReductionNext

\* The parts of the invariant hold in every state of the three commands.
THEOREM ReductionInvariant == ReductionSpec => []ReductionInv
  BY ReductionInvInit, ReductionInvStep, PTL DEF ReductionSpec

-----------------------------------------------------------------------------
(* What the commands promise.                                                *)

\* A shrink that calls its search complete has executed every schedule it could
\* offer for the best one, and none of them reproduced the failure.
THEOREM CompleteSearchIsLocalMinimum == ReductionSpec => []CompleteIsLocalMinimum
  <1>1. ReductionInv => CompleteIsLocalMinimum
    BY DEF ReductionInv, ArtifactPart, ShrinkSound, CompleteIsLocalMinimum
  <1> QED  BY <1>1, ReductionInvariant, PTL

\* A minimized trace is strictly simpler than the source, made of its actions, and
\* showed the failure of the source twice; and each report asks for a command that
\* takes the artifacts there are.
THEOREM MinimizedTraceReproduces == ReductionSpec => []MinimizedReproduces
  <1>1. ASSUME ReductionInv PROVE MinimizedReproduces
    <2>1. replay # None /\ replay.result = "counterexample" => LoadsReplay(replay)
      BY <1>1 DEF ReductionInv, ArtifactPart, LoadsReplay
    <2>2. shrink # None /\ shrink.written =>
            /\ Simpler(shrink.minimized, Source) /\ Descends(shrink.minimized, Source)
            /\ shrink.shown >= 2 /\ LoadsShrink(shrink)
      <3> SUFFICES ASSUME shrink # None, shrink.written
                   PROVE  /\ Simpler(shrink.minimized, Source)
                          /\ Descends(shrink.minimized, Source)
                          /\ shrink.shown >= 2 /\ LoadsShrink(shrink)
        OBVIOUS
      <3>1. /\ Loadable(spec, Legacy, Source, shrink) /\ shrink.shown >= 2
            /\ CandidateOf(spec, Legacy, Source, shrink.minimized)
        BY <1>1 DEF ReductionInv, ArtifactPart, ShrinkSound
      <3>2. /\ Simpler(shrink.minimized, Source)
            /\ Descends(shrink.minimized, Source)
        BY <3>1, Zenon DEF CandidateOf, IsCandidate
      <3> QED  BY <3>1, <3>2, LoadsIsLoadable
    <2>3. replay # None => /\ replay.report.conclusion = replay.result
                           /\ \A name \in replay.report.run : Takes(name)
      <3> SUFFICES ASSUME replay # None
                   PROVE  /\ replay.report.conclusion = replay.result
                          /\ \A name \in replay.report.run : Takes(name)
        OBVIOUS
      <3>1. replay.report.conclusion = replay.result /\ replay.report.run = {"replay"}
        BY <1>1 DEF ReductionInv, ArtifactPart
      <3>2. LoadsCase
        BY <1>1 DEF ReductionInv, CommandPart, LoadsCase, RecordsCounterexample
      <3>3. Takes("replay")
        BY <3>2 DEF Takes
      <3> QED  BY <3>1, <3>3
    <2>4. shrink # None => /\ shrink.report.conclusion = shrink.result
                           /\ \A name \in shrink.report.run : Takes(name)
      <3> SUFFICES ASSUME shrink # None
                   PROVE  /\ shrink.report.conclusion = shrink.result
                          /\ \A name \in shrink.report.run : Takes(name)
        OBVIOUS
      <3>1. /\ shrink.report.conclusion = shrink.result
            /\ shrink.report.run \subseteq {"shrink", "minimized"}
            /\ "minimized" \in shrink.report.run => shrink.written
        BY <1>1 DEF ReductionInv, ArtifactPart, ShrinkSound
      <3>2. LoadsReplay(replay)
        BY <1>1 DEF ReductionInv, CommandPart
      <3>3. Takes("shrink")
        BY <3>2 DEF Takes
      <3>4. "minimized" \in shrink.report.run => Takes("minimized")
        BY <2>2, <3>1 DEF Takes
      <3> QED  BY <3>1, <3>3, <3>4
    <2>5. minimized # None => /\ minimized.report.conclusion = minimized.result
                              /\ \A name \in minimized.report.run : Takes(name)
      <3> SUFFICES ASSUME minimized # None
                   PROVE  /\ minimized.report.conclusion = minimized.result
                          /\ \A name \in minimized.report.run : Takes(name)
        OBVIOUS
      <3>1. /\ minimized.report.conclusion = minimized.result
            /\ minimized.report.run = {"minimized"}
        BY <1>1 DEF ReductionInv, ArtifactPart
      <3>2. LoadsShrink(shrink)
        BY <1>1, LoadsIsLoadable DEF ReductionInv, CommandPart
      <3>3. Takes("minimized")
        BY <3>2 DEF Takes
      <3> QED  BY <3>1, <3>3
    <2> QED  BY <2>1, <2>2, <2>3, <2>4, <2>5 DEF MinimizedReproduces
  <1> QED  BY <1>1, ReductionInvariant, PTL

\* Whatever is executed, the source, a candidate or the minimized trace, is a plan
\* that the compiler could have made from the same specification and that preflight
\* accepts.
THEOREM ExecutedIsAlwaysCompilable == ReductionSpec => []ExecutedIsCompilable
  <1>1. ASSUME ReductionInv, trial # None
        PROVE  LET s == trial.subject
                   After(i) == Normalize(spec, Legacy, SubSeq(s, 1, i)).model
               IN  /\ After(Len(s)).phase = "Complete"
                   /\ \A i \in DOMAIN s :
                         /\ s[i].act \in Eligible(spec, After(i - 1))
                         /\ Fits(spec, After(i), i - 1)
                         /\ i > 1 => Preflight(s[i - 1].act, s[i].act)
    <2> DEFINE x == trial.subject
    <2>1. /\ ValidPlanSpec(spec) /\ Legacy \in BOOLEAN
          /\ Plannable(spec, Legacy, Source) /\ Len(Source) <= spec.maxActions
      BY <1>1, SourceFacts DEF ReductionInv, CommandPart
    <2>2. x = Source \/ CandidateOf(spec, Legacy, Source, x)
      <3>1. CASE search # None
        <4> DEFINE frontier == search.frontier
                   S == {frontier[i] : i \in DOMAIN frontier}
        <4>1. frontier # <<>> /\ x = Head(frontier)
          BY <1>1, <3>1 DEF ReductionInv, TrialPart
        <4>2. /\ Sequence(frontier)
              /\ \A i \in 1 .. Len(frontier) :
                    Offered(spec, Legacy, search.best, Source, frontier[i])
          BY <1>1, <3>1 DEF ReductionInv, SearchPart, SearchSound, FrontierSound
        <4>3. frontier \in Seq(S) /\ Len(frontier) \in Nat
          BY <4>2, SequenceFacts DEF Sequence
        <4> HIDE DEF S, frontier, x
        <4>4. Len(frontier) >= 1 /\ Head(frontier) = frontier[1]
          BY <4>1, <4>3, HeadTailProperties, EmptySeq
        <4>5. 1 \in 1 .. Len(frontier)
          BY <4>3, <4>4
        <4> QED  BY <4>1, <4>2, <4>4, <4>5 DEF Offered
      <3>2. CASE search = None /\ command # "minimized"
        BY <1>1, <3>2 DEF ReductionInv, CommandPart, TrialPart
      <3>3. CASE search = None /\ command = "minimized"
        <4>1. x = shrink.minimized /\ shrink # None /\ shrink.written
          BY <1>1, <3>3 DEF ReductionInv, CommandPart, TrialPart, Loadable
        <4>2. CandidateOf(spec, Legacy, Source, shrink.minimized)
          BY <1>1, <4>1 DEF ReductionInv, ArtifactPart, ShrinkSound
        <4> QED  BY <4>1, <4>2
      <3> QED  BY <3>1, <3>2, <3>3
    <2> HIDE DEF x
    <2>3. Plannable(spec, Legacy, x) /\ Len(x) <= spec.maxActions
      <3>1. CASE x = Source
        BY <2>1, <3>1
      <3>2. CASE CandidateOf(spec, Legacy, Source, x)
        <4>1. Plannable(spec, Legacy, x) /\ Len(x) <= Len(Source)
          BY <2>1, <3>2, CandidatePlannable
        <4>2. Len(x) \in Nat /\ Len(Source) \in Nat /\ spec.maxActions \in Int
          BY <2>1, <4>1, SequenceFacts, BudgetType DEF Plannable, Executable
        <4> DEFINE max == spec.maxActions
                   l == Len(Source)
        <4>3. Len(x) <= l /\ l <= max /\ l \in Nat /\ max \in Int /\ Len(x) \in Nat
          BY <2>1, <4>1, <4>2
        <4> HIDE DEF max, l
        <4>4. Len(x) <= max
          BY <4>3
        <4> QED  BY <4>1, <4>4 DEF max
      <3> QED  BY <2>2, <3>1, <3>2
    <2>4. LET After(i) == Normalize(spec, Legacy, SubSeq(x, 1, i)).model IN
         /\ After(Len(x)).phase = "Complete"
         /\ \A i \in DOMAIN x :
              /\ x[i].act \in Eligible(spec, After(i - 1))
              /\ Fits(spec, After(i), i - 1)
              /\ i > 1 => Preflight(x[i - 1].act, x[i].act)
      BY <2>1, <2>3, PlannableIsCompilable
    <2> QED  BY <2>4 DEF x
  <1>2. ReductionInv => ExecutedIsCompilable
    BY <1>1 DEF ExecutedIsCompilable
  <1> QED  BY <1>2, ReductionInvariant, PTL

=============================================================================
