------------------------ MODULE PricingEngine_proofs ------------------------
(***************************************************************************)
(* Proofs about the pricing engine, for any instruments, any transforms    *)
(* and any order of observations.                                          *)
(***************************************************************************)
EXTENDS PricingEngine, Arithmetic_proofs, SequenceTheorems

-----------------------------------------------------------------------------
(***************************************************************************)
(* Values and what the transforms make of them                             *)
(***************************************************************************)
\* A value with the time it is of, or none.
Context == {None} \cup [known : {TRUE}, value : Fraction, time : {NoTime} \cup Nat]

LEMMA PositiveProduct ==
    ASSUME NEW a \in Nat \ {0}, NEW b \in Nat \ {0}
    PROVE  a * b \in Nat \ {0}
OBVIOUS

\* Denominators stay positive.
LEMMA FractionsStay ==
    ASSUME NEW v \in Fraction, NEW w \in Fraction
    PROVE  /\ Product(v, w) \in Fraction
           /\ Plus(v, w) \in Fraction
           /\ v[1] # 0 => Reciprocal(v) \in Fraction
<1>1. /\ v[1] \in Int /\ w[1] \in Int
      /\ v[2] \in Nat \ {0} /\ w[2] \in Nat \ {0}
  BY DEF Fraction
<1>2. /\ v[2] * w[2] \in Nat \ {0}
      /\ v[1] * w[1] \in Int /\ v[1] * w[2] \in Int /\ w[1] * v[2] \in Int
  BY <1>1, PositiveProduct
<1>3. Product(v, w) \in Fraction
  BY <1>2 DEF Product, Fraction
<1>4. Plus(v, w) \in Fraction
  <2>1. v[1] * w[2] + w[1] * v[2] \in Int
    BY <1>2
  <2>2. QED
    BY <1>2, <2>1 DEF Plus, Fraction
<1>5. v[1] # 0 => Reciprocal(v) \in Fraction
  BY <1>1 DEF Reciprocal, Fraction
<1>6. QED
  BY <1>3, <1>4, <1>5

\* Repeated multiplication.
LEMMA PowerIsFraction ==
    ASSUME NEW v \in Fraction, NEW n \in Nat
    PROVE  Power(v, n) \in Fraction
<1> DEFINE list == [k \in 1 .. n |-> v]
           one == <<1, 1>>
           G == [k \in 1 .. n |-> [x \in Fraction |-> Product(x, v)]]
           Eqn(it) == it = [s \in SUBSET DOMAIN list |->
                               IF s = {} THEN one
                               ELSE Product(it[s \ {Max(s)}], list[Max(s)])]
           it == CHOOSE f : Eqn(f)
<1>1. one \in Fraction /\ G \in [1 .. n -> [Fraction -> Fraction]]
  BY FractionsStay DEF Fraction
<1>2. \E f : Eqn(f)
  <2>1. PICK f \in [SUBSET (1 .. n) -> Fraction] : FoldsWith(f, n, one, G)
    <3> HIDE DEF G, one
    <3> QED
      BY <1>1, FoldExists
  <2>2. \A s \in SUBSET (1 .. n) : s # {} =>
            Max(s) \in 1 .. n /\ s \ {Max(s)} \in SUBSET (1 .. n)
    BY MaxOfPositions
  <2>3. \A s \in SUBSET (1 .. n) : s # {} =>
            G[Max(s)][f[s \ {Max(s)}]] = Product(f[s \ {Max(s)}], list[Max(s)])
    BY <2>1, <2>2
  <2> HIDE DEF G
  <2>4. Eqn(f)
    BY <2>1, <2>3 DEF FoldsWith
  <2> HIDE DEF Eqn
  <2>5. QED
    BY <2>4
<1>3. Eqn(it)
  <2> HIDE DEF Eqn
  <2>1. QED
    BY <1>2
<1>4. it[{}] = one
  BY <1>3
<1>5. ASSUME NEW k \in 1 .. n, it[1 .. (k - 1)] \in Fraction
      PROVE  it[1 .. k] = G[k][it[1 .. (k - 1)]]
  <2>1. /\ Max(1 .. k) = k /\ (1 .. k) \ {k} = 1 .. (k - 1)
        /\ 1 .. k # {} /\ 1 .. k \in SUBSET (1 .. n)
    BY LastPosition
  <2> HIDE DEF it
  <2>2. QED
    BY <1>3, <1>5, <2>1
<1>6. Power(v, n) = it[DOMAIN list]
  BY DEF Power, FoldLeft, MapThenFoldSet
<1>7. it[1 .. n] \in Fraction
  <2> HIDE DEF it, G, one
  <2>1. FoldsWithin(it, n, Fraction, one, G)
    BY <1>4, <1>5 DEF FoldsWithin
  <2>2. \E h \in [0 .. n -> Fraction] : h[n] = it[1 .. n]
    BY <1>1, <2>1, FoldSteps, SMTT(60)
  <2>3. QED
    BY <2>2
<1>8. QED
  BY <1>6, <1>7

\* A transform keeps the time of the value and the kind of number it is.
LEMMA MappedTypes ==
    ASSUME NEW tr \in Transform, NEW c \in Context, c.known
    PROVE  /\ Mapped(tr, c) \in Context
           /\ Mapped(tr, c).known => Mapped(tr, c).time = c.time
<1>1. c.value \in Fraction /\ c.time \in {NoTime} \cup Nat
  <2>1. c # None
    BY DEF None
  <2>2. c \in [known : {TRUE}, value : Fraction, time : {NoTime} \cup Nat]
    BY <2>1 DEF Context
  <2>3. QED
    BY <2>2
<1>2. \A x \in Fraction :
          /\ Sample(x, c.time) \in Context
          /\ Sample(x, c.time).time = c.time
  BY <1>1 DEF Context, Sample
<1>3. None \in Context /\ ~None.known
  BY DEF Context, None
<1>4. CASE tr.kind = "scale"
  <2>1. tr.factor \in Fraction /\ tr.offset \in Fraction
    BY <1>4 DEF Transform
  <2>2. Plus(Product(c.value, tr.factor), tr.offset) \in Fraction
    BY <1>1, <2>1, FractionsStay
  <2>3. QED
    BY <1>2, <1>4, <2>2 DEF Mapped
<1>5. CASE tr.kind = "invert" /\ Divisor(c.value[1])
  <2>1. Reciprocal(c.value) \in Fraction
    BY <1>1, <1>5, FractionsStay DEF Divisor
  <2>2. QED
    BY <1>2, <1>5, <2>1 DEF Mapped
<1>6. CASE tr.kind = "beta" /\ c.value[1] > 0
  <2>1. /\ tr.initial \in Fraction /\ tr.beta \in Nat
        /\ tr.anchor \in Fraction /\ tr.anchor[1] # 0
    BY <1>6 DEF Transform, Fraction
  <2>2. Product(c.value, Reciprocal(tr.anchor)) \in Fraction
    BY <1>1, <2>1, FractionsStay
  <2>3. Product(tr.initial, Power(Product(c.value, Reciprocal(tr.anchor)), tr.beta))
            \in Fraction
    BY <2>1, <2>2, PowerIsFraction, FractionsStay
  <2>4. QED
    BY <1>2, <1>6, <2>3 DEF Mapped
<1>7. CASE /\ tr.kind # "scale"
           /\ ~(tr.kind = "invert" /\ Divisor(c.value[1]))
           /\ ~(tr.kind = "beta" /\ c.value[1] > 0)
  BY <1>3, <1>7 DEF Mapped
<1>8. QED
  BY <1>4, <1>5, <1>6, <1>7

-----------------------------------------------------------------------------
(***************************************************************************)
(* The folds of the engine, step by step                                   *)
(***************************************************************************)
\* The newest observation of a feed, or none.
Observation ==
    {None} \cup [known : {TRUE}, value : Nat \X {1}, time : {NoTime} \cup Nat]

TimeOrNone == {NoTime} \cup Nat

LEMMA ObservationTypes ==
    ASSUME NEW o \in Observation
    PROVE  /\ o \in Context
           /\ o.known \in BOOLEAN /\ o.time \in TimeOrNone
           /\ o.value[1] \in Nat
<1>1. CASE o = None
  BY <1>1 DEF None, NoTime, Context, TimeOrNone
<1>2. CASE o \in [known : {TRUE}, value : Nat \X {1}, time : {NoTime} \cup Nat]
  <2>1. o.value[1] \in Nat /\ o.value \in Fraction
    BY <1>2 DEF Fraction
  <2>2. o \in Context
    BY <1>2, <2>1 DEF Context
  <2>3. QED
    BY <1>2, <2>1, <2>2 DEF TimeOrNone
<1>3. QED
  BY <1>1, <1>2 DEF Observation

\* older() without Max and Min.
LEMMA OlderIs ==
    ASSUME NEW a \in TimeOrNone, NEW b \in TimeOrNone
    PROVE  Older(a, b) = IF a = NoTime THEN b
                         ELSE IF b = NoTime THEN a
                         ELSE IF a <= b THEN a ELSE b
<1>1. \A x, y \in TimeOrNone : Max({x, y}) = IF x >= y THEN x ELSE y
  BY DEF Max, TimeOrNone, NoTime
<1>2. \A x, y \in TimeOrNone : Min({x, y}) = IF x <= y THEN x ELSE y
  BY DEF Min, TimeOrNone, NoTime
<1>3. QED
  BY <1>1, <1>2 DEF Older, TimeOrNone, NoTime

\* The age of a derived value is built up leg by leg.
LEMMA OldestTimeSteps ==
    ASSUME NEW i \in Instruments, NEW obs \in [Feeds -> Observation]
    PROVE  \E h \in [0 .. Len(Legs[i]) -> TimeOrNone] :
               /\ h[0] = NoTime
               /\ \A k \in 1 .. Len(Legs[i]) :
                      h[k] = Older(h[k - 1], obs[Legs[i][k]].time)
               /\ OldestTime(obs, i) = h[Len(Legs[i])]
<1> DEFINE list == Legs[i]
           n == Len(list)
           G == [k \in 1 .. n |-> [x \in TimeOrNone |-> Older(x, obs[list[k]].time)]]
           Eqn(it) == it = [s \in SUBSET DOMAIN list |->
                               IF s = {} THEN NoTime
                               ELSE Older(it[s \ {Max(s)}], obs[list[Max(s)]].time)]
           it == CHOOSE f : Eqn(f)
<1>0. /\ list \in Seq(Feeds) /\ n \in Nat /\ DOMAIN list = 1 .. n
      /\ \A k \in 1 .. n : list[k] \in Feeds
  BY PricingEngineAssumption
<1> HIDE DEF list, n
<1>1. NoTime \in TimeOrNone /\ G \in [1 .. n -> [TimeOrNone -> TimeOrNone]]
  <2>1. \A k \in 1 .. n : obs[list[k]].time \in TimeOrNone
    BY <1>0, ObservationTypes
  <2>2. \A k \in 1 .. n, x \in TimeOrNone :
            Older(x, obs[list[k]].time) \in TimeOrNone
    BY <2>1, OlderIs
  <2>3. QED
    BY <2>2 DEF TimeOrNone
<1>2. \E f : Eqn(f)
  <2>1. PICK f \in [SUBSET (1 .. n) -> TimeOrNone] : FoldsWith(f, n, NoTime, G)
    <3> HIDE DEF G
    <3> QED
      BY <1>0, <1>1, FoldExists
  <2>2. \A s \in SUBSET (1 .. n) : s # {} =>
            Max(s) \in 1 .. n /\ s \ {Max(s)} \in SUBSET (1 .. n)
    BY <1>0, MaxOfPositions
  <2>3. \A s \in SUBSET (1 .. n) : s # {} =>
            G[Max(s)][f[s \ {Max(s)}]]
              = Older(f[s \ {Max(s)}], obs[list[Max(s)]].time)
    BY <2>1, <2>2
  <2> HIDE DEF G
  <2>4. Eqn(f)
    BY <1>0, <2>1, <2>3 DEF FoldsWith
  <2> HIDE DEF Eqn
  <2>5. QED
    BY <2>4
<1>3. Eqn(it)
  <2> HIDE DEF Eqn
  <2>1. QED
    BY <1>2
<1>4. it[{}] = NoTime
  BY <1>3
<1>5. ASSUME NEW k \in 1 .. n, it[1 .. (k - 1)] \in TimeOrNone
      PROVE  it[1 .. k] = G[k][it[1 .. (k - 1)]]
  <2>1. /\ Max(1 .. k) = k /\ (1 .. k) \ {k} = 1 .. (k - 1)
        /\ 1 .. k # {} /\ 1 .. k \in SUBSET (1 .. n)
    <3>1. k \in Nat \ {0} /\ 1 .. k \subseteq 1 .. n
      BY <1>0
    <3>2. QED
      BY <3>1, LastPosition
  <2> HIDE DEF it
  <2>2. QED
    BY <1>0, <1>3, <1>5, <2>1
<1>6. OldestTime(obs, i) = it[DOMAIN list]
  BY DEF OldestTime, FoldLeft, MapThenFoldSet, list
<1>6a. FoldsWithin(it, n, TimeOrNone, NoTime, G)
  <2> HIDE DEF it, G
  <2> QED
    BY <1>4, <1>5 DEF FoldsWithin
<1>7. PICK h \in [0 .. n -> TimeOrNone] : FoldPath(h, n, NoTime, G) /\ h[n] = it[1 .. n]
  <2> HIDE DEF it, G
  <2>1. n \in Nat
    BY <1>0
  <2>2. QED
    BY <1>1, <1>6a, <2>1, FoldSteps, SMTT(60)
<1>8. h[0] = NoTime /\ \A k \in 1 .. n : h[k] = Older(h[k - 1], obs[list[k]].time)
  <2>1. \A k \in 1 .. n : k - 1 \in 0 .. n
    BY <1>0
  <2>2. \A k \in 1 .. n : h[k - 1] \in TimeOrNone
    BY <1>7, <2>1
  <2> HIDE DEF it
  <2>3. QED
    BY <1>7, <2>2 DEF FoldPath
<1>9. QED
  <2> HIDE DEF it, G
  <2> QED
    BY <1>0, <1>6, <1>7, <1>8 DEF list, n

LegSums == Nat
NoLegs == 0
AddLeg(obs, i, sum, k) == sum + Weights[i][k] * Price(obs, Legs[i][k])

\* The weighted sum of a basket, likewise.
LEMMA LegSumSteps ==
    ASSUME NEW i \in Instruments, Kind[i] = "basket",
           NEW obs \in [Feeds -> Observation]
    PROVE  \E h \in [0 .. Len(Legs[i]) -> Nat] :
               /\ h[0] = 0
               /\ \A k \in 1 .. Len(Legs[i]) :
                      h[k] = h[k - 1] + Weights[i][k] * Price(obs, Legs[i][k])
               /\ LegSum(obs, i) = h[Len(Legs[i])]
<1> DEFINE n == Len(Legs[i])
           list == [k \in DOMAIN Legs[i] |-> k]
           G == [k \in 1 .. n |-> [x \in LegSums |-> AddLeg(obs, i, x, k)]]
           Eqn(it) == it = [s \in SUBSET DOMAIN list |->
                               IF s = {} THEN NoLegs
                               ELSE AddLeg(obs, i, it[s \ {Max(s)}], list[Max(s)])]
           it == CHOOSE f : Eqn(f)
<1>0. /\ Legs[i] \in Seq(Feeds) /\ n \in Nat /\ DOMAIN Legs[i] = 1 .. n
      /\ \A k \in 1 .. n : Legs[i][k] \in Feeds
  BY PricingEngineAssumption
<1>1. NoLegs \in LegSums /\ G \in [1 .. n -> [LegSums -> LegSums]]
  <2>1. \A k \in 1 .. n : Weights[i][k] \in Nat /\ Price(obs, Legs[i][k]) \in Nat
    BY <1>0, PricingEngineAssumption, ObservationTypes DEF Price
  <2>2. \A k \in 1 .. n : Weights[i][k] * Price(obs, Legs[i][k]) \in Nat
    BY <2>1
  <2>3. \A k \in 1 .. n, x \in Nat : AddLeg(obs, i, x, k) \in Nat
    BY <2>2 DEF AddLeg
  <2>4. QED
    BY <2>3 DEF NoLegs, LegSums
<1>1a. DOMAIN list = 1 .. n /\ \A k \in 1 .. n : list[k] = k
  BY <1>0
<1> HIDE DEF n, list
<1>2. \E f : Eqn(f)
  <2>1. PICK f \in [SUBSET (1 .. n) -> LegSums] : FoldsWith(f, n, NoLegs, G)
    <3> HIDE DEF G
    <3> QED
      BY <1>0, <1>1, FoldExists
  <2>2. \A s \in SUBSET (1 .. n) : s # {} =>
            Max(s) \in 1 .. n /\ s \ {Max(s)} \in SUBSET (1 .. n)
    BY <1>0, MaxOfPositions
  <2>3. \A s \in SUBSET (1 .. n) : s # {} =>
            G[Max(s)][f[s \ {Max(s)}]] = AddLeg(obs, i, f[s \ {Max(s)}], list[Max(s)])
    BY <1>1a, <2>1, <2>2
  <2> HIDE DEF G
  <2>4. Eqn(f)
    BY <1>1a, <2>1, <2>3 DEF FoldsWith
  <2> HIDE DEF Eqn
  <2>5. QED
    BY <2>4
<1>3. Eqn(it)
  <2> HIDE DEF Eqn
  <2>1. QED
    BY <1>2
<1>4. it[{}] = NoLegs
  BY <1>3
<1>5. ASSUME NEW k \in 1 .. n, it[1 .. (k - 1)] \in LegSums
      PROVE  it[1 .. k] = G[k][it[1 .. (k - 1)]]
  <2>1. /\ Max(1 .. k) = k /\ (1 .. k) \ {k} = 1 .. (k - 1)
        /\ 1 .. k # {} /\ 1 .. k \in SUBSET (1 .. n) /\ list[k] = k
    <3>1. k \in Nat \ {0} /\ 1 .. k \subseteq 1 .. n
      BY <1>0
    <3>2. QED
      BY <1>1a, <3>1, LastPosition
  <2> HIDE DEF it
  <2>2. it[1 .. k] = AddLeg(obs, i, it[1 .. (k - 1)], k)
    <3>1. 1 .. k \in SUBSET DOMAIN list
      BY <1>1a, <2>1
    <3>2. it[1 .. k] = IF 1 .. k = {} THEN NoLegs
                       ELSE AddLeg(obs, i, it[(1 .. k) \ {Max(1 .. k)}],
                                   list[Max(1 .. k)])
      BY <1>3, <3>1
    <3>3. QED
      BY <2>1, <3>2
  <2>3. G[k][it[1 .. (k - 1)]] = AddLeg(obs, i, it[1 .. (k - 1)], k)
    BY <1>5
  <2>4. QED
    BY <2>2, <2>3
<1>6. LegSum(obs, i) = it[DOMAIN list]
  BY DEF LegSum, FoldLeft, MapThenFoldSet, AddLeg, NoLegs, list
<1>6a. FoldsWithin(it, n, LegSums, NoLegs, G)
  <2> HIDE DEF it, G
  <2> QED
    BY <1>4, <1>5 DEF FoldsWithin
<1>7. PICK h \in [0 .. n -> LegSums] : FoldPath(h, n, NoLegs, G) /\ h[n] = it[1 .. n]
  <2> HIDE DEF it, G
  <2>1. n \in Nat
    BY <1>0
  <2> QED
    BY <2>1, <1>1, <1>6a, FoldSteps, SMTT(60)
<1>8. h[0] = 0 /\ \A k \in 1 .. n : h[k] = AddLeg(obs, i, h[k - 1], k)
  <2>1. \A k \in 1 .. n : k - 1 \in 0 .. n
    BY <1>0
  <2>2. \A k \in 1 .. n : h[k - 1] \in LegSums
    BY <1>7, <2>1
  <2> HIDE DEF it
  <2>3. QED
    BY <1>7, <2>2 DEF FoldPath, NoLegs
<1>9. QED
  <2> HIDE DEF it, G
  <2> QED
    BY <1>0, <1>1a, <1>6, <1>7, <1>8 DEF n, AddLeg, NoLegs, LegSums

\* One turn of the loop where no transform is a lag.
Pass(c, transform) == IF c.known THEN Mapped(transform, c) ELSE None

LEMMA PassTypes ==
    ASSUME NEW tr \in Transform, NEW c \in Context
    PROVE  Pass(c, tr) \in Context
<1>1. None \in Context
  BY DEF Context
<1>2. CASE c.known
  BY <1>2, MappedTypes DEF Pass
<1>3. CASE ~c.known
  BY <1>1, <1>3 DEF Pass
<1>4. QED
  BY <1>2, <1>3

\* What goes through the transforms, one after the other.
LEMMA ThroughSteps ==
    ASSUME NEW list \in Seq(Transform), NEW c \in Context
    PROVE  \E h \in [0 .. Len(list) -> Context] :
               /\ h[0] = c
               /\ \A k \in 1 .. Len(list) : h[k] = Pass(h[k - 1], list[k])
               /\ Through(list, c) = h[Len(list)]
<1> DEFINE n == Len(list)
           G == [k \in 1 .. n |-> [x \in Context |-> Pass(x, list[k])]]
           Eqn(it) == it = [s \in SUBSET DOMAIN list |->
                               IF s = {} THEN c
                               ELSE Pass(it[s \ {Max(s)}], list[Max(s)])]
           it == CHOOSE f : Eqn(f)
<1>0. /\ n \in Nat /\ DOMAIN list = 1 .. n
      /\ \A k \in 1 .. n : list[k] \in Transform
  OBVIOUS
<1> HIDE DEF n
<1>1. G \in [1 .. n -> [Context -> Context]]
  BY <1>0, PassTypes
<1>2. \E f : Eqn(f)
  <2>1. PICK f \in [SUBSET (1 .. n) -> Context] : FoldsWith(f, n, c, G)
    <3> HIDE DEF G
    <3> QED
      BY <1>0, <1>1, FoldExists
  <2>2. \A s \in SUBSET (1 .. n) : s # {} =>
            Max(s) \in 1 .. n /\ s \ {Max(s)} \in SUBSET (1 .. n)
    BY <1>0, MaxOfPositions
  <2>3. \A s \in SUBSET (1 .. n) : s # {} =>
            G[Max(s)][f[s \ {Max(s)}]] = Pass(f[s \ {Max(s)}], list[Max(s)])
    BY <2>1, <2>2
  <2> HIDE DEF G
  <2>4. Eqn(f)
    BY <1>0, <2>1, <2>3 DEF FoldsWith
  <2> HIDE DEF Eqn
  <2>5. QED
    BY <2>4
<1>3. Eqn(it)
  <2> HIDE DEF Eqn
  <2>1. QED
    BY <1>2
<1>4. it[{}] = c
  BY <1>3
<1>5. ASSUME NEW k \in 1 .. n, it[1 .. (k - 1)] \in Context
      PROVE  it[1 .. k] = G[k][it[1 .. (k - 1)]]
  <2>1. /\ Max(1 .. k) = k /\ (1 .. k) \ {k} = 1 .. (k - 1)
        /\ 1 .. k # {} /\ 1 .. k \in SUBSET (1 .. n)
    <3>1. k \in Nat \ {0} /\ 1 .. k \subseteq 1 .. n
      BY <1>0
    <3>2. QED
      BY <3>1, LastPosition
  <2> HIDE DEF it
  <2>2. it[1 .. k] = Pass(it[1 .. (k - 1)], list[k])
    BY <1>0, <1>3, <2>1
  <2>3. QED
    BY <1>5, <2>2
<1>6. Through(list, c) = it[DOMAIN list]
  BY DEF Through, FoldLeft, MapThenFoldSet, Pass
<1>7. FoldsWithin(it, n, Context, c, G)
  <2> HIDE DEF it, G
  <2> QED
    BY <1>4, <1>5 DEF FoldsWithin
<1>8. PICK h \in [0 .. n -> Context] : FoldPath(h, n, c, G) /\ h[n] = it[1 .. n]
  <2> HIDE DEF it, G
  <2> QED
    BY <1>0, <1>1, <1>7, FoldSteps, SMTT(60)
<1>9. h[0] = c /\ \A k \in 1 .. n : h[k] = Pass(h[k - 1], list[k])
  <2>1. \A k \in 1 .. n : k - 1 \in 0 .. n
    BY <1>0
  <2>2. \A k \in 1 .. n : h[k - 1] \in Context
    BY <1>8, <2>1
  <2> HIDE DEF it
  <2>3. QED
    BY <1>8, <2>2 DEF FoldPath
<1>10. QED
  <2> HIDE DEF it, G
  <2> QED
    BY <1>0, <1>6, <1>8, <1>9 DEF n

-----------------------------------------------------------------------------
(***************************************************************************)
(* The loop with the lags' buffers                                         *)
(***************************************************************************)
\* A sample in a buffer, and where the loop of i is after some turns.
Held == [at : 0 .. now, ctx : Context \ {None}]
LoopStates(i) ==
    [ctx : Context, bufs : [1 .. Len(Transforms[i]) -> Seq(Held)]]

\* The aged samples are those at the front of the buffer up to the first that
\* is too young.
LEMMA AgedIsFront ==
    ASSUME NEW q \in Seq(Held), NEW cutoff \in Int, now \in Nat
    PROVE  /\ Aged(q, cutoff) \in 0 .. Len(q)
           /\ \A n \in 1 .. Aged(q, cutoff) : q[n].at <= cutoff
           /\ Aged(q, cutoff) < Len(q) => q[Aged(q, cutoff) + 1].at > cutoff
<1> DEFINE S == {n \in 1 .. Len(q) : \A k \in 1 .. n : q[k].at <= cutoff}
<1>1. Len(q) \in Nat /\ \A n \in 1 .. Len(q) : q[n].at \in Int
  <2>1. \A n \in 1 .. Len(q) : q[n] \in Held
    OBVIOUS
  <2>2. \A x \in Held : x.at \in Int
    BY DEF Held
  <2>3. QED
    BY <2>1, <2>2
<1>2. PICK m \in 0 .. Len(q) : S = 1 .. m
  <2>1. CASE S = {}
    <3>1. S = 1 .. 0
      BY <2>1
    <3>2. QED
      BY <1>1, <3>1
  <2>2. CASE S # {}
    <3>1. Max(S) \in S /\ \A j \in S : j <= Max(S)
      BY <1>1, <2>2, MaxOfPositions
    <3>2. \A n \in 1 .. Max(S) : n \in S
      BY <1>1, <3>1
    <3>3. S = 1 .. Max(S) /\ Max(S) \in 0 .. Len(q)
      <4>1. Max(S) \in 1 .. Len(q)
        BY <3>1
      <4>2. \A n \in S : n \in 1 .. Max(S)
        BY <3>1, <4>1
      <4> HIDE DEF S
      <4>3. S = 1 .. Max(S)
        BY <3>2, <4>2
      <4>4. QED
        BY <1>1, <4>1, <4>3
    <3>4. QED
      BY <3>3
  <2>3. QED
    BY <2>1, <2>2
<1>3. Cardinality(S) = m
  <2>1. Cardinality(1 .. m) = m
    BY <1>1, <1>2, FS_Interval
  <2> HIDE DEF S
  <2>2. QED
    BY <1>2, <2>1
<1>4. Aged(q, cutoff) = m
  <2> HIDE DEF S
  <2>1. Aged(q, cutoff) = Cardinality(S)
    BY DEF Aged, S
  <2>2. QED
    BY <1>3, <2>1
<1>5. \A n \in 1 .. m : q[n].at <= cutoff
  BY <1>1, <1>2
<1>6. m < Len(q) => q[m + 1].at > cutoff
  <2>1. SUFFICES ASSUME m < Len(q), q[m + 1].at <= cutoff PROVE FALSE
    BY <1>1
  <2>2. m + 1 \in 1 .. Len(q) /\ \A k \in 1 .. (m + 1) : k \in 1 .. m \/ k = m + 1
    BY <1>1, <2>1
  <2>3. m + 1 \in S
    BY <1>5, <2>1, <2>2
  <2> HIDE DEF S
  <2>4. QED
    BY <1>2, <2>3
<1>7. QED
  BY <1>1, <1>2, <1>4, <1>5, <1>6

\* A value that is there.
LEMMA KnownContext ==
    ASSUME NEW c \in Context
    PROVE  /\ c.known <=> c # None
           /\ c.known \in BOOLEAN
<1>1. CASE c = None
  BY <1>1 DEF None
<1>2. CASE c # None
  <2>1. c \in [known : {TRUE}, value : Fraction, time : {NoTime} \cup Nat]
    BY <1>2 DEF Context
  <2>2. c.known = TRUE
    BY <2>1
  <2>3. QED
    BY <1>2, <2>2
<1>3. QED
  BY <1>1, <1>2

\* The samples the k-th transform, a lag, has with the present one, and how
\* many of them it lets go.
Queue(step, k) == Append(step.bufs[k], [at |-> now, ctx |-> step.ctx])
Ripe(i, step, k) == Aged(Queue(step, k), now - Transforms[i][k].ticks)

\* What a lag does with a value: it keeps it with the others, lets the aged
\* ones go, and the newest of these goes on.
LEMMA LagTurn ==
    ASSUME NEW i \in Instruments, NEW step \in LoopStates(i),
           NEW k \in 1 .. Len(Transforms[i]), now \in Nat,
           step.ctx.known, Transforms[i][k].kind = "lag"
    PROVE  /\ Queue(step, k) \in Seq(Held)
           /\ Len(Queue(step, k)) = Len(step.bufs[k]) + 1
           /\ Ripe(i, step, k) \in 0 .. Len(Queue(step, k))
           /\ Turn(i, step, k) \in LoopStates(i)
           /\ Turn(i, step, k).ctx = IF Ripe(i, step, k) = 0 THEN None
                                     ELSE Queue(step, k)[Ripe(i, step, k)].ctx
           /\ Turn(i, step, k).bufs[k] =
                 SubSeq(Queue(step, k), Ripe(i, step, k) + 1, Len(Queue(step, k)))
           /\ \A j \in 1 .. Len(Transforms[i]) :
                 j # k => Turn(i, step, k).bufs[j] = step.bufs[j]
<1> DEFINE held == [at |-> now, ctx |-> step.ctx]
           queue == Append(step.bufs[k], held)
           ticks0 == Transforms[i][k].ticks
           aged == Aged(queue, now - ticks0)
           rest == SubSeq(queue, aged + 1, Len(queue))
<1>1. /\ step.ctx \in Context /\ step.bufs[k] \in Seq(Held)
      /\ step.bufs \in [1 .. Len(Transforms[i]) -> Seq(Held)]
  BY DEF LoopStates
<1>2. held \in Held
  <2>1. step.ctx # None
    BY <1>1, KnownContext
  <2>2. QED
    BY <1>1, <2>1 DEF Held
<1>3. ticks0 \in Nat
  <2>1. Transforms[i][k] \in Transform
    BY PricingEngineAssumption
  <2>2. QED
    BY <2>1 DEF Transform
<1> HIDE DEF held, ticks0
<1>4. queue \in Seq(Held) /\ Len(queue) = Len(step.bufs[k]) + 1
  BY <1>1, <1>2, AppendProperties
<1>5. now - ticks0 \in Int
  BY <1>3
<1> HIDE DEF queue
<1>6. aged \in 0 .. Len(queue)
  BY <1>4, <1>5, AgedIsFront
<1> HIDE DEF aged
<1>7. Len(queue) \in Nat /\ \A n \in 1 .. Len(queue) : queue[n] \in Held
  BY <1>4
<1>8. rest \in Seq(Held)
  <2>1. \A n \in (aged + 1) .. Len(queue) : queue[n] \in Held
    BY <1>6, <1>7
  <2>2. aged + 1 \in Int /\ Len(queue) \in Int
    BY <1>6, <1>7
  <2>3. QED
    BY <2>1, <2>2, SubSeqProperties
<1> HIDE DEF rest
<1>9. Turn(i, step, k) =
        [ctx |-> IF aged = 0 THEN None ELSE queue[aged].ctx,
         bufs |-> [step.bufs EXCEPT ![k] = rest]]
  BY DEF Turn, aged, queue, rest, held, ticks0
<1>10. (IF aged = 0 THEN None ELSE queue[aged].ctx) \in Context
  <2>1. CASE aged = 0
    BY <2>1 DEF Context
  <2>2. CASE aged # 0
    <3>1. aged \in 1 .. Len(queue)
      BY <1>6, <1>7, <2>2
    <3>2. queue[aged].ctx \in Context
      BY <1>7, <3>1 DEF Held
    <3>3. QED
      BY <2>2, <3>2
  <2>3. QED
    BY <2>1, <2>2
<1>11. [step.bufs EXCEPT ![k] = rest] \in [1 .. Len(Transforms[i]) -> Seq(Held)]
  BY <1>1, <1>8
<1>12. Turn(i, step, k) \in LoopStates(i)
  BY <1>9, <1>10, <1>11 DEF LoopStates
<1>13. /\ Turn(i, step, k).ctx = IF aged = 0 THEN None ELSE queue[aged].ctx
       /\ Turn(i, step, k).bufs[k] = rest
       /\ \A j \in 1 .. Len(Transforms[i]) :
             j # k => Turn(i, step, k).bufs[j] = step.bufs[j]
  BY <1>1, <1>9
<1>14. QED
  BY <1>4, <1>6, <1>12, <1>13 DEF Queue, Ripe, aged, queue, rest, held, ticks0

\* Any turn stays within the types; but for a lag, it is what Pass does.
LEMMA TurnTypes ==
    ASSUME NEW i \in Instruments, NEW step \in LoopStates(i),
           NEW k \in 1 .. Len(Transforms[i]), now \in Nat
    PROVE  /\ Turn(i, step, k) \in LoopStates(i)
           /\ Transforms[i][k].kind # "lag" =>
                 /\ Turn(i, step, k).bufs = step.bufs
                 /\ Turn(i, step, k).ctx = Pass(step.ctx, Transforms[i][k])
           /\ ~step.ctx.known => Turn(i, step, k) = step
<1>1. step.ctx \in Context /\ Transforms[i][k] \in Transform
  BY PricingEngineAssumption DEF LoopStates
<1>2. CASE ~step.ctx.known
  <2>1. Turn(i, step, k) = step
    BY <1>2 DEF Turn
  <2>2. step.ctx = None
    BY <1>1, <1>2, KnownContext
  <2>3. QED
    BY <1>2, <2>1, <2>2 DEF Pass
<1>3. CASE step.ctx.known /\ Transforms[i][k].kind # "lag"
  <2>1. Turn(i, step, k) = [step EXCEPT !.ctx = Mapped(Transforms[i][k], @)]
    BY <1>3 DEF Turn
  <2>2. Mapped(Transforms[i][k], step.ctx) \in Context
    BY <1>1, <1>3, MappedTypes
  <2>3. QED
    BY <1>3, <2>1, <2>2 DEF LoopStates, Pass
<1>4. CASE step.ctx.known /\ Transforms[i][k].kind = "lag"
  BY <1>4, LagTurn
<1>5. QED
  BY <1>2, <1>3, <1>4

\* The loop, turn by turn.
LEMMA TransformedSteps ==
    ASSUME NEW i \in Instruments, NEW c \in Context, now \in Nat,
           buf[i] \in [1 .. Len(Transforms[i]) -> Seq(Held)]
    PROVE  \E h \in [0 .. Len(Transforms[i]) -> LoopStates(i)] :
               /\ h[0] = [ctx |-> c, bufs |-> buf[i]]
               /\ \A k \in 1 .. Len(Transforms[i]) : h[k] = Turn(i, h[k - 1], k)
               /\ Transformed(i, c) = h[Len(Transforms[i])]
<1> DEFINE n == Len(Transforms[i])
           list == [k \in 1 .. n |-> k]
           start == [ctx |-> c, bufs |-> buf[i]]
           G == [k \in 1 .. n |-> [x \in LoopStates(i) |-> Turn(i, x, k)]]
           Eqn(it) == it = [s \in SUBSET DOMAIN list |->
                               IF s = {} THEN start
                               ELSE Turn(i, it[s \ {Max(s)}], list[Max(s)])]
           it == CHOOSE f : Eqn(f)
<1>0. n \in Nat
  BY PricingEngineAssumption
<1>1. G \in [1 .. n -> [LoopStates(i) -> LoopStates(i)]]
  BY TurnTypes
<1>1a. start \in LoopStates(i)
  BY DEF LoopStates
<1> HIDE DEF n
<1>1b. DOMAIN list = 1 .. n /\ \A k \in 1 .. n : list[k] = k
  OBVIOUS
<1>2. \E f : Eqn(f)
  <2>1. PICK f \in [SUBSET (1 .. n) -> LoopStates(i)] : FoldsWith(f, n, start, G)
    <3> HIDE DEF G, start
    <3> QED
      BY <1>0, <1>1, <1>1a, FoldExists
  <2>2. \A s \in SUBSET (1 .. n) : s # {} =>
            Max(s) \in 1 .. n /\ s \ {Max(s)} \in SUBSET (1 .. n)
    BY <1>0, MaxOfPositions
  <2> HIDE DEF start
  <2>3. \A s \in SUBSET (1 .. n) : s # {} =>
            G[Max(s)][f[s \ {Max(s)}]] = Turn(i, f[s \ {Max(s)}], list[Max(s)])
    BY <1>1b, <2>1, <2>2
  <2> HIDE DEF G, list
  <2>4. Eqn(f)
    BY <1>1b, <2>1, <2>3 DEF FoldsWith
  <2> HIDE DEF Eqn
  <2>5. QED
    BY <2>4
<1>3. Eqn(it)
  <2> HIDE DEF Eqn
  <2>1. QED
    BY <1>2
<1>4. it[{}] = start
  BY <1>3
<1>5. ASSUME NEW k \in 1 .. n, it[1 .. (k - 1)] \in LoopStates(i)
      PROVE  it[1 .. k] = G[k][it[1 .. (k - 1)]]
  <2>1. /\ Max(1 .. k) = k /\ (1 .. k) \ {k} = 1 .. (k - 1)
        /\ 1 .. k # {} /\ 1 .. k \in SUBSET (1 .. n)
    <3>1. k \in Nat \ {0} /\ 1 .. k \subseteq 1 .. n
      BY <1>0
    <3>2. QED
      BY <3>1, LastPosition
  <2> HIDE DEF it, start, list
  <2>2. it[1 .. k] = Turn(i, it[1 .. (k - 1)], k)
    <3>1. 1 .. k \in SUBSET DOMAIN list
      BY <1>1b, <2>1
    <3>2. it[1 .. k] = IF 1 .. k = {} THEN start
                       ELSE Turn(i, it[(1 .. k) \ {Max(1 .. k)}],
                                 list[Max(1 .. k)])
      BY <1>3, <3>1
    <3>3. QED
      BY <1>1b, <2>1, <3>2
  <2>3. QED
    BY <1>5, <2>2
<1>6. Transformed(i, c) = it[DOMAIN list]
  BY DEF Transformed, FoldLeft, MapThenFoldSet, n
<1>7. FoldsWithin(it, n, LoopStates(i), start, G)
  <2> HIDE DEF it, G, start
  <2> QED
    BY <1>4, <1>5 DEF FoldsWithin
<1>8. PICK h \in [0 .. n -> LoopStates(i)] :
          FoldPath(h, n, start, G) /\ h[n] = it[1 .. n]
  <2> HIDE DEF it, G, start
  <2> QED
    BY <1>0, <1>1, <1>1a, <1>7, FoldSteps, SMTT(60)
<1>9. h[0] = start /\ \A k \in 1 .. n : h[k] = Turn(i, h[k - 1], k)
  <2>1. \A k \in 1 .. n : k - 1 \in 0 .. n
    BY <1>0
  <2>2. \A k \in 1 .. n : h[k - 1] \in LoopStates(i)
    BY <1>8, <2>1
  <2> HIDE DEF it, start
  <2>3. QED
    BY <1>8, <2>2 DEF FoldPath
<1>10. QED
  <2> HIDE DEF it, G
  <2> QED
    BY <1>0, <1>1b, <1>6, <1>8, <1>9 DEF n

\* What comes out of the transforms is a value that went in, and of its time.
LEMMA ThroughTypes ==
    ASSUME NEW list \in Seq(Transform), NEW c \in Context
    PROVE  /\ Through(list, c) \in Context
           /\ Through(list, c).known => c.known /\ Through(list, c).time = c.time
<1> DEFINE n == Len(list)
<1>0. n \in Nat /\ \A k \in 1 .. n : list[k] \in Transform /\ k - 1 \in 0 .. n
  OBVIOUS
<1>1. PICK h \in [0 .. n -> Context] :
          /\ h[0] = c
          /\ \A k \in 1 .. n : h[k] = Pass(h[k - 1], list[k])
          /\ Through(list, c) = h[n]
  BY ThroughSteps
<1> HIDE DEF n
<1> DEFINE T == {k \in 0 .. n : h[k].known => c.known /\ h[k].time = c.time}
<1>2. 0 \in T
  BY <1>0, <1>1
<1>3. ASSUME NEW k \in 1 .. n, k - 1 \in T PROVE k \in T
  <2>1. h[k - 1] \in Context /\ list[k] \in Transform /\ k \in 0 .. n
    BY <1>0, <1>1
  <2>2. CASE h[k - 1].known
    <3>1. h[k] = Mapped(list[k], h[k - 1])
      BY <1>1, <2>2 DEF Pass
    <3>2. h[k].known => h[k].time = h[k - 1].time
      BY <2>1, <2>2, <3>1, MappedTypes
    <3>3. QED
      BY <1>3, <2>1, <2>2, <3>2
  <2>3. CASE ~h[k - 1].known
    <3>1. h[k] = None
      BY <1>1, <2>3 DEF Pass
    <3>2. QED
      BY <2>1, <3>1 DEF None
  <2>4. QED
    BY <2>2, <2>3
<1> HIDE DEF T
<1>4. \A k \in 0 .. n : k \in T
  BY <1>0, <1>2, <1>3, AlongPositions
<1>5. n \in T /\ h[n] \in Context
  BY <1>0, <1>1, <1>4
<1>6. QED
  BY <1>1, <1>5 DEF T

LEMMA TransformedTypes ==
    ASSUME NEW i \in Instruments, NEW c \in Context, now \in Nat,
           buf[i] \in [1 .. Len(Transforms[i]) -> Seq(Held)]
    PROVE  Transformed(i, c) \in LoopStates(i)
<1>1. Len(Transforms[i]) \in 0 .. Len(Transforms[i])
  BY PricingEngineAssumption
<1>2. PICK h \in [0 .. Len(Transforms[i]) -> LoopStates(i)] :
          Transformed(i, c) = h[Len(Transforms[i])]
  BY TransformedSteps
<1>3. QED
  BY <1>1, <1>2

\* Without a lag the loop with the buffers is the loop without.
LEMMA ImmediateIsThrough ==
    ASSUME NEW i \in Immediate, NEW c \in Context, now \in Nat,
           buf[i] \in [1 .. Len(Transforms[i]) -> Seq(Held)]
    PROVE  Transformed(i, c) = [ctx |-> Through(Transforms[i], c), bufs |-> buf[i]]
<1> DEFINE list == Transforms[i]
           n == Len(list)
<1>0. /\ i \in Instruments /\ list \in Seq(Transform) /\ n \in Nat
      /\ DOMAIN list = 1 .. n
      /\ \A k \in 1 .. n : list[k].kind # "lag" /\ k - 1 \in 0 .. n /\ k \in 0 .. n
  BY PricingEngineAssumption DEF Immediate, ToSet
<1>1. PICK g \in [0 .. n -> Context] :
          /\ g[0] = c
          /\ \A k \in 1 .. n : g[k] = Pass(g[k - 1], list[k])
          /\ Through(list, c) = g[n]
  BY <1>0, ThroughSteps
<1>2. PICK h \in [0 .. n -> LoopStates(i)] :
          /\ h[0] = [ctx |-> c, bufs |-> buf[i]]
          /\ \A k \in 1 .. n : h[k] = Turn(i, h[k - 1], k)
          /\ Transformed(i, c) = h[n]
  BY <1>0, TransformedSteps
<1> DEFINE T == {k \in 0 .. n : h[k].ctx = g[k] /\ h[k].bufs = buf[i]}
<1>3. 0 \in T
  BY <1>0, <1>1, <1>2
<1>4. ASSUME NEW k \in 1 .. n, k - 1 \in T PROVE k \in T
  <2>1. h[k - 1] \in LoopStates(i) /\ k \in 1 .. Len(Transforms[i])
    BY <1>0, <1>2
  <2>2. /\ h[k].bufs = h[k - 1].bufs
        /\ h[k].ctx = Pass(h[k - 1].ctx, list[k])
    BY <1>0, <1>2, <2>1, TurnTypes
  <2>3. QED
    BY <1>0, <1>1, <1>4, <2>2
<1> HIDE DEF T, n
<1>5. \A k \in 0 .. n : k \in T
  BY <1>0, <1>3, <1>4, AlongPositions
<1>6. n \in T /\ h[n] \in LoopStates(i)
  BY <1>0, <1>2, <1>5
<1>7. h[n] = [ctx |-> h[n].ctx, bufs |-> h[n].bufs]
  BY <1>6 DEF LoopStates
<1>8. QED
  BY <1>1, <1>2, <1>6, <1>7 DEF T

-----------------------------------------------------------------------------
(***************************************************************************)
(* The first lag of an instrument                                          *)
(***************************************************************************)
FirstLag(i, k) ==
    /\ k \in 1 .. Len(Transforms[i]) /\ Transforms[i][k].kind = "lag"
    /\ \A j \in 1 .. (k - 1) : Transforms[i][j].kind # "lag"

\* h is where the loop of i is after each turn.
IsLoop(h, i, c) ==
    /\ h \in [0 .. Len(Transforms[i]) -> LoopStates(i)]
    /\ h[0] = [ctx |-> c, bufs |-> buf[i]]
    /\ \A k \in 1 .. Len(Transforms[i]) : h[k] = Turn(i, h[k - 1], k)
    /\ Transformed(i, c) = h[Len(Transforms[i])]

\* Before the first lag the loop passes the value on and keeps the buffers.
LEMMA LoopBefore ==
    ASSUME NEW i \in Instruments, NEW c \in Context, now \in Nat,
           NEW h, IsLoop(h, i, c), NEW k, FirstLag(i, k)
    PROVE  h[k - 1].ctx = Through(Before(i, k), c) /\ h[k - 1].bufs = buf[i]
<1> DEFINE n == Len(Transforms[i])
           list == Before(i, k)
<1>0. /\ n \in Nat /\ k \in 1 .. n /\ k - 1 \in Nat
      /\ \A j \in 1 .. n : Transforms[i][j] \in Transform
      /\ \A j \in 1 .. (k - 1) : /\ j \in 1 .. n /\ j - 1 \in 0 .. (k - 1)
                                 /\ j - 1 \in 0 .. n /\ j \in 0 .. (k - 1)
                                 /\ Transforms[i][j].kind # "lag"
  BY PricingEngineAssumption DEF FirstLag
<1>1. /\ list \in Seq(Transform) /\ Len(list) = k - 1
      /\ \A j \in 1 .. (k - 1) : list[j] = Transforms[i][j]
  <2>1. \A j \in 1 .. (k - 1) : Transforms[i][j] \in Transform
    BY <1>0
  <2>2. 1 \in Int /\ k - 1 \in Int
    BY <1>0
  <2>3. /\ SubSeq(Transforms[i], 1, k - 1) \in Seq(Transform)
        /\ Len(SubSeq(Transforms[i], 1, k - 1)) = k - 1
        /\ \A j \in 1 .. (k - 1) :
              SubSeq(Transforms[i], 1, k - 1)[j] = Transforms[i][1 + j - 1]
    BY <1>0, <2>1, <2>2, SubSeqProperties
  <2>4. QED
    BY <2>3 DEF Before
<1> HIDE DEF list
<1>2. PICK g \in [0 .. (k - 1) -> Context] :
          /\ g[0] = c
          /\ \A j \in 1 .. (k - 1) : g[j] = Pass(g[j - 1], list[j])
          /\ Through(list, c) = g[k - 1]
  <2>1. PICK g \in [0 .. Len(list) -> Context] :
            /\ g[0] = c
            /\ \A j \in 1 .. Len(list) : g[j] = Pass(g[j - 1], list[j])
            /\ Through(list, c) = g[Len(list)]
    BY <1>1, ThroughSteps
  <2>2. QED
    BY <1>1, <2>1
<1> DEFINE T == {j \in 0 .. (k - 1) : h[j].ctx = g[j] /\ h[j].bufs = buf[i]}
<1>3. 0 \in T
  BY <1>0, <1>2 DEF IsLoop
<1>4. ASSUME NEW j \in 1 .. (k - 1), j - 1 \in T PROVE j \in T
  <2>1. PICK step \in LoopStates(i) : step = h[j - 1]
    BY <1>0 DEF IsLoop
  <2>2. /\ j \in 1 .. Len(Transforms[i]) /\ Transforms[i][j].kind # "lag"
        /\ h[j] = Turn(i, step, j)
    BY <1>0, <2>1 DEF IsLoop
  <2>3. h[j].bufs = step.bufs /\ h[j].ctx = Pass(step.ctx, Transforms[i][j])
    BY <2>2, TurnTypes
  <2>4. QED
    BY <1>0, <1>1, <1>2, <1>4, <2>1, <2>3
<1> HIDE DEF T
<1>5. \A j \in 0 .. (k - 1) : j \in T
  BY <1>0, <1>3, <1>4, AlongPositions
<1>6. k - 1 \in T
  BY <1>0, <1>5
<1>7. QED
  BY <1>2, <1>6 DEF T, list

\* Behind any transform k the loop keeps the buffer of k, lets no value come
\* back once there is none, and passes a value on unless another lag takes it.
LEMMA LoopBehind ==
    ASSUME NEW i \in Instruments, NEW c \in Context, now \in Nat,
           NEW h, IsLoop(h, i, c), NEW k \in 1 .. Len(Transforms[i])
    PROVE  LET n == Len(Transforms[i])
               value == Through(Behind(i, k), h[k].ctx)
           IN /\ h[n].bufs[k] = h[k].bufs[k]
              /\ ~h[k].ctx.known => h[n].ctx = h[k].ctx
              /\ value.known => h[n].ctx = value
<1> DEFINE n == Len(Transforms[i])
           list == Behind(i, k)
<1>0. /\ n \in Nat /\ k \in Nat /\ n - k \in Nat /\ k \in 0 .. n
      /\ \A j \in 1 .. n : /\ Transforms[i][j] \in Transform
                           /\ j - 1 \in 0 .. n /\ j \in 0 .. n
      /\ \A j \in 1 .. (n - k) : /\ k + j \in 1 .. n /\ j \in 0 .. (n - k)
                                 /\ k + j - 1 \in 0 .. n /\ j - 1 \in 0 .. (n - k)
  BY PricingEngineAssumption
<1>1. /\ list \in Seq(Transform) /\ Len(list) = n - k
      /\ \A j \in 1 .. (n - k) : list[j] = Transforms[i][k + j]
  <2>1. \A j \in (k + 1) .. n : Transforms[i][j] \in Transform
    BY <1>0
  <2>2. k + 1 \in Int /\ n \in Int
    BY <1>0
  <2> HIDE DEF n
  <2>3. /\ SubSeq(Transforms[i], k + 1, n) \in Seq(Transform)
        /\ Len(SubSeq(Transforms[i], k + 1, n)) =
              IF k + 1 <= n THEN n - (k + 1) + 1 ELSE 0
        /\ \A j \in 1 .. (n - (k + 1) + 1) :
              SubSeq(Transforms[i], k + 1, n)[j] = Transforms[i][k + 1 + j - 1]
    BY <2>1, <2>2, SubSeqProperties
  <2>4. Len(SubSeq(Transforms[i], k + 1, n)) = n - k
    BY <1>0, <2>3
  <2>5. \A j \in 1 .. (n - k) :
            SubSeq(Transforms[i], k + 1, n)[j] = Transforms[i][k + j]
    BY <1>0, <2>3
  <2>6. QED
    BY <2>3, <2>4, <2>5 DEF Behind, n
<1>1a. h[k] \in LoopStates(i) /\ h[k].ctx \in Context
  BY <1>0 DEF IsLoop, LoopStates
<1> HIDE DEF list
<1>2. PICK g \in [0 .. (n - k) -> Context] :
          /\ g[0] = h[k].ctx
          /\ \A j \in 1 .. (n - k) : g[j] = Pass(g[j - 1], list[j])
          /\ Through(list, h[k].ctx) = g[n - k]
  <2>1. PICK g \in [0 .. Len(list) -> Context] :
            /\ g[0] = h[k].ctx
            /\ \A j \in 1 .. Len(list) : g[j] = Pass(g[j - 1], list[j])
            /\ Through(list, h[k].ctx) = g[Len(list)]
    BY <1>1, <1>1a, ThroughSteps
  <2>2. QED
    BY <1>1, <2>1
<1> HIDE DEF n
<1> DEFINE T == {j \in 0 .. (n - k) :
                    /\ h[k + j].bufs[k] = h[k].bufs[k]
                    /\ ~h[k].ctx.known => h[k + j].ctx = h[k].ctx
                    /\ g[j].known => h[k + j].ctx = g[j]}
<1>3. 0 \in T
  BY <1>0, <1>2
<1>4. ASSUME NEW j \in 1 .. (n - k), j - 1 \in T PROVE j \in T
  <2>1. PICK step \in LoopStates(i) : step = h[k + (j - 1)]
    BY <1>0 DEF IsLoop, n
  <2>2. /\ k + j \in 1 .. Len(Transforms[i]) /\ k # k + j
        /\ h[k + j] = Turn(i, step, k + j)
    BY <1>0, <2>1 DEF IsLoop, n
  <2>3. g[j] = Pass(g[j - 1], Transforms[i][k + j])
    BY <1>1, <1>2
  <2>4. g[j - 1].known \/ g[j] = None
    BY <2>3 DEF Pass
  <2>5. j \in 0 .. (n - k)
    BY <1>0
  <2>6. /\ step.bufs[k] = h[k].bufs[k]
        /\ ~h[k].ctx.known => step.ctx = h[k].ctx
        /\ g[j - 1].known => step.ctx = g[j - 1]
    BY <1>4, <2>1
  <2>7. ~h[k].ctx.known => h[k + j].ctx = h[k].ctx
    BY <2>2, <2>6, TurnTypes
  <2>8. CASE step.ctx.known /\ Transforms[i][k + j].kind = "lag"
    <3>1. h[k + j].bufs[k] = step.bufs[k]
      BY <2>2, <2>8, LagTurn
    <3>2. g[j] = None
      <4>1. CASE g[j - 1].known
        <5>1. g[j] = Mapped(Transforms[i][k + j], g[j - 1])
          BY <2>3, <4>1 DEF Pass
        <5>2. QED
          BY <2>8, <5>1 DEF Mapped
      <4>2. QED
        BY <2>4, <4>1
    <3>3. ~g[j].known
      BY <3>2 DEF None
    <3>4. QED
      BY <2>5, <2>6, <2>7, <3>1, <3>3
  <2>9. CASE Transforms[i][k + j].kind # "lag"
    <3>1. /\ h[k + j].bufs = step.bufs
          /\ h[k + j].ctx = Pass(step.ctx, Transforms[i][k + j])
      BY <2>2, <2>9, TurnTypes
    <3>2. g[j].known => g[j - 1].known
      BY <2>4 DEF None
    <3>3. g[j].known => h[k + j].ctx = g[j]
      BY <2>3, <2>6, <3>1, <3>2
    <3>4. QED
      BY <2>5, <2>6, <2>7, <3>1, <3>3
  <2>10. CASE ~step.ctx.known
    <3>1. h[k + j] = step
      BY <2>2, <2>10, TurnTypes
    <3>2. ~g[j].known
      BY <2>4, <2>6, <2>10 DEF None
    <3>3. QED
      BY <2>5, <2>6, <2>7, <3>1, <3>2
  <2>11. QED
    BY <2>8, <2>9, <2>10
<1> HIDE DEF T
<1>5. \A j \in 0 .. (n - k) : j \in T
  BY <1>0, <1>3, <1>4, AlongPositions
<1>6. n - k \in T /\ k + (n - k) = n
  BY <1>0, <1>5
<1>7. QED
  BY <1>2, <1>6 DEF T, list, n

\* What an evaluation does to the first lag: the value that reaches it joins
\* the buffer, those aged by now leave it, and the last of them goes on.
Joined(i, k, x) == Append(buf[i][k], [at |-> now, ctx |-> x])
Leaving(i, k, x) == Aged(Joined(i, k, x), now - Transforms[i][k].ticks)

\* What becomes of it behind the lag.
Sent(i, k, x) ==
    Through(Behind(i, k), Joined(i, k, x)[Leaving(i, k, x)].ctx)

LEMMA FirstLagTurn ==
    ASSUME NEW i \in Instruments, NEW c \in Context, now \in Nat,
           buf[i] \in [1 .. Len(Transforms[i]) -> Seq(Held)],
           NEW k, FirstLag(i, k), NEW x, x = Through(Before(i, k), c)
    PROVE  /\ x \in Context
           /\ ~x.known => /\ Transformed(i, c).ctx = None
                          /\ Transformed(i, c).bufs[k] = buf[i][k]
           /\ x.known =>
                 /\ Joined(i, k, x) \in Seq(Held)
                 /\ Len(Joined(i, k, x)) = Len(buf[i][k]) + 1
                 /\ Leaving(i, k, x) \in 0 .. Len(Joined(i, k, x))
                 /\ Transformed(i, c).bufs[k] =
                       SubSeq(Joined(i, k, x), Leaving(i, k, x) + 1,
                              Len(Joined(i, k, x)))
                 /\ Leaving(i, k, x) = 0 => Transformed(i, c).ctx = None
                 /\ Leaving(i, k, x) > 0 =>
                       (Sent(i, k, x).known => Transformed(i, c).ctx = Sent(i, k, x))
<1> DEFINE n == Len(Transforms[i])
<1>0. n \in Nat /\ k \in 1 .. n /\ k - 1 \in 0 .. n /\ k \in 0 .. n /\ n \in 0 .. n
  BY PricingEngineAssumption DEF FirstLag
<1>1. PICK h : IsLoop(h, i, c)
  BY TransformedSteps DEF IsLoop
<1>2. h[k - 1].ctx = x /\ h[k - 1].bufs = buf[i]
  BY <1>1, LoopBefore
<1>3. PICK step \in LoopStates(i) : step = h[k - 1]
  BY <1>0, <1>1 DEF IsLoop
<1>4. h[k] = Turn(i, step, k) /\ Transformed(i, c) = h[n]
  BY <1>0, <1>1, <1>3 DEF IsLoop
<1>5. /\ h[n].bufs[k] = h[k].bufs[k]
      /\ ~h[k].ctx.known => h[n].ctx = h[k].ctx
      /\ Through(Behind(i, k), h[k].ctx).known =>
            h[n].ctx = Through(Behind(i, k), h[k].ctx)
  BY <1>0, <1>1, LoopBehind
<1>6. step.ctx = x /\ step.bufs = buf[i] /\ x \in Context
  BY <1>2, <1>3 DEF LoopStates
<1>7. ASSUME ~x.known
      PROVE  /\ Transformed(i, c).ctx = None
             /\ Transformed(i, c).bufs[k] = buf[i][k]
  <2>1. h[k] = step
    BY <1>0, <1>4, <1>6, <1>7, TurnTypes
  <2>2. x = None
    BY <1>6, <1>7, KnownContext
  <2>3. QED
    BY <1>4, <1>5, <1>6, <1>7, <2>1, <2>2
<1>8. ASSUME x.known
      PROVE  /\ Joined(i, k, x) \in Seq(Held)
             /\ Len(Joined(i, k, x)) = Len(buf[i][k]) + 1
             /\ Leaving(i, k, x) \in 0 .. Len(Joined(i, k, x))
             /\ h[k].ctx = IF Leaving(i, k, x) = 0 THEN None
                           ELSE Joined(i, k, x)[Leaving(i, k, x)].ctx
             /\ h[k].bufs[k] = SubSeq(Joined(i, k, x), Leaving(i, k, x) + 1,
                                      Len(Joined(i, k, x)))
  <2>1. step.ctx.known /\ Transforms[i][k].kind = "lag" /\ k \in 1 .. Len(Transforms[i])
    BY <1>0, <1>6, <1>8 DEF FirstLag
  <2>2. Queue(step, k) = Joined(i, k, x) /\ Ripe(i, step, k) = Leaving(i, k, x)
    BY <1>6 DEF Queue, Ripe, Joined, Leaving
  <2>3. /\ Queue(step, k) \in Seq(Held)
        /\ Len(Queue(step, k)) = Len(step.bufs[k]) + 1
        /\ Ripe(i, step, k) \in 0 .. Len(Queue(step, k))
        /\ Turn(i, step, k).ctx = IF Ripe(i, step, k) = 0 THEN None
                                  ELSE Queue(step, k)[Ripe(i, step, k)].ctx
        /\ Turn(i, step, k).bufs[k] =
              SubSeq(Queue(step, k), Ripe(i, step, k) + 1, Len(Queue(step, k)))
    BY <2>1, LagTurn
  <2>4. QED
    BY <1>4, <1>6, <2>2, <2>3
<1>9. ASSUME x.known, Leaving(i, k, x) = 0
      PROVE  Transformed(i, c).ctx = None
  <2>1. h[k].ctx = None /\ ~None.known
    BY <1>8, <1>9 DEF None
  <2>2. QED
    BY <1>4, <1>5, <2>1
<1>10. ASSUME x.known, Leaving(i, k, x) > 0, Sent(i, k, x).known
       PROVE  Transformed(i, c).ctx = Sent(i, k, x)
  <2>1. Sent(i, k, x) = Through(Behind(i, k), h[k].ctx)
    BY <1>8, <1>10 DEF Sent
  <2>2. QED
    BY <1>4, <1>5, <1>10, <2>1
<1>11. QED
  <2>1. x.known => Transformed(i, c).bufs[k] =
                       SubSeq(Joined(i, k, x), Leaving(i, k, x) + 1,
                              Len(Joined(i, k, x)))
    BY <1>4, <1>5, <1>8
  <2>2. QED
    BY <1>6, <1>7, <1>8, <1>9, <1>10, <2>1

-----------------------------------------------------------------------------
(***************************************************************************)
(* The base values                                                         *)
(***************************************************************************)
LEMMA LegPositions ==
    ASSUME NEW i \in Instruments
    PROVE  /\ Len(Legs[i]) \in Nat /\ DOMAIN Legs[i] = 1 .. Len(Legs[i])
           /\ \A k \in 1 .. Len(Legs[i]) :
                  Legs[i][k] \in LegSet(i) /\ k - 1 \in 0 .. Len(Legs[i])
           /\ LegSet(i) \subseteq Feeds
           /\ \A f \in LegSet(i) : \E k \in 1 .. Len(Legs[i]) : f = Legs[i][k]
           /\ Kind[i] = "timed" => LegSet(i) = {}
<1>1. Legs[i] \in Seq(Feeds)
  BY PricingEngineAssumption
<1>2. Kind[i] = "timed" => Legs[i] = <<>>
  BY PricingEngineAssumption
<1>3. QED
  BY <1>1, <1>2 DEF LegSet, ToSet

LEMMA OldestTimeTypes ==
    ASSUME NEW i \in Instruments, NEW obs \in [Feeds -> Observation]
    PROVE  OldestTime(obs, i) \in TimeOrNone
<1>1. Len(Legs[i]) \in 0 .. Len(Legs[i])
  BY LegPositions
<1>2. QED
  BY <1>1, OldestTimeSteps

LEMMA LegSumTypes ==
    ASSUME NEW i \in Instruments, Kind[i] = "basket",
           NEW obs \in [Feeds -> Observation]
    PROVE  LegSum(obs, i) \in Nat
<1>1. Len(Legs[i]) \in 0 .. Len(Legs[i])
  BY LegPositions
<1>2. QED
  BY <1>1, LegSumSteps

\* No leg with a time is older than the time that is derived.
LEMMA OldestTimeIsOldest ==
    ASSUME NEW i \in Instruments, NEW obs \in [Feeds -> Observation],
           NEW f \in LegSet(i), obs[f].time # NoTime
    PROVE  OldestTime(obs, i) \in 0 .. obs[f].time
<1> DEFINE n == Len(Legs[i])
           time(k) == obs[Legs[i][k]].time
<1>0. /\ n \in Nat
      /\ \A k \in 1 .. n : time(k) \in TimeOrNone /\ k - 1 \in 0 .. n /\ k \in 0 .. n
  <2>1. \A k \in 1 .. n : Legs[i][k] \in Feeds
    BY LegPositions
  <2>2. \A k \in 1 .. n : time(k) \in TimeOrNone
    BY <2>1, ObservationTypes
  <2>3. QED
    BY <2>2, LegPositions
<1>1. PICK h \in [0 .. n -> TimeOrNone] :
          /\ h[0] = NoTime
          /\ \A k \in 1 .. n : h[k] = Older(h[k - 1], time(k))
          /\ OldestTime(obs, i) = h[n]
  BY OldestTimeSteps
<1> HIDE DEF n, time
<1> DEFINE Oldest(k) == \A j \in 1 .. k :
               time(j) # NoTime => h[k] # NoTime /\ h[k] <= time(j)
           T == {k \in 0 .. n : Oldest(k)}
<1>2. 0 \in T
  BY <1>0
<1>3. ASSUME NEW k \in 1 .. n, k - 1 \in T PROVE k \in T
  <2>1. /\ h[k - 1] \in TimeOrNone /\ time(k) \in TimeOrNone
        /\ k \in 0 .. n /\ k - 1 \in 0 .. n
    BY <1>0, <1>1
  <2>2. h[k] = IF h[k - 1] = NoTime THEN time(k)
               ELSE IF time(k) = NoTime THEN h[k - 1]
               ELSE IF h[k - 1] <= time(k) THEN h[k - 1] ELSE time(k)
    BY <1>1, <2>1, OlderIs
  <2>3. SUFFICES ASSUME NEW j \in 1 .. k, time(j) # NoTime
                 PROVE  h[k] # NoTime /\ h[k] <= time(j)
    BY <2>1
  <2>4. CASE j = k
    BY <2>1, <2>2, <2>3, <2>4 DEF TimeOrNone, NoTime
  <2>5. CASE j \in 1 .. (k - 1)
    <3>1. h[k - 1] # NoTime /\ h[k - 1] <= time(j)
      BY <1>3, <2>3, <2>5
    <3>2. time(j) \in TimeOrNone
      BY <1>0, <2>5
    <3>3. QED
      BY <2>1, <2>2, <3>1, <3>2 DEF TimeOrNone, NoTime
  <2>6. QED
    BY <2>4, <2>5
<1> HIDE DEF T
<1>4. \A k \in 0 .. n : k \in T
  BY <1>0, <1>2, <1>3, AlongPositions
<1>5. n \in T /\ h[n] \in TimeOrNone
  BY <1>0, <1>1, <1>4
<1>6. PICK j \in 1 .. n : f = Legs[i][j]
  BY LegPositions DEF n
<1>7. time(j) \in TimeOrNone /\ time(j) = obs[f].time
  BY <1>0, <1>6 DEF time
<1>8. h[n] # NoTime /\ h[n] <= time(j)
  BY <1>5, <1>7 DEF T
<1>9. QED
  BY <1>1, <1>5, <1>7, <1>8 DEF TimeOrNone, NoTime

\* A base value is a value, of the time of the oldest leg.
LEMMA EvalBaseTypes ==
    ASSUME NEW i \in Instruments, NEW obs \in [Feeds -> Observation],
           NEW fac \in Nat, NEW t \in Nat
    PROVE  /\ EvalBase(obs, i, fac, t) \in Context
           /\ Kind[i] # "timed" /\ EvalBase(obs, i, fac, t).known =>
                 EvalBase(obs, i, fac, t).time = OldestTime(obs, i)
<1> DEFINE old == OldestTime(obs, i)
<1>1. old \in TimeOrNone
  BY OldestTimeTypes
<1>2. \A x \in Fraction, u \in TimeOrNone :
          Sample(x, u) \in Context /\ Sample(x, u).time = u
  BY DEF Sample, Context, TimeOrNone
<1>3. None \in Context /\ ~None.known
  BY DEF Context, None
<1>4. \A k \in 1 .. Len(Legs[i]) : Price(obs, Legs[i][k]) \in Nat
  <2>1. \A k \in 1 .. Len(Legs[i]) : Legs[i][k] \in Feeds
    BY LegPositions
  <2>2. QED
    BY <2>1, ObservationTypes DEF Price
<1> HIDE DEF old
<1>5. CASE Kind[i] = "timed"
  <2>1. <<1, 1>> \in Fraction /\ t \in TimeOrNone
    BY DEF Fraction, TimeOrNone
  <2>2. Known(obs, i)
    BY <1>5, LegPositions DEF Known
  <2>3. EvalBase(obs, i, fac, t) = Sample(<<1, 1>>, t)
    BY <1>5, <2>2 DEF EvalBase
  <2>4. QED
    BY <1>2, <1>5, <2>1, <2>3
<1>6. CASE Kind[i] = "underlying" /\ Known(obs, i)
  <2>1. Price(obs, Legs[i][1]) \in Nat
    <3>1. Len(Legs[i]) = 1
      BY <1>6, PricingEngineAssumption
    <3>2. QED
      BY <1>4, <3>1
  <2>2. <<Price(obs, Legs[i][1]), 1>> \in Fraction
    BY <2>1 DEF Fraction
  <2>3. EvalBase(obs, i, fac, t) = Sample(<<Price(obs, Legs[i][1]), 1>>, old)
    BY <1>6 DEF EvalBase, old
  <2>4. QED
    BY <1>1, <1>2, <2>2, <2>3 DEF old
<1>7. CASE Kind[i] = "cross" /\ Known(obs, i) /\ Divisor(Price(obs, Legs[i][2]))
  <2>1. Price(obs, Legs[i][1]) \in Nat /\ Price(obs, Legs[i][2]) \in Nat
    <3>1. Len(Legs[i]) = 2
      BY <1>7, PricingEngineAssumption
    <3>2. 1 \in 1 .. Len(Legs[i]) /\ 2 \in 1 .. Len(Legs[i])
      BY <3>1
    <3>3. QED
      BY <1>4, <3>2
  <2>2. <<Price(obs, Legs[i][1]), Price(obs, Legs[i][2])>> \in Fraction
    BY <1>7, <2>1 DEF Fraction, Divisor
  <2>3. EvalBase(obs, i, fac, t)
          = Sample(<<Price(obs, Legs[i][1]), Price(obs, Legs[i][2])>>, old)
    BY <1>7 DEF EvalBase, old
  <2>4. QED
    BY <1>1, <1>2, <2>2, <2>3 DEF old
<1>8. CASE Kind[i] = "basket" /\ Known(obs, i) /\ fac # 0
  <2>1. <<LegSum(obs, i), fac>> \in Fraction
    BY <1>8, LegSumTypes DEF Fraction
  <2>2. EvalBase(obs, i, fac, t) = Sample(<<LegSum(obs, i), fac>>, old)
    BY <1>8 DEF EvalBase, old
  <2>3. QED
    BY <1>1, <1>2, <2>1, <2>2 DEF old
<1>9. CASE /\ Kind[i] # "timed"
           /\ ~(Kind[i] = "underlying" /\ Known(obs, i))
           /\ ~(Kind[i] = "cross" /\ Known(obs, i)
                   /\ Divisor(Price(obs, Legs[i][2])))
           /\ ~(Kind[i] = "basket" /\ Known(obs, i) /\ fac # 0)
  <2>1. EvalBase(obs, i, fac, t) = None
    BY <1>9 DEF EvalBase
  <2>2. QED
    BY <1>3, <2>1
<1>10. QED
  BY <1>5, <1>6, <1>7, <1>8, <1>9

\* What is derived depends on the observations of the legs alone.
LEMMA SameLegsSameBase ==
    ASSUME NEW i \in Instruments, NEW fac \in Nat, NEW t \in Nat,
           NEW obs \in [Feeds -> Observation], NEW seen \in [Feeds -> Observation],
           \A f \in LegSet(i) : obs[f] = seen[f]
    PROVE  EvalBase(obs, i, fac, t) = EvalBase(seen, i, fac, t)
<1> DEFINE n == Len(Legs[i])
<1>0. /\ n \in Nat
      /\ \A k \in 1 .. n : /\ k - 1 \in 0 .. n /\ k \in 0 .. n
                           /\ obs[Legs[i][k]] = seen[Legs[i][k]]
  BY LegPositions
<1>1. Known(obs, i) = Known(seen, i)
  BY DEF Known
<1>2. \A k \in 1 .. n : Price(obs, Legs[i][k]) = Price(seen, Legs[i][k])
  BY <1>0 DEF Price
<1>3. OldestTime(obs, i) = OldestTime(seen, i)
  <2>1. PICK h \in [0 .. n -> TimeOrNone] :
            /\ h[0] = NoTime
            /\ \A k \in 1 .. n : h[k] = Older(h[k - 1], obs[Legs[i][k]].time)
            /\ OldestTime(obs, i) = h[n]
    BY OldestTimeSteps
  <2>2. PICK g \in [0 .. n -> TimeOrNone] :
            /\ g[0] = NoTime
            /\ \A k \in 1 .. n : g[k] = Older(g[k - 1], seen[Legs[i][k]].time)
            /\ OldestTime(seen, i) = g[n]
    BY OldestTimeSteps
  <2> HIDE DEF n
  <2> DEFINE T == {k \in 0 .. n : h[k] = g[k]}
  <2>3. 0 \in T
    BY <1>0, <2>1, <2>2
  <2>4. ASSUME NEW k \in 1 .. n, k - 1 \in T PROVE k \in T
    BY <1>0, <2>1, <2>2, <2>4
  <2> HIDE DEF T
  <2>5. \A k \in 0 .. n : k \in T
    BY <1>0, <2>3, <2>4, AlongPositions
  <2>6. n \in T
    BY <1>0, <2>5
  <2>7. QED
    BY <2>1, <2>2, <2>6 DEF T
<1>4. Kind[i] = "basket" => LegSum(obs, i) = LegSum(seen, i)
  <2> SUFFICES ASSUME Kind[i] = "basket" PROVE LegSum(obs, i) = LegSum(seen, i)
    OBVIOUS
  <2>1. PICK h \in [0 .. n -> Nat] :
            /\ h[0] = 0
            /\ \A k \in 1 .. n :
                   h[k] = h[k - 1] + Weights[i][k] * Price(obs, Legs[i][k])
            /\ LegSum(obs, i) = h[n]
    BY LegSumSteps
  <2>2. PICK g \in [0 .. n -> Nat] :
            /\ g[0] = 0
            /\ \A k \in 1 .. n :
                   g[k] = g[k - 1] + Weights[i][k] * Price(seen, Legs[i][k])
            /\ LegSum(seen, i) = g[n]
    BY LegSumSteps
  <2> HIDE DEF n
  <2> DEFINE T == {k \in 0 .. n : h[k] = g[k]}
  <2>3. 0 \in T
    BY <1>0, <2>1, <2>2
  <2>4. ASSUME NEW k \in 1 .. n, k - 1 \in T PROVE k \in T
    <3>1. h[k - 1] = g[k - 1] /\ k \in 0 .. n
      BY <1>0, <2>4
    <3>2. Weights[i][k] * Price(obs, Legs[i][k])
            = Weights[i][k] * Price(seen, Legs[i][k])
      BY <1>2
    <3>3. h[k] = g[k]
      BY <2>1, <2>2, <3>1, <3>2
    <3>4. QED
      BY <3>1, <3>3
  <2> HIDE DEF T
  <2>5. \A k \in 0 .. n : k \in T
    BY <1>0, <2>3, <2>4, AlongPositions
  <2>6. n \in T
    BY <1>0, <2>5
  <2>7. QED
    BY <2>1, <2>2, <2>6 DEF T
<1>5. /\ Kind[i] = "underlying" => 1 \in 1 .. n
      /\ Kind[i] = "cross" => 1 \in 1 .. n /\ 2 \in 1 .. n
  <2>1. /\ Kind[i] = "underlying" => n = 1
        /\ Kind[i] = "cross" => n = 2
    BY PricingEngineAssumption
  <2> HIDE DEF n
  <2>2. QED
    BY <2>1
<1>6. QED
  BY <1>1, <1>2, <1>3, <1>4, <1>5 DEF EvalBase

-----------------------------------------------------------------------------
(***************************************************************************)
(* The inductive invariant                                                 *)
(***************************************************************************)
Types ==
    /\ now \in 0 .. MaxTime
    /\ ticks \in 0 .. MaxTicks
    /\ latest \in [Feeds -> Observation]
    /\ \A f \in Feeds : latest[f].time <= now
    /\ factor \in [Instruments -> Nat]
    /\ \A i \in Instruments :
          /\ buf[i] \in [1 .. Len(Transforms[i]) -> Seq(Held)]
          /\ \A k \in 1 .. Len(Transforms[i]) :
                Transforms[i][k].kind # "lag" => buf[i][k] = <<>>
    /\ due \in [Instruments -> Nat]
    /\ last \in [Instruments -> {NoPoint} \cup Held]
    /\ first \in [Instruments -> {NoPoint} \cup Held]
    /\ samples \in [Instruments -> Seq(Held)]

\* A basket has a factor from its first point on, which is the sum it was
\* rebased on, and that point is 1.
Rebased ==
    \A i \in Instruments : Kind[i] = "basket" /\ Transforms[i] = <<>> =>
        /\ first[i] = NoPoint => last[i] = NoPoint /\ factor[i] = 0
        /\ first[i] # NoPoint =>
              /\ factor[i] # 0
              /\ first[i].ctx.value = <<factor[i], factor[i]>>
              /\ last[i].ctx.value[2] = factor[i]

\* A timed instrument is not due before its interval is over.
Paced ==
    \A i \in Timed : last[i] # NoPoint => due[i] >= last[i].at + Interval[i]

\* The base value of i in an evaluation, and the factor it is taken with.
FactorFor(obs, i) == Rebase(obs, i, factor[i])
BaseFor(obs, i) == EvalBase(obs, i, FactorFor(obs, i), now)

\* An evaluation, instrument by instrument.
LEMMA EvaluateEach ==
    ASSUME NEW S \in SUBSET Instruments, NEW obs, Evaluate(S, obs),
           NEW i \in Instruments
    PROVE  LET c == BaseFor(obs, i)
               out == Transformed(i, c)
           IN /\ factor'[i] = IF i \in S THEN FactorFor(obs, i) ELSE factor[i]
              /\ buf'[i] = IF i \in S /\ c.known THEN out.bufs ELSE buf[i]
              /\ samples'[i] = IF i \in S /\ c.known
                               THEN Append(samples[i], [at |-> now, ctx |-> c])
                               ELSE samples[i]
              /\ last'[i] = IF i \in S /\ c.known /\ out.ctx.known
                            THEN [at |-> now, ctx |-> out.ctx] ELSE last[i]
              /\ first'[i] = IF first[i] = NoPoint THEN last'[i] ELSE first[i]
  BY DEF Evaluate, BaseFor, FactorFor

\* What it leaves alone, and when it publishes.
LEMMA EvaluateOthers ==
    ASSUME NEW S \in SUBSET Instruments, NEW obs, Evaluate(S, obs),
           NEW i \in Instruments
    PROVE  /\ i \notin S => /\ factor'[i] = factor[i] /\ last'[i] = last[i]
                            /\ buf'[i] = buf[i] /\ samples'[i] = samples[i]
           /\ last'[i] = last[i] \/ last'[i].at = now
  BY DEF Evaluate

LEMMA EvaluateDomains ==
    ASSUME NEW S \in SUBSET Instruments, NEW obs, Evaluate(S, obs)
    PROVE  /\ factor' = [i \in Instruments |-> factor'[i]]
           /\ last' = [i \in Instruments |-> last'[i]]
           /\ first' = [i \in Instruments |-> first'[i]]
           /\ samples' = [i \in Instruments |-> samples'[i]]
  BY DEF Evaluate

\* What a turn leaves of the buffers of the other transforms.
LEMMA OnlyLagsHold ==
    ASSUME NEW i \in Instruments, NEW c \in Context, now \in Nat,
           buf[i] \in [1 .. Len(Transforms[i]) -> Seq(Held)],
           NEW k \in 1 .. Len(Transforms[i]), Transforms[i][k].kind # "lag"
    PROVE  Transformed(i, c).bufs[k] = buf[i][k]
<1> DEFINE n == Len(Transforms[i])
<1>0. n \in Nat /\ \A j \in 1 .. n : j - 1 \in 0 .. n /\ j \in 0 .. n
  BY PricingEngineAssumption
<1>1. PICK h \in [0 .. n -> LoopStates(i)] :
          /\ h[0] = [ctx |-> c, bufs |-> buf[i]]
          /\ \A j \in 1 .. n : h[j] = Turn(i, h[j - 1], j)
          /\ Transformed(i, c) = h[n]
  BY TransformedSteps
<1> DEFINE T == {j \in 0 .. n : h[j].bufs[k] = buf[i][k]}
<1>2. 0 \in T
  BY <1>0, <1>1
<1>3. ASSUME NEW j \in 1 .. n, j - 1 \in T PROVE j \in T
  <2>1. h[j - 1] \in LoopStates(i) /\ j \in 1 .. Len(Transforms[i])
    BY <1>0, <1>1
  <2>2. CASE Transforms[i][j].kind # "lag" \/ ~h[j - 1].ctx.known
    <3>1. h[j].bufs = h[j - 1].bufs
      BY <1>1, <2>1, <2>2, TurnTypes
    <3>2. QED
      BY <1>0, <1>3, <3>1
  <2>3. CASE Transforms[i][j].kind = "lag" /\ h[j - 1].ctx.known
    <3>1. PICK step \in LoopStates(i) : step = h[j - 1]
      BY <2>1
    <3>2. step.ctx.known /\ Transforms[i][j].kind = "lag" /\ j # k
      BY <2>3, <3>1
    <3>3. h[j].bufs[k] = h[j - 1].bufs[k]
      BY <1>1, <2>1, <3>1, <3>2, LagTurn
    <3>4. QED
      BY <1>0, <1>3, <3>3
  <2>4. QED
    BY <2>2, <2>3
<1> HIDE DEF T, n
<1>4. \A j \in 0 .. n : j \in T
  BY <1>0, <1>2, <1>3, AlongPositions
<1>5. n \in T
  BY <1>0, <1>4
<1>6. QED
  BY <1>1, <1>5 DEF T

\* What an evaluation of i works with and brings about is of its type.
LEMMA EvaluatedTypes ==
    ASSUME Types, NEW i \in Instruments, NEW obs \in [Feeds -> Observation]
    PROVE  /\ now \in Nat
           /\ FactorFor(obs, i) \in Nat
           /\ BaseFor(obs, i) \in Context
           /\ Transformed(i, BaseFor(obs, i)) \in LoopStates(i)
           /\ \A c \in Context : c.known => [at |-> now, ctx |-> c] \in Held
<1>1. now \in Nat /\ factor[i] \in Nat
      /\ buf[i] \in [1 .. Len(Transforms[i]) -> Seq(Held)]
  BY PricingEngineAssumption DEF Types
<1>2. FactorFor(obs, i) \in Nat
  BY <1>1, LegSumTypes DEF FactorFor, Rebase
<1>3. BaseFor(obs, i) \in Context
  BY <1>1, <1>2, EvalBaseTypes DEF BaseFor
<1>4. Transformed(i, BaseFor(obs, i)) \in LoopStates(i)
  BY <1>1, <1>3, TransformedTypes
<1>5. \A c \in Context : c.known => [at |-> now, ctx |-> c] \in Held
  BY <1>1, KnownContext DEF Held
<1>6. QED
  BY <1>1, <1>2, <1>3, <1>4, <1>5

LEMMA EvaluateKeepsTypes ==
    ASSUME Types, NEW S \in SUBSET Instruments, NEW obs \in [Feeds -> Observation],
           Evaluate(S, obs), now' = now
    PROVE  /\ factor' \in [Instruments -> Nat]
           /\ \A i \in Instruments :
                 /\ buf'[i] \in [1 .. Len(Transforms[i]) -> Seq(Held)]
                 /\ \A k \in 1 .. Len(Transforms[i]) :
                       Transforms[i][k].kind # "lag" => buf'[i][k] = <<>>
           /\ last' \in [Instruments -> {NoPoint} \cup Held]
           /\ first' \in [Instruments -> {NoPoint} \cup Held]
           /\ samples' \in [Instruments -> Seq(Held)]
<1> DEFINE c(i) == BaseFor(obs, i)
           out(i) == Transformed(i, c(i))
<1>1. ASSUME NEW i \in Instruments
      PROVE  /\ factor'[i] \in Nat
             /\ buf'[i] \in [1 .. Len(Transforms[i]) -> Seq(Held)]
             /\ \A k \in 1 .. Len(Transforms[i]) :
                   Transforms[i][k].kind # "lag" => buf'[i][k] = <<>>
             /\ last'[i] \in {NoPoint} \cup Held
             /\ first'[i] \in {NoPoint} \cup Held
             /\ samples'[i] \in Seq(Held)
  <2>1. /\ FactorFor(obs, i) \in Nat
        /\ c(i) \in Context /\ out(i) \in LoopStates(i)
        /\ \A x \in Context : x.known => [at |-> now, ctx |-> x] \in Held
        /\ now \in Nat
    BY EvaluatedTypes
  <2>2. /\ factor[i] \in Nat
        /\ buf[i] \in [1 .. Len(Transforms[i]) -> Seq(Held)]
        /\ \A k \in 1 .. Len(Transforms[i]) :
              Transforms[i][k].kind # "lag" => buf[i][k] = <<>>
        /\ last[i] \in {NoPoint} \cup Held
        /\ first[i] \in {NoPoint} \cup Held
        /\ samples[i] \in Seq(Held)
    BY DEF Types
  <2>3. /\ factor'[i] = IF i \in S THEN FactorFor(obs, i) ELSE factor[i]
        /\ buf'[i] = IF i \in S /\ c(i).known THEN out(i).bufs ELSE buf[i]
        /\ samples'[i] = IF i \in S /\ c(i).known
                         THEN Append(samples[i], [at |-> now, ctx |-> c(i)])
                         ELSE samples[i]
        /\ last'[i] = IF i \in S /\ c(i).known /\ out(i).ctx.known
                      THEN [at |-> now, ctx |-> out(i).ctx] ELSE last[i]
        /\ first'[i] = IF first[i] = NoPoint THEN last'[i] ELSE first[i]
    BY EvaluateEach
  <2>4. \A k \in 1 .. Len(Transforms[i]) :
            Transforms[i][k].kind # "lag" => out(i).bufs[k] = buf[i][k]
    BY <2>1, <2>2, OnlyLagsHold
  <2>5. out(i).ctx \in Context
        /\ out(i).bufs \in [1 .. Len(Transforms[i]) -> Seq(Held)]
    BY <2>1 DEF LoopStates
  <2> HIDE DEF c, out
  <2>6. last'[i] \in {NoPoint} \cup Held
    BY <2>1, <2>2, <2>3, <2>5
  <2>7. samples'[i] \in Seq(Held)
    <3>1. c(i).known => Append(samples[i], [at |-> now, ctx |-> c(i)]) \in Seq(Held)
      BY <2>1, <2>2, AppendProperties
    <3>2. QED
      BY <2>2, <2>3, <3>1
  <2>8. /\ buf'[i] \in [1 .. Len(Transforms[i]) -> Seq(Held)]
        /\ \A k \in 1 .. Len(Transforms[i]) :
              Transforms[i][k].kind # "lag" => buf'[i][k] = <<>>
    BY <2>2, <2>3, <2>4, <2>5
  <2>9. QED
    BY <2>1, <2>2, <2>3, <2>6, <2>7, <2>8
<1>2. /\ factor' = [i \in Instruments |-> factor'[i]]
      /\ last' = [i \in Instruments |-> last'[i]]
      /\ first' = [i \in Instruments |-> first'[i]]
      /\ samples' = [i \in Instruments |-> samples'[i]]
  BY EvaluateDomains
<1>3. factor' \in [Instruments -> Nat]
  BY <1>1, <1>2
<1>4. last' \in [Instruments -> {NoPoint} \cup Held]
  BY <1>1, <1>2
<1>5. first' \in [Instruments -> {NoPoint} \cup Held]
  BY <1>1, <1>2
<1>6. samples' \in [Instruments -> Seq(Held)]
  BY <1>1, <1>2
<1>7. QED
  BY <1>1, <1>3, <1>4, <1>5, <1>6

\* A sample of an earlier time is one of a later time.
LEMMA HeldGrows ==
    ASSUME now \in Nat, now' \in Nat, now <= now'
    PROVE  Held \subseteq Held'
  BY DEF Held

LEMMA InitTypes == Init => Types
<1> SUFFICES ASSUME Init PROVE Types
  OBVIOUS
<1>1. /\ 0 \in 0 .. MaxTime /\ 0 \in 0 .. MaxTicks
      /\ \A i \in Instruments : Transforms[i] \in Seq(Transform)
  BY PricingEngineAssumption
<1>2. latest \in [Feeds -> Observation] /\ \A f \in Feeds : latest[f].time <= now
  BY DEF Init, Observation, None, NoTime
<1>3. \A i \in Instruments :
          /\ buf[i] \in [1 .. Len(Transforms[i]) -> Seq(Held)]
          /\ \A k \in 1 .. Len(Transforms[i]) : buf[i][k] = <<>>
  BY DEF Init
<1>4. samples \in [Instruments -> Seq(Held)]
  BY DEF Init
<1>5. QED
  BY <1>1, <1>2, <1>3, <1>4 DEF Init, Types

LEMMA OnUnderlyingTypes ==
    ASSUME Types, NEW f \in Feeds, NEW v \in Prices, NEW t \in Times(f),
           OnUnderlying(f, v, t)
    PROVE  /\ Types'
           /\ latest' = [latest EXCEPT ![f] = Sample(<<v, 1>>, t)]
           /\ latest' \in [Feeds -> Observation]
           /\ now' = now /\ due' = due
           /\ Evaluate(ByFeed(f), latest')
<1>1. /\ latest' = [latest EXCEPT ![f] = Sample(<<v, 1>>, t)]
      /\ now' = now /\ due' = due /\ ticks < MaxTicks /\ ticks' = ticks + 1
      /\ Evaluate(ByFeed(f), latest')
  BY DEF OnUnderlying
<1>2. t \in TimeOrNone /\ t <= now
  BY PricingEngineAssumption DEF Types, Times, TimeOrNone, NoTime
<1>3. Sample(<<v, 1>>, t) \in Observation /\ Sample(<<v, 1>>, t).time = t
  BY <1>2, PricingEngineAssumption DEF Sample, Observation, TimeOrNone
<1>4. /\ latest' \in [Feeds -> Observation]
      /\ \A g \in Feeds : latest'[g].time <= now
  BY <1>1, <1>2, <1>3 DEF Types
<1>5. ByFeed(f) \in SUBSET Instruments
  BY DEF ByFeed
<1>6. /\ factor' \in [Instruments -> Nat]
      /\ \A i \in Instruments :
            /\ buf'[i] \in [1 .. Len(Transforms[i]) -> Seq(Held)]
            /\ \A k \in 1 .. Len(Transforms[i]) :
                  Transforms[i][k].kind # "lag" => buf'[i][k] = <<>>
      /\ last' \in [Instruments -> {NoPoint} \cup Held]
      /\ first' \in [Instruments -> {NoPoint} \cup Held]
      /\ samples' \in [Instruments -> Seq(Held)]
  BY <1>1, <1>4, <1>5, EvaluateKeepsTypes
<1>7. Held' = Held
  BY <1>1 DEF Held
<1>8. ticks' \in 0 .. MaxTicks /\ due' \in [Instruments -> Nat]
      /\ now' \in 0 .. MaxTime
  BY <1>1, PricingEngineAssumption DEF Types
<1>9. Types'
  BY <1>1, <1>4, <1>6, <1>7, <1>8 DEF Types
<1>10. QED
  BY <1>1, <1>4, <1>9

LEMMA OnTickTypes ==
    ASSUME Types, OnTick
    PROVE  /\ Types'
           /\ latest' = latest /\ now' = now
           /\ Evaluate(Due, latest)
           /\ Due \in SUBSET Instruments
<1>1. latest' = latest /\ now' = now /\ ticks' = ticks /\ Evaluate(Due, latest)
  BY DEF OnTick
<1>2. Due \in SUBSET Instruments
  BY DEF Due, Timed
<1>3. /\ factor' \in [Instruments -> Nat]
      /\ \A i \in Instruments :
            /\ buf'[i] \in [1 .. Len(Transforms[i]) -> Seq(Held)]
            /\ \A k \in 1 .. Len(Transforms[i]) :
                  Transforms[i][k].kind # "lag" => buf'[i][k] = <<>>
      /\ last' \in [Instruments -> {NoPoint} \cup Held]
      /\ first' \in [Instruments -> {NoPoint} \cup Held]
      /\ samples' \in [Instruments -> Seq(Held)]
  BY <1>1, <1>2, EvaluateKeepsTypes DEF Types
<1>4. due' \in [Instruments -> Nat]
  BY PricingEngineAssumption DEF OnTick, Reschedule, Types
<1>5. Held' = Held
  BY <1>1 DEF Held
<1>6. Types'
  BY <1>1, <1>3, <1>4, <1>5 DEF Types
<1>7. QED
  BY <1>1, <1>2, <1>6

LEMMA ElapseTypes ==
    ASSUME Types, Elapse
    PROVE  Types'
<1>1. now \in Nat /\ now' \in Nat /\ now <= now' /\ now' \in 0 .. MaxTime
  BY PricingEngineAssumption DEF Types, Elapse
<1>2. Held \subseteq Held'
  BY <1>1, HeldGrows
<1>3. \A i \in Instruments :
          /\ buf'[i] \in [1 .. Len(Transforms[i]) -> Seq(Held')]
          /\ samples[i] \in Seq(Held')
  <2>1. Seq(Held) \subseteq Seq(Held')
    BY <1>2
  <2>2. \A i \in Instruments : buf'[i] = buf[i]
    BY DEF Elapse
  <2>3. QED
    BY <2>1, <2>2 DEF Types
<1>4. samples' \in [Instruments -> Seq(Held')]
  BY <1>3 DEF Elapse, Types
<1>5. /\ last' \in [Instruments -> {NoPoint} \cup Held']
      /\ first' \in [Instruments -> {NoPoint} \cup Held']
  BY <1>2 DEF Elapse, Types
<1>6. \A f \in Feeds : latest'[f].time <= now'
  <2>1. \A f \in Feeds : latest[f].time \in Int /\ latest[f].time <= now
    BY ObservationTypes DEF Types, TimeOrNone, NoTime
  <2>2. QED
    BY <1>1, <2>1 DEF Elapse
<1>7. QED
  BY <1>1, <1>3, <1>4, <1>5, <1>6 DEF Elapse, Types

\* An instrument that is derived from legs at every observation.
LEMMA ImmediateKinds ==
    ASSUME NEW i \in Immediate \ Timed
    PROVE  /\ i \in Instruments /\ i \in Immediate
           /\ Kind[i] # "timed"
           /\ Transforms[i] \in Seq(Transform)
  BY PricingEngineAssumption DEF Immediate, Timed

\* Without its legs it has no value, and its value does not depend on the time.
LEMMA DerivedBase ==
    ASSUME NEW i \in Instruments, Kind[i] # "timed", NEW obs, NEW fac, NEW t, NEW u
    PROVE  /\ EvalBase(obs, i, fac, t) = EvalBase(obs, i, fac, u)
           /\ ~Known(obs, i) => EvalBase(obs, i, fac, t) = None
           /\ Kind[i] = "basket" =>
                 EvalBase(obs, i, fac, t) =
                    IF Known(obs, i) /\ fac # 0
                    THEN Sample(<<LegSum(obs, i), fac>>, OldestTime(obs, i))
                    ELSE None
  BY DEF EvalBase

LEMMA InitNoStale == Init => NoStaleDerivation
<1> SUFFICES ASSUME Init, NEW i \in Immediate \ Timed PROVE ~ValueNow(i).known
  BY DEF NoStaleDerivation
<1>1. /\ i \in Instruments /\ Kind[i] # "timed" /\ Transforms[i] \in Seq(Transform)
  BY ImmediateKinds
<1>2. EvalBase(latest, i, factor[i], now) = None
  <2>1. CASE Kind[i] = "basket"
    <3>1. factor[i] = 0
      BY <1>1 DEF Init
    <3>2. QED
      BY <2>1, <3>1 DEF EvalBase
  <2>2. CASE Kind[i] # "basket"
    <3>1. Len(Legs[i]) # 0
      <4>1. Kind[i] \in {"underlying", "cross", "basket", "timed"}
        BY <1>1, PricingEngineAssumption
      <4>2. /\ Kind[i] = "underlying" => Len(Legs[i]) = 1
            /\ Kind[i] = "cross" => Len(Legs[i]) = 2
        BY <1>1, PricingEngineAssumption
      <4>3. Kind[i] = "underlying" \/ Kind[i] = "cross"
        BY <1>1, <2>2, <4>1
      <4>4. Len(Legs[i]) = 1 \/ Len(Legs[i]) = 2
        BY <4>2, <4>3
      <4>5. QED
        BY <4>4
    <3>2. Legs[i][1] \in LegSet(i) /\ LegSet(i) \subseteq Feeds
      <4>1. 1 \in 1 .. Len(Legs[i])
        BY <1>1, <3>1, LegPositions
      <4>2. QED
        BY <1>1, <4>1, LegPositions
    <3>3. ~latest[Legs[i][1]].known
      BY <3>2 DEF Init, None
    <3>4. ~Known(latest, i)
      BY <3>2, <3>3 DEF Known
    <3>5. QED
      BY <1>1, <3>4, DerivedBase
  <2>3. QED
    BY <2>1, <2>2
<1>3. None \in Context /\ ~None.known
  BY DEF Context, None
<1>4. Through(Transforms[i], None).known => None.known
  BY <1>1, <1>3, ThroughTypes
<1>5. QED
  BY <1>2, <1>3, <1>4 DEF ValueNow

\* Whichever leg moves, every instrument that uses it is evaluated on all of
\* them, and the value of no other instrument is affected.
LEMMA OnUnderlyingNoStale ==
    ASSUME Types, NoStaleDerivation,
           NEW f \in Feeds, NEW v \in Prices, NEW t \in Times(f),
           OnUnderlying(f, v, t)
    PROVE  NoStaleDerivation'
<1>1. /\ latest' = [latest EXCEPT ![f] = Sample(<<v, 1>>, t)]
      /\ latest' \in [Feeds -> Observation]
      /\ now' = now
      /\ Evaluate(ByFeed(f), latest')
  BY OnUnderlyingTypes
<1> SUFFICES ASSUME NEW i \in Immediate \ Timed, ValueNow(i)'.known
             PROVE  last'[i].ctx = ValueNow(i)'
  BY DEF NoStaleDerivation, Immediate, Timed
<1>2. /\ i \in Instruments /\ i \in Immediate /\ Kind[i] # "timed"
      /\ Transforms[i] \in Seq(Transform)
  BY ImmediateKinds
<1>3. ValueNow(i)' = Through(Transforms[i], EvalBase(latest', i, factor'[i], now))
  BY <1>1 DEF ValueNow
<1>4. ByFeed(f) \in SUBSET Instruments
  BY DEF ByFeed
<1>5. now \in Nat /\ factor[i] \in Nat /\ latest \in [Feeds -> Observation]
      /\ buf[i] \in [1 .. Len(Transforms[i]) -> Seq(Held)]
  BY <1>2, PricingEngineAssumption DEF Types
<1> DEFINE c == BaseFor(latest', i)
<1>6. CASE i \in ByFeed(f)
  <2>0. /\ factor'[i] = IF i \in ByFeed(f) THEN FactorFor(latest', i) ELSE factor[i]
        /\ last'[i] = IF i \in ByFeed(f) /\ c.known /\ Transformed(i, c).ctx.known
                      THEN [at |-> now, ctx |-> Transformed(i, c).ctx] ELSE last[i]
    BY <1>1, <1>2 DEF Evaluate, BaseFor, FactorFor
  <2>1. factor'[i] = FactorFor(latest', i)
    BY <1>6, <2>0
  <2>2. ValueNow(i)' = Through(Transforms[i], c)
    BY <1>3, <2>1 DEF BaseFor
  <2>3. c \in Context
    BY <1>1, <1>2, EvaluatedTypes
  <2> HIDE DEF c
  <2>4. c.known
    BY <1>2, <2>2, <2>3, ThroughTypes
  <2>5. Transformed(i, c).ctx = Through(Transforms[i], c)
    BY <1>2, <1>5, <2>3, ImmediateIsThrough
  <2>6. QED
    BY <1>6, <2>0, <2>2, <2>4, <2>5 DEF c
<1>7. CASE i \notin ByFeed(f)
  <2>1. factor'[i] = factor[i] /\ last'[i] = last[i]
    BY <1>1, <1>2, <1>4, <1>7, EvaluateOthers
  <2>2. \A g \in LegSet(i) : latest'[g] = latest[g]
    <3>1. LegSet(i) \subseteq Feeds /\ f \notin LegSet(i)
      BY <1>2, <1>7, LegPositions DEF ByFeed
    <3>2. QED
      BY <1>1, <1>5, <3>1
  <2>3. EvalBase(latest', i, factor[i], now) = EvalBase(latest, i, factor[i], now)
    <3>1. PICK obs \in [Feeds -> Observation] : obs = latest'
      BY <1>1
    <3>2. \A g \in LegSet(i) : obs[g] = latest[g]
      BY <2>2, <3>1
    <3>3. EvalBase(obs, i, factor[i], now) = EvalBase(latest, i, factor[i], now)
      BY <1>2, <1>5, <3>2, SameLegsSameBase
    <3>4. QED
      BY <3>1, <3>3
  <2>4. ValueNow(i)' = ValueNow(i)
    BY <1>3, <2>1, <2>3 DEF ValueNow
  <2>5. QED
    BY <2>1, <2>4 DEF NoStaleDerivation
<1>8. QED
  BY <1>6, <1>7

LEMMA OnTickNoStale ==
    ASSUME Types, NoStaleDerivation, OnTick
    PROVE  NoStaleDerivation'
<1>1. /\ latest' = latest /\ now' = now
      /\ Evaluate(Due, latest) /\ Due \in SUBSET Instruments
  BY OnTickTypes
<1>2. ASSUME NEW i \in Immediate \ Timed
      PROVE  ValueNow(i)' = ValueNow(i) /\ last'[i] = last[i]
  <2>1. i \in Instruments /\ i \notin Due
    BY ImmediateKinds DEF Due
  <2>2. factor'[i] = factor[i] /\ last'[i] = last[i]
    BY <1>1, <2>1, EvaluateOthers
  <2>3. QED
    BY <1>1, <2>2 DEF ValueNow
<1>3. QED
  BY <1>2 DEF NoStaleDerivation, Immediate, Timed

LEMMA ElapseNoStale ==
    ASSUME Types, NoStaleDerivation, Elapse
    PROVE  NoStaleDerivation'
<1>1. latest' = latest /\ factor' = factor /\ last' = last
  BY DEF Elapse
<1>2. ASSUME NEW i \in Immediate \ Timed
      PROVE  ValueNow(i)' = ValueNow(i)
  <2>1. i \in Instruments /\ Kind[i] # "timed"
    BY ImmediateKinds
  <2>2. EvalBase(latest, i, factor[i], now') = EvalBase(latest, i, factor[i], now)
    BY <2>1, DerivedBase
  <2>3. QED
    BY <1>1, <2>2 DEF ValueNow
<1>3. QED
  BY <1>1, <1>2 DEF NoStaleDerivation, Immediate, Timed

-----------------------------------------------------------------------------
\* A basket without transforms publishes its base value.
LEMMA NothingToDo ==
    ASSUME NEW i \in Instruments, Transforms[i] = <<>>, NEW c \in Context,
           now \in Nat, buf[i] \in [1 .. Len(Transforms[i]) -> Seq(Held)]
    PROVE  Transformed(i, c).ctx = c
<1>1. i \in Immediate
  BY DEF Immediate, ToSet
<1>2. Transforms[i] \in Seq(Transform) /\ Len(Transforms[i]) = 0
  BY PricingEngineAssumption
<1>3. PICK h \in [0 .. Len(Transforms[i]) -> Context] :
          h[0] = c /\ Through(Transforms[i], c) = h[Len(Transforms[i])]
  BY <1>2, ThroughSteps
<1>4. Through(Transforms[i], c) = c
  BY <1>2, <1>3
<1>5. QED
  BY <1>1, <1>4, ImmediateIsThrough

\* What one evaluation does to a basket: the first that has a sum to rebase
\* on publishes exactly 1, and later ones divide by the same sum.
LEMMA BasketEvaluated ==
    ASSUME Types, Rebased, NEW S \in SUBSET Instruments,
           NEW obs \in [Feeds -> Observation], Evaluate(S, obs),
           NEW i \in Instruments, Kind[i] = "basket", Transforms[i] = <<>>
    PROVE  /\ first'[i] = NoPoint => last'[i] = NoPoint /\ factor'[i] = 0
           /\ first'[i] # NoPoint =>
                 /\ factor'[i] # 0
                 /\ first'[i].ctx.value = <<factor'[i], factor'[i]>>
                 /\ last'[i].ctx.value[2] = factor'[i]
<1> DEFINE c == BaseFor(obs, i)
           fac == FactorFor(obs, i)
<1>1. now \in Nat /\ factor[i] \in Nat
      /\ buf[i] \in [1 .. Len(Transforms[i]) -> Seq(Held)]
  BY PricingEngineAssumption DEF Types
<1>2. c \in Context /\ fac \in Nat
  BY EvaluatedTypes
<1>3. c = IF Known(obs, i) /\ fac # 0
          THEN Sample(<<LegSum(obs, i), fac>>, OldestTime(obs, i)) ELSE None
  BY DerivedBase DEF BaseFor
<1>4. fac = IF factor[i] = 0 /\ Known(obs, i) THEN LegSum(obs, i) ELSE factor[i]
  BY DEF FactorFor, Rebase
<1> HIDE DEF c, fac
<1>5. /\ factor'[i] = IF i \in S THEN fac ELSE factor[i]
      /\ last'[i] = IF i \in S /\ c.known THEN [at |-> now, ctx |-> c] ELSE last[i]
      /\ first'[i] = IF first[i] = NoPoint THEN last'[i] ELSE first[i]
  <2>1. Transformed(i, c).ctx = c
    BY <1>1, <1>2, NothingToDo
  <2>2. /\ factor'[i] = IF i \in S THEN fac ELSE factor[i]
        /\ last'[i] = IF i \in S /\ c.known /\ Transformed(i, c).ctx.known
                      THEN [at |-> now, ctx |-> Transformed(i, c).ctx] ELSE last[i]
        /\ first'[i] = IF first[i] = NoPoint THEN last'[i] ELSE first[i]
    BY EvaluateEach DEF c, fac
  <2>3. QED
    BY <2>1, <2>2
<1>6. /\ first[i] = NoPoint => last[i] = NoPoint /\ factor[i] = 0
      /\ first[i] # NoPoint =>
            /\ factor[i] # 0
            /\ first[i].ctx.value = <<factor[i], factor[i]>>
            /\ last[i].ctx.value[2] = factor[i]
  BY DEF Rebased
<1>7. CASE i \in S /\ c.known
  <2>1. /\ Known(obs, i) /\ fac # 0
        /\ c.value = <<LegSum(obs, i), fac>>
    BY <1>3, <1>7 DEF None, Sample
  <2>2. /\ factor'[i] = fac /\ last'[i] = [at |-> now, ctx |-> c]
        /\ last'[i] # NoPoint
    BY <1>1, <1>5, <1>7 DEF NoPoint, NoTime
  <2>3. CASE first[i] = NoPoint
    <3>1. fac = LegSum(obs, i) /\ first'[i] = last'[i]
      BY <1>4, <1>5, <1>6, <2>1, <2>3
    <3>2. QED
      BY <2>1, <2>2, <3>1
  <2>4. CASE first[i] # NoPoint
    <3>1. fac = factor[i] /\ first'[i] = first[i]
      BY <1>4, <1>5, <1>6, <2>4
    <3>2. QED
      BY <1>6, <2>1, <2>2, <2>4, <3>1
  <2>5. QED
    BY <2>3, <2>4
<1>8. CASE ~(i \in S /\ c.known)
  <2>1. last'[i] = last[i] /\ first'[i] = first[i]
    BY <1>5, <1>6, <1>8
  <2>2. i \in S => (Known(obs, i) => fac = 0)
    BY <1>3, <1>8 DEF Sample
  <2>3. factor'[i] = factor[i]
    BY <1>4, <1>5, <2>2
  <2>4. QED
    BY <1>6, <2>1, <2>3
<1>9. QED
  BY <1>7, <1>8

\* What one evaluation does to the timed instruments.
LEMMA TimedEvaluated ==
    ASSUME Types, NEW S \in SUBSET Instruments,
           NEW obs \in [Feeds -> Observation], Evaluate(S, obs), NEW i \in Timed
    PROVE  /\ i \notin S => last'[i] = last[i]
           /\ last'[i] = last[i] \/ last'[i].at = now
<1>1. i \in Instruments
  BY DEF Timed
<1>2. QED
  BY <1>1, EvaluateOthers

LEMMA PacedTypes ==
    ASSUME Types, NEW i \in Timed
    PROVE  /\ i \in Instruments /\ now \in Nat /\ due[i] \in Nat
           /\ Interval[i] \in Nat \ {0}
           /\ last[i] # NoPoint => last[i].at \in Nat /\ last[i].at <= now
           /\ \A f \in Feeds : i \notin ByFeed(f)
<1>1. i \in Instruments /\ now \in Nat
  BY PricingEngineAssumption DEF Types, Timed
<1>2. last[i] # NoPoint => last[i] \in Held
  BY <1>1 DEF Types
<1>3. last[i] # NoPoint => last[i].at \in 0 .. now
  BY <1>2 DEF Held
<1>4. \A f \in Feeds : i \notin ByFeed(f)
  BY <1>1, LegPositions DEF ByFeed, Timed
<1>5. QED
  BY <1>1, <1>3, <1>4, PricingEngineAssumption DEF Types

\* A timer tick publishes the due ones and sets when each is due again.
LEMMA OnTickPaces ==
    ASSUME Types, Paced, OnTick, NEW i \in Timed
    PROVE  /\ last'[i] # NoPoint => due'[i] >= last'[i].at + Interval[i]
           /\ last'[i] # last[i] /\ last[i] # NoPoint =>
                 last'[i].at - last[i].at >= Interval[i]
<1>1. /\ Evaluate(Due, latest) /\ Due \in SUBSET Instruments
      /\ latest \in [Feeds -> Observation]
  BY OnTickTypes DEF Types
<1>2. /\ i \in Instruments /\ now \in Nat /\ due[i] \in Nat
      /\ Interval[i] \in Nat \ {0}
      /\ last[i] # NoPoint => last[i].at \in Nat /\ last[i].at <= now
  BY PacedTypes
<1>3. /\ i \notin Due => last'[i] = last[i]
      /\ last'[i] = last[i] \/ last'[i].at = now
  BY <1>1, TimedEvaluated
<1>4. due'[i] = IF i \in Due THEN now + Interval[i] ELSE due[i]
  BY <1>2 DEF OnTick, Reschedule
<1>5. last[i] # NoPoint => due[i] >= last[i].at + Interval[i]
  BY DEF Paced
<1>6. CASE i \in Due
  <2>1. now >= due[i]
    BY <1>6 DEF Due
  <2>2. QED
    BY <1>2, <1>3, <1>4, <1>5, <1>6, <2>1
<1>7. CASE i \notin Due
  BY <1>3, <1>4, <1>5, <1>7
<1>8. QED
  BY <1>6, <1>7

LEMMA OnUnderlyingPaces ==
    ASSUME Types, NEW f \in Feeds, NEW v \in Prices, NEW t \in Times(f),
           OnUnderlying(f, v, t), NEW i \in Timed
    PROVE  last'[i] = last[i] /\ due'[i] = due[i]
<1>1. /\ latest' \in [Feeds -> Observation] /\ due' = due
      /\ Evaluate(ByFeed(f), latest')
  BY OnUnderlyingTypes
<1>2. ByFeed(f) \in SUBSET Instruments /\ i \notin ByFeed(f)
  BY PacedTypes DEF ByFeed
<1>3. QED
  BY <1>1, <1>2, TimedEvaluated

-----------------------------------------------------------------------------
(***************************************************************************)
(* What a lag has kept and let go                                          *)
(***************************************************************************)
\* Base values are in the order of their times.
Ordered ==
    \A i \in Instruments : \A m, n \in 1 .. Len(samples[i]) :
        m <= n => samples[i][m].at <= samples[i][n].at

\* e lists the elements of Y, which are numbers, in increasing order.
Lists(e, len, Y) ==
    /\ e \in [1 .. len -> Y]
    /\ \A n \in Y : \E m \in 1 .. len : e[m] = n
    /\ \A m, n \in 1 .. len : m < n => e[m] < e[n]

\* The buffer of the k-th transform holds those that reached it and are not
\* yet old, in order, each with its time.
Buffered(i, k) ==
    \E e : /\ Lists(e, Len(buf[i][k]), Given(i, k) \ Old(i, k))
           /\ \A m \in 1 .. Len(buf[i][k]) :
                  buf[i][k][m] = [at |-> samples[i][e[m]].at,
                                  ctx |-> Reached(i, k, e[m])]

\* What is served is made of the newest that is old.
Serves(i, k) ==
    IF Old(i, k) = {} THEN last[i].ctx = None
    ELSE LET value == Through(Behind(i, k), Reached(i, k, Max(Old(i, k))))
         IN  value.known => last[i].ctx = value

LagKept(i, k) == FirstLag(i, k) => Buffered(i, k) /\ Serves(i, k)

LagsKept == Ordered /\ \A i \in Instruments : \A k \in DOMAIN Transforms[i] : LagKept(i, k)

\* The list with n at its end, and without its first r.
Longer(e, len, n) == [m \in 1 .. (len + 1) |-> IF m <= len THEN e[m] ELSE n]
Dropped(e, len, r) == [m \in 1 .. (len - r) |-> e[r + m]]

InOrder(at, N) ==
    /\ \A n \in 1 .. N : at[n] \in Int
    /\ \A m, n \in 1 .. N : m <= n => at[m] <= at[n]

\* The first r of the list are those up to cut.
CutAt(at, e, len, r, cut) ==
    /\ \A m \in 1 .. r : at[e[m]] <= cut
    /\ r < len => at[e[r + 1]] > cut

LEMMA LongerList ==
    ASSUME NEW N \in Nat \ {0}, NEW Y \in SUBSET (1 .. (N - 1)), NEW len \in Nat,
           NEW e, Lists(e, len, Y)
    PROVE  Lists(Longer(e, len, N), len + 1, Y \cup {N})
<1> DEFINE f == Longer(e, len, N)
<1>1. \A m \in 1 .. len : f[m] = e[m] /\ e[m] \in Y /\ m \in 1 .. (len + 1)
  BY DEF Longer, Lists
<1>2. f[len + 1] = N /\ len + 1 \in 1 .. (len + 1)
  BY DEF Longer
<1>3. \A m \in 1 .. (len + 1) : m \in 1 .. len \/ m = len + 1
  OBVIOUS
<1>4. f \in [1 .. (len + 1) -> Y \cup {N}]
  <2>1. \A m \in 1 .. (len + 1) : f[m] \in Y \cup {N}
    BY <1>1, <1>2, <1>3
  <2>2. f = [m \in 1 .. (len + 1) |-> f[m]]
    BY DEF Longer
  <2> HIDE DEF f
  <2>3. QED
    BY <2>1, <2>2
<1>5. \A n \in Y \cup {N} : \E m \in 1 .. (len + 1) : f[m] = n
  BY <1>1, <1>2 DEF Lists
<1>6. \A n \in Y : n \in Int /\ n < N
  OBVIOUS
<1> HIDE DEF f
<1>7. ASSUME NEW m \in 1 .. (len + 1), NEW n \in 1 .. (len + 1), m < n
      PROVE  f[m] < f[n]
  <2>1. m \in 1 .. len
    BY <1>7
  <2>2. CASE n \in 1 .. len
    BY <1>1, <1>7, <2>1, <2>2 DEF Lists
  <2>3. CASE n = len + 1
    BY <1>1, <1>2, <1>6, <2>1, <2>3
  <2>4. QED
    BY <1>3, <2>2, <2>3
<1>8. QED
  BY <1>4, <1>5, <1>7 DEF Lists, f

\* Those in Y up to cut; those that left G before cut, which are older than
\* the rest.
UpTo(cut, at, Y) == {n \in Y : at[n] <= cut}
Outlived(O, G, at, cut) == \A n \in O : at[n] <= cut /\ \A m \in G \ O : n < m

\* When a value N joins those in the list and all up to cut leave it, the
\* ones that leave are older than those that stay, and the last of them is
\* the newest that ever left.
LEMMA AgedSplit ==
    ASSUME NEW N \in Nat \ {0}, NEW at, InOrder(at, N),
           NEW G \in SUBSET (1 .. (N - 1)), NEW O \in SUBSET G, NEW cut \in Int,
           Outlived(O, G, at, cut),
           NEW len \in Nat, NEW f, Lists(f, len, (G \ O) \cup {N}),
           NEW r \in 0 .. len, CutAt(at, f, len, r, cut)
    PROVE  LET New == UpTo(cut, at, G \cup {N})
           IN /\ r = 0 => New = O
              /\ r > 0 => f[r] \in New /\ \A n \in New : n <= f[r]
              /\ Lists(Dropped(f, len, r), len - r, (G \cup {N}) \ New)
<1> DEFINE New == {n \in G \cup {N} : at[n] <= cut}
<1>1. /\ N \in 1 .. N /\ G \cup {N} \subseteq 1 .. N
      /\ \A n \in O : n \in Int /\ n < N
  OBVIOUS
<1>1a. \A n \in O : at[n] <= cut /\ \A m \in G \ O : n < m
  BY DEF Outlived
<1>2. \A m \in 1 .. len : f[m] \in (G \ O) \cup {N} /\ f[m] \in 1 .. N
  BY <1>1 DEF Lists
<1>3. ASSUME NEW m \in 1 .. len
      PROVE  m <= r <=> at[f[m]] <= cut
  <2>1. CASE m <= r
    <3>1. m \in 1 .. r
      BY <2>1
    <3>2. QED
      BY <2>1, <3>1 DEF CutAt
  <2>2. CASE ~(m <= r)
    <3>1. r < len /\ r + 1 \in 1 .. len /\ r + 1 <= m
      BY <2>2
    <3>2. at[f[r + 1]] > cut
      BY <3>1 DEF CutAt
    <3>3. f[r + 1] <= f[m]
      <4>1. CASE r + 1 = m
        BY <1>2, <4>1
      <4>2. CASE r + 1 < m
        <5>1. f[r + 1] < f[m]
          BY <3>1, <4>2 DEF Lists
        <5>2. QED
          BY <1>2, <3>1, <5>1
      <4>3. QED
        BY <3>1, <4>1, <4>2
    <3>4. at[f[r + 1]] <= at[f[m]] /\ at[f[r + 1]] \in Int /\ at[f[m]] \in Int
      BY <1>2, <3>1, <3>3 DEF InOrder
    <3>5. QED
      BY <2>2, <3>2, <3>4
  <2>3. QED
    BY <2>1, <2>2
<1>4. \A n \in New : n \in O \/ \E m \in 1 .. len : m <= r /\ f[m] = n
  <2> SUFFICES ASSUME NEW n \in New, n \notin O
               PROVE  \E m \in 1 .. len : m <= r /\ f[m] = n
    OBVIOUS
  <2>1. n \in (G \ O) \cup {N} /\ at[n] <= cut
    OBVIOUS
  <2>2. PICK m \in 1 .. len : f[m] = n
    BY <2>1 DEF Lists
  <2>3. QED
    BY <1>3, <2>1, <2>2
<1>5. ASSUME r = 0 PROVE New = O
  <2>1. New \subseteq O
    <3>1. \A m \in 1 .. len : ~(m <= r)
      BY <1>5
    <3>2. QED
      BY <1>4, <3>1
  <2>2. O \subseteq New
    BY <1>1a
  <2>3. QED
    BY <2>1, <2>2
<1>6. ASSUME r > 0 PROVE f[r] \in New /\ \A n \in New : n <= f[r]
  <2>1. r \in 1 .. len
    BY <1>6
  <2>2. f[r] \in (G \ O) \cup {N} /\ f[r] \in Int /\ at[f[r]] <= cut
    BY <1>2, <1>3, <2>1
  <2>3. f[r] \in New
    BY <2>2
  <2>4. ASSUME NEW n \in O PROVE n <= f[r]
    BY <1>1, <1>1a, <2>2
  <2>5. ASSUME NEW m \in 1 .. len, m <= r PROVE f[m] <= f[r]
    <3>1. m < r => f[m] < f[r]
      BY <2>1 DEF Lists
    <3>2. m = r \/ m < r
      BY <2>1, <2>5
    <3>3. QED
      BY <1>2, <2>1, <3>1, <3>2
  <2> HIDE DEF New
  <2>6. QED
    BY <1>4, <2>3, <2>4, <2>5
<1>7. Lists(Dropped(f, len, r), len - r, (G \cup {N}) \ New)
  <2> DEFINE d == Dropped(f, len, r)
  <2>1. \A m \in 1 .. (len - r) : /\ r + m \in 1 .. len /\ ~(r + m <= r)
                                  /\ d[m] = f[r + m]
    BY DEF Dropped
  <2>2. \A m \in 1 .. (len - r) : d[m] \in (G \cup {N}) \ New
    BY <1>2, <1>3, <2>1
  <2>3. d \in [1 .. (len - r) -> (G \cup {N}) \ New]
    BY <2>2 DEF Dropped
  <2>4. ASSUME NEW n \in (G \cup {N}) \ New
        PROVE  \E m \in 1 .. (len - r) : d[m] = n
    <3>1. n \in (G \ O) \cup {N} /\ ~(at[n] <= cut)
      BY <1>1a
    <3>2. PICK m \in 1 .. len : f[m] = n
      BY <3>1 DEF Lists
    <3>3. ~(m <= r)
      BY <1>3, <3>1, <3>2
    <3>4. m - r \in 1 .. (len - r) /\ r + (m - r) = m
      BY <3>3
    <3>5. QED
      BY <2>1, <3>2, <3>4
  <2>5. ASSUME NEW m \in 1 .. (len - r), NEW n \in 1 .. (len - r), m < n
        PROVE  d[m] < d[n]
    <3>1. r + m < r + n
      BY <2>5
    <3>2. QED
      BY <2>1, <3>1 DEF Lists
  <2> HIDE DEF d
  <2>6. QED
    BY <2>3, <2>4, <2>5 DEF Lists, d
<1>8. New = UpTo(cut, at, G \cup {N})
  BY DEF UpTo
<1>9. QED
  BY <1>5, <1>6, <1>7, <1>8

\* Where nothing was evaluated, nothing is kept or let go.
LEMMA NothingKept ==
    ASSUME NEW i \in Instruments, NEW k \in DOMAIN Transforms[i], LagKept(i, k),
           samples'[i] = samples[i], buf'[i] = buf[i], last'[i] = last[i]
    PROVE  LagKept(i, k)'
<1>1. \A n : Reached(i, k, n)' = Reached(i, k, n)
  BY DEF Reached
<1>2. Given(i, k)' = Given(i, k)
  BY <1>1 DEF Given
<1>3. Old(i, k)' = Old(i, k)
  BY <1>2 DEF Old
<1>4. QED
  BY <1>1, <1>2, <1>3 DEF LagKept, Buffered, Serves

\* A new base value is the last one.
LEMMA OneMore ==
    ASSUME NEW i \in Instruments, NEW c, samples[i] \in Seq(Held),
           [at |-> now, ctx |-> c] \in Held,
           samples'[i] = Append(samples[i], [at |-> now, ctx |-> c])
    PROVE  /\ Len(samples[i]) \in Nat /\ Len(samples'[i]) = Len(samples[i]) + 1
           /\ \A n \in 1 .. Len(samples[i]) :
                 samples'[i][n] = samples[i][n] /\ samples[i][n] \in Held
           /\ samples'[i][Len(samples[i]) + 1] = [at |-> now, ctx |-> c]
  BY AppendProperties

LEMMA EvaluateKeepsOrder ==
    ASSUME Types, Ordered, NEW S \in SUBSET Instruments,
           NEW obs \in [Feeds -> Observation], Evaluate(S, obs)
    PROVE  Ordered'
<1> SUFFICES ASSUME NEW i \in Instruments,
                    NEW m \in 1 .. Len(samples'[i]), NEW n \in 1 .. Len(samples'[i]),
                    m <= n
             PROVE  samples'[i][m].at <= samples'[i][n].at
  BY DEF Ordered
<1> DEFINE c == BaseFor(obs, i)
<1>1. /\ samples'[i] = IF i \in S /\ c.known
                       THEN Append(samples[i], [at |-> now, ctx |-> c])
                       ELSE samples[i]
      /\ samples[i] \in Seq(Held) /\ now \in Nat
      /\ c.known => [at |-> now, ctx |-> c] \in Held
  BY EvaluateEach, EvaluatedTypes DEF Types
<1> HIDE DEF c
<1>2. CASE i \in S /\ c.known
  <2>1. /\ Len(samples[i]) \in Nat /\ Len(samples'[i]) = Len(samples[i]) + 1
        /\ \A j \in 1 .. Len(samples[i]) :
              samples'[i][j] = samples[i][j] /\ samples[i][j] \in Held
        /\ samples'[i][Len(samples[i]) + 1] = [at |-> now, ctx |-> c]
    BY <1>1, <1>2, OneMore
  <2>2. \A x \in Held : x.at \in Int /\ x.at <= now
    BY <1>1 DEF Held
  <2>3. CASE n \in 1 .. Len(samples[i])
    BY <2>1, <2>3 DEF Ordered
  <2>4. CASE n = Len(samples[i]) + 1
    BY <1>1, <2>1, <2>2, <2>4
  <2>5. QED
    BY <2>1, <2>3, <2>4
<1>3. CASE ~(i \in S /\ c.known)
  BY <1>1, <1>3 DEF Ordered
<1>4. QED
  BY <1>2, <1>3

\* What is left of a list without its first r.
LEMMA WithoutFirst ==
    ASSUME NEW Y, NEW q \in Seq(Y), NEW n \in Nat, Len(q) = n, NEW r \in 0 .. n
    PROVE  /\ Len(SubSeq(q, r + 1, n)) = n - r
           /\ \A m \in 1 .. (n - r) : SubSeq(q, r + 1, n)[m] = q[r + m]
<1>1. PICK a : a = r + 1
  OBVIOUS
<1>2. a \in Int /\ n \in Int /\ \A j \in a .. n : q[j] \in Y
  BY <1>1
<1>3. /\ Len(SubSeq(q, a, n)) = IF a <= n THEN n - a + 1 ELSE 0
      /\ \A j \in 1 .. (n - a + 1) : SubSeq(q, a, n)[j] = q[a + j - 1]
  BY <1>2, SubSeqProperties
<1>4. QED
  BY <1>1, <1>3

\* What an evaluation leaves in the first lag of i, and what is served then.
LEMMA EvaluateKeepsLag ==
    ASSUME Types, LagsKept, NEW S \in SUBSET Instruments,
           NEW obs \in [Feeds -> Observation], Evaluate(S, obs), now' = now,
           NEW i \in Instruments, NEW k \in DOMAIN Transforms[i]
    PROVE  LagKept(i, k)'
<1>a. PICK c : c = BaseFor(obs, i)
  OBVIOUS
<1>b. PICK x : x = Through(Before(i, k), c)
  OBVIOUS
<1>c. PICK len, N : len = Len(buf[i][k]) /\ N = Len(samples[i]) + 1
  OBVIOUS
<1>d. PICK G, O : G = Given(i, k) /\ O = Old(i, k)
  OBVIOUS
<1>0. /\ buf'[i] = IF i \in S /\ c.known THEN Transformed(i, c).bufs ELSE buf[i]
      /\ samples'[i] = IF i \in S /\ c.known
                       THEN Append(samples[i], [at |-> now, ctx |-> c])
                       ELSE samples[i]
      /\ last'[i] = IF i \in S /\ c.known /\ Transformed(i, c).ctx.known
                    THEN [at |-> now, ctx |-> Transformed(i, c).ctx] ELSE last[i]
  BY <1>a, EvaluateEach
<1>1. /\ c \in Context /\ now \in Nat
      /\ c.known => [at |-> now, ctx |-> c] \in Held
      /\ samples[i] \in Seq(Held)
      /\ buf[i] \in [1 .. Len(Transforms[i]) -> Seq(Held)]
  BY <1>a, EvaluatedTypes DEF Types
<1>2. LagKept(i, k) /\ Ordered'
  BY EvaluateKeepsOrder DEF LagsKept
<1>3. CASE ~(i \in S /\ c.known)
  BY <1>0, <1>2, <1>3, NothingKept
<1>4. CASE i \in S /\ c.known
  <2> SUFFICES ASSUME FirstLag(i, k) PROVE Buffered(i, k)' /\ Serves(i, k)'
    BY DEF LagKept, FirstLag
  <2>1. /\ N - 1 \in Nat /\ N \in Nat \ {0} /\ N - 1 = Len(samples[i])
        /\ Len(samples'[i]) = N
        /\ \A n \in 1 .. (N - 1) : samples'[i][n] = samples[i][n]
                                   /\ samples[i][n] \in Held
        /\ samples'[i][N] = [at |-> now, ctx |-> c]
    BY <1>0, <1>1, <1>4, <1>c, OneMore
  <2>2. /\ x \in Context
        /\ ~x.known => /\ Transformed(i, c).ctx = None
                       /\ Transformed(i, c).bufs[k] = buf[i][k]
        /\ x.known =>
              /\ Joined(i, k, x) \in Seq(Held)
              /\ Len(Joined(i, k, x)) = len + 1
              /\ Leaving(i, k, x) \in 0 .. Len(Joined(i, k, x))
              /\ Transformed(i, c).bufs[k] =
                    SubSeq(Joined(i, k, x), Leaving(i, k, x) + 1,
                           Len(Joined(i, k, x)))
              /\ Leaving(i, k, x) = 0 => Transformed(i, c).ctx = None
              /\ Leaving(i, k, x) > 0 =>
                    (Sent(i, k, x).known => Transformed(i, c).ctx = Sent(i, k, x))
    <3>1. /\ c \in Context /\ now \in Nat
          /\ buf[i] \in [1 .. Len(Transforms[i]) -> Seq(Held)]
          /\ x = Through(Before(i, k), c)
      BY <1>1, <1>b
    <3>2. /\ x \in Context
          /\ ~x.known => /\ Transformed(i, c).ctx = None
                         /\ Transformed(i, c).bufs[k] = buf[i][k]
      BY <3>1, FirstLagTurn
    <3>3. ASSUME x.known
          PROVE  /\ Joined(i, k, x) \in Seq(Held)
                 /\ Len(Joined(i, k, x)) = Len(buf[i][k]) + 1
                 /\ Leaving(i, k, x) \in 0 .. Len(Joined(i, k, x))
                 /\ Transformed(i, c).bufs[k] =
                       SubSeq(Joined(i, k, x), Leaving(i, k, x) + 1,
                              Len(Joined(i, k, x)))
                 /\ Leaving(i, k, x) = 0 => Transformed(i, c).ctx = None
                 /\ Leaving(i, k, x) > 0 =>
                       (Sent(i, k, x).known => Transformed(i, c).ctx = Sent(i, k, x))
      BY <3>1, <3>3, FirstLagTurn
    <3>4. QED
      BY <1>c, <3>2, <3>3
  <2>3. Buffered(i, k) /\ Serves(i, k)
    BY <1>2 DEF LagKept
  <2>4. /\ \A n \in 1 .. (N - 1) : Reached(i, k, n)' = Reached(i, k, n)
        /\ Reached(i, k, N)' = x
    BY <1>b, <2>1 DEF Reached
  <2>5. /\ G \in SUBSET (1 .. (N - 1)) /\ O \in SUBSET G
        /\ Given(i, k)' = IF x.known THEN G \cup {N} ELSE G
    <3>1. Given(i, k)' = {n \in 1 .. N : Reached(i, k, n)'.known}
      BY <2>1 DEF Given
    <3>2. G = {n \in 1 .. (N - 1) : Reached(i, k, n).known}
      BY <1>d, <2>1 DEF Given
    <3>3. 1 .. N = (1 .. (N - 1)) \cup {N} /\ N \notin 1 .. (N - 1)
      BY <2>1
    <3>4. O \in SUBSET G
      BY <1>d DEF Old
    <3>5. QED
      BY <2>4, <3>1, <3>2, <3>3, <3>4
  <2>6. /\ \A n \in G : n \in 1 .. (N - 1) /\ samples[i][n].at \in Int
        /\ G # {} => Max(G) \in G /\ samples[i][Max(G)].at <= now
    <3>1. \A n \in G : n \in 1 .. (N - 1) /\ samples[i][n] \in Held
      BY <2>1, <2>5
    <3>2. \A y \in Held : y.at \in Int /\ y.at <= now
      BY <1>1 DEF Held
    <3>3. G # {} => Max(G) \in G
      BY <2>1, <2>5, MaxOfPositions
    <3>4. QED
      BY <3>1, <3>2, <3>3
  <2>7. CASE ~x.known
    <3>1. Given(i, k)' = G /\ buf'[i][k] = buf[i][k] /\ last'[i] = last[i]
      <4>1. Transformed(i, c).ctx = None /\ ~None.known
        BY <2>2, <2>7 DEF None
      <4>2. QED
        BY <1>0, <1>4, <2>2, <2>5, <2>7, <4>1
    <3>2. Old(i, k)' = O
      <4>1. \A n \in G : samples'[i][n] = samples[i][n]
        BY <2>1, <2>6
      <4>2. CASE G = {}
        BY <1>d, <3>1, <4>2 DEF Old
      <4>3. CASE G # {}
        <5>1. samples'[i][Max(G)] = samples[i][Max(G)]
          BY <2>6, <4>1, <4>3
        <5>2. Old(i, k)' = {n \in G : samples'[i][n].at
                               <= samples'[i][Max(G)].at - Transforms[i][k].ticks}
          BY <3>1 DEF Old
        <5>3. QED
          BY <1>d, <4>1, <5>1, <5>2 DEF Old
      <4>4. QED
        BY <4>2, <4>3
    <3>3. O # {} => Max(O) \in 1 .. (N - 1)
      <4>1. O # {} => Max(O) \in O
        BY <2>1, <2>5, MaxOfPositions
      <4>2. QED
        BY <2>5, <4>1
    <3>4. Serves(i, k)'
      BY <1>d, <2>3, <2>4, <3>1, <3>2, <3>3 DEF Serves
    <3>5. Buffered(i, k)'
      <4>1. PICK e : /\ Lists(e, len, G \ O)
                     /\ \A m \in 1 .. len :
                            buf[i][k][m] = [at |-> samples[i][e[m]].at,
                                            ctx |-> Reached(i, k, e[m])]
        BY <1>c, <1>d, <2>3 DEF Buffered
      <4>2. \A m \in 1 .. len : e[m] \in 1 .. (N - 1)
        BY <2>5, <4>1 DEF Lists
      <4>3. \A m \in 1 .. len :
                buf'[i][k][m] = [at |-> samples'[i][e[m]].at,
                                 ctx |-> Reached(i, k, e[m])']
        BY <2>1, <2>4, <3>1, <4>1, <4>2
      <4>4. QED
        BY <1>c, <3>1, <3>2, <4>1, <4>3 DEF Buffered
    <3>6. QED
      BY <3>4, <3>5
  <2>8. CASE x.known
    <3>a. PICK at : at = [n \in 1 .. N |-> samples'[i][n].at]
      OBVIOUS
    <3>b. PICK cut, q, r :
              /\ cut = now - Transforms[i][k].ticks
              /\ q = Joined(i, k, x) /\ r = Leaving(i, k, x)
      OBVIOUS
    <3>c. PICK New : New = UpTo(cut, at, G \cup {N})
      OBVIOUS
    <3>1. /\ cut \in Int /\ Transforms[i][k].ticks \in Nat
          /\ k \in 1 .. Len(Transforms[i]) /\ buf[i][k] \in Seq(Held)
      <4>1. Transforms[i][k] \in Transform
        BY PricingEngineAssumption
      <4>2. Transforms[i][k].ticks \in Nat /\ k \in 1 .. Len(Transforms[i])
        BY <4>1 DEF FirstLag, Transform
      <4>3. QED
        BY <1>1, <3>b, <4>2
    <3>2. InOrder(at, N)
      <4>1. \A n \in 1 .. N : at[n] \in Int
        <5>1. \A y \in Held : y.at \in Int
          BY <1>1 DEF Held
        <5>2. \A n \in 1 .. N : samples'[i][n] \in Held
          BY <1>1, <1>4, <2>1
        <5>3. QED
          BY <3>a, <5>1, <5>2
      <4>2. \A m, n \in 1 .. N : m <= n => at[m] <= at[n]
        BY <1>2, <2>1, <3>a DEF Ordered
      <4>3. QED
        BY <4>1, <4>2 DEF InOrder
    <3>3. Given(i, k)' = G \cup {N} /\ Max(G \cup {N}) = N
      <4>1. Given(i, k)' = G \cup {N} /\ G \cup {N} \in SUBSET (1 .. N)
        BY <2>1, <2>5, <2>8
      <4>2. /\ Max(G \cup {N}) \in 1 .. N
            /\ N <= Max(G \cup {N})
        BY <2>1, <4>1, MaxOfPositions
      <4>3. QED
        BY <2>1, <4>1, <4>2
    <3>4. Old(i, k)' = New
      <4>1. Old(i, k)' = {n \in G \cup {N} : samples'[i][n].at <= cut}
        BY <2>1, <3>3, <3>b DEF Old
      <4>2. \A n \in G \cup {N} : n \in 1 .. N
        BY <2>1, <2>5
      <4>3. QED
        BY <3>a, <3>c, <4>1, <4>2 DEF UpTo
    <3>5. \A n \in O : at[n] <= cut /\ \A m \in G \ O : n < m
      <4> SUFFICES ASSUME NEW n \in O
                   PROVE  at[n] <= cut /\ \A m \in G \ O : n < m
        OBVIOUS
      <4>1. /\ n \in 1 .. (N - 1) /\ G # {}
            /\ \A m \in G : m \in 1 .. (N - 1) /\ m \in 1 .. N
                            /\ at[m] = samples[i][m].at
        BY <2>1, <2>5, <3>a
      <4>2. /\ samples[i][n].at <= samples[i][Max(G)].at - Transforms[i][k].ticks
            /\ \A m \in G \ O :
                  ~(samples[i][m].at
                      <= samples[i][Max(G)].at - Transforms[i][k].ticks)
        BY <1>d, <2>5 DEF Old
      <4>3. at[n] <= cut
        <5>1. /\ samples[i][n].at \in Int /\ samples[i][Max(G)].at \in Int
              /\ samples[i][Max(G)].at <= now
          BY <2>5, <2>6, <4>1
        <5>2. at[n] = samples[i][n].at
          BY <2>5, <4>1
        <5>3. samples[i][n].at <= samples[i][Max(G)].at - Transforms[i][k].ticks
          BY <4>2
        <5>4. now \in Int /\ Transforms[i][k].ticks \in Int
              /\ cut = now - Transforms[i][k].ticks
          BY <1>1, <3>1, <3>b
        <5>5. QED
          BY <5>1, <5>2, <5>3, <5>4
      <4>4. ASSUME NEW m \in G \ O, ~(n < m) PROVE FALSE
        <5>1. m \in 1 .. N /\ n \in 1 .. N /\ m \in Int /\ n \in Int
          BY <2>1, <2>5, <4>1
        <5>1a. m <= n
          BY <4>4, <5>1
        <5>2. at[m] <= at[n] /\ at[m] \in Int /\ at[n] \in Int
          BY <3>2, <5>1, <5>1a DEF InOrder
        <5>3. at[n] <= samples[i][Max(G)].at - Transforms[i][k].ticks
          BY <2>5, <4>1, <4>2
        <5>4. ~(at[m] <= samples[i][Max(G)].at - Transforms[i][k].ticks)
          BY <4>1, <4>2
        <5>5. samples[i][Max(G)].at \in Int
          BY <2>6, <4>1
        <5>6. QED
          BY <3>1, <5>2, <5>3, <5>4, <5>5
      <4>5. QED
        BY <4>3, <4>4
    <3>6. PICK e : /\ Lists(e, len, G \ O)
                   /\ \A m \in 1 .. len :
                          buf[i][k][m] = [at |-> samples[i][e[m]].at,
                                          ctx |-> Reached(i, k, e[m])]
      BY <1>c, <1>d, <2>3 DEF Buffered
    <3>d. PICK f : f = Longer(e, len, N)
      OBVIOUS
    <3>7. len \in Nat /\ Lists(f, len + 1, (G \ O) \cup {N})
      <4>1. len \in Nat /\ (G \ O) \in SUBSET (1 .. (N - 1))
        BY <1>c, <2>5, <3>1
      <4>2. QED
        BY <2>1, <3>6, <3>d, <4>1, LongerList
    <3>8. /\ q \in Seq(Held) /\ Len(q) = len + 1 /\ r \in 0 .. (len + 1)
          /\ \A m \in 1 .. (len + 1) :
                q[m] = [at |-> at[f[m]], ctx |-> Reached(i, k, f[m])']
      <4>1. q \in Seq(Held) /\ Len(q) = len + 1 /\ r \in 0 .. (len + 1)
        BY <2>2, <2>8, <3>b
      <4>2. \A m \in 1 .. len :
                q[m] = [at |-> at[f[m]], ctx |-> Reached(i, k, f[m])']
        <5> SUFFICES ASSUME NEW m \in 1 .. len
                     PROVE  q[m] = [at |-> at[f[m]], ctx |-> Reached(i, k, f[m])']
          OBVIOUS
        <5>1. f[m] = e[m] /\ e[m] \in 1 .. (N - 1) /\ e[m] \in 1 .. N
          <6>1. e[m] \in G \ O
            BY <3>6 DEF Lists
          <6>2. f[m] = e[m]
            BY <3>7, <3>d DEF Longer
          <6>3. e[m] \in 1 .. (N - 1)
            BY <2>5, <6>1
          <6>4. e[m] \in 1 .. N
            BY <2>1, <6>3
          <6>5. QED
            BY <6>2, <6>3, <6>4
        <5>2. q[m] = buf[i][k][m]
          BY <1>c, <3>1, <3>7, <3>b DEF Joined
        <5>3. at[e[m]] = samples[i][e[m]].at
          BY <2>1, <3>a, <5>1
        <5>4. Reached(i, k, e[m])' = Reached(i, k, e[m])
          BY <2>4, <5>1
        <5>5. q[m] = [at |-> samples[i][e[m]].at, ctx |-> Reached(i, k, e[m])]
          BY <3>6, <5>2
        <5>6. QED
          BY <5>1, <5>3, <5>4, <5>5
      <4>3. q[len + 1] = [at |-> at[f[len + 1]], ctx |-> Reached(i, k, f[len + 1])']
        <5>1. f[len + 1] = N
          BY <3>7, <3>d DEF Longer
        <5>2. q[len + 1] = [at |-> now, ctx |-> x]
          BY <1>c, <3>1, <3>7, <3>b DEF Joined
        <5>3. N \in 1 .. N
          BY <2>1
        <5>4. at[N] = now
          BY <2>1, <3>a, <5>3
        <5>5. QED
          BY <2>4, <5>1, <5>2, <5>4
      <4>4. \A m \in 1 .. (len + 1) : m \in 1 .. len \/ m = len + 1
        BY <3>7
      <4>5. QED
        BY <4>1, <4>2, <4>3, <4>4
    <3>9. CutAt(at, f, len + 1, r, cut)
      <4>1. /\ \A n \in 1 .. r : q[n].at <= cut
            /\ r < Len(q) => q[r + 1].at > cut
        BY <1>1, <3>1, <3>8, <3>b, AgedIsFront DEF Leaving
      <4>2. /\ \A m \in 1 .. r : m \in 1 .. (len + 1)
            /\ r < len + 1 => r + 1 \in 1 .. (len + 1)
        BY <3>7, <3>8
      <4>3. QED
        BY <3>8, <4>1, <4>2 DEF CutAt
    <3>10. /\ r = 0 => New = O
           /\ r > 0 => f[r] \in New /\ \A n \in New : n <= f[r]
           /\ Lists(Dropped(f, len + 1, r), (len + 1) - r, (G \cup {N}) \ New)
      <4>1. len + 1 \in Nat
        BY <3>7
      <4>2. Outlived(O, G, at, cut)
        BY <3>5 DEF Outlived
      <4>3. PICK top \in Nat : top = len + 1
        BY <4>1
      <4>4. /\ N \in Nat \ {0} /\ G \in SUBSET (1 .. (N - 1)) /\ O \in SUBSET G
            /\ r \in 0 .. top /\ Lists(f, top, (G \ O) \cup {N})
            /\ CutAt(at, f, top, r, cut) /\ cut \in Int /\ InOrder(at, N)
        BY <2>1, <2>5, <3>1, <3>2, <3>7, <3>8, <3>9, <4>3
      <4>5. LET U == UpTo(cut, at, G \cup {N})
            IN /\ r = 0 => U = O
               /\ r > 0 => f[r] \in U /\ \A n \in U : n <= f[r]
               /\ Lists(Dropped(f, top, r), top - r, (G \cup {N}) \ U)
        BY <4>2, <4>4, AgedSplit
      <4>6. /\ r = 0 => New = O
            /\ r > 0 => f[r] \in New /\ \A n \in New : n <= f[r]
            /\ Lists(Dropped(f, top, r), top - r, (G \cup {N}) \ New)
        BY <3>c, <4>5, Zenon
      <4>7. QED
        BY <4>3, <4>6, Zenon
    <3>11. Buffered(i, k)'
      <4>a. PICK d : d = Dropped(f, len + 1, r)
        OBVIOUS
      <4>1. /\ buf'[i][k] = SubSeq(q, r + 1, len + 1)
            /\ Len(buf'[i][k]) = (len + 1) - r
            /\ \A m \in 1 .. ((len + 1) - r) : buf'[i][k][m] = q[r + m]
        <5>1. buf'[i][k] = SubSeq(q, r + 1, len + 1)
          BY <1>0, <1>4, <2>2, <2>8, <3>8, <3>b
        <5>2. len + 1 \in Nat /\ q \in Seq(Held) /\ Len(q) = len + 1
              /\ r \in 0 .. (len + 1)
          BY <3>7, <3>8
        <5>6. /\ Len(SubSeq(q, r + 1, len + 1)) = (len + 1) - r
              /\ \A m \in 1 .. ((len + 1) - r) : SubSeq(q, r + 1, len + 1)[m] = q[r + m]
          <6>1. PICK top \in Nat : top = len + 1
            BY <5>2
          <6>2. Len(q) = top /\ r \in 0 .. top
            BY <5>2, <6>1
          <6>3. /\ Len(SubSeq(q, r + 1, top)) = top - r
                /\ \A m \in 1 .. (top - r) : SubSeq(q, r + 1, top)[m] = q[r + m]
            BY <5>2, <6>2, WithoutFirst
          <6>4. QED
            BY <6>1, <6>3, Zenon
        <5>7. QED
          BY <5>1, <5>6
      <4>2. \A m \in 1 .. ((len + 1) - r) :
                /\ d[m] = f[r + m] /\ r + m \in 1 .. (len + 1)
                /\ d[m] \in 1 .. N
        <5>1. \A m \in 1 .. ((len + 1) - r) : d[m] = f[r + m] /\ r + m \in 1 .. (len + 1)
          BY <3>7, <3>8, <4>a DEF Dropped
        <5>2. (G \ O) \cup {N} \subseteq 1 .. N
          BY <2>1, <2>5
        <5>3. \A m \in 1 .. (len + 1) : f[m] \in 1 .. N
          BY <3>7, <5>2 DEF Lists
        <5>4. QED
          BY <5>1, <5>3
      <4>3. \A m \in 1 .. ((len + 1) - r) :
                buf'[i][k][m] = [at |-> samples'[i][d[m]].at,
                                 ctx |-> Reached(i, k, d[m])']
        <5>1. \A m \in 1 .. ((len + 1) - r) : at[d[m]] = samples'[i][d[m]].at
          BY <3>a, <4>2
        <5> SUFFICES ASSUME NEW m \in 1 .. ((len + 1) - r)
                     PROVE  buf'[i][k][m] = [at |-> samples'[i][d[m]].at,
                                             ctx |-> Reached(i, k, d[m])']
          OBVIOUS
        <5>2. /\ buf'[i][k][m] = q[r + m] /\ d[m] = f[r + m]
              /\ r + m \in 1 .. (len + 1)
          BY <4>1, <4>2
        <5>3. PICK j \in 1 .. (len + 1) : j = r + m
          BY <5>2
        <5>4. /\ q[j] = [at |-> at[f[j]], ctx |-> Reached(i, k, f[j])']
              /\ d[m] = f[j] /\ buf'[i][k][m] = q[j]
          BY <3>8, <5>2, <5>3
        <5>5. QED
          BY <5>1, <5>4
      <4>4. Lists(d, Len(buf'[i][k]), Given(i, k)' \ Old(i, k)')
        BY <3>3, <3>4, <3>10, <4>1, <4>a
      <4>5. QED
        BY <4>1, <4>3, <4>4 DEF Buffered
    <3>12. Serves(i, k)'
      <4>1. CASE r = 0
        <5>1. New = O
          BY <3>10, <4>1
        <5>2. last'[i] = last[i]
          <6>1. Transformed(i, c).ctx = None /\ ~None.known
            BY <2>2, <2>8, <3>b, <4>1 DEF None
          <6>2. QED
            BY <1>0, <6>1
        <5>3. O # {} => Reached(i, k, Max(O))' = Reached(i, k, Max(O))
          <6>1. O # {} => Max(O) \in O
            BY <2>1, <2>5, MaxOfPositions
          <6>2. QED
            BY <2>4, <2>5, <6>1
        <5>4. QED
          BY <1>d, <2>3, <3>4, <5>1, <5>2, <5>3 DEF Serves
      <4>2. CASE r > 0
        <5>1. f[r] \in New /\ \A n \in New : n <= f[r]
          BY <3>10, <4>2
        <5>2. New \in SUBSET (1 .. N)
          <6>1. G \cup {N} \subseteq 1 .. N
            BY <2>1, <2>5
          <6>2. New \subseteq G \cup {N}
            BY <3>c DEF UpTo
          <6>3. QED
            BY <6>1, <6>2
        <5>3. Max(New) = f[r]
          <6>1. Max(New) \in New /\ f[r] <= Max(New)
            BY <2>1, <5>1, <5>2, MaxOfPositions
          <6>2. Max(New) <= f[r]
            BY <5>1, <6>1
          <6>2a. Max(New) \in 1 .. N /\ f[r] \in 1 .. N
            BY <5>1, <5>2, <6>1
          <6>3. QED
            BY <2>1, <6>1, <6>2, <6>2a
        <5>4. r \in 1 .. (len + 1)
          BY <3>7, <3>8, <4>2
        <5>5. q[r].ctx = Reached(i, k, f[r])'
          BY <3>8, <5>4
        <5>6. Through(Behind(i, k), q[r].ctx).known =>
                  last'[i].ctx = Through(Behind(i, k), q[r].ctx)
          <6>1. Through(Behind(i, k), q[r].ctx).known =>
                    Transformed(i, c).ctx = Through(Behind(i, k), q[r].ctx)
            BY <2>2, <2>8, <3>b, <4>2 DEF Sent
          <6>2. QED
            BY <1>0, <1>4, <6>1
        <5>7. QED
          BY <3>4, <5>1, <5>3, <5>5, <5>6 DEF Serves
      <4>3. QED
        BY <3>7, <3>8, <4>1, <4>2
    <3>13. QED
      BY <3>11, <3>12
  <2>9. QED
    BY <2>7, <2>8
<1>5. QED
  BY <1>3, <1>4

LEMMA InitLags == Init => LagsKept
<1> SUFFICES ASSUME Init PROVE LagsKept
  OBVIOUS
<1>1. Ordered
  BY DEF Init, Ordered
<1>2. ASSUME NEW i \in Instruments, NEW k \in DOMAIN Transforms[i]
      PROVE  Buffered(i, k) /\ Serves(i, k)
  <2>1. samples[i] = <<>> /\ last[i].ctx = None
    BY <1>2 DEF Init, NoPoint
  <2>2. DOMAIN Transforms[i] = 1 .. Len(Transforms[i])
    BY <1>2, PricingEngineAssumption
  <2>3. buf[i][k] = <<>>
    BY <1>2, <2>2 DEF Init
  <2>4. Given(i, k) = {} /\ Old(i, k) = {}
    BY <2>1 DEF Given, Old
  <2> DEFINE e == [m \in 1 .. 0 |-> 0]
  <2>5. Lists(e, 0, {})
    BY DEF Lists
  <2> HIDE DEF e
  <2>6. Buffered(i, k)
    BY <2>3, <2>4, <2>5 DEF Buffered
  <2>7. QED
    BY <2>1, <2>4, <2>6 DEF Serves
<1>3. QED
  BY <1>1, <1>2 DEF LagsKept, LagKept

LEMMA EvaluateKeepsLags ==
    ASSUME Types, LagsKept, NEW S \in SUBSET Instruments,
           NEW obs \in [Feeds -> Observation], Evaluate(S, obs), now' = now
    PROVE  LagsKept'
<1>1. Ordered'
  BY EvaluateKeepsOrder DEF LagsKept
<1>2. \A i \in Instruments : \A k \in DOMAIN Transforms[i] : LagKept(i, k)'
  BY EvaluateKeepsLag
<1>3. QED
  BY <1>1, <1>2 DEF LagsKept

LEMMA IdleKeepsLags ==
    ASSUME LagsKept, UNCHANGED <<samples, buf, last>>
    PROVE  LagsKept'
<1>1. Ordered'
  BY DEF LagsKept, Ordered
<1>2. \A i \in Instruments : \A k \in DOMAIN Transforms[i] : LagKept(i, k)'
  BY NothingKept DEF LagsKept
<1>3. QED
  BY <1>1, <1>2 DEF LagsKept

\* No value gets through a list with a lag without the buffer.
LEMMA LagStops ==
    ASSUME NEW list \in Seq(Transform), NEW c \in Context,
           NEW j \in 1 .. Len(list), list[j].kind = "lag"
    PROVE  ~Through(list, c).known
<1> DEFINE n == Len(list)
<1>0. n \in Nat /\ \A k \in 1 .. n : k \in 0 .. n /\ k - 1 \in 0 .. n
  OBVIOUS
<1>1. PICK h \in [0 .. n -> Context] :
          /\ \A k \in 1 .. n : h[k] = Pass(h[k - 1], list[k])
          /\ Through(list, c) = h[n]
  BY ThroughSteps
<1> HIDE DEF n
<1> DEFINE T == {k \in 0 .. n : j <= k => ~h[k].known}
<1>2. j \in 1 .. n
  BY DEF n
<1>3. 0 \in T
  BY <1>0, <1>2
<1>4. ASSUME NEW k \in 1 .. n, k - 1 \in T PROVE k \in T
  <2>1. ~None.known
    BY DEF None
  <2>2. CASE k = j
    <3>1. h[k - 1].known => h[k] = Mapped(list[j], h[k - 1])
      BY <1>1, <2>2 DEF Pass
    <3>2. h[k] = None
      BY <1>1, <2>2, <3>1 DEF Pass, Mapped
    <3>3. QED
      BY <1>0, <2>1, <3>2
  <2>3. CASE j <= k - 1
    <3>1. ~h[k - 1].known
      BY <1>4, <2>3
    <3>2. h[k] = None
      BY <1>1, <3>1 DEF Pass
    <3>3. QED
      BY <1>0, <2>1, <3>2
  <2>4. CASE k < j
    BY <1>0, <1>2, <2>4
  <2>5. QED
    BY <1>2, <2>2, <2>3, <2>4
<1> HIDE DEF T
<1>5. \A k \in 0 .. n : k \in T
  BY <1>0, <1>3, <1>4, AlongPositions
<1>6. n \in T /\ j <= n
  BY <1>0, <1>2, <1>5
<1>7. QED
  BY <1>1, <1>6 DEF T

-----------------------------------------------------------------------------
(***************************************************************************)
(* The theorems                                                            *)
(***************************************************************************)
IndInv == Types /\ NoStaleDerivation /\ Rebased /\ Paced /\ LagsKept

\* Initially and with every step.
LEMMA InitInv == Init => IndInv
<1> SUFFICES ASSUME Init PROVE IndInv
  OBVIOUS
<1>1. Types /\ NoStaleDerivation
  BY InitTypes, InitNoStale
<1>2. Rebased
  BY DEF Init, Rebased
<1>3. Paced
  BY DEF Init, Paced, Timed
<1>4. LagsKept
  BY InitLags
<1>5. QED
  BY <1>1, <1>2, <1>3, <1>4 DEF IndInv

LEMMA StepInv == IndInv /\ [Next]_vars => IndInv'
<1> SUFFICES ASSUME IndInv, [Next]_vars PROVE IndInv'
  OBVIOUS
<1> USE DEF IndInv
<1>1. ASSUME NEW f \in Feeds, NEW v \in Prices, NEW t \in Times(f),
             OnUnderlying(f, v, t)
      PROVE  IndInv'
  <2>1. Types' /\ NoStaleDerivation'
    BY <1>1, OnUnderlyingTypes, OnUnderlyingNoStale
  <2>2. /\ latest' \in [Feeds -> Observation] /\ Evaluate(ByFeed(f), latest')
        /\ ByFeed(f) \in SUBSET Instruments
    BY <1>1, OnUnderlyingTypes DEF ByFeed
  <2>3. Rebased'
    BY <2>2, BasketEvaluated DEF Rebased
  <2>4. \A i \in Timed : last'[i] = last[i] /\ due'[i] = due[i]
    BY <1>1, OnUnderlyingPaces
  <2>5. Paced'
    BY <2>4 DEF Paced, Timed
  <2>6. LagsKept'
    <3>1. now' = now
      BY <1>1, OnUnderlyingTypes
    <3>2. QED
      BY <2>2, <3>1, EvaluateKeepsLags
  <2>7. QED
    BY <2>1, <2>3, <2>5, <2>6
<1>2. ASSUME OnTick PROVE IndInv'
  <2>1. Types' /\ NoStaleDerivation'
    BY <1>2, OnTickTypes, OnTickNoStale
  <2>2. /\ latest \in [Feeds -> Observation] /\ Evaluate(Due, latest)
        /\ Due \in SUBSET Instruments
    BY <1>2, OnTickTypes DEF Types
  <2>3. Rebased'
    BY <2>2, BasketEvaluated DEF Rebased
  <2>4. Paced'
    BY <1>2, OnTickPaces DEF Paced, Timed
  <2>5. LagsKept'
    <3>1. now' = now
      BY <1>2, OnTickTypes
    <3>2. QED
      BY <2>2, <3>1, EvaluateKeepsLags
  <2>6. QED
    BY <2>1, <2>3, <2>4, <2>5
<1>3. ASSUME Elapse PROVE IndInv'
  <2>1. Types' /\ NoStaleDerivation'
    BY <1>3, ElapseTypes, ElapseNoStale
  <2>2. Rebased' /\ Paced'
    BY <1>3 DEF Elapse, Rebased, Paced, Timed
  <2>3. LagsKept'
    BY <1>3, IdleKeepsLags DEF Elapse
  <2>4. QED
    BY <2>1, <2>2, <2>3
<1>4. ASSUME UNCHANGED vars PROVE IndInv'
  <2>1. Types'
    BY <1>4 DEF Types, vars, Held
  <2>2. NoStaleDerivation'
    BY <1>4 DEF NoStaleDerivation, ValueNow, Immediate, Timed, vars
  <2>3. Rebased' /\ Paced'
    BY <1>4 DEF Rebased, Paced, Timed, vars
  <2>4. LagsKept'
    BY <1>4, IdleKeepsLags DEF vars
  <2>5. QED
    BY <2>1, <2>2, <2>3, <2>4
<1>5. QED
  BY <1>1, <1>2, <1>3, <1>4 DEF Next

LEMMA Invariance == Spec => []IndInv
  BY InitInv, StepInv, PTL DEF Spec

\* Every variable keeps its type: no sample is younger than the clock, only
\* lags hold samples, and a published value has a positive denominator.
THEOREM TypeCorrect == Spec => []TypeOK
<1>1. ASSUME Types PROVE TypeOK
  <2>1. now \in Nat
    BY <1>1, PricingEngineAssumption DEF Types
  <2>2. \A o \in Observation : o.time <= now =>
            o \in [known : BOOLEAN, value : Nat \X {1}, time : {NoTime} \cup 0 .. now]
    <3> SUFFICES ASSUME NEW o \in Observation, o.time <= now
                 PROVE  o \in [known : BOOLEAN, value : Nat \X {1},
                               time : {NoTime} \cup 0 .. now]
      OBVIOUS
    <3>1. CASE o = None
      BY <3>1 DEF None, NoTime
    <3>2. CASE o \in [known : {TRUE}, value : Nat \X {1}, time : {NoTime} \cup Nat]
      <4>1. o.time \in {NoTime} \cup 0 .. now
        BY <2>1, <3>2
      <4>2. /\ o = [known |-> TRUE, value |-> o.value, time |-> o.time]
            /\ o.value \in Nat \X {1}
        BY <3>2
      <4>3. [known |-> TRUE, value |-> o.value, time |-> o.time]
              \in [known : BOOLEAN, value : Nat \X {1}, time : {NoTime} \cup 0 .. now]
        BY <4>1, <4>2, Zenon
      <4>4. QED
        BY <4>2, <4>3, Zenon
    <3>3. QED
      BY <3>1, <3>2 DEF Observation
  <2>3. latest \in [Feeds -> [known : BOOLEAN, value : Nat \X {1},
                              time : {NoTime} \cup 0 .. now]]
    BY <1>1, <2>2 DEF Types
  <2>4. ASSUME NEW c \in Context
        PROVE  /\ c \in [known : BOOLEAN, value : Int \X Nat, time : Int]
               /\ c.known => c.value[2] > 0
    <3>1. CASE c = None
      BY <3>1 DEF None, NoTime
    <3>2. CASE c \in [known : {TRUE}, value : Fraction, time : {NoTime} \cup Nat]
      <4>1. /\ c = [known |-> TRUE, value |-> c.value, time |-> c.time]
            /\ c.value \in Fraction /\ c.time \in {NoTime} \cup Nat
        BY <3>2
      <4>2. c.value \in Int \X Nat /\ c.value[2] > 0 /\ c.time \in Int
        BY <4>1 DEF Fraction, NoTime
      <4>3. [known |-> TRUE, value |-> c.value, time |-> c.time]
              \in [known : BOOLEAN, value : Int \X Nat, time : Int]
        BY <4>2, Zenon
      <4>4. c \in [known : BOOLEAN, value : Int \X Nat, time : Int]
        BY <4>1, <4>3, Zenon
      <4>5. QED
        BY <4>2, <4>4
    <3>3. QED
      BY <3>1, <3>2 DEF Context
  <2>5. ASSUME NEW p \in {NoPoint} \cup Held
        PROVE  p \in Point /\ (p.ctx.known => p.ctx.value[2] > 0)
    <3>1. p = [at |-> p.at, ctx |-> p.ctx] /\ p.ctx \in Context /\ p.at \in Int
      <4>1. CASE p = NoPoint
        BY <4>1 DEF NoPoint, NoTime, Context
      <4>2. CASE p \in Held
        BY <2>1, <4>2 DEF Held
      <4>3. QED
        BY <4>1, <4>2
    <3>2. QED
      BY <2>4, <3>1 DEF Point
  <2>6. \A i \in Instruments : last[i] \in {NoPoint} \cup Held
    BY <1>1 DEF Types
  <2>7. last \in [Instruments -> Point]
    BY <1>1, <2>5, <2>6 DEF Types
  <2>8. ASSUME NEW i \in Instruments
        PROVE  /\ DOMAIN buf[i] = DOMAIN Transforms[i]
               /\ \A k \in DOMAIN buf[i] :
                     /\ \A n \in 1 .. Len(buf[i][k]) : buf[i][k][n].at \in 0 .. now
                     /\ Transforms[i][k].kind # "lag" => buf[i][k] = <<>>
               /\ last[i].ctx.known => last[i].ctx.value[2] > 0
    <3>1. /\ buf[i] \in [1 .. Len(Transforms[i]) -> Seq(Held)]
          /\ \A k \in 1 .. Len(Transforms[i]) :
                Transforms[i][k].kind # "lag" => buf[i][k] = <<>>
      BY <1>1 DEF Types
    <3>2. DOMAIN Transforms[i] = 1 .. Len(Transforms[i])
      BY PricingEngineAssumption
    <3>3. ASSUME NEW k \in 1 .. Len(Transforms[i]), NEW n \in 1 .. Len(buf[i][k])
          PROVE  buf[i][k][n].at \in 0 .. now
      <4>1. buf[i][k] \in Seq(Held)
        BY <3>1
      <4>2. buf[i][k][n] \in Held
        BY <4>1
      <4>3. QED
        BY <4>2 DEF Held
    <3>4. QED
      BY <2>5, <2>6, <3>1, <3>2, <3>3
  <2>9. QED
    BY <1>1, <2>3, <2>7, <2>8 DEF Types, TypeOK
<1>2. IndInv => TypeOK
  BY <1>1 DEF IndInv
<1>3. QED
  BY <1>2, Invariance, PTL

\* What is served for an instrument without a lag derives from the newest
\* observation of every feed it uses, for any number of legs and any list of
\* transforms: on_underlying re-evaluates every instrument registered for the
\* feed, and no other value depends on it.
THEOREM NoStale == Spec => []NoStaleDerivation
<1>1. IndInv => NoStaleDerivation
  BY DEF IndInv
<1>2. QED
  BY <1>1, Invariance, PTL

\* A derived point is never fresher than a leg that carries a time: older()
\* keeps the oldest of them, and no transform changes it.
THEOREM NeverFresher == Spec => []NeverFresherThanALeg
<1>1. ASSUME IndInv PROVE NeverFresherThanALeg
  <2> SUFFICES ASSUME NEW i \in Immediate \ Timed, NEW f \in LegSet(i),
                      ValueNow(i).known, latest[f].time # NoTime
               PROVE  last[i].ctx.time \in 0 .. latest[f].time
    BY DEF NeverFresherThanALeg
  <2>1. /\ i \in Instruments /\ Kind[i] # "timed"
        /\ Transforms[i] \in Seq(Transform)
    BY ImmediateKinds
  <2>2. /\ latest \in [Feeds -> Observation] /\ factor[i] \in Nat /\ now \in Nat
    BY <1>1, <2>1, PricingEngineAssumption DEF IndInv, Types
  <2>3. PICK c \in Context : c = EvalBase(latest, i, factor[i], now)
    BY <2>1, <2>2, EvalBaseTypes
  <2>4. c.known /\ ValueNow(i).time = c.time
    BY <2>1, <2>3, ThroughTypes DEF ValueNow
  <2>5. c.time = OldestTime(latest, i)
    BY <2>1, <2>2, <2>3, <2>4, EvalBaseTypes
  <2>6. OldestTime(latest, i) \in 0 .. latest[f].time
    BY <2>1, <2>2, OldestTimeIsOldest
  <2>7. last[i].ctx = ValueNow(i)
    BY <1>1 DEF IndInv, NoStaleDerivation
  <2>8. QED
    BY <2>4, <2>5, <2>6, <2>7
<1>2. QED
  BY <1>1, Invariance, PTL

\* A lagged instrument serves the newest value that was as old as its lag when
\* it was last evaluated, for any lag, any transforms around it and however
\* irregular the observations: what is in the buffer are exactly the values
\* that came too late to be served, in order, and none of them overtakes.
THEOREM LagExact == Spec => []LagIsExact
<1>1. ASSUME IndInv PROVE LagIsExact
  <2> SUFFICES ASSUME NEW i \in Instruments, NEW k \in DOMAIN Transforms[i],
                      Transforms[i][k].kind = "lag", Given(i, k) # {}
               PROVE  Serves(i, k)
    BY DEF LagIsExact, Serves
  <2>1. /\ k \in 1 .. Len(Transforms[i]) /\ k - 1 \in Int
        /\ \A j \in 1 .. (k - 1) : Transforms[i][j] \in Transform
    BY PricingEngineAssumption
  <2>2. samples[i] \in Seq(Held)
    BY <1>1 DEF IndInv, Types
  <2>3. PICK n \in 1 .. Len(samples[i]) : Reached(i, k, n).known
    BY DEF Given
  <2>4. samples[i][n].ctx \in Context
    <3>1. samples[i][n] \in Held
      BY <2>2
    <3>2. QED
      BY <3>1 DEF Held
  <2>5. ASSUME NEW j \in 1 .. (k - 1) PROVE Transforms[i][j].kind # "lag"
    <3>1. /\ Before(i, k) \in Seq(Transform) /\ Len(Before(i, k)) = k - 1
          /\ Before(i, k)[j] = Transforms[i][j]
      <4>1. PICK m : m = k - 1
        OBVIOUS
      <4>2. m \in Int /\ 1 \in Int /\ \A l \in 1 .. m : Transforms[i][l] \in Transform
        BY <2>1, <4>1
      <4>3. /\ SubSeq(Transforms[i], 1, m) \in Seq(Transform)
            /\ Len(SubSeq(Transforms[i], 1, m)) = IF 1 <= m THEN m - 1 + 1 ELSE 0
            /\ \A l \in 1 .. (m - 1 + 1) :
                  SubSeq(Transforms[i], 1, m)[l] = Transforms[i][1 + l - 1]
        BY <4>2, SubSeqProperties
      <4>4. QED
        BY <2>1, <4>1, <4>3 DEF Before
    <3>2. QED
      BY <2>3, <2>4, <3>1, LagStops DEF Reached
  <2>6. FirstLag(i, k)
    BY <2>1, <2>5 DEF FirstLag
  <2>7. QED
    BY <1>1, <2>6 DEF IndInv, LagsKept, LagKept
<1>2. QED
  BY <1>1, Invariance, PTL

\* The first point of a basket is its rebase target exactly and every later
\* one is measured on the sum of that point, for any legs and weights: the
\* factor is set once, by the first evaluation with a sum to divide by.
THEOREM OneBase == Spec => []BasketKeepsItsBase
<1>1. IndInv => BasketKeepsItsBase
  BY DEF IndInv, Rebased, BasketKeepsItsBase
<1>2. QED
  BY <1>1, Invariance, PTL

\* Two points of a peg or gbm are its interval apart, however late or close
\* together the timer ticks come.
THEOREM Pace == Spec => TimedKeepsItsPace
<1> DEFINE Apart == \A i \in Timed :
               last'[i] # last[i] /\ last[i] # NoPoint =>
                   last'[i].at - last[i].at >= Interval[i]
<1>1. ASSUME IndInv, [Next]_vars PROVE Apart
  <2>1. ASSUME NEW f \in Feeds, NEW v \in Prices, NEW t \in Times(f),
               OnUnderlying(f, v, t)
        PROVE  Apart
    BY <1>1, <2>1, OnUnderlyingPaces DEF IndInv
  <2>2. ASSUME OnTick PROVE Apart
    BY <1>1, <2>2, OnTickPaces DEF IndInv
  <2>3. ASSUME Elapse PROVE Apart
    BY <2>3 DEF Elapse
  <2>4. ASSUME UNCHANGED vars PROVE Apart
    BY <2>4 DEF vars
  <2>5. QED
    BY <1>1, <2>1, <2>2, <2>3, <2>4 DEF Next
<1>2. QED
  BY <1>1, Invariance, PTL DEF Spec, TimedKeepsItsPace

=============================================================================
