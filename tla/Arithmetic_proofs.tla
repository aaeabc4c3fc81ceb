------------------------- MODULE Arithmetic_proofs -------------------------
(***************************************************************************)
(* What the proofs about several components rest on: positions and folds   *)
(* of lists, sums over sets, the rounding of raw token amounts - always    *)
(* against the caller's limit by less than one raw token, never beyond     *)
(* what the slippage allows - and that of fixed-point prices.              *)
(***************************************************************************)
EXTENDS TokenAmounts, PriceMath, FiniteSetTheorems, WellFoundedInduction, TLAPS

-----------------------------------------------------------------------------
(***************************************************************************)
(* Positions and folds                                                     *)
(***************************************************************************)
\* A set of positions in a list has a last one, which Max chooses.
LEMMA MaxOfPositions ==
    ASSUME NEW n \in Nat, NEW S \in SUBSET (1 .. n), S # {}
    PROVE  Max(S) \in S /\ \A j \in S : j <= Max(S)
<1> DEFINE T == {n - k : k \in S}
           less == OpToRel(<, Nat)
<1>0. \A k \in S : k \in Nat /\ n - k \in Nat
  <2>1. \A k \in 1 .. n : k \in Nat /\ n - k \in Nat
    OBVIOUS
  <2>2. QED
    BY <2>1
<1>1. T \subseteq Nat /\ T # {}
  BY <1>0
<1>2. PICK m \in T : \A y \in T : <<y, m>> \notin less
  BY <1>1, NatLessThanWellFounded, WFMin
<1>3. \A y \in T : ~(y < m)
  BY <1>1, <1>2 DEF OpToRel
<1>4. PICK k \in S : m = n - k
  OBVIOUS
<1>5. \A j \in S : k >= j
  <2> SUFFICES ASSUME NEW j \in S PROVE k >= j
    OBVIOUS
  <2>1. n - j \in T
    OBVIOUS
  <2>2. ~(n - j < m)
    BY <1>3, <2>1
  <2>3. QED
    BY <1>0, <1>4, <2>2
<1>6. Max(S) \in S /\ \A y \in S : Max(S) >= y
  BY <1>4, <1>5 DEF Max
<1>7. QED
  BY <1>0, <1>6

\* A bounded set of numbers has a greatest and a least one, those Max and
\* Min choose.
LEMMA Extremes ==
    ASSUME NEW n \in Nat, NEW S \in SUBSET (0 .. n), S # {}
    PROVE  /\ Max(S) \in S /\ \A j \in S : j <= Max(S)
           /\ Min(S) \in S /\ \A j \in S : Min(S) <= j
<1> DEFINE less == OpToRel(<, Nat)
           T == {n - k : k \in S}
<1>0. \A k \in S : k \in Nat /\ n - k \in Nat
  <2>1. \A k \in 0 .. n : k \in Nat /\ n - k \in Nat
    OBVIOUS
  <2>2. QED
    BY <2>1
<1>1. S \subseteq Nat /\ T \subseteq Nat /\ T # {}
  BY <1>0
<1>2. PICK low \in S : \A y \in S : <<y, low>> \notin less
  BY <1>1, NatLessThanWellFounded, WFMin
<1>3. PICK m \in T : \A y \in T : <<y, m>> \notin less
  BY <1>1, NatLessThanWellFounded, WFMin
<1>4. (\A y \in S : ~(y < low)) /\ (\A y \in T : ~(y < m))
  BY <1>1, <1>2, <1>3 DEF OpToRel
<1>5. PICK k \in S : m = n - k
  OBVIOUS
<1>6. \A j \in S : k >= j
  <2> SUFFICES ASSUME NEW j \in S PROVE k >= j
    OBVIOUS
  <2>1. ~(n - j < m)
    BY <1>4
  <2>2. QED
    BY <1>0, <1>5, <2>1
<1>7. \A j \in S : low =< j
  BY <1>0, <1>4
<1>8. Max(S) \in S /\ \A y \in S : Max(S) >= y
  BY <1>6 DEF Max
<1>9. Min(S) \in S /\ \A y \in S : Min(S) =< y
  BY <1>7 DEF Min
<1>10. QED
  BY <1>0, <1>8, <1>9

\* What holds at 0 and goes on from each position to the next holds for all.
LEMMA AlongPositions ==
    ASSUME NEW n \in Nat, NEW T, 0 \in T,
           \A k \in 1 .. n : k - 1 \in T => k \in T
    PROVE  \A k \in 0 .. n : k \in T
<1> DEFINE less == OpToRel(<, Nat)
           bad == {k \in 0 .. n : k \notin T}
<1> SUFFICES ASSUME bad # {} PROVE FALSE
  OBVIOUS
<1>1. bad \subseteq Nat
  OBVIOUS
<1>2. PICK m \in bad : \A y \in bad : <<y, m>> \notin less
  BY <1>1, NatLessThanWellFounded, WFMin
<1>3. \A y \in bad : ~(y < m)
  BY <1>1, <1>2 DEF OpToRel
<1>4. m \in 1 .. n /\ m \notin T
  OBVIOUS
<1>5. m - 1 \in T
  BY <1>3, <1>4
<1>6. QED
  BY <1>4, <1>5

\* The set of all positions up to n, and what Max takes off it.
LEMMA LastPosition ==
    ASSUME NEW n \in Nat \ {0}
    PROVE  Max(1 .. n) = n /\ (1 .. n) \ {n} = 1 .. (n - 1) /\ 1 .. n # {}
<1>1. n \in 1 .. n /\ (1 .. n) \ {n} = 1 .. (n - 1)
  OBVIOUS
<1>2. Max(1 .. n) \in 1 .. n /\ n <= Max(1 .. n)
  BY <1>1, MaxOfPositions
<1>3. QED
  BY <1>1, <1>2

\* it folds G over sets of positions, from b on and the last position last.
FoldsWith(it, n, b, G) ==
    \A s \in SUBSET (1 .. n) :
        it[s] = IF s = {} THEN b ELSE G[Max(s)][it[s \ {Max(s)}]]

\* A fold over the positions of a list has a value on every set of positions.
LEMMA FoldExists ==
    ASSUME NEW n \in Nat, NEW S, NEW b \in S, NEW G \in [1 .. n -> [S -> S]]
    PROVE  \E it \in [SUBSET (1 .. n) -> S] : FoldsWith(it, n, b, G)
<1> DEFINE Folds(m, it) ==
               \A s \in SUBSET (1 .. m) :
                   it[s] = IF s = {} THEN b ELSE G[Max(s)][it[s \ {Max(s)}]]
           Has(m) == \E it \in [SUBSET (1 .. m) -> S] : Folds(m, it)
           T == {m \in 0 .. n : Has(m)}
<1>1. 0 \in T
  <2> DEFINE it == [s \in SUBSET (1 .. 0) |-> b]
  <2>1. 1 .. 0 = {} /\ SUBSET (1 .. 0) = {{}}
    OBVIOUS
  <2>2. it \in [SUBSET (1 .. 0) -> S] /\ Folds(0, it)
    BY <2>1
  <2>3. Has(0)
    BY <2>2
  <2> HIDE DEF Has
  <2>4. QED
    BY <2>3
<1>2. ASSUME NEW m \in 1 .. n, m - 1 \in T PROVE m \in T
  <2>1. PICK pre \in [SUBSET (1 .. (m - 1)) -> S] : Folds(m - 1, pre)
    BY <1>2
  <2> DEFINE it == [s \in SUBSET (1 .. m) |->
                       IF m \in s THEN G[m][pre[s \ {m}]] ELSE pre[s]]
  <2>2. m \in Nat /\ \A s \in SUBSET (1 .. m) :
            /\ s \ {m} \in SUBSET (1 .. (m - 1))
            /\ m \notin s => s \in SUBSET (1 .. (m - 1))
    OBVIOUS
  <2>3. it \in [SUBSET (1 .. m) -> S]
    BY <2>2
  <2>4. ASSUME NEW s \in SUBSET (1 .. m)
        PROVE  it[s] = IF s = {} THEN b ELSE G[Max(s)][it[s \ {Max(s)}]]
    <3>1. CASE m \in s
      <4>1. Max(s) \in 1 .. m /\ m <= Max(s)
        BY <2>2, <3>1, MaxOfPositions
      <4>2. Max(s) = m
        BY <2>2, <4>1
      <4>3. it[s \ {m}] = pre[s \ {m}]
        BY <2>2
      <4>4. QED
        BY <3>1, <4>2, <4>3
    <3>2. CASE m \notin s
      <4>1. s \in SUBSET (1 .. (m - 1)) /\ it[s] = pre[s]
        BY <2>2, <3>2
      <4>2. pre[s] = IF s = {} THEN b ELSE G[Max(s)][pre[s \ {Max(s)}]]
        BY <2>1, <4>1
      <4>3. it[s \ {Max(s)}] = pre[s \ {Max(s)}]
        BY <3>2, <4>1
      <4>4. QED
        BY <4>1, <4>2, <4>3
    <3>3. QED
      BY <3>1, <3>2
  <2>5. Folds(m, it)
    BY <2>4
  <2>6. Has(m)
    BY <2>3, <2>5
  <2> HIDE DEF Has
  <2>7. QED
    BY <2>6
<1> HIDE DEF T
<1>3. \A m \in 0 .. n : m \in T
  BY <1>1, <1>2, AlongPositions
<1>4. n \in T
  BY <1>3
<1> HIDE DEF Has
<1>5. Has(n)
  BY <1>4 DEF T
<1>6. QED
  BY <1>5 DEF Has, FoldsWith

\* it takes these steps as long as it stays within S.
FoldsWithin(it, n, S, b, G) ==
    /\ it[{}] = b
    /\ \A k \in 1 .. n :
           it[1 .. (k - 1)] \in S => it[1 .. k] = G[k][it[1 .. (k - 1)]]

\* h reaches the value of the fold one position after the other.
FoldPath(h, n, b, G) ==
    h[0] = b /\ \A k \in 1 .. n : h[k] = G[k][h[k - 1]]

\* Its value on the whole list is reached one position after the other.
LEMMA FoldSteps ==
    ASSUME NEW n \in Nat, NEW S, NEW b \in S, NEW G \in [1 .. n -> [S -> S]],
           NEW it, FoldsWithin(it, n, S, b, G)
    PROVE  \E h \in [0 .. n -> S] : FoldPath(h, n, b, G) /\ h[n] = it[1 .. n]
<1> DEFINE h == [k \in 0 .. n |-> it[1 .. k]]
           T == {k \in 0 .. n : it[1 .. k] \in S}
<1>1. 1 .. 0 = {}
  OBVIOUS
<1>2. \A k \in 0 .. n : it[1 .. k] \in S
  <2>1. 0 \in T
    BY <1>1 DEF FoldsWithin
  <2>2. ASSUME NEW k \in 1 .. n, k - 1 \in T PROVE k \in T
    BY <2>2 DEF FoldsWithin
  <2>3. \A k \in 0 .. n : k \in T
    BY <2>1, <2>2, AlongPositions
  <2>4. QED
    BY <2>3
<1>3. \A k \in 1 .. n : k - 1 \in 0 .. n /\ k \in 0 .. n
  OBVIOUS
<1>4. h \in [0 .. n -> S]
  BY <1>2
<1>5. h[0] = b /\ h[n] = it[1 .. n]
  BY <1>1 DEF FoldsWithin
<1>6. \A k \in 1 .. n : h[k] = G[k][h[k - 1]]
  BY <1>2, <1>3 DEF FoldsWithin
<1>7. QED
  BY <1>4, <1>5, <1>6 DEF FoldPath

-----------------------------------------------------------------------------
(***************************************************************************)
(* Sums over finite sets                                                   *)
(***************************************************************************)
\* W sums the weights w over the subsets of U.
Sums(W, U, w) ==
    /\ W \in [SUBSET U -> Nat] /\ W[{}] = 0
    /\ \A S \in SUBSET U : \A x \in S : W[S] = w[x] + W[S \ {x}]

\* There are such sums.
LEMMA SumsExist ==
    ASSUME NEW U, IsFiniteSet(U), NEW w \in [U -> Nat]
    PROVE  \E W : Sums(W, U, w)
<1> DEFINE n == Cardinality(U)
           Has(V) == \E W : Sums(W, V, w)
           T == {k \in 0 .. n : \A V \in SUBSET U : Cardinality(V) = k => Has(V)}
<1>0. n \in Nat /\ \A V \in SUBSET U : IsFiniteSet(V)
  BY FS_CardinalityType, FS_Subset
<1>1. 0 \in T
  <2>1. SUFFICES ASSUME NEW V \in SUBSET U, Cardinality(V) = 0 PROVE Has(V)
    BY <1>0
  <2>2. V = {}
    BY <1>0, <2>1, FS_EmptySet
  <2> DEFINE W == [S \in SUBSET V |-> 0]
  <2>3. Sums(W, V, w)
    BY <2>2 DEF Sums
  <2>4. QED
    BY <2>3
<1>2. ASSUME NEW k \in 1 .. n, k - 1 \in T PROVE k \in T
  <2>1. SUFFICES ASSUME NEW V \in SUBSET U, Cardinality(V) = k PROVE Has(V)
    BY <1>0
  <2>2. PICK y : y \in V
    BY <1>0, <2>1, FS_EmptySet
  <2>3. Cardinality(V \ {y}) = k - 1 /\ V \ {y} \in SUBSET U
    BY <1>0, <2>1, <2>2, FS_RemoveElement
  <2>4. PICK pre : Sums(pre, V \ {y}, w)
    BY <1>2, <2>3
  <2> DEFINE W == [S \in SUBSET V |-> IF y \in S THEN w[y] + pre[S \ {y}] ELSE pre[S]]
  <2>5. /\ pre \in [SUBSET (V \ {y}) -> Nat] /\ pre[{}] = 0
        /\ \A S \in SUBSET (V \ {y}) : \A x \in S : pre[S] = w[x] + pre[S \ {x}]
    BY <2>4 DEF Sums
  <2>6. \A S \in SUBSET V : /\ S \ {y} \in SUBSET (V \ {y}) /\ pre[S \ {y}] \in Nat
                            /\ y \notin S => S \in SUBSET (V \ {y}) /\ pre[S] \in Nat
    BY <2>5
  <2>7. (\A x \in V : w[x] \in Nat) /\ w[y] \in Nat
    BY <2>2
  <2>8. W \in [SUBSET V -> Nat] /\ W[{}] = 0
    BY <2>5, <2>6, <2>7
  <2>9. ASSUME NEW S \in SUBSET V, NEW x \in S PROVE W[S] = w[x] + W[S \ {x}]
    <3>1. w[x] \in Nat /\ S \ {x} \in SUBSET V
      BY <2>7
    <3>2. CASE x = y
      BY <2>6, <3>1, <3>2
    <3>3. CASE x # y /\ y \in S
      <4>1. /\ (S \ {x}) \ {y} = (S \ {y}) \ {x} /\ y \in S \ {x}
            /\ x \in S \ {y} /\ S \ {y} \in SUBSET (V \ {y})
        BY <3>3
      <4>2. pre[S \ {y}] = w[x] + pre[(S \ {y}) \ {x}]
        BY <2>5, <4>1
      <4>3. pre[(S \ {y}) \ {x}] \in Nat
        BY <2>6, <3>1, <4>1
      <4>4. W[S] = w[y] + pre[S \ {y}] /\ W[S \ {x}] = w[y] + pre[(S \ {y}) \ {x}]
        BY <3>1, <3>3, <4>1
      <4> HIDE DEF W
      <4>5. QED
        BY <2>7, <3>1, <4>2, <4>3, <4>4
    <3>4. CASE y \notin S
      <4>1. pre[S] = w[x] + pre[S \ {x}]
        BY <2>5, <3>4
      <4>2. QED
        BY <3>1, <3>4, <4>1
    <3>5. QED
      BY <3>2, <3>3, <3>4
  <2>10. Sums(W, V, w)
    BY <2>8, <2>9 DEF Sums
  <2>11. QED
    BY <2>10
<1> HIDE DEF T
<1>3. \A k \in 0 .. n : k \in T
  BY <1>0, <1>1, <1>2, AlongPositions
<1>4. n \in T
  BY <1>0, <1>3
<1>5. QED
  BY <1>4 DEF T

\* What takes off one element after the other arrives at the same sum.
LEMMA SumsAreUnique ==
    ASSUME NEW U, IsFiniteSet(U), NEW w, NEW W, Sums(W, U, w),
           NEW f, f[{}] = 0,
           \A S \in SUBSET U : S # {} =>
             \E x \in S : f[S] = w[x] + f[S \ {x}]
    PROVE  f[U] = W[U]
<1> DEFINE n == Cardinality(U)
           T == {k \in 0 .. n : \A V \in SUBSET U : Cardinality(V) = k => f[V] = W[V]}
<1>0. n \in Nat /\ \A V \in SUBSET U : IsFiniteSet(V)
  BY FS_CardinalityType, FS_Subset
<1>1. 0 \in T
  <2>1. SUFFICES ASSUME NEW V \in SUBSET U, Cardinality(V) = 0 PROVE f[V] = W[V]
    BY <1>0
  <2>2. V = {}
    BY <1>0, <2>1, FS_EmptySet
  <2>3. QED
    BY <2>2 DEF Sums
<1>2. ASSUME NEW k \in 1 .. n, k - 1 \in T PROVE k \in T
  <2>1. SUFFICES ASSUME NEW V \in SUBSET U, Cardinality(V) = k PROVE f[V] = W[V]
    BY <1>0
  <2>2. V # {}
    BY <1>0, <2>1, FS_EmptySet
  <2>3. PICK x \in V : f[V] = w[x] + f[V \ {x}]
    BY <2>2
  <2>4. Cardinality(V \ {x}) = k - 1 /\ V \ {x} \in SUBSET U
    BY <1>0, <2>1, FS_RemoveElement
  <2>5. f[V \ {x}] = W[V \ {x}]
    BY <1>2, <2>4
  <2>6. QED
    BY <2>3, <2>5 DEF Sums
<1> HIDE DEF T
<1>3. \A k \in 0 .. n : k \in T
  BY <1>0, <1>1, <1>2, AlongPositions
<1>4. n \in T
  BY <1>0, <1>3
<1>5. QED
  BY <1>4 DEF T

\* The sum over two sets without a common element.
LEMMA SumOfBoth ==
    ASSUME NEW U, IsFiniteSet(U), NEW w \in [U -> Nat], NEW W, Sums(W, U, w),
           NEW P \in SUBSET U, NEW Q \in SUBSET U, P \cap Q = {}
    PROVE  W[P \cup Q] = W[P] + W[Q]
<1> DEFINE n == Cardinality(P)
           Adds(V) == W[V \cup Q] = W[V] + W[Q]
           T == {k \in 0 .. n : \A V \in SUBSET P : Cardinality(V) = k => Adds(V)}
<1> HIDE DEF Adds
<1>0. n \in Nat /\ \A V \in SUBSET P : IsFiniteSet(V)
  BY FS_CardinalityType, FS_Subset
<1>0a. \A S \in SUBSET U : W[S] \in Nat
  BY DEF Sums
<1>1. 0 \in T
  <2>1. SUFFICES ASSUME NEW V \in SUBSET P, Cardinality(V) = 0
                 PROVE  Adds(V)
    BY <1>0
  <2>2. V = {} /\ V \cup Q = Q
    BY <1>0, <2>1, FS_EmptySet
  <2>3. QED
    BY <1>0a, <2>2 DEF Sums, Adds
<1>2. ASSUME NEW k \in 1 .. n, k - 1 \in T PROVE k \in T
  <2>1. SUFFICES ASSUME NEW V \in SUBSET P, Cardinality(V) = k
                 PROVE  Adds(V)
    BY <1>0
  <2>2. PICK x : x \in V
    BY <1>0, <2>1, FS_EmptySet
  <2>3. Cardinality(V \ {x}) = k - 1 /\ V \ {x} \in SUBSET P
    BY <1>0, <2>1, <2>2, FS_RemoveElement
  <2>4. W[(V \ {x}) \cup Q] = W[V \ {x}] + W[Q]
    BY <1>2, <2>3 DEF Adds
  <2>5. (V \cup Q) \ {x} = (V \ {x}) \cup Q /\ V \cup Q \in SUBSET U /\ V \in SUBSET U
    BY <2>2
  <2>6. W[V \cup Q] = w[x] + W[(V \ {x}) \cup Q] /\ W[V] = w[x] + W[V \ {x}]
    BY <2>2, <2>5 DEF Sums
  <2>7. w[x] \in Nat /\ W[V \ {x}] \in Nat /\ W[Q] \in Nat
    BY <1>0a, <2>2
  <2>8. QED
    BY <2>4, <2>6, <2>7 DEF Adds
<1> HIDE DEF T
<1>3. \A k \in 0 .. n : k \in T
  BY <1>0, <1>1, <1>2, AlongPositions
<1>4. n \in T
  BY <1>0, <1>3
<1>5. QED
  BY <1>4 DEF T, Adds

-----------------------------------------------------------------------------
(***************************************************************************)
(* Slippage and transfer fees                                              *)
(***************************************************************************)
\* CeilDiv is the least number whose b-fold is at least a.
LEMMA CeilDivIsLeast ==
    ASSUME NEW a \in Nat, NEW b \in Nat \ {0}
    PROVE  /\ CeilDiv(a, b) \in Nat
           /\ a <= b * CeilDiv(a, b)
           /\ b * CeilDiv(a, b) < a + b
<1> DEFINE n == a + b - 1
           q == n \div b
           r == n % b
<1>1. n \in Nat
    OBVIOUS
<1> HIDE DEF n
<1>2. q \in Nat /\ r \in 0 .. (b - 1) /\ n = b * q + r
    BY <1>1
<1>3. CeilDiv(a, b) = q
    BY DEF CeilDiv, n
<1> HIDE DEF q, r
<1>4. b * q \in Nat
    BY <1>2
<1> QED
    BY <1>2, <1>3, <1>4 DEF n

LEMMA SlippageUp ==
    ASSUME NEW amount \in Nat, NEW s, s = CeilDiv(amount * (10000 + SlippageBps), 10000)
    PROVE  /\ s \in Nat /\ amount <= s
           /\ amount * (10000 + SlippageBps) <= 10000 * s
           /\ 10000 * s < amount * (10000 + SlippageBps) + 10000
<1>1. PICK n \in Nat : n = amount * (10000 + SlippageBps) /\ 10000 * amount <= n
    BY SlippageAssumption
<1>2. s \in Nat /\ n <= 10000 * s /\ 10000 * s < n + 10000
    BY <1>1, CeilDivIsLeast
<1> QED
    BY <1>1, <1>2

LEMMA SlippageDown ==
    ASSUME NEW amount \in Nat, NEW s, s = (amount * (10000 - SlippageBps)) \div 10000
    PROVE  /\ s \in 0 .. amount
           /\ 10000 * s <= amount * (10000 - SlippageBps)
           /\ amount * (10000 - SlippageBps) < 10000 * s + 10000
<1>1. PICK n \in Nat : n = amount * (10000 - SlippageBps) /\ n <= 10000 * amount
    BY SlippageAssumption
<1>2. s \in Nat /\ 10000 * s <= n /\ n < 10000 * s + 10000
    BY <1>1
<1> QED
    BY <1>1, <1>2

\* A maximum is the least amount that contains the quote and the slippage: a
\* caller never offers less than what he accepted, nor a raw token too much.
THEOREM MaximumIsLeast ==
    \A amount \in Nat : \A s :
        s = ApplySlippage(amount, TRUE) =>
            /\ s \in Nat /\ amount <= s
            /\ amount * (10000 + SlippageBps) <= 10000 * s
            /\ 10000 * s < amount * (10000 + SlippageBps) + 10000
    BY SlippageUp DEF ApplySlippage

\* A minimum is the greatest amount within the slippage: no execution that
\* keeps it gives the caller less than he accepted, and the quote keeps it.
THEOREM MinimumIsGreatest ==
    \A amount \in Nat : \A s :
        s = ApplySlippage(amount, FALSE) =>
            /\ s \in 0 .. amount
            /\ 10000 * s <= amount * (10000 - SlippageBps)
            /\ amount * (10000 - SlippageBps) < 10000 * s + 10000
    BY SlippageDown DEF ApplySlippage

\* A mint that keeps one token in so many never keeps more than was sent,
\* and keeps one token of the least transfer.
THEOREM TransferFeeIsPart ==
    ASSUME NEW tax \in Nat, NEW amount \in Nat
    PROVE  /\ TransferFee(tax, amount) \in 0 .. amount
           /\ tax > 0 /\ amount > 0 => TransferFee(tax, amount) > 0
<1>1. CASE tax = 0
    BY <1>1 DEF TransferFee
<1>2. CASE tax > 0
  <2> DEFINE f == CeilDiv(amount, tax)
  <2>1. f \in Nat /\ amount <= tax * f /\ tax * f < amount + tax
    BY <1>2, CeilDivIsLeast
  <2>2. TransferFee(tax, amount) = f
    BY <1>2 DEF TransferFee
  <2> HIDE DEF f
  <2>3. f <= amount
    <3>1. SUFFICES ASSUME f >= amount + 1 PROVE FALSE
        BY <2>1
    <3>2. tax * f >= tax * (amount + 1)
        BY <1>2, <2>1, <3>1
    <3>3. tax * (amount + 1) = tax * amount + tax /\ tax * amount >= amount
        BY <1>2
    <3> QED
        BY <1>2, <2>1, <3>2, <3>3
  <2>4. amount > 0 => f > 0
    BY <1>2, <2>1
  <2> QED
    BY <2>1, <2>2, <2>3, <2>4
<1> QED
    BY <1>1, <1>2

\* The fee added to a net amount is enough: after the mint has kept its part
\* of the sum, at least the net amount arrives - and a smaller one is not.
THEOREM GrossIsLeast ==
    ASSUME NEW tax \in Nat \ {1}, NEW net \in Nat
    PROVE  LET Arrives(fee) == net + fee - TransferFee(tax, net + fee)
               added        == InverseTransferFee(tax, net)
           IN /\ added \in Nat
              /\ Arrives(added) >= net
              /\ \A fee \in 0 .. (added - 1) : Arrives(fee) < net
<1> DEFINE Arrives(fee) == net + fee - TransferFee(tax, net + fee)
           S == {f \in 0 .. (net + 1) : Arrives(f) >= net}
           added == InverseTransferFee(tax, net)
<1>1. net + 1 \in S
  <2>1. CASE tax = 0
    BY <2>1 DEF TransferFee
  <2>2. CASE tax > 1
    <3> DEFINE a == net + (net + 1)
               c == CeilDiv(a, tax)
    <3>1. a \in Nat
        OBVIOUS
    <3> HIDE DEF a
    <3>2. c \in Nat /\ tax * c < a + tax
        BY <2>2, <3>1, CeilDivIsLeast
    <3>3. TransferFee(tax, a) = c
        BY <2>2 DEF TransferFee
    <3> HIDE DEF c
    <3>4. c <= net + 1
      <4>1. SUFFICES ASSUME c >= net + 2 PROVE FALSE
          BY <3>2
      <4>2. tax * c >= tax * (net + 2) /\ tax * (net + 2) = tax * (net + 1) + tax
          BY <2>2, <3>2, <4>1
      <4>3. tax * (net + 1) >= 2 * (net + 1)
          BY <2>2
      <4> QED
          BY <2>2, <3>2, <4>2, <4>3 DEF a
    <3>5. Arrives(net + 1) >= net
        BY <3>2, <3>3, <3>4 DEF a
    <3> QED
        BY <3>5
  <2> QED
    BY <2>1, <2>2
<1>2. \E x \in S : \A y \in S : x <= y
  <2> DEFINE R == OpToRel(<, Nat)
  <2>1. IsWellFoundedOn(R, Nat)
    BY NatLessThanWellFounded
  <2>2. S \subseteq Nat /\ S # {}
    <3>1. S \subseteq 0 .. (net + 1)
        OBVIOUS
    <3> HIDE DEF S
    <3> QED
        BY <1>1, <3>1
  <2>3. \A x, y \in Nat : <<y, x>> \in R <=> y < x
    BY DEF OpToRel
  <2> HIDE DEF R, S
  <2>4. \E x \in S : \A y \in S : <<y, x>> \notin R
    BY <2>1, <2>2, WFMin
  <2>5. \E x \in S : \A y \in S : ~(y < x)
    BY <2>2, <2>3, <2>4, Zenon
  <2> QED
    BY <2>2, <2>5
<1>3. added \in S /\ \A y \in S : added <= y
    BY <1>2 DEF InverseTransferFee, Min
<1> HIDE DEF added
<1>4. added \in Nat /\ added <= net + 1 /\ Arrives(added) >= net
    BY <1>3
<1>5. ASSUME NEW fee \in 0 .. (added - 1)
      PROVE  Arrives(fee) < net
  <2>1. fee \in 0 .. (net + 1) /\ fee \notin S
    BY <1>3, <1>4
  <2>2. TransferFee(tax, net + fee) \in Int
    BY TransferFeeIsPart
  <2> QED
    BY <2>1, <2>2
<1> QED
    BY <1>4, <1>5 DEF added

-----------------------------------------------------------------------------
(***************************************************************************)
(* Rounding keeps the order of amounts                                     *)
(***************************************************************************)
\* A factor above zero can be taken off both sides.
LEMMA Cancel ==
    ASSUME NEW n \in Nat \ {0}, NEW x \in Int, NEW y \in Int, n * x < n * y
    PROVE  x < y
<1> SUFFICES ASSUME x >= y PROVE FALSE
  OBVIOUS
<1>1. n * x >= n * y
  OBVIOUS
<1>2. n * x \in Int /\ n * y \in Int
  OBVIOUS
<1>3. QED
  BY <1>1, <1>2

LEMMA CeilDivMonotone ==
    ASSUME NEW a \in Nat, NEW b \in Nat, a <= b, NEW n \in Nat \ {0}
    PROVE  CeilDiv(a, n) <= CeilDiv(b, n)
<1>1. PICK p \in Nat : p = CeilDiv(a, n) /\ n * p < a + n
  BY CeilDivIsLeast
<1>2. PICK q \in Nat : q = CeilDiv(b, n) /\ b <= n * q
  BY CeilDivIsLeast
<1>3. n * (q + 1) = n * q + n /\ n * q \in Int /\ n * p \in Int
  OBVIOUS
<1>4. n * p < n * (q + 1)
  BY <1>1, <1>2, <1>3
<1>5. p < q + 1
  BY <1>4, Cancel
<1>6. QED
  BY <1>1, <1>2, <1>5

LEMMA CeilDivWithin ==
    ASSUME NEW a \in Nat, NEW b \in Nat, NEW n \in Nat \ {0}, a <= n * b
    PROVE  CeilDiv(a, n) <= b
<1>1. PICK p \in Nat : p = CeilDiv(a, n) /\ n * p < a + n
  BY CeilDivIsLeast
<1>2. n * (b + 1) = n * b + n /\ n * b \in Int /\ n * p \in Int
  OBVIOUS
<1>3. n * p < n * (b + 1)
  BY <1>1, <1>2
<1>4. p < b + 1
  BY <1>3, Cancel
<1>5. QED
  BY <1>1, <1>4

\* The order is that of the fees a mint keeps.
LEMMA TransferFeeMonotone ==
    ASSUME NEW tax \in Nat, NEW a \in Nat, NEW b \in Nat, a <= b
    PROVE  TransferFee(tax, a) <= TransferFee(tax, b)
<1>1. CASE tax = 0
  BY <1>1 DEF TransferFee
<1>2. CASE tax # 0
  BY <1>2, CeilDivMonotone DEF TransferFee
<1>3. QED
  BY <1>1, <1>2

\* What is sent so that net arrives is the least that suffices.
LEMMA GrossOf ==
    ASSUME NEW tax \in Nat \ {1}, NEW net \in Nat
    PROVE  \E gross \in Nat :
             /\ gross = net + InverseTransferFee(tax, net)
             /\ net <= gross /\ gross - TransferFee(tax, gross) >= net
             /\ \A g \in Nat : net <= g /\ g < gross => g - TransferFee(tax, g) < net
<1>1. PICK added \in Nat : added = InverseTransferFee(tax, net)
  BY GrossIsLeast
<1>2. /\ net + added - TransferFee(tax, net + added) >= net
      /\ \A fee \in 0 .. (added - 1) :
            net + fee - TransferFee(tax, net + fee) < net
  BY <1>1, GrossIsLeast
<1>3. PICK gross \in Nat : gross = net + added
  OBVIOUS
<1>4. gross - TransferFee(tax, gross) >= net
  <2>1. net + added - TransferFee(tax, gross) >= net
    BY <1>2, <1>3, Zenon
  <2>2. TransferFee(tax, gross) \in Int
    BY TransferFeeIsPart
  <2>3. QED
    BY <1>3, <2>1, <2>2
<1>5. ASSUME NEW g \in Nat, net <= g, g < gross
      PROVE  g - TransferFee(tax, g) < net
  <2>1. PICK fee \in 0 .. (added - 1) : net + fee = g
    <3>1. g - net \in 0 .. (added - 1) /\ net + (g - net) = g
      BY <1>3, <1>5
    <3>2. QED
      BY <3>1
  <2>2. net + fee - TransferFee(tax, g) < net
    BY <1>2, <2>1, Zenon
  <2>3. TransferFee(tax, g) \in Int
    BY TransferFeeIsPart
  <2>4. QED
    BY <2>1, <2>2, <2>3
<1>6. gross = net + InverseTransferFee(tax, net) /\ net <= gross
  BY <1>1, <1>3
<1>7. QED
  BY <1>4, <1>5, <1>6

\* More arrives only of more that is sent.
LEMMA GrossGrows ==
    ASSUME NEW tax \in Nat \ {1}, NEW a \in Nat, NEW b \in Nat, a < b
    PROVE  a + InverseTransferFee(tax, a) < b + InverseTransferFee(tax, b)
<1>1. PICK h \in Nat :
        /\ h = a + InverseTransferFee(tax, a)
        /\ \A g \in Nat : a <= g /\ g < h => g - TransferFee(tax, g) < a
  BY GrossOf
<1>2. PICK g \in Nat :
        /\ g = b + InverseTransferFee(tax, b)
        /\ b <= g /\ g - TransferFee(tax, g) >= b
  BY GrossOf
<1>3. SUFFICES ASSUME g <= h PROVE FALSE
  BY <1>1, <1>2
<1>4. PICK k \in Nat : k = g - 1
  BY <1>2
<1>5. TransferFee(tax, k) <= TransferFee(tax, g)
  BY <1>4, TransferFeeMonotone
<1>6. TransferFee(tax, k) \in Int /\ TransferFee(tax, g) \in Int
  BY TransferFeeIsPart
<1>7. k - TransferFee(tax, k) < a
  BY <1>1, <1>2, <1>3, <1>4
<1>8. QED
  BY <1>2, <1>4, <1>5, <1>6, <1>7

LEMMA MaximumTypes ==
    ASSUME NEW amount \in Nat
    PROVE  ApplySlippage(amount, TRUE) \in Nat /\ amount <= ApplySlippage(amount, TRUE)
<1>1. PICK s : s = ApplySlippage(amount, TRUE)
  OBVIOUS
<1>2. s \in Nat /\ amount <= s
  BY <1>1, SlippageUp DEF ApplySlippage
<1>3. QED
  BY <1>1, <1>2

LEMMA MinimumTypes ==
    ASSUME NEW amount \in Nat
    PROVE  /\ ApplySlippage(amount, FALSE) \in Nat
           /\ ApplySlippage(amount, FALSE) <= amount
<1>1. PICK s : s = ApplySlippage(amount, FALSE)
  OBVIOUS
<1>2. s \in Nat /\ s <= amount
  BY <1>1, SlippageDown DEF ApplySlippage
<1>3. QED
  BY <1>1, <1>2

LEMMA SlippageMonotone ==
    ASSUME NEW a \in Nat, NEW b \in Nat, a <= b
    PROVE  ApplySlippage(a, TRUE) <= ApplySlippage(b, TRUE)
<1>1. PICK s \in Nat : s = 10000 + SlippageBps
  BY SlippageAssumption
<1>2. a * s \in Nat /\ b * s \in Nat /\ a * s <= b * s
  OBVIOUS
<1>3. CeilDiv(a * s, 10000) <= CeilDiv(b * s, 10000)
  BY <1>2, CeilDivMonotone
<1>4. QED
  BY <1>1, <1>3 DEF ApplySlippage

-----------------------------------------------------------------------------
(***************************************************************************)
(* The prices the oracle publishes: what their rounding, scaling and text  *)
(* form do, for every mantissa and every positive factor in place of a     *)
(* power of ten                                                            *)
(***************************************************************************)
Factor == Nat \ {0}

\* Euclidean division, on which everything below rests.
LEMMA Division ==
    ASSUME NEW m \in Int, NEW f \in Factor
    PROVE  /\ m \div f \in Int
           /\ m % f \in 0 .. (f - 1)
           /\ m = f * (m \div f) + (m % f)
    BY DEF Factor

LEMMA NatDivision ==
    ASSUME NEW m \in Nat, NEW f \in Factor
    PROVE  m \div f \in Nat
    BY DEF Factor

\* The quotient is the only number between whose multiples m lies.
LEMMA QuotientUnique ==
    ASSUME NEW m \in Nat, NEW f \in Factor, NEW q \in Nat,
           f * q <= m, m < f * (q + 1)
    PROVE  m \div f = q
    BY DEF Factor

LEMMA AbsIsNat ==
    ASSUME NEW m \in Int
    PROVE  AbsOf(m) \in Nat /\ m = SignOf(m) * AbsOf(m)
    BY DEF AbsOf, SignOf

-----------------------------------------------------------------------------
\* Scaling down loses less than one unit, never changes the sign and never
\* grows: 1532.7 becomes 1532 and -1532.7 becomes -1532.
THEOREM TruncationIsTowardZero ==
    ASSUME NEW m \in Int, NEW f \in Factor
    PROVE  /\ Truncated(m, f) \in Int
           /\ f * AbsOf(Truncated(m, f)) <= AbsOf(m)
           /\ AbsOf(m) < f * (AbsOf(Truncated(m, f)) + 1)
           /\ Truncated(m, f) # 0 => SignOf(Truncated(m, f)) = SignOf(m)
<1> DEFINE q == AbsOf(m) \div f
           r == AbsOf(m) % f
<1>1. AbsOf(m) \in Nat
    BY AbsIsNat
<1>2. q \in Nat
    BY <1>1, NatDivision
<1>3. r \in 0 .. (f - 1) /\ AbsOf(m) = f * q + r
    BY <1>1, Division
<1>4. f * q <= AbsOf(m) /\ AbsOf(m) < f * (q + 1)
  <2> HIDE DEF q, r
  <2>1. f \in Nat /\ f * q \in Nat /\ f * (q + 1) = f * q + f
    BY <1>2 DEF Factor
  <2>2. r \in Nat /\ r < f
    BY <1>3, <2>1
  <2> QED
    BY <1>1, <1>3, <2>1, <2>2
<1>5. Truncated(m, f) = SignOf(m) * q
    BY DEF Truncated
<1>6. Truncated(m, f) \in Int /\ AbsOf(Truncated(m, f)) = q
    BY <1>2, <1>5 DEF SignOf, AbsOf
<1>7. Truncated(m, f) # 0 => SignOf(Truncated(m, f)) = SignOf(m)
    BY <1>2, <1>5 DEF SignOf
<1> QED
    BY <1>4, <1>6, <1>7

\* Going to a smaller unit and back gives the same price.
THEOREM ScalingRoundTrip ==
    ASSUME NEW m \in Int, NEW f \in Factor
    PROVE  Truncated(ScaledUp(m, f), f) = m
<1>1. f \in Nat /\ f > 0
    BY DEF Factor
<1>2. SignOf(m * f) = SignOf(m) /\ AbsOf(m * f) = AbsOf(m) * f
  <2>1. CASE m < 0
    <3>1. m * f < 0 /\ m * f \in Int /\ -(m * f) = (-m) * f
        BY <1>1, <2>1
    <3> QED
        BY <2>1, <3>1 DEF SignOf, AbsOf
  <2>2. CASE m >= 0
    <3>1. m * f >= 0 /\ m * f \in Int
        BY <1>1, <2>2
    <3> QED
        BY <2>2, <3>1 DEF SignOf, AbsOf
  <2> QED
    BY <2>1, <2>2
<1>3. (AbsOf(m) * f) \div f = AbsOf(m)
  <2>1. AbsOf(m) \in Nat /\ AbsOf(m) * f \in Nat
    BY <1>1, AbsIsNat
  <2>2. f * AbsOf(m) <= AbsOf(m) * f /\ AbsOf(m) * f < f * (AbsOf(m) + 1)
    BY <1>1, <2>1
  <2> QED
    BY <2>1, <2>2, QuotientUnique
<1> QED
    BY <1>2, <1>3, AbsIsNat DEF Truncated, ScaledUp

\* Only scaling up can overflow: a mantissa that fits still does after it was
\* scaled down.
THEOREM ScalingDownFits ==
    ASSUME NEW m \in Int, NEW f \in Factor, FitsMantissa(m)
    PROVE  FitsMantissa(Truncated(m, f))
<1> DEFINE t == Truncated(m, f)
<1>1. t \in Int /\ f * AbsOf(t) <= AbsOf(m)
      /\ (t # 0 => SignOf(t) = SignOf(m))
    BY TruncationIsTowardZero
<1>2. AbsOf(t) <= AbsOf(m)
  <2>1. AbsOf(t) \in Nat /\ AbsOf(m) \in Nat /\ f \in Nat /\ f >= 1
    BY <1>1, AbsIsNat DEF Factor
  <2>2. AbsOf(t) <= f * AbsOf(t)
    BY <2>1
  <2>3. f * AbsOf(t) \in Nat
    BY <2>1
  <2> HIDE DEF t
  <2> QED
    BY <1>1, <2>1, <2>2, <2>3
<1> HIDE DEF t
<1>3. FitsMantissa(t)
    BY <1>1, <1>2, WidthAssumption DEF FitsMantissa, AbsOf, SignOf
<1> QED
    BY <1>3 DEF t

-----------------------------------------------------------------------------
\* A price made of a decimal is the nearest one of its exponent.
THEOREM RoundedIsNearest ==
    ASSUME NEW m \in Int, NEW f \in Factor
    PROVE  /\ Rounded(m, f) \in Int
           /\ 2 * AbsOf(m - f * Rounded(m, f)) <= f
<1> DEFINE q == m \div f
           r == m % f
<1>1. q \in Int /\ r \in 0 .. (f - 1) /\ m = f * q + r /\ f \in Nat
    BY Division DEF Factor
<1>2. Rounded(m, f) = IF 2 * r < f \/ (2 * r = f /\ q % 2 = 0) THEN q ELSE q + 1
    BY DEF Rounded
<1> HIDE DEF q, r
<1>3. f * q \in Int /\ f * (q + 1) = f * q + f
    BY <1>1
<1>4. m - f * q = r /\ m - f * (q + 1) = r - f
    BY <1>1, <1>3
<1>5. CASE 2 * r < f \/ (2 * r = f /\ q % 2 = 0)
    BY <1>1, <1>2, <1>4, <1>5 DEF AbsOf
<1>6. CASE ~(2 * r < f \/ (2 * r = f /\ q % 2 = 0))
  <2>1. Rounded(m, f) = q + 1 /\ 2 * r >= f
    BY <1>1, <1>2, <1>6
  <2>2. m - f * Rounded(m, f) = r - f
    BY <1>4, <2>1
  <2>3. AbsOf(r - f) = f - r
    BY <1>1 DEF AbsOf
  <2>4. 2 * (f - r) <= f
    BY <1>1, <2>1
  <2> QED
    BY <1>1, <2>1, <2>2, <2>3, <2>4
<1> QED
    BY <1>5, <1>6

\* Of two nearest ones it is the even one, so rounding has no drift.
THEOREM TiesGoToEven ==
    ASSUME NEW m \in Int, NEW f \in Factor, 2 * (m % f) = f
    PROVE  Rounded(m, f) % 2 = 0
<1> DEFINE q == m \div f
<1>1. q \in Int
    BY Division
<1>2. Rounded(m, f) = IF q % 2 = 0 THEN q ELSE q + 1
    BY DEF Rounded, Factor
<1> HIDE DEF q
<1> QED
    BY <1>1, <1>2

-----------------------------------------------------------------------------
\* Reading what was written gives the same mantissa, whatever its sign: the
\* sign is written even where the digits before the point are all zero.
THEOREM DisplayParsesBack ==
    ASSUME NEW m \in Int, NEW f \in Factor
    PROVE  JoinedDigits(Digits(m, f), f) = m
<1>1. AbsOf(m) \in Nat /\ m = SignOf(m) * AbsOf(m)
    BY AbsIsNat
<1>2. AbsOf(m) = f * (AbsOf(m) \div f) + (AbsOf(m) % f)
    BY <1>1, Division
<1>3. f * (AbsOf(m) \div f) = (AbsOf(m) \div f) * f
    BY <1>1, Division DEF Factor
<1> QED
    BY <1>1, <1>2, <1>3 DEF JoinedDigits, Digits

-----------------------------------------------------------------------------
\* apply_bps keeps the order of what it is given: more basis points never
\* make a price lower, for all its truncation.
THEOREM BpsAreMonotone ==
    ASSUME NEW m \in Nat, NEW a \in Int, NEW b \in Int,
           -10000 <= a, a <= b
    PROVE  WithBps(m, a) <= WithBps(m, b)
<1>1. m * (10000 + a) \in Nat /\ m * (10000 + b) \in Nat
    OBVIOUS
<1>2. m * (10000 + a) <= m * (10000 + b)
    OBVIOUS
<1> DEFINE x == m * (10000 + a)
           y == m * (10000 + b)
<1>3. Truncated(x, 10000) = x \div 10000 /\ Truncated(y, 10000) = y \div 10000
    BY <1>1 DEF Truncated, SignOf, AbsOf
<1>4. x \in Nat /\ y \in Nat /\ x <= y
    BY <1>1, <1>2
<1> HIDE DEF x, y
<1>5. x \div 10000 <= y \div 10000
    BY <1>4
<1> QED
    BY <1>3, <1>5 DEF WithBps, x, y

\* Scaling down in two steps is scaling down at once: unlike rounding to the
\* nearest, what checked_scale truncates does not depend on the way there.
THEOREM TruncationComposes ==
    ASSUME NEW m \in Int, NEW f \in Factor, NEW g \in Factor
    PROVE  /\ f * g \in Factor
           /\ Truncated(Truncated(m, f), g) = Truncated(m, f * g)
<1>1. PICK a \in Nat : a = AbsOf(m)
  BY AbsIsNat
<1>2. PICK q \in Nat, r \in Nat : q = a \div f /\ r < f /\ a = f * q + r
  BY Division, NatDivision DEF Factor
<1>3. PICK p \in Nat, s \in Nat : p = q \div g /\ s < g /\ q = g * p + s
  BY Division, NatDivision DEF Factor
<1>4. PICK h \in Factor : h = f * g
  BY DEF Factor
<1>5. a \div h = p
  <2>1. f \in Nat /\ g \in Nat /\ h \in Nat
    BY DEF Factor
  <2>2. PICK gp \in Nat, hp \in Nat, fs \in Nat :
          gp = g * p /\ hp = h * p /\ fs = f * s
    BY <2>1
  <2>3. f * gp = hp
    BY <1>4, <2>1, <2>2
  <2>4. f * q = hp + fs
    <3>1. f * (gp + s) = f * gp + f * s
      BY <2>1
    <3>2. QED
      BY <1>3, <2>2, <2>3, <3>1
  <2>5. fs + r < h
    <3>1. PICK k \in Nat : k = g - (s + 1)
      BY <1>3, <2>1
    <3>2. g = s + 1 + k
      BY <2>1, <3>1
    <3>3. f * (s + 1 + k) = f * s + f + f * k /\ f * k \in Nat
      BY <2>1
    <3>4. h = fs + f + f * k
      BY <1>4, <2>2, <3>2, <3>3
    <3>5. QED
      BY <1>2, <2>1, <3>3, <3>4
  <2>6. h * (p + 1) = hp + h
    BY <2>1, <2>2
  <2>7. hp <= a /\ a < hp + h
    BY <1>2, <2>1, <2>2, <2>4, <2>5
  <2>8. QED
    BY <2>2, <2>6, <2>7, QuotientUnique
<1>6. Truncated(m, f) = SignOf(m) * q /\ Truncated(m, h) = SignOf(m) * p
  BY <1>1, <1>2, <1>5 DEF Truncated
<1>7. Truncated(Truncated(m, f), g) = SignOf(m) * p
  <2>1. CASE q = 0
    <3>1. p = 0
      BY <1>3, <2>1 DEF Factor
    <3>2. Truncated(m, f) = 0
      BY <1>6, <2>1 DEF SignOf
    <3>3. AbsOf(Truncated(m, f)) = 0 /\ SignOf(Truncated(m, f)) = 1
      BY <3>2 DEF AbsOf, SignOf
    <3>4. Truncated(Truncated(m, f), g) = 1 * (0 \div g)
      BY <3>3 DEF Truncated
    <3>5. 0 \div g = 0
      BY <1>3, <2>1, <3>1
    <3>6. SignOf(m) * p = 0
      BY <3>1 DEF SignOf
    <3>7. QED
      BY <3>4, <3>5, <3>6
  <2>2. CASE q # 0
    <3>1. AbsOf(Truncated(m, f)) = q /\ SignOf(Truncated(m, f)) = SignOf(m)
      BY <1>6, <2>2 DEF AbsOf, SignOf
    <3>2. QED
      BY <1>3, <3>1 DEF Truncated
  <2>3. QED
    BY <2>1, <2>2
<1>8. QED
  BY <1>4, <1>6, <1>7

\* The two ways into a price, from_decimal and from_f64_lossy, agree on all
\* but ties, and then the float is one unit further from zero.
THEOREM FloatsAgreeButOnTies ==
    ASSUME NEW m \in Int, NEW f \in Factor
    PROVE  /\ AbsOf(Rounded(m, f)) <= AbsOf(RoundedAway(m, f))
           /\ AbsOf(RoundedAway(m, f) - Rounded(m, f)) <= 1
           /\ 2 * (m % f) # f => RoundedAway(m, f) = Rounded(m, f)
<1>1. PICK q \in Int, r \in Nat : q = m \div f /\ r = m % f /\ r < f /\ m = f * q + r
  <2>1. m \div f \in Int /\ m % f \in 0 .. (f - 1) /\ m = f * (m \div f) + (m % f) /\ f \in Nat
    BY Division DEF Factor
  <2>2. m % f \in Nat /\ m % f < f
    BY <2>1
  <2>3. QED
    BY <2>1, <2>2
<1>2. PICK x \in Int : x = Rounded(m, f)
  BY RoundedIsNearest
<1>3. /\ x = q \/ x = q + 1
      /\ 2 * r < f => x = q
      /\ 2 * r > f => x = q + 1
  BY <1>1, <1>2 DEF Rounded, Factor
<1>4. f \in Nat /\ f # 0 /\ 2 * f \in Factor
  BY DEF Factor
<1>5. PICK fq \in Int : fq = f * q
  BY <1>4
<1>6. RoundedAway(m, f) = SignOf(m) * ((2 * AbsOf(m) + f) \div (2 * f))
  BY DEF RoundedAway
<1>7. CASE m >= 0
  <2>1. q \in Nat
    BY <1>1, <1>7, NatDivision
  <2>2. AbsOf(m) = m /\ SignOf(m) = 1
    BY <1>7 DEF AbsOf, SignOf
  <2>3. PICK y \in Nat : /\ y = (2 * m + f) \div (2 * f)
                         /\ 2 * r < f => y = q
                         /\ 2 * r >= f => y = q + 1
    <3>1. PICK n \in Nat : n = 2 * m + f
      BY <1>4, <1>7
    <3>2. PICK d \in Factor : d = 2 * f
      BY <1>4
    <3>3. d * q = 2 * fq /\ d * (q + 1) = 2 * fq + d /\ d * (q + 2) = 2 * fq + 2 * d
      BY <1>4, <1>5, <3>2
    <3>4. n = 2 * fq + 2 * r + f
      BY <1>1, <1>4, <1>5, <3>1
    <3>5. CASE 2 * r < f
      <4>1. d * q <= n /\ n < d * (q + 1)
        BY <1>4, <3>2, <3>3, <3>4, <3>5
      <4>2. n \div d = q
        BY <2>1, <4>1, QuotientUnique
      <4>3. QED
        BY <1>4, <2>1, <3>1, <3>2, <3>5, <4>2
    <3>6. CASE 2 * r >= f
      <4>1. d * (q + 1) <= n /\ n < d * (q + 2)
        BY <1>1, <1>4, <3>2, <3>3, <3>4, <3>6
      <4>2. PICK k \in Nat : k = q + 1 /\ k + 1 = q + 2
        BY <2>1
      <4>3. d * k <= n /\ n < d * (k + 1)
        BY <4>1, <4>2
      <4>4. n \div d = k
        BY <4>3, QuotientUnique
      <4>5. QED
        BY <1>4, <3>1, <3>2, <3>6, <4>2, <4>4
    <3>7. QED
      BY <1>4, <3>5, <3>6
  <2>4. RoundedAway(m, f) = y
    BY <1>6, <2>2, <2>3
  <2>5. AbsOf(x) = x /\ AbsOf(y) = y /\ x <= y /\ AbsOf(y - x) <= 1
    BY <1>1, <1>3, <1>4, <2>1, <2>3 DEF AbsOf
  <2>6. 2 * r # f => y = x
    BY <1>1, <1>3, <1>4, <2>3
  <2>7. QED
    BY <1>1, <1>2, <2>4, <2>5, <2>6
<1>8. CASE m < 0
  <2>1. q < 0
    <3>1. q >= 0 => fq >= 0
      BY <1>4, <1>5
    <3>2. fq + r < 0
      BY <1>1, <1>5, <1>8
    <3>3. fq < 0
      BY <3>2
    <3>4. QED
      BY <3>1, <3>3
  <2>2. AbsOf(m) = -m /\ SignOf(m) = -1
    BY <1>8 DEF AbsOf, SignOf
  <2>3. PICK b \in Nat : b = -q
    BY <2>1
  <2>4. PICK y \in Nat : /\ y = (2 * (-m) + f) \div (2 * f)
                         /\ 2 * r <= f => y = b
                         /\ 2 * r > f => y = b - 1
    <3>1. PICK n \in Nat : n = 2 * (-m) + f
      BY <1>4, <1>8
    <3>2. PICK d \in Factor : d = 2 * f
      BY <1>4
    <3>3. PICK e \in Nat : e = b - 1 /\ e + 1 = b
      BY <2>1, <2>3
    <3>4. d * b = -(2 * fq) /\ d * (b + 1) = -(2 * fq) + d
      BY <1>4, <1>5, <2>3, <3>2
    <3>5. d * e = -(2 * fq) - d
      <4>1. d * (e + 1) = d * e + d /\ d * e \in Int
        BY <1>4, <3>2
      <4>2. QED
        BY <1>4, <3>2, <3>3, <3>4, <4>1
    <3>6. n = -(2 * fq) - 2 * r + f
      BY <1>1, <1>4, <1>5, <3>1
    <3>7. CASE 2 * r <= f
      <4>1. d * b <= n /\ n < d * (b + 1)
        BY <1>1, <1>4, <3>2, <3>4, <3>6, <3>7
      <4>2. n \div d = b
        BY <4>1, QuotientUnique
      <4>3. QED
        BY <1>4, <3>1, <3>2, <3>7, <4>2
    <3>8. CASE 2 * r > f
      <4>1. d * e <= n /\ n < d * (e + 1)
        BY <1>1, <1>4, <3>2, <3>3, <3>4, <3>5, <3>6, <3>8
      <4>2. n \div d = e
        BY <4>1, QuotientUnique
      <4>3. QED
        BY <1>4, <3>1, <3>2, <3>3, <3>8, <4>2
    <3>9. QED
      BY <1>4, <3>7, <3>8
  <2>5. RoundedAway(m, f) = -y
    BY <1>6, <2>2, <2>4
  <2>6. AbsOf(x) = -x /\ AbsOf(-y) = y /\ -x <= y /\ AbsOf(-y - x) <= 1
    BY <1>1, <1>3, <1>4, <2>1, <2>3, <2>4 DEF AbsOf
  <2>7. 2 * r # f => -y = x
    BY <1>1, <1>3, <1>4, <2>3, <2>4
  <2>8. QED
    BY <1>1, <1>2, <2>5, <2>6, <2>7
<1>9. QED
  BY <1>1, <1>7, <1>8
=============================================================================
