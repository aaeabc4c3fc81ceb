-------------------------- MODULE SwapQuote_proofs --------------------------
(***************************************************************************)
(* Proofs about a swap: for every set of positions, price, amount,         *)
(* transfer fee and bound, the walk over tick arrays quotes what the curve *)
(* exchanges, and the order made of the quote keeps what it promises.      *)
(***************************************************************************)
EXTENDS SwapQuote, Arithmetic_proofs

-----------------------------------------------------------------------------
(***************************************************************************)
(* Positions and the liquidity they make                                   *)
(***************************************************************************)
LEMMA BoundsTypes ==
    /\ MaxTick \in Nat \ {0} /\ PerTick \in Nat \ {0} /\ ArraySize \in Nat \ {0}
    /\ MaxArrays \in Nat \ {0} /\ Discovery \in Nat \ {0} /\ WalkLimit \in Nat
  BY SwapAssumption

LEMMA PositionTypes ==
    /\ IsFiniteSet(Positions)
    /\ \A q \in Positions :
         /\ q.lower \in Nat /\ q.upper \in Nat /\ q.liquidity \in Nat
         /\ 1 < q.lower /\ q.lower < q.upper /\ q.upper < MaxTick
<1>1. IsFiniteSet(Positions)
  BY SwapAssumption
<1>2. ASSUME NEW q \in Positions
      PROVE  /\ q.lower \in Nat /\ q.upper \in Nat /\ q.liquidity \in Nat
             /\ 1 < q.lower /\ q.lower < q.upper /\ q.upper < MaxTick
  <2>1. q \in [lower : Nat, upper : Nat, liquidity : Nat \ {0}]
    BY SwapAssumption
  <2>2. 1 < q.lower /\ q.lower < q.upper /\ q.upper < MaxTick
    BY SwapAssumption
  <2>3. QED
    BY <2>1, <2>2
<1>3. QED
  BY <1>1, <1>2

\* Liquidity is a sum over the positions.
LEMMA LiquidityIsSum ==
    \E W : /\ Sums(W, Positions, [q \in Positions |-> q.liquidity])
           /\ \A book \in SUBSET Positions : Liquidity(book) = W[book]
<1> DEFINE w == [q \in Positions |-> q.liquidity]
<1>1. w \in [Positions -> Nat] /\ \A q \in Positions : w[q] = q.liquidity
  BY PositionTypes
<1>2. PICK W : Sums(W, Positions, w)
  BY <1>1, PositionTypes, SumsExist
<1>3. ASSUME NEW book \in SUBSET Positions PROVE Liquidity(book) = W[book]
  <2> DEFINE some(s) == CHOOSE x \in s : TRUE
             Eqn(f) == f = [s \in SUBSET book |->
                              IF s = {} THEN 0 ELSE some(s).liquidity + f[s \ {some(s)}]]
             f == CHOOSE g : Eqn(g)
             g == [s \in SUBSET book |-> W[s]]
  <2>1. \A s \in SUBSET book : s # {} => some(s) \in s
    OBVIOUS
  <2> HIDE DEF some
  <2>2. Eqn(g)
    <3>1. ASSUME NEW s \in SUBSET book
          PROVE  g[s] = IF s = {} THEN 0 ELSE some(s).liquidity + g[s \ {some(s)}]
      <4>1. CASE s = {}
        BY <1>2, <4>1 DEF Sums
      <4>2. CASE s # {}
        <5>1. some(s) \in s /\ some(s) \in Positions /\ s \in SUBSET Positions
          BY <2>1, <4>2
        <5>2. W[s] = w[some(s)] + W[s \ {some(s)}]
          BY <1>2, <5>1 DEF Sums
        <5> HIDE DEF w
        <5>3. W[s] = some(s).liquidity + W[s \ {some(s)}]
          BY <1>1, <5>1, <5>2
        <5>4. s \ {some(s)} \in SUBSET book
          OBVIOUS
        <5>5. QED
          BY <4>2, <5>3, <5>4
      <4>3. QED
        BY <4>1, <4>2
    <3> HIDE DEF g
    <3>2. QED
      BY <3>1 DEF g
  <2>3. Eqn(f)
    <3> HIDE DEF Eqn, g
    <3> QED
      BY <2>2
  <2>4. Liquidity(book) = f[book]
    BY DEF Liquidity, MapThenSumSet, MapThenFoldSet, some
  <2> HIDE DEF f, w
  <2>5. f[{}] = 0
    BY <2>3
  <2>6. \A S \in SUBSET book : S # {} => \E x \in S : f[S] = w[x] + f[S \ {x}]
    <3> SUFFICES ASSUME NEW S \in SUBSET book, S # {}
                 PROVE  \E x \in S : f[S] = w[x] + f[S \ {x}]
      OBVIOUS
    <3>1. some(S) \in S /\ w[some(S)] = some(S).liquidity
      BY <1>1, <2>1
    <3>2. f[S] = some(S).liquidity + f[S \ {some(S)}]
      BY <2>3
    <3>3. QED
      BY <3>1, <3>2
  <2>7. PICK V : V = [s \in SUBSET book |-> W[s]]
    OBVIOUS
  <2>8. Sums(V, book, w)
    BY <1>2, <2>7 DEF Sums
  <2>9. IsFiniteSet(book)
    BY PositionTypes, FS_Subset
  <2> HIDE DEF Eqn, g
  <2>10. f[book] = V[book]
    <3>1. PICK h : h = f
      OBVIOUS
    <3>2. PICK v : v = w
      OBVIOUS
    <3>3. h[{}] = 0 /\ Sums(V, book, v)
      BY <2>5, <2>8, <3>1, <3>2
    <3>4. \A S \in SUBSET book : S # {} => \E x \in S : h[S] = v[x] + h[S \ {x}]
      BY <2>6, <3>1, <3>2
    <3> HIDE DEF f
    <3>5. h[book] = V[book]
      BY <2>9, <3>3, <3>4, SumsAreUnique
    <3>6. QED
      BY <3>1, <3>5
  <2>11. QED
    BY <2>4, <2>7, <2>10
<1>4. QED
  BY <1>2, <1>3

LEMMA LiquidityTypes ==
    ASSUME NEW book \in SUBSET Positions
    PROVE  Liquidity(book) \in Nat
  BY LiquidityIsSum DEF Sums

LEMMA LiquidityOfBoth ==
    ASSUME NEW P \in SUBSET Positions, NEW Q \in SUBSET Positions, P \cap Q = {}
    PROVE  Liquidity(P \cup Q) = Liquidity(P) + Liquidity(Q)
<1> DEFINE w == [q \in Positions |-> q.liquidity]
<1>1. w \in [Positions -> Nat]
  BY PositionTypes
<1>2. PICK W : /\ Sums(W, Positions, w)
               /\ \A book \in SUBSET Positions : Liquidity(book) = W[book]
  BY LiquidityIsSum
<1> HIDE DEF w
<1>3. W[P \cup Q] = W[P] + W[Q]
  BY <1>1, <1>2, PositionTypes, SumOfBoth
<1>4. QED
  BY <1>2, <1>3

LEMMA InitializedTypes ==
    ASSUME NEW book \in SUBSET Positions
    PROVE  \A t \in Initialized(book) : t \in Nat /\ 1 < t /\ t < MaxTick
<1>1. ASSUME NEW q \in book, NEW t \in {q.lower, q.upper}
      PROVE  t \in Nat /\ 1 < t /\ t < MaxTick
  <2>1. /\ q.lower \in Nat /\ q.upper \in Nat
        /\ 1 < q.lower /\ q.lower < q.upper /\ q.upper < MaxTick
    BY PositionTypes
  <2>2. QED
    BY <2>1, BoundsTypes
<1>2. QED
  BY <1>1 DEF Initialized

LEMMA LiquidityAtTypes ==
    ASSUME NEW book \in SUBSET Positions, NEW t
    PROVE  LiquidityAt(book, t) \in Nat
  BY LiquidityTypes DEF LiquidityAt

\* Between two initialized ticks the liquidity is the same everywhere.
LEMMA SameLiquidity ==
    ASSUME NEW book \in SUBSET Positions, NEW a \in Int, NEW b \in Int, a <= b,
           \A t \in Initialized(book) : ~(a < t /\ t <= b)
    PROVE  LiquidityAt(book, a) = LiquidityAt(book, b)
<1>1. ASSUME NEW q \in book
      PROVE  q.lower <= a /\ a < q.upper <=> q.lower <= b /\ b < q.upper
  <2>1. q.lower \in Nat /\ q.upper \in Nat
    BY PositionTypes
  <2>2. ~(a < q.lower /\ q.lower <= b) /\ ~(a < q.upper /\ q.upper <= b)
    BY DEF Initialized
  <2>3. QED
    BY <2>1, <2>2
<1>2. {q \in book : q.lower <= a /\ a < q.upper}
        = {q \in book : q.lower <= b /\ b < q.upper}
  BY <1>1
<1>3. QED
  BY <1>2 DEF LiquidityAt

\* At a tick it changes by what liquidity_net says.
LEMMA LiquidityStep ==
    ASSUME NEW book \in SUBSET Positions, NEW t \in Int
    PROVE  /\ Net(book, t) \in Int
           /\ LiquidityAt(book, t) = LiquidityAt(book, t - 1) + Net(book, t)
<1> DEFINE C == {q \in book : q.lower < t /\ t < q.upper}
           Low == {q \in book : q.lower = t}
           Up == {q \in book : q.upper = t}
<1>1. \A q \in book : q.lower \in Nat /\ q.upper \in Nat /\ q.lower < q.upper
  BY PositionTypes
<1>2. {q \in book : q.lower <= t /\ t < q.upper} = C \cup Low /\ C \cap Low = {}
  BY <1>1
<1>3. {q \in book : q.lower <= t - 1 /\ t - 1 < q.upper} = C \cup Up /\ C \cap Up = {}
  BY <1>1
<1>4. C \in SUBSET Positions /\ Low \in SUBSET Positions /\ Up \in SUBSET Positions
  OBVIOUS
<1>5. LiquidityAt(book, t) = Liquidity(C \cup Low)
  BY <1>2 DEF LiquidityAt
<1>6. LiquidityAt(book, t - 1) = Liquidity(C \cup Up)
  BY <1>3 DEF LiquidityAt
<1>7. Net(book, t) = Liquidity(Low) - Liquidity(Up)
  BY DEF Net
<1> HIDE DEF C, Low, Up
<1>8. /\ Liquidity(C) \in Nat /\ Liquidity(Low) \in Nat /\ Liquidity(Up) \in Nat
      /\ Liquidity(C \cup Low) = Liquidity(C) + Liquidity(Low)
      /\ Liquidity(C \cup Up) = Liquidity(C) + Liquidity(Up)
  BY <1>2, <1>3, <1>4, LiquidityTypes, LiquidityOfBoth
<1>9. QED
  BY <1>5, <1>6, <1>7, <1>8

\* A factor above zero keeps the order.
LEMMA TimesKeepsOrder ==
    ASSUME NEW n \in Nat \ {0}, NEW x \in Int, NEW y \in Int
    PROVE  /\ n * x \in Int /\ x * n = n * x
           /\ x <= y <=> n * x <= n * y
           /\ x < y <=> n * x < n * y
  OBVIOUS

\* The curve and the ticks agree: the points of a tick have its liquidity.
LEMMA DepthOfTick ==
    ASSUME NEW book \in SUBSET Positions, NEW p \in Nat
    PROVE  /\ p \div PerTick \in Nat
           /\ PerTick * (p \div PerTick) <= p /\ p < PerTick * (p \div PerTick + 1)
           /\ Depth(book, p) = LiquidityAt(book, p \div PerTick)
<1>1. PICK n \in Nat \ {0} : n = PerTick
  BY BoundsTypes
<1>2. PICK t \in Nat : t = p \div n /\ n * t <= p /\ p < n * (t + 1)
  OBVIOUS
<1>3. ASSUME NEW q \in book
      PROVE  q.lower * n <= p /\ p < q.upper * n <=> q.lower <= t /\ t < q.upper
  <2>1. PICK lower \in Nat, upper \in Nat : lower = q.lower /\ upper = q.upper
    BY PositionTypes
  <2>2. lower * n = n * lower /\ upper * n = n * upper
    OBVIOUS
  <2>3. n * lower <= p <=> n * lower <= n * t
    <3>1. lower <= t => n * lower <= n * t
      BY TimesKeepsOrder
    <3>2. t + 1 <= lower => n * (t + 1) <= n * lower
      BY TimesKeepsOrder
    <3>3. n * lower \in Int /\ n * t \in Int /\ n * (t + 1) \in Int
      OBVIOUS
    <3>4. QED
      BY <1>2, <3>1, <3>2, <3>3
  <2>4. p < n * upper <=> n * t < n * upper
    <3>1. upper <= t => n * upper <= n * t
      BY TimesKeepsOrder
    <3>2. t + 1 <= upper => n * (t + 1) <= n * upper
      BY TimesKeepsOrder
    <3>3. n * upper \in Int /\ n * t \in Int /\ n * (t + 1) \in Int
      OBVIOUS
    <3>4. QED
      BY <1>2, <3>1, <3>2, <3>3
  <2>5. (n * lower <= n * t <=> lower <= t) /\ (n * t < n * upper <=> t < upper)
    BY TimesKeepsOrder
  <2>6. QED
    BY <2>1, <2>2, <2>3, <2>4, <2>5
<1>4. {q \in book : q.lower * n <= p /\ p < q.upper * n}
        = {q \in book : q.lower <= t /\ t < q.upper}
  BY <1>3
<1>5. Depth(book, p) = LiquidityAt(book, t)
  BY <1>1, <1>4 DEF Depth, LiquidityAt
<1>6. QED
  BY <1>1, <1>2, <1>5

LEMMA DepthTypes ==
    ASSUME NEW book \in SUBSET Positions, NEW p
    PROVE  Depth(book, p) \in Nat
  BY LiquidityTypes DEF Depth

-----------------------------------------------------------------------------
(***************************************************************************)
(* Filling a swap from one segment of the curve after the other            *)
(***************************************************************************)
\* A segment without liquidity takes nothing and gives nothing.
Segments == {g \in [taken : Nat, given : Nat] : g.taken = 0 <=> g.given = 0}

\* What has been filled of a swap; no segment is cut but the last.
Fills(amount) ==
    {f \in [points : Nat, used : 0 .. amount, other : Nat, whole : BOOLEAN] :
        f.whole \/ f.used = amount}

Unfilled == [points |-> 0, used |-> 0, other |-> 0, whole |-> TRUE]

LEMMA CutShare ==
    ASSUME NEW rest \in Nat, NEW due \in Nat, NEW paid \in Nat \ {0}
    PROVE  /\ (rest * due) \div paid \in Nat /\ CeilDiv(rest * due, paid) \in Nat
           /\ rest = 0 => (rest * due) \div paid = 0 /\ CeilDiv(rest * due, paid) = 0
<1>1. PICK n \in Nat : n = rest * due
  OBVIOUS
<1>2. n \div paid \in Nat /\ CeilDiv(n, paid) \in Nat
  <2>1. n \div paid \in Nat
    OBVIOUS
  <2>2. CeilDiv(n, paid) \in Nat
    BY CeilDivIsLeast
  <2>3. QED
    BY <2>1, <2>2
<1>3. ASSUME rest = 0 PROVE n = 0 /\ n \div paid = 0 /\ CeilDiv(n, paid) = 0
  <2>1. n = 0
    BY <1>1, <1>3
  <2>2. 0 \div paid = 0
    OBVIOUS
  <2>3. CeilDiv(0, paid) <= 0 /\ CeilDiv(0, paid) \in Nat
    BY CeilDivWithin, CeilDivIsLeast
  <2>4. QED
    BY <2>1, <2>2, <2>3
<1>4. QED
  BY <1>1, <1>2, <1>3

\* One more segment: taken in full, or cut, or no longer looked at.
LEMMA FillSegmentTypes ==
    ASSUME NEW amount \in Nat, NEW exactIn \in BOOLEAN, NEW f \in Fills(amount),
           NEW seg \in Segments,
           NEW g, g = FillSegment(f, seg, amount, exactIn)
    PROVE  /\ g \in Fills(amount) /\ f.used <= g.used
           /\ f.used = amount => g.used = amount /\ g.other = f.other
           /\ g.whole => f.whole /\ g.points = f.points + 1
           /\ ~g.whole => g.points = f.points
<1> DEFINE paid == IF exactIn THEN seg.taken ELSE seg.given
           due == IF exactIn THEN seg.given ELSE seg.taken
           rest == amount - f.used
           share == IF exactIn THEN (rest * due) \div paid
                               ELSE CeilDiv(rest * due, paid)
<1>1. /\ f.points \in Nat /\ f.used \in 0 .. amount /\ f.other \in Nat
      /\ f.whole \in BOOLEAN /\ (f.whole \/ f.used = amount)
      /\ f \in [points : Nat, used : 0 .. amount, other : Nat, whole : BOOLEAN]
  BY DEF Fills
<1>2. /\ paid \in Nat /\ due \in Nat /\ rest \in Nat
      /\ paid = 0 => due = 0
  BY <1>1 DEF Segments
<1>3. g = IF ~f.whole THEN f
          ELSE IF paid <= rest
            THEN [f EXCEPT !.points = @ + 1, !.used = @ + paid, !.other = @ + due]
          ELSE [f EXCEPT !.whole = FALSE, !.used = amount, !.other = @ + share]
  BY DEF FillSegment
<1>4. CASE ~f.whole
  BY <1>1, <1>3, <1>4
<1>5. CASE f.whole /\ paid <= rest
  <2> HIDE DEF paid, due, rest
  <2>1. g = [f EXCEPT !.points = @ + 1, !.used = @ + paid, !.other = @ + due]
    BY <1>3, <1>5
  <2>2. f.used + paid \in 0 .. amount
    BY <1>1, <1>2, <1>5 DEF rest
  <2>3. f.points + 1 \in Nat /\ f.other + due \in Nat
    BY <1>1, <1>2
  <2>4. /\ g.whole = f.whole /\ g.points = f.points + 1
        /\ g.used = f.used + paid /\ g.other = f.other + due
    BY <1>1, <2>1
  <2>4a. g = [points |-> f.points + 1, used |-> f.used + paid,
              other |-> f.other + due, whole |-> TRUE]
    BY <1>1, <1>5, <2>1
  <2>4b. g \in [points : Nat, used : 0 .. amount, other : Nat, whole : BOOLEAN]
    <3>1. TRUE \in BOOLEAN
      OBVIOUS
    <3>2. [points |-> f.points + 1, used |-> f.used + paid,
           other |-> f.other + due, whole |-> TRUE]
            \in [points : Nat, used : 0 .. amount, other : Nat, whole : BOOLEAN]
      BY <2>2, <2>3, <3>1, Zenon
    <3>3. QED
      BY <2>4a, <3>2, Zenon
  <2>4c. g \in Fills(amount)
    BY <1>5, <2>4, <2>4b, Zenon DEF Fills
  <2>5. f.used = amount => paid = 0
    BY <1>1, <1>2, <1>5 DEF rest
  <2>6. QED
    BY <1>1, <1>2, <1>5, <2>4, <2>4c, <2>5
<1>6. CASE f.whole /\ ~(paid <= rest)
  <2>1. paid \in Nat \ {0}
    BY <1>2, <1>6
  <2> HIDE DEF paid, due, rest
  <2>2. share \in Nat /\ (rest = 0 => share = 0)
    BY <1>2, <2>1, CutShare
  <2>3. g = [f EXCEPT !.whole = FALSE, !.used = amount, !.other = @ + share]
    BY <1>3, <1>6
  <2> HIDE DEF share
  <2>4. f.other + share \in Nat /\ amount \in 0 .. amount
    BY <1>1, <2>2
  <2>4a. g = [points |-> f.points, used |-> amount,
              other |-> f.other + share, whole |-> FALSE]
    BY <1>1, <2>3
  <2>4b. g \in [points : Nat, used : 0 .. amount, other : Nat, whole : BOOLEAN]
    <3>1. FALSE \in BOOLEAN /\ f.points \in Nat
      BY <1>1
    <3>2. [points |-> f.points, used |-> amount,
           other |-> f.other + share, whole |-> FALSE]
            \in [points : Nat, used : 0 .. amount, other : Nat, whole : BOOLEAN]
      BY <2>4, <3>1, Zenon
    <3>3. QED
      BY <2>4a, <3>2, Zenon
  <2>5. /\ g.whole = FALSE /\ g.points = f.points
        /\ g.used = amount /\ g.other = f.other + share
    BY <1>1, <2>3
  <2>6. f.used = amount => rest = 0
    BY DEF rest
  <2>7. QED
    <3>1. g \in Fills(amount)
      BY <2>4b, <2>5, Zenon DEF Fills
    <3>2. QED
      BY <1>1, <1>6, <2>2, <2>5, <2>6, <3>1
<1>7. QED
  BY <1>4, <1>5, <1>6

\* h fills a swap of amount from the first n segments of a list.
FillsAlong(h, n, list, amount, exactIn) ==
    /\ h \in [0 .. n -> Fills(amount)] /\ h[0] = Unfilled
    /\ \A k \in 1 .. n : h[k] = FillSegment(h[k - 1], list[k], amount, exactIn)

\* The segments of a list, filled one after the other.
LEMMA FillPath ==
    ASSUME NEW amount \in Nat, NEW exactIn \in BOOLEAN, NEW n \in Nat,
           NEW list \in [1 .. n -> Segments]
    PROVE  \E h : /\ FillsAlong(h, n, list, amount, exactIn)
                  /\ Fill(amount, list, exactIn) = h[n]
<1> DEFINE S == Fills(amount)
           Step(f, k) == FillSegment(f, list[k], amount, exactIn)
           G == [k \in 1 .. n |-> [x \in S |-> Step(x, k)]]
           Eqn(it) == it = [s \in SUBSET DOMAIN list |->
                               IF s = {} THEN Unfilled
                               ELSE Step(it[s \ {Max(s)}], Max(s))]
           it == CHOOSE f : Eqn(f)
<1>0. Unfilled \in S
  BY DEF Unfilled, Fills
<1>1. G \in [1 .. n -> [S -> S]]
  <2>1. \A k \in 1 .. n : \A x \in S : Step(x, k) \in S
    <3> SUFFICES ASSUME NEW k \in 1 .. n, NEW x \in S PROVE Step(x, k) \in S
      OBVIOUS
    <3>1. PICK g : g = Step(x, k)
      OBVIOUS
    <3>2. list[k] \in Segments
      OBVIOUS
    <3>3. g \in S
      BY <3>1, <3>2, FillSegmentTypes
    <3>4. QED
      BY <3>1, <3>3
  <2> HIDE DEF S, Step
  <2>2. QED
    BY <2>1
<1> HIDE DEF Step, S
<1>1b. DOMAIN list = 1 .. n
  OBVIOUS
<1>2. \E f : Eqn(f)
  <2>1. PICK f \in [SUBSET (1 .. n) -> S] : FoldsWith(f, n, Unfilled, G)
    <3> HIDE DEF G
    <3> QED
      BY <1>0, <1>1, FoldExists
  <2>2. \A s \in SUBSET (1 .. n) : s # {} =>
            Max(s) \in 1 .. n /\ s \ {Max(s)} \in SUBSET (1 .. n)
    BY MaxOfPositions
  <2>3. \A s \in SUBSET (1 .. n) : s # {} =>
            G[Max(s)][f[s \ {Max(s)}]] = Step(f[s \ {Max(s)}], Max(s))
    BY <2>1, <2>2
  <2> HIDE DEF G
  <2>4. Eqn(f)
    BY <1>1b, <2>1, <2>3 DEF FoldsWith
  <2> HIDE DEF Eqn
  <2>5. QED
    BY <2>4
<1>3. Eqn(it)
  <2> HIDE DEF Eqn
  <2>1. QED
    BY <1>2
<1>4. it[{}] = Unfilled
  BY <1>3
<1>5. ASSUME NEW k \in 1 .. n, it[1 .. (k - 1)] \in S
      PROVE  it[1 .. k] = G[k][it[1 .. (k - 1)]]
  <2>1. /\ Max(1 .. k) = k /\ (1 .. k) \ {k} = 1 .. (k - 1)
        /\ 1 .. k # {} /\ 1 .. k \in SUBSET (1 .. n)
    <3>1. k \in Nat \ {0} /\ 1 .. k \subseteq 1 .. n
      OBVIOUS
    <3>2. QED
      BY <3>1, LastPosition
  <2> HIDE DEF it
  <2>2. it[1 .. k] = Step(it[1 .. (k - 1)], k)
    BY <1>1b, <1>3, <2>1
  <2>3. QED
    BY <1>5, <2>2
<1>6. Fill(amount, list, exactIn) = it[DOMAIN list]
  BY DEF Fill, FoldLeft, MapThenFoldSet, Step, Unfilled
<1>7. FoldsWithin(it, n, S, Unfilled, G)
  <2> HIDE DEF it, G
  <2> QED
    BY <1>4, <1>5 DEF FoldsWithin
<1>8. PICK h \in [0 .. n -> S] : FoldPath(h, n, Unfilled, G) /\ h[n] = it[1 .. n]
  <2> HIDE DEF it, G
  <2> QED
    BY <1>0, <1>1, <1>7, FoldSteps, SMTT(60)
<1>9. h[0] = Unfilled /\ \A k \in 1 .. n : h[k] = Step(h[k - 1], k)
  <2>1. \A k \in 1 .. n : k - 1 \in 0 .. n
    OBVIOUS
  <2>2. \A k \in 1 .. n : h[k - 1] \in S
    BY <1>8, <2>1
  <2> HIDE DEF it
  <2>3. QED
    BY <1>8, <2>2 DEF FoldPath
<1>10. QED
  <2> HIDE DEF it, G
  <2> QED
    BY <1>1b, <1>6, <1>8, <1>9 DEF S, Step, FillsAlong

\* The first m segments alone lead to where the whole list was after m.
LEMMA FillPrefixes ==
    ASSUME NEW amount \in Nat, NEW exactIn \in BOOLEAN, NEW n \in Nat,
           NEW list \in [1 .. n -> Segments]
    PROVE  \E h : /\ FillsAlong(h, n, list, amount, exactIn)
                  /\ \A m \in 0 .. n :
                       Fill(amount, [i \in 1 .. m |-> list[i]], exactIn) = h[m]
<1>1. PICK h : FillsAlong(h, n, list, amount, exactIn)
  BY FillPath
<1>2. ASSUME NEW m \in 0 .. n
      PROVE  Fill(amount, [i \in 1 .. m |-> list[i]], exactIn) = h[m]
  <2>1. PICK part : part = [i \in 1 .. m |-> list[i]]
    OBVIOUS
  <2>2. /\ m \in Nat /\ part \in [1 .. m -> Segments]
        /\ \A k \in 1 .. m : k \in 1 .. n /\ part[k] = list[k]
    BY <2>1
  <2>3. PICK g : FillsAlong(g, m, part, amount, exactIn) /\ Fill(amount, part, exactIn) = g[m]
    BY <2>2, FillPath
  <2> DEFINE T == {k \in 0 .. m : g[k] = h[k]}
  <2>4. 0 \in T
    BY <1>1, <2>2, <2>3 DEF FillsAlong
  <2>5. ASSUME NEW k \in 1 .. m, k - 1 \in T PROVE k \in T
    BY <1>1, <2>2, <2>3, <2>5 DEF FillsAlong
  <2>6. \A k \in 0 .. m : k \in T
    <3> HIDE DEF T
    <3> QED
      BY <2>2, <2>4, <2>5, AlongPositions
  <2>7. g[m] = h[m]
    BY <2>2, <2>6
  <2>8. QED
    BY <2>1, <2>3, <2>7
<1>3. QED
  BY <1>1, <1>2

LEMMA FillFields ==
    ASSUME NEW amount \in Nat, NEW f \in Fills(amount)
    PROVE  /\ f.points \in Nat /\ f.used \in Nat /\ f.used <= amount
           /\ f.other \in Nat /\ f.whole \in BOOLEAN /\ (f.whole \/ f.used = amount)
           /\ f = [points |-> f.points, used |-> f.used, other |-> f.other,
                   whole |-> f.whole]
  BY DEF Fills

\* As many points are passed in full as segments were met, until one is cut.
LEMMA PointsPassed ==
    ASSUME NEW amount \in Nat, NEW exactIn \in BOOLEAN, NEW n \in Nat,
           NEW list \in [1 .. n -> Segments],
           NEW h, FillsAlong(h, n, list, amount, exactIn), NEW m \in 0 .. n
    PROVE  IF h[m].whole THEN h[m].points = m ELSE h[m].points < m
<1> DEFINE T == {k \in 0 .. n : IF h[k].whole THEN h[k].points = k ELSE h[k].points < k}
<1>1. 0 \in T
  BY DEF FillsAlong, Unfilled
<1>2. ASSUME NEW k \in 1 .. n, k - 1 \in T PROVE k \in T
  <2>1. PICK f, g : /\ f = h[k - 1] /\ g = h[k] /\ f \in Fills(amount)
                    /\ g = FillSegment(f, list[k], amount, exactIn)
    BY DEF FillsAlong
  <2>2. /\ g \in Fills(amount)
        /\ g.whole => f.whole /\ g.points = f.points + 1
        /\ ~g.whole => g.points = f.points
    BY <2>1, FillSegmentTypes
  <2>3. f.points \in Nat
    BY <2>1, FillFields
  <2>4. IF f.whole THEN f.points = k - 1 ELSE f.points < k - 1
    BY <1>2, <2>1
  <2>5. IF g.whole THEN g.points = k ELSE g.points < k
    BY <2>2, <2>3, <2>4
  <2>6. IF h[k].whole THEN h[k].points = k ELSE h[k].points < k
    BY <2>1, <2>5, Zenon
  <2>7. QED
    BY <2>6
<1> HIDE DEF T
<1>3. \A k \in 0 .. n : k \in T
  BY <1>1, <1>2, AlongPositions
<1>4. QED
  BY <1>3 DEF T

\* h fills the n segments of a list.
Filling(h, n, list, amount, exactIn) ==
    /\ exactIn \in BOOLEAN /\ amount \in Nat /\ n \in Nat
    /\ list \in [1 .. n -> Segments]
    /\ FillsAlong(h, n, list, amount, exactIn)

\* What is filled grows; what is filled in full stays as it is.
LEMMA FillGrows ==
    ASSUME NEW exactIn \in BOOLEAN, NEW h, NEW n, NEW list, NEW amount,
           Filling(h, n, list, amount, exactIn),
           NEW k \in 0 .. n, NEW m \in 0 .. n, k <= m
    PROVE  /\ h[k].used <= h[m].used
           /\ h[k].used = amount => h[m].used = amount /\ h[m].other = h[k].other
<1> DEFINE Grown(j) ==
             /\ h[k].used <= h[k + j].used
             /\ h[k].used = amount => /\ h[k + j].used = amount
                                      /\ h[k + j].other = h[k].other
           T == {j \in 0 .. (n - k) : Grown(j)}
<1>0b. /\ exactIn \in BOOLEAN /\ amount \in Nat /\ n \in Nat
       /\ list \in [1 .. n -> Segments]
       /\ FillsAlong(h, n, list, amount, exactIn)
  BY DEF Filling
<1>0. /\ n - k \in Nat /\ k \in Nat /\ m - k \in 0 .. (n - k) /\ k + (m - k) = m
      /\ \A j \in 0 .. (n - k) : k + j \in 0 .. n
      /\ \A j \in 1 .. (n - k) : k + j \in 1 .. n /\ (k + j) - 1 = k + (j - 1)
  BY <1>0b
<1>0a. \A j \in 0 .. n : h[j] \in Fills(amount) /\ h[j].used \in Nat
  BY <1>0b, FillFields DEF FillsAlong
<1>1. 0 \in T
  BY <1>0, <1>0a
<1>2. ASSUME NEW j \in 1 .. (n - k), j - 1 \in T PROVE j \in T
  <2>1. PICK f, g : /\ f = h[k + (j - 1)] /\ g = h[k + j] /\ f \in Fills(amount)
                    /\ g = FillSegment(f, list[k + j], amount, exactIn)
    BY <1>0, <1>0a, <1>0b DEF FillsAlong
  <2>2. list[k + j] \in Segments
    BY <1>0, <1>0b
  <2>3. /\ g \in Fills(amount) /\ f.used <= g.used
        /\ f.used = amount => g.used = amount /\ g.other = f.other
    BY <1>0b, <2>1, <2>2, FillSegmentTypes
  <2>4. f.used \in Nat /\ g.used \in Nat /\ h[k].used \in Nat
    BY <1>0, <1>0a, <1>0b, <2>1, <2>3, FillFields
  <2>5. Grown(j - 1)
    BY <1>2
  <2>6. Grown(j)
    BY <2>1, <2>3, <2>4, <2>5
  <2>7. QED
    BY <2>6
<1> HIDE DEF T
<1>3. \A j \in 0 .. (n - k) : j \in T
  BY <1>0, <1>1, <1>2, AlongPositions
<1>4. m - k \in T
  BY <1>0, <1>3
<1>5. QED
  BY <1>0, <1>4 DEF T

\* A fill that goes on where another has left off.
Joined(f, g) ==
    [points |-> f.points + g.points, used |-> f.used + g.used,
     other |-> f.other + g.other, whole |-> g.whole]

LEMMA JoinedStep ==
    ASSUME NEW amount \in Nat, NEW exactIn \in BOOLEAN, NEW f \in Fills(amount),
           NEW rest \in Nat, rest = amount - f.used,
           NEW g \in Fills(rest), NEW seg \in Segments
    PROVE  FillSegment(Joined(f, g), seg, amount, exactIn)
             = Joined(f, FillSegment(g, seg, rest, exactIn))
<1> DEFINE paid == IF exactIn THEN seg.taken ELSE seg.given
           due == IF exactIn THEN seg.given ELSE seg.taken
           left == rest - g.used
           share == IF exactIn THEN (left * due) \div paid
                               ELSE CeilDiv(left * due, paid)
           j == Joined(f, g)
<1>1. /\ f.points \in Nat /\ f.used \in Nat /\ f.other \in Nat
      /\ g.points \in Nat /\ g.used \in Nat /\ g.other \in Nat /\ g.whole \in BOOLEAN
      /\ g = [points |-> g.points, used |-> g.used, other |-> g.other,
              whole |-> g.whole]
      /\ g.used <= rest
  BY FillFields
<1>2. paid \in Nat /\ due \in Nat /\ left \in Nat
  BY <1>1 DEF Segments
<1>3. /\ j.used = f.used + g.used /\ j.whole = g.whole /\ j.points = f.points + g.points
      /\ j.other = f.other + g.other
      /\ amount - j.used = left
  BY <1>1 DEF Joined
<1>4. FillSegment(g, seg, rest, exactIn) =
        IF ~g.whole THEN g
        ELSE IF paid <= left
          THEN [g EXCEPT !.points = @ + 1, !.used = @ + paid, !.other = @ + due]
        ELSE [g EXCEPT !.whole = FALSE, !.used = rest, !.other = @ + share]
  BY DEF FillSegment
<1>5. FillSegment(j, seg, amount, exactIn) =
        IF ~j.whole THEN j
        ELSE IF paid <= left
          THEN [j EXCEPT !.points = @ + 1, !.used = @ + paid, !.other = @ + due]
        ELSE [j EXCEPT !.whole = FALSE, !.used = amount, !.other = @ + share]
  BY <1>3 DEF FillSegment
<1>6. CASE ~g.whole
  BY <1>3, <1>4, <1>5, <1>6
<1>7. CASE g.whole /\ paid <= left
  <2> HIDE DEF paid, due, left, share
  <2>1. FillSegment(g, seg, rest, exactIn)
          = [points |-> g.points + 1, used |-> g.used + paid,
             other |-> g.other + due, whole |-> g.whole]
    BY <1>1, <1>4, <1>7
  <2>2. FillSegment(j, seg, amount, exactIn)
          = [points |-> j.points + 1, used |-> j.used + paid,
             other |-> j.other + due, whole |-> j.whole]
    BY <1>3, <1>5, <1>7 DEF Joined
  <2> HIDE DEF j
  <2>3. /\ f.points + (g.points + 1) = j.points + 1
        /\ f.used + (g.used + paid) = j.used + paid
        /\ f.other + (g.other + due) = j.other + due
    BY <1>1, <1>2, <1>3
  <2>4. QED
    BY <1>3, <2>1, <2>2, <2>3 DEF Joined, j
<1>8. CASE g.whole /\ ~(paid <= left)
  <2>0. paid \in Nat \ {0}
    BY <1>2, <1>8
  <2> HIDE DEF paid, due, left
  <2>0a. share \in Nat
    BY <1>2, <2>0, CutShare
  <2> HIDE DEF share
  <2>1. FillSegment(g, seg, rest, exactIn)
          = [points |-> g.points, used |-> rest,
             other |-> g.other + share, whole |-> FALSE]
    BY <1>1, <1>4, <1>8
  <2>2. FillSegment(j, seg, amount, exactIn)
          = [points |-> j.points, used |-> amount,
             other |-> j.other + share, whole |-> FALSE]
    BY <1>3, <1>5, <1>8 DEF Joined
  <2> HIDE DEF j
  <2>3. /\ f.points + g.points = j.points /\ f.used + rest = amount
        /\ f.other + (g.other + share) = j.other + share
    BY <1>1, <1>2, <1>3, <2>0a
  <2>4. Joined(f, FillSegment(g, seg, rest, exactIn))
          = [points |-> f.points + g.points, used |-> f.used + rest,
             other |-> f.other + (g.other + share), whole |-> FALSE]
    <3>1. PICK y : y = FillSegment(g, seg, rest, exactIn)
      OBVIOUS
    <3>2. /\ y.points = g.points /\ y.used = rest
          /\ y.other = g.other + share /\ y.whole = FALSE
      BY <2>1, <3>1
    <3>3. QED
      BY <3>1, <3>2, Zenon DEF Joined
  <2>5. QED
    BY <2>2, <2>3, <2>4, Zenon DEF j
<1>9. QED
  BY <1>1, <1>6, <1>7, <1>8

\* What a swap has yet to exchange.
Remains(rest, amount, f) == rest = amount - f.used

\* The d segments of a list after the first k.
PartOf(part, d, list, k) == \A i \in 1 .. d : part[i] = list[k + i]

\* Segments filled in two parts, the second for what the first has left.
LEMMA FillInParts ==
    ASSUME NEW exactIn \in BOOLEAN, NEW h, NEW n, NEW list, NEW amount,
           Filling(h, n, list, amount, exactIn),
           NEW k \in 0 .. n, h[k].whole,
           NEW g, NEW d, NEW part, NEW rest,
           Filling(g, d, part, rest, exactIn),
           PartOf(part, d, list, k), k + d <= n, Remains(rest, amount, h[k])
    PROVE  h[k + d] = Joined(h[k], g[d])
<1>0c. /\ exactIn \in BOOLEAN /\ amount \in Nat /\ n \in Nat /\ d \in Nat /\ rest \in Nat
       /\ list \in [1 .. n -> Segments] /\ part \in [1 .. d -> Segments]
       /\ FillsAlong(h, n, list, amount, exactIn)
       /\ FillsAlong(g, d, part, rest, exactIn)
  BY DEF Filling
<1> DEFINE T == {j \in 0 .. d : h[k + j] = Joined(h[k], g[j])}
<1>0. /\ d \in Nat
      /\ \A j \in 1 .. d : k + j \in 1 .. n /\ (k + j) - 1 = k + (j - 1) /\ j - 1 \in 0 .. d
  <2>1. k \in Nat /\ k <= n /\ d \in Nat /\ k + d <= n /\ n \in Nat
    BY <1>0c
  <2>2. QED
    BY <2>1
<1>0a. PICK f \in Fills(amount) : f = h[k]
  BY <1>0c DEF FillsAlong
<1>0b. \A j \in 0 .. d : g[j] \in Fills(rest)
  BY <1>0c DEF FillsAlong
<1>1. 0 \in T
  <2>1. /\ f.points \in Nat /\ f.used \in Nat /\ f.other \in Nat
        /\ f = [points |-> f.points, used |-> f.used, other |-> f.other,
                whole |-> f.whole]
        /\ f.whole = TRUE
    BY <1>0a, <1>0c, FillFields
  <2>2. Joined(f, Unfilled)
          = [points |-> f.points + 0, used |-> f.used + 0, other |-> f.other + 0,
             whole |-> TRUE]
    BY DEF Joined, Unfilled
  <2>3. f.points + 0 = f.points /\ f.used + 0 = f.used /\ f.other + 0 = f.other
    BY <2>1
  <2>4. Joined(f, Unfilled) = f
    BY <2>1, <2>2, <2>3, Zenon
  <2>5. QED
    BY <1>0a, <1>0c, <2>4 DEF FillsAlong
<1>2. ASSUME NEW j \in 1 .. d, j - 1 \in T PROVE j \in T
  <2>1. h[k + j] = FillSegment(h[k + (j - 1)], list[k + j], amount, exactIn)
    BY <1>0, <1>0c DEF FillsAlong
  <2>2. h[k + (j - 1)] = Joined(f, g[j - 1])
    BY <1>0a, <1>2
  <2>3. g[j] = FillSegment(g[j - 1], part[j], rest, exactIn)
    BY <1>0c DEF FillsAlong
  <2>4. g[j - 1] \in Fills(rest) /\ part[j] \in Segments /\ part[j] = list[k + j]
    BY <1>0, <1>0b, <1>0c DEF PartOf
  <2>5. FillSegment(Joined(f, g[j - 1]), part[j], amount, exactIn)
          = Joined(f, FillSegment(g[j - 1], part[j], rest, exactIn))
    BY <1>0a, <1>0c, <2>4, JoinedStep DEF Remains
  <2>6. QED
    BY <1>0a, <2>1, <2>2, <2>3, <2>4, <2>5
<1> HIDE DEF T
<1>3. \A j \in 0 .. d : j \in T
  BY <1>0, <1>1, <1>2, AlongPositions
<1>4. d \in T
  BY <1>0, <1>3
<1>5. QED
  BY <1>4 DEF T

-----------------------------------------------------------------------------
(***************************************************************************)
(* The curve of a pool                                                     *)
(***************************************************************************)
Chains ==
    {c \in [price : Price, tick : Nat, book : SUBSET Positions] :
        c.tick \in TicksAt(c.price)}

\* The price at the end of the ticks.
Top == MaxTick * PerTick

LEMMA ChainTypes ==
    ASSUME NEW c \in Chains
    PROVE  /\ c.price \in Nat /\ c.price < Top /\ Top \in Nat
           /\ c.tick \in Nat /\ 0 < c.tick /\ c.tick < MaxTick
           /\ PerTick * c.tick <= c.price /\ c.price <= PerTick * (c.tick + 1)
           /\ c.book \in SUBSET Positions
<1>1. PICK n \in Nat \ {0}, m \in Nat \ {0} : n = PerTick /\ m = MaxTick
  BY BoundsTypes
<1>2. PICK p \in Int, t \in Nat : /\ p = c.price /\ t = c.tick
                                  /\ p \in n .. (m - 1) * n /\ t \in TicksAt(p)
  BY <1>1 DEF Chains, Price
<1>3. c.book \in SUBSET Positions
  BY DEF Chains
<1>4. p \in Nat /\ (m - 1) * n \in Int /\ m * n = (m - 1) * n + n /\ p <= (m - 1) * n
  BY <1>2
<1>5. PICK d \in Nat, r \in Nat : /\ d = p \div n /\ r = p % n /\ r < n
                                  /\ p = n * d + r
  BY <1>4
<1>6. t # 0 /\ (t = d \/ (r = 0 /\ t = d - 1))
  BY <1>1, <1>2, <1>5 DEF TicksAt
<1>7. n * t <= p /\ p <= n * (t + 1)
  <2>1. CASE t = d
    <3>1. n * (t + 1) = n * d + n
      BY <2>1
    <3>2. n * t \in Int /\ n * d \in Int /\ n * t = n * d
      BY <2>1
    <3>3. QED
      BY <1>4, <1>5, <3>1, <3>2
  <2>2. CASE r = 0 /\ t = d - 1
    <3>1. n * (t + 1) = n * t + n /\ n * (t + 1) = n * d
      BY <2>2
    <3>2. n * t \in Int /\ n * d \in Int
      OBVIOUS
    <3>3. QED
      BY <1>4, <1>5, <2>2, <3>1, <3>2
  <2>3. QED
    BY <1>6, <2>1, <2>2
<1>8. t < m
  <2>1. n * t <= n * (m - 1)
    BY <1>4, <1>7
  <2>2. t <= m - 1
    BY <2>1, TimesKeepsOrder
  <2>3. QED
    BY <2>2
<1>9. p < m * n /\ m * n \in Nat
  BY <1>4
<1>10. QED
  BY <1>1, <1>2, <1>3, <1>4, <1>6, <1>7, <1>8, <1>9 DEF Top

\* How far the price can go.
Room(c, down) == IF down THEN c.price ELSE Top - c.price

LEMMA SegmentTypes ==
    ASSUME NEW liquidity \in Nat, NEW p \in Nat, p < Top, NEW down \in BOOLEAN
    PROVE  Segment(liquidity, p, down) \in Segments
<1>1. PICK n \in Nat, far \in Nat \ {0} : n = MaxTick * PerTick /\ far = n - p
  <2>1. Top \in Nat
    BY BoundsTypes DEF Top
  <2>2. QED
    BY <2>1 DEF Top
<1>2. PICK x \in Nat : x = liquidity * far /\ (x = 0 <=> liquidity = 0)
  OBVIOUS
<1>3. Segment(liquidity, p, down)
        = IF down THEN [taken |-> x + liquidity, given |-> liquidity]
                  ELSE [taken |-> 2 * liquidity, given |-> x]
  BY <1>1, <1>2 DEF Segment
<1>4. QED
  BY <1>2, <1>3 DEF Segments

\* The segments of the curve, in the order a swap passes them.
Curve(c, down) ==
    [i \in 1 .. Room(c, down) |->
       Segment(Depth(c.book, PointAt(c.price, down, i)), PointAt(c.price, down, i), down)]

LEMMA CurveTypes ==
    ASSUME NEW c \in Chains, NEW down \in BOOLEAN
    PROVE  /\ Room(c, down) \in Nat
           /\ Curve(c, down) \in [1 .. Room(c, down) -> Segments]
           /\ \A i \in 1 .. Room(c, down) :
                PointAt(c.price, down, i) \in Nat /\ PointAt(c.price, down, i) < Top
<1>1. /\ c.price \in Nat /\ Top \in Nat /\ c.price < Top /\ c.book \in SUBSET Positions
  BY ChainTypes
<1>2. Room(c, down) \in Nat
  BY <1>1 DEF Room
<1>3. \A i \in 1 .. Room(c, down) :
        PointAt(c.price, down, i) \in Nat /\ PointAt(c.price, down, i) < Top
  BY <1>1 DEF Room, PointAt
<1>4. ASSUME NEW i \in 1 .. Room(c, down)
      PROVE  Segment(Depth(c.book, PointAt(c.price, down, i)),
                     PointAt(c.price, down, i), down) \in Segments
  BY <1>1, <1>3, DepthTypes, SegmentTypes
<1>5. Curve(c, down) \in [1 .. Room(c, down) -> Segments]
  BY <1>4 DEF Curve
<1>6. QED
  BY <1>2, <1>3, <1>5

\* What a swap exchanges on the curve, point after point.
LEMMA CurvePath ==
    ASSUME NEW c \in Chains, NEW down \in BOOLEAN, NEW exactIn \in BOOLEAN,
           NEW amount \in Nat
    PROVE  \E h : /\ FillsAlong(h, Room(c, down), Curve(c, down), amount, exactIn)
                  /\ \A m \in 0 .. Room(c, down) :
                       ExchangeOver(c, m, down, exactIn, amount) = h[m]
<1>1. PICK n \in Nat : n = Room(c, down)
  BY CurveTypes
<1>1a. PICK list \in [1 .. n -> Segments] : list = Curve(c, down)
  BY <1>1, CurveTypes
<1>2. PICK h : /\ FillsAlong(h, n, list, amount, exactIn)
               /\ \A m \in 0 .. n :
                    Fill(amount, [i \in 1 .. m |-> list[i]], exactIn) = h[m]
  BY FillPrefixes
<1>3. ASSUME NEW m \in 0 .. n
      PROVE  ExchangeOver(c, m, down, exactIn, amount) = h[m]
  <2>1. \A i \in 1 .. m : i \in 1 .. n
    OBVIOUS
  <2>2. \A i \in 1 .. m :
          list[i] = Segment(Depth(c.book, PointAt(c.price, down, i)),
                            PointAt(c.price, down, i), down)
    BY <1>1, <1>1a, <2>1 DEF Curve
  <2>3. [i \in 1 .. m |-> list[i]]
          = [i \in 1 .. m |-> Segment(Depth(c.book, PointAt(c.price, down, i)),
                                      PointAt(c.price, down, i), down)]
    BY <2>2
  <2>4. QED
    BY <1>2, <2>3 DEF ExchangeOver
<1>4. QED
  BY <1>1, <1>1a, <1>2, <1>3

\* Ticks ahead lie in the direction of the swap, and within the curve.
LEMMA DistanceTypes ==
    ASSUME NEW c \in Chains, NEW down \in BOOLEAN, NEW t \in TicksAhead(c, down)
    PROVE  /\ t \in Nat /\ t \in Initialized(c.book)
           /\ Distance(c, t) \in 0 .. Room(c, down)
           /\ PerTick * t = IF down THEN c.price - Distance(c, t)
                                    ELSE c.price + Distance(c, t)
<1>1. PICK n \in Nat \ {0} : n = PerTick
  BY BoundsTypes
<1>2. /\ c.price \in Nat /\ Top \in Nat /\ c.tick \in Nat /\ c.book \in SUBSET Positions
      /\ n * c.tick <= c.price /\ c.price <= n * (c.tick + 1)
  BY <1>1, ChainTypes
<1>3. t \in Nat /\ t < MaxTick /\ t \in Initialized(c.book)
  BY <1>2, InitializedTypes DEF TicksAhead
<1>4. PICK x \in Nat : x = n * t /\ x = t * n
  BY <1>3
<1>5. x <= Top
  BY <1>1, <1>3, <1>4, BoundsTypes, TimesKeepsOrder DEF Top
<1>6. Distance(c, t) = IF x > c.price THEN x - c.price ELSE c.price - x
  BY <1>1, <1>4 DEF Distance
<1>7. CASE down
  <2>1. t <= c.tick
    BY <1>7 DEF TicksAhead
  <2>2. x <= n * c.tick /\ n * c.tick \in Int
    BY <1>2, <1>3, <1>4, <2>1
  <2>3. x <= c.price
    BY <1>2, <2>2
  <2>4. QED
    BY <1>1, <1>2, <1>3, <1>4, <1>6, <1>7, <2>3 DEF Room
<1>8. CASE ~down
  <2>1. t >= c.tick + 1
    BY <1>2, <1>3, <1>8 DEF TicksAhead
  <2>2. n * (c.tick + 1) <= x /\ n * (c.tick + 1) \in Int
    BY <1>2, <1>3, <1>4, <2>1, TimesKeepsOrder
  <2>3. c.price <= x
    BY <1>2, <2>2
  <2>4. QED
    BY <1>1, <1>2, <1>3, <1>4, <1>5, <1>6, <1>8, <2>3 DEF Room
<1>9. QED
  BY <1>7, <1>8

LEMMA ReachTypes ==
    ASSUME NEW c \in Chains, NEW down \in BOOLEAN
    PROVE  /\ Reach(c, down) \in 0 .. Room(c, down)
           /\ \A t \in TicksAhead(c, down) : Distance(c, t) <= Reach(c, down)
           /\ \/ Reach(c, down) = 0
              \/ \E t \in TicksAhead(c, down) : Reach(c, down) = Distance(c, t)
<1>1. PICK S : S = {0} \cup {Distance(c, t) : t \in TicksAhead(c, down)}
  OBVIOUS
<1>2. PICK n \in Nat : n = Room(c, down)
  BY CurveTypes
<1>3. S \in SUBSET (0 .. n) /\ S # {}
  BY <1>1, <1>2, DistanceTypes
<1>4. Max(S) \in S /\ \A j \in S : j <= Max(S)
  BY <1>2, <1>3, Extremes
<1>5. Reach(c, down) = Max(S)
  BY <1>1 DEF Reach
<1>6. QED
  BY <1>1, <1>2, <1>3, <1>4, <1>5

LEMMA ExchangeTypes ==
    ASSUME NEW c \in Chains, NEW down \in BOOLEAN, NEW exactIn \in BOOLEAN,
           NEW amount \in Nat
    PROVE  Exchange(c, down, exactIn, amount) \in Nat
<1>1. PICK h : /\ FillsAlong(h, Room(c, down), Curve(c, down), amount, exactIn)
               /\ \A m \in 0 .. Room(c, down) :
                    ExchangeOver(c, m, down, exactIn, amount) = h[m]
  BY CurvePath
<1>2. PICK f \in Fills(amount) :
        f = ExchangeOver(c, Reach(c, down), down, exactIn, amount)
  BY <1>1, ReachTypes DEF FillsAlong
<1>3. f.other \in Nat
  BY FillFields
<1>4. QED
  BY <1>2, <1>3 DEF Exchange

-----------------------------------------------------------------------------
(***************************************************************************)
(* The walk, on whatever pool and whatever arrays were read                *)
(***************************************************************************)
\* Array starts.
Starts == 0 .. MaxTick

WalkStates ==
    [status : {"more", "ok", "error"}, remaining : Nat, calculated : Nat,
     price : 0 .. Top, tick : Int, liquidity : Nat, start : Starts,
     used : SUBSET Starts, matches : BOOLEAN]

LEMMA WalkFields ==
    ASSUME NEW s \in WalkStates
    PROVE  /\ s.status \in {"more", "ok", "error"} /\ s.remaining \in Nat
           /\ s.calculated \in Nat /\ s.price \in 0 .. Top /\ s.tick \in Int
           /\ s.liquidity \in Nat /\ s.start \in Starts /\ s.used \in SUBSET Starts
           /\ s.matches \in BOOLEAN
           /\ s = [status |-> s.status, remaining |-> s.remaining,
                   calculated |-> s.calculated, price |-> s.price, tick |-> s.tick,
                   liquidity |-> s.liquidity, start |-> s.start, used |-> s.used,
                   matches |-> s.matches]
  BY DEF WalkStates

LEMMA WalkRecord ==
    ASSUME NEW status \in {"more", "ok", "error"}, NEW remaining \in Nat,
           NEW calculated \in Nat, NEW price \in 0 .. Top, NEW tick \in Int,
           NEW liquidity \in Nat, NEW start \in Starts, NEW used \in SUBSET Starts,
           NEW matches \in BOOLEAN
    PROVE  [status |-> status, remaining |-> remaining, calculated |-> calculated,
            price |-> price, tick |-> tick, liquidity |-> liquidity,
            start |-> start, used |-> used, matches |-> matches] \in WalkStates
  BY Zenon DEF WalkStates

LEMMA TopTypes ==
    /\ Top \in Nat /\ \A t \in 0 .. MaxTick : t * PerTick \in 0 .. Top
<1>1. PICK n \in Nat \ {0}, m \in Nat \ {0} : n = PerTick /\ m = MaxTick
  BY BoundsTypes
<1>2. ASSUME NEW t \in 0 .. m PROVE t * n \in 0 .. m * n
  <2>1. PICK x \in Nat, y \in Nat : x = t * n /\ y = m * n /\ x = n * t /\ y = n * m
    OBVIOUS
  <2>2. x <= y
    BY <2>1, TimesKeepsOrder
  <2>3. QED
    BY <2>1, <2>2
<1>3. m * n \in Nat
  OBVIOUS
<1>4. QED
  BY <1>1, <1>2, <1>3 DEF Top

LEMMA WalkParts ==
    ASSUME NEW status, NEW remaining, NEW calculated, NEW price, NEW tick,
           NEW liquidity, NEW start, NEW used, NEW matches,
           NEW s, s = [status |-> status, remaining |-> remaining,
                       calculated |-> calculated, price |-> price, tick |-> tick,
                       liquidity |-> liquidity, start |-> start, used |-> used,
                       matches |-> matches]
    PROVE  /\ s.status = status /\ s.remaining = remaining /\ s.calculated = calculated
           /\ s.price = price /\ s.tick = tick /\ s.liquidity = liquidity
           /\ s.start = start /\ s.used = used /\ s.matches = matches
  OBVIOUS

\* The points between a price and a target that lies in the direction of the
\* swap; none for one that does not.
Gap(price, target, down) ==
    IF down THEN (IF price > target THEN price - target ELSE 0)
            ELSE (IF target > price THEN target - price ELSE 0)

FlatCurve(price, liquidity, down, n) ==
    [i \in 1 .. n |-> Segment(liquidity, PointAt(price, down, i), down)]

\* h leads over n points to what compute_swap answers.
ComputesAlong(h, n, price, target, liquidity, remaining, down, exactIn) ==
    /\ n = Gap(price, target, down)
    /\ FlatCurve(price, liquidity, down, n) \in [1 .. n -> Segments]
    /\ FillsAlong(h, n, FlatCurve(price, liquidity, down, n), remaining, exactIn)
    /\ ComputeSwap(price, target, liquidity, remaining, down, exactIn) = h[n]

LEMMA ComputeSwapPath ==
    ASSUME NEW down \in BOOLEAN, NEW exactIn \in BOOLEAN,
           NEW price \in 0 .. Top, NEW target \in 0 .. Top, NEW liquidity \in Nat,
           NEW remaining \in Nat
    PROVE  \E n \in Nat : \E h :
             ComputesAlong(h, n, price, target, liquidity, remaining, down, exactIn)
<1>0. Top \in Nat
  BY TopTypes
<1>0a. Gap(price, target, down) \in Nat
  BY <1>0 DEF Gap
<1>1. PICK n \in Nat : n = Gap(price, target, down)
  BY <1>0a
<1>2. 1 .. (IF down THEN price - target ELSE target - price) = 1 .. n
  BY <1>0, <1>1 DEF Gap
<1>4. ASSUME NEW i \in 1 .. n
      PROVE  Segment(liquidity, PointAt(price, down, i), down) \in Segments
  <2>1. PointAt(price, down, i) \in Nat /\ PointAt(price, down, i) < Top
    BY <1>0, <1>1 DEF PointAt, Gap
  <2>2. QED
    BY <2>1, SegmentTypes
<1>5. FlatCurve(price, liquidity, down, n) \in [1 .. n -> Segments]
  BY <1>4 DEF FlatCurve
<1>3. PICK list \in [1 .. n -> Segments] : list = FlatCurve(price, liquidity, down, n)
  BY <1>5
<1>6. PICK h : FillsAlong(h, n, list, remaining, exactIn) /\ Fill(remaining, list, exactIn) = h[n]
  BY <1>1, FillPath
<1>7. ComputeSwap(price, target, liquidity, remaining, down, exactIn)
        = Fill(remaining, list, exactIn)
  BY <1>2, <1>3 DEF ComputeSwap, FlatCurve
<1>8. QED
  BY <1>1, <1>3, <1>5, <1>6, <1>7 DEF ComputesAlong

LEMMA ComputeSwapTypes ==
    ASSUME NEW down \in BOOLEAN, NEW exactIn \in BOOLEAN,
           NEW price \in 0 .. Top, NEW target \in 0 .. Top, NEW liquidity \in Nat,
           NEW remaining \in Nat,
           NEW c, c = ComputeSwap(price, target, liquidity, remaining, down, exactIn)
    PROVE  c \in Fills(remaining) /\ c.points <= Gap(price, target, down)
<1>1. PICK n \in Nat : \E h :
        ComputesAlong(h, n, price, target, liquidity, remaining, down, exactIn)
  BY ComputeSwapPath
<1>2. PICK h :
        /\ n = Gap(price, target, down)
        /\ FlatCurve(price, liquidity, down, n) \in [1 .. n -> Segments]
        /\ FillsAlong(h, n, FlatCurve(price, liquidity, down, n), remaining, exactIn)
        /\ c = h[n]
  BY <1>1 DEF ComputesAlong
<1>4. n \in 0 .. n
  OBVIOUS
<1>5. IF h[n].whole THEN h[n].points = n ELSE h[n].points < n
  BY <1>1, <1>2, <1>4, PointsPassed
<1>6. h[n] \in Fills(remaining)
  BY <1>2, <1>4 DEF FillsAlong
<1>7. c.points = n \/ c.points < n
  BY <1>2, <1>5
<1>8. QED
  BY <1>1, <1>2, <1>6, <1>7, FillFields

\* What a step makes of the state: an error, or these fields.
LEMMA AdvanceFields ==
    ASSUME NEW s \in WalkStates, NEW t, NEW c, NEW book, NEW down,
           NEW next, next = IF down THEN s.price - c.points ELSE s.price + c.points,
           NEW after, after = IF next = t * PerTick
                                THEN LiquidityAfter(s.liquidity, Net(book, t), down)
                                ELSE s.liquidity,
           NEW tick, tick = IF next = t * PerTick THEN (IF down THEN t - 1 ELSE t)
                            ELSE IF next # s.price THEN next \div PerTick ELSE s.tick
    PROVE  Advance(s, t, c, book, down) =
             IF after < 0
               THEN [status |-> "error", remaining |-> s.remaining,
                     calculated |-> s.calculated, price |-> s.price, tick |-> s.tick,
                     liquidity |-> s.liquidity, start |-> s.start, used |-> s.used,
                     matches |-> s.matches]
               ELSE [status |-> s.status, remaining |-> s.remaining - c.used,
                     calculated |-> s.calculated + c.other, price |-> next,
                     tick |-> tick, liquidity |-> after, start |-> s.start,
                     used |-> s.used, matches |-> s.matches]
<1>1. s = [status |-> s.status, remaining |-> s.remaining,
           calculated |-> s.calculated, price |-> s.price, tick |-> s.tick,
           liquidity |-> s.liquidity, start |-> s.start, used |-> s.used,
           matches |-> s.matches]
  BY WalkFields
<1>2. Advance(s, t, c, book, down) =
        IF after < 0 THEN [s EXCEPT !.status = "error"]
        ELSE [s EXCEPT !.remaining = @ - c.used, !.calculated = @ + c.other,
                       !.price = next, !.liquidity = after, !.tick = tick]
  BY DEF Advance
<1>3. [s EXCEPT !.status = "error"] =
        [status |-> "error", remaining |-> s.remaining,
         calculated |-> s.calculated, price |-> s.price, tick |-> s.tick,
         liquidity |-> s.liquidity, start |-> s.start, used |-> s.used,
         matches |-> s.matches]
  BY <1>1
<1>4. PICK rem, calc : rem = s.remaining - c.used /\ calc = s.calculated + c.other
  OBVIOUS
<1>5. PICK r : r = [s EXCEPT !.remaining = rem, !.calculated = calc,
                             !.price = next, !.liquidity = after, !.tick = tick]
  OBVIOUS
<1>6. r = [status |-> s.status, remaining |-> rem, calculated |-> calc, price |-> next,
           tick |-> tick, liquidity |-> after, start |-> s.start,
           used |-> s.used, matches |-> s.matches]
  BY <1>1, <1>5
<1>7. Advance(s, t, c, book, down) = IF after < 0 THEN [s EXCEPT !.status = "error"] ELSE r
  BY <1>2, <1>4, <1>5
<1>8. QED
  BY <1>3, <1>4, <1>6, <1>7, Zenon

LEMMA StepTypes ==
    ASSUME NEW s \in WalkStates, NEW t \in 0 .. MaxTick, NEW book \in SUBSET Positions,
           NEW down \in BOOLEAN, NEW exactIn \in BOOLEAN
    PROVE  StepTo(s, t, book, down, exactIn) \in WalkStates
<1>0. t \in Nat /\ PerTick \in Nat \ {0}
  BY BoundsTypes
<1>1. PICK target \in 0 .. Top : target = t * PerTick
  BY TopTypes
<1>2. /\ s.status \in {"more", "ok", "error"} /\ s.remaining \in Nat
      /\ s.calculated \in Nat /\ s.price \in 0 .. Top /\ s.tick \in Int
      /\ s.liquidity \in Nat /\ s.start \in Starts /\ s.used \in SUBSET Starts
      /\ s.matches \in BOOLEAN
  BY WalkFields
<1>3. PICK c : c = ComputeSwap(s.price, target, s.liquidity, s.remaining, down, exactIn)
  OBVIOUS
<1>4. c \in Fills(s.remaining) /\ c.points <= Gap(s.price, target, down)
  BY <1>2, <1>3, ComputeSwapTypes
<1>5. c.points \in Nat /\ c.used \in Nat /\ c.used <= s.remaining /\ c.other \in Nat
  BY <1>2, <1>4, FillFields
<1>6. PICK next : next = IF down THEN s.price - c.points ELSE s.price + c.points
  OBVIOUS
<1>7. next \in 0 .. Top
  BY <1>2, <1>4, <1>5, <1>6, TopTypes DEF Gap
<1>8. PICK after : after = IF next = t * PerTick
                             THEN LiquidityAfter(s.liquidity, Net(book, t), down)
                             ELSE s.liquidity
  OBVIOUS
<1>9. after \in Int
  <2>1. Net(book, t) \in Int
    BY <1>0, LiquidityStep
  <2>2. QED
    BY <1>2, <1>8, <2>1 DEF LiquidityAfter
<1>10. PICK tick : tick = IF next = t * PerTick THEN (IF down THEN t - 1 ELSE t)
                          ELSE IF next # s.price THEN next \div PerTick ELSE s.tick
  OBVIOUS
<1>11. tick \in Int
  <2>1. next \div PerTick \in Int
    BY <1>0, <1>7, TopTypes
  <2>2. QED
    BY <1>0, <1>2, <1>10, <2>1
<1>12. StepTo(s, t, book, down, exactIn) = Advance(s, t, c, book, down)
  BY <1>1, <1>3 DEF StepTo
<1>13. Advance(s, t, c, book, down) =
         IF after < 0
           THEN [status |-> "error", remaining |-> s.remaining,
                 calculated |-> s.calculated, price |-> s.price, tick |-> s.tick,
                 liquidity |-> s.liquidity, start |-> s.start, used |-> s.used,
                 matches |-> s.matches]
           ELSE [status |-> s.status, remaining |-> s.remaining - c.used,
                 calculated |-> s.calculated + c.other, price |-> next, tick |-> tick,
                 liquidity |-> after, start |-> s.start, used |-> s.used,
                 matches |-> s.matches]
  BY <1>6, <1>8, <1>10, AdvanceFields
<1>14. CASE after < 0
  <2>1. "error" \in {"more", "ok", "error"}
    OBVIOUS
  <2>2. [status |-> "error", remaining |-> s.remaining,
         calculated |-> s.calculated, price |-> s.price, tick |-> s.tick,
         liquidity |-> s.liquidity, start |-> s.start, used |-> s.used,
         matches |-> s.matches] \in WalkStates
    BY <1>2, <2>1, WalkRecord, Zenon
  <2>3. QED
    BY <1>12, <1>13, <1>14, <2>2, Zenon
<1>15. CASE ~(after < 0)
  <2>1. s.remaining - c.used \in Nat /\ s.calculated + c.other \in Nat /\ after \in Nat
    BY <1>2, <1>5, <1>9, <1>15
  <2>2. [status |-> s.status, remaining |-> s.remaining - c.used,
         calculated |-> s.calculated + c.other, price |-> next, tick |-> tick,
         liquidity |-> after, start |-> s.start, used |-> s.used,
         matches |-> s.matches] \in WalkStates
    BY <1>2, <1>7, <1>11, <2>1, WalkRecord, Zenon
  <2>3. QED
    BY <1>12, <1>13, <1>15, <2>2, Zenon
<1>16. QED
  BY <1>14, <1>15

LEMMA FirstTypes ==
    ASSUME NEW down \in BOOLEAN, NEW S \in SUBSET (0 .. MaxTick), S # {}
    PROVE  /\ First(S, down) \in S
           /\ \A x \in S : IF down THEN x <= First(S, down) ELSE First(S, down) <= x
  BY BoundsTypes, Extremes DEF First

LEMMA ArrayStartTypes ==
    ASSUME NEW t \in Nat
    PROVE  /\ ArrayStart(t) \in Nat /\ ArrayStart(t) <= t /\ t < ArrayStart(t) + ArraySize
           /\ \A u \in Nat : t <= u => ArrayStart(t) <= ArrayStart(u)
           /\ \A u \in Nat : ArrayStart(t) < ArrayStart(u) => t < ArrayStart(u)
<1>1. PICK n \in Nat \ {0} : n = ArraySize
  BY BoundsTypes
<1>2. \A u \in Nat : \E d \in Nat :
        d = u \div n /\ n * d <= u /\ u < n * (d + 1) /\ n * (d + 1) = n * d + n
  <2> SUFFICES ASSUME NEW u \in Nat
               PROVE  \E d \in Nat : /\ d = u \div n /\ n * d <= u /\ u < n * (d + 1)
                                     /\ n * (d + 1) = n * d + n
    OBVIOUS
  <2>1. PICK d \in Nat : d = u \div n /\ n * d <= u /\ u < n * (d + 1)
    OBVIOUS
  <2>2. n * (d + 1) = n * d + n
    OBVIOUS
  <2>3. QED
    BY <2>1, <2>2
<1>3. PICK d \in Nat : d = t \div n /\ n * d <= t /\ t < n * (d + 1) /\ n * (d + 1) = n * d + n
  BY <1>2
<1>4. n * d \in Nat /\ ArrayStart(t) = n * d
  BY <1>1, <1>3 DEF ArrayStart
<1>5. ASSUME NEW u \in Nat
      PROVE  /\ t <= u => ArrayStart(t) <= ArrayStart(u)
             /\ ArrayStart(t) < ArrayStart(u) => t < ArrayStart(u)
  <2>1. PICK e \in Nat : e = u \div n /\ n * e <= u /\ u < n * (e + 1) /\ n * (e + 1) = n * e + n
    BY <1>2
  <2>2. n * e \in Nat /\ ArrayStart(u) = n * e
    BY <1>1, <2>1 DEF ArrayStart
  <2>3. ASSUME t <= u PROVE n * d <= n * e
    <3>1. n * d < n * (e + 1)
      BY <1>3, <1>4, <2>1, <2>2, <2>3
    <3>2. d < e + 1
      BY <3>1, Cancel
    <3>3. QED
      BY <3>2, TimesKeepsOrder
  <2>4. ASSUME n * d < n * e PROVE t < n * e
    <3>1. d + 1 <= e
      BY <2>4, Cancel
    <3>2. n * (d + 1) <= n * e
      BY <3>1, TimesKeepsOrder
    <3>3. QED
      BY <1>3, <1>4, <2>2, <3>2
  <2>5. QED
    BY <1>4, <2>2, <2>3, <2>4
<1>6. QED
  BY <1>1, <1>3, <1>4, <1>5

LEMMA TicksTypes ==
    ASSUME NEW book \in SUBSET Positions
    PROVE  /\ Initialized(book) \in SUBSET (0 .. MaxTick)
           /\ Bitmap(book) \in SUBSET Starts
           /\ \A start : /\ TicksOf(book, start) \in SUBSET (0 .. MaxTick)
                         /\ start \in Bitmap(book) <=> TicksOf(book, start) # {}
           /\ \A start, tick : \A down \in BOOLEAN :
                NextIn(book, start, tick, down) \in SUBSET (0 .. MaxTick)
<1>1. \A t \in Initialized(book) : t \in Nat /\ t \in 0 .. MaxTick
  BY InitializedTypes, BoundsTypes
<1>2. \A t \in Initialized(book) : ArrayStart(t) \in 0 .. MaxTick
  BY <1>1, ArrayStartTypes, BoundsTypes
<1>3. Bitmap(book) \in SUBSET Starts
  BY <1>2 DEF Bitmap, Starts
<1>4. \A start : /\ TicksOf(book, start) \in SUBSET (0 .. MaxTick)
                 /\ start \in Bitmap(book) <=> TicksOf(book, start) # {}
  BY <1>1 DEF Bitmap, TicksOf
<1>5. \A start, tick : \A down \in BOOLEAN :
        NextIn(book, start, tick, down) \in SUBSET (0 .. MaxTick)
  BY <1>1 DEF NextIn, TicksOf
<1>6. QED
  BY <1>1, <1>3, <1>4, <1>5

\* The state with another array in hand, and with another status.
Moved(s, start, used, matches) ==
    [status |-> s.status, remaining |-> s.remaining, calculated |-> s.calculated,
     price |-> s.price, tick |-> s.tick, liquidity |-> s.liquidity,
     start |-> start, used |-> used, matches |-> matches]

Ended(s, status) ==
    [status |-> status, remaining |-> s.remaining, calculated |-> s.calculated,
     price |-> s.price, tick |-> s.tick, liquidity |-> s.liquidity,
     start |-> s.start, used |-> s.used, matches |-> s.matches]

\* Nothing is left to exchange, or there is no tick to go to.
Stops(s) == s.remaining = 0 \/ s.tick >= MaxTick \/ s.tick <= 0

\* What one turn of the loop does: nothing, an end, a step towards a tick of
\* the array in hand, one into the array the walk starts from, or one into
\* the next of the later arrays.
TurnsTo(s, r, ahead, inArray, later, book, down, exactIn) ==
    \/ s.status # "more" /\ r = s
    \/ s.status = "more" /\ Stops(s) /\ r = Ended(s, "ok")
    \/ /\ s.status = "more" /\ ~Stops(s) /\ ahead # {}
       /\ r = StepTo(Moved(s, s.start, s.used, s.matches), First(ahead, down),
                     book, down, exactIn)
    \/ /\ s.status = "more" /\ ~Stops(s) /\ ahead = {} /\ ~s.matches
       /\ inArray # {}
       /\ r = StepTo(Moved(s, s.start, s.used, TRUE), First(inArray, down),
                     book, down, exactIn)
    \/ /\ s.status = "more" /\ ~Stops(s) /\ ahead = {}
       /\ \/ ~s.matches /\ inArray = {}
          \/ /\ s.matches
             /\ \/ later = {} \/ Cardinality(s.used) = Discovery
                \/ TicksOf(book, First(later, down)) = {}
       /\ r = Ended(s, "error")
    \/ /\ s.status = "more" /\ ~Stops(s) /\ ahead = {} /\ s.matches
       /\ later # {} /\ Cardinality(s.used) # Discovery
       /\ TicksOf(book, First(later, down)) # {}
       /\ r = StepTo(Moved(s, First(later, down), s.used \cup {First(later, down)},
                           TRUE),
                     First(TicksOf(book, First(later, down)), down),
                     book, down, exactIn)

LEMMA TurnCases ==
    ASSUME NEW down \in BOOLEAN, NEW exactIn \in BOOLEAN, NEW s \in WalkStates,
           NEW bitmap, NEW book
    PROVE  TurnsTo(s, Turn(s, bitmap, book, down, exactIn),
                   NextIn(book, s.start, s.tick, down), TicksOf(book, s.start),
                   ArraysAfter(bitmap, s.start, down), book, down, exactIn)
<1> SUFFICES ASSUME NEW r, r = Turn(s, bitmap, book, down, exactIn),
                    NEW ahead, ahead = NextIn(book, s.start, s.tick, down),
                    NEW inArray, inArray = TicksOf(book, s.start),
                    NEW later, later = ArraysAfter(bitmap, s.start, down)
             PROVE  TurnsTo(s, r, ahead, inArray, later, book, down, exactIn)
  OBVIOUS
<1> USE DEF TurnsTo
<1>0. /\ s.matches \in BOOLEAN
      /\ s = [status |-> s.status, remaining |-> s.remaining,
              calculated |-> s.calculated, price |-> s.price, tick |-> s.tick,
              liquidity |-> s.liquidity, start |-> s.start, used |-> s.used,
              matches |-> s.matches]
  BY WalkFields
<1>1. PICK first : first = IF ahead = {} /\ ~s.matches THEN inArray ELSE ahead
  OBVIOUS
<1>2. PICK m : m = [s EXCEPT !.matches = @ \/ ahead = {}]
  OBVIOUS
<1>3. PICK a : a = First(later, down)
  OBVIOUS
<1>4. r = IF s.status # "more" THEN s
          ELSE IF Stops(s) THEN [s EXCEPT !.status = "ok"]
          ELSE IF first # {} THEN StepTo(m, First(first, down), book, down, exactIn)
          ELSE IF \/ ~s.matches \/ later = {} \/ Cardinality(s.used) = Discovery
                  \/ TicksOf(book, a) = {}
            THEN [s EXCEPT !.status = "error"]
          ELSE StepTo([m EXCEPT !.start = a, !.used = @ \cup {a}],
                      First(TicksOf(book, a), down), book, down, exactIn)
  BY <1>1, <1>2, <1>3 DEF Turn, Stops
<1>5. ASSUME NEW status PROVE [s EXCEPT !.status = status] = Ended(s, status)
  BY <1>0 DEF Ended
<1>6. PICK b \in BOOLEAN : b = (s.matches \/ ahead = {})
  OBVIOUS
<1>7. m = Moved(s, s.start, s.used, b)
  <2>1. m = [s EXCEPT !.matches = b]
    BY <1>2, <1>6
  <2>2. QED
    BY <1>0, <2>1 DEF Moved
<1>8. [m EXCEPT !.start = a, !.used = @ \cup {a}] = Moved(s, a, s.used \cup {a}, b)
  <2>1. PICK u : u = s.used \cup {a}
    OBVIOUS
  <2>2. m.used = s.used
    BY <1>7 DEF Moved
  <2>3. PICK x : x = [m EXCEPT !.start = a, !.used = u]
    OBVIOUS
  <2>4. x = Moved(s, a, u, b)
    BY <1>7, <2>3 DEF Moved
  <2>5. QED
    BY <2>1, <2>2, <2>3, <2>4
<1>9. CASE s.status # "more"
  BY <1>4, <1>9
<1>10. CASE s.status = "more" /\ Stops(s)
  BY <1>4, <1>5, <1>10
<1>11. CASE s.status = "more" /\ ~Stops(s) /\ first # {}
  <2>1. r = StepTo(Moved(s, s.start, s.used, b), First(first, down), book, down, exactIn)
    BY <1>4, <1>7, <1>11
  <2>2. CASE ahead # {}
    <3>1. b = s.matches /\ first = ahead
      BY <1>0, <1>1, <1>6, <2>2
    <3>2. QED
      BY <1>11, <2>1, <2>2, <3>1
  <2>3. CASE ahead = {}
    <3>1. b = TRUE /\ first = inArray /\ ~s.matches
      BY <1>1, <1>6, <1>11, <2>3
    <3>2. QED
      BY <1>11, <2>1, <2>3, <3>1
  <2>4. QED
    BY <2>2, <2>3
<1>12. CASE s.status = "more" /\ ~Stops(s) /\ first = {}
  <2>1. ahead = {} /\ (~s.matches => inArray = {})
    BY <1>0, <1>1, <1>12
  <2>2. CASE \/ ~s.matches \/ later = {} \/ Cardinality(s.used) = Discovery
             \/ TicksOf(book, a) = {}
    <3>1. r = Ended(s, "error")
      BY <1>4, <1>5, <1>12, <2>2
    <3>2. QED
      BY <1>0, <1>3, <1>12, <2>1, <2>2, <3>1
  <2>3. CASE ~(\/ ~s.matches \/ later = {} \/ Cardinality(s.used) = Discovery
               \/ TicksOf(book, a) = {})
    <3>1. r = StepTo(Moved(s, a, s.used \cup {a}, b), First(TicksOf(book, a), down),
                     book, down, exactIn)
      BY <1>4, <1>8, <1>12, <2>3
    <3>2. b = TRUE
      BY <1>6, <2>1
    <3>3. QED
      BY <1>3, <1>12, <2>1, <2>3, <3>1, <3>2
  <2>4. QED
    BY <2>2, <2>3
<1>13. QED
  BY <1>9, <1>10, <1>11, <1>12

LEMMA MovedTypes ==
    ASSUME NEW matches \in BOOLEAN, NEW s \in WalkStates, NEW start \in Starts,
           NEW used \in SUBSET Starts
    PROVE  Moved(s, start, used, matches) \in WalkStates
<1>1. /\ s.status \in {"more", "ok", "error"} /\ s.remaining \in Nat
      /\ s.calculated \in Nat /\ s.price \in 0 .. Top /\ s.tick \in Int
      /\ s.liquidity \in Nat
  BY WalkFields
<1>2. QED
  BY <1>1, WalkRecord, Zenon DEF Moved

LEMMA EndedTypes ==
    ASSUME NEW s \in WalkStates, NEW status \in {"more", "ok", "error"}
    PROVE  Ended(s, status) \in WalkStates
<1>1. /\ s.remaining \in Nat /\ s.calculated \in Nat /\ s.price \in 0 .. Top
      /\ s.tick \in Int /\ s.liquidity \in Nat /\ s.start \in Starts
      /\ s.used \in SUBSET Starts /\ s.matches \in BOOLEAN
  BY WalkFields
<1>2. QED
  BY <1>1, WalkRecord, Zenon DEF Ended

LEMMA StepFromTypes ==
    ASSUME NEW down \in BOOLEAN, NEW exactIn \in BOOLEAN, NEW matches \in BOOLEAN,
           NEW s \in WalkStates, NEW start \in Starts, NEW used \in SUBSET Starts,
           NEW S \in SUBSET (0 .. MaxTick), S # {}, NEW book \in SUBSET Positions
    PROVE  StepTo(Moved(s, start, used, matches), First(S, down), book, down, exactIn)
             \in WalkStates
<1>1. First(S, down) \in 0 .. MaxTick
  BY FirstTypes
<1>2. Moved(s, start, used, matches) \in WalkStates
  BY MovedTypes
<1>3. QED
  BY <1>1, <1>2, StepTypes

LEMMA TurnTypes ==
    ASSUME NEW down \in BOOLEAN, NEW exactIn \in BOOLEAN, NEW s \in WalkStates,
           NEW bitmap \in SUBSET Starts, NEW book \in SUBSET Positions
    PROVE  Turn(s, bitmap, book, down, exactIn) \in WalkStates
<1>1. PICK r, ahead, inArray, later :
        /\ r = Turn(s, bitmap, book, down, exactIn)
        /\ ahead = NextIn(book, s.start, s.tick, down)
        /\ inArray = TicksOf(book, s.start)
        /\ later = ArraysAfter(bitmap, s.start, down)
  OBVIOUS
<1>2. /\ ahead \in SUBSET (0 .. MaxTick) /\ inArray \in SUBSET (0 .. MaxTick)
      /\ later \in SUBSET (0 .. MaxTick)
      /\ \A start : TicksOf(book, start) \in SUBSET (0 .. MaxTick)
  BY <1>1, TicksTypes DEF ArraysAfter, Starts
<1>3. s.start \in Starts /\ s.used \in SUBSET Starts /\ s.matches \in BOOLEAN
  BY WalkFields
<1>4. TurnsTo(s, r, ahead, inArray, later, book, down, exactIn)
  BY <1>1, TurnCases
<1>5. CASE r = s \/ r = Ended(s, "ok") \/ r = Ended(s, "error")
  BY <1>1, <1>5, EndedTypes
<1>6. CASE /\ ahead # {}
           /\ r = StepTo(Moved(s, s.start, s.used, s.matches), First(ahead, down),
                         book, down, exactIn)
  BY <1>1, <1>2, <1>3, <1>6, StepFromTypes
<1>7. CASE /\ inArray # {}
           /\ r = StepTo(Moved(s, s.start, s.used, TRUE), First(inArray, down),
                         book, down, exactIn)
  <2>1. TRUE \in BOOLEAN
    OBVIOUS
  <2>2. StepTo(Moved(s, s.start, s.used, TRUE), First(inArray, down), book, down, exactIn)
          \in WalkStates
    BY <1>2, <1>3, <1>7, <2>1, StepFromTypes
  <2>3. QED
    BY <1>1, <1>7, <2>2
<1>8. CASE \E a :
           /\ later # {} /\ a = First(later, down) /\ TicksOf(book, a) # {}
           /\ r = StepTo(Moved(s, a, s.used \cup {a}, TRUE),
                         First(TicksOf(book, a), down), book, down, exactIn)
  <2>1. PICK a : /\ later # {} /\ a = First(later, down) /\ TicksOf(book, a) # {}
                 /\ r = StepTo(Moved(s, a, s.used \cup {a}, TRUE),
                               First(TicksOf(book, a), down), book, down, exactIn)
    BY <1>8
  <2>2. a \in Starts
    BY <1>2, <2>1, FirstTypes DEF Starts
  <2>3. s.used \cup {a} \in SUBSET Starts /\ TRUE \in BOOLEAN
    BY <1>3, <2>2
  <2>4. StepTo(Moved(s, a, s.used \cup {a}, TRUE), First(TicksOf(book, a), down),
               book, down, exactIn) \in WalkStates
    BY <1>2, <2>1, <2>2, <2>3, StepFromTypes
  <2>5. QED
    BY <1>1, <2>1, <2>4
<1>9. QED
  BY <1>4, <1>5, <1>6, <1>7, <1>8 DEF TurnsTo

\* Where the walk begins.
Beginning(amount, down, pool, start) ==
    [status |-> "more", remaining |-> amount, calculated |-> 0,
     price |-> pool.price, tick |-> pool.tick,
     liquidity |-> LiquidityAt(pool.book, pool.tick),
     start |-> start, used |-> {start},
     matches |-> start = ArrayStart(pool.tick)]

LEMMA FromTypes ==
    ASSUME NEW down \in BOOLEAN, NEW pool \in Chains, NEW from,
           from = ArraysFrom(Bitmap(pool.book), pool.tick, down)
    PROVE  /\ from \in SUBSET (0 .. MaxTick)
           /\ from # {} => First(from, down) \in Starts
<1>1. Bitmap(pool.book) \in SUBSET Starts
  BY ChainTypes, TicksTypes
<1>2. from \in SUBSET (0 .. MaxTick)
  BY <1>1 DEF ArraysFrom, ArraysAfter, Starts
<1>3. QED
  BY <1>2, FirstTypes DEF Starts

LEMMA BeginningTypes ==
    ASSUME NEW down \in BOOLEAN, NEW pool \in Chains, NEW amount \in Nat,
           NEW start \in Starts
    PROVE  Beginning(amount, down, pool, start) \in WalkStates
<1>1. /\ pool.price \in 0 .. Top /\ pool.tick \in Int
      /\ LiquidityAt(pool.book, pool.tick) \in Nat
  BY ChainTypes, LiquidityAtTypes
<1>2. /\ (start = ArrayStart(pool.tick)) \in BOOLEAN /\ {start} \in SUBSET Starts
      /\ "more" \in {"more", "ok", "error"} /\ 0 \in Nat
  OBVIOUS
<1>3. QED
  BY <1>1, <1>2, WalkRecord, Zenon DEF Beginning

\* h is a walk of n turns.
WalksAlong(h, n, begin, bitmap, book, down, exactIn) ==
    /\ h \in [0 .. n -> WalkStates] /\ h[0] = begin
    /\ \A k \in 1 .. n : h[k] = Turn(h[k - 1], bitmap, book, down, exactIn)

LEMMA WalkPath ==
    ASSUME NEW down \in BOOLEAN, NEW exactIn \in BOOLEAN, NEW amount \in Nat,
           NEW pool \in Chains, NEW book \in SUBSET Positions, NEW from,
           from = ArraysFrom(Bitmap(pool.book), pool.tick, down), from # {}
    PROVE  \E h : /\ WalksAlong(h, WalkLimit,
                                Beginning(amount, down, pool, First(from, down)),
                                Bitmap(pool.book), book, down, exactIn)
                  /\ QuoteSwap(amount, down, exactIn, pool, book) = h[WalkLimit]
<1> DEFINE n == WalkLimit
           S == WalkStates
           begin == Beginning(amount, down, pool, First(from, down))
           Step(s) == Turn(s, Bitmap(pool.book), book, down, exactIn)
           list == [i \in 1 .. n |-> i]
           G == [k \in 1 .. n |-> [x \in S |-> Step(x)]]
           Eqn(it) == it = [s \in SUBSET DOMAIN list |->
                               IF s = {} THEN begin ELSE Step(it[s \ {Max(s)}])]
           it == CHOOSE f : Eqn(f)
<1>0. begin \in S /\ n \in Nat
  BY BoundsTypes, FromTypes, BeginningTypes
<1>1. G \in [1 .. n -> [S -> S]]
  <2>1. \A x \in S : Step(x) \in S
    BY ChainTypes, TicksTypes, TurnTypes
  <2> HIDE DEF S, Step
  <2>2. QED
    BY <2>1
<1>6. QuoteSwap(amount, down, exactIn, pool, book) = it[DOMAIN list]
  BY DEF QuoteSwap, FoldLeft, MapThenFoldSet, Beginning
<1>1b. DOMAIN list = 1 .. n
  OBVIOUS
<1> HIDE DEF Step, S, n, begin, list
<1>2. \E f : Eqn(f)
  <2>1. PICK f \in [SUBSET (1 .. n) -> S] : FoldsWith(f, n, begin, G)
    <3> HIDE DEF G
    <3> QED
      BY <1>0, <1>1, FoldExists
  <2>2. \A s \in SUBSET (1 .. n) : s # {} =>
            Max(s) \in 1 .. n /\ s \ {Max(s)} \in SUBSET (1 .. n)
    BY <1>0, MaxOfPositions
  <2>3. \A s \in SUBSET (1 .. n) : s # {} =>
            G[Max(s)][f[s \ {Max(s)}]] = Step(f[s \ {Max(s)}])
    BY <2>1, <2>2
  <2> HIDE DEF G
  <2>4. Eqn(f)
    BY <1>1b, <2>1, <2>3 DEF FoldsWith
  <2> HIDE DEF Eqn
  <2>5. QED
    BY <2>4
<1>3. Eqn(it)
  <2> HIDE DEF Eqn
  <2>1. QED
    BY <1>2
<1>4. it[{}] = begin
  BY <1>3
<1>5. ASSUME NEW k \in 1 .. n, it[1 .. (k - 1)] \in S
      PROVE  it[1 .. k] = G[k][it[1 .. (k - 1)]]
  <2>1. /\ Max(1 .. k) = k /\ (1 .. k) \ {k} = 1 .. (k - 1)
        /\ 1 .. k # {} /\ 1 .. k \in SUBSET (1 .. n)
    <3>1. k \in Nat \ {0} /\ 1 .. k \subseteq 1 .. n
      BY <1>0
    <3>2. QED
      BY <3>1, LastPosition
  <2> HIDE DEF it
  <2>2. it[1 .. k] = Step(it[1 .. (k - 1)])
    BY <1>1b, <1>3, <2>1
  <2>3. QED
    BY <1>5, <2>2
<1>7. FoldsWithin(it, n, S, begin, G)
  <2> HIDE DEF it, G
  <2> QED
    BY <1>4, <1>5 DEF FoldsWithin
<1>8. PICK h \in [0 .. n -> S] : FoldPath(h, n, begin, G) /\ h[n] = it[1 .. n]
  <2> HIDE DEF it, G
  <2> QED
    BY <1>0, <1>1, <1>7, FoldSteps, SMTT(60)
<1>9. h[0] = begin /\ \A k \in 1 .. n : h[k] = Step(h[k - 1])
  <2>1. \A k \in 1 .. n : k - 1 \in 0 .. n
    BY <1>0
  <2>2. \A k \in 1 .. n : h[k - 1] \in S
    BY <1>8, <2>1
  <2> HIDE DEF it
  <2>3. QED
    BY <1>8, <2>2 DEF FoldPath
<1>10. WalksAlong(h, WalkLimit, begin, Bitmap(pool.book), book, down, exactIn)
  <2> HIDE DEF it, G
  <2> QED
    BY <1>8, <1>9 DEF S, Step, WalksAlong, n
<1>11. QED
  <2> HIDE DEF it, G
  <2> QED
    BY <1>1b, <1>6, <1>8, <1>10 DEF n, begin

\* Whatever was read, what the walk answers is an amount and some arrays.
LEMMA QuoteSwapTypes ==
    ASSUME NEW down \in BOOLEAN, NEW exactIn \in BOOLEAN, NEW amount \in Nat,
           NEW pool \in Chains, NEW book \in SUBSET Positions, NEW q,
           q = QuoteSwap(amount, down, exactIn, pool, book)
    PROVE  q.calculated \in Nat /\ q.used \in SUBSET Starts
<1>1. PICK from : from = ArraysFrom(Bitmap(pool.book), pool.tick, down)
  OBVIOUS
<1>2. CASE from = {}
  <2>1. q = [status |-> "error", calculated |-> 0, used |-> {}]
    BY <1>1, <1>2 DEF QuoteSwap
  <2>2. QED
    BY <2>1
<1>3. CASE from # {}
  <2>1. PICK h : /\ WalksAlong(h, WalkLimit,
                               Beginning(amount, down, pool, First(from, down)),
                               Bitmap(pool.book), book, down, exactIn)
                 /\ QuoteSwap(amount, down, exactIn, pool, book) = h[WalkLimit]
    BY <1>1, <1>3, WalkPath
  <2>2. q \in WalkStates
    BY <2>1, BoundsTypes DEF WalksAlong
  <2>3. QED
    BY <2>2, WalkFields
<1>4. QED
  BY <1>2, <1>3

-----------------------------------------------------------------------------
(***************************************************************************)
(* The walk over the ticks of the pool it began in                         *)
(***************************************************************************)
\* The nearer of two ticks ahead is met first.
LEMMA DistanceOrder ==
    ASSUME NEW down \in BOOLEAN, NEW c \in Chains,
           NEW t \in TicksAhead(c, down), NEW u \in TicksAhead(c, down)
    PROVE  Distance(c, t) <= Distance(c, u) <=> IF down THEN u <= t ELSE t <= u
<1>1. PICK n \in Nat \ {0} : n = PerTick
  BY BoundsTypes
<1>2. c.price \in Nat
  BY ChainTypes
<1>3. PICK m \in Nat : m = Room(c, down)
  BY CurveTypes
<1>4. /\ t \in Nat /\ Distance(c, t) \in 0 .. m
      /\ n * t = IF down THEN c.price - Distance(c, t) ELSE c.price + Distance(c, t)
  BY <1>1, <1>3, DistanceTypes
<1>5. /\ u \in Nat /\ Distance(c, u) \in 0 .. m
      /\ n * u = IF down THEN c.price - Distance(c, u) ELSE c.price + Distance(c, u)
  BY <1>1, <1>3, DistanceTypes
<1>6. /\ n * t \in Int /\ n * u \in Int
      /\ t <= u <=> n * t <= n * u
      /\ u <= t <=> n * u <= n * t
  BY <1>4, <1>5, TimesKeepsOrder
<1>7. PICK x \in Int, y \in Int : x = n * t /\ y = n * u
  BY <1>6
<1>8. QED
  BY <1>2, <1>4, <1>5, <1>6, <1>7

\* Initialized ticks that are ahead of a tick, and those that were ahead of
\* the pool's and no longer are.
Left(c, tick, down) ==
    {t \in Initialized(c.book) : IF down THEN t <= tick ELSE t > tick}
Passed(c, tick, down) == TicksAhead(c, down) \ Left(c, tick, down)

\* The first of a set of ticks in the direction of the swap.
Nearest(S, t, down) ==
    t \in S /\ \A u \in S : IF down THEN u <= t ELSE t <= u

\* The walk in state s has passed n points of the pool's curve, with something
\* left to exchange, and taken and given what the curve says.
OnCurve(down, exactIn, c, amount, s, n) ==
    /\ n \in 0 .. Room(c, down)
    /\ s.price = IF down THEN c.price - n ELSE c.price + n
    /\ s.tick \in Nat /\ 0 < s.tick /\ s.tick < MaxTick
    /\ IF down THEN s.tick <= c.tick ELSE c.tick <= s.tick
    /\ PerTick * s.tick <= s.price /\ s.price <= PerTick * (s.tick + 1)
    /\ s.liquidity = LiquidityAt(c.book, s.tick)
    /\ s.remaining > 0
    /\ LET e == ExchangeOver(c, n, down, exactIn, amount) IN
       e.whole /\ e.used + s.remaining = amount /\ e.other = s.calculated

LEMMA LeftTypes ==
    ASSUME NEW down \in BOOLEAN, NEW exactIn \in BOOLEAN, NEW c \in Chains,
           NEW amount \in Nat, NEW s \in WalkStates, NEW n,
           OnCurve(down, exactIn, c, amount, s, n)
    PROVE  /\ Left(c, s.tick, down) \subseteq TicksAhead(c, down)
           /\ Left(c, s.tick, down) \in SUBSET (0 .. MaxTick)
           /\ \A u \in Left(c, s.tick, down) : n <= Distance(c, u)
           /\ \A u \in Passed(c, s.tick, down) : Distance(c, u) <= n
<1>1. PICK k \in Nat \ {0} : k = PerTick
  BY BoundsTypes
<1>2. c.book \in SUBSET Positions /\ c.tick \in Nat /\ c.price \in Nat
  BY ChainTypes
<1>3. PICK m \in Nat : m = Room(c, down)
  BY CurveTypes
<1>4. PICK tick \in Nat, price \in Int :
        /\ tick = s.tick /\ price = s.price /\ n \in 0 .. m
        /\ price = IF down THEN c.price - n ELSE c.price + n
        /\ IF down THEN tick <= c.tick ELSE c.tick <= tick
        /\ k * tick <= price /\ price <= k * (tick + 1)
  BY <1>1, <1>2, <1>3 DEF OnCurve
<1>5. Left(c, tick, down) \subseteq TicksAhead(c, down)
  <2>1. \A t \in Initialized(c.book) : t \in Nat
    BY <1>2, InitializedTypes
  <2>2. QED
    BY <1>2, <1>4, <2>1 DEF Left, TicksAhead
<1>6. Left(c, tick, down) \in SUBSET (0 .. MaxTick)
  BY <1>2, TicksTypes DEF Left
<1>7. ASSUME NEW u \in TicksAhead(c, down)
      PROVE  IF u \in Left(c, tick, down) THEN n <= Distance(c, u) ELSE Distance(c, u) <= n
  <2>1. /\ u \in Nat /\ Distance(c, u) \in 0 .. m /\ u \in Initialized(c.book)
        /\ k * u = IF down THEN c.price - Distance(c, u) ELSE c.price + Distance(c, u)
    BY <1>1, <1>3, DistanceTypes
  <2>2. /\ k * u \in Int /\ k * tick \in Int /\ k * (tick + 1) \in Int
        /\ u <= tick => k * u <= k * tick
        /\ u >= tick + 1 => k * (tick + 1) <= k * u
    BY <1>4, <2>1, TimesKeepsOrder
  <2>3. u \in Left(c, tick, down) <=> IF down THEN u <= tick ELSE u > tick
    BY <2>1 DEF Left
  <2>4. PICK x \in Int, y \in Int, z \in Int : x = k * u /\ y = k * tick /\ z = k * (tick + 1)
    BY <2>2
  <2>5. QED
    BY <1>2, <1>4, <2>1, <2>2, <2>3, <2>4
<1>8. QED
  BY <1>4, <1>5, <1>6, <1>7 DEF Passed

\* Between two initialized ticks the curve is flat, and the liquidity the walk
\* keeps is the curve's.
LEMMA FlatIsCurve ==
    ASSUME NEW down \in BOOLEAN, NEW exactIn \in BOOLEAN, NEW c \in Chains,
           NEW amount \in Nat, NEW s \in WalkStates, NEW n,
           OnCurve(down, exactIn, c, amount, s, n),
           NEW t, Nearest(Left(c, s.tick, down), t, down)
    PROVE  /\ Distance(c, t) - n \in 0 .. (Room(c, down) - n)
           /\ Gap(s.price, t * PerTick, down) = Distance(c, t) - n
           /\ \A i \in 1 .. (Distance(c, t) - n) :
                FlatCurve(s.price, s.liquidity, down, Distance(c, t) - n)[i]
                  = Curve(c, down)[n + i]
<1>1. PICK k \in Nat \ {0} : k = PerTick
  BY BoundsTypes
<1>2. c.book \in SUBSET Positions /\ c.tick \in Nat /\ c.price \in Nat
  BY ChainTypes
<1>3. PICK m \in Nat : m = Room(c, down)
  BY CurveTypes
<1>4. PICK tick \in Nat, price \in Int :
        /\ tick = s.tick /\ price = s.price /\ n \in 0 .. m
        /\ price = IF down THEN c.price - n ELSE c.price + n
        /\ k * tick <= price /\ price <= k * (tick + 1)
        /\ s.liquidity = LiquidityAt(c.book, tick)
  BY <1>1, <1>2, <1>3 DEF OnCurve
<1>4a. t \in Left(c, s.tick, down)
       /\ \A u \in Left(c, s.tick, down) : IF down THEN u <= t ELSE t <= u
  BY DEF Nearest
<1>5. PICK D \in Nat : D = Distance(c, t) /\ n <= D /\ D <= m
  BY <1>3, <1>4a, LeftTypes, DistanceTypes
<1>6. /\ t \in Nat /\ t \in Initialized(c.book)
      /\ k * t = IF down THEN c.price - D ELSE c.price + D
  BY <1>1, <1>3, <1>4a, <1>5, LeftTypes, DistanceTypes
<1>7. t * PerTick = k * t
  BY <1>1, <1>6
<1>8. Gap(price, t * PerTick, down) = D - n
  BY <1>2, <1>4, <1>5, <1>6, <1>7 DEF Gap
<1>9. IF down THEN t <= tick ELSE tick < t
  BY <1>4, <1>4a DEF Left
<1>10. ASSUME NEW i \in 1 .. (D - n)
       PROVE  FlatCurve(price, s.liquidity, down, D - n)[i] = Curve(c, down)[n + i]
  <2>1. n + i \in 1 .. m
    BY <1>4, <1>5
  <2>2. PICK p \in Nat : p = PointAt(c.price, down, n + i)
    BY <1>3, <2>1, CurveTypes
  <2>3. /\ p = PointAt(price, down, i)
        /\ p = IF down THEN price - i ELSE price + i - 1
    BY <1>2, <1>4, <2>2 DEF PointAt
  <2>4. PICK x \in Nat : /\ x = p \div PerTick
                         /\ k * x <= p /\ p < k * (x + 1)
                         /\ Depth(c.book, p) = LiquidityAt(c.book, x)
    BY <1>1, <1>2, DepthOfTick
  <2>5a. x \in Int /\ tick \in Int
    OBVIOUS
  <2>5. LiquidityAt(c.book, x) = LiquidityAt(c.book, tick)
    <3>1. \A u \in Initialized(c.book) : u \in Nat
      BY <1>2, InitializedTypes
    <3>2. CASE down
      <4>1. PICK x0 \in Int, x1 \in Int, y1 \in Int, z \in Int :
              x0 = k * x /\ x1 = k * (x + 1) /\ y1 = k * (tick + 1) /\ z = k * t
        BY <1>4, <1>6
      <4>2. x0 < y1 /\ z < x1
        <5>1. p < price /\ z <= p
          <6>1. z = c.price - D /\ price = c.price - n
            BY <1>4, <1>6, <3>2, <4>1
          <6>2. p = price - i
            BY <2>3, <3>2
          <6>2a. n \in Nat
            BY <1>4
          <6>3. QED
            BY <1>2, <1>5, <6>1, <6>2, <6>2a
        <5>2. x0 <= p /\ p < x1 /\ price <= y1
          BY <1>4, <2>4, <4>1
        <5>3. QED
          BY <4>1, <5>1, <5>2
      <4>3. x < tick + 1 /\ t < x + 1
        BY <1>4, <1>6, <4>1, <4>2, Cancel
      <4>4. \A u \in Initialized(c.book) : ~(x < u /\ u <= tick)
        BY <1>4, <1>4a, <1>6, <3>1, <3>2, <4>3 DEF Left
      <4>5. x <= tick
        BY <1>4, <2>4, <4>3
      <4>6. QED
        BY <1>2, <2>5a, <4>4, <4>5, SameLiquidity
    <3>3. CASE ~down
      <4>1. PICK x0 \in Int, x1 \in Int, y0 \in Int, z \in Int :
              x0 = k * x /\ x1 = k * (x + 1) /\ y0 = k * tick /\ z = k * t
        BY <1>4, <1>6
      <4>2. y0 < x1 /\ x0 < z
        BY <1>2, <1>4, <1>5, <1>6, <2>3, <2>4, <3>3, <4>1
      <4>3. tick < x + 1 /\ x < t
        BY <1>4, <1>6, <4>1, <4>2, Cancel
      <4>4. \A u \in Initialized(c.book) : ~(tick < u /\ u <= x)
        BY <1>4, <1>4a, <1>6, <3>1, <3>3, <4>3 DEF Left
      <4>5. tick <= x
        BY <1>4, <2>4, <4>3
      <4>6. QED
        BY <1>2, <2>5a, <4>4, <4>5, SameLiquidity
    <3>4. QED
      BY <3>2, <3>3
  <2>6. Curve(c, down)[n + i] = Segment(Depth(c.book, p), p, down)
    BY <1>3, <2>1, <2>2 DEF Curve
  <2>7. FlatCurve(price, s.liquidity, down, D - n)[i] = Segment(s.liquidity, p, down)
    BY <2>3 DEF FlatCurve
  <2>8. QED
    BY <1>4, <2>4, <2>5, <2>6, <2>7
<1>11. QED
  BY <1>3, <1>4, <1>5, <1>8, <1>10

\* Beyond the tick the liquidity is what it was before it and what it adds.
LEMMA LiquidityCrossed ==
    ASSUME NEW down \in BOOLEAN, NEW c \in Chains, NEW tick \in Nat,
           NEW t, Nearest(Left(c, tick, down), t, down)
    PROVE  LiquidityAfter(LiquidityAt(c.book, tick), Net(c.book, t), down)
             = LiquidityAt(c.book, IF down THEN t - 1 ELSE t)
<1>1. c.book \in SUBSET Positions
  BY ChainTypes
<1>2. /\ t \in Nat /\ t \in Int /\ t - 1 \in Int /\ tick \in Int /\ t \in Initialized(c.book)
      /\ IF down THEN t <= tick ELSE tick < t
  BY <1>1, InitializedTypes DEF Left, Nearest
<1>3. \A u \in Initialized(c.book) : u \in Nat
  BY <1>1, InitializedTypes
<1>4. /\ Net(c.book, t) \in Int
      /\ LiquidityAt(c.book, t) = LiquidityAt(c.book, t - 1) + Net(c.book, t)
  BY <1>1, <1>2, LiquidityStep
<1>5. LiquidityAt(c.book, t) \in Nat /\ LiquidityAt(c.book, t - 1) \in Nat
  BY <1>1, LiquidityAtTypes
<1>6. CASE down
  <2>1. \A u \in Initialized(c.book) : ~(t < u /\ u <= tick)
    BY <1>2, <1>3, <1>6 DEF Left, Nearest
  <2>2. LiquidityAt(c.book, tick) = LiquidityAt(c.book, t)
    BY <1>1, <1>2, <1>6, <2>1, SameLiquidity
  <2>3. QED
    BY <1>4, <1>5, <1>6, <2>2 DEF LiquidityAfter
<1>7. CASE ~down
  <2>1. \A u \in Initialized(c.book) : ~(tick < u /\ u <= t - 1)
    BY <1>2, <1>3, <1>7 DEF Left, Nearest
  <2>2. LiquidityAt(c.book, tick) = LiquidityAt(c.book, t - 1)
    <3>1. tick <= t - 1
      BY <1>2, <1>7
    <3>2. QED
      BY <1>1, <1>2, <2>1, <3>1, SameLiquidity
  <2>3. QED
    BY <1>4, <1>5, <1>7, <2>2 DEF LiquidityAfter
<1>8. QED
  BY <1>6, <1>7

\* A step towards the nearest tick that is left exchanges what the curve does
\* up to that tick; with something left to exchange it arrives there.
LEMMA StepOnCurve ==
    ASSUME NEW down \in BOOLEAN, NEW exactIn \in BOOLEAN, NEW c \in Chains,
           NEW amount \in Nat, NEW s \in WalkStates, NEW n,
           OnCurve(down, exactIn, c, amount, s, n), s.status = "more",
           NEW t, Nearest(Left(c, s.tick, down), t, down),
           NEW r, r = StepTo(s, t, c.book, down, exactIn)
    PROVE  /\ r.status = "more" /\ r.start = s.start /\ r.used = s.used
           /\ r.matches = s.matches
           /\ ExchangeOver(c, Distance(c, t), down, exactIn, amount).used
                + r.remaining = amount
           /\ ExchangeOver(c, Distance(c, t), down, exactIn, amount).other
                = r.calculated
           /\ r.remaining # 0 =>
                /\ OnCurve(down, exactIn, c, amount, r, Distance(c, t))
                /\ r.tick = IF down THEN t - 1 ELSE t
<1>1. PICK k \in Nat \ {0} : k = PerTick
  BY BoundsTypes
<1>2. /\ c.book \in SUBSET Positions /\ c.tick \in Nat /\ c.price \in Nat
      /\ c.tick < MaxTick /\ MaxTick \in Nat
  BY ChainTypes, BoundsTypes
<1>3. PICK m \in Nat : m = Room(c, down)
  BY CurveTypes
<1>4. /\ s.status \in {"more", "ok", "error"} /\ s.remaining \in Nat
      /\ s.calculated \in Nat /\ s.price \in 0 .. Top /\ s.tick \in Int
      /\ s.liquidity \in Nat
  BY WalkFields
<1>5. PICK tick \in Nat, price \in Int, remaining \in Nat \ {0}, liquidity \in Nat,
           calculated \in Nat :
        /\ tick = s.tick /\ price = s.price /\ remaining = s.remaining
        /\ liquidity = s.liquidity /\ calculated = s.calculated
  BY <1>4, TopTypes DEF OnCurve
<1>6. PICK e : e = ExchangeOver(c, n, down, exactIn, amount)
  OBVIOUS
<1>7. /\ n \in 0 .. m
      /\ price = IF down THEN c.price - n ELSE c.price + n
      /\ IF down THEN tick <= c.tick ELSE c.tick <= tick
      /\ liquidity = LiquidityAt(c.book, tick)
      /\ e.whole /\ e.used + remaining = amount /\ e.other = calculated
  BY <1>3, <1>5, <1>6 DEF OnCurve
<1>8a. t \in Left(c, s.tick, down) /\ t \in TicksAhead(c, down)
  BY LeftTypes DEF Nearest
<1>8. PICK D \in Nat : D = Distance(c, t) /\ n <= D /\ D <= m
  BY <1>3, <1>8a, LeftTypes, DistanceTypes
<1>9. /\ t \in Nat /\ t \in Initialized(c.book) /\ 1 < t /\ t < MaxTick
      /\ IF down THEN t <= tick ELSE tick < t
  BY <1>2, <1>5, <1>8a, InitializedTypes DEF Left
<1>10. PICK target \in 0 .. Top :
         target = t * PerTick /\ target = IF down THEN c.price - D ELSE c.price + D
  <2>1. PerTick * t = IF down THEN c.price - D ELSE c.price + D
    BY <1>8, <1>8a, DistanceTypes
  <2>2. t * PerTick = PerTick * t
    BY <1>1, <1>9
  <2>3. t * PerTick \in 0 .. Top
    BY <1>2, <1>9, TopTypes
  <2>4. QED
    BY <2>1, <2>2, <2>3
<1>11. PICK d \in 0 .. (m - n) :
         /\ d = D - n /\ d \in Nat
         /\ Gap(price, target, down) = d
         /\ \A i \in 1 .. d : FlatCurve(price, liquidity, down, d)[i] = Curve(c, down)[n + i]
  BY <1>3, <1>5, <1>8, <1>10, FlatIsCurve
<1>12. PICK h : /\ FillsAlong(h, m, Curve(c, down), amount, exactIn)
                /\ \A i \in 0 .. m : ExchangeOver(c, i, down, exactIn, amount) = h[i]
  BY <1>3, CurvePath
<1>13. PICK g : /\ FlatCurve(price, liquidity, down, d) \in [1 .. d -> Segments]
                /\ FillsAlong(g, d, FlatCurve(price, liquidity, down, d), remaining, exactIn)
                /\ ComputeSwap(price, target, liquidity, remaining, down, exactIn) = g[d]
  <2>1. price \in 0 .. Top
    BY <1>4, <1>5
  <2>2. PICK x \in Nat : \E g :
          ComputesAlong(g, x, price, target, liquidity, remaining, down, exactIn)
    BY <2>1, ComputeSwapPath
  <2>3. x = d
    BY <1>11, <2>2 DEF ComputesAlong
  <2>4. QED
    BY <2>2, <2>3 DEF ComputesAlong
<1>14. h[n] = e /\ h[D] = ExchangeOver(c, D, down, exactIn, amount) /\ D = n + d
  BY <1>6, <1>7, <1>8, <1>11, <1>12
<1>15. e \in Fills(amount) /\ g[d] \in Fills(remaining)
  BY <1>7, <1>12, <1>13, <1>14, <1>11 DEF FillsAlong
<1>16. PICK f : f = g[d]
  OBVIOUS
<1>17. h[D] = Joined(e, f)
  <2>1. PICK list, part :
          list = Curve(c, down) /\ part = FlatCurve(price, liquidity, down, d)
    OBVIOUS
  <2>2. list \in [1 .. m -> Segments] /\ part \in [1 .. d -> Segments]
    BY <1>3, <1>13, <2>1, CurveTypes
  <2>3. PartOf(part, d, list, n)
    BY <1>11, <2>1 DEF PartOf
  <2>4. Remains(remaining, amount, h[n])
    BY <1>7, <1>14, <1>15, FillFields DEF Remains
  <2>5. Filling(h, m, list, amount, exactIn) /\ Filling(g, d, part, remaining, exactIn)
    BY <1>11, <1>12, <1>13, <2>1, <2>2 DEF Filling
  <2>6. h[n].whole /\ n \in 0 .. m /\ n + d <= m
    BY <1>7, <1>8, <1>14
  <2>7. h[n + d] = Joined(h[n], g[d])
    BY <2>3, <2>4, <2>5, <2>6, FillInParts
  <2>8. QED
    BY <1>14, <1>16, <2>7
<1>18. /\ f.points \in Nat /\ f.used \in Nat /\ f.used <= remaining /\ f.other \in Nat
       /\ f.whole \in BOOLEAN /\ (f.whole \/ f.used = remaining)
  BY <1>15, <1>16, FillFields
<1>19. IF f.whole THEN f.points = d ELSE f.points < d
  <2>1. d \in Nat /\ d \in 0 .. d
    BY <1>11
  <2>2. PICK part \in [1 .. d -> Segments] : part = FlatCurve(price, liquidity, down, d)
    BY <1>13
  <2>3. FillsAlong(g, d, part, remaining, exactIn)
    BY <1>13, <2>2
  <2>4. remaining \in Nat
    OBVIOUS
  <2>5. IF g[d].whole THEN g[d].points = d ELSE g[d].points < d
    BY <2>1, <2>3, <2>4, PointsPassed
  <2>6. QED
    BY <1>16, <2>5
<1>18a. PICK paid \in 0 .. remaining, due \in Nat :
          paid = f.used /\ due = f.other /\ (f.whole \/ paid = remaining)
  BY <1>18
<1>20. PICK before \in Nat : before = e.used /\ before + remaining = amount
  BY <1>7, <1>15, FillFields
<1>21. PICK next : next = IF down THEN price - f.points ELSE price + f.points
  OBVIOUS
<1>22. next = target <=> f.whole
  BY <1>2, <1>7, <1>8, <1>10, <1>11, <1>18, <1>19, <1>21
<1>23. PICK past \in Nat : past = IF down THEN t - 1 ELSE t
  BY <1>9
<1>24. PICK after : after = IF next = target
                              THEN LiquidityAfter(liquidity, Net(c.book, t), down)
                              ELSE liquidity
  OBVIOUS
<1>25. after = IF f.whole THEN LiquidityAt(c.book, past) ELSE liquidity
  <2>1. LiquidityAfter(liquidity, Net(c.book, t), down) = LiquidityAt(c.book, past)
    BY <1>5, <1>7, <1>23, LiquidityCrossed
  <2>2. QED
    BY <1>22, <1>24, <2>1
<1>26. after \in Nat
  BY <1>2, <1>25, LiquidityAtTypes
<1>27. PICK onto : onto = IF next = target THEN past
                          ELSE IF next # price THEN next \div PerTick ELSE tick
  OBVIOUS
<1>28. PICK start, used, matches :
         start = s.start /\ used = s.used /\ matches = s.matches
  OBVIOUS
<1>30. r = Advance(s, t, f, c.book, down)
  BY <1>5, <1>10, <1>13, <1>16 DEF StepTo
<1>31. Advance(s, t, f, c.book, down) =
           IF after < 0
             THEN [status |-> "error", remaining |-> s.remaining,
                   calculated |-> s.calculated, price |-> s.price, tick |-> s.tick,
                   liquidity |-> s.liquidity, start |-> s.start, used |-> s.used,
                   matches |-> s.matches]
             ELSE [status |-> s.status, remaining |-> s.remaining - f.used,
                   calculated |-> s.calculated + f.other, price |-> next,
                   tick |-> onto, liquidity |-> after, start |-> s.start,
                   used |-> s.used, matches |-> s.matches]
  <2>1. next = IF down THEN s.price - f.points ELSE s.price + f.points
    BY <1>5, <1>21
  <2>2. after = IF next = t * PerTick THEN LiquidityAfter(s.liquidity, Net(c.book, t), down)
                                      ELSE s.liquidity
    BY <1>5, <1>10, <1>24
  <2>3. onto = IF next = t * PerTick THEN (IF down THEN t - 1 ELSE t)
               ELSE IF next # s.price THEN next \div PerTick ELSE s.tick
    BY <1>5, <1>10, <1>23, <1>27, Zenon
  <2>4. QED
    BY <2>1, <2>2, <2>3, AdvanceFields
<1>32. PICK less \in Nat, more \in Nat : less = remaining - paid /\ more = calculated + due
  OBVIOUS
<1>32a. /\ r.status = "more" /\ r.remaining = less /\ r.calculated = more
        /\ r.price = next /\ r.tick = onto /\ r.liquidity = after
        /\ r.start = start /\ r.used = used /\ r.matches = matches
  <2>1. ~(after < 0)
    BY <1>26
  <2>2. s.remaining - f.used = less /\ s.calculated + f.other = more
    BY <1>5, <1>18a, <1>32, Zenon
  <2>3. r = [status |-> "more", remaining |-> less, calculated |-> more, price |-> next,
             tick |-> onto, liquidity |-> after, start |-> start,
             used |-> used, matches |-> matches]
    BY <1>28, <1>30, <1>31, <2>1, <2>2, Zenon
  <2>4. QED
    BY <2>3
<1>33. PICK w : w = ExchangeOver(c, D, down, exactIn, amount)
  OBVIOUS
<1>34. w.used = before + paid /\ w.other = more /\ w.whole = f.whole
  <2>1. w.used = e.used + f.used /\ w.other = e.other + f.other /\ w.whole = f.whole
    BY <1>14, <1>17, <1>33 DEF Joined
  <2>2. QED
    BY <1>7, <1>18a, <1>20, <1>32, <2>1, Zenon
<1>35. w.used + r.remaining = amount /\ w.other = r.calculated
  <2>1. before + paid + less = amount
    BY <1>20, <1>32
  <2>2. QED
    BY <1>32a, <1>34, <2>1, Zenon
<1>36. ASSUME r.remaining # 0
       PROVE  /\ OnCurve(down, exactIn, c, amount, r, D)
              /\ r.tick = IF down THEN t - 1 ELSE t
  <2>1. f.whole /\ r.remaining > 0
    <3>1. less # 0
      BY <1>32a, <1>36, Zenon
    <3>2. paid # remaining /\ less > 0
      BY <1>32, <3>1
    <3>3. QED
      BY <1>18a, <1>32a, <3>2, Zenon
  <2>2. r.price = target /\ r.tick = past /\ r.liquidity = LiquidityAt(c.book, past)
    BY <1>22, <1>25, <1>27, <1>32a, <2>1, Zenon
  <2>3. /\ 0 < past /\ past < MaxTick
        /\ IF down THEN past <= c.tick ELSE c.tick <= past
    BY <1>2, <1>7, <1>9, <1>23
  <2>4. PerTick * past <= target /\ target <= PerTick * (past + 1)
    <3>1. k * t = target
      BY <1>1, <1>9, <1>10
    <3>2. k * t <= k * (t + 1) /\ k * (t - 1) <= k * t
      BY <1>9, TimesKeepsOrder
    <3>3. past = t \/ (past = t - 1 /\ past + 1 = t)
      BY <1>9, <1>23
    <3>4. QED
      BY <1>1, <3>1, <3>2, <3>3
  <2>5. D \in 0 .. Room(c, down)
    BY <1>3, <1>8
  <2>6. target = IF down THEN c.price - D ELSE c.price + D
    BY <1>10
  <2>7. OnCurve(down, exactIn, c, amount, r, D)
    BY <1>33, <1>34, <1>35, <2>1, <2>2, <2>3, <2>4, <2>5, <2>6 DEF OnCurve
  <2>8. QED
    BY <1>23, <2>2, <2>7
<1>37. QED
  BY <1>8, <1>28, <1>32a, <1>33, <1>35, <1>36

\* Nothing that is left lies before the array in hand, nothing behind it has
\* been passed, and the arrays used are those the walk came through.  While
\* the array in hand does not hold the walk's tick, all of it is ahead.
InHand(down, c, s, from) ==
    /\ s.start \in s.used /\ s.start \in Bitmap(c.book)
    /\ s.used = {First(from, down)} \cup {ArrayStart(t) : t \in Passed(c, s.tick, down)}
    /\ Cardinality(s.used) <= Discovery
    /\ \A a \in s.used : IF down THEN s.start <= a ELSE a <= s.start
    /\ \A u \in Left(c, s.tick, down) :
         IF down THEN ArrayStart(u) <= s.start ELSE s.start <= ArrayStart(u)
    /\ \A u \in Initialized(c.book) :
         (IF down THEN ArrayStart(u) < s.start ELSE s.start < ArrayStart(u))
           => u \in Left(c, s.tick, down)
    /\ s.matches =>
         \A u \in Left(c, s.tick, down) :
           ArrayStart(u) = s.start => ArrayStart(s.tick) = s.start
    /\ ~s.matches =>
         /\ ArrayStart(s.tick) # s.start
         /\ \A u \in Initialized(c.book) :
              ArrayStart(u) = s.start => u \in Left(c, s.tick, down)

\* Of several ticks the nearest is in the nearest array.
LEMMA NearestInArray ==
    ASSUME NEW down \in BOOLEAN, NEW L \in SUBSET (0 .. MaxTick), NEW S \in SUBSET L,
           S # {}, NEW a \in Nat, \A u \in S : ArrayStart(u) = a,
           \A u \in L \ S : IF down THEN ArrayStart(u) < a ELSE a < ArrayStart(u)
    PROVE  /\ Nearest(L, First(S, down), down)
           /\ ArrayStart(First(S, down)) = a
<1>1. PICK t : t = First(S, down)
  OBVIOUS
<1>2. t \in S /\ \A u \in S : IF down THEN u <= t ELSE t <= u
  <2>1. S \in SUBSET (0 .. MaxTick)
    OBVIOUS
  <2>2. QED
    BY <1>1, <2>1, FirstTypes
<1>3. \A u \in L : u \in Nat
  BY BoundsTypes
<1>4. t \in Nat /\ t \in L /\ ArrayStart(t) = a
  BY <1>2, <1>3
<1>5. ASSUME NEW u \in L \ S PROVE IF down THEN u <= t ELSE t <= u
  <2>1. u \in Nat /\ ArrayStart(u) \in Nat
    BY <1>3, ArrayStartTypes
  <2>2. /\ t <= u => ArrayStart(t) <= ArrayStart(u)
        /\ u <= t => ArrayStart(u) <= ArrayStart(t)
    BY <1>4, <2>1, ArrayStartTypes
  <2>3. QED
    BY <1>4, <2>1, <2>2
<1>6. QED
  BY <1>1, <1>2, <1>4, <1>5 DEF Nearest

\* The state with the array of tick t in hand.
Armed(s, t) == Moved(s, ArrayStart(t), s.used \cup {ArrayStart(t)}, TRUE)

\* A turn of the walk heads for the nearest tick that is left; it gives up if
\* there is none, or if the array of it would be one too many.
HeadsFor(s, r, t, down, exactIn, c) ==
    /\ Nearest(Left(c, s.tick, down), t, down)
    /\ IF down THEN ArrayStart(t) <= s.start ELSE s.start <= ArrayStart(t)
    /\ \/ /\ Cardinality(s.used) = Discovery /\ ArrayStart(t) \notin s.used
          /\ r = Ended(s, "error")
       \/ /\ Cardinality(s.used \cup {ArrayStart(t)}) <= Discovery
          /\ r = StepTo(Armed(s, t), t, c.book, down, exactIn)

LEMMA TurnOnCurve ==
    ASSUME NEW down \in BOOLEAN, NEW exactIn \in BOOLEAN, NEW c \in Chains,
           NEW amount \in Nat, NEW s \in WalkStates, NEW n, NEW from,
           OnCurve(down, exactIn, c, amount, s, n), s.status = "more",
           InHand(down, c, s, from),
           NEW r, r = Turn(s, Bitmap(c.book), c.book, down, exactIn)
    PROVE  \/ Left(c, s.tick, down) = {} /\ r = Ended(s, "error")
           \/ \E t : HeadsFor(s, r, t, down, exactIn, c)
<1>1. PICK L, ahead, inArray, later :
        /\ L = Left(c, s.tick, down)
        /\ ahead = NextIn(c.book, s.start, s.tick, down)
        /\ inArray = TicksOf(c.book, s.start)
        /\ later = ArraysAfter(Bitmap(c.book), s.start, down)
  OBVIOUS
<1>2. TurnsTo(s, r, ahead, inArray, later, c.book, down, exactIn)
  BY <1>1, TurnCases
<1>3. c.book \in SUBSET Positions
  BY ChainTypes
<1>4. /\ L \in SUBSET (0 .. MaxTick)
      /\ Initialized(c.book) \in SUBSET (0 .. MaxTick)
      /\ Bitmap(c.book) \in SUBSET (0 .. MaxTick)
      /\ \A a : /\ TicksOf(c.book, a) \in SUBSET (0 .. MaxTick)
                /\ a \in Bitmap(c.book) <=> TicksOf(c.book, a) # {}
  BY <1>1, <1>3, LeftTypes, TicksTypes DEF Starts
<1>5. \A u \in 0 .. MaxTick : u \in Nat /\ ArrayStart(u) \in Nat
  BY BoundsTypes, ArrayStartTypes
<1>6. PICK start \in Nat, used \in SUBSET (0 .. MaxTick), tick \in Nat :
        start = s.start /\ used = s.used /\ tick = s.tick /\ 0 < tick /\ tick < MaxTick
  BY <1>5, WalkFields DEF Starts, OnCurve
<1>7. /\ start \in used /\ start \in Bitmap(c.book)
      /\ Cardinality(used) <= Discovery
      /\ \A a \in used : IF down THEN start <= a ELSE a <= start
      /\ \A u \in L : IF down THEN ArrayStart(u) <= start ELSE start <= ArrayStart(u)
      /\ \A u \in Initialized(c.book) :
           (IF down THEN ArrayStart(u) < start ELSE start < ArrayStart(u)) => u \in L
  BY <1>1, <1>6 DEF InHand
<1>8. /\ s.matches => \A u \in L : ArrayStart(u) = start => ArrayStart(tick) = start
      /\ ~s.matches =>
           /\ ArrayStart(tick) # start
           /\ \A u \in Initialized(c.book) : ArrayStart(u) = start => u \in L
  BY <1>1, <1>6 DEF InHand
<1>9. IsFiniteSet(used) /\ Cardinality(used) \in Nat
  <2>1. IsFiniteSet(0 .. MaxTick)
    BY BoundsTypes, FS_Interval
  <2>2. QED
    BY <1>6, <2>1, FS_Subset, FS_CardinalityType
<1>10. ~Stops(s)
  BY <1>6, BoundsTypes DEF Stops, OnCurve
<1>11. ahead = IF ArrayStart(tick) # start THEN {} ELSE {u \in L : ArrayStart(u) = start}
  BY <1>1, <1>6 DEF NextIn, TicksOf, Left
<1>12. inArray = {u \in Initialized(c.book) : ArrayStart(u) = start} /\ L \subseteq Initialized(c.book)
  BY <1>1, <1>6 DEF TicksOf, Left
<1>13. later = {a \in Bitmap(c.book) : IF down THEN a < start ELSE a > start}
  BY <1>1, <1>6 DEF ArraysAfter
<1>14. CASE /\ ahead # {}
            /\ r = StepTo(Moved(s, s.start, s.used, s.matches), First(ahead, down),
                          c.book, down, exactIn)
  <2>1. PICK t : t = First(ahead, down)
    OBVIOUS
  <2>2. /\ ArrayStart(tick) = start /\ ahead = {u \in L : ArrayStart(u) = start}
    BY <1>11, <1>14
  <2>3. s.matches = TRUE
    BY <1>8, <2>2, WalkFields
  <2>4. Nearest(L, t, down) /\ ArrayStart(t) = start
    <3>1. \A u \in L \ ahead : IF down THEN ArrayStart(u) < start ELSE start < ArrayStart(u)
      BY <1>4, <1>5, <1>7, <2>2
    <3>2. ahead \in SUBSET L /\ \A u \in ahead : ArrayStart(u) = start
      BY <2>2
    <3>3. QED
      BY <1>4, <1>14, <2>1, <3>1, <3>2, NearestInArray
  <2>5. s.used \cup {ArrayStart(t)} = s.used /\ ArrayStart(t) = s.start
    BY <1>6, <1>7, <2>4
  <2>6. r = StepTo(Armed(s, t), t, c.book, down, exactIn)
    BY <1>14, <2>1, <2>3, <2>5, Zenon DEF Armed
  <2>7. QED
    BY <1>1, <1>6, <1>7, <2>4, <2>5, <2>6 DEF HeadsFor
<1>15. CASE /\ ahead = {} /\ ~s.matches /\ inArray # {}
            /\ r = StepTo(Moved(s, s.start, s.used, TRUE), First(inArray, down),
                          c.book, down, exactIn)
  <2>1. PICK t : t = First(inArray, down)
    OBVIOUS
  <2>2. Nearest(L, t, down) /\ ArrayStart(t) = start
    <3>1. \A u \in L \ inArray : IF down THEN ArrayStart(u) < start ELSE start < ArrayStart(u)
      BY <1>4, <1>5, <1>7, <1>12
    <3>2. inArray \in SUBSET L /\ \A u \in inArray : ArrayStart(u) = start
      BY <1>8, <1>12, <1>15
    <3>3. QED
      BY <1>4, <1>15, <2>1, <3>1, <3>2, NearestInArray
  <2>5. s.used \cup {ArrayStart(t)} = s.used /\ ArrayStart(t) = s.start
    BY <1>6, <1>7, <2>2
  <2>6. r = StepTo(Armed(s, t), t, c.book, down, exactIn)
    BY <1>15, <2>1, <2>5, Zenon DEF Armed
  <2>7. QED
    BY <1>1, <1>6, <1>7, <2>2, <2>5, <2>6 DEF HeadsFor
\* Nothing is left in the array in hand.
<1>16. ASSUME ahead = {}, s.matches
       PROVE  /\ \A u \in L : ArrayStart(u) \in later
              /\ \A a \in later : TicksOf(c.book, a) # {}
              /\ \A a \in later : \A u \in TicksOf(c.book, a) : u \in L /\ ArrayStart(u) = a
  <2>1. ASSUME NEW u \in L PROVE ArrayStart(u) \in later
    <3>1. ArrayStart(u) # start
      BY <1>8, <1>11, <1>16
    <3>2. ArrayStart(u) \in Bitmap(c.book)
      BY <1>12 DEF Bitmap
    <3>3. ArrayStart(u) \in Nat
      BY <1>4, <1>5
    <3>4. QED
      BY <1>7, <1>13, <3>1, <3>2, <3>3
  <2>2. \A a \in later : TicksOf(c.book, a) # {}
    BY <1>4, <1>13
  <2>3. ASSUME NEW a \in later, NEW u \in TicksOf(c.book, a)
        PROVE  u \in L /\ ArrayStart(u) = a
    <3>1. u \in Initialized(c.book) /\ ArrayStart(u) = a
      BY DEF TicksOf
    <3>2. QED
      BY <1>7, <1>13, <3>1
  <2>4. QED
    BY <2>1, <2>2, <2>3
\* The next array holds the nearest tick that is left.
<1>17. ASSUME ahead = {}, s.matches, later # {}
       PROVE  \E t : /\ Nearest(L, t, down)
                     /\ ArrayStart(t) = First(later, down)
                     /\ t = First(TicksOf(c.book, First(later, down)), down)
                     /\ ArrayStart(t) \notin used
                     /\ IF down THEN ArrayStart(t) <= start ELSE start <= ArrayStart(t)
  <2>1. PICK a : a = First(later, down)
    OBVIOUS
  <2>2. later \in SUBSET (0 .. MaxTick)
    BY <1>4, <1>13
  <2>3. a \in later /\ \A x \in later : IF down THEN x <= a ELSE a <= x
    BY <1>17, <2>1, <2>2, FirstTypes
  <2>4. PICK S : S = TicksOf(c.book, a)
    OBVIOUS
  <2>5. S # {} /\ S \in SUBSET L /\ \A u \in S : ArrayStart(u) = a
    BY <1>16, <1>17, <2>3, <2>4
  <2>6. a \in Nat
    BY <1>5, <2>2, <2>3
  <2>7. \A u \in L \ S : IF down THEN ArrayStart(u) < a ELSE a < ArrayStart(u)
    <3>1. ASSUME NEW u \in L \ S PROVE ArrayStart(u) # a
      BY <1>12, <2>4 DEF TicksOf
    <3>2. \A u \in L : ArrayStart(u) \in later /\ ArrayStart(u) \in Nat
      BY <1>4, <1>5, <1>16, <1>17
    <3>3. QED
      BY <2>3, <2>6, <3>1, <3>2
  <2>8. Nearest(L, First(S, down), down) /\ ArrayStart(First(S, down)) = a
    BY <1>4, <2>5, <2>6, <2>7, NearestInArray
  <2>9. IF down THEN a < start ELSE start < a
    BY <1>13, <2>3
  <2>10. a \notin used
    BY <1>5, <1>6, <1>7, <2>6, <2>9
  <2>11. IF down THEN a <= start ELSE start <= a
    BY <2>6, <2>9
  <2>12. QED
    BY <2>1, <2>4, <2>8, <2>10, <2>11
<1>18. CASE /\ ahead = {}
            /\ \/ ~s.matches /\ inArray = {}
               \/ /\ s.matches
                  /\ \/ later = {} \/ Cardinality(s.used) = Discovery
                     \/ TicksOf(c.book, First(later, down)) = {}
            /\ r = Ended(s, "error")
  <2>1. inArray # {}
    BY <1>1, <1>4, <1>6, <1>7
  <2>2. s.matches
    BY <1>18, <2>1
  <2>3. CASE later = {}
    <3>1. L = {}
      BY <1>16, <1>18, <2>2, <2>3
    <3>2. QED
      BY <1>1, <1>18, <3>1
  <2>4. CASE later # {}
    <3>1. PICK t : /\ Nearest(L, t, down)
                   /\ ArrayStart(t) = First(later, down)
                   /\ ArrayStart(t) \notin used
                   /\ IF down THEN ArrayStart(t) <= start ELSE start <= ArrayStart(t)
      BY <1>17, <1>18, <2>2, <2>4
    <3>2. First(later, down) \in later
      BY <1>4, <1>13, <2>4, FirstTypes
    <3>3. Cardinality(s.used) = Discovery
      BY <1>16, <1>18, <2>2, <2>4, <3>2
    <3>4. HeadsFor(s, r, t, down, exactIn, c)
      BY <1>1, <1>6, <1>18, <3>1, <3>3 DEF HeadsFor
    <3>5. QED
      BY <3>4
  <2>5. QED
    BY <2>3, <2>4
<1>19. CASE /\ ahead = {} /\ s.matches /\ later # {} /\ Cardinality(s.used) # Discovery
            /\ r = StepTo(Moved(s, First(later, down), s.used \cup {First(later, down)},
                                TRUE),
                          First(TicksOf(c.book, First(later, down)), down),
                          c.book, down, exactIn)
  <2>1. PICK t : /\ Nearest(L, t, down)
                 /\ ArrayStart(t) = First(later, down)
                 /\ t = First(TicksOf(c.book, First(later, down)), down)
                 /\ ArrayStart(t) \notin used
                 /\ IF down THEN ArrayStart(t) <= start ELSE start <= ArrayStart(t)
    BY <1>17, <1>19
  <2>2. r = StepTo(Armed(s, t), t, c.book, down, exactIn)
    BY <1>19, <2>1, Zenon DEF Armed
  <2>3. Cardinality(used \cup {ArrayStart(t)}) = Cardinality(used) + 1
    BY <1>9, <2>1, FS_AddElement
  <2>4. Cardinality(used \cup {ArrayStart(t)}) <= Discovery
    <3>1. Cardinality(used) # Discovery
      BY <1>6, <1>19
    <3>2. QED
      BY <1>7, <1>9, <2>3, <3>1, BoundsTypes
  <2>5. HeadsFor(s, r, t, down, exactIn, c)
    BY <1>1, <1>6, <2>1, <2>2, <2>4 DEF HeadsFor
  <2>6. QED
    BY <2>5
<1>20. QED
  BY <1>2, <1>10, <1>14, <1>15, <1>18, <1>19 DEF TurnsTo

\* Further along the curve no less has been exchanged, and nothing more once
\* the whole amount has.
LEMMA ExchangeGrows ==
    ASSUME NEW down \in BOOLEAN, NEW exactIn \in BOOLEAN, NEW c \in Chains,
           NEW amount \in Nat, NEW a \in 0 .. Room(c, down), NEW b \in 0 .. Room(c, down),
           a <= b
    PROVE  LET e == ExchangeOver(c, a, down, exactIn, amount)
               f == ExchangeOver(c, b, down, exactIn, amount)
           IN  /\ e.used \in Nat /\ e.used <= amount /\ e.used <= f.used
               /\ f.used \in Nat /\ f.used <= amount
               /\ e.used = amount => f.used = amount /\ f.other = e.other
<1>1. PICK m \in Nat : m = Room(c, down)
  BY CurveTypes
<1>2. PICK h : /\ FillsAlong(h, m, Curve(c, down), amount, exactIn)
               /\ \A i \in 0 .. m : ExchangeOver(c, i, down, exactIn, amount) = h[i]
  BY <1>1, CurvePath
<1>3. a \in 0 .. m /\ b \in 0 .. m /\ a <= b
  BY <1>1
<1>4. h[a] \in Fills(amount) /\ h[b] \in Fills(amount)
  BY <1>2, <1>3 DEF FillsAlong
<1>5. h[a].used <= h[b].used /\ (h[a].used = amount => h[b].used = amount /\ h[b].other = h[a].other)
  <2>1. Curve(c, down) \in [1 .. m -> Segments]
    BY <1>1, CurveTypes
  <2>2. Filling(h, m, Curve(c, down), amount, exactIn)
    BY <1>2, <2>1 DEF Filling
  <2>3. QED
    BY <1>3, <2>2, FillGrows
<1>6. QED
  BY <1>2, <1>3, <1>4, <1>5, FillFields

\* The ticks a walk has passed, and the one it heads for, are met.
LEMMA PassedAreMet ==
    ASSUME NEW down \in BOOLEAN, NEW exactIn \in BOOLEAN, NEW c \in Chains,
           NEW amount \in Nat, NEW s \in WalkStates, NEW n,
           OnCurve(down, exactIn, c, amount, s, n)
    PROVE  /\ Passed(c, s.tick, down) \subseteq TicksMet(c, down, exactIn, amount)
           /\ \A t : Nearest(Left(c, s.tick, down), t, down) =>
                t \in TicksMet(c, down, exactIn, amount)
<1>1. PICK m \in Nat : m = Room(c, down)
  BY CurveTypes
<1>2. n \in 0 .. m
  BY <1>1 DEF OnCurve
<1>3. PICK used \in Nat : /\ used = ExchangeOver(c, n, down, exactIn, amount).used
                          /\ used < amount
  <2>1. PICK e : e = ExchangeOver(c, n, down, exactIn, amount)
    OBVIOUS
  <2>2. e.used \in Nat
    BY <1>1, <1>2, <2>1, ExchangeGrows
  <2>3. e.used + s.remaining = amount /\ s.remaining > 0 /\ s.remaining \in Nat
    BY <2>1, WalkFields DEF OnCurve
  <2>4. QED
    BY <2>1, <2>2, <2>3
<1>4. ASSUME NEW u \in TicksAhead(c, down), Distance(c, u) <= n
      PROVE  ExchangeOver(c, Distance(c, u), down, exactIn, amount).used < amount
  <2>1. PICK d \in 0 .. m : d = Distance(c, u)
    BY <1>1, DistanceTypes
  <2>2. /\ ExchangeOver(c, d, down, exactIn, amount).used \in Nat
        /\ ExchangeOver(c, d, down, exactIn, amount).used <= used
    BY <1>1, <1>2, <1>3, <1>4, <2>1, ExchangeGrows
  <2>3. QED
    BY <1>3, <2>1, <2>2
<1>5. \A u \in TicksAhead(c, down) : Distance(c, u) \in Nat
  BY <1>1, DistanceTypes
<1>6. ASSUME NEW v \in Passed(c, s.tick, down)
      PROVE  v \in TicksMet(c, down, exactIn, amount)
  <2>1. v \in TicksAhead(c, down) /\ Distance(c, v) <= n
    BY <1>6, LeftTypes DEF Passed
  <2>2. \A u \in TicksAhead(c, down) : Distance(c, u) < Distance(c, v) => Distance(c, u) <= n
    BY <1>2, <1>5, <2>1
  <2>3. QED
    BY <1>4, <2>1, <2>2 DEF TicksMet
<1>7. ASSUME NEW t, Nearest(Left(c, s.tick, down), t, down)
      PROVE  t \in TicksMet(c, down, exactIn, amount)
  <2>1. /\ t \in TicksAhead(c, down)
        /\ \A u \in Left(c, s.tick, down) :
             u \in TicksAhead(c, down) /\ IF down THEN u <= t ELSE t <= u
    BY <1>7, LeftTypes DEF Nearest
  <2>2. \A u \in Left(c, s.tick, down) : Distance(c, t) <= Distance(c, u)
    BY <2>1, DistanceOrder
  <2>3. \A u \in TicksAhead(c, down) :
          Distance(c, u) < Distance(c, t) => u \in Passed(c, s.tick, down)
    BY <1>5, <2>1, <2>2 DEF Passed
  <2>4. \A u \in TicksAhead(c, down) : Distance(c, u) < Distance(c, t) => Distance(c, u) <= n
    BY <2>3, LeftTypes
  <2>5. QED
    BY <1>4, <2>1, <2>4 DEF TicksMet
<1>8. QED
  BY <1>6, <1>7

\* A swap that ends before the tick the walk heads for, or on it, meets that
\* tick and no other than those passed.
LEMMA FilledOnCurve ==
    ASSUME NEW down \in BOOLEAN, NEW exactIn \in BOOLEAN, NEW c \in Chains,
           NEW amount \in Nat, NEW s \in WalkStates, NEW n,
           OnCurve(down, exactIn, c, amount, s, n),
           NEW t, Nearest(Left(c, s.tick, down), t, down),
           ExchangeOver(c, Distance(c, t), down, exactIn, amount).used = amount
    PROVE  /\ TicksMet(c, down, exactIn, amount) = Passed(c, s.tick, down) \cup {t}
           /\ Fillable(c, down, exactIn, amount)
           /\ Exchange(c, down, exactIn, amount)
                = ExchangeOver(c, Distance(c, t), down, exactIn, amount).other
<1>1. PICK m \in Nat : m = Room(c, down)
  BY CurveTypes
<1>2. /\ t \in Left(c, s.tick, down) /\ t \in TicksAhead(c, down)
      /\ \A u \in Left(c, s.tick, down) : IF down THEN u <= t ELSE t <= u
  BY LeftTypes DEF Nearest
<1>3. PICK d \in 0 .. m : d = Distance(c, t)
  BY <1>1, <1>2, DistanceTypes
<1>4. PICK far \in 0 .. m : far = Reach(c, down) /\ d <= far
  BY <1>1, <1>2, <1>3, ReachTypes
<1>5. /\ ExchangeOver(c, far, down, exactIn, amount).used = amount
      /\ ExchangeOver(c, far, down, exactIn, amount).other
           = ExchangeOver(c, d, down, exactIn, amount).other
  BY <1>1, <1>3, <1>4, ExchangeGrows
<1>6. Fillable(c, down, exactIn, amount)
  BY <1>4, <1>5 DEF Fillable
<1>7. Exchange(c, down, exactIn, amount) = ExchangeOver(c, d, down, exactIn, amount).other
  BY <1>4, <1>5 DEF Exchange
<1>8. ASSUME NEW v \in TicksMet(c, down, exactIn, amount), v \notin Passed(c, s.tick, down)
      PROVE  v = t
  <2>1. v \in TicksAhead(c, down) /\ v \in Left(c, s.tick, down)
    BY <1>8 DEF TicksMet, Passed
  <2>2. ~(Distance(c, t) < Distance(c, v))
    <3>1. ~(ExchangeOver(c, Distance(c, t), down, exactIn, amount).used < amount)
      OBVIOUS
    <3>2. QED
      BY <1>2, <2>1, <3>1, <1>8 DEF TicksMet
  <2>3. Distance(c, t) <= Distance(c, v) <=> IF down THEN v <= t ELSE t <= v
    BY <1>2, <2>1, DistanceOrder
  <2>4. Distance(c, v) <= Distance(c, t) <=> IF down THEN t <= v ELSE v <= t
    BY <1>2, <2>1, DistanceOrder
  <2>5. Distance(c, v) \in 0 .. m /\ v \in Nat /\ t \in Nat
    BY <1>1, <1>2, <2>1, DistanceTypes
  <2>6. QED
    BY <1>2, <1>3, <2>1, <2>2, <2>3, <2>4, <2>5
<1>9. Passed(c, s.tick, down) \cup {t} \subseteq TicksMet(c, down, exactIn, amount)
  BY PassedAreMet
<1>10. QED
  BY <1>3, <1>6, <1>7, <1>8, <1>9

\* A walk with no tick left and something to exchange is on a pool that
\* cannot fill the swap.
LEMMA NothingLeft ==
    ASSUME NEW down \in BOOLEAN, NEW exactIn \in BOOLEAN, NEW c \in Chains,
           NEW amount \in Nat, NEW s \in WalkStates, NEW n,
           OnCurve(down, exactIn, c, amount, s, n), Left(c, s.tick, down) = {}
    PROVE  ~Fillable(c, down, exactIn, amount)
<1>1. PICK m \in Nat : m = Room(c, down)
  BY CurveTypes
<1>2. n \in 0 .. m
  BY <1>1 DEF OnCurve
<1>3. PICK far \in 0 .. m : far = Reach(c, down) /\ far <= n
  <2>1. \A t \in TicksAhead(c, down) : Distance(c, t) <= n
    BY LeftTypes DEF Passed
  <2>2. QED
    BY <1>1, <1>2, <2>1, ReachTypes
<1>4. PICK e : e = ExchangeOver(c, n, down, exactIn, amount)
  OBVIOUS
<1>5. e.used + s.remaining = amount /\ s.remaining > 0 /\ s.remaining \in Nat
  BY <1>4, WalkFields DEF OnCurve
<1>6. /\ e.used \in Nat
      /\ ExchangeOver(c, far, down, exactIn, amount).used \in Nat
      /\ ExchangeOver(c, far, down, exactIn, amount).used <= e.used
  BY <1>1, <1>2, <1>3, <1>4, ExchangeGrows
<1>7. ExchangeOver(c, far, down, exactIn, amount).used # amount
  BY <1>5, <1>6
<1>8. QED
  BY <1>3, <1>7 DEF Fillable

\* The walk's tick once t is crossed.
Beyond(t, tick, down) == tick = IF down THEN t - 1 ELSE t

\* The tick crossed is the only one that is no longer left.
LEMMA CrossedTick ==
    ASSUME NEW down \in BOOLEAN, NEW exactIn \in BOOLEAN, NEW c \in Chains,
           NEW amount \in Nat, NEW s \in WalkStates, NEW n,
           OnCurve(down, exactIn, c, amount, s, n),
           NEW t, Nearest(Left(c, s.tick, down), t, down),
           NEW tick, Beyond(t, tick, down)
    PROVE  /\ Left(c, tick, down) = Left(c, s.tick, down) \ {t}
           /\ t \in TicksAhead(c, down) /\ t \in Left(c, s.tick, down)
<1>1. /\ t \in Left(c, s.tick, down) /\ t \in TicksAhead(c, down)
      /\ \A u \in Left(c, s.tick, down) : IF down THEN u <= t ELSE t <= u
  BY LeftTypes DEF Nearest
<1>2. \A u \in Initialized(c.book) : u \in Nat
  BY ChainTypes, InitializedTypes
<1>3. s.tick \in Nat /\ t \in Nat /\ t \in Initialized(c.book)
  BY <1>1, <1>2 DEF OnCurve, Left
<1>4. ASSUME NEW u \in Initialized(c.book)
      PROVE  u \in Left(c, tick, down) <=> u \in Left(c, s.tick, down) /\ u # t
  BY <1>1, <1>2, <1>3 DEF Left, Beyond
<1>5. Left(c, tick, down) = Left(c, s.tick, down) \ {t}
  BY <1>4 DEF Left
<1>6. QED
  BY <1>1, <1>5

LEMMA InHandNext ==
    ASSUME NEW down \in BOOLEAN, NEW exactIn \in BOOLEAN, NEW c \in Chains,
           NEW amount \in Nat, NEW s \in WalkStates, NEW n, NEW from,
           OnCurve(down, exactIn, c, amount, s, n), InHand(down, c, s, from),
           NEW t, Nearest(Left(c, s.tick, down), t, down),
           IF down THEN ArrayStart(t) <= s.start ELSE s.start <= ArrayStart(t),
           NEW r, r.tick = (IF down THEN t - 1 ELSE t), r.start = ArrayStart(t),
           r.used = s.used \cup {ArrayStart(t)}, r.matches = TRUE,
           Cardinality(r.used) <= Discovery
    PROVE  InHand(down, c, r, from)
<1>1. /\ Left(c, r.tick, down) = Left(c, s.tick, down) \ {t}
      /\ Passed(c, r.tick, down) = Passed(c, s.tick, down) \cup {t}
  <2>1. Beyond(t, r.tick, down)
    BY DEF Beyond
  <2>2. QED
    <3>1. /\ Left(c, r.tick, down) = Left(c, s.tick, down) \ {t}
          /\ t \in TicksAhead(c, down) /\ t \in Left(c, s.tick, down)
      BY <2>1, CrossedTick
    <3>2. QED
      BY <3>1 DEF Passed
<1>2. /\ t \in Left(c, s.tick, down)
      /\ \A u \in Left(c, s.tick, down) : IF down THEN u <= t ELSE t <= u
  BY DEF Nearest
<1>3. \A u \in Initialized(c.book) : u \in Nat /\ u > 1 /\ ArrayStart(u) \in Nat
  BY ChainTypes, InitializedTypes, ArrayStartTypes
<1>4. /\ Left(c, s.tick, down) \subseteq Initialized(c.book)
      /\ Left(c, r.tick, down) \subseteq Initialized(c.book)
  BY DEF Left
<1>5. PICK a \in Nat : a = ArrayStart(t) /\ t \in Nat /\ t > 1 /\ t \in Initialized(c.book)
  BY <1>2, <1>3, <1>4
<1>6. r.start \in r.used /\ r.start \in Bitmap(c.book)
  BY <1>5 DEF Bitmap
<1>7. r.used = {First(from, down)} \cup {ArrayStart(u) : u \in Passed(c, r.tick, down)}
  <2>1. s.used = {First(from, down)} \cup {ArrayStart(u) : u \in Passed(c, s.tick, down)}
    BY DEF InHand
  <2>2. QED
    BY <1>1, <2>1
<1>8. \A x \in r.used : IF down THEN a <= x ELSE x <= a
  <2>1. \A x \in s.used : x \in Nat /\ (IF down THEN s.start <= x ELSE x <= s.start)
    BY WalkFields, BoundsTypes DEF InHand, Starts
  <2>2. s.start \in Nat
    BY WalkFields, BoundsTypes DEF Starts
  <2>3. QED
    BY <1>5, <2>1, <2>2
<1>9. \A u \in Initialized(c.book) :
        /\ u <= t => ArrayStart(u) <= a
        /\ t <= u => a <= ArrayStart(u)
  BY <1>3, <1>5, ArrayStartTypes
<1>10. \A u \in Left(c, r.tick, down) : IF down THEN ArrayStart(u) <= a ELSE a <= ArrayStart(u)
  BY <1>1, <1>2, <1>4, <1>9
<1>11. ASSUME NEW u \in Initialized(c.book), IF down THEN ArrayStart(u) < a ELSE a < ArrayStart(u)
       PROVE  u \in Left(c, r.tick, down)
  <2>1. u \in Nat /\ ArrayStart(u) \in Nat
    BY <1>3
  <2>2. /\ u <= t => ArrayStart(u) <= a
        /\ t <= u => a <= ArrayStart(u)
    BY <1>9
  <2>3. CASE down
    <3>1. u <= t - 1
      BY <1>5, <1>11, <2>1, <2>2, <2>3
    <3>2. QED
      BY <2>3, <3>1 DEF Left
  <2>4. CASE ~down
    <3>1. u > t
      BY <1>5, <1>11, <2>1, <2>2, <2>4
    <3>2. QED
      BY <2>4, <3>1 DEF Left
  <2>5. QED
    BY <2>3, <2>4
<1>12. ASSUME NEW u \in Left(c, r.tick, down), ArrayStart(u) = a
       PROVE  ArrayStart(r.tick) = a
  <2>1. CASE ~down
    BY <1>5, <2>1
  <2>2. CASE down
    <3>1. u \in Nat /\ u <= t - 1 /\ t - 1 \in Nat
      BY <1>3, <1>4, <1>5, <2>2 DEF Left
    <3>2. ArrayStart(u) <= ArrayStart(t - 1) /\ ArrayStart(t - 1) <= ArrayStart(t)
      <4>1. t - 1 <= t
        BY <1>5
      <4>2. QED
        BY <1>5, <3>1, <4>1, ArrayStartTypes
    <3>3. ArrayStart(t - 1) \in Nat
      BY <3>1, ArrayStartTypes
    <3>4. QED
      BY <1>5, <1>12, <2>2, <3>2, <3>3
  <2>3. QED
    BY <2>1, <2>2
<1>13. QED
  BY <1>5, <1>6, <1>7, <1>8, <1>10, <1>11, <1>12 DEF InHand

LEMMA NeededTypes ==
    ASSUME NEW down \in BOOLEAN, NEW exactIn \in BOOLEAN, NEW c \in Chains,
           NEW amount \in Nat
    PROVE  /\ IsFiniteSet(TicksMet(c, down, exactIn, amount))
           /\ Cardinality(TicksMet(c, down, exactIn, amount)) \in Nat
           /\ IsFiniteSet(ArraysNeeded(c, down, exactIn, amount))
           /\ Cardinality(ArraysNeeded(c, down, exactIn, amount)) \in Nat
           /\ LET from == ArraysFrom(Bitmap(c.book), c.tick, down) IN
              from # {} =>
                ArraysNeeded(c, down, exactIn, amount) =
                  {First(from, down)}
                    \cup {ArrayStart(t) : t \in TicksMet(c, down, exactIn, amount)}
<1>0. PICK from : from = ArraysFrom(Bitmap(c.book), c.tick, down)
  OBVIOUS
<1>1. IsFiniteSet(0 .. MaxTick)
  BY BoundsTypes, FS_Interval
<1>2. /\ Initialized(c.book) \in SUBSET (0 .. MaxTick)
      /\ \A t \in Initialized(c.book) : ArrayStart(t) \in 0 .. MaxTick
  BY ChainTypes, TicksTypes DEF Bitmap, Starts
<1>3. TicksMet(c, down, exactIn, amount) \subseteq Initialized(c.book)
  BY DEF TicksMet, TicksAhead
<1>5. PICK met : met = TicksMet(c, down, exactIn, amount)
  OBVIOUS
<1>6. ArraysNeeded(c, down, exactIn, amount) =
        (IF from = {} THEN {} ELSE {First(from, down)}) \cup {ArrayStart(t) : t \in met}
  BY <1>0, <1>5 DEF ArraysNeeded
<1>7. from # {} => First(from, down) \in 0 .. MaxTick
  BY <1>0, FromTypes DEF Starts
<1>8. ArraysNeeded(c, down, exactIn, amount) \subseteq 0 .. MaxTick
  BY <1>2, <1>3, <1>5, <1>6, <1>7
<1>9. TicksMet(c, down, exactIn, amount) \subseteq 0 .. MaxTick
  BY <1>2, <1>3
<1>10. QED
  BY <1>0, <1>1, <1>5, <1>6, <1>8, <1>9, FS_Subset, FS_CardinalityType

\* The walk has something left to exchange: a tick passed with each turn.
Live(down, exactIn, c, amount, from, s, i) ==
    /\ s.status = "more" /\ InHand(down, c, s, from)
    /\ Cardinality(Passed(c, s.tick, down)) = i
    /\ \E n : OnCurve(down, exactIn, c, amount, s, n)

\* It has exchanged the amount, by the curve; one more turn returns.
Filled(down, exactIn, c, amount, s, i) ==
    /\ Fillable(c, down, exactIn, amount) /\ s.remaining = 0
    /\ s.calculated = Exchange(c, down, exactIn, amount)
    /\ s.used = ArraysNeeded(c, down, exactIn, amount)
    /\ Cardinality(s.used) <= Discovery
    /\ \/ s.status = "more" /\ Cardinality(TicksMet(c, down, exactIn, amount)) = i
       \/ s.status = "ok" /\ Cardinality(TicksMet(c, down, exactIn, amount)) < i

\* It gave up on a swap that it could not have quoted.
GivenUp(down, exactIn, c, amount, s) ==
    /\ s.status = "error"
    /\ \/ ~Fillable(c, down, exactIn, amount)
       \/ Cardinality(ArraysNeeded(c, down, exactIn, amount)) > Discovery

LEMMA EndedFields ==
    ASSUME NEW s, NEW status, NEW r, r = Ended(s, status)
    PROVE  /\ r.status = status /\ r.remaining = s.remaining
           /\ r.calculated = s.calculated /\ r.used = s.used
  BY DEF Ended

LEMMA ArmedFields ==
    ASSUME NEW s \in WalkStates, NEW t, ArrayStart(t) \in Starts
    PROVE  LET z == Armed(s, t) IN
           /\ z \in WalkStates /\ z.status = s.status /\ z.remaining = s.remaining
           /\ z.calculated = s.calculated /\ z.price = s.price /\ z.tick = s.tick
           /\ z.liquidity = s.liquidity /\ z.start = ArrayStart(t)
           /\ z.used = s.used \cup {ArrayStart(t)} /\ z.matches = TRUE
<1>0. PICK z : z = Armed(s, t)
  OBVIOUS
<1>1. PICK yes \in BOOLEAN : yes = TRUE
  OBVIOUS
<1>2. PICK used : used = s.used \cup {ArrayStart(t)}
  OBVIOUS
<1>3. z = Moved(s, ArrayStart(t), used, yes)
  BY <1>0, <1>1, <1>2, Zenon DEF Armed
<1>4. used \in SUBSET Starts
  BY <1>2, WalkFields
<1>5. z \in WalkStates
  BY <1>3, <1>4, MovedTypes
<1>6. /\ z.status = s.status /\ z.remaining = s.remaining
      /\ z.calculated = s.calculated /\ z.price = s.price /\ z.tick = s.tick
      /\ z.liquidity = s.liquidity /\ z.start = ArrayStart(t)
      /\ z.used = used /\ z.matches = yes
  BY <1>3 DEF Moved
<1>7. QED
  BY <1>0, <1>1, <1>2, <1>5, <1>6, Zenon

LEMMA LiveTurn ==
    ASSUME NEW down \in BOOLEAN, NEW exactIn \in BOOLEAN, NEW c \in Chains,
           NEW amount \in Nat, NEW s \in WalkStates, NEW from,
           from = ArraysFrom(Bitmap(c.book), c.tick, down), from # {},
           NEW i \in Nat, Live(down, exactIn, c, amount, from, s, i),
           NEW r, r = Turn(s, Bitmap(c.book), c.book, down, exactIn)
    PROVE  \/ Live(down, exactIn, c, amount, from, r, i + 1)
           \/ Filled(down, exactIn, c, amount, r, i + 1)
           \/ GivenUp(down, exactIn, c, amount, r)
<1>1. PICK n : OnCurve(down, exactIn, c, amount, s, n)
  BY DEF Live
<1>2. /\ s.status = "more" /\ InHand(down, c, s, from)
      /\ Cardinality(Passed(c, s.tick, down)) = i
  BY DEF Live
<1>3. PICK met, needed : /\ met = TicksMet(c, down, exactIn, amount)
                         /\ needed = ArraysNeeded(c, down, exactIn, amount)
  OBVIOUS
<1>4. /\ IsFiniteSet(met) /\ Cardinality(met) \in Nat
      /\ IsFiniteSet(needed) /\ Cardinality(needed) \in Nat
      /\ needed = {First(from, down)} \cup {ArrayStart(u) : u \in met}
  <2>1. IsFiniteSet(met) /\ Cardinality(met) \in Nat
    BY <1>3, NeededTypes
  <2>2. IsFiniteSet(needed) /\ Cardinality(needed) \in Nat
    BY <1>3, NeededTypes
  <2>3. needed = {First(from, down)} \cup {ArrayStart(u) : u \in met}
    BY <1>3 DEF ArraysNeeded
  <2>4. QED
    BY <2>1, <2>2, <2>3
<1>4a. IsFiniteSet(Passed(c, s.tick, down))
  BY <1>1, <1>3, <1>4, PassedAreMet, FS_Subset
<1>5. /\ s.used = {First(from, down)} \cup {ArrayStart(u) : u \in Passed(c, s.tick, down)}
      /\ Cardinality(s.used) <= Discovery
  BY <1>2 DEF InHand
<1>6. \/ Left(c, s.tick, down) = {} /\ r = Ended(s, "error")
      \/ \E t : HeadsFor(s, r, t, down, exactIn, c)
  BY <1>1, <1>2, TurnOnCurve
<1>7. CASE Left(c, s.tick, down) = {} /\ r = Ended(s, "error")
  <2>1. ~Fillable(c, down, exactIn, amount)
    BY <1>1, <1>7, NothingLeft
  <2>2. r.status = "error"
    BY <1>7, EndedFields
  <2>3. QED
    BY <2>1, <2>2 DEF GivenUp
<1>8. ASSUME NEW t, HeadsFor(s, r, t, down, exactIn, c)
      PROVE  \/ Live(down, exactIn, c, amount, from, r, i + 1)
             \/ Filled(down, exactIn, c, amount, r, i + 1)
             \/ GivenUp(down, exactIn, c, amount, r)
  <2>1. /\ Nearest(Left(c, s.tick, down), t, down)
        /\ IF down THEN ArrayStart(t) <= s.start ELSE s.start <= ArrayStart(t)
    BY <1>8 DEF HeadsFor
  <2>2. t \in met /\ Passed(c, s.tick, down) \subseteq met
    BY <1>1, <1>3, <2>1, PassedAreMet
  <2>3. PICK past : past = IF down THEN t - 1 ELSE t
    OBVIOUS
  <2>4. /\ t \notin Passed(c, s.tick, down)
        /\ Passed(c, past, down) = Passed(c, s.tick, down) \cup {t}
    <3>1. Beyond(t, past, down)
      BY <2>3 DEF Beyond
    <3>2. /\ Left(c, past, down) = Left(c, s.tick, down) \ {t}
          /\ t \in TicksAhead(c, down) /\ t \in Left(c, s.tick, down)
      BY <1>1, <2>1, <3>1, CrossedTick
    <3>3. QED
      BY <3>2 DEF Passed
  <2>5. Cardinality(Passed(c, s.tick, down) \cup {t}) = i + 1
    BY <1>2, <1>4a, <2>4, FS_AddElement
  <2>6. CASE /\ Cardinality(s.used) = Discovery /\ ArrayStart(t) \notin s.used
             /\ r = Ended(s, "error")
    <3>1. s.used \cup {ArrayStart(t)} \subseteq needed
      BY <1>4, <1>5, <2>2
    <3>2. IsFiniteSet(s.used)
      BY <1>4, <3>1, FS_Subset
    <3>3. Cardinality(s.used \cup {ArrayStart(t)}) = Discovery + 1
      BY <2>6, <3>2, FS_AddElement
    <3>4. Cardinality(s.used \cup {ArrayStart(t)}) <= Cardinality(needed)
      BY <1>4, <3>1, FS_Subset
    <3>5. Cardinality(needed) > Discovery
      BY <1>4, <3>3, <3>4, BoundsTypes
    <3>6. r.status = "error"
      BY <2>6, EndedFields
    <3>7. QED
      BY <1>3, <3>5, <3>6 DEF GivenUp
  <2>7. CASE /\ Cardinality(s.used \cup {ArrayStart(t)}) <= Discovery
             /\ r = StepTo(Armed(s, t), t, c.book, down, exactIn)
    <3>1. t \in Initialized(c.book) /\ ArrayStart(t) \in Starts
      <4>1. t \in Initialized(c.book)
        BY <1>3, <2>2 DEF TicksMet, TicksAhead
      <4>2. ArrayStart(t) \in Bitmap(c.book)
        BY <4>1 DEF Bitmap
      <4>3. QED
        BY <4>1, <4>2, ChainTypes, TicksTypes
    <3>2. PICK z : z = Armed(s, t)
      OBVIOUS
    <3>3. /\ z \in WalkStates /\ z.status = s.status /\ z.remaining = s.remaining
          /\ z.calculated = s.calculated /\ z.price = s.price /\ z.tick = s.tick
          /\ z.liquidity = s.liquidity /\ z.start = ArrayStart(t)
          /\ z.used = s.used \cup {ArrayStart(t)} /\ z.matches = TRUE
      BY <3>1, <3>2, ArmedFields
    <3>4. OnCurve(down, exactIn, c, amount, z, n)
      BY <1>1, <3>3 DEF OnCurve
    <3>5. r = StepTo(z, t, c.book, down, exactIn) /\ z.status = "more"
          /\ Nearest(Left(c, z.tick, down), t, down)
      BY <1>2, <2>1, <2>7, <3>2, <3>3
    <3>6. /\ r.status = "more" /\ r.start = z.start /\ r.used = z.used
          /\ r.matches = z.matches
          /\ ExchangeOver(c, Distance(c, t), down, exactIn, amount).used
               + r.remaining = amount
          /\ ExchangeOver(c, Distance(c, t), down, exactIn, amount).other
               = r.calculated
          /\ r.remaining # 0 =>
               /\ OnCurve(down, exactIn, c, amount, r, Distance(c, t))
               /\ r.tick = IF down THEN t - 1 ELSE t
      BY <3>3, <3>4, <3>5, StepOnCurve
    <3>7. r.used = s.used \cup {ArrayStart(t)} /\ r.matches = TRUE
          /\ r.start = ArrayStart(t) /\ Cardinality(r.used) <= Discovery
      BY <2>7, <3>3, <3>6
    <3>8. CASE r.remaining = 0
      <4>1. ExchangeOver(c, Distance(c, t), down, exactIn, amount).used = amount
        <5>1. Distance(c, t) \in 0 .. Room(c, down)
          BY <1>3, <2>2, DistanceTypes DEF TicksMet
        <5>2. ExchangeOver(c, Distance(c, t), down, exactIn, amount).used \in Nat
          BY <5>1, CurveTypes, ExchangeGrows
        <5>3. QED
          BY <3>6, <3>8, <5>2
      <4>2. /\ met = Passed(c, s.tick, down) \cup {t}
            /\ Fillable(c, down, exactIn, amount)
            /\ Exchange(c, down, exactIn, amount) = r.calculated
        BY <1>1, <1>3, <2>1, <3>6, <4>1, FilledOnCurve
      <4>3. r.used = needed
        BY <1>4, <1>5, <3>7, <4>2
      <4>4. Cardinality(met) = i + 1
        BY <2>5, <4>2
      <4>5. QED
        BY <1>3, <3>6, <3>7, <3>8, <4>2, <4>3, <4>4 DEF Filled
    <3>9. CASE r.remaining # 0
      <4>1. r.tick = past /\ OnCurve(down, exactIn, c, amount, r, Distance(c, t))
        BY <2>3, <3>6, <3>9
      <4>2. InHand(down, c, r, from)
        <5>1. r.tick = IF down THEN t - 1 ELSE t
          BY <3>6, <3>9
        <5>2. QED
          BY <1>1, <1>2, <2>1, <3>7, <5>1, InHandNext
      <4>3. Cardinality(Passed(c, r.tick, down)) = i + 1
        BY <2>4, <2>5, <4>1
      <4>4. QED
        BY <3>6, <4>1, <4>2, <4>3 DEF Live
    <3>10. QED
      BY <3>8, <3>9
  <2>8. QED
    BY <1>8, <2>6, <2>7 DEF HeadsFor
<1>9. QED
  BY <1>6, <1>7, <1>8

\* The end of a walk is returned, and stays.
LEMMA OtherTurns ==
    ASSUME NEW down \in BOOLEAN, NEW exactIn \in BOOLEAN, NEW c \in Chains,
           NEW amount \in Nat, NEW s \in WalkStates, NEW i \in Nat,
           NEW r, r = Turn(s, Bitmap(c.book), c.book, down, exactIn)
    PROVE  /\ Filled(down, exactIn, c, amount, s, i) =>
                Filled(down, exactIn, c, amount, r, i + 1)
           /\ GivenUp(down, exactIn, c, amount, s) =>
                GivenUp(down, exactIn, c, amount, r)
<1>0. PICK ahead, inArray, later :
        /\ ahead = NextIn(c.book, s.start, s.tick, down)
        /\ inArray = TicksOf(c.book, s.start)
        /\ later = ArraysAfter(Bitmap(c.book), s.start, down)
  OBVIOUS
<1>0a. TurnsTo(s, r, ahead, inArray, later, c.book, down, exactIn)
  BY <1>0, TurnCases
<1>1. /\ s.status # "more" => r = s
      /\ s.status = "more" /\ Stops(s) => r = Ended(s, "ok")
  BY <1>0a, Zenon DEF TurnsTo
<1>2. ASSUME GivenUp(down, exactIn, c, amount, s) PROVE GivenUp(down, exactIn, c, amount, r)
  <2>1. r = s
    BY <1>1, <1>2 DEF GivenUp
  <2>2. QED
    BY <1>2, <2>1
<1>3. ASSUME Filled(down, exactIn, c, amount, s, i)
      PROVE  Filled(down, exactIn, c, amount, r, i + 1)
  <2>1. PICK k : k = Cardinality(TicksMet(c, down, exactIn, amount))
    OBVIOUS
  <2>2. k \in Nat
    BY <2>1, NeededTypes
  <2>3. Stops(s)
    BY <1>3 DEF Filled, Stops
  <2>4. CASE s.status = "more" /\ k = i
    <3>1. /\ r.status = "ok" /\ r.remaining = s.remaining
          /\ r.calculated = s.calculated /\ r.used = s.used
      BY <1>1, <2>3, <2>4, EndedFields
    <3>2. k < i + 1
      BY <2>4
    <3>3. QED
      BY <1>3, <2>1, <3>1, <3>2 DEF Filled
  <2>5. CASE s.status = "ok" /\ k < i
    <3>1. r = s
      BY <1>1, <2>5
    <3>2. k < i + 1
      BY <2>2, <2>5
    <3>3. QED
      BY <1>3, <2>1, <2>5, <3>1, <3>2 DEF Filled
  <2>6. QED
    BY <1>3, <2>1, <2>4, <2>5 DEF Filled
<1>4. QED
  BY <1>2, <1>3

LEMMA BeginsLive ==
    ASSUME NEW down \in BOOLEAN, NEW exactIn \in BOOLEAN, NEW c \in Chains,
           NEW amount \in Nat \ {0}, NEW from,
           from = ArraysFrom(Bitmap(c.book), c.tick, down), from # {},
           NEW s, s = Beginning(amount, down, c, First(from, down))
    PROVE  Live(down, exactIn, c, amount, from, s, 0)
<1>1. PICK start : start = First(from, down)
  OBVIOUS
<1>2. PICK same \in BOOLEAN : same = (start = ArrayStart(c.tick))
  OBVIOUS
<1>3. s = [status |-> "more", remaining |-> amount, calculated |-> 0,
           price |-> c.price, tick |-> c.tick,
           liquidity |-> LiquidityAt(c.book, c.tick),
           start |-> start, used |-> {start}, matches |-> same]
  BY <1>1, <1>2, Zenon DEF Beginning
<1>4. /\ s.status = "more" /\ s.remaining = amount /\ s.calculated = 0
      /\ s.price = c.price /\ s.tick = c.tick
      /\ s.liquidity = LiquidityAt(c.book, c.tick)
      /\ s.start = start /\ s.used = {start} /\ s.matches = same
  BY <1>3
<1>5. OnCurve(down, exactIn, c, amount, s, 0)
  <2>1. PICK m \in Nat : m = Room(c, down)
    BY CurveTypes
  <2>2. PICK h : /\ FillsAlong(h, m, Curve(c, down), amount, exactIn)
                 /\ \A i \in 0 .. m : ExchangeOver(c, i, down, exactIn, amount) = h[i]
    BY <2>1, CurvePath
  <2>3. ExchangeOver(c, 0, down, exactIn, amount) = Unfilled
    BY <2>2 DEF FillsAlong
  <2>4. PICK e : e = ExchangeOver(c, 0, down, exactIn, amount)
    OBVIOUS
  <2>5. e.whole = TRUE /\ e.used = 0 /\ e.other = 0
    BY <2>3, <2>4 DEF Unfilled
  <2>6. /\ c.price \in Nat /\ c.tick \in Nat /\ 0 < c.tick /\ c.tick < MaxTick
        /\ PerTick * c.tick <= c.price /\ c.price <= PerTick * (c.tick + 1)
    BY ChainTypes
  <2>7. e.used + s.remaining = amount /\ s.remaining > 0 /\ e.other = s.calculated
    BY <1>4, <2>5
  <2>8. s.price = IF down THEN c.price - 0 ELSE c.price + 0
    BY <1>4, <2>6
  <2>9. IF down THEN s.tick <= c.tick ELSE c.tick <= s.tick
    BY <1>4, <2>6
  <2>10. 0 \in 0 .. Room(c, down)
    BY <2>1
  <2>11. QED
    BY <1>4, <2>4, <2>5, <2>6, <2>7, <2>8, <2>9, <2>10 DEF OnCurve
<1>6. Left(c, s.tick, down) = TicksAhead(c, down) /\ Passed(c, s.tick, down) = {}
  BY <1>4 DEF Left, TicksAhead, Passed
<1>7. c.tick \in Nat /\ \A u \in Initialized(c.book) : u \in Nat
  BY ChainTypes, InitializedTypes
<1>8. PICK a \in Nat : a = ArrayStart(c.tick)
  BY <1>7, ArrayStartTypes
<1>9. \A u \in Initialized(c.book) :
        /\ ArrayStart(u) \in Nat /\ ArrayStart(u) \in Bitmap(c.book)
        /\ u <= c.tick => ArrayStart(u) <= a
        /\ c.tick <= u => a <= ArrayStart(u)
  BY <1>7, <1>8, ArrayStartTypes DEF Bitmap
<1>10. \A x : x \in from <=> x \in Bitmap(c.book) /\ (x = a \/ IF down THEN x < a ELSE x > a)
  BY <1>8 DEF ArraysFrom, ArraysAfter
<1>11. /\ start \in from /\ start \in Nat
       /\ \A x \in from : IF down THEN x <= start ELSE start <= x
  BY <1>1, FromTypes, FirstTypes, BoundsTypes DEF Starts
<1>12. start \in Bitmap(c.book) /\ (start = a \/ IF down THEN start < a ELSE start > a)
  BY <1>10, <1>11
<1>13. \A u \in TicksAhead(c, down) : ArrayStart(u) \in from
  <2>1. ASSUME NEW u \in TicksAhead(c, down) PROVE ArrayStart(u) \in from
    <3>1. u \in Initialized(c.book) /\ IF down THEN u <= c.tick ELSE u > c.tick
      BY DEF TicksAhead
    <3>2. ArrayStart(u) = a \/ IF down THEN ArrayStart(u) < a ELSE ArrayStart(u) > a
      BY <1>7, <1>9, <3>1
    <3>3. QED
      BY <1>9, <1>10, <3>1, <3>2
  <2>2. QED
    BY <2>1
<1>14. \A u \in TicksAhead(c, down) :
         IF down THEN ArrayStart(u) <= start ELSE start <= ArrayStart(u)
  BY <1>11, <1>13
<1>15. ASSUME NEW u \in Initialized(c.book),
              IF down THEN ArrayStart(u) < a ELSE a < ArrayStart(u)
       PROVE  u \in TicksAhead(c, down)
  <2>1. u \in Nat /\ ArrayStart(u) \in Nat
        /\ (u <= c.tick => ArrayStart(u) <= a) /\ (c.tick <= u => a <= ArrayStart(u))
    BY <1>7, <1>9
  <2>2. IF down THEN u <= c.tick ELSE u > c.tick
    BY <1>7, <1>15, <2>1
  <2>3. QED
    BY <2>2 DEF TicksAhead
<1>16. \A u \in Initialized(c.book) :
         (IF down THEN ArrayStart(u) < start ELSE start < ArrayStart(u))
           => u \in TicksAhead(c, down)
  BY <1>9, <1>11, <1>12, <1>15
<1>17. start # a =>
         \A u \in Initialized(c.book) : ArrayStart(u) = start => u \in TicksAhead(c, down)
  BY <1>9, <1>11, <1>12, <1>15
<1>18. Cardinality({start}) <= Discovery
  <2>1. Cardinality({start}) = 1
    BY FS_Singleton
  <2>2. QED
    BY <2>1, BoundsTypes
<1>19. InHand(down, c, s, from)
  <2>1. s.start \in s.used /\ s.start \in Bitmap(c.book) /\ Cardinality(s.used) <= Discovery
    BY <1>4, <1>12, <1>18
  <2>2. s.used = {First(from, down)} \cup {ArrayStart(t) : t \in Passed(c, s.tick, down)}
    BY <1>1, <1>4, <1>6
  <2>3. \A x \in s.used : IF down THEN s.start <= x ELSE x <= s.start
    BY <1>4, <1>11
  <2>4. s.matches <=> s.start = ArrayStart(s.tick)
    BY <1>2, <1>4
  <2>5. QED
    BY <1>4, <1>6, <1>8, <1>14, <1>16, <1>17, <2>1, <2>2, <2>3, <2>4 DEF InHand
<1>20. Cardinality(Passed(c, s.tick, down)) = 0
  BY <1>6, FS_EmptySet
<1>21. QED
  BY <1>4, <1>5, <1>19, <1>20 DEF Live

\* What quote_swap answers on one pool and its own arrays, for every pool,
\* direction and amount: a quote when the pool can fill the swap, no more
\* arrays are needed than were fetched and the turns suffice - and then what
\* the curve exchanges, with the arrays the program will look for.
QuotedExactly(down, exactIn, c, amount, q) ==
    /\ q.status = "ok" <=>
         /\ Fillable(c, down, exactIn, amount)
         /\ Cardinality(ArraysNeeded(c, down, exactIn, amount)) <= Discovery
         /\ Cardinality(TicksMet(c, down, exactIn, amount)) < WalkLimit
    /\ q.status = "ok" =>
         /\ q.calculated = Exchange(c, down, exactIn, amount)
         /\ q.used = ArraysNeeded(c, down, exactIn, amount)

LEMMA NowhereToBegin ==
    ASSUME NEW down \in BOOLEAN, NEW exactIn \in BOOLEAN, NEW c \in Chains,
           NEW amount \in Nat \ {0}, ArraysFrom(Bitmap(c.book), c.tick, down) = {}
    PROVE  ~Fillable(c, down, exactIn, amount)
<1>1. c.tick \in Nat /\ \A u \in Initialized(c.book) : u \in Nat
  BY ChainTypes, InitializedTypes
<1>2. TicksAhead(c, down) = {}
  <2> SUFFICES ASSUME NEW u \in TicksAhead(c, down) PROVE FALSE
    OBVIOUS
  <2>1. u \in Initialized(c.book) /\ IF down THEN u <= c.tick ELSE u > c.tick
    BY DEF TicksAhead
  <2>2. PICK a \in Nat, b \in Nat : a = ArrayStart(c.tick) /\ b = ArrayStart(u)
    BY <1>1, <2>1, ArrayStartTypes
  <2>3. b = a \/ IF down THEN b < a ELSE b > a
    <3>1. (u <= c.tick => b <= a) /\ (c.tick <= u => a <= b)
      BY <1>1, <2>1, <2>2, ArrayStartTypes
    <3>2. QED
      BY <1>1, <2>1, <3>1
  <2>4. b \in Bitmap(c.book)
    BY <2>1, <2>2 DEF Bitmap
  <2>5. QED
    BY <2>2, <2>3, <2>4 DEF ArraysFrom, ArraysAfter
<1>3. Reach(c, down) = 0
  BY <1>2, ReachTypes
<1>4. PICK m \in Nat : m = Room(c, down)
  BY CurveTypes
<1>5. PICK h : /\ FillsAlong(h, m, Curve(c, down), amount, exactIn)
               /\ \A i \in 0 .. m : ExchangeOver(c, i, down, exactIn, amount) = h[i]
  BY <1>4, CurvePath
<1>6. ExchangeOver(c, 0, down, exactIn, amount) = Unfilled
  BY <1>5 DEF FillsAlong
<1>7. Unfilled.used = 0
  BY DEF Unfilled
<1>8. QED
  BY <1>3, <1>6, <1>7 DEF Fillable

\* QuotedExactly holds of whatever quote_swap answers on one pool: its turns,
\* which see one array and one net liquidity at a time, follow the curve that
\* the positions make, and stop where the program would.
THEOREM WalkIsExact ==
    ASSUME NEW down \in BOOLEAN, NEW exactIn \in BOOLEAN, NEW c \in Chains,
           NEW amount \in Nat \ {0},
           NEW q, q = QuoteSwap(amount, down, exactIn, c, c.book)
    PROVE  QuotedExactly(down, exactIn, c, amount, q)
<1>1. PICK from : from = ArraysFrom(Bitmap(c.book), c.tick, down)
  OBVIOUS
<1>2. CASE from = {}
  <2>1. q = [status |-> "error", calculated |-> 0, used |-> {}]
    BY <1>1, <1>2 DEF QuoteSwap
  <2>2. q.status = "error"
    BY <2>1
  <2>3. ~Fillable(c, down, exactIn, amount)
    BY <1>1, <1>2, NowhereToBegin
  <2>4. QED
    BY <2>2, <2>3 DEF QuotedExactly
<1>3. CASE from # {}
  <2>1. c.book \in SUBSET Positions /\ WalkLimit \in Nat /\ amount \in Nat
    BY ChainTypes, BoundsTypes
  <2>2. PICK begin : begin = Beginning(amount, down, c, First(from, down))
    OBVIOUS
  <2>3. PICK h : /\ WalksAlong(h, WalkLimit, begin, Bitmap(c.book), c.book, down, exactIn)
                 /\ q = h[WalkLimit]
    BY <1>1, <1>3, <2>1, <2>2, WalkPath
  <2>4. /\ h[0] = begin /\ \A k \in 0 .. WalkLimit : h[k] \in WalkStates
        /\ \A k \in 1 .. WalkLimit :
             h[k] = Turn(h[k - 1], Bitmap(c.book), c.book, down, exactIn)
    BY <2>3 DEF WalksAlong
  <2> DEFINE Holds(i) == \/ Live(down, exactIn, c, amount, from, h[i], i)
                         \/ Filled(down, exactIn, c, amount, h[i], i)
                         \/ GivenUp(down, exactIn, c, amount, h[i])
             T == {i \in 0 .. WalkLimit : Holds(i)}
  <2>5. 0 \in T
    <3>1. Live(down, exactIn, c, amount, from, h[0], 0)
      BY <1>1, <1>3, <2>2, <2>4, BeginsLive
    <3>2. QED
      BY <2>1, <3>1
  <2>6. ASSUME NEW k \in 1 .. WalkLimit, k - 1 \in T PROVE k \in T
    <3>1. PICK i \in Nat, s \in WalkStates, r \in WalkStates :
            /\ i = k - 1 /\ k = i + 1 /\ s = h[i] /\ r = h[k]
            /\ r = Turn(s, Bitmap(c.book), c.book, down, exactIn)
      <4>1. k - 1 \in 0 .. WalkLimit /\ k = (k - 1) + 1
        BY <2>1
      <4>2. QED
        BY <2>4, <4>1
    <3>2. \/ Live(down, exactIn, c, amount, from, s, i)
          \/ Filled(down, exactIn, c, amount, s, i)
          \/ GivenUp(down, exactIn, c, amount, s)
      BY <2>6, <3>1
    <3>3. \/ Live(down, exactIn, c, amount, from, r, i + 1)
          \/ Filled(down, exactIn, c, amount, r, i + 1)
          \/ GivenUp(down, exactIn, c, amount, r)
      <4>1. CASE Live(down, exactIn, c, amount, from, s, i)
        BY <1>1, <1>3, <2>1, <3>1, <4>1, LiveTurn
      <4>2. CASE Filled(down, exactIn, c, amount, s, i) \/ GivenUp(down, exactIn, c, amount, s)
        BY <2>1, <3>1, <4>2, OtherTurns
      <4>3. QED
        BY <3>2, <4>1, <4>2
    <3>4. Holds(k)
      BY <3>1, <3>3
    <3>5. QED
      BY <2>1, <3>4
  <2> HIDE DEF T
  <2>7. WalkLimit \in T
    <3>1. \A k \in 0 .. WalkLimit : k \in T
      BY <2>1, <2>5, <2>6, AlongPositions
    <3>2. QED
      BY <2>1, <3>1
  <2>8. \/ Live(down, exactIn, c, amount, from, q, WalkLimit)
        \/ Filled(down, exactIn, c, amount, q, WalkLimit)
        \/ GivenUp(down, exactIn, c, amount, q)
    BY <2>3, <2>7 DEF T
  <2>9. PICK k, a : /\ k = Cardinality(TicksMet(c, down, exactIn, amount)) /\ k \in Nat
                    /\ a = Cardinality(ArraysNeeded(c, down, exactIn, amount)) /\ a \in Nat
    BY <2>1, NeededTypes
  <2>10. CASE Live(down, exactIn, c, amount, from, q, WalkLimit)
    <3>1. PICK n : OnCurve(down, exactIn, c, amount, q, n)
      BY <2>10 DEF Live
    <3>2. Passed(c, q.tick, down) \subseteq TicksMet(c, down, exactIn, amount)
      BY <2>1, <2>3, <2>4, <3>1, PassedAreMet
    <3>3. Cardinality(Passed(c, q.tick, down)) <= k
      BY <2>1, <2>9, <3>2, NeededTypes, FS_Subset
    <3>4. q.status = "more" /\ ~(k < WalkLimit)
      BY <2>1, <2>9, <2>10, <3>3 DEF Live
    <3>5. QED
      BY <2>9, <3>4 DEF QuotedExactly
  <2>11. CASE Filled(down, exactIn, c, amount, q, WalkLimit)
    BY <2>1, <2>9, <2>11 DEF Filled, QuotedExactly
  <2>12. CASE GivenUp(down, exactIn, c, amount, q)
    <3>1. ~Fillable(c, down, exactIn, amount) \/ ~(a <= Discovery)
      BY <2>9, <2>12, BoundsTypes DEF GivenUp
    <3>2. QED
      BY <2>9, <2>12, <3>1 DEF GivenUp, QuotedExactly
  <2>13. QED
    BY <2>8, <2>10, <2>11, <2>12
<1>4. QED
  BY <1>2, <1>3


-----------------------------------------------------------------------------
(***************************************************************************)
(* The call                                                                *)
(***************************************************************************)
\* What a caller may ask for.
Requests ==
    [zeroForOne : BOOLEAN, exactIn : BOOLEAN, amount : Amounts, tax : Taxes]

Orders ==
    [calculated : Nat, amount : Nat, threshold : Nat, arrays : SUBSET Starts,
     book : SUBSET Positions]

\* The values of the variables.
TypeOK ==
    /\ chain \in Chains /\ seen \in Chains
    /\ wallet \in Nat /\ moves \in Nat
    /\ request \in Requests
    /\ phase \in {"pool", "arrays", "balance", "simulate", "sent", "done"}
    /\ order \in Orders
    /\ outcome \in {"Pending", "Rpc", "Quote", "InsufficientBalance", "Simulation",
                    "Ok", "Failed"}
    /\ phase # "done" => outcome = "Pending"

\* The quote that a pool gives when nothing moves between the reads: what a
\* request needs of the pool, of the transaction and of the loop.
Fits(r, c) ==
    LET amount == PoolAmount(r) IN
    /\ amount > 0
    /\ Fillable(c, r.zeroForOne, r.exactIn, amount)
    /\ Cardinality(ArraysNeeded(c, r.zeroForOne, r.exactIn, amount))
         <= IF MaxArrays < Discovery THEN MaxArrays ELSE Discovery
    /\ Cardinality(TicksMet(c, r.zeroForOne, r.exactIn, amount)) < WalkLimit

\* The order is the one that the curve of c asks for.
MadeFrom(o, r, c) ==
    /\ Fits(r, c)
    /\ o.calculated = Exchange(c, r.zeroForOne, r.exactIn, PoolAmount(r))
    /\ o.arrays = ArraysNeeded(c, r.zeroForOne, r.exactIn, PoolAmount(r))

\* Until the call returns, the order holds the slippage and the transfer fee
\* on what was quoted, and if the reads agree what was quoted is what the
\* curve exchanges.
OrderHolds ==
    /\ phase \in {"balance", "simulate", "sent"} =>
         /\ order.amount = request.amount
         /\ order.threshold = Threshold(request, order.calculated)
         /\ order.book = seen.book => MadeFrom(order, request, seen)
    /\ outcome = "Quote" /\ order.book = seen.book => ~Fits(request, seen)

IndInv == TypeOK /\ OrderHolds

LEMMA RequestTypes ==
    ASSUME NEW r \in Requests
    PROVE  /\ r.zeroForOne \in BOOLEAN /\ r.exactIn \in BOOLEAN
           /\ r.amount \in Nat \ {0}
           /\ r.tax.in \in Nat \ {1} /\ r.tax.out \in Nat \ {1}
<1>1. r.zeroForOne \in BOOLEAN /\ r.exactIn \in BOOLEAN /\ r.amount \in Amounts
      /\ r.tax \in Taxes
  BY DEF Requests
<1>2. Amounts \subseteq Nat \ {0}
  BY SwapAssumption
<1>3. r.tax \in [in : Nat \ {1}, out : Nat \ {1}]
  BY <1>1, SwapAssumption
<1>4. PICK tax : tax = r.tax
  OBVIOUS
<1>5. tax \in [in : Nat \ {1}, out : Nat \ {1}]
  BY <1>3, <1>4
<1>6. tax.in \in Nat \ {1} /\ tax.out \in Nat \ {1}
  BY <1>5
<1>7. QED
  BY <1>1, <1>2, <1>4, <1>6

LEMMA PoolAmountTypes ==
    ASSUME NEW r \in Requests
    PROVE  PoolAmount(r) \in Nat
<1>1. PICK a \in Nat, inward \in Nat \ {1}, outward \in Nat \ {1} :
        a = r.amount /\ inward = r.tax.in /\ outward = r.tax.out
  BY RequestTypes
<1>2. a - TransferFee(inward, a) \in Nat
  <2>1. inward \in Nat
    OBVIOUS
  <2>2. TransferFee(inward, a) \in 0 .. a
    BY <2>1, TransferFeeIsPart
  <2>3. QED
    BY <2>2
<1>3. a + InverseTransferFee(outward, a) \in Nat
  BY GrossOf
<1>4. QED
  BY <1>1, <1>2, <1>3 DEF PoolAmount

LEMMA ThresholdTypes ==
    ASSUME NEW r \in Requests, NEW calculated \in Nat
    PROVE  Threshold(r, calculated) \in Nat
<1>1. PICK tax \in Nat \ {1} : tax = r.tax.in
  BY RequestTypes
<1>2. CASE r.exactIn
  <2>1. ~r.exactIn = FALSE
    BY <1>2
  <2>2. Threshold(r, calculated) = ApplySlippage(calculated, FALSE)
    BY <1>2, <2>1 DEF Threshold
  <2>3. QED
    BY <2>2, MinimumTypes
<1>3. CASE ~r.exactIn
  <2>1. PICK s \in Nat : s = ApplySlippage(calculated, TRUE)
    BY MaximumTypes
  <2>2. ~r.exactIn = TRUE
    BY <1>3
  <2>3. Threshold(r, calculated) = s + InverseTransferFee(tax, s)
    BY <1>1, <1>3, <2>1, <2>2 DEF Threshold
  <2>4. QED
    BY <2>1, <2>3, GrossOf
<1>4. QED
  BY <1>2, <1>3

\* Wherever a swap leaves the price, the pool is at a tick.
LEMMA TickTypes ==
    ASSUME NEW p \in Price, NEW t, t \in TicksAt(p)
    PROVE  t \in Nat
<1>1. PICK n \in Nat \ {0}, m \in Nat \ {0} : n = PerTick /\ m = MaxTick
  BY BoundsTypes
<1>2. p \in Nat /\ n <= p
  <2>1. p \in n .. (m - 1) * n
    BY <1>1 DEF Price
  <2>2. (m - 1) * n \in Int
    OBVIOUS
  <2>3. QED
    BY <2>1, <2>2
<1>3. PICK d \in Nat \ {0} : d = p \div n
  <2>1. PICK d \in Nat, r \in Nat : d = p \div n /\ r < n /\ p = n * d + r
    BY <1>2
  <2>2. d # 0
    BY <1>2, <2>1
  <2>3. QED
    BY <2>1, <2>2
<1>4. t # 0 /\ (t = d \/ t = d - 1)
  BY <1>1, <1>3 DEF TicksAt
<1>5. QED
  BY <1>4

LEMMA TradedTypes ==
    ASSUME NEW c \in Chains, NEW p \in Price, NEW t, t \in TicksAt(p)
    PROVE  [c EXCEPT !.price = p, !.tick = t] \in Chains
<1>1. t \in Nat
  BY TickTypes
<1>2. PICK book \in SUBSET Positions : book = c.book
  BY ChainTypes
<1>3. PICK q : q = [price |-> p, tick |-> t, book |-> book]
  OBVIOUS
<1>4. q \in [price : Price, tick : Nat, book : SUBSET Positions]
  BY <1>1, <1>3
<1>5. q.price = p /\ q.tick = t
  BY <1>3
<1>6. q \in Chains
  BY <1>4, <1>5 DEF Chains
<1>7. c \in [price : Price, tick : Nat, book : SUBSET Positions]
  BY DEF Chains
<1>8. [c EXCEPT !.price = p, !.tick = t] = q
  <2>1. PICK o : o = [c EXCEPT !.price = p]
    OBVIOUS
  <2>2. o \in [price : Price, tick : Nat, book : SUBSET Positions]
        /\ o.price = p /\ o.book = book
    BY <1>2, <1>7, <2>1
  <2>3. PICK k \in Nat : k = t
    BY <1>1
  <2>4. [o EXCEPT !.tick = k] = [price |-> p, tick |-> k, book |-> book]
    BY <2>2
  <2>5. [c EXCEPT !.price = p, !.tick = t] = [o EXCEPT !.tick = t]
    BY <2>1
  <2>6. QED
    BY <1>3, <2>3, <2>4, <2>5
<1>9. QED
  BY <1>6, <1>8

LEMMA ProvidedTypes ==
    ASSUME NEW c \in Chains, NEW book \in SUBSET Positions
    PROVE  [c EXCEPT !.book = book] \in Chains
<1>1. c \in [price : Price, tick : Nat, book : SUBSET Positions] /\ c.tick \in TicksAt(c.price)
  BY DEF Chains
<1>2. PICK q : q = [c EXCEPT !.book = book]
  OBVIOUS
<1>3. q \in [price : Price, tick : Nat, book : SUBSET Positions]
      /\ q.price = c.price /\ q.tick = c.tick
  BY <1>1, <1>2
<1>4. q \in Chains
  BY <1>1, <1>3 DEF Chains
<1>5. QED
  BY <1>2, <1>4

\* What the walk answers on one and the same pool, against what the request
\* needs of it.
LEMMA QuoteAnswers ==
    ASSUME NEW r \in Requests, NEW c \in Chains,
           NEW q, q = QuoteSwap(PoolAmount(r), r.zeroForOne, r.exactIn, c, c.book)
    PROVE  LET quoted == PoolAmount(r) > 0 /\ q.status = "ok" /\ FitsTransaction(q.used)
           IN  /\ Fits(r, c) <=> quoted
               /\ quoted =>
                    /\ q.calculated = Exchange(c, r.zeroForOne, r.exactIn, PoolAmount(r))
                    /\ q.used = ArraysNeeded(c, r.zeroForOne, r.exactIn, PoolAmount(r))
<1>1. PICK down \in BOOLEAN, exactIn \in BOOLEAN :
        down = r.zeroForOne /\ exactIn = r.exactIn
  BY RequestTypes
<1>2. PICK amount \in Nat : amount = PoolAmount(r)
  BY PoolAmountTypes
<1>3. CASE amount = 0
  BY <1>2, <1>3 DEF Fits
<1>4. CASE amount # 0
  <2>1. q = QuoteSwap(amount, down, exactIn, c, c.book)
    BY <1>1, <1>2
  <2>2. QuotedExactly(down, exactIn, c, amount, q)
    BY <1>4, <2>1, WalkIsExact
  <2>3. PICK k \in Nat, a \in Nat :
          /\ k = Cardinality(TicksMet(c, down, exactIn, amount))
          /\ a = Cardinality(ArraysNeeded(c, down, exactIn, amount))
    BY NeededTypes
  <2>4. amount > 0
    BY <1>4
  <2>5. PICK m \in Nat, d \in Nat : m = MaxArrays /\ d = Discovery
    BY BoundsTypes
  <2>6. a <= (IF m < d THEN m ELSE d) <=> a <= d /\ a <= m
    OBVIOUS
  <2>7. Fits(r, c) <=> /\ Fillable(c, down, exactIn, amount)
                       /\ a <= d /\ a <= m /\ k < WalkLimit
    BY <1>1, <1>2, <2>3, <2>4, <2>5, <2>6 DEF Fits
  <2>8. q.status = "ok" <=> /\ Fillable(c, down, exactIn, amount)
                            /\ a <= d /\ k < WalkLimit
    BY <2>2, <2>3, <2>5 DEF QuotedExactly
  <2>9. q.status = "ok" =>
          /\ q.calculated = Exchange(c, down, exactIn, amount)
          /\ q.used = ArraysNeeded(c, down, exactIn, amount)
    BY <2>2 DEF QuotedExactly
  <2>10. q.status = "ok" => (FitsTransaction(q.used) <=> a <= m)
    BY <2>3, <2>5, <2>9 DEF FitsTransaction
  <2>11. QED
    BY <1>1, <1>2, <2>4, <2>7, <2>8, <2>9, <2>10
<1>5. QED
  BY <1>3, <1>4

LEMMA OrderTypes ==
    ASSUME NEW r \in Requests, NEW calculated \in Nat, NEW used \in SUBSET Starts,
           NEW book \in SUBSET Positions
    PROVE  [calculated |-> calculated, amount |-> r.amount,
            threshold |-> Threshold(r, calculated), arrays |-> used, book |-> book]
             \in Orders
<1>1. PICK a \in Nat, t \in Nat : a = r.amount /\ t = Threshold(r, calculated)
  BY RequestTypes, ThresholdTypes
<1>2. [calculated |-> calculated, amount |-> a, threshold |-> t, arrays |-> used,
       book |-> book] \in Orders
  BY DEF Orders
<1>3. QED
  BY <1>1, <1>2

LEMMA NoOrderTypes ==
    ASSUME NEW book \in SUBSET Positions
    PROVE  /\ NoOrder \in Orders
           /\ [NoOrder EXCEPT !.book = book] \in Orders
           /\ [NoOrder EXCEPT !.book = book].book = book
<1>1. PICK n : n = NoOrder
  OBVIOUS
<1>2. n \in Orders
  BY <1>1 DEF NoOrder, Orders
<1>3. [n EXCEPT !.book = book] \in Orders /\ [n EXCEPT !.book = book].book = book
  BY <1>2 DEF Orders
<1>4. QED
  BY <1>1, <1>2, <1>3

LEMMA InitInv == Init => IndInv
<1> SUFFICES ASSUME Init PROVE IndInv
  OBVIOUS
<1>1. PICK book \in SUBSET Positions, p \in Price :
        \E t \in TicksAt(p) : chain = [price |-> p, tick |-> t, book |-> book]
  BY DEF Init
<1>2. PICK t : t \in TicksAt(p) /\ chain = [price |-> p, tick |-> t, book |-> book]
  BY <1>1
<1>3. chain \in Chains
  <2>1. t \in Nat
    BY <1>2, TickTypes
  <2>2. PICK c : c = [price |-> p, tick |-> t, book |-> book]
    OBVIOUS
  <2>3. c \in [price : Price, tick : Nat, book : SUBSET Positions]
        /\ c.price = p /\ c.tick = t
    BY <2>1, <2>2
  <2>4. c \in Chains
    BY <1>2, <2>3 DEF Chains
  <2>5. QED
    BY <1>2, <2>2, <2>4
<1>4. /\ seen = chain /\ wallet \in Wallets /\ moves = 0 /\ request \in Requests
      /\ phase = "pool" /\ order = NoOrder /\ outcome = "Pending"
  BY DEF Init, Requests
<1>5. wallet \in Nat
  BY <1>4, SwapAssumption
<1>6. order \in Orders
  BY <1>1, <1>4, NoOrderTypes
<1>7. TypeOK
  BY <1>3, <1>4, <1>5, <1>6 DEF TypeOK
<1>8. OrderHolds
  BY <1>4 DEF OrderHolds
<1>9. QED
  BY <1>7, <1>8 DEF IndInv

\* The order of a call that goes on after its reads.
LEMMA LoadArraysKeeps == IndInv /\ LoadArrays => IndInv'
<1> SUFFICES ASSUME IndInv, LoadArrays PROVE IndInv'
  OBVIOUS
<1>1. PICK c, b, r :
        c = seen /\ b = chain.book /\ r = request
  OBVIOUS
<1>2. c \in Chains /\ b \in SUBSET Positions /\ r \in Requests
  BY <1>1, ChainTypes DEF IndInv, TypeOK
<1>3. PICK q : q = QuoteSwap(PoolAmount(r), r.zeroForOne, r.exactIn, c, b)
  OBVIOUS
<1>4. q.calculated \in Nat /\ q.used \in SUBSET Starts
  BY <1>2, <1>3, RequestTypes, PoolAmountTypes, QuoteSwapTypes
<1> DEFINE quoted == PoolAmount(r) > 0 /\ q.status = "ok" /\ FitsTransaction(q.used)
<1>5. /\ phase = "arrays" /\ UNCHANGED <<chain, wallet, moves, request, seen>>
      /\ \/ Return("Rpc") /\ UNCHANGED order
         \/ /\ ~quoted /\ Return("Quote")
            /\ order' = [NoOrder EXCEPT !.book = b]
         \/ /\ quoted /\ GoTo("balance")
            /\ order' = [calculated |-> q.calculated, amount |-> r.amount,
                         threshold |-> Threshold(r, q.calculated),
                         arrays |-> q.used, book |-> b]
  BY <1>1, <1>3 DEF LoadArrays
<1>6. b = c.book =>
        /\ Fits(r, c) <=> quoted
        /\ quoted =>
             /\ q.calculated = Exchange(c, r.zeroForOne, r.exactIn, PoolAmount(r))
             /\ q.used = ArraysNeeded(c, r.zeroForOne, r.exactIn, PoolAmount(r))
  BY <1>2, <1>3, QuoteAnswers
<1> HIDE DEF quoted
<1>7. c = seen' /\ r = request' /\ outcome = "Pending"
  BY <1>1, <1>5 DEF IndInv, TypeOK
<1>8. CASE Return("Rpc") /\ UNCHANGED order
  BY <1>5, <1>8 DEF IndInv, TypeOK, OrderHolds, Return
<1>9. CASE /\ ~quoted /\ Return("Quote")
           /\ order' = [NoOrder EXCEPT !.book = b]
  <2>1. order' \in Orders /\ order'.book = b
    BY <1>2, <1>9, NoOrderTypes
  <2>2. TypeOK'
    BY <1>5, <1>9, <2>1 DEF IndInv, TypeOK, Return
  <2>3. order'.book = seen'.book => ~Fits(request, seen)'
    BY <1>6, <1>7, <1>9, <2>1
  <2>4. OrderHolds'
    BY <1>9, <2>3 DEF OrderHolds, Return
  <2>5. QED
    BY <2>2, <2>4 DEF IndInv
<1>10. CASE /\ quoted /\ GoTo("balance")
            /\ order' = [calculated |-> q.calculated, amount |-> r.amount,
                         threshold |-> Threshold(r, q.calculated),
                         arrays |-> q.used, book |-> b]
  <2>1. order' \in Orders
    BY <1>2, <1>4, <1>10, OrderTypes
  <2>2. TypeOK'
    BY <1>5, <1>7, <1>10, <2>1 DEF IndInv, TypeOK, GoTo
  <2>3. PICK o : o = order'
    OBVIOUS
  <2>4. /\ o.calculated = q.calculated /\ o.amount = r.amount
        /\ o.threshold = Threshold(r, q.calculated)
        /\ o.arrays = q.used /\ o.book = b
    BY <1>10, <2>3
  <2>5. o.book = c.book => MadeFrom(o, r, c)
    BY <1>6, <1>10, <2>4 DEF MadeFrom
  <2>6. OrderHolds'
    BY <1>7, <1>10, <2>3, <2>4, <2>5 DEF OrderHolds, GoTo
  <2>7. QED
    BY <2>2, <2>6 DEF IndInv
<1>11. QED
  BY <1>5, <1>8, <1>9, <1>10

\* The awaits around the reads.
LEMMA CallKeeps == IndInv /\ Call => IndInv'
<1> SUFFICES ASSUME IndInv, Call PROVE IndInv'
  OBVIOUS
<1> USE DEF IndInv, TypeOK, OrderHolds, Return, GoTo
<1>1. CASE LoadPool
  BY <1>1 DEF LoadPool
<1>2. CASE LoadArrays
  BY <1>2, LoadArraysKeeps
<1>3. CASE CheckBalance
  BY <1>3 DEF CheckBalance
<1>4. CASE Simulate
  BY <1>4 DEF Simulate
<1>5. CASE Execute
  BY <1>5 DEF Execute
<1>6. QED
  BY <1>1, <1>2, <1>3, <1>4, <1>5 DEF Call

\* What the others do leaves the call and its order alone.
LEMMA OthersKeep == IndInv /\ (Trade \/ Provide \/ Transfer) => IndInv'
<1> SUFFICES ASSUME IndInv, Trade \/ Provide \/ Transfer PROVE IndInv'
  OBVIOUS
<1>1. Move
  BY DEF Trade, Provide, Transfer
<1>2. moves' \in Nat /\ UNCHANGED <<request, phase, seen, order, outcome>>
  BY <1>1 DEF Move, IndInv, TypeOK
<1>3. OrderHolds'
  BY <1>2 DEF IndInv, OrderHolds
<1>4. chain \in Chains /\ wallet \in Nat
  BY DEF IndInv, TypeOK
<1>5. chain' \in Chains /\ wallet' \in Nat
  <2>1. CASE Trade
    BY <1>4, <2>1, TradedTypes DEF Trade
  <2>2. CASE Provide
    <3>1. PICK c, q : /\ c = chain /\ q \in Positions
                      /\ chain' = [c EXCEPT !.book =
                                     IF q \in c.book THEN c.book \ {q} ELSE c.book \cup {q}]
      BY <2>2 DEF Provide
    <3>2. c \in Chains /\ c.book \in SUBSET Positions
      BY <1>4, <3>1, ChainTypes
    <3>3. (IF q \in c.book THEN c.book \ {q} ELSE c.book \cup {q}) \in SUBSET Positions
      BY <3>1, <3>2
    <3>4. chain' \in Chains
      BY <3>1, <3>2, <3>3, ProvidedTypes
    <3>5. QED
      BY <1>4, <2>2, <3>4 DEF Provide
  <2>3. CASE Transfer
    BY <1>4, <2>3, SwapAssumption DEF Transfer
  <2>4. QED
    BY <2>1, <2>2, <2>3
<1>6. TypeOK'
  BY <1>2, <1>5 DEF IndInv, TypeOK
<1>7. QED
  BY <1>3, <1>6 DEF IndInv

LEMMA StepKeeps == IndInv /\ [Next]_vars => IndInv'
<1> SUFFICES ASSUME IndInv, [Next]_vars PROVE IndInv'
  OBVIOUS
<1>1. CASE UNCHANGED vars
  BY <1>1 DEF IndInv, TypeOK, OrderHolds, vars
<1>2. QED
  BY <1>1, CallKeeps, OthersKeep DEF Next

\* TypeOK: whatever the others do during a call, its variables keep their
\* types; in particular every quote made on torn reads is an amount.
THEOREM TypeCorrect == Spec => []TypeOK
<1>1. IndInv => TypeOK
  BY DEF IndInv
<1>2. QED
  BY <1>1, InitInv, StepKeeps, PTL DEF Spec

\* The inductive invariant: until a call returns, its order is the slippage
\* and the transfer fee on what was quoted, and that is what the curve gives.
THEOREM Invariance == Spec => []IndInv
  BY InitInv, StepKeeps, PTL DEF Spec

-----------------------------------------------------------------------------
(***************************************************************************)
(* What the order promises                                                 *)
(***************************************************************************)
\* The threshold of a quote, without and with what the mint of the input keeps.
LEMMA ThresholdIs ==
    ASSUME NEW r \in Requests, NEW calculated \in Nat
    PROVE  /\ r.exactIn => Threshold(r, calculated) = ApplySlippage(calculated, FALSE)
           /\ ~r.exactIn =>
                \E s \in Nat : /\ s = ApplySlippage(calculated, TRUE)
                               /\ Threshold(r, calculated) = s + InverseTransferFee(r.tax.in, s)
<1>1. CASE r.exactIn
  <2>1. ~r.exactIn = FALSE
    BY <1>1
  <2>2. QED
    BY <1>1, <2>1 DEF Threshold
<1>2. CASE ~r.exactIn
  <2>1. PICK s \in Nat : s = ApplySlippage(calculated, TRUE)
    BY MaximumTypes
  <2>2. ~r.exactIn = TRUE
    BY <1>2
  <2>3. QED
    BY <1>2, <2>1, <2>2 DEF Threshold
<1>3. QED
  BY <1>1, <1>2

\* The program's own check of the threshold, when x is exchanged.
Checked(r, calculated, x) ==
    IF r.exactIn THEN Received(r, x) >= Threshold(r, calculated)
                 ELSE Charged(r, x) <= Threshold(r, calculated)

WithinSlippage(r, calculated, x) ==
    IF r.exactIn THEN x * 10000 > calculated * (10000 - SlippageBps) - 10000
                 ELSE x * 10000 < calculated * (10000 + SlippageBps) + 10000

\* The program's own check bounds what the pool exchanged.
LEMMA CheckedWithinSlippage ==
    ASSUME NEW r \in Requests, NEW calculated \in Nat, NEW x \in Nat,
           Checked(r, calculated, x)
    PROVE  WithinSlippage(r, calculated, x)
<1>1. PICK inward \in Nat \ {1}, outward \in Nat \ {1} :
        inward = r.tax.in /\ outward = r.tax.out
  BY RequestTypes
<1>b. PICK bps \in Nat : bps = SlippageBps
  BY SlippageAssumption
<1>2. CASE r.exactIn
  <2>1. PICK s : s = ApplySlippage(calculated, FALSE)
    OBVIOUS
  <2>2. /\ s \in Nat
        /\ calculated * (10000 - SlippageBps) < 10000 * s + 10000
    BY <2>1, SlippageDown DEF ApplySlippage
  <2>3. PICK fee \in 0 .. x : fee = TransferFee(outward, x)
    <3>1. outward \in Nat
      OBVIOUS
    <3>2. QED
      BY <3>1, TransferFeeIsPart
  <2>4. x - fee >= s
    BY <1>1, <1>2, <2>1, <2>3, ThresholdIs DEF Received, Checked
  <2>5. PICK d \in Int : d = calculated * (10000 - bps)
    OBVIOUS
  <2>6. d < 10000 * s + 10000
    BY <1>b, <2>2, <2>5
  <2>7. x * 10000 > d - 10000
    BY <2>2, <2>4, <2>6
  <2>8. QED
    BY <1>b, <1>2, <2>5, <2>7 DEF WithinSlippage
<1>3. CASE ~r.exactIn
  <2>1. PICK s \in Nat : /\ s = ApplySlippage(calculated, TRUE)
                         /\ Threshold(r, calculated) = s + InverseTransferFee(inward, s)
    BY <1>1, <1>3, ThresholdIs
  <2>2. 10000 * s < calculated * (10000 + SlippageBps) + 10000
    BY <2>1, SlippageUp DEF ApplySlippage
  <2>3. PICK g \in Nat, h \in Nat : /\ g = x + InverseTransferFee(inward, x)
                                    /\ h = s + InverseTransferFee(inward, s)
    BY GrossOf
  <2>4. g <= h
    BY <1>1, <1>3, <2>1, <2>3 DEF Charged, Checked
  <2>5. x <= s
    <3>1. s < x => h < g
      BY <2>3, GrossGrows
    <3>2. QED
      BY <2>4, <3>1
  <2>6. PICK d \in Int : d = calculated * (10000 + bps)
    OBVIOUS
  <2>7. 10000 * s < d + 10000
    BY <1>b, <2>2, <2>6
  <2>8. x * 10000 < d + 10000
    BY <2>5, <2>7
  <2>9. QED
    BY <1>b, <1>3, <2>6, <2>8 DEF WithinSlippage
<1>4. QED
  BY <1>2, <1>3

\* What was quoted passes the check, if no fee is kept of what arrives.
LEMMA QuotedPassesCheck ==
    ASSUME NEW r \in Requests, NEW x \in Nat, r.exactIn => r.tax.out = 0
    PROVE  Checked(r, x, x)
<1>1. CASE r.exactIn
  <2>1. PICK s \in Nat : s = ApplySlippage(x, FALSE) /\ s <= x
    BY MinimumTypes
  <2>2. TransferFee(r.tax.out, x) = 0
    BY <1>1 DEF TransferFee
  <2>3. Received(r, x) = x
    BY <1>1, <2>2 DEF Received
  <2>4. QED
    BY <1>1, <2>1, <2>3, ThresholdIs DEF Checked
<1>2. CASE ~r.exactIn
  <2>1. PICK inward \in Nat \ {1} : inward = r.tax.in
    BY RequestTypes
  <2>2. PICK s \in Nat : /\ s = ApplySlippage(x, TRUE)
                         /\ Threshold(r, x) = s + InverseTransferFee(inward, s)
    BY <1>2, <2>1, ThresholdIs
  <2>3. x <= s
    BY <2>2, MaximumTypes
  <2>4. PICK g \in Nat, h \in Nat : /\ g = x + InverseTransferFee(inward, x)
                                    /\ h = s + InverseTransferFee(inward, s)
    BY GrossOf
  <2>5. g <= h
    <3>1. CASE x = s
      BY <2>4, <3>1
    <3>2. CASE x # s
      <4>1. x < s
        BY <2>3, <3>2
      <4>2. g < h
        BY <2>4, <4>1, GrossGrows
      <4>3. QED
        BY <4>2
    <3>3. QED
      BY <3>1, <3>2
  <2>6. QED
    BY <1>2, <2>1, <2>2, <2>4, <2>5 DEF Charged, Checked
<1>3. QED
  BY <1>1, <1>2

\* QuoteIsExact: when the two reads of the chain agree, the walk over tick
\* arrays and net liquidities quotes what the positions themselves exchange,
\* and it refuses no swap that pool, transaction and loop have room for.
THEOREM QuotesAreExact == Spec => []QuoteIsExact
<1>1. IndInv => QuoteIsExact
  <2> SUFFICES ASSUME IndInv, order.book = seen.book
               PROVE  /\ phase = "balance" => MadeFrom(order, request, seen)
                      /\ outcome = "Quote" => ~Fits(request, seen)
    BY DEF QuoteIsExact, MadeFrom, Fits
  <2>1. QED
    BY DEF IndInv, OrderHolds
<1>2. QED
  BY <1>1, Invariance, PTL

\* UnmovedSucceeds: threshold, transfer fees and tick arrays of a quote on
\* which nothing moved satisfy the program's own checks.
THEOREM UnmovedSwapsSucceed == Spec => []UnmovedSucceeds
<1>1. IndInv => UnmovedSucceeds
  <2> SUFFICES ASSUME IndInv, phase \in {"simulate", "sent"}, chain = seen,
                      order.book = seen.book, Required <= wallet,
                      request.exactIn => request.tax.out = 0
               PROVE  Executes(chain, request, order, wallet)
    BY DEF UnmovedSucceeds
  <2>1. PICK r, c, o, funds :
          r = request /\ c = seen /\ o = order /\ funds = wallet
    OBVIOUS
  <2>2. r \in Requests /\ c \in Chains /\ o \in Orders /\ funds \in Nat
    BY <2>1 DEF IndInv, TypeOK
  <2>3. /\ o.amount = r.amount /\ o.threshold = Threshold(r, o.calculated)
        /\ MadeFrom(o, r, c)
    BY <2>1 DEF IndInv, OrderHolds
  <2>4. PICK x \in Nat : x = Exchange(c, r.zeroForOne, r.exactIn, PoolAmount(r))
    BY <2>2, RequestTypes, PoolAmountTypes, ExchangeTypes
  <2>5. o.calculated = x /\ o.threshold = Threshold(r, x)
    BY <2>3, <2>4 DEF MadeFrom
  <2>6. IF r.exactIn THEN Received(r, x) >= o.threshold
                     ELSE Charged(r, x) <= o.threshold
    <3>1. Checked(r, x, x)
      BY <2>1, <2>2, QuotedPassesCheck
    <3>2. QED
      BY <2>5, <3>1 DEF Checked
  <2>7. o.amount <= funds /\ o.threshold <= funds
    <3>1. PICK a \in Nat, t \in Nat : a = o.amount /\ t = o.threshold
      BY <2>2 DEF Orders
    <3>2. (IF t > a THEN t ELSE a) <= funds
      BY <2>1, <3>1 DEF Required
    <3>3. a <= funds /\ t <= funds
      BY <2>2, <3>2
    <3>4. QED
      BY <3>1, <3>3
  <2>8. Charged(r, x) <= funds
    <3>1. CASE r.exactIn
      BY <2>3, <2>7, <3>1 DEF Charged
    <3>2. CASE ~r.exactIn
      <4>1. PICK inward \in Nat \ {1} : inward = r.tax.in
        BY <2>2, RequestTypes
      <4>2. PICK g \in Nat : g = x + InverseTransferFee(inward, x)
        BY GrossOf
      <4>3. PICK t \in Nat : t = o.threshold
        BY <2>2 DEF Orders
      <4>4. g <= t /\ t <= funds
        BY <2>6, <2>7, <3>2, <4>1, <4>2, <4>3 DEF Charged
      <4>5. QED
        BY <2>2, <3>2, <4>1, <4>2, <4>4 DEF Charged
    <3>3. QED
      BY <3>1, <3>2
  <2>9. /\ Fillable(c, r.zeroForOne, r.exactIn, PoolAmount(r))
        /\ ArraysNeeded(c, r.zeroForOne, r.exactIn, PoolAmount(r)) \subseteq o.arrays
    BY <2>3 DEF MadeFrom, Fits
  <2>10. Executes(c, r, o, funds)
    BY <2>4, <2>6, <2>8, <2>9 DEF Executes
  <2>11. QED
    BY <2>1, <2>10
<1>2. QED
  BY <1>1, Invariance, PTL

\* ExecutedWithinSlippage: however torn the reads and whatever happens before
\* execution, a swap that executes is no worse than its quote by more than
\* the slippage, transfer fees included.
THEOREM SlippageIsKept == Spec => ExecutedWithinSlippage
<1> DEFINE Within ==
      phase = "sent" /\ outcome' = "Ok" =>
         LET x == Exchange(chain, request.zeroForOne, request.exactIn,
                           PoolAmount(request))
         IN  IF request.exactIn
               THEN x * 10000 > order.calculated * (10000 - SlippageBps) - 10000
               ELSE x * 10000 < order.calculated * (10000 + SlippageBps) + 10000
<1>1. IndInv /\ [Next]_vars => [Within]_vars
  <2> SUFFICES ASSUME IndInv, Next, phase = "sent", outcome' = "Ok" PROVE Within
    BY DEF Within
  <2>1. outcome = "Pending"
    BY DEF IndInv, TypeOK
  <2>2. Execute
    BY <2>1 DEF Next, Call, LoadPool, LoadArrays, CheckBalance, Simulate, Trade,
                Provide, Transfer, Move
  <2>3. Executes(chain, request, order, wallet)
    BY <2>2 DEF Execute, Return
  <2>4. PICK r, c, o : r = request /\ c = chain /\ o = order
    OBVIOUS
  <2>5. r \in Requests /\ c \in Chains /\ o \in Orders
        /\ o.threshold = Threshold(r, o.calculated)
    BY <2>4 DEF IndInv, TypeOK, OrderHolds
  <2>6. PICK x \in Nat, calculated \in Nat :
          /\ x = Exchange(c, r.zeroForOne, r.exactIn, PoolAmount(r))
          /\ calculated = o.calculated
    BY <2>5, RequestTypes, PoolAmountTypes, ExchangeTypes DEF Orders
  <2>7. Checked(r, calculated, x)
    BY <2>3, <2>4, <2>5, <2>6 DEF Executes, Checked
  <2>8. WithinSlippage(r, calculated, x)
    BY <2>5, <2>7, CheckedWithinSlippage
  <2>9. QED
    BY <2>4, <2>6, <2>8 DEF WithinSlippage
<1>2. QED
  BY <1>1, Invariance, PTL DEF Spec, ExecutedWithinSlippage
=============================================================================
