------------------------- MODULE Provisioning_proofs -------------------------
(***************************************************************************)
(* Proofs about the provisioning commands, for every number of operators,  *)
(* mints, command lines, stops and expired transactions.                   *)
(***************************************************************************)
EXTENDS Provisioning, FiniteSetTheorems, WellFoundedInduction, TLAPS

-----------------------------------------------------------------------------
(***************************************************************************)
(* Going through a set of pairs in order                                   *)
(***************************************************************************)
LEMMA LeastNumber ==
    ASSUME NEW S \in SUBSET Nat, S # {}
    PROVE  \E x \in S : \A y \in S : x <= y
<1> DEFINE R == OpToRel(<, Nat)
<1>1. IsWellFoundedOn(R, Nat)
  BY NatLessThanWellFounded
<1>2. \A x, y \in Nat : <<y, x>> \in R <=> y < x
  BY DEF OpToRel
<1> HIDE DEF R
<1>3. \E x \in S : \A y \in S : <<y, x>> \notin R
  BY <1>1, WFMin
<1>4. \E x \in S : \A y \in S : ~(y < x)
  BY <1>2, <1>3, Zenon
<1>5. QED
  BY <1>4

LEMMA LeastPair ==
    ASSUME NEW S \in SUBSET (Nat \X Nat), S # {}
    PROVE  \E p \in S : \A q \in S : q # p => Before(p, q)
<1> DEFINE Firsts == {q[1] : q \in S}
<1>1. PICK a \in Firsts : \A x \in Firsts : a <= x
  <2>1. Firsts \in SUBSET Nat /\ Firsts # {}
    OBVIOUS
  <2> HIDE DEF Firsts
  <2>2. QED
    BY <2>1, LeastNumber
<1> DEFINE Seconds == {q[2] : q \in {r \in S : r[1] = a}}
<1>2. PICK b \in Seconds : \A x \in Seconds : b <= x
  <2>1. Seconds \in SUBSET Nat /\ Seconds # {}
    OBVIOUS
  <2> HIDE DEF Seconds
  <2>2. QED
    BY <2>1, LeastNumber
<1>3. PICK p \in S : p[1] = a /\ p[2] = b
  BY <1>2
<1>4. ASSUME NEW q \in S, q # p
      PROVE  Before(p, q)
  <2>1. /\ q = <<q[1], q[2]>> /\ q[1] \in Nat /\ q[2] \in Nat
        /\ p = <<p[1], p[2]>> /\ p[1] \in Nat /\ p[2] \in Nat
    OBVIOUS
  <2>2. p[1] <= q[1]
    <3>1. q[1] \in Firsts
      OBVIOUS
    <3>2. QED
      BY <1>1, <1>3, <3>1
  <2>3. q[1] = p[1] => p[2] <= q[2]
    <3>1. q[1] = p[1] => q[2] \in Seconds
      BY <1>3
    <3>2. QED
      BY <1>2, <1>3, <3>1
  <2>4. q[1] # p[1] \/ q[2] # p[2]
    BY <1>4, <2>1
  <2>5. QED
    BY <2>1, <2>2, <2>3, <2>4 DEF Before
<1>5. QED
  BY <1>4

Sorted(s) == \A i, j \in DOMAIN s : i < j => Before(s[i], s[j])

\* A finite set of pairs has an order to go through it.
LEMMA OrderExists ==
    ASSUME NEW S \in SUBSET (Nat \X Nat), IsFiniteSet(S)
    PROVE  \E s \in SetToSeqs(S) : Sorted(s)
<1> DEFINE Fails(T) == IsFiniteSet(T) /\ ~ \E s \in SetToSeqs(T) : Sorted(s)
           Bad == {n \in Nat : \E T \in SUBSET (Nat \X Nat) :
                                   Fails(T) /\ Cardinality(T) = n}
<1>1. SUFFICES ASSUME Fails(S) PROVE FALSE
  OBVIOUS
<1>2. Bad \in SUBSET Nat /\ Bad # {}
  <2>1. Cardinality(S) \in Nat
    BY FS_CardinalityType
  <2>2. Cardinality(S) \in Bad
    BY <1>1, <2>1
  <2>3. QED
    BY <2>2
<1>3. PICK n \in Bad : \A k \in Bad : n <= k
  <2> HIDE DEF Bad
  <2>1. QED
    BY <1>2, LeastNumber
<1>4. PICK T \in SUBSET (Nat \X Nat) : Fails(T) /\ Cardinality(T) = n
  BY <1>3
<1>5. T # {}
  <2>1. SUFFICES ASSUME T = {} PROVE FALSE
    OBVIOUS
  <2>2. Cardinality(T) = 0
    BY <2>1, FS_EmptySet
  <2>3. PICK s : s = [i \in 1 .. 0 |-> i]
    OBVIOUS
  <2>4. s \in [1 .. 0 -> {}] /\ DOMAIN s = {}
    BY <2>3
  <2>5. s \in SetToSeqs(T)
    BY <2>1, <2>2, <2>4 DEF SetToSeqs
  <2>6. Sorted(s)
    BY <2>4 DEF Sorted
  <2>7. QED
    BY <1>4, <2>5, <2>6
<1>6. PICK p \in T : \A q \in T : q # p => Before(p, q)
  BY <1>5, LeastPair
<1>7. PICK U : U = T \ {p}
  OBVIOUS
<1>8. /\ U \in SUBSET (Nat \X Nat) /\ IsFiniteSet(U)
      /\ n \in Nat /\ n - 1 \in Nat /\ Cardinality(U) = n - 1
  <2>1. IsFiniteSet(U) /\ Cardinality(U) = Cardinality(T) - 1
    BY <1>4, <1>7, FS_RemoveElement
  <2>2. Cardinality(U) \in Nat /\ n \in Nat
    BY <1>3, <2>1, FS_CardinalityType
  <2>3. QED
    BY <1>4, <1>7, <2>1, <2>2
<1>9. ~Fails(U)
  <2>1. SUFFICES ASSUME Fails(U) PROVE FALSE
    OBVIOUS
  <2>2. n - 1 \in Bad
    BY <1>8, <2>1
  <2>3. QED
    BY <1>3, <1>8, <2>2
<1>10. PICK t \in SetToSeqs(U) : Sorted(t)
  BY <1>8, <1>9
<1>11. /\ t \in [1 .. n - 1 -> U]
       /\ \A i, j \in 1 .. n - 1 : i # j => t[i] # t[j]
       /\ \A i, j \in 1 .. n - 1 : i < j => Before(t[i], t[j])
  <2>1. t \in [1 .. n - 1 -> U] /\ \A i, j \in 1 .. n - 1 : i # j => t[i] # t[j]
    BY <1>8, <1>10 DEF SetToSeqs
  <2>2. QED
    BY <1>10, <2>1 DEF Sorted
<1>12. PICK s : s = [i \in 1 .. n |-> IF i = 1 THEN p ELSE t[i - 1]]
  OBVIOUS
<1>13. /\ DOMAIN s = 1 .. n
       /\ \A i \in 1 .. n : i = 1 => s[i] = p
       /\ \A i \in 1 .. n : i # 1 => i - 1 \in 1 .. n - 1 /\ s[i] = t[i - 1]
                                        /\ s[i] \in T /\ s[i] # p
  <2>1. \A i \in 1 .. n : i # 1 => i - 1 \in 1 .. n - 1
    BY <1>8
  <2>2. \A k \in 1 .. n - 1 : t[k] \in T /\ t[k] # p
    BY <1>7, <1>11
  <2>3. QED
    BY <1>12, <2>1, <2>2
<1>14. s \in SetToSeqs(T)
  <2>1. s \in [1 .. n -> T]
    <3>1. \A i \in 1 .. n : s[i] \in T
      BY <1>13
    <3>2. s = [i \in 1 .. n |-> s[i]]
      BY <1>12
    <3>3. QED
      BY <3>1, <3>2
  <2>2. ASSUME NEW i \in 1 .. n, NEW j \in 1 .. n, i # j
        PROVE  s[i] # s[j]
    <3>1. CASE i = 1 \/ j = 1
      BY <1>13, <2>2, <3>1
    <3>2. CASE i # 1 /\ j # 1
      <4>1. PICK k \in 1 .. n - 1, l \in 1 .. n - 1 : k = i - 1 /\ l = j - 1
        BY <1>13, <3>2
      <4>2. k # l /\ s[i] = t[k] /\ s[j] = t[l]
        BY <1>13, <2>2, <3>2, <4>1
      <4>3. QED
        BY <1>11, <4>2
    <3>3. QED
      BY <3>1, <3>2
  <2>3. QED
    BY <1>4, <2>1, <2>2 DEF SetToSeqs
<1>15. Sorted(s)
  <2>1. SUFFICES ASSUME NEW i \in 1 .. n, NEW j \in 1 .. n, i < j
                 PROVE  Before(s[i], s[j])
    BY <1>13 DEF Sorted
  <2>2. j # 1
    BY <2>1
  <2>3. CASE i = 1
    BY <1>6, <1>13, <2>2, <2>3
  <2>4. CASE i # 1
    <3>1. PICK k \in 1 .. n - 1, l \in 1 .. n - 1 : k = i - 1 /\ l = j - 1
      BY <1>13, <2>2, <2>4
    <3>2. k < l /\ s[i] = t[k] /\ s[j] = t[l]
      BY <1>13, <2>1, <2>2, <2>4, <3>1
    <3>3. QED
      BY <1>11, <3>2
  <2>5. QED
    BY <2>3, <2>4
<1>16. QED
  BY <1>4, <1>14, <1>15

\* create-pools goes through all pairs, in order and each once.
THEOREM InOrderIsComplete ==
    ASSUME NEW S \in SUBSET (Nat \X Nat), IsFiniteSet(S)
    PROVE  /\ InOrder(S) \in [1 .. Cardinality(S) -> S]
           /\ \A i, j \in 1 .. Cardinality(S) :
                 i < j => Before(InOrder(S)[i], InOrder(S)[j])
           /\ \A p \in S : \E i \in 1 .. Cardinality(S) : InOrder(S)[i] = p
<1>1. PICK s : s = InOrder(S)
  OBVIOUS
<1>2. s \in SetToSeqs(S) /\ Sorted(s)
  BY <1>1, OrderExists DEF InOrder, Sorted
<1>3. PICK n \in Nat : n = Cardinality(S)
  BY FS_CardinalityType
<1>4. s \in [1 .. n -> S] /\ \A i, j \in 1 .. n : i # j => s[i] # s[j]
  BY <1>2, <1>3 DEF SetToSeqs
<1>5. s \in Injection(1 .. n, S)
  BY <1>4 DEF Injection, IsInjective
<1>6. Cardinality(1 .. n) = n
  BY FS_Interval
<1>7. s \in Surjection(1 .. n, S)
  BY <1>3, <1>5, <1>6, FS_Injection
<1>8. \A p \in S : \E i \in 1 .. n : s[i] = p
  BY <1>7 DEF Surjection
<1>9. \A i, j \in 1 .. n : i < j => Before(s[i], s[j])
  BY <1>2, <1>4 DEF Sorted
<1>10. QED
  BY <1>1, <1>3, <1>4, <1>8, <1>9

-----------------------------------------------------------------------------
(***************************************************************************)
(* The inductive invariant                                                 *)
(*                                                                         *)
(* A job decides on what it reads and acts on it later, when others may    *)
(* have acted too.  What saves it is that accounts are made once and never *)
(* written again: all that a decision was taken on is still so when the    *)
(* transaction lands (Fits), and all that was answered stays so            *)
(* (Answered).  A transaction nobody waits for any more is only known to   *)
(* be made of the right kind (Made).                                       *)
(***************************************************************************)
Settings == [spacing : Nat, trade : Nat, protocol : Nat, fund : Nat]
Job ==
    [kind : {"token"}, mint : Mints, apply : BOOLEAN]
      \cup [kind : {"config"}, settings : Settings]
      \cup [kind : {"pool"}, pair : Mints \X Mints, price : Price]

\* Accounts c of a cluster, and what may become of them.
ChainOK(c) ==
    /\ c = [a \in Addresses |-> c[a]]
    /\ \A m \in Mints : c[Mint(m)] # Absent =>
          c[Mint(m)].program \in TokenPrograms /\ c[Mint(m)].decimals \in Nat
Grown(c, d) == \A a \in Addresses : c[a] # Absent => d[a] = c[a]

Made(to, content) ==
    /\ to \in Addresses /\ content # Absent
    /\ \A m \in Mints : to = Mint(m) =>
          content.program \in TokenPrograms /\ content.decimals \in Nat

\* Quotes, among the accounts c.
QuotesIn(c, pool, job) ==
    LET dA == c[Mint(job.pair[1])].decimals
        dB == c[Mint(job.pair[2])].decimals
        raw == IF job.pair[1] < job.pair[2] THEN pool.price
               ELSE <<pool.price[2], pool.price[1]>>
    IN  raw[1] * 10 ^ dA * job.price[2] = raw[2] * 10 ^ dB * job.price[1]

\* What the account of a job must be for its answer to hold.
Fits(c, op, job, account) ==
    /\ account # Absent
    /\ job.kind = "token" => account.decimals = MainnetDecimals[job.mint]
    /\ job.kind = "config" =>
          /\ account.settings = job.settings
          /\ account.owner = op /\ account.fundOwner = op
    /\ job.kind = "pool" =>
          /\ c[Mint(job.pair[1])] # Absent /\ c[Mint(job.pair[2])] # Absent
          /\ QuotesIn(c, account, job)

Answered(c, op, job, answer) ==
    /\ job.kind = "pool" => answer = "created"
    /\ answer # "dry run" =>
          /\ Target(job) \in Addresses
          /\ Fits(c, op, job, c[Target(job)])
          /\ answer = "created" => c[Target(job)].by = op

\* Every two of the mints given have a job.
Lists(flags, jobs) ==
    \A i, j \in DOMAIN flags : flags[i] < flags[j] =>
        \E k \in 1 .. Len(jobs) :
            jobs[k].kind = "pool" /\ jobs[k].pair = <<flags[i], flags[j]>>

RunTypes(r) ==
    /\ r = [pc |-> r.pc, flags |-> r.flags, jobs |-> r.jobs, at |-> r.at,
            tx |-> r.tx, told |-> r.told]
    /\ r.pc \in Running \cup {"idle", "ok", "failed"}
    /\ r.flags \in Seq(Mints) /\ r.jobs \in Seq(Job)
    /\ r.at \in Nat \ {0} /\ r.told \in Seq(Answers)

\* Where a run stands among its jobs.
Progress(r) ==
    /\ Len(r.told) <= Len(r.jobs)
    /\ r.pc \in Running => r.at <= Len(r.jobs) /\ Len(r.told) = r.at - 1
    /\ r.pc = "ok" => Len(r.told) = Len(r.jobs)
    /\ r.pc \in Running \cup {"ok"} => Lists(r.flags, r.jobs)
    /\ r.pc = "check" => r.jobs[r.at].kind = "pool"
    /\ r.pc \in Running \ {"check"} /\ r.jobs[r.at].kind = "pool" =>
          r.jobs[r.at].pair[1] # r.jobs[r.at].pair[2]

Waiting == {"send", "confirm", "landed", "refused"}

\* The transaction a run decided on.
Pending(c, op, r) ==
    r.pc \in Waiting =>
        /\ r.tx = [to |-> Target(r.jobs[r.at]), content |-> r.tx.content]
        /\ Made(r.tx.to, r.tx.content) /\ r.tx.content.by = op
        /\ Fits(c, op, r.jobs[r.at], r.tx.content)
        /\ r.pc = "landed" => c[r.tx.to] = r.tx.content

RunOK(c, op, r) ==
    /\ RunTypes(r) /\ Progress(r) /\ Pending(c, op, r)
    /\ \A i \in 1 .. Len(r.told) : Answered(c, op, r.jobs[i], r.told[i])

\* A run waits for exactly the transaction it has in flight.
Flying(op, r) ==
    [op |-> op, to |-> r.tx.to, content |-> r.tx.content, awaited |-> TRUE]
FlightOK(f, runs) ==
    /\ \A tx \in f :
          /\ tx.op \in Operators /\ tx.awaited \in BOOLEAN /\ Made(tx.to, tx.content)
          /\ tx.awaited => runs[tx.op].pc = "confirm" /\ tx = Flying(tx.op, runs[tx.op])
    /\ \A op \in Operators : runs[op].pc = "confirm" => Flying(op, runs[op]) \in f

IndInv ==
    /\ ChainOK(chain)
    /\ run = [op \in Operators |-> run[op]]
    /\ \A op \in Operators : RunOK(chain, op, run[op])
    /\ FlightOK(flight, run)
    /\ faults \in 0 .. MaxFaults

-----------------------------------------------------------------------------
(***************************************************************************)
(* Commands, jobs and accounts                                             *)
(***************************************************************************)
LEMMA AddressTypes ==
    /\ Program \in Addresses /\ Config \in Addresses
    /\ \A m \in Mints : Mint(m) \in Addresses /\ Support(m) \in Addresses
    /\ \A m \in Mints : Mint(m) # Config /\ Mint(m) # Program
    /\ \A m, n \in Mints : Mint(m) = Mint(n) => m = n
    /\ \A m, n \in Mints : Mint(m) # Support(n)
    /\ \A a, b \in Mints : a # b => PoolAddress(a, b) \in Addresses
    /\ \A a, b, m \in Mints : PoolAddress(a, b) # Mint(m)
<1>1. /\ Program \in Addresses /\ Config \in Addresses
      /\ \A m \in Mints : Mint(m) \in Addresses /\ Support(m) \in Addresses
  BY DEF Addresses
<1>2. /\ \A m \in Mints : Mint(m)[1] = "mint" /\ Mint(m)[2] = m
      /\ \A m \in Mints : Support(m)[1] = "support"
      /\ Config[1] = "config" /\ Program[1] = "program"
      /\ \A a, b \in Mints : PoolAddress(a, b)[1] = "pool"
  BY DEF Mint, Support, Config, Program, PoolAddress
<1>3. /\ \A m \in Mints : Mint(m) # Config /\ Mint(m) # Program
      /\ \A m, n \in Mints : Mint(m) # Support(n)
      /\ \A a, b, m \in Mints : PoolAddress(a, b) # Mint(m)
  BY <1>2
<1>4. \A m, n \in Mints : Mint(m) = Mint(n) => m = n
  BY <1>2
<1>5. ASSUME NEW a \in Mints, NEW b \in Mints, a # b
      PROVE  PoolAddress(a, b) \in Addresses
  <2>1. a \in Nat /\ b \in Nat
    BY ProvisioningAssumption
  <2>2. CASE a < b
    <3>1. <<a, b>> \in {q \in Mints \X Mints : q[1] < q[2]}
      BY <2>2
    <3>2. PoolAddress(<<a, b>>[1], <<a, b>>[2]) \in Addresses
      BY <3>1 DEF Addresses
    <3>3. QED
      BY <3>2
  <2>3. CASE b < a
    <3>1. <<b, a>> \in {q \in Mints \X Mints : q[1] < q[2]}
      BY <2>3
    <3>2. PoolAddress(<<b, a>>[1], <<b, a>>[2]) \in Addresses
      BY <3>1 DEF Addresses
    <3>3. PoolAddress(a, b) = PoolAddress(b, a)
      BY <2>1, <2>3 DEF PoolAddress
    <3>4. QED
      BY <3>2, <3>3
  <2>4. QED
    BY <1>5, <2>1, <2>2, <2>3
<1>6. QED
  BY <1>1, <1>3, <1>4, <1>5, Zenon

\* A command line gives well-formed jobs, and create-pools one for every two
\* of the mints given.
LEMMA JobsTypes ==
    ASSUME NEW cmd \in Command
    PROVE  /\ Jobs(cmd) \in Seq(Job)
           /\ cmd.kind = "pools" =>
                 cmd.mints \in Seq(Mints) /\ Lists(cmd.mints, Jobs(cmd))
<1>1. CASE cmd \in [kind : {"tokens"}, mints : Seq(Mints), apply : BOOLEAN]
  <2>1. cmd.kind = "tokens" /\ cmd.mints \in Seq(Mints) /\ cmd.apply \in BOOLEAN
    BY <1>1
  <2>2. PICK jobs : jobs = [i \in DOMAIN cmd.mints |->
              [kind |-> "token", mint |-> cmd.mints[i], apply |-> cmd.apply]]
    OBVIOUS
  <2>3. Jobs(cmd) = jobs
    BY <2>1, <2>2 DEF Jobs
  <2>4. PICK n \in Nat : DOMAIN cmd.mints = 1 .. n
    BY <2>1
  <2>5. ASSUME NEW i \in 1 .. n
        PROVE  jobs[i] \in Job
    <3>1. jobs[i] = [kind |-> "token", mint |-> cmd.mints[i], apply |-> cmd.apply]
      BY <2>2, <2>4
    <3>2. cmd.mints[i] \in Mints
      BY <2>1, <2>4
    <3>3. [kind |-> "token", mint |-> cmd.mints[i], apply |-> cmd.apply]
              \in [kind : {"token"}, mint : Mints, apply : BOOLEAN]
      BY <2>1, <3>2, Zenon
    <3>4. QED
      BY <3>1, <3>3 DEF Job
  <2>6. jobs \in Seq(Job)
    <3>1. jobs = [i \in 1 .. n |-> jobs[i]]
      BY <2>2, <2>4
    <3>2. QED
      BY <2>5, <3>1
  <2>7. QED
    BY <2>1, <2>3, <2>6
<1>2. CASE cmd \in [kind : {"admin"}, settings : Settings]
  <2>1. cmd.kind = "admin" /\ cmd.settings \in Settings
    BY <1>2
  <2>2. Jobs(cmd) = <<[kind |-> "config", settings |-> cmd.settings]>>
    BY <2>1 DEF Jobs
  <2>3. [kind |-> "config", settings |-> cmd.settings] \in Job
    BY <2>1 DEF Job
  <2>4. QED
    BY <2>1, <2>2, <2>3
<1>3. CASE cmd \in [kind : {"pools"}, mints : Seq(Mints), price : Price]
  <2>1. cmd.kind = "pools" /\ cmd.mints \in Seq(Mints) /\ cmd.price \in Price
    BY <1>3
  <2>2. PICK mints : mints = ToSet(cmd.mints)
    OBVIOUS
  <2>3. mints \subseteq Mints /\ IsFiniteSet(mints)
        /\ \A i \in DOMAIN cmd.mints : cmd.mints[i] \in mints
    <3>1. PICK n \in Nat : DOMAIN cmd.mints = 1 .. n
      BY <2>1
    <3>2. cmd.mints \in Surjection(1 .. n, mints)
      BY <2>1, <2>2, <3>1 DEF Surjection, ToSet
    <3>3. IsFiniteSet(mints)
      BY <3>2, FS_Surjection, FS_Interval
    <3>4. QED
      BY <2>1, <2>2, <3>3 DEF ToSet
  <2>4. PICK S : S = UnorderedPairs(UniqueMints(cmd.mints))
    OBVIOUS
  <2>5. S \in SUBSET (mints \X mints)
    BY <2>2, <2>4 DEF UnorderedPairs, UniqueMints
  <2>6. S \in SUBSET (Nat \X Nat) /\ S \in SUBSET (Mints \X Mints)
    BY <2>3, <2>5, ProvisioningAssumption
  <2>7. IsFiniteSet(S)
    <3>1. IsFiniteSet(mints \X mints)
      BY <2>3, FS_Product
    <3>2. QED
      BY <2>5, <3>1, FS_Subset
  <2>8. PICK n, pairs : n \in Nat /\ n = Cardinality(S) /\ pairs = InOrder(S)
    BY <2>7, FS_CardinalityType
  <2>9. /\ pairs \in [1 .. n -> S]
        /\ \A p \in S : \E i \in 1 .. n : pairs[i] = p
    BY <2>6, <2>7, <2>8, InOrderIsComplete
  <2>10. PICK jobs : jobs = [i \in DOMAIN pairs |->
              [kind |-> "pool", pair |-> pairs[i], price |-> cmd.price]]
    OBVIOUS
  <2>11. Jobs(cmd) = jobs
    BY <2>1, <2>4, <2>8, <2>10 DEF Jobs
  <2>12. ASSUME NEW i \in 1 .. n
         PROVE  /\ jobs[i] \in Job
                /\ jobs[i].kind = "pool" /\ jobs[i].pair = pairs[i]
    <3>1. jobs[i] = [kind |-> "pool", pair |-> pairs[i], price |-> cmd.price]
      BY <2>9, <2>10
    <3>2. pairs[i] \in Mints \X Mints
      BY <2>6, <2>9
    <3>3. [kind |-> "pool", pair |-> pairs[i], price |-> cmd.price]
              \in [kind : {"pool"}, pair : Mints \X Mints, price : Price]
      BY <2>1, <3>2, Zenon
    <3>4. QED
      BY <3>1, <3>3 DEF Job
  <2>13. jobs \in Seq(Job) /\ Len(jobs) = n
    <3>1. jobs = [i \in 1 .. n |-> jobs[i]]
      BY <2>9, <2>10
    <3>2. QED
      BY <2>8, <2>12, <3>1
  <2>14. ASSUME NEW i \in DOMAIN cmd.mints, NEW j \in DOMAIN cmd.mints,
                cmd.mints[i] < cmd.mints[j]
         PROVE  \E k \in 1 .. Len(jobs) :
                    jobs[k].kind = "pool" /\ jobs[k].pair = <<cmd.mints[i], cmd.mints[j]>>
    <3>1. PICK a \in mints, b \in mints : a = cmd.mints[i] /\ b = cmd.mints[j]
      BY <2>3
    <3>2. a < b /\ a \in Nat /\ b \in Nat
      BY <2>3, <2>14, <3>1, ProvisioningAssumption
    <3>3. ~(Cardinality(mints) < 2)
      <4>1. IsFiniteSet({a}) /\ Cardinality({a}) = 1
        BY FS_Singleton
      <4>2. b \notin {a}
        BY <3>2
      <4>3. Cardinality({a} \cup {b}) = 2
        <5>1. Cardinality({a} \cup {b}) = IF b \in {a} THEN Cardinality({a})
                                         ELSE Cardinality({a}) + 1
          BY <4>1, FS_AddElement, Zenon
        <5>2. QED
          BY <4>1, <4>2, <5>1
      <4>4. {a} \cup {b} \in SUBSET mints
        BY <3>1
      <4>5. 2 <= Cardinality(mints) /\ Cardinality(mints) \in Nat
        BY <2>3, <4>3, <4>4, FS_Subset, FS_CardinalityType
      <4>6. QED
        BY <4>5
    <3>4. UniqueMints(cmd.mints) = mints
      BY <2>2, <3>3 DEF UniqueMints
    <3>5. <<a, b>> \in S
      BY <2>4, <3>2, <3>4 DEF UnorderedPairs
    <3>6. PICK k \in 1 .. n : pairs[k] = <<a, b>>
      BY <2>9, <3>5
    <3>7. QED
      BY <2>12, <2>13, <3>1, <3>6
  <2>15. QED
    BY <2>1, <2>11, <2>13, <2>14 DEF Lists
<1>4. CASE cmd \in [kind : {"flow"}, pair : Mints \X Mints, price : Price]
  <2>1. cmd.kind = "flow" /\ cmd.pair \in Mints \X Mints /\ cmd.price \in Price
    BY <1>4
  <2>2. Jobs(cmd) = <<[kind |-> "pool", pair |-> cmd.pair, price |-> cmd.price]>>
    BY <2>1 DEF Jobs
  <2>3. [kind |-> "pool", pair |-> cmd.pair, price |-> cmd.price] \in Job
    <3>1. [kind |-> "pool", pair |-> cmd.pair, price |-> cmd.price]
              \in [kind : {"pool"}, pair : Mints \X Mints, price : Price]
      BY <2>1, Zenon
    <3>2. QED
      BY <3>1 DEF Job
  <2>4. QED
    BY <2>1, <2>2, <2>3
<1>5. QED
  BY <1>1, <1>2, <1>3, <1>4 DEF Command, Settings

\* What a job gives, by its kind.
LEMMA JobTypes ==
    ASSUME NEW job \in Job
    PROVE  \/ job.kind = "token" /\ job.mint \in Mints /\ job.apply \in BOOLEAN
           \/ job.kind = "config" /\ job.settings \in Settings
           \/ /\ job.kind = "pool"
              /\ job.pair[1] \in Mints /\ job.pair[2] \in Mints
              /\ job.pair = <<job.pair[1], job.pair[2]>>
              /\ job.price[1] \in Nat /\ job.price[2] \in Nat
  BY DEF Job, Price

\* Accounts that are there stay as they are, and so does what rests on them.
LEMMA FitsStays ==
    ASSUME NEW c, NEW d, Grown(c, d), NEW op, NEW job \in Job, NEW account,
           Fits(c, op, job, account)
    PROVE  Fits(d, op, job, account)
<1>1. CASE job.kind # "pool"
  BY <1>1 DEF Fits
<1>2. CASE job.kind = "pool"
  <2>1. Mint(job.pair[1]) \in Addresses /\ Mint(job.pair[2]) \in Addresses
    BY <1>2, JobTypes, AddressTypes
  <2>2. c[Mint(job.pair[1])] # Absent /\ c[Mint(job.pair[2])] # Absent
    BY <1>2 DEF Fits
  <2>3. /\ d[Mint(job.pair[1])] = c[Mint(job.pair[1])]
        /\ d[Mint(job.pair[2])] = c[Mint(job.pair[2])]
    BY <2>1, <2>2 DEF Grown
  <2>4. QED
    BY <1>2, <2>2, <2>3 DEF Fits, QuotesIn
<1>3. QED
  BY <1>1, <1>2

LEMMA AnsweredStays ==
    ASSUME NEW c, NEW d, Grown(c, d), NEW op, NEW job \in Job, NEW answer,
           Answered(c, op, job, answer)
    PROVE  Answered(d, op, job, answer)
<1>1. CASE answer = "dry run"
  BY <1>1 DEF Answered
<1>2. CASE answer # "dry run"
  <2>1. PICK to \in Addresses : to = Target(job)
    BY <1>2 DEF Answered
  <2>2. Fits(c, op, job, c[to])
    BY <1>2, <2>1 DEF Answered
  <2>3. d[to] = c[to]
    BY <2>2 DEF Fits, Grown
  <2>4. Fits(d, op, job, d[to])
    BY <2>2, <2>3, FitsStays
  <2>5. QED
    BY <1>2, <2>1, <2>3, <2>4 DEF Answered
<1>3. QED
  BY <1>1, <1>2

LEMMA RunStays ==
    ASSUME NEW c, NEW d, Grown(c, d), NEW op, NEW r, RunOK(c, op, r)
    PROVE  RunOK(d, op, r)
<1>1. r.jobs \in Seq(Job) /\ Len(r.told) \in Nat /\ Len(r.jobs) \in Nat
      /\ r.at \in Nat \ {0}
  BY DEF RunOK, RunTypes
<1>2. ASSUME NEW i \in 1 .. Len(r.told)
      PROVE  Answered(d, op, r.jobs[i], r.told[i])
  <2>1. i \in 1 .. Len(r.jobs)
    BY <1>1 DEF RunOK, Progress
  <2>2. r.jobs[i] \in Job
    BY <1>1, <2>1
  <2>3. Answered(c, op, r.jobs[i], r.told[i])
    BY DEF RunOK
  <2>4. QED
    BY <2>2, <2>3, AnsweredStays
<1>3. Pending(d, op, r)
  <2>1. SUFFICES ASSUME r.pc \in Waiting PROVE Pending(d, op, r)
    BY DEF Pending
  <2>2. /\ r.tx = [to |-> Target(r.jobs[r.at]), content |-> r.tx.content]
        /\ Made(r.tx.to, r.tx.content) /\ r.tx.content.by = op
        /\ Fits(c, op, r.jobs[r.at], r.tx.content)
        /\ r.pc = "landed" => c[r.tx.to] = r.tx.content
    BY <2>1 DEF RunOK, Pending
  <2>3. r.jobs[r.at] \in Job
    <3>1. r.at \in 1 .. Len(r.jobs)
      BY <1>1, <2>1 DEF RunOK, Progress, Waiting, Running
    <3>2. QED
      BY <1>1, <3>1
  <2>4. Fits(d, op, r.jobs[r.at], r.tx.content)
    BY <2>2, <2>3, FitsStays
  <2>5. r.pc = "landed" => d[r.tx.to] = r.tx.content
    BY <2>2 DEF Made, Grown
  <2>6. QED
    BY <2>2, <2>4, <2>5 DEF Pending
<1>4. QED
  BY <1>2, <1>3 DEF RunOK

-----------------------------------------------------------------------------
(***************************************************************************)
(* The steps of a run                                                      *)
(***************************************************************************)
\* A pool opens at the price asked for, in either order of the two mints.
LEMMA PoolQuotes ==
    ASSUME NEW a \in Nat, NEW b \in Nat, a # b,
           NEW job, job.pair = <<a, b>>, NEW num \in Nat, NEW den \in Nat,
           job.price = <<num, den>>,
           NEW dA \in Nat, NEW dB \in Nat,
           chain[Mint(a)].decimals = dA, chain[Mint(b)].decimals = dB, NEW op
    PROVE  QuotesIn(chain, NewPool(op, job), job)
<1>1. PICK x \in Int, y \in Int : x = 10 ^ dA /\ y = 10 ^ dB
  OBVIOUS
<1>2. num * y * x * den = den * x * y * num
  BY <1>1
<1>3. CASE a < b
  <2>1. NewPool(op, job).price = <<num * y, den * x>>
    BY <1>1, <1>3 DEF NewPool, RawPrice, Normalized, Mint0, Mint1
  <2>2. QED
    BY <1>1, <1>2, <1>3, <2>1 DEF QuotesIn
<1>4. CASE ~(a < b)
  <2>1. NewPool(op, job).price = <<den * x, num * y>>
    BY <1>1, <1>4 DEF NewPool, RawPrice, Normalized, Mint0, Mint1
  <2>2. QED
    BY <1>1, <1>2, <1>4, <2>1 DEF QuotesIn
<1>5. QED
  BY <1>3, <1>4

\* A job that goes on from its reads has all its answer needs.
LEMMA ReadDecides ==
    ASSUME ChainOK(chain), NEW op, NEW job \in Job, ~ReadFails(op, job),
           job.kind = "pool" => job.pair[1] # job.pair[2]
    PROVE  /\ NothingToSend(job) =>
                 Answered(chain, op, job, IF job.kind = "token" THEN "dry run" ELSE "same")
           /\ ~NothingToSend(job) =>
                 /\ Made(Target(job), Content(op, job))
                 /\ Content(op, job).by = op
                 /\ Fits(chain, op, job, Content(op, job))
<1>1. CASE job.kind = "token"
  <2>1. job.mint \in Mints /\ job.mint \in DOMAIN MainnetDecimals
        /\ MainnetDecimals[job.mint] \in Nat
    BY <1>1, JobTypes, ProvisioningAssumption DEF ReadFails
  <2>2. Answered(chain, op, job, "dry run")
    BY <1>1 DEF Answered
  <2>3. Content(op, job) = [kind |-> "mint", by |-> op, program |-> "token",
                            decimals |-> MainnetDecimals[job.mint]]
    BY <1>1 DEF Content, NewMint
  <2>4. Content(op, job).kind # Absent.kind
    BY <2>3 DEF Absent
  <2>5. Made(Target(job), Content(op, job))
    BY <1>1, <2>1, <2>3, <2>4, AddressTypes DEF Made, Target, TokenPrograms
  <2>6. Fits(chain, op, job, Content(op, job))
    BY <1>1, <2>3, <2>4 DEF Fits
  <2>7. Content(op, job).by = op
    BY <2>3
  <2>8. QED
    BY <1>1, <2>2, <2>5, <2>6, <2>7, Zenon
<1>2. CASE job.kind = "config"
  <2>1. ASSUME Exists(Config)
        PROVE  Answered(chain, op, job, "same")
    <3>1. chain[Config] # Absent /\ SameConfig(op, job.settings)
      BY <1>2, <2>1 DEF ReadFails, Exists
    <3>2. Target(job) = Config /\ Config \in Addresses
      BY <1>2, AddressTypes DEF Target
    <3>3. QED
      BY <1>2, <3>1, <3>2 DEF Answered, Fits, SameConfig
  <2>2. Content(op, job) = [kind |-> "config", by |-> op, settings |-> job.settings,
                            owner |-> op, fundOwner |-> op]
    BY <1>2 DEF Content, NewConfig
  <2>3. Content(op, job).kind # Absent.kind
    BY <2>2 DEF Absent
  <2>4. Made(Target(job), Content(op, job))
    BY <1>2, <2>2, <2>3, AddressTypes DEF Made, Target
  <2>5. Fits(chain, op, job, Content(op, job))
    BY <1>2, <2>2, <2>3 DEF Fits
  <2>6. NothingToSend(job) => Exists(Config)
    BY <1>2 DEF NothingToSend
  <2>7. QED
    BY <1>2, <2>1, <2>2, <2>4, <2>5, <2>6
<1>3. CASE job.kind = "pool"
  <2>1. PICK a \in Mints, b \in Mints, num \in Nat, den \in Nat :
            /\ a = job.pair[1] /\ b = job.pair[2] /\ job.pair = <<a, b>>
            /\ num = job.price[1] /\ den = job.price[2] /\ job.price = <<num, den>>
    <3>1. /\ job.pair[1] \in Mints /\ job.pair[2] \in Mints
          /\ job.pair = <<job.pair[1], job.pair[2]>>
          /\ job.price[1] \in Nat /\ job.price[2] \in Nat
          /\ job.price = <<job.price[1], job.price[2]>>
      BY <1>3 DEF Job, Price
    <3>2. QED
      BY <3>1
  <2>2. a # b /\ a \in Nat /\ b \in Nat
    BY <1>3, <2>1, ProvisioningAssumption
  <2>3. chain[Mint(a)] # Absent /\ chain[Mint(b)] # Absent
    <3>1. \A i \in 1 .. 2 : Exists(Mint(job.pair[i]))
      BY <1>3 DEF ReadFails
    <3>2. Exists(Mint(job.pair[1])) /\ Exists(Mint(job.pair[2]))
      BY <3>1
    <3>3. QED
      BY <2>1, <3>2 DEF Exists
  <2>4. chain[Mint(a)].decimals \in Nat /\ chain[Mint(b)].decimals \in Nat
    BY <2>3 DEF ChainOK
  <2>5. QuotesIn(chain, NewPool(op, job), job)
    BY <2>1, <2>2, <2>4, PoolQuotes
  <2>6. Content(op, job) = NewPool(op, job)
    BY <1>3 DEF Content
  <2>7. NewPool(op, job).by = op /\ NewPool(op, job).kind # Absent.kind
    BY DEF NewPool, Absent
  <2>8. Target(job) = PoolAddress(a, b)
    BY <1>3, <2>1 DEF Target
  <2>9. Made(Target(job), Content(op, job))
    BY <2>2, <2>6, <2>7, <2>8, AddressTypes DEF Made
  <2>10. Fits(chain, op, job, Content(op, job))
    BY <1>3, <2>1, <2>3, <2>5, <2>6, <2>7 DEF Fits
  <2>11. ~NothingToSend(job)
    BY <1>3 DEF NothingToSend
  <2>12. QED
    BY <2>6, <2>7, <2>9, <2>10, <2>11
<1>4. QED
  BY <1>1, <1>2, <1>3, JobTypes

\* A run that was stopped, or never started, knows nothing.
LEMMA FreshOK ==
    ASSUME NEW c, NEW op, NEW pc \in {"idle", "failed"},
           NEW r, r = [Idle EXCEPT !.pc = pc]
    PROVE  RunOK(c, op, r) /\ r.pc = pc
<1>1. r = [pc |-> pc, flags |-> <<>>, jobs |-> <<>>, at |-> 1, tx |-> NoTx,
           told |-> <<>>]
  BY DEF Idle
<1>2. RunTypes(r)
  <2>1. <<>> \in Seq(Mints) /\ <<>> \in Seq(Job) /\ <<>> \in Seq(Answers)
    OBVIOUS
  <2>2. /\ r.pc = pc /\ r.flags = <<>> /\ r.jobs = <<>> /\ r.at = 1 /\ r.tx = NoTx
        /\ r.told = <<>>
    BY <1>1
  <2>3. r = [pc |-> r.pc, flags |-> r.flags, jobs |-> r.jobs, at |-> r.at,
             tx |-> r.tx, told |-> r.told]
    BY <1>1, <2>2, Zenon
  <2>4. r.at \in Nat \ {0}
    BY <2>2
  <2>5. QED
    BY <2>1, <2>2, <2>3, <2>4 DEF RunTypes, Running
<1>3. Len(r.told) = 0 /\ Len(r.jobs) = 0
  BY <1>1
<1>4. Progress(r) /\ Pending(c, op, r)
  BY <1>1, <1>3 DEF Progress, Pending, Running, Waiting
<1>5. QED
  BY <1>1, <1>2, <1>3, <1>4 DEF RunOK

LEMMA FinishOK ==
    ASSUME NEW c, NEW op, NEW r, RunOK(c, op, r), r.pc \in Running,
           NEW answer \in Answers, Answered(c, op, r.jobs[r.at], answer),
           NEW q, q = [r EXCEPT !.told = Append(r.told, answer), !.tx = NoTx,
                                !.at = IF r.at < Len(r.jobs) THEN r.at + 1 ELSE r.at,
                                !.pc = IF r.at < Len(r.jobs)
                                         THEN FirstPc(r.jobs[r.at + 1]) ELSE "ok"]
    PROVE  RunOK(c, op, q) /\ q.pc \in {"check", "read", "ok"}
<1>1. /\ r.flags \in Seq(Mints) /\ r.jobs \in Seq(Job)
      /\ r.at \in Nat \ {0} /\ r.told \in Seq(Answers)
      /\ r = [pc |-> r.pc, flags |-> r.flags, jobs |-> r.jobs, at |-> r.at,
              tx |-> r.tx, told |-> r.told]
      /\ r.at <= Len(r.jobs) /\ Len(r.told) = r.at - 1
      /\ Len(r.jobs) \in Nat /\ Lists(r.flags, r.jobs)
      /\ \A i \in 1 .. Len(r.told) : Answered(c, op, r.jobs[i], r.told[i])
  BY DEF RunOK, RunTypes, Progress
<1>2. PICK told, at, pc :
          /\ told = Append(r.told, answer)
          /\ at = (IF r.at < Len(r.jobs) THEN r.at + 1 ELSE r.at)
          /\ pc = (IF r.at < Len(r.jobs) THEN FirstPc(r.jobs[r.at + 1]) ELSE "ok")
  OBVIOUS
<1>3. PICK s : /\ s = [pc |-> pc, flags |-> r.flags, jobs |-> r.jobs, at |-> at,
                      tx |-> NoTx, told |-> told]
               /\ s = q
  <2>1. q = [pc |-> pc, flags |-> r.flags, jobs |-> r.jobs, at |-> at, tx |-> NoTx,
             told |-> told]
    BY <1>1, <1>2
  <2>2. QED
    BY <2>1, Zenon
<1>4. /\ told \in Seq(Answers) /\ Len(told) = r.at
      /\ \A i \in 1 .. Len(r.told) : told[i] = r.told[i]
      /\ told[r.at] = answer
  BY <1>1, <1>2
<1>5. /\ at \in Nat \ {0} /\ at <= Len(r.jobs)
      /\ r.at < Len(r.jobs) => at = r.at + 1 /\ at - 1 = r.at
      /\ ~(r.at < Len(r.jobs)) => r.at = Len(r.jobs)
  BY <1>1, <1>2
<1>6. /\ pc \in {"check", "read", "ok"} /\ (pc = "ok" <=> ~(r.at < Len(r.jobs)))
      /\ pc = "check" => r.jobs[at].kind = "pool"
      /\ pc = "read" => r.jobs[at].kind # "pool"
  BY <1>2, <1>5 DEF FirstPc
<1>7. RunTypes(s)
  BY <1>1, <1>3, <1>4, <1>5, <1>6 DEF RunTypes, Running
<1>8. Progress(s)
  BY <1>1, <1>3, <1>4, <1>5, <1>6 DEF Progress, Running
<1>9. Pending(c, op, s)
  BY <1>3, <1>6 DEF Pending, Waiting
<1>10. ASSUME NEW i \in 1 .. Len(s.told)
       PROVE  Answered(c, op, s.jobs[i], s.told[i])
  <2>1. s.told = told /\ s.jobs = r.jobs
    BY <1>3
  <2>2. CASE i = r.at
    BY <1>4, <2>1, <2>2
  <2>3. CASE i # r.at
    <3>1. i \in 1 .. Len(r.told)
      BY <1>1, <1>4, <2>1, <2>3
    <3>2. told[i] = r.told[i] /\ Answered(c, op, r.jobs[i], r.told[i])
      BY <1>1, <1>4, <3>1
    <3>3. QED
      BY <2>1, <3>2
  <2>4. QED
    BY <2>2, <2>3
<1>11. RunOK(c, op, s) /\ s.pc \in {"check", "read", "ok"}
  BY <1>3, <1>6, <1>7, <1>8, <1>9, <1>10 DEF RunOK
<1>12. QED
  BY <1>3, <1>11, Zenon

\* A run goes on without touching what is in flight.
LEMMA QuietStep ==
    ASSUME IndInv, NEW op \in Operators, NEW q, run' = [run EXCEPT ![op] = q],
           RunOK(chain, op, q), run[op].pc # "confirm", q.pc # "confirm",
           UNCHANGED <<chain, flight, faults>>
    PROVE  IndInv'
<1>1. /\ run = [o \in Operators |-> run[o]]
      /\ run' = [o \in Operators |-> IF o = op THEN q ELSE run[o]]
  BY DEF IndInv
<1>2. run' = [o \in Operators |-> run'[o]]
  BY <1>1
<1>3. ASSUME NEW o \in Operators
      PROVE  RunOK(chain, o, run'[o])
  BY <1>1 DEF IndInv
<1>4. FlightOK(flight, run')
  <2>1. FlightOK(flight, run)
    BY DEF IndInv
  <2>2. ASSUME NEW tx \in flight, tx.awaited
        PROVE  run'[tx.op] = run[tx.op]
    <3>1. run[tx.op].pc = "confirm" /\ tx.op \in Operators
      BY <2>1, <2>2 DEF FlightOK
    <3>2. QED
      BY <1>1, <3>1
  <2>3. ASSUME NEW o \in Operators, run'[o].pc = "confirm"
        PROVE  run'[o] = run[o]
    BY <1>1, <2>3
  <2>4. QED
    BY <2>1, <2>2, <2>3 DEF FlightOK
<1>5. QED
  BY <1>2, <1>3, <1>4 DEF IndInv

\* Accounts are added; transactions and runs stay.
LEMMA ChainStep ==
    ASSUME IndInv, NEW a \in Addresses, NEW content, chain[a] = Absent,
           Made(a, content), chain' = [chain EXCEPT ![a] = content]
    PROVE  ChainOK(chain)' /\ Grown(chain, chain')
<1>1. /\ chain = [b \in Addresses |-> chain[b]]
      /\ chain' = [b \in Addresses |-> IF b = a THEN content ELSE chain[b]]
  BY DEF IndInv, ChainOK
<1>2. PICK d : d = chain'
  OBVIOUS
<1>3. d = [b \in Addresses |-> d[b]]
  BY <1>1, <1>2
<1>4. ASSUME NEW m \in Mints, d[Mint(m)] # Absent
      PROVE  d[Mint(m)].program \in TokenPrograms /\ d[Mint(m)].decimals \in Nat
  <2>1. Mint(m) \in Addresses
    BY AddressTypes
  <2>2. CASE a = Mint(m)
    <3>1. d[Mint(m)] = content
      BY <1>1, <1>2, <2>1, <2>2
    <3>2. QED
      BY <2>2, <3>1 DEF Made
  <2>3. CASE a # Mint(m)
    <3>1. d[Mint(m)] = chain[Mint(m)]
      BY <1>1, <1>2, <2>1, <2>3
    <3>2. QED
      BY <1>4, <3>1 DEF IndInv, ChainOK
  <2>4. QED
    BY <2>2, <2>3
<1>5. ChainOK(d)
  BY <1>3, <1>4 DEF ChainOK
<1>6. Grown(chain, d)
  BY <1>1, <1>2 DEF Grown
<1>7. QED
  BY <1>2, <1>5, <1>6 DEF ChainOK

-----------------------------------------------------------------------------
(***************************************************************************)
(* Every step keeps the invariant                                          *)
(***************************************************************************)
LEMMA InitInv == Init => IndInv
<1> SUFFICES ASSUME Init PROVE IndInv
  OBVIOUS
<1>1. /\ chain = [a \in Addresses |->
             IF a[1] = "mint" /\ a[2] \in DOMAIN Existing THEN Existing[a[2]] ELSE Absent]
      /\ flight = {} /\ run = [op \in Operators |-> Idle] /\ faults = 0
  BY DEF Init
<1>2. ASSUME NEW m \in Mints, chain[Mint(m)] # Absent
      PROVE  chain[Mint(m)].program \in TokenPrograms /\ chain[Mint(m)].decimals \in Nat
  <2>1. Mint(m) \in Addresses /\ Mint(m)[1] = "mint" /\ Mint(m)[2] = m
    BY AddressTypes DEF Mint
  <2>2. chain[Mint(m)] = IF m \in DOMAIN Existing THEN Existing[m] ELSE Absent
    BY <1>1, <2>1
  <2>3. m \in DOMAIN Existing
    BY <1>2, <2>2
  <2>4. QED
    BY <2>2, <2>3, ProvisioningAssumption
<1>3. ChainOK(chain)
  BY <1>1, <1>2 DEF ChainOK
<1>4. ASSUME NEW op \in Operators
      PROVE  RunOK(chain, op, run[op]) /\ run[op].pc # "confirm"
  <2>1. Idle = [Idle EXCEPT !.pc = "idle"]
    BY DEF Idle
  <2>2. RunOK(chain, op, Idle) /\ Idle.pc = "idle"
    BY <2>1, FreshOK
  <2>3. QED
    BY <1>1, <2>2
<1>5. run = [op \in Operators |-> run[op]]
  BY <1>1
<1>6. FlightOK(flight, run)
  BY <1>1, <1>4 DEF FlightOK
<1>7. faults \in 0 .. MaxFaults
  BY <1>1, ProvisioningAssumption
<1>8. QED
  BY <1>3, <1>4, <1>5, <1>6, <1>7 DEF IndInv

LEMMA FailKeeps ==
    ASSUME IndInv, NEW op \in Operators, Fail(op), run[op].pc # "confirm",
           UNCHANGED <<chain, flight, faults>>
    PROVE  IndInv'
<1>1. PICK q : q = [Idle EXCEPT !.pc = "failed"]
  OBVIOUS
<1>2. RunOK(chain, op, q) /\ q.pc = "failed"
  BY <1>1, FreshOK
<1>3. run' = [run EXCEPT ![op] = q]
  BY <1>1 DEF Fail
<1>4. QED
  BY <1>2, <1>3, QuietStep

LEMMA FinishKeeps ==
    ASSUME IndInv, NEW op \in Operators, run[op].pc \in Running,
           run[op].pc # "confirm", NEW answer \in Answers, Finish(op, answer),
           Answered(chain, op, CurrentJob(op), answer),
           UNCHANGED <<chain, flight, faults>>
    PROVE  IndInv'
<1>1. PICK r : r = run[op]
  OBVIOUS
<1>2. PICK q : q = [r EXCEPT !.told = Append(r.told, answer), !.tx = NoTx,
                             !.at = IF r.at < Len(r.jobs) THEN r.at + 1 ELSE r.at,
                             !.pc = IF r.at < Len(r.jobs)
                                      THEN FirstPc(r.jobs[r.at + 1]) ELSE "ok"]
  OBVIOUS
<1>3. run' = [run EXCEPT ![op] = q]
  BY <1>1, <1>2 DEF Finish
<1>4. RunOK(chain, op, r) /\ Answered(chain, op, r.jobs[r.at], answer)
      /\ r.pc \in Running
  BY <1>1 DEF IndInv, CurrentJob
<1>5. RunOK(chain, op, q) /\ q.pc \in {"check", "read", "ok"}
  BY <1>2, <1>4, FinishOK
<1>6. QED
  BY <1>3, <1>5, QuietStep

LEMMA StartKeeps ==
    ASSUME IndInv, NEW op \in Operators, NEW cmd \in Commands[op], Start(op, cmd)
    PROVE  IndInv'
<1>1. PICK jobs, flags :
          jobs = Jobs(cmd) /\ flags = (IF cmd.kind = "pools" THEN cmd.mints ELSE <<>>)
  OBVIOUS
<1>2. jobs \in Seq(Job) /\ flags \in Seq(Mints) /\ Lists(flags, jobs)
  <2>1. cmd \in Command
    BY ProvisioningAssumption
  <2>2. CASE cmd.kind = "pools"
    BY <1>1, <2>1, <2>2, JobsTypes
  <2>3. CASE cmd.kind # "pools"
    <3>1. flags = <<>> /\ jobs \in Seq(Job)
      BY <1>1, <2>1, <2>3, JobsTypes
    <3>2. DOMAIN flags = {} /\ flags \in Seq(Mints)
      BY <3>1
    <3>3. QED
      BY <3>1, <3>2 DEF Lists
  <2>4. QED
    BY <2>2, <2>3
<1>3. PICK pc : pc = IF jobs = <<>> THEN "failed" ELSE FirstPc(jobs[1])
  OBVIOUS
<1>4. /\ pc \in {"failed", "check", "read"}
      /\ pc # "failed" => 1 <= Len(jobs)
      /\ pc = "check" => jobs[1].kind = "pool"
      /\ pc = "read" => jobs[1].kind # "pool"
  <2>1. jobs # <<>> => 1 <= Len(jobs)
    BY <1>2
  <2>2. QED
    BY <1>3, <2>1 DEF FirstPc
<1>5. PICK q : /\ q = [pc |-> pc, flags |-> flags, jobs |-> jobs, at |-> 1, tx |-> NoTx,
                       told |-> <<>>]
               /\ run' = [run EXCEPT ![op] = q]
  <2>1. PICK fresh : fresh = [Idle EXCEPT !.pc = pc, !.flags = flags, !.jobs = jobs]
    OBVIOUS
  <2>2. run' = [run EXCEPT ![op] = fresh]
    BY <1>1, <1>3, <2>1 DEF Start
  <2>3. fresh = [pc |-> pc, flags |-> flags, jobs |-> jobs, at |-> 1, tx |-> NoTx,
                 told |-> <<>>]
    BY <2>1 DEF Idle
  <2>4. QED
    BY <2>2, <2>3, Zenon
<1>6. /\ q.pc = pc /\ q.flags = flags /\ q.jobs = jobs /\ q.at = 1 /\ q.tx = NoTx
      /\ q.told = <<>>
  BY <1>5
<1>7. RunTypes(q)
  <2>1. <<>> \in Seq(Answers) /\ 1 \in Nat \ {0}
    OBVIOUS
  <2>2. q = [pc |-> q.pc, flags |-> q.flags, jobs |-> q.jobs, at |-> q.at,
             tx |-> q.tx, told |-> q.told]
    BY <1>5, <1>6, Zenon
  <2>3. QED
    BY <1>2, <1>4, <1>6, <2>1, <2>2 DEF RunTypes, Running
<1>8. Len(q.told) = 0 /\ Len(q.jobs) \in Nat
  BY <1>2, <1>6
<1>9. Progress(q)
  BY <1>2, <1>4, <1>6, <1>8 DEF Progress, Running
<1>10. Pending(chain, op, q)
  BY <1>4, <1>6 DEF Pending, Waiting
<1>11. RunOK(chain, op, q)
  BY <1>7, <1>8, <1>9, <1>10 DEF RunOK
<1>12. run[op].pc # "confirm" /\ q.pc # "confirm"
  BY <1>4, <1>6 DEF Start, Running
<1>13. QED
  BY <1>5, <1>11, <1>12, QuietStep DEF Start

\* A run that only goes on to its next await.
LEMMA GoesOn ==
    ASSUME NEW r, RunTypes(r), NEW pc \in Running, NEW q, q = [r EXCEPT !.pc = pc]
    PROVE  /\ RunTypes(q) /\ q.pc = pc
           /\ q.flags = r.flags /\ q.jobs = r.jobs /\ q.at = r.at /\ q.tx = r.tx
           /\ q.told = r.told
<1>1. r = [pc |-> r.pc, flags |-> r.flags, jobs |-> r.jobs, at |-> r.at,
           tx |-> r.tx, told |-> r.told]
  BY DEF RunTypes
<1>2. PICK s : /\ s = [pc |-> pc, flags |-> r.flags, jobs |-> r.jobs, at |-> r.at,
                       tx |-> r.tx, told |-> r.told]
               /\ s = q
  <2>1. q = [pc |-> pc, flags |-> r.flags, jobs |-> r.jobs, at |-> r.at,
             tx |-> r.tx, told |-> r.told]
    BY <1>1
  <2>2. QED
    BY <2>1, Zenon
<1>3. /\ s.pc = pc /\ s.flags = r.flags /\ s.jobs = r.jobs /\ s.at = r.at
      /\ s.tx = r.tx /\ s.told = r.told
  BY <1>2
<1>4. s = [pc |-> s.pc, flags |-> s.flags, jobs |-> s.jobs, at |-> s.at,
           tx |-> s.tx, told |-> s.told]
  BY <1>2, <1>3, Zenon
<1>5. RunTypes(s)
  BY <1>3, <1>4 DEF RunTypes
<1>6. QED
  BY <1>2, <1>3, <1>5, Zenon

\* The transaction decided on stays the one the run waits for.
LEMMA WaitsOn ==
    ASSUME NEW c, NEW d, Grown(c, d), NEW op, NEW r, RunOK(c, op, r), r.pc \in Waiting,
           NEW pc \in Waiting, pc = "landed" => d[r.tx.to] = r.tx.content,
           NEW q, q = [r EXCEPT !.pc = pc]
    PROVE  RunOK(d, op, q) /\ q.pc = pc /\ q.tx = r.tx
<1>1. /\ RunTypes(q) /\ q.pc = pc
      /\ q.flags = r.flags /\ q.jobs = r.jobs /\ q.at = r.at /\ q.tx = r.tx
      /\ q.told = r.told
  <2>1. pc \in Running /\ RunTypes(r)
    BY DEF RunOK, Running, Waiting
  <2>2. QED
    BY <2>1, GoesOn
<1>2. r.pc \in Running \ {"check"} /\ pc \in Running \ {"check"}
  BY DEF Running, Waiting
<1>3. RunOK(d, op, r)
  BY RunStays
<1>4. Progress(q)
  <2>1. Progress(r) /\ pc # "ok" /\ pc # "check"
    BY <1>2, <1>3 DEF RunOK, Running
  <2>2. QED
    BY <1>1, <1>2, <2>1 DEF Progress
<1>5. Pending(d, op, q)
  BY <1>1, <1>3 DEF Pending, RunOK
<1>6. \A i \in 1 .. Len(q.told) : Answered(d, op, q.jobs[i], q.told[i])
  BY <1>1, <1>3 DEF RunOK
<1>7. QED
  BY <1>1, <1>4, <1>5, <1>6 DEF RunOK

LEMMA CheckKeeps == ASSUME IndInv, NEW op \in Operators, Check(op) PROVE IndInv'
<1>1. run[op].pc = "check" /\ UNCHANGED <<chain, flight, faults>>
  BY DEF Check
<1>2. CASE Fail(op)
  BY <1>1, <1>2, FailKeeps
<1>3. CASE /\ CurrentJob(op).pair[1] # CurrentJob(op).pair[2]
           /\ run' = [run EXCEPT ![op].pc = "read"]
  <2>1. PICK r : r = run[op]
    OBVIOUS
  <2>2. PICK q : q = [r EXCEPT !.pc = "read"]
    OBVIOUS
  <2>3. run' = [run EXCEPT ![op] = q]
    BY <1>3, <2>1, <2>2
  <2>4. RunOK(chain, op, r) /\ r.pc = "check"
    BY <1>1, <2>1 DEF IndInv
  <2>5. /\ RunTypes(q) /\ q.pc = "read"
        /\ q.flags = r.flags /\ q.jobs = r.jobs /\ q.at = r.at /\ q.tx = r.tx
        /\ q.told = r.told
    BY <2>2, <2>4, GoesOn DEF RunOK, Running
  <2>6. r.jobs[r.at].pair[1] # r.jobs[r.at].pair[2]
    BY <1>3, <2>1 DEF CurrentJob
  <2>7. Progress(q)
    BY <2>4, <2>5, <2>6 DEF RunOK, Progress, Running
  <2>8. Pending(chain, op, q)
    BY <2>5 DEF Pending, Waiting
  <2>9. RunOK(chain, op, q)
    BY <2>4, <2>5, <2>7, <2>8 DEF RunOK
  <2>10. QED
    BY <1>1, <2>3, <2>5, <2>9, QuietStep
<1>4. QED
  BY <1>2, <1>3 DEF Check

LEMMA ReadKeeps == ASSUME IndInv, NEW op \in Operators, Read(op) PROVE IndInv'
<1>1. run[op].pc = "read" /\ UNCHANGED <<chain, flight, faults>>
  BY DEF Read
<1>2. PICK r, job : r = run[op] /\ job = CurrentJob(op)
  OBVIOUS
<1>3. RunOK(chain, op, r) /\ r.pc = "read" /\ job = r.jobs[r.at]
  BY <1>1, <1>2 DEF IndInv, CurrentJob
<1>4. job \in Job /\ (job.kind = "pool" => job.pair[1] # job.pair[2])
  <2>1. r.jobs \in Seq(Job) /\ r.at \in 1 .. Len(r.jobs)
    BY <1>3 DEF RunOK, RunTypes, Progress, Running
  <2>2. QED
    BY <1>3, <2>1 DEF RunOK, Progress, Running
<1>5. CASE ReadFails(op, job)
  <2>1. Fail(op)
    BY <1>2, <1>5 DEF Read
  <2>2. QED
    BY <1>1, <2>1, FailKeeps
<1>6. CASE ~ReadFails(op, job) /\ NothingToSend(job)
  <2>1. PICK answer : answer = IF job.kind = "token" THEN "dry run" ELSE "same"
    OBVIOUS
  <2>2. Finish(op, answer)
    BY <1>2, <1>6, <2>1 DEF Read
  <2>3. Answered(chain, op, job, answer) /\ answer \in Answers
    BY <1>4, <1>6, <2>1, ReadDecides DEF IndInv, Answers
  <2>4. run[op].pc \in Running /\ run[op].pc # "confirm"
    BY <1>1 DEF Running
  <2>5. QED
    BY <1>1, <1>2, <2>2, <2>3, <2>4, FinishKeeps
<1>7. CASE ~ReadFails(op, job) /\ ~NothingToSend(job)
  <2>1. PICK tx : tx = [to |-> Target(job), content |-> Content(op, job)]
    OBVIOUS
  <2>2. PICK q : q = [pc |-> "send", flags |-> r.flags, jobs |-> r.jobs, at |-> r.at,
                      tx |-> tx, told |-> r.told]
    OBVIOUS
  <2>3. run' = [run EXCEPT ![op] = q]
    <3>1. run' = [run EXCEPT ![op].pc = "send", ![op].tx = tx]
      BY <1>2, <1>7, <2>1 DEF Read
    <3>2. run = [o \in Operators |-> run[o]]
      BY DEF IndInv
    <3>3. run' = [run EXCEPT ![op] = [[run[op] EXCEPT !.pc = "send"] EXCEPT !.tx = tx]]
      BY <3>1, <3>2
    <3>4. r = [pc |-> r.pc, flags |-> r.flags, jobs |-> r.jobs, at |-> r.at,
               tx |-> r.tx, told |-> r.told]
      BY <1>3 DEF RunOK, RunTypes
    <3>5. PICK sent : sent = [r EXCEPT !.pc = "send"]
      OBVIOUS
    <3>6. sent = [pc |-> "send", flags |-> r.flags, jobs |-> r.jobs, at |-> r.at,
                  tx |-> r.tx, told |-> r.told]
      BY <3>4, <3>5
    <3>7. PICK decided : decided = [sent EXCEPT !.tx = tx]
      OBVIOUS
    <3>8. decided = [pc |-> "send", flags |-> r.flags, jobs |-> r.jobs, at |-> r.at,
                     tx |-> tx, told |-> r.told]
      BY <3>6, <3>7
    <3>9. decided = q
      BY <2>2, <3>8, Zenon
    <3>10. QED
      BY <1>2, <3>3, <3>5, <3>7, <3>9, Zenon
  <2>4. /\ q.pc = "send" /\ q.flags = r.flags /\ q.jobs = r.jobs /\ q.at = r.at
        /\ q.tx = tx /\ q.told = r.told
    BY <2>2
  <2>5. RunTypes(q)
    <3>1. q = [pc |-> q.pc, flags |-> q.flags, jobs |-> q.jobs, at |-> q.at,
               tx |-> q.tx, told |-> q.told]
      BY <2>2, <2>4, Zenon
    <3>2. QED
      BY <1>3, <2>4, <3>1 DEF RunOK, RunTypes, Running
  <2>6. Progress(q)
    BY <1>3, <2>4 DEF RunOK, Progress, Running
  <2>7. /\ Made(tx.to, tx.content) /\ tx.content.by = op
        /\ Fits(chain, op, job, tx.content)
        /\ tx.to = Target(job) /\ tx.content = Content(op, job)
    <3>1. tx.to = Target(job) /\ tx.content = Content(op, job)
      BY <2>1
    <3>2. /\ Made(Target(job), Content(op, job)) /\ Content(op, job).by = op
          /\ Fits(chain, op, job, Content(op, job))
      BY <1>4, <1>7, ReadDecides DEF IndInv
    <3>3. QED
      BY <3>1, <3>2
  <2>8. tx = [to |-> Target(job), content |-> tx.content]
    BY <2>1, <2>7, Zenon
  <2>9. Pending(chain, op, q)
    BY <1>3, <2>4, <2>7, <2>8 DEF Pending
  <2>10. RunOK(chain, op, q)
    BY <1>3, <2>4, <2>5, <2>6, <2>9 DEF RunOK
  <2>11. QED
    BY <1>1, <2>3, <2>4, <2>10, QuietStep
<1>8. QED
  BY <1>5, <1>6, <1>7

LEMMA SendKeeps == ASSUME IndInv, NEW op \in Operators, Send(op) PROVE IndInv'
<1>1. run[op].pc = "send" /\ UNCHANGED <<chain, faults>>
  BY DEF Send
<1>2. CASE Fail(op) /\ UNCHANGED flight
  BY <1>1, <1>2, FailKeeps
<1>3. CASE /\ flight' = flight \cup {Awaited(op)}
           /\ run' = [run EXCEPT ![op].pc = "confirm"]
  <2>1. PICK r : r = run[op]
    OBVIOUS
  <2>2. PICK q : q = [r EXCEPT !.pc = "confirm"]
    OBVIOUS
  <2>3. run = [o \in Operators |-> run[o]]
    BY DEF IndInv
  <2>4. run' = [o \in Operators |-> IF o = op THEN q ELSE run[o]]
    BY <1>3, <2>1, <2>2, <2>3
  <2>5. RunOK(chain, op, r) /\ r.pc = "send"
    BY <1>1, <2>1 DEF IndInv
  <2>6. RunOK(chain, op, q) /\ q.pc = "confirm" /\ q.tx = r.tx
    <3>1. Grown(chain, chain)
      BY DEF Grown
    <3>2. QED
      BY <2>2, <2>5, <3>1, WaitsOn DEF Waiting
  <2>7. PICK sent : sent = Awaited(op)
    OBVIOUS
  <2>8. sent = Flying(op, r) /\ sent = Flying(op, q)
    BY <2>1, <2>6, <2>7 DEF Awaited, Flying
  <2>9. sent.op = op /\ sent.awaited = TRUE /\ Made(sent.to, sent.content)
    <3>1. Made(r.tx.to, r.tx.content)
      BY <2>5 DEF RunOK, Pending, Waiting
    <3>2. QED
      BY <2>8, <3>1 DEF Flying
  <2>10. ASSUME NEW o \in Operators
         PROVE  RunOK(chain, o, run'[o])
    BY <2>4, <2>6 DEF IndInv
  <2>11. FlightOK(flight', run')
    <3>1. FlightOK(flight, run)
      BY DEF IndInv
    <3>2. flight' = flight \cup {sent} /\ run'[op] = q
      BY <1>3, <2>4, <2>7
    <3>3. ASSUME NEW tx \in flight
          PROVE  /\ tx.op \in Operators /\ tx.awaited \in BOOLEAN
                 /\ Made(tx.to, tx.content)
                 /\ tx.awaited => /\ run'[tx.op].pc = "confirm"
                                  /\ tx = Flying(tx.op, run'[tx.op])
      <4>1. /\ tx.op \in Operators /\ tx.awaited \in BOOLEAN
            /\ Made(tx.to, tx.content)
            /\ tx.awaited => run[tx.op].pc = "confirm" /\ tx = Flying(tx.op, run[tx.op])
        BY <3>1 DEF FlightOK
      <4>2. ASSUME tx.awaited PROVE run'[tx.op] = run[tx.op]
        BY <1>1, <2>4, <4>1, <4>2
      <4>3. QED
        BY <4>1, <4>2
    <3>4. ASSUME NEW o \in Operators, run'[o].pc = "confirm"
          PROVE  Flying(o, run'[o]) \in flight'
      <4>1. CASE o = op
        BY <2>8, <3>2, <4>1
      <4>2. CASE o # op
        <5>1. run'[o] = run[o]
          BY <2>4, <4>2
        <5>2. Flying(o, run[o]) \in flight
          BY <3>1, <3>4, <5>1 DEF FlightOK
        <5>3. QED
          BY <3>2, <5>1, <5>2
      <4>3. QED
        BY <4>1, <4>2
    <3>5. /\ sent.op \in Operators /\ sent.awaited \in BOOLEAN
          /\ Made(sent.to, sent.content)
          /\ run'[sent.op].pc = "confirm" /\ sent = Flying(sent.op, run'[sent.op])
      BY <2>6, <2>8, <2>9, <3>2
    <3>6. QED
      BY <3>2, <3>3, <3>4, <3>5 DEF FlightOK
  <2>12. run' = [o \in Operators |-> run'[o]]
    BY <2>4
  <2>13. QED
    BY <1>1, <2>10, <2>11, <2>12 DEF IndInv
<1>4. QED
  BY <1>2, <1>3 DEF Send

\* "created" is said once the account is there, with the content decided on.
LEMMA ConfirmKeeps == ASSUME IndInv, NEW op \in Operators, Confirm(op) PROVE IndInv'
<1>1. UNCHANGED <<chain, flight, faults>>
  BY DEF Confirm
<1>2. CASE run[op].pc = "refused" /\ Fail(op)
  BY <1>1, <1>2, FailKeeps
<1>3. CASE run[op].pc = "landed" /\ Finish(op, "created")
  <2>1. PICK r, job : r = run[op] /\ job = r.jobs[r.at]
    OBVIOUS
  <2>2. RunOK(chain, op, r) /\ r.pc = "landed"
    BY <1>3, <2>1 DEF IndInv
  <2>3. /\ r.tx = [to |-> Target(job), content |-> r.tx.content]
        /\ Made(r.tx.to, r.tx.content) /\ r.tx.content.by = op
        /\ Fits(chain, op, job, r.tx.content)
        /\ chain[r.tx.to] = r.tx.content
    BY <2>1, <2>2 DEF RunOK, Pending, Waiting
  <2>4. r.tx.to = Target(job)
    BY <2>3
  <2>5. Answered(chain, op, job, "created")
    BY <2>3, <2>4 DEF Answered, Made
  <2>6. CurrentJob(op) = job
    BY <2>1 DEF CurrentJob
  <2>7. QED
    BY <1>1, <1>3, <2>5, <2>6, FinishKeeps DEF Running, Answers
<1>4. QED
  BY <1>2, <1>3 DEF Confirm

\* A stop leaves the transaction in flight, and nobody waits for it.
LEMMA StopKeeps == ASSUME IndInv, NEW op \in Operators, Stop(op) PROVE IndInv'
<1>1. /\ Fail(op) /\ flight' = Orphaned(op) /\ chain' = chain
      /\ faults' \in 0 .. MaxFaults
  BY ProvisioningAssumption DEF Stop, IndInv
<1>2. PICK q : q = [Idle EXCEPT !.pc = "failed"]
  OBVIOUS
<1>3. RunOK(chain, op, q) /\ q.pc = "failed"
  BY <1>2, FreshOK
<1>4. run = [o \in Operators |-> run[o]]
  BY DEF IndInv
<1>5. run' = [o \in Operators |-> IF o = op THEN q ELSE run[o]]
  BY <1>1, <1>2, <1>4 DEF Fail
<1>6. PICK sent : sent = Awaited(op)
  OBVIOUS
<1>7. /\ sent = Flying(op, run[op])
      /\ sent.op = op /\ sent.awaited = TRUE
      /\ \A o \in Operators : o # op => Flying(o, run[o]) # sent
  <2>1. sent = Flying(op, run[op])
    BY <1>6 DEF Awaited, Flying
  <2>2. \A o \in Operators : Flying(o, run[o]).op = o
    BY DEF Flying
  <2>3. sent.op = op /\ sent.awaited = TRUE
    BY <2>1 DEF Flying
  <2>4. QED
    BY <2>1, <2>2, <2>3
<1>8. PICK left : left = [sent EXCEPT !.awaited = FALSE]
  OBVIOUS
<1>9. left.op = op /\ left.awaited = FALSE
      /\ left.to = sent.to /\ left.content = sent.content
  BY <1>7, <1>8 DEF Flying
<1>10. FlightOK(flight, run)
  BY DEF IndInv
<1>11. FlightOK(flight', run')
  <2>1. ASSUME NEW tx \in flight'
        PROVE  /\ tx.op \in Operators /\ tx.awaited \in BOOLEAN
               /\ Made(tx.to, tx.content)
               /\ tx.awaited => /\ run'[tx.op].pc = "confirm"
                                /\ tx = Flying(tx.op, run'[tx.op])
    <3>1. CASE tx \in flight /\ tx # sent
      <4>1. /\ tx.op \in Operators /\ tx.awaited \in BOOLEAN
            /\ Made(tx.to, tx.content)
            /\ tx.awaited => run[tx.op].pc = "confirm" /\ tx = Flying(tx.op, run[tx.op])
        BY <1>10, <3>1 DEF FlightOK
      <4>2. ASSUME tx.awaited PROVE run'[tx.op] = run[tx.op]
        BY <1>5, <1>7, <3>1, <4>1, <4>2
      <4>3. QED
        BY <4>1, <4>2
    <3>2. CASE sent \in flight /\ tx = left
      <4>1. Made(sent.to, sent.content)
        BY <1>10, <3>2 DEF FlightOK
      <4>2. QED
        BY <1>9, <3>2, <4>1
    <3>3. (tx \in flight /\ tx # sent) \/ (sent \in flight /\ tx = left)
      <4>1. CASE sent \in flight
        <5>1. flight' = (flight \ {sent}) \cup {left}
          BY <1>1, <1>6, <1>8, <4>1 DEF Orphaned
        <5>2. QED
          BY <2>1, <4>1, <5>1
      <4>2. CASE sent \notin flight
        <5>1. flight' = flight
          BY <1>1, <1>6, <4>2 DEF Orphaned
        <5>2. QED
          BY <2>1, <4>2, <5>1
      <4>3. QED
        BY <4>1, <4>2
    <3>4. QED
      BY <3>1, <3>2, <3>3
  <2>2. ASSUME NEW o \in Operators, run'[o].pc = "confirm"
        PROVE  Flying(o, run'[o]) \in flight'
    <3>1. o # op /\ run'[o] = run[o]
      BY <1>3, <1>5, <2>2
    <3>2. Flying(o, run[o]) \in flight /\ Flying(o, run[o]) # sent
      BY <1>7, <1>10, <2>2, <3>1 DEF FlightOK
    <3>3. QED
      BY <1>1, <1>6, <3>1, <3>2 DEF Orphaned
  <2>3. QED
    BY <2>1, <2>2 DEF FlightOK
<1>12. ASSUME NEW o \in Operators
       PROVE  RunOK(chain, o, run'[o])
  BY <1>3, <1>5 DEF IndInv
<1>13. run' = [o \in Operators |-> run'[o]]
  BY <1>5
<1>14. QED
  BY <1>1, <1>11, <1>12, <1>13 DEF IndInv

\* A transaction is decided, with the accounts d as it leaves them.
LEMMA DecideKeeps ==
    ASSUME IndInv, NEW tx \in flight, NEW pc \in {"landed", "refused"},
           Decide(tx, pc), flight' = flight \ {tx},
           NEW d, Grown(chain, d), pc = "landed" => d[tx.to] = tx.content
    PROVE  /\ run' = [o \in Operators |-> run'[o]]
           /\ \A o \in Operators : RunOK(d, o, run'[o])
           /\ FlightOK(flight', run')
<1>1. run = [o \in Operators |-> run[o]] /\ FlightOK(flight, run)
      /\ \A o \in Operators : RunOK(chain, o, run[o])
  BY DEF IndInv
<1>2. \A o \in Operators : RunOK(d, o, run[o])
  BY <1>1, RunStays
<1>3. /\ tx.op \in Operators /\ tx.awaited \in BOOLEAN
      /\ tx.awaited => run[tx.op].pc = "confirm" /\ tx = Flying(tx.op, run[tx.op])
  BY <1>1 DEF FlightOK
<1>4. \A o \in Operators : Flying(o, run[o]).op = o /\ Flying(o, run[o]).awaited = TRUE
  BY DEF Flying
<1>5. CASE ~tx.awaited
  <2>1. run' = run
    BY <1>5 DEF Decide
  <2>2. \A o \in Operators : Flying(o, run[o]) # tx
    BY <1>4, <1>5
  <2>3. FlightOK(flight', run')
    BY <1>1, <2>1, <2>2 DEF FlightOK
  <2>4. QED
    BY <1>1, <1>2, <2>1, <2>3
<1>6. CASE tx.awaited
  <2>1. PICK op, r : op \in Operators /\ op = tx.op /\ r = run[op]
    BY <1>3
  <2>2. PICK q : q = [r EXCEPT !.pc = pc]
    OBVIOUS
  <2>3. run' = [o \in Operators |-> IF o = op THEN q ELSE run[o]]
    BY <1>1, <1>6, <2>1, <2>2 DEF Decide
  <2>4. /\ RunOK(chain, op, r) /\ r.pc = "confirm"
        /\ tx.to = r.tx.to /\ tx.content = r.tx.content
    <3>1. RunOK(chain, op, r) /\ r.pc = "confirm" /\ tx = Flying(op, r)
      BY <1>1, <1>3, <1>6, <2>1
    <3>2. QED
      BY <3>1 DEF Flying
  <2>5. RunOK(d, op, q) /\ q.pc = pc
    BY <2>2, <2>4, WaitsOn DEF Waiting
  <2>6. \A o \in Operators : RunOK(d, o, run'[o])
    BY <1>2, <2>3, <2>5
  <2>7. FlightOK(flight', run')
    <3>1. ASSUME NEW other \in flight'
          PROVE  /\ other.op \in Operators /\ other.awaited \in BOOLEAN
                 /\ Made(other.to, other.content)
                 /\ other.awaited => /\ run'[other.op].pc = "confirm"
                                     /\ other = Flying(other.op, run'[other.op])
      <4>1. /\ other.op \in Operators /\ other.awaited \in BOOLEAN
            /\ Made(other.to, other.content) /\ other # tx
            /\ other.awaited => /\ run[other.op].pc = "confirm"
                                /\ other = Flying(other.op, run[other.op])
        BY <1>1 DEF FlightOK
      <4>2. ASSUME other.awaited PROVE run'[other.op] = run[other.op]
        BY <1>3, <1>6, <2>1, <2>3, <4>1, <4>2
      <4>3. QED
        BY <4>1, <4>2
    <3>2. ASSUME NEW o \in Operators, run'[o].pc = "confirm"
          PROVE  Flying(o, run'[o]) \in flight'
      <4>1. o # op /\ run'[o] = run[o]
        BY <2>3, <2>5, <3>2
      <4>2. Flying(o, run[o]) \in flight /\ Flying(o, run[o]) # tx
        BY <1>1, <1>4, <2>1, <3>2, <4>1 DEF FlightOK
      <4>3. QED
        BY <4>1, <4>2
    <3>3. QED
      BY <3>1, <3>2 DEF FlightOK
  <2>8. QED
    BY <2>3, <2>6, <2>7
<1>7. QED
  BY <1>3, <1>5, <1>6

\* A transaction only lands where there is no account yet.
LEMMA LandKeeps == ASSUME IndInv, NEW tx \in flight, Land(tx) PROVE IndInv'
<1>1. flight' = flight \ {tx} /\ faults' = faults
  BY DEF Land
<1>2. Made(tx.to, tx.content)
  BY DEF IndInv, FlightOK
<1>3. CASE /\ ~Exists(tx.to)
           /\ chain' = [chain EXCEPT ![tx.to] = tx.content] /\ Decide(tx, "landed")
  <2>1. tx.to \in Addresses /\ chain[tx.to] = Absent
    BY <1>2, <1>3 DEF Made, Exists
  <2>2. ChainOK(chain)' /\ Grown(chain, chain')
    <3>1. PICK a, content : a \in Addresses /\ a = tx.to /\ content = tx.content
      BY <2>1
    <3>2. chain[a] = Absent /\ Made(a, content)
          /\ chain' = [chain EXCEPT ![a] = content]
      BY <1>2, <1>3, <2>1, <3>1
    <3>3. QED
      BY <3>1, <3>2, ChainStep
  <2>3. PICK d : d = chain'
    OBVIOUS
  <2>4. Grown(chain, d) /\ d[tx.to] = tx.content
    BY <1>3, <2>1, <2>2, <2>3 DEF IndInv, ChainOK
  <2>5. /\ run' = [o \in Operators |-> run'[o]]
        /\ \A o \in Operators : RunOK(d, o, run'[o])
        /\ FlightOK(flight', run')
    BY <1>1, <1>3, <2>4, DecideKeeps
  <2>6. QED
    BY <1>1, <2>2, <2>3, <2>5 DEF IndInv
<1>4. CASE Decide(tx, "refused") /\ UNCHANGED chain
  <2>1. Grown(chain, chain)
    BY DEF Grown
  <2>2. /\ run' = [o \in Operators |-> run'[o]]
        /\ \A o \in Operators : RunOK(chain, o, run'[o])
        /\ FlightOK(flight', run')
    BY <1>1, <1>4, <2>1, DecideKeeps
  <2>3. QED
    BY <1>1, <1>4, <2>2 DEF IndInv
<1>5. QED
  BY <1>3, <1>4 DEF Land, Executable

LEMMA ExpireKeeps == ASSUME IndInv, NEW tx \in flight, Expire(tx) PROVE IndInv'
<1>1. /\ flight' = flight \ {tx} /\ Decide(tx, "refused") /\ chain' = chain
      /\ faults' \in 0 .. MaxFaults
  BY ProvisioningAssumption DEF Expire, IndInv
<1>2. Grown(chain, chain)
  BY DEF Grown
<1>3. /\ run' = [o \in Operators |-> run'[o]]
      /\ \A o \in Operators : RunOK(chain, o, run'[o])
      /\ FlightOK(flight', run')
  BY <1>1, <1>2, DecideKeeps
<1>4. QED
  BY <1>1, <1>3 DEF IndInv

\* Accounts made by other means.
LEMMA OthersKeep ==
    ASSUME IndInv, NEW a \in Addresses, ~Exists(a), \A m \in Mints : a # Mint(m),
           NEW content, content # Absent, chain' = [chain EXCEPT ![a] = content],
           UNCHANGED <<flight, run, faults>>
    PROVE  IndInv'
<1>1. chain[a] = Absent /\ Made(a, content)
  BY DEF Exists, Made
<1>2. ChainOK(chain)' /\ Grown(chain, chain')
  BY <1>1, ChainStep
<1>3. PICK d : d = chain'
  OBVIOUS
<1>4. \A o \in Operators : RunOK(d, o, run[o])
  BY <1>2, <1>3, RunStays DEF IndInv
<1>5. QED
  BY <1>2, <1>3, <1>4 DEF IndInv

LEMMA StepKeeps == IndInv /\ [Next]_vars => IndInv'
<1> SUFFICES ASSUME IndInv, [Next]_vars PROVE IndInv'
  OBVIOUS
<1>1. ASSUME NEW op \in Operators, NEW cmd \in Commands[op], Start(op, cmd)
      PROVE  IndInv'
  BY <1>1, StartKeeps
<1>2. ASSUME NEW op \in Operators, Step(op)
      PROVE  IndInv'
  BY <1>2, CheckKeeps, ReadKeeps, SendKeeps, ConfirmKeeps DEF Step
<1>3. ASSUME NEW op \in Operators, Stop(op)
      PROVE  IndInv'
  BY <1>3, StopKeeps
<1>4. ASSUME NEW tx \in flight, Land(tx) \/ Expire(tx)
      PROVE  IndInv'
  BY <1>4, LandKeeps, ExpireKeeps
<1>5. CASE Deploy
  <2>1. PICK content : content = [kind |-> "program"]
    OBVIOUS
  <2>2. content # Absent
    BY <2>1 DEF Absent
  <2>3. QED
    BY <1>5, <2>1, <2>2, AddressTypes, OthersKeep DEF Deploy
<1>6. ASSUME NEW m \in DOMAIN Existing, ListMint(m)
      PROVE  IndInv'
  <2>1. PICK content : content = [kind |-> "support"]
    OBVIOUS
  <2>2. content # Absent
    BY <2>1 DEF Absent
  <2>3. m \in Mints
    BY ProvisioningAssumption
  <2>4. PICK a \in Addresses : a = Support(m) /\ \A n \in Mints : a # Mint(n)
    BY <2>3, AddressTypes
  <2>5. ~Exists(a) /\ chain' = [chain EXCEPT ![a] = content]
    BY <1>6, <2>1, <2>4 DEF ListMint, Supported
  <2>6. QED
    BY <1>6, <2>2, <2>4, <2>5, OthersKeep DEF ListMint
<1>7. CASE UNCHANGED vars
  BY <1>7 DEF vars, IndInv
<1>8. QED
  BY <1>1, <1>2, <1>3, <1>4, <1>5, <1>6, <1>7 DEF Next

-----------------------------------------------------------------------------
(***************************************************************************)
(* Theorems                                                                *)
(***************************************************************************)
LEMMA Invariance == Spec => []IndInv
  BY InitInv, StepKeeps, PTL DEF Spec

\* The accounts, runs and transactions keep their types, and a run waits for
\* exactly the transaction it has in flight (Send, Stop, Land and Expire).
THEOREM TypeCorrect == Spec => []TypeOK
<1>1. IndInv => TypeOK
  <2> SUFFICES ASSUME IndInv PROVE TypeOK
    OBVIOUS
  <2>1. DOMAIN chain = Addresses /\ faults \in 0 .. MaxFaults
    <3>1. chain = [a \in Addresses |-> chain[a]]
      BY DEF IndInv, ChainOK
    <3>2. QED
      BY <3>1 DEF IndInv
  <2>2. ASSUME NEW m \in Mints, Exists(Mint(m))
        PROVE  chain[Mint(m)].program \in TokenPrograms
               /\ chain[Mint(m)].decimals \in Nat
    BY <2>2 DEF IndInv, ChainOK, Exists
  <2>3. \A op \in Operators : Awaited(op) = Flying(op, run[op])
    BY DEF Awaited, Flying
  <2>4. ASSUME NEW tx \in flight
        PROVE  tx.awaited <=> run[tx.op].pc = "confirm" /\ tx = Awaited(tx.op)
    <3>1. /\ tx.op \in Operators /\ tx.awaited \in BOOLEAN
          /\ tx.awaited => run[tx.op].pc = "confirm" /\ tx = Flying(tx.op, run[tx.op])
      BY DEF IndInv, FlightOK
    <3>2. Flying(tx.op, run[tx.op]).awaited = TRUE
      BY DEF Flying
    <3>3. tx = Flying(tx.op, run[tx.op]) => tx.awaited = TRUE
      BY <3>2
    <3>4. QED
      BY <2>3, <3>1, <3>3
  <2>5. ASSUME NEW op \in Operators
        PROVE  /\ run[op].pc \in Running \cup {"idle", "ok", "failed"}
               /\ run[op].pc = "confirm" => Awaited(op) \in flight
               /\ \A i \in DOMAIN run[op].jobs : run[op].jobs[i].kind \in JobKinds
               /\ run[op].told \in Seq(Answers)
               /\ run[op].pc \in Running => Len(run[op].told) = run[op].at - 1
    <3>1. /\ run[op].pc \in Running \cup {"idle", "ok", "failed"}
          /\ run[op].jobs \in Seq(Job) /\ run[op].told \in Seq(Answers)
          /\ run[op].pc \in Running => Len(run[op].told) = run[op].at - 1
      BY DEF IndInv, RunOK, RunTypes, Progress
    <3>2. run[op].pc = "confirm" => Awaited(op) \in flight
      BY <2>3 DEF IndInv, FlightOK
    <3>3. \A i \in DOMAIN run[op].jobs : run[op].jobs[i].kind \in JobKinds
      <4>1. \A i \in DOMAIN run[op].jobs : run[op].jobs[i] \in Job
        BY <3>1
      <4>2. QED
        BY <4>1, JobTypes DEF JobKinds
    <3>4. QED
      BY <3>1, <3>2, <3>3
  <2>6. QED
    BY <2>1, <2>2, <2>4, <2>5 DEF TypeOK
<1>2. QED
  BY <1>1, Invariance, PTL

\* An answer is true of the cluster for good, however many operators race for
\* an account and whatever lands of a run that was stopped: who was told
\* "created" made the account, with the settings, decimals or price asked for.
THEOREM AnswersAreTrue == Spec => []AnswersHold
<1>1. IndInv => AnswersHold
  <2> SUFFICES ASSUME IndInv PROVE AnswersHold
    OBVIOUS
  <2>1. ASSUME NEW op \in Operators, NEW i \in DOMAIN run[op].told,
               run[op].told[i] # "dry run"
        PROVE  /\ Fits(chain, op, run[op].jobs[i], chain[Target(run[op].jobs[i])])
               /\ run[op].told[i] = "created" =>
                      chain[Target(run[op].jobs[i])].by = op
    <3>1. RunOK(chain, op, run[op])
      BY DEF IndInv
    <3>2. PICK told : told = run[op].told
      OBVIOUS
    <3>3. told \in Seq(Answers)
      BY <3>1, <3>2 DEF RunOK, RunTypes
    <3>4. i \in 1 .. Len(told)
      <4>1. i \in DOMAIN told
        BY <2>1, <3>2
      <4>2. DOMAIN told = 1 .. Len(told)
        BY <3>3
      <4>3. QED
        BY <4>1, <4>2
    <3>5. Answered(chain, op, run[op].jobs[i], run[op].told[i])
      BY <3>1, <3>2, <3>4 DEF RunOK
    <3>6. QED
      BY <2>1, <3>5 DEF Answered
  <2>2. \A account, job : Quotes(account, job) <=> QuotesIn(chain, account, job)
    BY DEF Quotes, QuotesIn
  <2>3. ASSUME NEW op \in Operators, NEW i \in DOMAIN run[op].told
        PROVE  LET job == run[op].jobs[i]
                   account == chain[Target(job)]
               IN  run[op].told[i] # "dry run" =>
                   /\ account # Absent
                   /\ run[op].told[i] = "created" => account.by = op
                   /\ job.kind = "token" =>
                          account.decimals = MainnetDecimals[job.mint]
                   /\ job.kind = "config" =>
                          /\ account.settings = job.settings
                          /\ account.owner = op /\ account.fundOwner = op
                   /\ job.kind = "pool" => Quotes(account, job)
    <3>1. CASE run[op].told[i] = "dry run"
      BY <3>1
    <3>2. CASE run[op].told[i] # "dry run"
      <4>1. PICK job : job = run[op].jobs[i]
        OBVIOUS
      <4>2. PICK account : account = chain[Target(job)]
        OBVIOUS
      <4>3. /\ Fits(chain, op, job, account)
            /\ run[op].told[i] = "created" => account.by = op
        BY <2>1, <3>2, <4>1, <4>2
      <4>4. QED
        BY <2>2, <4>1, <4>2, <4>3 DEF Fits
    <3>3. QED
      BY <3>1, <3>2
  <2>4. QED
    BY <2>3 DEF AnswersHold
<1>2. QED
  BY <1>1, Invariance, PTL

\* After a create-pools that succeeded, there is a pool for any two of the
\* mints listed, at the address that user-flow and the library derive.
THEOREM FlowsFindPools == Spec => []FlowFindsPools
<1>1. IndInv => FlowFindsPools
  <2> SUFFICES ASSUME IndInv, NEW op \in Operators, run[op].pc = "ok",
                      NEW i \in DOMAIN run[op].flags, NEW j \in DOMAIN run[op].flags,
                      NEW a, a = run[op].flags[i], NEW b, b = run[op].flags[j], a # b
               PROVE  PoolAddress(a, b) \in Addresses /\ Exists(PoolAddress(a, b))
    BY DEF FlowFindsPools
  <2>1. PICK r : r = run[op]
    OBVIOUS
  <2>2. /\ RunOK(chain, op, r) /\ r.pc = "ok" /\ Lists(r.flags, r.jobs)
        /\ Len(r.told) = Len(r.jobs)
    BY <2>1 DEF IndInv, RunOK, Progress
  <2>3. a \in Nat /\ b \in Nat
    <3>1. PICK flags : flags = run[op].flags
      OBVIOUS
    <3>2. flags \in Seq(Mints) /\ i \in DOMAIN flags /\ j \in DOMAIN flags
      BY <2>1, <2>2, <3>1 DEF RunOK, RunTypes
    <3>3. flags[i] \in Mints /\ flags[j] \in Mints
      BY <3>2
    <3>4. QED
      BY <3>1, <3>3, ProvisioningAssumption
  <2>4. \E k \in 1 .. Len(r.jobs) :
            r.jobs[k].kind = "pool" /\ (r.jobs[k].pair = <<a, b>> \/ r.jobs[k].pair = <<b, a>>)
    <3>1. CASE a < b
      BY <2>1, <2>2, <3>1 DEF Lists
    <3>2. CASE b < a
      BY <2>1, <2>2, <3>2 DEF Lists
    <3>3. QED
      BY <2>3, <3>1, <3>2
  <2>5. PICK k \in 1 .. Len(r.jobs) :
            r.jobs[k].kind = "pool" /\ (r.jobs[k].pair = <<a, b>> \/ r.jobs[k].pair = <<b, a>>)
    BY <2>4
  <2>6. Answered(chain, op, r.jobs[k], r.told[k])
    BY <2>2 DEF RunOK
  <2>7. Target(r.jobs[k]) = PoolAddress(a, b)
    <3>1. PoolAddress(a, b) = PoolAddress(b, a)
      BY <2>3 DEF PoolAddress
    <3>2. QED
      BY <2>5, <3>1 DEF Target
  <2>8. Target(r.jobs[k]) \in Addresses /\ chain[Target(r.jobs[k])] # Absent
    BY <2>5, <2>6 DEF Answered, Fits
  <2>9. QED
    BY <2>7, <2>8 DEF Exists
<1>2. QED
  BY <1>1, Invariance, PTL
=============================================================================
