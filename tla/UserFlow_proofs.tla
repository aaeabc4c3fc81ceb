-------------------------- MODULE UserFlow_proofs --------------------------
(***************************************************************************)
(* Proofs about the user-flow command for any number of users, any choice  *)
(* of pools with a reward mint and any funding.                            *)
(***************************************************************************)
EXTENDS UserFlow, TLAPS

-----------------------------------------------------------------------------
(***************************************************************************)
(* The inductive invariant.  A key is removed in one place only; what is   *)
(* known there about the chain is collected on the way: no transaction was *)
(* left behind, the position is closed, and the steps of the reclaim that  *)
(* are no longer ahead have emptied their account.                         *)
(***************************************************************************)

\* How the loops hand over to each other.
Loops ==
    /\ phase = "end" <=> exit # "running"
    /\ phase = "save" => task = <<>>
    /\ phase \in {"save", "startup"} => funded = cur - 1
    /\ phase = "rollback" => cur <= funded
    /\ phase \in {"save", "startup", "flow"} => ~flowFailed

\* Which users have a key file, and that one without has nothing to lose.
Keys ==
    /\ \A u \in Users : ~keyFile[u] => ~HoldsPrincipal(u) /\ ~Pending(u)
    /\ phase = "save" => \A u \in Users : u < cur => keyFile[u]
    /\ phase = "startup" => \A u \in Users : u <= cur => keyFile[u]
    /\ phase = "rollback" => \A u \in Users : u <= funded => keyFile[u]
    /\ phase \in {"flow", "reclaim"} =>
           \A u \in Users : keyFile[u] <=> u >= cur
    /\ exit = "ok" => \A u \in Users : ~keyFile[u]

\* A transaction that is awaited is the present step of the present user.
Waiting ==
    exit = "running" =>
        /\ awaiting # Idle => /\ awaiting.user = cur
                              /\ task # <<>>
                              /\ awaiting.step = Head(task)
        /\ confirmed => awaiting # Idle

\* The loops in which no step has failed so far.
Smooth == phase \in {"save", "startup", "flow", "reclaim"} /\ ~flowFailed

\* As long as no step failed, only the awaited transaction is in flight.
Quiet == Smooth => \A tx \in inflight : tx = awaiting /\ ~confirmed

\* A step of the reclaim that is still ahead.
Ahead(step) == \E i \in 1 .. Len(task) : task[i] = step

\* The transaction of the step has taken effect, and its reply is to come.
Landed(step) == awaiting # Idle /\ awaiting.step = step /\ confirmed

\* The flow ends with the close of the position.
Closes ==
    phase = "flow" =>
        /\ task # <<>> => task[Len(task)] = "close"
        /\ task = <<>> \/ Landed("close") => ~acct[cur].nft

\* What the steps of the reclaim that are done have achieved.
Empties ==
    phase = "reclaim" /\ ~flowFailed =>
        /\ ~acct[cur].nft
        /\ \A i \in 1 .. Len(task) : task[i] \in {"returnA", "returnB", "sweep"}
        /\ ~Ahead("returnA") \/ Landed("returnA") => ~acct[cur].ataA
        /\ ~Ahead("returnB") \/ Landed("returnB") => ~acct[cur].ataB
        /\ ~Ahead("sweep") \/ Landed("sweep") => acct[cur].sol = 0
        /\ awaiting # Idle /\ awaiting.step = "sweep" /\ ~confirmed =>
               acct[cur].sol = awaiting.amount

IndInv ==
    /\ TypeOK
    /\ Loops
    /\ Keys
    /\ Waiting
    /\ Quiet
    /\ Closes
    /\ Empties

-----------------------------------------------------------------------------
\* The users are the natural numbers from 1 on.
LEMMA FirstUser == 1 \in Users /\ NUsers \in Users /\ NUsers \in Nat
  BY UserFlowAssumption DEF Users

\* No transaction is mistaken for the absence of one.
LEMMA IdleIsNoTx == Idle \notin Tx
<1>1. Idle.user = 0 /\ \A tx \in Tx : tx.user \in 1 .. NUsers
  BY DEF Idle, Tx, Users
<1>2. 0 \notin 1 .. NUsers
  BY UserFlowAssumption
<1>3. QED
  BY <1>1, <1>2

\* The steps of the loops are steps.
LEMMA StepTypes ==
    /\ FlowSteps \in Seq(Step) /\ ReclaimSteps \in Seq(Step)
    /\ <<"startup">> \in Seq(Step) /\ <<>> \in Seq(Step)
  BY DEF FlowSteps, ReclaimSteps, Step

\* Nobody owns anything in the initial state.
LEMMA InitInvariant == Init => IndInv
<1> SUFFICES ASSUME Init PROVE IndInv
  OBVIOUS
<1>1. NewAccount \in Account
  BY DEF NewAccount, Account
<1>2. TypeOK
  <2>1. task \in Seq(Step) /\ awaiting \in Tx \cup {Idle} /\ inflight \subseteq Tx
    BY StepTypes DEF Init
  <2>2. cur \in Users /\ funded \in 0 .. NUsers
    BY FirstUser DEF Init
  <2>3. acct \in [Users -> Account] /\ keyFile \in [Users -> BOOLEAN]
    BY <1>1 DEF Init
  <2>4. QED
    BY <2>1, <2>2, <2>3 DEF Init, TypeOK
<1>3. \A u \in Users : ~HoldsPrincipal(u) /\ ~Pending(u)
  BY DEF Init, HoldsPrincipal, Pending, NewAccount
<1>4. Keys
  BY <1>3 DEF Init, Keys, Users
<1>5. Loops /\ Waiting /\ Quiet
  BY DEF Init, Loops, Waiting, Quiet
<1>6. Closes /\ Empties
  BY DEF Init, Closes, Empties
<1>7. QED
  BY <1>2, <1>4, <1>5, <1>6 DEF IndInv

-----------------------------------------------------------------------------
(***************************************************************************)
(* The chain                                                               *)
(***************************************************************************)
\* An account stays one when a balance of SOL is replaced by another.
LEMMA Updates ==
    ASSUME NEW a \in Account, NEW sol \in Nat, NEW ataR \in BOOLEAN
    PROVE  /\ [a EXCEPT !.sol = sol] \in Account
           /\ [a EXCEPT !.sol = sol, !.ataA = TRUE, !.ataB = TRUE] \in Account
           /\ [a EXCEPT !.sol = sol, !.ataR = ataR] \in Account
           /\ [a EXCEPT !.sol = sol, !.nft = FALSE] \in Account
           /\ [a EXCEPT !.tokA = 0, !.ataA = FALSE] \in Account
           /\ [a EXCEPT !.tokB = 0, !.ataB = FALSE] \in Account
  BY DEF Account

\* The balances of an account and the rent it has to pay are natural numbers.
LEMMA Balances ==
    ASSUME NEW a \in Account, NEW u \in Users
    PROVE  /\ a.sol \in Nat /\ a.tokA \in Nat /\ a.tokB \in Nat
           /\ a.liq \in Nat
           /\ AtaRent(a) \in Nat /\ RewardRent(u, a) \in Nat
  BY DEF Account, AtaRent, RewardRent, Rent

\* Who can pay the rent gets the token accounts of the pool.
LEMMA AtasType ==
    ASSUME NEW a \in Account, NEW u \in Users, a.sol >= AtaRent(a)
    PROVE  /\ WithAtas(a) \in Account
           /\ WithAtas(a).sol = a.sol - AtaRent(a)
           /\ WithAtas(a).tokA = a.tokA /\ WithAtas(a).tokB = a.tokB
           /\ WithAtas(a).ataR = a.ataR
<1>1. a.sol - AtaRent(a) \in Nat
  BY Balances
<1>2. WithAtas(a) \in Account
  BY <1>1, Updates, Zenon DEF WithAtas
<1>3. /\ WithAtas(a).sol = a.sol - AtaRent(a)
      /\ WithAtas(a).tokA = a.tokA /\ WithAtas(a).tokB = a.tokB
      /\ WithAtas(a).ataR = a.ataR
  BY DEF Account, WithAtas
<1>4. QED
  BY <1>2, <1>3

\* Who can pay both gets them and the one of the reward.
LEMMA RewardType ==
    ASSUME NEW a \in Account, NEW u \in Users,
           a.sol >= AtaRent(a) + RewardRent(u, a)
    PROVE  /\ WithReward(u, WithAtas(a)) \in Account
           /\ WithReward(u, WithAtas(a)).tokA = a.tokA
           /\ WithReward(u, WithAtas(a)).tokB = a.tokB
<1>1. a.sol >= AtaRent(a)
  BY Balances
<1> DEFINE w == WithAtas(a)
<1>2. /\ w \in Account /\ w.sol = a.sol - AtaRent(a)
      /\ w.tokA = a.tokA /\ w.tokB = a.tokB /\ w.ataR = a.ataR
  BY <1>1, AtasType
<1>3. RewardRent(u, w) = RewardRent(u, a)
  BY <1>2 DEF RewardRent
<1> HIDE DEF w
<1>4. w.sol - RewardRent(u, w) \in Nat
  BY <1>2, <1>3, Balances
<1>5. (w.ataR \/ u \in RewardUsers) \in BOOLEAN
  OBVIOUS
<1>6. WithReward(u, w) \in Account
  BY <1>2, <1>4, <1>5, Updates, Zenon DEF WithReward
<1>7. WithReward(u, w).tokA = w.tokA /\ WithReward(u, w).tokB = w.tokB
  BY <1>2 DEF WithReward, Account
<1>8. QED
  BY <1>2, <1>6, <1>7 DEF w

\* A transaction that can execute pays for what it opens, so that no balance
\* becomes negative.
LEMMA EffectType ==
    ASSUME TypeOK, NEW tx \in Tx, Executable(tx)
    PROVE  Effect(tx) \in Account
<1> DEFINE a == acct[tx.user]
<1>1. /\ a \in Account /\ tx.user \in Users /\ tx.amount \in Nat
      /\ tx.step \in Step
  BY DEF TypeOK, Tx
<1>2. a.sol \in Nat /\ a.tokA \in Nat /\ a.tokB \in Nat /\ a.liq \in Nat
  BY <1>1, Balances
<1>3. CASE tx.step = "startup"
  <2>1. a.sol + tx.amount \in Nat
    BY <1>1, <1>2
  <2>2. Effect(tx) = [a EXCEPT !.sol = @ + tx.amount]
    BY <1>3 DEF Effect
  <2>3. QED
    BY <1>1, <1>2, <2>1, <2>2, Updates, Zenon
<1>4. CASE tx.step \in {"fund", "swapIn", "swapOut"}
  <2> DEFINE w == WithAtas(a)
  <2>1. a.sol >= AtaRent(a)
    BY <1>4 DEF Executable
  <2>2. w \in Account /\ w.tokA = a.tokA /\ w.tokB = a.tokB
    BY <1>1, <2>1, AtasType
  <2>3. /\ tx.step = "fund" =>
              Effect(tx) = [w EXCEPT !.tokA = @ + Minted, !.tokB = @ + Minted]
        /\ tx.step = "swapIn" =>
              a.tokA > 0 /\ Effect(tx) = [w EXCEPT !.tokA = @ - 1, !.tokB = @ + 1]
        /\ tx.step = "swapOut" =>
              a.tokB > 0 /\ Effect(tx) = [w EXCEPT !.tokB = @ - 1, !.tokA = @ + 1]
    BY <1>4 DEF Effect, Executable
  <2> HIDE DEF w
  <2>4. CASE tx.step = "fund"
    <3> DEFINE tokA == w.tokA + Minted
               tokB == w.tokB + Minted
    <3>1. tokA \in Nat /\ tokB \in Nat
      BY <1>2, <2>2 DEF Minted
    <3>2. Effect(tx) = [w EXCEPT !.tokA = tokA, !.tokB = tokB]
      BY <2>3, <2>4
    <3> HIDE DEF tokA, tokB
    <3>3. QED
      BY <2>2, <3>1, <3>2 DEF Account
  <2>5. CASE tx.step = "swapIn"
    <3> DEFINE tokA == w.tokA - 1
               tokB == w.tokB + 1
    <3>1. tokA \in Nat /\ tokB \in Nat
      BY <1>2, <2>2, <2>3, <2>5
    <3>2. Effect(tx) = [w EXCEPT !.tokA = tokA, !.tokB = tokB]
      BY <2>3, <2>5
    <3> HIDE DEF tokA, tokB
    <3>3. QED
      BY <2>2, <3>1, <3>2 DEF Account
  <2>6. CASE tx.step = "swapOut"
    <3> DEFINE tokA == w.tokA + 1
               tokB == w.tokB - 1
    <3>1. tokA \in Nat /\ tokB \in Nat
      BY <1>2, <2>2, <2>3, <2>6
    <3>2. Effect(tx) = [w EXCEPT !.tokB = tokB, !.tokA = tokA]
      BY <2>3, <2>6
    <3> HIDE DEF tokA, tokB
    <3>3. QED
      BY <2>2, <3>1, <3>2 DEF Account
  <2>7. QED
    BY <1>4, <2>4, <2>5, <2>6
<1>5. CASE tx.step = "open"
  <2> DEFINE sol == a.sol - 1
             liq == a.liq + 1
             tokA == a.tokA - 1
             tokB == a.tokB - 1
  <2>1. sol \in Nat /\ liq \in Nat /\ tokA \in Nat /\ tokB \in Nat
    BY <1>2, <1>5 DEF Executable
  <2>2. Effect(tx) = [a EXCEPT !.sol = sol, !.nft = TRUE, !.liq = liq,
                               !.tokA = tokA, !.tokB = tokB]
    BY <1>5 DEF Effect
  <2> HIDE DEF a, sol, liq, tokA, tokB
  <2>3. QED
    BY <1>1, <2>1, <2>2 DEF Account
<1>6. CASE tx.step = "increase"
  <2> DEFINE liq == a.liq + 1
             tokA == a.tokA - 1
             tokB == a.tokB - 1
  <2>1. liq \in Nat /\ tokA \in Nat /\ tokB \in Nat
    BY <1>2, <1>6 DEF Executable
  <2>2. Effect(tx) = [a EXCEPT !.liq = liq, !.tokA = tokA, !.tokB = tokB]
    BY <1>6 DEF Effect
  <2> HIDE DEF a, liq, tokA, tokB
  <2>3. QED
    BY <1>1, <2>1, <2>2 DEF Account
<1>7. CASE tx.step \in {"decrease", "collect"}
  <2> DEFINE w == WithReward(tx.user, WithAtas(a))
  <2>1. a.sol >= AtaRent(a) + RewardRent(tx.user, a)
    BY <1>7 DEF Executable
  <2>2. w \in Account /\ w.tokA = a.tokA /\ w.tokB = a.tokB
    BY <1>1, <2>1, RewardType
  <2>3. /\ tx.step = "decrease" =>
              Effect(tx) = [w EXCEPT !.tokA = @ + a.liq, !.tokB = @ + a.liq,
                                     !.liq = 0]
        /\ tx.step = "collect" => Effect(tx) = w
    BY <1>7 DEF Effect
  <2> DEFINE tokA == w.tokA + a.liq
             tokB == w.tokB + a.liq
  <2> HIDE DEF w
  <2>4. tokA \in Nat /\ tokB \in Nat
    BY <1>2, <2>2
  <2>5. /\ tx.step = "decrease" =>
              Effect(tx) = [w EXCEPT !.tokA = tokA, !.tokB = tokB, !.liq = 0]
        /\ tx.step = "collect" => Effect(tx) = w
    BY <2>3
  <2> HIDE DEF tokA, tokB
  <2>6. [w EXCEPT !.tokA = tokA, !.tokB = tokB, !.liq = 0] \in Account
    BY <2>2, <2>4 DEF Account
  <2>7. QED
    BY <1>7, <2>2, <2>5, <2>6
<1>8. CASE tx.step = "close"
  <2>1. a.sol + 1 \in Nat
    BY <1>2
  <2>2. Effect(tx) = [a EXCEPT !.sol = @ + 1, !.nft = FALSE]
    BY <1>8 DEF Effect
  <2>3. QED
    BY <1>1, <2>1, <2>2, Updates, Zenon
<1>9. CASE tx.step \in {"returnA", "returnB"}
  <2>1. /\ tx.step = "returnA" =>
              Effect(tx) = [a EXCEPT !.tokA = 0, !.ataA = FALSE]
        /\ tx.step = "returnB" =>
              Effect(tx) = [a EXCEPT !.tokB = 0, !.ataB = FALSE]
    BY <1>9 DEF Effect
  <2>2. QED
    BY <1>1, <1>2, <1>9, <2>1, Updates, Zenon
<1>10. CASE tx.step = "sweep"
  <2>1. a.sol - tx.amount \in Nat
    BY <1>1, <1>2, <1>10 DEF Executable
  <2>2. Effect(tx) = [a EXCEPT !.sol = @ - tx.amount]
    BY <1>10 DEF Effect
  <2>3. QED
    BY <1>1, <1>2, <2>1, <2>2, Updates, Zenon
<1>11. QED
  BY <1>1, <1>3, <1>4, <1>5, <1>6, <1>7, <1>8, <1>9, <1>10 DEF Step

\* What the last steps leave of an account.
LEMMA EffectOfLastSteps ==
    ASSUME TypeOK, NEW tx \in Tx
    PROVE  LET a == acct[tx.user] IN
           /\ tx.step = "close" => ~Effect(tx).nft
           /\ tx.step \in {"returnA", "returnB", "sweep"} =>
                 Effect(tx).nft = a.nft
           /\ tx.step = "returnA" => /\ ~Effect(tx).ataA
                                     /\ Effect(tx).ataB = a.ataB
                                     /\ Effect(tx).sol = a.sol
           /\ tx.step = "returnB" => /\ Effect(tx).ataA = a.ataA
                                     /\ ~Effect(tx).ataB
                                     /\ Effect(tx).sol = a.sol
           /\ tx.step = "sweep" => /\ Effect(tx).ataA = a.ataA
                                   /\ Effect(tx).ataB = a.ataB
                                   /\ Effect(tx).sol = a.sol - tx.amount
<1>1. acct[tx.user] \in Account
  BY DEF TypeOK, Tx
<1>2. CASE tx.step = "close"
  BY <1>1, <1>2 DEF Effect, Account
<1>3. CASE tx.step = "returnA"
  BY <1>1, <1>3 DEF Effect, Account
<1>4. CASE tx.step = "returnB"
  BY <1>1, <1>4 DEF Effect, Account
<1>5. CASE tx.step = "sweep"
  BY <1>1, <1>5 DEF Effect, Account
<1>6. QED
  BY <1>2, <1>3, <1>4, <1>5

\* A transaction that lands belongs to a user with a key; while nothing has
\* failed it is the awaited one.
LEMMA LandInvariant ==
    ASSUME IndInv, NEW tx \in inflight, Land(tx)
    PROVE  IndInv'
<1> DEFINE u == tx.user
<1>1. /\ Executable(tx) /\ acct' = [acct EXCEPT ![u] = Effect(tx)]
      /\ inflight' = inflight \ {tx} /\ confirmed' = (confirmed \/ tx = awaiting)
      /\ UNCHANGED <<phase, cur, task, awaiting, funded, flowFailed, exit, keyFile>>
  BY DEF Land, processVars
<1>2. TypeOK /\ tx \in Tx /\ u \in Users
  BY DEF IndInv, TypeOK, Tx
<1>3. TypeOK'
  <2>1. Effect(tx) \in Account
    BY <1>1, <1>2, EffectType
  <2>2. acct' \in [Users -> Account]
    BY <1>1, <1>2, <2>1 DEF TypeOK
  <2>3. inflight' \subseteq Tx /\ confirmed' \in BOOLEAN
    BY <1>1, <1>2 DEF TypeOK
  <2>4. QED
    BY <1>1, <1>2, <2>2, <2>3 DEF TypeOK
<1>4. Loops'
  BY <1>1 DEF IndInv, Loops
<1>5. Keys'
  <2>1. keyFile[u]
    BY <1>2 DEF IndInv, Keys, Pending
  <2>2. \A v \in Users : v # u => acct'[v] = acct[v]
    BY <1>1, <1>2 DEF TypeOK
  <2>3. \A v \in Users : ~Pending(v) => ~Pending(v)'
    BY <1>1 DEF Pending
  <2>4. \A v \in Users : ~keyFile[v] => ~HoldsPrincipal(v)' /\ ~Pending(v)'
    BY <2>1, <2>2, <2>3 DEF IndInv, Keys, HoldsPrincipal
  <2>5. QED
    BY <1>1, <2>4 DEF IndInv, Keys
<1>6. Smooth => tx = awaiting /\ ~confirmed /\ inflight' = {} /\ exit = "running"
                /\ awaiting # Idle /\ u = cur /\ task # <<>>
                /\ tx.step = Head(task)
  BY <1>1, <1>2, IdleIsNoTx DEF IndInv, Quiet, Smooth, Loops, Waiting
<1>7. Waiting' /\ Quiet'
  <2>1. tx = awaiting => awaiting # Idle
    BY <1>2, IdleIsNoTx
  <2>2. Waiting'
    BY <1>1, <2>1 DEF IndInv, Waiting
  <2>3. QED
    BY <1>1, <1>6, <2>2 DEF Quiet, Smooth
<1>8. acct'[u] = Effect(tx)
  BY <1>1, <1>2 DEF TypeOK
<1>9. Closes'
  <2> SUFFICES ASSUME phase = "flow"
               PROVE  /\ task # <<>> => task[Len(task)] = "close"
                      /\ task = <<>> \/ Landed("close")' => ~acct'[cur].nft
    BY <1>1 DEF Closes
  <2>1. Smooth
    BY DEF IndInv, Loops, Smooth
  <2>2. Landed("close")' => tx.step = "close"
    BY <1>1, <1>6, <2>1 DEF Landed
  <2>3. tx.step = "close" => ~Effect(tx).nft
    BY <1>2, EffectOfLastSteps
  <2>4. QED
    BY <1>6, <1>8, <2>1, <2>2, <2>3 DEF IndInv, Closes
<1>10. Empties'
  <2> SUFFICES ASSUME phase = "reclaim", ~flowFailed
               PROVE  Empties'
    BY <1>1 DEF Empties
  <2>1. Smooth
    BY DEF Smooth
  <2>2. tx.step \in {"returnA", "returnB", "sweep"}
    BY <1>2, <1>6, <2>1 DEF IndInv, Empties, TypeOK
  <2>3. /\ ~acct[u].nft
        /\ tx.step # "returnA" /\ ~Ahead("returnA") => ~acct[u].ataA
        /\ tx.step # "returnB" /\ ~Ahead("returnB") => ~acct[u].ataB
        /\ tx.step # "sweep" /\ ~Ahead("sweep") => acct[u].sol = 0
        /\ tx.step = "sweep" => acct[u].sol = tx.amount
    BY <1>6, <2>1 DEF IndInv, Empties
  <2>4. acct[u].sol \in Nat
    BY <1>2 DEF TypeOK, Account
  <2>5. /\ ~Effect(tx).nft
        /\ tx.step = "returnA" \/ ~Ahead("returnA") => ~Effect(tx).ataA
        /\ tx.step = "returnB" \/ ~Ahead("returnB") => ~Effect(tx).ataB
        /\ tx.step = "sweep" \/ ~Ahead("sweep") => Effect(tx).sol = 0
    BY <1>2, <2>2, <2>3, <2>4, EffectOfLastSteps
  <2>6. \A step : Ahead(step)' = Ahead(step)
    BY <1>1 DEF Ahead
  <2>7. \A step : Landed(step)' => tx.step = step
    BY <1>1, <1>6, <2>1 DEF Landed
  <2>8. confirmed'
    BY <1>1, <1>6, <2>1
  <2>9. QED
    BY <1>1, <1>6, <1>8, <2>1, <2>5, <2>6, <2>7, <2>8 DEF IndInv, Empties
<1>11. QED
  BY <1>3, <1>4, <1>5, <1>7, <1>9, <1>10 DEF IndInv

\* A transaction that is dropped changes nothing but what is in flight.
LEMMA DropInvariant ==
    ASSUME IndInv, NEW tx \in inflight, Drop(tx)
    PROVE  IndInv'
<1>1. /\ inflight' = inflight \ {tx}
      /\ UNCHANGED <<phase, cur, task, awaiting, funded, flowFailed, exit,
                     confirmed, keyFile, acct>>
  BY DEF Drop, processVars
<1>2. TypeOK' /\ Loops' /\ Waiting'
  BY <1>1 DEF IndInv, TypeOK, Loops, Waiting
<1>3. \A v \in Users : ~Pending(v) => ~Pending(v)'
  BY <1>1 DEF Pending
<1>4. Keys'
  BY <1>1, <1>3 DEF IndInv, Keys, HoldsPrincipal
<1>5. Quiet'
  BY <1>1 DEF IndInv, Quiet, Smooth
<1>6. Closes' /\ Empties'
  BY <1>1 DEF IndInv, Closes, Empties, Landed, Ahead
<1>7. QED
  BY <1>2, <1>4, <1>5, <1>6 DEF IndInv

-----------------------------------------------------------------------------
(***************************************************************************)
(* How the loops are left                                                  *)
(***************************************************************************)
\* A process that ends without success leaves the keys as they are.
LEMMA QuitInvariant ==
    ASSUME IndInv, phase' = "end", exit' \in {"failed", "killed"},
           UNCHANGED <<cur, task, funded, flowFailed, keyFile, acct, inflight>>,
           awaiting' \in Tx \cup {Idle}, confirmed' \in BOOLEAN
    PROVE  IndInv'
<1>1. TypeOK'
  BY DEF IndInv, TypeOK
<1>2. Loops' /\ Waiting' /\ Quiet' /\ Closes' /\ Empties'
  BY DEF Loops, Waiting, Quiet, Smooth, Closes, Empties
<1>3. Keys'
  BY DEF IndInv, Keys, HoldsPrincipal, Pending
<1>4. QED
  BY <1>1, <1>2, <1>3 DEF IndInv

\* The rollback starts, or goes on, with a user that was funded.
LEMMA RollbackInvariant ==
    ASSUME IndInv, exit = "running", phase \in {"startup", "rollback"},
           phase' = "rollback", task' = ReclaimSteps,
           cur' \in Users, cur' <= funded,
           awaiting' = Idle, confirmed' = FALSE,
           UNCHANGED <<funded, flowFailed, exit, keyFile, acct, inflight>>
    PROVE  IndInv'
<1>1. TypeOK'
  BY StepTypes DEF IndInv, TypeOK
<1>2. Loops' /\ Waiting' /\ Quiet' /\ Closes' /\ Empties'
  BY DEF IndInv, Loops, Waiting, Quiet, Smooth, Closes, Empties
<1>3. \A u \in Users : u <= funded => keyFile[u]
  <2>1. cur \in Nat /\ Users \subseteq Nat /\ funded \in Nat
    BY DEF IndInv, TypeOK, Users
  <2>2. QED
    BY <2>1 DEF IndInv, Keys, Loops
<1>4. Keys'
  BY <1>3 DEF IndInv, Keys, HoldsPrincipal, Pending
<1>5. QED
  BY <1>1, <1>2, <1>4 DEF IndInv

\* NextRollback visits the next funded user, and quits after the last.
LEMMA NextRollbackInvariant ==
    ASSUME IndInv, exit = "running", phase = "rollback", NextRollback,
           awaiting' = Idle, confirmed' = FALSE,
           UNCHANGED <<funded, flowFailed, keyFile, acct, inflight>>
    PROVE  IndInv'
<1>1. CASE cur < funded
  <2>1. cur + 1 \in Users /\ cur + 1 <= funded
    BY <1>1, FirstUser DEF IndInv, TypeOK, Users
  <2>2. QED
    BY <1>1, <2>1, RollbackInvariant DEF NextRollback, Enter
<1>2. CASE ~(cur < funded)
  BY <1>2, QuitInvariant DEF NextRollback, Quit
<1>3. QED
  BY <1>1, <1>2

\* Whatever fails, and whether or not something was sent, no key is removed.
LEMMA FailInvariant ==
    ASSUME IndInv, exit = "running", Fail,
           awaiting' = Idle, confirmed' = FALSE,
           UNCHANGED <<funded, keyFile, acct, inflight>>
    PROVE  IndInv'
<1>1. CASE phase = "startup" /\ AbandonFunding
  <2>1. CASE funded = 0
    BY <1>1, <2>1, QuitInvariant DEF AbandonFunding, Quit
  <2>2. CASE funded # 0
    <3>1. 1 <= funded
      BY <2>2, FirstUser DEF IndInv, TypeOK
    <3>2. QED
      BY <1>1, <2>2, <3>1, FirstUser, RollbackInvariant
         DEF AbandonFunding, Enter
  <2>3. QED
    BY <2>1, <2>2
<1>2. CASE phase = "rollback" /\ NextRollback /\ UNCHANGED flowFailed
  BY <1>2, NextRollbackInvariant
<1>3. CASE phase = "flow" /\ AbandonFlow
  <2>1. /\ phase' = "reclaim" /\ cur' = cur /\ task' = ReclaimSteps
        /\ flowFailed' = TRUE /\ exit' = exit
    BY <1>3 DEF AbandonFlow, Enter
  <2>2. TypeOK'
    BY <2>1, StepTypes DEF IndInv, TypeOK
  <2>3. Loops' /\ Waiting' /\ Quiet' /\ Closes' /\ Empties'
    BY <1>3, <2>1 DEF IndInv, Loops, Waiting, Quiet, Smooth, Closes, Empties
  <2>4. Keys'
    BY <1>3, <2>1 DEF IndInv, Keys, HoldsPrincipal, Pending
  <2>5. QED
    BY <2>2, <2>3, <2>4 DEF IndInv
<1>4. CASE phase = "reclaim" /\ Quit("failed") /\ UNCHANGED <<cur, task, flowFailed>>
  BY <1>4, QuitInvariant DEF Quit
<1>5. QED
  BY <1>1, <1>2, <1>3, <1>4 DEF Fail

-----------------------------------------------------------------------------
(***************************************************************************)
(* The process                                                             *)
(***************************************************************************)
\* The key is on disk before its user is funded.
LEMMA SaveKeyInvariant == ASSUME IndInv, SaveKey PROVE IndInv'
<1>1. CASE Quit("failed") /\ UNCHANGED <<cur, task, keyFile>>
  BY <1>1, QuitInvariant DEF SaveKey, Quit, IndInv, TypeOK
<1>2. ASSUME keyFile' = [keyFile EXCEPT ![cur] = TRUE],
             Enter("startup", cur, <<"startup">>), UNCHANGED exit
      PROVE  IndInv'
  <2>1. /\ phase = "save" /\ phase' = "startup" /\ cur' = cur
        /\ task' = <<"startup">>
        /\ UNCHANGED <<awaiting, confirmed, funded, flowFailed, exit, acct,
                       inflight>>
    BY <1>2 DEF SaveKey, Enter
  <2>2. TypeOK'
    BY <1>2, <2>1, StepTypes DEF IndInv, TypeOK
  <2>3. \A u \in Users : keyFile'[u] <=> keyFile[u] \/ u = cur
    BY <1>2 DEF IndInv, TypeOK
  <2>4. Keys'
    <3>1. \A u \in Users : u <= cur => u < cur \/ u = cur
      BY DEF IndInv, TypeOK, Users
    <3>2. QED
      BY <2>1, <2>3, <3>1 DEF IndInv, Keys, HoldsPrincipal, Pending, Loops
  <2>5. awaiting = Idle /\ ~confirmed
    BY <2>1 DEF IndInv, Waiting, Loops, TypeOK
  <2>6. Loops' /\ Waiting' /\ Quiet' /\ Closes' /\ Empties'
    BY <2>1, <2>5
       DEF IndInv, Loops, Waiting, Quiet, Smooth, Closes, Empties
  <2>7. QED
    BY <2>2, <2>4, <2>6 DEF IndInv
<1>3. QED
  BY <1>1, <1>2 DEF SaveKey

\* Setting up the orchestrator fails: nothing of the user's flow has begun.
LEMMA SetupFailsInvariant == ASSUME IndInv, SetupFails PROVE IndInv'
  BY QuitInvariant DEF SetupFails, Quit, IndInv, TypeOK

\* A kill leaves the keys, and what was sent on its way.
LEMMA KillInvariant == ASSUME IndInv, Kill PROVE IndInv'
  BY QuitInvariant DEF Kill, Quit, IndInv, TypeOK

\* An error before or after something was sent.
LEMMA StepFailsInvariant == ASSUME IndInv, StepFails \/ ReplyError PROVE IndInv'
<1>1. CASE StepFails
  <2>1. awaiting = Idle /\ confirmed = FALSE
    BY <1>1 DEF StepFails, AtStep, IndInv, Waiting, TypeOK
  <2>2. QED
    BY <1>1, <2>1, FailInvariant DEF StepFails, AtStep
<1>2. CASE ReplyError
  BY <1>2, FailInvariant DEF ReplyError
<1>3. QED
  BY <1>1, <1>2

\* The end of a task list: what was not its head is still there.
LEMMA TailOfTask ==
    ASSUME task \in Seq(Step), task # <<>>, task' = Tail(task)
    PROVE  /\ task' \in Seq(Step)
           /\ \A step : Ahead(step) => step = Head(task) \/ Ahead(step)'
           /\ \A step : Ahead(step)' => Ahead(step)
           /\ task' # <<>> => task'[Len(task')] = task[Len(task)]
           /\ task' = <<>> => Head(task) = task[Len(task)]
<1>1. /\ Len(task) \in Nat /\ Len(task) > 0 /\ Head(task) = task[1]
      /\ task' \in Seq(Step) /\ Len(task') = Len(task) - 1
      /\ \A i \in 1 .. Len(task') : task'[i] = task[i + 1]
  OBVIOUS
<1>2. ASSUME NEW step, Ahead(step) PROVE step = Head(task) \/ Ahead(step)'
  <2>1. PICK i \in 1 .. Len(task) : task[i] = step
    BY <1>2 DEF Ahead
  <2>2. CASE i = 1
    BY <1>1, <2>1, <2>2
  <2>3. CASE i # 1
    <3>1. i - 1 \in 1 .. Len(task') /\ task'[i - 1] = step
      BY <1>1, <2>1, <2>3
    <3>2. QED
      BY <3>1 DEF Ahead
  <2>4. QED
    BY <2>2, <2>3
<1>3. ASSUME NEW step, Ahead(step)' PROVE Ahead(step)
  <2>1. PICK i \in 1 .. Len(task') : task'[i] = step
    BY <1>3 DEF Ahead
  <2>2. i + 1 \in 1 .. Len(task) /\ task[i + 1] = step
    BY <1>1, <2>1
  <2>3. QED
    BY <2>2 DEF Ahead
<1>4. task' # <<>> => task'[Len(task')] = task[Len(task)]
  <2>1. task' # <<>> => Len(task') \in 1 .. Len(task')
    BY <1>1
  <2>2. QED
    BY <1>1, <2>1
<1>5. task' = <<>> => Head(task) = task[Len(task)]
  <2>1. task' = <<>> => Len(task') = 0
    OBVIOUS
  <2>2. QED
    BY <1>1, <2>1
<1>6. QED
  BY <1>1, <1>2, <1>3, <1>4, <1>5

\* A step that has nothing to do has done what it was for.
LEMMA SkipStepInvariant == ASSUME IndInv, SkipStep PROVE IndInv'
<1>1. /\ exit = "running" /\ awaiting = Idle /\ task # <<>> /\ ~confirmed
      /\ NothingToDo(Head(task)) /\ task' = Tail(task) /\ task \in Seq(Step)
      /\ UNCHANGED <<phase, cur, awaiting, confirmed, funded, flowFailed, exit,
                     keyFile, acct, inflight>>
  BY DEF SkipStep, AtStep, IndInv, Waiting, TypeOK
<1>2. TypeOK'
  BY <1>1, TailOfTask DEF IndInv, TypeOK
<1>3. Loops' /\ Keys'
  BY <1>1 DEF IndInv, Loops, Keys, HoldsPrincipal, Pending
<1>4. Waiting' /\ Quiet'
  BY <1>1 DEF IndInv, Waiting, Quiet, Smooth
<1>5. Closes'
  <2>1. Head(task) # "close" /\ ~Landed("close")'
    BY <1>1 DEF NothingToDo, Landed
  <2>2. QED
    BY <1>1, <2>1, TailOfTask DEF IndInv, Closes
<1>6. Empties'
  <2> SUFFICES ASSUME phase = "reclaim", ~flowFailed
               PROVE  Empties'
    BY <1>1 DEF Empties
  <2>1. \A step : ~Landed(step) /\ ~Landed(step)'
    BY <1>1 DEF Landed
  <2>2. /\ Head(task) = "returnA" => ~acct[cur].ataA
        /\ Head(task) = "returnB" => ~acct[cur].ataB
        /\ Head(task) = "sweep" => acct[cur].sol = 0
    BY <1>1 DEF NothingToDo
  <2>3. \A i \in 1 .. Len(task') : Ahead(task'[i])
    BY <1>1, TailOfTask DEF Ahead
  <2>4. \A i \in 1 .. Len(task') : task'[i] \in {"returnA", "returnB", "sweep"}
    BY <2>3 DEF IndInv, Empties, Ahead
  <2>5. \A step : Ahead(step) => step = Head(task) \/ Ahead(step)'
    BY <1>1, TailOfTask
  <2>6. QED
    BY <1>1, <2>1, <2>2, <2>4, <2>5 DEF IndInv, Empties
<1>7. QED
  BY <1>2, <1>3, <1>4, <1>5, <1>6 DEF IndInv

\* A reply of success: the step has achieved what it was for.
LEMMA ReplyOkInvariant == ASSUME IndInv, ReplyOk PROVE IndInv'
<1>1. /\ exit = "running" /\ awaiting # Idle /\ confirmed
      /\ awaiting' = Idle /\ confirmed' = FALSE /\ task' = Tail(task)
      /\ task # <<>> /\ awaiting.step = Head(task) /\ task \in Seq(Step)
      /\ UNCHANGED <<phase, cur, funded, flowFailed, exit, keyFile, acct, inflight>>
  BY DEF ReplyOk, IndInv, Waiting, TypeOK
<1>2. TypeOK'
  BY <1>1, TailOfTask DEF IndInv, TypeOK
<1>3. Loops' /\ Keys'
  BY <1>1 DEF IndInv, Loops, Keys, HoldsPrincipal, Pending
<1>4. Waiting' /\ Quiet'
  BY <1>1 DEF IndInv, Waiting, Quiet, Smooth
<1>5. \A step : ~Landed(step)' /\ (Landed(step) <=> step = Head(task))
  BY <1>1 DEF Landed
<1>6. Closes'
  BY <1>1, <1>5, TailOfTask DEF IndInv, Closes
<1>7. Empties'
  <2> SUFFICES ASSUME phase = "reclaim", ~flowFailed
               PROVE  Empties'
    BY <1>1 DEF Empties
  <2>1. \A i \in 1 .. Len(task') : Ahead(task'[i])
    BY <1>1, TailOfTask DEF Ahead
  <2>2. \A i \in 1 .. Len(task') : task'[i] \in {"returnA", "returnB", "sweep"}
    BY <2>1 DEF IndInv, Empties, Ahead
  <2>3. \A step : Ahead(step) => step = Head(task) \/ Ahead(step)'
    BY <1>1, TailOfTask
  <2>4. QED
    BY <1>1, <1>5, <2>2, <2>3 DEF IndInv, Empties
<1>8. QED
  BY <1>2, <1>3, <1>4, <1>6, <1>7 DEF IndInv

\* A step is sent only for a user with a key, with what was read of the chain.
LEMMA SubmitStepInvariant == ASSUME IndInv, SubmitStep PROVE IndInv'
<1> DEFINE tx == [user |-> cur, step |-> Head(task), amount |-> Observed(Head(task))]
<1>1. /\ exit = "running" /\ awaiting = Idle /\ task # <<>> /\ ~confirmed
      /\ awaiting' = tx /\ inflight' = inflight \cup {tx} /\ confirmed' = FALSE
      /\ UNCHANGED <<phase, cur, task, funded, flowFailed, exit, keyFile, acct>>
  BY DEF SubmitStep, AtStep, IndInv, Waiting, TypeOK
<1>2. tx \in Tx /\ tx # Idle
  <2>1. cur \in Users /\ Head(task) \in Step /\ acct[cur] \in Account
    BY <1>1 DEF IndInv, TypeOK
  <2>2. Observed(Head(task)) \in Nat
    BY <2>1, UserFlowAssumption DEF Observed, Account
  <2>3. tx \in Tx
    BY <2>1, <2>2 DEF Tx
  <2>4. QED
    BY <2>3, IdleIsNoTx
<1>3. TypeOK'
  BY <1>1, <1>2 DEF IndInv, TypeOK
<1>4. Loops' /\ Waiting'
  BY <1>1 DEF IndInv, Loops, Waiting
<1>5. Quiet'
  BY <1>1, <1>2, IdleIsNoTx DEF IndInv, Quiet, Smooth, TypeOK
<1>6. keyFile[cur]
  <2>1. phase \in {"startup", "rollback", "flow", "reclaim"} /\ cur \in Users
    BY <1>1 DEF IndInv, Loops, TypeOK
  <2>2. cur <= cur /\ cur >= cur
    BY <2>1 DEF Users
  <2>3. QED
    BY <2>1, <2>2 DEF IndInv, Keys, Loops
<1>7. Keys'
  <2>1. \A u \in Users : ~keyFile[u] => ~Pending(u)'
    BY <1>1, <1>6 DEF IndInv, Keys, Pending
  <2>2. QED
    BY <1>1, <2>1 DEF IndInv, Keys, HoldsPrincipal
<1>8. Closes' /\ Empties'
  <2>1. \A step : ~Landed(step) /\ ~Landed(step)' /\ (Ahead(step)' <=> Ahead(step))
    BY <1>1 DEF Landed, Ahead
  <2>2. awaiting'.step = "sweep" => awaiting'.amount = acct[cur].sol
    BY <1>1 DEF Observed
  <2>3. QED
    BY <1>1, <2>1, <2>2 DEF IndInv, Closes, Empties
<1>9. QED
  BY <1>3, <1>4, <1>5, <1>7, <1>8 DEF IndInv

\* The user that startup funded has a key, like all before.
LEMMA FinishStartupInvariant == ASSUME IndInv, FinishStartup PROVE IndInv'
<1>1. /\ exit = "running" /\ phase = "startup" /\ awaiting = Idle /\ ~confirmed
      /\ funded' = cur /\ ~flowFailed /\ cur \in Users /\ cur \in 0 .. NUsers
      /\ UNCHANGED <<awaiting, confirmed, flowFailed, exit, keyFile, acct, inflight>>
      /\ inflight = {}
  <2>1. ~flowFailed /\ phase = "startup" /\ awaiting = Idle /\ exit = "running"
    BY DEF FinishStartup, AtEnd, IndInv, Loops
  <2>2. inflight = {}
    BY <2>1, IdleIsNoTx DEF IndInv, Quiet, Smooth, TypeOK
  <2>3. QED
    BY <2>1, <2>2 DEF FinishStartup, AtEnd, IndInv, Waiting, TypeOK, Users
<1>2. \A u \in Users : u <= cur => keyFile[u]
  BY <1>1 DEF IndInv, Keys
<1>3. CASE MoreUsers
  <2>1. phase' = "save" /\ cur' = cur + 1 /\ task' = <<>>
    BY <1>3 DEF FinishStartup, Enter
  <2>2. cur + 1 \in Users
    BY <1>1, <1>3, FirstUser DEF MoreUsers, Users
  <2>3. TypeOK'
    BY <1>1, <2>1, <2>2, StepTypes DEF IndInv, TypeOK
  <2>4. \A u \in Users : u < cur' => keyFile[u]
    BY <1>1, <1>2, <2>1 DEF Users
  <2>5. Keys'
    BY <1>1, <2>1, <2>4 DEF IndInv, Keys, HoldsPrincipal, Pending
  <2>6. Loops'
    BY <1>1, <2>1 DEF IndInv, Loops, Users
  <2>7. Waiting' /\ Quiet' /\ Closes' /\ Empties'
    BY <1>1, <2>1 DEF IndInv, Waiting, Quiet, Closes, Empties
  <2>8. QED
    BY <2>3, <2>5, <2>6, <2>7 DEF IndInv
<1>4. CASE ~MoreUsers
  <2>1. phase' = "flow" /\ cur' = 1 /\ task' = FlowSteps /\ cur = NUsers
    BY <1>1, <1>4, FirstUser DEF FinishStartup, Enter, MoreUsers, Users
  <2>2. TypeOK'
    BY <1>1, <2>1, FirstUser, StepTypes DEF IndInv, TypeOK
  <2>3. \A u \in Users : keyFile[u] /\ u >= 1
    BY <1>2, <2>1 DEF Users
  <2>4. Keys'
    BY <1>1, <2>1, <2>3 DEF IndInv, Keys, HoldsPrincipal, Pending
  <2>5. Loops' /\ Waiting' /\ Quiet' /\ Empties'
    BY <1>1, <2>1 DEF IndInv, Loops, Waiting, Quiet, Empties
  <2>6. Closes'
    BY <1>1, <2>1 DEF Closes, FlowSteps, Landed
  <2>7. QED
    BY <2>2, <2>4, <2>5, <2>6 DEF IndInv
<1>5. QED
  BY <1>3, <1>4

\* The rollback goes on after a user.
LEMMA FinishRollbackInvariant == ASSUME IndInv, FinishRollback PROVE IndInv'
<1>1. awaiting = Idle /\ confirmed = FALSE /\ exit = "running" /\ phase = "rollback"
  BY DEF FinishRollback, AtEnd, IndInv, Waiting, TypeOK
<1>2. QED
  BY <1>1, NextRollbackInvariant DEF FinishRollback

\* The position is closed when the reclaim starts.
LEMMA FinishFlowInvariant == ASSUME IndInv, FinishFlow PROVE IndInv'
<1>1. /\ exit = "running" /\ phase = "flow" /\ awaiting = Idle /\ ~confirmed
      /\ task = <<>> /\ phase' = "reclaim" /\ cur' = cur /\ task' = ReclaimSteps
      /\ UNCHANGED <<awaiting, confirmed, funded, flowFailed, exit, keyFile,
                     acct, inflight>>
  BY DEF FinishFlow, AtEnd, Enter, IndInv, Waiting, TypeOK
<1>2. TypeOK'
  BY <1>1, StepTypes DEF IndInv, TypeOK
<1>3. Loops' /\ Waiting' /\ Closes'
  BY <1>1 DEF IndInv, Loops, Waiting, Closes
<1>4. Quiet'
  BY <1>1 DEF IndInv, Loops, Quiet, Smooth
<1>5. Keys'
  BY <1>1 DEF IndInv, Keys, HoldsPrincipal, Pending
<1>6. Empties'
  <2>1. ~acct[cur].nft /\ \A step : ~Landed(step)'
    BY <1>1 DEF IndInv, Closes, Landed
  <2>2. \A step \in {"returnA", "returnB", "sweep"} : Ahead(step)'
    BY <1>1 DEF Ahead, ReclaimSteps
  <2>3. \A i \in 1 .. Len(task') : task'[i] \in {"returnA", "returnB", "sweep"}
    BY <1>1 DEF ReclaimSteps
  <2>4. QED
    BY <1>1, <2>1, <2>2, <2>3 DEF Empties
<1>7. QED
  BY <1>2, <1>3, <1>4, <1>5, <1>6 DEF IndInv

\* A key is removed only of a user that owns nothing, and to which nothing
\* can come any more.
LEMMA FinishReclaimInvariant == ASSUME IndInv, FinishReclaim PROVE IndInv'
<1>1. /\ exit = "running" /\ phase = "reclaim" /\ awaiting = Idle /\ ~confirmed
      /\ task = <<>> /\ cur \in Users
      /\ UNCHANGED <<awaiting, confirmed, funded, flowFailed, acct, inflight>>
  BY DEF FinishReclaim, AtEnd, IndInv, Waiting, TypeOK
<1>2. CASE Quit("failed") /\ UNCHANGED <<cur, task, keyFile>>
  BY <1>1, <1>2, QuitInvariant DEF Quit, IndInv, TypeOK
<1>3. ASSUME ~flowFailed, keyFile' = [keyFile EXCEPT ![cur] = FALSE],
             IF MoreUsers
               THEN Enter("flow", cur + 1, FlowSteps) /\ UNCHANGED exit
               ELSE Quit("ok") /\ UNCHANGED <<cur, task>>
      PROVE  IndInv'
  <2>1. inflight = {}
    BY <1>1, <1>3, IdleIsNoTx DEF IndInv, Quiet, Smooth, TypeOK
  <2>2. ~HoldsPrincipal(cur)
    <3>1. \A step : ~Ahead(step)
      BY <1>1 DEF Ahead
    <3>2. QED
      BY <1>1, <1>3, <3>1 DEF IndInv, Empties, HoldsPrincipal
  <2>3. \A u \in Users : keyFile'[u] <=> keyFile[u] /\ u # cur
    BY <1>3 DEF IndInv, TypeOK
  <2>4. \A u \in Users : ~keyFile'[u] => ~HoldsPrincipal(u)' /\ ~Pending(u)'
    BY <1>1, <2>1, <2>2, <2>3 DEF IndInv, Keys, HoldsPrincipal, Pending
  <2>5. \A u \in Users : keyFile'[u] <=> u >= cur + 1
    BY <1>1, <2>3 DEF IndInv, Keys, Users
  <2>6. keyFile' \in [Users -> BOOLEAN]
    BY <1>3 DEF IndInv, TypeOK
  <2>7. CASE MoreUsers
    <3>1. /\ phase' = "flow" /\ cur' = cur + 1 /\ task' = FlowSteps
          /\ exit' = exit
      BY <1>3, <2>7 DEF Enter
    <3>2. cur + 1 \in Users
      BY <1>1, <2>7, FirstUser DEF MoreUsers, Users
    <3>3. TypeOK'
      BY <1>1, <2>6, <3>1, <3>2, StepTypes DEF IndInv, TypeOK
    <3>4. Loops' /\ Waiting' /\ Quiet' /\ Empties'
      BY <1>1, <1>3, <2>1, <3>1
         DEF IndInv, Loops, Waiting, Quiet, Empties
    <3>5. Keys'
      BY <1>1, <2>4, <2>5, <3>1 DEF Keys
    <3>6. Closes'
      BY <1>1, <3>1 DEF Closes, FlowSteps, Landed
    <3>7. QED
      BY <3>3, <3>4, <3>5, <3>6 DEF IndInv
  <2>8. CASE ~MoreUsers
    <3>1. /\ phase' = "end" /\ exit' = "ok" /\ cur' = cur /\ task' = task
          /\ cur = NUsers
      BY <1>1, <1>3, <2>8, FirstUser DEF Quit, MoreUsers, Users
    <3>2. TypeOK'
      BY <1>1, <2>6, <3>1 DEF IndInv, TypeOK
    <3>3. Loops' /\ Waiting' /\ Quiet' /\ Closes' /\ Empties'
      BY <3>1 DEF Loops, Waiting, Quiet, Smooth, Closes, Empties
    <3>4. \A u \in Users : ~keyFile'[u]
      BY <1>1, <2>5, <3>1 DEF Users
    <3>5. Keys'
      BY <2>4, <3>1, <3>4 DEF Keys
    <3>6. QED
      BY <3>2, <3>3, <3>5 DEF IndInv
  <2>9. QED
    BY <2>7, <2>8
<1>4. CASE flowFailed /\ Quit("failed") /\ UNCHANGED <<cur, task, keyFile>>
  BY <1>2, <1>4
<1>5. QED
  BY <1>2, <1>3, <1>4 DEF FinishReclaim, RemoveKey

-----------------------------------------------------------------------------
(***************************************************************************)
(* The theorems                                                            *)
(***************************************************************************)
\* A step of the process, a kill or a step of the chain preserves IndInv.
LEMMA StepInvariant == IndInv /\ [Next]_vars => IndInv'
<1> SUFFICES ASSUME IndInv, [Next]_vars PROVE IndInv'
  OBVIOUS
<1>1. CASE Process
  BY <1>1, SaveKeyInvariant, SkipStepInvariant, SubmitStepInvariant,
     StepFailsInvariant, ReplyOkInvariant, FinishStartupInvariant,
     FinishRollbackInvariant, SetupFailsInvariant, FinishFlowInvariant,
     FinishReclaimInvariant DEF Process
<1>2. CASE Kill
  BY <1>2, KillInvariant
<1>3. CASE Chain
  BY <1>3, LandInvariant, DropInvariant DEF Chain
<1>4. CASE UNCHANGED vars
  <2>1. TypeOK' /\ Loops' /\ Waiting' /\ Quiet'
    BY <1>4 DEF vars, IndInv, TypeOK, Loops, Waiting, Quiet, Smooth
  <2>2. Keys' /\ Closes' /\ Empties'
    BY <1>4 DEF vars, IndInv, Keys, HoldsPrincipal, Pending, Closes, Empties,
                Landed, Ahead
  <2>3. QED
    BY <2>1, <2>2 DEF IndInv
<1>5. QED
  BY <1>1, <1>2, <1>3, <1>4 DEF Next

\* The command, the kills and the chain preserve the invariant in every order.
THEOREM Invariance == Spec => []IndInv
<1>1. QED
  BY InitInvariant, StepInvariant, PTL DEF Spec

\* No balance becomes negative, and every variable keeps its type.
THEOREM TypeCorrect == Spec => []TypeOK
<1>1. IndInv => TypeOK
  BY DEF IndInv
<1>2. QED
  BY <1>1, Invariance, PTL

\* Whatever fails, is killed or lands late in execute_user_flows, for any
\* number of pools: what a user owns has its key on disk.
THEOREM FundsAreWithinReach == Spec => []FundsKeepTheirKey
<1>1. IndInv => FundsKeepTheirKey
  BY DEF IndInv, Keys, FundsKeepTheirKey
<1>2. QED
  BY <1>1, Invariance, PTL

\* A command that reports success has emptied every user.
THEOREM SuccessIsRecovery == Spec => []SuccessMeansRecovered
<1>1. IndInv => SuccessMeansRecovered
  BY DEF IndInv, Keys, SuccessMeansRecovered
<1>2. QED
  BY <1>1, Invariance, PTL

\* No transaction of an earlier user lands during a later user's flow.
THEOREM NoOverlap == Spec => []FlowsDoNotOverlap
<1>1. IndInv => FlowsDoNotOverlap
  <2> SUFFICES ASSUME IndInv, phase = "flow", NEW u \in 1 .. (cur - 1)
               PROVE  ~Pending(u) /\ ~HoldsPrincipal(u)
    BY DEF FlowsDoNotOverlap
  <2>1. u \in Users /\ ~(u >= cur)
    BY FirstUser DEF IndInv, TypeOK, Users
  <2>2. QED
    BY <2>1 DEF IndInv, Keys
<1>2. QED
  BY <1>1, Invariance, PTL

\* The rollback ends after the last funded user, whatever fails on the way.
THEOREM RollbackIsComplete == Spec => RollbackVisitsAllFunded
<1> DEFINE Visits == phase = "rollback" /\ exit' = "failed" => cur = funded
<1>1. IndInv /\ [Next]_vars => [Visits]_vars
  <2> SUFFICES ASSUME IndInv, Next, phase = "rollback", exit' = "failed"
               PROVE  cur = funded
    OBVIOUS
  <2>1. exit = "running" /\ cur <= funded /\ cur \in Nat /\ funded \in Nat
    BY DEF IndInv, Loops, TypeOK, Users
  <2>2. ASSUME NextRollback PROVE cur = funded
    BY <2>1, <2>2 DEF NextRollback, Enter
  <2>3. CASE StepFails \/ ReplyError
    BY <2>2, <2>3 DEF StepFails, ReplyError, Fail
  <2>4. CASE FinishRollback
    BY <2>2, <2>4 DEF FinishRollback
  <2>5. CASE SaveKey \/ SetupFails \/ FinishStartup \/ FinishFlow \/ FinishReclaim
    BY <2>5 DEF SaveKey, SetupFails, FinishStartup, FinishFlow, FinishReclaim,
                AtEnd
  <2>6. CASE SkipStep \/ SubmitStep \/ ReplyOk
    BY <2>1, <2>6 DEF SkipStep, SubmitStep, ReplyOk
  <2>7. CASE Kill
    BY <2>7 DEF Kill, Quit
  <2>8. CASE Chain
    BY <2>1, <2>8 DEF Chain, Land, Drop, processVars
  <2>9. QED
    BY <2>3, <2>4, <2>5, <2>6, <2>7, <2>8 DEF Next, Process
<1>2. QED
  BY <1>1, Invariance, PTL DEF Spec, RollbackVisitsAllFunded
=============================================================================
