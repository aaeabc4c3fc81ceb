------------------------------ MODULE UserFlow ------------------------------
(***************************************************************************)
(* The user-flow command of services/raydium-clmm-orchestrator: generate a *)
(* user per pool, save its key, fund it from the faucet, run every user's  *)
(* CLMM flow and return what it holds.  The process may be killed at any   *)
(* await; the key files and the chain survive it.                          *)
(*                                                                         *)
(* Every transaction goes through ChainClient::submit and is awaited with  *)
(* the promise of TxPromise: "ok" once it took effect, an error before it  *)
(* was sent, or an error after which it may still take effect.             *)
(***************************************************************************)
EXTENDS Naturals, Sequences

CONSTANTS
    NUsers,        \* number of pools, one ephemeral user each
    RewardUsers,   \* users whose pool pays a reward in a third mint
    UserLamports   \* args.user_lamports, in units of one account's rent

Users == 1 .. NUsers

ASSUME UserFlowAssumption ==
    /\ NUsers \in Nat \ {0}
    /\ RewardUsers \subseteq Users
    /\ UserLamports \in Nat

VARIABLES
    phase,       \* the loop the process is in
    cur,         \* the user that loop is at
    task,        \* steps left for that user
    awaiting,    \* the transaction whose submit is awaited
    confirmed,   \* it has taken effect
    funded,      \* Len(funded_users)
    flowFailed,  \* flow.is_err()
    exit,        \* how the process ended
    keyFile,     \* keyFile[u]: recovery keypair of u is on disk
    acct,        \* what u owns on chain
    inflight     \* sent transactions that may still take effect

processVars == <<phase, cur, task, awaiting, funded, flowFailed, exit>>
vars == <<phase, cur, task, awaiting, confirmed, funded, flowFailed, exit,
          keyFile, acct, inflight>>

\* Mutant: the position is never closed.
FlowWithoutClose ==
    <<"fund", "open", "increase", "swapIn", "swapOut", "decrease", "collect">>

\* run_user_flow, in order.
FlowSteps ==
    <<"fund", "open", "increase", "swapIn", "swapOut", "decrease", "collect",
      "close">>

\* reclaim_user_funds, in order.
ReclaimSteps == <<"returnA", "returnB", "sweep">>

Step == {"startup", "fund", "open", "increase", "swapIn", "swapOut",
         "decrease", "collect", "close", "returnA", "returnB", "sweep"}

Idle == [user |-> 0, step |-> "startup", amount |-> 0]   \* nothing awaited
Tx == [user : Users, step : Step, amount : Nat]

Account ==
    [sol : Nat, ataA : BOOLEAN, ataB : BOOLEAN, tokA : Nat, tokB : Nat,
     nft : BOOLEAN, liq : Nat, ataR : BOOLEAN]

NewAccount ==
    [sol |-> 0, ataA |-> FALSE, ataB |-> FALSE, tokA |-> 0, tokB |-> 0,
     nft |-> FALSE, liq |-> 0, ataR |-> FALSE]

TypeOK ==
    /\ phase \in {"save", "startup", "rollback", "flow", "reclaim", "end"}
    /\ cur \in Users
    /\ task \in Seq(Step)
    /\ awaiting \in Tx \cup {Idle}
    /\ confirmed \in BOOLEAN
    /\ funded \in 0 .. NUsers
    /\ flowFailed \in BOOLEAN
    /\ exit \in {"running", "ok", "failed", "killed"}
    /\ keyFile \in [Users -> BOOLEAN]
    /\ acct \in [Users -> Account]
    /\ inflight \subseteq Tx

Init ==
    /\ phase = "save"
    /\ cur = 1
    /\ task = <<>>
    /\ awaiting = Idle
    /\ confirmed = FALSE
    /\ funded = 0
    /\ flowFailed = FALSE
    /\ exit = "running"
    /\ keyFile = [u \in Users |-> FALSE]
    /\ acct = [u \in Users |-> NewAccount]
    /\ inflight = {}

-----------------------------------------------------------------------------
(***************************************************************************)
(* The chain: what each transaction does to the user's accounts.  Opening  *)
(* an account costs its owner one unit of rent, closing it returns it.     *)
(***************************************************************************)
Rent(missing) == IF missing THEN 1 ELSE 0

\* Rent of the pool ATAs a step creates idempotently, and of the reward ATA.
AtaRent(a) == Rent(~a.ataA) + Rent(~a.ataB)
RewardRent(u, a) == Rent(u \in RewardUsers /\ ~a.ataR)

\* Whether the transaction can execute in the present state of the chain.
Executable(tx) ==
    LET a == acct[tx.user] IN
    CASE tx.step = "startup"  -> TRUE
      [] tx.step = "fund"     -> a.sol >= AtaRent(a)
      [] tx.step = "open"     -> a.ataA /\ a.ataB /\ a.tokA > 0 /\ a.tokB > 0
                                   /\ a.sol >= 1
      [] tx.step = "increase" -> a.ataA /\ a.ataB /\ a.tokA > 0 /\ a.tokB > 0
                                   /\ a.nft
      [] tx.step = "swapIn"   -> a.ataA /\ a.tokA > 0 /\ a.sol >= AtaRent(a)
      [] tx.step = "swapOut"  -> a.ataB /\ a.tokB > 0 /\ a.sol >= AtaRent(a)
      [] tx.step \in {"decrease", "collect"} ->
             a.nft /\ a.sol >= AtaRent(a) + RewardRent(tx.user, a)
      [] tx.step = "close"    -> a.nft /\ a.liq = 0
      [] tx.step = "returnA"  -> a.ataA /\ a.tokA = tx.amount
      [] tx.step = "returnB"  -> a.ataB /\ a.tokB = tx.amount
      [] tx.step = "sweep"    -> a.sol >= tx.amount

WithAtas(a) ==
    [a EXCEPT !.sol = @ - AtaRent(a), !.ataA = TRUE, !.ataB = TRUE]

WithReward(u, a) ==
    [a EXCEPT !.sol = @ - RewardRent(u, a), !.ataR = @ \/ u \in RewardUsers]

Minted == 3   \* tokens of each mint in funding_a and funding_b

Effect(tx) ==
    LET u == tx.user
        a == acct[u]
    IN
    CASE tx.step = "startup"  -> [a EXCEPT !.sol = @ + tx.amount]
      [] tx.step = "fund"     ->
             [WithAtas(a) EXCEPT !.tokA = @ + Minted, !.tokB = @ + Minted]
      [] tx.step = "open"     ->
             [a EXCEPT !.sol = @ - 1, !.nft = TRUE, !.liq = @ + 1,
                       !.tokA = @ - 1, !.tokB = @ - 1]
      [] tx.step = "increase" ->
             [a EXCEPT !.liq = @ + 1, !.tokA = @ - 1, !.tokB = @ - 1]
      [] tx.step = "swapIn"   ->
             [WithAtas(a) EXCEPT !.tokA = @ - 1, !.tokB = @ + 1]
      [] tx.step = "swapOut"  ->
             [WithAtas(a) EXCEPT !.tokB = @ - 1, !.tokA = @ + 1]
      [] tx.step = "decrease" ->
             [WithReward(u, WithAtas(a)) EXCEPT
                 !.tokA = @ + a.liq, !.tokB = @ + a.liq, !.liq = 0]
      [] tx.step = "collect"  -> WithReward(u, WithAtas(a))
      [] tx.step = "close"    -> [a EXCEPT !.sol = @ + 1, !.nft = FALSE]
      [] tx.step = "returnA"  -> [a EXCEPT !.tokA = 0, !.ataA = FALSE]
      [] tx.step = "returnB"  -> [a EXCEPT !.tokB = 0, !.ataB = FALSE]
      [] tx.step = "sweep"    -> [a EXCEPT !.sol = @ - tx.amount]

\* The transaction takes effect, perhaps long after its caller was told that
\* its fate is unknown.
Land(tx) ==
    /\ Executable(tx)
    /\ acct' = [acct EXCEPT ![tx.user] = Effect(tx)]
    /\ inflight' = inflight \ {tx}
    /\ confirmed' = (confirmed \/ tx = awaiting)
    /\ UNCHANGED <<processVars, keyFile>>

\* It fails on chain, or its blockhash expires.
Drop(tx) ==
    /\ inflight' = inflight \ {tx}
    /\ UNCHANGED <<processVars, confirmed, keyFile, acct>>

Chain == \E tx \in inflight : Land(tx) \/ Drop(tx)

-----------------------------------------------------------------------------
(***************************************************************************)
(* The process                                                             *)
(***************************************************************************)
Quit(how) == exit' = how /\ phase' = "end"

Enter(ph, u, steps) == phase' = ph /\ cur' = u /\ task' = steps

\* The key of the next user is written, or the process gives up.
SaveKey ==
    /\ phase = "save"
    /\ \/ /\ keyFile' = [keyFile EXCEPT ![cur] = TRUE]
          /\ Enter("startup", cur, <<"startup">>)
          /\ UNCHANGED exit
       \/ /\ Quit("failed")
          /\ UNCHANGED <<cur, task, keyFile>>
    /\ UNCHANGED <<awaiting, confirmed, funded, flowFailed, acct, inflight>>

\* Mutant: the loop runs past the last user.
OneUserTooMany == cur <= NUsers

\* The for loop has another user.
MoreUsers == cur < NUsers

\* What the process reads of the chain before it submits a reclaim step.
Observed(step) ==
    CASE step = "startup" -> UserLamports
      [] step = "returnA" -> acct[cur].tokA
      [] step = "returnB" -> acct[cur].tokB
      [] step = "sweep"   -> acct[cur].sol
      [] OTHER            -> 0

\* return_token_balance of a missing account, or a sweep of nothing.
NothingToDo(step) ==
    \/ step = "returnA" /\ ~acct[cur].ataA
    \/ step = "returnB" /\ ~acct[cur].ataB
    \/ step = "sweep" /\ acct[cur].sol = 0

\* A step of the present loop may begin: no submit is awaited.
AtStep ==
    /\ exit = "running"
    /\ awaiting = Idle
    /\ task # <<>>

SkipStep ==
    /\ AtStep
    /\ NothingToDo(Head(task))
    /\ task' = Tail(task)
    /\ UNCHANGED <<phase, cur, awaiting, confirmed, funded, flowFailed, exit,
                   keyFile, acct, inflight>>

\* The step reads what it needs and hands its transaction to submit.
SubmitStep ==
    /\ AtStep
    /\ ~NothingToDo(Head(task))
    /\ Head(task) = "startup" => UserLamports > 0
    /\ awaiting' = [user |-> cur, step |-> Head(task),
                    amount |-> Observed(Head(task))]
    /\ inflight' = inflight \cup {awaiting'}
    /\ confirmed' = FALSE
    /\ UNCHANGED <<phase, cur, task, funded, flowFailed, exit, keyFile, acct>>

\* Mutant: an ambiguous confirmation is taken for success.
TrustAmbiguous ==
    /\ exit = "running"
    /\ awaiting # Idle
    /\ awaiting' = Idle
    /\ confirmed' = FALSE
    /\ task' = Tail(task)
    /\ UNCHANGED <<phase, cur, funded, flowFailed, exit, keyFile, acct, inflight>>

\* Ok(SubmissionOutcome): on to the next step.
ReplyOk ==
    /\ exit = "running"
    /\ awaiting # Idle
    /\ confirmed
    /\ awaiting' = Idle
    /\ confirmed' = FALSE
    /\ task' = Tail(task)
    /\ UNCHANGED <<phase, cur, funded, flowFailed, exit, keyFile, acct, inflight>>

\* The first loop failed: reclaim from those funded so far, then quit.
AbandonFunding ==
    IF funded = 0
      THEN Quit("failed") /\ UNCHANGED <<cur, task, flowFailed>>
      ELSE Enter("rollback", 1, ReclaimSteps) /\ UNCHANGED <<flowFailed, exit>>

\* The flow failed: its outcome is kept and the funds are reclaimed first.
AbandonFlow ==
    /\ flowFailed' = TRUE
    /\ Enter("reclaim", cur, ReclaimSteps)
    /\ UNCHANGED exit

\* Mutant: the first reclaim error ends the rollback.
StopRollback == Quit("failed") /\ UNCHANGED <<cur, task>>

\* Rollback ignores a user whose reclaim fails and goes on with the next one.
NextRollback ==
    IF cur < funded
      THEN Enter("rollback", cur + 1, ReclaimSteps) /\ UNCHANGED exit
      ELSE Quit("failed") /\ UNCHANGED <<cur, task>>

\* What an error of the present step leads to.
Fail ==
    \/ phase = "startup" /\ AbandonFunding
    \/ phase = "rollback" /\ NextRollback /\ UNCHANGED flowFailed
    \/ phase = "flow" /\ AbandonFlow
    \/ /\ phase = "reclaim"
       /\ Quit("failed")
       /\ UNCHANGED <<cur, task, flowFailed>>

\* A read, a check, the signing or the simulation failed: nothing was sent.
StepFails ==
    /\ AtStep
    /\ Fail
    /\ UNCHANGED <<awaiting, confirmed, funded, keyFile, acct, inflight>>

\* Submission, Execution or AmbiguousConfirmation: the transaction has taken
\* effect, still may, or never will.
ReplyError ==
    /\ exit = "running"
    /\ awaiting # Idle
    /\ Fail
    /\ awaiting' = Idle
    /\ confirmed' = FALSE
    /\ UNCHANGED <<funded, keyFile, acct, inflight>>

\* All steps of the present user are done.
AtEnd(ph) ==
    /\ exit = "running"
    /\ phase = ph
    /\ awaiting = Idle
    /\ task = <<>>

\* funded_users.push; after the last one the second loop starts.
FinishStartup ==
    /\ AtEnd("startup")
    /\ funded' = cur
    /\ IF MoreUsers
         THEN Enter("save", cur + 1, <<>>)
         ELSE Enter("flow", 1, FlowSteps)
    /\ UNCHANGED <<awaiting, confirmed, flowFailed, exit, keyFile, acct, inflight>>

FinishRollback ==
    /\ AtEnd("rollback")
    /\ NextRollback
    /\ UNCHANGED <<awaiting, confirmed, funded, flowFailed, keyFile, acct, inflight>>

\* RaydiumClmmOrchestrator::new(..)? fails before the user's flow starts.
SetupFails ==
    /\ AtStep
    /\ phase = "flow"
    /\ task = FlowSteps
    /\ Quit("failed")
    /\ UNCHANGED <<cur, task, awaiting, confirmed, funded, flowFailed, keyFile,
                   acct, inflight>>

FinishFlow ==
    /\ AtEnd("flow")
    /\ Enter("reclaim", cur, ReclaimSteps)
    /\ UNCHANGED <<awaiting, confirmed, funded, flowFailed, exit, keyFile, acct,
                   inflight>>

\* Mutant: the key is removed when the recovery succeeded, whatever the flow did.
RemoveAnyRecoveredKey ==
    /\ keyFile' = [keyFile EXCEPT ![cur] = FALSE]
    /\ IF flowFailed \/ ~MoreUsers
         THEN /\ Quit(IF flowFailed THEN "failed" ELSE "ok")
              /\ UNCHANGED <<cur, task>>
         ELSE Enter("flow", cur + 1, FlowSteps) /\ UNCHANGED exit

\* flow? and recovery? return before the key file is removed.
RemoveKey ==
    \/ /\ flowFailed
       /\ Quit("failed")
       /\ UNCHANGED <<cur, task, keyFile>>
    \/ /\ ~flowFailed
       /\ keyFile' = [keyFile EXCEPT ![cur] = FALSE]
       /\ IF MoreUsers
            THEN Enter("flow", cur + 1, FlowSteps) /\ UNCHANGED exit
            ELSE Quit("ok") /\ UNCHANGED <<cur, task>>
    \/ /\ ~flowFailed
       /\ Quit("failed")
       /\ UNCHANGED <<cur, task, keyFile>>

FinishReclaim ==
    /\ AtEnd("reclaim")
    /\ RemoveKey
    /\ UNCHANGED <<awaiting, confirmed, funded, flowFailed, acct, inflight>>

\* The process is killed; what it sent is still on its way.
Kill ==
    /\ exit = "running"
    /\ Quit("killed")
    /\ awaiting' = Idle
    /\ UNCHANGED <<cur, task, confirmed, funded, flowFailed, keyFile, acct,
                   inflight>>

Process ==
    \/ SaveKey \/ SkipStep \/ SubmitStep \/ StepFails \/ ReplyOk \/ ReplyError
    \/ FinishStartup \/ FinishRollback \/ SetupFails \/ FinishFlow
    \/ FinishReclaim

Next == Process \/ Kill \/ Chain

Spec == Init /\ [][Next]_vars

-----------------------------------------------------------------------------
(***************************************************************************)
(* Properties                                                              *)
(***************************************************************************)

\* SOL, pool tokens or a position that only the user's key can move.
HoldsPrincipal(u) ==
    LET a == acct[u]
    IN a.sol > 0 \/ a.ataA \/ a.ataB \/ a.nft

Pending(u) == \E tx \in inflight : tx.user = u

\* Whatever fails, is killed or lands late, a user that owns SOL, a token
\* account of its pool or a position still has its key file on disk.
FundsKeepTheirKey == \A u \in Users : HoldsPrincipal(u) => keyFile[u]

\* When the command succeeds no user holds SOL, a token account of its pool or
\* a position, its key is gone and none of its transactions can land any more.
\* The rent of a reward token account is not in it (WithReward).
SuccessMeansRecovered ==
    exit = "ok" =>
        \A u \in Users : ~HoldsPrincipal(u) /\ ~keyFile[u] /\ ~Pending(u)

\* A rollback goes through all funded users: an error while reclaiming from
\* one of them does not keep the faucet from getting back the others' funds.
RollbackVisitsAllFunded ==
    [][phase = "rollback" /\ exit' = "failed" => cur = funded]_vars

\* Every transaction of a user is settled before the next user's flow starts,
\* so one user's late effects never overlap another user's flow.
FlowsDoNotOverlap ==
    phase = "flow" =>
        \A u \in 1 .. (cur - 1) : ~Pending(u) /\ ~HoldsPrincipal(u)

=============================================================================
