---------------------------- MODULE Submission ----------------------------
(***************************************************************************)
(* ChainClient::submit of crates/mtm-chain: build and sign once, simulate, *)
(* send with transport retries, poll for the commitment.  One action per   *)
(* await; the code between two awaits runs in the step that ends the first *)
(* one.  Sleeps between polls and retries are not steps of their own.      *)
(***************************************************************************)
EXTENDS ChainClient

CONSTANT MaxSendAttempts   \* config.max_send_attempts

ASSUME SubmissionAssumption == MaxSendAttempts \in Nat

VARIABLES
    lastValid,  \* last_valid_block_height
    late        \* started.elapsed() >= config.confirmation_timeout

callVars == <<pc, signed, lastValid, attempt, late, result>>
vars == <<height, pool, level, ok, pc, signed, lastValid, attempt, late, result>>

PreSendErrors == {"Blockhash", "Signing", "SimulationRpc", "Simulation"}
SubmissionErrors ==
    PreSendErrors \cup {"Submission", "Execution", "AmbiguousConfirmation"}
Result == SubmissionErrors \cup {"Pending", "Ok"}

\* let attempts = config.max_send_attempts.max(1)
Attempts == IF MaxSendAttempts = 0 THEN 1 ELSE MaxSendAttempts

TypeOK ==
    /\ ClusterTypeOK
    /\ pc \in {"blockhash", "simulate", "send", "status", "height", "done"}
    /\ signed \in Blockhash
    /\ lastValid \in Nat
    /\ attempt \in 1 .. Attempts
    /\ late \in BOOLEAN
    /\ result \in Result

Init ==
    /\ ClusterInit
    /\ pc = "blockhash"
    /\ signed = 0
    /\ lastValid = 0
    /\ attempt = 1
    /\ late = FALSE
    /\ result = "Pending"

-----------------------------------------------------------------------------
\* get_latest_blockhash_with_commitment, then try_sign, which needs no await.
GetBlockhash ==
    /\ pc = "blockhash"
    /\ \/ /\ Return("Blockhash")
          /\ UNCHANGED <<signed, lastValid>>
       \/ /\ signed' = height
          /\ lastValid' = LastValid(height)
          /\ GoTo("simulate") \/ Return("Signing")
    /\ UNCHANGED <<clusterVars, attempt, late>>

\* Mutant: the simulation result is looked at after the transaction is sent.
SimulateAfterSending ==
    /\ pc = "simulate"
    /\ Deliver(signed)
    /\ \/ \E e \in {"SimulationRpc", "Simulation"} : Return(e)
       \/ GoTo("send")
    /\ UNCHANGED <<height, level, ok, signed, lastValid, attempt, late>>

\* A transaction whose simulation fails, or cannot be run, is never sent.
Simulate ==
    /\ pc = "simulate"
    /\ \/ \E e \in {"SimulationRpc", "Simulation"} : Return(e)
       \/ GoTo("send")
    /\ UNCHANGED <<clusterVars, signed, lastValid, attempt, late>>

\* The node took the bytes and answered with their signature.
SendAccepted ==
    /\ pc = "send"
    /\ Deliver(signed)
    /\ GoTo("status")
    /\ UNCHANGED <<height, level, ok, signed, lastValid, attempt, late>>

\* The node answered with some other signature.
SendMismatched ==
    /\ pc = "send"
    /\ MayDeliver(signed)
    /\ Return("AmbiguousConfirmation")
    /\ UNCHANGED <<height, level, ok, signed, lastValid, attempt, late>>

\* Mutant: one attempt too many.
MayRetryOnceMore == attempt <= Attempts

MayRetry == attempt < Attempts

\* Mutant: a retry refreshes the blockhash and signs again.
RebuildOnTransportError ==
    /\ pc = "send"
    /\ MayDeliver(signed)
    /\ MayRetry
    /\ attempt' = attempt + 1
    /\ signed' = height
    /\ lastValid' = LastValid(height)
    /\ GoTo("send")
    /\ UNCHANGED <<height, level, ok, late>>

\* is_transport_error: the answer was lost, the bytes perhaps not.  The same
\* bytes are sent again; after the last attempt the call polls all the same.
SendTransportError ==
    /\ pc = "send"
    /\ MayDeliver(signed)
    /\ \/ /\ MayRetry
          /\ attempt' = attempt + 1
          /\ GoTo("send")
       \/ /\ ~MayRetry
          /\ GoTo("status")
          /\ UNCHANGED attempt
    /\ UNCHANGED <<height, level, ok, signed, lastValid, late>>

\* Any other error: this request was refused by the node.
SendRefused ==
    /\ pc = "send"
    /\ Return("Submission")
    /\ UNCHANGED <<clusterVars, signed, lastValid, attempt, late>>

Send == SendAccepted \/ SendMismatched \/ SendTransportError \/ SendRefused

\* Mutant: any status counts as confirmation.
SatisfiesAny(reached) == reached >= Processed

\* status.satisfies_commitment(config.commitment)
Satisfies(reached) == reached >= Commitment

\* Mutant: status.err is not looked at.
NeverFailed(b) == FALSE

\* status.err is Some
Failed(b) == ~ok[b]

\* get_signature_statuses: the call fails, or the node does not know the
\* signature (it may lag behind), or it reports the state of its fork.
GetStatus ==
    /\ pc = "status"
    /\ \/ Return("AmbiguousConfirmation")
       \/ GoTo("height")
       \/ /\ level[signed] # Absent
          /\ \/ /\ Failed(signed)
                /\ Return("Execution")
             \/ /\ ~Failed(signed)
                /\ Satisfies(level[signed])
                /\ Return("Ok")
             \/ /\ ~Failed(signed)
                /\ ~Satisfies(level[signed])
                /\ GoTo("height")
    /\ UNCHANGED <<clusterVars, signed, lastValid, attempt, late>>

\* Mutant: the confirmation timeout is not checked.
PollOnlyForExpiry(h) == h > lastValid

\* The blockhash expired with no status seen, or the deadline elapsed.
GiveUp(h) == h > lastValid \/ late

\* get_block_height, from a node that may lag, then the two local checks.
GetBlockHeight ==
    /\ pc = "height"
    /\ \/ Return("AmbiguousConfirmation")
       \/ \E h \in 0 .. height :
            IF GiveUp(h)
              THEN Return("AmbiguousConfirmation")
              ELSE GoTo("status")
    /\ UNCHANGED <<clusterVars, signed, lastValid, attempt, late>>

\* Time passes: the confirmation timeout runs out.
DeadlineElapses ==
    /\ pc \in {"status", "height"}
    /\ ~late
    /\ late' = TRUE
    /\ UNCHANGED <<clusterVars, pc, signed, lastValid, attempt, result>>

Call == GetBlockhash \/ Simulate \/ Send \/ GetStatus \/ GetBlockHeight

Next ==
    \/ Call
    \/ DeadlineElapses
    \/ ClusterNext /\ UNCHANGED callVars

Spec == Init /\ [][Next]_vars

\* RpcClient gives every request a timeout, so each await ends; time passes.
\* Nothing is assumed of the cluster: it may stop making blocks.
FairSpec == Spec /\ WF_vars(Call) /\ WF_vars(DeadlineElapses)

-----------------------------------------------------------------------------
(***************************************************************************)
(* Properties                                                              *)
(***************************************************************************)

\* Transport retries reuse the signed bytes, so over all forks, lost answers
\* and duplicated deliveries one signature at most ever reaches the chain.
ExecutedAtMostOnce ==
    \A a, b \in Blockhash : level[a] # Absent /\ level[b] # Absent => a = b

\* An error raised up to the simulation is final: the transaction is on no
\* fork, now or later, and the caller may safely start again.
PreSendErrorsAreFinal ==
    result \in PreSendErrors => \A b \in Blockhash : level[b] = Absent

\* Ok is returned only for the execution of the transaction this call signed,
\* and with a firm commitment no abandoned fork can take that execution back.
OkIsFinal ==
    result = "Ok" => signed \in Executed(Commitment)

\* Every call returns, whatever the cluster does: the confirmation timeout
\* ends the polling even when the node's block height stands still.
CallReturns == <>(pc = "done")

\* The reply as the abstract promise knows it.  "Submission" and "Execution"
\* are as uncertain as "AmbiguousConfirmation" for a caller that must not
\* execute twice: see DefiniteErrorsAreFinal and ExecutionErrorIsFinal.
AbstractReply ==
    IF result = "Pending" THEN "pending"
    ELSE IF result = "Ok" THEN "ok"
    ELSE IF result \in PreSendErrors THEN "never" ELSE "unknown"

Promise == INSTANCE TxPromise WITH
    Effect <- Blockhash, effects <- Executed(Commitment), reply <- AbstractReply

\* With a firm commitment the call implements the promise its callers are
\* written against.
ImplementsPromise == Promise!PromiseSpec

-----------------------------------------------------------------------------
(***************************************************************************)
(* Claims the code does not live up to                                     *)
(***************************************************************************)

\* The error enum keeps a variant of its own for "confirmation is ambiguous";
\* "submission failed" should then mean that the transaction was not submitted.
\* A refused retry that follows a lost answer reports it all the same.
DefiniteErrorsAreFinal ==
    result = "Submission" => Executed(Commitment) = {}

\* "Transaction failed in slot" is reported from a status of any commitment:
\* the fork it failed on may be abandoned and the next one may execute it.
ExecutionErrorIsFinal ==
    result = "Execution" => Executed(Commitment) = {}
=============================================================================
