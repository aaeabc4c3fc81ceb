------------------------- MODULE ChainClient_proofs ------------------------
(***************************************************************************)
(* Proofs about the two senders of ChainClient, submit and, after it,      *)
(* send_instructions, for every bound on heights, every blockhash          *)
(* lifetime, every number of attempts and every commitment; what is said   *)
(* of Ok needs a firm one.                                                 *)
(***************************************************************************)
EXTENDS Submission, SendInstructions, FiniteSetTheorems, TLAPS

USE DEF Blockhash, Level, Absent, Processed, Confirmed, Finalized

-----------------------------------------------------------------------------
(***************************************************************************)
(* submit: its inductive invariant.  The properties alone are not          *)
(* inductive: that one transaction at most executes follows from what may  *)
(* be in the pool, and that from when the call sends.                      *)
(***************************************************************************)

\* Only the transaction this call signed was ever sent.
SentOnlySigned == pool \subseteq {signed}

\* The cluster executes only what a node accepted.
LandedWasSent == \A b \in Blockhash : level[b] # Absent => b \in pool

\* Nothing is sent before the simulation succeeded.
NothingSentYet ==
    pc \in {"blockhash", "simulate"} \/ result \in PreSendErrors => pool = {}

\* A result is there exactly when the call has returned.
ReturnedWithResult == pc = "done" <=> result # "Pending"

\* Ok stands, if the commitment is one that lasts.
FirmOk == Firm => OkIsFinal

IndInv ==
    /\ TypeOK
    /\ SentOnlySigned
    /\ LandedWasSent
    /\ NothingSentYet
    /\ ReturnedWithResult
    /\ FirmOk

-----------------------------------------------------------------------------
\* max_send_attempts.max(1) is a positive number.
LEMMA AttemptsPositive == Attempts \in Nat /\ Attempts >= 1
  BY SubmissionAssumption DEF Attempts

\* The initial state is well typed.
LEMMA TypeCorrectInit == Init => TypeOK
  <1> SUFFICES ASSUME Init PROVE TypeOK
    OBVIOUS
  <1>1. 0 \in Blockhash
    BY ClusterAssumption
  <1>2. ClusterTypeOK
    BY <1>1 DEF Init, ClusterInit, ClusterTypeOK
  <1>3. attempt \in 1 .. Attempts
    BY AttemptsPositive DEF Init
  <1>4. QED
    BY <1>1, <1>2, <1>3 DEF Init, TypeOK, Result

\* Every variable keeps its type in every state of every behaviour.
THEOREM TypeCorrect == Spec => []TypeOK
<1>1. Init => TypeOK
  BY TypeCorrectInit
<1>2. TypeOK /\ [Next]_vars => TypeOK'
  <2> SUFFICES ASSUME TypeOK, [Next]_vars PROVE TypeOK'
    OBVIOUS
  <2> USE ClusterAssumption, AttemptsPositive
      DEF TypeOK, ClusterTypeOK, clusterVars, callVars, Result,
          SubmissionErrors, PreSendErrors, Return, GoTo
  <2>1. CASE GetBlockhash
    BY <2>1 DEF GetBlockhash, LastValid
  <2>2. CASE Simulate
    BY <2>2 DEF Simulate
  <2>3. CASE SendAccepted
    BY <2>3 DEF SendAccepted, Deliver
  <2>4. CASE SendMismatched
    BY <2>4 DEF SendMismatched, MayDeliver, Deliver
  <2>5. CASE SendTransportError
    <3>1. ClusterTypeOK'
      BY <2>5 DEF SendTransportError, MayDeliver, Deliver
    <3>2. attempt' \in 1 .. Attempts
      BY <2>5 DEF SendTransportError, MayRetry
    <3>3. QED
      BY <2>5, <3>1, <3>2 DEF SendTransportError
  <2>6. CASE SendRefused
    BY <2>6 DEF SendRefused
  <2>7. CASE GetStatus
    BY <2>7 DEF GetStatus
  <2>8. CASE GetBlockHeight
    BY <2>8 DEF GetBlockHeight
  <2>9. CASE DeadlineElapses
    BY <2>9 DEF DeadlineElapses
  <2>10. CASE Block /\ UNCHANGED callVars
    BY <2>10 DEF Block
  <2>11. ASSUME NEW b \in Blockhash,
                Land(b) \/ Promote(b) \/ Abandon(b), UNCHANGED callVars
         PROVE  TypeOK'
    <3>1. CASE Land(b)
      <4>1. PICK o \in BOOLEAN : ok' = [ok EXCEPT ![b] = o]
        BY <3>1 DEF Land
      <4>2. QED
        BY <2>11, <3>1, <4>1 DEF Land
    <3>2. CASE Promote(b)
      <4>1. level[b] + 1 \in Level
        BY <3>2 DEF Promote
      <4>2. QED
        BY <2>11, <3>2, <4>1 DEF Promote
    <3>3. CASE Abandon(b)
      BY <2>11, <3>3 DEF Abandon
    <3>4. QED
      BY <2>11, <3>1, <3>2, <3>3
  <2>12. CASE UNCHANGED vars
    BY <2>12 DEF vars
  <2>13. QED
    BY <2>1, <2>2, <2>3, <2>4, <2>5, <2>6, <2>7, <2>8, <2>9, <2>10, <2>11,
       <2>12 DEF Next, Call, Send, ClusterNext
<1>3. QED
  BY <1>1, <1>2, PTL DEF Spec

-----------------------------------------------------------------------------
\* What a client step may do to the pool: send the signed transaction or not.
LEMMA CallStep ==
    ASSUME TypeOK, IndInv, Call
    PROVE  /\ UNCHANGED <<height, level, ok>>
           /\ pc # "done"
           /\ result = "Pending"
           /\ pc = "send" \/ pool' = pool
           /\ pool \subseteq pool'
           /\ pc = "send" => pool' \subseteq pool \cup {signed}
           /\ pc = "blockhash" \/ signed' = signed
           /\ pc' = "done" <=> result' # "Pending"
  <1> USE DEF IndInv, ReturnedWithResult, Return, GoTo, clusterVars
  <1>1. CASE GetBlockhash
    BY <1>1 DEF GetBlockhash
  <1>2. CASE Simulate
    BY <1>2 DEF Simulate
  <1>3. CASE SendAccepted
    BY <1>3 DEF SendAccepted, Deliver
  <1>4. CASE SendMismatched
    BY <1>4 DEF SendMismatched, MayDeliver, Deliver
  <1>5. CASE SendTransportError
    BY <1>5 DEF SendTransportError, MayDeliver, Deliver
  <1>6. CASE SendRefused
    BY <1>6 DEF SendRefused
  <1>7. CASE GetStatus
    BY <1>7 DEF GetStatus
  <1>8. CASE GetBlockHeight
    BY <1>8 DEF GetBlockHeight
  <1>9. QED
    BY <1>1, <1>2, <1>3, <1>4, <1>5, <1>6, <1>7, <1>8 DEF Call, Send

\* The results a client step can produce, by the await it ends.
LEMMA CallResult ==
    ASSUME TypeOK, IndInv, Call
    PROVE  /\ result' \in PreSendErrors => pc \in {"blockhash", "simulate"}
           /\ pc' \in {"blockhash", "simulate"} => pc = "blockhash"
           /\ result' = "Ok" => level[signed] >= Commitment /\ ok[signed]
           /\ result' = "Ok" => pc # "blockhash"
  <1> USE DEF IndInv, ReturnedWithResult, Return, GoTo, PreSendErrors
  <1>1. CASE GetBlockhash
    BY <1>1 DEF GetBlockhash
  <1>2. CASE Simulate
    BY <1>2 DEF Simulate
  <1>3. CASE Send
    BY <1>3 DEF Send, SendAccepted, SendMismatched, SendTransportError,
                SendRefused
  <1>4. CASE GetStatus
    BY <1>4 DEF GetStatus, Satisfies, Failed
  <1>5. CASE GetBlockHeight
    BY <1>5 DEF GetBlockHeight
  <1>6. QED
    BY <1>1, <1>2, <1>3, <1>4, <1>5 DEF Call

\* A cluster step keeps what is committed and executes only what was sent.
LEMMA ClusterStep ==
    ASSUME TypeOK, IndInv, ClusterNext
    PROVE  /\ pool' = pool
           /\ LandedWasSent'
           /\ Firm => \A b \in Blockhash : level[b] >= Commitment =>
                 level'[b] >= Commitment /\ ok'[b] = ok[b]
  <1> USE CommitmentAssumption
      DEF IndInv, TypeOK, ClusterTypeOK, LandedWasSent, Firm
  <1>1. CASE Block
    BY <1>1 DEF Block
  <1>2. ASSUME NEW b \in Blockhash, Land(b)
        PROVE  /\ pool' = pool
               /\ LandedWasSent'
               /\ Firm => \A a \in Blockhash : level[a] >= Commitment =>
                     level'[a] >= Commitment /\ ok'[a] = ok[a]
    <2>1. PICK o \in BOOLEAN : ok' = [ok EXCEPT ![b] = o]
      BY <1>2 DEF Land
    <2>2. QED
      BY <1>2, <2>1 DEF Land
  <1>3. ASSUME NEW b \in Blockhash, Promote(b)
        PROVE  /\ pool' = pool
               /\ LandedWasSent'
               /\ Firm => \A a \in Blockhash : level[a] >= Commitment =>
                     level'[a] >= Commitment /\ ok'[a] = ok[a]
    BY <1>3 DEF Promote
  <1>4. ASSUME NEW b \in Blockhash, Abandon(b)
        PROVE  /\ pool' = pool
               /\ LandedWasSent'
               /\ Firm => \A a \in Blockhash : level[a] >= Commitment =>
                     level'[a] >= Commitment /\ ok'[a] = ok[a]
    BY <1>4 DEF Abandon
  <1>5. QED
    BY <1>1, <1>2, <1>3, <1>4 DEF ClusterNext

\* The invariant holds throughout every behaviour.
THEOREM Invariance == Spec => []IndInv
<1>1. Init => IndInv
  <2> SUFFICES ASSUME Init PROVE IndInv
    OBVIOUS
  <2>1. TypeOK
    BY TypeCorrectInit
  <2>2. QED
    BY <2>1 DEF Init, ClusterInit, IndInv, SentOnlySigned, LandedWasSent,
       NothingSentYet, ReturnedWithResult, FirmOk, OkIsFinal
<1>2. IndInv /\ TypeOK' /\ [Next]_vars => IndInv'
  <2> SUFFICES ASSUME IndInv, TypeOK', [Next]_vars PROVE IndInv'
    OBVIOUS
  <2> USE DEF SentOnlySigned, LandedWasSent, NothingSentYet,
              ReturnedWithResult, FirmOk, OkIsFinal, Executed
  <2>0. TypeOK
    BY DEF IndInv
  <2>1. CASE Call
    <3>1. SentOnlySigned'
      <4>1. CASE pc = "blockhash"
        <5>1. pool = {} /\ pool' = pool
          BY <2>0, <2>1, <4>1, CallStep DEF IndInv
        <5>2. QED
          BY <5>1
      <4>2. CASE pc # "blockhash"
        <5>1. signed' = signed /\ pool' \subseteq pool \cup {signed}
          BY <2>0, <2>1, <4>2, CallStep
        <5>2. QED
          BY <5>1 DEF IndInv
      <4>3. QED
        BY <4>1, <4>2
    <3>2. LandedWasSent'
      BY <2>0, <2>1, CallStep DEF IndInv
    <3>3. NothingSentYet'
      BY <2>0, <2>1, CallStep, CallResult DEF IndInv
    <3>4. OkIsFinal'
      <4> SUFFICES ASSUME result' = "Ok" PROVE signed' \in Executed(Commitment)'
        BY DEF OkIsFinal
      <4>1. /\ level[signed] >= Commitment /\ ok[signed]
            /\ signed' = signed /\ level' = level /\ ok' = ok
        BY <2>0, <2>1, CallStep, CallResult
      <4>2. QED
        BY <2>0, <4>1 DEF TypeOK
    <3>5. QED
      BY <2>0, <2>1, <3>1, <3>2, <3>3, <3>4, CallStep DEF IndInv
  <2>2. CASE DeadlineElapses
    BY <2>2 DEF DeadlineElapses, IndInv, clusterVars
  <2>3. CASE ClusterNext /\ UNCHANGED callVars
    BY <2>0, <2>3, ClusterStep DEF IndInv, TypeOK, callVars
  <2>4. CASE UNCHANGED vars
    BY <2>4 DEF vars, IndInv
  <2>5. QED
    BY <2>1, <2>2, <2>3, <2>4 DEF Next
<1>3. QED
  BY <1>1, <1>2, TypeCorrect, PTL DEF Spec

\* At most one signed transaction is ever on the chain.
THEOREM AtMostOnce == Spec => []ExecutedAtMostOnce
<1>1. IndInv => ExecutedAtMostOnce
  BY DEF IndInv, SentOnlySigned, LandedWasSent, ExecutedAtMostOnce
<1>2. QED
  BY <1>1, Invariance, PTL

\* Errors raised before the transaction was sent are final.
THEOREM PreSendFinal == Spec => []PreSendErrorsAreFinal
<1>1. IndInv => PreSendErrorsAreFinal
  BY DEF IndInv, NothingSentYet, LandedWasSent, PreSendErrorsAreFinal
<1>2. QED
  BY <1>1, Invariance, PTL

\* Ok is final, for a call that asked for a firm commitment.
THEOREM OkFinal == ASSUME Firm PROVE Spec => []OkIsFinal
<1>1. IndInv => OkIsFinal
  BY DEF IndInv, FirmOk
<1>2. QED
  BY <1>1, Invariance, PTL

-----------------------------------------------------------------------------
(***************************************************************************)
(* Refinement: the call implements TxPromise.                              *)
(***************************************************************************)

\* A step of the client answers the caller, or is invisible.
LEMMA CallAnswers ==
    ASSUME Firm, IndInv, IndInv', Call
    PROVE  [Promise!PromiseNext]_(Promise!promiseVars)
  <1> DEFINE E == Executed(Commitment)
  <1>1. E' = E /\ result = "Pending" /\ AbstractReply = "pending"
    <2>1. TypeOK
      BY DEF IndInv
    <2>2. UNCHANGED <<level, ok>> /\ result = "Pending"
      BY <2>1, CallStep
    <2>3. QED
      BY <2>2 DEF Executed, AbstractReply
  <1>2. CASE result' = "Pending"
    BY <1>1, <1>2 DEF AbstractReply, Promise!promiseVars
  <1>3. CASE result' = "Ok"
    <2>1. AbstractReply' = "ok"
      BY <1>3 DEF AbstractReply
    <2>2. E # {}
      BY <1>1, <1>3 DEF IndInv, FirmOk, OkIsFinal
    <2>3. Promise!Answer("ok")
      BY <1>1, <2>1, <2>2 DEF Promise!Answer
    <2>4. QED
      BY <2>3 DEF Promise!PromiseNext
  <1>4. CASE result' \in PreSendErrors
    <2>1. AbstractReply' = "never"
      BY <1>4 DEF AbstractReply, PreSendErrors
    <2>2. \A b \in Blockhash : level'[b] = Absent
      BY <1>4 DEF IndInv, NothingSentYet, LandedWasSent
    <2>3. E' = {}
      BY <2>2, CommitmentAssumption DEF Executed
    <2>4. Promise!Answer("never")
      BY <1>1, <2>1, <2>3 DEF Promise!Answer
    <2>5. QED
      BY <2>4 DEF Promise!PromiseNext
  <1>5. CASE result' \notin {"Pending", "Ok"} /\ result' \notin PreSendErrors
    <2>1. AbstractReply' = "unknown"
      BY <1>5 DEF AbstractReply
    <2>2. Promise!Answer("unknown")
      BY <1>1, <2>1 DEF Promise!Answer
    <2>3. QED
      BY <2>2 DEF Promise!PromiseNext
  <1>6. QED
    BY <1>2, <1>3, <1>4, <1>5

\* A step of the cluster makes the instructions take effect, or is invisible.
LEMMA ClusterTakesEffect ==
    ASSUME Firm, IndInv, ClusterNext, UNCHANGED callVars
    PROVE  [Promise!PromiseNext]_(Promise!promiseVars)
  <1> DEFINE E == Executed(Commitment)
  <1> USE CommitmentAssumption DEF IndInv, TypeOK, ClusterTypeOK, Executed, Firm
  <1>0. AbstractReply' = AbstractReply
    BY DEF callVars, AbstractReply
  <1>1. CASE Block
    BY <1>0, <1>1 DEF Block, Promise!promiseVars
  <1>2. ASSUME NEW b \in Blockhash, Land(b) PROVE E' = E
    <2>1. PICK o \in BOOLEAN : ok' = [ok EXCEPT ![b] = o]
      BY <1>2 DEF Land
    <2>2. QED
      BY <1>2, <2>1 DEF Land
  <1>3. ASSUME NEW b \in Blockhash, Abandon(b) PROVE E' = E
    BY <1>3 DEF Abandon
  <1>4. ASSUME NEW b \in Blockhash, Promote(b), E' # E
        PROVE  Promise!TakeEffect
    <2>1. b \in pool /\ level[b] # Absent
      BY <1>4 DEF Promote, LandedWasSent
    <2>2. b \notin E /\ E' = E \cup {b}
      BY <1>4 DEF Promote
    <2>3. E = {}
      <3>1. ASSUME NEW a \in E PROVE a = b
        BY <2>1, <3>1 DEF SentOnlySigned, LandedWasSent
      <3>2. QED
        BY <2>2, <3>1
    <2>4. AbstractReply \in {"pending", "unknown"}
      <3>1. result \notin PreSendErrors
        BY <2>1 DEF NothingSentYet
      <3>2. result # "Ok"
        BY <2>3 DEF FirmOk, OkIsFinal
      <3>3. QED
        BY <3>1, <3>2 DEF AbstractReply
    <2>5. QED
      BY <1>0, <2>2, <2>3, <2>4 DEF Promise!TakeEffect
  <1>5. QED
    BY <1>0, <1>1, <1>2, <1>3, <1>4
       DEF ClusterNext, Promise!PromiseNext, Promise!promiseVars

\* ChainClient::submit with a firm commitment keeps the promise of TxPromise.
THEOREM Refinement == ASSUME Firm PROVE Spec => ImplementsPromise
<1>1. Init => Promise!PromiseInit
  <2> SUFFICES ASSUME Init PROVE Promise!PromiseInit
    OBVIOUS
  <2>1. Executed(Commitment) = {}
    BY CommitmentAssumption DEF Init, ClusterInit, Executed
  <2>2. AbstractReply = "pending"
    BY DEF Init, AbstractReply
  <2>3. QED
    BY <2>1, <2>2 DEF Promise!PromiseInit
<1>2. IndInv /\ IndInv' /\ [Next]_vars
        => [Promise!PromiseNext]_(Promise!promiseVars)
  <2> SUFFICES ASSUME IndInv, IndInv', [Next]_vars
               PROVE  [Promise!PromiseNext]_(Promise!promiseVars)
    OBVIOUS
  <2>1. CASE Call
    BY <2>1, CallAnswers
  <2>2. CASE DeadlineElapses
    BY <2>2 DEF DeadlineElapses, clusterVars, Executed, AbstractReply,
                Promise!promiseVars
  <2>3. CASE ClusterNext /\ UNCHANGED callVars
    BY <2>3, ClusterTakesEffect
  <2>4. CASE UNCHANGED vars
    BY <2>4 DEF vars, Executed, AbstractReply, Promise!promiseVars
  <2>5. QED
    BY <2>1, <2>2, <2>3, <2>4 DEF Next
<1>3. QED
  BY <1>1, <1>2, Invariance, PTL
     DEF Spec, ImplementsPromise, Promise!PromiseSpec

-----------------------------------------------------------------------------
(***************************************************************************)
(* send_instructions: its inductive invariant.  How often the instructions *)
(* may execute is decided by what was sent: an attempt adds at most one    *)
(* transaction to the pool, in the await of its send, and what landed was  *)
(* sent.                                                                   *)
(***************************************************************************)

\* The transactions sent are no more than the attempts that came to a send.
SentOncePerAttempt ==
    /\ IsFiniteSet(pool)
    /\ Cardinality(pool) <= attempt
    /\ pc \in {"blockhash", "send"} => Cardinality(pool) < attempt

\* Nothing is returned before the call is done.
PendingUntilDone == pc # "done" => result = "Pending"

SendIndInv ==
    /\ SendTypeOK
    /\ SentOncePerAttempt
    /\ LandedWasSent
    /\ PendingUntilDone

-----------------------------------------------------------------------------
\* max_attempts.max(1) is a positive number.
LEMMA SendAttemptsPositive == SendAttempts \in Nat /\ SendAttempts >= 1
  BY SendAssumption DEF SendAttempts

\* The initial state is well typed, and nothing has been sent in it.
LEMMA SendInitInvariant == SendInit => SendIndInv
<1> SUFFICES ASSUME SendInit PROVE SendIndInv
  OBVIOUS
<1>1. 0 \in Blockhash
  BY ClusterAssumption
<1>2. SendTypeOK
  BY <1>1, SendAttemptsPositive DEF SendInit, ClusterInit, ClusterTypeOK, SendTypeOK
<1>3. SentOncePerAttempt
  BY FS_EmptySet DEF SendInit, ClusterInit, SentOncePerAttempt
<1>4. QED
  BY <1>2, <1>3
     DEF SendInit, ClusterInit, SendIndInv, LandedWasSent, PendingUntilDone

\* Every await of the call keeps the types.
LEMMA SendCallType ==
    ASSUME SendTypeOK, SendingCall
    PROVE  SendTypeOK'
<1> USE SendAttemptsPositive
    DEF SendTypeOK, ClusterTypeOK, clusterVars, Return, GoTo, AttemptFails, MaySendAgain
<1>1. CASE RefreshBlockhash
  BY <1>1 DEF RefreshBlockhash
<1>2. CASE SendTransaction
  <2>1. ClusterTypeOK'
    BY <1>2 DEF SendTransaction, MayDeliver, Deliver
  <2>2. attempt' \in 1 .. SendAttempts
    BY <1>2 DEF SendTransaction
  <2>3. QED
    BY <1>2, <2>1, <2>2 DEF SendTransaction
<1>3. CASE PollStatus
  BY <1>3 DEF PollStatus
<1>4. CASE PollValidity
  BY <1>4 DEF PollValidity
<1>5. QED
  BY <1>1, <1>2, <1>3, <1>4 DEF SendingCall

\* What an await does to the pool and the count of attempts.
LEMMA SendingSends ==
    ASSUME SendTypeOK, SendingCall
    PROVE  /\ level' = level /\ ok' = ok
           /\ pool' = pool \/ (pc = "send" /\ pool' = pool \cup {signed})
           /\ \/ attempt' = attempt /\ pc' = "done"
              \/ attempt' = attempt + 1 /\ pc' = "blockhash" /\ pc # "blockhash"
              \/ attempt' = attempt /\ pc = "blockhash" /\ pc' = "send"
              \/ attempt' = attempt /\ pc' \in {"status", "valid"}
           /\ pc # "done"
           /\ pc' # "done" => result' = result
           /\ result' = "Ok" => \/ result = "Ok"
                                \/ /\ level[signed] >= Commitment /\ ok[signed]
                                   /\ signed' = signed
<1> USE DEF SendTypeOK, clusterVars, Return, GoTo, AttemptFails, MaySendAgain
<1>1. CASE RefreshBlockhash
  BY <1>1 DEF RefreshBlockhash
<1>2. CASE SendTransaction
  BY <1>2 DEF SendTransaction, MayDeliver, Deliver
<1>3. CASE PollStatus
  BY <1>3 DEF PollStatus, Reached
<1>4. CASE PollValidity
  BY <1>4 DEF PollValidity
<1>5. QED
  BY <1>1, <1>2, <1>3, <1>4 DEF SendingCall

\* A cluster step keeps the types, executes only what was sent and takes no
\* firm commitment back.
LEMMA SendClusterStep ==
    ASSUME SendTypeOK, LandedWasSent, ClusterNext
    PROVE  /\ ClusterTypeOK' /\ pool' = pool
           /\ LandedWasSent'
           /\ Firm => Executed(Commitment) \subseteq Executed(Commitment)'
<1> USE CommitmentAssumption, ClusterAssumption
    DEF SendTypeOK, ClusterTypeOK, LandedWasSent, Firm, Executed
<1>1. CASE Block
  BY <1>1 DEF Block
<1>2. ASSUME NEW b \in Blockhash, Land(b)
      PROVE  /\ ClusterTypeOK' /\ pool' = pool
             /\ LandedWasSent'
             /\ Firm => Executed(Commitment) \subseteq Executed(Commitment)'
  <2>1. PICK o \in BOOLEAN : ok' = [ok EXCEPT ![b] = o]
    BY <1>2 DEF Land
  <2>2. QED
    BY <1>2, <2>1 DEF Land
<1>3. ASSUME NEW b \in Blockhash, Promote(b)
      PROVE  /\ ClusterTypeOK' /\ pool' = pool
             /\ LandedWasSent'
             /\ Firm => Executed(Commitment) \subseteq Executed(Commitment)'
  <2>1. level[b] + 1 \in Level
    BY <1>3 DEF Promote
  <2>2. QED
    BY <1>3, <2>1 DEF Promote
<1>4. ASSUME NEW b \in Blockhash, Abandon(b)
      PROVE  /\ ClusterTypeOK' /\ pool' = pool
             /\ LandedWasSent'
             /\ Firm => Executed(Commitment) \subseteq Executed(Commitment)'
  BY <1>4 DEF Abandon
<1>5. QED
  BY <1>1, <1>2, <1>3, <1>4 DEF ClusterNext

-----------------------------------------------------------------------------
\* An await of the call keeps the invariant.
LEMMA SendCallInvariant ==
    ASSUME SendIndInv, SendingCall
    PROVE  SendIndInv'
<1>1. SendTypeOK
  BY DEF SendIndInv
<1>2. SendTypeOK'
  BY <1>1, SendCallType
<1>3. attempt \in Nat /\ attempt' \in Nat /\ IsFiniteSet(pool)
  BY <1>1, <1>2, SendAttemptsPositive DEF SendTypeOK, SendIndInv, SentOncePerAttempt
<1>4. SentOncePerAttempt'
  <2>1. CASE pool' = pool
    <3>1. Cardinality(pool) \in Nat
      BY <1>3, FS_CardinalityType
    <3>2. QED
      BY <1>1, <1>3, <2>1, <3>1, SendingSends DEF SendIndInv, SentOncePerAttempt
  <2>2. CASE pc = "send" /\ pool' = pool \cup {signed}
    <3>1. /\ IsFiniteSet(pool')
          /\ Cardinality(pool') \in Nat /\ Cardinality(pool) \in Nat
          /\ Cardinality(pool') <= Cardinality(pool) + 1
      BY <1>3, <2>2, FS_AddElement, FS_CardinalityType
    <3>2. Cardinality(pool) < attempt
      BY <2>2 DEF SendIndInv, SentOncePerAttempt
    <3>3. QED
      BY <1>1, <1>3, <2>2, <3>1, <3>2, SendingSends DEF SentOncePerAttempt
  <2>3. QED
    BY <1>1, <2>1, <2>2, SendingSends
<1>5. LandedWasSent'
  BY <1>1, SendingSends DEF SendIndInv, LandedWasSent
<1>6. PendingUntilDone'
  BY <1>1, SendingSends DEF SendIndInv, PendingUntilDone
<1>7. QED
  BY <1>2, <1>4, <1>5, <1>6 DEF SendIndInv

\* A step of the cluster keeps the invariant.
LEMMA SendClusterInvariant ==
    ASSUME SendIndInv, ClusterNext, UNCHANGED senderVars
    PROVE  SendIndInv'
<1>1. SendTypeOK /\ LandedWasSent
  BY DEF SendIndInv
<1>2. ClusterTypeOK' /\ pool' = pool /\ LandedWasSent'
  BY <1>1, SendClusterStep
<1>3. QED
  BY <1>1, <1>2
     DEF SendIndInv, SendTypeOK, senderVars, SentOncePerAttempt, PendingUntilDone

\* Every step is an await of the call or a step of the cluster.
LEMMA SendStepKinds ==
    ASSUME [SendNext]_sendVars
    PROVE  SendingCall \/ (ClusterNext /\ UNCHANGED senderVars) \/ UNCHANGED sendVars
  BY DEF SendNext, BoundedBlock, ClusterNext

\* The invariant holds throughout every behaviour.
THEOREM SendInvariance == SendSpec => []SendIndInv
<1>1. SendIndInv /\ [SendNext]_sendVars => SendIndInv'
  <2> SUFFICES ASSUME SendIndInv, [SendNext]_sendVars PROVE SendIndInv'
    OBVIOUS
  <2>1. CASE UNCHANGED sendVars
    BY <2>1 DEF sendVars, SendIndInv, SendTypeOK, ClusterTypeOK, SentOncePerAttempt,
                LandedWasSent, PendingUntilDone
  <2>2. QED
    BY <2>1, SendStepKinds, SendCallInvariant, SendClusterInvariant
<1>2. QED
  BY <1>1, SendInitInvariant, PTL DEF SendSpec

\* Every variable keeps its type in every state of every behaviour.
THEOREM SendTypeCorrect == SendSpec => []SendTypeOK
<1>1. SendIndInv => SendTypeOK
  BY DEF SendIndInv
<1>2. QED
  BY <1>1, SendInvariance, PTL

\* However the attempts, the lost answers and the late landings interleave,
\* the instructions execute at most once per attempt.
THEOREM AtMostOncePerAttempt == SendSpec => []OneExecutionPerAttempt
<1>1. SendIndInv => OneExecutionPerAttempt
  <2> SUFFICES ASSUME SendIndInv PROVE OneExecutionPerAttempt
    OBVIOUS
  <2>1. Landed \subseteq pool /\ IsFiniteSet(pool)
    BY DEF SendIndInv, LandedWasSent, SentOncePerAttempt, Landed
  <2>2. IsFiniteSet(Landed) /\ Cardinality(Landed) <= Cardinality(pool)
    BY <2>1, FS_Subset
  <2>3. Cardinality(Landed) \in Nat /\ Cardinality(pool) \in Nat
    BY <2>1, <2>2, FS_CardinalityType
  <2>4. attempt \in Nat /\ Cardinality(pool) <= attempt
    BY SendAttemptsPositive DEF SendIndInv, SentOncePerAttempt, SendTypeOK
  <2>5. QED
    BY <2>2, <2>3, <2>4 DEF OneExecutionPerAttempt
<1>2. QED
  BY <1>1, SendInvariance, PTL

-----------------------------------------------------------------------------
\* Ok speaks of an execution of the last signature at the client's commitment,
\* and stays true, if the commitment is one that no fork takes back.
THEOREM SendOkExecuted == ASSUME Firm PROVE SendSpec => []OkIsExecuted
<1>1. SendInit => OkIsExecuted
  BY DEF SendInit, OkIsExecuted
<1>2. SendIndInv /\ OkIsExecuted /\ [SendNext]_sendVars => OkIsExecuted'
  <2> SUFFICES ASSUME SendIndInv, OkIsExecuted, [SendNext]_sendVars, result' = "Ok"
               PROVE  signed' \in Executed(Commitment)'
    BY DEF OkIsExecuted
  <2>1. SendTypeOK /\ LandedWasSent /\ PendingUntilDone
    BY DEF SendIndInv
  <2>2. CASE SendingCall
    <3>1. result = "Pending" /\ level' = level /\ ok' = ok
      BY <2>1, <2>2, SendingSends DEF PendingUntilDone
    <3>2. level[signed] >= Commitment /\ ok[signed] /\ signed' = signed
      BY <2>1, <2>2, <3>1, SendingSends
    <3>3. signed \in Blockhash
      BY <2>1 DEF SendTypeOK
    <3>4. QED
      BY <3>1, <3>2, <3>3 DEF Executed
  <2>3. CASE ClusterNext /\ UNCHANGED senderVars
    <3>1. signed \in Executed(Commitment) /\ signed' = signed
      BY <2>3 DEF senderVars, OkIsExecuted
    <3>2. QED
      BY <2>1, <2>3, <3>1, SendClusterStep
  <2>4. CASE UNCHANGED sendVars
    BY <2>4 DEF sendVars, OkIsExecuted, Executed
  <2>5. QED
    BY <2>2, <2>3, <2>4, SendStepKinds
<1>3. QED
  BY <1>1, <1>2, SendInvariance, PTL DEF SendSpec
=============================================================================
