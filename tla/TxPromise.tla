----------------------------- MODULE TxPromise -----------------------------
(***************************************************************************)
(* What ChainClient::submit promises its caller, without saying how: the   *)
(* instructions take effect at most once and for good, and the reply is    *)
(*   ok      only when they have taken effect,                             *)
(*   never   only when they have not and never will,                       *)
(*   unknown when the caller must look for itself.                         *)
(***************************************************************************)
CONSTANT Effect        \* identities an execution may have (a signed transaction)

VARIABLES effects,     \* executions of the instructions that are final
          reply        \* what the caller was told

promiseVars == <<effects, reply>>

Reply == {"pending", "ok", "never", "unknown"}

PromiseTypeOK ==
    /\ effects \subseteq Effect
    /\ reply \in Reply

PromiseInit ==
    /\ effects = {}
    /\ reply = "pending"

TakeEffect ==
    /\ effects = {}
    /\ reply \in {"pending", "unknown"}
    /\ \E e \in Effect : effects' = {e}
    /\ UNCHANGED reply

Answer(r) ==
    /\ reply = "pending"
    /\ r = "ok" => effects # {}
    /\ r = "never" => effects = {}
    /\ reply' = r
    /\ UNCHANGED effects

PromiseNext == TakeEffect \/ \E r \in {"ok", "never", "unknown"} : Answer(r)

PromiseSpec == PromiseInit /\ [][PromiseNext]_promiseVars
=============================================================================
