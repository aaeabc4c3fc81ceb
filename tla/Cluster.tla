------------------------------ MODULE Cluster ------------------------------
(***************************************************************************)
(* The Solana cluster and its RPC node, as far as mtm-chain depends on     *)
(* them: block heights, blockhash lifetimes, the copies of a transaction   *)
(* on their way to a leader, and what each fork has executed.  This code   *)
(* is not in the repository; it is modelled from the calls mtm-chain makes *)
(* and from what mtm-chain relies on.                                      *)
(*                                                                         *)
(* One caller signs one list of instructions with one set of keys, so a    *)
(* signed transaction is identified by the blockhash it carries, and a     *)
(* blockhash by the height of its block.  Signing twice with the same      *)
(* blockhash gives the same bytes and the same signature; signing with     *)
(* another blockhash gives another transaction, which the cluster executes *)
(* as well.                                                                *)
(***************************************************************************)
EXTENDS Naturals

CONSTANTS
    MaxHeight,   \* bound on the block height
    ValidFor     \* number of blocks a blockhash stays valid for

ASSUME ClusterAssumption == MaxHeight \in Nat /\ ValidFor \in Nat

VARIABLES
    height,   \* height of the tip
    pool,     \* transactions a node has accepted: any leader may execute them
    level,    \* level[b]: commitment reached by the transaction signed with b
    ok        \* ok[b]: its execution on the current fork succeeded

clusterVars == <<height, pool, level, ok>>

Blockhash == 0 .. MaxHeight

\* CommitmentConfig, ordered; Absent is "no status known".
Absent    == 0
Processed == 1
Confirmed == 2
Finalized == 3
Level     == Absent .. Finalized

ClusterTypeOK ==
    /\ height \in Blockhash
    /\ pool \subseteq Blockhash
    /\ level \in [Blockhash -> Level]
    /\ ok \in [Blockhash -> BOOLEAN]

ClusterInit ==
    /\ height = 0
    /\ pool = {}
    /\ level = [b \in Blockhash |-> Absent]
    /\ ok = [b \in Blockhash |-> FALSE]

LastValid(b) == b + ValidFor

Block ==
    /\ height < MaxHeight
    /\ height' = height + 1
    /\ UNCHANGED <<pool, level, ok>>

\* A leader executes a transaction whose blockhash is still valid.  The
\* cluster refuses a signature it has already processed on that fork.
Land(b) ==
    /\ b \in pool
    /\ level[b] = Absent
    /\ height <= LastValid(b)
    /\ level' = [level EXCEPT ![b] = Processed]
    /\ \E o \in BOOLEAN : ok' = [ok EXCEPT ![b] = o]
    /\ UNCHANGED <<height, pool>>

\* The fork is voted on: processed, then confirmed, then finalized.
Promote(b) ==
    /\ level[b] \in {Processed, Confirmed}
    /\ level' = [level EXCEPT ![b] = @ + 1]
    /\ UNCHANGED <<height, pool, ok>>

\* A fork that never reached a confirmation is abandoned with its effects.
Abandon(b) ==
    /\ level[b] = Processed
    /\ level' = [level EXCEPT ![b] = Absent]
    /\ UNCHANGED <<height, pool, ok>>

ClusterNext ==
    \/ Block
    \/ \E b \in Blockhash : Land(b) \/ Promote(b) \/ Abandon(b)

\* What the transaction really did, at a commitment level c.
Executed(c) == {b \in Blockhash : level[b] >= c /\ ok[b]}

\* A send request either reaches the node or is lost on the way.
Deliver(b) == pool' = pool \cup {b}
MayDeliver(b) == Deliver(b) \/ pool' = pool
=============================================================================
