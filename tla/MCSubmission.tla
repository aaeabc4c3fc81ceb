---------------------------- MODULE MCSubmission ----------------------------
(***************************************************************************)
(* Submission on a small cluster: blockhashes that outlive two blocks, a   *)
(* few heights more, and three send attempts (the default of the code).    *)
(***************************************************************************)
EXTENDS Submission
=============================================================================
