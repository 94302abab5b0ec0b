------------------------------- MODULE Owners -------------------------------
(***************************************************************************)
(* What the modules of rows with a lease share: the value of an owner      *)
(* column (lease_owner, owner_id) of a row that nobody holds.              *)
(***************************************************************************)
CONSTANT Nobody
=============================================================================
