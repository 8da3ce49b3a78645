------------------------------ MODULE MCMaster ------------------------------
(* Instances of Master for TLC: the cfg files scale the half hour and the   *)
(* batch of ten down to a few minutes and rows.                             *)
EXTENDS Master
=============================================================================
