-------------------------- MODULE MCOwnerForwarding --------------------------
(* Small instances of OwnerForwarding.                                     *)
EXTENDS OwnerForwarding, TLC

CONSTANTS e, o
=============================================================================
