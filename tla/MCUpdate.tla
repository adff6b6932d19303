------------------------------ MODULE MCUpdate ------------------------------
(* One verified update, applied in the presence of failures and crashes.     *)
EXTENDS UpdateRecovery
CONSTANT c1
=============================================================================
