------------------------------ MODULE MCDrive ------------------------------
(* Values of DriveControl's constants for TLC.                             *)
EXTENDS DriveProperties

AllButAvoidance == {"p", "P", "s", "d", "D", "v", "V", "~"}
RenewedCommands == {"P", "V"}
AvoidCommands == {"P", "V", "O"}

(* Already elapsed when the command arrives, and outlasting an iteration.  *)
MixedDurations == {-1, 2}

(* A turn to the right and one to the left.                                *)
BothTurns == {-1, 1}
=============================================================================
