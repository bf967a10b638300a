------------------------------ MODULE MCLauncher ------------------------------
(* Small instances of Launcher for TLC. *)
EXTENDS Launcher, TLC

CONSTANTS r1, r2

=============================================================================
