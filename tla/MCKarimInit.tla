---------------------------- MODULE MCKarimInit ----------------------------
(* Instances of KarimInit for TLC.                                         *)
EXTENDS KarimInit

\* A failure, and the code of a completed poweroff.
CrashOrPoweroff == {1, 64}
=============================================================================
