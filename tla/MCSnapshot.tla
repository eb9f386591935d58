----------------------------- MODULE MCSnapshot -----------------------------
(* Instances of Snapshot for TLC.                                          *)
EXTENDS Snapshot

CONSTANTS a, b
TwoClients == {a, b}
OneClient == {a}

=============================================================================
