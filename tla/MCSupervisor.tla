---------------------------- MODULE MCSupervisor ----------------------------
(* Instances of Supervisor for TLC.                                        *)
EXTENDS Supervisor, TLC

CONSTANT web

Svc(n, r, m) == [name |-> n, restart |-> r, max |-> m]

\* The services main starts at boot.
BootAlways    == <<Svc(web, "always", 2)>>
BootOnFailure == <<Svc(web, "on-failure", 1)>>
BootNone      == <<>>

\* The definitions a client may load.
NoLoads  == {}
LoadWeb  == {Svc(web, "always", 0)}
LoadTwo  == {Svc(web, "on-failure", 1), Svc(web, "always", 1)}

\* Clean exit, failure, death by SIGINT.
JustOne    == {1}
ZeroOne    == {0, 1}
ZeroOneInt == {0, 1, -2}

\* Clients differ only in name.
ClientPermutations == Permutations(Client)
=============================================================================
