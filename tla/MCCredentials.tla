--------------------------- MODULE MCCredentials ---------------------------
(* Instances of Credentials for TLC. *)
EXTENDS Credentials, TLC

CONSTANTS c1, c2, s1, s2, root

TwoCallers == {c1, c2}
TwoServers == {s1, s2}
OneUser    == {root}

\* Callers and servers are only compared for equality.
Swap == {c @@ s : c \in Permutations(TwoCallers), s \in Permutations(TwoServers)}

=============================================================================
