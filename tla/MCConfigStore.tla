--------------------------- MODULE MCConfigStore ---------------------------
(* Instances of ConfigStore for TLC. *)
EXTENDS ConfigStore, TLC

CONSTANTS p1, n1, h1, h2, k1, k2, t1, i1, i2

OneProcess  == {p1}
OneName     == {n1}
TwoHosts    == {h1, h2}
TwoKeys     == {k1, k2}
OneId       == {t1}
AnyMode     == {"prompt", "unsafe"}
Two         == {i1, i2}
AllCommands == Command

\* Inodes, endpoints and fingerprints are only compared for equality.
SwapAll ==
  {h @@ k @@ i : h \in Permutations(Hosts), k \in Permutations(Keys), i \in Permutations(Inodes)}

=============================================================================
