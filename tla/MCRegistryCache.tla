--------------------------- MODULE MCRegistryCache ---------------------------
(* Instances of RegistryCache for TLC. *)
EXTENDS RegistryCache, TLC

CONSTANTS p1, p2, digest, a, b, i1, i2, i3

TwoProcesses == {p1, p2}
OneKey  == {digest}
Both    == {a, b}
Three   == {i1, i2, i3}

\* All three are only compared for equality.
SwapAll ==
  {p @@ e @@ i : p \in Permutations(Processes), e \in Permutations(Answers),
                 i \in Permutations(Inodes)}

=============================================================================
