----------------------------- MODULE MCDiscovery -----------------------------
(* Instances of Discovery for TLC. *)
EXTENDS Discovery, TLC

CONSTANTS printer, mac1, mac2

OneName == {printer}
TwoMacs == {mac1, mac2}

\* An address known on two devices, and one that is not resolved yet.
SomeTables ==
  {<<>>, <<[ip |-> 1, mac |-> mac1], [ip |-> 1, mac |-> mac2], [ip |-> 2, mac |-> "incomplete"]>>}

\* An event that resolves nothing, one with two addresses and no name, one with a name.
SomeEvents ==
  {<<>>, <<[ip |-> 1, name |-> None], [ip |-> 2, name |-> None]>>,
   <<[ip |-> 1, name |-> printer]>>}

SomeSubnets    == {{}, {1, 2}}
SomeRegistered == {{1}}
SomeBudgets    == {0, 4}

=============================================================================
