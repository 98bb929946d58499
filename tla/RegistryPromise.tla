-------------------------- MODULE RegistryPromise --------------------------
(***************************************************************************)
(* What config.toml promises its reader: it always says a whole            *)
(* configuration, and it changes only by one accepted command, applied to  *)
(* what it said before.                                                    *)
(***************************************************************************)
EXTENDS Registry

CONSTANT Commands   \* the commands that may be given

VARIABLE registry   \* what config.toml says

\* No file, or one in which the operator has only named a default server:
\* no command writes general.default_server.
Init == registry \in {[DefaultConfig EXCEPT !.default = n] : n \in Names \cup {None}}

Run(cmd) ==
  /\ Accepts(registry, cmd)
  /\ registry' = Applied(registry, cmd)

Next == \E cmd \in Commands : Run(cmd)

Spec == Init /\ [][Next]_registry

=============================================================================
