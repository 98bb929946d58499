-------------------------- MODULE MCRelayLifecycle --------------------------
(* Instances of RelayLifecycle for TLC. *)
EXTENDS RelayLifecycle, TLC

CONSTANTS c1, c2, hbbs, hbbr, d1, d2, d3

OneClient  == {c1}
TwoClients == {c1, c2}
OneService  == {hbbs}
TwoServices == {hbbs, hbbr}
OneTag  == {1}
TwoTags == {1, 2}
Images  == {d1, d2, d3}
Broken  == {d3}
Nothing == {}
Upgrades == {<<1, d1>>, <<2, d3>>}
Retags   == {<<1, d1>>, <<1, d2>>, <<1, d3>>}
OneRetag == {<<1, d1>>, <<1, d3>>}
Sound    == {d1, d2}
Moves    == {<<1, d1>>, <<1, d2>>}

\* The operators are interchangeable, and so are two images that both work: both
\* properties of MCTwoOperators are safety properties that name none of them.
SwapBoth == Permutations(TwoClients) \cup Permutations(Sound)

\* Nor does any definition tell the services apart.
SwapServices == Permutations(TwoServices)

\* What no step reads any more need not tell two states apart: the outcome of the
\* last call, a temporary file the next command empties first, the pins found by
\* load_state once they are compared, and the files of before a call that will not
\* roll back or, where no property speaks of them, of any call.  Two states that
\* agree on the rest take the same steps, and no step under fairness changes only
\* what is left out, so liveness may be checked under WithoutOutcome too.
Tmp(file, steps) == IF \E c \in Clients : pc[c] \in steps THEN file ELSE None

Host == <<dir, compose, env, state, backups, dockerVars,
          Tmp(composeTmp, {"fillCompose", "moveCompose"}), Tmp(stateTmp, {"fillState", "moveState"})>>

Locals(c) ==
  [call[c] EXCEPT !.seen = IF pc[c] \in {"resolve", "decide"} THEN @ ELSE None,
                  !.before = IF call[c].op = "update" /\ ~call[c].skip THEN @ ELSE None]

WithoutOutcome == <<hubVars, clock, Host, pc, [c \in Clients |-> Locals(c)], fd>>

\* With one tag every compose file pins a digest, and with images that all work the
\* ports answer as soon as the containers are up: nothing reads what runs.
FilesOnly ==
  <<published, clock, dir, compose, env, state, backups,
    Tmp(composeTmp, {"fillCompose", "moveCompose"}), Tmp(stateTmp, {"fillState", "moveState"}),
    pc, [c \in Clients |-> [Locals(c) EXCEPT !.before = None]], writeVars>>
=============================================================================
