---------------------------- MODULE RelayRecord ----------------------------
(***************************************************************************)
(* What .rustmote-state.toml promises to whoever reads it (state.rs, module *)
(* documentation): a register of pins with an undo log.  Once a relay is    *)
(* installed the record is never missing.  Operators write and restore it   *)
(* in operations with a beginning and an end.  A write that no other        *)
(* operation overlaps replaces the record, at its end and in one step, by   *)
(* pins the registry served; a restore empties the record first and at its  *)
(* end returns it to a saved value.  Only where operations overlap may the  *)
(* record become Torn, or a write leave it Empty.                           *)
(***************************************************************************)
CONSTANTS Operators, Services, Tags, Digests, None, Empty, Torn

VARIABLES
  record,    \* the pins on record, None before the first install
  saved,     \* the values a rollback may return to
  served,    \* every <<tag, digest>> the registry has served
  writing,   \* operators in a write
  restoring, \* operators in a restore
  alone      \* those of them whose operation no other has overlapped

vars == <<record, saved, served, writing, restoring, alone>>

Damaged == {Empty, Torn}

ServedPins == {p \in [Services -> [tag : Tags, digest : Digests]] :
                 \A s \in Services : <<p[s].tag, p[s].digest>> \in served}

Init ==
  /\ record = None
  /\ saved = {}
  /\ served = {}
  /\ writing = {} /\ restoring = {} /\ alone = {}

\* The registry serves a tag with a digest it did not have before.
Serve ==
  /\ \E t \in Tags, d \in Digests : served' = served \cup {<<t, d>>}
  /\ UNCHANGED <<record, saved, writing, restoring, alone>>

\* An operation overlaps those it finds begun.
Begins(o) == alone' = IF writing \cup restoring = {} THEN {o} ELSE {}

\* bootstrap or update begins to write resolved pins.
BeginWrite(o) ==
  /\ Begins(o)
  /\ writing' = writing \cup {o}
  /\ UNCHANGED <<record, saved, served, restoring>>

\* A write reaches the record before its end, if another took its file there.
Spill(o) ==
  /\ o \in writing \ alone
  /\ record' \in ServedPins \cup Damaged
  /\ UNCHANGED <<saved, served, writing, restoring, alone>>

EndWrite(o) ==
  /\ o \in writing
  /\ record' \in IF o \in alone THEN ServedPins ELSE ServedPins \cup Damaged
  /\ writing' = writing \ {o}
  /\ alone' = alone \ {o}
  /\ UNCHANGED <<saved, served, restoring>>

\* A rollback begins to return to a saved value.
BeginRestore(o) ==
  /\ Begins(o)
  /\ saved # {}
  /\ record' = Empty
  /\ restoring' = restoring \cup {o}
  /\ UNCHANGED <<saved, served, writing>>

EndRestore(o) ==
  /\ o \in restoring
  /\ record' \in saved \cup IF o \in alone THEN {} ELSE {record, Torn}
  /\ restoring' = restoring \ {o}
  /\ alone' = alone \ {o}
  /\ UNCHANGED <<saved, served, writing>>

\* The command fails or its client dies.
Abandon(o) ==
  /\ writing' = writing \ {o}
  /\ restoring' = restoring \ {o}
  /\ alone' = alone \ {o}
  /\ UNCHANGED <<record, saved, served>>

\* update saves the record, over an older copy or beside it, or garbage
\* collection forgets.
Log ==
  /\ saved' \subseteq saved \cup Damaged \cup ({record} \ {None})
  /\ UNCHANGED <<record, served, writing, restoring, alone>>

Operate(o) ==
  \/ BeginWrite(o) \/ Spill(o) \/ EndWrite(o)
  \/ BeginRestore(o) \/ EndRestore(o) \/ Abandon(o)

Next == Serve \/ Log \/ \E o \in Operators : Operate(o)

Spec == Init /\ [][Next]_vars

=============================================================================
