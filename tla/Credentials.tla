---------------------------- MODULE Credentials ----------------------------
(***************************************************************************)
(* credentials.rs: get_password, set_password and delete_password against  *)
(* the prompt, the keyring of the operating system or credentials.toml.    *)
(* The file is checked, read, changed in memory, then truncated and        *)
(* rewritten in place.  Calls may overlap: nothing locks the file.         *)
(***************************************************************************)
EXTENDS Integers

CONSTANTS
  Callers,       \* tasks or processes that use the store
  Servers,       \* server names
  Users,         \* login names; none contains the colon of keyring_account
  NumPasswords,  \* passwords each account may have
  None,          \* no password, copy or vault
  Garbled        \* text that does not parse

Account  == [server : Servers, user : Users]
Password == [of : Account, n : 1 .. NumPasswords]  \* of: the account it belongs to

\* Mutant: keys by the user alone.
KeyByUser(server, user) == <<user, user>>

\* keyring_account
Key(server, user) == <<server, user>>

Keys == {Key(a.server, a.user) : a \in Account}

Passwords == [Keys -> Password \cup {None}]
NoPasswords == [k \in Keys |-> None]

Ops      == {"get", "set", "delete"}
Outcomes == {"running", "ok", "NoStoredCredential", "InsecureCredentialsFile", "ConfigParse",
             "Error", "died"}

Call == [op : Ops, account : Account, password : Password \cup {None},
         copy : Passwords \cup {None}, outcome : Outcomes]

ASSUME CredentialAssumption ==
  /\ NumPasswords \in Nat \ {0}
  /\ None \notin Password \cup Passwords \cup Call
  /\ Garbled \notin Passwords \cup {None}

VARIABLES
  file,     \* what credentials.toml holds, None if it is missing
  private,  \* whether its mode is 0600
  ring,     \* what the keyring holds
  pc,       \* where each caller is
  call,     \* the call each caller is in, or the last one it returned from
  vault,    \* history: what the callers were told the file holds, None if two of them
            \* changed it at once or one was cut short while it wrote
  exposed   \* history: the user changed the mode while a call was in progress

vars == <<file, private, ring, pc, call, vault, exposed>>

Places == {"idle", "prompt", "ring", "check", "read", "open", "write", "sync"}

TypeOK ==
  /\ file \in Passwords \cup {None, Garbled}
  /\ private \in BOOLEAN
  /\ ring \in Passwords
  /\ pc \in [Callers -> Places]
  /\ call \in [Callers -> Call \cup {None}]
  /\ vault \in Passwords \cup {None}
  /\ exposed \in BOOLEAN
  /\ \A p \in Callers : pc[p] # "idle" => call[p] # None /\ call[p].outcome = "running"
  /\ \A p \in Callers : pc[p] \in {"open", "write"} => call[p].copy # None

\* What a reader of the file finds.
Says == IF file = None THEN NoPasswords ELSE file

Init ==
  /\ file \in {None, NoPasswords}
  /\ private = (file = None)
  /\ ring = NoPasswords
  /\ pc = [p \in Callers |-> "idle"]
  /\ call = [p \in Callers |-> None]
  /\ vault = NoPasswords
  /\ exposed = FALSE

Idle == \A p \in Callers : pc[p] = "idle"

Writers ==
  {p \in Callers : pc[p] \in {"check", "read", "open", "write", "sync"} /\ call[p].op # "get"}

KeyOf(p) == Key(call[p].account.server, call[p].account.user)

Goto(p, from, to) ==
  /\ pc[p] = from
  /\ pc' = [pc EXCEPT ![p] = to]

Return(p, from, outcome) ==
  /\ Goto(p, from, "idle")
  /\ call' = [call EXCEPT ![p] = [@ EXCEPT !.copy = None, !.outcome = outcome]]

ReturnPassword(p, from, w) ==
  /\ Goto(p, from, "idle")
  /\ call' = [call EXCEPT ![p] = [@ EXCEPT !.password = w, !.copy = None,
                                         !.outcome = IF w = None THEN "NoStoredCredential" ELSE "ok"]]

\* insert or remove
Changed(passwords, p) ==
  [passwords EXCEPT ![KeyOf(p)] = IF call[p].op = "set" THEN call[p].password ELSE None]

-----------------------------------------------------------------------------
(* The user. *)

Chmod ==
  /\ file # None
  /\ private' = ~private
  /\ exposed' = (exposed \/ ~Idle)
  /\ UNCHANGED <<file, ring, pc, call, vault>>

-----------------------------------------------------------------------------
(* A call. *)

\* The configuration is loaded by every call and says which store it goes to.
Begin(p, op, account, w, to) ==
  /\ Goto(p, "idle", to)
  /\ call' = [call EXCEPT ![p] = [op |-> op, account |-> account, password |-> w,
                                  copy |-> None, outcome |-> "running"]]
  /\ vault' = IF op = "get" \/ to # "check" THEN vault
              ELSE IF Writers # {} THEN None
              ELSE IF vault = None /\ file # Garbled THEN Says
              ELSE vault
  /\ exposed' = (exposed /\ ~Idle)
  /\ UNCHANGED <<file, private, ring>>

\* Only get asks; the user may type the password of the account or nothing useful.
Prompt(p) ==
  /\ pc[p] = "prompt"
  /\ IF call[p].op = "get"
     THEN \E w \in Password : w.of = call[p].account /\ ReturnPassword(p, "prompt", w)
     ELSE Return(p, "prompt", "ok")
  /\ UNCHANGED <<file, private, ring, vault, exposed>>

\* The keyring answers in one step.
UseRing(p) ==
  /\ pc[p] = "ring"
  /\ IF call[p].op = "get"
     THEN ReturnPassword(p, "ring", ring[KeyOf(p)]) /\ UNCHANGED ring
     ELSE Return(p, "ring", "ok") /\ ring' = Changed(ring, p)
  /\ UNCHANGED <<file, private, vault, exposed>>

\* Mutant: looks at the mode only to read.
CheckReaders(p) ==
  /\ pc[p] = "check"
  /\ IF file = None \/ private \/ call[p].op # "get"
     THEN Goto(p, "check", "read") /\ UNCHANGED call
     ELSE Return(p, "check", "InsecureCredentialsFile")
  /\ UNCHANGED <<file, private, ring, vault, exposed>>

\* check_unsafe_permissions
Check(p) ==
  /\ pc[p] = "check"
  /\ IF file = None \/ private
     THEN Goto(p, "check", "read") /\ UNCHANGED call
     ELSE Return(p, "check", "InsecureCredentialsFile")
  /\ UNCHANGED <<file, private, ring, vault, exposed>>

\* Mutant: the copy starts from nothing.
ReadAfresh(p) ==
  /\ pc[p] = "read"
  /\ file # Garbled
  /\ IF call[p].op = "get"
     THEN ReturnPassword(p, "read", Says[KeyOf(p)])
     ELSE /\ Goto(p, "read", "open")
          /\ call' = [call EXCEPT ![p] = [@ EXCEPT !.copy = Changed(NoPasswords, p)]]
  /\ UNCHANGED <<file, private, ring, vault, exposed>>

Read(p) ==
  /\ pc[p] = "read"
  /\ file # Garbled
  /\ IF call[p].op = "get"
     THEN ReturnPassword(p, "read", Says[KeyOf(p)])
     ELSE /\ Goto(p, "read", "open")
          /\ call' = [call EXCEPT ![p] = [@ EXCEPT !.copy = Changed(Says, p)]]
  /\ UNCHANGED <<file, private, ring, vault, exposed>>

ReadGarbled(p) ==
  /\ file = Garbled
  /\ Return(p, "read", "ConfigParse")
  /\ UNCHANGED <<file, private, ring, vault, exposed>>

\* The mode is given only to a file that is created.
Open(p) ==
  /\ Goto(p, "open", "write")
  /\ file' = NoPasswords
  /\ private' = (private \/ file = None)
  /\ UNCHANGED <<ring, call, vault, exposed>>

\* Some of the entries of a text; a cut in the middle of an entry does not parse.
Parts(passwords) ==
  {Garbled} \cup {[k \in Keys |-> IF k \in some THEN passwords[k] ELSE None] : some \in SUBSET Keys}

\* A text over a longer one that another call wrote leaves the end of that one.
Over(text, old) ==
  IF old = NoPasswords THEN {text}
  ELSE IF old = Garbled THEN {text, Garbled}
  ELSE {text, Garbled} \cup
       {[k \in Keys |-> IF k \in some THEN old[k] ELSE text[k]] :
          some \in SUBSET {k \in Keys : text[k] = None}}

\* Mutant: reports success once the text is handed over.
WriteAndReport(p) ==
  /\ Goto(p, "write", "sync")
  /\ file' \in Over(call[p].copy, Says)
  /\ call' = [call EXCEPT ![p] = [@ EXCEPT !.outcome = "ok"]]
  /\ UNCHANGED <<private, ring, vault, exposed>>

Write(p) ==
  /\ Goto(p, "write", "sync")
  /\ file' \in Over(call[p].copy, Says)
  /\ UNCHANGED <<private, ring, call, vault, exposed>>

\* Part of the text is written, or nothing.  The task that writes keeps its error
\* for the next write, and there is none: the call goes on.
WriteFails(p) ==
  /\ Goto(p, "write", "sync")
  /\ file' \in Parts(call[p].copy) \cup {file}
  /\ vault' = None
  /\ UNCHANGED <<private, ring, call, exposed>>

Sync(p) ==
  /\ Return(p, "sync", "ok")
  /\ vault' = IF vault = None THEN None ELSE Changed(vault, p)
  /\ UNCHANGED <<file, private, ring, exposed>>

InWindow(p) == pc[p] \in {"write", "sync"}

\* The prompt, the keyring, the read, the open or the sync returns an error.
Fails(p) ==
  /\ \E at \in {"prompt", "ring", "check", "read", "open", "sync"} : Return(p, at, "Error")
  /\ vault' = IF InWindow(p) THEN None ELSE vault
  /\ UNCHANGED <<file, private, ring, exposed>>

Dies(p) ==
  /\ \E at \in {"prompt", "ring", "check", "read", "open", "write", "sync"} : Return(p, at, "died")
  /\ vault' = IF InWindow(p) THEN None ELSE vault
  /\ UNCHANGED <<file, private, ring, exposed>>

Next ==
  \/ Chmod
  \/ \E p \in Callers :
       \/ \E account \in Account, to \in {"prompt", "ring", "check"} :
            \/ \E op \in {"get", "delete"} : Begin(p, op, account, None, to)
            \/ \E w \in Password : w.of = account /\ Begin(p, "set", account, w, to)
       \/ Prompt(p) \/ UseRing(p)
       \/ Check(p) \/ Read(p) \/ ReadGarbled(p) \/ Open(p) \/ Write(p) \/ WriteFails(p) \/ Sync(p)
       \/ Fails(p) \/ Dies(p)

Spec == Init /\ [][Next]_vars

-----------------------------------------------------------------------------
(* Properties. *)

\* While no two calls change the file at once it holds exactly what the calls that
\* returned Ok say, other accounts included, unless one was cut short between the
\* truncation and the end of its write.
StoredAsReported ==
  vault # None /\ (\A p \in Callers : ~InWindow(p)) => Says = vault

\* A password that a call returns belongs to the account it was asked for, although
\* calls overlap, leave parts of the file behind and share it among servers.
OwnPassword ==
  \A p \in Callers :
    call[p] # None /\ call[p].op = "get" /\ call[p].outcome = "ok" =>
      call[p].password.of = call[p].account

\* Nobody but its user can read a file that passwords are written to, unless the
\* mode was changed while a call was in progress.
NotIntoTheOpen ==
  [][file' # file /\ file' \notin {NoPasswords, None} => private' \/ exposed]_vars

=============================================================================
