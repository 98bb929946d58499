------------------------- MODULE CredentialsProofs -------------------------
(***************************************************************************)
(* Proofs about Credentials, for every set of callers, servers, users and  *)
(* passwords.                                                              *)
(***************************************************************************)
EXTENDS Credentials, TLAPS

-----------------------------------------------------------------------------
(* Keys, stores and calls. *)

\* Every account has a key, and no other account has it.
LEMMA KeyIdentifies ==
  /\ \A a \in Account : Key(a.server, a.user) \in Keys
  /\ \A a, b \in Account : Key(a.server, a.user) = Key(b.server, b.user) => a = b
BY DEF Keys, Key, Account

\* The empty store is a store.
LEMMA NoPasswordsType == NoPasswords \in Passwords
BY DEF NoPasswords, Passwords

\* A call with an outcome and perhaps another password is a call.
LEMMA CallUpdates ==
  ASSUME NEW r \in Call, NEW w \in Password \cup {None}, NEW outcome \in Outcomes
  PROVE  /\ [r EXCEPT !.copy = None, !.outcome = outcome] \in Call
         /\ [r EXCEPT !.password = w, !.copy = None, !.outcome = outcome] \in Call
BY DEF Call

-----------------------------------------------------------------------------
(* What the stores and the calls hold. *)

\* Every password is under the key of its account.
Owned(passwords) ==
  \A k \in Keys : passwords[k] # None => Key(passwords[k].of.server, passwords[k].of.user) = k

Stores == {passwords \in Passwords : Owned(passwords)}

\* A call that is at some step.
CallOK(r, at) ==
  /\ r \in Call
  /\ at # "idle" => r.outcome = "running"
  /\ at \in {"open", "write"} => r.copy # None
  /\ at \in {"open", "write", "sync"} => r.op # "get"
  /\ r.copy \in Stores \cup {None}
  /\ r.op = "set" => r.password # None /\ r.password.of = r.account
  /\ r.op = "get" /\ r.outcome = "ok" => r.password # None /\ r.password.of = r.account

CallsOK ==
  \A p \in Callers : /\ pc[p] # "idle" => call[p] # None
                     /\ call[p] # None => CallOK(call[p], pc[p])

StoresOK == ring \in Stores /\ file \in Stores \cup {None, Garbled}

ShapeOK == TypeOK /\ CallsOK /\ StoresOK

\* The empty store is owned.
LEMMA NoPasswordsOwned == NoPasswords \in Stores
BY NoPasswordsType DEF NoPasswords, Stores, Owned

\* What a call writes is owned if what it read is.
LEMMA ChangedOwned ==
  ASSUME NEW p \in Callers, CallOK(call[p], pc[p]), NEW s \in Stores
  PROVE  Changed(s, p) \in Stores
<1>1. KeyOf(p) \in Keys
  BY KeyIdentifies DEF CallOK, Call, KeyOf
<1> DEFINE v == IF call[p].op = "set" THEN call[p].password ELSE None
<1>2. v \in Password \cup {None}
  BY DEF CallOK, Call
<1>3. v # None => Key(v.of.server, v.of.user) = KeyOf(p)
  BY DEF CallOK, KeyOf
<1>4. Changed(s, p) = [s EXCEPT ![KeyOf(p)] = v]
  BY DEF Changed
<1> HIDE DEF v
<1>5. [s EXCEPT ![KeyOf(p)] = v] \in Passwords
  BY <1>1, <1>2 DEF Stores, Passwords
<1>6. Owned([s EXCEPT ![KeyOf(p)] = v])
  BY <1>1, <1>3 DEF Stores, Passwords, Owned
<1> QED BY <1>4, <1>5, <1>6 DEF Stores

\* So are the parts of it that a failing write leaves.
LEMMA PartsOwned ==
  ASSUME NEW s \in Stores PROVE Parts(s) \subseteq Stores \cup {Garbled}
<1> SUFFICES ASSUME NEW some \in SUBSET Keys
             PROVE  [k \in Keys |-> IF k \in some THEN s[k] ELSE None] \in Stores
  BY DEF Parts
<1> DEFINE t == [k \in Keys |-> IF k \in some THEN s[k] ELSE None]
<1>1. t \in Passwords
  BY DEF Stores, Passwords
<1>2. Owned(t)
  BY DEF Stores, Owned
<1> QED BY <1>1, <1>2 DEF Stores

\* And so is the mixture that two overlapping writes leave.
LEMMA OverOwned ==
  ASSUME NEW s \in Stores, NEW old \in Stores \cup {Garbled}
  PROVE  Over(s, old) \subseteq Stores \cup {Garbled}
<1>1. CASE old \in {NoPasswords, Garbled}
  BY <1>1 DEF Over
<1>2. CASE old \notin {NoPasswords, Garbled}
  <2> SUFFICES ASSUME NEW some \in SUBSET {k \in Keys : s[k] = None}
               PROVE  [k \in Keys |-> IF k \in some THEN old[k] ELSE s[k]] \in Stores
    BY <1>2 DEF Over
  <2> DEFINE t == [k \in Keys |-> IF k \in some THEN old[k] ELSE s[k]]
  <2>0. old \in Stores
    BY <1>2
  <2>1. t \in Passwords
    BY <2>0 DEF Stores, Passwords
  <2>2. Owned(t)
    BY <2>0 DEF Stores, Owned
  <2> QED BY <2>1, <2>2 DEF Stores
<1> QED BY <1>1, <1>2

\* What a reader finds is owned unless it is garbled.
LEMMA SaysOwned == ShapeOK => Says \in Stores \cup {Garbled}
BY NoPasswordsOwned DEF ShapeOK, StoresOK, Says

\* One call moves on.
LEMMA MoveShape ==
  ASSUME ShapeOK, NEW p \in Callers,
         NEW to \in Places,
         NEW r, CallOK(r, to),
         pc' = [pc EXCEPT ![p] = to], call' = [call EXCEPT ![p] = r]
  PROVE  /\ CallsOK'
         /\ pc' \in [Callers -> Places]
         /\ call' \in [Callers -> Call \cup {None}]
<1>0. r \in Call /\ r # None
  BY CredentialAssumption DEF CallOK
<1>1. /\ pc \in [Callers -> Places]
      /\ call \in [Callers -> Call \cup {None}]
  BY DEF ShapeOK, TypeOK
<1>2. ASSUME NEW q \in Callers PROVE /\ pc'[q] # "idle" => call'[q] # None
                                     /\ call'[q] # None => CallOK(call'[q], pc'[q])
  <2>1. CASE q = p
    <3>1. pc'[q] = to /\ call'[q] = r
      BY <1>1, <2>1
    <3> QED BY <1>0, <3>1
  <2>2. CASE q # p
    <3>1. pc'[q] = pc[q] /\ call'[q] = call[q]
      BY <1>1, <2>2
    <3> QED BY <3>1 DEF ShapeOK, CallsOK
  <2> QED BY <2>1, <2>2
<1>3. CallsOK'
  BY <1>2 DEF CallsOK, CallOK
<1> QED BY <1>0, <1>1, <1>3

\* The two last conjuncts of TypeOK are about the calls.
LEMMA TypeFromCalls ==
  ASSUME CallsOK
  PROVE  /\ \A p \in Callers : pc[p] # "idle" => call[p] # None /\ call[p].outcome = "running"
         /\ \A p \in Callers : pc[p] \in {"open", "write"} => call[p].copy # None
BY DEF CallsOK, CallOK

\* A call that returns without a password.
LEMMA ReturnShape ==
  ASSUME ShapeOK, NEW p \in Callers, NEW from, from # "idle", NEW outcome \in Outcomes,
         outcome = "ok" => call[p].op # "get", Return(p, from, outcome)
  PROVE  /\ CallsOK'
         /\ pc' \in [Callers -> Places]
         /\ call' \in [Callers -> Call \cup {None}]
<1> DEFINE r == [call[p] EXCEPT !.copy = None, !.outcome = outcome]
<1>1. CallOK(call[p], pc[p])
  BY DEF Return, Goto, ShapeOK, CallsOK
<1>2. r \in Call
  BY <1>1, CallUpdates DEF CallOK
<1>3. /\ r.copy = None /\ r.outcome = outcome /\ r.op = call[p].op
      /\ r.password = call[p].password /\ r.account = call[p].account
  BY <1>1 DEF CallOK, Call
<1> HIDE DEF r
<1>4. CallOK(r, "idle")
  BY <1>1, <1>2, <1>3 DEF CallOK
<1>5. pc' = [pc EXCEPT ![p] = "idle"] /\ call' = [call EXCEPT ![p] = r]
  BY DEF Return, Goto, r
<1>6. "idle" \in Places
  BY DEF Places
<1> QED BY <1>4, <1>5, <1>6, MoveShape

\* A call that returns a password of its account, or none.
LEMMA ReturnPasswordShape ==
  ASSUME ShapeOK, NEW p \in Callers, NEW from, from # "idle", NEW w \in Password \cup {None},
         w # None => w.of = call[p].account, call[p].op = "get", ReturnPassword(p, from, w)
  PROVE  /\ CallsOK'
         /\ pc' \in [Callers -> Places]
         /\ call' \in [Callers -> Call \cup {None}]
<1> DEFINE o == IF w = None THEN "NoStoredCredential" ELSE "ok"
           r == [call[p] EXCEPT !.password = w, !.copy = None, !.outcome = o]
<1>1. CallOK(call[p], pc[p])
  BY DEF ReturnPassword, Goto, ShapeOK, CallsOK
<1>2. o \in Outcomes /\ (o = "ok" => w # None)
  BY DEF Outcomes
<1>3. pc' = [pc EXCEPT ![p] = "idle"] /\ call' = [call EXCEPT ![p] = r]
  BY DEF ReturnPassword, Goto
<1> HIDE DEF o
<1>4. r \in Call
  BY <1>1, <1>2, CallUpdates DEF CallOK
<1>5. /\ r.copy = None /\ r.outcome = o /\ r.op = "get"
      /\ r.password = w /\ r.account = call[p].account
  BY <1>1 DEF CallOK, Call
<1> HIDE DEF r
<1>6. CallOK(r, "idle")
  BY <1>2, <1>4, <1>5 DEF CallOK
<1>7. "idle" \in Places
  BY DEF Places
<1> QED BY <1>3, <1>6, <1>7, MoveShape

\* A call that goes on as it is.
LEMMA GotoShape ==
  ASSUME ShapeOK, NEW p \in Callers, NEW from, from # "idle",
         NEW to \in {"read", "write", "sync"}, to = "write" => from = "open", to = "sync" => from = "write",
         Goto(p, from, to), UNCHANGED call
  PROVE  /\ CallsOK'
         /\ pc' \in [Callers -> Places]
         /\ call' \in [Callers -> Call \cup {None}]
<1> DEFINE r == call[p]
<1>1. CallOK(r, pc[p]) /\ pc[p] = from
  BY DEF Goto, ShapeOK, CallsOK
<1>2. CallOK(r, to)
  BY <1>1 DEF CallOK
<1>3. call' = [call EXCEPT ![p] = r]
  BY DEF ShapeOK, TypeOK
<1>4. pc' = [pc EXCEPT ![p] = to]
  BY DEF Goto
<1>5. to \in Places
  BY DEF Places
<1> HIDE DEF r
<1> QED BY <1>2, <1>3, <1>4, <1>5, MoveShape

-----------------------------------------------------------------------------
(* Every step keeps the shape. *)

\* A store with nothing in it and no call is well shaped.
LEMMA InitShape == Init => ShapeOK
<1> SUFFICES ASSUME Init PROVE ShapeOK
  OBVIOUS
<1>1. CallsOK
  BY DEF Init, CallsOK
<1>2. StoresOK
  BY NoPasswordsOwned DEF Init, StoresOK
<1>3. TypeOK
  BY NoPasswordsType DEF Init, TypeOK, Places
<1> QED BY <1>1, <1>2, <1>3 DEF ShapeOK

\* Beginning a call.
LEMMA BeginShape ==
  ASSUME ShapeOK, NEW p \in Callers, NEW op \in Ops, NEW account \in Account,
         NEW w \in Password \cup {None}, NEW to \in {"prompt", "ring", "check"},
         op = "set" => w # None /\ w.of = account,
         Begin(p, op, account, w, to)
  PROVE  ShapeOK'
<1> DEFINE r == [op |-> op, account |-> account, password |-> w, copy |-> None,
                 outcome |-> "running"]
<1>1. r \in Call
  BY DEF Call, Outcomes
<1>2. CallOK(r, to)
  BY <1>1 DEF CallOK
<1>3. pc' = [pc EXCEPT ![p] = to] /\ call' = [call EXCEPT ![p] = r]
  BY DEF Begin, Goto
<1>4. to \in Places
  BY DEF Places
<1> HIDE DEF r
<1>5. CallsOK' /\ pc' \in [Callers -> Places] /\ call' \in [Callers -> Call \cup {None}]
  BY <1>2, <1>3, <1>4, MoveShape
<1>6. /\ UNCHANGED <<file, private, ring>>
      /\ vault' \in {None, vault} \/ (vault' = Says /\ file # Garbled)
      /\ exposed' \in BOOLEAN
  BY DEF Begin
<1>7. vault' \in Passwords \cup {None}
  <2>1. file # Garbled => Says \in Passwords
    BY NoPasswordsType DEF ShapeOK, TypeOK, Says
  <2> QED BY <1>6, <2>1 DEF ShapeOK, TypeOK
<1>8. StoresOK'
  BY <1>6 DEF ShapeOK, StoresOK
<1> QED BY <1>5, <1>6, <1>7, <1>8, TypeFromCalls DEF ShapeOK, TypeOK, CallsOK, CallOK

\* Calls that ask the user or the keyring.
LEMMA RemoteShape ==
  ASSUME ShapeOK, NEW p \in Callers, Prompt(p) \/ UseRing(p)
  PROVE  ShapeOK'
<1>0. CallOK(call[p], pc[p]) /\ "ok" \in Outcomes
  BY DEF Prompt, UseRing, ShapeOK, CallsOK, Outcomes
<1>1. CASE Prompt(p)
  <2>1. CallsOK' /\ pc' \in [Callers -> Places] /\ call' \in [Callers -> Call \cup {None}]
    <3>1. CASE call[p].op = "get"
      <4>1. PICK w \in Password : w.of = call[p].account /\ ReturnPassword(p, "prompt", w)
        BY <1>1, <3>1 DEF Prompt
      <4> QED BY <3>1, <4>1, ReturnPasswordShape
    <3>2. CASE call[p].op # "get"
      BY <1>0, <1>1, <3>2, ReturnShape DEF Prompt
    <3> QED BY <3>1, <3>2
  <2>2. UNCHANGED <<file, private, ring, vault, exposed>>
    BY <1>1 DEF Prompt
  <2> QED BY <2>1, <2>2 DEF ShapeOK, StoresOK, TypeOK, CallsOK, CallOK
<1>2. CASE UseRing(p)
  <2>0. KeyOf(p) \in Keys
    BY <1>0, KeyIdentifies DEF CallOK, Call, KeyOf
  <2>1. CASE call[p].op = "get"
    <3> DEFINE w == ring[KeyOf(p)]
    <3>1. w \in Password \cup {None}
      BY <2>0 DEF ShapeOK, StoresOK, Stores, Passwords
    <3>2. w # None => Key(w.of.server, w.of.user) = KeyOf(p)
      BY <2>0 DEF ShapeOK, StoresOK, Stores, Owned
    <3>3. w # None => w.of = call[p].account
      BY <1>0, <3>1, <3>2, KeyIdentifies DEF KeyOf, CallOK, Call, Password
    <3>4. ReturnPassword(p, "ring", w) /\ UNCHANGED <<file, private, ring, vault, exposed>>
      BY <1>2, <2>1 DEF UseRing
    <3> HIDE DEF w
    <3>5. CallsOK' /\ pc' \in [Callers -> Places] /\ call' \in [Callers -> Call \cup {None}]
      BY <2>1, <3>1, <3>3, <3>4, ReturnPasswordShape
    <3> QED BY <3>4, <3>5 DEF ShapeOK, StoresOK, TypeOK, CallsOK, CallOK
  <2>2. CASE call[p].op # "get"
    <3>1. /\ Return(p, "ring", "ok") /\ ring' = Changed(ring, p)
          /\ UNCHANGED <<file, private, vault, exposed>>
      BY <1>2, <2>2 DEF UseRing
    <3>2. CallsOK' /\ pc' \in [Callers -> Places] /\ call' \in [Callers -> Call \cup {None}]
      BY <1>0, <2>2, <3>1, ReturnShape
    <3>3. ring' \in Stores
      BY <1>0, <3>1, ChangedOwned DEF ShapeOK, StoresOK
    <3> QED BY <3>1, <3>2, <3>3 DEF ShapeOK, StoresOK, Stores, TypeOK, CallsOK, CallOK
  <2> QED BY <2>1, <2>2
<1> QED BY <1>1, <1>2

\* The check of the mode and the read.
LEMMA ReadShape ==
  ASSUME ShapeOK, NEW p \in Callers, Check(p) \/ Read(p) \/ ReadGarbled(p)
  PROVE  ShapeOK'
<1>0. CallOK(call[p], pc[p])
  <2>1. pc[p] # "idle"
    BY DEF Check, Read, ReadGarbled, Return, Goto
  <2> QED BY <2>1 DEF ShapeOK, CallsOK
<1>i. "InsecureCredentialsFile" \in Outcomes /\ "ConfigParse" \in Outcomes
  BY DEF Outcomes
<1>1. UNCHANGED <<file, private, ring, vault, exposed>>
  BY DEF Check, Read, ReadGarbled
<1>2. CASE Check(p)
  <2>1. CallsOK' /\ pc' \in [Callers -> Places] /\ call' \in [Callers -> Call \cup {None}]
    <3>1. CASE file = None \/ private
      BY <1>2, <3>1, GotoShape DEF Check
    <3>2. CASE ~(file = None \/ private)
      BY <1>i, <1>2, <3>2, ReturnShape DEF Check
    <3> QED BY <3>1, <3>2
  <2> QED BY <1>1, <2>1 DEF ShapeOK, StoresOK, TypeOK, CallsOK, CallOK
<1>3. CASE ReadGarbled(p)
  <2>1. CallsOK' /\ pc' \in [Callers -> Places] /\ call' \in [Callers -> Call \cup {None}]
    BY <1>i, <1>3, ReturnShape DEF ReadGarbled
  <2> QED BY <1>1, <2>1 DEF ShapeOK, StoresOK, TypeOK, CallsOK, CallOK
<1>4. CASE Read(p) /\ call[p].op = "get"
  <2> DEFINE w == Says[KeyOf(p)]
  <2>i. Says \in Stores
    BY <1>4, NoPasswordsOwned DEF Read, Says, ShapeOK, StoresOK
  <2>0. KeyOf(p) \in Keys /\ Says \in Stores
    BY <1>0, <2>i, KeyIdentifies DEF CallOK, Call, KeyOf
  <2>1. w \in Password \cup {None}
    BY <2>0 DEF Stores, Passwords
  <2>2. w # None => Key(w.of.server, w.of.user) = KeyOf(p)
    BY <2>0 DEF Stores, Owned
  <2>3. w # None => w.of = call[p].account
    BY <1>0, <2>1, <2>2, KeyIdentifies DEF KeyOf, CallOK, Call, Password
  <2>4. ReturnPassword(p, "read", w)
    BY <1>4 DEF Read
  <2> HIDE DEF w
  <2>5. CallsOK' /\ pc' \in [Callers -> Places] /\ call' \in [Callers -> Call \cup {None}]
    BY <1>4, <2>1, <2>3, <2>4, ReturnPasswordShape
  <2> QED BY <1>1, <2>5 DEF ShapeOK, StoresOK, TypeOK, CallsOK, CallOK
<1>5. CASE Read(p) /\ call[p].op # "get"
  <2> DEFINE new == Changed(Says, p)
             r   == [call[p] EXCEPT !.copy = new]
  <2>0. Says \in Stores
    BY <1>5, SaysOwned, NoPasswordsOwned DEF Read, Says, ShapeOK, StoresOK
  <2>1. new \in Stores /\ new \in Passwords /\ new # None
    BY <1>0, <2>0, ChangedOwned, CredentialAssumption DEF Stores
  <2>2. pc' = [pc EXCEPT ![p] = "open"] /\ call' = [call EXCEPT ![p] = r]
    BY <1>5 DEF Read, Goto
  <2> HIDE DEF new
  <2>i. call[p] \in Call
    BY <1>0 DEF CallOK
  <2>3. r \in Call
    BY <2>1, <2>i DEF Call
  <2>4. /\ r.copy = new /\ r.outcome = call[p].outcome /\ r.op = call[p].op
        /\ r.password = call[p].password /\ r.account = call[p].account
    BY <1>0 DEF CallOK, Call
  <2> HIDE DEF r
  <2>5. pc[p] = "read" /\ "open" \in Places
    BY <1>5 DEF Read, Goto, Places
  <2>6. CallOK(r, "open")
    BY <1>0, <1>5, <2>1, <2>3, <2>4, <2>5 DEF CallOK
  <2>7. CallsOK' /\ pc' \in [Callers -> Places] /\ call' \in [Callers -> Call \cup {None}]
    BY <2>2, <2>5, <2>6, MoveShape
  <2> QED BY <1>1, <2>7 DEF ShapeOK, StoresOK, TypeOK, CallsOK, CallOK
<1> QED BY <1>2, <1>3, <1>4, <1>5

\* Truncating and writing the file.
LEMMA WriteShape ==
  ASSUME ShapeOK, NEW p \in Callers, Open(p) \/ Write(p) \/ WriteFails(p)
  PROVE  ShapeOK'
<1>0. CallOK(call[p], pc[p])
  BY DEF Open, Write, WriteFails, Goto, ShapeOK, CallsOK
<1>1. CallsOK' /\ pc' \in [Callers -> Places] /\ call' \in [Callers -> Call \cup {None}]
  BY GotoShape DEF Open, Write, WriteFails
<1>2. UNCHANGED ring /\ private' \in BOOLEAN /\ exposed' \in BOOLEAN /\ vault' \in Passwords \cup {None}
  BY DEF Open, Write, WriteFails, ShapeOK, TypeOK
<1>3. file' \in Stores \cup {None, Garbled}
  <2>1. CASE Open(p)
    BY <2>1, NoPasswordsOwned DEF Open
  <2>2. CASE Write(p)
    <3>1. call[p].copy \in Stores
      BY <1>0, <2>2 DEF Write, Goto, CallOK
    <3> DEFINE new == call[p].copy
    <3>2. file' \in Over(new, Says)
      BY <2>2 DEF Write
    <3>3. new \in Stores
      BY <3>1
    <3> HIDE DEF new
    <3> QED BY <3>2, <3>3, SaysOwned, OverOwned
  <2>3. CASE WriteFails(p)
    <3>1. call[p].copy \in Stores
      BY <1>0, <2>3 DEF WriteFails, Goto, CallOK
    <3>2. Parts(call[p].copy) \subseteq Stores \cup {Garbled}
      BY <3>1, PartsOwned
    <3> QED BY <2>3, <3>2 DEF WriteFails, ShapeOK, StoresOK
  <2> QED BY <2>1, <2>2, <2>3
<1> QED BY <1>1, <1>2, <1>3 DEF ShapeOK, StoresOK, Stores, TypeOK, CallsOK, CallOK

\* Ending a call.
LEMMA EndShape ==
  ASSUME ShapeOK, NEW p \in Callers, Sync(p) \/ Fails(p) \/ Dies(p)
  PROVE  ShapeOK'
<1>0. {"ok", "Error", "died"} \subseteq Outcomes
  BY DEF Outcomes
<1>1. UNCHANGED <<file, private, ring, exposed>>
  BY DEF Sync, Fails, Dies
<1>2. CASE Sync(p)
  <2>0. CallOK(call[p], pc[p]) /\ pc[p] = "sync"
    BY <1>2 DEF Sync, Return, Goto, ShapeOK, CallsOK
  <2>1. CallsOK' /\ pc' \in [Callers -> Places] /\ call' \in [Callers -> Call \cup {None}]
    BY <1>0, <1>2, <2>0, ReturnShape DEF Sync, CallOK
  <2>2. CASE vault = None
    <3>1. vault' = None
      BY <1>2, <2>2 DEF Sync
    <3> QED BY <1>1, <2>1, <3>1 DEF ShapeOK, StoresOK, TypeOK, CallsOK, CallOK
  <2>3. CASE vault # None
    <3>1. KeyOf(p) \in Keys
      BY <2>0, KeyIdentifies DEF CallOK, Call, KeyOf
    <3>2. Changed(vault, p) \in Passwords
      BY <2>0, <2>3, <3>1 DEF ShapeOK, TypeOK, Changed, Passwords, CallOK, Call
    <3>3. vault' \in Passwords
      BY <1>2, <2>3, <3>2 DEF Sync
    <3> QED BY <1>1, <2>1, <3>3 DEF ShapeOK, StoresOK, TypeOK, CallsOK, CallOK
  <2> QED BY <2>2, <2>3
<1>3. CASE Fails(p) \/ Dies(p)
  <2>1. vault' \in Passwords \cup {None}
    BY <1>3 DEF Fails, Dies, ShapeOK, TypeOK
  <2>2. PICK from \in Places \ {"idle"}, outcome \in {"Error", "died"} : Return(p, from, outcome)
    BY <1>3 DEF Fails, Dies, Places
  <2>3. CallsOK' /\ pc' \in [Callers -> Places] /\ call' \in [Callers -> Call \cup {None}]
    BY <1>0, <2>2, ReturnShape
  <2> QED BY <1>1, <2>1, <2>3 DEF ShapeOK, StoresOK, TypeOK, CallsOK, CallOK
<1> QED BY <1>2, <1>3

\* So does every step of the machine.
LEMMA NextShape ==
  ASSUME ShapeOK, [Next]_vars
  PROVE  ShapeOK'
<1>1. CASE UNCHANGED vars
  BY <1>1 DEF vars, ShapeOK, StoresOK, TypeOK, CallsOK
<1>2. CASE Chmod
  BY <1>2 DEF Chmod, ShapeOK, StoresOK, TypeOK, CallsOK
<1>3. ASSUME NEW p \in Callers, NEW account \in Account, NEW to \in {"prompt", "ring", "check"},
             NEW op \in {"get", "delete"}, Begin(p, op, account, None, to)
      PROVE  ShapeOK'
  <2>1. op \in Ops /\ op # "set"
    BY DEF Ops
  <2> QED BY <1>3, <2>1, BeginShape
<1>4. ASSUME NEW p \in Callers, NEW account \in Account, NEW to \in {"prompt", "ring", "check"},
             NEW w \in Password, w.of = account, Begin(p, "set", account, w, to)
      PROVE  ShapeOK'
  <2>1. "set" \in Ops /\ w # None
    BY CredentialAssumption DEF Ops
  <2> QED BY <1>4, <2>1, BeginShape
<1>5. ASSUME NEW p \in Callers,
             \/ Prompt(p) \/ UseRing(p)
             \/ Check(p) \/ Read(p) \/ ReadGarbled(p) \/ Open(p) \/ Write(p) \/ WriteFails(p) \/ Sync(p)
             \/ Fails(p) \/ Dies(p)
      PROVE  ShapeOK'
  BY <1>5, RemoteShape, ReadShape, WriteShape, EndShape
<1> QED BY <1>1, <1>2, <1>3, <1>4, <1>5 DEF Next

\* Types hold in every reachable state.
THEOREM CredentialsTypeCorrect == Spec => []TypeOK
<1>1. Spec => []ShapeOK
  BY InitShape, NextShape, PTL DEF Spec
<1>2. ShapeOK => TypeOK
  BY DEF ShapeOK
<1> QED BY <1>1, <1>2, PTL

\* Whatever calls overlap, fail or die, a password that is returned belongs to the
\* account it was asked for.
THEOREM OwnPasswordCorrect == Spec => []OwnPassword
<1>1. Spec => []ShapeOK
  BY InitShape, NextShape, PTL DEF Spec
<1>2. ShapeOK => OwnPassword
  BY DEF ShapeOK, CallsOK, CallOK, OwnPassword
<1> QED BY <1>1, <1>2, PTL

-----------------------------------------------------------------------------
(* What the callers were told. *)

\* While the vault is known there is at most one call that changes the file, and it
\* is somewhere between the vault and what the vault will be.
Told ==
  vault # None =>
    /\ \A p, q \in Writers : p = q
    /\ \A p \in Callers :
         /\ pc[p] \in {"open", "write"} => call[p].copy = Changed(vault, p)
         /\ pc[p] = "write" => file = NoPasswords
         /\ pc[p] = "sync" => file = Changed(vault, p)
    /\ StoredAsReported

\* Who writes the file is a writer.
LEMMA WindowIsWriters ==
  ASSUME ShapeOK, NEW p \in Callers, pc[p] \in {"open", "write", "sync"}
  PROVE  p \in Writers /\ call[p].op # "get"
<1>1. CallOK(call[p], pc[p])
  BY DEF ShapeOK, CallsOK
<1> QED BY <1>1 DEF CallOK, Writers

\* A call that stays clear of the file and changes nothing else disturbs nothing.
LEMMA ToldStays ==
  ASSUME ShapeOK, Told, NEW p \in Callers, NEW to \in Places, NEW r,
         pc' = [pc EXCEPT ![p] = to], call' = [call EXCEPT ![p] = r],
         to \notin {"open", "write", "sync"}, ~InWindow(p),
         to \in {"check", "read"} => r.op = "get" \/ p \in Writers,
         UNCHANGED <<file, vault>>
  PROVE  Told'
<1> SUFFICES ASSUME vault # None PROVE Told'
  BY DEF Told
<1>0. /\ pc'[p] = to /\ call'[p] = r
      /\ \A q \in Callers \ {p} : pc'[q] = pc[q] /\ call'[q] = call[q]
  BY DEF ShapeOK, TypeOK
<1>1. Writers' \subseteq Writers
  BY <1>0 DEF Writers
<1>2. \A q \in Callers \ {p} : Changed(vault, q)' = Changed(vault, q)
  BY <1>0 DEF Changed, KeyOf
<1>3. ASSUME NEW q \in Callers
      PROVE  /\ pc'[q] \in {"open", "write"} => call'[q].copy = Changed(vault, q)'
             /\ pc'[q] = "write" => file' = NoPasswords
             /\ pc'[q] = "sync" => file' = Changed(vault, q)'
  <2>1. CASE q = p
    BY <1>0, <2>1
  <2>2. CASE q # p
    BY <1>0, <1>2, <2>2 DEF Told
  <2> QED BY <2>1, <2>2
<1>4. (\A q \in Callers : ~InWindow(q)') => \A q \in Callers : ~InWindow(q)
  BY <1>0 DEF InWindow
<1>5. StoredAsReported'
  BY <1>4 DEF Told, StoredAsReported, Says, InWindow
<1> QED BY <1>1, <1>3, <1>5 DEF Told

\* Initially the vault is what the file says.
LEMMA InitTold == Init => Told
BY DEF Init, Told, Writers, StoredAsReported, Says

\* Beginning a call.
LEMMA BeginTold ==
  ASSUME ShapeOK, Told, NEW p \in Callers, NEW op \in Ops, NEW account \in Account,
         NEW w \in Password \cup {None}, NEW to \in {"prompt", "ring", "check"},
         Begin(p, op, account, w, to)
  PROVE  Told'
<1> DEFINE r == [op |-> op, account |-> account, password |-> w, copy |-> None,
                 outcome |-> "running"]
<1>1. /\ pc[p] = "idle" /\ pc' = [pc EXCEPT ![p] = to] /\ call' = [call EXCEPT ![p] = r]
      /\ UNCHANGED file
  BY DEF Begin, Goto
<1>2. r.op = op
  OBVIOUS
<1> HIDE DEF r
<1>3. to \in Places /\ to \notin {"open", "write", "sync", "read"} /\ ~InWindow(p)
  BY <1>1 DEF Places, InWindow
<1>4. CASE op = "get" \/ to # "check"
  <2>1. UNCHANGED vault
    BY <1>4 DEF Begin
  <2> QED BY <1>1, <1>2, <1>3, <1>4, <2>1, ToldStays
<1>5. CASE op # "get" /\ to = "check"
  <2>0. /\ pc'[p] = to /\ \A q \in Callers \ {p} : pc'[q] = pc[q] /\ call'[q] = call[q]
    BY <1>1 DEF ShapeOK, TypeOK
  <2>1. CASE Writers # {}
    BY <1>5, <2>1 DEF Begin, Told
  <2>2. CASE Writers = {} /\ vault' # None
    <3>1. \A q \in Callers : pc[q] \notin {"open", "write", "sync"}
      BY <2>2, WindowIsWriters
    <3>2. \A q \in Callers : pc'[q] \notin {"open", "write", "sync"}
      BY <1>5, <2>0, <3>1
    <3>3. \A q \in Writers' : q = p
      BY <2>0, <2>2 DEF Writers
    <3>4. vault' = Says
      BY <1>5, <2>2, <3>1 DEF Begin, Told, StoredAsReported, InWindow
    <3>5. StoredAsReported'
      BY <1>1, <3>4 DEF StoredAsReported, Says
    <3> QED BY <3>2, <3>3, <3>5 DEF Told
  <2>3. CASE vault' = None
    BY <2>3 DEF Told
  <2> QED BY <2>1, <2>2, <2>3
<1> QED BY <1>4, <1>5

\* A call that returns without having opened the file.
LEMMA ReturnTold ==
  ASSUME ShapeOK, Told, NEW p \in Callers, NEW from, ~InWindow(p),
         UNCHANGED <<file, vault>>,
         \/ \E outcome \in Outcomes : Return(p, from, outcome)
         \/ \E w \in Password \cup {None} : ReturnPassword(p, from, w)
  PROVE  Told'
<1> DEFINE r == call'[p]
<1>1. pc' = [pc EXCEPT ![p] = "idle"] /\ call' = [call EXCEPT ![p] = r]
  BY DEF Return, ReturnPassword, Goto, ShapeOK, TypeOK
<1>2. "idle" \in Places
  BY DEF Places
<1> HIDE DEF r
<1> QED BY <1>1, <1>2, ToldStays

\* Checking the mode and reading: the copy a writer takes is the next vault.
LEMMA ReadTold ==
  ASSUME ShapeOK, Told, NEW p \in Callers, Check(p) \/ Read(p) \/ ReadGarbled(p)
  PROVE  Told'
<1>0. /\ UNCHANGED <<file, vault>> /\ pc[p] \in {"check", "read"} /\ ~InWindow(p)
      /\ {"InsecureCredentialsFile", "ConfigParse"} \subseteq Outcomes
  BY DEF Check, Read, ReadGarbled, Return, Goto, InWindow, Outcomes
<1>1. CASE Check(p)
  <2>1. CASE file = None \/ private
    <3> DEFINE r == call[p]
    <3>1. pc' = [pc EXCEPT ![p] = "read"] /\ call' = [call EXCEPT ![p] = r] /\ "read" \in Places
      BY <1>1, <2>1 DEF Check, Goto, ShapeOK, TypeOK, Places
    <3>2. r.op = "get" \/ p \in Writers
      BY <1>0 DEF Writers
    <3> HIDE DEF r
    <3> QED BY <1>0, <3>1, <3>2, ToldStays
  <2>2. CASE ~(file = None \/ private)
    BY <1>0, <1>1, <2>2, ReturnTold DEF Check
  <2> QED BY <2>1, <2>2
<1>2. CASE ReadGarbled(p)
  BY <1>0, <1>2, ReturnTold DEF ReadGarbled
<1>3. CASE Read(p) /\ call[p].op = "get"
  <2> DEFINE w == Says[KeyOf(p)]
  <2>0. Says \in Passwords
    BY <1>3, NoPasswordsType DEF Read, Says, ShapeOK, TypeOK
  <2>1. KeyOf(p) \in Keys
    BY <1>0, KeyIdentifies DEF ShapeOK, CallsOK, CallOK, Call, KeyOf
  <2>2. w \in Password \cup {None}
    BY <2>0, <2>1 DEF Passwords
  <2>3. ReturnPassword(p, "read", w)
    BY <1>3 DEF Read
  <2> HIDE DEF w
  <2> QED BY <1>0, <2>2, <2>3, ReturnTold
<1>4. CASE Read(p) /\ call[p].op # "get"
  <2> SUFFICES ASSUME vault # None PROVE Told'
    BY <1>0 DEF Told
  <2> DEFINE new == Changed(Says, p)
  <2>0. p \in Writers /\ \A q \in Writers : q = p
    BY <1>0, <1>4 DEF Writers, Told
  <2>1. \A q \in Callers \ {p} : pc[q] \notin {"open", "write", "sync"}
    BY <2>0, WindowIsWriters
  <2>2. \A q \in Callers : ~InWindow(q)
    BY <1>0, <2>1 DEF InWindow
  <2>3. Says = vault
    BY <2>2 DEF Told, StoredAsReported
  <2>4. /\ pc' = [pc EXCEPT ![p] = "open"]
        /\ call' = [call EXCEPT ![p] = [call[p] EXCEPT !.copy = new]]
    BY <1>4 DEF Read, Goto
  <2>5. call[p] \in Call
    BY <1>0 DEF ShapeOK, CallsOK, CallOK
  <2>6. /\ pc'[p] = "open" /\ call'[p] = [call[p] EXCEPT !.copy = new]
        /\ \A q \in Callers \ {p} : pc'[q] = pc[q] /\ call'[q] = call[q]
    BY <2>4 DEF ShapeOK, TypeOK
  <2>7. new = Changed(vault, p)
    BY <2>3
  <2> HIDE DEF new
  <2>8. /\ call'[p].copy = new /\ call'[p].op = call[p].op
        /\ call'[p].account = call[p].account /\ call'[p].password = call[p].password
    BY <2>5, <2>6 DEF Call
  <2>9. Changed(vault, p)' = new
    BY <1>0, <2>7, <2>8 DEF Changed, KeyOf
  <2>10. Writers' \subseteq Writers
    BY <2>0, <2>6 DEF Writers
  <2>11. StoredAsReported'
    BY <1>0, <2>3 DEF StoredAsReported, Says
  <2> QED BY <2>0, <2>1, <2>6, <2>8, <2>9, <2>10, <2>11 DEF Told
<1> QED BY <1>1, <1>2, <1>3, <1>4

\* Truncating, writing and reporting: from the vault to the next one.
LEMMA WriteTold ==
  ASSUME ShapeOK, Told, NEW p \in Callers, Open(p) \/ Write(p) \/ Sync(p)
  PROVE  Told'
<1> SUFFICES ASSUME vault # None, vault' # None PROVE Told'
  BY DEF Told, Open, Write, Sync
<1>0. pc[p] \in {"open", "write", "sync"}
  BY DEF Open, Write, Sync, Return, Goto
<1>1. p \in Writers /\ \A q \in Writers : q = p
  BY <1>0, WindowIsWriters DEF Told
<1>2. \A q \in Callers \ {p} : pc[q] \notin {"open", "write", "sync"}
  BY <1>1, WindowIsWriters
<1>3. \A q \in Callers \ {p} : pc'[q] = pc[q] /\ call'[q] = call[q]
  BY DEF Open, Write, Sync, Return, Goto, ShapeOK, TypeOK
<1>4. Writers' \subseteq Writers
  BY <1>1, <1>3 DEF Writers
<1>5. CASE Open(p)
  <2>1. pc[p] = "open" /\ pc'[p] = "write" /\ file' = NoPasswords /\ UNCHANGED <<call, vault>>
    BY <1>5 DEF Open, Goto, ShapeOK, TypeOK
  <2>2. ~StoredAsReported' => FALSE
    BY <2>1 DEF StoredAsReported, InWindow
  <2>3. call[p].copy = Changed(vault, p) /\ Changed(vault, p)' = Changed(vault, p)
    BY <2>1 DEF Told, Changed, KeyOf
  <2> QED BY <1>1, <1>2, <1>3, <1>4, <2>1, <2>2, <2>3 DEF Told
<1>6. CASE Write(p)
  <2>1. /\ pc[p] = "write" /\ pc'[p] = "sync" /\ file' \in Over(call[p].copy, Says)
        /\ UNCHANGED <<call, vault>>
    BY <1>6 DEF Write, Goto, ShapeOK, TypeOK
  <2>2. file = NoPasswords /\ call[p].copy = Changed(vault, p)
    BY <2>1 DEF Told
  <2>3. Says = NoPasswords
    BY <2>2 DEF Says
  <2>4. file' = Changed(vault, p) /\ Changed(vault, p)' = Changed(vault, p)
    BY <2>1, <2>2, <2>3 DEF Over, Changed, KeyOf
  <2>5. StoredAsReported'
    BY <2>1 DEF StoredAsReported, InWindow
  <2> QED BY <1>1, <1>2, <1>3, <1>4, <2>1, <2>4, <2>5 DEF Told
<1>7. CASE Sync(p)
  <2>1. /\ pc[p] = "sync" /\ pc'[p] = "idle" /\ vault' = Changed(vault, p) /\ UNCHANGED file
    BY <1>7 DEF Sync, Return, Goto, ShapeOK, TypeOK
  <2>2. file = Changed(vault, p)
    BY <2>1 DEF Told
  <2>3. Changed(vault, p) \in Passwords
    <3>1. CallOK(call[p], pc[p])
      BY <2>1 DEF ShapeOK, CallsOK
    <3>2. KeyOf(p) \in Keys
      BY <3>1, KeyIdentifies DEF CallOK, Call, KeyOf
    <3>3. vault \in Passwords
      BY DEF ShapeOK, TypeOK
    <3> QED BY <3>1, <3>2, <3>3 DEF Changed, Passwords, CallOK, Call
  <2>4. file # None
    BY <2>2, <2>3, CredentialAssumption
  <2>5. StoredAsReported'
    BY <2>1, <2>2, <2>4 DEF StoredAsReported, Says
  <2> QED BY <1>1, <1>2, <1>3, <1>4, <2>1, <2>5 DEF Told
<1> QED BY <1>5, <1>6, <1>7

\* Calls that ask the user or the keyring, fail or die.
LEMMA OtherTold ==
  ASSUME ShapeOK, Told, NEW p \in Callers,
         Prompt(p) \/ UseRing(p) \/ WriteFails(p) \/ Fails(p) \/ Dies(p)
  PROVE  Told'
<1>0. {"ok", "Error", "died"} \subseteq Outcomes
  BY DEF Outcomes
<1>1. CASE Prompt(p)
  <2>1. ~InWindow(p) /\ UNCHANGED <<file, vault>>
    BY <1>1 DEF Prompt, InWindow
  <2> QED BY <1>0, <1>1, <2>1, ReturnTold DEF Prompt
<1>2. CASE UseRing(p)
  <2>1. pc[p] = "ring" /\ ~InWindow(p) /\ UNCHANGED <<file, vault>>
    BY <1>2 DEF UseRing, InWindow
  <2>2. CASE call[p].op = "get"
    <3> DEFINE w == ring[KeyOf(p)]
    <3>1. KeyOf(p) \in Keys
      BY <2>1, KeyIdentifies DEF ShapeOK, CallsOK, CallOK, Call, KeyOf
    <3>2. w \in Password \cup {None}
      BY <3>1 DEF ShapeOK, TypeOK, Passwords
    <3>3. ReturnPassword(p, "ring", w)
      BY <1>2, <2>2 DEF UseRing
    <3> HIDE DEF w
    <3> QED BY <2>1, <3>2, <3>3, ReturnTold
  <2>3. CASE call[p].op # "get"
    BY <1>0, <1>2, <2>1, <2>3, ReturnTold DEF UseRing
  <2> QED BY <2>2, <2>3
<1>3. CASE WriteFails(p)
  BY <1>3 DEF WriteFails, Told
<1>4. CASE Fails(p) \/ Dies(p)
  <2>1. CASE InWindow(p)
    BY <1>4, <2>1 DEF Fails, Dies, Told
  <2>2. CASE ~InWindow(p)
    <3>1. PICK from \in Places, outcome \in Outcomes : Return(p, from, outcome)
      BY <1>0, <1>4 DEF Fails, Dies, Places
    <3>2. UNCHANGED <<file, vault>>
      BY <1>4, <2>2 DEF Fails, Dies
    <3> QED BY <2>2, <3>1, <3>2, ReturnTold
  <2> QED BY <2>1, <2>2
<1> QED BY <1>1, <1>2, <1>3, <1>4

\* So does every step of the machine.
LEMMA NextTold ==
  ASSUME ShapeOK, Told, [Next]_vars
  PROVE  Told'
<1>1. CASE UNCHANGED vars
  BY <1>1 DEF vars, Told, Writers, StoredAsReported, Says, InWindow, Changed, KeyOf
<1>2. CASE Chmod
  BY <1>2 DEF Chmod, Told, Writers, StoredAsReported, Says, InWindow, Changed, KeyOf
<1>3. ASSUME NEW p \in Callers, NEW account \in Account, NEW to \in {"prompt", "ring", "check"},
             NEW op \in Ops, NEW w \in Password \cup {None}, Begin(p, op, account, w, to)
      PROVE  Told'
  BY <1>3, BeginTold
<1>4. \A p \in Callers : Prompt(p) \/ UseRing(p) \/ WriteFails(p) \/ Fails(p) \/ Dies(p) => Told'
  BY OtherTold
<1>5. \A p \in Callers : Check(p) \/ Read(p) \/ ReadGarbled(p) => Told'
  BY ReadTold
<1>6. \A p \in Callers : Open(p) \/ Write(p) \/ Sync(p) => Told'
  BY WriteTold
<1>7. {"get", "set", "delete"} = Ops
  BY DEF Ops
<1> QED BY <1>1, <1>2, <1>3, <1>4, <1>5, <1>6, <1>7 DEF Next

\* As long as no two calls change the file at once and none is cut short in its
\* write, the file holds what the callers were told.
THEOREM StoredAsReportedCorrect == Spec => []StoredAsReported
<1>1. ShapeOK /\ Told /\ [Next]_vars => ShapeOK' /\ Told'
  BY NextShape, NextTold
<1>2. Told => StoredAsReported
  BY DEF Told, StoredAsReported
<1> QED BY <1>1, <1>2, InitShape, InitTold, PTL DEF Spec

-----------------------------------------------------------------------------
(* Who can read the file. *)

\* Past the check the file is missing or private, unless the user meddles.
Guarded ==
  \A p \in Callers :
    /\ pc[p] \in {"read", "open", "write", "sync"} => file = None \/ private \/ exposed
    /\ pc[p] \in {"write", "sync"} => file # None

\* A step of a call goes from where it is to one of the places after it.
LEMMA StepsGuarded ==
  ASSUME ShapeOK, Guarded, [Next]_vars
  PROVE  /\ Guarded'
         /\ file' # file /\ file' \notin {NoPasswords, None} => private' \/ exposed
<1>0. pc \in [Callers -> Places]
  BY DEF ShapeOK, TypeOK
<1>1. CASE UNCHANGED vars
  BY <1>1 DEF vars, Guarded
<1>2. CASE Chmod
  <2>1. /\ exposed \/ Idle => exposed' \/ Idle
        /\ ~Idle => exposed'
        /\ UNCHANGED <<file, pc>>
    BY <1>2 DEF Chmod
  <2> QED BY <1>2, <2>1 DEF Guarded, Idle
<1>3. ASSUME NEW p \in Callers, NEW account, NEW to \in {"prompt", "ring", "check"},
             NEW op, NEW w, Begin(p, op, account, w, to)
      PROVE  UNCHANGED file /\ Guarded'
  <2>1. /\ pc' = [pc EXCEPT ![p] = to] /\ UNCHANGED <<file, private>>
        /\ exposed' = (exposed /\ ~Idle)
    BY <1>3 DEF Begin, Goto
  <2>2. Idle => \A q \in Callers : pc'[q] \in {"idle", "prompt", "ring", "check"}
    BY <1>0, <2>1 DEF Idle
  <2> QED BY <1>0, <2>1, <2>2 DEF Guarded
<1>4. ASSUME NEW p \in Callers,
             \/ Prompt(p) \/ UseRing(p) \/ ReadGarbled(p) \/ Sync(p) \/ Fails(p) \/ Dies(p)
             \/ (Read(p) /\ call[p].op = "get") \/ (Check(p) /\ ~(file = None \/ private))
      PROVE  UNCHANGED file /\ Guarded'
  <2>1. /\ pc' = [pc EXCEPT ![p] = "idle"]
        /\ UNCHANGED <<file, private, exposed>>
    BY <1>4 DEF Prompt, UseRing, ReadGarbled, Sync, Fails, Dies, Read, Check, Return,
       ReturnPassword, Goto
  <2> QED BY <1>0, <2>1 DEF Guarded
<1>5. ASSUME NEW p \in Callers,
             \/ (Read(p) /\ call[p].op # "get") \/ (Check(p) /\ (file = None \/ private))
      PROVE  UNCHANGED file /\ Guarded'
  <2>1. /\ pc[p] = "read" \/ file = None \/ private
        /\ \/ pc' = [pc EXCEPT ![p] = "read"] \/ pc' = [pc EXCEPT ![p] = "open"]
        /\ UNCHANGED <<file, private, exposed>>
    BY <1>5 DEF Read, Check, Goto
  <2> QED BY <1>0, <2>1 DEF Guarded
<1>6. ASSUME NEW p \in Callers, Open(p)
      PROVE  file' = NoPasswords /\ Guarded'
  <2>1. /\ pc[p] = "open" /\ pc' = [pc EXCEPT ![p] = "write"] /\ file' = NoPasswords
        /\ private' = (private \/ file = None) /\ UNCHANGED exposed
    BY <1>6 DEF Open, Goto
  <2>2. NoPasswords # None
    BY NoPasswordsType, CredentialAssumption
  <2> QED BY <1>0, <2>1, <2>2 DEF Guarded
<1>7. ASSUME NEW p \in Callers, Write(p) \/ WriteFails(p)
      PROVE  (private' \/ exposed) /\ Guarded'
  <2>1. /\ pc[p] = "write" /\ pc' = [pc EXCEPT ![p] = "sync"] /\ UNCHANGED <<private, exposed>>
    BY <1>7 DEF Write, WriteFails, Goto
  <2>2. file # None /\ (private \/ exposed)
    BY <2>1 DEF Guarded
  <2> DEFINE new == call[p].copy
  <2>3. new \in Stores
    BY <2>1 DEF ShapeOK, CallsOK, CallOK
  <2>4. file' \in Over(new, Says) \/ file' \in Parts(new) \/ file' = file
    BY <1>7 DEF Write, WriteFails
  <2> HIDE DEF new
  <2>5. file' \in Stores \cup {Garbled} \/ file' = file
    BY <2>3, <2>4, SaysOwned, OverOwned, PartsOwned
  <2>6. None \notin Stores \cup {Garbled}
    BY CredentialAssumption DEF Stores
  <2>7. file' # None
    BY <2>2, <2>5, <2>6
  <2> QED BY <1>0, <2>1, <2>2, <2>7 DEF Guarded
<1> QED BY <1>1, <1>2, <1>3, <1>4, <1>5, <1>6, <1>7 DEF Next

\* Passwords are written only to a file that its user alone can read, unless the mode
\* was changed while a call was in progress.
THEOREM NotIntoTheOpenCorrect == Spec => NotIntoTheOpen
<1>1. Init => Guarded
  BY DEF Init, Guarded
<1>2. ShapeOK /\ Guarded /\ [Next]_vars => ShapeOK' /\ Guarded'
  BY NextShape, StepsGuarded
<1>3. ShapeOK /\ Guarded /\ [Next]_vars =>
        [file' # file /\ file' \notin {NoPasswords, None} => private' \/ exposed]_vars
  BY StepsGuarded
<1> QED BY <1>1, <1>2, <1>3, InitShape, PTL DEF Spec, NotIntoTheOpen

=============================================================================
