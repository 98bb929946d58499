---------------------------- MODULE RegistryCache ----------------------------
(***************************************************************************)
(* registry_client.rs: every rustmote process holds a RegistryClient that  *)
(* loads docker-hub-cache.toml once, answers from memory while an entry is *)
(* younger than the TTL, and on a miss asks the hub, stores the answer and *)
(* rewrites the whole file from its own memory.  The processes share only  *)
(* the file.  A key is a repository (its tag list) or a repository and tag *)
(* (its digest); an answer is a tag list or a digest.                      *)
(***************************************************************************)
EXTENDS Integers

CONSTANTS
  Processes,  \* rustmote processes on one machine
  Keys,       \* what can be asked
  Answers,    \* what the hub can answer
  TTL,        \* lifetime of an entry, in clock units
  MaxClock,   \* bound on the clock
  Inodes,     \* inodes of the cache directory
  None        \* no entry, inode or answer

Time  == 0 .. MaxClock
Entry == [at : Time, answer : Answers]
Store == [Keys -> Entry \cup {None}]

Never == -1

\* ok says that the call has returned its answer to the caller.
Call == [key : Keys, now : Time, answer : Answers \cup {None}, inode : Inodes \cup {None},
         ok : BOOLEAN]

NoEntries == [k \in Keys |-> None]

INSTANCE TomlFile WITH Contents <- Store, Default <- NoEntries

ASSUME CacheAssumption ==
  /\ TTL \in Nat
  /\ MaxClock \in Nat
  /\ None \notin Inodes \cup Entry \cup Answers \cup Call

NeverPaid == [k \in Keys |-> Never]

VARIABLES
  hub,       \* what the hub answers now
  asOf,      \* history: the last instant at which the hub gave each answer
  clock,
  file,      \* docker-hub-cache.toml and its temporary sibling
  pc,        \* where each process is
  mem,       \* the CacheStore of each process
  call,      \* the call each process is in, or the last one it returned from
  paid       \* history: when the last miss that was returned began, per key; None
             \* once processes overlap, until all have exited

vars == <<hub, asOf, clock, file, pc, mem, call, paid>>

TypeOK ==
  /\ hub \in [Keys -> Answers]
  /\ asOf \in [Keys -> [Answers -> Time \cup {Never}]]
  /\ clock \in Time
  /\ file \in File
  /\ pc \in [Processes -> {"down", "ready", "ask", "put", "open", "write", "rename"}]
  /\ mem \in [Processes -> Store]
  /\ call \in [Processes -> Call \cup {None}]
  /\ paid \in [Keys -> Time \cup {Never}] \cup {None}

Init ==
  /\ hub \in [Keys -> Answers]
  /\ asOf = [k \in Keys |-> [a \in Answers |-> IF a = hub[k] THEN 0 ELSE Never]]
  /\ clock = 0
  /\ file = NoFile
  /\ pc = [p \in Processes |-> "down"]
  /\ mem = [p \in Processes |-> NoEntries]
  /\ call = [p \in Processes |-> None]
  /\ paid = NeverPaid

-----------------------------------------------------------------------------
(* Environment: the hub moves, time passes. *)

Move(k, a) ==
  /\ a # hub[k]
  /\ hub' = [hub EXCEPT ![k] = a]
  /\ asOf' = [asOf EXCEPT ![k][a] = clock]
  /\ UNCHANGED <<clock, file, pc, mem, call, paid>>

Tick ==
  /\ clock < MaxClock
  /\ clock' = clock + 1
  /\ asOf' = [k \in Keys |-> [a \in Answers |-> IF a = hub[k] THEN clock + 1 ELSE asOf[k][a]]]
  /\ UNCHANGED <<hub, file, pc, mem, call, paid>>

-----------------------------------------------------------------------------
(* A process. *)

Goto(p, from, to) ==
  /\ pc[p] = from
  /\ pc' = [pc EXCEPT ![p] = to]

\* is_fresh
IsFresh(at, now) == now - at < TTL

\* tag_list_if_fresh and digest_if_fresh
Fresh(store, k, now) == store[k] # None /\ IsFresh(store[k].at, now)

Held == {call[p].inode : p \in {q \in Processes : call[q] # None}} \ {None}

\* with_cache_path: the file is read once, when the client is built.
Load(p) ==
  /\ Goto(p, "down", "ready")
  /\ mem' = [mem EXCEPT ![p] = Read(file)]
  /\ call' = [call EXCEPT ![p] = None]
  /\ paid' = IF \E q \in Processes : pc[q] # "down" THEN None
             ELSE IF paid = None THEN NeverPaid ELSE paid
  /\ UNCHANGED <<hub, asOf, clock, file>>

Hit(p, k) ==
  /\ pc[p] = "ready"
  /\ Fresh(mem[p], k, clock)
  /\ call' = [call EXCEPT ![p] = [key |-> k, now |-> clock, answer |-> mem[p][k].answer,
                                  inode |-> None, ok |-> TRUE]]
  /\ UNCHANGED <<hub, asOf, clock, file, pc, mem, paid>>

\* now is read before the transport is awaited.
Miss(p, k) ==
  /\ Goto(p, "ready", "ask")
  /\ ~Fresh(mem[p], k, clock)
  /\ call' = [call EXCEPT ![p] = [key |-> k, now |-> clock, answer |-> None,
                                  inode |-> None, ok |-> FALSE]]
  /\ UNCHANGED <<hub, asOf, clock, file, mem, paid>>

\* The hub answers; the response is under way.
Answer(p) ==
  /\ Goto(p, "ask", "put")
  /\ call' = [call EXCEPT ![p] = [@ EXCEPT !.answer = hub[call[p].key]]]
  /\ UNCHANGED <<hub, asOf, clock, file, mem, paid>>

\* Mutant: stamps the entry when the response arrives.
PutLate(p) ==
  /\ Goto(p, "put", "open")
  /\ mem' = [mem EXCEPT ![p] = [@ EXCEPT ![call[p].key] =
                                  [at |-> clock, answer |-> call[p].answer]]]
  /\ UNCHANGED <<hub, asOf, clock, file, call, paid>>

\* Mutant: stores when the entry expires, not when it was fetched.
PutExpiry(p) ==
  /\ Goto(p, "put", "open")
  /\ mem' = [mem EXCEPT ![p] = [@ EXCEPT ![call[p].key] =
                                  [at |-> call[p].now + TTL, answer |-> call[p].answer]]]
  /\ UNCHANGED <<hub, asOf, clock, file, call, paid>>

\* put_tag_list and put_digest, then flush.
Put(p) ==
  /\ Goto(p, "put", "open")
  /\ mem' = [mem EXCEPT ![p] = [@ EXCEPT ![call[p].key] =
                                  [at |-> call[p].now, answer |-> call[p].answer]]]
  /\ UNCHANGED <<hub, asOf, clock, file, call, paid>>

OpenTmp(p, i) ==
  /\ Goto(p, "open", "write")
  /\ Opens(file, Held, i)
  /\ file' = Opened(file, i)
  /\ call' = [call EXCEPT ![p] = [@ EXCEPT !.inode = i]]
  /\ UNCHANGED <<hub, asOf, clock, mem, paid>>

WriteTmp(p) ==
  /\ Goto(p, "write", "rename")
  /\ file' = Written(file, call[p].inode, mem[p])
  /\ call' = [call EXCEPT ![p] = [@ EXCEPT !.inode = None]]
  /\ UNCHANGED <<hub, asOf, clock, mem, paid>>

\* Mutant: leaves the temporary file where it is.
NoRename(p) ==
  /\ Goto(p, "rename", "ready")
  /\ call' = [call EXCEPT ![p] = [@ EXCEPT !.ok = TRUE]]
  /\ paid' = IF paid = None THEN None ELSE [paid EXCEPT ![call[p].key] = call[p].now]
  /\ UNCHANGED <<hub, asOf, clock, file, mem>>

Rename(p) ==
  /\ Goto(p, "rename", "ready")
  /\ CanRename(file)
  /\ file' = Renamed(file)
  /\ call' = [call EXCEPT ![p] = [@ EXCEPT !.ok = TRUE]]
  /\ paid' = IF paid = None THEN None ELSE [paid EXCEPT ![call[p].key] = call[p].now]
  /\ UNCHANGED <<hub, asOf, clock, mem>>

\* The request, the write or the rename fails: the caller gets the error, even
\* when the answer is already in memory.
Fails(p) ==
  /\ pc[p] \in {"ask", "open", "write", "rename"}
  /\ pc' = [pc EXCEPT ![p] = "ready"]
  /\ call' = [call EXCEPT ![p] = None]
  /\ UNCHANGED <<hub, asOf, clock, file, mem, paid>>

\* The process exits or dies, at any point.
Exit(p) ==
  /\ pc[p] # "down"
  /\ pc' = [pc EXCEPT ![p] = "down"]
  /\ mem' = [mem EXCEPT ![p] = NoEntries]
  /\ call' = [call EXCEPT ![p] = None]
  /\ UNCHANGED <<hub, asOf, clock, file, paid>>

Step(p) ==
  \/ Load(p) \/ Answer(p) \/ Put(p) \/ WriteTmp(p) \/ Rename(p) \/ Fails(p) \/ Exit(p)
  \/ \E k \in Keys : Hit(p, k) \/ Miss(p, k)
  \/ \E i \in Inodes : OpenTmp(p, i)

Next ==
  \/ Tick
  \/ \E k \in Keys, a \in Answers : Move(k, a)
  \/ \E p \in Processes : Step(p)

Spec == Init /\ [][Next]_vars

-----------------------------------------------------------------------------
(* Properties. *)

\* Whatever another process wrote over the file and however long a response took,
\* an answer a caller gets was the hub's less than a TTL before the call began, or
\* while it ran.
FreshAnswers ==
  \A p \in Processes :
    call[p] # None /\ call[p].ok =>
      LET last == asOf[call[p].key][call[p].answer]
      IN  last # Never /\ (last >= call[p].now \/ call[p].now - last < TTL)

\* With one process at a time, an answer that was paid for and returned is not
\* asked for again within the TTL, across crashes and restarts.
RateLimited ==
  [][\A p \in Processes :
       pc[p] = "ready" /\ pc'[p] = "ask" =>
         \/ paid = None
         \/ paid[call'[p].key] = Never
         \/ clock - paid[call'[p].key] >= TTL]_vars

=============================================================================
