--------------------------- MODULE RelayLifecycle ---------------------------
(***************************************************************************)
(* The relay orchestrator of crates/rustmote-core/src/relay_lifecycle:     *)
(* bootstrap and update drive one remote host through a sequence of shell  *)
(* commands.  A command is one step here, except those whose parts another *)
(* operator can come between: write_file opens {path}.rustmote-tmp, fills  *)
(* it and renames it, and cp -a empties its target and fills it.  Between  *)
(* two steps the client may die, another operator may run commands on the  *)
(* same host, Docker Hub may publish, and the clock may advance by one     *)
(* second.                                                                 *)
(*                                                                         *)
(* A tag stands for its rank among the dotted-numeric tags, so "highest"   *)
(* is the order on naturals.  A compose file is the tag text of the        *)
(* template it was rendered from and the set of digests substituted after  *)
(* that tag: {} is a tag-only reference, a singleton is a proper pin, and  *)
(* two digests are the malformed r:t@d2@d1.  A file two commands wrote at  *)
(* once, or one did not finish, may also be Empty or Torn: neither parses. *)
(***************************************************************************)
EXTENDS Integers, FiniteSets

CONSTANTS
  Clients,        \* operators, each running one command at a time
  Services,       \* services of the compose template (hbbs, hbbr)
  Tags,           \* numeric tags of the repository, as ranks
  Templates,      \* tags that may appear in the caller's compose template
  Digests,        \* image digests
  Releases,       \* <<tag, digest>> pairs the registry may publish
  Bad,            \* digests whose containers never open their port
  None,           \* absent file, digest, pin or backup
  Empty, Torn,    \* content of a file truncated, or mixed from two writes
  Retention,      \* BACKUP_RETENTION_DAYS, in clock units
  MinRetained,    \* MIN_RETAINED_BACKUPS
  MaxPolls,       \* health rounds that fit in the health-check timeout
  MaxClock        \* bound on the clock

Pin     == [tag : Tags, digest : Digests]
Pins    == [Services -> Pin]
Compose == [tag : Tags, digests : SUBSET Digests]
Damaged == {Empty, Torn}
ComposeFile == Compose \cup Damaged \cup {None}
StateFile   == Pins \cup Damaged \cup {None}
Time    == 0 .. MaxClock
Backup  == [compose : ComposeFile, state : StateFile, mtime : Time]

ASSUME ConstantsAssumption ==
  /\ Tags \subseteq Nat
  /\ Templates \subseteq Tags /\ Templates # {}
  /\ Releases \subseteq Tags \X Digests
  /\ Bad \subseteq Digests
  /\ Retention \in Nat
  /\ MinRetained \in Nat
  /\ MaxPolls \in Nat \ {0}
  /\ MaxClock \in Nat

ASSUME NoneAssumption ==
  None \notin Digests \cup Pin \cup Pins \cup Compose \cup Damaged \cup Backup \cup Time

ASSUME DamagedAssumption == Empty # Torn /\ \A d \in Damaged : d \notin Pins \cup Compose

VARIABLES
  \* Docker Hub (through registry_client)
  hub,        \* digest each tag resolves to now, None when unpublished
  published,  \* history: every <<tag, digest>> the hub has ever served
  highest,    \* history: every tag that was once the highest the hub listed
  clock,      \* seconds, the granularity of backup directory names
  \* the install path on the remote host
  dir,        \* the install directory exists
  compose,    \* docker-compose.yml
  env,        \* .env exists
  state,      \* the pins of .rustmote-state.toml
  composeTmp, \* docker-compose.yml.rustmote-tmp
  stateTmp,   \* .rustmote-state.toml.rustmote-tmp
  backups,    \* backups/pre-update-<second>/
  \* docker on the remote host
  pulled,     \* digest each tag has in the local image store
  running,    \* digest each service's container runs
  \* the operators
  pc,         \* next command of each operator's call
  call,       \* locals of each operator's call
  outcome,    \* result of each operator's last call
  fd,         \* where the file is that each operator's command has open for writing
  alone       \* history: operators whose write of the state file no other overlapped

hubVars    == <<hub, published, highest>>
tmpVars    == <<composeTmp, stateTmp>>
fileVars   == <<dir, compose, env, state, backups, tmpVars>>
dockerVars == <<pulled, running>>
hostVars   == <<fileVars, dockerVars>>
writeVars  == <<fd, alone>>
callVars   == <<pc, call, outcome, writeVars>>
vars       == <<hubVars, clock, hostVars, callVars>>

BootstrapSteps == {"preflight", "findInstall", "findMarker", "layout", "writeEnv"}
UpdateSteps == {"loadState", "decide", "reportNoop", "makeBackup", "saveCompose", "keepCompose",
                "saveState", "keepState", "saveConfig", "reload", "pull", "listBackups", "collect",
                "undoCompose", "refillCompose", "undoState", "refillState", "undoUp", "undoHealth"}
SharedSteps == {"resolve", "openCompose", "fillCompose", "moveCompose",
                "openState", "fillState", "moveState", "up", "health"}
Steps       == BootstrapSteps \cup UpdateSteps \cup SharedSteps

Outcomes == {"none", "Installed", "AlreadyInstalled", "RelayForeignInstall", "RelayNotInstalled",
             "RelayUpdateNotConfirmed", "AlreadyUpToDate", "Updated", "RelayHealthCheckFailed",
             "Failed"}

(***************************************************************************)
(* Locals of a call.  before is a history field: the files of the host     *)
(* when the call began.                                                    *)
(***************************************************************************)
Snapshot == [compose : ComposeFile, state : StateFile]

Call == [op : {"none", "bootstrap", "update"}, skip : BOOLEAN, template : Tags, tag : Tags,
         seen : Pins \cup {None}, report : [Services -> Pin \cup {None}],
         at : Time, backup : Time \cup {None}, polls : 0 .. MaxPolls,
         doomed : SUBSET Time, before : Snapshot]

NewCall(op, skip, template, tag) ==
  [op |-> op, skip |-> skip, template |-> template, tag |-> tag,
   seen |-> None, report |-> [s \in Services |-> None],
   at |-> clock, backup |-> None, polls |-> 0, doomed |-> {},
   before |-> [compose |-> compose, state |-> state]]

NoCall ==
  LET t == CHOOSE t \in Tags : TRUE
  IN  [op |-> "none", skip |-> TRUE, template |-> t, tag |-> t,
       seen |-> None, report |-> [s \in Services |-> None],
       at |-> 0, backup |-> None, polls |-> 0, doomed |-> {},
       before |-> [compose |-> None, state |-> None]]

TypeOK ==
  /\ hub \in [Tags -> Digests \cup {None}]
  /\ published \in SUBSET (Tags \X Digests)
  /\ highest \in SUBSET Tags
  /\ clock \in Time
  /\ dir \in BOOLEAN
  /\ compose \in ComposeFile
  /\ env \in BOOLEAN
  /\ state \in StateFile
  /\ backups \in [Time -> Backup \cup {None}]
  /\ pulled \in [Tags -> Digests \cup {None}]
  /\ running \in [Services -> Digests \cup {None}]
  /\ pc \in [Clients -> Steps \cup {"idle"}]
  /\ call \in [Clients -> Call]
  /\ outcome \in [Clients -> Outcomes]
  /\ composeTmp \in ComposeFile
  /\ stateTmp \in StateFile
  /\ fd \in [Clients -> {"none", "tmp", "path", "gone"}]
  /\ alone \in SUBSET Clients

Init ==
  /\ hub = [t \in Tags |-> None]
  /\ published = {}
  /\ highest = {}
  /\ clock = 0
  /\ dir = FALSE
  /\ compose = None
  /\ env = FALSE
  /\ state = None
  /\ backups = [t \in Time |-> None]
  /\ pulled = [t \in Tags |-> None]
  /\ running = [s \in Services |-> None]
  /\ pc = [c \in Clients |-> "idle"]
  /\ call = [c \in Clients |-> NoCall]
  /\ outcome = [c \in Clients |-> "none"]
  /\ composeTmp = None
  /\ stateTmp = None
  /\ fd = [c \in Clients |-> "none"]
  /\ alone = {}

-----------------------------------------------------------------------------
(* Helpers of the handlers. *)

Goto(c, from, to) ==
  /\ pc[c] = from
  /\ pc' = [pc EXCEPT ![c] = to]
  /\ UNCHANGED <<outcome, writeVars>>

\* A step of a command that leaves its target open at a place, or open no more.
Shell(c, from, to, place) ==
  /\ pc[c] = from
  /\ pc' = [pc EXCEPT ![c] = to]
  /\ fd' = [fd EXCEPT ![c] = place]
  /\ UNCHANGED outcome

Start(c, first, locals) ==
  /\ pc[c] = "idle"
  /\ pc' = [pc EXCEPT ![c] = first]
  /\ call' = [call EXCEPT ![c] = locals]
  /\ outcome' = [outcome EXCEPT ![c] = "none"]
  /\ UNCHANGED writeVars

Return(c, result) ==
  /\ pc' = [pc EXCEPT ![c] = "idle"]
  /\ call' = [call EXCEPT ![c] = NoCall]
  /\ outcome' = [outcome EXCEPT ![c] = result]
  /\ fd' = [fd EXCEPT ![c] = "none"]
  /\ alone' = alone \ {c}

\* pick_latest_semver takes the highest tag listed, else the current one; the
\* list, like a digest, may come from the client's cache and be out of date.
IsLatest(tag, current) == tag \in highest \cup {current}

\* CheckUpdatesReport::any_update_available compares digests, not tags.
AnyUpdateAvailable(c) ==
  \E s \in Services : call[c].report[s].digest # call[c].seen[s].digest

\* Mutant: substitutes every pin, whatever its tag.
RenderAnyTag(template, pins) ==
  [tag |-> template, digests |-> {pins[s].digest : s \in Services}]

\* render_compose_with_pins: only a pin whose tag text is the template's tag
\* is substituted, and every image line is substituted by each such pin.
Render(template, pins) ==
  [tag |-> template,
   digests |-> {pins[s].digest : s \in {z \in Services : pins[z].tag = template}}]

WellFormed(file) == file \in Compose /\ \A d, e \in file.digests : d = e

\* The digest docker runs for a well-formed compose file: the pinned digest,
\* else the local image of the tag, else what the hub serves for the tag.
ImageOf(file) ==
  IF file.digests # {} THEN CHOOSE d \in file.digests : TRUE
  ELSE IF pulled[file.tag] # None THEN pulled[file.tag]
  ELSE hub[file.tag]

Listening(s) == running[s] \in Digests \ Bad

Backups == {t \in Time : backups[t] # None}

\* What a file may hold when a command has written new from its start: new, and,
\* where another's longer text is, new with the rest of that text behind it.
Over(old, new) ==
  IF old = Empty THEN {new}
  ELSE IF new \in {Empty, old} THEN {old}
  ELSE {new, Torn}

\* The same for the name at which the command may or may not have its file open.
Into(open, old, new) == IF open THEN Over(old, new) ELSE {old}

\* mv renames the temporary file over the path: who has the temporary file open
\* (in one of the steps) now writes at the path, and who has the file open that
\* was there, into a file without a name.
Renamed(steps) ==
  [o \in Clients |-> IF pc[o] \notin steps THEN fd[o]
                     ELSE IF fd[o] = "tmp" THEN "path" ELSE "gone"]

\* The operators whose command is at work on the state file.
Rewriting == {o \in Clients : pc[o] \in {"fillState", "moveState", "refillState"}}

-----------------------------------------------------------------------------
(* Environment. *)

Publish(t, d) ==
  /\ <<t, d>> \in Releases \ published
  /\ hub' = [hub EXCEPT ![t] = d]
  /\ published' = published \cup {<<t, d>>}
  /\ highest' = IF \E o \in Tags : o > t /\ hub[o] # None THEN highest ELSE highest \cup {t}
  /\ UNCHANGED <<clock, hostVars, callVars>>

Tick ==
  /\ clock < MaxClock
  /\ clock' = clock + 1
  /\ UNCHANGED <<hubVars, hostVars, callVars>>

\* The client process dies and reports nothing; the host keeps what the
\* commands, or the parts of the last, so far did.
Crash(c) ==
  /\ pc[c] # "idle"
  /\ Return(c, "none")
  /\ UNCHANGED <<hubVars, clock, hostVars>>

\* Where update has a backup to restore when the health check returns an error.
WillRollBack(c) == pc[c] = "health" /\ call[c].op = "update" /\ call[c].backup # None

\* A command (or what is left of it: the shell joins its parts by &&) or a
\* registry request fails without effect and "?" returns.  So does reading a
\* damaged state file, which from_toml_str rejects.
ExecFails(c) ==
  /\ pc[c] \notin {"idle", "decide"}
  /\ ~WillRollBack(c)
  /\ Return(c, "Failed")
  /\ UNCHANGED <<hubVars, clock, hostVars>>

-----------------------------------------------------------------------------
(* bootstrap *)

BeginBootstrap(c, template, tag) ==
  /\ Start(c, "preflight", NewCall("bootstrap", TRUE, template, tag))
  /\ UNCHANGED <<hubVars, clock, hostVars>>

\* detect_os and ensure_docker_stack read the host; their errors are ExecFails.
Preflight(c) ==
  /\ Goto(c, "preflight", "findInstall")
  /\ UNCHANGED <<hubVars, clock, hostVars, call>>

FindInstall(c) ==
  /\ Goto(c, "findInstall", IF dir THEN "findMarker" ELSE "resolve")
  /\ UNCHANGED <<hubVars, clock, hostVars, call>>

FindMarker(c) ==
  /\ pc[c] = "findMarker"
  /\ state \in Pins \cup {None}
  /\ Return(c, IF state = None THEN "RelayForeignInstall" ELSE "AlreadyInstalled")
  /\ UNCHANGED <<hubVars, clock, hostVars>>

\* Both operations resolve one service after the other, bootstrap the requested
\* tag and check_updates the highest.  The answer is one the hub gave within the
\* cache's lifetime (RegistryCache!FreshAnswers), which here is all the run, and
\* a cached answer may expire between two services.
Resolve(c, s, tag, digest) ==
  LET report == [call[c].report EXCEPT ![s] = [tag |-> tag, digest |-> digest]]
      done == \A z \in Services : report[z] # None
      next == IF ~done THEN "resolve"
              ELSE IF call[c].op = "bootstrap" THEN "layout" ELSE "decide"
  IN  /\ Goto(c, "resolve", next)
      /\ call[c].report[s] = None
      /\ IF call[c].op = "bootstrap" THEN tag = call[c].tag ELSE IsLatest(tag, call[c].seen[s].tag)
      /\ <<tag, digest>> \in published
      /\ call' = [call EXCEPT ![c].report = report]
      /\ UNCHANGED <<hubVars, clock, hostVars>>

\* mkdir -p of the install, data and backups directories, in that order.
Layout(c) ==
  /\ Goto(c, "layout", "openCompose")
  /\ dir' = TRUE
  /\ UNCHANGED <<hubVars, clock, compose, env, state, backups, tmpVars, dockerVars, call>>

\* One step of write_file: nothing here reads what .env holds.
WriteEnv(c) ==
  /\ Goto(c, "writeEnv", "openState")
  /\ env' = TRUE
  /\ UNCHANGED <<hubVars, clock, dir, compose, state, backups, tmpVars, dockerVars, call>>

-----------------------------------------------------------------------------
(* update *)

BeginUpdate(c, template, skip) ==
  /\ Start(c, "loadState", NewCall("update", skip, template, template))
  /\ UNCHANGED <<hubVars, clock, hostVars>>

\* Neither --yes nor a terminal to ask on.
RefuseUpdate(c) ==
  /\ pc[c] = "idle"
  /\ Return(c, "RelayUpdateNotConfirmed")
  /\ UNCHANGED <<hubVars, clock, hostVars>>

\* load_state: a missing state file is RelayNotInstalled, whenever it is read.
NotInstalled(c) ==
  /\ pc[c] \in {"loadState", "reportNoop", "reload"}
  /\ state = None
  /\ Return(c, "RelayNotInstalled")
  /\ UNCHANGED <<hubVars, clock, hostVars>>

LoadState(c) ==
  /\ Goto(c, "loadState", "resolve")
  /\ state \in Pins
  /\ call' = [call EXCEPT ![c].seen = state]
  /\ UNCHANGED <<hubVars, clock, hostVars>>

Decide(c) ==
  LET next == IF ~AnyUpdateAvailable(c) THEN "reportNoop"
              ELSE IF call[c].skip THEN "reload" ELSE "makeBackup"
  IN  /\ Goto(c, "decide", next)
      /\ call' = [call EXCEPT ![c].at = clock]
      /\ UNCHANGED <<hubVars, clock, hostVars>>

ReportNoop(c) ==
  /\ pc[c] = "reportNoop"
  /\ state \in Pins
  /\ Return(c, "AlreadyUpToDate")
  /\ UNCHANGED <<hubVars, clock, hostVars>>

\* mkdir -p backups/pre-update-<at>: an existing directory is reused.
MakeBackup(c) ==
  LET at == call[c].at
  IN  /\ Goto(c, "makeBackup", "saveCompose")
      /\ backups' = IF backups[at] # None THEN backups
                    ELSE [backups EXCEPT ![at] =
                            [compose |-> None, state |-> None, mtime |-> clock]]
      /\ call' = [call EXCEPT ![c].backup = at]
      /\ UNCHANGED <<hubVars, clock, dir, compose, env, state, tmpVars, dockerVars>>

\* cp -a opens what it copies and empties its target, or creates it, which alone
\* touches the directory's mtime.
SaveCompose(c) ==
  LET b == call[c].backup
  IN  /\ Shell(c, "saveCompose", "keepCompose", "path")
      /\ backups[b] # None
      /\ compose # None
      /\ backups' = [backups EXCEPT ![b].compose = Empty,
                                    ![b].mtime = IF backups[b].compose = None THEN clock ELSE @]
      /\ UNCHANGED <<hubVars, clock, dir, compose, env, state, tmpVars, dockerVars, call, alone>>

\* Then it fills the target.
KeepCompose(c) ==
  LET b == call[c].backup
  IN  /\ Shell(c, "keepCompose", "saveState", "none")
      /\ IF fd[c] = "path" /\ backups[b] # None
         THEN \E kept \in Over(backups[b].compose, compose) :
                backups' = [backups EXCEPT ![b].compose = kept]
         ELSE UNCHANGED backups
      /\ UNCHANGED <<hubVars, clock, dir, compose, env, state, tmpVars, dockerVars, call, alone>>

\* Mutant: keeps the copy an earlier update of the same second made.
SaveStateOnce(c) ==
  LET b == call[c].backup
  IN  /\ pc[c] = "saveState"
      /\ backups[b] # None
      /\ state # None
      /\ IF backups[b].state # None
         THEN Shell(c, "saveState", "keepState", "gone") /\ UNCHANGED backups
         ELSE /\ Shell(c, "saveState", "keepState", "path")
              /\ backups' = [backups EXCEPT ![b].state = Empty, ![b].mtime = clock]
      /\ UNCHANGED <<hubVars, clock, dir, compose, env, state, tmpVars, dockerVars, call, alone>>

SaveState(c) ==
  LET b == call[c].backup
  IN  /\ Shell(c, "saveState", "keepState", "path")
      /\ backups[b] # None
      /\ state # None
      /\ backups' = [backups EXCEPT ![b].state = Empty,
                                    ![b].mtime = IF backups[b].state = None THEN clock ELSE @]
      /\ UNCHANGED <<hubVars, clock, dir, compose, env, state, tmpVars, dockerVars, call, alone>>

KeepState(c) ==
  LET b == call[c].backup
  IN  /\ Shell(c, "keepState", "saveConfig", "none")
      /\ IF fd[c] = "path" /\ backups[b] # None
         THEN \E kept \in Over(backups[b].state, state) :
                backups' = [backups EXCEPT ![b].state = kept]
         ELSE UNCHANGED backups
      /\ UNCHANGED <<hubVars, clock, dir, compose, env, state, tmpVars, dockerVars, call, alone>>

\* docker compose config: a non-zero exit is tolerated and writes nothing.
SaveConfig(c) ==
  LET b == call[c].backup
  IN  /\ Goto(c, "saveConfig", "reload")
      /\ \/ UNCHANGED backups
         \/ /\ backups[b] # None
            /\ backups' = [backups EXCEPT ![b].mtime = clock]
      /\ UNCHANGED <<hubVars, clock, dir, compose, env, state, tmpVars, dockerVars, call>>

Reload(c) ==
  /\ Goto(c, "reload", "openCompose")
  /\ state \in Pins
  /\ UNCHANGED <<hubVars, clock, hostVars, call>>

\* Mutant: goes on to the health check without recreating the containers.
PullOnly(c) ==
  /\ Goto(c, "pull", "health")
  /\ UNCHANGED <<hubVars, clock, hostVars, call>>

Pull(c) ==
  /\ Goto(c, "pull", "up")
  /\ WellFormed(compose)
  /\ pulled' = IF compose.digests = {} /\ hub[compose.tag] # None
               THEN [pulled EXCEPT ![compose.tag] = hub[compose.tag]]
               ELSE pulled
  /\ UNCHANGED <<hubVars, clock, fileVars, running, call>>

-----------------------------------------------------------------------------
(* Steps both operations take. *)

\* write_file opens the temporary file, which two operators share, and empties it.
OpenCompose(c) ==
  /\ Shell(c, "openCompose", "fillCompose", "tmp")
  /\ dir
  /\ composeTmp' = Empty
  /\ UNCHANGED <<hubVars, clock, dir, compose, env, state, stateTmp, backups, dockerVars, call, alone>>

\* base64 -d writes the content, wherever the file is by now.
FillCompose(c) ==
  LET content == Render(call[c].template, call[c].report)
  IN  /\ Shell(c, "fillCompose", "moveCompose", "none")
      /\ composeTmp' \in Into(fd[c] = "tmp", composeTmp, content)
      /\ compose' \in Into(fd[c] = "path", compose, content)
      /\ UNCHANGED <<hubVars, clock, dir, env, state, stateTmp, backups, dockerVars, call, alone>>

\* Mutant: bootstrap writes the state file before .env.
MoveComposeThenState(c) ==
  /\ pc[c] = "moveCompose"
  /\ pc' = [pc EXCEPT ![c] = "openState"]
  /\ composeTmp # None
  /\ compose' = composeTmp
  /\ composeTmp' = None
  /\ fd' = Renamed({"fillCompose", "refillCompose"})
  /\ UNCHANGED <<hubVars, clock, dir, env, state, stateTmp, backups, dockerVars, call, outcome, alone>>

\* mv fails when another operator's mv took the temporary file.
MoveCompose(c) ==
  /\ pc[c] = "moveCompose"
  /\ pc' = [pc EXCEPT ![c] = IF call[c].op = "bootstrap" THEN "writeEnv" ELSE "openState"]
  /\ composeTmp # None
  /\ compose' = composeTmp
  /\ composeTmp' = None
  /\ fd' = Renamed({"fillCompose", "refillCompose"})
  /\ UNCHANGED <<hubVars, clock, dir, env, state, stateTmp, backups, dockerVars, call, outcome, alone>>

\* Mutant: empties and writes the state file itself.
OpenStateInPlace(c) ==
  /\ Shell(c, "openState", "fillState", "path")
  /\ dir
  /\ state' = Empty
  /\ alone' = IF Rewriting = {} THEN {c} ELSE {}
  /\ UNCHANGED <<hubVars, clock, dir, compose, env, backups, tmpVars, dockerVars, call>>

OpenState(c) ==
  /\ Shell(c, "openState", "fillState", "tmp")
  /\ dir
  /\ stateTmp' = Empty
  /\ alone' = IF Rewriting = {} THEN {c} ELSE {}
  /\ UNCHANGED <<hubVars, clock, dir, compose, env, state, composeTmp, backups, dockerVars, call>>

FillState(c) ==
  /\ Shell(c, "fillState", "moveState", "none")
  /\ stateTmp' \in Into(fd[c] = "tmp", stateTmp, call[c].report)
  /\ state' \in Into(fd[c] = "path", state, call[c].report)
  /\ UNCHANGED <<hubVars, clock, dir, compose, env, composeTmp, backups, dockerVars, call, alone>>

MoveState(c) ==
  /\ pc[c] = "moveState"
  /\ pc' = [pc EXCEPT ![c] = IF call[c].op = "bootstrap" THEN "up" ELSE "pull"]
  /\ stateTmp # None
  /\ state' = stateTmp
  /\ stateTmp' = None
  /\ fd' = Renamed({"fillState", "refillState"})
  /\ alone' = alone \ {c}
  /\ UNCHANGED <<hubVars, clock, dir, compose, env, composeTmp, backups, dockerVars, call, outcome>>

\* docker compose up -d recreates the containers and fetches a missing image.
ComposeUp(c, from, to) ==
  /\ Goto(c, from, to)
  /\ WellFormed(compose)
  /\ ImageOf(compose) # None
  /\ running' = [s \in Services |-> ImageOf(compose)]
  /\ pulled' = IF compose.digests = {} THEN [pulled EXCEPT ![compose.tag] = ImageOf(compose)]
               ELSE pulled
  /\ call' = [call EXCEPT ![c].polls = 0]
  /\ UNCHANGED <<hubVars, clock, fileVars>>

\* It may also fail after recreating some of them.
ComposeUpFails(c) ==
  /\ pc[c] \in {"up", "undoUp"}
  /\ WellFormed(compose)
  /\ ImageOf(compose) # None
  /\ \E changed \in SUBSET Services :
       running' = [s \in Services |-> IF s \in changed THEN ImageOf(compose) ELSE running[s]]
  /\ Return(c, "Failed")
  /\ UNCHANGED <<hubVars, clock, fileVars, pulled>>

Up(c)     == ComposeUp(c, "up", "health")
UndoUp(c) == ComposeUp(c, "undoUp", "undoHealth")

\* A round in which both ports answer.
Healthy(c) ==
  /\ pc[c] \in {"health", "undoHealth"}
  /\ \A s \in Services : Listening(s)
  /\ \/ /\ pc[c] = "health" /\ call[c].op = "bootstrap"
        /\ Return(c, "Installed")
     \/ /\ pc[c] = "health" /\ call[c].op = "update"
        /\ Goto(c, "health", "listBackups")
        /\ UNCHANGED call
     \/ /\ pc[c] = "undoHealth"
        /\ Return(c, "RelayHealthCheckFailed")
  /\ UNCHANGED <<hubVars, clock, hostVars>>

\* Mutant: sleeps once more when the deadline has passed.
NotYetHealthyOnce(c) ==
  /\ pc[c] \in {"health", "undoHealth"}
  /\ call' = [call EXCEPT ![c].polls = @ + 1]
  /\ call[c].polls <= MaxPolls
  /\ UNCHANGED <<hubVars, clock, hostVars, pc, outcome, writeVars>>

\* Mutant: restarts the deadline with every round.
NotYetHealthyForever(c) ==
  /\ pc[c] \in {"health", "undoHealth"}
  /\ call' = [call EXCEPT ![c].polls = 1 - @]
  /\ UNCHANGED <<hubVars, clock, hostVars, pc, outcome, writeVars>>

\* A round in which some port does not answer (yet), before the deadline.
NotYetHealthy(c) ==
  /\ pc[c] \in {"health", "undoHealth"}
  /\ call[c].polls + 1 < MaxPolls
  /\ call' = [call EXCEPT ![c].polls = @ + 1]
  /\ UNCHANGED <<hubVars, clock, hostVars, pc, outcome, writeVars>>

\* The deadline has passed, or a probe could not be sent: update restores the
\* backup if it took one; bootstrap and rollback give up.
Unhealthy(c) ==
  /\ \/ /\ WillRollBack(c)
        /\ Goto(c, "health", "undoCompose")
        /\ UNCHANGED call
     \/ /\ pc[c] \in {"health", "undoHealth"}
        /\ ~WillRollBack(c)
        /\ Return(c, "RelayHealthCheckFailed")
  /\ UNCHANGED <<hubVars, clock, hostVars>>

-----------------------------------------------------------------------------
(* rollback *)

UndoCompose(c) ==
  LET b == call[c].backup
  IN  /\ Shell(c, "undoCompose", "refillCompose", "path")
      /\ backups[b] # None
      /\ backups[b].compose # None
      /\ dir
      /\ compose' = Empty
      /\ UNCHANGED <<hubVars, clock, dir, env, state, backups, tmpVars, dockerVars, call, alone>>

RefillCompose(c) ==
  LET b == call[c].backup
  IN  /\ Shell(c, "refillCompose", "undoState", "none")
      /\ backups[b] # None
      /\ backups[b].compose # None
      /\ compose' \in Into(fd[c] = "path", compose, backups[b].compose)
      /\ UNCHANGED <<hubVars, clock, dir, env, state, backups, tmpVars, dockerVars, call, alone>>

\* Mutant: leaves the state file of the failed update in place.
UndoStateForgotten(c) ==
  /\ Goto(c, "undoState", "undoUp")
  /\ UNCHANGED <<hubVars, clock, hostVars, call>>

UndoState(c) ==
  LET b == call[c].backup
  IN  /\ Shell(c, "undoState", "refillState", "path")
      /\ backups[b] # None
      /\ backups[b].state # None
      /\ dir
      /\ state' = Empty
      /\ alone' = IF Rewriting = {} THEN {c} ELSE {}
      /\ UNCHANGED <<hubVars, clock, dir, compose, env, backups, tmpVars, dockerVars, call>>

RefillState(c) ==
  LET b == call[c].backup
  IN  /\ Shell(c, "refillState", "undoUp", "none")
      /\ backups[b] # None
      /\ backups[b].state # None
      /\ state' \in Into(fd[c] = "path", state, backups[b].state)
      /\ alone' = alone \ {c}
      /\ UNCHANGED <<hubVars, clock, dir, compose, env, backups, tmpVars, dockerVars, call>>

-----------------------------------------------------------------------------
(* gc_backups *)

\* Mutant: takes the cutoff itself for expired.
ListFromCutoff(c) ==
  /\ Goto(c, "listBackups", "collect")
  /\ \E kept \in SUBSET Backups :
       /\ Cardinality(kept) = MinRetained \/ kept = Backups
       /\ Cardinality(kept) <= MinRetained
       /\ \A k \in kept, o \in Backups \ kept : backups[k].mtime >= backups[o].mtime
       /\ call' = [call EXCEPT ![c].doomed =
                     {o \in Backups \ kept : backups[o].mtime <= call[c].at - Retention}]
  /\ UNCHANGED <<hubVars, clock, hostVars>>

\* Newest first, the first MinRetained are skipped, the rest go when older
\* than the cutoff; entries with equal mtime are in any order.
ListBackups(c) ==
  /\ Goto(c, "listBackups", "collect")
  /\ \E kept \in SUBSET Backups :
       /\ Cardinality(kept) = MinRetained \/ kept = Backups
       /\ Cardinality(kept) <= MinRetained
       /\ \A k \in kept, o \in Backups \ kept : backups[k].mtime >= backups[o].mtime
       /\ call' = [call EXCEPT ![c].doomed =
                     {o \in Backups \ kept : backups[o].mtime < call[c].at - Retention}]
  /\ UNCHANGED <<hubVars, clock, hostVars>>

\* A find that exits with an error counts as no backups.
ListFails(c) ==
  /\ Goto(c, "listBackups", "collect")
  /\ UNCHANGED <<hubVars, clock, hostVars, call>>

\* rm -rf of one backup; a command copying into it goes on with a file without a name.
Collect(c, b) ==
  /\ pc[c] = "collect"
  /\ b \in call[c].doomed
  /\ backups' = [backups EXCEPT ![b] = None]
  /\ call' = [call EXCEPT ![c].doomed = @ \ {b}]
  /\ fd' = [o \in Clients |-> IF pc[o] \in {"keepCompose", "keepState"} /\ call[o].backup = b
                              THEN "gone" ELSE fd[o]]
  /\ UNCHANGED <<hubVars, clock, dir, compose, env, state, tmpVars, dockerVars, pc, outcome, alone>>

Updated(c) ==
  /\ pc[c] = "collect"
  /\ call[c].doomed = {}
  /\ Return(c, "Updated")
  /\ UNCHANGED <<hubVars, clock, hostVars>>

-----------------------------------------------------------------------------
\* What an operator's call does next, when no command fails.
Step(c) ==
  \/ Preflight(c) \/ FindInstall(c) \/ FindMarker(c)
  \/ \E s \in Services, tag \in Tags, digest \in Digests : Resolve(c, s, tag, digest)
  \/ Layout(c) \/ WriteEnv(c)
  \/ NotInstalled(c) \/ LoadState(c) \/ Decide(c) \/ ReportNoop(c)
  \/ MakeBackup(c) \/ SaveCompose(c) \/ KeepCompose(c) \/ SaveState(c) \/ KeepState(c)
  \/ SaveConfig(c) \/ Reload(c)
  \/ OpenCompose(c) \/ FillCompose(c) \/ MoveCompose(c)
  \/ OpenState(c) \/ FillState(c) \/ MoveState(c)
  \/ Pull(c) \/ Up(c) \/ Healthy(c) \/ NotYetHealthy(c) \/ Unhealthy(c)
  \/ UndoCompose(c) \/ RefillCompose(c) \/ UndoState(c) \/ RefillState(c) \/ UndoUp(c)
  \/ ListBackups(c) \/ ListFails(c) \/ (\E b \in Time : Collect(c, b)) \/ Updated(c)

Fails(c) == Crash(c) \/ ExecFails(c) \/ ComposeUpFails(c)

Begin(c) ==
  \E template \in Templates :
    \/ \E tag \in Tags : BeginBootstrap(c, template, tag)
    \/ \E skip \in BOOLEAN : BeginUpdate(c, template, skip)
    \/ RefuseUpdate(c)

Environment == Tick \/ \E t \in Tags, d \in Digests : Publish(t, d)

Next == Environment \/ \E c \in Clients : Begin(c) \/ Step(c) \/ Fails(c)

Spec == Init /\ [][Next]_vars

\* A started command returns (with success or an error) and the call goes on.
FairSpec == Spec /\ \A c \in Clients : WF_vars(Step(c) \/ ExecFails(c))

-----------------------------------------------------------------------------
(* Properties. *)

Served(tag, digest) == <<tag, digest>> \in published

AllServed(pins) == \A s \in Services : Served(pins[s].tag, pins[s].digest)

StateServed(file)   == file \in Pins => AllServed(file)
ComposeServed(file) == file \in Compose => \A d \in file.digests : Served(file.tag, d)

\* The state file marks a complete install: it is written last, so wherever a
\* client died and whoever else works on the host, a host that has it also has
\* the directory, the compose file and .env that update and rollback rely on.
MarkerLast == state # None => dir /\ compose # None /\ env

\* Every pin on the host was served by the registry for that tag, in the state
\* file, in the compose file and in every backup that parses, whatever the hub
\* serves now.
Provenance ==
  /\ StateServed(state)
  /\ ComposeServed(compose)
  /\ \A t \in Backups : StateServed(backups[t].state) /\ ComposeServed(backups[t].compose)

\* With one operator, a rollback puts back the compose file and the state file
\* of before the update, and with a digest-pinned compose file the old image,
\* whatever was published, crashed or retried before.
RollbackRestores ==
  \A c \in Clients :
    /\ pc[c] \in {"undoUp", "undoHealth"} =>
         compose = call[c].before.compose /\ state = call[c].before.state
    /\ pc[c] = "undoHealth" /\ compose.digests # {} =>
         \A s \in Services : running[s] \in compose.digests

\* With one operator, the backup an update took still holds the files of before
\* the update while and after it collects garbage, until it reports success.
BackupSurvives ==
  \A c \in Clients :
    pc[c] = "collect" /\ call[c].backup # None =>
      LET b == backups[call[c].backup]
      IN  b # None /\ b.compose = call[c].before.compose /\ b.state = call[c].before.state

\* With one operator, an update that reports success with a template of the tag
\* it moved to leaves both services running the digests the state file names.
UpdateDeploys ==
  \A c \in Clients :
    pc[c] = "collect" /\ (\A s \in Services : call[c].report[s].tag = call[c].template) =>
      \A s \in Services : running[s] = state[s].digest /\ Listening(s)

\* Garbage collection never deletes a backup younger than the retention period
\* or one of the MinRetained most recent.
CollectsOnlyOld ==
  [][\A b \in Time : backups[b] # None /\ backups'[b] = None =>
       /\ backups[b].mtime + Retention < clock
       /\ Cardinality({o \in Backups \ {b} : backups[o].mtime >= backups[b].mtime})
            >= MinRetained]_vars

\* The state file implements a register of served pins with an undo log, the
\* backups, that only commands overlapping on it, or a rollback cut short, damage.
Record == INSTANCE RelayRecord
            WITH Operators <- Clients,
                 record    <- state,
                 saved     <- {backups[t].state : t \in Backups} \ {None},
                 served    <- published,
                 writing   <- {c \in Clients : pc[c] \in {"fillState", "moveState"}},
                 restoring <- {c \in Clients : pc[c] = "refillState"}

RecordSpec == Record!Spec

\* Every call of an operator returns: the health loops end and no command waits
\* for anything but its own answer.
EveryCallReturns == \A c \in Clients : pc[c] # "idle" ~> pc[c] = "idle"

-----------------------------------------------------------------------------
(* Statements of the documentation that the code does not keep. *)

\* state.rs:3: the state file says what is deployed, so an update that finds
\* nothing newer than the state file leaves those digests running.
NoopIsDeployed ==
  \A c \in Clients :
    outcome[c] = "AlreadyUpToDate" => \A s \in Services : running[s] = state[s].digest

=============================================================================
