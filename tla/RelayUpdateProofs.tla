------------------------- MODULE RelayUpdateProofs -------------------------
(***************************************************************************)
(* One operator's update of RelayLifecycle: its backup, its rollback, what *)
(* it deploys and what it collects, for every set of services, tags and    *)
(* digests and every bound.                                                *)
(***************************************************************************)
EXTENDS RelayLifecycleProofs, FiniteSetTheorems

\* One operator at a time.
Alone == \A c, d \in Clients : c = d

\* Until it renames the new compose file, an update finds the files of before.
Untouched == {"loadState", "resolve", "decide", "reportNoop", "makeBackup", "saveCompose",
              "keepCompose", "saveState", "keepState", "saveConfig", "reload", "openCompose",
              "fillCompose", "moveCompose"}

\* From there on the backup directory of the call exists.
Backed == {"saveCompose", "keepCompose", "saveState", "keepState", "saveConfig", "reload",
           "openCompose", "fillCompose", "moveCompose", "openState", "fillState", "moveState",
           "pull", "up", "health", "listBackups", "collect",
           "undoCompose", "refillCompose", "undoState", "refillState", "undoUp", "undoHealth"}

\* An update that is neither rolled back nor at its end has written its files.
Written == {"pull", "up", "health", "listBackups", "collect"}

\* Steps of a command that has a file open for writing, or has written it.
Hands == {"keepCompose", "keepState", "fillCompose", "moveCompose", "fillState", "moveState",
          "refillCompose", "refillState"}

\* What a call of an update knows of its backup.
BackupOK(at, r) ==
  /\ at \in {"loadState", "resolve", "decide"} => r.backup = None
  /\ at \in Backed /\ r.backup # None =>
       /\ r.backup = r.at
       /\ backups[r.backup] # None
       /\ at \notin {"saveCompose", "keepCompose"} => backups[r.backup].compose = r.before.compose
       /\ at \notin {"saveCompose", "keepCompose", "saveState", "keepState"} =>
            backups[r.backup].state = r.before.state

\* What it knows of the files it writes, and of the containers.
FilesOK(at, r) ==
  /\ at \in Untouched => compose = r.before.compose /\ state = r.before.state
  /\ at \in Written \cup {"openState", "fillState", "moveState"} => compose = Render(r.template, r.report)
  /\ at \in Written => state = r.report /\ r.report \in Pins
  /\ at \in {"health", "listBackups", "collect"} => WellFormed(compose)
  /\ at \in {"undoState", "refillState", "undoUp", "undoHealth"} => compose = r.before.compose
  /\ at \in {"undoUp", "undoHealth"} => state = r.before.state
  /\ at \in {"health", "listBackups", "collect", "undoHealth"} /\ compose.digests # {} =>
       \A s \in Services : running[s] \in compose.digests
  /\ at \in {"listBackups", "collect"} => \A s \in Services : Listening(s)

\* What it knows of the file its command has open, which no other command disturbs.
HandOK(at, r, place) ==
  /\ at \in {"keepCompose", "keepState", "refillCompose", "refillState"} => place = "path"
  /\ at \in {"fillCompose", "fillState"} => place = "tmp"
  /\ at = "keepCompose" => backups[r.backup].compose = Empty
  /\ at = "keepState" => backups[r.backup].state = Empty
  /\ at = "fillCompose" => composeTmp = Empty
  /\ at = "moveCompose" => composeTmp = Render(r.template, r.report)
  /\ at = "fillState" => stateTmp = Empty
  /\ at = "moveState" => stateTmp = r.report
  /\ at = "refillCompose" => compose = Empty
  /\ at = "refillState" => state = Empty

\* What it knows of the backups it is about to delete: they have expired, and as many
\* as the minimum, none older, stay.
DoomedOK(at, r) ==
  /\ at # "collect" => r.doomed = {}
  /\ \A o \in r.doomed : backups[o] # None /\ backups[o].mtime < r.at - Retention
  /\ r.doomed # {} =>
       \E kept \in SUBSET (Backups \ r.doomed) :
         /\ Cardinality(kept) = MinRetained
         /\ \A k \in kept, o \in r.doomed : backups[k].mtime >= backups[o].mtime

\* What a call that has come to a step knows.
CallOK(at, r) ==
  /\ at # "idle" => r.at <= clock /\ r.op # "none"
  /\ at \in UpdateSteps => r.op = "update"
  /\ r.op = "update" => BackupOK(at, r) /\ FilesOK(at, r)
  /\ DoomedOK(at, r)

\* No backup directory is older than its name or newer than now.
TimesOK == \A t \in Backups : t <= backups[t].mtime /\ backups[t].mtime <= clock

UpdateInv ==
  /\ ShapeOK
  /\ TimesOK
  /\ \A c \in Clients : CallOK(pc[c], call[c])
  /\ \A c \in Clients : call[c].op = "update" => HandOK(pc[c], call[c], fd[c])

-----------------------------------------------------------------------------
(* What a step of one call does to the invariant. *)

\* What the invariant reads of the host.
readVars == <<clock, compose, state, backups, running>>

\* A step of one call keeps the invariant if that call knows enough afterwards.
LEMMA Frame ==
  ASSUME Alone, UpdateInv, ShapeOK', TimesOK', NEW c \in Clients, NEW to, NEW r,
         pc' = [pc EXCEPT ![c] = to], call' = [call EXCEPT ![c] = r], CallOK(to, r)',
         r.op = "update" => HandOK(to, r, fd[c])'
  PROVE  UpdateInv'
<1>1. pc \in [Clients -> Steps \cup {"idle"}] /\ call \in [Clients -> Call]
  BY DEF UpdateInv, ShapeOK, TypeOK
<1>2. \A d \in Clients : d = c
  BY DEF Alone
<1>3. pc'[c] = to /\ call'[c] = r
  BY <1>1
<1>4. CallOK(pc[c], call[c])'
  BY <1>3
<1>5. call'[c].op = "update" => HandOK(pc[c], call[c], fd[c])'
  BY <1>3
<1> QED BY <1>2, <1>4, <1>5 DEF UpdateInv

\* A command that has no file open knows nothing of one.
LEMMA NoHand ==
  ASSUME NEW to, to \notin Hands, NEW r, NEW c
  PROVE  HandOK(to, r, fd[c])'
BY DEF HandOK, Hands

\* If nothing changes that the invariant reads, what a call knows stays true.
LEMMA QuietOK ==
  ASSUME NEW to, NEW r, UNCHANGED readVars
  PROVE  /\ CallOK(to, r) => CallOK(to, r)'
         /\ TimesOK => TimesOK'
BY DEF readVars, CallOK, BackupOK, FilesOK, DoomedOK, TimesOK, Backups, WellFormed, Listening,
   Render

\* An idle operator knows nothing.
LEMMA EndOK ==
  ASSUME Alone, UpdateInv, ShapeOK', NEW c \in Clients, NEW result, Return(c, result),
         UNCHANGED <<clock, backups>>
  PROVE  UpdateInv'
<1>1. NoCall.op = "none" /\ NoCall.doomed = {}
  BY DEF NoCall
<1>2. CallOK("idle", NoCall)'
  <2> PICK r : r = NoCall
    OBVIOUS
  <2>1. CallOK("idle", r)'
    BY <1>1 DEF CallOK, DoomedOK, UpdateSteps
  <2> QED BY <2>1
<1>3. TimesOK'
  BY DEF UpdateInv, TimesOK, Backups
<1>4. pc' = [pc EXCEPT ![c] = "idle"] /\ call' = [call EXCEPT ![c] = NoCall]
  BY DEF Return
<1> QED BY <1>1, <1>2, <1>3, <1>4, Frame

\* What is known before a step.
LEMMA Before ==
  ASSUME UpdateInv, NEW c \in Clients
  PROVE  /\ CallOK(pc[c], call[c]) /\ call[c] \in Call /\ TimesOK
         /\ call[c].op = "update" => HandOK(pc[c], call[c], fd[c])
         /\ pc[c] \in BackupSteps => call[c].backup \in Time
         /\ clock \in Time /\ backups \in [Time -> Backup \cup {None}]
         /\ pc[c] \in Resolved => call[c].report \in Pins
<1>1. call[c] \in Call
  BY DEF UpdateInv, ShapeOK, TypeOK
<1>2. pc[c] \in BackupSteps => call[c].backup \in Time
  BY <1>1 DEF UpdateInv, ShapeOK, LocalsOK, Call
<1> QED BY <1>1, <1>2 DEF UpdateInv, ShapeOK, TypeOK, LocalsOK

\* A step that changes nothing the invariant reads and of its call only where it is.
LEMMA MoveOK ==
  ASSUME Alone, UpdateInv, ShapeOK', NEW c \in Clients, NEW to,
         pc' = [pc EXCEPT ![c] = to], call' = call, UNCHANGED readVars,
         CallOK(to, call[c]), to \notin Hands
  PROVE  UpdateInv'
<1> PICK r : r = call[c]
  OBVIOUS
<1>1. call' = [call EXCEPT ![c] = r]
  BY DEF UpdateInv, ShapeOK, TypeOK
<1>2. CallOK(to, r)' /\ TimesOK'
  BY QuietOK DEF UpdateInv
<1> QED BY <1>1, <1>2, NoHand, Frame

-----------------------------------------------------------------------------
(* Steps that change nothing the invariant reads. *)

\* A call begins; its snapshot is what it finds.
LEMMA BeginOK ==
  ASSUME Alone, UpdateInv, ShapeOK', NEW c \in Clients, Begin(c)
  PROVE  UpdateInv'
<1>1. CASE RefuseUpdate(c)
  BY <1>1, EndOK DEF RefuseUpdate, hostVars, fileVars
<1>2. ASSUME NEW r, r.at = clock, r.backup = None, r.doomed = {},
             r.before = [compose |-> compose, state |-> state], UNCHANGED readVars
      PROVE  /\ TimesOK'
             /\ r.op = "bootstrap" => CallOK("preflight", r)'
             /\ r.op = "update" => CallOK("loadState", r)'
  <2>1. clock \in Time
    BY DEF UpdateInv, ShapeOK, TypeOK
  <2>2. /\ r.op = "bootstrap" => CallOK("preflight", r)
        /\ r.op = "update" => CallOK("loadState", r)
    BY <1>2, <2>1, ConstantsAssumption DEF CallOK, BackupOK, FilesOK, DoomedOK, UpdateSteps,
       Backed, Untouched, Written, Time
  <2> QED BY <1>2, <2>2, QuietOK DEF UpdateInv
<1>3. ASSUME NEW template \in Templates, NEW tag \in Tags, BeginBootstrap(c, template, tag)
      PROVE  UpdateInv'
  <2> PICK r : r = NewCall("bootstrap", TRUE, template, tag)
    OBVIOUS
  <2>1. /\ pc' = [pc EXCEPT ![c] = "preflight"] /\ call' = [call EXCEPT ![c] = r]
        /\ UNCHANGED readVars
    BY <1>3 DEF BeginBootstrap, Start, hostVars, fileVars, dockerVars, readVars
  <2>2. CallOK("preflight", r)' /\ TimesOK'
    BY <1>2, <2>1 DEF NewCall
  <2>3. HandOK("preflight", r, fd[c])'
    BY NoHand DEF Hands
  <2> QED BY <2>1, <2>2, <2>3, Frame
<1>4. ASSUME NEW template \in Templates, NEW skip \in BOOLEAN, BeginUpdate(c, template, skip)
      PROVE  UpdateInv'
  <2> PICK r : r = NewCall("update", skip, template, template)
    OBVIOUS
  <2>1. /\ pc' = [pc EXCEPT ![c] = "loadState"] /\ call' = [call EXCEPT ![c] = r]
        /\ UNCHANGED readVars
    BY <1>4 DEF BeginUpdate, Start, hostVars, fileVars, dockerVars, readVars
  <2>2. CallOK("loadState", r)' /\ TimesOK'
    BY <1>2, <2>1 DEF NewCall
  <2>3. HandOK("loadState", r, fd[c])'
    BY NoHand DEF Hands
  <2> QED BY <2>1, <2>2, <2>3, Frame
<1> QED BY <1>1, <1>3, <1>4 DEF Begin

\* A call ends.
LEMMA ReturnsOK ==
  ASSUME Alone, UpdateInv, ShapeOK', NEW c \in Clients,
         FindMarker(c) \/ NotInstalled(c) \/ ReportNoop(c) \/ Updated(c) \/ Fails(c)
  PROVE  UpdateInv'
<1>1. UNCHANGED <<clock, backups>>
  BY DEF FindMarker, NotInstalled, ReportNoop, Updated, Fails, Crash, ExecFails, ComposeUpFails,
     hostVars, fileVars
<1>2. \E result : Return(c, result)
  BY DEF FindMarker, NotInstalled, ReportNoop, Updated, Fails, Crash, ExecFails, ComposeUpFails
<1> QED BY <1>1, <1>2, EndOK

\* A call goes on without touching its locals, the files it has or the containers.
LEMMA MovesOK ==
  ASSUME Alone, UpdateInv, ShapeOK', NEW c \in Clients,
         \/ Preflight(c) \/ FindInstall(c) \/ Layout(c) \/ WriteEnv(c)
         \/ SaveConfig(c) /\ UNCHANGED backups
         \/ Reload(c) \/ Pull(c) \/ ListFails(c)
  PROVE  UpdateInv'
<1> PICK r : r = call[c]
  OBVIOUS
<1>0. CallOK(pc[c], r)
  BY Before
<1> USE DEF Goto, CallOK, BackupOK, FilesOK, DoomedOK, UpdateSteps, Backed, Untouched, Written,
            Hands, readVars, hostVars, fileVars, dockerVars
<1>1. CASE Preflight(c) \/ FindInstall(c) \/ Layout(c) \/ WriteEnv(c)
  <2>1. PICK to \in {"findInstall", "findMarker", "resolve", "openCompose", "openState"} :
          pc' = [pc EXCEPT ![c] = to]
    BY <1>1 DEF Preflight, FindInstall, Layout, WriteEnv
  <2>2. r.op = "bootstrap"
    BY <1>1 DEF Preflight, FindInstall, Layout, WriteEnv, UpdateInv, ShapeOK, LocalsOK,
       BootstrapSteps
  <2>3. pc[c] # "idle" /\ pc[c] # "collect"
    BY <1>1 DEF Preflight, FindInstall, Layout, WriteEnv
  <2>4. CallOK(to, r)
    BY <1>0, <2>1, <2>2, <2>3
  <2>5. call' = call /\ UNCHANGED readVars
    BY <1>1 DEF Preflight, FindInstall, Layout, WriteEnv
  <2> QED BY <2>1, <2>4, <2>5, MoveOK
<1>2. CASE SaveConfig(c) /\ UNCHANGED backups
  <2>1. CallOK("reload", r) /\ pc' = [pc EXCEPT ![c] = "reload"] /\ call' = call /\ UNCHANGED readVars
    BY <1>0, <1>2 DEF SaveConfig
  <2> QED BY <2>1, MoveOK
<1>3. CASE Reload(c)
  <2>1. /\ CallOK("openCompose", r) /\ pc' = [pc EXCEPT ![c] = "openCompose"]
        /\ call' = call /\ UNCHANGED readVars
    BY <1>0, <1>3 DEF Reload
  <2> QED BY <2>1, MoveOK
<1>4. CASE Pull(c)
  <2>1. CallOK("up", r) /\ pc' = [pc EXCEPT ![c] = "up"] /\ call' = call /\ UNCHANGED readVars
    BY <1>0, <1>4 DEF Pull
  <2> QED BY <2>1, MoveOK
<1>5. CASE ListFails(c)
  <2>1. /\ CallOK("collect", r) /\ pc' = [pc EXCEPT ![c] = "collect"]
        /\ call' = call /\ UNCHANGED readVars
    BY <1>0, <1>5 DEF ListFails
  <2> QED BY <2>1, MoveOK
<1> QED BY <1>1, <1>2, <1>3, <1>4, <1>5

-----------------------------------------------------------------------------
(* Steps that change only the locals of a call. *)

\* A step that changes nothing the invariant reads of the host.
LEMMA LocalOK ==
  ASSUME Alone, UpdateInv, ShapeOK', NEW c \in Clients, NEW to, NEW r,
         pc' = [pc EXCEPT ![c] = to], call' = [call EXCEPT ![c] = r], UNCHANGED readVars,
         CallOK(to, r), to \notin Hands
  PROVE  UpdateInv'
<1>1. CallOK(to, r)' /\ TimesOK'
  BY QuietOK DEF UpdateInv
<1> QED BY <1>1, NoHand, Frame

\* Setting one local of a call leaves the others.
LEMMA SetLocal ==
  ASSUME NEW r \in Call, NEW v
  PROVE  /\ [r EXCEPT !.seen = v].seen = v /\ [r EXCEPT !.at = v].at = v
         /\ [r EXCEPT !.backup = v].backup = v /\ [r EXCEPT !.doomed = v].doomed = v
         /\ \A s \in {[r EXCEPT !.seen = v], [r EXCEPT !.report = v], [r EXCEPT !.polls = v],
                      [r EXCEPT !.at = v], [r EXCEPT !.backup = v], [r EXCEPT !.doomed = v]} :
              s.op = r.op /\ s.template = r.template /\ s.before = r.before
         /\ \A s \in {[r EXCEPT !.seen = v], [r EXCEPT !.report = v], [r EXCEPT !.polls = v],
                      [r EXCEPT !.backup = v], [r EXCEPT !.doomed = v]} : s.at = r.at
         /\ \A s \in {[r EXCEPT !.seen = v], [r EXCEPT !.report = v], [r EXCEPT !.polls = v],
                      [r EXCEPT !.at = v], [r EXCEPT !.doomed = v]} : s.backup = r.backup
         /\ \A s \in {[r EXCEPT !.seen = v], [r EXCEPT !.report = v], [r EXCEPT !.polls = v],
                      [r EXCEPT !.at = v], [r EXCEPT !.backup = v]} : s.doomed = r.doomed
         /\ \A s \in {[r EXCEPT !.seen = v], [r EXCEPT !.polls = v], [r EXCEPT !.at = v],
                      [r EXCEPT !.backup = v], [r EXCEPT !.doomed = v]} : s.report = r.report
BY DEF Call

\* Before it decides, an update has neither a backup nor a time that matters.
LEMMA LookupOK ==
  ASSUME Alone, UpdateInv, ShapeOK', NEW c \in Clients,
         \/ \E s \in Services, tag \in Tags, digest \in Digests : Resolve(c, s, tag, digest)
         \/ LoadState(c) \/ Decide(c)
  PROVE  UpdateInv'
<1> PICK r : r = call[c]
  OBVIOUS
<1>0. CallOK(pc[c], r) /\ r \in Call /\ clock \in Time
  BY Before
<1>t. clock <= clock
  BY <1>0, ConstantsAssumption DEF Time
<1> USE DEF Goto, Hands, readVars, hostVars, fileVars, dockerVars
<1>1. CASE \E s \in Services, tag \in Tags, digest \in Digests : Resolve(c, s, tag, digest)
  <2> PICK s \in Services, tag \in Tags, digest \in Digests : Resolve(c, s, tag, digest)
    BY <1>1
  <2> PICK v : v = [r.report EXCEPT ![s] = [tag |-> tag, digest |-> digest]]
    OBVIOUS
  <2> PICK n : n = [r EXCEPT !.report = v]
    OBVIOUS
  <2>1. call' = [call EXCEPT ![c] = n]
    <3>1. call' = [call EXCEPT ![c].report = v]
      BY DEF Resolve
    <3>2. [call EXCEPT ![c].report = v] = [call EXCEPT ![c] = [call[c] EXCEPT !.report = v]]
      BY Zenon
    <3> QED BY <3>1, <3>2
  <2>2. pc[c] = "resolve" /\ UNCHANGED readVars
    BY DEF Resolve
  <2>3. PICK to : /\ pc' = [pc EXCEPT ![c] = to]
                  /\ to \in {"resolve", "layout", "decide"}
                  /\ r.op # "bootstrap" => to # "layout"
                  /\ r.op = "bootstrap" => to # "decide"
    <3> PICK to : to = IF ~(\A z \in Services : v[z] # None) THEN "resolve"
                       ELSE IF r.op = "bootstrap" THEN "layout" ELSE "decide"
      OBVIOUS
    <3>1. pc' = [pc EXCEPT ![c] = to]
      BY DEF Resolve
    <3> QED BY <3>1
  <2>4. n.op = r.op /\ n.at = r.at /\ n.backup = r.backup /\ n.doomed = r.doomed /\ n.before = r.before
    BY <1>0, SetLocal
  <2>5. n.op \in {"none", "bootstrap", "update"}
    BY <1>0, <2>4 DEF Call
  <2>6. CallOK(to, n)
    <3>1. r.op = "update" \/ to # "decide"
      BY <1>0, <2>2, <2>3, <2>5, <2>4 DEF Resolve, CallOK
    <3> QED BY <1>0, <2>2, <2>3, <2>4, <3>1 DEF CallOK, BackupOK, FilesOK, DoomedOK,
                UpdateSteps, Backed, Untouched, Written
  <2> QED BY <2>1, <2>2, <2>3, <2>6, LocalOK
<1>2. CASE LoadState(c)
  <2> PICK n : n = [r EXCEPT !.seen = state]
    OBVIOUS
  <2>1. call' = [call EXCEPT ![c] = n]
    <3>1. [call EXCEPT ![c].seen = state] = [call EXCEPT ![c] = [call[c] EXCEPT !.seen = state]]
      BY Zenon
    <3> QED BY <1>2, <3>1 DEF LoadState
  <2>2. pc[c] = "loadState" /\ UNCHANGED readVars /\ pc' = [pc EXCEPT ![c] = "resolve"]
    BY <1>2 DEF LoadState
  <2>4. n.op = r.op /\ n.at = r.at /\ n.backup = r.backup /\ n.doomed = r.doomed /\ n.before = r.before
    BY <1>0, SetLocal
  <2>6. CallOK("resolve", n)
    BY <1>0, <2>2, <2>4 DEF CallOK, BackupOK, FilesOK, DoomedOK,
       UpdateSteps, Backed, Untouched, Written
  <2> QED BY <2>1, <2>2, <2>6, LocalOK
<1>3. CASE Decide(c)
  <2> PICK n : n = [r EXCEPT !.at = clock]
    OBVIOUS
  <2>1. call' = [call EXCEPT ![c] = n]
    <3>1. [call EXCEPT ![c].at = clock] = [call EXCEPT ![c] = [call[c] EXCEPT !.at = clock]]
      BY Zenon
    <3> QED BY <1>3, <3>1 DEF Decide
  <2>2. pc[c] = "decide" /\ UNCHANGED readVars
    BY <1>3 DEF Decide
  <2>3. PICK to \in {"reportNoop", "reload", "makeBackup"} : pc' = [pc EXCEPT ![c] = to]
    BY <1>3 DEF Decide
  <2>4. n.op = r.op /\ n.at = clock /\ n.backup = r.backup /\ n.doomed = r.doomed /\ n.before = r.before
    BY <1>0, SetLocal
  <2>5. r.doomed = {} /\ r.op = "update" /\ r.backup = None
    BY <1>0, <2>2 DEF CallOK, BackupOK, DoomedOK, UpdateSteps
  <2>6. CallOK(to, n)
    BY <1>0, <1>t, <2>2, <2>3, <2>4, <2>5 DEF CallOK, BackupOK, FilesOK, DoomedOK,
       UpdateSteps, Backed, Untouched, Written
  <2> QED BY <2>1, <2>2, <2>3, <2>6, LocalOK
<1> QED BY <1>1, <1>2, <1>3

\* A health check ends, or goes on for another round.
LEMMA HealthOK ==
  ASSUME Alone, UpdateInv, ShapeOK', NEW c \in Clients,
         Healthy(c) \/ NotYetHealthy(c) \/ Unhealthy(c)
  PROVE  UpdateInv'
<1> PICK r : r = call[c]
  OBVIOUS
<1>0. CallOK(pc[c], r) /\ r \in Call
  BY Before
<1> USE DEF Goto, Hands, readVars, hostVars, fileVars, dockerVars
<1>1. ASSUME NEW result, Return(c, result), UNCHANGED <<clock, hostVars>> PROVE UpdateInv'
  BY <1>1, EndOK
<1>2. CASE Healthy(c)
  <2>1. CASE r.op = "update" /\ pc[c] = "health"
    <3>1. /\ pc' = [pc EXCEPT ![c] = "listBackups"] /\ call' = call /\ UNCHANGED readVars
          /\ \A s \in Services : Listening(s)
      BY <1>2, <2>1 DEF Healthy
    <3>2. CallOK("listBackups", r)
      BY <1>0, <2>1, <3>1 DEF CallOK, BackupOK, FilesOK, DoomedOK, UpdateSteps, Backed,
         Untouched, Written
    <3> QED BY <3>1, <3>2, MoveOK
  <2>2. CASE ~(r.op = "update" /\ pc[c] = "health")
    <3>1. PICK result : Return(c, result)
      BY <1>2, <2>2 DEF Healthy
    <3> QED BY <1>1, <1>2, <3>1 DEF Healthy
  <2> QED BY <2>1, <2>2
<1>3. CASE Unhealthy(c)
  <2>1. CASE WillRollBack(c)
    <3>1. /\ pc' = [pc EXCEPT ![c] = "undoCompose"] /\ call' = call /\ UNCHANGED readVars
          /\ pc[c] = "health" /\ r.op = "update"
      BY <1>3, <2>1 DEF Unhealthy, WillRollBack
    <3>2. CallOK("undoCompose", r)
      BY <1>0, <3>1 DEF CallOK, BackupOK, FilesOK, DoomedOK, UpdateSteps, Backed,
         Untouched, Written
    <3> QED BY <3>1, <3>2, MoveOK
  <2>2. CASE ~WillRollBack(c)
    BY <1>1, <1>3, <2>2 DEF Unhealthy
  <2> QED BY <2>1, <2>2
<1>4. CASE NotYetHealthy(c)
  <2> PICK v : v = r.polls + 1
    OBVIOUS
  <2> PICK n : n = [r EXCEPT !.polls = v]
    OBVIOUS
  <2>1. call' = [call EXCEPT ![c] = n]
    <3>1. call' = [call EXCEPT ![c].polls = v]
      BY <1>4 DEF NotYetHealthy
    <3>2. [call EXCEPT ![c].polls = v] = [call EXCEPT ![c] = [call[c] EXCEPT !.polls = v]]
      BY Zenon
    <3> QED BY <3>1, <3>2
  <2> PICK to : to = pc[c]
    OBVIOUS
  <2>2. pc' = [pc EXCEPT ![c] = to] /\ UNCHANGED readVars
    BY <1>4 DEF NotYetHealthy, UpdateInv, ShapeOK, TypeOK
  <2>3. /\ n.op = r.op /\ n.at = r.at /\ n.backup = r.backup /\ n.doomed = r.doomed
        /\ n.before = r.before /\ n.template = r.template /\ n.report = r.report
    BY <1>0, SetLocal
  <2>4. CallOK(to, n)
    BY <1>0, <2>3 DEF CallOK, BackupOK, FilesOK, DoomedOK
  <2>5. to \notin Hands
    BY <1>4 DEF NotYetHealthy
  <2> QED BY <2>1, <2>2, <2>4, <2>5, LocalOK
<1> QED BY <1>2, <1>3, <1>4

\* What the garbage collector lists has expired, and the newest are not on the list.
LEMMA ListOK ==
  ASSUME Alone, UpdateInv, ShapeOK', NEW c \in Clients, ListBackups(c)
  PROVE  UpdateInv'
<1> PICK r : r = call[c]
  OBVIOUS
<1>0. CallOK(pc[c], r) /\ r \in Call
  BY Before
<1>1. PICK kept \in SUBSET Backups :
        /\ Cardinality(kept) = MinRetained \/ kept = Backups
        /\ \A k \in kept, o \in Backups \ kept : backups[k].mtime >= backups[o].mtime
        /\ call' = [call EXCEPT ![c].doomed =
                      {o \in Backups \ kept : backups[o].mtime < call[c].at - Retention}]
  BY DEF ListBackups
<1> PICK v : v = {o \in Backups \ kept : backups[o].mtime < r.at - Retention}
  OBVIOUS
<1> PICK n : n = [r EXCEPT !.doomed = v]
  OBVIOUS
<1>2. call' = [call EXCEPT ![c] = n]
  <2>1. call' = [call EXCEPT ![c].doomed = v]
    BY <1>1
  <2>2. [call EXCEPT ![c].doomed = v] = [call EXCEPT ![c] = [call[c] EXCEPT !.doomed = v]]
    BY Zenon
  <2> QED BY <2>1, <2>2
<1>3. pc[c] = "listBackups" /\ pc' = [pc EXCEPT ![c] = "collect"] /\ UNCHANGED readVars
  BY DEF ListBackups, Goto, readVars, hostVars, fileVars, dockerVars
<1>4. /\ n.op = r.op /\ n.at = r.at /\ n.backup = r.backup /\ n.doomed = v
      /\ n.before = r.before /\ n.template = r.template /\ n.report = r.report
  BY <1>0, SetLocal
<1>5. DoomedOK("collect", n)
  <2>1. \A o \in v : backups[o] # None /\ backups[o].mtime < r.at - Retention
    BY DEF Backups
  <2>2. ASSUME v # {} PROVE Cardinality(kept) = MinRetained
    BY <1>1, <2>2
  <2>3. kept \in SUBSET (Backups \ v) /\ \A k \in kept, o \in v : backups[k].mtime >= backups[o].mtime
    BY <1>1
  <2> QED BY <1>4, <2>1, <2>2, <2>3 DEF DoomedOK
<1>6. BackupOK("collect", n) /\ FilesOK("collect", n) /\ n.at <= clock /\ n.op = "update"
  BY <1>0, <1>3, <1>4 DEF CallOK, BackupOK, FilesOK, UpdateSteps, Backed, Untouched, Written
<1>7. CallOK("collect", n)
  BY <1>5, <1>6 DEF CallOK
<1>8. "collect" \notin Hands
  BY DEF Hands
<1> QED BY <1>2, <1>3, <1>7, <1>8, LocalOK

-----------------------------------------------------------------------------
(* Steps that change the files, the containers or the clock. *)

\* What a call knows of backups does not depend on the files or the containers.
LEMMA SameBackups ==
  ASSUME NEW to, NEW r, UNCHANGED <<clock, backups>>
  PROVE  /\ BackupOK(to, r)' <=> BackupOK(to, r)
         /\ DoomedOK(to, r)' <=> DoomedOK(to, r)
         /\ TimesOK' <=> TimesOK
BY DEF BackupOK, DoomedOK, TimesOK, Backups

\* A step on the files or the containers needs only be right about those.
LEMMA OnFiles ==
  ASSUME Alone, UpdateInv, ShapeOK', NEW c \in Clients, NEW to,
         pc' = [pc EXCEPT ![c] = to], UNCHANGED <<clock, backups>>,
         NEW r, call' = [call EXCEPT ![c] = r],
         r.at <= clock, r.op # "none", to \in UpdateSteps => r.op = "update",
         r.op = "update" => BackupOK(to, r) /\ FilesOK(to, r)' /\ HandOK(to, r, fd[c])',
         DoomedOK(to, r)
  PROVE  UpdateInv'
<1>1. TimesOK'
  BY SameBackups DEF UpdateInv
<1>2. r.op = "update" => BackupOK(to, r)' /\ FilesOK(to, r)'
  BY SameBackups
<1>3. DoomedOK(to, r)' /\ r.at <= clock'
  BY SameBackups
<1>4. CallOK(to, r)'
  BY <1>2, <1>3 DEF CallOK
<1> QED BY <1>1, <1>4, Frame

\* The compose file is written: nothing is lost before the rename.
LEMMA ComposeWriteOK ==
  ASSUME Alone, UpdateInv, ShapeOK', NEW c \in Clients,
         OpenCompose(c) \/ FillCompose(c) \/ MoveCompose(c)
  PROVE  UpdateInv'
<1> PICK r : r = call[c]
  OBVIOUS
<1>0. /\ CallOK(pc[c], r) /\ r \in Call /\ fd \in [Clients -> {"none", "tmp", "path", "gone"}]
      /\ r.op = "update" => HandOK(pc[c], r, fd[c])
  BY Before DEF UpdateInv, ShapeOK, TypeOK
<1>c. call' = [call EXCEPT ![c] = r] /\ UNCHANGED <<clock, backups, state>>
  BY DEF OpenCompose, FillCompose, MoveCompose, UpdateInv, ShapeOK, TypeOK
<1>p. pc[c] \in {"openCompose", "fillCompose", "moveCompose"}
  BY DEF OpenCompose, FillCompose, MoveCompose, Shell
<1>l. r.at <= clock /\ r.op # "none" /\ r.doomed = {}
  BY <1>0, <1>p DEF CallOK, DoomedOK
<1>d. \A to : DoomedOK(to, r)
  BY <1>l DEF DoomedOK
<1>1. CASE OpenCompose(c)
  <2>1. /\ pc[c] = "openCompose" /\ pc' = [pc EXCEPT ![c] = "fillCompose"]
        /\ fd' = [fd EXCEPT ![c] = "tmp"] /\ composeTmp' = Empty /\ UNCHANGED compose
    BY <1>1 DEF OpenCompose, Shell
  <2>2. r.op = "update" => BackupOK("fillCompose", r) /\ FilesOK("fillCompose", r)'
    BY <1>0, <1>c, <2>1 DEF CallOK, BackupOK, FilesOK, Backed, Untouched, Written
  <2>3. HandOK("fillCompose", r, fd[c])'
    BY <1>0, <2>1 DEF HandOK
  <2>4. "fillCompose" \notin UpdateSteps
    BY DEF UpdateSteps
  <2> QED BY <1>c, <1>l, <1>d, <2>1, <2>2, <2>3, <2>4, OnFiles
<1>2. CASE FillCompose(c)
  <2>1. /\ pc[c] = "fillCompose" /\ pc' = [pc EXCEPT ![c] = "moveCompose"]
        /\ composeTmp' \in Into(fd[c] = "tmp", composeTmp, Render(r.template, r.report))
        /\ compose' \in Into(fd[c] = "path", compose, Render(r.template, r.report))
    BY <1>2 DEF FillCompose, Shell
  <2>2. r.op = "update" => composeTmp' = Render(r.template, r.report) /\ compose' = compose
    BY <1>0, <2>1, OverType DEF HandOK, Into
  <2>3. r.op = "update" => BackupOK("moveCompose", r) /\ FilesOK("moveCompose", r)'
    BY <1>0, <1>c, <2>1, <2>2 DEF CallOK, BackupOK, FilesOK, Backed, Untouched, Written
  <2>4. r.op = "update" => HandOK("moveCompose", r, fd[c])'
    BY <2>2 DEF HandOK, Render
  <2>5. "moveCompose" \notin UpdateSteps
    BY DEF UpdateSteps
  <2> QED BY <1>c, <1>l, <1>d, <2>1, <2>3, <2>4, <2>5, OnFiles
<1>3. CASE MoveCompose(c)
  <2> PICK to : to = IF r.op = "bootstrap" THEN "writeEnv" ELSE "openState"
    OBVIOUS
  <2>1. /\ pc[c] = "moveCompose" /\ pc' = [pc EXCEPT ![c] = to] /\ compose' = composeTmp
    BY <1>3 DEF MoveCompose
  <2>2. r.op = "update" => to = "openState" /\ compose' = Render(r.template, r.report)
    BY <1>0, <2>1 DEF HandOK
  <2>3. r.op = "update" => BackupOK(to, r) /\ FilesOK(to, r)'
    BY <1>0, <1>c, <2>1, <2>2 DEF CallOK, BackupOK, FilesOK, Backed, Untouched, Written, Render
  <2>4. to \notin UpdateSteps /\ HandOK(to, r, fd[c])'
    BY NoHand DEF UpdateSteps, Hands
  <2> QED BY <1>c, <1>l, <1>d, <2>1, <2>3, <2>4, OnFiles
<1> QED BY <1>1, <1>2, <1>3

\* So is the state file.
LEMMA StateWriteOK ==
  ASSUME Alone, UpdateInv, ShapeOK', NEW c \in Clients,
         OpenState(c) \/ FillState(c) \/ MoveState(c)
  PROVE  UpdateInv'
<1> PICK r : r = call[c]
  OBVIOUS
<1>0. /\ CallOK(pc[c], r) /\ r \in Call /\ fd \in [Clients -> {"none", "tmp", "path", "gone"}]
      /\ r.op = "update" => HandOK(pc[c], r, fd[c])
  BY Before DEF UpdateInv, ShapeOK, TypeOK
<1>c. call' = [call EXCEPT ![c] = r] /\ UNCHANGED <<clock, backups, compose>>
  BY DEF OpenState, FillState, MoveState, UpdateInv, ShapeOK, TypeOK
<1>p. pc[c] \in {"openState", "fillState", "moveState"}
  BY DEF OpenState, FillState, MoveState, Shell
<1>l. r.at <= clock /\ r.op # "none" /\ r.doomed = {}
  BY <1>0, <1>p DEF CallOK, DoomedOK
<1>d. \A to : DoomedOK(to, r)
  BY <1>l DEF DoomedOK
<1>1. CASE OpenState(c)
  <2>1. /\ pc[c] = "openState" /\ pc' = [pc EXCEPT ![c] = "fillState"]
        /\ fd' = [fd EXCEPT ![c] = "tmp"] /\ stateTmp' = Empty
    BY <1>1 DEF OpenState, Shell
  <2>2. r.op = "update" => BackupOK("fillState", r) /\ FilesOK("fillState", r)'
    BY <1>0, <1>c, <2>1 DEF CallOK, BackupOK, FilesOK, Backed, Untouched, Written, Render
  <2>3. HandOK("fillState", r, fd[c])'
    BY <1>0, <2>1 DEF HandOK
  <2>4. "fillState" \notin UpdateSteps
    BY DEF UpdateSteps
  <2> QED BY <1>c, <1>l, <1>d, <2>1, <2>2, <2>3, <2>4, OnFiles
<1>2. CASE FillState(c)
  <2>1. /\ pc[c] = "fillState" /\ pc' = [pc EXCEPT ![c] = "moveState"]
        /\ stateTmp' \in Into(fd[c] = "tmp", stateTmp, r.report)
    BY <1>2 DEF FillState, Shell
  <2>2. r.op = "update" => stateTmp' = r.report
    BY <1>0, <2>1, OverType DEF HandOK, Into
  <2>3. r.op = "update" => BackupOK("moveState", r) /\ FilesOK("moveState", r)'
    BY <1>0, <1>c, <2>1 DEF CallOK, BackupOK, FilesOK, Backed, Untouched, Written, Render
  <2>4. r.op = "update" => HandOK("moveState", r, fd[c])'
    BY <2>2 DEF HandOK
  <2>5. "moveState" \notin UpdateSteps
    BY DEF UpdateSteps
  <2> QED BY <1>c, <1>l, <1>d, <2>1, <2>3, <2>4, <2>5, OnFiles
<1>3. CASE MoveState(c)
  <2> PICK to : to = IF r.op = "bootstrap" THEN "up" ELSE "pull"
    OBVIOUS
  <2>1. /\ pc[c] = "moveState" /\ pc' = [pc EXCEPT ![c] = to] /\ state' = stateTmp
    BY <1>3 DEF MoveState
  <2>2. r.op = "update" => to = "pull" /\ state' = r.report
    BY <1>0, <2>1 DEF HandOK
  <2>r. r.report \in Pins
    BY <2>1, Before DEF Resolved
  <2>3. r.op = "update" => BackupOK(to, r) /\ FilesOK(to, r)'
    BY <1>0, <1>c, <2>1, <2>2, <2>r DEF CallOK, BackupOK, FilesOK, Backed, Untouched, Written, Render
  <2>4. /\ to \in UpdateSteps => r.op = "update"
        /\ HandOK(to, r, fd[c])'
    BY <1>0, <1>l, NoHand DEF UpdateSteps, Call, Hands
  <2> QED BY <1>c, <1>l, <1>d, <2>1, <2>3, <2>4, OnFiles
<1> QED BY <1>1, <1>2, <1>3

\* A rollback puts both files back from the call's own backup.
LEMMA UndoOK ==
  ASSUME Alone, UpdateInv, ShapeOK', NEW c \in Clients,
         UndoCompose(c) \/ RefillCompose(c) \/ UndoState(c) \/ RefillState(c)
  PROVE  UpdateInv'
<1> PICK r : r = call[c]
  OBVIOUS
<1>0. /\ CallOK(pc[c], r) /\ r \in Call /\ fd \in [Clients -> {"none", "tmp", "path", "gone"}]
  BY Before DEF UpdateInv, ShapeOK, TypeOK
<1>c. call' = [call EXCEPT ![c] = r] /\ UNCHANGED <<clock, backups>>
  BY DEF UndoCompose, RefillCompose, UndoState, RefillState, UpdateInv, ShapeOK, TypeOK
<1>p. pc[c] \in {"undoCompose", "refillCompose", "undoState", "refillState"}
  BY DEF UndoCompose, RefillCompose, UndoState, RefillState, Shell
<1>l. r.at <= clock /\ r.op = "update" /\ r.doomed = {} /\ r.backup # None
  BY <1>0, <1>p DEF CallOK, DoomedOK, UpdateSteps, UpdateInv, ShapeOK, LocalsOK, BackupSteps
<1>d. \A to : DoomedOK(to, r)
  BY <1>l DEF DoomedOK
<1>h. HandOK(pc[c], r, fd[c]) /\ BackupOK(pc[c], r) /\ FilesOK(pc[c], r)
  BY <1>0, <1>l, Before DEF CallOK
<1>b. /\ \A to \in {"refillCompose", "undoState", "refillState", "undoUp"} : BackupOK(to, r)
      /\ backups[r.backup].compose = r.before.compose /\ backups[r.backup].state = r.before.state
  BY <1>p, <1>l, <1>h DEF BackupOK, Backed
<1>1. CASE UndoCompose(c)
  <2>1. /\ pc' = [pc EXCEPT ![c] = "refillCompose"]
        /\ fd' = [fd EXCEPT ![c] = "path"] /\ compose' = Empty
    BY <1>1 DEF UndoCompose, Shell
  <2>2. FilesOK("refillCompose", r)' /\ HandOK("refillCompose", r, fd[c])'
    BY <1>0, <2>1 DEF FilesOK, HandOK, Untouched, Written
  <2> QED BY <1>b, <1>c, <1>l, <1>d, <2>1, <2>2, OnFiles
<1>2. CASE RefillCompose(c)
  <2>1. /\ pc[c] = "refillCompose" /\ pc' = [pc EXCEPT ![c] = "undoState"]
        /\ compose' \in Into(fd[c] = "path", compose, backups[r.backup].compose)
    BY <1>2 DEF RefillCompose, Shell
  <2>2. compose' = r.before.compose
    BY <1>b, <1>h, <2>1, OverType DEF HandOK, Into
  <2>3. FilesOK("undoState", r)' /\ HandOK("undoState", r, fd[c])'
    BY <2>2, NoHand DEF FilesOK, Untouched, Written, Hands
  <2> QED BY <1>b, <1>c, <1>l, <1>d, <2>1, <2>3, OnFiles
<1>3. CASE UndoState(c)
  <2>1. /\ pc[c] = "undoState" /\ pc' = [pc EXCEPT ![c] = "refillState"]
        /\ fd' = [fd EXCEPT ![c] = "path"] /\ state' = Empty /\ UNCHANGED compose
    BY <1>3 DEF UndoState, Shell
  <2>2. FilesOK("refillState", r)' /\ HandOK("refillState", r, fd[c])'
    BY <1>0, <1>h, <2>1 DEF FilesOK, HandOK, Untouched, Written
  <2> QED BY <1>b, <1>c, <1>l, <1>d, <2>1, <2>2, OnFiles
<1>4. CASE RefillState(c)
  <2>1. /\ pc[c] = "refillState" /\ pc' = [pc EXCEPT ![c] = "undoUp"] /\ UNCHANGED compose
        /\ state' \in Into(fd[c] = "path", state, backups[r.backup].state)
    BY <1>4 DEF RefillState, Shell
  <2>2. state' = r.before.state
    BY <1>b, <1>h, <2>1, OverType DEF HandOK, Into
  <2>3. FilesOK("undoUp", r)' /\ HandOK("undoUp", r, fd[c])'
    BY <1>h, <2>1, <2>2, NoHand DEF FilesOK, Untouched, Written, Hands
  <2> QED BY <1>b, <1>c, <1>l, <1>d, <2>1, <2>3, OnFiles
<1> QED BY <1>1, <1>2, <1>3, <1>4

\* docker compose up -d runs a digest the compose file pins, if it pins any.
LEMMA UpsOK ==
  ASSUME Alone, UpdateInv, ShapeOK', NEW c \in Clients, Up(c) \/ UndoUp(c)
  PROVE  UpdateInv'
<1> PICK r : r = call[c]
  OBVIOUS
<1>0. CallOK(pc[c], r) /\ r \in Call
  BY Before
<1> PICK n : n = [r EXCEPT !.polls = 0]
  OBVIOUS
<1> PICK to : to = IF pc[c] = "up" THEN "health" ELSE "undoHealth"
  OBVIOUS
<1>1. /\ pc[c] \in {"up", "undoUp"} /\ pc' = [pc EXCEPT ![c] = to]
      /\ UNCHANGED <<clock, backups, compose, state>>
  BY DEF Up, UndoUp, ComposeUp, Goto, fileVars
<1>2. call' = [call EXCEPT ![c] = n]
  <2>1. call' = [call EXCEPT ![c].polls = 0]
    BY DEF Up, UndoUp, ComposeUp
  <2>2. [call EXCEPT ![c].polls = 0] = [call EXCEPT ![c] = [call[c] EXCEPT !.polls = 0]]
    BY Zenon
  <2> QED BY <2>1, <2>2
<1>3. /\ n.op = r.op /\ n.at = r.at /\ n.backup = r.backup /\ n.doomed = r.doomed
      /\ n.before = r.before /\ n.template = r.template /\ n.report = r.report
  BY <1>0, SetLocal
<1>4. WellFormed(compose)' /\ (compose'.digests # {} => \A s \in Services : running'[s] \in compose'.digests)
  <2>1. WellFormed(compose) /\ running' = [s \in Services |-> ImageOf(compose)]
    BY DEF Up, UndoUp, ComposeUp
  <2>2. compose.digests # {} => ImageOf(compose) \in compose.digests
    BY DEF ImageOf
  <2> QED BY <1>1, <2>1, <2>2 DEF WellFormed
<1>5. n.at <= clock /\ n.op # "none" /\ n.doomed = {}
  BY <1>0, <1>1, <1>3 DEF CallOK, DoomedOK
<1>6. DoomedOK(to, n)
  BY <1>5 DEF DoomedOK
<1>7. n.op = "update" => BackupOK(to, n) /\ FilesOK(to, n)'
  BY <1>0, <1>1, <1>3, <1>4 DEF CallOK, BackupOK, FilesOK, Backed, Untouched, Written, Render
<1>8. to \in UpdateSteps => n.op = "update"
  BY <1>0, <1>1, <1>3 DEF UpdateSteps, CallOK
<1>9. HandOK(to, n, fd[c])'
  BY <1>1, NoHand DEF Hands
<1> QED BY <1>1, <1>2, <1>5, <1>6, <1>7, <1>8, <1>9, OnFiles

\* The clock only makes backups older, and the hub is none of a call's business.
LEMMA EnvironmentOK ==
  ASSUME UpdateInv, ShapeOK', Environment
  PROVE  UpdateInv'
<1>v. UNCHANGED <<tmpVars, fd>>
  BY DEF Environment, Tick, Publish, hostVars, fileVars, callVars, writeVars
<1>1. /\ UNCHANGED <<pc, call, compose, state, backups, running>>
      /\ clock \in Time /\ (clock' = clock \/ clock' = clock + 1)
  BY DEF Environment, Tick, Publish, hostVars, fileVars, dockerVars, callVars, UpdateInv,
     ShapeOK, TypeOK
<1>2. clock \in Int /\ clock' \in Int /\ clock <= clock'
  BY <1>1, ConstantsAssumption DEF Time
<1>3. TimesOK'
  <2>1. \A t \in Backups : t <= backups[t].mtime /\ backups[t].mtime \in Int
                             /\ backups[t].mtime <= clock
    BY ConstantsAssumption DEF UpdateInv, TimesOK, ShapeOK, TypeOK, Backups, Backup, Time
  <2>2. Backups' = Backups /\ backups' = backups
    BY <1>1 DEF Backups
  <2>3. ASSUME NEW t \in Backups PROVE backups[t].mtime <= clock'
    BY <1>2, <2>1
  <2> QED BY <2>1, <2>2, <2>3 DEF TimesOK
<1>4. ASSUME NEW c \in Clients PROVE CallOK(pc[c], call[c])'
  <2> PICK r : r = call[c]
    OBVIOUS
  <2> PICK at : at = pc[c]
    OBVIOUS
  <2>1. CallOK(at, r) /\ r.at \in Int
    BY Before, ConstantsAssumption DEF Call, Time
  <2>2. at # "idle" => r.at <= clock'
    BY <1>2, <2>1 DEF CallOK
  <2>3. BackupOK(at, r)' <=> BackupOK(at, r)
    BY <1>1 DEF BackupOK
  <2>4. FilesOK(at, r)' <=> FilesOK(at, r)
    BY <1>1 DEF FilesOK, WellFormed, Listening, Render
  <2>5. DoomedOK(at, r)' <=> DoomedOK(at, r)
    BY <1>1 DEF DoomedOK, Backups
  <2>6. CallOK(at, r)'
    BY <2>1, <2>2, <2>3, <2>4, <2>5 DEF CallOK
  <2> QED BY <1>1, <2>6
<1>5. ASSUME NEW c \in Clients, call[c].op = "update" PROVE HandOK(pc[c], call[c], fd[c])'
  BY <1>1, <1>5, <1>v, Before DEF HandOK, Render, tmpVars
<1> QED BY <1>1, <1>3, <1>4, <1>5 DEF UpdateInv

-----------------------------------------------------------------------------
(* Steps that change the backups. *)

\* Making or filling the call's own backup directory gives it the time of now.
LEMMA OwnBackupOK ==
  ASSUME Alone, UpdateInv, ShapeOK', NEW c \in Clients, NEW to, NEW r, NEW b \in Time, NEW entry,
         pc' = [pc EXCEPT ![c] = to], call' = [call EXCEPT ![c] = r],
         UNCHANGED <<clock, compose, state, running>>,
         backups' = [backups EXCEPT ![b] = entry],
         b <= entry.mtime, entry.mtime <= clock, entry # None,
         r.op = "update", r.at <= clock, r.doomed = {}, FilesOK(to, r), BackupOK(to, r)',
         HandOK(to, r, fd[c])'
  PROVE  UpdateInv'
<1>1. TimesOK'
  <2>1. \A t \in Backups : t <= backups[t].mtime /\ backups[t].mtime <= clock
    BY DEF UpdateInv, TimesOK
  <2>2. backups \in [Time -> Backup \cup {None}]
    BY DEF UpdateInv, ShapeOK, TypeOK
  <2>3. ASSUME NEW t \in Time, backups'[t] # None
        PROVE  t <= backups'[t].mtime /\ backups'[t].mtime <= clock
    <3>1. CASE t = b
      BY <2>2, <3>1
    <3>2. CASE t # b
      BY <2>1, <2>2, <2>3, <3>2 DEF Backups
    <3> QED BY <3>1, <3>2
  <2> QED BY <2>3 DEF TimesOK, Backups
<1>2. FilesOK(to, r)'
  BY DEF FilesOK, WellFormed, Listening, Render
<1>3. CallOK(to, r)'
  BY <1>2 DEF CallOK, DoomedOK
<1> QED BY <1>1, <1>3, Frame

\* An update takes its backup.
LEMMA SavesOK ==
  ASSUME Alone, UpdateInv, ShapeOK', NEW c \in Clients,
         \/ MakeBackup(c) \/ SaveCompose(c) \/ KeepCompose(c) \/ SaveState(c) \/ KeepState(c)
         \/ SaveConfig(c)
  PROVE  UpdateInv'
<1> PICK r : r = call[c]
  OBVIOUS
<1> PICK b : b = IF pc[c] = "makeBackup" THEN r.at ELSE r.backup
  OBVIOUS
<1> PICK e : e = backups[b]
  OBVIOUS
<1>0. /\ CallOK(pc[c], r) /\ r \in Call /\ fd \in [Clients -> {"none", "tmp", "path", "gone"}]
      /\ clock \in Time /\ backups \in [Time -> Backup \cup {None}]
      /\ compose \in ComposeFile /\ state \in StateFile
  BY Before DEF UpdateInv, ShapeOK, TypeOK
<1>p. pc[c] \in {"makeBackup", "saveCompose", "keepCompose", "saveState", "keepState", "saveConfig"}
  BY DEF MakeBackup, SaveCompose, KeepCompose, SaveState, KeepState, SaveConfig, Goto, Shell
<1>r. /\ r.op = "update" /\ r.at <= clock /\ r.doomed = {}
      /\ BackupOK(pc[c], r) /\ FilesOK(pc[c], r)
  BY <1>0, <1>p DEF CallOK, DoomedOK, UpdateSteps
<1>h. HandOK(pc[c], r, fd[c])
  BY <1>r, Before
<1>b. b = r.at /\ b \in Time /\ b <= clock /\ (pc[c] # "makeBackup" => e # None)
  <2>1. pc[c] # "makeBackup" => r.backup # None
    BY <1>p DEF UpdateInv, ShapeOK, LocalsOK, BackupSteps
  <2> QED BY <1>0, <1>p, <1>r, <2>1 DEF BackupOK, Backed, Call
<1>f. compose = r.before.compose /\ state = r.before.state
  BY <1>p, <1>r DEF FilesOK, Untouched
<1>g. \A to \in {"saveCompose", "keepCompose", "saveState", "keepState", "saveConfig", "reload"} :
        FilesOK(to, r)
  BY <1>f DEF FilesOK, Untouched, Written
<1>c. call = [call EXCEPT ![c] = r] /\ UNCHANGED <<clock, compose, state, running>>
  BY DEF MakeBackup, SaveCompose, KeepCompose, SaveState, KeepState, SaveConfig, dockerVars,
     UpdateInv, ShapeOK, TypeOK
<1>e. e # None => e \in Backup /\ b <= e.mtime /\ e.mtime <= clock
  BY <1>0, <1>b DEF UpdateInv, TimesOK, Backups
<1>t. clock <= clock
  BY <1>0, ConstantsAssumption DEF Time
<1> USE DEF Goto, Shell
<1>1. CASE MakeBackup(c)
  <2> PICK n : n = [r EXCEPT !.backup = b]
    OBVIOUS
  <2> PICK w : w = IF e # None THEN e ELSE [compose |-> None, state |-> None, mtime |-> clock]
    OBVIOUS
  <2>1. call' = [call EXCEPT ![c] = n]
    <3>1. call' = [call EXCEPT ![c].backup = b]
      BY <1>1, <1>b DEF MakeBackup
    <3>2. [call EXCEPT ![c].backup = b] = [call EXCEPT ![c] = [call[c] EXCEPT !.backup = b]]
      BY Zenon
    <3> QED BY <3>1, <3>2
  <2>2. pc[c] = "makeBackup" /\ pc' = [pc EXCEPT ![c] = "saveCompose"]
    BY <1>1 DEF MakeBackup
  <2>3. backups' = [backups EXCEPT ![b] = w]
    BY <1>0, <1>1, <1>b DEF MakeBackup
  <2>4. n.op = r.op /\ n.at = r.at /\ n.backup = b /\ n.doomed = r.doomed /\ n.before = r.before
    BY <1>0, SetLocal
  <2>5. w # None /\ b <= w.mtime /\ w.mtime <= clock
    <3>1. [compose |-> None, state |-> None, mtime |-> clock] \in Backup
      BY <1>0 DEF Backup, ComposeFile, StateFile
    <3> QED BY <1>b, <1>e, <1>t, <3>1, NoneAssumption
  <2>6. BackupOK("saveCompose", n)'
    BY <1>0, <1>b, <2>3, <2>4, <2>5 DEF BackupOK
  <2>7. FilesOK("saveCompose", n)
    BY <1>f, <2>2, <2>4 DEF FilesOK, Untouched, Written
  <2>8. HandOK("saveCompose", n, fd[c])'
    BY NoHand DEF Hands
  <2> QED BY <1>b, <1>c, <1>r, <2>1, <2>2, <2>3, <2>4, <2>5, <2>6, <2>7, <2>8, OwnBackupOK
<1>2. CASE SaveCompose(c)
  <2> PICK w : w = [e EXCEPT !.compose = Empty,
                             !.mtime = IF e.compose = None THEN clock ELSE e.mtime]
    OBVIOUS
  <2>1. /\ pc[c] = "saveCompose" /\ pc' = [pc EXCEPT ![c] = "keepCompose"] /\ call' = call
        /\ fd' = [fd EXCEPT ![c] = "path"]
    BY <1>2 DEF SaveCompose
  <2>2. b = r.backup /\ e # None
    BY <1>b, <2>1
  <2>3. backups' = [backups EXCEPT ![b] = w]
    <3>1. backups' = [backups EXCEPT ![b].compose = Empty,
                                     ![b].mtime = IF e.compose = None THEN clock ELSE @]
      BY <1>2, <2>2 DEF SaveCompose
    <3> QED BY <1>0, <1>b, <2>2, <3>1
  <2>4. w \in Backup /\ w.compose = Empty /\ w.mtime \in {clock, e.mtime}
    BY <1>0, <1>e, <2>2 DEF Backup, ComposeFile, Damaged
  <2>5. w # None /\ b <= w.mtime /\ w.mtime <= clock
    BY <1>b, <1>e, <1>t, <2>2, <2>4, NoneAssumption
  <2>6. BackupOK("keepCompose", r)' /\ HandOK("keepCompose", r, fd[c])'
    BY <1>0, <1>b, <2>1, <2>2, <2>3, <2>4, <2>5 DEF BackupOK, HandOK
  <2>7. FilesOK("keepCompose", r)
    BY <1>g
  <2> QED BY <1>b, <1>c, <1>r, <2>1, <2>3, <2>5, <2>6, <2>7, OwnBackupOK
<1>3. CASE KeepCompose(c)
  <2> PICK w : w = [e EXCEPT !.compose = compose]
    OBVIOUS
  <2>1. /\ pc[c] = "keepCompose" /\ pc' = [pc EXCEPT ![c] = "saveState"] /\ call' = call
        /\ b = r.backup /\ e # None /\ fd[c] = "path" /\ e.compose = Empty
    BY <1>3, <1>b, <1>h DEF KeepCompose, HandOK
  <2>2. backups' = [backups EXCEPT ![b] = w]
    <3>1. PICK kept \in Over(e.compose, compose) : backups' = [backups EXCEPT ![b].compose = kept]
      BY <1>3, <2>1 DEF KeepCompose
    <3>2. kept = compose
      BY <2>1, <3>1, OverType
    <3>3. [backups EXCEPT ![b].compose = compose] = [backups EXCEPT ![b] = [backups[b] EXCEPT !.compose = compose]]
      BY Zenon
    <3> QED BY <3>1, <3>2, <3>3
  <2>3. w \in Backup /\ w.compose = compose /\ w.mtime = e.mtime
    BY <1>0, <1>e, <2>1 DEF Backup
  <2>4. w # None /\ b <= w.mtime /\ w.mtime <= clock
    BY <1>b, <1>e, <2>1, <2>3, NoneAssumption
  <2>5. BackupOK("saveState", r)'
    BY <1>0, <1>b, <1>f, <2>1, <2>2, <2>3, <2>4 DEF BackupOK
  <2>6. FilesOK("saveState", r) /\ HandOK("saveState", r, fd[c])'
    BY <1>g, NoHand DEF Hands
  <2> QED BY <1>b, <1>c, <1>r, <2>1, <2>2, <2>4, <2>5, <2>6, OwnBackupOK
<1>4. CASE SaveState(c)
  <2> PICK w : w = [e EXCEPT !.state = Empty,
                             !.mtime = IF e.state = None THEN clock ELSE e.mtime]
    OBVIOUS
  <2>1. /\ pc[c] = "saveState" /\ pc' = [pc EXCEPT ![c] = "keepState"] /\ call' = call
        /\ fd' = [fd EXCEPT ![c] = "path"]
    BY <1>4 DEF SaveState
  <2>2. b = r.backup /\ e # None
    BY <1>b, <2>1
  <2>3. backups' = [backups EXCEPT ![b] = w]
    <3>1. backups' = [backups EXCEPT ![b].state = Empty,
                                     ![b].mtime = IF e.state = None THEN clock ELSE @]
      BY <1>4, <2>2 DEF SaveState
    <3> QED BY <1>0, <1>b, <2>2, <3>1
  <2>4. /\ w \in Backup /\ w.state = Empty /\ w.compose = e.compose
        /\ w.mtime \in {clock, e.mtime}
    BY <1>0, <1>e, <2>2 DEF Backup, StateFile, Damaged
  <2>5. w # None /\ b <= w.mtime /\ w.mtime <= clock
    BY <1>b, <1>e, <1>t, <2>2, <2>4, NoneAssumption
  <2>6. BackupOK("keepState", r)' /\ HandOK("keepState", r, fd[c])'
    BY <1>0, <1>b, <1>r, <2>1, <2>2, <2>3, <2>4, <2>5 DEF BackupOK, HandOK, Backed
  <2>7. FilesOK("keepState", r)
    BY <1>g
  <2> QED BY <1>b, <1>c, <1>r, <2>1, <2>3, <2>5, <2>6, <2>7, OwnBackupOK
<1>5. CASE KeepState(c)
  <2> PICK w : w = [e EXCEPT !.state = state]
    OBVIOUS
  <2>1. /\ pc[c] = "keepState" /\ pc' = [pc EXCEPT ![c] = "saveConfig"] /\ call' = call
        /\ b = r.backup /\ e # None /\ fd[c] = "path" /\ e.state = Empty
    BY <1>5, <1>b, <1>h DEF KeepState, HandOK
  <2>2. backups' = [backups EXCEPT ![b] = w]
    <3>1. PICK kept \in Over(e.state, state) : backups' = [backups EXCEPT ![b].state = kept]
      BY <1>5, <2>1 DEF KeepState
    <3>2. kept = state
      BY <2>1, <3>1, OverType
    <3>3. [backups EXCEPT ![b].state = state] = [backups EXCEPT ![b] = [backups[b] EXCEPT !.state = state]]
      BY Zenon
    <3> QED BY <3>1, <3>2, <3>3
  <2>3. w \in Backup /\ w.state = state /\ w.compose = e.compose /\ w.mtime = e.mtime
    BY <1>0, <1>e, <2>1 DEF Backup
  <2>4. w # None /\ b <= w.mtime /\ w.mtime <= clock
    BY <1>b, <1>e, <2>1, <2>3, NoneAssumption
  <2>5. BackupOK("saveConfig", r)'
    BY <1>0, <1>b, <1>f, <1>r, <2>1, <2>2, <2>3, <2>4 DEF BackupOK, Backed
  <2>6. FilesOK("saveConfig", r) /\ HandOK("saveConfig", r, fd[c])'
    BY <1>g, NoHand DEF Hands
  <2> QED BY <1>b, <1>c, <1>r, <2>1, <2>2, <2>4, <2>5, <2>6, OwnBackupOK
<1>6. CASE SaveConfig(c)
  <2> PICK w : w = [e EXCEPT !.mtime = clock]
    OBVIOUS
  <2>1. pc[c] = "saveConfig" /\ pc' = [pc EXCEPT ![c] = "reload"] /\ call' = call
    BY <1>6 DEF SaveConfig
  <2>2. b = r.backup
    BY <2>1
  <2>3. CASE UNCHANGED backups
    BY <1>6, <2>3, MovesOK
  <2>4. CASE ~UNCHANGED backups
    <3>1. e # None /\ backups' = [backups EXCEPT ![b].mtime = clock]
      BY <1>6, <2>2, <2>4 DEF SaveConfig
    <3>2. backups' = [backups EXCEPT ![b] = w]
      BY <1>0, <1>b, <3>1
    <3>3. w \in Backup /\ w.state = e.state /\ w.compose = e.compose /\ w.mtime = clock
      BY <1>0, <1>e, <3>1 DEF Backup
    <3>4. w # None
      BY <3>3, NoneAssumption
    <3>5. BackupOK("reload", r)'
      BY <1>0, <1>b, <1>r, <2>1, <2>2, <3>2, <3>3, <3>4 DEF BackupOK, Backed
    <3>6. FilesOK("reload", r) /\ HandOK("reload", r, fd[c])'
      BY <1>g, NoHand DEF Hands
    <3>7. b <= w.mtime /\ w.mtime <= clock
      BY <1>b, <1>t, <3>3
    <3> QED BY <1>b, <1>c, <1>r, <2>1, <3>2, <3>4, <3>5, <3>6, <3>7, OwnBackupOK
  <2> QED BY <2>3, <2>4
<1> QED BY <1>1, <1>2, <1>3, <1>4, <1>5, <1>6

\* Collecting one backup neither deletes the call's own nor one of the newest.
LEMMA CollectOK ==
  ASSUME Alone, UpdateInv, ShapeOK', NEW c \in Clients, NEW b \in Time, Collect(c, b)
  PROVE  UpdateInv'
<1> PICK r : r = call[c]
  OBVIOUS
<1> PICK v : v = r.doomed \ {b}
  OBVIOUS
<1> PICK n : n = [r EXCEPT !.doomed = v]
  OBVIOUS
<1>0. /\ CallOK(pc[c], r) /\ r \in Call
      /\ clock \in Time /\ backups \in [Time -> Backup \cup {None}]
  BY Before
<1>1. /\ pc[c] = "collect" /\ pc' = [pc EXCEPT ![c] = "collect"] /\ b \in r.doomed
      /\ backups' = [backups EXCEPT ![b] = None]
      /\ UNCHANGED <<clock, compose, state, running>>
  BY DEF Collect, UpdateInv, ShapeOK, TypeOK, dockerVars
<1>2. call' = [call EXCEPT ![c] = n]
  <2>1. call' = [call EXCEPT ![c].doomed = v]
    BY DEF Collect
  <2>2. [call EXCEPT ![c].doomed = v] = [call EXCEPT ![c] = [call[c] EXCEPT !.doomed = v]]
    BY Zenon
  <2> QED BY <2>1, <2>2
<1>3. /\ n.op = r.op /\ n.at = r.at /\ n.backup = r.backup /\ n.doomed = v
      /\ n.before = r.before /\ n.template = r.template /\ n.report = r.report
  BY <1>0, SetLocal
<1>4. TimesOK'
  BY <1>0, <1>1 DEF UpdateInv, TimesOK, Backups
<1>5. r.op = "update" /\ r.op # "none" /\ BackupOK("collect", r) /\ FilesOK("collect", r)
      /\ DoomedOK("collect", r) /\ r.at <= clock
  BY <1>0, <1>1 DEF CallOK, UpdateSteps
<1>6. b # r.at
  <2>1. backups[b] # None /\ backups[b].mtime < r.at - Retention
    BY <1>1, <1>5 DEF DoomedOK
  <2>2. b <= backups[b].mtime /\ backups[b] \in Backup
    BY <1>0, <2>1 DEF UpdateInv, TimesOK, Backups
  <2> QED BY <1>0, <2>1, <2>2, ConstantsAssumption DEF Call, Time, Backup
<1>7. BackupOK("collect", n)'
  BY <1>0, <1>1, <1>3, <1>5, <1>6 DEF BackupOK, Backed
<1>8. FilesOK("collect", n)'
  BY <1>1, <1>3, <1>5 DEF FilesOK, WellFormed, Listening, Render
<1>9. DoomedOK("collect", n)'
  <2>1. \A o \in v : o # b /\ backups[o] # None /\ backups[o].mtime < r.at - Retention
    BY <1>5 DEF DoomedOK
  <2>2. PICK kept \in SUBSET (Backups \ r.doomed) :
          /\ Cardinality(kept) = MinRetained
          /\ \A k \in kept, o \in r.doomed : backups[k].mtime >= backups[o].mtime
    BY <1>1, <1>5 DEF DoomedOK
  <2>3. \A o \in Time : o # b => backups'[o] = backups[o]
    BY <1>0, <1>1
  <2>4. kept \in SUBSET (Backups' \ v) /\ \A k \in kept : k # b /\ k \in Time
    BY <1>1, <2>3 DEF Backups
  <2>5. \A o \in v : o \in Time
    BY <1>0 DEF Call
  <2> QED BY <1>1, <1>3, <2>1, <2>2, <2>3, <2>4, <2>5 DEF DoomedOK
<1>10. CallOK("collect", n)'
  BY <1>1, <1>3, <1>5, <1>7, <1>8, <1>9 DEF CallOK
<1>11. HandOK("collect", n, fd[c])'
  BY NoHand DEF Hands
<1> QED BY <1>1, <1>2, <1>4, <1>10, <1>11, Frame

-----------------------------------------------------------------------------
(* The invariant and what it gives. *)

\* A host without an install, and nobody at work.
LEMMA InitUpdate == Init => UpdateInv
<1> SUFFICES ASSUME Init PROVE UpdateInv
  OBVIOUS
<1>1. TimesOK
  BY DEF Init, TimesOK, Backups
<1>2. ASSUME NEW c \in Clients PROVE CallOK(pc[c], call[c])
  BY DEF Init, CallOK, DoomedOK, NoCall, UpdateSteps
<1>3. ASSUME NEW c \in Clients PROVE call[c].op # "update"
  BY DEF Init, NoCall
<1> QED BY <1>1, <1>2, <1>3, InitShape DEF UpdateInv

\* Every step of one operator or of the environment keeps the invariant.
LEMMA NextUpdate ==
  ASSUME Alone, UpdateInv, [Next]_vars
  PROVE  UpdateInv'
<1>0. ShapeOK'
  BY NextShape DEF UpdateInv
<1>1. CASE UNCHANGED vars
  <2>1. UNCHANGED readVars /\ UNCHANGED <<pc, call>>
    BY <1>1 DEF vars, hostVars, fileVars, dockerVars, callVars, readVars
  <2>2. ASSUME NEW c \in Clients PROVE CallOK(pc[c], call[c])'
    <3> PICK at, r : at = pc[c] /\ r = call[c]
      OBVIOUS
    <3>1. CallOK(at, r)'
      BY <2>1, QuietOK DEF UpdateInv
    <3> QED BY <2>1, <3>1
  <2>3. TimesOK'
    BY <2>1 DEF UpdateInv, TimesOK, Backups, readVars
  <2>4. UNCHANGED <<tmpVars, fd>>
    BY <1>1 DEF vars, hostVars, fileVars, callVars, writeVars
  <2>5. ASSUME NEW c \in Clients, call[c].op = "update" PROVE HandOK(pc[c], call[c], fd[c])'
    BY <2>1, <2>4, <2>5, Before DEF HandOK, Render, tmpVars, readVars
  <2> QED BY <1>0, <2>1, <2>2, <2>3, <2>5 DEF UpdateInv
<1>2. CASE Environment
  BY <1>0, <1>2, EnvironmentOK
<1>3. ASSUME NEW c \in Clients, Begin(c) PROVE UpdateInv'
  BY <1>0, <1>3, BeginOK
<1>4. ASSUME NEW c \in Clients, Fails(c) PROVE UpdateInv'
  BY <1>0, <1>4, ReturnsOK
<1>5. ASSUME NEW c \in Clients, Step(c) PROVE UpdateInv'
  <2>1. CASE FindMarker(c) \/ NotInstalled(c) \/ ReportNoop(c) \/ Updated(c)
    BY <1>0, <2>1, ReturnsOK
  <2>2. CASE Preflight(c) \/ FindInstall(c) \/ Layout(c) \/ WriteEnv(c) \/ Reload(c) \/ Pull(c)
             \/ ListFails(c)
    BY <1>0, <2>2, MovesOK
  <2>3. CASE \/ \E s \in Services, tag \in Tags, digest \in Digests : Resolve(c, s, tag, digest)
             \/ LoadState(c) \/ Decide(c)
    BY <1>0, <2>3, LookupOK
  <2>4. CASE \/ MakeBackup(c) \/ SaveCompose(c) \/ KeepCompose(c) \/ SaveState(c) \/ KeepState(c)
             \/ SaveConfig(c)
    BY <1>0, <2>4, SavesOK
  <2>5. CASE OpenCompose(c) \/ FillCompose(c) \/ MoveCompose(c)
    BY <1>0, <2>5, ComposeWriteOK
  <2>10. CASE OpenState(c) \/ FillState(c) \/ MoveState(c)
    BY <1>0, <2>10, StateWriteOK
  <2>11. CASE UndoCompose(c) \/ RefillCompose(c) \/ UndoState(c) \/ RefillState(c)
    BY <1>0, <2>11, UndoOK
  <2>6. CASE Up(c) \/ UndoUp(c)
    BY <1>0, <2>6, UpsOK
  <2>7. CASE Healthy(c) \/ NotYetHealthy(c) \/ Unhealthy(c)
    BY <1>0, <2>7, HealthOK
  <2>8. CASE ListBackups(c)
    BY <1>0, <2>8, ListOK
  <2>9. CASE \E b \in Time : Collect(c, b)
    BY <1>0, <2>9, CollectOK
  <2> QED BY <1>5, <2>1, <2>2, <2>3, <2>4, <2>5, <2>6, <2>7, <2>8, <2>9, <2>10, <2>11 DEF Step
<1> QED BY <1>1, <1>2, <1>3, <1>4, <1>5 DEF Next

\* With one operator the invariant holds in every reachable state.
THEOREM UpdateInvariant ==
  ASSUME Alone
  PROVE  Spec => []UpdateInv
BY InitUpdate, NextUpdate, PTL DEF Spec

\* With one operator, a rollback puts back the compose file and the state file of
\* before the update and, if the compose file pins a digest, its image.
THEOREM RollbackRestoresCorrect ==
  ASSUME Alone
  PROVE  Spec => []RollbackRestores
<1>1. UpdateInv => RollbackRestores
  <2> SUFFICES ASSUME UpdateInv, NEW c \in Clients, pc[c] \in {"undoUp", "undoHealth"}
               PROVE  /\ compose = call[c].before.compose /\ state = call[c].before.state
                      /\ pc[c] = "undoHealth" /\ compose.digests # {} =>
                           \A s \in Services : running[s] \in compose.digests
    BY DEF RollbackRestores
  <2>1. FilesOK(pc[c], call[c])
    BY Before DEF CallOK, UpdateSteps
  <2> QED BY <2>1 DEF FilesOK
<1> QED BY <1>1, UpdateInvariant, PTL

\* With one operator, the backup an update took holds the files of before the update
\* until it reports success, whatever it collects.
THEOREM BackupSurvivesCorrect ==
  ASSUME Alone
  PROVE  Spec => []BackupSurvives
<1>1. UpdateInv => BackupSurvives
  <2> SUFFICES ASSUME UpdateInv, NEW c \in Clients, pc[c] = "collect", call[c].backup # None
               PROVE  /\ backups[call[c].backup] # None
                      /\ backups[call[c].backup].compose = call[c].before.compose
                      /\ backups[call[c].backup].state = call[c].before.state
    BY DEF BackupSurvives
  <2>1. BackupOK(pc[c], call[c])
    BY Before DEF CallOK, UpdateSteps
  <2> QED BY <2>1 DEF BackupOK, Backed
<1> QED BY <1>1, UpdateInvariant, PTL

\* With one operator, an update that moves to the tag of its template leaves every
\* service running, and answering with, the digest the state file names.
THEOREM UpdateDeploysCorrect ==
  ASSUME Alone
  PROVE  Spec => []UpdateDeploys
<1>1. UpdateInv => UpdateDeploys
  <2> SUFFICES ASSUME UpdateInv, NEW c \in Clients, pc[c] = "collect",
                      \A s \in Services : call[c].report[s].tag = call[c].template,
                      NEW s \in Services
               PROVE  running[s] = state[s].digest /\ Listening(s)
    BY DEF UpdateDeploys
  <2>1. FilesOK(pc[c], call[c])
    BY Before DEF CallOK, UpdateSteps
  <2>2. /\ state = call[c].report /\ WellFormed(compose) /\ Listening(s)
        /\ compose = Render(call[c].template, call[c].report)
        /\ compose.digests # {} => running[s] \in compose.digests
    BY <2>1 DEF FilesOK, Written
  <2>3. call[c].report[s].digest \in compose.digests
    BY <2>2 DEF Render
  <2> QED BY <2>2, <2>3 DEF WellFormed
<1> QED BY <1>1, UpdateInvariant, PTL

\* Only garbage collection deletes a backup, and it deletes one that has expired and
\* than which as many as the minimum are no older.
LEMMA CollectsOld ==
  ASSUME UpdateInv, [Next]_vars, NEW b \in Time, backups[b] # None, backups'[b] = None
  PROVE  /\ backups[b].mtime + Retention < clock
         /\ Cardinality({o \in Backups \ {b} : backups[o].mtime >= backups[b].mtime}) >= MinRetained
<1>0. clock \in Time /\ backups \in [Time -> Backup \cup {None}]
  BY DEF UpdateInv, ShapeOK, TypeOK
<1>1. PICK c \in Clients : Collect(c, b)
  <2> SUFFICES ASSUME \A c \in Clients : ~Collect(c, b) PROVE FALSE
    OBVIOUS
  <2>1. ASSUME NEW c \in Clients, MakeBackup(c) PROVE FALSE
    <3>1. call[c].at \in Time
      BY Before DEF Call
    <3>2. [compose |-> None, state |-> None, mtime |-> clock] \in Backup
      BY <1>0 DEF Backup, ComposeFile, StateFile
    <3> QED BY <1>0, <2>1, <3>1, <3>2, NoneAssumption DEF MakeBackup
  <2>2. ASSUME NEW c \in Clients,
               SaveCompose(c) \/ KeepCompose(c) \/ SaveState(c) \/ KeepState(c) \/ SaveConfig(c)
        PROVE  FALSE
    <3>1. call[c].backup \in Time
      BY <2>2, Before DEF SaveCompose, KeepCompose, SaveState, KeepState, SaveConfig, Goto, Shell,
         BackupSteps
    <3>2. /\ backups[b] \in Backup /\ \A a \in Time : backups[a] # None => backups[a] \in Backup
          /\ compose \in ComposeFile /\ state \in StateFile
      BY <1>0 DEF UpdateInv, ShapeOK, TypeOK
    <3>3. backups'[b] = backups[b] \/ backups'[b] \in Backup
      <4>1. CASE SaveCompose(c)
        BY <1>0, <3>1, <3>2, <4>1 DEF SaveCompose, Backup, ComposeFile, Damaged
      <4>2. CASE KeepCompose(c)
        <5>1. CASE UNCHANGED backups
          BY <5>1
        <5>2. CASE ~UNCHANGED backups
          <6> PICK a \in Time : a = call[c].backup
            BY <3>1
          <6>1. PICK kept \in Over(backups[a].compose, compose) :
                  backups[a] # None /\ backups' = [backups EXCEPT ![a].compose = kept]
            BY <4>2, <5>2 DEF KeepCompose
          <6>2. kept \in ComposeFile
            BY <3>2, <6>1, OverType DEF Backup, ComposeFile, Damaged
          <6> QED BY <1>0, <3>2, <6>1, <6>2 DEF Backup
        <5> QED BY <5>1, <5>2
      <4>3. CASE SaveState(c)
        BY <1>0, <3>1, <3>2, <4>3 DEF SaveState, Backup, StateFile, Damaged
      <4>4. CASE KeepState(c)
        <5>1. CASE UNCHANGED backups
          BY <5>1
        <5>2. CASE ~UNCHANGED backups
          <6> PICK a \in Time : a = call[c].backup
            BY <3>1
          <6>1. PICK kept \in Over(backups[a].state, state) :
                  backups[a] # None /\ backups' = [backups EXCEPT ![a].state = kept]
            BY <4>4, <5>2 DEF KeepState
          <6>2. kept \in StateFile
            BY <3>2, <6>1, OverType DEF Backup, StateFile, Damaged
          <6> QED BY <1>0, <3>2, <6>1, <6>2 DEF Backup
        <5> QED BY <5>1, <5>2
      <4>5. CASE SaveConfig(c)
        BY <1>0, <3>1, <3>2, <4>5 DEF SaveConfig, Backup
      <4> QED BY <2>2, <4>1, <4>2, <4>3, <4>4, <4>5
    <3> QED BY <3>3, NoneAssumption
  <2>3. ASSUME NEW c \in Clients, NEW a \in Time, Collect(c, a) PROVE FALSE
    BY <1>0, <2>3 DEF Collect
  <2>4. ASSUME UNCHANGED backups PROVE FALSE
    BY <2>4
  <2>5. ~Environment /\ ~UNCHANGED vars
    BY <2>4 DEF Environment, Tick, Publish, vars, hostVars, fileVars
  <2>6. ASSUME NEW c \in Clients, Begin(c) \/ Fails(c) PROVE FALSE
    BY <2>4, <2>6 DEF Begin, BeginBootstrap, BeginUpdate, RefuseUpdate, Fails, Crash, ExecFails,
       ComposeUpFails, hostVars, fileVars
  <2>7. ASSUME NEW c \in Clients, Step(c) PROVE FALSE
    <3>1. CASE Preflight(c) \/ FindInstall(c) \/ FindMarker(c) \/ Layout(c) \/ WriteEnv(c)
               \/ NotInstalled(c) \/ LoadState(c) \/ Decide(c) \/ ReportNoop(c) \/ Reload(c)
      BY <2>4, <3>1 DEF Preflight, FindInstall, FindMarker, Layout, WriteEnv, NotInstalled,
         LoadState, Decide, ReportNoop, Reload, hostVars, fileVars
    <3>2. CASE Pull(c) \/ Up(c) \/ Healthy(c) \/ NotYetHealthy(c) \/ Unhealthy(c) \/ UndoUp(c)
               \/ ListBackups(c) \/ ListFails(c) \/ Updated(c)
      BY <2>4, <3>2 DEF Pull, Up, Healthy, NotYetHealthy, Unhealthy, UndoUp, ComposeUp, ListBackups,
         ListFails, Updated, hostVars, fileVars
    <3>4. CASE \/ OpenCompose(c) \/ FillCompose(c) \/ MoveCompose(c)
               \/ OpenState(c) \/ FillState(c) \/ MoveState(c)
               \/ UndoCompose(c) \/ RefillCompose(c) \/ UndoState(c) \/ RefillState(c)
      BY <2>4, <3>4 DEF OpenCompose, FillCompose, MoveCompose, OpenState, FillState, MoveState,
         UndoCompose, RefillCompose, UndoState, RefillState
    <3>3. CASE \E s \in Services, tag \in Tags, digest \in Digests : Resolve(c, s, tag, digest)
      BY <2>4, <3>3 DEF Resolve, hostVars, fileVars
    <3> QED BY <2>1, <2>2, <2>3, <2>7, <3>1, <3>2, <3>3, <3>4 DEF Step
  <2> QED BY <2>5, <2>6, <2>7 DEF Next
<1>2. /\ DoomedOK("collect", call[c]) /\ b \in call[c].doomed /\ call[c].at <= clock
      /\ call[c].at \in Time
  BY <1>1, Before DEF Collect, CallOK, Call
<1>3. backups[b].mtime + Retention < clock
  <2>1. backups[b].mtime < call[c].at - Retention
    BY <1>2 DEF DoomedOK
  <2>2. backups[b].mtime \in Int /\ clock \in Int /\ call[c].at \in Int /\ Retention \in Int
    BY <1>0, <1>2, ConstantsAssumption DEF Backup, Time
  <2> QED BY <1>2, <2>1, <2>2
<1>4. Cardinality({o \in Backups \ {b} : backups[o].mtime >= backups[b].mtime}) >= MinRetained
  <2> DEFINE newer == {o \in Backups \ {b} : backups[o].mtime >= backups[b].mtime}
  <2>1. PICK kept \in SUBSET (Backups \ call[c].doomed) :
          /\ Cardinality(kept) = MinRetained
          /\ \A k \in kept, o \in call[c].doomed : backups[k].mtime >= backups[o].mtime
    BY <1>2 DEF DoomedOK
  <2>2. kept \in SUBSET newer
    BY <1>2, <2>1
  <2>3. IsFiniteSet(newer)
    <3>1. IsFiniteSet(0 .. MaxClock)
      BY ConstantsAssumption, FS_Interval
    <3>2. newer \in SUBSET (0 .. MaxClock)
      BY DEF Backups, Time
    <3> QED BY <3>1, <3>2, FS_Subset
  <2>4. Cardinality(kept) <= Cardinality(newer)
    BY <2>2, <2>3, FS_Subset
  <2>5. Cardinality(newer) \in Nat
    BY <2>3, FS_CardinalityType
  <2> HIDE DEF newer
  <2>6. Cardinality(newer) >= MinRetained
    BY <2>1, <2>4, <2>5, ConstantsAssumption
  <2> QED BY <2>6 DEF newer
<1> QED BY <1>3, <1>4

\* With one operator, a step deletes a backup only when it has expired and as many as
\* the minimum, none of them older, stay.
THEOREM CollectsOnlyOldCorrect ==
  ASSUME Alone
  PROVE  Spec => CollectsOnlyOld
<1>1. UpdateInv /\ [Next]_vars =>
        [\A b \in Time : backups[b] # None /\ backups'[b] = None =>
           /\ backups[b].mtime + Retention < clock
           /\ Cardinality({o \in Backups \ {b} : backups[o].mtime >= backups[b].mtime})
                >= MinRetained]_vars
  BY CollectsOld
<1> QED BY <1>1, UpdateInvariant, PTL DEF Spec, CollectsOnlyOld

=============================================================================
