------------------------ MODULE RelayLifecycleProofs ------------------------
(***************************************************************************)
(* Proofs about RelayLifecycle, for every set of operators, services, tags *)
(* and digests and every bound.                                            *)
(***************************************************************************)
EXTENDS RelayLifecycle, TLAPS

\* Steps that rely on a report with a pin for every service.
Resolved == {"layout", "decide", "reportNoop", "makeBackup", "saveCompose", "keepCompose",
             "saveState", "keepState", "saveConfig", "reload", "openCompose", "fillCompose",
             "moveCompose", "writeEnv", "openState", "fillState", "moveState"}

\* Steps that rely on the name of the call's backup directory.
BackupSteps == {"saveCompose", "keepCompose", "saveState", "keepState", "saveConfig",
                "undoCompose", "refillCompose", "undoState", "refillState", "undoUp", "undoHealth"}

\* What the locals of a call hold at each step.
LocalsOK ==
  \A c \in Clients :
    /\ pc[c] \in BootstrapSteps => call[c].op = "bootstrap"
    /\ pc[c] = "resolve" /\ call[c].op # "bootstrap" => call[c].seen # None
    /\ pc[c] \in Resolved => call[c].report \in Pins
    /\ pc[c] \in BackupSteps => call[c].backup # None

ShapeOK == TypeOK /\ LocalsOK

\* A call begins with locals of the right types.
LEMMA StartShape ==
  ASSUME ShapeOK, NEW c \in Clients, NEW template \in Templates
  PROVE  /\ \A tag \in Tags : BeginBootstrap(c, template, tag) => ShapeOK'
         /\ \A skip \in BOOLEAN : BeginUpdate(c, template, skip) => ShapeOK'
<1>0. \A tag \in Tags : NewCall("bootstrap", TRUE, template, tag).op = "bootstrap"
  BY DEF NewCall
<1>1. \A op \in {"bootstrap", "update"}, skip \in BOOLEAN, tag \in Tags :
         NewCall(op, skip, template, tag) \in Call
  BY ConstantsAssumption DEF ShapeOK, TypeOK, NewCall, Call, Snapshot
<1>2. ASSUME NEW tag \in Tags, BeginBootstrap(c, template, tag) PROVE ShapeOK'
  BY <1>0, <1>1, <1>2, ConstantsAssumption DEF BeginBootstrap, Start, ShapeOK, TypeOK, LocalsOK, Steps, BootstrapSteps,
     Outcomes, Resolved, BackupSteps, hubVars, hostVars, fileVars, dockerVars, tmpVars, writeVars
<1>3. ASSUME NEW skip \in BOOLEAN, BeginUpdate(c, template, skip) PROVE ShapeOK'
  BY <1>1, <1>3, ConstantsAssumption DEF BeginUpdate, Start, ShapeOK, TypeOK, LocalsOK, Steps, UpdateSteps,
     Outcomes, Resolved, BackupSteps, BootstrapSteps, hubVars, hostVars, fileVars, dockerVars, tmpVars, writeVars
<1> QED BY <1>2, <1>3

\* A write leaves what was there, what it writes, or a mixture.
LEMMA OverType ==
  ASSUME NEW old, NEW new
  PROVE  /\ \A v \in Over(old, new) : v \in {old, new, Torn}
         /\ new # Empty => Over(old, new) \subseteq {new, Torn}
         /\ Over(Empty, new) = {new}
         /\ Over(None, None) = {None}
BY DEF Over

\* A call with one local replaced is a call.
LEMMA CallField ==
  ASSUME NEW f \in [Clients -> Call], NEW c \in Clients
  PROVE  /\ \A v \in Pins \cup {None} : [f EXCEPT ![c].seen = v] \in [Clients -> Call]
         /\ \A v \in [Services -> Pin \cup {None}] : [f EXCEPT ![c].report = v] \in [Clients -> Call]
         /\ \A v \in Time : [f EXCEPT ![c].at = v] \in [Clients -> Call]
         /\ \A v \in Time \cup {None} : [f EXCEPT ![c].backup = v] \in [Clients -> Call]
         /\ \A v \in 0 .. MaxPolls : [f EXCEPT ![c].polls = v] \in [Clients -> Call]
         /\ \A v \in SUBSET Time : [f EXCEPT ![c].doomed = v] \in [Clients -> Call]
<1>1. ASSUME NEW v \in Pins \cup {None} PROVE [f EXCEPT ![c].seen = v] \in [Clients -> Call]
  <2>1. [f[c] EXCEPT !.seen = v] \in Call
    BY DEF Call
  <2>2. [f EXCEPT ![c].seen = v] = [f EXCEPT ![c] = [f[c] EXCEPT !.seen = v]]
    BY Zenon
  <2> QED BY <2>1, <2>2
<1>2. ASSUME NEW v \in [Services -> Pin \cup {None}] PROVE [f EXCEPT ![c].report = v] \in [Clients -> Call]
  <2>1. [f[c] EXCEPT !.report = v] \in Call
    BY DEF Call
  <2>2. [f EXCEPT ![c].report = v] = [f EXCEPT ![c] = [f[c] EXCEPT !.report = v]]
    BY Zenon
  <2> QED BY <2>1, <2>2
<1>3. ASSUME NEW v \in Time PROVE [f EXCEPT ![c].at = v] \in [Clients -> Call]
  <2>1. [f[c] EXCEPT !.at = v] \in Call
    BY DEF Call
  <2>2. [f EXCEPT ![c].at = v] = [f EXCEPT ![c] = [f[c] EXCEPT !.at = v]]
    BY Zenon
  <2> QED BY <2>1, <2>2
<1>4. ASSUME NEW v \in Time \cup {None} PROVE [f EXCEPT ![c].backup = v] \in [Clients -> Call]
  <2>1. [f[c] EXCEPT !.backup = v] \in Call
    BY DEF Call
  <2>2. [f EXCEPT ![c].backup = v] = [f EXCEPT ![c] = [f[c] EXCEPT !.backup = v]]
    BY Zenon
  <2> QED BY <2>1, <2>2
<1>5. ASSUME NEW v \in 0 .. MaxPolls PROVE [f EXCEPT ![c].polls = v] \in [Clients -> Call]
  <2>1. [f[c] EXCEPT !.polls = v] \in Call
    BY DEF Call
  <2>2. [f EXCEPT ![c].polls = v] = [f EXCEPT ![c] = [f[c] EXCEPT !.polls = v]]
    BY Zenon
  <2> QED BY <2>1, <2>2
<1>6. ASSUME NEW v \in SUBSET Time PROVE [f EXCEPT ![c].doomed = v] \in [Clients -> Call]
  <2>1. [f[c] EXCEPT !.doomed = v] \in Call
    BY DEF Call
  <2>2. [f EXCEPT ![c].doomed = v] = [f EXCEPT ![c] = [f[c] EXCEPT !.doomed = v]]
    BY Zenon
  <2> QED BY <2>1, <2>2
<1> QED BY <1>1, <1>2, <1>3, <1>4, <1>5, <1>6

\* So are the locals of an idle operator.
LEMMA NoCallType == NoCall \in Call
<1>1. (CHOOSE t \in Tags : TRUE) \in Tags
  BY ConstantsAssumption
<1>2. 0 \in Time /\ 0 \in 0 .. MaxPolls
  BY ConstantsAssumption DEF Time
<1> QED BY <1>1, <1>2 DEF NoCall, Call, Snapshot, ComposeFile, StateFile

\* A host without an install is well shaped.
LEMMA InitShape == Init => ShapeOK
<1> SUFFICES ASSUME Init PROVE ShapeOK
  OBVIOUS
<1>1. TypeOK
  <2>1. /\ hub \in [Tags -> Digests \cup {None}]
        /\ published \in SUBSET (Tags \X Digests) /\ highest \in SUBSET Tags
        /\ backups \in [Time -> Backup \cup {None}]
        /\ pulled \in [Tags -> Digests \cup {None}]
        /\ running \in [Services -> Digests \cup {None}]
    BY DEF Init
  <2>2. clock \in Time
    BY ConstantsAssumption DEF Init, Time
  <2>3. /\ pc \in [Clients -> Steps \cup {"idle"}]
        /\ call \in [Clients -> Call]
        /\ outcome \in [Clients -> Outcomes]
    BY NoCallType DEF Init, Outcomes
  <2>4. /\ dir \in BOOLEAN /\ env \in BOOLEAN /\ compose \in ComposeFile /\ state \in StateFile
        /\ composeTmp \in ComposeFile /\ stateTmp \in StateFile
        /\ fd \in [Clients -> {"none", "tmp", "path", "gone"}] /\ alone \in SUBSET Clients
    BY DEF Init, ComposeFile, StateFile
  <2> QED BY <2>1, <2>2, <2>3, <2>4 DEF TypeOK
<1>2. LocalsOK
  BY DEF Init, LocalsOK, Resolved, BackupSteps, BootstrapSteps
<1> QED BY <1>1, <1>2 DEF ShapeOK

\* Every step of a call keeps the types and what its locals hold.
LEMMA StepShape ==
  ASSUME ShapeOK, NEW c \in Clients, Step(c) \/ Fails(c)
  PROVE  ShapeOK'
<1> USE DEF ShapeOK, hubVars, hostVars, fileVars, dockerVars, tmpVars, writeVars
<1>a. TypeOK /\ LocalsOK
  OBVIOUS
<1>b. Steps = BootstrapSteps \cup UpdateSteps \cup SharedSteps
  BY DEF Steps
<1>1. CASE Preflight(c)
  <2>1. TypeOK'
    BY <1>1 DEF TypeOK, Preflight, Goto, Steps, BootstrapSteps, UpdateSteps, SharedSteps
  <2>2. LocalsOK'
    BY <1>1 DEF TypeOK, LocalsOK, Preflight, Goto, Resolved, BackupSteps, BootstrapSteps
  <2> QED BY <2>1, <2>2
<1>2. CASE FindInstall(c)
  <2>1. TypeOK'
    BY <1>2 DEF TypeOK, FindInstall, Goto, Steps, BootstrapSteps, UpdateSteps, SharedSteps
  <2>2. LocalsOK'
    BY <1>2 DEF TypeOK, LocalsOK, FindInstall, Goto, Resolved, BackupSteps, BootstrapSteps
  <2> QED BY <2>1, <2>2
<1>3. CASE Layout(c)
  <2>1. TypeOK'
    BY <1>3 DEF TypeOK, Layout, Goto, Steps, BootstrapSteps, UpdateSteps, SharedSteps
  <2>2. LocalsOK'
    BY <1>3 DEF TypeOK, LocalsOK, Layout, Goto, Resolved, BackupSteps, BootstrapSteps
  <2> QED BY <2>1, <2>2
<1>4. CASE WriteEnv(c)
  <2>1. TypeOK'
    BY <1>4 DEF TypeOK, WriteEnv, Goto, Steps, BootstrapSteps, UpdateSteps, SharedSteps
  <2>2. LocalsOK'
    BY <1>4 DEF TypeOK, LocalsOK, WriteEnv, Goto, Resolved, BackupSteps, BootstrapSteps
  <2> QED BY <2>1, <2>2
<1>5. CASE Reload(c)
  <2>1. TypeOK'
    BY <1>5 DEF TypeOK, Reload, Goto, Steps, BootstrapSteps, UpdateSteps, SharedSteps
  <2>2. LocalsOK'
    BY <1>5 DEF TypeOK, LocalsOK, Reload, Goto, Resolved, BackupSteps, BootstrapSteps
  <2> QED BY <2>1, <2>2
<1>6. CASE FindMarker(c)
  <2>1. TypeOK'
    BY <1>6, NoCallType DEF TypeOK, FindMarker, Return, Outcomes
  <2>2. LocalsOK'
    BY <1>6 DEF TypeOK, LocalsOK, FindMarker, Return, Resolved, BackupSteps, BootstrapSteps
  <2> QED BY <2>1, <2>2
<1>7. CASE NotInstalled(c)
  <2>1. TypeOK'
    BY <1>7, NoCallType DEF TypeOK, NotInstalled, Return, Outcomes
  <2>2. LocalsOK'
    BY <1>7 DEF TypeOK, LocalsOK, NotInstalled, Return, Resolved, BackupSteps, BootstrapSteps
  <2> QED BY <2>1, <2>2
<1>8. CASE ReportNoop(c)
  <2>1. TypeOK'
    BY <1>8, NoCallType DEF TypeOK, ReportNoop, Return, Outcomes
  <2>2. LocalsOK'
    BY <1>8 DEF TypeOK, LocalsOK, ReportNoop, Return, Resolved, BackupSteps, BootstrapSteps
  <2> QED BY <2>1, <2>2
<1>9. CASE Updated(c)
  <2>1. TypeOK'
    BY <1>9, NoCallType DEF TypeOK, Updated, Return, Outcomes
  <2>2. LocalsOK'
    BY <1>9 DEF TypeOK, LocalsOK, Updated, Return, Resolved, BackupSteps, BootstrapSteps
  <2> QED BY <2>1, <2>2
<1>10. CASE Crash(c)
  <2>1. TypeOK'
    BY <1>10, NoCallType DEF TypeOK, Crash, Return, Outcomes
  <2>2. LocalsOK'
    BY <1>10 DEF TypeOK, LocalsOK, Crash, Return, Resolved, BackupSteps, BootstrapSteps
  <2> QED BY <2>1, <2>2
<1>11. CASE ExecFails(c)
  <2>1. TypeOK'
    BY <1>11, NoCallType DEF TypeOK, ExecFails, Return, Outcomes
  <2>2. LocalsOK'
    BY <1>11 DEF TypeOK, LocalsOK, ExecFails, Return, Resolved, BackupSteps, BootstrapSteps
  <2> QED BY <2>1, <2>2
<1>12. CASE LoadState(c)
  <2>1. call' \in [Clients -> Call]
    BY <1>12, CallField DEF TypeOK, LoadState
  <2>2. TypeOK'
    BY <1>12, <2>1 DEF TypeOK, LoadState, Goto, Steps, BootstrapSteps, UpdateSteps, SharedSteps
  <2>3. LocalsOK'
    BY <1>12, NoneAssumption DEF TypeOK, LocalsOK, LoadState, Goto, Resolved, BackupSteps, BootstrapSteps, Call
  <2> QED BY <2>2, <2>3
<1>13. CASE Decide(c)
  <2>1. call' \in [Clients -> Call]
    BY <1>13, CallField DEF TypeOK, Decide
  <2>2. TypeOK'
    BY <1>13, <2>1 DEF TypeOK, Decide, Goto, Steps, BootstrapSteps, UpdateSteps, SharedSteps
  <2>3. LocalsOK'
    BY <1>13 DEF TypeOK, LocalsOK, Decide, Goto, Resolved, BackupSteps, BootstrapSteps, Call
  <2> QED BY <2>2, <2>3
<1>14. CASE OpenCompose(c)
  <2>1. TypeOK'
    BY <1>14 DEF TypeOK, OpenCompose, Goto, Shell, Steps, BootstrapSteps, UpdateSteps, SharedSteps, ComposeFile, Damaged
  <2>2. LocalsOK'
    BY <1>14 DEF TypeOK, LocalsOK, OpenCompose, Goto, Shell, Resolved, BackupSteps, BootstrapSteps, Call
  <2> QED BY <2>1, <2>2
<1>33. CASE FillCompose(c)
  <2>1. call[c].report \in Pins /\ call[c].template \in Tags
    BY <1>33 DEF TypeOK, LocalsOK, FillCompose, Goto, Shell, Resolved, Call
  <2>2. Render(call[c].template, call[c].report) \in ComposeFile
    BY <2>1 DEF Render, Compose, ComposeFile, Pins, Pin
  <2>3. compose' \in ComposeFile /\ composeTmp' \in ComposeFile
    BY <1>33, <2>2, OverType DEF TypeOK, Into, FillCompose, ComposeFile, Damaged
  <2>4. TypeOK'
    BY <1>33, <2>1, <2>2, <2>3 DEF TypeOK, FillCompose, Goto, Shell, Steps, BootstrapSteps, UpdateSteps, SharedSteps
  <2>5. LocalsOK'
    BY <1>33 DEF TypeOK, LocalsOK, FillCompose, Goto, Shell, Resolved, BackupSteps, BootstrapSteps, Call
  <2> QED BY <2>4, <2>5
<1>34. CASE MoveCompose(c)
  <2>1. fd' \in [Clients -> {"none", "tmp", "path", "gone"}]
    BY <1>34 DEF TypeOK, MoveCompose, Renamed
  <2>2. TypeOK'
    BY <1>34, <2>1 DEF TypeOK, MoveCompose, Goto, Shell, Steps, BootstrapSteps, UpdateSteps, SharedSteps, ComposeFile
  <2>3. LocalsOK'
    BY <1>34 DEF TypeOK, LocalsOK, MoveCompose, Goto, Shell, Resolved, BackupSteps, BootstrapSteps, Call
  <2> QED BY <2>2, <2>3
<1>15. CASE OpenState(c)
  <2>1. TypeOK'
    BY <1>15 DEF TypeOK, OpenState, Goto, Shell, Steps, BootstrapSteps, UpdateSteps, SharedSteps, StateFile, Damaged
  <2>2. LocalsOK'
    BY <1>15 DEF TypeOK, LocalsOK, OpenState, Goto, Shell, Resolved, BackupSteps, BootstrapSteps, Call
  <2> QED BY <2>1, <2>2
<1>35. CASE FillState(c)
  <2>1. call[c].report \in Pins /\ call[c].template \in Tags
    BY <1>35 DEF TypeOK, LocalsOK, FillState, Goto, Shell, Resolved, Call
  <2>2. state' \in StateFile /\ stateTmp' \in StateFile
    BY <1>35, <2>1, OverType DEF TypeOK, Into, FillState, StateFile, Damaged
  <2>3. TypeOK'
    BY <1>35, <2>1, <2>2 DEF TypeOK, FillState, Goto, Shell, Steps, BootstrapSteps, UpdateSteps, SharedSteps
  <2>4. LocalsOK'
    BY <1>35 DEF TypeOK, LocalsOK, FillState, Goto, Shell, Resolved, BackupSteps, BootstrapSteps, Call
  <2> QED BY <2>3, <2>4
<1>36. CASE MoveState(c)
  <2>1. fd' \in [Clients -> {"none", "tmp", "path", "gone"}]
    BY <1>36 DEF TypeOK, MoveState, Renamed
  <2>2. TypeOK'
    BY <1>36, <2>1 DEF TypeOK, MoveState, Goto, Shell, Steps, BootstrapSteps, UpdateSteps, SharedSteps, StateFile
  <2>3. LocalsOK'
    BY <1>36 DEF TypeOK, LocalsOK, MoveState, Goto, Shell, Resolved, BackupSteps, BootstrapSteps, Call
  <2> QED BY <2>2, <2>3
<1>16. CASE Pull(c)
  <2>1. pulled' \in [Tags -> Digests \cup {None}]
    BY <1>16 DEF TypeOK, Pull
  <2>2. TypeOK'
    BY <1>16, <2>1 DEF TypeOK, Pull, Goto, Steps, BootstrapSteps, UpdateSteps, SharedSteps
  <2>3. LocalsOK'
    BY <1>16 DEF TypeOK, LocalsOK, Pull, Goto, Resolved, BackupSteps, BootstrapSteps, Call
  <2> QED BY <2>2, <2>3
<1>17. CASE SaveCompose(c)
  <2>1. call[c].backup \in Time
    BY <1>17 DEF TypeOK, LocalsOK, SaveCompose, Shell, BackupSteps, Call
  <2>2. backups' \in [Time -> Backup \cup {None}]
    BY <1>17, <2>1 DEF TypeOK, SaveCompose, Backup, ComposeFile, Damaged
  <2>3. TypeOK'
    BY <1>17, <2>1, <2>2 DEF TypeOK, SaveCompose, Goto, Shell, Steps, BootstrapSteps, UpdateSteps, SharedSteps
  <2>4. LocalsOK'
    BY <1>17 DEF TypeOK, LocalsOK, SaveCompose, Goto, Shell, Resolved, BackupSteps, BootstrapSteps, Call
  <2> QED BY <2>3, <2>4
<1>18. CASE SaveState(c)
  <2>1. call[c].backup \in Time
    BY <1>18 DEF TypeOK, LocalsOK, SaveState, Shell, BackupSteps, Call
  <2>2. backups' \in [Time -> Backup \cup {None}]
    BY <1>18, <2>1 DEF TypeOK, SaveState, Backup, StateFile, Damaged
  <2>3. TypeOK'
    BY <1>18, <2>1, <2>2 DEF TypeOK, SaveState, Goto, Shell, Steps, BootstrapSteps, UpdateSteps, SharedSteps
  <2>4. LocalsOK'
    BY <1>18 DEF TypeOK, LocalsOK, SaveState, Goto, Shell, Resolved, BackupSteps, BootstrapSteps, Call
  <2> QED BY <2>3, <2>4
<1>37. CASE KeepCompose(c)
  <2>1. call[c].backup \in Time
    BY <1>37 DEF TypeOK, LocalsOK, KeepCompose, Shell, BackupSteps, Call
  <2>2. backups[call[c].backup] # None =>
          Over(backups[call[c].backup].compose, compose) \subseteq ComposeFile
    BY <2>1, OverType DEF TypeOK, Backup, ComposeFile, Damaged
  <2>3. backups' \in [Time -> Backup \cup {None}]
    <3>1. CASE UNCHANGED backups
      BY <3>1 DEF TypeOK
    <3>2. CASE ~UNCHANGED backups
      <4>1. PICK kept \in ComposeFile :
              /\ backups[call[c].backup] # None
              /\ backups' = [backups EXCEPT ![call[c].backup].compose = kept]
        BY <1>37, <2>2, <3>2 DEF KeepCompose
      <4>2. [backups[call[c].backup] EXCEPT !.compose = kept] \in Backup
        BY <2>1, <4>1 DEF TypeOK, Backup
      <4>3. backups' = [backups EXCEPT ![call[c].backup] = [backups[call[c].backup] EXCEPT !.compose = kept]]
        BY <4>1, Zenon
      <4> QED BY <2>1, <4>2, <4>3 DEF TypeOK
    <3> QED BY <3>1, <3>2
  <2>4. TypeOK'
    BY <1>37, <2>1, <2>2, <2>3 DEF TypeOK, KeepCompose, Goto, Shell, Steps, BootstrapSteps, UpdateSteps, SharedSteps
  <2>5. LocalsOK'
    BY <1>37 DEF TypeOK, LocalsOK, KeepCompose, Goto, Shell, Resolved, BackupSteps, BootstrapSteps, Call
  <2> QED BY <2>4, <2>5
<1>38. CASE KeepState(c)
  <2>1. call[c].backup \in Time
    BY <1>38 DEF TypeOK, LocalsOK, KeepState, Shell, BackupSteps, Call
  <2>2. backups[call[c].backup] # None =>
          Over(backups[call[c].backup].state, state) \subseteq StateFile
    BY <2>1, OverType DEF TypeOK, Backup, StateFile, Damaged
  <2>3. backups' \in [Time -> Backup \cup {None}]
    <3>1. CASE UNCHANGED backups
      BY <3>1 DEF TypeOK
    <3>2. CASE ~UNCHANGED backups
      <4>1. PICK kept \in StateFile :
              /\ backups[call[c].backup] # None
              /\ backups' = [backups EXCEPT ![call[c].backup].state = kept]
        BY <1>38, <2>2, <3>2 DEF KeepState
      <4>2. [backups[call[c].backup] EXCEPT !.state = kept] \in Backup
        BY <2>1, <4>1 DEF TypeOK, Backup
      <4>3. backups' = [backups EXCEPT ![call[c].backup] = [backups[call[c].backup] EXCEPT !.state = kept]]
        BY <4>1, Zenon
      <4> QED BY <2>1, <4>2, <4>3 DEF TypeOK
    <3> QED BY <3>1, <3>2
  <2>4. TypeOK'
    BY <1>38, <2>1, <2>2, <2>3 DEF TypeOK, KeepState, Goto, Shell, Steps, BootstrapSteps, UpdateSteps, SharedSteps
  <2>5. LocalsOK'
    BY <1>38 DEF TypeOK, LocalsOK, KeepState, Goto, Shell, Resolved, BackupSteps, BootstrapSteps, Call
  <2> QED BY <2>4, <2>5
<1>19. CASE SaveConfig(c)
  <2>1. /\ call[c].backup \in Time
    BY <1>19 DEF TypeOK, LocalsOK, SaveConfig, Goto, BackupSteps, Call
  <2>2. backups' \in [Time -> Backup \cup {None}]
    BY <1>19, <2>1 DEF TypeOK, SaveConfig, Backup
  <2>3. TypeOK'
    BY <1>19, <2>2 DEF TypeOK, SaveConfig, Goto, Steps, BootstrapSteps, UpdateSteps, SharedSteps
  <2>4. LocalsOK'
    BY <1>19 DEF TypeOK, LocalsOK, SaveConfig, Goto, Resolved, BackupSteps, BootstrapSteps, Call
  <2> QED BY <2>3, <2>4
<1>20. CASE MakeBackup(c)
  <2>1. /\ call[c].at \in Time
    BY DEF TypeOK, Call
  <2>2. [compose |-> None, state |-> None, mtime |-> clock] \in Backup
    BY DEF TypeOK, Backup, ComposeFile, StateFile
  <2>3. backups' \in [Time -> Backup \cup {None}]
    BY <1>20, <2>1, <2>2 DEF TypeOK, MakeBackup
  <2>4. call' \in [Clients -> Call]
    BY <1>20, <2>1, CallField DEF TypeOK, MakeBackup
  <2>5. TypeOK'
    BY <1>20, <2>3, <2>4 DEF TypeOK, MakeBackup, Goto, Steps, BootstrapSteps, UpdateSteps, SharedSteps
  <2>6. LocalsOK'
    BY <1>20, <2>1, NoneAssumption DEF TypeOK, LocalsOK, MakeBackup, Goto, Resolved, BackupSteps, BootstrapSteps, Call
  <2> QED BY <2>5, <2>6
<1>21. CASE UndoCompose(c)
  <2>1. TypeOK'
    BY <1>21 DEF TypeOK, UndoCompose, Goto, Shell, Steps, BootstrapSteps, UpdateSteps, SharedSteps, ComposeFile, Damaged
  <2>2. LocalsOK'
    BY <1>21 DEF TypeOK, LocalsOK, UndoCompose, Goto, Shell, Resolved, BackupSteps, BootstrapSteps, Call
  <2> QED BY <2>1, <2>2
<1>39. CASE RefillCompose(c)
  <2>1. call[c].backup \in Time
    BY <1>39 DEF TypeOK, LocalsOK, RefillCompose, Shell, BackupSteps, Call
  <2>2. compose' \in ComposeFile
    BY <1>39, <2>1, OverType DEF TypeOK, Into, RefillCompose, Backup, ComposeFile, Damaged
  <2>3. TypeOK'
    BY <1>39, <2>1, <2>2 DEF TypeOK, RefillCompose, Goto, Shell, Steps, BootstrapSteps, UpdateSteps, SharedSteps
  <2>4. LocalsOK'
    BY <1>39 DEF TypeOK, LocalsOK, RefillCompose, Goto, Shell, Resolved, BackupSteps, BootstrapSteps, Call
  <2> QED BY <2>3, <2>4
<1>22. CASE UndoState(c)
  <2>1. TypeOK'
    BY <1>22 DEF TypeOK, UndoState, Goto, Shell, Steps, BootstrapSteps, UpdateSteps, SharedSteps, StateFile, Damaged
  <2>2. LocalsOK'
    BY <1>22 DEF TypeOK, LocalsOK, UndoState, Goto, Shell, Resolved, BackupSteps, BootstrapSteps, Call
  <2> QED BY <2>1, <2>2
<1>40. CASE RefillState(c)
  <2>1. call[c].backup \in Time
    BY <1>40 DEF TypeOK, LocalsOK, RefillState, Shell, BackupSteps, Call
  <2>2. state' \in StateFile
    BY <1>40, <2>1, OverType DEF TypeOK, Into, RefillState, Backup, StateFile, Damaged
  <2>3. TypeOK'
    BY <1>40, <2>1, <2>2 DEF TypeOK, RefillState, Goto, Shell, Steps, BootstrapSteps, UpdateSteps, SharedSteps
  <2>4. LocalsOK'
    BY <1>40 DEF TypeOK, LocalsOK, RefillState, Goto, Shell, Resolved, BackupSteps, BootstrapSteps, Call
  <2> QED BY <2>3, <2>4
<1>23. CASE Up(c)
  <2>1. ImageOf(compose) \in Digests
    BY <1>23 DEF TypeOK, Up, ComposeUp, ImageOf, WellFormed, Compose
  <2>2. call' \in [Clients -> Call]
    <3>1. call \in [Clients -> Call] /\ 0 \in 0 .. MaxPolls
      BY ConstantsAssumption DEF TypeOK
    <3>2. call' = [call EXCEPT ![c].polls = 0]
      BY <1>23, Zenon DEF Up, ComposeUp
    <3>3. [call EXCEPT ![c].polls = 0] \in [Clients -> Call]
      BY <3>1, CallField
    <3> QED BY <3>2, <3>3, Zenon
  <2>3. /\ pulled' \in [Tags -> Digests \cup {None}]
        /\ running' \in [Services -> Digests \cup {None}]
    BY <1>23, <2>1 DEF TypeOK, Up, ComposeUp
  <2>4. TypeOK'
    BY <1>23, <2>2, <2>3 DEF TypeOK, Up, Goto, Steps, BootstrapSteps, UpdateSteps, SharedSteps, ComposeUp
  <2>5. LocalsOK'
    BY <1>23 DEF TypeOK, LocalsOK, Up, Goto, Resolved, BackupSteps, BootstrapSteps, Call, ComposeUp
  <2> QED BY <2>4, <2>5
<1>24. CASE UndoUp(c)
  <2>1. ImageOf(compose) \in Digests
    BY <1>24 DEF TypeOK, UndoUp, ComposeUp, ImageOf, WellFormed, Compose
  <2>2. call' \in [Clients -> Call]
    <3>1. call \in [Clients -> Call] /\ 0 \in 0 .. MaxPolls
      BY ConstantsAssumption DEF TypeOK
    <3>2. call' = [call EXCEPT ![c].polls = 0]
      BY <1>24, Zenon DEF UndoUp, ComposeUp
    <3>3. [call EXCEPT ![c].polls = 0] \in [Clients -> Call]
      BY <3>1, CallField
    <3> QED BY <3>2, <3>3, Zenon
  <2>3. /\ pulled' \in [Tags -> Digests \cup {None}]
        /\ running' \in [Services -> Digests \cup {None}]
    BY <1>24, <2>1 DEF TypeOK, UndoUp, ComposeUp
  <2>4. TypeOK'
    BY <1>24, <2>2, <2>3 DEF TypeOK, UndoUp, Goto, Steps, BootstrapSteps, UpdateSteps, SharedSteps, ComposeUp
  <2>5. LocalsOK'
    BY <1>24 DEF TypeOK, LocalsOK, UndoUp, Goto, Resolved, BackupSteps, BootstrapSteps, Call, ComposeUp
  <2> QED BY <2>4, <2>5
<1>25. CASE ComposeUpFails(c)
  <2>1. ImageOf(compose) \in Digests
    BY <1>25 DEF TypeOK, ComposeUpFails, ImageOf, WellFormed, Compose
  <2>2. running' \in [Services -> Digests \cup {None}]
    BY <1>25, <2>1 DEF TypeOK, ComposeUpFails
  <2>3. TypeOK'
    BY <1>25, <2>2, NoCallType DEF TypeOK, ComposeUpFails, Return, Outcomes
  <2>4. LocalsOK'
    BY <1>25 DEF TypeOK, LocalsOK, ComposeUpFails, Return, Resolved, BackupSteps, BootstrapSteps
  <2> QED BY <2>3, <2>4
<1>26. CASE Healthy(c)
  <2>1. TypeOK'
    BY <1>26, NoCallType DEF TypeOK, Healthy, WillRollBack, Goto, Return, Outcomes, Steps, BootstrapSteps, UpdateSteps, SharedSteps
  <2>2. LocalsOK'
    BY <1>26 DEF TypeOK, LocalsOK, Healthy, WillRollBack, Goto, Return, Resolved, BackupSteps, BootstrapSteps
  <2> QED BY <2>1, <2>2
<1>27. CASE Unhealthy(c)
  <2>1. TypeOK'
    BY <1>27, NoCallType DEF TypeOK, Unhealthy, WillRollBack, Goto, Return, Outcomes, Steps, BootstrapSteps, UpdateSteps, SharedSteps
  <2>2. LocalsOK'
    BY <1>27 DEF TypeOK, LocalsOK, Unhealthy, WillRollBack, Goto, Return, Resolved, BackupSteps, BootstrapSteps
  <2> QED BY <2>1, <2>2
<1>28. CASE NotYetHealthy(c)
  <2>1. call[c].polls + 1 \in 0 .. MaxPolls
    BY <1>28, ConstantsAssumption DEF TypeOK, NotYetHealthy, Call
  <2>2. call' \in [Clients -> Call]
    BY <1>28, <2>1, CallField DEF TypeOK, NotYetHealthy
  <2>3. TypeOK'
    BY <1>28, <2>2 DEF TypeOK, NotYetHealthy, Goto, Steps, BootstrapSteps, UpdateSteps, SharedSteps
  <2>4. LocalsOK'
    BY <1>28 DEF TypeOK, LocalsOK, NotYetHealthy, Goto, Resolved, BackupSteps, BootstrapSteps, Call
  <2> QED BY <2>3, <2>4
<1>29. CASE ListBackups(c)
  <2>1. PICK kept \in SUBSET Backups :
          call' = [call EXCEPT ![c].doomed =
                     {o \in Backups \ kept : backups[o].mtime < call[c].at - Retention}]
    BY <1>29 DEF ListBackups
  <2>2. {o \in Backups \ kept : backups[o].mtime < call[c].at - Retention} \in SUBSET Time
    BY DEF Backups
  <2>3. call' \in [Clients -> Call]
    BY <2>1, <2>2, CallField DEF TypeOK
  <2>4. TypeOK'
    BY <1>29, <2>3 DEF TypeOK, ListBackups, Goto, Steps, BootstrapSteps, UpdateSteps, SharedSteps
  <2>5. LocalsOK'
    BY <1>29 DEF TypeOK, LocalsOK, ListBackups, Goto, Resolved, BackupSteps, BootstrapSteps, Call
  <2> QED BY <2>4, <2>5
<1>32. CASE ListFails(c)
  <2>1. TypeOK'
    BY <1>32 DEF TypeOK, ListFails, Goto, Steps, BootstrapSteps, UpdateSteps, SharedSteps, hubVars, hostVars, fileVars, dockerVars, tmpVars, writeVars
  <2>2. LocalsOK'
    BY <1>32 DEF TypeOK, LocalsOK, ListFails, Goto, Resolved, BackupSteps, BootstrapSteps
  <2> QED BY <2>1, <2>2
<1>30. ASSUME NEW s \in Services, NEW tag \in Tags, NEW digest \in Digests, Resolve(c, s, tag, digest) PROVE ShapeOK'
  <2>1. [tag |-> tag, digest |-> digest] \in Pin
    BY DEF Pin
  <2>2. [call[c].report EXCEPT ![s] = [tag |-> tag, digest |-> digest]] \in [Services -> Pin \cup {None}]
    BY <2>1 DEF TypeOK, Call
  <2>3. call' \in [Clients -> Call]
    BY <1>30, <2>2, CallField DEF TypeOK, Resolve
  <2>4. TypeOK'
    BY <1>30, <2>3 DEF TypeOK, Resolve, Goto, Steps, BootstrapSteps, UpdateSteps, SharedSteps
  <2>5. LocalsOK'
    BY <1>30, <2>2 DEF TypeOK, LocalsOK, Resolve, Goto, Resolved, BackupSteps, BootstrapSteps, Call, Pins
  <2> QED BY <2>4, <2>5
<1>31. ASSUME NEW b \in Time, Collect(c, b) PROVE ShapeOK'
  <2>1. backups' \in [Time -> Backup \cup {None}]
    BY <1>31 DEF TypeOK, Collect
  <2>2. call[c].doomed \ {b} \in SUBSET Time
    BY DEF TypeOK, Call
  <2>3. call' \in [Clients -> Call]
    BY <1>31, <2>2, CallField DEF TypeOK, Collect
  <2>4. TypeOK'
    BY <1>31, <2>1, <2>3 DEF TypeOK, Collect, Goto, Steps, BootstrapSteps, UpdateSteps, SharedSteps
  <2>5. LocalsOK'
    BY <1>31 DEF TypeOK, LocalsOK, Collect, Goto, Resolved, BackupSteps, BootstrapSteps, Call
  <2> QED BY <2>4, <2>5
<1> QED
  BY <1>1, <1>2, <1>3, <1>4, <1>5, <1>6, <1>7, <1>8, <1>9, <1>10, <1>11, <1>12, <1>13, <1>14, <1>15, <1>16, <1>17, <1>18, <1>19, <1>20, <1>21, <1>22, <1>23, <1>24, <1>25, <1>26, <1>27, <1>28, <1>29, <1>30, <1>31, <1>32, <1>33,
     <1>34, <1>35, <1>36, <1>37, <1>38, <1>39, <1>40 DEF Step, Fails

\* Every step keeps the shape.
LEMMA NextShape ==
  ASSUME ShapeOK, [Next]_vars
  PROVE  ShapeOK'
<1>1. CASE UNCHANGED vars
  BY <1>1 DEF vars, hubVars, hostVars, fileVars, dockerVars, tmpVars, writeVars, callVars, ShapeOK, TypeOK, LocalsOK
<1>2. CASE Tick
  BY <1>2, ConstantsAssumption DEF Tick, Time, hubVars, hostVars, fileVars, dockerVars, tmpVars, writeVars, callVars,
     ShapeOK, TypeOK, LocalsOK
<1>3. ASSUME NEW t \in Tags, NEW d \in Digests, Publish(t, d) PROVE ShapeOK'
  <2>1. /\ hub' \in [Tags -> Digests \cup {None}]
        /\ published' \in SUBSET (Tags \X Digests) /\ highest' \in SUBSET Tags
    BY <1>3 DEF Publish, ShapeOK, TypeOK
  <2> QED BY <1>3, <2>1 DEF Publish, hostVars, fileVars, dockerVars, tmpVars, writeVars, callVars, ShapeOK, TypeOK, LocalsOK
<1>4. ASSUME NEW c \in Clients, RefuseUpdate(c) PROVE ShapeOK'
  <2>1. TypeOK'
    BY <1>4, NoCallType DEF RefuseUpdate, Return, Outcomes, hubVars, hostVars, fileVars, dockerVars, tmpVars, writeVars, ShapeOK, TypeOK
  <2>2. LocalsOK'
    BY <1>4 DEF RefuseUpdate, Return, ShapeOK, TypeOK, LocalsOK, Resolved, BackupSteps, BootstrapSteps
  <2> QED BY <2>1, <2>2 DEF ShapeOK
<1>5. ASSUME NEW c \in Clients, Step(c) \/ Fails(c) PROVE ShapeOK'
  BY <1>5, StepShape
<1>6. ASSUME NEW c \in Clients, Begin(c) PROVE ShapeOK'
  BY <1>4, <1>6, StartShape DEF Begin
<1> QED BY <1>1, <1>2, <1>3, <1>5, <1>6 DEF Next, Environment

\* Types hold in every reachable state.
THEOREM TypeCorrect == Spec => []TypeOK
<1>1. Spec => []ShapeOK
  BY InitShape, NextShape, PTL DEF Spec
<1>2. ShapeOK => TypeOK
  BY DEF ShapeOK
<1> QED BY <1>1, <1>2, PTL

-----------------------------------------------------------------------------
(* The state file marks a complete install, every pin on the host was      *)
(* served by the registry, and the state file implements RelayRecord.      *)

\* MarkerLast is inductive together with what a call about to write relies on.
Writing ==
  \A c \in Clients :
    /\ pc[c] \in {"openCompose", "fillCompose", "moveCompose"} /\ call[c].op # "bootstrap" =>
         state # None
    /\ pc[c] \in {"fillCompose", "moveCompose"} => dir
    /\ pc[c] = "writeEnv" => dir /\ compose # None
    /\ pc[c] \in {"openState", "fillState", "moveState"} => dir /\ compose # None /\ env

\* A rollback finds a state file to replace.
SavedInstalled ==
  \A t \in Backups : backups[t].state # None => state # None

\* Provenance is inductive together with what the operators have resolved.
ReportServed ==
  \A c \in Clients, s \in Services :
    call[c].report[s] # None => Served(call[c].report[s].tag, call[c].report[s].digest)

\* So are the pins in a temporary file, which a rename makes those of the host.
TmpServed == StateServed(stateTmp) /\ ComposeServed(composeTmp)

-----------------------------------------------------------------------------
\* The steps that write no file of the install path.
Quiet(c) ==
  \/ Preflight(c) \/ FindInstall(c) \/ FindMarker(c)
  \/ \E s \in Services, tag \in Tags, digest \in Digests : Resolve(c, s, tag, digest)
  \/ NotInstalled(c) \/ LoadState(c) \/ Decide(c) \/ ReportNoop(c) \/ Reload(c) \/ Pull(c) \/ Up(c)
  \/ Healthy(c) \/ NotYetHealthy(c) \/ Unhealthy(c) \/ UndoUp(c) \/ ListBackups(c) \/ ListFails(c)
  \/ Updated(c)
  \/ Fails(c) \/ Begin(c)

\* The steps that write below backups/ only.
BackupStep(c) ==
  \/ MakeBackup(c) \/ SaveCompose(c) \/ KeepCompose(c) \/ SaveState(c) \/ KeepState(c)
  \/ SaveConfig(c) \/ \E b \in Time : Collect(c, b)

\* The steps that write a file of the install path other than the state file.
FileStep(c) ==
  \/ Layout(c) \/ WriteEnv(c)
  \/ OpenCompose(c) \/ FillCompose(c) \/ MoveCompose(c) \/ UndoCompose(c) \/ RefillCompose(c)

\* The steps of the commands that write the state file.
StateStep(c) == OpenState(c) \/ FillState(c) \/ MoveState(c) \/ UndoState(c) \/ RefillState(c)

WriteStep(c) == FileStep(c) \/ StateStep(c)

\* A quiet step changes no file of the host and nothing the hub has served.
LEMMA QuietStep ==
  ASSUME NEW c \in Clients, Quiet(c)
  PROVE  UNCHANGED <<hubVars, fileVars>>
<1>1. CASE Begin(c)
  BY <1>1 DEF Begin, BeginBootstrap, BeginUpdate, RefuseUpdate, hostVars
<1>2. CASE Fails(c)
  BY <1>2 DEF Fails, Crash, ExecFails, ComposeUpFails, hostVars
<1>3. CASE Up(c) \/ UndoUp(c) \/ Pull(c)
  BY <1>3 DEF Up, UndoUp, ComposeUp, Pull
<1>4. CASE Healthy(c) \/ NotYetHealthy(c) \/ Unhealthy(c)
  BY <1>4 DEF Healthy, NotYetHealthy, Unhealthy, hostVars
<1>5. CASE \E s \in Services, tag \in Tags, digest \in Digests : Resolve(c, s, tag, digest)
  BY <1>5 DEF Resolve, hostVars
<1>6. CASE \/ Preflight(c) \/ FindInstall(c) \/ FindMarker(c) \/ NotInstalled(c) \/ LoadState(c)
           \/ Decide(c) \/ ReportNoop(c) \/ Reload(c) \/ ListBackups(c) \/ ListFails(c)
           \/ Updated(c)
  BY <1>6 DEF Preflight, FindInstall, FindMarker, NotInstalled, LoadState, Decide, ReportNoop,
     Reload, ListBackups, ListFails, Updated, hostVars
<1> QED BY <1>1, <1>2, <1>3, <1>4, <1>5, <1>6 DEF Quiet

\* A step below backups/ leaves the files of the install path as they are.
LEMMA BackupOnly ==
  ASSUME NEW c \in Clients, BackupStep(c)
  PROVE  UNCHANGED <<hubVars, dir, compose, env, state, tmpVars>>
BY DEF BackupStep, MakeBackup, SaveCompose, KeepCompose, SaveState, KeepState, SaveConfig, Collect

\* A backup only ever receives copies of the files as they are, or damaged ones.
LEMMA BackupCopies ==
  ASSUME ShapeOK, NEW c \in Clients, BackupStep(c), NEW t \in Time, backups'[t] # None
  PROVE  \/ backups[t] = None /\ backups'[t].state = None /\ backups'[t].compose = None
         \/ /\ backups[t] # None
            /\ backups'[t].compose \in {backups[t].compose, compose} \cup Damaged
            /\ backups'[t].state \in {backups[t].state, state} \cup Damaged
            /\ backups[t].state = None /\ state = None => backups'[t].state = None
<1> USE DEF Damaged
<1>0. /\ backups \in [Time -> Backup \cup {None}] /\ backups[t] \in Backup \cup {None}
      /\ call[c].at \in Time /\ clock \in Time
  BY DEF ShapeOK, TypeOK, Call
<1>1. CASE MakeBackup(c)
  BY <1>0, <1>1 DEF MakeBackup
<1>2. ASSUME SaveCompose(c) \/ KeepCompose(c) \/ SaveState(c) \/ KeepState(c) \/ SaveConfig(c)
      PROVE  call[c].backup \in Time
  BY <1>2 DEF SaveCompose, KeepCompose, SaveState, KeepState, SaveConfig, Goto, Shell, ShapeOK, TypeOK,
     LocalsOK, BackupSteps, Call
<1>3. CASE SaveCompose(c)
  BY <1>0, <1>2, <1>3 DEF SaveCompose, Backup
<1>4. CASE SaveState(c)
  BY <1>0, <1>2, <1>4 DEF SaveState, Backup
<1>5. CASE KeepCompose(c)
  <2>1. CASE UNCHANGED backups
    BY <2>1
  <2>2. CASE ~UNCHANGED backups
    <3>1. PICK kept \in Over(backups[call[c].backup].compose, compose) :
            /\ backups[call[c].backup] # None
            /\ backups' = [backups EXCEPT ![call[c].backup].compose = kept]
      BY <1>5, <2>2 DEF KeepCompose
    <3>2. kept \in {backups[call[c].backup].compose, compose, Torn}
      BY <3>1, OverType
    <3> QED BY <1>0, <1>2, <1>5, <3>1, <3>2 DEF Backup
  <2> QED BY <2>1, <2>2
<1>6. CASE KeepState(c)
  <2>1. CASE UNCHANGED backups
    BY <2>1
  <2>2. CASE ~UNCHANGED backups
    <3>1. PICK kept \in Over(backups[call[c].backup].state, state) :
            /\ backups[call[c].backup] # None
            /\ backups' = [backups EXCEPT ![call[c].backup].state = kept]
      BY <1>6, <2>2 DEF KeepState
    <3>2. /\ kept \in {backups[call[c].backup].state, state, Torn}
          /\ backups[call[c].backup].state = None /\ state = None => kept = None
      BY <3>1, OverType
    <3> QED BY <1>0, <1>2, <1>6, <3>1, <3>2 DEF Backup
  <2> QED BY <2>1, <2>2
<1>7. CASE SaveConfig(c)
  BY <1>0, <1>2, <1>7 DEF SaveConfig, Backup
<1>8. CASE \E b \in Time : Collect(c, b)
  BY <1>0, <1>8 DEF Collect
<1> QED BY <1>1, <1>3, <1>4, <1>5, <1>6, <1>7, <1>8 DEF BackupStep

\* Every step is one of these, or one of the environment.
LEMMA StepKinds ==
  ASSUME Next
  PROVE  \/ Tick
         \/ \E t \in Tags, d \in Digests : Publish(t, d)
         \/ \E c \in Clients : Quiet(c) \/ BackupStep(c) \/ WriteStep(c)
BY DEF Next, Environment, Step, Quiet, BackupStep, WriteStep, FileStep, StateStep

-----------------------------------------------------------------------------
(* MarkerLast *)

\* A call comes to a step that writes through reload or from another writing step.
LEMMA ComesToWrite ==
  ASSUME ShapeOK, NEW c \in Clients, Quiet(c) \/ BackupStep(c), NEW d \in Clients,
         pc'[d] \in {"openCompose", "fillCompose", "moveCompose", "writeEnv",
                     "openState", "fillState", "moveState"}
  PROVE  \/ pc'[d] = pc[d] /\ call'[d].op = call[d].op
         \/ pc'[d] = "openCompose" /\ state # None
<1> USE DEF ShapeOK, TypeOK, Goto, Shell, Return, Start, Call, NoCall
<1>1. CASE Begin(c)
  BY <1>1 DEF Begin, BeginBootstrap, BeginUpdate, RefuseUpdate
<1>2. CASE Fails(c)
  BY <1>2 DEF Fails, Crash, ExecFails, ComposeUpFails
<1>3. CASE Up(c) \/ UndoUp(c) \/ Pull(c)
  BY <1>3 DEF Up, UndoUp, ComposeUp, Pull
<1>4. CASE Healthy(c) \/ Unhealthy(c)
  BY <1>4 DEF Healthy, Unhealthy
<1>5. CASE NotYetHealthy(c)
  BY <1>5 DEF NotYetHealthy
<1>6. CASE \E s \in Services, tag \in Tags, digest \in Digests : Resolve(c, s, tag, digest)
  BY <1>6 DEF Resolve
<1>7. CASE Preflight(c) \/ FindInstall(c) \/ FindMarker(c) \/ NotInstalled(c) \/ ReportNoop(c)
           \/ Reload(c) \/ ListFails(c) \/ Updated(c)
  BY <1>7, NoneAssumption DEF Preflight, FindInstall, FindMarker, NotInstalled, ReportNoop, Reload, ListFails, Updated
<1>8. CASE LoadState(c) \/ Decide(c) \/ ListBackups(c)
  BY <1>8 DEF LoadState, Decide, ListBackups
<1>9. CASE \/ MakeBackup(c) \/ SaveCompose(c) \/ KeepCompose(c) \/ SaveState(c) \/ KeepState(c)
           \/ SaveConfig(c)
  BY <1>9 DEF MakeBackup, SaveCompose, KeepCompose, SaveState, KeepState, SaveConfig
<1>10. CASE \E b \in Time : Collect(c, b)
  BY <1>10 DEF Collect
<1> QED
  BY <1>1, <1>2, <1>3, <1>4, <1>5, <1>6, <1>7, <1>8, <1>9, <1>10 DEF Quiet, BackupStep

\* Only the operator that takes the step moves.
LEMMA GotoPc ==
  ASSUME TypeOK, NEW c \in Clients, NEW from, NEW to, pc[c] = from, pc' = [pc EXCEPT ![c] = to],
         UNCHANGED call
  PROVE  /\ pc[c] = from /\ pc'[c] = to
         /\ \A d \in Clients : pc'[d] = pc[d] \/ (d = c /\ pc'[d] = to)
         /\ \A d \in Clients : call'[d] = call[d]
BY DEF TypeOK

\* A write keeps the marker last: bootstrap writes the state file after .env, and
\* update and rollback write it only over an existing one.
LEMMA WritesMarkerLast ==
  ASSUME ShapeOK, MarkerLast, Writing, SavedInstalled, NEW c \in Clients, WriteStep(c)
  PROVE  MarkerLast' /\ Writing' /\ SavedInstalled'
<1> USE DEF MarkerLast, Writing, SavedInstalled, Backups, Damaged, Goto, Shell
<1>0. TypeOK /\ LocalsOK
  BY DEF ShapeOK
<1>n. None \notin Damaged \cup Pins \cup Compose
  BY NoneAssumption
<1>1. CASE Layout(c)
  <2>1. call[c].op = "bootstrap"
    BY <1>0, <1>1 DEF Layout, LocalsOK, BootstrapSteps
  <2>2. UNCHANGED <<compose, env, state>> /\ dir'
    BY <1>1 DEF Layout
  <2> QED BY <1>0, <1>1, <2>1, <2>2, GotoPc DEF Layout
<1>2. CASE WriteEnv(c)
  BY <1>0, <1>2, GotoPc DEF WriteEnv
<1>3. CASE OpenState(c)
  BY <1>0, <1>3, GotoPc DEF OpenState
<1>4. CASE FillState(c)
  <2>1. call[c].report \in Pins
    BY <1>0, <1>4 DEF FillState, LocalsOK, Resolved
  <2>2. call[c].report # Empty
    BY <2>1, DamagedAssumption
  <2>3. state' = state \/ state' # None
    BY <1>4, <1>n, <2>1, <2>2, OverType DEF FillState, Into
  <2>4. UNCHANGED <<dir, compose, env, backups, call>>
    BY <1>4 DEF FillState
  <2>5. dir /\ compose # None /\ env
    BY <1>4 DEF FillState
  <2>6. pc[c] = "fillState" /\ pc' = [pc EXCEPT ![c] = "moveState"]
    BY <1>4 DEF FillState
  <2> QED BY <1>0, <2>3, <2>4, <2>5, <2>6, GotoPc
<1>5. CASE MoveState(c)
  BY <1>0, <1>5, GotoPc DEF MoveState
<1>6. CASE OpenCompose(c)
  BY <1>0, <1>6, GotoPc DEF OpenCompose
<1>7. CASE FillCompose(c)
  <2>1. call[c].report \in Pins /\ call[c].template \in Tags
    BY <1>0, <1>7 DEF FillCompose, LocalsOK, Resolved, TypeOK, Call
  <2>2. PICK content : content = Render(call[c].template, call[c].report)
    OBVIOUS
  <2>3. content \in Compose
    BY <2>1, <2>2 DEF Render, Compose, Pins, Pin
  <2>4. content # Empty
    BY <2>3, DamagedAssumption
  <2>5. compose' = compose \/ compose' # None
    BY <1>7, <1>n, <2>2, <2>3, <2>4, OverType DEF FillCompose, Into
  <2>6. UNCHANGED <<dir, env, state, backups, call>>
    BY <1>7 DEF FillCompose
  <2>7. pc[c] = "fillCompose" /\ pc' = [pc EXCEPT ![c] = "moveCompose"]
    BY <1>7 DEF FillCompose
  <2> QED BY <1>0, <2>5, <2>6, <2>7, GotoPc
<1>8. CASE MoveCompose(c)
  <2>1. /\ UNCHANGED <<dir, env, state, backups, call>> /\ compose' # None
        /\ pc[c] = "moveCompose"
        /\ pc' = [pc EXCEPT ![c] = IF call[c].op = "bootstrap" THEN "writeEnv" ELSE "openState"]
    BY <1>8 DEF MoveCompose
  <2>2. composeTmp # None /\ (call[c].op # "bootstrap" => state # None)
    BY <1>8 DEF MoveCompose
  <2> QED BY <1>0, <2>1, <2>2, GotoPc
<1>9. CASE UndoCompose(c)
  BY <1>0, <1>9, <1>n, GotoPc DEF UndoCompose
<1>10. CASE RefillCompose(c)
  <2>1. compose' = compose \/ compose' # None
    BY <1>10, <1>n, OverType DEF RefillCompose, Into
  <2>2. UNCHANGED <<dir, env, state, backups, call>>
    BY <1>10 DEF RefillCompose
  <2>3. pc[c] = "refillCompose" /\ pc' = [pc EXCEPT ![c] = "undoState"]
    BY <1>10 DEF RefillCompose
  <2> QED BY <1>0, <2>1, <2>2, <2>3, GotoPc
<1>11. ASSUME UndoState(c) \/ RefillState(c) PROVE state # None
  <2>1. call[c].backup \in Time
    BY <1>0, <1>11 DEF UndoState, RefillState, TypeOK, LocalsOK, BackupSteps, Call
  <2> QED BY <1>11, <2>1 DEF UndoState, RefillState
<1>12. CASE UndoState(c)
  BY <1>0, <1>11, <1>12, <1>n, GotoPc DEF UndoState
<1>13. CASE RefillState(c)
  <2>1. state' # None
    BY <1>11, <1>13, <1>n, OverType DEF RefillState, Into
  <2>2. UNCHANGED <<dir, compose, env, backups, call>>
    BY <1>13 DEF RefillState
  <2>3. pc[c] = "refillState" /\ pc' = [pc EXCEPT ![c] = "undoUp"]
    BY <1>13 DEF RefillState
  <2> QED BY <1>0, <1>11, <1>13, <2>1, <2>2, <2>3, GotoPc
<1> QED
  BY <1>1, <1>2, <1>3, <1>4, <1>5, <1>6, <1>7, <1>8, <1>9, <1>10, <1>12, <1>13
     DEF WriteStep, FileStep, StateStep

\* Every step keeps the marker last.
LEMMA NextMarker ==
  ASSUME ShapeOK, MarkerLast, Writing, SavedInstalled, [Next]_vars
  PROVE  MarkerLast' /\ Writing' /\ SavedInstalled'
<1>1. CASE UNCHANGED vars \/ Tick \/ \E t \in Tags, d \in Digests : Publish(t, d)
  BY <1>1 DEF Tick, Publish, vars, hostVars, fileVars, callVars, MarkerLast, Writing, SavedInstalled,
     Backups
<1>2. ASSUME NEW c \in Clients, Quiet(c) \/ BackupStep(c)
      PROVE  MarkerLast' /\ Writing' /\ SavedInstalled'
  <2>1. UNCHANGED <<dir, compose, env, state>>
    BY <1>2, QuietStep, BackupOnly DEF fileVars
  <2>2. Writing'
    BY <1>2, <2>1, ComesToWrite DEF Writing
  <2>3. SavedInstalled'
    <3>1. CASE Quiet(c)
      BY <2>1, <3>1, QuietStep DEF SavedInstalled, Backups, fileVars
    <3>2. CASE BackupStep(c)
      BY <2>1, <3>2, BackupCopies DEF SavedInstalled, Backups
    <3> QED BY <1>2, <3>1, <3>2
  <2> QED BY <2>1, <2>2, <2>3 DEF MarkerLast
<1> QED BY <1>1, <1>2, WritesMarkerLast, StepKinds

\* A state file is only ever present beside the directory, the compose file and
\* .env, whatever crashes and however the operators' commands interleave.
THEOREM MarkerCorrect == Spec => []MarkerLast
<1>1. Init => MarkerLast /\ Writing /\ SavedInstalled
  BY DEF Init, MarkerLast, Writing, SavedInstalled, Backups
<1>2. Spec => [](ShapeOK /\ MarkerLast /\ Writing /\ SavedInstalled)
  BY <1>1, InitShape, NextShape, NextMarker, PTL DEF Spec
<1> QED BY <1>2, PTL

-----------------------------------------------------------------------------
(* Provenance *)

\* A write changes neither the hub nor the locals of a call nor the backups.
LEMMA WriteOnly ==
  ASSUME NEW c \in Clients, WriteStep(c)
  PROVE  UNCHANGED <<hubVars, call, backups>>
BY DEF WriteStep, FileStep, StateStep, Layout, WriteEnv, OpenCompose, FillCompose, MoveCompose,
   UndoCompose, RefillCompose, OpenState, FillState, MoveState, UndoState, RefillState

\* A report only ever receives what the hub has served for a tag.
LEMMA ReportComesFromHub ==
  ASSUME ShapeOK, NEW c \in Clients, Quiet(c) \/ BackupStep(c) \/ WriteStep(c),
         NEW d \in Clients, NEW z \in Services, call'[d].report[z] # None
  PROVE  \/ call[d].report[z] # None /\ call'[d].report[z] = call[d].report[z]
         \/ \E tag \in Tags, digest \in Digests :
              Served(tag, digest) /\ call'[d].report[z] = [tag |-> tag, digest |-> digest]
<1>0. call \in [Clients -> Call] /\ call[d].report \in [Services -> Pin \cup {None}]
  BY DEF ShapeOK, TypeOK, Call
<1>1. CASE \E s \in Services, tag \in Tags, digest \in Digests : Resolve(c, s, tag, digest)
  BY <1>0, <1>1 DEF Resolve, Served
<1>2. CASE Begin(c)
  BY <1>0, <1>2 DEF Begin, BeginBootstrap, BeginUpdate, RefuseUpdate, Start, Return, NewCall, NoCall
<1>3. CASE Fails(c)
  BY <1>0, <1>3 DEF Fails, Crash, ExecFails, ComposeUpFails, Return, NoCall
<1>4. CASE \/ FindMarker(c) \/ NotInstalled(c) \/ ReportNoop(c) \/ Updated(c) \/ Healthy(c)
           \/ Unhealthy(c)
  BY <1>0, <1>4 DEF FindMarker, NotInstalled, ReportNoop, Updated, Healthy, Unhealthy, Return, NoCall
<1>5. CASE LoadState(c) \/ Decide(c) \/ MakeBackup(c) \/ Up(c) \/ UndoUp(c) \/ NotYetHealthy(c)
           \/ ListBackups(c) \/ \E b \in Time : Collect(c, b)
  <2>1. \E v : \/ call' = [call EXCEPT ![c].seen = v] \/ call' = [call EXCEPT ![c].at = v]
               \/ call' = [call EXCEPT ![c].backup = v] \/ call' = [call EXCEPT ![c].polls = v]
               \/ call' = [call EXCEPT ![c].doomed = v]
    <3>1. CASE LoadState(c)
      BY <3>1, Zenon DEF LoadState
    <3>2. CASE Decide(c)
      BY <3>2, Zenon DEF Decide
    <3>3. CASE MakeBackup(c)
      BY <3>3, Zenon DEF MakeBackup
    <3>4. CASE Up(c) \/ UndoUp(c)
      BY <3>4, Zenon DEF Up, UndoUp, ComposeUp
    <3>5. CASE NotYetHealthy(c)
      BY <3>5, Zenon DEF NotYetHealthy
    <3>6. CASE ListBackups(c)
      BY <3>6, Zenon DEF ListBackups
    <3>7. CASE \E b \in Time : Collect(c, b)
      BY <3>7, Zenon DEF Collect
    <3> QED BY <1>5, <3>1, <3>2, <3>3, <3>4, <3>5, <3>6, <3>7
  <2>2. PICK v : \/ call' = [call EXCEPT ![c].seen = v] \/ call' = [call EXCEPT ![c].at = v]
                 \/ call' = [call EXCEPT ![c].backup = v] \/ call' = [call EXCEPT ![c].polls = v]
                 \/ call' = [call EXCEPT ![c].doomed = v]
    BY <2>1, Zenon
  <2>3. \/ call' = [call EXCEPT ![c] = [call[c] EXCEPT !.seen = v]]
        \/ call' = [call EXCEPT ![c] = [call[c] EXCEPT !.at = v]]
        \/ call' = [call EXCEPT ![c] = [call[c] EXCEPT !.backup = v]]
        \/ call' = [call EXCEPT ![c] = [call[c] EXCEPT !.polls = v]]
        \/ call' = [call EXCEPT ![c] = [call[c] EXCEPT !.doomed = v]]
    BY <2>2, Zenon
  <2> HIDE <2>2
  <2>4. call'[d].report = call[d].report
    BY <1>0, <2>3 DEF Call
  <2> QED BY <2>4
<1>6. CASE \/ Preflight(c) \/ FindInstall(c) \/ Reload(c) \/ Pull(c) \/ ListFails(c)
           \/ SaveCompose(c) \/ KeepCompose(c) \/ SaveState(c) \/ KeepState(c) \/ SaveConfig(c)
           \/ WriteStep(c)
  BY <1>0, <1>6, WriteOnly DEF Preflight, FindInstall, Reload, Pull, ListFails, SaveCompose, KeepCompose,
     SaveState, KeepState, SaveConfig
<1> QED BY <1>1, <1>2, <1>3, <1>4, <1>5, <1>6 DEF Quiet, BackupStep

\* Everything the hub ever served stays served.
LEMMA PublishProvenance ==
  ASSUME ShapeOK, ReportServed, Provenance, TmpServed,
         NEW t \in Tags, NEW d \in Digests, Publish(t, d)
  PROVE  ReportServed' /\ Provenance' /\ TmpServed'
<1>1. published' = published \cup {<<t, d>>}
  BY DEF Publish
<1>2. UNCHANGED <<compose, state, composeTmp, stateTmp, backups, call>>
  BY DEF Publish, hostVars, fileVars, tmpVars, callVars
<1>3. ReportServed'
  BY <1>1, <1>2 DEF ReportServed, Served
<1>4. Provenance' /\ TmpServed'
  BY <1>1, <1>2 DEF Provenance, TmpServed, StateServed, ComposeServed, AllServed, Served, Backups
<1> QED BY <1>3, <1>4

\* An operator's step writes only digests the hub has served.
LEMMA CallProvenance ==
  ASSUME ShapeOK, ReportServed, Provenance, TmpServed,
         NEW c \in Clients, Quiet(c) \/ BackupStep(c) \/ WriteStep(c)
  PROVE  ReportServed' /\ Provenance' /\ TmpServed'
<1>0. UNCHANGED hubVars
  BY QuietStep, BackupOnly, WriteOnly
<1>1. published' = published
  BY <1>0 DEF hubVars
<1>2. ReportServed'
  <2> SUFFICES ASSUME NEW d \in Clients, NEW s \in Services, call'[d].report[s] # None
               PROVE  Served(call'[d].report[s].tag, call'[d].report[s].digest)
    BY <1>1 DEF ReportServed, Served
  <2> USE DEF Served
  <2>1. CASE call[d].report[s] # None /\ call'[d].report[s] = call[d].report[s]
    BY <1>1, <2>1 DEF ReportServed
  <2>2. ASSUME NEW tag \in Tags, NEW digest \in Digests, Served(tag, digest),
               call'[d].report[s] = [tag |-> tag, digest |-> digest]
        PROVE  Served(call'[d].report[s].tag, call'[d].report[s].digest)
    BY <1>1, <2>2
  <2>3. \/ call[d].report[s] # None /\ call'[d].report[s] = call[d].report[s]
        \/ \E tag \in Tags, digest \in Digests :
             Served(tag, digest) /\ call'[d].report[s] = [tag |-> tag, digest |-> digest]
    BY ReportComesFromHub, Zenon
  <2> QED BY <2>1, <2>2, <2>3
<1>3. /\ \A file : StateServed(file) => StateServed(file)'
      /\ \A file : ComposeServed(file) => ComposeServed(file)'
  BY <1>1 DEF StateServed, ComposeServed, AllServed, Served
<1>4. \A file \in Damaged : StateServed(file) /\ ComposeServed(file)
  BY DamagedAssumption DEF StateServed, ComposeServed
<1> SUFFICES Provenance' /\ TmpServed'
  BY <1>2
<1>q. CASE Quiet(c)
  BY <1>1, <1>q, QuietStep DEF Provenance, TmpServed, StateServed, ComposeServed, AllServed, Served,
     Backups, fileVars, tmpVars
<1>b. CASE BackupStep(c)
  <2>1. UNCHANGED <<compose, state, composeTmp, stateTmp>>
    BY <1>b, BackupOnly DEF tmpVars
  <2>2. ASSUME NEW t \in Backups' PROVE StateServed(backups'[t].state) /\ ComposeServed(backups'[t].compose)
    <3>1. None \notin Pins \cup Compose
      BY NoneAssumption
    <3>2. \/ backups[t] = None /\ backups'[t].state = None /\ backups'[t].compose = None
          \/ /\ backups[t] # None
             /\ backups'[t].compose \in {backups[t].compose, compose} \cup Damaged
             /\ backups'[t].state \in {backups[t].state, state} \cup Damaged
      BY <1>b, BackupCopies DEF Backups
    <3>3. CASE backups[t] = None
      BY <3>1, <3>2, <3>3 DEF StateServed, ComposeServed
    <3>4. CASE backups[t] # None
      <4>1. StateServed(backups[t].state) /\ ComposeServed(backups[t].compose)
            /\ StateServed(state) /\ ComposeServed(compose)
        BY <3>4 DEF Provenance, Backups
      <4> QED BY <1>4, <3>2, <3>4, <4>1
    <3> QED BY <3>3, <3>4
  <2> QED BY <1>1, <2>1, <2>2 DEF Provenance, TmpServed, StateServed, ComposeServed, AllServed, Served
<1>w. CASE WriteStep(c)
  <2>0. backups' = backups
    BY <1>w, WriteOnly
  <2> SUFFICES /\ StateServed(state') /\ ComposeServed(compose')
               /\ StateServed(stateTmp') /\ ComposeServed(composeTmp')
    BY <1>1, <2>0 DEF Provenance, TmpServed, StateServed, ComposeServed, AllServed, Served, Backups
  <2>1. /\ StateServed(state) /\ ComposeServed(compose)
        /\ StateServed(stateTmp) /\ ComposeServed(composeTmp)
    BY DEF Provenance, TmpServed
  <2>2. StateServed(Empty) /\ ComposeServed(Empty) /\ StateServed(Torn) /\ ComposeServed(Torn)
    BY <1>4 DEF Damaged
  <2>3. StateServed(None) /\ ComposeServed(None)
    BY NoneAssumption DEF StateServed, ComposeServed
  <2>4. CASE \/ Layout(c) \/ WriteEnv(c) \/ OpenCompose(c) \/ MoveCompose(c) \/ UndoCompose(c)
             \/ OpenState(c) \/ MoveState(c) \/ UndoState(c)
    BY <2>1, <2>2, <2>3, <2>4 DEF Layout, WriteEnv, OpenCompose, MoveCompose, UndoCompose, OpenState,
       MoveState, UndoState, tmpVars
  <2>5. CASE FillCompose(c) \/ FillState(c)
    <3>1. call[c].report \in Pins /\ \A s \in Services : call[c].report[s] # None
      BY <2>5, NoneAssumption
         DEF FillCompose, FillState, Shell, ShapeOK, LocalsOK, Resolved, Pins
    <3>2. PICK content : content = Render(call[c].template, call[c].report)
      OBVIOUS
    <3>3. ComposeServed(content)
      BY <3>1, <3>2 DEF Render, ReportServed, ComposeServed
    <3>4. StateServed(call[c].report)
      BY <3>1 DEF StateServed, AllServed, ReportServed
    <3>5. CASE FillCompose(c)
      <4>1. /\ compose' \in {compose, content, Torn} /\ composeTmp' \in {composeTmp, content, Torn}
            /\ UNCHANGED <<state, stateTmp>>
        BY <3>2, <3>5, OverType DEF FillCompose, Into
      <4> QED BY <2>1, <2>2, <3>3, <4>1
    <3>6. CASE FillState(c)
      <4>1. /\ state' \in {state, call[c].report, Torn} /\ stateTmp' \in {stateTmp, call[c].report, Torn}
            /\ UNCHANGED <<compose, composeTmp>>
        BY <3>6, OverType DEF FillState, Into
      <4> QED BY <2>1, <2>2, <3>4, <4>1
    <3> QED BY <2>5, <3>5, <3>6
  <2>6. CASE RefillCompose(c) \/ RefillState(c)
    <3>1. call[c].backup \in Time
      BY <2>6 DEF RefillCompose, RefillState, Shell, ShapeOK, TypeOK, LocalsOK, BackupSteps, Call
    <3>2. call[c].backup \in Backups
      BY <2>6, <3>1 DEF RefillCompose, RefillState, Backups
    <3>3. /\ StateServed(backups[call[c].backup].state)
          /\ ComposeServed(backups[call[c].backup].compose)
      BY <3>2 DEF Provenance
    <3>4. /\ state' \in {state, backups[call[c].backup].state, Torn}
          /\ compose' \in {compose, backups[call[c].backup].compose, Torn}
          /\ UNCHANGED <<stateTmp, composeTmp>>
      BY <2>6, OverType DEF RefillCompose, RefillState, Into, tmpVars
    <3> QED BY <2>1, <2>2, <3>3, <3>4
  <2> QED BY <1>w, <2>4, <2>5, <2>6 DEF WriteStep, FileStep, StateStep
<1> QED BY <1>q, <1>b, <1>w

\* Every step keeps the provenance of the pins.
LEMMA NextProvenance ==
  ASSUME ShapeOK, ReportServed, Provenance, TmpServed, [Next]_vars
  PROVE  ReportServed' /\ Provenance' /\ TmpServed'
<1>1. CASE UNCHANGED vars \/ Tick
  BY <1>1 DEF Tick, vars, hubVars, hostVars, fileVars, tmpVars, callVars, ReportServed, Provenance,
     TmpServed, StateServed, ComposeServed, AllServed, Served, Backups
<1> QED BY <1>1, PublishProvenance, CallProvenance, StepKinds

\* Before the hub has served anything no file holds a pin.
LEMMA InitProvenance == Init => ReportServed /\ Provenance /\ TmpServed
BY NoneAssumption
   DEF Init, ReportServed, Provenance, TmpServed, StateServed, ComposeServed, Backups, NoCall

\* No crash, rollback or interleaving makes up a digest: every pin on the host
\* was once served by the registry for its tag.
THEOREM ProvenanceCorrect == Spec => []Provenance
<1>1. Spec => [](ShapeOK /\ ReportServed /\ Provenance /\ TmpServed)
  BY InitProvenance, InitShape, NextShape, NextProvenance, PTL DEF Spec
<1> QED BY <1>1, PTL

-----------------------------------------------------------------------------
(* The state file implements RelayRecord. *)

Log == {backups[t].state : t \in Backups} \ {None}

WritingNow   == {c \in Clients : pc[c] \in {"fillState", "moveState"}}
RestoringNow == {c \in Clients : pc[c] = "refillState"}

\* An operator whose command on the state file no other has overlapped has the file
\* it opened under the name it opened, with nothing in it that is not its own.
AloneOK ==
  \A c \in alone :
    /\ c \in Rewriting
    /\ \A d \in Rewriting : d = c
    /\ pc[c] = "fillState" => fd[c] = "tmp" /\ stateTmp = Empty
    /\ pc[c] = "moveState" => stateTmp \in Pins
    /\ pc[c] = "refillState" => fd[c] = "path" /\ state = Empty

\* Steps of an operator other than those of its commands on the state file leave
\* what an operator alone with it relies on, and end its own such command.
LEMMA AsideStep ==
  ASSUME ShapeOK, NEW c \in Clients, Quiet(c) \/ BackupStep(c) \/ FileStep(c)
  PROVE  /\ UNCHANGED <<state, stateTmp, published>>
         /\ pc'[c] \notin {"fillState", "moveState", "refillState"}
         /\ \A d \in Clients : d # c => pc'[d] = pc[d]
         /\ \A d \in Clients : d # c /\ d \in Rewriting => fd'[d] = fd[d]
         /\ alone' \in {alone, alone \ {c}}
         /\ c \in Rewriting => alone' = alone \ {c} /\ UNCHANGED backups
<1> USE DEF Goto, Shell, Return, Start, Rewriting, ShapeOK, TypeOK, writeVars, tmpVars, hubVars, hostVars,
            fileVars
<1>1. CASE Begin(c)
  BY <1>1 DEF Begin, BeginBootstrap, BeginUpdate, RefuseUpdate
<1>2. CASE Fails(c)
  BY <1>2 DEF Fails, Crash, ExecFails, ComposeUpFails
<1>3. CASE Up(c) \/ UndoUp(c) \/ Pull(c)
  BY <1>3 DEF Up, UndoUp, ComposeUp, Pull
<1>4. CASE Healthy(c) \/ Unhealthy(c)
  BY <1>4 DEF Healthy, Unhealthy
<1>5. CASE NotYetHealthy(c)
  BY <1>5 DEF NotYetHealthy
<1>6. CASE \E s \in Services, tag \in Tags, digest \in Digests : Resolve(c, s, tag, digest)
  BY <1>6 DEF Resolve
<1>7. CASE Preflight(c) \/ FindInstall(c) \/ FindMarker(c) \/ NotInstalled(c) \/ ReportNoop(c)
           \/ Reload(c) \/ ListFails(c) \/ Updated(c)
  BY <1>7 DEF Preflight, FindInstall, FindMarker, NotInstalled, ReportNoop, Reload, ListFails, Updated
<1>8. CASE LoadState(c) \/ Decide(c) \/ ListBackups(c)
  BY <1>8 DEF LoadState, Decide, ListBackups
<1>9. CASE \/ MakeBackup(c) \/ SaveCompose(c) \/ KeepCompose(c) \/ SaveState(c) \/ KeepState(c)
           \/ SaveConfig(c)
  BY <1>9 DEF MakeBackup, SaveCompose, KeepCompose, SaveState, KeepState, SaveConfig
<1>10. CASE \E b \in Time : Collect(c, b)
  BY <1>10 DEF Collect
<1>11. CASE Layout(c) \/ WriteEnv(c) \/ OpenCompose(c) \/ FillCompose(c) \/ UndoCompose(c)
            \/ RefillCompose(c)
  BY <1>11 DEF Layout, WriteEnv, OpenCompose, FillCompose, UndoCompose, RefillCompose
<1>12. CASE MoveCompose(c)
  BY <1>12 DEF MoveCompose, Renamed
<1> QED
  BY <1>1, <1>2, <1>3, <1>4, <1>5, <1>6, <1>7, <1>8, <1>9, <1>10, <1>11, <1>12
     DEF Quiet, BackupStep, FileStep

\* Every step keeps what an operator alone relies on.
LEMMA NextAlone ==
  ASSUME ShapeOK, AloneOK, [Next]_vars
  PROVE  AloneOK'
<1> USE DEF AloneOK, Rewriting
<1>0. alone \subseteq Clients /\ pc \in [Clients -> Steps \cup {"idle"}]
      /\ fd \in [Clients -> {"none", "tmp", "path", "gone"}]
  BY DEF ShapeOK, TypeOK
<1>1. CASE UNCHANGED vars \/ Tick \/ \E t \in Tags, d \in Digests : Publish(t, d)
  <2>1. UNCHANGED <<pc, fd, alone, state, stateTmp>>
    BY <1>1 DEF Tick, Publish, vars, hostVars, fileVars, tmpVars, callVars, writeVars
  <2> QED BY <2>1
<1>2. ASSUME NEW c \in Clients, Quiet(c) \/ BackupStep(c) \/ FileStep(c) PROVE AloneOK'
  <2>1. /\ UNCHANGED <<state, stateTmp>>
        /\ pc'[c] \notin {"fillState", "moveState", "refillState"}
        /\ \A d \in Clients : d # c => pc'[d] = pc[d]
        /\ \A d \in Clients : d # c /\ d \in Rewriting => fd'[d] = fd[d]
        /\ alone' \in {alone, alone \ {c}}
        /\ c \in Rewriting => alone' = alone \ {c}
    BY <1>2, AsideStep
  <2> QED BY <1>0, <2>1
<1>3. ASSUME NEW c \in Clients, StateStep(c) PROVE AloneOK'
  <2> USE DEF Shell
  <2>1. CASE OpenState(c)
    BY <1>0, <2>1 DEF OpenState
  <2>2. CASE UndoState(c)
    BY <1>0, <2>2 DEF UndoState
  <2>3. CASE FillState(c)
    <3>1. call[c].report \in Pins
      BY <2>3 DEF FillState, ShapeOK, LocalsOK, Resolved
    <3>2. c \in alone => stateTmp' = call[c].report
      BY <2>3, OverType DEF FillState, Into
    <3>3. pc[c] = "fillState" /\ pc' = [pc EXCEPT ![c] = "moveState"] /\ alone' = alone
      BY <2>3 DEF FillState
    <3>4. c \in Rewriting
      BY <3>3
    <3> QED BY <1>0, <3>1, <3>2, <3>3, <3>4
  <2>4. CASE MoveState(c) \/ RefillState(c)
    <3>1. /\ c \in Rewriting /\ alone' = alone \ {c}
          /\ \A d \in Clients : d # c => pc'[d] = pc[d]
      BY <1>0, <2>4 DEF MoveState, RefillState
    <3>2. alone' = {}
      BY <3>1
    <3> QED BY <3>2
  <2> QED BY <1>3, <2>1, <2>2, <2>3, <2>4 DEF StateStep
<1> QED BY <1>1, <1>2, <1>3, StepKinds DEF WriteStep

\* A host without an install is an empty record with an empty log.
LEMMA InitRefines == Init => Record!Init
BY DEF Init, Record!Init, Backups

\* A command that fails on the state file abandons its write.
LEMMA AbandonRefines ==
  ASSUME ShapeOK, NEW c \in Clients, c \in Rewriting, Quiet(c) \/ BackupStep(c) \/ FileStep(c)
  PROVE  Record!Next
<1>1. /\ UNCHANGED <<state, published, backups>> /\ alone' = alone \ {c}
      /\ pc'[c] \notin {"fillState", "moveState", "refillState"}
      /\ \A d \in Clients : d # c => pc'[d] = pc[d]
  BY AsideStep
<1>2. WritingNow' = WritingNow \ {c} /\ RestoringNow' = RestoringNow \ {c}
  BY <1>1 DEF WritingNow, RestoringNow
<1>3. Log' = Log
  BY <1>1 DEF Log, Backups
<1>4. Record!Abandon(c)
  BY <1>1, <1>2, <1>3 DEF Record!Abandon, WritingNow, RestoringNow, Log
<1> QED BY <1>4 DEF Record!Next, Record!Operate

\* Any other step away from the state file adds to the log at most a copy of it.
LEMMA LogRefines ==
  ASSUME ShapeOK, AloneOK, NEW c \in Clients, c \notin Rewriting,
         Quiet(c) \/ BackupStep(c) \/ FileStep(c)
  PROVE  Record!Next
<1>1. /\ UNCHANGED <<state, published>> /\ alone' \in {alone, alone \ {c}}
      /\ pc'[c] \notin {"fillState", "moveState", "refillState"}
      /\ \A d \in Clients : d # c => pc'[d] = pc[d]
  BY AsideStep
<1>2. alone' = alone
  BY <1>1 DEF AloneOK
<1>3. WritingNow' = WritingNow /\ RestoringNow' = RestoringNow
  BY <1>1 DEF WritingNow, RestoringNow, Rewriting
<1>4. Log' \subseteq Log \cup Damaged \cup ({state} \ {None})
  <2>1. CASE UNCHANGED backups
    BY <2>1 DEF Log, Backups
  <2>2. CASE BackupStep(c)
    BY <2>2, BackupCopies DEF Log, Backups
  <2>3. Quiet(c) \/ FileStep(c) => UNCHANGED backups
    BY QuietStep, WriteOnly DEF fileVars, WriteStep
  <2> QED BY <2>1, <2>2, <2>3
<1>5. Record!Log
  BY <1>1, <1>2, <1>3, <1>4 DEF Record!Log, Record!Damaged, Damaged, WritingNow, RestoringNow, Log
<1> QED BY <1>5 DEF Record!Next

\* The steps of write_file on the state file are those of a write of the record.
LEMMA WriteRefines ==
  ASSUME ShapeOK, ReportServed, TmpServed, AloneOK, NEW c \in Clients,
         OpenState(c) \/ FillState(c) \/ MoveState(c)
  PROVE  [Record!Next]_(Record!vars)
<1>0. /\ UNCHANGED <<published, backups>> /\ pc \in [Clients -> Steps \cup {"idle"}]
  BY DEF OpenState, FillState, MoveState, hubVars, ShapeOK, TypeOK
<1>1. Log' = Log
  BY <1>0 DEF Log, Backups
<1>2. ASSUME NEW file \in Pins, StateServed(file) PROVE file \in Record!ServedPins
  BY <1>2 DEF StateServed, AllServed, Served, Record!ServedPins, Pins, Pin
<1>3. CASE OpenState(c)
  <2>1. /\ pc[c] = "openState" /\ pc' = [pc EXCEPT ![c] = "fillState"] /\ state' = state
        /\ alone' = IF Rewriting = {} THEN {c} ELSE {}
    BY <1>3 DEF OpenState, Shell
  <2>2. WritingNow' = WritingNow \cup {c} /\ RestoringNow' = RestoringNow
    BY <1>0, <2>1 DEF WritingNow, RestoringNow
  <2>3. Rewriting = WritingNow \cup RestoringNow
    BY DEF Rewriting, WritingNow, RestoringNow
  <2>4. Record!BeginWrite(c)
    BY <1>0, <1>1, <2>1, <2>2, <2>3
       DEF Record!BeginWrite, Record!Begins, WritingNow, RestoringNow, Log
  <2> QED BY <2>4 DEF Record!Next, Record!Operate
<1>4. CASE FillState(c)
  <2>1. /\ pc[c] = "fillState" /\ pc' = [pc EXCEPT ![c] = "moveState"] /\ alone' = alone
    BY <1>4 DEF FillState, Shell
  <2>2. WritingNow' = WritingNow /\ RestoringNow' = RestoringNow /\ c \in WritingNow
    BY <1>0, <2>1 DEF WritingNow, RestoringNow
  <2>3. call[c].report \in Pins /\ \A s \in Services : call[c].report[s] # None
    BY <2>1, NoneAssumption DEF ShapeOK, LocalsOK, Resolved, Pins
  <2>4. call[c].report \in Record!ServedPins /\ call[c].report # Empty
    BY <1>2, <2>3, DamagedAssumption DEF Damaged, ReportServed, StateServed, AllServed
  <2>5. CASE state' = state
    BY <1>0, <1>1, <2>1, <2>2, <2>5 DEF Record!vars, WritingNow, RestoringNow, Log
  <2>6. CASE state' # state
    <3>1. fd[c] = "path" /\ state' \in {call[c].report, Torn}
      BY <1>4, <2>4, <2>6, OverType DEF FillState, Into
    <3>2. c \notin alone
      BY <2>1, <3>1 DEF AloneOK
    <3>3. Record!Spill(c)
      BY <1>0, <1>1, <2>1, <2>2, <2>4, <3>1, <3>2
         DEF Record!Spill, Record!Damaged, WritingNow, RestoringNow, Log
    <3> QED BY <3>3 DEF Record!Next, Record!Operate
  <2> QED BY <2>5, <2>6
<1>5. CASE MoveState(c)
  <2>1. /\ pc[c] = "moveState" /\ alone' = alone \ {c} /\ state' = stateTmp /\ stateTmp # None
        /\ pc' = [pc EXCEPT ![c] = IF call[c].op = "bootstrap" THEN "up" ELSE "pull"]
    BY <1>5 DEF MoveState
  <2>2. WritingNow' = WritingNow \ {c} /\ RestoringNow' = RestoringNow /\ c \in WritingNow
    BY <1>0, <2>1 DEF WritingNow, RestoringNow
  <2>3. stateTmp \in Pins \/ (c \notin alone /\ stateTmp \in Damaged)
    <3>1. stateTmp \in Pins \cup Damaged
      BY <2>1 DEF ShapeOK, TypeOK, StateFile
    <3>2. c \in alone => stateTmp \in Pins
      BY <2>1 DEF AloneOK
    <3> QED BY <3>1, <3>2
  <2>4. state' \in IF c \in alone THEN Record!ServedPins ELSE Record!ServedPins \cup Record!Damaged
    BY <1>2, <2>1, <2>3 DEF TmpServed, Record!Damaged, Damaged
  <2>5. Record!EndWrite(c)
    BY <1>0, <1>1, <2>1, <2>2, <2>4 DEF Record!EndWrite, WritingNow, RestoringNow, Log
  <2> QED BY <2>5 DEF Record!Next, Record!Operate
<1> QED BY <1>3, <1>4, <1>5

\* Those of cp -a from a backup are those of a restore.
LEMMA RestoreRefines ==
  ASSUME ShapeOK, AloneOK, NEW c \in Clients, UndoState(c) \/ RefillState(c)
  PROVE  Record!Next
<1>0. /\ UNCHANGED <<published, backups>> /\ pc \in [Clients -> Steps \cup {"idle"}]
  BY DEF UndoState, RefillState, hubVars, ShapeOK, TypeOK
<1>1. Log' = Log
  BY <1>0 DEF Log, Backups
<1>2. call[c].backup \in Time
  BY DEF UndoState, RefillState, Shell, ShapeOK, TypeOK, LocalsOK, BackupSteps, Call
<1>3. backups[call[c].backup].state \in Log
  BY <1>2 DEF UndoState, RefillState, Log, Backups
<1>4. CASE UndoState(c)
  <2>1. /\ pc[c] = "undoState" /\ pc' = [pc EXCEPT ![c] = "refillState"] /\ state' = Empty
        /\ alone' = IF Rewriting = {} THEN {c} ELSE {}
    BY <1>4 DEF UndoState, Shell
  <2>2. WritingNow' = WritingNow /\ RestoringNow' = RestoringNow \cup {c}
    BY <1>0, <2>1 DEF WritingNow, RestoringNow
  <2>3. Rewriting = WritingNow \cup RestoringNow
    BY DEF Rewriting, WritingNow, RestoringNow
  <2>4. Record!BeginRestore(c)
    BY <1>0, <1>1, <1>3, <2>1, <2>2, <2>3
       DEF Record!BeginRestore, Record!Begins, WritingNow, RestoringNow, Log
  <2> QED BY <2>4 DEF Record!Next, Record!Operate
<1>5. CASE RefillState(c)
  <2>1. /\ pc[c] = "refillState" /\ pc' = [pc EXCEPT ![c] = "undoUp"] /\ alone' = alone \ {c}
    BY <1>5 DEF RefillState, Shell
  <2>2. WritingNow' = WritingNow /\ RestoringNow' = RestoringNow \ {c} /\ c \in RestoringNow
    BY <1>0, <2>1 DEF WritingNow, RestoringNow
  <2>3. PICK old : old = backups[call[c].backup].state
    OBVIOUS
  <2>4. state' \in Into(fd[c] = "path", state, old)
    BY <1>5, <2>3 DEF RefillState
  <2>5. state' \in {old, state, Torn}
    BY <2>4, OverType DEF Into
  <2>6. c \in alone => state' = old
    BY <2>1, <2>4, OverType DEF AloneOK, Into
  <2>7. Record!EndRestore(c)
    BY <1>0, <1>1, <1>3, <2>1, <2>2, <2>3, <2>5, <2>6
       DEF Record!EndRestore, WritingNow, RestoringNow, Log
  <2> QED BY <2>7 DEF Record!Next, Record!Operate
<1> QED BY <1>4, <1>5

\* Every step is a step of the record or leaves it alone.
LEMMA NextRefines ==
  ASSUME ShapeOK, ReportServed, TmpServed, AloneOK, [Next]_vars
  PROVE  [Record!Next]_(Record!vars)
<1>1. CASE UNCHANGED vars \/ Tick
  BY <1>1 DEF Tick, vars, hubVars, hostVars, fileVars, callVars, writeVars, Record!vars, Backups
<1>2. ASSUME NEW t \in Tags, NEW d \in Digests, Publish(t, d) PROVE Record!Next
  BY <1>2 DEF Publish, hostVars, fileVars, callVars, writeVars, Backups, Record!Next, Record!Serve
<1>3. ASSUME NEW c \in Clients, Quiet(c) \/ BackupStep(c) \/ FileStep(c) PROVE Record!Next
  BY <1>3, AbandonRefines, LogRefines
<1>4. ASSUME NEW c \in Clients, StateStep(c) PROVE [Record!Next]_(Record!vars)
  BY <1>4, WriteRefines, RestoreRefines DEF StateStep
<1> QED BY <1>1, <1>2, <1>3, <1>4, StepKinds DEF WriteStep

\* For any number of operators the state file is a register of served pins whose undo
\* log is the backups: a write of it that no other command overlaps replaces it in one
\* step, and only overlapping commands or a rollback cut short damage it.
THEOREM RecordRefined == Spec => RecordSpec
<1>1. Init => AloneOK
  BY DEF Init, AloneOK
<1>2. Spec => [](ShapeOK /\ ReportServed /\ Provenance /\ TmpServed /\ AloneOK)
  BY <1>1, InitProvenance, InitShape, NextShape, NextProvenance, NextAlone, PTL DEF Spec
<1> QED BY <1>2, InitRefines, NextRefines, PTL DEF Spec, RecordSpec, Record!Spec

=============================================================================
