# Rustmote: models, checks and proofs

Rustmote is a command line tool for reaching RustDesk hosts: it registers relay
servers and targets, opens an SSH session to a relay and starts a viewer
through it (`connect`), scans the local network for hosts (`target scan`), and installs and updates a RustDesk relay on a remote
host (`relay_lifecycle`). This directory holds TLA+ modules of its core logic,
TLC configurations that check them on small instances, and theorems that TLAPS
proves for every instance.

Paths below are relative to `src/crates/rustmote-core/src/` unless they start
with `cli/`, which is `src/crates/rustmote-cli/src/commands/`.

## 1. Inventory

| Component | State it keeps | Operations | What is hard | What makes it correct |
|---|---|---|---|---|
| Relay lifecycle (`relay_lifecycle/`) | none of its own: the compose file, `.env`, `.rustmote-state.toml`, `backups/` on a remote host, docker's containers and images | `bootstrap`, `check_updates`, `update` (with rollback and backup collection), `status` | each operation is 10 to 20 remote commands, any of which may fail or be the last before the client dies; nothing locks the host, and two operators' writes of a file share its temporary name; the registry moves meanwhile; backup names have the granularity of a second; health checks poll against a deadline | the state file marks a complete install and names digests the registry served; a rollback restores; an update that succeeds runs what it recorded; collection spares what is needed; every call ends |
| Registry client (`registry_client.rs`) | `CacheStore` in memory, `docker-hub-cache.toml` on disk | `list_tags`, `resolve_digest`, load, flush | every process has its own copy and writes the whole file; time is read before an await | no answer older than the TTL; no request repeated within it |
| Configuration (`config.rs`, `registry.rs`, `target.rs`, `cli/{server,target,config}.rs`) | `config.toml` | `server add/remove/list/show`, `target add/remove/list`, `config set-mode/path/show` | load, change, save without a lock, through one temporary name | the file always says a whole configuration and changes by whole accepted commands; success means saved |
| Host keys (`session/known_hosts.rs`) | `known_hosts.toml` | `verify_or_pin`, load, save | pinned in memory in a callback of the handshake, saved after authentication | a pin stays; no session with another key; every trusted key is on record |
| Session and forwarder (`session/mod.rs`) | the SSH connection, the forwarder task, a task per proxied connection, the locals of `exec` | `open` (with `authenticate`, `spawn_forwarder`), `exec`, `close`, `Drop` | all tasks share one connection, which may be lost at any step and lives as long as somebody holds its handle; the two halves of a proxied connection end independently; exit status, end of output and loss come in any order; no timeout on `exec` | authentication tries everything before it gives up; no half cuts off the other; an exit code is the command's; what is held is let go, and applications hear of a loss |
| Credentials (`credentials.rs`) | keyring entries, `credentials.toml` | `get_password`, `set_password`, `delete_password`, per mode | the file is checked, read and rewritten in place, without a lock; writes are buffered; the mode of the file may change | what was reported is what is stored; nobody gets the password of another account; no password is written where others can read it |
| `connect` (`cli/connect.rs`) | none | resolve, open, save pin, stamp `last_used`, run the viewer, close | joins four components and holds a copy of the configuration for as long as a prompt takes | see configuration and host keys |
| Discovery (`discovery.rs`) | none between scans; findings, probes and timers during one | `scan` (three sweeps, merge) | three sweeps in one task, each with timers of its own inside the timeout of the whole; timers fire late; a budget of zero | hosts that answer are reported; the merge loses and mixes nothing; the scan ends in its budget |
| Viewer (`viewer.rs`) | none | `detect`, `launch` | nothing concurrent | pure, unit-tested |
| `cli/relay.rs`, `cli/status.rs` | none | a stub; formatting | – | – |
| Relay template (`src/docker/relay`) | none | – | data of the lifecycle component | – |

Interactions. The lifecycle drives the host only through `RemoteExec::exec`,
and asks the hub only through the registry client. `connect` reads the
configuration, resolves the server's credentials, has the session check the
host key against the store, saves the store, then saves the configuration.
Processes meet only in files: three TOML files on the operator's machine, and
the install path on the relay host.

The hazards of this code, each at its line, are listed in `PROJECT.json`,
with the properties that would catch it going wrong or the reason why none does.

## 2. Modules

| Module | Models |
|---|---|
| `RelayLifecycle` | the orchestrator, one action per remote command; the host, docker and the hub as its environment |
| `RelayRecord` | abstract: the state file as a register of served pins with an undo log, written and restored in operations that may overlap |
| `TomlFile` | operators: a TOML file saved by temporary file and rename, as names and inodes |
| `RegistryCache` | the registry client of every process and the file they share; instantiates `TomlFile` |
| `Registry` | operators: the commands on `config.toml`, whether each is accepted and what it makes of the file |
| `RegistryPromise` | abstract: the configuration as one value that accepted commands change |
| `ConfigStore` | the processes that run those commands and `connect`, over two instances of `TomlFile` |
| `Session` | one SSH session: the password its caller looks up, `authenticate`, the forwarder and its tasks, `exec`, `close` and `Drop`; the SSH library, the applications and the hosts as its environment |
| `Credentials` | the credential store, its callers, the keyring and the password file |
| `Discovery` | one scan: three sweeps with their timers, the network, the merge |
| `MC...` | constants for TLC |
| `RelayLifecycleProofs`, `RelayUpdateProofs`, `RegistryCacheProofs`, `ConfigStoreProofs`, `CredentialsProofs`, `SessionProofs`, `DiscoveryProofs` | theorems and proofs |
| `FoldFacts` | theorem: what a left fold over a sequence computes, for any operator; `DiscoveryProofs` instantiates it for each loop of the merge |

`ConfigStore` and `Session` meet in `connect`: the first has the files and the
host key check and takes authentication as one step, the second has
authentication, the tunnel and `exec` and takes the host key check as one step.
`RelayLifecycle` calls `exec` for every command and takes its answer as true;
when that is justified is what `ExecFaithful` and `ExecHonest` of `Session` say.

### RelayLifecycle

State: `dir`, `compose`, `env`, `state`, `backups` are the install path, `composeTmp`
and `stateTmp` the temporary files of `write_file`;
`pulled` and `running` are docker; `hub`, `published`, `highest` the registry
(the last two only grow, as history); `pc`, `call`, `outcome` the operators'
calls; `fd` says where the file is by now that an operator's command has open for
writing: still at its temporary name, renamed to its path, or without a name. A step is what
one `exec` or one registry request does, together with the code up to the next await, except
where another operator can come between the parts of one command:

- `write_file` (`commands.rs:218`) truncates `{path}.rustmote-tmp`, fills it and renames it: `OpenCompose`,
  `FillCompose`, `MoveCompose`, and `OpenState`, `FillState`, `MoveState`. Both operators use the same
  temporary name, so one may rename the file the other has just truncated, or one fill a file
  that the other has renamed into place (`Renamed`).
- `cp -a` empties its target and fills it: `SaveCompose` and `KeepCompose`, `SaveState` and `KeepState`
  in `make_backup`, `UndoCompose` and `RefillCompose`, `UndoState` and `RefillState` in `rollback`.

A file may therefore be `Empty`, or `Torn`, where a shorter text was written over a longer one;
neither parses, and `load_state` ends with an error on them. `Over` is what a write leaves of what was there. A fill
writes its text, of a few hundred bytes, at once. The other steps: `MakeBackup` and `SaveConfig` are the rest of `make_backup`; `Reload`,
`Pull`, `Up`, `Healthy`/`NotYetHealthy`/`Unhealthy` of the body of `update`;
`UndoUp` and the health steps at `undoHealth` of `rollback`;
`ListBackups`, `ListFails`, `Collect` are `gc_backups`. `ExecFails`
is the `?` after any of them, `Crash` the death of the client, `ComposeUpFails`
an `up` that failed with some containers recreated. Two operators interleave
between any two steps.

Choices that matter:

- Tags are ranks. A compose file is the tag of its template and the set of
  digests substituted after it, because `render_compose_with_pins` replaces the
  text `:tag` only where the pin's tag is the template's, and once per
  such pin. Two different digests make an image reference docker rejects
  (`WellFormed`). A tag that is a prefix of another is not modelled.
- The two services' requests (`list_tags`, then `resolve_digest`) are one step
  per service, in either order; their answers may be any the hub gave during the
  run, which is weaker than `FreshAnswers` of `RegistryCache`.
- `mkdir -p` of three directories is one step, as no code reads the two
  inner ones before a command that would create them; the probes of both ports
  in a health round are one step. So is the writing of `.env` and of the rendered configuration
  in a backup, which no modelled code reads back, and the `rm -rf` of one backup.
- A command still running when its client dies is taken to have ended, or to have been cut short, before
  that operator's next one starts. A `cp -a` reads its source when it fills its target.
- The client's clock and the host's are the same. `MaxPolls` stands for the
  health-check timeout over the poll interval.
- A failing command is taken to report its failure.
- `alone` is history: the operators at work on the state file that no other has overlapped since they began.
- `before` in a call is history: the files when the call began.

`RelayRecord` is what the state file promises, and its limits are stated, not assumed away. A
write that no other overlaps replaces the record at its end, in one step, by served pins; operations that overlap may leave
it `Empty` or `Torn`; and a restore empties it first, so a rollback whose client or command dies between `UndoState`
and `RefillState` leaves an empty state file even with one operator. Nothing else damages it.

### RegistryCache

State: `mem` is the `CacheStore` of each process; `file` the file on disk; `call` the
call in progress or last returned; `asOf` and `paid` are history. `Miss` reads
the clock before the request, `Answer` is the hub's reply, `Put` stores it under
the earlier time, `OpenTmp`, `WriteTmp`, `Rename` are `CacheStore::save_to`.
`Fails` models an error at any of them: a failed save fails the call although
the answer is already in memory. HTTP, the token exchange and JSON are within
`Answer`.

### TomlFile

`Config::save_to`, `KnownHosts::save_to` and `CacheStore::save_to` have one
shape: `fs::write` on a fixed temporary name, then `rename`. `fs::write` opens
with truncation and then writes, so two processes may hold one inode, and a
process keeps writing an inode after another has renamed it into place. Every
field of the three structures has a serde default, so an empty file parses, as
the default. A write is taken to replace the whole text of its inode: the rest of a longer text that a second
writer of the inode would leave behind a shorter one is not modelled. Such a text most likely does not parse; no property of a run
depends on it, as only `RegistryCache` is run with two processes and an unreadable cache counts as empty.

### ConfigStore

State: `config` and `known` are the two files, `hostKey` what each endpoint
shows, `local` the copies a process works on. `Begin` is the operator giving a
command; `Refuse`, `SameMode`, `LoadAndApply` are the body of a command on its
copy; `Open`, `Write`, `Rename` the save; `LoadForConnect` to `ViewerExits`
are `connect`. `Dies` is an error or a signal at any step. Names are unique in the
code (`add_server` refuses a second one), so a list is a function of the name. A
label stands for the id it resolves to; resolving the password and the wait
for the prompt are before `LoadHosts`. Commands that only print are left out.

### Session

State: `phase` is where the session is, from `resolve_password` in `connect` to
its end; `auth` the key files, the host's choice of keys, the stored password
and the one handed over; `link` the SSH connection; `forwarder` the accept
loop; `conn` each local connection with the application, the relay and the task
between them; `exec`, `remote`, `wire` the call of `exec`, the command it runs
and the channel messages in flight.

- `KeyPassed` is one round of the loop of `authenticate`: a key that is
  missing, cannot be loaded, is refused, or whose request fails, all lead to the next.
- `Accept` to `Join` are `forwarder_loop` and `proxy_one`. `PumpUp`, `UpEnds`,
  `PumpDown`, `DownEnds` are the two `async` blocks, `Join` and `ProxyFails` what
  `try_join!` makes of them. Bytes are counted: `wrote`, `got`, `answered`,
  `delivered` are how many chunks an end has written and the other end has, `read` how many
  `up` has read.
- What the SSH library (russh 0.45, external) makes of a write: while the relay's channel is open, the
  bytes arrive; once the relay has closed it and the connection still holds, the write succeeds and the bytes are
  dropped (`WriteDropped`); when the connection is gone it is an error (`ProxyFails`). So a task can end without an error
  although the relay did not get everything, and `ProxyWhole` says precisely when that cannot be: unless the
  relay itself closed the channel. What the relay answered is delivered in either case.
- `Close` and `Drop` signal and abort the loop, but not the proxy tasks, which
  hold the handle. `Disconnect` is the SSH library ending the connection
  when `close` says so or when nobody holds the handle.
- `LinkLost` may happen at any step. A loss looks like the end of the answer to
  the half that reads the channel, and like the end of the output to `exec`.
- Standard output and error are one output; a signal and other messages are read and
  ignored. `exec` returns on end-of-file as on close.

### Credentials

State: `file` is what `credentials.toml` holds, `private` whether its mode is
`0600`, `ring` the keyring, `pc` and `call` the callers; `vault` and `exposed` are history.
`Check`, `Read`, `Open`, `Write`, `Sync` are the awaits of `read_unsafe_file` and
`write_unsafe_file`, and calls interleave between them. The file is opened with
truncation, so there is a window with an empty file (`InWindow`). A write that
comes over the longer text of another call leaves the end of it (`Over`); a
write cut short leaves some entries or text that does not parse (`Parts`).

`WriteFails` is worth a word: `tokio::fs::File` hands a write to another
thread and keeps its error for the next write. `write_all` of a short text
is one write, so its error is never reported: `sync_all` does not return it, and
the call returns `Ok` over a file that was not written. `StoredAsReported` leaves such
a write out (`vault` becomes `None`), as it does deaths inside the window and calls that
overlap.

In this repository only `connect` calls the store, and only `get_password`; `set_password` and
`delete_password` are the library's interface. Callers are tasks or processes.

### Discovery

State: `mdns` is the mDNS sweep (its place in the loop, its deadlines and findings),
`heard` the events its daemon has queued per service type, `probe` and `icmp` the ICMP
sweep, `arp` the rows the ARP sweep kept, `result` what `scan` returned.
`BeginRound`, `Receive`, `NothingHeard`, `EndRound`, `EndPause`, `ListenReturns` are the
loop of `mdns_sweep`; `ProbesReturn` is `join_all`; `ReadArp` is `arp_read`;
`ListenTimesOut` and the second branch of `ProbesReturn` are `run_with_budget`;
`Finish` is `merge_results`.

The clock starts when the mDNS daemon is up: until then the one task that
polls all three sweeps is busy with the first. A timer fires at its time or up to `Lag`
later, and time passes only while no timer is later than that (`Idle`), which is
how the runtime is assumed to behave. A timeout polls what it guards before it
looks at the time, as tokio's does.

All probes of the ICMP sweep are taken to leave at once. The code awaits the sending of each before the timer of that
probe starts (`discovery.rs:258`), which could delay the last answers of a very large subnet;
`PingsReported` does not speak of that. The number of mDNS events is bounded by `MaxEvents`; the run has
two, and `ScanInBudgetCorrect` holds for any number.

## 3. Runs

Passing runs:

| Run | Instance | Shows |
|---|---|---|
| `MCOneOperator` | 1 operator, 2 services, 2 tags, 2 templates, a good release of tag 1 and a broken one of tag 2 | `TypeOK`, `Provenance`; `RollbackRestores`: once a rollback has written its files they are those of before the update; `UpdateDeploys`: a successful update runs what it recorded |
| `MCBackups` | 1 operator, 1 service, a tag pushed twice (a good image, a broken one), 2 clock values, 2 health rounds | `BackupSurvives`: the backup of the running update outlives its collection; `CollectsOnlyOld`; `EveryCallReturns`, under `FairSpec` |
| `MCTwoOperators` | 2 operators, 1 service, a tag pushed twice, both images good | `MarkerLast`, and that the state file implements `RelayRecord` (`RecordSpec`), under every interleaving of the commands and of the parts of those that write files |
| `MCCacheShared` | 2 processes, 1 key, 2 answers, TTL 2, 4 clock values | `FreshAnswers`, though processes overwrite each other's file and one inode is written by two; `RateLimited`: while one process runs at a time, what was paid for survives failures and restarts for its TTL; `TypeOK` |
| `MCConfigStore` | 1 process, 1 server name, 2 endpoints, 2 keys, 1 id, 2 modes, every command | `PromiseSpec`: refinement of `RegistryPromise`; `SavedWhenReported`; `PinsKept`; `TunnelOnRecord`; `TypeOK` |
| `MCSession` | 1 local connection at a time, 2 key paths, 1 chunk per direction, exit codes 0 and 1 | `AuthExhausts`; `ProxyWhole`: no half of a proxied connection cuts off the other, and only what the relay refuses is lost; `ExecFaithful`: the output and code are the command's; `LossTold`, `ConnectionReleased`, `ExecReturns`, under `FairSpec`; `TypeOK` |
| `MCCredentials` | 2 callers, 2 accounts that share a user, every mode | `StoredAsReported`, `OwnPassword`, `NotIntoTheOpen`, `TypeOK` |
| `MCDiscovery` | 2 addresses, 2 service types, 2 events, budgets 0 and 4, timers up to 1 late | `PingsReported`: one silent host costs nobody else its answer; `MergeRight` against a definition that looks at all findings at once; `ScanInBudget`; `ScanEnds`, under `FairSpec`; `TypeOK` |

Runs that TLC finds violated, where the code does not do what its documentation
says:

| Run | Documented | What the code does |
|---|---|---|
| `MCNoopIsDeployed` | the state file is the source of truth for what is deployed (`relay_lifecycle/state.rs:3`) | `bootstrap` writes it (`relay_lifecycle/mod.rs:354`) before it runs `up` (`:362`); when it ends in between, the next `update` reports that nothing is to be done while nothing runs. `update` has the same order (`:508`, `:513`), so one that ends there leaves the old containers and a state file with the new pins |
| `MCExecHonest` | `exec` propagates the transport's error (`session/mod.rs:115`) | a lost connection ends its loop like the end of the output, with exit code 0 and `Ok` |
| `MCFallsThroughToPassword` | an encrypted key falls through to password authentication (`cli/connect.rs:34`) | the presence of the key file alone keeps `connect` from looking up a password |
| `MCMdnsReported` | results of the sweeps are merged, with the hostname from mDNS (`discovery.rs:20`) | the mDNS sweep always uses up the budget that cuts it off, and is dropped with all it found, unless a late timer lets it return first |

Other things that came up while modelling, without a run of their own: an update to a tag
its template does not have writes a compose file without digests, as
`render_compose_with_pins` substitutes only lines of the pin's tag
(`src/RUSTMOTE_SPEC.md:507`, `:556` ask for digests); with `skip_backup` a failed
health check returns the error that says it was rolled back; a `bootstrap` that
died between its first `mkdir` and the state file is refused as a foreign install
when it is run again (`src/RUSTMOTE_SPEC.md:409` calls it safe to re-run); two processes
that save one TOML file at once share its temporary name, so one may rename
the file the other has just truncated; dropping a session does not disconnect it while
a proxied connection lives (`session/mod.rs:183` says it does), which is what
`ConnectionReleased` states precisely; two operators whose writes of the state file or the compose file overlap may
leave an empty or a torn one on the host (`commands.rs:218`), and a rollback cut short an empty one; and the
comment at `session/mod.rs:546`, that the first half-close tears down the pair, is not what `try_join!` does: it waits
for both halves unless one fails. `ProxyWhole` holds because of that, and the mutant `JoinFirst`, which does what the
comment says, breaks it.

Why the bounds are enough. The lifecycle properties with one operator need a
bootstrap, an update that fails and a later one; two releases give one upgrade
and one more reason for an update after a failure, and the runs are not bounded
in the number of calls, crashes or failures. Two services tell a wrong service
from a right one, two tags a template of the right tag from one of another.
Two clock values give a backup of an earlier second beside one that shares its
second with another update, and with `MinRetained` 1 and `Retention` 0 both
boundaries of the collection are reached. With two operators one service and one
tag are enough, as the properties are about files, and a state explosion is
what more would give. The cache's TTL of 2 in four clock
values lets an entry be new, older but fresh, and just stale, and be paid for
again. Inodes are as many as can be in use at once: a process that opens one
needs it beside the file and those the other processes hold. In `MCTwoOperators` the images are two that
work, so that health checks do not branch; what is at stake there is the files, and a rollback is reached all the
same, as a probe may fail at any time.

Symmetry is used for inodes, endpoints, fingerprints, services, answers, processes (`MCCacheShared`), callers and servers
(`MCCredentials`), operators and the two images (`MCTwoOperators`): no definition or property tells them apart. A `VIEW`
leaves out only what no later step reads and no property of the run speaks of, so two states it takes for one
take the same steps. `WithoutOutcome` (`MCOneOperator`, `MCBackups`) leaves out the `outcome` of the last call, a temporary
file that the next command will truncate before anyone reads it, the pins of `load_state` once compared, and the
history field `before` of a call that cannot roll back. `FilesOnly` (`MCTwoOperators`) also leaves out all of `before`
and the containers and images: with one tag every compose file pins a digest, and with images that work nothing reads
what runs. `WithoutOutcome` is used under fairness too: no step that fairness is asked of changes only what is left out.
`MCTwoOperators` takes the longest, with 860 000 states; `MCOneOperator` has 1.2 million and each of the others less than
500 000.

In `MCSession` one local connection at a time is enough, as connections share nothing but
the SSH connection and the handle, and a connection that has ended makes room
for another; two key paths give one that is passed over before one that works, and one
chunk each way tells "all" from "none" for each direction. In `MCCredentials`
the two accounts tell a key by server and user from one by user alone, and two
callers give every overlap of two calls; symmetry exchanges the callers. In `MCDiscovery`
the budget of 4 is two polls, or a poll and two pauses, so that a round can begin before the
deadline and end after it; a budget of 0 makes every timer fire at once.

Deadlock is checked in every run but those of `Session` and `Discovery`, where a
session and a scan come to an end, and the runs that end in a counterexample.

Properties stated for one operator or one process (`RollbackRestores`,
`UpdateDeploys`, `BackupSurvives`, `RateLimited`, those of `ConfigStore`) are
stated so because nothing in the code serialises two: with two, the second
overwrites what the first did, by design of a tool without locks.
`CollectsOnlyOld` is run with one operator as well: with two, a list made
before another update's backup is acted on after it.

## 4. Fairness

`RelayLifecycle!FairSpec` asks of each operator that its next step or its failure is not put
off for ever: a command that was started returns or fails. The code leaves
this to the SSH connection: `Session::exec` (`session/mod.rs:301`) waits for
the next channel message without a timeout, and `EveryCallReturns` says nothing
of a host that stops answering. Nothing is assumed of the hub, of the clock, of
crashes, or of the containers ever listening; the health loops end because they
count towards their deadline (`MaxPolls`).

`Session!FairSpec` asks that a task of the runtime that can go on does (`Task`:
accepting, each of the two halves, joining; `ExecStep`: reading a message that has arrived), that
the accept loop stops once it was told to (it is aborted as well), and that
the SSH library ends a connection it was told to end or that nobody holds. Opening a channel
may wait for the host for ever, unless the connection is gone. Nothing is
assumed of the caller, the applications, the relay, the host or the network.
`ConnectionReleased` therefore says that the connection goes as soon as the last proxied
connection has ended, not that this ever happens.

`Discovery!FairSpec` asks that the runtime polls the task of a scan that can go on and that time passes.

The other specifications are safety only.

## 5. Proofs

All theorems hold for every value of the constants that satisfies the named
assumptions (`ConstantsAssumption`, `NoneAssumption`, `DamagedAssumption` in `RelayLifecycle`,
`CacheAssumption` in `RegistryCache`, `RegistryAssumption` and `RegistryNoneAssumption` in `Registry`,
`StoreAssumption` in `ConfigStore`, `CredentialAssumption` in `Credentials`, `SessionAssumption`
in `Session`, `DiscoveryAssumption` in `Discovery`): that tags are naturals and templates
tags, that limits and delays are naturals (a pause of a sweep is not zero), that commands and modes are among those the code has, and that `None`, `Empty` and `Torn` are none of the values they stand
beside.

`RelayLifecycleProofs`
: `TypeCorrect`: `Spec => []TypeOK`. `TypeOK` alone is not inductive: a step
writes a report as pins, or uses the name of a backup, and has to know
that the report is complete and the name set. `ShapeOK == TypeOK /\ LocalsOK`
adds what the locals hold at each step, and is.

  For the state file, the steps are sorted into those that write no file, those that write below
`backups/` only and those that write a file of the install path, and each kind
has lemmas on what it changes.
  - `MarkerCorrect`: `Spec => []MarkerLast`, for any number of operators.
    Inductive with `Writing` (what a call about to write relies on: `.env` has been written
    before the state file) and `SavedInstalled` (a backup with a state file means
    that there is one to replace). It holds of a damaged state file as well.
  - `ProvenanceCorrect`: `Spec => []Provenance`. Inductive with `ReportServed`:
    what an operator has resolved was served; and with `TmpServed`: so was what is in the temporary files,
    whoever filled them. A crash, a rename or a rollback only moves pins between files.
  - `RecordRefined`: `Spec => RecordSpec`, for any number of operators, whose commands may come between the
    opening, the filling and the renaming of each other's files. `OpenState` is `BeginWrite`; `FillState` is a `Spill`
    if another operator's `mv` has taken its file to the path, and a stutter otherwise;
    `MoveState` is `EndWrite`; `UndoState` and `RefillState` are `BeginRestore` and `EndRestore`; the steps of
    `make_backup` and `Collect` are `Log`, `Publish` is `Serve`, and a failure or death in a write or a restore is
    `Abandon`. That a write nobody overlapped ends with served pins needs `AloneOK`: that operator has its
    file open under the name it opened, and nothing is in it but its own text; and `TmpServed`, without
    which overlapping writes might install pins from nowhere.

`RelayUpdateProofs`
: With the assumption `Alone`, that there is one operator, since nothing on the host is locked:
`RollbackRestoresCorrect`, `BackupSurvivesCorrect`, `UpdateDeploysCorrect` and
`CollectsOnlyOldCorrect`, from one inductive invariant `UpdateInv`. None of the four is inductive:
what a rollback puts back is what `make_backup` copied many steps before. So `UpdateInv` says of
every step what the call knows by then: `BackupOK`, which files of before its backup
already holds; `FilesOK`, that each file is that of before until its rename, that of the
resolved pins after it and that of before again after its refill, and which
images the containers run; `HandOK`, what is in the file a command has open, from its truncation to its rename; `DoomedOK`, that the backups to be deleted had expired when the call began
and that a set of `MinRetained` others, none older, is not among them. With `TimesOK`, that a
backup directory is not older than its name, the call's own backup cannot
be among the expired ones. `Frame` reduces a step to what its call knows after it.

`RegistryCacheProofs`
: `CacheTypeCorrect`, and `FreshAnswersCorrect`: `Spec => []FreshAnswers`, for any
number of processes, keys and inodes and any TTL. The inductive invariant is
`IInv == ShapeOK /\ AsOfNow /\ HonestEverywhere /\ FreshAnswers`: no store, in
the memory of a process or in any inode, even one that has lost its name, dates
an answer later than the hub last gave it. That is kept because `Miss` takes the
time before it asks; it makes every hit fresh by `IsFresh`. `RateLimitedCorrect`: `Spec => RateLimited`,
that an answer paid for is not paid for again before it is stale. The history `paid` is
forgotten when two processes overlap, so the theorem has no assumption on their number; its invariant
`PaidInv` says that while it is kept, memory and file hold for every answer paid for one at least as young,
and that a process between `open` and `rename` holds its own temporary
inode, which is never the file itself (`NamesApart`).

`ConfigStoreProofs`
: `StoreTypeCorrect`: `Spec => []TypeOK`, for any number of processes at once. It needs what
the locals hold at each step (`LocalOK`): a connect that has passed its checks goes
through a server its copy has. The other properties have the assumption `Alone`, one process at a
time: `TunnelOnRecordCorrect`, `PinsKeptCorrect`, `SavedWhenReportedCorrect`, and
`PromiseCorrect`, that `ConfigStore` implements `RegistryPromise`. The invariant
`IInv` ties what the process holds to the two files (`CopyOK`, `PinOK`): its copy says what
config.toml says until it changes it, and then what the command makes of that; its pins are those of
known_hosts.toml and at most one more. `Frame` reduces a step of one process
to what that process holds after it. `ConfigStep` and `KnownStep` say that only a rename changes
what a file says, as the temporary file is never the file itself (`FilesOK`).

`CredentialsProofs`
: `CredentialsTypeCorrect`, `OwnPasswordCorrect`, `StoredAsReportedCorrect` and
`NotIntoTheOpenCorrect`, for any number of callers, servers, users and passwords. `OwnPassword`
is inductive once every place a password may be in (the keyring, the file, the copies,
the arguments) is known to hold only passwords of the account it is keyed by, whatever
is cut or overwritten. `StoredAsReported` needs that a single writer's copy is the
vault with its change from `Read` on, and that while it is in the window nobody
else changes the vault. `NotIntoTheOpen` needs that a caller past `Check` has a file that is
private or missing, unless the mode was changed since.

`SessionProofs`
: `SessionTypeCorrect`, `AuthExhaustsCorrect` and `ProxyWholeCorrect`, for any
number of connections, key paths and chunks, from one inductive invariant `IInv`.
For `ProxyWhole` it says what the half of a connection that ended first leaves behind
(`ConnOK`): when `up` has ended the application writes no more and all it wrote has been read; what was read
has arrived unless the relay closed the channel; when `down` has ended the relay writes no more and all it answered has
been delivered, or the SSH connection is gone.
For `AuthExhausts` it says that every key before the next one was of no use, as long as the SSH
connection holds. Both need that the connection comes up only once and before anything is accepted
(`ForwarderOK`). Steps that change one connection are reduced to its record (`ConnStep`), so that each
is a lemma about a record alone.

  `ExecFaithfulCorrect`, for any number of messages under way, from `ExecInvariant`. `WireOK` gives the
order of what is on the wire: no output behind its end. `PendingOK`
says that what `exec` has read and what is on its way is together what the remote command wrote, and that a status
the host sent in order has been read or comes before the end;
the outputs on the wire are counted by a function along it (`Counts`), so that a message
sent or read changes one end of it. `CodeOK` and `DoneOK` tie the exit code the caller has to the one sent.

`FoldFacts`
: `FoldTrace`: for every operator that stays in a set there is a sequence of values that begins with the base, takes
one element at each position and ends in the fold; what each step keeps therefore holds of the result. The fold of the community modules is
a recursive function over sets of positions; that it exists is shown by building
its table position by position (`FoldExists`), with induction in the form of the least element of a set of
naturals (`Least`).

`DiscoveryProofs`
: `DiscoveryTypeCorrect`, `ScanInBudgetCorrect`, `PingsReportedCorrect` and `MergeRightCorrect`, for any
addresses, names, ARP tables, sequences of mDNS events, budgets and delays. The loops of
`merge_results` keep `Heard` (after k findings a host has the name of the first that
gave one) and `Listed` (after k rows the MAC of the first row), which `FoldTrace` carries to
the end: there they are the reference definition, `FirstOf`. `IInv` adds `Merged` (the result is that merge
of what the sweeps left), `ProbesFirst` (the probes
are answered or timed out before the budget ends a scan, so the ICMP sweep is never dropped) and `StillScanning`.

Only model-checked: `EveryCallReturns`, `LossTold`, `ConnectionReleased`, `ExecReturns` and `ScanEnds`, as
liveness under fairness is outside the prover's reach. Every safety invariant and every action property of a run
that passes is stated by a theorem.

## 6. Not modelled

- `status` and the commands that only print: they change nothing.
- `relay`: a stub that reports it is not implemented.
- The viewer: detection of a binary and construction of a command line are pure and
  unit-tested; its run is a step of `connect`.
- Argument parsing, logging, wording, the relay template's text.
- A configuration that does not parse, and remote paths that are
  refused: the operation ends with the error before it changes anything. (A state file that does not
  parse is in the model, `Empty` or `Torn`.)
- What a relay file damaged by two operators says: that it is damaged is in the model, and any damaged file is taken not to parse.
- Power loss. `save_to` does not sync, so a rename may reach the disk before the data.
- Inside the SSH library: flow control, rekeying, the messages of a handshake.

## 7. Plan

1. **Composition** of the lifecycle with `Session`'s `exec`: which of its properties survive a
   command whose failure is not reported.
2. **Two operators**: which parts of `UpdateInv` survive them, as invariants of a run and then as theorems
   without `Alone`.
