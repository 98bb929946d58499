---------------------------- MODULE ConfigStore ----------------------------
(***************************************************************************)
(* The rustmote processes of one machine and the two files they share,     *)
(* config.toml and known_hosts.toml.  A command loads config.toml once,    *)
(* works on its own copy and saves the whole of it at the end (registry.rs *)
(* and the commands); connect in between opens an SSH session, for which   *)
(* it loads known_hosts.toml, checks or pins the host key and saves the    *)
(* new pin.  A process may fail or die between any two steps.              *)
(***************************************************************************)
EXTENDS Registry

CONSTANTS
  Processes,  \* rustmote processes
  Commands,   \* commands the operator gives
  Keys,       \* host key fingerprints
  Inodes      \* inodes of the configuration directory, for each of the files

Pins   == [Hosts -> Keys \cup {None}]
NoPins == [h \in Hosts |-> None]

Cfg   == INSTANCE TomlFile WITH Contents <- Config, Default <- DefaultConfig
Known == INSTANCE TomlFile WITH Contents <- Pins, Default <- NoPins

\* Locals of a process: the copies it loaded, the host key of its session and
\* whether that was pinned just now, the temporary file it is writing.
Local == [cmd : Command \cup {None}, config : Config, known : Pins,
          key : Keys \cup {None}, pinned : BOOLEAN, inode : Inodes \cup {None}]

NoLocal == [cmd |-> None, config |-> DefaultConfig, known |-> NoPins,
            key |-> None, pinned |-> FALSE, inode |-> None]

ASSUME StoreAssumption ==
  /\ Commands \subseteq Command
  /\ None \notin Inodes \cup Keys \cup Command

VARIABLES
  config,   \* config.toml and its temporary sibling
  known,    \* known_hosts.toml and its temporary sibling
  hostKey,  \* the key each SSH endpoint shows
  pc,       \* where each process is
  local,    \* its locals
  result    \* how its last command ended

files == <<config, known>>
vars  == <<config, known, hostKey, pc, local, result>>

Steps == {"load", "loadHosts", "handshake", "authenticate", "openHosts", "writeHosts",
          "renameHosts", "stamp", "open", "write", "rename", "viewer"}

TypeOK ==
  /\ config \in Cfg!File
  /\ known \in Known!File
  /\ hostKey \in [Hosts -> Keys]
  /\ pc \in [Processes -> Steps \cup {"idle"}]
  /\ local \in [Processes -> Local]
  /\ result \in [Processes -> {"none", "ok", "error"}]

Init ==
  /\ \E i \in Inodes, n \in Names :
       config \in {Cfg!NoFile, Cfg!Written([Cfg!NoFile EXCEPT !.path = i], i,
                                           [DefaultConfig EXCEPT !.default = n])}
  /\ known = Known!NoFile
  /\ hostKey \in [Hosts -> Keys]
  /\ pc = [p \in Processes |-> "idle"]
  /\ local = [p \in Processes |-> NoLocal]
  /\ result = [p \in Processes |-> "none"]

-----------------------------------------------------------------------------
(* Helpers. *)

Goto(p, from, to) ==
  /\ pc[p] = from
  /\ pc' = [pc EXCEPT ![p] = to]
  /\ UNCHANGED result

End(p, how) ==
  /\ pc' = [pc EXCEPT ![p] = "idle"]
  /\ local' = [local EXCEPT ![p] = NoLocal]
  /\ result' = [result EXCEPT ![p] = how]

\* The endpoint a connect goes to.
Endpoint(p) == local[p].config.servers[Via(local[p].config, local[p].cmd)].host

Held == {local[p].inode : p \in Processes} \ {None}

\* Mutant: pins whatever the server shows.
Repin(pins, host, observed) ==
  [outcome |-> "Pinned", pins |-> [pins EXCEPT ![host] = observed]]

\* Mutant: an entry made of the endpoint, not of the key.
PinEndpoint(pins, host, observed) ==
  IF pins[host] = None THEN [outcome |-> "Pinned", pins |-> [pins EXCEPT ![host] = host]]
  ELSE [outcome |-> IF pins[host] = observed THEN "Matched" ELSE "Mismatch", pins |-> pins]

\* verify_or_pin under TofuPolicy::TrustOnFirstUse, the policy of connect.
VerifyOrPin(pins, host, observed) ==
  IF pins[host] = None THEN [outcome |-> "Pinned", pins |-> [pins EXCEPT ![host] = observed]]
  ELSE [outcome |-> IF pins[host] = observed THEN "Matched" ELSE "Mismatch", pins |-> pins]

-----------------------------------------------------------------------------
(* Environment: a server is reinstalled and shows another key. *)

Rekey(h, k) ==
  /\ k # hostKey[h]
  /\ hostKey' = [hostKey EXCEPT ![h] = k]
  /\ UNCHANGED <<files, pc, local, result>>

-----------------------------------------------------------------------------
(* Every command. *)

Begin(p, cmd) ==
  /\ pc[p] = "idle"
  /\ pc' = [pc EXCEPT ![p] = "load"]
  /\ local' = [local EXCEPT ![p].cmd = cmd]
  /\ result' = [result EXCEPT ![p] = "none"]
  /\ UNCHANGED <<files, hostKey>>

\* The copy is refused: the command ends with the error and saves nothing.
Refuse(p) ==
  /\ pc[p] = "load"
  /\ ~Accepts(Cfg!Read(config), local[p].cmd)
  /\ End(p, "error")
  /\ UNCHANGED <<files, hostKey>>

\* apply_mode: the mode is what it was, nothing to save.
SameMode(p) ==
  /\ pc[p] = "load"
  /\ local[p].cmd.op = "config set-mode"
  /\ Accepts(Cfg!Read(config), local[p].cmd)
  /\ Cfg!Read(config).mode = local[p].cmd.mode
  /\ End(p, "ok")
  /\ UNCHANGED <<files, hostKey>>

\* The command changes its copy and goes on to save it.
LoadAndApply(p) ==
  LET copy == Cfg!Read(config)
      cmd  == local[p].cmd
  IN  /\ Goto(p, "load", "open")
      /\ cmd.op # "connect"
      /\ Accepts(copy, cmd)
      /\ cmd.op = "config set-mode" => copy.mode # cmd.mode
      /\ local' = [local EXCEPT ![p].config = Applied(copy, cmd)]
      /\ UNCHANGED <<files, hostKey>>

\* Mutant: truncates and writes config.toml itself.
OpenInPlace(p, i) ==
  /\ Goto(p, "open", "write")
  /\ i = config.path \/ config.path = None
  /\ config' = [Cfg!Opened(config, i) EXCEPT !.path = i]
  /\ local' = [local EXCEPT ![p].inode = i]
  /\ UNCHANGED <<known, hostKey>>

Open(p, i) ==
  /\ Goto(p, "open", "write")
  /\ Cfg!Opens(config, Held, i)
  /\ config' = Cfg!Opened(config, i)
  /\ local' = [local EXCEPT ![p].inode = i]
  /\ UNCHANGED <<known, hostKey>>

Write(p) ==
  /\ Goto(p, "write", "rename")
  /\ config' = Cfg!Written(config, local[p].inode, local[p].config)
  /\ local' = [local EXCEPT ![p].inode = None]
  /\ UNCHANGED <<known, hostKey>>

\* Mutant: a rename that failed counts as done.
RenameUnchecked(p) ==
  /\ pc[p] = "rename"
  /\ \/ UNCHANGED config
     \/ Cfg!CanRename(config) /\ config' = Cfg!Renamed(config)
  /\ IF local[p].cmd.op = "connect" THEN Goto(p, "rename", "viewer") /\ UNCHANGED local
     ELSE End(p, "ok")
  /\ UNCHANGED <<known, hostKey>>

\* The rename ends every command but connect, which launches the viewer.
Rename(p) ==
  /\ pc[p] = "rename"
  /\ Cfg!CanRename(config)
  /\ config' = Cfg!Renamed(config)
  /\ IF local[p].cmd.op = "connect" THEN Goto(p, "rename", "viewer") /\ UNCHANGED local
     ELSE End(p, "ok")
  /\ UNCHANGED <<known, hostKey>>

\* An error or a signal ends the process; the files stay as they are.
Dies(p) ==
  /\ pc[p] # "idle"
  /\ End(p, "error")
  /\ UNCHANGED <<files, hostKey>>

-----------------------------------------------------------------------------
(* connect *)

LoadForConnect(p) ==
  /\ Goto(p, "load", "loadHosts")
  /\ local[p].cmd.op = "connect"
  /\ Accepts(Cfg!Read(config), local[p].cmd)
  /\ local' = [local EXCEPT ![p].config = Cfg!Read(config)]
  /\ UNCHANGED <<files, hostKey>>

\* Once the password is known, which may take the operator any time.
LoadHosts(p) ==
  /\ Goto(p, "loadHosts", "handshake")
  /\ local' = [local EXCEPT ![p].known = Known!Read(known)]
  /\ UNCHANGED <<files, hostKey>>

\* check_server_key: a mismatch ends the command.
Handshake(p) ==
  LET observed == hostKey[Endpoint(p)]
      checked  == VerifyOrPin(local[p].known, Endpoint(p), observed)
  IN  /\ pc[p] = "handshake"
      /\ IF checked.outcome = "Mismatch" THEN End(p, "error")
         ELSE /\ Goto(p, "handshake", "authenticate")
              /\ local' = [local EXCEPT ![p].known = checked.pins, ![p].key = observed,
                                        ![p].pinned = (checked.outcome = "Pinned")]
      /\ UNCHANGED <<files, hostKey>>

\* Mutant: keeps a new pin in memory.
AuthenticateOnly(p) ==
  /\ Goto(p, "authenticate", "stamp")
  /\ UNCHANGED <<files, hostKey, local>>

\* Session::open returns, with the forwarder listening.
Authenticate(p) ==
  /\ Goto(p, "authenticate", IF local[p].pinned THEN "openHosts" ELSE "stamp")
  /\ UNCHANGED <<files, hostKey, local>>

OpenHosts(p, i) ==
  /\ Goto(p, "openHosts", "writeHosts")
  /\ Known!Opens(known, Held, i)
  /\ known' = Known!Opened(known, i)
  /\ local' = [local EXCEPT ![p].inode = i]
  /\ UNCHANGED <<config, hostKey>>

WriteHosts(p) ==
  /\ Goto(p, "writeHosts", "renameHosts")
  /\ known' = Known!Written(known, local[p].inode, local[p].known)
  /\ local' = [local EXCEPT ![p].inode = None]
  /\ UNCHANGED <<config, hostKey>>

RenameHosts(p) ==
  /\ Goto(p, "renameHosts", "stamp")
  /\ Known!CanRename(known)
  /\ known' = Known!Renamed(known)
  /\ UNCHANGED <<config, hostKey, local>>

\* update_server on the copy loaded when the command began.
Stamp(p) ==
  /\ Goto(p, "stamp", "open")
  /\ local' = [local EXCEPT ![p].config = Applied(local[p].config, local[p].cmd)]
  /\ UNCHANGED <<files, hostKey>>

\* The viewer exits and the session is closed.
ViewerExits(p) ==
  /\ pc[p] = "viewer"
  /\ End(p, "ok")
  /\ UNCHANGED <<files, hostKey>>

-----------------------------------------------------------------------------
Step(p) ==
  \/ Refuse(p) \/ SameMode(p) \/ LoadAndApply(p) \/ Write(p) \/ Rename(p)
  \/ LoadForConnect(p) \/ LoadHosts(p) \/ Handshake(p) \/ Authenticate(p)
  \/ WriteHosts(p) \/ RenameHosts(p) \/ Stamp(p) \/ ViewerExits(p)
  \/ \E i \in Inodes : Open(p, i) \/ OpenHosts(p, i)

Next ==
  \/ \E h \in Hosts, k \in Keys : Rekey(h, k)
  \/ \E p \in Processes : Dies(p) \/ Step(p) \/ \E cmd \in Commands : Begin(p, cmd)

Spec == Init /\ [][Next]_vars

-----------------------------------------------------------------------------
(* Properties. *)

\* With one process at a time, config.toml changes only by one whole command
\* applied to what it said, whatever failed or died before, and however long a
\* connect held its copy.
Promise == INSTANCE RegistryPromise WITH registry <- Cfg!Read(config)

PromiseSpec == Promise!Spec

\* With one process at a time, a host key that is on record stays on record.
PinsKept ==
  [][\A h \in Hosts : Known!Read(known)[h] # None =>
       Known!Read(known)'[h] = Known!Read(known)[h]]_vars

\* With one process at a time, the viewer runs only behind a tunnel to a host
\* whose key is on record in the file, so a later connect checks against it.
TunnelOnRecord ==
  \A p \in Processes :
    pc[p] = "viewer" => Known!Read(known)[Endpoint(p)] = local[p].key

\* With one process at a time, a command that changes the configuration and
\* reports success has saved the change.
SavedWhenReported ==
  [][\A p \in Processes :
       pc[p] # "load" /\ result[p] # "ok" /\ result'[p] = "ok" =>
         Cfg!Read(config)' = local[p].config]_vars

=============================================================================
