------------------------- MODULE ConfigStoreProofs -------------------------
(***************************************************************************)
(* Proofs about ConfigStore, for every number of servers, targets, keys    *)
(* and inodes.                                                             *)
(***************************************************************************)
EXTENDS ConfigStore, TLAPS

Connecting == {"loadHosts", "handshake", "authenticate", "openHosts", "writeHosts",
               "renameHosts", "stamp", "viewer"}

Saving     == {"open", "write", "rename"}

\* The endpoint of the process with locals r, as Endpoint(p) has it.
EndpointOf(r) == r.config.servers[Via(r.config, r.cmd)].host

\* What a process at a step holds while a command runs.
LocalOK(at, r) ==
  /\ at # "idle" => r.cmd \in Commands
  /\ at \in Connecting => r.cmd.op = "connect"
  /\ at \in Connecting \cup Saving /\ r.cmd.op = "connect" =>
       Registered(r.config, Via(r.config, r.cmd))
  /\ at \in {"write", "writeHosts"} => r.inode \in Inodes

\* A temporary file is never the file itself.
FilesOK ==
  /\ config.tmp # None => config.tmp # config.path
  /\ known.tmp # None => known.tmp # known.path

ShapeOK == TypeOK /\ FilesOK /\ \A p \in Processes : LocalOK(pc[p], local[p])

\* One process at a time.
Alone == \A p, q \in Processes : p = q

\* How the copy of config.toml a process works on relates to the file c.
CopyOK(at, r, c) ==
  /\ at \in Connecting => r.config = Cfg!Read(c)
  /\ at \in Saving => Accepts(Cfg!Read(c), r.cmd) /\ r.config = Applied(Cfg!Read(c), r.cmd)
  /\ at = "write" => r.inode = c.tmp
  /\ at = "rename" => c.tmp # None /\ c.data[c.tmp] = r.config

\* How its copy of known_hosts.toml and the key of its session relate to the file k.
PinOK(at, r, k) ==
  LET saved == Known!Read(k)
  IN  /\ at = "handshake" => r.known = saved
      /\ at \in {"authenticate", "openHosts", "writeHosts", "renameHosts"} =>
           /\ \A h \in Hosts : saved[h] # None => r.known[h] = saved[h]
           /\ r.known[EndpointOf(r)] = r.key
      /\ at = "authenticate" /\ ~r.pinned => saved[EndpointOf(r)] = r.key
      /\ at = "writeHosts" => r.inode = k.tmp
      /\ at = "renameHosts" => k.tmp # None /\ k.data[k.tmp] = r.known
      /\ at \in {"stamp", "viewer"} \cup Saving /\ r.cmd.op = "connect" =>
           saved[EndpointOf(r)] = r.key

IInv ==
  /\ ShapeOK
  /\ Alone => \A p \in Processes : CopyOK(pc[p], local[p], config) /\ PinOK(pc[p], local[p], known)

-----------------------------------------------------------------------------
(* The operations on a configuration. *)

\* The empty configuration is one.
LEMMA DefaultConfigType == DefaultConfig \in Config /\ NoPins \in Pins
BY RegistryAssumption DEF DefaultConfig, Config, NoPins, Pins

\* A command has the arguments of its kind.
LEMMA CommandFields ==
  ASSUME NEW cmd \in Command
  PROVE  /\ cmd.op \in {"server add", "server remove", "target add", "target remove",
                        "config set-mode", "connect"}
         /\ cmd.op \in {"server add", "server remove"} => cmd.name \in Names
         /\ cmd.op = "server add" => cmd.host \in Hosts
         /\ cmd.op \in {"target add", "target remove", "connect"} => cmd.id \in Ids
         /\ cmd.op \in {"target add", "connect"} => cmd.via \in Names \cup {None}
         /\ cmd.op = "config set-mode" => cmd.mode \in Modes
BY DEF Command

\* connect goes through a server that may be named, or through none.
LEMMA ViaType ==
  ASSUME NEW c \in Config, NEW cmd \in Command, cmd.op = "connect"
  PROVE  Via(c, cmd) \in Names \cup {None}
<1>1. cmd.id \in Ids /\ cmd.via \in Names \cup {None}
  BY CommandFields
<1>2. c.targets[cmd.id] \in Target \cup {None} /\ c.default \in Names \cup {None}
  BY <1>1 DEF Config
<1> QED BY <1>1, <1>2 DEF Via, Target

\* What connect stamps is the server it goes through; the route stays.
LEMMA StampKeeps ==
  ASSUME NEW c \in Config, NEW cmd \in Command, cmd.op = "connect",
         Registered(c, Via(c, cmd))
  PROVE  LET v == Via(c, cmd)
             d == Applied(c, cmd)
         IN  /\ v \in Names
             /\ d \in Config
             /\ Via(d, cmd) = v
             /\ Registered(d, v)
             /\ d.servers[v].host = c.servers[v].host
             /\ d.servers[v].host \in Hosts
<1> DEFINE v == Via(c, cmd)
           s == [c.servers[v] EXCEPT !.used = TRUE]
           d == Applied(c, cmd)
<1>1. v \in Names /\ c.servers \in [Names -> Server \cup {None}] /\ c.servers[v] \in Server
  BY ViaType DEF Registered, Config
<1>2. s \in Server /\ s.host = c.servers[v].host /\ s # None
  BY <1>1, RegistryNoneAssumption DEF Server
<1>3. d = [c EXCEPT !.servers[v].used = TRUE]
  BY DEF Applied
<1>4. [c EXCEPT !.servers[v].used = TRUE] = [c EXCEPT !.servers = [c.servers EXCEPT ![v] = s]]
  BY Zenon
<1>5. /\ d.servers = [c.servers EXCEPT ![v] = s]
      /\ d.targets = c.targets /\ d.mode = c.mode /\ d.default = c.default
      /\ d \in Config
  <2> HIDE DEF s, d, v
  <2> QED BY <1>1, <1>2, <1>3, <1>4 DEF Config
<1>6. Via(d, cmd) = v
  BY <1>5 DEF Via
<1>7. d.servers[v] = s
  BY <1>1, <1>5
<1> QED BY <1>1, <1>2, <1>5, <1>6, <1>7 DEF Registered, Server

\* An accepted command makes a configuration of a configuration.
LEMMA AppliedType ==
  ASSUME NEW c \in Config, NEW cmd \in Command, Accepts(c, cmd)
  PROVE  Applied(c, cmd) \in Config
<1> DEFINE d == Applied(c, cmd)
<1>0. /\ c.servers \in [Names -> Server \cup {None}]
      /\ c.targets \in [Ids -> Target \cup {None}]
      /\ c.mode \in Modes /\ c.default \in Names \cup {None}
  BY DEF Config
<1>1. CASE cmd.op = "server add"
  <2>1. d = [c EXCEPT !.servers = [c.servers EXCEPT ![cmd.name] =
                                     [host |-> cmd.host, used |-> FALSE]]]
    BY <1>1 DEF Applied
  <2>2. cmd.name \in Names /\ [host |-> cmd.host, used |-> FALSE] \in Server
    BY <1>1, CommandFields DEF Server
  <2> HIDE DEF d
  <2> QED BY <1>0, <2>1, <2>2 DEF Config, d
<1>2. CASE cmd.op = "server remove"
  <2>1. d = [c EXCEPT !.servers = [c.servers EXCEPT ![cmd.name] = None]]
    BY <1>2 DEF Applied
  <2> QED BY <1>0, <2>1 DEF Config
<1>3. CASE cmd.op = "target add"
  <2>1. d = [c EXCEPT !.targets = [c.targets EXCEPT ![cmd.id] = [via |-> cmd.via]]]
    BY <1>3 DEF Applied
  <2>2. [via |-> cmd.via] \in Target
    BY <1>3, CommandFields DEF Target
  <2> QED BY <1>0, <2>1, <2>2 DEF Config
<1>4. CASE cmd.op = "target remove"
  <2>1. d = [c EXCEPT !.targets = [c.targets EXCEPT ![cmd.id] = None]]
    BY <1>4 DEF Applied
  <2> QED BY <1>0, <2>1 DEF Config
<1>5. CASE cmd.op = "config set-mode"
  <2>1. d = [c EXCEPT !.mode = cmd.mode] /\ cmd.mode \in Modes
    BY <1>5, CommandFields DEF Applied
  <2> QED BY <1>0, <2>1 DEF Config
<1>6. CASE cmd.op = "connect"
  <2>1. Registered(c, Via(c, cmd))
    BY <1>6 DEF Accepts
  <2> QED BY <1>6, <2>1, StampKeeps
<1> QED BY <1>1, <1>2, <1>3, <1>4, <1>5, <1>6, CommandFields

-----------------------------------------------------------------------------
(* The operations on a file. *)

\* config.toml: the operations keep its type, and only a rename changes what it
\* says, to what the temporary file says.
LEMMA CfgOps ==
  ASSUME NEW f \in Cfg!File, f.tmp # None => f.tmp # f.path, NEW i \in Inodes,
         NEW v \in Config, NEW held
  PROVE  /\ Cfg!Read(f) \in Config
         /\ Cfg!Opens(f, held, i) =>
              /\ Cfg!Opened(f, i) \in Cfg!File
              /\ Cfg!Opened(f, i).tmp = i /\ i # Cfg!Opened(f, i).path
              /\ Cfg!Read(Cfg!Opened(f, i)) = Cfg!Read(f)
         /\ /\ Cfg!Written(f, i, v) \in Cfg!File
            /\ Cfg!Written(f, i, v).tmp = f.tmp /\ Cfg!Written(f, i, v).path = f.path
            /\ Cfg!Written(f, i, v).data[i] = v
            /\ i # f.path => Cfg!Read(Cfg!Written(f, i, v)) = Cfg!Read(f)
         /\ Cfg!CanRename(f) =>
              /\ Cfg!Renamed(f) \in Cfg!File
              /\ Cfg!Renamed(f).tmp = None
              /\ Cfg!Read(Cfg!Renamed(f)) = f.data[f.tmp]
<1>1. /\ f.data \in [Inodes -> Config]
      /\ f = [path |-> f.path, tmp |-> f.tmp, data |-> f.data]
      /\ f.path \in Inodes \cup {None} /\ f.tmp \in Inodes \cup {None}
      /\ None \notin Inodes
  BY StoreAssumption DEF Cfg!File
<1>2. Cfg!Opened(f, i) = [path |-> f.path, tmp |-> i,
                          data |-> [f.data EXCEPT ![i] = DefaultConfig]]
  BY DEF Cfg!Opened
<1>3. Cfg!Written(f, i, v) = [path |-> f.path, tmp |-> f.tmp,
                              data |-> [f.data EXCEPT ![i] = v]]
  BY <1>1 DEF Cfg!Written
<1>4. Cfg!Renamed(f) = [path |-> f.tmp, tmp |-> None,
                        data |-> [j \in Inodes |-> IF j = f.path THEN DefaultConfig
                                                   ELSE f.data[j]]]
  BY DEF Cfg!Renamed
<1>5. Cfg!Read(f) \in Config
  BY <1>1, DefaultConfigType DEF Cfg!Read
<1>6. Cfg!Opens(f, held, i) =>
        /\ Cfg!Opened(f, i) \in Cfg!File
        /\ Cfg!Opened(f, i).tmp = i /\ i # Cfg!Opened(f, i).path
        /\ Cfg!Read(Cfg!Opened(f, i)) = Cfg!Read(f)
  BY <1>1, <1>2, DefaultConfigType DEF Cfg!Opens, Cfg!File, Cfg!Read
<1>7. /\ Cfg!Written(f, i, v) \in Cfg!File
      /\ Cfg!Written(f, i, v).tmp = f.tmp /\ Cfg!Written(f, i, v).path = f.path
      /\ Cfg!Written(f, i, v).data[i] = v
      /\ i # f.path => Cfg!Read(Cfg!Written(f, i, v)) = Cfg!Read(f)
  BY <1>1, <1>3 DEF Cfg!File, Cfg!Read
<1>8. Cfg!CanRename(f) =>
        /\ Cfg!Renamed(f) \in Cfg!File
        /\ Cfg!Renamed(f).tmp = None
        /\ Cfg!Read(Cfg!Renamed(f)) = f.data[f.tmp]
  BY <1>1, <1>4, DefaultConfigType DEF Cfg!File, Cfg!Read, Cfg!CanRename
<1> QED BY <1>5, <1>6, <1>7, <1>8

\* known_hosts.toml: likewise.
LEMMA KnownOps ==
  ASSUME NEW f \in Known!File, f.tmp # None => f.tmp # f.path, NEW i \in Inodes,
         NEW v \in Pins, NEW held
  PROVE  /\ Known!Read(f) \in Pins
         /\ Known!Opens(f, held, i) =>
              /\ Known!Opened(f, i) \in Known!File
              /\ Known!Opened(f, i).tmp = i /\ i # Known!Opened(f, i).path
              /\ Known!Read(Known!Opened(f, i)) = Known!Read(f)
         /\ /\ Known!Written(f, i, v) \in Known!File
            /\ Known!Written(f, i, v).tmp = f.tmp /\ Known!Written(f, i, v).path = f.path
            /\ Known!Written(f, i, v).data[i] = v
            /\ i # f.path => Known!Read(Known!Written(f, i, v)) = Known!Read(f)
         /\ Known!CanRename(f) =>
              /\ Known!Renamed(f) \in Known!File
              /\ Known!Renamed(f).tmp = None
              /\ Known!Read(Known!Renamed(f)) = f.data[f.tmp]
<1>1. /\ f.data \in [Inodes -> Pins]
      /\ f = [path |-> f.path, tmp |-> f.tmp, data |-> f.data]
      /\ f.path \in Inodes \cup {None} /\ f.tmp \in Inodes \cup {None}
      /\ None \notin Inodes
  BY StoreAssumption DEF Known!File
<1>2. Known!Opened(f, i) = [path |-> f.path, tmp |-> i,
                            data |-> [f.data EXCEPT ![i] = NoPins]]
  BY DEF Known!Opened
<1>3. Known!Written(f, i, v) = [path |-> f.path, tmp |-> f.tmp,
                                data |-> [f.data EXCEPT ![i] = v]]
  BY <1>1 DEF Known!Written
<1>4. Known!Renamed(f) = [path |-> f.tmp, tmp |-> None,
                          data |-> [j \in Inodes |-> IF j = f.path THEN NoPins
                                                     ELSE f.data[j]]]
  BY DEF Known!Renamed
<1>5. Known!Read(f) \in Pins
  BY <1>1, DefaultConfigType DEF Known!Read
<1>6. Known!Opens(f, held, i) =>
        /\ Known!Opened(f, i) \in Known!File
        /\ Known!Opened(f, i).tmp = i /\ i # Known!Opened(f, i).path
        /\ Known!Read(Known!Opened(f, i)) = Known!Read(f)
  BY <1>1, <1>2, DefaultConfigType DEF Known!Opens, Known!File, Known!Read
<1>7. /\ Known!Written(f, i, v) \in Known!File
      /\ Known!Written(f, i, v).tmp = f.tmp /\ Known!Written(f, i, v).path = f.path
      /\ Known!Written(f, i, v).data[i] = v
      /\ i # f.path => Known!Read(Known!Written(f, i, v)) = Known!Read(f)
  BY <1>1, <1>3 DEF Known!File, Known!Read
<1>8. Known!CanRename(f) =>
        /\ Known!Renamed(f) \in Known!File
        /\ Known!Renamed(f).tmp = None
        /\ Known!Read(Known!Renamed(f)) = f.data[f.tmp]
  BY <1>1, <1>4, DefaultConfigType DEF Known!File, Known!Read, Known!CanRename
<1> QED BY <1>5, <1>6, <1>7, <1>8

\* What the two files say is a configuration and a set of pins.
LEMMA ReadType ==
  /\ \A f \in Cfg!File : Cfg!Read(f) \in Config
  /\ \A f \in Known!File : Known!Read(f) \in Pins
BY DefaultConfigType, StoreAssumption DEF Cfg!File, Cfg!Read, Known!File, Known!Read

-----------------------------------------------------------------------------
(* One step. *)

\* What a process holds that runs no command.
LEMMA NoLocalType == NoLocal \in Local
BY DefaultConfigType DEF NoLocal, Local

\* A step of one process keeps the invariant if what that process holds then is in
\* order.
LEMMA Frame ==
  ASSUME IInv, NEW p \in Processes, NEW to \in Steps \cup {"idle"}, NEW r \in Local,
         pc' = [pc EXCEPT ![p] = to], local' = [local EXCEPT ![p] = r],
         result' \in [Processes -> {"none", "ok", "error"}], hostKey' \in [Hosts -> Keys],
         config' \in Cfg!File, known' \in Known!File, FilesOK', LocalOK(to, r),
         Alone => CopyOK(to, r, config') /\ PinOK(to, r, known')
  PROVE  IInv'
<1>1. /\ pc \in [Processes -> Steps \cup {"idle"}]
      /\ local \in [Processes -> Local]
  BY DEF IInv, ShapeOK, TypeOK
<1>2. pc'[p] = to /\ local'[p] = r
  BY <1>1
<1>3. ASSUME NEW q \in Processes, q # p
      PROVE  pc'[q] = pc[q] /\ local'[q] = local[q]
  BY <1>1, <1>3
<1>4. TypeOK'
  BY <1>1 DEF TypeOK
<1>5. ASSUME NEW q \in Processes
      PROVE  LocalOK(pc'[q], local'[q])
  <2>1. CASE q = p
    BY <2>1, <1>2
  <2>2. CASE q # p
    BY <2>2, <1>3 DEF IInv, ShapeOK
  <2> QED BY <2>1, <2>2
<1>6. ASSUME Alone, NEW q \in Processes
      PROVE  CopyOK(pc'[q], local'[q], config') /\ PinOK(pc'[q], local'[q], known')
  <2>1. q = p
    BY <1>6 DEF Alone
  <2> QED BY <2>1, <1>2, <1>6
<1> QED BY <1>4, <1>5, <1>6 DEF IInv, ShapeOK, Alone

\* The end of a command leaves nothing to hold.
LEMMA EndInv ==
  ASSUME IInv, NEW p \in Processes, NEW how \in {"ok", "error"}, End(p, how),
         hostKey' = hostKey, config' \in Cfg!File, known' \in Known!File, FilesOK'
  PROVE  IInv'
<1>1. LocalOK("idle", NoLocal) /\ "idle" \in Steps \cup {"idle"}
  BY DEF LocalOK, Connecting, Saving
<1>2. CopyOK("idle", NoLocal, config') /\ PinOK("idle", NoLocal, known')
  BY DEF CopyOK, PinOK, Connecting, Saving
<1>3. result' \in [Processes -> {"none", "ok", "error"}] /\ hostKey' \in [Hosts -> Keys]
  BY DEF End, IInv, ShapeOK, TypeOK
<1>4. pc' = [pc EXCEPT ![p] = "idle"] /\ local' = [local EXCEPT ![p] = NoLocal]
  BY DEF End
<1> QED BY <1>1, <1>2, <1>3, <1>4, NoLocalType, Frame

\* What holds of a process and of the files before its step.
LEMMA Before ==
  ASSUME IInv, NEW p \in Processes
  PROVE  /\ local[p] \in Local /\ LocalOK(pc[p], local[p])
         /\ pc[p] # "idle" => local[p].cmd \in Commands /\ local[p].cmd \in Command
         /\ Alone => CopyOK(pc[p], local[p], config) /\ PinOK(pc[p], local[p], known)
         /\ config \in Cfg!File /\ known \in Known!File /\ hostKey \in [Hosts -> Keys]
         /\ result \in [Processes -> {"none", "ok", "error"}]
         /\ FilesOK
<1>1. local[p] \in Local /\ LocalOK(pc[p], local[p])
  BY DEF IInv, ShapeOK, TypeOK
<1>2. pc[p] # "idle" => local[p].cmd \in Commands /\ local[p].cmd \in Command
  BY <1>1, StoreAssumption DEF LocalOK
<1> QED BY <1>1, <1>2 DEF IInv, ShapeOK, TypeOK

\* The locals with another command.
LEMMA SetCmd ==
  ASSUME NEW r \in Local, NEW c \in Command,
         NEW s, s = [r EXCEPT !.cmd = c]
  PROVE  /\ s \in Local
         /\ s.cmd = c
         /\ s.config = r.config /\ s.known = r.known /\ s.key = r.key /\ s.pinned = r.pinned /\ s.inode = r.inode
BY DEF Local

\* The locals with another copy of config.toml.
LEMMA SetConfig ==
  ASSUME NEW r \in Local, NEW c \in Config,
         NEW s, s = [r EXCEPT !.config = c]
  PROVE  /\ s \in Local
         /\ s.config = c
         /\ s.cmd = r.cmd /\ s.known = r.known /\ s.key = r.key /\ s.pinned = r.pinned /\ s.inode = r.inode
BY DEF Local

\* The locals with another copy of known_hosts.toml.
LEMMA SetKnown ==
  ASSUME NEW r \in Local, NEW k \in Pins,
         NEW s, s = [r EXCEPT !.known = k]
  PROVE  /\ s \in Local
         /\ s.known = k
         /\ s.cmd = r.cmd /\ s.config = r.config /\ s.key = r.key /\ s.pinned = r.pinned /\ s.inode = r.inode
BY DEF Local

\* The locals with another temporary file.
LEMMA SetInode ==
  ASSUME NEW r \in Local, NEW i \in Inodes \cup {None},
         NEW s, s = [r EXCEPT !.inode = i]
  PROVE  /\ s \in Local
         /\ s.inode = i
         /\ s.cmd = r.cmd /\ s.config = r.config /\ s.known = r.known /\ s.key = r.key /\ s.pinned = r.pinned
BY DEF Local

\* The endpoint a connect goes to.
LEMMA EndpointType ==
  ASSUME NEW r \in Local, r.cmd \in Command, r.cmd.op = "connect",
         Registered(r.config, Via(r.config, r.cmd))
  PROVE  EndpointOf(r) \in Hosts
<1>1. r.config \in Config
  BY DEF Local
<1>2. r.config.servers[Via(r.config, r.cmd)] \in Server
  BY <1>1, ViaType DEF Registered, Config
<1> QED BY <1>2 DEF EndpointOf, Server

-----------------------------------------------------------------------------
(* The steps of every command. *)

\* A command begins.
LEMMA BeginInv ==
  ASSUME IInv, NEW p \in Processes, NEW cmd \in Commands, Begin(p, cmd)
  PROVE  IInv'
<1> PICK r : r = [local[p] EXCEPT !.cmd = cmd]
  OBVIOUS
<1>1. r \in Local /\ r.cmd = cmd
  BY Before, SetCmd, StoreAssumption
<1>2. local' = [local EXCEPT ![p] = [local[p] EXCEPT !.cmd = cmd]]
  BY Zenon DEF Begin
<1>3. LocalOK("load", r) /\ CopyOK("load", r, config') /\ PinOK("load", r, known')
  BY <1>1 DEF LocalOK, CopyOK, PinOK, Connecting, Saving
<1>4. /\ result' \in [Processes -> {"none", "ok", "error"}]
      /\ config' \in Cfg!File /\ known' \in Known!File /\ hostKey' \in [Hosts -> Keys] /\ FilesOK'
  BY Before DEF Begin, files, FilesOK
<1>5. pc' = [pc EXCEPT ![p] = "load"] /\ "load" \in Steps \cup {"idle"}
  BY DEF Begin, Steps
<1> QED BY <1>1, <1>2, <1>3, <1>4, <1>5, Frame

\* A command ends, and leaves the files as they are.
LEMMA EndsInv ==
  ASSUME IInv, NEW p \in Processes,
         Refuse(p) \/ SameMode(p) \/ ViewerExits(p) \/ Dies(p)
  PROVE  IInv'
<1>1. UNCHANGED <<files, hostKey>> /\ (End(p, "error") \/ End(p, "ok"))
  BY DEF Refuse, SameMode, ViewerExits, Dies
<1>2. config' \in Cfg!File /\ known' \in Known!File /\ FilesOK'
  BY <1>1, Before DEF files, FilesOK
<1> QED BY <1>1, <1>2, EndInv

\* A command other than connect changes its copy.
LEMMA LoadAndApplyInv ==
  ASSUME IInv, NEW p \in Processes, LoadAndApply(p)
  PROVE  IInv'
<1> DEFINE copy == Cfg!Read(config)
           cmd  == local[p].cmd
<1> PICK r : r = [local[p] EXCEPT !.config = Applied(copy, cmd)]
  OBVIOUS
<1>1. /\ cmd \in Command /\ cmd \in Commands /\ copy \in Config /\ Accepts(copy, cmd)
      /\ cmd.op # "connect"
  BY Before, ReadType DEF LoadAndApply, Goto, FilesOK
<1>2. Applied(copy, cmd) \in Config
  BY <1>1, AppliedType
<1>3. r \in Local /\ r.cmd = cmd /\ r.config = Applied(copy, cmd)
  BY <1>2, Before, SetConfig
<1>4. local' = [local EXCEPT ![p] = [local[p] EXCEPT !.config = Applied(copy, cmd)]]
  BY Zenon DEF LoadAndApply
<1>5. LocalOK("open", r)
  BY <1>1, <1>3 DEF LocalOK, Connecting, Saving
<1>6. CopyOK("open", r, config') /\ PinOK("open", r, known')
  BY <1>1, <1>3 DEF CopyOK, PinOK, Connecting, Saving, LoadAndApply, files
<1>7. /\ result' \in [Processes -> {"none", "ok", "error"}]
      /\ config' \in Cfg!File /\ known' \in Known!File /\ hostKey' \in [Hosts -> Keys] /\ FilesOK'
  BY Before DEF LoadAndApply, Goto, files, FilesOK
<1>8. pc' = [pc EXCEPT ![p] = "open"] /\ "open" \in Steps \cup {"idle"}
  BY DEF LoadAndApply, Goto, Steps
<1> QED BY <1>3, <1>4, <1>5, <1>6, <1>7, <1>8, Frame

\* The temporary file of config.toml is opened.
LEMMA OpenInv ==
  ASSUME IInv, NEW p \in Processes, NEW i \in Inodes, Open(p, i)
  PROVE  IInv'
<1> PICK r : r = [local[p] EXCEPT !.inode = i]
  OBVIOUS
<1>1. /\ r \in Local /\ r.inode = i
      /\ r.cmd = local[p].cmd /\ r.config = local[p].config /\ r.key = local[p].key
  BY Before, SetInode
<1>2. local' = [local EXCEPT ![p] = [local[p] EXCEPT !.inode = i]]
  BY Zenon DEF Open
<1>3. /\ config' \in Cfg!File
      /\ config'.tmp = i /\ i # config'.path
      /\ Cfg!Read(config') = Cfg!Read(config)
  <2>1. Cfg!Opens(config, Held, i) /\ config' = Cfg!Opened(config, i)
    BY DEF Open
  <2> QED BY <2>1, Before, CfgOps, DefaultConfigType DEF FilesOK
<1>4. LocalOK("write", r)
  BY <1>1, Before DEF LocalOK, Connecting, Saving, Open, Goto
<1>5. Alone => CopyOK("write", r, config')
  BY <1>1, <1>3, Before DEF CopyOK, Connecting, Saving, Open, Goto
<1>6. Alone => PinOK("write", r, known')
  BY <1>1, Before DEF PinOK, EndpointOf, Saving, Open, Goto
<1>7. /\ result' \in [Processes -> {"none", "ok", "error"}]
      /\ known' \in Known!File /\ hostKey' \in [Hosts -> Keys] /\ FilesOK'
  BY <1>3, Before DEF Open, Goto, FilesOK
<1>8. pc' = [pc EXCEPT ![p] = "write"] /\ "write" \in Steps \cup {"idle"}
  BY DEF Open, Goto, Steps
<1> QED BY <1>1, <1>2, <1>3, <1>4, <1>5, <1>6, <1>7, <1>8, Frame

\* The copy is written to it.
LEMMA WriteInv ==
  ASSUME IInv, NEW p \in Processes, Write(p)
  PROVE  IInv'
<1> PICK r : r = [local[p] EXCEPT !.inode = None]
  OBVIOUS
<1>1. /\ r \in Local
      /\ r.cmd = local[p].cmd /\ r.config = local[p].config /\ r.key = local[p].key
      /\ r.config \in Config
  BY Before, SetInode DEF Local
<1>2. local' = [local EXCEPT ![p] = [local[p] EXCEPT !.inode = None]]
  BY Zenon DEF Write
<1>3. local[p].inode \in Inodes
  BY Before DEF Write, Goto, LocalOK
<1>4. /\ config' \in Cfg!File
      /\ config'.tmp = config.tmp /\ config'.path = config.path
      /\ config'.data[local[p].inode] = r.config
      /\ local[p].inode # config.path => Cfg!Read(config') = Cfg!Read(config)
  <2>1. config' = Cfg!Written(config, local[p].inode, r.config)
    BY <1>1 DEF Write
  <2>2. PICK i \in Inodes : i = local[p].inode
    BY <1>3
  <2>3. config \in Cfg!File /\ (config.tmp # None => config.tmp # config.path)
    BY Before DEF FilesOK
  <2>4. /\ Cfg!Written(config, i, r.config) \in Cfg!File
        /\ Cfg!Written(config, i, r.config).tmp = config.tmp
        /\ Cfg!Written(config, i, r.config).path = config.path
        /\ Cfg!Written(config, i, r.config).data[i] = r.config
        /\ i # config.path => Cfg!Read(Cfg!Written(config, i, r.config)) = Cfg!Read(config)
    BY <1>1, <2>3, CfgOps
  <2> QED BY <2>1, <2>2, <2>4
<1>5. Alone => local[p].inode = config.tmp /\ config.tmp # None /\ config.tmp # config.path
  BY <1>3, Before, StoreAssumption DEF CopyOK, FilesOK, Write, Goto
<1>6. LocalOK("rename", r)
  BY <1>1, Before DEF LocalOK, Connecting, Saving, Write, Goto
<1>7. Alone => CopyOK("rename", r, config')
  BY <1>1, <1>4, <1>5, Before DEF CopyOK, Connecting, Saving, Write, Goto
<1>8. Alone => PinOK("rename", r, known')
  BY <1>1, Before DEF PinOK, EndpointOf, Saving, Write, Goto
<1>9. /\ result' \in [Processes -> {"none", "ok", "error"}]
      /\ known' \in Known!File /\ hostKey' \in [Hosts -> Keys] /\ FilesOK'
  BY <1>4, Before DEF Write, Goto, FilesOK
<1>10. pc' = [pc EXCEPT ![p] = "rename"] /\ "rename" \in Steps \cup {"idle"}
  BY DEF Write, Goto, Steps
<1> QED BY <1>1, <1>2, <1>4, <1>6, <1>7, <1>8, <1>9, <1>10, Frame

\* It takes the place of the file.
LEMMA RenameInv ==
  ASSUME IInv, NEW p \in Processes, Rename(p)
  PROVE  IInv'
<1>1. /\ config' \in Cfg!File /\ config'.tmp = None
      /\ Cfg!Read(config') = config.data[config.tmp]
  <2>1. /\ Cfg!CanRename(config) /\ config' = Cfg!Renamed(config)
        /\ config.tmp \in Inodes
    BY Before DEF Rename, Cfg!CanRename, Cfg!File
  <2> QED BY <2>1, Before, CfgOps, DefaultConfigType DEF FilesOK
<1>2. known' = known /\ hostKey' = hostKey /\ FilesOK' /\ known' \in Known!File
  BY <1>1, Before DEF Rename, FilesOK
<1>3. CASE local[p].cmd.op # "connect"
  <2>1. End(p, "ok")
    BY <1>3 DEF Rename
  <2> QED BY <1>1, <1>2, <2>1, EndInv
<1>4. CASE local[p].cmd.op = "connect"
  <2> PICK r : r = local[p]
    OBVIOUS
  <2>1. Goto(p, "rename", "viewer") /\ local' = local
    BY <1>4 DEF Rename
  <2>2. r \in Local /\ local' = [local EXCEPT ![p] = r]
    BY <2>1, Before DEF IInv, ShapeOK, TypeOK
  <2>3. LocalOK("viewer", r)
    BY <1>4, <2>1, Before DEF LocalOK, Connecting, Saving, Goto
  <2>4. Alone => CopyOK("viewer", r, config')
    BY <1>1, <2>1, Before DEF CopyOK, Connecting, Saving, Goto
  <2>5. Alone => PinOK("viewer", r, known')
    BY <1>2, <1>4, <2>1, Before DEF PinOK, Saving, Goto
  <2>6. /\ result' \in [Processes -> {"none", "ok", "error"}] /\ hostKey' \in [Hosts -> Keys]
    BY <1>2, <2>1, Before DEF Goto
  <2>7. pc' = [pc EXCEPT ![p] = "viewer"] /\ "viewer" \in Steps \cup {"idle"}
    BY <2>1 DEF Goto, Steps
  <2> QED BY <1>1, <1>2, <2>2, <2>3, <2>4, <2>5, <2>6, <2>7, Frame
<1> QED BY <1>3, <1>4

-----------------------------------------------------------------------------
(* The steps of connect. *)

\* It loads its copy of config.toml.
LEMMA LoadForConnectInv ==
  ASSUME IInv, NEW p \in Processes, LoadForConnect(p)
  PROVE  IInv'
<1> PICK r : r = [local[p] EXCEPT !.config = Cfg!Read(config)]
  OBVIOUS
<1>1. /\ r \in Local /\ r.cmd = local[p].cmd /\ r.config = Cfg!Read(config)
      /\ r.cmd \in Commands /\ r.cmd.op = "connect"
  BY Before, ReadType, SetConfig DEF LoadForConnect, Goto
<1>2. Registered(r.config, Via(r.config, r.cmd))
  BY <1>1 DEF LoadForConnect, Accepts
<1>3. local' = [local EXCEPT ![p] = [local[p] EXCEPT !.config = Cfg!Read(config)]]
  BY Zenon DEF LoadForConnect
<1>4. LocalOK("loadHosts", r)
  BY <1>1, <1>2 DEF LocalOK
<1>5. config' = config /\ CopyOK("loadHosts", r, config') /\ PinOK("loadHosts", r, known')
  BY <1>1 DEF CopyOK, PinOK, Saving, LoadForConnect, files
<1>6. /\ result' \in [Processes -> {"none", "ok", "error"}]
      /\ config' \in Cfg!File /\ known' \in Known!File /\ hostKey' \in [Hosts -> Keys] /\ FilesOK'
  BY Before DEF LoadForConnect, Goto, files, FilesOK
<1>7. pc' = [pc EXCEPT ![p] = "loadHosts"] /\ "loadHosts" \in Steps \cup {"idle"}
  BY DEF LoadForConnect, Goto, Steps
<1> QED BY <1>1, <1>3, <1>4, <1>5, <1>6, <1>7, Frame

\* It loads its copy of known_hosts.toml.
LEMMA LoadHostsInv ==
  ASSUME IInv, NEW p \in Processes, LoadHosts(p)
  PROVE  IInv'
<1> PICK r : r = [local[p] EXCEPT !.known = Known!Read(known)]
  OBVIOUS
<1>1. /\ r \in Local /\ r.cmd = local[p].cmd /\ r.config = local[p].config
      /\ r.known = Known!Read(known)
  BY Before, ReadType, SetKnown
<1>2. local' = [local EXCEPT ![p] = [local[p] EXCEPT !.known = Known!Read(known)]]
  BY Zenon DEF LoadHosts
<1>3. LocalOK("handshake", r)
  BY <1>1, Before DEF LocalOK, Connecting, LoadHosts, Goto
<1>4. Alone => CopyOK("handshake", r, config')
  BY <1>1, Before DEF CopyOK, Connecting, Saving, LoadHosts, Goto, files
<1>5. PinOK("handshake", r, known')
  BY <1>1 DEF PinOK, Saving, LoadHosts, files
<1>6. /\ result' \in [Processes -> {"none", "ok", "error"}]
      /\ config' \in Cfg!File /\ known' \in Known!File /\ hostKey' \in [Hosts -> Keys] /\ FilesOK'
  BY Before DEF LoadHosts, Goto, files, FilesOK
<1>7. pc' = [pc EXCEPT ![p] = "handshake"] /\ "handshake" \in Steps \cup {"idle"}
  BY DEF LoadHosts, Goto, Steps
<1> QED BY <1>1, <1>2, <1>3, <1>4, <1>5, <1>6, <1>7, Frame

\* A key that is not refused is in the pins from then on, next to all the pins that
\* were there.
LEMMA VerifyKeeps ==
  ASSUME NEW k \in Pins, NEW h \in Hosts, NEW x \in Keys,
         VerifyOrPin(k, h, x).outcome # "Mismatch"
  PROVE  LET v == VerifyOrPin(k, h, x)
         IN  /\ v.pins \in Pins /\ v.pins[h] = x
             /\ \A g \in Hosts : k[g] # None => v.pins[g] = k[g]
             /\ v.outcome # "Pinned" => k[h] = x
BY DEF VerifyOrPin, Pins

\* It checks the host key, or pins it.
LEMMA HandshakeInv ==
  ASSUME IInv, NEW p \in Processes, Handshake(p)
  PROVE  IInv'
<1> DEFINE observed == hostKey[Endpoint(p)]
           checked  == VerifyOrPin(local[p].known, Endpoint(p), observed)
<1>0. /\ config' \in Cfg!File /\ known' \in Known!File /\ hostKey' \in [Hosts -> Keys] /\ FilesOK'
      /\ hostKey' = hostKey /\ config' = config /\ known' = known
  BY Before DEF Handshake, files, FilesOK
<1>1. CASE checked.outcome = "Mismatch"
  <2>1. End(p, "error")
    BY <1>1 DEF Handshake
  <2> QED BY <1>0, <2>1, EndInv
<1>2. CASE checked.outcome # "Mismatch"
  <2> PICK r : r = [local[p] EXCEPT !.known = checked.pins, !.key = observed,
                                    !.pinned = (checked.outcome = "Pinned")]
    OBVIOUS
  <2>1. /\ Goto(p, "handshake", "authenticate")
        /\ local' = [local EXCEPT ![p].known = checked.pins, ![p].key = observed,
                                  ![p].pinned = (checked.outcome = "Pinned")]
    BY <1>2 DEF Handshake
  <2>2. Endpoint(p) = EndpointOf(local[p])
    BY DEF Endpoint, EndpointOf
  <2>3. Endpoint(p) \in Hosts
    BY <2>1, <2>2, Before, EndpointType DEF LocalOK, Connecting, Goto
  <2>4. observed \in Keys /\ local[p].known \in Pins
    BY <2>3, Before DEF Local
  <2>5. /\ checked.pins \in Pins /\ checked.pins[Endpoint(p)] = observed
        /\ \A g \in Hosts : local[p].known[g] # None => checked.pins[g] = local[p].known[g]
        /\ checked.outcome # "Pinned" => local[p].known[Endpoint(p)] = observed
    BY <1>2, <2>3, <2>4, VerifyKeeps
  <2> HIDE DEF checked, observed
  <2>6. /\ r \in Local /\ r.known = checked.pins /\ r.key = observed
        /\ r.pinned = (checked.outcome = "Pinned")
        /\ r.cmd = local[p].cmd /\ r.config = local[p].config
    <3>1. PICK q \in Local : q = local[p]
      BY Before
    <3>2. PICK k \in Pins, x \in Keys : k = checked.pins /\ x = observed
      BY <2>4, <2>5
    <3>3. PICK b \in BOOLEAN : b = (checked.outcome = "Pinned")
      OBVIOUS
    <3>4. r = [q EXCEPT !.known = k, !.key = x, !.pinned = b]
      BY <3>1, <3>2, <3>3
    <3>5. /\ r \in Local /\ r.known = k /\ r.key = x /\ r.pinned = b
          /\ r.cmd = q.cmd /\ r.config = q.config
      BY <3>4 DEF Local
    <3> QED BY <3>1, <3>2, <3>3, <3>5
  <2>7. local' = [local EXCEPT ![p] = r]
    BY <2>1, Before DEF IInv, ShapeOK, TypeOK
  <2>8. LocalOK("authenticate", r)
    BY <2>1, <2>6, Before DEF LocalOK, Connecting, Goto
  <2>9. Alone => CopyOK("authenticate", r, config')
    BY <1>0, <2>1, <2>6, Before DEF CopyOK, Connecting, Saving, Goto
  <2>10. EndpointOf(r) = Endpoint(p)
    BY <2>2, <2>6 DEF EndpointOf
  <2>11. Alone => local[p].known = Known!Read(known)
    BY <2>1, Before DEF PinOK, Goto
  <2>12. Alone => PinOK("authenticate", r, known')
    BY <1>0, <2>5, <2>6, <2>10, <2>11 DEF PinOK, Saving
  <2>13. /\ result' \in [Processes -> {"none", "ok", "error"}]
         /\ pc' = [pc EXCEPT ![p] = "authenticate"] /\ "authenticate" \in Steps \cup {"idle"}
    BY <2>1, Before DEF Goto, Steps
  <2> QED BY <1>0, <2>6, <2>7, <2>8, <2>9, <2>12, <2>13, Frame
<1> QED BY <1>1, <1>2

\* The session is open, and a new pin is to be saved.
LEMMA AuthenticateInv ==
  ASSUME IInv, NEW p \in Processes, Authenticate(p)
  PROVE  IInv'
<1> PICK r : r = local[p]
  OBVIOUS
<1> PICK to : to = IF local[p].pinned THEN "openHosts" ELSE "stamp"
  OBVIOUS
<1>1. r \in Local /\ local' = [local EXCEPT ![p] = r]
  BY Before DEF Authenticate, IInv, ShapeOK, TypeOK
<1>2. LocalOK(to, r)
  BY Before DEF LocalOK, Connecting, Authenticate, Goto
<1>3. Alone => CopyOK(to, r, config')
  BY Before DEF CopyOK, Connecting, Saving, Authenticate, Goto, files
<1>4. Alone => PinOK(to, r, known')
  <2>1. known' = known /\ pc[p] = "authenticate" /\ r.pinned \in BOOLEAN
    BY <1>1 DEF Authenticate, Goto, files, Local
  <2>2. CASE r.pinned
    BY <2>1, <2>2, Before DEF PinOK, Saving
  <2>3. CASE ~r.pinned
    BY <2>1, <2>3, Before DEF PinOK, Saving
  <2> QED BY <2>1, <2>2, <2>3
<1>5. /\ result' \in [Processes -> {"none", "ok", "error"}]
      /\ config' \in Cfg!File /\ known' \in Known!File /\ hostKey' \in [Hosts -> Keys] /\ FilesOK'
  BY Before DEF Authenticate, Goto, files, FilesOK
<1>6. pc' = [pc EXCEPT ![p] = to] /\ to \in Steps \cup {"idle"}
  BY DEF Authenticate, Goto, Steps
<1> QED BY <1>1, <1>2, <1>3, <1>4, <1>5, <1>6, Frame

\* The temporary file of known_hosts.toml is opened.
LEMMA OpenHostsInv ==
  ASSUME IInv, NEW p \in Processes, NEW i \in Inodes, OpenHosts(p, i)
  PROVE  IInv'
<1> PICK r : r = [local[p] EXCEPT !.inode = i]
  OBVIOUS
<1>1. /\ r \in Local /\ r.inode = i /\ r.known = local[p].known
      /\ r.cmd = local[p].cmd /\ r.config = local[p].config /\ r.key = local[p].key
  BY Before, SetInode
<1>2. local' = [local EXCEPT ![p] = [local[p] EXCEPT !.inode = i]]
  BY Zenon DEF OpenHosts
<1>3. /\ known' \in Known!File
      /\ known'.tmp = i /\ i # known'.path
      /\ Known!Read(known') = Known!Read(known)
  <2>1. Known!Opens(known, Held, i) /\ known' = Known!Opened(known, i)
    BY DEF OpenHosts
  <2> QED BY <2>1, Before, KnownOps, DefaultConfigType DEF FilesOK
<1>4. LocalOK("writeHosts", r)
  BY <1>1, Before DEF LocalOK, Connecting, OpenHosts, Goto
<1>5. Alone => CopyOK("writeHosts", r, config')
  BY <1>1, Before DEF CopyOK, Connecting, Saving, OpenHosts, Goto
<1>6. Alone => PinOK("writeHosts", r, known')
  BY <1>1, <1>3, Before DEF PinOK, EndpointOf, Saving, OpenHosts, Goto
<1>7. /\ result' \in [Processes -> {"none", "ok", "error"}]
      /\ config' \in Cfg!File /\ hostKey' \in [Hosts -> Keys] /\ FilesOK'
  BY <1>3, Before DEF OpenHosts, Goto, FilesOK
<1>8. pc' = [pc EXCEPT ![p] = "writeHosts"] /\ "writeHosts" \in Steps \cup {"idle"}
  BY DEF OpenHosts, Goto, Steps
<1> QED BY <1>1, <1>2, <1>3, <1>4, <1>5, <1>6, <1>7, <1>8, Frame

\* The pins are written to it.
LEMMA WriteHostsInv ==
  ASSUME IInv, NEW p \in Processes, WriteHosts(p)
  PROVE  IInv'
<1> PICK r : r = [local[p] EXCEPT !.inode = None]
  OBVIOUS
<1>1. /\ r \in Local /\ r.known = local[p].known /\ r.known \in Pins
      /\ r.cmd = local[p].cmd /\ r.config = local[p].config /\ r.key = local[p].key
  BY Before, SetInode DEF Local
<1>2. local' = [local EXCEPT ![p] = [local[p] EXCEPT !.inode = None]]
  BY Zenon DEF WriteHosts
<1>3. local[p].inode \in Inodes
  BY Before DEF WriteHosts, Goto, LocalOK
<1>4. /\ known' \in Known!File
      /\ known'.tmp = known.tmp /\ known'.path = known.path
      /\ known'.data[local[p].inode] = r.known
      /\ local[p].inode # known.path => Known!Read(known') = Known!Read(known)
  <2>1. known' = Known!Written(known, local[p].inode, r.known)
    BY <1>1 DEF WriteHosts
  <2>2. PICK i \in Inodes : i = local[p].inode
    BY <1>3
  <2>3. known \in Known!File /\ (known.tmp # None => known.tmp # known.path)
    BY Before DEF FilesOK
  <2>4. /\ Known!Written(known, i, r.known) \in Known!File
        /\ Known!Written(known, i, r.known).tmp = known.tmp
        /\ Known!Written(known, i, r.known).path = known.path
        /\ Known!Written(known, i, r.known).data[i] = r.known
        /\ i # known.path => Known!Read(Known!Written(known, i, r.known)) = Known!Read(known)
    BY <1>1, <2>3, KnownOps
  <2> QED BY <2>1, <2>2, <2>4
<1>5. Alone => local[p].inode = known.tmp /\ known.tmp # None /\ known.tmp # known.path
  BY <1>3, Before, StoreAssumption DEF PinOK, FilesOK, WriteHosts, Goto
<1>6. LocalOK("renameHosts", r)
  BY <1>1, Before DEF LocalOK, Connecting, WriteHosts, Goto
<1>7. Alone => CopyOK("renameHosts", r, config')
  BY <1>1, Before DEF CopyOK, Connecting, Saving, WriteHosts, Goto
<1>8. Alone => PinOK("renameHosts", r, known')
  BY <1>1, <1>4, <1>5, Before DEF PinOK, EndpointOf, Saving, WriteHosts, Goto
<1>9. /\ result' \in [Processes -> {"none", "ok", "error"}]
      /\ config' \in Cfg!File /\ hostKey' \in [Hosts -> Keys] /\ FilesOK'
  BY <1>4, Before DEF WriteHosts, Goto, FilesOK
<1>10. pc' = [pc EXCEPT ![p] = "renameHosts"] /\ "renameHosts" \in Steps \cup {"idle"}
  BY DEF WriteHosts, Goto, Steps
<1> QED BY <1>1, <1>2, <1>4, <1>6, <1>7, <1>8, <1>9, <1>10, Frame

\* It takes the place of known_hosts.toml, which then says the pins of the process.
LEMMA RenameHostsInv ==
  ASSUME IInv, NEW p \in Processes, RenameHosts(p)
  PROVE  IInv' /\ (Alone => Known!Read(known') = local[p].known)
<1> PICK r : r = local[p]
  OBVIOUS
<1>1. /\ known' \in Known!File /\ known'.tmp = None
      /\ Known!Read(known') = known.data[known.tmp]
  <2>1. /\ Known!CanRename(known) /\ known' = Known!Renamed(known)
        /\ known.tmp \in Inodes
    BY Before DEF RenameHosts, Known!CanRename, Known!File
  <2> QED BY <2>1, Before, KnownOps, DefaultConfigType DEF FilesOK
<1>2. r \in Local /\ local' = [local EXCEPT ![p] = r]
  BY Before DEF RenameHosts, IInv, ShapeOK, TypeOK
<1>3. LocalOK("stamp", r)
  BY Before DEF LocalOK, Connecting, RenameHosts, Goto
<1>4. Alone => CopyOK("stamp", r, config')
  BY Before DEF CopyOK, Connecting, Saving, RenameHosts, Goto
<1>5. Alone => Known!Read(known') = local[p].known
  BY <1>1, Before DEF PinOK, RenameHosts, Goto
<1>6. Alone => PinOK("stamp", r, known')
  BY <1>5, Before DEF PinOK, Saving, RenameHosts, Goto
<1>7. /\ result' \in [Processes -> {"none", "ok", "error"}]
      /\ config' \in Cfg!File /\ hostKey' \in [Hosts -> Keys] /\ FilesOK'
  BY <1>1, Before DEF RenameHosts, Goto, FilesOK
<1>8. pc' = [pc EXCEPT ![p] = "stamp"] /\ "stamp" \in Steps \cup {"idle"}
  BY DEF RenameHosts, Goto, Steps
<1> QED BY <1>1, <1>2, <1>3, <1>4, <1>5, <1>6, <1>7, <1>8, Frame

\* The copy is stamped; it goes through the server it went through.
LEMMA StampInv ==
  ASSUME IInv, NEW p \in Processes, Stamp(p)
  PROVE  IInv'
<1> DEFINE d == Applied(local[p].config, local[p].cmd)
<1> PICK r : r = [local[p] EXCEPT !.config = d]
  OBVIOUS
<1>1. /\ local[p].config \in Config /\ local[p].cmd \in Command /\ local[p].cmd.op = "connect"
      /\ Registered(local[p].config, Via(local[p].config, local[p].cmd))
      /\ pc[p] = "stamp"
  BY Before DEF Local, LocalOK, Connecting, Stamp, Goto
<1>2. /\ d \in Config /\ Via(d, local[p].cmd) = Via(local[p].config, local[p].cmd)
      /\ Registered(d, Via(d, local[p].cmd))
      /\ d.servers[Via(d, local[p].cmd)].host
           = local[p].config.servers[Via(local[p].config, local[p].cmd)].host
  BY <1>1, StampKeeps
<1>3. local' = [local EXCEPT ![p] = [local[p] EXCEPT !.config = d]]
  BY Zenon DEF Stamp
<1>4. config' = config /\ known' = known /\ hostKey' = hostKey
  BY DEF Stamp, files
<1>5. Accepts(local[p].config, local[p].cmd)
  BY <1>1 DEF Accepts
<1> HIDE DEF d
<1>6. r \in Local /\ r.config = d /\ r.cmd = local[p].cmd /\ r.key = local[p].key
  BY <1>2, Before, SetConfig
<1>7. LocalOK("open", r)
  BY <1>1, <1>2, <1>6, Before DEF LocalOK, Connecting, Saving
<1>8. Alone => local[p].config = Cfg!Read(config)
  BY <1>1, Before DEF CopyOK, Connecting
<1>9. Alone => CopyOK("open", r, config')
  BY <1>4, <1>5, <1>6, <1>8 DEF CopyOK, Connecting, Saving, d
<1>10. EndpointOf(r) = EndpointOf(local[p])
  BY <1>2, <1>6 DEF EndpointOf
<1>11. Alone => PinOK("open", r, known')
  BY <1>1, <1>4, <1>6, <1>10, Before DEF PinOK, Saving
<1>12. /\ result' \in [Processes -> {"none", "ok", "error"}]
       /\ config' \in Cfg!File /\ known' \in Known!File /\ hostKey' \in [Hosts -> Keys] /\ FilesOK'
  BY <1>4, Before DEF Stamp, Goto, FilesOK
<1>13. pc' = [pc EXCEPT ![p] = "open"] /\ "open" \in Steps \cup {"idle"}
  BY DEF Stamp, Goto, Steps
<1> QED BY <1>3, <1>6, <1>7, <1>9, <1>11, <1>12, <1>13, Frame

-----------------------------------------------------------------------------
(* Every step. *)

\* With no file, or one in which the operator has named a default server, config.toml
\* says just that.
LEMMA InitFile ==
  ASSUME Init
  PROVE  /\ config \in Cfg!File /\ config.tmp = None
         /\ Cfg!Read(config) \in {[DefaultConfig EXCEPT !.default = n] : n \in Names \cup {None}}
<1>0. /\ [i \in Inodes |-> DefaultConfig] \in [Inodes -> Config]
      /\ DefaultConfig \in Config /\ None \notin Inodes
  BY DefaultConfigType, StoreAssumption
<1>1. CASE config = Cfg!NoFile
  <2>1. /\ config \in Cfg!File /\ config.tmp = None /\ config.path = None
    BY <1>0, <1>1 DEF Cfg!NoFile, Cfg!File
  <2>2. Cfg!Read(config) = DefaultConfig
    BY <2>1 DEF Cfg!Read
  <2>3. DefaultConfig = [DefaultConfig EXCEPT !.default = None]
    BY DEF DefaultConfig
  <2> QED BY <2>1, <2>2, <2>3
<1>2. CASE \E i \in Inodes, n \in Names :
             config = Cfg!Written([Cfg!NoFile EXCEPT !.path = i], i,
                                  [DefaultConfig EXCEPT !.default = n])
  <2>1. PICK i \in Inodes, n \in Names :
             config = Cfg!Written([Cfg!NoFile EXCEPT !.path = i], i,
                                  [DefaultConfig EXCEPT !.default = n])
    BY <1>2
  <2>2. PICK c : c = [DefaultConfig EXCEPT !.default = n]
    OBVIOUS
  <2>3. c \in Config
    BY <1>0, <2>2 DEF Config
  <2>4. config = [path |-> i, tmp |-> None,
                  data |-> [[j \in Inodes |-> DefaultConfig] EXCEPT ![i] = c]]
    BY <2>1, <2>2 DEF Cfg!Written, Cfg!NoFile
  <2>5. config \in Cfg!File /\ config.tmp = None /\ config.path = i /\ config.data[i] = c
    BY <1>0, <2>3, <2>4 DEF Cfg!File
  <2>6. Cfg!Read(config) = c
    BY <1>0, <2>5 DEF Cfg!Read
  <2> QED BY <2>2, <2>5, <2>6
<1> QED BY <1>1, <1>2 DEF Init

\* Every initial state is in order.
LEMMA InitInv == Init => IInv
<1> SUFFICES ASSUME Init PROVE IInv
  OBVIOUS
<1>1. known \in Known!File /\ known.tmp = None
  BY DefaultConfigType DEF Init, Known!NoFile, Known!File
<1>2. TypeOK /\ FilesOK
  BY <1>1, InitFile, NoLocalType DEF Init, TypeOK, FilesOK
<1>3. \A p \in Processes : pc[p] = "idle"
  BY DEF Init
<1> QED BY <1>2, <1>3 DEF IInv, ShapeOK, LocalOK, CopyOK, PinOK, Connecting, Saving

\* Every step keeps the invariant.
LEMMA StepInv == IInv /\ [Next]_vars => IInv'
<1> SUFFICES ASSUME IInv, [Next]_vars PROVE IInv'
  OBVIOUS
<1>1. ASSUME NEW h \in Hosts, NEW k \in Keys, Rekey(h, k)
      PROVE  IInv'
  <2>1. hostKey' \in [Hosts -> Keys]
    BY <1>1 DEF Rekey, IInv, ShapeOK, TypeOK
  <2> QED BY <1>1, <2>1 DEF Rekey, files, IInv, ShapeOK, TypeOK, FilesOK, LocalOK, CopyOK, PinOK
<1>2. CASE UNCHANGED vars
  BY <1>2 DEF vars, files, IInv, ShapeOK, TypeOK, FilesOK, LocalOK, CopyOK, PinOK
<1>3. ASSUME NEW p \in Processes, Step(p)
      PROVE  IInv'
  BY <1>3, EndsInv, LoadAndApplyInv, WriteInv, RenameInv, LoadForConnectInv, LoadHostsInv,
     HandshakeInv, AuthenticateInv, WriteHostsInv, RenameHostsInv, StampInv, OpenInv,
     OpenHostsInv DEF Step
<1> QED BY <1>1, <1>2, <1>3, EndsInv, BeginInv DEF Next

\* The parts of the invariant hold throughout.
THEOREM StoreInvariant == Spec => []IInv
<1> QED BY InitInv, StepInv, PTL DEF Spec

\* The two files, the keys and the locals stay well formed, for any number of
\* processes that use the files at once.
THEOREM StoreTypeCorrect == Spec => []TypeOK
<1>1. IInv => TypeOK
  BY DEF IInv, ShapeOK
<1> QED BY <1>1, StoreInvariant, PTL

-----------------------------------------------------------------------------
(* One process at a time. *)

\* What a step does to what config.toml says: nothing, or one whole command, by the
\* process that reports it.
LEMMA ConfigStep ==
  ASSUME Alone, IInv, [Next]_vars
  PROVE  \/ Cfg!Read(config') = Cfg!Read(config)
         \/ \E p \in Processes :
              /\ Rename(p) /\ local[p].cmd \in Commands
              /\ Accepts(Cfg!Read(config), local[p].cmd)
              /\ Cfg!Read(config') = Applied(Cfg!Read(config), local[p].cmd)
<1>1. CASE config' = config
  BY <1>1
<1>2. ASSUME NEW p \in Processes, NEW i \in Inodes, Open(p, i)
      PROVE  Cfg!Read(config') = Cfg!Read(config)
  BY <1>2, Before, CfgOps, DefaultConfigType DEF Open, FilesOK
<1>3. ASSUME NEW p \in Processes, Write(p)
      PROVE  Cfg!Read(config') = Cfg!Read(config)
  <2>1. PICK i \in Inodes : i = local[p].inode
    BY <1>3, Before DEF Write, Goto, LocalOK
  <2>2. i = config.tmp /\ i # config.path
    BY <1>3, <2>1, Before, StoreAssumption DEF CopyOK, FilesOK, Write, Goto
  <2>3. local[p].config \in Config /\ config \in Cfg!File
    BY Before DEF Local
  <2>4. Cfg!Read(Cfg!Written(config, i, local[p].config)) = Cfg!Read(config)
    BY <2>2, <2>3, CfgOps
  <2> QED BY <1>3, <2>1, <2>4 DEF Write
<1>4. ASSUME NEW p \in Processes, Rename(p)
      PROVE  /\ Rename(p) /\ local[p].cmd \in Commands
             /\ Accepts(Cfg!Read(config), local[p].cmd)
             /\ Cfg!Read(config') = Applied(Cfg!Read(config), local[p].cmd)
  <2>1. PICK i \in Inodes : i = config.tmp
    BY <1>4, Before DEF Rename, Cfg!CanRename, Cfg!File
  <2>2. config \in Cfg!File /\ (config.tmp # None => config.tmp # config.path)
    BY Before DEF FilesOK
  <2>3. Cfg!Read(config') = config.data[config.tmp]
    BY <1>4, <2>1, <2>2, CfgOps, DefaultConfigType DEF Rename
  <2> QED BY <1>4, <2>3, Before DEF CopyOK, Saving, Rename
<1>5. ASSUME NEW p \in Processes, Step(p), config' # config
      PROVE  Write(p) \/ Rename(p) \/ \E i \in Inodes : Open(p, i)
  BY <1>5 DEF Step, Refuse, SameMode, LoadAndApply, LoadForConnect, LoadHosts, Handshake,
     Authenticate, WriteHosts, RenameHosts, Stamp, ViewerExits, OpenHosts, files
<1>6. CASE config' # config
  <2>1. \E p \in Processes : Step(p)
    BY <1>6 DEF Next, Rekey, Dies, Begin, files, vars
  <2> QED BY <1>2, <1>3, <1>4, <1>5, <1>6, <2>1
<1> QED BY <1>1, <1>6

\* What a step does to what known_hosts.toml says: nothing, or it adds to the pins.
LEMMA KnownStep ==
  ASSUME Alone, IInv, [Next]_vars
  PROVE  \A h \in Hosts : Known!Read(known)[h] # None =>
           Known!Read(known')[h] = Known!Read(known)[h]
<1>1. CASE known' = known
  BY <1>1
<1>2. ASSUME NEW p \in Processes, NEW i \in Inodes, OpenHosts(p, i)
      PROVE  Known!Read(known') = Known!Read(known)
  BY <1>2, Before, KnownOps, DefaultConfigType DEF OpenHosts, FilesOK
<1>3. ASSUME NEW p \in Processes, WriteHosts(p)
      PROVE  Known!Read(known') = Known!Read(known)
  <2>1. PICK i \in Inodes : i = local[p].inode
    BY <1>3, Before DEF WriteHosts, Goto, LocalOK
  <2>2. i = known.tmp /\ i # known.path
    BY <1>3, <2>1, Before, StoreAssumption DEF PinOK, FilesOK, WriteHosts, Goto
  <2>3. local[p].known \in Pins /\ known \in Known!File
    BY Before DEF Local
  <2>4. Known!Read(Known!Written(known, i, local[p].known)) = Known!Read(known)
    BY <2>2, <2>3, KnownOps
  <2> QED BY <1>3, <2>1, <2>4 DEF WriteHosts
<1>4. ASSUME NEW p \in Processes, RenameHosts(p)
      PROVE  \A h \in Hosts : Known!Read(known)[h] # None =>
               Known!Read(known')[h] = Known!Read(known)[h]
  <2>1. Known!Read(known') = local[p].known
    BY <1>4, RenameHostsInv
  <2> QED BY <1>4, <2>1, Before DEF PinOK, RenameHosts, Goto
<1>5. ASSUME NEW p \in Processes, Step(p), known' # known
      PROVE  WriteHosts(p) \/ RenameHosts(p) \/ \E i \in Inodes : OpenHosts(p, i)
  BY <1>5 DEF Step, Refuse, SameMode, LoadAndApply, LoadForConnect, LoadHosts, Handshake,
     Authenticate, Write, Rename, Stamp, ViewerExits, Open, files
<1>6. CASE known' # known
  <2>1. \E p \in Processes : Step(p)
    BY <1>6 DEF Next, Rekey, Dies, Begin, files, vars
  <2> QED BY <1>2, <1>3, <1>4, <1>5, <1>6, <2>1
<1> QED BY <1>1, <1>6

\* While rustmote runs one process at a time, the viewer runs only behind a tunnel to
\* a host whose key is on record (TunnelOnRecord).
THEOREM TunnelOnRecordCorrect ==
  ASSUME Alone
  PROVE  Spec => []TunnelOnRecord
<1>1. IInv => TunnelOnRecord
  <2> SUFFICES ASSUME IInv, NEW p \in Processes, pc[p] = "viewer"
               PROVE  Known!Read(known)[Endpoint(p)] = local[p].key
    BY DEF TunnelOnRecord
  <2>1. local[p].cmd.op = "connect"
    BY Before DEF LocalOK, Connecting
  <2>2. Known!Read(known)[EndpointOf(local[p])] = local[p].key
    BY <2>1, Before DEF PinOK
  <2> QED BY <2>2 DEF Endpoint, EndpointOf
<1> QED BY <1>1, StoreInvariant, PTL

\* While rustmote runs one process at a time, a pinned key stays pinned, whatever dies
\* in between (PinsKept).
THEOREM PinsKeptCorrect ==
  ASSUME Alone
  PROVE  Spec => PinsKept
<1>1. IInv /\ [Next]_vars =>
        [\A h \in Hosts : Known!Read(known)[h] # None =>
           Known!Read(known)'[h] = Known!Read(known)[h]]_vars
  <2>1. Known!Read(known)' = Known!Read(known')
    BY DEF Known!Read
  <2> QED BY <2>1, KnownStep
<1> QED BY <1>1, StoreInvariant, PTL DEF Spec, PinsKept

\* While rustmote runs one process at a time, a command that reports success has saved
\* what it made of the configuration (SavedWhenReported).
THEOREM SavedWhenReportedCorrect ==
  ASSUME Alone
  PROVE  Spec => SavedWhenReported
<1> DEFINE Saved == \A p \in Processes :
                      pc[p] # "load" /\ result[p] # "ok" /\ result'[p] = "ok" =>
                        Cfg!Read(config)' = local[p].config
<1>1. IInv /\ [Next]_vars => [Saved]_vars
  <2> SUFFICES ASSUME IInv, Next, NEW p \in Processes,
                      pc[p] # "load", result[p] # "ok", result'[p] = "ok"
               PROVE  Cfg!Read(config') = local[p].config
    BY DEF Cfg!Read
  <2>0. result \in [Processes -> {"none", "ok", "error"}]
    BY Before
  <2>1. PICK q \in Processes : Dies(q) \/ Step(q) \/ \E cmd \in Commands : Begin(q, cmd)
    BY DEF Next, Rekey
  <2>2. q = p
    BY DEF Alone
  <2>3. ~Dies(q) /\ ~Refuse(q) /\ ~(\E cmd \in Commands : Begin(q, cmd))
    BY <2>0, <2>2 DEF Dies, Refuse, Begin, End
  <2>4. ~SameMode(q) /\ ~LoadAndApply(q) /\ ~LoadForConnect(q)
    BY <2>2 DEF SameMode, LoadAndApply, LoadForConnect, Goto
  <2>5. /\ ~Write(q) /\ ~LoadHosts(q) /\ ~Authenticate(q) /\ ~WriteHosts(q)
        /\ ~RenameHosts(q) /\ ~Stamp(q)
        /\ \A i \in Inodes : ~Open(q, i) /\ ~OpenHosts(q, i)
    BY <2>2 DEF Write, LoadHosts, Authenticate, WriteHosts, RenameHosts, Stamp, Open,
       OpenHosts, Goto
  <2>6. ~Handshake(q)
    BY <2>0, <2>2 DEF Handshake, Goto, End
  <2>7. CASE ViewerExits(q)
    BY <2>2, <2>7, Before DEF ViewerExits, files, CopyOK, Connecting
  <2>8. CASE Rename(q)
    <3>1. PICK i \in Inodes : i = config.tmp
      BY <2>8, Before DEF Rename, Cfg!CanRename, Cfg!File
    <3>2. config \in Cfg!File /\ (config.tmp # None => config.tmp # config.path)
      BY Before DEF FilesOK
    <3>3. Cfg!Read(config') = config.data[config.tmp]
      BY <2>8, <3>1, <3>2, CfgOps, DefaultConfigType DEF Rename
    <3> QED BY <2>2, <2>8, <3>3, Before DEF Rename, CopyOK
  <2> QED BY <2>1, <2>3, <2>4, <2>5, <2>6, <2>7, <2>8 DEF Step
<1> QED BY <1>1, StoreInvariant, PTL DEF Spec, SavedWhenReported

\* While rustmote runs one process at a time, config.toml changes only by one whole
\* accepted command: ConfigStore implements RegistryPromise.
THEOREM PromiseCorrect ==
  ASSUME Alone
  PROVE  Spec => PromiseSpec
<1>1. Init => Promise!Init
  BY InitFile DEF Promise!Init, Promise!DefaultConfig, DefaultConfig, Promise!DefaultMode,
     DefaultMode
<1>2. IInv /\ [Next]_vars => [Promise!Next]_(Cfg!Read(config))
  <2> SUFFICES ASSUME IInv, [Next]_vars
               PROVE  [Promise!Next]_(Cfg!Read(config))
    OBVIOUS
  <2>1. Cfg!Read(config)' = Cfg!Read(config')
    BY DEF Cfg!Read
  <2>2. \A c, cmd : /\ Promise!Accepts(c, cmd) = Accepts(c, cmd)
                    /\ Promise!Applied(c, cmd) = Applied(c, cmd)
    BY DEF Promise!Accepts, Accepts, Promise!Applied, Applied, Promise!Registered, Registered,
       Promise!Via, Via
  <2> QED BY <2>1, <2>2, ConfigStep DEF Promise!Next, Promise!Run
<1> QED BY <1>1, <1>2, StoreInvariant, PTL DEF Spec, PromiseSpec, Promise!Spec

=============================================================================
