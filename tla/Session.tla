------------------------------ MODULE Session ------------------------------
(***************************************************************************)
(* session/mod.rs and what connect.rs feeds it: one SSH session from the   *)
(* password its caller looks up to its end.  The session authenticates,    *)
(* forwards local connections to the relay (one task accepts, two halves   *)
(* per connection copy) and runs commands.  All of them share the SSH      *)
(* connection, which may be lost at any time and which lives as long as    *)
(* some task holds the handle.  Bytes are counted in chunks; what the SSH  *)
(* library and the two hosts do is external.                               *)
(***************************************************************************)
EXTENDS Integers, Sequences

CONSTANTS
  Conns,      \* local connections to the forwarder
  NumKeys,    \* default key paths
  MaxChunks,  \* bound on what one side of a connection, or a command, writes
  Codes       \* exit codes of commands

ASSUME SessionAssumption ==
  /\ NumKeys \in Nat
  /\ MaxChunks \in Nat
  /\ Codes \subseteq Nat /\ 0 \in Codes

KeyPaths  == 1 .. NumKeys
Passwords == {"none", "wrong", "right"}

VARIABLES
  phase,      \* where the session is
  auth,       \* the credentials of the caller and the progress of authenticate
  link,       \* the SSH connection
  forwarder,  \* the task that accepts local connections
  conn,       \* local connections and the tasks that proxy them
  exec,       \* locals of the call of exec
  remote,     \* the command that runs for it on the host
  wire        \* channel messages of the command, received and not yet read

forwardVars == <<forwarder, conn>>
execVars    == <<exec, remote, wire>>
vars        == <<phase, auth, link, forwardVars, execVars>>

Phases == {"resolve", "connect", "keys", "password", "bind", "open",
           "closed", "dropped", "refused", "failed"}

(***************************************************************************)
(* stored is the password on record, password the one handed to open; next *)
(* is the key path that is tried next.  The host accepts some of the keys. *)
(***************************************************************************)
Auth == [files : [KeyPaths -> {"missing", "unloadable", "present"}],
         accepted : SUBSET KeyPaths, stored : Passwords, password : Passwords,
         next : 1 .. NumKeys + 1]

NoAuth == [files |-> [i \in KeyPaths |-> "missing"], accepted |-> {},
           stored |-> "none", password |-> "none", next |-> 1]

(***************************************************************************)
(* A local application (app), the relay's end of the channel (relay), and  *)
(* the task between them with its two halves (up, down).  heard: the relay *)
(* has seen the end of what the application wrote; told: the application   *)
(* has seen the end, or the reset, of its connection.  Of what it wrote,    *)
(* read has been read from its socket and got has reached the relay.        *)
(***************************************************************************)
Chunks == 0 .. MaxChunks

Conn == [app : {"none", "open", "finished", "gone"},
         relay : {"none", "open", "finished", "gone"},
         task : {"none", "backlog", "opening", "proxying", "ended", "failed"},
         up : BOOLEAN, down : BOOLEAN, heard : BOOLEAN, told : BOOLEAN,
         wrote : Chunks, read : Chunks, got : Chunks, answered : Chunks, delivered : Chunks]

NoConn == [app |-> "none", relay |-> "none", task |-> "none",
           up |-> FALSE, down |-> FALSE, heard |-> FALSE, told |-> FALSE,
           wrote |-> 0, read |-> 0, got |-> 0, answered |-> 0, delivered |-> 0]

Exec   == [stage : {"idle", "opening", "waiting", "done", "error"}, out : Nat, code : Codes]
NoExec == [stage |-> "idle", out |-> 0, code |-> 0]

\* said: the status was sent; inOrder: and before the end of the output.
Remote == [fate : {"none", "running", "exited", "killed"}, code : Codes, out : Chunks,
           said : BOOLEAN, inOrder : BOOLEAN, eof : BOOLEAN]
NoRemote == [fate |-> "none", code |-> 0, out |-> 0,
             said |-> FALSE, inOrder |-> FALSE, eof |-> FALSE]

Messages == {"data", "status", "signal", "eof"}

TypeOK ==
  /\ phase \in Phases
  /\ auth \in Auth
  /\ link \in {"none", "up", "down"}
  /\ forwarder \in {"off", "listening", "stopping", "stopped"}
  /\ conn \in [Conns -> Conn]
  /\ exec \in Exec
  /\ remote \in Remote
  /\ wire \in Seq(Messages)

Init ==
  /\ phase = "resolve"
  /\ auth \in {a \in Auth : a.password = "none" /\ a.next = 1
                            /\ \A i \in a.accepted : a.files[i] = "present"}
  /\ link = "none"
  /\ forwarder = "off"
  /\ conn = [c \in Conns |-> NoConn]
  /\ exec = NoExec
  /\ remote = NoRemote
  /\ wire = <<>>

-----------------------------------------------------------------------------
(* open *)

Enter(from, to) ==
  /\ phase = from
  /\ phase' = to

\* has_default_ssh_keys: a key file that exists, whatever it holds.
HasDefaultKeys == \E i \in KeyPaths : auth.files[i] # "missing"

\* resolve_password: the store is not asked when a default key exists.
ResolvePassword ==
  /\ Enter("resolve", "connect")
  /\ auth' = [auth EXCEPT !.password = IF HasDefaultKeys THEN "none" ELSE auth.stored]
  /\ UNCHANGED <<link, forwardVars, execVars>>

\* client::connect returns when check_server_key has accepted the host key.
Connect ==
  /\ Enter("connect", "keys")
  /\ link' = "up"
  /\ UNCHANGED <<auth, forwardVars, execVars>>

\* The store, the connection, the host key or the listener fails.
OpenFails ==
  /\ phase \in {"resolve", "connect", "bind"}
  /\ phase' = "failed"
  /\ UNCHANGED <<auth, link, forwardVars, execVars>>

Works(i) == auth.files[i] = "present" /\ i \in auth.accepted

KeyAccepted(i) ==
  /\ Enter("keys", "bind")
  /\ auth.next = i
  /\ link = "up"
  /\ Works(i)
  /\ auth' = NoAuth
  /\ UNCHANGED <<link, forwardVars, execVars>>

\* Mutant: a key that cannot be loaded ends the attempt.
KeyPassedIfLoadable(i) ==
  /\ phase = "keys"
  /\ auth.next = i
  /\ ~(Works(i) /\ link = "up")
  /\ phase' = IF auth.files[i] = "unloadable" THEN "refused" ELSE "keys"
  /\ auth' = [auth EXCEPT !.next = i + 1]
  /\ UNCHANGED <<link, forwardVars, execVars>>

\* It is missing, cannot be loaded, is refused, or the request fails.
KeyPassed(i) ==
  /\ phase = "keys"
  /\ auth.next = i
  /\ ~(Works(i) /\ link = "up")
  /\ auth' = [auth EXCEPT !.next = i + 1]
  /\ UNCHANGED <<phase, link, forwardVars, execVars>>

FallBack ==
  /\ Enter("keys", "password")
  /\ auth.next = NumKeys + 1
  /\ UNCHANGED <<auth, link, forwardVars, execVars>>

PasswordAccepted ==
  /\ Enter("password", "bind")
  /\ auth.password = "right"
  /\ link = "up"
  /\ auth' = NoAuth
  /\ UNCHANGED <<link, forwardVars, execVars>>

\* No password, the wrong one, or the request fails: SshAuthFailed.
PasswordRefused ==
  /\ Enter("password", "refused")
  /\ ~(auth.password = "right" /\ link = "up")
  /\ UNCHANGED <<auth, link, forwardVars, execVars>>

SpawnForwarder ==
  /\ Enter("bind", "open")
  /\ forwarder' = "listening"
  /\ UNCHANGED <<auth, link, conn, execVars>>

-----------------------------------------------------------------------------
(* The end of the session and of its SSH connection. *)

\* Both close and drop take the forwarder, signal it and abort its task.
Release == forwarder' = IF forwarder = "listening" THEN "stopping" ELSE forwarder

\* Mutant: leaves the task to itself.
DropDetached ==
  /\ Enter("open", "dropped")
  /\ exec' = NoExec
  /\ remote' = NoRemote
  /\ wire' = <<>>
  /\ UNCHANGED <<auth, link, forwardVars>>

\* The session, borrowed by a running exec, goes only with that call.
Drop ==
  /\ Enter("open", "dropped")
  /\ Release
  /\ exec' = NoExec
  /\ remote' = NoRemote
  /\ wire' = <<>>
  /\ UNCHANGED <<auth, link, conn>>

Close ==
  /\ Enter("open", "closed")
  /\ exec.stage \in {"idle", "done", "error"}
  /\ Release
  /\ exec' = NoExec
  /\ remote' = NoRemote
  /\ wire' = <<>>
  /\ UNCHANGED <<auth, link, conn>>

\* The tasks that hold the handle, besides the session itself.
Proxies == {c \in Conns : conn[c].task \in {"opening", "proxying"}}

Held ==
  \/ phase \in {"keys", "password", "bind", "open"}
  \/ forwarder \in {"listening", "stopping"}
  \/ Proxies # {}

\* The library ends the connection when it is told to, or when the last handle
\* is dropped.
Disconnect ==
  /\ link = "up"
  /\ phase = "closed" \/ ~Held
  /\ link' = "down"
  /\ UNCHANGED <<phase, auth, forwardVars, execVars>>

\* The network or the host drops it; only a part of what was under way arrives.
LinkLost ==
  /\ link = "up"
  /\ link' = "down"
  /\ \E n \in 0 .. Len(wire) : wire' = SubSeq(wire, 1, n)
  /\ UNCHANGED <<phase, auth, forwardVars, exec, remote>>

-----------------------------------------------------------------------------
(* The forwarder: local connections wait in the listener's backlog. *)

Update(c, value) ==
  /\ conn' = [conn EXCEPT ![c] = value]
  /\ UNCHANGED <<phase, auth, link, forwarder, execVars>>

\* An application connects; a finished connection makes room for another.
Dial(c) ==
  /\ forwarder \in {"listening", "stopping"}
  /\ \/ conn[c].task = "none"
     \/ conn[c].task \in {"ended", "failed"} /\ conn[c].app = "gone"
  /\ Update(c, [NoConn EXCEPT !.app = "open", !.task = "backlog"])

\* What it does once its connection is reset has no effect.
Live(c) == conn[c].task \in {"backlog", "opening", "proxying"}

Write(c) ==
  /\ conn[c].app = "open" /\ Live(c)
  /\ conn[c].wrote < MaxChunks
  /\ Update(c, [conn[c] EXCEPT !.wrote = @ + 1])

\* The application ends its side and still reads, or goes away.
Finish(c) ==
  /\ conn[c].app = "open" /\ Live(c)
  /\ Update(c, [conn[c] EXCEPT !.app = "finished"])

Leave(c) ==
  /\ conn[c].app \in {"open", "finished"}
  /\ Update(c, [conn[c] EXCEPT !.app = "gone"])

\* The loop spawns a task for what it accepts, until it sees the signal.
Accept(c) ==
  /\ forwarder \in {"listening", "stopping"}
  /\ conn[c].task = "backlog"
  /\ Update(c, [conn[c] EXCEPT !.task = "opening"])

\* The socket of the connection goes, and the application is told.
Failed(c) == [NoConn EXCEPT !.app = conn[c].app, !.task = "failed", !.told = TRUE]

\* The loop ends: told to, or because accept failed.  The listener goes and
\* resets what is in its backlog.
StopLoop ==
  /\ forwarder \in {"listening", "stopping"}
  /\ forwarder' = "stopped"
  /\ conn' = [c \in Conns |-> IF conn[c].task = "backlog" THEN Failed(c) ELSE conn[c]]
  /\ UNCHANGED <<phase, auth, link, execVars>>

-----------------------------------------------------------------------------
(* proxy_one *)

OpenChannel(c) ==
  /\ conn[c].task = "opening"
  /\ link = "up"
  /\ Update(c, [conn[c] EXCEPT !.task = "proxying", !.relay = "open", !.up = TRUE, !.down = TRUE])

ChannelRefused(c) ==
  /\ conn[c].task = "opening"
  /\ Update(c, Failed(c))

Proxying(c) == conn[c].task = "proxying"

Unread(c) == conn[c].read < conn[c].wrote

\* up: reads a chunk and writes all of it.
PumpUp(c) ==
  /\ Proxying(c) /\ conn[c].up /\ Unread(c)
  /\ link = "up" /\ conn[c].relay # "gone"
  /\ Update(c, [conn[c] EXCEPT !.read = @ + 1, !.got = @ + 1])

\* The library takes a write to a channel the relay has closed, and drops it.
WriteDropped(c) ==
  /\ Proxying(c) /\ conn[c].up /\ Unread(c)
  /\ link = "up" /\ conn[c].relay = "gone"
  /\ Update(c, [conn[c] EXCEPT !.read = @ + 1])

\* up reads the end and shuts the channel down, whether or not that arrives.
UpEnds(c) ==
  /\ Proxying(c) /\ conn[c].up
  /\ conn[c].app \in {"finished", "gone"}
  /\ conn[c].read = conn[c].wrote
  /\ Update(c, [conn[c] EXCEPT !.up = FALSE, !.heard = (link = "up" /\ conn[c].relay # "gone")])

\* Mutant: writes the buffer, not what was read into it.
PumpDownBuffer(c) ==
  /\ Proxying(c) /\ conn[c].down
  /\ conn[c].answered > 0
  /\ conn[c].app # "gone"
  /\ Update(c, [conn[c] EXCEPT !.delivered = @ + 1])

PumpDown(c) ==
  /\ Proxying(c) /\ conn[c].down
  /\ conn[c].delivered < conn[c].answered
  /\ conn[c].app # "gone"
  /\ Update(c, [conn[c] EXCEPT !.delivered = @ + 1])

\* Where down reads the end: the relay's, behind all it wrote, or the end of the
\* connection, which looks the same.
EndOfAnswer(c) ==
  \/ link = "down"
  \/ conn[c].relay \in {"finished", "gone"} /\ conn[c].delivered = conn[c].answered

\* Mutant: leaves the shutdown of the socket to the end of the task.
DownEndsQuietly(c) ==
  /\ Proxying(c) /\ conn[c].down
  /\ EndOfAnswer(c)
  /\ Update(c, [conn[c] EXCEPT !.down = FALSE])

DownEnds(c) ==
  /\ Proxying(c) /\ conn[c].down
  /\ EndOfAnswer(c)
  /\ Update(c, [conn[c] EXCEPT !.down = FALSE, !.told = TRUE])

\* An error in one half ends both: the connection or the application is gone.
ProxyFails(c) ==
  /\ Proxying(c)
  /\ \/ conn[c].up /\ Unread(c) /\ link = "down"
     \/ conn[c].up /\ conn[c].app = "gone"
     \/ conn[c].down /\ conn[c].delivered < conn[c].answered /\ conn[c].app = "gone"
  /\ Update(c, Failed(c))

\* Mutant: the first half to end tears down the pair.
JoinFirst(c) ==
  /\ Proxying(c)
  /\ ~conn[c].up \/ ~conn[c].down
  /\ Update(c, [conn[c] EXCEPT !.task = "ended", !.up = FALSE, !.down = FALSE, !.told = TRUE])

\* try_join! returns when both halves have.
Join(c) ==
  /\ Proxying(c)
  /\ ~conn[c].up /\ ~conn[c].down
  /\ Update(c, [conn[c] EXCEPT !.task = "ended", !.told = TRUE])

\* The relay answers, ends its answer, or closes the channel.
Answer(c) ==
  /\ Proxying(c) /\ link = "up"
  /\ conn[c].relay = "open"
  /\ conn[c].answered < MaxChunks
  /\ Update(c, [conn[c] EXCEPT !.answered = @ + 1])

RelayEnds(c, how) ==
  /\ Proxying(c) /\ link = "up"
  /\ conn[c].relay = "open" \/ (conn[c].relay = "finished" /\ how = "gone")
  /\ Update(c, [conn[c] EXCEPT !.relay = how])

-----------------------------------------------------------------------------
(* exec, and the command on the host. *)

BeginExec ==
  /\ phase = "open"
  /\ exec.stage \in {"idle", "done", "error"}
  /\ exec' = [NoExec EXCEPT !.stage = "opening"]
  /\ remote' = NoRemote
  /\ wire' = <<>>
  /\ UNCHANGED <<phase, auth, link, forwardVars>>

\* The channel is open and the command starts.
ChannelOpens ==
  /\ exec.stage = "opening"
  /\ link = "up"
  /\ exec' = [exec EXCEPT !.stage = "waiting"]
  /\ remote' = [NoRemote EXCEPT !.fate = "running"]
  /\ UNCHANGED <<phase, auth, link, forwardVars, wire>>

ChannelFails ==
  /\ exec.stage = "opening"
  /\ exec' = [exec EXCEPT !.stage = "error"]
  /\ UNCHANGED <<phase, auth, link, forwardVars, remote, wire>>

Host(message, state) ==
  /\ exec.stage = "waiting"
  /\ link = "up"
  /\ remote' = state
  /\ wire' = Append(wire, message)
  /\ UNCHANGED <<phase, auth, link, forwardVars, exec>>

Output ==
  /\ remote.fate # "none" /\ ~remote.eof
  /\ remote.out < MaxChunks
  /\ Host("data", [remote EXCEPT !.out = @ + 1])

\* The command exits or is killed, and the host says so; the output of what it
\* left running may go on.
Exits(code) ==
  /\ remote.fate = "running"
  /\ Host("status", [remote EXCEPT !.fate = "exited", !.code = code, !.said = TRUE,
                                   !.inOrder = ~remote.eof])

Killed ==
  /\ remote.fate = "running"
  /\ Host("signal", [remote EXCEPT !.fate = "killed"])

\* The output ends with the last process that holds it, before or after that.
EndOutput ==
  /\ remote.fate # "none" /\ ~remote.eof
  /\ Host("eof", [remote EXCEPT !.eof = TRUE])

Read(message) ==
  /\ exec.stage = "waiting"
  /\ wire # <<>>
  /\ Head(wire) = message
  /\ wire' = Tail(wire)
  /\ UNCHANGED <<phase, auth, link, forwardVars, remote>>

ReadData == Read("data") /\ exec' = [exec EXCEPT !.out = @ + 1]

\* Mutant: takes the status for the end.
ReadStatusAndReturn == Read("status") /\ exec' = [exec EXCEPT !.code = remote.code, !.stage = "done"]

ReadStatus == Read("status") /\ exec' = [exec EXCEPT !.code = remote.code]

\* Any other message, the signal that killed the command among them.
ReadOther == Read("signal") /\ UNCHANGED exec

\* Mutant: waits for the channel to close.
ReadEndAndWait == Read("eof") /\ UNCHANGED exec

\* exec returns and drops the channel, with whatever still comes on it.
ReadEnd ==
  /\ exec.stage = "waiting"
  /\ wire # <<>>
  /\ Head(wire) = "eof"
  /\ wire' = <<>>
  /\ exec' = [exec EXCEPT !.stage = "done"]
  /\ UNCHANGED <<phase, auth, link, forwardVars, remote>>

\* wait returns None when the connection is gone, and exec returns Ok.
ReadNothing ==
  /\ exec.stage = "waiting"
  /\ link = "down"
  /\ wire = <<>>
  /\ exec' = [exec EXCEPT !.stage = "done"]
  /\ UNCHANGED <<phase, auth, link, forwardVars, remote, wire>>

\* ok_for: the caller goes on only after code 0.
Succeeded == exec.stage = "done" /\ exec.code = 0

-----------------------------------------------------------------------------
\* What the program does by itself.
OpenStep ==
  \/ ResolvePassword \/ Connect \/ FallBack
  \/ \E i \in KeyPaths : KeyAccepted(i) \/ KeyPassed(i)
  \/ PasswordAccepted \/ PasswordRefused \/ SpawnForwarder

ExecStep == ReadData \/ ReadStatus \/ ReadOther \/ ReadEnd \/ ReadNothing

Up(c)   == PumpUp(c) \/ UpEnds(c)
Down(c) == PumpDown(c) \/ DownEnds(c)

ProxyStep(c) ==
  \/ OpenChannel(c) \/ ChannelRefused(c) \/ Up(c) \/ WriteDropped(c) \/ Down(c)
  \/ ProxyFails(c) \/ Join(c)

\* What the caller, the applications, the hosts and the network do.
Environment ==
  \/ OpenFails \/ Drop \/ Close \/ LinkLost \/ BeginExec \/ ChannelOpens \/ ChannelFails
  \/ Output \/ Killed \/ EndOutput \/ \E code \in Codes : Exits(code)
  \/ \E c \in Conns : \/ Dial(c) \/ Write(c) \/ Finish(c) \/ Leave(c) \/ Answer(c)
                      \/ \E how \in {"finished", "gone"} : RelayEnds(c, how)

Next ==
  \/ OpenStep \/ ExecStep \/ Environment \/ Disconnect \/ StopLoop
  \/ \E c \in Conns : Accept(c) \/ ProxyStep(c)

Spec == Init /\ [][Next]_vars

\* What a task does without waiting for the host, an application or the caller.
Task(c) ==
  \/ Accept(c) \/ Up(c) \/ Down(c) \/ ProxyFails(c) \/ Join(c)
  \/ link = "down" /\ ChannelRefused(c)

(***************************************************************************)
(* Tasks that can run do, a loop that was told to stop does, and the        *)
(* library ends a connection nobody holds.  Nothing is assumed of the       *)
(* caller, the applications or the hosts.                                   *)
(***************************************************************************)
Fairness ==
  /\ WF_vars(ExecStep)
  /\ WF_vars(Disconnect)
  /\ WF_vars(forwarder = "stopping" /\ StopLoop)
  /\ \A c \in Conns : WF_vars(Task(c))

FairSpec == Spec /\ Fairness

-----------------------------------------------------------------------------
(* Properties. *)

\* authenticate falls back to the password, and gives up, only when nothing
\* earlier would have been accepted, as long as the connection holds.
AuthExhausts ==
  link = "up" =>
    /\ phase \in {"password", "refused"} => \A i \in KeyPaths : ~Works(i)
    /\ phase = "refused" => auth.password # "right"

\* A proxied connection that ended without an error, while the SSH connection
\* held, has carried all the relay answered, and all the application wrote and
\* its end unless the relay itself closed the channel: the half that ends first
\* does not cut off the other.  (The comment at session/mod.rs:546, that the first
\* half-close tears down the pair, is not what try_join! does; JoinFirst is.)
ProxyWhole ==
  \A c \in Conns :
    conn[c].task = "ended" /\ link = "up" =>
      /\ conn[c].delivered = conn[c].answered
      /\ conn[c].relay # "gone" => conn[c].got = conn[c].wrote /\ conn[c].heard

\* While the connection holds, exec returns the whole output and, when the host
\* sent the status before the end of the output, the code of the command; it
\* never makes up a code other than 0.
ExecFaithful ==
  exec.stage = "done" =>
    /\ exec.code # 0 => remote.said /\ exec.code = remote.code
    /\ link = "up" => /\ exec.out = remote.out
                      /\ remote.inOrder => exec.code = remote.code

\* A local application hears of the loss of the SSH connection: its connection
\* ends or is reset, although the forwarder itself never notices.
LossTold ==
  \A c \in Conns :
    link = "down" /\ conn[c].task # "none" ~> conn[c].told \/ conn[c].task = "none"

\* The SSH connection ends after close, and after a drop or a failed open as soon
\* as the last proxied connection has ended.
ConnectionReleased ==
  /\ phase = "closed" ~> link = "down"
  /\ phase \in {"dropped", "refused", "failed"} /\ Proxies = {} ~> link # "up" \/ Proxies # {}

\* exec returns once the host has ended the output or the connection is gone.
ExecReturns ==
  exec.stage = "waiting" /\ (remote.eof \/ link = "down") ~> exec.stage # "waiting"

-----------------------------------------------------------------------------
(* Statements of the documentation that the code does not keep. *)

\* session/mod.rs:115: exec propagates the error of the transport, so a call that
\* succeeds has seen the output of the command to its end.
ExecHonest == Succeeded => remote.eof

\* connect.rs:34-35: a key that cannot be loaded falls through to password
\* authentication, so the right password on record opens the session.
FallsThroughToPassword ==
  phase = "refused" /\ link = "up" /\ (\A i \in KeyPaths : auth.files[i] # "present") =>
    auth.stored # "right"

=============================================================================
