--------------------------- MODULE SessionProofs ---------------------------
(***************************************************************************)
(* Proofs about Session, for any number of connections, default keys and   *)
(* chunks.                                                                 *)
(***************************************************************************)
EXTENDS Session, TLAPS

-----------------------------------------------------------------------------
(* A proxied connection. *)

\* What the record of a connection keeps, by the state of the SSH connection: a half
\* that has ended has copied everything, and only a channel the relay has closed drops
\* what it is given.
ConnOK(r, l) ==
  /\ r \in Conn
  /\ r.got = r.read \/ (r.relay = "gone" /\ r.task \in {"proxying", "ended"})
  /\ r.task = "proxying" /\ ~r.up =>
       /\ r.app \in {"finished", "gone"} /\ r.read = r.wrote
       /\ l = "up" /\ r.relay # "gone" => r.heard
  /\ r.task = "proxying" /\ ~r.down =>
       l = "down" \/ (r.relay \in {"finished", "gone"} /\ r.delivered = r.answered)
  /\ r.task = "ended" /\ l = "up" =>
       /\ r.delivered = r.answered
       /\ r.relay # "gone" => r.got = r.wrote /\ r.heard

ConnsOK == conn \in [Conns -> Conn] /\ \A c \in Conns : ConnOK(conn[c], link)

\* A fresh connection is in order, whatever its application and its task do.
LEMMA FreshConn ==
  ASSUME NEW app \in {"none", "open", "finished", "gone"},
         NEW task \in {"none", "backlog", "opening", "failed"}, NEW told \in BOOLEAN, NEW l
  PROVE  ConnOK([NoConn EXCEPT !.app = app, !.task = task, !.told = told], l)
<1>1. 0 \in Chunks
  BY SessionAssumption DEF Chunks
<1> QED BY <1>1 DEF NoConn, ConnOK, Conn

\* What the application does.
LEMMA AppConn ==
  ASSUME NEW c \in Conns, ConnsOK, NEW r,
         \/ /\ conn[c].app = "open" /\ conn[c].wrote < MaxChunks
            /\ r = [conn[c] EXCEPT !.wrote = @ + 1]
            /\ Live(c)
         \/ conn[c].app = "open" /\ r = [conn[c] EXCEPT !.app = "finished"]
         \/ r = [conn[c] EXCEPT !.app = "gone"]
  PROVE  ConnOK(r, link)
BY SessionAssumption DEF ConnsOK, ConnOK, Conn, Chunks, Live

\* What the relay does.
LEMMA RelayConn ==
  ASSUME NEW c \in Conns, ConnsOK, NEW r, Proxying(c), link = "up",
         \/ /\ conn[c].relay = "open" /\ conn[c].answered < MaxChunks
            /\ r = [conn[c] EXCEPT !.answered = @ + 1]
         \/ conn[c].relay # "gone" /\ \E how \in {"finished", "gone"} : r = [conn[c] EXCEPT !.relay = how]
  PROVE  ConnOK(r, link)
BY SessionAssumption DEF ConnsOK, ConnOK, Conn, Chunks, Proxying

\* What the task and its halves do.
LEMMA TaskConn ==
  ASSUME NEW c \in Conns, ConnsOK, NEW r,
         \/ conn[c].task = "backlog" /\ r = [conn[c] EXCEPT !.task = "opening"]
         \/ /\ conn[c].task = "opening"
            /\ r = [conn[c] EXCEPT !.task = "proxying", !.relay = "open", !.up = TRUE, !.down = TRUE]
         \/ /\ Proxying(c) /\ ~conn[c].up /\ ~conn[c].down
            /\ r = [conn[c] EXCEPT !.task = "ended", !.told = TRUE]
  PROVE  ConnOK(r, link)
<1> DEFINE old == conn[c]
<1>1. old \in Conn /\ ConnOK(old, link)
  BY DEF ConnsOK
<1> USE <1>1 DEF ConnOK, Conn
<1>2. CASE old.task = "backlog" /\ r = [old EXCEPT !.task = "opening"]
  BY <1>2
<1>3. CASE /\ old.task = "opening"
           /\ r = [old EXCEPT !.task = "proxying", !.relay = "open", !.up = TRUE, !.down = TRUE]
  BY <1>3
<1>4. CASE /\ Proxying(c) /\ ~old.up /\ ~old.down
           /\ r = [old EXCEPT !.task = "ended", !.told = TRUE]
  BY <1>4 DEF Proxying
<1> QED BY <1>2, <1>3, <1>4

\* What the half does that copies to the relay.
LEMMA UpConn ==
  ASSUME NEW c \in Conns, ConnsOK, NEW r, Proxying(c), conn[c].up,
         \/ /\ Unread(c) /\ conn[c].relay # "gone"
            /\ r = [conn[c] EXCEPT !.read = @ + 1, !.got = @ + 1]
         \/ /\ Unread(c) /\ conn[c].relay = "gone"
            /\ r = [conn[c] EXCEPT !.read = @ + 1]
         \/ /\ conn[c].app \in {"finished", "gone"} /\ conn[c].read = conn[c].wrote
            /\ r = [conn[c] EXCEPT !.up = FALSE, !.heard = (link = "up" /\ conn[c].relay # "gone")]
  PROVE  ConnOK(r, link)
<1> DEFINE old == conn[c]
<1>1. old \in Conn /\ ConnOK(old, link) /\ old.task = "proxying"
  BY DEF ConnsOK, Proxying
<1> USE <1>1, SessionAssumption DEF ConnOK, Conn, Chunks, Unread
<1>2. CASE /\ old.read < old.wrote /\ old.relay # "gone"
           /\ r = [old EXCEPT !.read = @ + 1, !.got = @ + 1]
  <2>1. old.got = old.read /\ old.read + 1 \in Chunks
    BY <1>2
  <2>2. r \in Conn
    BY <1>2, <2>1
  <2>3. r.up /\ r.task = "proxying" /\ r.got = r.read
        /\ r.down = old.down /\ r.relay = old.relay
        /\ r.delivered = old.delivered /\ r.answered = old.answered
    BY <1>2, <2>1
  <2> QED BY <2>2, <2>3
<1>3. CASE /\ old.read < old.wrote /\ old.relay = "gone"
           /\ r = [old EXCEPT !.read = @ + 1]
  BY <1>3
<1>4. CASE /\ old.app \in {"finished", "gone"} /\ old.read = old.wrote
           /\ r = [old EXCEPT !.up = FALSE, !.heard = (link = "up" /\ old.relay # "gone")]
  <2>1. PICK heard \in BOOLEAN : heard = (link = "up" /\ old.relay # "gone")
    OBVIOUS
  <2>2. r = [old EXCEPT !.up = FALSE, !.heard = heard] /\ old.read = old.wrote
    BY <1>4, <2>1
  <2>3. r \in Conn
    BY <2>2
  <2>4. /\ r.heard = heard /\ r.task = "proxying" /\ r.relay = old.relay /\ r.app = old.app
        /\ r.got = old.got /\ r.read = old.read /\ r.wrote = old.wrote /\ r.down = old.down
        /\ r.delivered = old.delivered /\ r.answered = old.answered
    BY <2>2
  <2> QED BY <1>4, <2>1, <2>2, <2>3, <2>4
<1> QED BY <1>2, <1>3, <1>4

\* What the half does that copies to the application.
LEMMA DownConn ==
  ASSUME NEW c \in Conns, ConnsOK, NEW r, Proxying(c), conn[c].down,
         \/ conn[c].delivered < conn[c].answered /\ r = [conn[c] EXCEPT !.delivered = @ + 1]
         \/ EndOfAnswer(c) /\ r = [conn[c] EXCEPT !.down = FALSE, !.told = TRUE]
  PROVE  ConnOK(r, link)
<1> DEFINE old == conn[c]
<1>1. old \in Conn /\ ConnOK(old, link) /\ old.task = "proxying"
  BY DEF ConnsOK, Proxying
<1> USE <1>1, SessionAssumption DEF ConnOK, Conn, Chunks
<1>2. CASE old.delivered < old.answered /\ r = [old EXCEPT !.delivered = @ + 1]
  BY <1>2
<1>3. CASE EndOfAnswer(c) /\ r = [old EXCEPT !.down = FALSE, !.told = TRUE]
  BY <1>3 DEF EndOfAnswer
<1> QED BY <1>2, <1>3


\* One connection moves on, the others and the SSH connection stay.
LEMMA UpdateConn ==
  ASSUME ConnsOK, NEW c \in Conns, NEW r, Update(c, r), ConnOK(r, link)
  PROVE  ConnsOK'
<1>1. conn' = [conn EXCEPT ![c] = r] /\ link' = link /\ conn \in [Conns -> Conn] /\ r \in Conn
  BY DEF Update, ConnsOK, ConnOK
<1>2. conn' \in [Conns -> Conn]
  BY <1>1
<1>3. ASSUME NEW d \in Conns  PROVE ConnOK(conn'[d], link')
  <2>1. CASE d = c
    BY <1>1, <2>1
  <2>2. CASE d # c
    <3>1. conn'[d] = conn[d]
      BY <1>1, <2>2
    <3> QED BY <1>1, <3>1 DEF ConnsOK
  <2> QED BY <2>1, <2>2
<1> QED BY <1>2, <1>3 DEF ConnsOK

-----------------------------------------------------------------------------
(***************************************************************************)
(* The inductive invariant.  AuthExhausts needs to know where authenticate *)
(* is in the list, ProxyWhole what the half that ended first leaves behind; *)
(* both that the SSH connection comes up once, before anything is accepted. *)
(***************************************************************************)
ExecOK == exec \in Exec /\ remote \in Remote /\ wire \in Seq(Messages)

ForwarderOK ==
  /\ forwarder \in {"off", "listening", "stopping", "stopped"}
  /\ phase \in {"resolve", "connect", "keys", "password", "bind"} => forwarder = "off"
  /\ forwarder = "off" => \A c \in Conns : conn[c].task = "none"

AuthOK ==
  /\ phase \in Phases
  /\ auth \in Auth
  /\ phase \in {"resolve", "connect"} => auth.next = 1
  /\ phase \in {"password", "refused"} => auth.next = NumKeys + 1
  /\ link = "up" =>
       /\ phase \in {"keys", "password", "refused"} =>
            \A i \in KeyPaths : i < auth.next => ~Works(i)
       /\ phase = "refused" => auth.password # "right"

IInv == ExecOK /\ ConnsOK /\ ForwarderOK /\ AuthOK /\ link \in {"none", "up", "down"}

\* What a step of one connection, that is already accepted or can be, leaves in place.
LEMMA ConnStep ==
  ASSUME IInv, NEW c \in Conns, NEW r, Update(c, r), ConnOK(r, link),
         forwarder # "off" \/ r.task = "none"
  PROVE  IInv'
<1>1. ConnsOK'
  BY UpdateConn DEF IInv
<1>2. UNCHANGED <<phase, auth, link, forwarder, exec, remote, wire>>
  BY DEF Update, execVars
<1>3. ForwarderOK'
  <2>1. forwarder = "off" => \A d \in Conns : conn'[d].task = "none"
    BY DEF Update, IInv, ForwarderOK, ConnsOK
  <2> QED BY <1>2, <2>1 DEF IInv, ForwarderOK
<1>4. AuthOK'
  BY <1>2 DEF IInv, AuthOK, Works
<1> QED BY <1>1, <1>2, <1>3, <1>4 DEF IInv, ExecOK

\* A connection that is there was accepted by a forwarder.
LEMMA Forwarded ==
  ASSUME IInv, NEW c \in Conns, conn[c].task # "none"
  PROVE  forwarder # "off"
BY DEF IInv, ForwarderOK

\* The applications.
LEMMA ApplicationStep ==
  ASSUME IInv, NEW c \in Conns, Dial(c) \/ Write(c) \/ Finish(c) \/ Leave(c)
  PROVE  IInv'
<1>1. CASE Dial(c)
  <2>1. PICK r : r = [NoConn EXCEPT !.app = "open", !.task = "backlog"] /\ Update(c, r)
    BY <1>1 DEF Dial
  <2>2. NoConn.told = FALSE
    BY DEF NoConn
  <2>3. r = [NoConn EXCEPT !.app = "open", !.task = "backlog", !.told = FALSE]
    BY <2>1, <2>2 DEF NoConn
  <2>4. ConnOK(r, link)
    BY <2>3, FreshConn
  <2>5. forwarder # "off"
    BY <1>1 DEF Dial
  <2> QED BY <2>1, <2>4, <2>5, ConnStep
<1>2. CASE Write(c)
  <2>1. PICK r : r = [conn[c] EXCEPT !.wrote = @ + 1] /\ Update(c, r)
    BY <1>2 DEF Write
  <2>2. conn[c].app = "open" /\ conn[c].wrote < MaxChunks /\ Live(c)
    BY <1>2 DEF Write
  <2>3. ConnOK(r, link)
    BY <2>1, <2>2, AppConn DEF IInv
  <2>4. forwarder # "off"
    BY <2>2, Forwarded DEF Live
  <2> QED BY <2>1, <2>3, <2>4, ConnStep
<1>3. CASE Finish(c)
  <2>1. PICK r : r = [conn[c] EXCEPT !.app = "finished"] /\ Update(c, r)
    BY <1>3 DEF Finish
  <2>2. conn[c].app = "open" /\ Live(c)
    BY <1>3 DEF Finish
  <2>3. ConnOK(r, link)
    BY <2>1, <2>2, AppConn DEF IInv
  <2>4. forwarder # "off"
    BY <2>2, Forwarded DEF Live
  <2> QED BY <2>1, <2>3, <2>4, ConnStep
<1>4. CASE Leave(c)
  <2>1. PICK r : r = [conn[c] EXCEPT !.app = "gone"] /\ Update(c, r)
    BY <1>4 DEF Leave
  <2>2. ConnOK(r, link)
    BY <2>1, AppConn DEF IInv
  <2>3. forwarder # "off" \/ r.task = "none"
    BY <2>1, Forwarded DEF IInv, ConnsOK, Conn
  <2> QED BY <2>1, <2>2, <2>3, ConnStep
<1> QED BY <1>1, <1>2, <1>3, <1>4

\* The relay.
LEMMA RelayStep ==
  ASSUME IInv, NEW c \in Conns,
         Answer(c) \/ \E how \in {"finished", "gone"} : RelayEnds(c, how)
  PROVE  IInv'
<1>0. Proxying(c) /\ link = "up" /\ forwarder # "off"
  BY Forwarded DEF Answer, RelayEnds, Proxying
<1>1. CASE Answer(c)
  <2>1. PICK r : r = [conn[c] EXCEPT !.answered = @ + 1] /\ Update(c, r)
    BY <1>1 DEF Answer
  <2>2. conn[c].relay = "open" /\ conn[c].answered < MaxChunks
    BY <1>1 DEF Answer
  <2>3. ConnOK(r, link)
    BY <1>0, <2>1, <2>2, RelayConn DEF IInv
  <2> QED BY <1>0, <2>1, <2>3, ConnStep
<1>2. ASSUME NEW how \in {"finished", "gone"}, RelayEnds(c, how)  PROVE IInv'
  <2>1. PICK r : r = [conn[c] EXCEPT !.relay = how] /\ Update(c, r)
    BY <1>2 DEF RelayEnds
  <2>3. conn[c].relay # "gone"
    BY <1>2 DEF RelayEnds
  <2>2. ConnOK(r, link)
    BY <1>0, <2>1, <2>3, RelayConn DEF IInv
  <2> QED BY <1>0, <2>1, <2>2, ConnStep
<1> QED BY <1>1, <1>2

\* A connection that ends with an error.
LEMMA FailedStep ==
  ASSUME IInv, NEW c \in Conns, conn[c].task # "none", Update(c, Failed(c))
  PROVE  IInv'
<1>1. PICK r : r = [NoConn EXCEPT !.app = conn[c].app, !.task = "failed", !.told = TRUE]
               /\ Update(c, r)
  BY DEF Failed
<1>2. conn[c].app \in {"none", "open", "finished", "gone"}
  BY DEF IInv, ConnsOK, Conn
<1>3. ConnOK(r, link)
  BY <1>1, <1>2, FreshConn
<1>4. forwarder # "off"
  BY Forwarded
<1> QED BY <1>1, <1>3, <1>4, ConnStep

\* The halves of a task.
LEMMA HalfStep ==
  ASSUME IInv, NEW c \in Conns, Up(c) \/ WriteDropped(c) \/ Down(c)
  PROVE  IInv'
<1>0. Proxying(c) /\ forwarder # "off"
  BY Forwarded DEF Up, Down, PumpUp, WriteDropped, UpEnds, PumpDown, DownEnds, Proxying
<1>1. CASE PumpUp(c)
  <2>1. PICK r : r = [conn[c] EXCEPT !.read = @ + 1, !.got = @ + 1] /\ Update(c, r)
    BY <1>1 DEF PumpUp
  <2>2. conn[c].up /\ Unread(c) /\ conn[c].relay # "gone"
    BY <1>1 DEF PumpUp
  <2>3. ConnOK(r, link)
    BY <1>0, <2>1, <2>2, UpConn DEF IInv
  <2> QED BY <1>0, <2>1, <2>3, ConnStep
<1>5. CASE WriteDropped(c)
  <2>1. PICK r : r = [conn[c] EXCEPT !.read = @ + 1] /\ Update(c, r)
    BY <1>5 DEF WriteDropped
  <2>2. conn[c].up /\ Unread(c) /\ conn[c].relay = "gone"
    BY <1>5 DEF WriteDropped
  <2>3. ConnOK(r, link)
    BY <1>0, <2>1, <2>2, UpConn DEF IInv
  <2> QED BY <1>0, <2>1, <2>3, ConnStep
<1>2. CASE UpEnds(c)
  <2>1. PICK r : r = [conn[c] EXCEPT !.up = FALSE, !.heard = (link = "up" /\ conn[c].relay # "gone")]
                 /\ Update(c, r)
    BY <1>2 DEF UpEnds
  <2>2. conn[c].up /\ conn[c].app \in {"finished", "gone"} /\ conn[c].read = conn[c].wrote
    BY <1>2 DEF UpEnds
  <2>3. ConnOK(r, link)
    BY <1>0, <2>1, <2>2, UpConn DEF IInv
  <2> QED BY <1>0, <2>1, <2>3, ConnStep
<1>3. CASE PumpDown(c)
  <2>1. PICK r : r = [conn[c] EXCEPT !.delivered = @ + 1] /\ Update(c, r)
    BY <1>3 DEF PumpDown
  <2>2. conn[c].down /\ conn[c].delivered < conn[c].answered
    BY <1>3 DEF PumpDown
  <2>3. ConnOK(r, link)
    BY <1>0, <2>1, <2>2, DownConn DEF IInv
  <2> QED BY <1>0, <2>1, <2>3, ConnStep
<1>4. CASE DownEnds(c)
  <2>1. PICK r : r = [conn[c] EXCEPT !.down = FALSE, !.told = TRUE] /\ Update(c, r)
    BY <1>4 DEF DownEnds
  <2>2. conn[c].down /\ EndOfAnswer(c)
    BY <1>4 DEF DownEnds
  <2>3. ConnOK(r, link)
    BY <1>0, <2>1, <2>2, DownConn DEF IInv
  <2> QED BY <1>0, <2>1, <2>3, ConnStep
<1> QED BY <1>1, <1>2, <1>3, <1>4, <1>5 DEF Up, Down

\* The task itself.
LEMMA TaskStep ==
  ASSUME IInv, NEW c \in Conns, Accept(c) \/ ProxyStep(c)
  PROVE  IInv'
<1>1. CASE Accept(c)
  <2>1. PICK r : r = [conn[c] EXCEPT !.task = "opening"] /\ Update(c, r)
    BY <1>1 DEF Accept
  <2>2. conn[c].task = "backlog"
    BY <1>1 DEF Accept
  <2>3. ConnOK(r, link)
    BY <2>1, <2>2, TaskConn DEF IInv
  <2> QED BY <2>1, <2>2, <2>3, Forwarded, ConnStep
<1>2. CASE OpenChannel(c)
  <2>1. PICK r : r = [conn[c] EXCEPT !.task = "proxying", !.relay = "open",
                                     !.up = TRUE, !.down = TRUE] /\ Update(c, r)
    BY <1>2 DEF OpenChannel
  <2>2. conn[c].task = "opening"
    BY <1>2 DEF OpenChannel
  <2>3. ConnOK(r, link)
    BY <2>1, <2>2, TaskConn DEF IInv
  <2> QED BY <2>1, <2>2, <2>3, Forwarded, ConnStep
<1>3. CASE ChannelRefused(c)
  BY <1>3, FailedStep DEF ChannelRefused
<1>4. CASE Up(c) \/ WriteDropped(c) \/ Down(c)
  BY <1>4, HalfStep
<1>5. CASE ProxyFails(c)
  BY <1>5, FailedStep DEF ProxyFails, Proxying
<1>6. CASE Join(c)
  <2>1. PICK r : r = [conn[c] EXCEPT !.task = "ended", !.told = TRUE] /\ Update(c, r)
    BY <1>6 DEF Join
  <2>2. Proxying(c) /\ ~conn[c].up /\ ~conn[c].down
    BY <1>6 DEF Join
  <2>3. ConnOK(r, link)
    BY <2>1, <2>2, TaskConn DEF IInv
  <2> QED BY <2>1, <2>2, <2>3, Forwarded, ConnStep DEF Proxying
<1> QED BY <1>1, <1>2, <1>3, <1>4, <1>5, <1>6 DEF ProxyStep

\* The SSH connection comes up before anything is accepted, and only ends after that.
LEMMA LinkConns ==
  ASSUME IInv, UNCHANGED conn,
         UNCHANGED link \/ link' = "down" \/ forwarder = "off"
  PROVE  ConnsOK'
<1>1. ASSUME NEW c \in Conns  PROVE ConnOK(conn[c], link')
  <2>1. ConnOK(conn[c], link)
    BY DEF IInv, ConnsOK
  <2>2. CASE UNCHANGED link
    BY <2>1, <2>2
  <2>3. CASE link' = "down"
    BY <2>1, <2>3 DEF ConnOK
  <2>4. CASE forwarder = "off"
    <3>1. conn[c].task = "none"
      BY <2>4 DEF IInv, ForwarderOK
    <3> QED BY <2>1, <3>1 DEF ConnOK
  <2> QED BY <2>2, <2>3, <2>4
<1> QED BY <1>1 DEF IInv, ConnsOK

\* authenticate and what leads to it and follows it.
LEMMA OpenInv ==
  ASSUME IInv, OpenStep \/ OpenFails
  PROVE  IInv'
<1> USE DEF IInv
<1>1. ExecOK'
  BY DEF ExecOK, OpenStep, OpenFails, ResolvePassword, Connect, FallBack, KeyAccepted, KeyPassed,
         PasswordAccepted, PasswordRefused, SpawnForwarder, execVars
<1>2. UNCHANGED conn /\ (UNCHANGED link \/ (link' = "up" /\ phase = "connect"))
  BY DEF OpenStep, OpenFails, ResolvePassword, Connect, FallBack, KeyAccepted, KeyPassed,
         PasswordAccepted, PasswordRefused, SpawnForwarder, forwardVars, Enter
<1>3. ConnsOK' /\ link' \in {"none", "up", "down"}
  <2>1. UNCHANGED link \/ forwarder = "off"
    BY <1>2 DEF ForwarderOK
  <2> QED BY <1>2, <2>1, LinkConns
<1>4. ForwarderOK'
  <2>1. CASE SpawnForwarder
    BY <2>1 DEF SpawnForwarder, Enter, ForwarderOK, execVars
  <2>2. CASE ~SpawnForwarder
    <3>1. UNCHANGED <<forwarder, conn>>
      BY <2>2 DEF OpenStep, OpenFails, ResolvePassword, Connect, FallBack, KeyAccepted, KeyPassed,
         PasswordAccepted, PasswordRefused, forwardVars
    <3>2. phase \in {"resolve", "connect", "keys", "password", "bind"}
      BY <2>2 DEF OpenStep, OpenFails, ResolvePassword, Connect, FallBack, KeyAccepted, KeyPassed,
         PasswordAccepted, PasswordRefused, Enter
    <3> QED BY <3>1, <3>2 DEF ForwarderOK
  <2> QED BY <2>1, <2>2
<1>5. AuthOK'
  <2> USE DEF AuthOK, Phases, Enter
  <2>1. CASE ResolvePassword
    <3>1. PICK p : p = (IF HasDefaultKeys THEN "none" ELSE auth.stored)
                   /\ auth' = [auth EXCEPT !.password = p]
      BY <2>1 DEF ResolvePassword
    <3>2. p \in Passwords
      BY <3>1 DEF Auth, Passwords
    <3>3. phase' = "connect" /\ link' = link /\ auth.next = 1
      BY <2>1 DEF ResolvePassword
    <3>4. auth' \in Auth /\ auth'.next = 1
      BY <3>1, <3>2, <3>3 DEF Auth
    <3> QED BY <3>3, <3>4
  <2>2. CASE Connect
    BY <2>2 DEF Connect, KeyPaths
  <2>3. CASE OpenFails
    BY <2>3 DEF OpenFails
  <2>4. ASSUME NEW i \in KeyPaths, KeyAccepted(i)  PROVE AuthOK'
    <3>1. NoAuth \in Auth
      BY SessionAssumption DEF NoAuth, Auth, Passwords, KeyPaths
    <3> QED BY <2>4, <3>1 DEF KeyAccepted
  <2>5. ASSUME NEW i \in KeyPaths, KeyPassed(i)  PROVE AuthOK'
    <3>1. auth' = [auth EXCEPT !.next = i + 1] /\ auth.next = i /\ phase = "keys" /\ phase' = "keys"
          /\ link' = link /\ ~(Works(i) /\ link = "up")
      BY <2>5 DEF KeyPassed
    <3>2. auth' \in Auth
      BY <3>1, SessionAssumption DEF Auth, KeyPaths
    <3>3. ASSUME link = "up", NEW j \in KeyPaths, j < auth'.next  PROVE ~Works(j)'
      <4>1. auth'.next = i + 1 /\ auth'.files = auth.files /\ auth'.accepted = auth.accepted
        BY <3>1 DEF Auth
      <4>2. j < i \/ j = i
        BY <3>3, <4>1 DEF KeyPaths
      <4> QED BY <3>1, <3>3, <4>1, <4>2 DEF Works
    <3> QED BY <3>1, <3>2, <3>3
  <2>6. CASE FallBack
    BY <2>6 DEF FallBack, Works
  <2>7. CASE PasswordAccepted
    <3>1. NoAuth \in Auth
      BY SessionAssumption DEF NoAuth, Auth, Passwords, KeyPaths
    <3> QED BY <2>7, <3>1 DEF PasswordAccepted
  <2>8. CASE PasswordRefused
    BY <2>8 DEF PasswordRefused, Works
  <2>9. CASE SpawnForwarder
    BY <2>9 DEF SpawnForwarder
  <2> QED BY <2>1, <2>2, <2>3, <2>4, <2>5, <2>6, <2>7, <2>8, <2>9 DEF OpenStep
<1> QED BY <1>1, <1>3, <1>4, <1>5

\* The session, or its SSH connection, ends; a loop that stops resets its backlog.
LEMMA EndInv ==
  ASSUME IInv, Drop \/ Close \/ Disconnect \/ LinkLost \/ StopLoop
  PROVE  IInv'
<1> USE DEF IInv
<1>1. CASE Drop \/ Close
  <2>1. /\ phase = "open" /\ phase' \in {"dropped", "closed"}
        /\ exec' = NoExec /\ remote' = NoRemote /\ wire' = <<>>
        /\ UNCHANGED <<auth, link, conn>> /\ Release
    BY <1>1 DEF Drop, Close, Enter
  <2>2. ExecOK'
    BY <2>1, SessionAssumption DEF ExecOK, NoExec, Exec, NoRemote, Remote, Chunks
  <2>3. ForwarderOK'
    BY <2>1 DEF ForwarderOK, Release
  <2>4. AuthOK'
    BY <2>1 DEF AuthOK, Phases
  <2> QED BY <2>1, <2>2, <2>3, <2>4, LinkConns
<1>2. CASE Disconnect \/ LinkLost
  <2>1. link' = "down" /\ UNCHANGED <<phase, auth, forwarder, conn, exec, remote>>
    BY <1>2 DEF Disconnect, LinkLost, forwardVars, execVars
  <2>2. wire' \in Seq(Messages)
    <3>1. CASE Disconnect
      BY <3>1 DEF Disconnect, execVars, ExecOK
    <3>2. CASE LinkLost
      <4>1. PICK n \in 0 .. Len(wire) : wire' = SubSeq(wire, 1, n)
        BY <3>2 DEF LinkLost
      <4> QED BY <4>1 DEF ExecOK
    <3> QED BY <1>2, <3>1, <3>2
  <2>3. ExecOK' /\ ForwarderOK'
    BY <2>1, <2>2 DEF ExecOK, ForwarderOK
  <2>4. AuthOK'
    BY <2>1 DEF AuthOK
  <2> QED BY <2>1, <2>3, <2>4, LinkConns
<1>3. CASE StopLoop
  <2>1. /\ forwarder \in {"listening", "stopping"} /\ forwarder' = "stopped"
        /\ conn' = [c \in Conns |-> IF conn[c].task = "backlog" THEN Failed(c) ELSE conn[c]]
        /\ UNCHANGED <<phase, auth, link, exec, remote, wire>>
    BY <1>3 DEF StopLoop, execVars
  <2>2. ASSUME NEW c \in Conns  PROVE ConnOK(conn'[c], link)
    <3>1. CASE conn[c].task = "backlog"
      <4>1. PICK r : r = [NoConn EXCEPT !.app = conn[c].app, !.task = "failed", !.told = TRUE]
        OBVIOUS
      <4>2. conn[c].app \in {"none", "open", "finished", "gone"}
        BY DEF ConnsOK, Conn
      <4>3. ConnOK(r, link)
        BY <4>1, <4>2, FreshConn
      <4>4. conn'[c] = r
        BY <2>1, <3>1, <4>1 DEF Failed
      <4> QED BY <4>3, <4>4
    <3>2. CASE conn[c].task # "backlog"
      BY <2>1, <3>2 DEF ConnsOK
    <3> QED BY <3>1, <3>2
  <2>3. ConnsOK'
    <3>1. \A c \in Conns : conn'[c] \in Conn
      BY <2>2 DEF ConnOK
    <3>2. conn' \in [Conns -> Conn]
      BY <2>1, <3>1
    <3> QED BY <2>1, <2>2, <3>2 DEF ConnsOK
  <2>4. ExecOK' /\ ForwarderOK'
    BY <2>1 DEF ExecOK, ForwarderOK
  <2>5. AuthOK'
    BY <2>1 DEF AuthOK, Works
  <2> QED BY <2>1, <2>3, <2>4, <2>5
<1> QED BY <1>1, <1>2, <1>3

\* exec and the command only touch what is theirs.
LEMMA ExecInv ==
  ASSUME IInv,
         \/ ExecStep \/ BeginExec \/ ChannelOpens \/ ChannelFails
         \/ Output \/ Killed \/ EndOutput \/ \E code \in Codes : Exits(code)
  PROVE  IInv'
<1> USE DEF IInv
<1>1. UNCHANGED <<phase, auth, link, forwarder, conn>>
  BY DEF ExecStep, ReadData, ReadStatus, ReadOther, ReadEnd, ReadNothing, Read, BeginExec,
         ChannelOpens, ChannelFails, Output, Killed, EndOutput, Exits, Host, forwardVars
<1>2. ExecOK'
  <2> USE DEF ExecOK
  <2>1. exec.out + 1 \in Nat /\ remote.code \in Codes /\ exec \in Exec /\ remote \in Remote
    BY DEF Exec, Remote
  <2>2. CASE BeginExec
    <3>1. exec' \in Exec
      BY <2>2, SessionAssumption DEF BeginExec, NoExec, Exec
    <3>2. remote' \in Remote /\ wire' \in Seq(Messages)
      BY <2>2, SessionAssumption DEF BeginExec, NoRemote, Remote, Chunks
    <3> QED BY <3>1, <3>2
  <2>3. CASE ChannelOpens
    <3>1. exec' \in Exec
      BY <2>1, <2>3 DEF ChannelOpens, Exec
    <3>2. NoRemote \in Remote
      BY SessionAssumption DEF NoRemote, Remote, Chunks
    <3>3. remote' = [NoRemote EXCEPT !.fate = "running"] /\ wire' = wire
      BY <2>3 DEF ChannelOpens
    <3>4. remote' \in Remote
      BY <3>2, <3>3 DEF Remote
    <3> QED BY <3>1, <3>3, <3>4
  <2>4. CASE ChannelFails
    BY <2>1, <2>4 DEF ChannelFails, Exec
  <2>5. ASSUME NEW message \in Messages, NEW state, state \in Remote, Host(message, state)
        PROVE  ExecOK'
    BY <2>5 DEF Host
  <2>6. CASE Output
    <3>1. PICK state : state = [remote EXCEPT !.out = @ + 1] /\ Host("data", state)
      BY <2>6 DEF Output
    <3>2. state \in Remote
      BY <2>1, <2>6, <3>1, SessionAssumption DEF Output, Remote, Chunks
    <3> QED BY <2>5, <3>1, <3>2 DEF Messages
  <2>7. CASE Killed
    <3>1. PICK state : state = [remote EXCEPT !.fate = "killed"] /\ Host("signal", state)
      BY <2>7 DEF Killed
    <3>2. state \in Remote
      BY <2>1, <3>1 DEF Remote
    <3> QED BY <2>5, <3>1, <3>2 DEF Messages
  <2>8. CASE EndOutput
    <3>1. PICK state : state = [remote EXCEPT !.eof = TRUE] /\ Host("eof", state)
      BY <2>8 DEF EndOutput
    <3>2. state \in Remote
      BY <2>1, <3>1 DEF Remote
    <3> QED BY <2>5, <3>1, <3>2 DEF Messages
  <2>9. ASSUME NEW code \in Codes, Exits(code)  PROVE ExecOK'
    <3>1. PICK state : /\ state = [remote EXCEPT !.fate = "exited", !.code = code, !.said = TRUE,
                                                 !.inOrder = ~remote.eof]
                       /\ Host("status", state)
      BY <2>9 DEF Exits
    <3>2. state \in Remote
      BY <2>1, <3>1 DEF Remote
    <3> QED BY <2>5, <3>1, <3>2 DEF Messages
  <2>10. CASE ExecStep
    <3>1. wire' \in Seq(Messages) /\ remote' \in Remote
      <4>1. remote' = remote /\ (wire' \in {wire, <<>>} \/ (wire # <<>> /\ wire' = Tail(wire)))
        BY <2>10 DEF ExecStep, ReadData, ReadStatus, ReadOther, ReadEnd, ReadNothing, Read
      <4>2. wire \in Seq(Messages)
        OBVIOUS
      <4>3. <<>> \in Seq(Messages)
        OBVIOUS
      <4>4. ASSUME wire # <<>>  PROVE Tail(wire) \in Seq(Messages)
        BY <4>2, <4>4
      <4> QED BY <2>1, <4>1, <4>2, <4>3, <4>4
    <3>2. CASE ReadData
      BY <2>1, <3>1, <3>2 DEF ReadData, Exec
    <3>3. CASE ReadStatus
      BY <2>1, <3>1, <3>3 DEF ReadStatus, Exec
    <3>4. CASE ReadOther
      BY <2>1, <3>1, <3>4 DEF ReadOther
    <3>5. CASE ReadEnd \/ ReadNothing
      BY <2>1, <3>1, <3>5 DEF ReadEnd, ReadNothing, Exec
    <3> QED BY <2>10, <3>2, <3>3, <3>4, <3>5 DEF ExecStep
  <2> QED BY <2>2, <2>3, <2>4, <2>6, <2>7, <2>8, <2>9, <2>10
<1>3. ConnsOK'
  BY <1>1, LinkConns
<1>4. ForwarderOK' /\ AuthOK'
  BY <1>1 DEF ForwarderOK, AuthOK, Works
<1> QED BY <1>1, <1>2, <1>3, <1>4

-----------------------------------------------------------------------------
\* The invariant holds at first.
LEMMA InitInv == Init => IInv
<1> SUFFICES ASSUME Init PROVE IInv
  OBVIOUS
<1>1. ExecOK
  BY SessionAssumption DEF Init, ExecOK, NoExec, Exec, NoRemote, Remote, Chunks
<1>2. PICK r : r = [NoConn EXCEPT !.app = "none", !.task = "none", !.told = FALSE]
  OBVIOUS
<1>3. r = NoConn /\ r.task = "none"
  BY <1>2 DEF NoConn
<1>4. ConnOK(r, link)
  BY <1>2, FreshConn
<1>5. ConnsOK /\ \A c \in Conns : conn[c].task = "none"
  BY <1>3, <1>4 DEF Init, ConnsOK, ConnOK
<1>6. ForwarderOK
  BY <1>5 DEF Init, ForwarderOK
<1>7. AuthOK
  BY DEF Init, AuthOK, Phases
<1> QED BY <1>1, <1>5, <1>6, <1>7 DEF Init, IInv

\* Every step keeps it.
LEMMA StepInv == IInv /\ [Next]_vars => IInv'
<1> SUFFICES ASSUME IInv, [Next]_vars PROVE IInv'
  OBVIOUS
<1>1. CASE OpenStep \/ OpenFails
  BY <1>1, OpenInv
<1>2. CASE Drop \/ Close \/ Disconnect \/ LinkLost \/ StopLoop
  BY <1>2, EndInv
<1>3. CASE \/ ExecStep \/ BeginExec \/ ChannelOpens \/ ChannelFails
           \/ Output \/ Killed \/ EndOutput \/ \E code \in Codes : Exits(code)
  BY <1>3, ExecInv
<1>4. ASSUME NEW c \in Conns, Dial(c) \/ Write(c) \/ Finish(c) \/ Leave(c)  PROVE IInv'
  BY <1>4, ApplicationStep
<1>5. ASSUME NEW c \in Conns, Answer(c) \/ \E how \in {"finished", "gone"} : RelayEnds(c, how)
      PROVE  IInv'
  BY <1>5, RelayStep
<1>6. ASSUME NEW c \in Conns, Accept(c) \/ ProxyStep(c)  PROVE IInv'
  BY <1>6, TaskStep
<1>7. CASE UNCHANGED vars
  <2>1. UNCHANGED <<phase, auth, link, forwarder, conn, exec, remote, wire>>
    BY <1>7 DEF vars, forwardVars, execVars
  <2> QED BY <2>1 DEF IInv, ExecOK, ConnsOK, ForwarderOK, AuthOK, Works
<1>8. CASE Environment
  BY <1>1, <1>2, <1>3, <1>4, <1>5, <1>8 DEF Environment
<1> QED BY <1>1, <1>2, <1>3, <1>6, <1>7, <1>8 DEF Next

\* The invariant holds in every state of every behaviour of a session.
THEOREM SessionInvariant == Spec => []IInv
<1> QED BY InitInv, StepInv, PTL DEF Spec

\* The state of a session, of its connections and of its command stays well formed.
THEOREM SessionTypeCorrect == Spec => []TypeOK
<1>1. IInv => TypeOK
  BY DEF IInv, TypeOK, ExecOK, ConnsOK, ForwarderOK, AuthOK
<1> QED BY <1>1, SessionInvariant, PTL

\* For any number of key paths, authenticate gives up only when no key and not the
\* password that was handed over would have been accepted (AuthExhausts).
THEOREM AuthExhaustsCorrect == Spec => []AuthExhausts
<1>1. IInv => AuthExhausts
  <2> SUFFICES ASSUME IInv, link = "up" PROVE AuthExhausts
    BY DEF AuthExhausts
  <2>1. ASSUME phase \in {"password", "refused"}, NEW i \in KeyPaths  PROVE ~Works(i)
    <3>1. i < auth.next
      BY <2>1, SessionAssumption DEF IInv, AuthOK, KeyPaths
    <3> QED BY <2>1, <3>1 DEF IInv, AuthOK
  <2> QED BY <2>1 DEF AuthExhausts, IInv, AuthOK
<1> QED BY <1>1, SessionInvariant, PTL

\* However the two halves of a proxied connection end, when its task ends without an
\* error over a live SSH connection the whole answer has been delivered, and all the
\* application wrote has reached the relay unless that closed the channel (ProxyWhole).
THEOREM ProxyWholeCorrect == Spec => []ProxyWhole
<1>1. IInv => ProxyWhole
  BY DEF IInv, ConnsOK, ConnOK, ProxyWhole
<1> QED BY <1>1, SessionInvariant, PTL

-----------------------------------------------------------------------------
(***************************************************************************)
(* exec.  What it has read and what is under way make up what the command  *)
(* has written, as long as the SSH connection holds.                       *)
(***************************************************************************)

\* f counts the output, from what came before the messages w to what comes after them.
Counts(f, w, from, to) ==
  /\ f \in [0 .. Len(w) -> Nat]
  /\ f[0] = from /\ f[Len(w)] = to
  /\ \A k \in 1 .. Len(w) : f[k] = IF w[k] = "data" THEN f[k - 1] + 1 ELSE f[k - 1]
  /\ \A k \in 0 .. Len(w) : (\A i \in 1 .. Len(w) : k < i => w[i] # "data") => f[k] = to

\* Nothing is under way that the host has not sent, and no output behind its end.
WireOK(w, r) ==
  /\ \A i \in 1 .. Len(w) : w[i] = "status" => r.said
  /\ \A i, j \in 1 .. Len(w) : w[i] = "eof" => r.eof /\ (i < j => w[j] # "data")

\* The status is under way before the end of the output.
Coming(w) ==
  \E i \in 1 .. Len(w) : w[i] = "status" /\ \A j \in 1 .. Len(w) : j < i => w[j] # "eof"

CodeOK ==
  /\ remote.said => remote.fate = "exited"
  /\ exec.code # 0 => remote.said /\ exec.code = remote.code

PendingOK ==
  exec.stage = "waiting" /\ link = "up" =>
    /\ \E f : Counts(f, wire, exec.out, remote.out)
    /\ remote.inOrder => exec.code = remote.code \/ Coming(wire)

DoneOK ==
  exec.stage = "done" /\ link = "up" =>
    exec.out = remote.out /\ (remote.inOrder => exec.code = remote.code)

StageOK ==
  /\ phase # "open" => exec.stage = "idle"
  /\ exec.stage = "opening" => exec.out = 0 /\ exec.code = 0 /\ wire = <<>>

ExecInvariant ==
  WireOK(wire, remote) /\ CodeOK /\ PendingOK /\ DoneOK /\ StageOK

\* The host sends one more message.
LEMMA CountOneMore ==
  ASSUME NEW w \in Seq(Messages), NEW m \in Messages, NEW from \in Nat, NEW to \in Nat,
         \E f : Counts(f, w, from, to)
  PROVE  \E f : Counts(f, Append(w, m), from, IF m = "data" THEN to + 1 ELSE to)
<1> PICK f : Counts(f, w, from, to)
  OBVIOUS
<1> PICK n \in Nat : n = Len(w)
  OBVIOUS
<1> PICK v : v = Append(w, m)
  OBVIOUS
<1> PICK end : end = IF m = "data" THEN to + 1 ELSE to
  OBVIOUS
<1>1. Len(v) = n + 1 /\ v[n + 1] = m /\ \A k \in 1 .. n : v[k] = w[k]
  OBVIOUS
<1> PICK g : g = [k \in 0 .. n + 1 |-> IF k = n + 1 THEN end ELSE f[k]]
  OBVIOUS
<1>2. end \in Nat /\ \A k \in 0 .. n : k # n + 1 /\ k \in 0 .. n + 1 /\ f[k] \in Nat
  BY DEF Counts
<1>3. g \in [0 .. n + 1 -> Nat] /\ g[n + 1] = end /\ \A k \in 0 .. n : g[k] = f[k]
  <2>1. n + 1 \in 0 .. n + 1 /\ \A k \in 0 .. n + 1 : k \in 0 .. n \/ k = n + 1
    OBVIOUS
  <2> QED BY <1>2, <2>1
<1>4. ASSUME NEW k \in 1 .. n + 1
      PROVE  g[k] = IF v[k] = "data" THEN g[k - 1] + 1 ELSE g[k - 1]
  <2>1. CASE k = n + 1
    <3>1. n \in 0 .. n /\ k - 1 = n
      BY <2>1
    <3>2. g[n] = to
      BY <1>3, <3>1 DEF Counts
    <3> QED BY <1>1, <1>3, <2>1, <3>1, <3>2
  <2>2. CASE k # n + 1
    <3>1. k \in 1 .. n /\ k \in 0 .. n /\ k - 1 \in 0 .. n
      BY <2>2
    <3> QED BY <1>1, <1>3, <3>1 DEF Counts
  <2> QED BY <2>1, <2>2
<1>5. ASSUME NEW k \in 0 .. n + 1, \A i \in 1 .. n + 1 : k < i => v[i] # "data"
      PROVE  g[k] = end
  <2>1. CASE k = n + 1
    BY <1>3, <2>1
  <2>2. CASE k # n + 1
    <3>1. k \in 0 .. n /\ n + 1 \in 1 .. n + 1 /\ k < n + 1 /\ \A i \in 1 .. n : i \in 1 .. n + 1
      BY <2>2
    <3>2. m # "data"
      BY <1>1, <1>5, <3>1
    <3>3. \A i \in 1 .. n : k < i => w[i] # "data"
      BY <1>1, <1>5, <3>1
    <3>4. f[k] = to
      BY <3>1, <3>3 DEF Counts
    <3> QED BY <1>3, <3>1, <3>2, <3>4
  <2> QED BY <2>1, <2>2
<1>6. g[0] = from
  <2>1. 0 \in 0 .. n
    OBVIOUS
  <2> QED BY <1>3, <2>1 DEF Counts
<1>7. Counts(g, v, from, end)
  BY <1>1, <1>3, <1>4, <1>5, <1>6 DEF Counts
<1> QED BY <1>7

\* exec reads the first message.
LEMMA CountOneLess ==
  ASSUME NEW w \in Seq(Messages), w # <<>>, NEW from \in Nat, NEW to \in Nat,
         \E f : Counts(f, w, from, to)
  PROVE  \E f : Counts(f, Tail(w), IF Head(w) = "data" THEN from + 1 ELSE from, to)
<1> PICK f : Counts(f, w, from, to)
  OBVIOUS
<1> PICK n \in Nat : Len(w) = n + 1
  <2>1. Len(w) \in Nat /\ Len(w) # 0
    OBVIOUS
  <2>2. Len(w) - 1 \in Nat /\ Len(w) = (Len(w) - 1) + 1
    BY <2>1
  <2> QED BY <2>2
<1> PICK v : v = Tail(w)
  OBVIOUS
<1> PICK begin : begin = IF Head(w) = "data" THEN from + 1 ELSE from
  OBVIOUS
<1>1. Len(v) = n /\ Head(w) = w[1] /\ \A k \in 1 .. n : v[k] = w[k + 1]
  OBVIOUS
<1> PICK g : g = [k \in 0 .. n |-> f[k + 1]]
  OBVIOUS
<1>2. \A k \in 0 .. n : k + 1 \in 0 .. n + 1 /\ k + 1 \in 1 .. n + 1
  OBVIOUS
<1>3. g \in [0 .. n -> Nat] /\ \A k \in 0 .. n : g[k] = f[k + 1]
  BY <1>2 DEF Counts
<1>4. ASSUME NEW k \in 1 .. n
      PROVE  g[k] = IF v[k] = "data" THEN g[k - 1] + 1 ELSE g[k - 1]
  <2>1. k \in 0 .. n /\ k - 1 \in 0 .. n /\ (k - 1) + 1 = k /\ (k + 1) - 1 = k
        /\ k + 1 \in 1 .. n + 1
    OBVIOUS
  <2>2. f[k + 1] = IF w[k + 1] = "data" THEN f[(k + 1) - 1] + 1 ELSE f[(k + 1) - 1]
    BY <2>1 DEF Counts
  <2>3. g[k] = f[k + 1] /\ g[k - 1] = f[k] /\ v[k] = w[k + 1]
    BY <1>1, <1>3, <2>1
  <2> QED BY <2>1, <2>2, <2>3
<1>5. ASSUME NEW k \in 0 .. n, \A i \in 1 .. n : k < i => v[i] # "data"
      PROVE  g[k] = to
  <2>1. ASSUME NEW i \in 1 .. n + 1, k + 1 < i PROVE w[i] # "data"
    <3>1. i - 1 \in 1 .. n /\ k < i - 1 /\ (i - 1) + 1 = i
      BY <2>1
    <3> QED BY <1>1, <1>5, <3>1
  <2> QED BY <1>2, <1>3, <2>1 DEF Counts
<1>6. g[0] = begin
  <2>1. 0 \in 0 .. n /\ 1 \in 1 .. n + 1 /\ 0 + 1 = 1 /\ 1 - 1 = 0
    OBVIOUS
  <2>2. f[1] = IF w[1] = "data" THEN f[1 - 1] + 1 ELSE f[1 - 1]
    BY <2>1 DEF Counts
  <2>3. f[0] = from
    BY DEF Counts
  <2> QED BY <1>1, <1>3, <2>1, <2>2, <2>3
<1>7. g[n] = to
  <2>1. n \in 0 .. n
    OBVIOUS
  <2> QED BY <1>3, <2>1 DEF Counts
<1>8. Counts(g, v, begin, to)
  BY <1>1, <1>3, <1>4, <1>5, <1>6, <1>7 DEF Counts
<1> QED BY <1>8

\* What the host sends keeps the order of the messages.
LEMMA SendKeeps ==
  ASSUME IInv, ExecInvariant, NEW m \in Messages \ {"status"}, NEW r \in Remote, Host(m, r),
         m = "data" => ~remote.eof /\ r.out = remote.out + 1,
         m # "data" => r.out = remote.out,
         remote.eof => r.eof, m = "eof" => r.eof,
         r.fate # remote.fate => remote.fate = "running",
         r.said = remote.said, r.code = remote.code, r.inOrder = remote.inOrder
  PROVE  ExecInvariant'
<1> USE DEF ExecInvariant
<1>0. /\ wire \in Seq(Messages) /\ exec.out \in Nat /\ remote.out \in Nat
      /\ exec.stage = "waiting" /\ link = "up" /\ remote' = r /\ wire' = Append(wire, m)
      /\ UNCHANGED <<phase, link, exec>>
  BY SessionAssumption DEF IInv, ExecOK, Exec, Remote, Chunks, Host
<1> PICK w : w = Append(wire, m)
  OBVIOUS
<1> PICK n \in Nat : n = Len(wire)
  BY <1>0
<1>1. Len(w) = n + 1 /\ w[n + 1] = m /\ \A k \in 1 .. n : w[k] = wire[k]
  BY <1>0
<1>2. \A k \in 1 .. n + 1 : k \in 1 .. n \/ k = n + 1
  OBVIOUS
<1>3. \A i, j \in 1 .. n + 1 : i < j => i \in 1 .. n
  OBVIOUS
<1>4. WireOK(w, r)
  <2>1. \A i \in 1 .. Len(w) : w[i] = "status" => r.said
    BY <1>1, <1>2 DEF WireOK
  <2>2. ASSUME NEW i \in 1 .. n + 1, NEW j \in 1 .. n + 1, w[i] = "eof"
        PROVE  r.eof /\ (i < j => w[j] # "data")
    <3>1. CASE i = n + 1
      BY <1>1, <2>2, <3>1
    <3>2. CASE i # n + 1
      <4>1. i \in 1 .. n /\ wire[i] = "eof"
        BY <1>1, <1>2, <2>2, <3>2
      <4>2. remote.eof /\ \A k \in 1 .. n : i < k => wire[k] # "data"
        BY <4>1 DEF WireOK
      <4> QED BY <1>1, <1>2, <4>2
    <3> QED BY <3>1, <3>2
  <2> QED BY <1>1, <2>1, <2>2 DEF WireOK
<1>5. CodeOK'
  BY <1>0 DEF CodeOK, IInv, ExecOK, Remote
<1>6. PendingOK'
  <2>1. \E f : Counts(f, w, exec.out, IF m = "data" THEN remote.out + 1 ELSE remote.out)
    BY <1>0, CountOneMore DEF PendingOK
  <2>2. r.out = IF m = "data" THEN remote.out + 1 ELSE remote.out
    OBVIOUS
  <2>3. Coming(wire) => Coming(w)
    <3> SUFFICES ASSUME Coming(wire) PROVE Coming(w)
      OBVIOUS
    <3>1. PICK i \in 1 .. n : wire[i] = "status" /\ \A j \in 1 .. n : j < i => wire[j] # "eof"
      BY DEF Coming
    <3>2. i \in 1 .. n + 1 /\ \A j \in 1 .. n + 1 : j < i => j \in 1 .. n
      OBVIOUS
    <3> QED BY <1>1, <3>1, <3>2 DEF Coming
  <2> QED BY <1>0, <2>1, <2>2, <2>3 DEF PendingOK
<1>7. DoneOK' /\ StageOK'
  BY <1>0 DEF DoneOK, StageOK
<1> QED BY <1>0, <1>4, <1>5, <1>6, <1>7

\* The command exits.
LEMMA ExitKeeps ==
  ASSUME IInv, ExecInvariant, NEW code \in Codes, Exits(code)
  PROVE  ExecInvariant'
<1> USE DEF ExecInvariant
<1> PICK r : r = [remote EXCEPT !.fate = "exited", !.code = code, !.said = TRUE,
                                !.inOrder = ~remote.eof]
  OBVIOUS
<1>0. /\ wire \in Seq(Messages) /\ exec.out \in Nat /\ remote.out \in Nat /\ remote \in Remote
      /\ exec.stage = "waiting" /\ link = "up" /\ remote' = r /\ wire' = Append(wire, "status")
      /\ UNCHANGED <<phase, link, exec>> /\ remote.fate = "running"
  BY SessionAssumption DEF IInv, ExecOK, Exec, Remote, Chunks, Host, Exits
<1>a. /\ r.fate = "exited" /\ r.code = code /\ r.said /\ r.out = remote.out /\ r.eof = remote.eof
      /\ r.inOrder = ~remote.eof
  BY <1>0 DEF Remote
<1> PICK w : w = Append(wire, "status")
  OBVIOUS
<1> PICK n \in Nat : n = Len(wire)
  BY <1>0
<1>1. Len(w) = n + 1 /\ w[n + 1] = "status" /\ \A k \in 1 .. n : w[k] = wire[k]
  BY <1>0
<1>2. \A k \in 1 .. n + 1 : k \in 1 .. n \/ k = n + 1
  OBVIOUS
<1>4. WireOK(w, r)
  <2>1. ASSUME NEW i \in 1 .. n + 1, NEW j \in 1 .. n + 1, w[i] = "eof"
        PROVE  r.eof /\ (i < j => w[j] # "data")
    <3>1. i \in 1 .. n /\ wire[i] = "eof"
      BY <1>1, <1>2, <2>1
    <3>2. remote.eof /\ \A k \in 1 .. n : i < k => wire[k] # "data"
      BY <3>1 DEF WireOK
    <3> QED BY <1>a, <1>1, <1>2, <3>2
  <2> QED BY <1>a, <1>1, <2>1 DEF WireOK
<1>5. CodeOK'
  BY <1>0, <1>a DEF CodeOK
<1>6. PendingOK'
  <2>1. \E f : Counts(f, w, exec.out, IF "status" = "data" THEN remote.out + 1 ELSE remote.out)
    BY <1>0, CountOneMore DEF PendingOK, Messages
  <2>2. ~remote.eof => Coming(w)
    <3>1. n + 1 \in 1 .. n + 1 /\ \A j \in 1 .. n + 1 : j < n + 1 => j \in 1 .. n
      OBVIOUS
    <3>2. ~remote.eof => \A j \in 1 .. n : wire[j] # "eof"
      BY DEF WireOK
    <3> QED BY <1>1, <3>1, <3>2 DEF Coming
  <2> QED BY <1>0, <1>a, <2>1, <2>2 DEF PendingOK
<1>7. DoneOK' /\ StageOK'
  BY <1>0 DEF DoneOK, StageOK
<1> QED BY <1>0, <1>4, <1>5, <1>6, <1>7

\* What is left to read after the first message.
LEMMA TailKeeps ==
  ASSUME NEW w \in Seq(Messages), w # <<>>, NEW r, WireOK(w, r)
  PROVE  /\ WireOK(Tail(w), r)
         /\ Coming(w) /\ Head(w) # "status" => Head(w) # "eof" /\ Coming(Tail(w))
<1> PICK n \in Nat : Len(w) = n + 1
  <2>1. Len(w) \in Nat /\ Len(w) # 0
    OBVIOUS
  <2>2. Len(w) - 1 \in Nat /\ Len(w) = (Len(w) - 1) + 1
    BY <2>1
  <2> QED BY <2>2
<1> PICK v : v = Tail(w)
  OBVIOUS
<1>1. Len(v) = n /\ Head(w) = w[1] /\ \A k \in 1 .. n : v[k] = w[k + 1]
  OBVIOUS
<1>2. \A k \in 1 .. n : k + 1 \in 1 .. n + 1
  OBVIOUS
<1>3. \A i, j \in 1 .. n : i < j => i + 1 < j + 1
  OBVIOUS
<1>4. WireOK(v, r)
  BY <1>1, <1>2, <1>3 DEF WireOK
<1>5. ASSUME Coming(w), Head(w) # "status" PROVE Head(w) # "eof" /\ Coming(v)
  <2>1. PICK i \in 1 .. n + 1 : w[i] = "status" /\ \A j \in 1 .. n + 1 : j < i => w[j] # "eof"
    BY <1>5 DEF Coming
  <2>2. 1 < i /\ 1 \in 1 .. n + 1 /\ i - 1 \in 1 .. n /\ (i - 1) + 1 = i
    BY <1>1, <1>5, <2>1
  <2>3. \A j \in 1 .. n : j < i - 1 => j + 1 < i
    BY <2>2
  <2>4. v[i - 1] = "status" /\ \A j \in 1 .. n : j < i - 1 => v[j] # "eof"
    BY <1>1, <1>2, <2>1, <2>2, <2>3
  <2> QED BY <1>1, <2>1, <2>2, <2>4 DEF Coming
<1> QED BY <1>4, <1>5

\* exec reads a message.
LEMMA ReadKeeps ==
  ASSUME IInv, ExecInvariant, ReadData \/ ReadStatus \/ ReadOther \/ ReadEnd
  PROVE  ExecInvariant'
<1> USE DEF ExecInvariant
<1>0. /\ wire \in Seq(Messages) /\ wire # <<>> /\ exec \in Exec /\ exec.out \in Nat
      /\ remote.out \in Nat /\ exec.stage = "waiting" /\ UNCHANGED <<phase, link, remote>>
  BY SessionAssumption DEF IInv, ExecOK, Exec, Remote, Chunks, ReadData, ReadStatus, ReadOther,
                           ReadEnd, Read
<1>1. /\ WireOK(Tail(wire), remote)
      /\ Coming(wire) /\ Head(wire) # "status" => Head(wire) # "eof" /\ Coming(Tail(wire))
  BY <1>0, TailKeeps
<1>2. link = "up" => \E f : Counts(f, Tail(wire), IF Head(wire) = "data" THEN exec.out + 1
                                                  ELSE exec.out, remote.out)
  BY <1>0, CountOneLess DEF PendingOK
<1>3. StageOK'
  BY <1>0 DEF StageOK, ReadData, ReadStatus, ReadOther, ReadEnd, Exec
<1>4. CASE ReadData
  <2>1. /\ Head(wire) = "data" /\ wire' = Tail(wire) /\ exec'.out = exec.out + 1
        /\ exec'.code = exec.code /\ exec'.stage = "waiting"
    BY <1>0, <1>4 DEF ReadData, Read, Exec
  <2>2. CodeOK' /\ DoneOK'
    BY <1>0, <2>1 DEF CodeOK, DoneOK
  <2>3. PendingOK'
    BY <1>0, <1>1, <1>2, <2>1 DEF PendingOK
  <2> QED BY <1>0, <1>1, <1>3, <2>1, <2>2, <2>3
<1>5. CASE ReadStatus
  <2>1. /\ Head(wire) = "status" /\ wire' = Tail(wire) /\ exec'.out = exec.out
        /\ exec'.code = remote.code /\ exec'.stage = "waiting"
    BY <1>0, <1>5 DEF ReadStatus, Read, Exec
  <2>2. remote.said
    <3>1. 1 \in 1 .. Len(wire) /\ Head(wire) = wire[1]
      BY <1>0
    <3> QED BY <2>1, <3>1 DEF WireOK
  <2>3. CodeOK' /\ DoneOK'
    BY <1>0, <2>1, <2>2 DEF CodeOK, DoneOK
  <2>4. PendingOK'
    BY <1>0, <1>2, <2>1 DEF PendingOK
  <2> QED BY <1>0, <1>1, <1>3, <2>1, <2>3, <2>4
<1>6. CASE ReadOther
  <2>1. Head(wire) = "signal" /\ wire' = Tail(wire) /\ exec' = exec
    BY <1>6 DEF ReadOther, Read
  <2>2. CodeOK' /\ DoneOK'
    BY <1>0, <2>1 DEF CodeOK, DoneOK
  <2>3. PendingOK'
    BY <1>0, <1>1, <1>2, <2>1 DEF PendingOK
  <2> QED BY <1>0, <1>1, <1>3, <2>1, <2>2, <2>3
<1>7. CASE ReadEnd
  <2>1. /\ Head(wire) = "eof" /\ wire' = <<>> /\ exec'.out = exec.out
        /\ exec'.code = exec.code /\ exec'.stage = "done"
    BY <1>0, <1>7 DEF ReadEnd, Exec
  <2>2. WireOK(<<>>, remote)
    BY DEF WireOK
  <2>3. link = "up" => exec.out = remote.out
    <3> SUFFICES ASSUME link = "up" PROVE exec.out = remote.out
      OBVIOUS
    <3>1. PICK f : Counts(f, wire, exec.out, remote.out)
      BY <1>0 DEF PendingOK
    <3>2. 1 \in 1 .. Len(wire) /\ 0 \in 0 .. Len(wire) /\ wire[1] = "eof"
      BY <1>0, <2>1
    <3>3. \A i \in 1 .. Len(wire) : 0 < i => i = 1 \/ 1 < i
      BY <1>0
    <3>4. \A i \in 1 .. Len(wire) : 0 < i => wire[i] # "data"
      BY <3>2, <3>3 DEF WireOK
    <3> QED BY <3>1, <3>2, <3>4 DEF Counts
  <2>4. link = "up" /\ remote.inOrder => exec.code = remote.code
    BY <1>0, <1>1, <2>1 DEF PendingOK
  <2>5. CodeOK' /\ DoneOK' /\ PendingOK'
    BY <1>0, <2>1, <2>3, <2>4 DEF CodeOK, DoneOK, PendingOK
  <2> QED BY <1>0, <1>3, <2>1, <2>2, <2>5
<1> QED BY <1>4, <1>5, <1>6, <1>7

\* A call of exec begins, opens its channel, fails, or finds the connection gone.
LEMMA CallKeeps ==
  ASSUME IInv, ExecInvariant, BeginExec \/ ChannelOpens \/ ChannelFails \/ ReadNothing
  PROVE  ExecInvariant'
<1> USE DEF ExecInvariant
<1>0. exec \in Exec /\ remote \in Remote
  BY DEF IInv, ExecOK
<1>1. WireOK(<<>>, NoRemote) /\ \A r : WireOK(<<>>, r)
  BY DEF WireOK
<1>2. CASE BeginExec
  <2>1. /\ phase' = "open" /\ wire' = <<>> /\ remote' = NoRemote
        /\ exec'.stage = "opening" /\ exec'.out = 0 /\ exec'.code = 0
    BY <1>2 DEF BeginExec, NoExec
  <2> QED BY <1>1, <2>1 DEF CodeOK, PendingOK, DoneOK, StageOK, NoRemote
<1>3. CASE ChannelOpens
  <2> PICK r : r = [NoRemote EXCEPT !.fate = "running"]
    OBVIOUS
  <2>1. /\ wire' = <<>> /\ remote' = r /\ UNCHANGED phase /\ phase = "open"
        /\ exec'.stage = "waiting" /\ exec'.out = 0 /\ exec'.code = 0
    BY <1>0, <1>3 DEF ChannelOpens, Exec, StageOK
  <2>2. r.said = FALSE /\ r.out = 0 /\ r.inOrder = FALSE
    BY DEF NoRemote
  <2>3. \E f : Counts(f, <<>>, 0, 0)
    <3> PICK f : f = [k \in 0 .. 0 |-> 0]
      OBVIOUS
    <3>1. f \in [0 .. 0 -> Nat] /\ f[0] = 0 /\ Len(<<>>) = 0 /\ \A k \in 0 .. 0 : f[k] = 0
      OBVIOUS
    <3>2. Counts(f, <<>>, 0, 0)
      BY <3>1 DEF Counts
    <3> QED BY <3>2
  <2> QED BY <1>1, <2>1, <2>2, <2>3 DEF CodeOK, PendingOK, DoneOK, StageOK
<1>4. CASE ChannelFails
  <2>1. /\ exec'.stage = "error" /\ exec'.code = exec.code
        /\ UNCHANGED <<phase, link, remote, wire>> /\ phase = "open"
    BY <1>0, <1>4 DEF ChannelFails, Exec, StageOK
  <2> QED BY <2>1 DEF CodeOK, PendingOK, DoneOK, StageOK
<1>5. CASE ReadNothing
  <2>1. /\ exec'.stage = "done" /\ exec'.code = exec.code /\ link = "down"
        /\ UNCHANGED <<phase, link, remote, wire>> /\ phase = "open"
    BY <1>0, <1>5 DEF ReadNothing, Exec, StageOK
  <2> QED BY <2>1 DEF CodeOK, PendingOK, DoneOK, StageOK
<1> QED BY <1>2, <1>3, <1>4, <1>5

\* The session opens, ends, or loses its connection.
LEMMA LinkKeeps ==
  ASSUME IInv, ExecInvariant, OpenStep \/ OpenFails \/ Drop \/ Close \/ Disconnect \/ LinkLost
  PROVE  ExecInvariant'
<1> USE DEF ExecInvariant
<1>1. CASE OpenStep \/ OpenFails
  <2>1. phase # "open" /\ UNCHANGED <<exec, remote, wire>>
    BY <1>1 DEF OpenStep, OpenFails, ResolvePassword, Connect, FallBack, KeyAccepted, KeyPassed,
                PasswordAccepted, PasswordRefused, SpawnForwarder, execVars, Enter
  <2> QED BY <2>1 DEF CodeOK, PendingOK, DoneOK, StageOK
<1>2. CASE Drop \/ Close
  <2>1. exec' = NoExec /\ remote' = NoRemote /\ wire' = <<>>
    BY <1>2 DEF Drop, Close
  <2> QED BY <2>1 DEF WireOK, CodeOK, PendingOK, DoneOK, StageOK, NoExec, NoRemote
<1>3. CASE Disconnect
  <2>1. link' = "down" /\ UNCHANGED <<phase, exec, remote, wire>>
    BY <1>3 DEF Disconnect, execVars
  <2> QED BY <2>1 DEF CodeOK, PendingOK, DoneOK, StageOK
<1>4. CASE LinkLost
  <2>1. link' = "down" /\ UNCHANGED <<phase, exec, remote>>
    BY <1>4 DEF LinkLost
  <2>2. PICK n \in 0 .. Len(wire) : wire' = SubSeq(wire, 1, n)
    BY <1>4 DEF LinkLost
  <2> PICK w : w = SubSeq(wire, 1, n)
    OBVIOUS
  <2>3. wire \in Seq(Messages)
    BY DEF IInv, ExecOK
  <2>4. Len(w) = n /\ \A k \in 1 .. n : w[k] = wire[k] /\ k \in 1 .. Len(wire)
    BY <2>3
  <2>5. WireOK(w, remote)
    BY <2>4 DEF WireOK
  <2>6. wire = <<>> => w = <<>>
    BY <2>3, <2>4
  <2> QED BY <2>1, <2>2, <2>5, <2>6 DEF CodeOK, PendingOK, DoneOK, StageOK
<1> QED BY <1>1, <1>2, <1>3, <1>4

\* Every step keeps what exec relies on.
LEMMA NextExec ==
  ASSUME IInv, ExecInvariant, [Next]_vars
  PROVE  ExecInvariant'
<1>0. exec \in Exec /\ remote \in Remote
  BY DEF IInv, ExecOK
<1>1. CASE UNCHANGED vars \/ StopLoop
           \/ \E c \in Conns : \/ Accept(c) \/ ProxyStep(c)
                               \/ Dial(c) \/ Write(c) \/ Finish(c) \/ Leave(c) \/ Answer(c)
                               \/ \E how \in {"finished", "gone"} : RelayEnds(c, how)
  <2>1. UNCHANGED <<phase, link, exec, remote, wire>>
    BY <1>1 DEF vars, execVars, forwardVars, StopLoop, Accept, ProxyStep, OpenChannel, ChannelRefused,
                Up, PumpUp, WriteDropped, UpEnds, Down, PumpDown, DownEnds, ProxyFails, Join, Dial, Write,
                Finish, Leave, Answer, RelayEnds, Update
  <2> QED BY <2>1 DEF ExecInvariant, CodeOK, PendingOK, DoneOK, StageOK
<1>2. CASE OpenStep \/ OpenFails \/ Drop \/ Close \/ Disconnect \/ LinkLost
  BY <1>2, LinkKeeps
<1>3. CASE BeginExec \/ ChannelOpens \/ ChannelFails \/ ExecStep
  BY <1>3, CallKeeps, ReadKeeps DEF ExecStep
<1>4. CASE Output
  <2>1. PICK r : r = [remote EXCEPT !.out = remote.out + 1] /\ Host("data", r)
    BY <1>4 DEF Output
  <2>2. r \in Remote /\ r.out = remote.out + 1 /\ ~remote.eof
        /\ r.eof = remote.eof /\ r.fate = remote.fate /\ r.said = remote.said
        /\ r.code = remote.code /\ r.inOrder = remote.inOrder
    BY <1>0, <1>4, <2>1, SessionAssumption DEF Output, Remote, Chunks
  <2> QED BY <2>1, <2>2, SendKeeps DEF Messages
<1>5. CASE Killed
  <2>1. PICK r : r = [remote EXCEPT !.fate = "killed"] /\ Host("signal", r)
    BY <1>5 DEF Killed
  <2>2. r \in Remote /\ r.out = remote.out /\ remote.fate = "running"
        /\ r.eof = remote.eof /\ r.said = remote.said
        /\ r.code = remote.code /\ r.inOrder = remote.inOrder
    BY <1>0, <1>5, <2>1 DEF Killed, Remote
  <2> QED BY <2>1, <2>2, SendKeeps DEF Messages
<1>6. CASE EndOutput
  <2>1. PICK r : r = [remote EXCEPT !.eof = TRUE] /\ Host("eof", r)
    BY <1>6 DEF EndOutput
  <2>2. r \in Remote /\ r.out = remote.out /\ r.eof /\ r.fate = remote.fate
        /\ r.said = remote.said /\ r.code = remote.code /\ r.inOrder = remote.inOrder
    BY <1>0, <2>1 DEF Remote
  <2> QED BY <2>1, <2>2, SendKeeps DEF Messages
<1>7. CASE \E code \in Codes : Exits(code)
  BY <1>7, ExitKeeps
<1> QED BY <1>1, <1>2, <1>3, <1>4, <1>5, <1>6, <1>7 DEF Next, Environment

\* While the SSH connection holds, exec returns the whole output of the command and the
\* code it sent before the end of that; it never makes up a code (ExecFaithful).
THEOREM ExecFaithfulCorrect == Spec => []ExecFaithful
<1>1. Init => ExecInvariant
  BY DEF Init, ExecInvariant, WireOK, CodeOK, PendingOK, DoneOK, StageOK, NoExec, NoRemote
<1>2. Spec => []ExecInvariant
  BY <1>1, NextExec, SessionInvariant, PTL DEF Spec
<1>3. ExecInvariant => ExecFaithful
  BY DEF ExecInvariant, CodeOK, DoneOK, ExecFaithful
<1> QED BY <1>2, <1>3, PTL

=============================================================================
