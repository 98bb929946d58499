----------------------------- MODULE Discovery -----------------------------
(***************************************************************************)
(* discovery.rs: one scan of the local network.  Three sweeps run in one   *)
(* task, each under the timeout of the whole scan: mDNS listens, ICMP      *)
(* probes every address of the subnet, ARP reads the kernel's table.  What *)
(* they return is merged by address; a sweep that hits its timeout returns *)
(* nothing.  The clock starts when the mDNS daemon is up, which is when the *)
(* other two sweeps begin.  A timer fires at its time or up to Lag later.  *)
(***************************************************************************)
EXTENDS Integers, Sequences, SequencesExt

CONSTANTS
  Addresses,    \* IP addresses
  Names,        \* mDNS host names
  Macs,         \* hardware addresses of the ARP table
  Events,       \* mDNS events: the addresses a service resolves to, <<>> for other events
  Tables,       \* ARP tables: sequences of rows
  Subnets,      \* subnets: sets of host addresses
  Registered,   \* what the addresses of the registered servers may be
  Budgets,      \* timeouts of the scan
  PingTimeout,  \* most a probe waits (800 ms)
  Poll,         \* most one receiver is waited for (200 ms)
  Pause,        \* sleep after a round without an event (100 ms)
  Services,     \* number of service types browsed
  Setup,        \* most the start of the mDNS daemon takes
  Lag,          \* how late the runtime may poll a task
  MaxEvents,    \* bound on the mDNS events of a scan
  None          \* no name, hardware address or host

Row     == [ip : Addresses, mac : Macs \cup {"incomplete", "malformed"}]
Finding == [ip : Addresses, name : Names \cup {None}]
Host    == [name : Names \cup {None}, mac : Macs \cup {None}, known : BOOLEAN]

ASSUME DiscoveryAssumption ==
  /\ Budgets \subseteq Nat
  /\ Subnets \subseteq SUBSET Addresses
  /\ Registered \subseteq SUBSET Addresses
  /\ Tables \subseteq Seq(Row)
  /\ Events \subseteq Seq(Finding)
  /\ {PingTimeout, Poll, Pause, Services, Setup, Lag, MaxEvents} \subseteq Nat
  /\ Pause > 0
  /\ None \notin Names \cup Macs \cup Host

VARIABLES
  phase,    \* where the scan is
  budget,   \* its timeout
  known,    \* addresses of registered servers
  clock,
  mdns,     \* the mDNS sweep
  heard,    \* events the daemon has queued for each service type
  events,   \* how many events there were
  probe,    \* the probes of the ICMP sweep
  icmp,     \* how that sweep ended
  arp,      \* the rows the ARP sweep kept, None before it read them
  result    \* what the scan returned

vars == <<phase, budget, known, clock, mdns, heard, events, probe, icmp, arp, result>>

\* A sweep runs, has returned, or was dropped by its timeout.
Sweep == {"running", "done", "dropped"}

\* began: when the sweep began, receivers: the service types it could browse.
Mdns == [sweep : Sweep, began : -Setup .. 0, at : {"check", "receive", "pause"},
         receivers : 0 .. Services, turn : 1 .. Services + 1, progressed : BOOLEAN,
         wait : Nat, until : Nat, deadline : Nat, findings : Seq(Finding)]

Browsing(began, receivers) ==
  [sweep |-> "running", began |-> began, at |-> "check", receivers |-> receivers,
   turn |-> 1, progressed |-> FALSE, wait |-> 0, until |-> 0, deadline |-> budget,
   findings |-> <<>>]

NoDaemon == [Browsing(0, 0) EXCEPT !.sweep = "done"]

NoHosts == [a \in Addresses |-> None]

TypeOK ==
  /\ phase \in {"idle", "scanning", "done", "DiscoveryNoInterface"}
  /\ budget \in Budgets
  /\ known \in Registered
  /\ clock \in Nat
  /\ mdns \in Mdns
  /\ heard \in [1 .. Services -> Seq(Events)]
  /\ events \in 0 .. MaxEvents
  /\ probe \in [Addresses -> {"none", "sent", "replied", "silent"}]
  /\ icmp \in Sweep
  /\ arp \in Seq(Row) \cup {None}
  /\ result \in [Addresses -> Host \cup {None}]

Init ==
  /\ phase = "idle"
  /\ budget \in Budgets
  /\ known \in Registered
  /\ clock = 0
  /\ mdns = NoDaemon
  /\ heard = [s \in 1 .. Services |-> <<>>]
  /\ events = 0
  /\ probe = [a \in Addresses |-> "none"]
  /\ icmp = "running"
  /\ arp = None
  /\ result = NoHosts

-----------------------------------------------------------------------------
(* merge_results: the results of the sweeps, one after the other. *)

HostAt(hosts, a) ==
  IF hosts[a] # None THEN hosts[a]
  ELSE [name |-> None, mac |-> None, known |-> a \in known]

\* Mutant: the last name wins.
AddFindingLast(hosts, f) ==
  [hosts EXCEPT ![f.ip] = [HostAt(hosts, f.ip) EXCEPT !.name = f.name]]

AddFinding(hosts, f) ==
  [hosts EXCEPT ![f.ip] = IF HostAt(hosts, f.ip).name # None THEN HostAt(hosts, f.ip)
                          ELSE [HostAt(hosts, f.ip) EXCEPT !.name = f.name]]

AddRow(hosts, row) ==
  [hosts EXCEPT ![row.ip] = IF HostAt(hosts, row.ip).mac # None THEN HostAt(hosts, row.ip)
                            ELSE [HostAt(hosts, row.ip) EXCEPT !.mac = row.mac]]

AddReplies(hosts, replies) ==
  [a \in Addresses |-> IF a \in replies THEN HostAt(hosts, a) ELSE hosts[a]]

Merge(findings, replies, rows) ==
  FoldLeft(AddRow, AddReplies(FoldLeft(AddFinding, NoHosts, findings), replies), rows)

\* Mutant: takes every row.
ParseAll(table) == table

\* Rows without a resolved, well-formed address are skipped.
Keep(rows, row) == IF row.mac \in Macs THEN Append(rows, row) ELSE rows

\* parse_proc_net_arp.
Parse(table) == FoldLeft(Keep, <<>>, table)

-----------------------------------------------------------------------------
(* The network. *)

\* The daemon resolves a service, or has something else to tell.
Announce(s, e) ==
  /\ phase = "scanning"
  /\ mdns.sweep = "running"
  /\ s <= mdns.receivers
  /\ events < MaxEvents
  /\ events' = events + 1
  /\ heard' = [heard EXCEPT ![s] = Append(@, e)]
  /\ UNCHANGED <<phase, budget, known, clock, mdns, probe, icmp, arp, result>>

\* Mutant: a probe may take as long as the scan.
PerHostWhole == budget

\* How long a probe is waited for.
PerHost == IF PingTimeout < budget \div 4 THEN PingTimeout ELSE budget \div 4

\* A host answers its probe before the probe gives up.
Reply(a) ==
  /\ phase = "scanning"
  /\ icmp = "running"
  /\ probe[a] = "sent"
  /\ clock <= PerHost
  /\ probe' = [probe EXCEPT ![a] = "replied"]
  /\ UNCHANGED <<phase, budget, known, clock, mdns, heard, events, icmp, arp, result>>

-----------------------------------------------------------------------------
(* scan *)

\* The subnet is the one asked for, or that of the first usable interface.  The
\* daemon is started first and its deadline counts from there; all probes go out
\* at once, unless the raw socket is refused.
Start(subnet, m) ==
  /\ phase = "idle"
  /\ phase' = "scanning"
  /\ mdns' = m
  /\ \/ probe' = [a \in Addresses |-> IF a \in subnet THEN "sent" ELSE "none"]
     \/ UNCHANGED probe
  /\ UNCHANGED <<budget, known, clock, heard, events, icmp, arp, result>>

NoInterface ==
  /\ phase = "idle"
  /\ phase' = "DiscoveryNoInterface"
  /\ UNCHANGED <<budget, known, clock, mdns, heard, events, probe, icmp, arp, result>>

-----------------------------------------------------------------------------
(* The mDNS sweep. *)

Listen(m) ==
  /\ phase = "scanning"
  /\ mdns.sweep = "running"
  /\ mdns' = m
  /\ UNCHANGED <<phase, budget, known, clock, events, probe, icmp, arp, result>>

\* What is left of the budget is computed once per round.
BeginRound ==
  LET left == mdns.deadline - clock
      wait == IF left < Poll THEN left ELSE Poll
  IN  /\ mdns.at = "check"
      /\ left >= 0
      /\ Listen([mdns EXCEPT !.at = "receive", !.turn = 1, !.progressed = FALSE,
                             !.wait = wait, !.until = clock + wait])
      /\ UNCHANGED heard

Waiting == mdns.at = "receive" /\ mdns.turn <= mdns.receivers

Receive ==
  /\ Waiting
  /\ heard[mdns.turn] # <<>>
  /\ heard' = [heard EXCEPT ![mdns.turn] = Tail(@)]
  /\ Listen([mdns EXCEPT !.findings = @ \o Head(heard[mdns.turn]), !.progressed = TRUE,
                         !.turn = @ + 1, !.until = clock + mdns.wait])

NothingHeard ==
  /\ Waiting
  /\ heard[mdns.turn] = <<>>
  /\ clock >= mdns.until
  /\ Listen([mdns EXCEPT !.turn = @ + 1, !.until = clock + mdns.wait])
  /\ UNCHANGED heard

\* A round without any event is followed by a sleep.
EndRound ==
  /\ mdns.at = "receive" /\ mdns.turn > mdns.receivers
  /\ Listen(IF mdns.progressed THEN [mdns EXCEPT !.at = "check"]
            ELSE [mdns EXCEPT !.at = "pause", !.until = clock + Pause])
  /\ UNCHANGED heard

EndPause ==
  /\ mdns.at = "pause"
  /\ clock >= mdns.until
  /\ Listen([mdns EXCEPT !.at = "check"])
  /\ UNCHANGED heard

\* checked_duration_since is None only behind the deadline.
ListenReturns ==
  /\ mdns.at = "check"
  /\ clock > mdns.deadline
  /\ Listen([mdns EXCEPT !.sweep = "done"])
  /\ UNCHANGED heard

\* Mutant: the listener is trusted to keep its own deadline.
CutoffNever(began) == began + budget + 10 * (Poll + Pause)

\* run_with_budget: when the timeout around a sweep fires.
Cutoff(began) == began + budget

Sleeping == (Waiting /\ heard[mdns.turn] = <<>>) \/ mdns.at = "pause"

\* The timeout polls the sweep before it looks at the time.
ListenTimesOut ==
  /\ Sleeping /\ clock < mdns.until
  /\ clock >= Cutoff(mdns.began)
  /\ Listen([mdns EXCEPT !.sweep = "dropped"])
  /\ UNCHANGED heard

-----------------------------------------------------------------------------
(* The ICMP and ARP sweeps. *)

\* The probe has waited long enough, or could not be sent.
GiveUp(a) ==
  /\ phase = "scanning"
  /\ icmp = "running"
  /\ probe[a] = "sent"
  /\ probe' = [probe EXCEPT ![a] = "silent"]
  /\ UNCHANGED <<phase, budget, known, clock, mdns, heard, events, icmp, arp, result>>

Pending == {a \in Addresses : probe[a] = "sent"}

\* join_all waits for every probe.  The timeout of the sweep polls them before it
\* looks at the time, so it fires only if theirs do not come first.
ProbesReturn ==
  /\ phase = "scanning"
  /\ icmp = "running"
  /\ Pending # {} => clock >= Cutoff(0) /\ PerHost >= Cutoff(0)
  /\ icmp' = IF Pending = {} THEN "done" ELSE "dropped"
  /\ UNCHANGED <<phase, budget, known, clock, mdns, heard, events, probe, arp, result>>

\* The table is read at some point of the scan, as it is then; a read that fails
\* or does not come in time gives no rows.
ReadArp(table) ==
  /\ phase = "scanning"
  /\ arp = None
  /\ arp' = Parse(table)
  /\ UNCHANGED <<phase, budget, known, clock, mdns, heard, events, probe, icmp, result>>

-----------------------------------------------------------------------------
\* Mutant: takes a sweep that timed out for one that still runs.
FinishAll ==
  /\ phase = "scanning"
  /\ mdns.sweep = "done" /\ icmp = "done" /\ arp # None
  /\ phase' = "done"
  /\ result' = Merge(mdns.findings, {a \in Addresses : probe[a] = "replied"}, arp)
  /\ UNCHANGED <<budget, known, clock, mdns, heard, events, probe, icmp, arp>>

\* join!: all three sweeps have returned or timed out.
Finish ==
  /\ phase = "scanning"
  /\ mdns.sweep # "running" /\ icmp # "running" /\ arp # None
  /\ phase' = "done"
  /\ result' = Merge(IF mdns.sweep = "done" THEN mdns.findings ELSE <<>>,
                     IF icmp = "done" THEN {a \in Addresses : probe[a] = "replied"} ELSE {},
                     arp)
  /\ UNCHANGED <<budget, known, clock, mdns, heard, events, probe, icmp, arp>>

\* Time passes while nothing can run but timers that are less than Lag late.
Idle ==
  /\ mdns.sweep = "running" =>
       Sleeping /\ clock < mdns.until + Lag /\ clock < Cutoff(mdns.began) + Lag
  /\ icmp = "running" => clock < PerHost + Lag
  /\ arp = None => clock < Cutoff(0) + Lag
  /\ mdns.sweep = "running" \/ icmp = "running" \/ arp = None

Tick ==
  /\ phase = "scanning"
  /\ Idle
  /\ clock' = clock + 1
  /\ UNCHANGED <<phase, budget, known, mdns, heard, events, probe, icmp, arp, result>>

ListenStep ==
  \/ BeginRound \/ Receive \/ NothingHeard \/ EndRound \/ EndPause
  \/ ListenReturns \/ ListenTimesOut

Step ==
  \/ ListenStep \/ ProbesReturn \/ Finish
  \/ \E a \in Addresses : GiveUp(a)
  \/ \E table \in Tables : ReadArp(table)

Next ==
  \/ NoInterface
  \/ \E subnet \in Subnets, began \in -Setup .. 0, receivers \in 0 .. Services :
       Start(subnet, Browsing(began, receivers))
  \/ \E subnet \in Subnets : Start(subnet, NoDaemon)
  \/ Step \/ Tick
  \/ \E s \in 1 .. Services, e \in Events : Announce(s, e)
  \/ \E a \in Addresses : Reply(a)

Spec == Init /\ [][Next]_vars

\* The runtime polls the task, and time passes.
FairSpec == Spec /\ WF_vars(Step) /\ WF_vars(Tick)

-----------------------------------------------------------------------------
(* Properties. *)

\* A host that answered its probe is reported, however many others stay silent
\* and whatever the other sweeps do (with a budget of zero all timers fire at once).
PingsReported ==
  phase = "done" /\ budget > 0 => \A a \in Addresses : probe[a] = "replied" => result[a] # None

\* The first of the items of a sequence about an address, None if there is none.
FirstOf(items, about(_), value(_)) ==
  LET at == {i \in DOMAIN items : about(items[i])}
  IN  IF at = {} THEN None ELSE value(items[CHOOSE i \in at : \A j \in at : i <= j])

\* The merge, whose three passes depend on each other, reports every address some
\* sweep returned and no other, with the first name and the first hardware address.
MergeRight ==
  phase = "done" =>
    \A a \in Addresses :
      LET findings == IF mdns.sweep = "done" THEN mdns.findings ELSE <<>>
          replies  == IF icmp = "done" THEN {b \in Addresses : probe[b] = "replied"} ELSE {}
          seen == \/ \E i \in DOMAIN findings : findings[i].ip = a
                  \/ a \in replies
                  \/ \E i \in DOMAIN arp : arp[i].ip = a
      IN  result[a] =
            IF ~seen THEN None
            ELSE [name  |-> FirstOf(findings, LAMBDA f : f.ip = a /\ f.name # None, LAMBDA f : f.name),
                  mac   |-> FirstOf(arp, LAMBDA r : r.ip = a, LAMBDA r : r.mac),
                  known |-> a \in known]

\* Once the daemon is up the scan is over when its budget is, up to the delay of a
\* timer, although the listener may start a receive or a pause just before its deadline.
ScanInBudget == phase = "scanning" => clock <= budget + Lag

\* Every scan ends.
ScanEnds == phase = "scanning" ~> phase = "done"

-----------------------------------------------------------------------------
(* Statements of the documentation that the code does not keep. *)

\* discovery.rs:20-22: the results of the sweeps are merged, with the hostname from
\* mDNS, so a host that was heard during the scan is reported.
MdnsReported ==
  phase = "done" => \A i \in DOMAIN mdns.findings : result[mdns.findings[i].ip] # None

=============================================================================
