-------------------------- MODULE DiscoveryProofs --------------------------
(***************************************************************************)
(* Proofs about Discovery, for every set of addresses, names, events and   *)
(* tables, every budget and every delay of a timer.                        *)
(***************************************************************************)
EXTENDS Discovery, SequenceTheorems, TLAPS

\* The three loops of the code over a sequence.
NamePass == INSTANCE FoldFacts WITH Op <- AddFinding
RowPass  == INSTANCE FoldFacts WITH Op <- AddRow
KeepPass == INSTANCE FoldFacts WITH Op <- Keep

Hosts    == [Addresses -> Host \cup {None}]
Resolved == [ip : Addresses, mac : Macs]
Rows     == Seq(Resolved)

-----------------------------------------------------------------------------
(* What the loops compute. *)

\* The lines of the ARP table are kept or skipped one after the other.
LEMMA ParseInOrder ==
  ASSUME NEW table
  PROVE  Parse(table) = KeepPass!Fold(<<>>, table)
BY DEF Parse, FoldLeft, MapThenFoldSet, Max, KeepPass!Fold, KeepPass!LastOf

\* merge_results adds the findings, the replies, and then the rows.
LEMMA MergeInOrder ==
  ASSUME NEW findings, NEW replies, NEW rows
  PROVE  Merge(findings, replies, rows)
           = RowPass!Fold(AddReplies(NamePass!Fold(NoHosts, findings), replies), rows)
<1>1. FoldLeft(AddFinding, NoHosts, findings) = NamePass!Fold(NoHosts, findings)
  BY DEF FoldLeft, MapThenFoldSet, Max, NamePass!Fold, NamePass!LastOf
<1>2. \A base : FoldLeft(AddRow, base, rows) = RowPass!Fold(base, rows)
  BY DEF FoldLeft, MapThenFoldSet, Max, RowPass!Fold, RowPass!LastOf
<1> QED BY <1>1, <1>2, Zenon DEF Merge

\* Only rows with a hardware address are kept.
LEMMA ParseKeeps ==
  ASSUME NEW table \in Seq(Row)
  PROVE  Parse(table) \in Rows
<1>1. <<>> \in Rows
  BY DEF Rows
<1>2. ASSUME NEW rows \in Rows, NEW row \in Row PROVE Keep(rows, row) \in Rows
  <2>1. row.mac \in Macs => row \in Resolved
    BY DEF Row, Resolved
  <2> QED BY <2>1 DEF Keep, Rows
<1>3. PICK h : KeepPass!Trace(Rows, <<>>, table, h)
  BY <1>1, <1>2, KeepPass!FoldTrace
<1>4. Len(table) \in 0 .. Len(table)
  OBVIOUS
<1> QED BY <1>3, <1>4, ParseInOrder DEF KeepPass!Trace

-----------------------------------------------------------------------------
(* What the findings say. *)

\* name is the first name that the first k findings give the address a.
FirstName(findings, k, a, name) ==
  \/ /\ name = None
     /\ \A i \in 1 .. k : findings[i].ip = a => findings[i].name = None
  \/ /\ name # None
     /\ \E i \in 1 .. k :
          /\ findings[i].ip = a /\ findings[i].name = name
          /\ \A j \in 1 .. k : j < i /\ findings[j].ip = a => findings[j].name = None

\* host is what the first k findings make of the address a.
Heard(findings, k, a, host) ==
  IF \E i \in 1 .. k : findings[i].ip = a
  THEN /\ host \in Host
       /\ FirstName(findings, k, a, host.name) /\ host.mac = None /\ host.known = (a \in known)
  ELSE host = None

\* Adding a finding gives hosts.
LEMMA AddFindingType ==
  ASSUME NEW hosts \in Hosts, NEW f \in Finding
  PROVE  /\ AddFinding(hosts, f) \in Hosts
         /\ \A a \in Addresses : a # f.ip => AddFinding(hosts, f)[a] = hosts[a]
         /\ AddFinding(hosts, f)[f.ip] \in Host
         /\ AddFinding(hosts, f)[f.ip]
              = IF HostAt(hosts, f.ip).name # None THEN HostAt(hosts, f.ip)
                ELSE [HostAt(hosts, f.ip) EXCEPT !.name = f.name]
<1>1. f.ip \in Addresses /\ f.name \in Names \cup {None}
  BY DEF Finding
<1>2. HostAt(hosts, f.ip) \in Host
  BY <1>1 DEF HostAt, Hosts, Host
<1>3. [HostAt(hosts, f.ip) EXCEPT !.name = f.name] \in Host
  BY <1>1, <1>2 DEF Host
<1> QED BY <1>1, <1>2, <1>3 DEF AddFinding, Hosts

\* A name that was the first stays the first.
LEMMA FirstNameStays ==
  ASSUME NEW findings \in Seq(Finding), NEW k \in 1 .. Len(findings), NEW a, NEW name,
         FirstName(findings, k - 1, a, name),
         name # None \/ findings[k].ip # a \/ findings[k].name = None
  PROVE  FirstName(findings, k, a, name)
<1>1. \A i \in 1 .. k : i \in 1 .. k - 1 \/ i = k
  OBVIOUS
<1>2. CASE name = None
  BY <1>1, <1>2 DEF FirstName
<1>3. CASE name # None
  <2>1. PICK i \in 1 .. k - 1 :
          /\ findings[i].ip = a /\ findings[i].name = name
          /\ \A j \in 1 .. k - 1 : j < i /\ findings[j].ip = a => findings[j].name = None
    BY <1>3 DEF FirstName
  <2>2. i \in 1 .. k /\ \A j \in 1 .. k : j < i => j \in 1 .. k - 1
    OBVIOUS
  <2> QED BY <1>3, <2>1, <2>2 DEF FirstName
<1> QED BY <1>2, <1>3

\* The first finding with a name gives the first name.
LEMMA FirstNameComes ==
  ASSUME NEW findings \in Seq(Finding), NEW k \in 1 .. Len(findings), NEW a,
         FirstName(findings, k - 1, a, None), findings[k].ip = a, findings[k].name # None
  PROVE  FirstName(findings, k, a, findings[k].name)
<1>1. k \in 1 .. k /\ \A j \in 1 .. k : j < k => j \in 1 .. k - 1
  OBVIOUS
<1> QED BY <1>1 DEF FirstName

\* One more finding is added to what the ones before it said.
LEMMA OneFinding ==
  ASSUME NEW findings \in Seq(Finding), NEW k \in 1 .. Len(findings), NEW hosts \in Hosts,
         \A a \in Addresses : Heard(findings, k - 1, a, hosts[a]),
         NEW a \in Addresses
  PROVE  Heard(findings, k, a, AddFinding(hosts, findings[k])[a])
<1>1. findings[k] \in Finding /\ k \in 1 .. k /\ \A i \in 1 .. k : i \in 1 .. k - 1 \/ i = k
  OBVIOUS
<1>2. \A i \in 1 .. k - 1 : i \in 1 .. k
  OBVIOUS
<1>3. Heard(findings, k - 1, a, hosts[a])
  OBVIOUS
<1>4. CASE findings[k].ip # a
  <2>1. AddFinding(hosts, findings[k])[a] = hosts[a]
    BY <1>1, <1>4, AddFindingType
  <2>2. (\E i \in 1 .. k : findings[i].ip = a) <=> (\E i \in 1 .. k - 1 : findings[i].ip = a)
    BY <1>1, <1>2, <1>4
  <2>3. hosts[a] \in Host /\ FirstName(findings, k - 1, a, hosts[a].name)
          => FirstName(findings, k, a, hosts[a].name)
    BY <1>4, FirstNameStays
  <2> QED BY <1>3, <2>1, <2>2, <2>3 DEF Heard
<1>5. CASE findings[k].ip = a
  <2> PICK host : host = HostAt(hosts, a)
    OBVIOUS
  <2>1. host \in Host /\ host.mac = None /\ host.known = (a \in known)
        /\ FirstName(findings, k - 1, a, host.name)
    <3>1. CASE \E i \in 1 .. k - 1 : findings[i].ip = a
      <4>1. hosts[a] # None
        BY <1>3, <3>1, DiscoveryAssumption DEF Heard
      <4> QED BY <1>3, <3>1, <4>1 DEF Heard, HostAt
    <3>2. CASE ~\E i \in 1 .. k - 1 : findings[i].ip = a
      <4>1. host = [name |-> None, mac |-> None, known |-> a \in known]
        BY <1>3, <3>2 DEF Heard, HostAt
      <4>2. FirstName(findings, k - 1, a, None)
        BY <3>2 DEF FirstName
      <4> QED BY <4>1, <4>2 DEF Host
    <3> QED BY <3>1, <3>2
  <2> PICK after : after = AddFinding(hosts, findings[k])[a]
    OBVIOUS
  <2>2. after \in Host
        /\ after = IF host.name # None THEN host ELSE [host EXCEPT !.name = findings[k].name]
    BY <1>1, <1>5, AddFindingType
  <2>3. after.mac = None /\ after.known = (a \in known)
    BY <2>1, <2>2 DEF Host
  <2>4. FirstName(findings, k, a, after.name)
    <3>1. CASE host.name # None
      BY <2>1, <2>2, <3>1, FirstNameStays
    <3>2. CASE host.name = None
      <4>1. after.name = findings[k].name
        BY <2>1, <2>2, <3>2 DEF Host
      <4>2. CASE findings[k].name = None
        BY <2>1, <3>2, <4>1, <4>2, FirstNameStays
      <4>3. CASE findings[k].name # None
        BY <1>5, <2>1, <3>2, <4>1, <4>3, FirstNameComes
      <4> QED BY <4>2, <4>3
    <3> QED BY <3>1, <3>2
  <2> QED BY <1>1, <1>5, <2>2, <2>3, <2>4 DEF Heard
<1> QED BY <1>4, <1>5

\* The pass over the findings makes of them what they say.
LEMMA NamesRight ==
  ASSUME NEW findings \in Seq(Finding)
  PROVE  /\ NamePass!Fold(NoHosts, findings) \in Hosts
         /\ \A a \in Addresses :
              Heard(findings, Len(findings), a, NamePass!Fold(NoHosts, findings)[a])
<1> PICK n \in Nat : n = Len(findings)
  OBVIOUS
<1>0. NoHosts \in Hosts
  BY DEF NoHosts, Hosts
<1>1. \A hosts \in Hosts, f \in Finding : AddFinding(hosts, f) \in Hosts
  BY AddFindingType
<1> PICK h : NamePass!Trace(Hosts, NoHosts, findings, h)
  BY <1>0, <1>1, NamePass!FoldTrace
<1>2. /\ h \in [0 .. n -> Hosts]
      /\ h[0] = NoHosts
      /\ \A k \in 1 .. n : h[k] = AddFinding(h[k - 1], findings[k])
      /\ NamePass!Fold(NoHosts, findings) = h[n]
  BY DEF NamePass!Trace
<1> PICK P : P = {k \in 0 .. n : \A a \in Addresses : Heard(findings, k, a, h[k][a])}
  OBVIOUS
<1>3. 0 \in P
  BY <1>2 DEF Heard, NoHosts
<1>4. ASSUME NEW k \in 1 .. n, k - 1 \in P PROVE k \in P
  <2>1. k - 1 \in 0 .. n /\ k \in 0 .. n
    OBVIOUS
  <2> PICK hosts \in Hosts : hosts = h[k - 1]
    BY <1>2, <2>1
  <2>2. \A a \in Addresses : Heard(findings, k - 1, a, hosts[a])
    BY <1>4
  <2>3. \A a \in Addresses : Heard(findings, k, a, AddFinding(hosts, findings[k])[a])
    BY <2>2, OneFinding
  <2> QED BY <1>2, <2>1, <2>3
<1>5. \A k \in 0 .. n : k \in P
  BY <1>3, <1>4, NamePass!Positions
<1>6. n \in 0 .. n
  OBVIOUS
<1> QED BY <1>2, <1>5, <1>6

-----------------------------------------------------------------------------
(* What the rows say. *)

\* i is the first of the first k rows about the address a.
FirstRow(rows, k, a, i) ==
  i \in 1 .. k /\ rows[i].ip = a /\ \A j \in 1 .. k : rows[j].ip = a => i <= j

\* host is what the first k rows make of the address a, of which before was known.
Listed(rows, k, a, before, host) ==
  IF \E i \in 1 .. k : rows[i].ip = a
  THEN \E i \in 1 .. k :
         /\ FirstRow(rows, k, a, i)
         /\ host = [name |-> IF before = None THEN None ELSE before.name,
                    mac |-> rows[i].mac, known |-> a \in known]
  ELSE host = before

\* What the passes before the one over the rows leave of an address.
NoMac(a, host) == host # None => host.mac = None /\ host.known = (a \in known)

\* Adding a row gives hosts.
LEMMA AddRowType ==
  ASSUME NEW hosts \in Hosts, NEW row \in Resolved
  PROVE  /\ AddRow(hosts, row) \in Hosts
         /\ \A a \in Addresses : a # row.ip => AddRow(hosts, row)[a] = hosts[a]
         /\ AddRow(hosts, row)[row.ip]
              = IF HostAt(hosts, row.ip).mac # None THEN HostAt(hosts, row.ip)
                ELSE [HostAt(hosts, row.ip) EXCEPT !.mac = row.mac]
<1>1. row.ip \in Addresses /\ row.mac \in Macs
  BY DEF Resolved
<1>2. HostAt(hosts, row.ip) \in Host
  BY <1>1 DEF HostAt, Hosts, Host
<1>3. [HostAt(hosts, row.ip) EXCEPT !.mac = row.mac] \in Host
  BY <1>1, <1>2 DEF Host
<1> QED BY <1>1, <1>2, <1>3 DEF AddRow, Hosts

\* One more row is added to what the ones before it said.
LEMMA OneRow ==
  ASSUME NEW rows \in Seq(Resolved), NEW k \in 1 .. Len(rows), NEW hosts \in Hosts,
         NEW base \in Hosts,
         \A a \in Addresses : NoMac(a, base[a]) /\ Listed(rows, k - 1, a, base[a], hosts[a]),
         NEW a \in Addresses
  PROVE  Listed(rows, k, a, base[a], AddRow(hosts, rows[k])[a])
<1>1. /\ rows[k] \in Resolved /\ k \in 1 .. k
      /\ \A i \in 1 .. k : i \in 1 .. k - 1 \/ i = k
  OBVIOUS
<1>2. \A i \in 1 .. k - 1 : i \in 1 .. k /\ i <= k /\ rows[i] \in Resolved
  OBVIOUS
<1>3. NoMac(a, base[a]) /\ Listed(rows, k - 1, a, base[a], hosts[a])
      /\ base[a] \in Host \cup {None}
  BY DEF Hosts
<1>4. CASE rows[k].ip # a
  <2>1. AddRow(hosts, rows[k])[a] = hosts[a]
    BY <1>1, <1>4, AddRowType
  <2>2. (\E i \in 1 .. k : rows[i].ip = a) <=> (\E i \in 1 .. k - 1 : rows[i].ip = a)
    BY <1>1, <1>2, <1>4
  <2>3. \A i \in 1 .. k - 1 : FirstRow(rows, k - 1, a, i) => FirstRow(rows, k, a, i)
    BY <1>1, <1>2, <1>4 DEF FirstRow
  <2> QED BY <1>2, <1>3, <2>1, <2>2, <2>3 DEF Listed
<1>5. CASE rows[k].ip = a
  <2> PICK host : host = HostAt(hosts, a)
    OBVIOUS
  <2> PICK after : after = AddRow(hosts, rows[k])[a]
    OBVIOUS
  <2>1. after = IF host.mac # None THEN host ELSE [host EXCEPT !.mac = rows[k].mac]
    BY <1>1, <1>5, AddRowType
  <2>2. CASE \E i \in 1 .. k - 1 : rows[i].ip = a
    <3>1. PICK i \in 1 .. k - 1 :
            /\ FirstRow(rows, k - 1, a, i)
            /\ hosts[a] = [name |-> IF base[a] = None THEN None ELSE base[a].name,
                           mac |-> rows[i].mac, known |-> a \in known]
      BY <1>3, <2>2 DEF Listed
    <3>2. rows[i].mac \in Macs /\ rows[i].mac # None
      BY <1>2, DiscoveryAssumption DEF Resolved
    <3>3. hosts[a] \in Host
      BY <1>3, <3>1, <3>2 DEF Host
    <3>4. after = hosts[a]
      BY <2>1, <3>1, <3>2, <3>3, DiscoveryAssumption DEF HostAt
    <3>5. FirstRow(rows, k, a, i)
      BY <1>1, <1>2, <3>1 DEF FirstRow
    <3> QED BY <1>1, <1>2, <1>5, <3>1, <3>4, <3>5 DEF Listed
  <2>3. CASE ~\E i \in 1 .. k - 1 : rows[i].ip = a
    <3>1. hosts[a] = base[a]
      BY <1>3, <2>3 DEF Listed
    <3>2. host = [name |-> IF base[a] = None THEN None ELSE base[a].name,
                  mac |-> None, known |-> a \in known]
      BY <1>3, <3>1 DEF HostAt, NoMac, Host
    <3>3. after = [name |-> IF base[a] = None THEN None ELSE base[a].name,
                   mac |-> rows[k].mac, known |-> a \in known]
      BY <2>1, <3>2
    <3>4. FirstRow(rows, k, a, k)
      BY <1>1, <1>5, <2>3 DEF FirstRow
    <3> QED BY <1>1, <1>5, <3>3, <3>4 DEF Listed
  <2> QED BY <2>2, <2>3
<1> QED BY <1>4, <1>5

\* The pass over the rows makes of the hosts what the rows say.
LEMMA RowsRight ==
  ASSUME NEW rows \in Seq(Resolved), NEW base \in Hosts, \A a \in Addresses : NoMac(a, base[a])
  PROVE  /\ RowPass!Fold(base, rows) \in Hosts
         /\ \A a \in Addresses :
              Listed(rows, Len(rows), a, base[a], RowPass!Fold(base, rows)[a])
<1> PICK n \in Nat : n = Len(rows)
  OBVIOUS
<1>1. \A hosts \in Hosts, row \in Resolved : AddRow(hosts, row) \in Hosts
  BY AddRowType
<1> PICK h : RowPass!Trace(Hosts, base, rows, h)
  BY <1>1, RowPass!FoldTrace
<1>2. /\ h \in [0 .. n -> Hosts]
      /\ h[0] = base
      /\ \A k \in 1 .. n : h[k] = AddRow(h[k - 1], rows[k])
      /\ RowPass!Fold(base, rows) = h[n]
  BY DEF RowPass!Trace
<1> PICK P : P = {k \in 0 .. n : \A a \in Addresses : Listed(rows, k, a, base[a], h[k][a])}
  OBVIOUS
<1>3. 0 \in P
  BY <1>2 DEF Listed
<1>4. ASSUME NEW k \in 1 .. n, k - 1 \in P PROVE k \in P
  <2>1. k - 1 \in 0 .. n /\ k \in 0 .. n
    OBVIOUS
  <2> PICK hosts \in Hosts : hosts = h[k - 1]
    BY <1>2, <2>1
  <2>2. \A a \in Addresses : NoMac(a, base[a]) /\ Listed(rows, k - 1, a, base[a], hosts[a])
    BY <1>4
  <2>3. \A a \in Addresses : Listed(rows, k, a, base[a], AddRow(hosts, rows[k])[a])
    BY <2>2, OneRow
  <2> QED BY <1>2, <2>1, <2>3
<1>5. \A k \in 0 .. n : k \in P
  BY <1>3, <1>4, RowPass!Positions
<1>6. n \in 0 .. n
  OBVIOUS
<1> QED BY <1>2, <1>5, <1>6

-----------------------------------------------------------------------------
(* The merge against the definition that looks at all results at once. *)

\* There is one least element.
LEMMA LeastIs ==
  ASSUME NEW at \in SUBSET Nat, NEW i \in at, \A j \in at : i <= j
  PROVE  (CHOOSE m \in at : \A j \in at : m <= j) = i
<1> PICK m : m = (CHOOSE l \in at : \A j \in at : l <= j)
  OBVIOUS
<1>1. m \in at /\ \A j \in at : m <= j
  OBVIOUS
<1>2. m <= i /\ i <= m /\ m \in Nat /\ i \in Nat
  BY <1>1
<1> QED BY <1>2

\* The name and the hardware address that MergeRight expects.
NameOf(findings, a) == FirstOf(findings, LAMBDA f : f.ip = a /\ f.name # None, LAMBDA f : f.name)
MacOf(rows, a) == FirstOf(rows, LAMBDA r : r.ip = a, LAMBDA r : r.mac)

\* The first name of an address is that of the first finding that has one.
LEMMA FirstNameIs ==
  ASSUME NEW findings \in Seq(Finding), NEW a, NEW name,
         FirstName(findings, Len(findings), a, name)
  PROVE  NameOf(findings, a) = name
<1> PICK at : at = {i \in DOMAIN findings : findings[i].ip = a /\ findings[i].name # None}
  OBVIOUS
<1>1. NameOf(findings, a)
        = IF at = {} THEN None ELSE findings[CHOOSE i \in at : \A j \in at : i <= j].name
  BY DEF NameOf, FirstOf
<1>2. at \in SUBSET Nat /\ DOMAIN findings = 1 .. Len(findings)
  OBVIOUS
<1>3. CASE name = None
  <2>1. at = {}
    BY <1>2, <1>3 DEF FirstName
  <2> QED BY <1>1, <1>3, <2>1
<1>4. CASE name # None
  <2>1. PICK i \in 1 .. Len(findings) :
          /\ findings[i].ip = a /\ findings[i].name = name
          /\ \A j \in 1 .. Len(findings) : j < i /\ findings[j].ip = a => findings[j].name = None
    BY <1>4 DEF FirstName
  <2>2. i \in at
    BY <1>2, <1>4, <2>1
  <2>3. \A j \in at : i <= j
    <3>1. \A j \in at : j \in 1 .. Len(findings) /\ ~(j < i)
      BY <1>2, <2>1
    <3> QED BY <3>1
  <2>4. (CHOOSE m \in at : \A j \in at : m <= j) = i
    BY <1>2, <2>2, <2>3, LeastIs
  <2> QED BY <1>1, <2>1, <2>2, <2>4
<1> QED BY <1>3, <1>4

\* The first row about an address is the one that gives its hardware address.
LEMMA FirstRowIs ==
  ASSUME NEW rows \in Seq(Resolved), NEW a, NEW i, FirstRow(rows, Len(rows), a, i)
  PROVE  MacOf(rows, a) = rows[i].mac
<1> PICK at : at = {j \in DOMAIN rows : rows[j].ip = a}
  OBVIOUS
<1>1. MacOf(rows, a)
        = IF at = {} THEN None ELSE rows[CHOOSE m \in at : \A j \in at : m <= j].mac
  BY DEF MacOf, FirstOf
<1>2. at \in SUBSET Nat /\ i \in at /\ \A j \in at : i <= j
  BY DEF FirstRow
<1>3. (CHOOSE m \in at : \A j \in at : m <= j) = i
  BY <1>2, LeastIs
<1> QED BY <1>1, <1>2, <1>3

\* What the merge makes of one address.
Right(findings, replies, rows, a) ==
  IF ~(\/ \E i \in DOMAIN findings : findings[i].ip = a
       \/ a \in replies
       \/ \E i \in DOMAIN rows : rows[i].ip = a)
  THEN None
  ELSE [name |-> NameOf(findings, a), mac |-> MacOf(rows, a), known |-> a \in known]

\* merge_results, whose passes depend on each other, is right about every address.
LEMMA MergeIsRight ==
  ASSUME NEW findings \in Seq(Finding), NEW replies \in SUBSET Addresses,
         NEW rows \in Seq(Resolved)
  PROVE  /\ Merge(findings, replies, rows) \in Hosts
         /\ \A a \in Addresses :
              /\ Merge(findings, replies, rows)[a] = Right(findings, replies, rows, a)
              /\ a \in replies => Merge(findings, replies, rows)[a] # None
<1> PICK named : named = NamePass!Fold(NoHosts, findings)
  OBVIOUS
<1> PICK base : base = AddReplies(named, replies)
  OBVIOUS
<1> PICK merged : merged = RowPass!Fold(base, rows)
  OBVIOUS
<1>1. Merge(findings, replies, rows) = merged
  BY MergeInOrder
<1>2. named \in Hosts /\ \A a \in Addresses : Heard(findings, Len(findings), a, named[a])
  BY NamesRight
<1>3. DOMAIN findings = 1 .. Len(findings) /\ DOMAIN rows = 1 .. Len(rows)
  OBVIOUS
<1>4. /\ base \in Hosts
      /\ \A a \in Addresses : base[a] = IF a \in replies THEN HostAt(named, a) ELSE named[a]
  <2>1. \A a \in Addresses : HostAt(named, a) \in Host \cup {None}
    BY <1>2 DEF HostAt, Hosts, Host
  <2> QED BY <1>2, <2>1 DEF AddReplies, Hosts
<1>0. \A a \in Addresses : named[a] = None =>
        /\ HostAt(named, a) = [name |-> None, mac |-> None, known |-> a \in known]
        /\ HostAt(named, a).name = None /\ HostAt(named, a).mac = None
        /\ HostAt(named, a).known = (a \in known)
  <2>1. \A b \in BOOLEAN : [name |-> None, mac |-> None, known |-> b].known = b
    OBVIOUS
  <2> QED BY <2>1 DEF HostAt
<1>5. \A a \in Addresses : NoMac(a, base[a])
  <2> SUFFICES ASSUME NEW a \in Addresses PROVE NoMac(a, base[a])
    OBVIOUS
  <2>1. named[a] # None => named[a].mac = None /\ named[a].known = (a \in known)
    BY <1>2 DEF Heard
  <2> QED BY <1>0, <1>4, <2>1 DEF NoMac, HostAt
<1>6. merged \in Hosts /\ \A a \in Addresses : Listed(rows, Len(rows), a, base[a], merged[a])
  BY <1>4, <1>5, RowsRight
<1>7. ASSUME NEW a \in Addresses PROVE merged[a] = Right(findings, replies, rows, a)
  <2> PICK name : name = IF base[a] = None THEN None ELSE base[a].name
    OBVIOUS
  <2>1. FirstName(findings, Len(findings), a, name)
    <3>1. CASE \E i \in 1 .. Len(findings) : findings[i].ip = a
      <4>1. named[a] # None /\ FirstName(findings, Len(findings), a, named[a].name)
        BY <1>2, <3>1, DiscoveryAssumption DEF Heard
      <4> QED BY <1>4, <4>1 DEF HostAt
    <3>2. CASE ~\E i \in 1 .. Len(findings) : findings[i].ip = a
      <4>1. named[a] = None
        BY <1>2, <3>2 DEF Heard
      <4>2. name = None
        BY <1>0, <1>4, <4>1
      <4> QED BY <3>2, <4>2 DEF FirstName
    <3> QED BY <3>1, <3>2
  <2>2. NameOf(findings, a) = name
    BY <2>1, FirstNameIs
  <2>3. CASE \E i \in 1 .. Len(rows) : rows[i].ip = a
    <3>1. PICK i \in 1 .. Len(rows) :
            /\ FirstRow(rows, Len(rows), a, i)
            /\ merged[a] = [name |-> name, mac |-> rows[i].mac, known |-> a \in known]
      BY <1>6, <2>3 DEF Listed
    <3>2. MacOf(rows, a) = rows[i].mac
      BY <3>1, FirstRowIs
    <3> QED BY <1>3, <2>2, <2>3, <3>1, <3>2 DEF Right
  <2>4. CASE ~\E i \in 1 .. Len(rows) : rows[i].ip = a
    <3>1. merged[a] = base[a]
      BY <1>6, <2>4 DEF Listed
    <3>2. MacOf(rows, a) = None
      BY <1>3, <2>4 DEF MacOf, FirstOf
    <3>3. base[a] = None <=> ~(a \in replies \/ \E i \in 1 .. Len(findings) : findings[i].ip = a)
      <4>1. named[a] = None <=> ~\E i \in 1 .. Len(findings) : findings[i].ip = a
        BY <1>2, DiscoveryAssumption DEF Heard
      <4>2. HostAt(named, a) # None
        <5>1. [name |-> None, mac |-> None, known |-> a \in known] \in Host
          BY DEF Host
        <5> QED BY <5>1, DiscoveryAssumption DEF HostAt
      <4> QED BY <1>4, <4>1, <4>2
    <3>4. base[a] # None => base[a] = [name |-> name, mac |-> None, known |-> a \in known]
      <4>1. base[a] \in Host \cup {None} /\ NoMac(a, base[a])
        BY <1>4, <1>5 DEF Hosts
      <4> QED BY <4>1 DEF NoMac, Host
    <3> QED BY <1>3, <2>2, <2>4, <3>1, <3>2, <3>3, <3>4 DEF Right
  <2> QED BY <2>3, <2>4
<1>8. ASSUME NEW a \in replies PROVE merged[a] # None
  <2>1. HostAt(named, a) \in Host /\ base[a] = HostAt(named, a)
    BY <1>2, <1>4 DEF HostAt, Hosts, Host
  <2>2. base[a] \in Host /\ base[a] # None
    BY <2>1, DiscoveryAssumption
  <2>3. CASE \E i \in 1 .. Len(rows) : rows[i].ip = a
    <3>1. PICK i \in 1 .. Len(rows) :
            merged[a] = [name |-> base[a].name, mac |-> rows[i].mac, known |-> a \in known]
      BY <1>6, <2>2, <2>3 DEF Listed
    <3>2. rows[i] \in Resolved
      OBVIOUS
    <3>3. merged[a] \in Host
      BY <2>2, <3>1, <3>2 DEF Host, Resolved
    <3> QED BY <3>3, DiscoveryAssumption
  <2>4. CASE ~\E i \in 1 .. Len(rows) : rows[i].ip = a
    BY <1>6, <2>2, <2>4 DEF Listed
  <2> QED BY <2>3, <2>4
<1> QED BY <1>1, <1>6, <1>7, <1>8

-----------------------------------------------------------------------------
(* The inductive invariant. *)

\* What Finish merges.
Found   == IF mdns.sweep = "done" THEN mdns.findings ELSE <<>>
Replied == IF icmp = "done" THEN {a \in Addresses : probe[a] = "replied"} ELSE {}

\* MergeRight, in terms of Right.
Merged == phase = "done" => \A a \in Addresses : result[a] = Right(Found, Replied, arp, a)

\* The ARP sweep keeps rows with a hardware address only.
ArpOK == arp # None => arp \in Seq(Resolved)

\* The probes are back before the budget is over, unless there is none.
ProbesOK == budget > 0 => icmp # "dropped"

ClockOK == phase = "idle" => clock = 0

IInv ==
  TypeOK /\ ArpOK /\ ProbesOK /\ ClockOK /\ ScanInBudget /\ PingsReported /\ Merged

\* Right says the same as the property.
LEMMA MergedIs == Merged => MergeRight
BY DEF Merged, MergeRight, Found, Replied, Right, NameOf, MacOf, FirstOf

\* A probe is waited for less long than the scan may take.
LEMMA ProbesFirst ==
  ASSUME TypeOK
  PROVE  /\ PerHost \in Nat /\ PerHost <= budget
         /\ budget > 0 => PerHost < budget
<1>1. budget \in Nat /\ PingTimeout \in Nat
  BY DiscoveryAssumption DEF TypeOK
<1>2. budget \div 4 \in Nat /\ budget \div 4 <= budget /\ (budget > 0 => budget \div 4 < budget)
  BY <1>1
<1> QED BY <1>1, <1>2 DEF PerHost

\* While a scan runs its types and its clock are all there is to show.
LEMMA StillScanning ==
  ASSUME IInv, phase' = "scanning", TypeOK', ArpOK', ProbesOK', clock' <= budget + Lag,
         UNCHANGED budget
  PROVE  IInv'
<1>1. ScanInBudget' /\ PingsReported' /\ ClockOK'
  BY DEF ScanInBudget, PingsReported, ClockOK
<1>2. Merged'
  BY DEF Merged
<1> QED BY <1>1, <1>2 DEF IInv

\* A step of the listener.
LEMMA ListenKeeps ==
  ASSUME IInv, NEW m \in Mdns, Listen(m), heard' \in [1 .. Services -> Seq(Events)]
  PROVE  IInv'
<1>1. TypeOK' /\ ArpOK' /\ ProbesOK' /\ phase' = "scanning" /\ UNCHANGED budget
  BY DEF IInv, Listen, TypeOK, ArpOK, ProbesOK
<1>2. clock' <= budget + Lag
  BY DEF IInv, Listen, ScanInBudget
<1> QED BY <1>1, <1>2, StillScanning

\* Every step of the listener leaves a listener.
LEMMA ListenStepKeeps ==
  ASSUME IInv, ListenStep
  PROVE  IInv'
<1>0. /\ mdns \in Mdns /\ heard \in [1 .. Services -> Seq(Events)] /\ clock \in Nat
      /\ Services \in Nat /\ Poll \in Nat /\ Pause \in Nat /\ Events \subseteq Seq(Finding)
  BY DiscoveryAssumption DEF IInv, TypeOK
<1>a. /\ mdns.turn \in 1 .. Services + 1 /\ mdns.receivers \in 0 .. Services
      /\ mdns.wait \in Nat /\ mdns.deadline \in Nat /\ mdns.findings \in Seq(Finding)
  BY <1>0 DEF Mdns
<1>b. Waiting => mdns.turn \in 1 .. Services /\ mdns.turn + 1 \in 1 .. Services + 1
  <2> PICK turn : turn = mdns.turn
    OBVIOUS
  <2> PICK receivers : receivers = mdns.receivers
    OBVIOUS
  <2>1. turn <= receivers => turn \in 1 .. Services /\ turn + 1 \in 1 .. Services + 1
    <3>1. turn \in Int /\ 1 <= turn /\ receivers \in Int /\ receivers <= Services /\ Services \in Int
      BY <1>0, <1>a
    <3> QED BY <3>1
  <2> QED BY <2>1 DEF Waiting
<1>c. clock + mdns.wait \in Nat
  BY <1>0, <1>a
<1>1. CASE BeginRound
  <2> PICK left : left = mdns.deadline - clock
    OBVIOUS
  <2> PICK wait : wait = IF left < Poll THEN left ELSE Poll
    OBVIOUS
  <2> PICK m : m = [mdns EXCEPT !.at = "receive", !.turn = 1, !.progressed = FALSE,
                                !.wait = wait, !.until = clock + wait]
    OBVIOUS
  <2>1. left >= 0 /\ Listen(m) /\ UNCHANGED heard
    BY <1>1 DEF BeginRound
  <2>2. wait \in Nat /\ clock + wait \in Nat /\ 1 \in 1 .. Services + 1
    BY <1>0, <1>a, <2>1
  <2>3. m \in Mdns
    BY <1>0, <2>2 DEF Mdns
  <2> QED BY <1>0, <2>1, <2>3, ListenKeeps
<1>2. CASE Receive
  <2> PICK found : found = mdns.findings \o Head(heard[mdns.turn])
    OBVIOUS
  <2> PICK m : m = [mdns EXCEPT !.findings = found, !.progressed = TRUE,
                                !.turn = mdns.turn + 1, !.until = clock + mdns.wait]
    OBVIOUS
  <2>1. Listen(m)
    BY <1>2 DEF Receive
  <2>2. mdns.turn \in 1 .. Services /\ mdns.turn + 1 \in 1 .. Services + 1
        /\ clock + mdns.wait \in Nat
    BY <1>b, <1>c, <1>2 DEF Receive
  <2>3. Head(heard[mdns.turn]) \in Events /\ Tail(heard[mdns.turn]) \in Seq(Events)
    BY <1>0, <1>2, <2>2 DEF Receive
  <2>4. found \in Seq(Finding)
    <3>1. Head(heard[mdns.turn]) \in Seq(Finding)
      BY <1>0, <2>3
    <3> QED BY <1>a, <3>1, ConcatProperties
  <2>5. m \in Mdns
    BY <1>0, <2>2, <2>4 DEF Mdns
  <2>6. heard' \in [1 .. Services -> Seq(Events)]
    BY <1>0, <1>2, <2>3 DEF Receive
  <2> QED BY <2>1, <2>5, <2>6, ListenKeeps
<1>3. CASE NothingHeard
  <2> PICK m : m = [mdns EXCEPT !.turn = mdns.turn + 1, !.until = clock + mdns.wait]
    OBVIOUS
  <2>1. Listen(m) /\ UNCHANGED heard
    BY <1>3 DEF NothingHeard
  <2>2. mdns.turn + 1 \in 1 .. Services + 1 /\ clock + mdns.wait \in Nat
    BY <1>b, <1>c, <1>3 DEF NothingHeard
  <2>3. m \in Mdns
    BY <1>0, <2>2 DEF Mdns
  <2> QED BY <1>0, <2>1, <2>3, ListenKeeps
<1>4. CASE EndRound
  <2> PICK m : m = IF mdns.progressed THEN [mdns EXCEPT !.at = "check"]
                   ELSE [mdns EXCEPT !.at = "pause", !.until = clock + Pause]
    OBVIOUS
  <2>1. Listen(m) /\ UNCHANGED heard
    BY <1>4 DEF EndRound
  <2>2. clock + Pause \in Nat
    BY <1>0
  <2>3. m \in Mdns
    BY <1>0, <2>2 DEF Mdns
  <2> QED BY <1>0, <2>1, <2>3, ListenKeeps
<1>5. CASE EndPause
  <2> PICK m : m = [mdns EXCEPT !.at = "check"]
    OBVIOUS
  <2>1. Listen(m) /\ UNCHANGED heard
    BY <1>5 DEF EndPause
  <2>2. m \in Mdns
    BY <1>0 DEF Mdns
  <2> QED BY <1>0, <2>1, <2>2, ListenKeeps
<1>6. ASSUME NEW sweep \in {"done", "dropped"},
             Listen([mdns EXCEPT !.sweep = sweep]), UNCHANGED heard
      PROVE  IInv'
  <2> PICK m : m = [mdns EXCEPT !.sweep = sweep]
    OBVIOUS
  <2>1. m \in Mdns
    BY <1>0 DEF Mdns, Sweep
  <2> QED BY <1>0, <1>6, <2>1, ListenKeeps
<1>7. CASE ListenReturns \/ ListenTimesOut
  BY <1>6, <1>7 DEF ListenReturns, ListenTimesOut
<1> QED BY <1>1, <1>2, <1>3, <1>4, <1>5, <1>7 DEF ListenStep

\* The network, the probes and the ARP sweep.
LEMMA SweepsKeep ==
  ASSUME IInv,
         \/ \E s \in 1 .. Services, e \in Events : Announce(s, e)
         \/ \E a \in Addresses : Reply(a) \/ GiveUp(a)
         \/ ProbesReturn
         \/ \E table \in Tables : ReadArp(table)
  PROVE  IInv'
<1> USE DiscoveryAssumption
<1>0. TypeOK /\ ArpOK /\ ProbesOK /\ ScanInBudget
  BY DEF IInv
<1>1. ASSUME NEW s \in 1 .. Services, NEW e \in Events, Announce(s, e) PROVE IInv'
  <2>1. heard' \in [1 .. Services -> Seq(Events)] /\ events' \in 0 .. MaxEvents
    BY <1>0, <1>1 DEF TypeOK, Announce
  <2>2. TypeOK' /\ ArpOK' /\ ProbesOK'
    BY <1>0, <1>1, <2>1 DEF TypeOK, ArpOK, ProbesOK, Announce
  <2> QED BY <1>0, <1>1, <2>2, StillScanning DEF Announce, ScanInBudget
<1>2. ASSUME NEW a \in Addresses, Reply(a) \/ GiveUp(a) PROVE IInv'
  <2>1. TypeOK' /\ ArpOK' /\ ProbesOK'
    BY <1>0, <1>2 DEF TypeOK, ArpOK, ProbesOK, Reply, GiveUp
  <2> QED BY <1>0, <1>2, <2>1, StillScanning DEF Reply, GiveUp, ScanInBudget
<1>3. CASE ProbesReturn
  <2>1. budget > 0 => icmp' = "done"
    <3>1. budget \in Nat /\ Cutoff(0) = budget
      BY <1>0 DEF TypeOK, Cutoff
    <3> QED BY <1>0, <1>3, <3>1, ProbesFirst DEF ProbesReturn
  <2>2. TypeOK' /\ ArpOK' /\ ProbesOK'
    BY <1>0, <1>3, <2>1 DEF TypeOK, ArpOK, ProbesOK, ProbesReturn, Sweep
  <2> QED BY <1>0, <1>3, <2>2, StillScanning DEF ProbesReturn, ScanInBudget
<1>4. ASSUME NEW table \in Tables, ReadArp(table) PROVE IInv'
  <2>1. arp' \in Seq(Resolved)
    BY <1>4, ParseKeeps DEF ReadArp, Rows
  <2>2. arp' \in Seq(Row)
    <3>1. \A r \in Resolved : r \in Row
      BY DEF Resolved, Row
    <3> QED BY <2>1, <3>1
  <2>3. TypeOK' /\ ArpOK' /\ ProbesOK'
    BY <1>0, <1>4, <2>1, <2>2 DEF TypeOK, ArpOK, ProbesOK, ReadArp
  <2> QED BY <1>0, <1>4, <2>3, StillScanning DEF ReadArp, ScanInBudget
<1> QED BY <1>1, <1>2, <1>3, <1>4

\* Time passes only while some timer of the scan is still to come.
LEMMA TickKeeps ==
  ASSUME IInv, Tick
  PROVE  IInv'
<1> USE DiscoveryAssumption
<1>1. TypeOK /\ clock \in Nat /\ budget \in Nat /\ Lag \in Nat /\ Setup \in Nat /\ mdns \in Mdns
  BY DEF IInv, TypeOK
<1>2. mdns.began \in Int /\ mdns.began <= 0
  BY <1>1 DEF Mdns
<1>3. clock + 1 <= budget + Lag
  BY <1>1, <1>2, ProbesFirst DEF Tick, Idle, Cutoff
<1>4. TypeOK' /\ ArpOK' /\ ProbesOK'
  BY <1>1 DEF IInv, Tick, TypeOK, ArpOK, ProbesOK
<1> QED BY <1>3, <1>4, StillScanning DEF Tick

\* A scan begins.
LEMMA StartKeeps ==
  ASSUME IInv,
         \/ NoInterface
         \/ \E subnet \in Subnets, began \in -Setup .. 0, receivers \in 0 .. Services :
              Start(subnet, Browsing(began, receivers))
         \/ \E subnet \in Subnets : Start(subnet, NoDaemon)
  PROVE  IInv'
<1> USE DiscoveryAssumption
<1>0. TypeOK /\ ArpOK /\ ProbesOK /\ ClockOK /\ budget \in Nat /\ Services \in Nat
  BY DEF IInv, TypeOK
<1>1. \A began \in -Setup .. 0, receivers \in 0 .. Services : Browsing(began, receivers) \in Mdns
  BY <1>0 DEF Browsing, Mdns, Sweep
<1>2. NoDaemon \in Mdns
  <2>1. 0 \in -Setup .. 0 /\ 0 \in 0 .. Services
    BY <1>0
  <2>2. Browsing(0, 0) \in Mdns
    BY <1>1, <2>1
  <2> QED BY <2>2 DEF NoDaemon, Mdns, Sweep
<1>3. ASSUME NEW subnet \in Subnets, NEW m \in Mdns, Start(subnet, m) PROVE IInv'
  <2>1. TypeOK' /\ ArpOK' /\ ProbesOK'
    BY <1>0, <1>3 DEF TypeOK, ArpOK, ProbesOK, Start
  <2>2. clock' <= budget + Lag
    BY <1>0, <1>3 DEF Start, ClockOK
  <2> QED BY <1>3, <2>1, <2>2, StillScanning DEF Start
<1>4. CASE NoInterface
  BY <1>0, <1>4 DEF IInv, NoInterface, TypeOK, ArpOK, ProbesOK, ClockOK, ScanInBudget,
                    PingsReported, Merged
<1>5. ASSUME NEW subnet \in Subnets, NEW began \in -Setup .. 0, NEW receivers \in 0 .. Services,
             Start(subnet, Browsing(began, receivers))
      PROVE  IInv'
  <2> PICK m : m = Browsing(began, receivers)
    OBVIOUS
  <2> QED BY <1>1, <1>3, <1>5
<1>6. ASSUME NEW subnet \in Subnets, Start(subnet, NoDaemon) PROVE IInv'
  <2> PICK m : m = NoDaemon
    OBVIOUS
  <2> QED BY <1>2, <1>3, <1>6
<1> QED BY <1>4, <1>5, <1>6

\* The scan ends with the merge of what its sweeps have returned.
LEMMA FinishKeeps ==
  ASSUME IInv, Finish
  PROVE  IInv'
<1>0. TypeOK /\ ArpOK /\ ProbesOK
  BY DEF IInv
<1> PICK findings : findings = Found
  OBVIOUS
<1> PICK replies : replies = Replied
  OBVIOUS
<1> PICK rows : rows = arp
  OBVIOUS
<1>1. findings \in Seq(Finding) /\ replies \in SUBSET Addresses /\ rows \in Seq(Resolved)
  <2>1. mdns.findings \in Seq(Finding)
    BY <1>0 DEF TypeOK, Mdns
  <2> QED BY <1>0, <2>1 DEF Found, Replied, Finish, ArpOK
<1>2. phase' = "done" /\ result' = Merge(findings, replies, rows)
      /\ UNCHANGED <<budget, known, clock, mdns, heard, events, probe, icmp, arp>>
  BY DEF Finish, Found, Replied
<1>3. /\ Merge(findings, replies, rows) \in Hosts
      /\ \A a \in Addresses :
           /\ Merge(findings, replies, rows)[a] = Right(findings, replies, rows, a)
           /\ a \in replies => Merge(findings, replies, rows)[a] # None
  BY <1>1, MergeIsRight
<1>4. TypeOK'
  BY <1>0, <1>2, <1>3 DEF TypeOK, Hosts
<1>5. ArpOK' /\ ProbesOK' /\ ClockOK' /\ ScanInBudget'
  BY <1>0, <1>2 DEF ArpOK, ProbesOK, ClockOK, ScanInBudget
<1>6. Merged'
  <2>1. findings = Found' /\ replies = Replied' /\ rows = arp'
    BY <1>2 DEF Found, Replied
  <2>2. \A a \in Addresses : Right(findings, replies, rows, a)' = Right(findings, replies, rows, a)
    BY <1>2 DEF Right
  <2>3. \A a \in Addresses : result'[a] = Right(findings, replies, rows, a)'
    BY <1>2, <1>3, <2>2
  <2> QED BY <2>1, <2>3 DEF Merged, Right
<1>7. PingsReported'
  <2> SUFFICES ASSUME budget > 0, NEW a \in Addresses, probe[a] = "replied"
               PROVE  result'[a] # None
    BY <1>2 DEF PingsReported
  <2>1. icmp = "done"
    BY <1>0 DEF TypeOK, ProbesOK, Sweep, Finish
  <2>2. a \in replies
    BY <2>1 DEF Replied
  <2> QED BY <1>2, <1>3, <2>2
<1> QED BY <1>4, <1>5, <1>6, <1>7 DEF IInv

\* The invariant holds at the start.
LEMMA InitKeeps ==
  ASSUME Init
  PROVE  IInv
<1> USE DiscoveryAssumption
<1>1. mdns \in Mdns
  <2>1. 0 \in -Setup .. 0 /\ 0 \in 0 .. Services /\ 1 \in 1 .. Services + 1 /\ budget \in Nat
    BY DEF Init
  <2>2. Browsing(0, 0) \in Mdns
    BY <2>1 DEF Browsing, Mdns, Sweep
  <2> QED BY <2>2 DEF Init, NoDaemon, Mdns, Sweep
<1>2. heard \in [1 .. Services -> Seq(Events)] /\ result \in [Addresses -> Host \cup {None}]
  BY DEF Init, NoHosts
<1>3. TypeOK
  BY <1>1, <1>2 DEF Init, TypeOK, Sweep
<1> QED BY <1>3 DEF Init, IInv, ArpOK, ProbesOK, ClockOK, ScanInBudget, PingsReported, Merged

\* Every step keeps the invariant.
LEMMA NextKeeps ==
  ASSUME IInv, [Next]_vars
  PROVE  IInv'
<1>1. CASE UNCHANGED vars
  <2>1. TypeOK' /\ ArpOK' /\ ProbesOK' /\ ClockOK' /\ ScanInBudget' /\ PingsReported'
    BY <1>1 DEF IInv, vars, TypeOK, ArpOK, ProbesOK, ClockOK, ScanInBudget, PingsReported, PerHost
  <2>2. Merged'
    BY <1>1 DEF IInv, vars, Merged, Found, Replied, Right
  <2> QED BY <2>1, <2>2 DEF IInv
<1>2. CASE Step
  BY <1>2, ListenStepKeeps, SweepsKeep, FinishKeeps DEF Step
<1>3. CASE Next /\ ~Step
  BY <1>3, StartKeeps, SweepsKeep, TickKeeps DEF Next
<1> QED BY <1>1, <1>2, <1>3

-----------------------------------------------------------------------------
\* A scan keeps its invariant, for any network, budget and delay of its timers.
THEOREM ScanInvariant == Spec => []IInv
BY InitKeeps, NextKeeps, PTL DEF Spec

\* Types hold in every reachable state.
THEOREM DiscoveryTypeCorrect == Spec => []TypeOK
<1>1. IInv => TypeOK
  BY DEF IInv
<1> QED BY <1>1, ScanInvariant, PTL

\* A scan is over when its budget is, up to the delay of a timer.
THEOREM ScanInBudgetCorrect == Spec => []ScanInBudget
<1>1. IInv => ScanInBudget
  BY DEF IInv
<1> QED BY <1>1, ScanInvariant, PTL

\* A host that answered its probe is reported, whatever the other sweeps do.
THEOREM PingsReportedCorrect == Spec => []PingsReported
<1>1. IInv => PingsReported
  BY DEF IInv
<1> QED BY <1>1, ScanInvariant, PTL

\* The merge reports every address that a sweep returned and no other, with the first
\* name and the first hardware address, however many findings and rows there are.
THEOREM MergeRightCorrect == Spec => []MergeRight
<1>1. IInv => MergeRight
  BY MergedIs DEF IInv
<1> QED BY <1>1, ScanInvariant, PTL

=============================================================================
