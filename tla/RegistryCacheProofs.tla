------------------------- MODULE RegistryCacheProofs -------------------------
(***************************************************************************)
(* Proofs about RegistryCache, for every number of processes and keys and  *)
(* every TTL.                                                              *)
(***************************************************************************)
EXTENDS RegistryCache, TLAPS

Busy == {"ask", "put", "open", "write", "rename"}

\* What a call in progress holds.
CallsOK ==
  \A p \in Processes :
    /\ pc[p] \in Busy => call[p] # None /\ ~call[p].ok
    /\ pc[p] \in Busy \ {"ask"} => call[p].answer # None
    /\ pc[p] = "write" => call[p].inode # None
    /\ call[p] # None /\ call[p].ok => call[p].answer # None

CallShape ==
  /\ pc \in [Processes -> {"down", "ready", "ask", "put", "open", "write", "rename"}]
  /\ call \in [Processes -> Call \cup {None}]
  /\ CallsOK

ShapeOK == TypeOK /\ CallsOK

\* The history records what the hub answers now as of now, and nothing later.
AsOfNow ==
  \A k \in Keys :
    /\ asOf[k][hub[k]] = clock
    /\ \A a \in Answers : asOf[k][a] <= clock

\* A store never dates an answer later than the hub last gave it.
Honest(store) ==
  \A k \in Keys : store[k] # None => store[k].at <= asOf[k][store[k].answer]

\* Nor does a call in progress, which began in the past.
CallHonest(p) ==
  call[p] # None =>
    /\ call[p].now <= clock
    /\ call[p].answer # None /\ ~call[p].ok =>
         call[p].now <= asOf[call[p].key][call[p].answer]

\* No process and no file, not even one nobody reads any more, holds a store that
\* is not honest.
HonestEverywhere ==
  /\ \A p \in Processes : Honest(mem[p]) /\ CallHonest(p)
  /\ \A i \in Inodes : Honest(file.data[i])

IInv == ShapeOK /\ AsOfNow /\ HonestEverywhere /\ FreshAnswers

-----------------------------------------------------------------------------
\* The empty cache is a cache.
LEMMA NoEntriesType == NoEntries \in Store
BY DEF NoEntries, Store

\* The operations on a file keep its type, and put nothing in it but the value
\* written and the empty store.
LEMMA FileOps ==
  ASSUME NEW f \in File, NEW i \in Inodes, NEW v \in Store
  PROVE  /\ Opened(f, i) \in File
         /\ Written(f, i, v) \in File
         /\ CanRename(f) => Renamed(f) \in File
         /\ \A j \in Inodes : Opened(f, i).data[j] \in {NoEntries, f.data[j]}
         /\ \A j \in Inodes : Written(f, i, v).data[j] \in {v, f.data[j]}
         /\ \A j \in Inodes : Renamed(f).data[j] \in {NoEntries, f.data[j]}
         /\ Read(f) \in Store
         /\ Read(f) = NoEntries \/ \E j \in Inodes : Read(f) = f.data[j]
<1>1. /\ f.data \in [Inodes -> Store]
      /\ f = [path |-> f.path, tmp |-> f.tmp, data |-> f.data]
      /\ f.path \in Inodes \cup {None} /\ f.tmp \in Inodes \cup {None}
  BY DEF File
<1>2. Opened(f, i) = [path |-> f.path, tmp |-> i, data |-> [f.data EXCEPT ![i] = NoEntries]]
  BY <1>1 DEF Opened
<1>3. Written(f, i, v) = [path |-> f.path, tmp |-> f.tmp, data |-> [f.data EXCEPT ![i] = v]]
  BY <1>1 DEF Written
<1>4. /\ Opened(f, i) \in File
      /\ \A j \in Inodes : Opened(f, i).data[j] \in {NoEntries, f.data[j]}
  BY <1>1, <1>2, NoEntriesType DEF File
<1>5. /\ Written(f, i, v) \in File
      /\ \A j \in Inodes : Written(f, i, v).data[j] \in {v, f.data[j]}
  BY <1>1, <1>3 DEF File
<1>6. /\ CanRename(f) => Renamed(f) \in File
      /\ \A j \in Inodes : Renamed(f).data[j] \in {NoEntries, f.data[j]}
  BY <1>1, NoEntriesType DEF File, Renamed, CanRename
<1>7. Read(f) \in Store /\ (Read(f) = NoEntries \/ \E j \in Inodes : Read(f) = f.data[j])
  BY <1>1, NoEntriesType DEF Read
<1> QED BY <1>4, <1>5, <1>6, <1>7

\* None is no call and no answer.
LEMMA CallIsSomething == None \notin Call \cup Answers
BY CacheAssumption

\* A call with one of its fields replaced is a call.
LEMMA CallFields ==
  ASSUME NEW r \in Call
  PROVE  /\ \A a \in Answers : [r EXCEPT !.answer = a] \in Call
         /\ \A i \in Inodes \cup {None} : [r EXCEPT !.inode = i] \in Call
         /\ [r EXCEPT !.ok = TRUE] \in Call
BY DEF Call

-----------------------------------------------------------------------------
(* Types, and what a call in progress holds. *)

\* Every initial state, with or without a cache file, is well shaped.
LEMMA InitShape == Init => ShapeOK
<1> SUFFICES ASSUME Init PROVE ShapeOK
  OBVIOUS
<1>1. 0 \in Time /\ clock \in Time
  BY CacheAssumption DEF Init, Time
<1>2. file \in File
  BY NoEntriesType DEF Init, NoFile, File
<1>3. asOf \in [Keys -> [Answers -> Time \cup {Never}]] /\ paid \in [Keys -> Time \cup {Never}]
  BY <1>1 DEF Init, NeverPaid
<1>4. mem \in [Processes -> Store]
  BY NoEntriesType DEF Init
<1>5. TypeOK
  BY <1>1, <1>2, <1>3, <1>4 DEF Init, TypeOK
<1>6. CallsOK
  BY DEF Init, CallsOK, Busy
<1> QED BY <1>5, <1>6 DEF ShapeOK

\* One process moves and its call becomes one that its new place allows.
LEMMA MoveShape ==
  ASSUME ShapeOK, NEW p \in Processes,
         NEW to \in {"down", "ready"} \cup Busy, NEW r \in Call \cup {None},
         pc' = [pc EXCEPT ![p] = to], call' = [call EXCEPT ![p] = r],
         to \in Busy => r # None /\ ~r.ok,
         to \in Busy \ {"ask"} => r.answer # None,
         to = "write" => r.inode # None,
         r # None /\ r.ok => r.answer # None
  PROVE  CallShape'
<1>1. /\ pc' \in [Processes -> {"down", "ready", "ask", "put", "open", "write", "rename"}]
      /\ call' \in [Processes -> Call \cup {None}]
  BY DEF ShapeOK, TypeOK, Busy
<1>2. CallsOK'
  BY DEF ShapeOK, TypeOK, CallsOK
<1> QED BY <1>1, <1>2 DEF CallShape

\* A step of a process between two calls and within one keeps the shape.
LEMMA StepShape ==
  ASSUME ShapeOK, NEW p \in Processes, Step(p)
  PROVE  ShapeOK'
<1>0. TypeOK /\ CallsOK /\ pc[p] \in {"down", "ready"} \cup Busy
  BY DEF ShapeOK, TypeOK, Busy
<1>c. pc[p] \in Busy => call[p] \in Call /\ ~call[p].ok
  BY <1>0 DEF TypeOK, CallsOK
<1>i. None \notin Inodes /\ mem[p] \in Store
  BY <1>0, CacheAssumption DEF TypeOK
<1>1. CASE Load(p)
  <2>1. Read(file) \in Store
    BY <1>0, NoEntriesType DEF Read, TypeOK, File
  <2>2. pc' = [pc EXCEPT ![p] = "ready"] /\ call' = [call EXCEPT ![p] = None]
    BY <1>1 DEF Load, Goto
  <2>3. CallShape'
    BY <2>2, MoveShape DEF Busy
  <2>4. NeverPaid \in [Keys -> Time \cup {Never}]
    BY DEF NeverPaid
  <2>5. paid' \in [Keys -> Time \cup {Never}] \cup {None}
    BY <1>0, <1>1, <2>4, Zenon DEF Load, TypeOK
  <2> QED BY <1>0, <1>1, <2>1, <2>3, <2>5 DEF Load, CallShape, ShapeOK, TypeOK
<1>2. ASSUME NEW k \in Keys, Hit(p, k) PROVE ShapeOK'
  <2> DEFINE r == [key |-> k, now |-> clock, answer |-> mem[p][k].answer, inode |-> None, ok |-> TRUE]
  <2>1. r \in Call /\ r.answer # None
    BY <1>0, <1>2, CallIsSomething DEF Hit, Fresh, TypeOK, Store, Entry, Call
  <2>2. pc[p] = "ready" /\ pc' = [pc EXCEPT ![p] = "ready"] /\ call' = [call EXCEPT ![p] = r]
    BY <1>0, <1>2 DEF Hit, TypeOK
  <2> HIDE DEF r
  <2>3. CallShape'
    BY <2>1, <2>2, MoveShape DEF Busy
  <2> QED BY <1>0, <1>2, <2>3 DEF Hit, CallShape, ShapeOK, TypeOK
<1>3. ASSUME NEW k \in Keys, Miss(p, k) PROVE ShapeOK'
  <2> DEFINE r == [key |-> k, now |-> clock, answer |-> None, inode |-> None, ok |-> FALSE]
  <2>1. r \in Call /\ r # None /\ ~r.ok
    <3>1. r \in Call /\ ~r.ok
      BY <1>0 DEF TypeOK, Call
    <3> QED BY <3>1, CallIsSomething
  <2>2. pc' = [pc EXCEPT ![p] = "ask"] /\ call' = [call EXCEPT ![p] = r]
    BY <1>3 DEF Miss, Goto
  <2> HIDE DEF r
  <2>3. CallShape'
    BY <2>1, <2>2, MoveShape DEF Busy
  <2> QED BY <1>0, <1>3, <2>3 DEF Miss, CallShape, ShapeOK, TypeOK
<1>4. CASE Answer(p)
  <2> DEFINE r == [call[p] EXCEPT !.answer = hub[call[p].key]]
  <2>1. pc[p] = "ask" /\ call[p] \in Call /\ ~call[p].ok /\ hub[call[p].key] \in Answers
    BY <1>0, <1>c, <1>4 DEF Answer, Goto, Busy, TypeOK, Call
  <2>2. r \in Call /\ ~r.ok /\ r.answer = hub[call[p].key]
    BY <2>1 DEF Call
  <2>3. r # None /\ r.answer # None
    BY <2>1, <2>2, CallIsSomething
  <2>4. pc' = [pc EXCEPT ![p] = "put"] /\ call' = [call EXCEPT ![p] = r]
    BY <1>4 DEF Answer, Goto
  <2> HIDE DEF r
  <2>5. CallShape'
    BY <2>2, <2>3, <2>4, MoveShape DEF Busy
  <2> QED BY <1>0, <1>4, <2>5 DEF Answer, CallShape, ShapeOK, TypeOK
<1>5. CASE Put(p)
  <2>1. pc[p] = "put" /\ call[p] \in Call /\ ~call[p].ok /\ call[p].answer \in Answers
    BY <1>0, <1>c, <1>5 DEF Put, Goto, Busy, CallsOK, Call
  <2>2. [mem[p] EXCEPT ![call[p].key] = [at |-> call[p].now, answer |-> call[p].answer]] \in Store
    BY <1>i, <2>1 DEF Store, Entry, Call
  <2>3. mem' \in [Processes -> Store]
    BY <1>0, <1>5, <2>2 DEF Put, TypeOK
  <2>4. pc' = [pc EXCEPT ![p] = "open"] /\ call' = [call EXCEPT ![p] = call[p]]
    BY <1>0, <1>5 DEF Put, Goto, TypeOK
  <2>5. CallShape'
    BY <2>1, <2>4, CallIsSomething, MoveShape DEF Busy
  <2> QED BY <1>0, <1>5, <2>3, <2>5 DEF Put, CallShape, ShapeOK, TypeOK
<1>6. ASSUME NEW i \in Inodes, OpenTmp(p, i) PROVE ShapeOK'
  <2> DEFINE r == [call[p] EXCEPT !.inode = i]
  <2>1. pc[p] = "open" /\ call[p] \in Call /\ ~call[p].ok /\ call[p].answer # None
    BY <1>0, <1>c, <1>6 DEF OpenTmp, Goto, Busy, CallsOK
  <2>2. r \in Call /\ ~r.ok /\ r.answer # None /\ r.inode # None
    BY <1>i, <2>1 DEF Call
  <2>3. pc' = [pc EXCEPT ![p] = "write"] /\ call' = [call EXCEPT ![p] = r]
    BY <1>6 DEF OpenTmp, Goto
  <2> HIDE DEF r
  <2>4. CallShape'
    BY <2>2, <2>3, CallIsSomething, MoveShape DEF Busy
  <2>5. file' \in File
    BY <1>0, <1>6, <1>i, FileOps DEF OpenTmp, TypeOK
  <2> QED BY <1>0, <1>6, <2>4, <2>5 DEF OpenTmp, CallShape, ShapeOK, TypeOK
<1>7. CASE WriteTmp(p)
  <2> DEFINE r == [call[p] EXCEPT !.inode = None]
  <2>1. pc[p] = "write" /\ call[p] \in Call /\ ~call[p].ok /\ call[p].answer # None
        /\ call[p].inode \in Inodes
    BY <1>0, <1>c, <1>7 DEF WriteTmp, Goto, Busy, CallsOK, Call
  <2>2. r \in Call /\ ~r.ok /\ r.answer # None
    BY <2>1 DEF Call
  <2>3. pc' = [pc EXCEPT ![p] = "rename"] /\ call' = [call EXCEPT ![p] = r]
    BY <1>7 DEF WriteTmp, Goto
  <2> HIDE DEF r
  <2>4. CallShape'
    BY <2>2, <2>3, CallIsSomething, MoveShape DEF Busy
  <2>5. file' \in File
    BY <1>0, <1>7, <1>i, <2>1, FileOps DEF WriteTmp, TypeOK
  <2> QED BY <1>0, <1>7, <2>4, <2>5 DEF WriteTmp, CallShape, ShapeOK, TypeOK
<1>8. CASE Rename(p)
  <2> DEFINE r == [call[p] EXCEPT !.ok = TRUE]
  <2>1. pc[p] = "rename" /\ call[p] \in Call /\ call[p].answer # None
    BY <1>0, <1>c, <1>8 DEF Rename, Goto, Busy, CallsOK
  <2>2. r \in Call /\ r.answer # None
    BY <2>1 DEF Call
  <2>3. pc' = [pc EXCEPT ![p] = "ready"] /\ call' = [call EXCEPT ![p] = r]
    BY <1>8 DEF Rename, Goto
  <2> HIDE DEF r
  <2>4. CallShape'
    BY <2>2, <2>3, MoveShape DEF Busy
  <2>5. file' \in File
    BY <1>0, <1>8, NoEntriesType DEF Rename, CanRename, Renamed, File, TypeOK
  <2>6. paid' \in [Keys -> Time \cup {Never}] \cup {None}
    BY <1>0, <1>8, <2>1 DEF Rename, Call, TypeOK
  <2> QED BY <1>0, <1>8, <2>4, <2>5, <2>6 DEF Rename, CallShape, ShapeOK, TypeOK
<1>9. CASE Fails(p)
  <2>1. CallShape'
    BY <1>9, MoveShape DEF Fails, Busy
  <2> QED BY <1>0, <1>9, <2>1 DEF Fails, CallShape, ShapeOK, TypeOK
<1>10. CASE Exit(p)
  <2>1. CallShape'
    BY <1>10, MoveShape DEF Exit, Busy
  <2>2. mem' \in [Processes -> Store]
    BY <1>0, <1>10, NoEntriesType DEF Exit, TypeOK
  <2> QED BY <1>0, <1>10, <2>1, <2>2 DEF Exit, CallShape, ShapeOK, TypeOK
<1> QED BY <1>1, <1>2, <1>3, <1>4, <1>5, <1>6, <1>7, <1>8, <1>9, <1>10 DEF Step

\* So does every step of the machine.
LEMMA NextShape ==
  ASSUME ShapeOK, [Next]_vars
  PROVE  ShapeOK'
<1>1. CASE UNCHANGED vars
  BY <1>1 DEF vars, ShapeOK, TypeOK, CallsOK
<1>2. CASE Tick
  <2>1. clock' \in Time
    BY <1>2, CacheAssumption DEF Tick, ShapeOK, TypeOK, Time
  <2>2. asOf' \in [Keys -> [Answers -> Time \cup {Never}]]
    BY <1>2, <2>1 DEF Tick, ShapeOK, TypeOK
  <2> QED BY <1>2, <2>1, <2>2 DEF Tick, ShapeOK, TypeOK, CallsOK
<1>3. ASSUME NEW k \in Keys, NEW a \in Answers, Move(k, a) PROVE ShapeOK'
  <2>1. asOf' = [asOf EXCEPT ![k] = [asOf[k] EXCEPT ![a] = clock]]
    BY <1>3, Zenon DEF Move
  <2>2. asOf' \in [Keys -> [Answers -> Time \cup {Never}]] /\ hub' \in [Keys -> Answers]
    BY <1>3, <2>1 DEF Move, ShapeOK, TypeOK
  <2> QED BY <1>3, <2>2 DEF Move, ShapeOK, TypeOK, CallsOK
<1> QED BY <1>1, <1>2, <1>3, StepShape DEF Next

\* Types hold in every reachable state.
THEOREM CacheTypeCorrect == Spec => []TypeOK
<1>1. Spec => []ShapeOK
  BY InitShape, NextShape, PTL DEF Spec
<1>2. ShapeOK => TypeOK
  BY DEF ShapeOK
<1> QED BY <1>1, <1>2, PTL

-----------------------------------------------------------------------------
(* Freshness. *)

\* The hub's history only grows.
LEMMA AsOfGrows ==
  ASSUME ShapeOK, AsOfNow, [Next]_vars
  PROVE  /\ AsOfNow'
         /\ clock <= clock'
         /\ \A k \in Keys, a \in Answers : asOf[k][a] <= asOf'[k][a]
<1>0. /\ \A k \in Keys, a \in Answers : asOf[k][a] \in Int
      /\ clock \in Int
      /\ \A k \in Keys : hub[k] \in Answers
  BY CacheAssumption DEF ShapeOK, TypeOK, Time, Never
<1>1. CASE UNCHANGED vars
  BY <1>0, <1>1 DEF vars, AsOfNow
<1>2. CASE Tick
  BY <1>0, <1>2 DEF Tick, AsOfNow
<1>3. ASSUME NEW k \in Keys, NEW a \in Answers, Move(k, a)
      PROVE  AsOfNow' /\ clock <= clock' /\ \A j \in Keys, e \in Answers : asOf[j][e] <= asOf'[j][e]
  <2>1. asOf' = [asOf EXCEPT ![k] = [asOf[k] EXCEPT ![a] = clock]]
    BY <1>3, Zenon DEF Move
  <2>2. clock' = clock /\ hub' = [hub EXCEPT ![k] = a]
    BY <1>3 DEF Move
  <2> QED BY <1>0, <2>1, <2>2 DEF AsOfNow, ShapeOK, TypeOK
<1>4. ASSUME NEW p \in Processes, Step(p) PROVE UNCHANGED <<hub, asOf, clock>>
  BY <1>4 DEF Step, Load, Hit, Miss, Answer, Put, OpenTmp, WriteTmp, Rename, Fails, Exit
<1>5. CASE \E p \in Processes : Step(p)
  BY <1>0, <1>4, <1>5 DEF AsOfNow
<1> QED BY <1>1, <1>2, <1>3, <1>5 DEF Next

\* What was honest stays honest.
LEMMA HonestStays ==
  ASSUME ShapeOK, AsOfNow, [Next]_vars, NEW store \in Store, Honest(store)
  PROVE  \A k \in Keys : store[k] # None => store[k].at <= asOf'[k][store[k].answer]
<1> SUFFICES ASSUME NEW k \in Keys, store[k] # None
             PROVE  store[k].at <= asOf'[k][store[k].answer]
  OBVIOUS
<1>1. store[k].at \in Int /\ store[k].answer \in Answers
  BY CacheAssumption DEF Store, Entry, Time
<1>2. /\ asOf[k][store[k].answer] \in Int
      /\ asOf'[k][store[k].answer] \in Int
      /\ asOf[k][store[k].answer] <= asOf'[k][store[k].answer]
  BY <1>1, AsOfGrows, NextShape, CacheAssumption DEF ShapeOK, TypeOK, Time, Never
<1> QED BY <1>1, <1>2 DEF Honest

\* The stores of a step are the stores before it, the empty one and the one put.
LEMMA StoresHonest ==
  ASSUME ShapeOK, AsOfNow, HonestEverywhere, [Next]_vars
  PROVE  (\A p \in Processes : Honest(mem[p]))' /\ (\A i \in Inodes : Honest(file.data[i]))'
<1> DEFINE StillHonest(store) == \A k \in Keys : store[k] # None => store[k].at <= asOf'[k][store[k].answer]
<1>1. StillHonest(NoEntries)
  BY DEF NoEntries
<1>2. \A p \in Processes : mem[p] \in Store /\ StillHonest(mem[p])
  BY HonestStays DEF HonestEverywhere, ShapeOK, TypeOK
<1>3. \A i \in Inodes : file.data[i] \in Store /\ StillHonest(file.data[i])
  <2>1. \A i \in Inodes : file.data[i] \in Store
    BY DEF ShapeOK, TypeOK, File
  <2> QED BY <2>1, HonestStays DEF HonestEverywhere
<1> SUFFICES /\ \A p \in Processes : StillHonest(mem'[p])
             /\ \A i \in Inodes : StillHonest(file'.data[i])
  BY DEF Honest
<1>0. TypeOK
  BY DEF ShapeOK
<1> HIDE DEF StillHonest
<1>4. CASE UNCHANGED <<mem, file>>
  BY <1>2, <1>3, <1>4
<1>5. ASSUME NEW p \in Processes, Load(p) \/ Exit(p)
      PROVE  /\ \A q \in Processes : StillHonest(mem'[q])
             /\ \A i \in Inodes : StillHonest(file'.data[i])
  <2>1. Read(file) = NoEntries \/ \E i \in Inodes : Read(file) = file.data[i]
    BY <1>0 DEF Read, TypeOK, File
  <2> QED BY <1>0, <1>1, <1>2, <1>3, <1>5, <2>1 DEF Load, Exit, TypeOK
<1>6. ASSUME NEW p \in Processes, Put(p)
      PROVE  /\ \A q \in Processes : StillHonest(mem'[q])
             /\ \A i \in Inodes : StillHonest(file'.data[i])
  <2> DEFINE store == [mem[p] EXCEPT ![call[p].key] = [at |-> call[p].now, answer |-> call[p].answer]]
  <2>1. pc[p] = "put" /\ call[p] \in Call /\ ~call[p].ok /\ call[p].answer \in Answers
    BY <1>0, <1>6 DEF Put, Goto, Busy, ShapeOK, TypeOK, CallsOK, Call
  <2>2. call[p].now <= asOf[call[p].key][call[p].answer] /\ asOf' = asOf
    BY <1>6, <2>1, CallIsSomething DEF Put, HonestEverywhere, CallHonest
  <2>3. StillHonest(store)
    <3> USE DEF StillHonest
    <3> SUFFICES ASSUME NEW k \in Keys, store[k] # None
                 PROVE  store[k].at <= asOf'[k][store[k].answer]
      OBVIOUS
    <3>1. CASE k = call[p].key
      BY <1>2, <2>2, <3>1 DEF Store
    <3>2. CASE k # call[p].key
      BY <1>2, <3>2 DEF Store
    <3> QED BY <3>1, <3>2
  <2> HIDE DEF store
  <2>4. mem' = [mem EXCEPT ![p] = store] /\ file' = file
    BY <1>6 DEF Put, store
  <2> QED BY <1>0, <1>2, <1>3, <2>3, <2>4 DEF TypeOK
<1>7. ASSUME NEW p \in Processes, Rename(p) \/ WriteTmp(p) \/ \E i \in Inodes : OpenTmp(p, i)
      PROVE  /\ \A q \in Processes : StillHonest(mem'[q])
             /\ \A i \in Inodes : StillHonest(file'.data[i])
  <2>1. mem' = mem
    BY <1>7 DEF Rename, WriteTmp, OpenTmp
  <2>2. \A i \in Inodes : file'.data[i] \in {NoEntries, mem[p], file.data[i]}
    <3>1. CASE Rename(p)
      BY <1>0, <3>1 DEF Rename, Renamed
    <3>2. CASE WriteTmp(p)
      <4>1. call[p].inode \in Inodes /\ mem[p] \in Store
        BY <1>0, <3>2 DEF WriteTmp, Goto, Busy, ShapeOK, TypeOK, CallsOK, Call
      <4>2. file' = Written(file, call[p].inode, mem[p]) /\ file \in File
        BY <1>0, <3>2 DEF WriteTmp, TypeOK
      <4>3. \A j \in Inodes : Written(file, call[p].inode, mem[p]).data[j] \in {mem[p], file.data[j]}
        BY <4>1, <4>2, FileOps
      <4> QED BY <4>2, <4>3
    <3>3. ASSUME NEW i \in Inodes, OpenTmp(p, i) PROVE \A j \in Inodes : file'.data[j] \in {NoEntries, mem[p], file.data[j]}
      BY <1>0, <3>3, <1>2, FileOps DEF OpenTmp, TypeOK
    <3> QED BY <1>7, <3>1, <3>2, <3>3
  <2> QED BY <1>1, <1>2, <1>3, <2>1, <2>2
<1>8. \A p \in Processes :
        (\E k \in Keys : Hit(p, k) \/ Miss(p, k)) \/ Answer(p) \/ Fails(p) => UNCHANGED <<mem, file>>
  BY DEF Hit, Miss, Answer, Fails
<1>9. Tick \/ (\E k \in Keys, a \in Answers : Move(k, a)) \/ UNCHANGED vars => UNCHANGED <<mem, file>>
  BY DEF Tick, Move, vars
<1> QED BY <1>4, <1>5, <1>6, <1>7, <1>8, <1>9 DEF Next, Step

\* A call that stays as it was stays honest, and fresh if it has returned.
LEMMA CallStays ==
  ASSUME ShapeOK, AsOfNow, HonestEverywhere, FreshAnswers, [Next]_vars,
         NEW p \in Processes, call'[p] = call[p]
  PROVE  /\ CallHonest(p)'
         /\ call'[p] # None /\ call'[p].ok =>
              LET last == asOf'[call'[p].key][call'[p].answer]
              IN  last # Never /\ (last >= call'[p].now \/ call'[p].now - last < TTL)
<1>0. call[p] # None => call'[p].now <= clock'
  <2> SUFFICES ASSUME call[p] # None PROVE call[p].now <= clock'
    OBVIOUS
  <2>1. call[p].now \in Int /\ clock \in Int /\ clock' \in Int /\ clock <= clock'
    BY AsOfGrows, NextShape, CacheAssumption DEF ShapeOK, TypeOK, Call, Time
  <2> QED BY <2>1 DEF HonestEverywhere, CallHonest
<1>1. CASE call[p] = None
  BY <1>1 DEF CallHonest
<1>2. CASE call[p] # None /\ call[p].answer \in Answers
  <2> DEFINE before == asOf[call[p].key][call[p].answer]
             after == asOf'[call[p].key][call[p].answer]
  <2>1. call[p].key \in Keys /\ call[p].now \in Int /\ call[p].now >= 0 /\ TTL \in Int
    BY <1>2, CacheAssumption DEF ShapeOK, TypeOK, Call, Time
  <2>2. before \in Int /\ after \in Int /\ before <= after /\ before >= Never /\ after >= Never
    <3>1. \A k \in Keys, a \in Answers : asOf[k][a] \in Int /\ asOf[k][a] >= Never
      BY CacheAssumption DEF ShapeOK, TypeOK, Time, Never
    <3>2. \A k \in Keys, a \in Answers : asOf'[k][a] \in Int /\ asOf'[k][a] >= Never
      BY NextShape, CacheAssumption DEF ShapeOK, TypeOK, Time, Never
    <3>3. \A k \in Keys, a \in Answers : asOf[k][a] <= asOf'[k][a]
      BY AsOfGrows
    <3> QED BY <1>2, <2>1, <3>1, <3>2, <3>3
  <2>3. CASE ~call[p].ok
    <3>1. call[p].now <= before
      BY <1>2, <2>3, CallIsSomething DEF HonestEverywhere, CallHonest
    <3> QED BY <1>0, <2>1, <2>2, <2>3, <3>1 DEF CallHonest
  <2>4. CASE call[p].ok
    <3>1. before # Never /\ (before >= call[p].now \/ call[p].now - before < TTL)
      BY <1>2, <2>4 DEF FreshAnswers
    <3> HIDE DEF before, after
    <3>2. after # Never /\ (after >= call[p].now \/ call[p].now - after < TTL)
      BY <2>1, <2>2, <3>1 DEF Never
    <3> QED BY <1>0, <2>4, <3>2 DEF CallHonest, after
  <2> QED BY <2>3, <2>4
<1>3. CASE call[p] # None /\ call[p].answer = None
  <2>1. ~call[p].ok
    BY <1>3 DEF ShapeOK, CallsOK
  <2> QED BY <1>0, <1>3, <2>1 DEF CallHonest
<1> QED BY <1>1, <1>2, <1>3 DEF ShapeOK, TypeOK, Call

\* No step leaves a call with an answer dated later than the registry gave it,
\* and a call that ends well hands out an answer younger than the TTL.
LEMMA CallsHonest ==
  ASSUME ShapeOK, AsOfNow, HonestEverywhere, FreshAnswers, [Next]_vars
  PROVE  (\A p \in Processes : CallHonest(p))' /\ FreshAnswers'
<1> DEFINE Good(p) ==
             /\ CallHonest(p)'
             /\ call'[p] # None /\ call'[p].ok =>
                  LET last == asOf'[call'[p].key][call'[p].answer]
                  IN  last # Never /\ (last >= call'[p].now \/ call'[p].now - last < TTL)
<1> SUFFICES \A p \in Processes : Good(p)
  BY DEF FreshAnswers
<1>0. TypeOK
  BY DEF ShapeOK
<1>1. \A p \in Processes : call'[p] = call[p] => Good(p)
  BY CallStays
<1> HIDE DEF Good
<1>2. CASE UNCHANGED call
  BY <1>1, <1>2
<1>3. ASSUME NEW p \in Processes, Step(p) PROVE Good(p)
  <2>0. pc[p] \in Busy => call[p] \in Call /\ ~call[p].ok
    BY <1>0 DEF ShapeOK, CallsOK, TypeOK
  <2>1. CASE Load(p) \/ Fails(p) \/ Exit(p)
    <3>1. call'[p] = None
      BY <1>0, <2>1 DEF Load, Fails, Exit, TypeOK
    <3> QED BY <3>1 DEF Good, CallHonest
  <2>2. ASSUME NEW k \in Keys, Hit(p, k) PROVE Good(p)
    <3>1. mem[p] \in Store /\ mem[p][k] # None
      BY <1>0, <2>2 DEF Hit, Fresh, TypeOK
    <3>2. mem[p][k] \in Entry /\ mem[p][k].at \in Int /\ mem[p][k].at >= 0
          /\ mem[p][k].answer \in Answers
      BY <3>1, CacheAssumption DEF Store, Entry, Time
    <3>3. asOf[k][mem[p][k].answer] \in Int /\ clock \in Int /\ TTL \in Int
      BY <1>0, <3>2, CacheAssumption DEF TypeOK, Time, Never
    <3>4. mem[p][k].at <= asOf[k][mem[p][k].answer] /\ clock - mem[p][k].at < TTL
      BY <2>2, <3>1 DEF Hit, Fresh, IsFresh, HonestEverywhere, Honest
    <3>5. /\ call'[p].key = k /\ call'[p].now = clock /\ call'[p].answer = mem[p][k].answer
          /\ call'[p].ok /\ UNCHANGED <<asOf, clock>>
      BY <1>0, <2>2 DEF Hit, TypeOK
    <3> QED BY <3>2, <3>3, <3>4, <3>5 DEF Good, CallHonest, Never
  <2>3. ASSUME NEW k \in Keys, Miss(p, k) PROVE Good(p)
    <3>1. call'[p].answer = None /\ ~call'[p].ok /\ call'[p].now = clock /\ clock' = clock
      BY <1>0, <2>3 DEF Miss, TypeOK
    <3>2. clock \in Int
      BY <1>0 DEF TypeOK, Time
    <3> QED BY <3>1, <3>2 DEF Good, CallHonest
  <2>4. CASE Answer(p)
    <3>1. call[p] \in Call /\ ~call[p].ok
      BY <2>0, <2>4 DEF Answer, Goto, Busy
    <3>2. /\ call'[p].key = call[p].key /\ call'[p].now = call[p].now /\ ~call'[p].ok
          /\ call'[p].answer = hub[call[p].key] /\ UNCHANGED <<asOf, clock>>
      BY <1>0, <2>4, <3>1 DEF Answer, TypeOK, Call
    <3>4. call[p].now <= clock
      BY <3>1, CallIsSomething DEF HonestEverywhere, CallHonest
    <3>3. call[p].now <= asOf[call[p].key][hub[call[p].key]]
      BY <3>1, <3>4, CallIsSomething DEF AsOfNow, Call
    <3> QED BY <3>2, <3>3, <3>4 DEF Good, CallHonest
  <2>5. CASE Put(p)
    BY <1>1, <2>5 DEF Put
  <2>6. CASE WriteTmp(p) \/ \E i \in Inodes : OpenTmp(p, i)
    <3>1. call[p] \in Call /\ ~call[p].ok /\ call[p].answer # None
      BY <2>0, <2>6 DEF WriteTmp, OpenTmp, Goto, Busy, ShapeOK, CallsOK
    <3>2. /\ call'[p].key = call[p].key /\ call'[p].now = call[p].now /\ ~call'[p].ok
          /\ call'[p].answer = call[p].answer /\ UNCHANGED <<asOf, clock>>
      BY <1>0, <2>6, <3>1 DEF WriteTmp, OpenTmp, TypeOK, Call
    <3>3. call[p].now <= asOf[call[p].key][call[p].answer] /\ call[p].now <= clock
      BY <3>1, CallIsSomething DEF HonestEverywhere, CallHonest
    <3> QED BY <3>2, <3>3 DEF Good, CallHonest
  <2>7. CASE Rename(p)
    <3>1. call[p] \in Call /\ ~call[p].ok /\ call[p].answer # None
      BY <2>0, <2>7 DEF Rename, Goto, Busy, ShapeOK, CallsOK
    <3>2. /\ call'[p].key = call[p].key /\ call'[p].now = call[p].now /\ call'[p].ok
          /\ call'[p].answer = call[p].answer /\ UNCHANGED <<asOf, clock>>
      BY <1>0, <2>7, <3>1 DEF Rename, TypeOK, Call
    <3>3. call[p].now <= asOf[call[p].key][call[p].answer] /\ call[p].now <= clock
      BY <3>1, CallIsSomething DEF HonestEverywhere, CallHonest
    <3>4. call[p].now \in Int /\ call[p].now >= 0 /\ asOf[call[p].key][call[p].answer] \in Int
      BY <1>0, <3>1, CacheAssumption DEF TypeOK, Call, Time, Never
    <3> QED BY <3>2, <3>3, <3>4 DEF Good, CallHonest, Never
  <2> QED BY <1>3, <2>1, <2>2, <2>3, <2>4, <2>5, <2>6, <2>7 DEF Step
<1>4. ASSUME NEW p \in Processes, Step(p), NEW q \in Processes, q # p PROVE call'[q] = call[q]
  BY <1>0, <1>4 DEF Step, Load, Hit, Miss, Answer, Put, OpenTmp, WriteTmp, Rename, Fails, Exit, TypeOK
<1>5. Tick \/ (\E k \in Keys, a \in Answers : Move(k, a)) \/ UNCHANGED vars => UNCHANGED call
  BY DEF Tick, Move, vars
<1> QED BY <1>1, <1>2, <1>3, <1>4, <1>5 DEF Next

\* The invariant holds in every reachable state.
THEOREM CacheInvariant == Spec => []IInv
<1>1. Init => IInv
  <2> SUFFICES ASSUME Init PROVE AsOfNow /\ HonestEverywhere /\ FreshAnswers
    BY InitShape DEF IInv
  <2>1. AsOfNow
    BY DEF Init, AsOfNow, Never
  <2>2. HonestEverywhere /\ FreshAnswers
    BY DEF Init, HonestEverywhere, Honest, CallHonest, FreshAnswers, NoEntries, NoFile
  <2> QED BY <2>1, <2>2
<1>2. IInv /\ [Next]_vars => IInv'
  BY NextShape, AsOfGrows, StoresHonest, CallsHonest DEF IInv, HonestEverywhere
<1> QED BY <1>1, <1>2, PTL DEF Spec

\* No answer a caller gets was out of date for a TTL when its call began, for any
\* number of processes rewriting the file under each other, for every TTL.
THEOREM FreshAnswersCorrect == Spec => []FreshAnswers
<1>1. IInv => FreshAnswers
  BY DEF IInv
<1> QED BY <1>1, CacheInvariant, PTL

-----------------------------------------------------------------------------
(* The rate limit. *)

\* A store holds, for every miss that was paid for and returned, an answer at least as young.
Recorded(store) ==
  \A k \in Keys : paid[k] # Never => store[k] # None /\ paid[k] <= store[k].at

\* What the one process that is up holds, and where it is with its file.
PayerOK(p) ==
  /\ Recorded(mem[p])
  /\ pc[p] \in Busy => paid[call[p].key] <= call[p].now
  /\ pc[p] \in {"open", "write", "rename"} =>
       mem[p][call[p].key] # None /\ mem[p][call[p].key].at = call[p].now
  /\ pc[p] = "write" => call[p].inode = file.tmp
  /\ pc[p] = "rename" => file.tmp # None /\ file.data[file.tmp] = mem[p]

\* While no two processes overlap, the file on disk is as good as the memory that wrote it.
PaidOK ==
  /\ \A p, q \in Processes : pc[p] # "down" /\ pc[q] # "down" => p = q
  /\ \A k \in Keys : paid[k] <= clock
  /\ Recorded(Read(file))
  /\ \A p \in Processes : pc[p] # "down" => PayerOK(p)

\* The two names of the file are two inodes.
NamesApart == file.tmp # None => file.tmp # file.path

PaidInv == NamesApart /\ (paid # None => PaidOK)

\* What the operations on a file whose names are apart do to its names and its reader.
LEMMA FileReads ==
  ASSUME NEW f \in File, f.tmp # None => f.tmp # f.path, NEW i \in Inodes, NEW v
  PROVE  /\ \A held : Opens(f, held, i) =>
              /\ Opened(f, i).tmp = i /\ Opened(f, i).tmp # Opened(f, i).path
              /\ Read(Opened(f, i)) = Read(f)
         /\ f.tmp = i =>
              /\ Written(f, i, v).tmp = i /\ Written(f, i, v).data[i] = v
              /\ Read(Written(f, i, v)) = Read(f)
         /\ Written(f, i, v).tmp = f.tmp /\ Written(f, i, v).path = f.path
         /\ CanRename(f) => Renamed(f).tmp = None /\ Read(Renamed(f)) = f.data[f.tmp]
<1>1. /\ f.data \in [Inodes -> Store] /\ f.path \in Inodes \cup {None} /\ f.tmp \in Inodes \cup {None}
      /\ f = [path |-> f.path, tmp |-> f.tmp, data |-> f.data]
  BY DEF File
<1>2. None \notin Inodes
  BY CacheAssumption
<1>3. ASSUME NEW held, Opens(f, held, i)
      PROVE  /\ Opened(f, i).tmp = i /\ Opened(f, i).tmp # Opened(f, i).path
             /\ Read(Opened(f, i)) = Read(f)
  <2>1. i # f.path
    BY <1>2, <1>3 DEF Opens
  <2> QED BY <1>1, <2>1 DEF Opened, Read
<1>4. Written(f, i, v) = [path |-> f.path, tmp |-> f.tmp, data |-> [f.data EXCEPT ![i] = v]]
  BY <1>1 DEF Written
<1>5. ASSUME f.tmp = i
      PROVE  /\ Written(f, i, v).tmp = i /\ Written(f, i, v).data[i] = v
             /\ Read(Written(f, i, v)) = Read(f)
  BY <1>1, <1>2, <1>4, <1>5 DEF Read
<1>6. ASSUME CanRename(f) PROVE Renamed(f).tmp = None /\ Read(Renamed(f)) = f.data[f.tmp]
  BY <1>1, <1>6 DEF CanRename, Renamed, Read
<1> QED BY <1>3, <1>4, <1>5, <1>6

\* The two names stay apart, whoever opens, writes and renames.
LEMMA NamesStay ==
  ASSUME ShapeOK, NamesApart, [Next]_vars
  PROVE  NamesApart'
<1>0. file \in File
  BY DEF ShapeOK, TypeOK
<1>1. CASE UNCHANGED file
  BY <1>1 DEF NamesApart
<1>2. ASSUME NEW p \in Processes, NEW i \in Inodes, OpenTmp(p, i) PROVE NamesApart'
  BY <1>0, <1>2, FileReads DEF OpenTmp, NamesApart
<1>3. ASSUME NEW p \in Processes, WriteTmp(p) PROVE NamesApart'
  <2>1. PICK i \in Inodes : i = call[p].inode
    BY <1>3 DEF WriteTmp, Goto, Busy, ShapeOK, TypeOK, CallsOK, Call
  <2>2. file' = Written(file, i, mem[p])
    BY <1>3, <2>1 DEF WriteTmp
  <2> QED BY <1>0, <2>2, FileReads DEF NamesApart
<1>4. ASSUME NEW p \in Processes, Rename(p) PROVE NamesApart'
  BY <1>0, <1>4 DEF Rename, Renamed, NamesApart
<1>5. \A p \in Processes :
        Load(p) \/ Answer(p) \/ Put(p) \/ Fails(p) \/ Exit(p) \/ (\E k \in Keys : Hit(p, k) \/ Miss(p, k))
          => UNCHANGED file
  BY DEF Load, Answer, Put, Fails, Exit, Hit, Miss
<1>6. Tick \/ (\E k \in Keys, a \in Answers : Move(k, a)) \/ UNCHANGED vars => UNCHANGED file
  BY DEF Tick, Move, vars
<1> QED BY <1>1, <1>2, <1>3, <1>4, <1>5, <1>6 DEF Next, Step

\* A step of the one process that is up needs only be right about that process.
LEMMA PayerFrame ==
  ASSUME ShapeOK, PaidOK, NEW p \in Processes, pc[p] # "down", NEW to,
         pc' = [pc EXCEPT ![p] = to], PayerOK(p)',
         \A k \in Keys : paid'[k] <= clock', Recorded(Read(file))'
  PROVE  PaidOK'
<1>1. \A q \in Processes : q # p => pc'[q] = "down"
  BY DEF PaidOK, ShapeOK, TypeOK
<1> QED BY <1>1 DEF PaidOK

\* Every step of a process keeps what is known of payments.
LEMMA StepPaid ==
  ASSUME IInv, PaidInv, NEW p \in Processes, Step(p), paid' # None
  PROVE  PaidOK'
<1>0. /\ ShapeOK /\ TypeOK /\ CallsOK /\ file \in File /\ mem[p] \in Store /\ clock \in Int /\ clock >= 0
      /\ pc[p] \in Busy => call[p] \in Call
  BY DEF IInv, ShapeOK, TypeOK, CallsOK, Time
<1>f. file.tmp # None => file.tmp # file.path
  BY DEF PaidInv, NamesApart
<1>p. paid # None => PaidOK /\ paid \in [Keys -> Time \cup {Never}]
  BY <1>0 DEF PaidInv, TypeOK
<1>1. CASE Load(p)
  <2>1. \A q \in Processes : pc[q] = "down"
    BY <1>1 DEF Load
  <2>2. pc' = [pc EXCEPT ![p] = "ready"] /\ mem'[p] = Read(file) /\ file' = file /\ clock' = clock
    BY <1>0, <1>1 DEF Load, Goto, TypeOK
  <2>3. Recorded(Read(file))' /\ \A k \in Keys : paid'[k] <= clock
    <3>1. CASE paid = None
      BY <1>0, <1>1, <2>1, <3>1 DEF Load, NeverPaid, Never, Recorded
    <3>2. CASE paid # None
      BY <1>1, <1>p, <2>1, <2>2, <3>2 DEF Load, PaidOK, Recorded
    <3> QED BY <3>1, <3>2
  <2>4. pc'[p] = "ready"
    BY <1>0, <2>2 DEF TypeOK
  <2>5. PayerOK(p)'
    BY <2>2, <2>3, <2>4 DEF PayerOK, Busy, Recorded
  <2>6. \A q \in Processes : q # p => pc'[q] = "down"
    BY <1>0, <2>1, <2>2 DEF TypeOK
  <2> QED BY <2>2, <2>3, <2>5, <2>6 DEF PaidOK
<1>2. CASE ~Load(p)
  <2>0. paid # None /\ pc[p] # "down" /\ clock' = clock
    BY <1>0, <1>2 DEF Step, Answer, Put, WriteTmp, Rename, Fails, Exit, Hit, Miss, OpenTmp, Goto
  <2>p. /\ PaidOK /\ PayerOK(p) /\ Recorded(Read(file)) /\ \A k \in Keys : paid[k] <= clock
        /\ paid \in [Keys -> Time \cup {Never}]
    BY <1>p, <2>0 DEF PaidOK
  <2>u. ASSUME UNCHANGED <<file, paid>>
        PROVE  Recorded(Read(file))' /\ \A k \in Keys : paid'[k] <= clock'
    BY <2>0, <2>p, <2>u DEF Recorded
  <2>m. ASSUME UNCHANGED paid, mem'[p] = mem[p] PROVE Recorded(mem[p])'
    BY <2>p, <2>m DEF Recorded, PayerOK
  <2>1. CASE Exit(p)
    <3>1. UNCHANGED <<file, paid>> /\ \A q \in Processes : pc'[q] = "down"
      BY <1>0, <2>0, <2>1, <2>p DEF Exit, PaidOK, TypeOK
    <3> QED BY <2>u, <3>1 DEF PaidOK
  <2>2. CASE Fails(p)
    <3>1. UNCHANGED <<file, paid, mem>> /\ pc' = [pc EXCEPT ![p] = "ready"] /\ pc'[p] = "ready"
      BY <1>0, <2>2 DEF Fails, TypeOK
    <3>2. PayerOK(p)'
      BY <2>m, <3>1 DEF PayerOK, Busy
    <3> QED BY <1>0, <2>0, <2>p, <2>u, <3>1, <3>2, PayerFrame
  <2>3. ASSUME NEW k \in Keys, Hit(p, k) PROVE PaidOK'
    <3>1. UNCHANGED <<file, paid, mem>> /\ pc' = [pc EXCEPT ![p] = "ready"] /\ pc'[p] = "ready"
      BY <1>0, <2>3 DEF Hit, TypeOK
    <3>2. PayerOK(p)'
      BY <2>m, <3>1 DEF PayerOK, Busy
    <3> QED BY <1>0, <2>0, <2>p, <2>u, <3>1, <3>2, PayerFrame
  <2>4. ASSUME NEW k \in Keys, Miss(p, k) PROVE PaidOK'
    <3>1. /\ UNCHANGED <<file, paid, mem>> /\ pc' = [pc EXCEPT ![p] = "ask"] /\ pc'[p] = "ask"
          /\ call'[p].key = k /\ call'[p].now = clock
      BY <1>0, <2>4 DEF Miss, Goto, TypeOK
    <3>2. PayerOK(p)'
      BY <2>m, <2>p, <3>1 DEF PayerOK
    <3> QED BY <1>0, <2>0, <2>p, <2>u, <3>1, <3>2, PayerFrame
  <2>5. CASE Answer(p)
    <3>0. pc[p] = "ask" /\ pc[p] \in Busy /\ call[p] \in Call
      BY <1>0, <2>5 DEF Answer, Goto, Busy
    <3>1. /\ UNCHANGED <<file, paid, mem>> /\ pc' = [pc EXCEPT ![p] = "put"] /\ pc'[p] = "put"
          /\ call'[p].key = call[p].key /\ call'[p].now = call[p].now
      BY <1>0, <2>5, <3>0 DEF Answer, Goto, TypeOK, Call
    <3>2. PayerOK(p)'
      BY <2>m, <2>p, <3>0, <3>1 DEF PayerOK
    <3> QED BY <1>0, <2>0, <2>p, <2>u, <3>1, <3>2, PayerFrame
  <2>6. CASE Put(p)
    <3>0. pc[p] \in Busy /\ call[p] \in Call /\ paid[call[p].key] <= call[p].now /\ call[p].answer # None
      BY <1>0, <2>6, <2>p DEF Put, Goto, Busy, PayerOK, CallsOK
    <3> PICK w : w = [at |-> call[p].now, answer |-> call[p].answer]
      OBVIOUS
    <3>1. /\ UNCHANGED <<file, paid, call>> /\ pc' = [pc EXCEPT ![p] = "open"] /\ pc'[p] = "open"
          /\ mem'[p] = [mem[p] EXCEPT ![call[p].key] = w]
      BY <1>0, <2>6 DEF Put, Goto, TypeOK
    <3>2. w \in Entry /\ w # None /\ w.at = call[p].now
      <4>1. w \in Entry
        BY <3>0 DEF Entry, Call
      <4> QED BY <4>1, CacheAssumption
    <3>3. call[p].key \in Keys
      BY <3>0 DEF Call
    <3>4. mem'[p][call[p].key] = w /\ \A k \in Keys : k # call[p].key => mem'[p][k] = mem[p][k]
      BY <1>0, <3>1, <3>3 DEF Store
    <3>5. Recorded(mem[p])'
      BY <2>p, <3>0, <3>1, <3>2, <3>4 DEF Recorded, PayerOK
    <3>6. PayerOK(p)'
      BY <3>0, <3>1, <3>2, <3>4, <3>5 DEF PayerOK
    <3> QED BY <1>0, <2>0, <2>p, <2>u, <3>1, <3>6, PayerFrame
  <2>7. ASSUME NEW i \in Inodes, OpenTmp(p, i) PROVE PaidOK'
    <3>0. pc[p] \in Busy /\ call[p] \in Call /\ pc[p] = "open"
      BY <1>0, <2>7 DEF OpenTmp, Goto, Busy
    <3>1. /\ UNCHANGED <<paid, mem>> /\ pc' = [pc EXCEPT ![p] = "write"] /\ pc'[p] = "write"
          /\ call'[p].key = call[p].key /\ call'[p].now = call[p].now /\ call'[p].inode = i
      BY <1>0, <2>7, <3>0 DEF OpenTmp, Goto, TypeOK, Call
    <3>2. Opens(file, Held, i) /\ file' = Opened(file, i)
      BY <2>7 DEF OpenTmp
    <3>3. file'.tmp = i /\ Read(file') = Read(file)
      BY <1>0, <1>f, <3>2, FileReads
    <3>4. PayerOK(p)'
      BY <2>m, <2>p, <3>0, <3>1, <3>3 DEF PayerOK
    <3>5. Recorded(Read(file))' /\ \A k \in Keys : paid'[k] <= clock'
      BY <2>0, <2>p, <3>1, <3>3 DEF Recorded
    <3> QED BY <1>0, <2>0, <2>p, <3>1, <3>4, <3>5, PayerFrame
  <2>8. CASE WriteTmp(p)
    <3>0. /\ pc[p] \in Busy /\ call[p] \in Call /\ pc[p] = "write"
      BY <1>0, <2>8 DEF WriteTmp, Goto, Busy
    <3> PICK i : i = call[p].inode
      OBVIOUS
    <3>i. i \in Inodes /\ file.tmp = i /\ i # None
      BY <1>0, <2>p, <3>0, CacheAssumption DEF PayerOK, CallsOK, Call
    <3>1. /\ UNCHANGED <<paid, mem>> /\ pc' = [pc EXCEPT ![p] = "rename"] /\ pc'[p] = "rename"
          /\ call'[p].key = call[p].key /\ call'[p].now = call[p].now
      BY <1>0, <2>8, <3>0 DEF WriteTmp, Goto, TypeOK, Call
    <3> PICK v : v = mem[p]
      OBVIOUS
    <3>2. file' = Written(file, i, v)
      BY <2>8 DEF WriteTmp
    <3>3. file'.tmp = i /\ file'.data[i] = v /\ Read(file') = Read(file)
      BY <1>0, <1>f, <3>2, <3>i, FileReads
    <3>4. PayerOK(p)'
      BY <2>m, <2>p, <3>0, <3>1, <3>3, <3>i DEF PayerOK
    <3>5. Recorded(Read(file))' /\ \A k \in Keys : paid'[k] <= clock'
      BY <2>0, <2>p, <3>1, <3>3 DEF Recorded
    <3> QED BY <1>0, <2>0, <2>p, <3>1, <3>4, <3>5, PayerFrame
  <2>9. CASE Rename(p)
    <3>0. /\ pc[p] \in Busy /\ call[p] \in Call /\ call[p].key \in Keys /\ pc[p] = "rename"
          /\ call[p].now <= clock /\ call[p].now \in Int
      <4>1. pc[p] \in Busy /\ call[p] \in Call /\ pc[p] = "rename"
        BY <1>0, <2>9 DEF Rename, Goto, Busy
      <4>2. call[p].key \in Keys /\ call[p].now \in Int
        BY <4>1, CacheAssumption DEF Call, Time
      <4>3. call[p].now <= clock
        BY <4>1, CallIsSomething DEF IInv, HonestEverywhere, CallHonest
      <4> QED BY <4>1, <4>2, <4>3
    <3>1. /\ UNCHANGED mem /\ pc' = [pc EXCEPT ![p] = "ready"] /\ pc'[p] = "ready"
          /\ paid' = [paid EXCEPT ![call[p].key] = call[p].now]
          /\ file' = Renamed(file) /\ CanRename(file)
      BY <1>0, <2>0, <2>9 DEF Rename, Goto, TypeOK
    <3>2. Read(file') = mem[p]
      <4>1. PICK i \in Inodes : i = file.tmp
        BY <1>0, <3>1 DEF CanRename, File
      <4> QED BY <1>0, <1>f, <2>p, <3>0, <3>1, <4>1, FileReads DEF PayerOK
    <3>3. mem[p][call[p].key] # None /\ mem[p][call[p].key].at = call[p].now
      BY <2>p, <3>0 DEF PayerOK
    <3>4. Recorded(mem[p])' /\ \A k \in Keys : paid'[k] <= clock'
      <4>1. \A k \in Keys : k # call[p].key => paid'[k] = paid[k]
        BY <2>p, <3>1
      <4>2. paid'[call[p].key] = call[p].now
        BY <2>p, <3>0, <3>1
      <4> QED BY <2>0, <2>p, <3>0, <3>1, <3>3, <4>1, <4>2 DEF Recorded, PayerOK
    <3>5. Recorded(Read(file))'
      BY <3>1, <3>2, <3>4 DEF Recorded
    <3>6. PayerOK(p)'
      BY <3>1, <3>4 DEF PayerOK, Busy
    <3> QED BY <1>0, <2>0, <2>p, <3>1, <3>4, <3>5, <3>6, PayerFrame
  <2> QED BY <1>2, <2>1, <2>2, <2>3, <2>4, <2>5, <2>6, <2>7, <2>8, <2>9 DEF Step
<1> QED BY <1>1, <1>2

\* So does every step of the machine.
LEMMA NextPaid ==
  ASSUME IInv, PaidInv, [Next]_vars
  PROVE  PaidInv'
<1>0. NamesApart'
  BY NamesStay DEF IInv, PaidInv
<1>1. CASE \E p \in Processes : Step(p)
  BY <1>0, <1>1, StepPaid DEF PaidInv
<1>2. CASE Tick \/ (\E k \in Keys, a \in Answers : Move(k, a)) \/ UNCHANGED vars
  <2>1. UNCHANGED <<file, pc, mem, call, paid>> /\ (clock' = clock \/ clock' = clock + 1)
    BY <1>2 DEF Tick, Move, vars
  <2>2. clock \in Int
    BY DEF IInv, ShapeOK, TypeOK, Time
  <2>3. ASSUME paid # None PROVE PaidOK'
    <3>1. PaidOK /\ \A k \in Keys : paid[k] \in Int
      BY <2>3 DEF PaidInv, IInv, ShapeOK, TypeOK, Time, Never
    <3>2. \A k \in Keys : paid'[k] <= clock'
      BY <2>1, <2>2, <3>1 DEF PaidOK
    <3> QED BY <2>1, <3>1, <3>2 DEF PaidOK, PayerOK, Recorded
  <2> QED BY <1>0, <2>1, <2>3 DEF PaidInv
<1> QED BY <1>1, <1>2 DEF Next

\* An answer that was paid for and returned is not asked for again within the TTL, as
\* long as no two processes overlap, across failures, crashes and restarts.
THEOREM RateLimitedCorrect == Spec => RateLimited
<1>1. Init => PaidInv
  <2> SUFFICES ASSUME Init PROVE NamesApart /\ PaidOK
    BY DEF PaidInv
  <2>1. \A k \in Keys : paid[k] = Never
    BY DEF Init, NeverPaid
  <2> QED BY <2>1 DEF Init, NamesApart, NoFile, PaidOK, Recorded, Never
<1>2. IInv /\ PaidInv /\ [Next]_vars =>
        [\A p \in Processes :
           pc[p] = "ready" /\ pc'[p] = "ask" =>
             \/ paid = None
             \/ paid[call'[p].key] = Never
             \/ clock - paid[call'[p].key] >= TTL]_vars
  <2> SUFFICES ASSUME IInv, PaidInv, Next, NEW p \in Processes, pc[p] = "ready", pc'[p] = "ask",
                      paid # None
               PROVE  \/ paid[call'[p].key] = Never
                      \/ clock - paid[call'[p].key] >= TTL
    OBVIOUS
  <2>0. TypeOK /\ PaidOK /\ PayerOK(p)
    BY DEF IInv, ShapeOK, PaidInv, PaidOK
  <2>1. PICK k \in Keys : Miss(p, k)
    <3>1. \A q \in Processes : Step(q) /\ q # p => pc'[p] = pc[p]
      BY <2>0 DEF Step, Load, Hit, Miss, Answer, Put, OpenTmp, WriteTmp, Rename, Fails, Exit, Goto,
         TypeOK
    <3>2. Step(p)
      BY <3>1 DEF Next, Tick, Move
    <3>3. ~Load(p) /\ ~Answer(p) /\ ~Put(p) /\ ~WriteTmp(p) /\ ~Rename(p) /\ ~Fails(p) /\ ~Exit(p)
      BY <2>0 DEF Load, Answer, Put, WriteTmp, Rename, Fails, Exit, Goto, TypeOK
    <3>4. \A k \in Keys : ~Hit(p, k)
      BY DEF Hit
    <3>5. \A i \in Inodes : ~OpenTmp(p, i)
      BY DEF OpenTmp, Goto
    <3> QED BY <3>2, <3>3, <3>4, <3>5 DEF Step
  <2>2. call'[p].key = k /\ ~Fresh(mem[p], k, clock)
    BY <2>0, <2>1 DEF Miss, TypeOK
  <2>3. CASE paid[k] # Never
    <3>1. mem[p][k] # None /\ paid[k] <= mem[p][k].at
      BY <2>0, <2>3 DEF PayerOK, Recorded
    <3>2. ~(clock - mem[p][k].at < TTL)
      BY <2>2, <3>1 DEF Fresh, IsFresh
    <3>3. mem[p][k].at \in Int /\ paid[k] \in Int /\ clock \in Int /\ TTL \in Int
      <4>1. mem[p][k] \in Entry /\ paid[k] \in Time \cup {Never}
        BY <2>0, <3>1 DEF TypeOK, Store
      <4> QED BY <2>0, <4>1, CacheAssumption DEF TypeOK, Entry, Time, Never
    <3> QED BY <2>2, <3>1, <3>2, <3>3
  <2> QED BY <2>2, <2>3
<1> QED BY <1>1, <1>2, CacheInvariant, NextPaid, PTL DEF Spec, RateLimited

=============================================================================
