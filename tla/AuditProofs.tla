------------------------------ MODULE AuditProofs ------------------------------
(* Machine-checked theorems about Audit, for any finite number of requests *)
(* and any number of archive runs, days, entries, connections and failures.*)
EXTENDS Audit, TLAPS, FiniteSetTheorems, WellFoundedInduction

(* Who holds a connection, and who still has an entry to append.           *)
Transactions == {w \in Writers : Busy(w) /\ writer[w].mode = "transaction"}
Connected == {w \in Writers : writer[w].pc \in {"lock", "chain", "insert"}}
Appending == {w \in Writers : writer[w].pc \in {"append", "lock", "chain", "insert"}}

(* There is room for the entries under way; a run in the middle of a       *)
(* window has one.                                                         *)
Room == Len(log) + Cardinality(Appending) <= MaxEntries
Shape == \A r \in Runs : run[r].pc \in InWindow \cup {"failed"} => Pending(r) # {}
Typed == TypeOK /\ Room /\ Shape

(* The least day of a list that is not empty is on the list.               *)
LEMMA LeastDay ==
  ASSUME NEW S \in SUBSET Nat, S # {}
  PROVE  /\ (CHOOSE d \in S : \A e \in S : d <= e) \in S
         /\ \A e \in S : (CHOOSE d \in S : \A f \in S : d <= f) <= e
<1>1. \E x \in S : \A y \in S : ~ (<<y, x>> \in OpToRel(<, Nat))
  BY NatLessThanWellFounded, WFMin
<1>2. OpToRel(<, Nat) = {ss \in Nat \X Nat : ss[1] < ss[2]}
  BY DEF OpToRel
<1>3. PICK x \in S : \A y \in S : <<y, x>> \notin OpToRel(<, Nat)
  BY <1>1
<1>4. ASSUME NEW y \in S PROVE x <= y
  <2>1. ~ (y < x)
    BY <1>2, <1>3
  <2> QED
    BY <2>1
<1> QED
  BY <1>4

LEMMA WindowListed ==
  ASSUME TypeOK, NEW r \in Runs, Pending(r) # {}
  PROVE  Window(r) \in Pending(r) /\ Window(r) \in Days
<1>1. Pending(r) \in SUBSET Nat /\ Pending(r) \in SUBSET Days
  <2>1. Days \subseteq Nat
    BY AuditAssumption DEF Days
  <2> QED
    BY <2>1 DEF TypeOK, Pending, RunRows
<1>2. Window(r) \in Pending(r)
  BY <1>1, LeastDay DEF Window
<1> QED
  BY <1>1, <1>2

(* Counting sets of requests.                                              *)
LEMMA Counting ==
  ASSUME NEW S \in SUBSET Writers, NEW T \in SUBSET Writers
  PROVE  /\ Cardinality(S) \in Nat
         /\ T \subseteq S => Cardinality(T) <= Cardinality(S)
         /\ \A w \in Writers : T \subseteq S \cup {w} => Cardinality(T) <= Cardinality(S) + 1
         /\ \A w \in S : T \subseteq S \ {w} => Cardinality(T) <= Cardinality(S) - 1
<1>1. IsFiniteSet(S) /\ IsFiniteSet(T)
  BY FS_Subset, AuditAssumption
<1>2. Cardinality(S) \in Nat /\ Cardinality(T) \in Nat
  BY <1>1, FS_CardinalityType
<1>3. T \subseteq S => Cardinality(T) <= Cardinality(S)
  BY <1>1, FS_Subset
<1>4. ASSUME NEW w \in Writers, T \subseteq S \cup {w}
      PROVE  Cardinality(T) <= Cardinality(S) + 1
  <2>0. /\ IsFiniteSet(S \cup {w})
        /\ Cardinality(S \cup {w}) = IF w \in S THEN Cardinality(S) ELSE Cardinality(S) + 1
    BY <1>1, FS_AddElement
  <2>1. IsFiniteSet(S \cup {w}) /\ Cardinality(S \cup {w}) <= Cardinality(S) + 1
    BY <1>2, <2>0
  <2>2. Cardinality(T) <= Cardinality(S \cup {w}) /\ Cardinality(S \cup {w}) \in Nat
    BY <1>4, <2>1, FS_Subset, FS_CardinalityType
  <2> QED
    BY <1>2, <2>1, <2>2
<1>5. ASSUME NEW w \in S, T \subseteq S \ {w}
      PROVE  Cardinality(T) <= Cardinality(S) - 1
  <2>1. IsFiniteSet(S \ {w}) /\ Cardinality(S \ {w}) = Cardinality(S) - 1
    BY <1>1, FS_RemoveElement
  <2> QED
    BY <1>5, <2>1, FS_Subset
<1> QED
  BY <1>2, <1>3, <1>4, <1>5

LEMMA InUseSets == InUse = Cardinality(Transactions) + Cardinality(Connected)
BY DEF InUse, Transactions, Connected

LEMMA SameWriters ==
  ASSUME Typed, writer' = writer, log' = log
  PROVE  InUse' \in 0 .. Connections /\ Room'
<1>1. Transactions' = Transactions /\ Connected' = Connected /\ Appending' = Appending
  BY DEF Transactions, Connected, Appending, Busy
<1> QED
  BY <1>1 DEF Typed, TypeOK, InUse, Transactions, Connected, Room, Busy

LEMMA FewerWriters ==
  ASSUME Typed, Transactions' \subseteq Transactions, Connected' \subseteq Connected
  PROVE  InUse' \in 0 .. Connections
<1>1. /\ Transactions \in SUBSET Writers /\ Connected \in SUBSET Writers
      /\ Transactions' \in SUBSET Writers /\ Connected' \in SUBSET Writers
  BY DEF Transactions, Connected
<1>2. /\ Cardinality(Transactions) \in Nat /\ Cardinality(Connected) \in Nat
      /\ Cardinality(Transactions') \in Nat /\ Cardinality(Connected') \in Nat
      /\ Cardinality(Transactions') <= Cardinality(Transactions)
      /\ Cardinality(Connected') <= Cardinality(Connected)
  BY <1>1, Counting
<1>3. InUse' = Cardinality(Transactions') + Cardinality(Connected')
  BY InUseSets DEF InUse, Transactions, Connected
<1> QED
  BY <1>2, <1>3, InUseSets, AuditAssumption DEF Typed, TypeOK

LEMMA OneMoreWriter ==
  ASSUME Typed, ConnectionLeft, NEW w \in Writers,
         \/ Transactions' \subseteq Transactions \cup {w} /\ Connected' \subseteq Connected
         \/ Transactions' \subseteq Transactions /\ Connected' \subseteq Connected \cup {w}
  PROVE  InUse' \in 0 .. Connections
<1>1. /\ Transactions \in SUBSET Writers /\ Connected \in SUBSET Writers
      /\ Transactions' \in SUBSET Writers /\ Connected' \in SUBSET Writers
  BY DEF Transactions, Connected
<1>2. /\ Cardinality(Transactions) \in Nat /\ Cardinality(Connected) \in Nat
      /\ Cardinality(Transactions') \in Nat /\ Cardinality(Connected') \in Nat
  BY <1>1, Counting
<1>3. Cardinality(Transactions') + Cardinality(Connected')
        <= Cardinality(Transactions) + Cardinality(Connected) + 1
  <2>1. CASE Transactions' \subseteq Transactions \cup {w} /\ Connected' \subseteq Connected
    <3>1. /\ Cardinality(Transactions') <= Cardinality(Transactions) + 1
          /\ Cardinality(Connected') <= Cardinality(Connected)
      BY <1>1, <2>1, Counting
    <3> QED
      BY <1>2, <3>1
  <2>2. CASE Transactions' \subseteq Transactions /\ Connected' \subseteq Connected \cup {w}
    <3>1. /\ Cardinality(Transactions') <= Cardinality(Transactions)
          /\ Cardinality(Connected') <= Cardinality(Connected) + 1
      BY <1>1, <2>2, Counting
    <3> QED
      BY <1>2, <3>1
  <2> QED
    BY <2>1, <2>2
<1>4. InUse' = Cardinality(Transactions') + Cardinality(Connected')
  BY InUseSets DEF InUse, Transactions, Connected
<1> QED
  BY <1>2, <1>3, <1>4, InUseSets, AuditAssumption DEF ConnectionLeft

LEMMA RoomKept ==
  ASSUME Typed, log' = log, Appending' \subseteq Appending
  PROVE  Room'
<1>1. Appending \in SUBSET Writers /\ Appending' \in SUBSET Writers
  BY DEF Appending
<1>2. /\ Cardinality(Appending) \in Nat /\ Cardinality(Appending') \in Nat
      /\ Cardinality(Appending') <= Cardinality(Appending)
  BY <1>1, Counting
<1>3. Len(log) \in Nat
  BY DEF Typed, TypeOK
<1> QED
  BY <1>2, <1>3, AuditAssumption DEF Typed, Room

(* The part of TypeOK a writing request can change, the part a run can.    *)
ChainTypes ==
  /\ log \in Seq([prev : Nat, day : Days]) /\ Len(log) <= MaxEntries
  /\ hot \subseteq DOMAIN log
  /\ head \in 0 .. Len(log) /\ holder \in Writers \cup {None}
  /\ writer \in [Writers -> WriterRows]
RunTypes ==
  /\ manifest \in [Days -> ManifestRows]
  /\ object \in [Days -> SUBSET DOMAIN log]
  /\ run \in [Runs -> RunRows]
  /\ mixed \subseteq Days /\ hurt \subseteq Days

LEMMA TypeParts ==
  ASSUME today' \in Days, failures' \in 0 .. MaxFailures, ChainTypes', RunTypes',
         InUse' \in 0 .. Connections
  PROVE  TypeOK'
BY DEF TypeOK, ChainTypes, RunTypes

(* The steps of a request that only change its local variables and the     *)
(* lock.                                                                   *)
LEMMA WriterTypes ==
  ASSUME Typed, NEW w \in Writers, NEW v \in WriterRows,
         writer' = [writer EXCEPT ![w] = v], holder' \in Writers \cup {None},
         UNCHANGED <<today, hot, log, head, archive>>, failures' \in 0 .. MaxFailures,
         v.pc \in {"append", "lock", "chain", "insert"} =>
           writer[w].pc \in {"append", "lock", "chain", "insert"} \/ Room',
         \/ /\ v.pc \in {"lock", "chain", "insert"} => writer[w].pc \in {"lock", "chain", "insert"}
            /\ v.pc # "idle" /\ v.mode = "transaction" =>
                 Busy(w) /\ writer[w].mode = "transaction"
         \/ InUse' \in 0 .. Connections
  PROVE  Typed'
<1>1. /\ writer' \in [Writers -> WriterRows] /\ writer'[w] = v
      /\ \A e \in Writers : e # w => writer'[e] = writer[e]
  BY DEF Typed, TypeOK
<1>2. WriterRows' = WriterRows /\ RunRows' = RunRows
  BY DEF WriterRows, RunRows
<1>3. InUse' \in 0 .. Connections
  <2>1. CASE /\ v.pc \in {"lock", "chain", "insert"} =>
                  writer[w].pc \in {"lock", "chain", "insert"}
             /\ v.pc # "idle" /\ v.mode = "transaction" =>
                  Busy(w) /\ writer[w].mode = "transaction"
    <3>1. Transactions' \subseteq Transactions /\ Connected' \subseteq Connected
      BY <1>1, <2>1 DEF Transactions, Connected, Busy
    <3> QED
      BY <3>1, FewerWriters
  <2> QED
    BY <2>1
<1>4. Room'
  <2>1. CASE v.pc \in {"append", "lock", "chain", "insert"} =>
               writer[w].pc \in {"append", "lock", "chain", "insert"}
    <3>1. Appending' \subseteq Appending
      BY <1>1, <2>1 DEF Appending
    <3> QED
      BY <3>1, RoomKept
  <2> QED
    BY <2>1
<1>5. ChainTypes' /\ RunTypes' /\ Shape'
  BY <1>1, <1>2 DEF Typed, TypeOK, ChainTypes, RunTypes, Shape, archive, Pending
<1>6. today' \in Days
  BY DEF Typed, TypeOK
<1> QED
  BY <1>3, <1>4, <1>5, <1>6, TypeParts DEF Typed

LEMMA WriterSteps ==
  ASSUME Typed, NEW w \in Writers,
         WriterStep(w) \/ AppendFails(w) \/ \E mode \in Modes : Write(w, mode)
  PROVE  Typed'
<1>a. /\ writer \in [Writers -> WriterRows] /\ writer[w] \in WriterRows
      /\ today \in Days /\ holder \in Writers \cup {None} /\ head \in 0 .. Len(log)
      /\ failures \in 0 .. MaxFailures /\ MaxFailures \in Nat /\ Len(log) \in Nat
      /\ InUse \in 0 .. Connections /\ log \in Seq([prev : Nat, day : Days])
  BY AuditAssumption DEF Typed, TypeOK
<1>b. NoWriter \in WriterRows /\ NoWriter.pc = "idle"
  <2>1. 0 \in Days /\ 0 \in 0 .. Len(log)
    BY <1>a, AuditAssumption DEF Days
  <2> QED
    BY <2>1 DEF NoWriter, WriterRows, Modes
<1>c. InUse' \in 0 .. Connections \/ Typed
  OBVIOUS
<1>1. ASSUME NEW mode \in Modes, Write(w, mode) PROVE Typed'
  <2> DEFINE v == [NoWriter EXCEPT !.pc = "append", !.mode = mode, !.day = today]
  <2>1. v \in WriterRows /\ v.pc = "append" /\ v.mode = mode
    BY <1>a, <1>b DEF WriterRows
  <2>2. writer' = [writer EXCEPT ![w] = v]
    BY <1>1 DEF Write
  <2>3. UNCHANGED <<today, hot, log, head, holder, archive, failures>>
    BY <1>1 DEF Write
  <2> HIDE DEF v
  <2>4. /\ writer'[w] = v /\ \A e \in Writers : e # w => writer'[e] = writer[e]
    BY <1>a, <2>2
  <2>5. Room'
    <3> DEFINE B == {u \in Writers : Busy(u)}
    <3>1. Len(log) + Cardinality(B) < MaxEntries
      BY <1>1 DEF Write
    <3>2. Appending' \in SUBSET Writers /\ B \in SUBSET Writers
            /\ Appending' \subseteq B \cup {w}
      BY <2>4 DEF Appending, Busy
    <3>3. Cardinality(Appending') <= Cardinality(B) + 1 /\ Cardinality(B) \in Nat
            /\ Cardinality(Appending') \in Nat
      BY <3>2, Counting
    <3> QED
      BY <1>a, <2>3, <3>1, <3>3, AuditAssumption DEF Room
  <2>6. InUse' \in 0 .. Connections
    <3>1. CASE mode = "transaction"
      <4>1. Transactions' \subseteq Transactions \cup {w} /\ Connected' \subseteq Connected
        BY <2>1, <2>4 DEF Transactions, Connected, Busy
      <4> QED
        BY <1>1, <3>1, <4>1, OneMoreWriter DEF Write
    <3>2. CASE mode # "transaction"
      <4>1. Transactions' \subseteq Transactions /\ Connected' \subseteq Connected
        BY <2>1, <2>4, <3>2 DEF Transactions, Connected, Busy
      <4> QED
        BY <4>1, FewerWriters
    <3> QED
      BY <3>1, <3>2
  <2> QED
    BY <1>a, <2>1, <2>2, <2>3, <2>5, <2>6, WriterTypes
<1>2. CASE Connect(w)
  <2> DEFINE v == [writer[w] EXCEPT !.pc = "lock"]
  <2>1. v \in WriterRows /\ v.pc = "lock" /\ v.mode = writer[w].mode
    BY <1>a DEF WriterRows
  <2>2. writer' = [writer EXCEPT ![w] = v] /\ writer[w].pc = "append"
    BY <1>2 DEF Connect
  <2>3. UNCHANGED <<today, hot, log, head, holder, archive, failures>>
    BY <1>2 DEF Connect
  <2> HIDE DEF v
  <2>4. /\ writer'[w] = v /\ \A e \in Writers : e # w => writer'[e] = writer[e]
    BY <1>a, <2>2
  <2>5. Transactions' \subseteq Transactions /\ Connected' \subseteq Connected \cup {w}
    BY <2>1, <2>2, <2>4 DEF Transactions, Connected, Busy
  <2>6. InUse' \in 0 .. Connections
    BY <1>2, <2>5, OneMoreWriter DEF Connect
  <2> QED
    BY <1>a, <2>1, <2>2, <2>3, <2>6, WriterTypes
<1>3. CASE Lock(w)
  <2> DEFINE v == [writer[w] EXCEPT !.pc = "chain"]
  <2>1. v \in WriterRows /\ v.pc = "chain" /\ v.mode = writer[w].mode
    BY <1>a DEF WriterRows
  <2>2. writer' = [writer EXCEPT ![w] = v] /\ writer[w].pc = "lock" /\ holder' = w
    BY <1>3 DEF Lock
  <2>3. UNCHANGED <<today, hot, log, head, archive, failures>>
    BY <1>3 DEF Lock
  <2> HIDE DEF v
  <2> QED
    BY <1>a, <2>1, <2>2, <2>3, WriterTypes DEF Busy
<1>4. CASE ReadHead(w)
  <2> DEFINE v == [writer[w] EXCEPT !.pc = "insert", !.prev = head]
  <2>1. v \in WriterRows /\ v.pc = "insert" /\ v.mode = writer[w].mode
    BY <1>a DEF WriterRows
  <2>2. writer' = [writer EXCEPT ![w] = v] /\ writer[w].pc = "chain"
    BY <1>4, <1>a DEF ReadHead, WriterRows
  <2>3. UNCHANGED <<today, hot, log, head, holder, archive, failures>>
    BY <1>4 DEF ReadHead
  <2> HIDE DEF v
  <2> QED
    BY <1>a, <2>1, <2>2, <2>3, WriterTypes DEF Busy
<1>5. CASE Insert(w)
  <2> DEFINE entry == [prev |-> writer[w].prev, day |-> writer[w].day]
             v == IF writer[w].mode = "transaction"
                  THEN [writer[w] EXCEPT !.pc = "commit"] ELSE NoWriter
  <2>1. entry \in [prev : Nat, day : Days]
    BY <1>a DEF WriterRows
  <2>2. log' = Append(log, entry)
    BY <1>5 DEF Insert
  <2>3. /\ log' \in Seq([prev : Nat, day : Days]) /\ Len(log') = Len(log) + 1
        /\ DOMAIN log \subseteq DOMAIN log' /\ Len(log') \in DOMAIN log'
    BY <1>a, <2>1, <2>2
  <2>4. v \in WriterRows /\ v.pc \in {"idle", "commit"}
          /\ (v.pc # "idle" => v.mode = writer[w].mode)
    BY <1>a, <1>b DEF WriterRows
  <2>5. writer' = [writer EXCEPT ![w] = v] /\ writer[w].pc = "insert"
    BY <1>5 DEF Insert, Release
  <2>6. UNCHANGED <<today, archive, failures>> /\ holder' = None /\ head' = Len(log')
          /\ hot' = hot \cup {Len(log')}
    BY <1>5 DEF Insert
  <2> HIDE DEF v, entry
  <2>7. /\ writer' \in [Writers -> WriterRows] /\ writer'[w] = v
        /\ \A e \in Writers : e # w => writer'[e] = writer[e]
    BY <1>a, <2>4, <2>5
  <2>8. WriterRows \subseteq WriterRows' /\ RunRows \subseteq RunRows'
    <3>1. 0 .. Len(log) \subseteq 0 .. Len(log')
      BY <1>a, <2>3
    <3> QED
      BY <2>3, <3>1 DEF WriterRows, RunRows
  <2>9. /\ Transactions' \subseteq Transactions /\ Connected' \subseteq Connected
        /\ Appending' \subseteq Appending \ {w} /\ w \in Appending
        /\ Appending \in SUBSET Writers /\ Appending' \in SUBSET Writers
    BY <2>4, <2>5, <2>7 DEF Transactions, Connected, Appending, Busy
  <2>10. Room' /\ Len(log') <= MaxEntries
    <3>1. Cardinality(Appending') <= Cardinality(Appending) - 1
            /\ Cardinality(Appending) \in Nat /\ Cardinality(Appending') \in Nat
      BY <2>9, Counting
    <3> QED
      BY <1>a, <2>3, <3>1, AuditAssumption DEF Typed, Room
  <2>11. ChainTypes'
    <3>1. hot' \subseteq DOMAIN log'
      BY <2>3, <2>6 DEF Typed, TypeOK
    <3>2. head' \in 0 .. Len(log')
      BY <1>a, <2>3, <2>6
    <3> QED
      BY <2>3, <2>6, <2>7, <2>8, <2>10, <3>1, <3>2 DEF ChainTypes
  <2>12. RunTypes' /\ Shape'
    BY <2>3, <2>6, <2>8 DEF Typed, TypeOK, RunTypes, Shape, archive, Pending
  <2>13. InUse' \in 0 .. Connections
    BY <2>9, FewerWriters
  <2> QED
    BY <1>a, <2>6, <2>10, <2>11, <2>12, <2>13, TypeParts DEF Typed
<1>6. CASE End(w)
  <2>1. writer' = [writer EXCEPT ![w] = NoWriter]
          /\ UNCHANGED <<today, hot, log, head, holder, archive, failures>>
    BY <1>6 DEF End, Release
  <2> QED
    BY <1>a, <1>b, <2>1, WriterTypes
<1>7. CASE AppendFails(w) \/ PoolTimeout(w)
  <2>1. writer' = [writer EXCEPT ![w] = NoWriter] /\ holder' \in Writers \cup {None}
          /\ UNCHANGED <<today, hot, log, head, archive>> /\ failures' \in 0 .. MaxFailures
    BY <1>a, <1>7 DEF AppendFails, PoolTimeout, Throw, Release
  <2> QED
    BY <1>a, <1>b, <2>1, WriterTypes
<1> QED
  BY <1>1, <1>2, <1>3, <1>4, <1>5, <1>6, <1>7 DEF WriterStep

(* A step of an archive run: it replaces its local variables by v.         *)
LEMMA RunFrame ==
  ASSUME Typed, UNCHANGED <<today, chain>>, hot' \subseteq hot,
         failures' \in 0 .. MaxFailures, NEW r \in Runs, NEW v \in RunRows,
         run' = [run EXCEPT ![r] = v],
         v.pc \in InWindow \cup {"failed"} => v.todo # {},
         manifest' \in [Days -> ManifestRows],
         object' \in [Days -> SUBSET DOMAIN log],
         mixed' \subseteq Days, hurt' \subseteq Days
  PROVE  Typed'
<1>1. /\ run' \in [Runs -> RunRows] /\ run'[r] = v
      /\ \A q \in Runs : q # r => run'[q] = run[q]
  BY DEF Typed, TypeOK
<1>2. WriterRows' = WriterRows /\ RunRows' = RunRows
  BY DEF chain, WriterRows, RunRows
<1>3. ChainTypes' /\ RunTypes'
  BY <1>1, <1>2 DEF Typed, TypeOK, chain, ChainTypes, RunTypes
<1>4. Shape'
  BY <1>1 DEF Typed, Shape, Pending
<1>5. today' \in Days /\ InUse' \in 0 .. Connections /\ Room'
  BY SameWriters DEF Typed, TypeOK, chain
<1> QED
  BY <1>3, <1>4, <1>5, TypeParts DEF Typed

LEMMA NoRunType == NoRun \in RunRows /\ NoRun.pc = "idle" /\ NoRun.todo = {} /\ NoRun.rows = {}
<1>1. 0 \in Days
  BY AuditAssumption DEF Days
<1> QED
  BY <1>1 DEF NoRun, RunRows

LEMMA RunSteps ==
  ASSUME Typed, NEW r \in Runs,
         StartRun(r) \/ RunStep(r) \/ StepFails(r) \/ RunCrashes(r)
  PROVE  Typed'
<1>a. /\ run \in [Runs -> RunRows] /\ run[r] \in RunRows /\ today \in Days
      /\ manifest \in [Days -> ManifestRows] /\ object \in [Days -> SUBSET DOMAIN log]
      /\ mixed \subseteq Days /\ hurt \subseteq Days
      /\ failures \in 0 .. MaxFailures /\ MaxFailures \in Nat
      /\ hot \subseteq DOMAIN log
  BY AuditAssumption DEF Typed, TypeOK
<1>b. run[r].pc \in InWindow \cup {"failed"} => Pending(r) # {}
  BY DEF Typed, Shape
<1>c. Pending(r) # {} => Window(r) \in Days
  BY WindowListed DEF Typed
<1>1. CASE StartRun(r)
  <2> DEFINE v == [NoRun EXCEPT !.pc = "window", !.now = today, !.todo = Listed(today),
                     !.expired = \E i \in hot : Expired(DayOf(i), today)]
  <2>1. Listed(today) \in SUBSET Days
    BY DEF Listed, FirstOf, Candidates
  <2>2. v \in RunRows /\ v.pc = "window"
    BY <1>a, <2>1, NoRunType DEF RunRows
  <2>3. run' = [run EXCEPT ![r] = v]
    BY <1>1 DEF StartRun
  <2>4. mixed' \subseteq Days /\ UNCHANGED <<today, hot, chain, manifest, object, hurt, failures>>
    BY <1>1, <1>a, <2>1 DEF StartRun
  <2> HIDE DEF v
  <2> QED
    BY <1>a, <2>2, <2>3, <2>4, RunFrame DEF InWindow
<1>2. ASSUME NEW pc \in InWindow \cup {"failed"}, Goto(r, pc), Pending(r) # {}
      PROVE  \E v \in RunRows : /\ run' = [run EXCEPT ![r] = v]
                                /\ v.pc \in InWindow \cup {"failed"} => v.todo # {}
  <2> DEFINE v == [run[r] EXCEPT !.pc = pc]
  <2>1. v \in RunRows /\ v.todo # {}
    BY <1>a, <1>2 DEF RunRows, Pending
  <2>2. run' = [run EXCEPT ![r] = v]
    BY <1>2 DEF Goto
  <2> QED
    BY <2>1, <2>2
<1>3. ASSUME NextWindow(r)
      PROVE  \E v \in RunRows : /\ run' = [run EXCEPT ![r] = v]
                                /\ v.pc \in InWindow \cup {"failed"} => v.todo # {}
  <2> DEFINE v == [run[r] EXCEPT !.pc = "window", !.todo = run[r].todo \ {Window(r)},
                                 !.seen = FALSE, !.rows = {}]
  <2>1. v \in RunRows /\ v.pc = "window"
    BY <1>a DEF RunRows
  <2>2. run' = [run EXCEPT ![r] = v]
    BY <1>3 DEF NextWindow
  <2> HIDE DEF v
  <2> QED
    BY <2>1, <2>2 DEF InWindow
<1>4. CASE FindManifest(r)
  <2> DEFINE v == [run[r] EXCEPT !.pc = "manifest",
                                 !.seen = manifest[Window(r)].status # "NONE"]
  <2>1. v \in RunRows /\ v.todo # {}
    BY <1>a, <1>4 DEF RunRows, FindManifest, InWindow
  <2>2. run' = [run EXCEPT ![r] = v]
    BY <1>4 DEF FindManifest
  <2> HIDE DEF v
  <2> QED
    BY <1>4, <1>a, <2>1, <2>2, RunFrame DEF FindManifest
<1>5. CASE WriteManifest(r)
  <2>1. Pending(r) # {} /\ Goto(r, "read")
    BY <1>5, <1>b DEF WriteManifest, InWindow
  <2>2. manifest' \in [Days -> ManifestRows]
    BY <1>5, <1>a, <1>c, <2>1 DEF WriteManifest, ManifestRows
  <2> QED
    BY <1>5, <1>a, <1>2, <2>1, <2>2, RunFrame DEF WriteManifest, InWindow
<1>6. CASE ManifestExists(r)
  <2>1. Pending(r) # {}
    BY <1>6, <1>b DEF ManifestExists, InWindow
  <2> QED
    BY <1>6, <1>a, <1>2, <2>1, RunFrame DEF ManifestExists
<1>7. CASE ReadChunk(r)
  <2>1. Pending(r) # {}
    BY <1>7, <1>b DEF ReadChunk, InWindow
  <2>2. CASE After(r) # {}
    <3> DEFINE v == [run[r] EXCEPT !.rows = run[r].rows \cup FirstOf(After(r), Chunk)]
    <3>1. FirstOf(After(r), Chunk) \subseteq DOMAIN log
      BY <1>a DEF FirstOf, After, RowsOf
    <3>2. v \in RunRows /\ v.todo # {}
      BY <1>a, <2>1, <3>1 DEF RunRows, Pending
    <3>3. run' = [run EXCEPT ![r] = v]
      BY <1>7, <2>2 DEF ReadChunk
    <3> HIDE DEF v
    <3> QED
      BY <1>7, <1>a, <3>2, <3>3, RunFrame DEF ReadChunk
  <2>3. CASE After(r) = {}
    <3>1. \E pc \in InWindow : Goto(r, pc)
      BY <1>7, <2>3 DEF ReadChunk, InWindow
    <3> QED
      BY <1>7, <1>a, <1>2, <2>1, <3>1, RunFrame DEF ReadChunk
  <2> QED
    BY <2>2, <2>3
<1>8. CASE Noop(r)
  <2>1. manifest' \in [Days -> ManifestRows]
    BY <1>8, <1>a, <1>b, <1>c DEF Noop, ManifestRows, InWindow
  <2> QED
    BY <1>8, <1>a, <1>3, <2>1, RunFrame DEF Noop
<1>9. CASE Upload(r)
  <2> DEFINE v == [run[r] EXCEPT !.pc = "complete", !.rows = {}]
  <2>1. Pending(r) # {}
    BY <1>9, <1>b DEF Upload, InWindow
  <2>2. v \in RunRows /\ v.todo # {}
    BY <1>a, <2>1 DEF RunRows, InWindow, Pending
  <2>3. run' = [run EXCEPT ![r] = v]
    BY <1>9 DEF Upload
  <2>4. object' \in [Days -> SUBSET DOMAIN log]
    BY <1>9, <1>a, <1>c, <2>1 DEF Upload, RunRows
  <2> HIDE DEF v
  <2> QED
    BY <1>9, <1>a, <2>2, <2>3, <2>4, RunFrame DEF Upload
<1>10. CASE Complete(r)
  <2>1. Pending(r) # {} /\ Goto(r, "prune")
    BY <1>10, <1>b DEF Complete, InWindow
  <2>2. manifest' \in [Days -> ManifestRows]
    BY <1>10, <1>a, <1>c, <2>1 DEF Complete, ManifestRows
  <2> QED
    BY <1>10, <1>a, <1>2, <2>1, <2>2, RunFrame DEF Complete, InWindow
<1>11. CASE Prune(r)
  <2>1. Pending(r) # {} /\ Goto(r, "pruned")
    BY <1>11, <1>b DEF Prune, InWindow
  <2> QED
    BY <1>11, <1>a, <1>2, <2>1, RunFrame DEF Prune, InWindow
<1>12. CASE MarkPruned(r)
  <2>1. manifest' \in [Days -> ManifestRows]
    BY <1>12, <1>a, <1>b, <1>c DEF MarkPruned, ManifestRows, InWindow
  <2> QED
    BY <1>12, <1>a, <1>3, <2>1, RunFrame DEF MarkPruned
<1>13. CASE StepFails(r)
  <2>1. Pending(r) # {} /\ Goto(r, "failed")
    BY <1>13, <1>b DEF StepFails
  <2>2. hurt' \subseteq Days /\ failures' \in 0 .. MaxFailures
    BY <1>13, <1>a, <1>c, <2>1 DEF StepFails
  <2> QED
    BY <1>13, <1>a, <1>2, <2>1, <2>2, RunFrame DEF StepFails
<1>14. CASE WriteFailed(r)
  <2>1. manifest' \in [Days -> ManifestRows]
    BY <1>14, <1>a, <1>b, <1>c DEF WriteFailed, ManifestRows
  <2> QED
    BY <1>14, <1>a, <1>3, <2>1, RunFrame DEF WriteFailed
<1>15. CASE DeleteExpired(r)
  <2>1. hot' \subseteq hot /\ run' = [run EXCEPT ![r] = NoRun]
    BY <1>15 DEF DeleteExpired
  <2> QED
    BY <1>15, <1>a, <2>1, NoRunType, RunFrame DEF DeleteExpired, InWindow
<1>16. CASE RunCrashes(r)
  <2>1. run' = [run EXCEPT ![r] = NoRun] /\ failures' \in 0 .. MaxFailures
    BY <1>16, <1>a DEF RunCrashes
  <2>2. hurt' \subseteq Days
    BY <1>16, <1>a DEF RunCrashes, Pending, RunRows
  <2> QED
    BY <1>16, <1>a, <2>1, <2>2, NoRunType, RunFrame DEF RunCrashes, InWindow
<1> QED
  BY <1>1, <1>4, <1>5, <1>6, <1>7, <1>8, <1>9, <1>10, <1>11, <1>12, <1>13, <1>14, <1>15, <1>16
     DEF RunStep

LEMMA TypedStep == Typed /\ [Next]_vars => Typed'
<1> SUFFICES ASSUME Typed, [Next]_vars PROVE Typed'
  OBVIOUS
<1>1. CASE NewDay
  <2>1. today' \in Days /\ UNCHANGED <<hot, chain, archive, failures>>
    BY <1>1, AuditAssumption DEF NewDay, Typed, TypeOK, Days
  <2>2. WriterRows' = WriterRows /\ RunRows' = RunRows
    BY <2>1 DEF chain, WriterRows, RunRows
  <2>3. InUse' \in 0 .. Connections /\ Room'
    BY <2>1, SameWriters DEF chain
  <2> QED
    BY <2>1, <2>2, <2>3, TypeParts
       DEF Typed, TypeOK, ChainTypes, RunTypes, Shape, Pending, chain, archive
<1>2. CASE UNCHANGED vars
  <2>1. WriterRows' = WriterRows /\ RunRows' = RunRows
    BY <1>2 DEF vars, chain, WriterRows, RunRows
  <2>2. InUse' \in 0 .. Connections /\ Room'
    BY <1>2, SameWriters DEF vars, chain
  <2> QED
    BY <1>2, <2>1, <2>2, TypeParts
       DEF Typed, TypeOK, ChainTypes, RunTypes, Shape, Pending, vars, chain, archive
<1> QED
  BY <1>1, <1>2, WriterSteps, RunSteps DEF Next

LEMMA TypedInit == Init => Typed
<1> SUFFICES ASSUME Init PROVE Typed
  OBVIOUS
<1> USE AuditAssumption
<1>1. 0 \in Days /\ log = <<>> /\ Len(log) = 0 /\ log \in Seq([prev : Nat, day : Days])
  BY DEF Init, Days
<1>2. NoWriter \in WriterRows /\ NoWriter.pc = "idle"
  BY <1>1 DEF NoWriter, WriterRows, Modes
<1>3. Transactions = {} /\ Connected = {} /\ Appending = {}
  BY <1>2 DEF Init, Transactions, Connected, Appending, Busy
<1>4. InUse = 0 /\ Room
  BY <1>1, <1>3, InUseSets, FS_EmptySet DEF Room
<1>5. manifest \in [Days -> ManifestRows]
  BY DEF Init, ManifestRows
<1>6. TypeOK
  BY <1>1, <1>2, <1>4, <1>5, NoRunType DEF Init, TypeOK
<1>7. Shape
  BY NoRunType DEF Init, Shape, InWindow
<1> QED
  BY <1>4, <1>6, <1>7 DEF Typed

(* Every reachable state has the types of TypeOK; no more connections are  *)
(* taken than there are.                                                   *)
THEOREM TypeCorrect == Spec => []TypeOK
<1>1. Spec => []Typed
  BY TypedInit, TypedStep, PTL DEF Spec
<1>2. Typed => TypeOK
  BY DEF Typed
<1> QED
  BY <1>1, <1>2, PTL

-------------------------------------------------------------------------------
(* The hash chain does not fork and has no gap: every entry carries the    *)
(* hash of the one inserted before it, and the chain state names the last  *)
(* one (appendAuditLog).                                                   *)
ChainLinear ==
  /\ head = Len(log)
  /\ \A i \in DOMAIN log : log[i].prev = i - 1

(* The chain: only the holder of the lock has read the head, and the head  *)
(* it read is still the last entry.                                        *)
Chained ==
  /\ ChainLinear
  /\ \A w \in Writers :
       /\ writer[w].pc \in {"chain", "insert"} => holder = w
       /\ writer[w].pc = "insert" => writer[w].prev = head

(* Time: a request appends under the day of its beginning, a run lists     *)
(* days that are past the hot tier for good.                               *)
Timely ==
  /\ \A w \in Writers : Busy(w) => writer[w].day <= today /\ today <= writer[w].day + 1
  /\ \A r \in Runs : /\ run[r].now <= today
                     /\ \A d \in Pending(r) : Cold(d, run[r].now)

(* One day: its entries are all in the table, or all in the file; a run    *)
(* that works on the day alone has read a beginning of them, then all of   *)
(* them, and deletes them when the file holds them all.                    *)
Filed(d) == \A i \in DOMAIN log : DayOf(i) = d => i \in object[d]
AllHot(d) == \A i \in DOMAIN log : DayOf(i) = d => i \in hot
Whole(d) == AllHot(d) \/ (Cold(d, today) /\ RowsOf(d) = {} /\ Filed(d))
Worked(r, d) ==
  /\ run[r].pc = "read" =>
       /\ run[r].rows \subseteq RowsOf(d)
       /\ \A i \in RowsOf(d), j \in run[r].rows : i <= j => i \in run[r].rows
  /\ run[r].pc = "upload" => run[r].rows = RowsOf(d) /\ RowsOf(d) # {}
  /\ run[r].pc \in {"complete", "prune"} => Filed(d)
At(r, d) == d \in Pending(r) /\ Window(r) = d
Fresh(r) == run[r].pc \in {"idle", "window", "manifest"} => run[r].rows = {}
Alone(d) ==
  d \notin mixed => \A r, q \in Runs : d \in Pending(r) /\ d \in Pending(q) => r = q
Archived(d) ==
  d \notin mixed /\ ~Expired(d, today) =>
    Whole(d) /\ \A r \in Runs : At(r, d) => Worked(r, d)

(* One day without failures: it is pruned only once it is completed.       *)
Shown(d) ==
  d \notin mixed \cup hurt /\ ~Expired(d, today) =>
    /\ \A r \in Runs : d \in Pending(r) =>
         \/ At(r, d) /\ run[r].pc = "pruned"
         \/ AllHot(d) /\ RowsOf(d) # {}
    /\ \A r \in Runs : At(r, d) =>
         /\ run[r].pc # "failed"
         /\ run[r].pc = "manifest" /\ ~run[r].seen => manifest[d].status = "NONE"
         /\ run[r].pc \in {"prune", "pruned"} =>
              manifest[d].status = "COMPLETED" /\ manifest[d].key
    /\ Gone(d) => manifest[d].status = "COMPLETED" /\ manifest[d].key

Inv ==
  /\ Chained /\ Timely /\ \A r \in Runs : Fresh(r)
  /\ \A d \in Days : Alone(d) /\ Archived(d) /\ Shown(d)

(* The chain under every step.                                             *)
LEMMA ChainedStep == Typed /\ Chained /\ [Next]_vars => Chained'
<1> SUFFICES ASSUME Typed, Chained, [Next]_vars PROVE Chained'
  OBVIOUS
<1>a. /\ writer \in [Writers -> WriterRows] /\ Len(log) \in Nat
      /\ log \in Seq([prev : Nat, day : Days]) /\ None \notin Writers
      /\ NoWriter.pc = "idle" /\ holder \in Writers \cup {None}
  BY AuditAssumption DEF Typed, TypeOK, NoWriter
<1>1. ASSUME NEW w \in Writers, NEW mode \in Modes, Write(w, mode) PROVE Chained'
  BY <1>1, <1>a DEF Write, Chained, ChainLinear, Busy
<1>2. ASSUME NEW w \in Writers, Connect(w) PROVE Chained'
  BY <1>2, <1>a DEF Connect, Chained, ChainLinear, WriterRows
<1>3. ASSUME NEW w \in Writers, Lock(w) PROVE Chained'
  BY <1>3, <1>a DEF Lock, Free, Chained, ChainLinear, WriterRows
<1>4. ASSUME NEW w \in Writers, ReadHead(w) PROVE Chained'
  <2>1. /\ writer'[w].pc = "insert" /\ writer'[w].prev = head /\ writer[w].pc = "chain"
        /\ \A v \in Writers : v # w => writer'[v] = writer[v]
        /\ UNCHANGED <<log, head, holder>>
    BY <1>4, <1>a DEF ReadHead, WriterRows
  <2> QED
    BY <2>1 DEF Chained, ChainLinear
<1>5. ASSUME NEW w \in Writers, Insert(w) PROVE Chained'
  <2>1. /\ writer[w].pc = "insert" /\ writer[w].prev = head /\ holder = w
        /\ head = Len(log) /\ head' = Len(log') /\ holder' = None
        /\ log' = Append(log, [prev |-> writer[w].prev, day |-> writer[w].day])
    BY <1>5 DEF Insert, Chained, ChainLinear
  <2>2. [prev |-> writer[w].prev, day |-> writer[w].day] \in [prev : Nat, day : Days]
    BY <1>a DEF WriterRows
  <2>3. /\ Len(log') = Len(log) + 1 /\ DOMAIN log' = 1 .. Len(log) + 1
        /\ DOMAIN log = 1 .. Len(log)
        /\ \A i \in 1 .. Len(log) : log'[i] = log[i]
        /\ log'[Len(log) + 1].prev = writer[w].prev
    BY <1>a, <2>1, <2>2
  <2>4. \A i \in DOMAIN log' : log'[i].prev = i - 1
    BY <1>a, <2>1, <2>3 DEF Chained, ChainLinear
  <2>5. /\ writer'[w].pc \in {"idle", "commit"}
        /\ \A v \in Writers : v # w => writer'[v] = writer[v]
    BY <1>5, <1>a DEF Insert, Release, WriterRows
  <2>6. \A v \in Writers : writer'[v].pc \notin {"chain", "insert"}
    BY <1>a, <2>1, <2>5 DEF Chained
  <2> QED
    BY <2>1, <2>4, <2>6 DEF Chained, ChainLinear
<1>6. ASSUME NEW w \in Writers, End(w) PROVE Chained'
  BY <1>6, <1>a DEF End, Release, Chained, ChainLinear
<1>7. ASSUME NEW w \in Writers, AppendFails(w) \/ PoolTimeout(w) PROVE Chained'
  BY <1>7, <1>a DEF AppendFails, PoolTimeout, Throw, Release, Chained, ChainLinear
<1>8. ASSUME UNCHANGED chain PROVE Chained'
  BY <1>8 DEF chain, Chained, ChainLinear
<1>9. ASSUME NEW r \in Runs, StartRun(r) \/ RunStep(r) \/ StepFails(r) \/ RunCrashes(r)
      PROVE  UNCHANGED chain
  BY <1>9 DEF StartRun, RunStep, StepFails, RunCrashes, FindManifest, WriteManifest,
     ManifestExists, ReadChunk, Noop, Upload, Complete, Prune, MarkPruned, WriteFailed,
     DeleteExpired
<1> QED
  BY <1>1, <1>2, <1>3, <1>4, <1>5, <1>6, <1>7, <1>8, <1>9 DEF Next, WriterStep, NewDay, vars

(* The local variables of a run after each of its steps.                   *)
LEMMA RunMoves ==
  ASSUME Typed, NEW r \in Runs, RunStep(r) \/ StepFails(r) \/ RunCrashes(r)
  PROVE  /\ \A q \in Runs : q # r => run'[q] = run[q]
         /\ Pending(r)' \subseteq Pending(r)
         /\ run'[r].now \in {run[r].now, 0}
         /\ UNCHANGED <<today, chain, mixed>>
<1>a. run \in [Runs -> RunRows] /\ NoRun.todo = {} /\ NoRun.now = 0
  BY NoRunType DEF Typed, TypeOK, NoRun
<1>1. UNCHANGED <<today, chain, mixed>>
  BY DEF RunStep, StepFails, RunCrashes, FindManifest, WriteManifest, ManifestExists, ReadChunk,
     Noop, Upload, Complete, Prune, MarkPruned, WriteFailed, DeleteExpired
<1>2. CASE FindManifest(r) \/ WriteManifest(r) \/ ManifestExists(r) \/ ReadChunk(r) \/ Upload(r)
           \/ Complete(r) \/ Prune(r) \/ StepFails(r)
  BY <1>a, <1>1, <1>2 DEF FindManifest, WriteManifest, ManifestExists, ReadChunk, Upload, Complete,
     Prune, StepFails, Goto, Pending, RunRows
<1>3. CASE Noop(r) \/ MarkPruned(r) \/ WriteFailed(r)
  BY <1>a, <1>1, <1>3 DEF Noop, MarkPruned, WriteFailed, NextWindow, Pending, RunRows
<1>4. CASE DeleteExpired(r) \/ RunCrashes(r)
  BY <1>a, <1>1, <1>4 DEF DeleteExpired, RunCrashes, Pending
<1> QED
  BY <1>2, <1>3, <1>4 DEF RunStep

(* Time, and that a day is in one hand only, under every step.             *)
LEMMA TimelyStep ==
  ASSUME Typed, Typed', Timely, [Next]_vars
  PROVE  Timely'
<1>a. /\ writer \in [Writers -> WriterRows] /\ run \in [Runs -> RunRows] /\ today \in Nat
      /\ HotDays \in Nat
      /\ \A r \in Runs : run[r].now \in Nat /\ Pending(r) \subseteq Nat
      /\ \A w \in Writers : writer[w].day \in Nat
  <2>1. Days \subseteq Nat
    BY AuditAssumption DEF Days
  <2> QED
    BY <2>1, AuditAssumption DEF Typed, TypeOK, WriterRows, RunRows, Pending
<1>1. ASSUME NEW w \in Writers,
             WriterStep(w) \/ AppendFails(w) \/ \E mode \in Modes : Write(w, mode)
      PROVE  Timely'
  <2>1. UNCHANGED <<today, run>> /\ \A v \in Writers : v # w => writer'[v] = writer[v]
    BY <1>1, <1>a DEF WriterStep, AppendFails, Write, Connect, Lock, ReadHead, Insert, End,
       PoolTimeout, Throw, Release, archive
  <2>2. CASE \E mode \in Modes : Write(w, mode)
    <3>1. writer'[w].day = today
      BY <2>2, <1>a DEF Write
    <3> QED
      BY <1>a, <2>1, <3>1 DEF Timely, Busy, Pending, Cold
  <2>3. CASE WriterStep(w) \/ AppendFails(w)
    <3>1. Busy(w)' => Busy(w) /\ writer'[w].day = writer[w].day
      BY <2>3, <1>a DEF WriterStep, AppendFails, Connect, Lock, ReadHead, Insert, End,
         PoolTimeout, Starved, Throw, Release, Busy, WriterRows, NoWriter
    <3> QED
      BY <1>a, <2>1, <3>1 DEF Timely, Busy, Pending, Cold
  <2> QED
    BY <1>1, <2>2, <2>3
<1>2. ASSUME NEW r \in Runs, StartRun(r) PROVE Timely'
  <2>1. /\ run'[r].now = today /\ Pending(r)' = Listed(today)
        /\ \A q \in Runs : q # r => run'[q] = run[q]
        /\ UNCHANGED <<today, writer>>
    BY <1>2, <1>a DEF StartRun, Pending, chain
  <2>2. \A d \in Listed(today) : Cold(d, today)
    BY DEF Listed, FirstOf, Candidates
  <2> QED
    BY <1>a, <2>1, <2>2 DEF Timely, Pending, Cold, Busy
<1>3. ASSUME NEW r \in Runs, RunStep(r) \/ StepFails(r) \/ RunCrashes(r) PROVE Timely'
  <2>1. /\ \A q \in Runs : q # r => run'[q] = run[q]
        /\ Pending(r)' \subseteq Pending(r)
        /\ run'[r].now \in {run[r].now, 0}
        /\ UNCHANGED <<today, writer>>
    BY <1>3, RunMoves DEF chain
  <2>2. run'[r].now = run[r].now \/ Pending(r)' = {}
    BY <1>3, <1>a, NoRunType DEF RunStep, StepFails, RunCrashes, FindManifest, WriteManifest,
       ManifestExists, ReadChunk, Noop, Upload, Complete, Prune, MarkPruned, WriteFailed,
       DeleteExpired, Goto, NextWindow, Pending, RunRows
  <2> QED
    BY <1>a, <2>1, <2>2 DEF Timely, Pending, Cold, Busy
<1>4. CASE NewDay
  <2>1. /\ today' = today + 1 /\ UNCHANGED <<writer, run>>
        /\ \A w \in Writers : Busy(w) => writer[w].day = today
    BY <1>4 DEF NewDay, chain, archive
  <2> QED
    BY <1>a, <2>1 DEF Timely, Pending, Cold, Busy
<1>5. CASE UNCHANGED vars
  BY <1>5 DEF vars, chain, archive, Timely, Pending, Cold, Busy
<1> QED
  BY <1>1, <1>2, <1>3, <1>4, <1>5 DEF Next

(* A run that has not begun to read has read nothing; a day that no two    *)
(* runs had on their lists has one run at most.                            *)
LEMMA RunLocalStep ==
  ASSUME Typed, \A r \in Runs : Fresh(r), \A d \in Days : Alone(d), [Next]_vars
  PROVE  (\A r \in Runs : Fresh(r)') /\ (\A d \in Days : Alone(d)')
<1>a. run \in [Runs -> RunRows]
  BY DEF Typed, TypeOK
<1>1. ASSUME UNCHANGED <<run, mixed>>
      PROVE  (\A r \in Runs : Fresh(r)') /\ (\A d \in Days : Alone(d)')
  BY <1>1 DEF Fresh, Alone, Pending
<1>2. ASSUME NEW w \in Writers,
             WriterStep(w) \/ AppendFails(w) \/ \E mode \in Modes : Write(w, mode)
      PROVE  UNCHANGED <<run, mixed>>
  BY <1>2 DEF WriterStep, AppendFails, Write, Connect, Lock, ReadHead, Insert, End,
     PoolTimeout, Throw, archive
<1>3. ASSUME NEW r \in Runs, StartRun(r)
      PROVE  (\A q \in Runs : Fresh(q)') /\ (\A d \in Days : Alone(d)')
  <2>1. /\ run'[r].rows = {} /\ Pending(r)' = Listed(today)
        /\ \A q \in Runs : q # r => run'[q] = run[q]
        /\ mixed' = mixed \cup (Listed(today) \cap UNION {Pending(q) : q \in Runs})
    BY <1>3, <1>a, NoRunType DEF StartRun, Pending
  <2>2. \A q \in Runs : q # r => Pending(q)' = Pending(q)
    BY <2>1 DEF Pending
  <2>3. \A d \in Days : Alone(d)'
    <3> SUFFICES ASSUME NEW d \in Days, d \notin mixed', NEW p \in Runs, NEW q \in Runs,
                        d \in Pending(p)', d \in Pending(q)'
                 PROVE  p = q
      BY DEF Alone
    <3> QED
      BY <2>1, <2>2 DEF Alone
  <2> QED
    BY <2>1, <2>3 DEF Fresh
<1>4. ASSUME NEW r \in Runs, RunStep(r) \/ StepFails(r) \/ RunCrashes(r)
      PROVE  (\A q \in Runs : Fresh(q)') /\ (\A d \in Days : Alone(d)')
  <2>1. /\ \A q \in Runs : q # r => run'[q] = run[q]
        /\ Pending(r)' \subseteq Pending(r) /\ mixed' = mixed
    BY <1>4, RunMoves
  <2>2. \A q \in Runs : Pending(q)' \subseteq Pending(q)
    BY <2>1 DEF Pending
  <2>3. \A d \in Days : Alone(d)'
    BY <2>1, <2>2 DEF Alone
  <2>4. Fresh(r)'
    <3>1. CASE FindManifest(r) \/ WriteManifest(r) \/ ManifestExists(r) \/ ReadChunk(r)
               \/ Upload(r) \/ Complete(r) \/ Prune(r) \/ StepFails(r)
      BY <1>a, <3>1 DEF FindManifest, WriteManifest, ManifestExists, ReadChunk, Upload,
         Complete, Prune, StepFails, Goto, Fresh, RunRows
    <3>2. CASE Noop(r) \/ MarkPruned(r) \/ WriteFailed(r)
      BY <1>a, <3>2 DEF Noop, MarkPruned, WriteFailed, NextWindow, Fresh, RunRows
    <3>3. CASE DeleteExpired(r) \/ RunCrashes(r)
      BY <1>a, <3>3, NoRunType DEF DeleteExpired, RunCrashes, Fresh
    <3> QED
      BY <1>4, <3>1, <3>2, <3>3 DEF RunStep
  <2> QED
    BY <2>1, <2>3, <2>4 DEF Fresh
<1>5. NewDay \/ UNCHANGED vars => UNCHANGED <<run, mixed>>
  BY DEF NewDay, vars, archive
<1> QED
  BY <1>1, <1>2, <1>3, <1>4, <1>5 DEF Next

(* A step that leaves the rows, the file and the manifest of a day alone,  *)
(* and the runs that work on it.                                           *)
LEMMA DayFrame ==
  ASSUME NEW d \in Days, Archived(d), Shown(d),
         UNCHANGED <<today, log>>, mixed \subseteq mixed', hurt \subseteq hurt',
         RowsOf(d)' = RowsOf(d), object'[d] = object[d], manifest'[d] = manifest[d],
         \A q \in Runs : d \in Pending(q)' => d \in Pending(q),
         \A q \in Runs : At(q, d)' =>
           (At(q, d) /\ run'[q] = run[q]) \/ run'[q].pc = "window",
         \A q \in Runs : At(q, d) /\ d \in Pending(q)' => run'[q] = run[q]
  PROVE  Archived(d)' /\ Shown(d)'
<1>1. /\ DOMAIN log' = DOMAIN log /\ \A i \in DOMAIN log : DayOf(i)' = DayOf(i)
      /\ Expired(d, today)' <=> Expired(d, today)
      /\ Cold(d, today)' <=> Cold(d, today)
  BY DEF DayOf, Expired, Cold
<1>2. \A i \in DOMAIN log : DayOf(i) = d => (i \in hot' <=> i \in hot)
  BY <1>1 DEF RowsOf
<1>3. /\ AllHot(d)' <=> AllHot(d) 
      /\ Filed(d)' <=> Filed(d)
      /\ Gone(d)' <=> Gone(d)
  BY <1>1, <1>2 DEF AllHot, Filed, Gone
<1>4. Whole(d)' <=> Whole(d)
  BY <1>1, <1>3 DEF Whole
<1>5. Archived(d)'
  <2> SUFFICES ASSUME d \notin mixed', ~Expired(d, today)'
               PROVE  Whole(d)' /\ \A r \in Runs : At(r, d)' => Worked(r, d)'
    BY DEF Archived
  <2>1. Whole(d) /\ \A r \in Runs : At(r, d) => Worked(r, d)
    BY <1>1 DEF Archived
  <2>2. ASSUME NEW r \in Runs, At(r, d)' PROVE Worked(r, d)'
    <3>1. CASE run'[r].pc = "window"
      BY <3>1 DEF Worked
    <3>2. CASE At(r, d) /\ run'[r] = run[r]
      BY <1>3, <2>1, <3>2 DEF Worked
    <3> QED
      BY <2>2, <3>1, <3>2
  <2> QED
    BY <1>4, <2>1, <2>2
<1>6. Shown(d)'
  <2> SUFFICES ASSUME d \notin mixed' \cup hurt', ~Expired(d, today)'
               PROVE  /\ \A r \in Runs : d \in Pending(r)' =>
                           \/ At(r, d)' /\ run'[r].pc = "pruned"
                           \/ AllHot(d)' /\ RowsOf(d)' # {}
                      /\ \A r \in Runs : At(r, d)' =>
                           /\ run'[r].pc # "failed"
                           /\ run'[r].pc = "manifest" /\ ~run'[r].seen
                                => manifest'[d].status = "NONE"
                           /\ run'[r].pc \in {"prune", "pruned"} =>
                                manifest'[d].status = "COMPLETED" /\ manifest'[d].key
                      /\ Gone(d)' => manifest'[d].status = "COMPLETED" /\ manifest'[d].key
    BY DEF Shown
  <2>1. /\ \A r \in Runs : d \in Pending(r) =>
             \/ At(r, d) /\ run[r].pc = "pruned"
             \/ AllHot(d) /\ RowsOf(d) # {}
        /\ \A r \in Runs : At(r, d) =>
             /\ run[r].pc # "failed"
             /\ run[r].pc = "manifest" /\ ~run[r].seen => manifest[d].status = "NONE"
             /\ run[r].pc \in {"prune", "pruned"} =>
                  manifest[d].status = "COMPLETED" /\ manifest[d].key
        /\ Gone(d) => manifest[d].status = "COMPLETED" /\ manifest[d].key
    BY <1>1 DEF Shown
  <2>2. ASSUME NEW r \in Runs, d \in Pending(r)'
        PROVE  \/ At(r, d)' /\ run'[r].pc = "pruned"
               \/ AllHot(d)' /\ RowsOf(d)' # {}
    <3>1. CASE At(r, d) /\ run[r].pc = "pruned"
      <4>1. run'[r] = run[r]
        BY <2>2, <3>1
      <4> QED
        BY <3>1, <4>1 DEF At, Window, Pending
    <3> QED
      BY <1>3, <2>1, <2>2, <3>1
  <2> QED
    BY <1>3, <2>1, <2>2
<1> QED
  BY <1>5, <1>6

(* Requests: only an insertion touches the log, and never under a day that *)
(* is past the hot tier.                                                   *)
LEMMA DayUnderInsert ==
  ASSUME Typed, Typed', Timely, NEW w \in Writers, Insert(w),
         NEW d \in Days, Archived(d), Shown(d)
  PROVE  Archived(d)' /\ Shown(d)'
<1>a. /\ writer[w] \in WriterRows /\ log \in Seq([prev : Nat, day : Days]) /\ Len(log) \in Nat
      /\ HotDays \in Nat \ {0} /\ today \in Nat /\ hot \subseteq DOMAIN log
      /\ object[d] \subseteq DOMAIN log
      /\ Days \subseteq Nat
      /\ \A r \in Runs : run[r].now \in Nat
  <2>1. Days \subseteq Nat
    BY AuditAssumption DEF Days
  <2>2. writer[w] \in WriterRows
    BY DEF Typed, TypeOK
  <2>3. log \in Seq([prev : Nat, day : Days]) /\ Len(log) \in Nat /\ hot \subseteq DOMAIN log
    BY DEF Typed, TypeOK
  <2>4. object[d] \subseteq DOMAIN log
    BY DEF Typed, TypeOK
  <2>5. \A r \in Runs : run[r].now \in Nat
    BY <2>1 DEF Typed, TypeOK, RunRows
  <2>6. HotDays \in Nat \ {0} /\ today \in Nat
    BY <2>1, AuditAssumption DEF Typed, TypeOK
  <2> QED
    BY <2>1, <2>2, <2>3, <2>4, <2>5, <2>6
<1>1. /\ log' = Append(log, [prev |-> writer[w].prev, day |-> writer[w].day])
      /\ hot' = hot \cup {Len(log')} /\ UNCHANGED <<today, archive>>
      /\ writer[w].pc = "insert"
  BY DEF Insert
<1>2. [prev |-> writer[w].prev, day |-> writer[w].day] \in [prev : Nat, day : Days]
  BY <1>a DEF WriterRows
<1>n. PICK n \in Nat : n = Len(log) + 1
  BY <1>a
<1>3. /\ DOMAIN log = 1 .. Len(log) /\ DOMAIN log' = DOMAIN log \cup {n}
      /\ n \notin DOMAIN log /\ Len(log') = n
      /\ \A i \in DOMAIN log : DayOf(i)' = DayOf(i)
      /\ DayOf(n)' = writer[w].day
  <2>1. /\ Len(log') = n /\ DOMAIN log' = 1 .. n /\ DOMAIN log = 1 .. Len(log)
        /\ \A i \in 1 .. Len(log) : log'[i] = log[i]
        /\ log'[n].day = writer[w].day
    BY <1>a, <1>n, <1>1, <1>2
  <2> QED
    BY <1>a, <1>n, <2>1 DEF DayOf
<1>4. hot' = hot \cup {n}
  BY <1>1, <1>3
<1>5. writer[w].day \in Nat /\ today <= writer[w].day + 1
  BY <1>a, <1>1 DEF Timely, Busy, WriterRows
<1>6. CASE writer[w].day = d
  <2>1. ~Cold(d, today) /\ \A r \in Runs : d \notin Pending(r)
    BY <1>a, <1>5, <1>6 DEF Timely, Cold
  <2>2. /\ \A r \in Runs : d \notin Pending(r)'
        /\ Expired(d, today)' <=> Expired(d, today)
    BY <1>1, <2>1 DEF archive, Pending, Expired
  <2>3. AllHot(d) => AllHot(d)' /\ ~Gone(d)'
    BY <1>3, <1>4 DEF AllHot, Gone
  <2>4. d \notin mixed /\ ~Expired(d, today) => AllHot(d)
    BY <2>1 DEF Archived, Whole
  <2> QED
    BY <1>1, <2>2, <2>3, <2>4 DEF Archived, Shown, Whole, At, archive
<1>7. CASE writer[w].day # d
  <2>1. RowsOf(d)' = RowsOf(d)
    <3>1. \A i : (i \in hot' /\ DayOf(i)' = d) <=> (i \in hot /\ DayOf(i) = d)
      BY <1>a, <1>3, <1>4, <1>7
    <3> QED
      BY <3>1 DEF RowsOf
  <2>2. /\ AllHot(d)' <=> AllHot(d)
        /\ Filed(d)' <=> Filed(d)
        /\ Gone(d)' <=> Gone(d)
    <3>1. object' = object
      BY <1>1 DEF archive
    <3>2. \A i : i \in DOMAIN log' /\ DayOf(i)' = d <=> i \in DOMAIN log /\ DayOf(i) = d
      BY <1>3, <1>7
    <3>3. \A i \in DOMAIN log : i \in hot' <=> i \in hot
      BY <1>3, <1>4
    <3> QED
      BY <3>1, <3>2, <3>3 DEF AllHot, Filed, Gone
  <2>3. /\ Whole(d)' <=> Whole(d)
        /\ Expired(d, today)' <=> Expired(d, today)
        /\ \A r \in Runs : /\ At(r, d)' <=> At(r, d)
                           /\ Worked(r, d)' <=> Worked(r, d)
                           /\ Pending(r)' = Pending(r)
    BY <1>1, <2>1, <2>2 DEF Whole, Cold, Expired, At, Worked, Window, Pending, archive
  <2>4. Archived(d)'
    BY <1>1, <2>3 DEF Archived, archive
  <2>5. Shown(d)'
    BY <1>1, <2>1, <2>2, <2>3 DEF Shown, archive
  <2> QED
    BY <2>4, <2>5
<1> QED
  BY <1>6, <1>7

LEMMA DayUnderWriters ==
  ASSUME Typed, Typed', Timely, NEW w \in Writers,
         WriterStep(w) \/ AppendFails(w) \/ \E mode \in Modes : Write(w, mode),
         NEW d \in Days, Archived(d), Shown(d)
  PROVE  Archived(d)' /\ Shown(d)'
<1>1. CASE ~Insert(w)
  <2>1. UNCHANGED <<today, log, hot, archive>>
    BY <1>1 DEF WriterStep, AppendFails, Write, Connect, Lock, ReadHead, End, PoolTimeout, Throw
  <2>2. RowsOf(d)' = RowsOf(d)
    BY <2>1 DEF RowsOf, DayOf
  <2> QED
    BY <2>1, <2>2, DayFrame DEF archive, At, Window, Pending
<1> QED
  BY <1>1, DayUnderInsert

(* A run begins: the days on its list have rows, so they are whole in the  *)
(* table.                                                                  *)
LEMMA DayUnderStart ==
  ASSUME Typed, Typed', NEW r \in Runs, StartRun(r), \A q \in Runs : Fresh(q),
         NEW d \in Days, Archived(d), Shown(d)
  PROVE  Archived(d)' /\ Shown(d)'
<1>a. run \in [Runs -> RunRows]
  BY DEF Typed, TypeOK
<1>1. /\ run[r].pc = "idle" /\ run'[r].pc = "window" /\ Pending(r)' = Listed(today)
      /\ \A q \in Runs : q # r => run'[q] = run[q]
      /\ mixed \subseteq mixed'
      /\ UNCHANGED <<today, hot, chain, manifest, object, hurt, failures>>
  BY <1>a, NoRunType DEF StartRun, Pending
<1>2. \A e \in Listed(today) : RowsOf(e) # {}
  BY DEF Listed, FirstOf, Candidates
<1>3. /\ RowsOf(d)' = RowsOf(d) /\ (AllHot(d)' <=> AllHot(d)) /\ (Filed(d)' <=> Filed(d))
      /\ (Gone(d)' <=> Gone(d)) /\ (Whole(d)' <=> Whole(d))
      /\ (Expired(d, today)' <=> Expired(d, today))
  BY <1>1 DEF RowsOf, AllHot, Filed, Gone, Whole, Expired, Cold, DayOf, chain
<1>4. \A q \in Runs : q # r => /\ Pending(q)' = Pending(q) /\ (At(q, d)' <=> At(q, d))
                               /\ (Worked(q, d)' <=> Worked(q, d))
  BY <1>1, <1>3 DEF Pending, At, Window, Worked
<1>5. Worked(r, d)'
  BY <1>1 DEF Worked
<1>6. Archived(d)'
  BY <1>1, <1>3, <1>4, <1>5 DEF Archived
<1>7. Shown(d)'
  <2> SUFFICES ASSUME d \notin mixed' \cup hurt', ~Expired(d, today)'
               PROVE  /\ \A q \in Runs : d \in Pending(q)' =>
                           \/ At(q, d)' /\ run'[q].pc = "pruned"
                           \/ AllHot(d)' /\ RowsOf(d)' # {}
                      /\ \A q \in Runs : At(q, d)' =>
                           /\ run'[q].pc # "failed"
                           /\ run'[q].pc = "manifest" /\ ~run'[q].seen
                                => manifest'[d].status = "NONE"
                           /\ run'[q].pc \in {"prune", "pruned"} =>
                                manifest'[d].status = "COMPLETED" /\ manifest'[d].key
                      /\ Gone(d)' => manifest'[d].status = "COMPLETED" /\ manifest'[d].key
    BY DEF Shown
  <2>1. d \notin mixed \cup hurt /\ ~Expired(d, today)
    BY <1>1, <1>3
  <2>2. d \in Listed(today) => AllHot(d) /\ RowsOf(d) # {}
    BY <1>2, <2>1 DEF Archived, Whole
  <2>3. ASSUME NEW q \in Runs, d \in Pending(q)'
        PROVE  \/ At(q, d)' /\ run'[q].pc = "pruned"
               \/ AllHot(d)' /\ RowsOf(d)' # {}
    <3>1. CASE q = r
      BY <1>1, <1>3, <2>2, <2>3, <3>1
    <3>2. CASE q # r
      <4>1. d \in Pending(q) /\ run'[q] = run[q] /\ (At(q, d)' <=> At(q, d))
        BY <1>1, <1>4, <2>3, <3>2
      <4>2. (At(q, d) /\ run[q].pc = "pruned") \/ (AllHot(d) /\ RowsOf(d) # {})
        BY <2>1, <4>1 DEF Shown
      <4> QED
        BY <1>3, <4>1, <4>2
    <3> QED
      BY <3>1, <3>2
  <2> QED
    BY <1>1, <1>3, <1>4, <2>1, <2>3 DEF Shown
<1> QED
  BY <1>6, <1>7

LEMMA DayUnderNewDay ==
  ASSUME Typed, NewDay, NEW d \in Days, Archived(d), Shown(d)
  PROVE  Archived(d)' /\ Shown(d)'
<1>1. today' = today + 1 /\ UNCHANGED <<hot, chain, archive, failures>>
  BY DEF NewDay
<1>2. today \in Nat /\ d \in Nat /\ HotDays \in Nat /\ RetentionDays \in Nat
  BY AuditAssumption DEF Typed, TypeOK, Days
<1>3. /\ Expired(d, today) => Expired(d, today)'
      /\ Cold(d, today) => Cold(d, today)'
  BY <1>1, <1>2 DEF Expired, Cold
<1>4. /\ RowsOf(d)' = RowsOf(d) /\ (AllHot(d)' <=> AllHot(d)) /\ (Filed(d)' <=> Filed(d))
      /\ (Gone(d)' <=> Gone(d)) /\ (Whole(d) => Whole(d)')
      /\ \A q \in Runs : /\ Pending(q)' = Pending(q) /\ (At(q, d)' <=> At(q, d))
                         /\ (Worked(q, d)' <=> Worked(q, d))
  BY <1>1, <1>3 DEF RowsOf, AllHot, Filed, Gone, Whole, DayOf, Pending, At, Window, Worked, chain,
     archive
<1>5. Archived(d)'
  BY <1>1, <1>3, <1>4 DEF Archived, archive
<1>6. Shown(d)'
  BY <1>1, <1>3, <1>4 DEF Shown, archive
<1> QED
  BY <1>5, <1>6

(* A step of a run that works on another day.                              *)
LEMMA DayElsewhere ==
  ASSUME Typed, NEW r \in Runs, RunStep(r) \/ StepFails(r) \/ RunCrashes(r), Timely,
         NEW d \in Days, Archived(d), Shown(d), ~At(r, d)
  PROVE  Archived(d)' /\ Shown(d)'
<1>a. /\ run \in [Runs -> RunRows] /\ today \in Nat /\ run[r].now \in Nat /\ d \in Nat
      /\ RetentionDays \in Nat /\ manifest \in [Days -> ManifestRows]
      /\ object \in [Days -> SUBSET DOMAIN log]
  BY AuditAssumption DEF Typed, TypeOK, RunRows, Days
<1>b. /\ \A q \in Runs : q # r => run'[q] = run[q]
      /\ Pending(r)' \subseteq Pending(r)
      /\ UNCHANGED <<today, chain, mixed>> /\ UNCHANGED log
  BY RunMoves DEF chain
<1>c. Pending(r) # {} => Window(r) # d
  BY WindowListed DEF Typed, At
<1>d. run[r].pc \in InWindow \cup {"failed"} => Pending(r) # {}
  BY DEF Typed, Shape
<1>e. Expired(d, run[r].now) => Expired(d, today)
  BY <1>a DEF Timely, Expired
<1>1. CASE Expired(d, today)
  BY <1>b, <1>1 DEF Archived, Shown, Expired
<1>2. CASE ~Expired(d, today)
  <2>1. RowsOf(d)' = RowsOf(d)
    <3>1. CASE Prune(r)
      <4>1. hot' = hot \ Pruned(r) /\ Window(r) # d
        BY <1>c, <1>d, <3>1 DEF Prune, InWindow
      <4>2. \A i \in Pruned(r) : DayOf(i) # d
        BY <4>1 DEF Pruned, RowsOf
      <4> QED
        BY <1>b, <4>1, <4>2 DEF RowsOf, DayOf
    <3>2. CASE DeleteExpired(r)
      <4>1. hot' = hot \/ hot' = {i \in hot : ~Expired(DayOf(i), run[r].now)}
        BY <3>2 DEF DeleteExpired
      <4> QED
        BY <1>b, <1>e, <1>2, <4>1 DEF RowsOf, DayOf
    <3>3. CASE ~Prune(r) /\ ~DeleteExpired(r)
      <4>1. hot' = hot
        BY <3>3 DEF RunStep, StepFails, RunCrashes, FindManifest, WriteManifest, ManifestExists,
           ReadChunk, Noop, Upload, Complete, MarkPruned, WriteFailed
      <4> QED
        BY <1>b, <4>1 DEF RowsOf, DayOf
    <3> QED
      BY <3>1, <3>2, <3>3
  <2>2. object'[d] = object[d] /\ manifest'[d] = manifest[d]
    BY <1>a, <1>c, <1>d DEF RunStep, StepFails, RunCrashes, FindManifest, WriteManifest,
       ManifestExists, ReadChunk, Noop, Upload, Complete, Prune, MarkPruned, WriteFailed,
       DeleteExpired, InWindow
  <2>3. hurt \subseteq hurt'
    BY DEF RunStep, StepFails, RunCrashes, FindManifest, WriteManifest, ManifestExists,
       ReadChunk, Noop, Upload, Complete, Prune, MarkPruned, WriteFailed, DeleteExpired
  <2>4. At(r, d)' => run'[r].pc = "window"
    <3>1. CASE FindManifest(r) \/ WriteManifest(r) \/ ManifestExists(r) \/ ReadChunk(r)
               \/ Upload(r) \/ Complete(r) \/ Prune(r) \/ StepFails(r)
      <4>1. run'[r].todo = run[r].todo
        BY <1>a, <3>1 DEF FindManifest, WriteManifest, ManifestExists, ReadChunk,
           Upload, Complete, Prune, StepFails, Goto, RunRows
      <4> QED
        BY <4>1 DEF At, Window, Pending
    <3>2. CASE Noop(r) \/ MarkPruned(r) \/ WriteFailed(r)
      BY <1>a, <3>2 DEF Noop, MarkPruned, WriteFailed, NextWindow, RunRows
    <3>3. CASE DeleteExpired(r) \/ RunCrashes(r)
      BY <1>a, <3>3, NoRunType DEF DeleteExpired, RunCrashes, At, Pending
    <3> QED
      BY <3>1, <3>2, <3>3 DEF RunStep
  <2>5. \A q \in Runs : q # r => Pending(q)' = Pending(q) /\ (At(q, d)' <=> At(q, d))
    BY <1>b DEF Pending, At, Window
  <2> QED
    BY <1>b, <2>1, <2>2, <2>3, <2>4, <2>5, DayFrame
<1> QED
  BY <1>1, <1>2

(* A step of the only run that works on a day.                             *)
ShownBy(r, d) ==
  /\ d \in Pending(r) => \/ At(r, d) /\ run[r].pc = "pruned"
                         \/ AllHot(d) /\ RowsOf(d) # {}
  /\ At(r, d) =>
       /\ run[r].pc # "failed"
       /\ run[r].pc = "manifest" /\ ~run[r].seen => manifest[d].status = "NONE"
       /\ run[r].pc \in {"prune", "pruned"} =>
            manifest[d].status = "COMPLETED" /\ manifest[d].key
  /\ Gone(d) => manifest[d].status = "COMPLETED" /\ manifest[d].key

LEMMA DayOfOneRun ==
  ASSUME NEW r \in Runs, NEW d \in Days, Alone(d), At(r, d), d \notin mixed,
         UNCHANGED <<today, log>>, \A q \in Runs : q # r => run'[q] = run[q],
         Whole(d)', At(r, d)' => Worked(r, d)', d \notin hurt' => ShownBy(r, d)'
  PROVE  Archived(d)' /\ Shown(d)'
<1>1. \A q \in Runs : q # r => d \notin Pending(q)
  BY DEF Alone, At
<1>2. \A q \in Runs : q # r => d \notin Pending(q)' /\ ~At(q, d)'
  BY <1>1 DEF Pending, At
<1>3. Archived(d)'
  BY <1>2 DEF Archived
<1>4. Shown(d)'
  BY <1>2 DEF Shown, ShownBy
<1> QED
  BY <1>3, <1>4

(* Reading: a chunk continues the beginning that was read; when nothing    *)
(* follows, everything was read.                                           *)
LEMMA ReadStep ==
  ASSUME Typed, NEW r \in Runs, ReadChunk(r), NEW d \in Days, At(r, d), Worked(r, d)
  PROVE  /\ run'[r].pc = "read" \/ (run'[r].pc = "noop" /\ run'[r].rows = {})
            \/ (run'[r].pc = "upload" /\ run'[r].rows = RowsOf(d) /\ RowsOf(d) # {})
         /\ run'[r].pc = "read" =>
              /\ run'[r].rows \subseteq RowsOf(d)
              /\ \A i \in RowsOf(d), j \in run'[r].rows : i <= j => i \in run'[r].rows
<1> DEFINE last == {i \in run[r].rows : \A j \in run[r].rows : j <= i}
<1>a. /\ run \in [Runs -> RunRows] /\ run[r].pc = "read" /\ Window(r) = d
      /\ hot \subseteq DOMAIN log /\ DOMAIN log \subseteq Nat /\ IsFiniteSet(DOMAIN log)
  <2>1. Len(log) \in Nat /\ DOMAIN log = 1 .. Len(log) /\ run \in [Runs -> RunRows]
        /\ hot \subseteq DOMAIN log
    BY DEF Typed, TypeOK
  <2>2. IsFiniteSet(1 .. Len(log))
    BY <2>1, FS_Interval
  <2> QED
    BY <2>1, <2>2 DEF ReadChunk, At
<1>b. /\ run[r].rows \subseteq RowsOf(d) /\ RowsOf(d) \subseteq hot /\ RowsOf(d) \subseteq Nat
      /\ \A i \in RowsOf(d), j \in run[r].rows : i <= j => i \in run[r].rows
  BY <1>a DEF Worked, RowsOf
<1>c. After(r) = {i \in RowsOf(d) : \A j \in last : i > j}
  BY <1>a, <1>b DEF After
<1>d. \A i \in RowsOf(d) \ run[r].rows : i \in After(r)
  BY <1>b, <1>c
<1>1. CASE After(r) = {}
  <2>1. run[r].rows = RowsOf(d)
    BY <1>1, <1>b, <1>d
  <2>2. run'[r].rows = run[r].rows
        /\ run'[r].pc = IF run[r].rows = {} THEN "noop" ELSE "upload"
    BY <1>1, <1>a DEF ReadChunk, Goto, RunRows
  <2> QED
    BY <2>1, <2>2
<1>2. CASE After(r) # {}
  <2> DEFINE more == FirstOf(After(r), Chunk)
  <2>1. run'[r].rows = run[r].rows \cup more /\ run'[r].pc = "read"
    BY <1>2, <1>a DEF ReadChunk, RunRows
  <2>2. more \subseteq After(r) /\ After(r) \subseteq RowsOf(d) /\ IsFiniteSet(After(r))
    <3>1. more \subseteq After(r) /\ After(r) \subseteq RowsOf(d)
      BY <1>c DEF FirstOf
    <3>2. After(r) \subseteq DOMAIN log
      BY <3>1, <1>a, <1>b
    <3> QED
      BY <3>1, <3>2, <1>a, FS_Subset
  <2>3. ASSUME NEW i \in After(r), NEW j \in more, i <= j PROVE i \in more
    <3> DEFINE below(x) == {k \in After(r) : k < x}
    <3>1. below(i) \subseteq below(j) /\ below(j) \subseteq After(r)
      BY <1>b, <2>2, <2>3
    <3>2. IsFiniteSet(below(j))
      BY <2>2, <3>1, FS_Subset
    <3>3. /\ Cardinality(below(i)) <= Cardinality(below(j))
          /\ Cardinality(below(i)) \in Nat /\ Cardinality(below(j)) \in Nat
      BY <3>1, <3>2, FS_Subset, FS_CardinalityType
    <3>4. Cardinality(below(j)) < Chunk
      BY DEF FirstOf
    <3>5. Cardinality(below(i)) < Chunk
      <4> HIDE DEF below
      <4> QED
        BY <3>3, <3>4, AuditAssumption
    <3> QED
      BY <3>5 DEF FirstOf
  <2> HIDE DEF more
  <2>4. ASSUME NEW i \in RowsOf(d), NEW j \in run'[r].rows, i <= j
        PROVE  i \in run'[r].rows
    BY <1>b, <1>d, <2>1, <2>3, <2>4
  <2> QED
    BY <1>b, <2>1, <2>2, <2>4
<1> QED
  BY <1>1, <1>2

LEMMA DayAtRun ==
  ASSUME Typed, NEW r \in Runs, RunStep(r) \/ StepFails(r) \/ RunCrashes(r), Timely,
         Fresh(r), NEW d \in Days, Alone(d), Archived(d), Shown(d), At(r, d)
  PROVE  Archived(d)' /\ Shown(d)'
<1>a. /\ run \in [Runs -> RunRows] /\ today \in Nat /\ run[r].now \in Nat /\ d \in Nat
      /\ RetentionDays \in Nat /\ HotDays \in Nat /\ manifest \in [Days -> ManifestRows]
      /\ object \in [Days -> SUBSET DOMAIN log] /\ hot \subseteq DOMAIN log
  BY AuditAssumption DEF Typed, TypeOK, RunRows, Days
<1>b. /\ \A q \in Runs : q # r => run'[q] = run[q]
      /\ UNCHANGED <<today, mixed>> /\ UNCHANGED log
  BY RunMoves DEF chain
<1>c. Window(r) = d /\ d \in Pending(r) /\ Pending(r) = run[r].todo
  BY DEF At, Pending
<1>d. Cold(d, today) /\ (Expired(d, run[r].now) => Expired(d, today))
  BY <1>a, <1>c DEF Timely, Cold, Expired
<1>1. CASE Expired(d, today) \/ d \in mixed
  BY <1>b, <1>1 DEF Archived, Shown, Expired
<1>2. CASE ~Expired(d, today) /\ d \notin mixed
  <2>a. Whole(d) /\ Worked(r, d) /\ (d \notin hurt => ShownBy(r, d))
    BY <1>2 DEF Archived, Shown, ShownBy
  <2>b. ASSUME UNCHANGED hot
        PROVE  /\ RowsOf(d)' = RowsOf(d) /\ (AllHot(d)' <=> AllHot(d)) /\ (Gone(d)' <=> Gone(d))
               /\ (Cold(d, today)' <=> Cold(d, today))
               /\ object'[d] = object[d] => (Filed(d)' <=> Filed(d)) /\ (Whole(d)' <=> Whole(d))
    BY <2>b, <1>b DEF RowsOf, AllHot, Gone, Cold, Filed, Whole, DayOf
  <2>c. AllHot(d) => ~Gone(d)
    BY DEF AllHot, Gone
  <2>d. ASSUME d \notin hurt, run[r].pc # "pruned", UNCHANGED hot
        PROVE  AllHot(d)' /\ RowsOf(d)' # {} /\ ~Gone(d)'
    <3>1. AllHot(d) /\ RowsOf(d) # {}
      BY <1>c, <2>a, <2>d DEF ShownBy
    <3> QED
      BY <2>b, <2>c, <2>d, <3>1
  <2>e. run'[r].todo = run[r].todo => At(r, d)'
    BY <1>c DEF At, Window, Pending
  <2>f. run'[r].todo = run[r].todo \ {d} => d \notin Pending(r)' /\ ~At(r, d)'
    BY DEF At, Pending
  <2>1. CASE FindManifest(r)
    <3>1. /\ run'[r].pc = "manifest" /\ run'[r].todo = run[r].todo
          /\ run'[r].seen = (manifest[d].status # "NONE") /\ run[r].pc = "window"
          /\ UNCHANGED <<hot, object, manifest, hurt>>
      BY <1>a, <1>c, <2>1 DEF FindManifest, RunRows
    <3>2. Whole(d)' /\ Worked(r, d)'
      BY <2>a, <2>b, <3>1 DEF Worked
    <3>3. d \notin hurt' => ShownBy(r, d)'
      BY <2>d, <3>1 DEF ShownBy
    <3> QED
      BY <1>2, <1>b, <3>2, <3>3, DayOfOneRun
  <2>2. CASE WriteManifest(r)
    <3>1. /\ run'[r].pc = "read" /\ run'[r].todo = run[r].todo /\ run[r].pc = "manifest"
          /\ run'[r].rows = {} /\ UNCHANGED <<hot, object, hurt>>
      BY <1>a, <2>2 DEF WriteManifest, Goto, Fresh, RunRows
    <3>2. Whole(d)' /\ Worked(r, d)'
      BY <2>a, <2>b, <3>1 DEF Worked
    <3>3. d \notin hurt' => ShownBy(r, d)'
      BY <2>d, <3>1 DEF ShownBy
    <3> QED
      BY <1>2, <1>b, <3>2, <3>3, DayOfOneRun
  <2>3. CASE ManifestExists(r)
    <3>1. /\ run'[r].pc = "failed" /\ run[r].pc = "manifest" /\ ~run[r].seen
          /\ manifest[d].status # "NONE" /\ UNCHANGED <<hot, object, hurt>>
      BY <1>a, <1>c, <2>3 DEF ManifestExists, Goto, RunRows
    <3>2. Whole(d)' /\ Worked(r, d)'
      BY <2>a, <2>b, <3>1 DEF Worked
    <3>3. d \in hurt'
      BY <2>a, <3>1 DEF ShownBy
    <3> QED
      BY <1>2, <1>b, <3>2, <3>3, DayOfOneRun
  <2>4. CASE ReadChunk(r)
    <3>1. /\ run'[r].todo = run[r].todo /\ run[r].pc = "read"
          /\ UNCHANGED <<hot, object, manifest, hurt>>
      BY <1>a, <2>4 DEF ReadChunk, Goto, RunRows
    <3>2. run'[r].pc \in {"read", "noop", "upload"}
      BY <2>4, <2>a, ReadStep
    <3>3. Worked(r, d)'
      BY <2>4, <2>a, <2>b, <3>1, <3>2, ReadStep DEF Worked
    <3>4. Whole(d)'
      BY <2>a, <2>b, <3>1
    <3>5. d \notin hurt' => ShownBy(r, d)'
      BY <2>d, <3>1, <3>2 DEF ShownBy
    <3> QED
      BY <1>2, <1>b, <3>3, <3>4, <3>5, DayOfOneRun
  <2>5. CASE Noop(r)
    <3>1. /\ run'[r].todo = run[r].todo \ {d} /\ run[r].pc = "noop"
          /\ UNCHANGED <<hot, object, hurt>>
      BY <1>a, <1>c, <2>5 DEF Noop, NextWindow, RunRows
    <3>2. d \notin hurt' => ShownBy(r, d)'
      BY <2>f, <2>d, <3>1 DEF ShownBy
    <3> QED
      BY <1>2, <1>b, <2>a, <2>b, <2>f, <3>1, <3>2, DayOfOneRun
  <2>6. CASE Upload(r)
    <3>1. /\ run'[r].todo = run[r].todo /\ run[r].pc = "upload" /\ run'[r].pc = "complete"
          /\ object'[d] = run[r].rows /\ UNCHANGED <<hot, manifest, hurt>>
      BY <1>a, <1>c, <2>6 DEF Upload, RunRows
    <3>2. AllHot(d) /\ AllHot(d)'
      BY <2>a, <2>b, <3>1 DEF Whole, Worked
    <3>3. Filed(d)'
      BY <1>b, <2>a, <3>1, <3>2 DEF Filed, AllHot, Worked, RowsOf, DayOf
    <3>4. Whole(d)' /\ Worked(r, d)'
      BY <3>1, <3>2, <3>3 DEF Whole, Worked
    <3>5. d \notin hurt' => ShownBy(r, d)'
      BY <2>d, <3>1 DEF ShownBy
    <3> QED
      BY <1>2, <1>b, <3>4, <3>5, DayOfOneRun
  <2>7. CASE Complete(r)
    <3>1. /\ run'[r].todo = run[r].todo /\ run[r].pc = "complete" /\ run'[r].pc = "prune"
          /\ manifest'[d].status = "COMPLETED" /\ manifest'[d].key
          /\ UNCHANGED <<hot, object, hurt>>
      BY <1>a, <1>c, <2>7 DEF Complete, Goto, RunRows, ManifestRows
    <3>2. Whole(d)' /\ Worked(r, d)'
      BY <2>a, <2>b, <3>1 DEF Worked
    <3>3. d \notin hurt' => ShownBy(r, d)'
      BY <2>d, <3>1 DEF ShownBy
    <3> QED
      BY <1>2, <1>b, <3>2, <3>3, DayOfOneRun
  <2>8. CASE Prune(r)
    <3>1. /\ run'[r].todo = run[r].todo /\ run[r].pc = "prune" /\ run'[r].pc = "pruned"
          /\ hot' = hot \ Pruned(r) /\ UNCHANGED <<object, manifest, hurt>>
      BY <1>a, <2>8 DEF Prune, Goto, RunRows
    <3>2. Pruned(r) = RowsOf(d)
      BY <1>2, <1>c, <1>d DEF Pruned, RowsOf
    <3>3. RowsOf(d)' = {}
      BY <1>b, <3>1, <3>2 DEF RowsOf, DayOf
    <3>4. Filed(d)' /\ Cold(d, today)'
      BY <1>b, <1>d, <2>a, <3>1 DEF Worked, Filed, DayOf, Cold
    <3>5. Whole(d)' /\ Worked(r, d)'
      BY <3>1, <3>3, <3>4 DEF Whole, Worked
    <3>6. d \notin hurt' => ShownBy(r, d)'
      BY <2>a, <2>e, <3>1, <1>c DEF ShownBy, At
    <3> QED
      BY <1>2, <1>b, <3>5, <3>6, DayOfOneRun
  <2>9. CASE MarkPruned(r)
    <3>1. /\ run'[r].todo = run[r].todo \ {d} /\ run[r].pc = "pruned"
          /\ manifest'[d].status = manifest[d].status /\ manifest'[d].key = manifest[d].key
          /\ UNCHANGED <<hot, object, hurt>>
      BY <1>a, <1>c, <2>9 DEF MarkPruned, NextWindow, RunRows, ManifestRows
    <3>2. d \notin hurt' => ShownBy(r, d)'
      BY <2>a, <2>b, <2>f, <3>1 DEF ShownBy
    <3> QED
      BY <1>2, <1>b, <2>a, <2>b, <2>f, <3>1, <3>2, DayOfOneRun
  <2>10. CASE StepFails(r)
    <3>1. /\ run'[r].pc = "failed" /\ UNCHANGED <<hot, object>> /\ d \in hurt'
      BY <1>a, <1>c, <2>10 DEF StepFails, Goto, RunRows
    <3>2. Whole(d)' /\ Worked(r, d)'
      BY <2>a, <2>b, <3>1 DEF Worked
    <3> QED
      BY <1>2, <1>b, <3>1, <3>2, DayOfOneRun
  <2>11. CASE WriteFailed(r)
    <3>1. /\ run'[r].todo = run[r].todo \ {d} /\ run[r].pc = "failed"
          /\ UNCHANGED <<hot, object, hurt>>
      BY <1>a, <1>c, <2>11 DEF WriteFailed, NextWindow, RunRows
    <3>2. d \in hurt'
      BY <2>a, <3>1 DEF ShownBy
    <3> QED
      BY <1>2, <1>b, <2>a, <2>b, <2>f, <3>1, <3>2, DayOfOneRun
  <2>12. ~DeleteExpired(r)
    BY <1>c DEF DeleteExpired
  <2>13. CASE RunCrashes(r)
    <3>1. /\ ~At(r, d)' /\ UNCHANGED <<hot, object>> /\ d \in hurt'
      BY <1>a, <1>c, <2>13, NoRunType DEF RunCrashes, At, Pending
    <3> QED
      BY <1>2, <1>b, <2>a, <2>b, <3>1, DayOfOneRun
  <2> QED
    BY <2>1, <2>2, <2>3, <2>4, <2>5, <2>6, <2>7, <2>8, <2>9, <2>10, <2>11, <2>12, <2>13
       DEF RunStep
<1> QED
  BY <1>1, <1>2

LEMMA InvStep == Typed /\ Inv /\ [Next]_vars => Inv'
<1> SUFFICES ASSUME Typed, Inv, [Next]_vars PROVE Inv'
  OBVIOUS
<1>1. Typed' /\ Chained'
  BY TypedStep, ChainedStep DEF Inv
<1>2. Timely' /\ (\A r \in Runs : Fresh(r)') /\ (\A d \in Days : Alone(d)')
  BY <1>1, TimelyStep, RunLocalStep DEF Inv
<1>3. ASSUME NEW d \in Days PROVE Archived(d)' /\ Shown(d)'
  <2>a. Timely /\ (\A r \in Runs : Fresh(r)) /\ Alone(d) /\ Archived(d) /\ Shown(d)
    BY DEF Inv
  <2>1. ASSUME NEW w \in Writers,
               WriterStep(w) \/ AppendFails(w) \/ \E mode \in Modes : Write(w, mode)
        PROVE  Archived(d)' /\ Shown(d)'
    BY <1>1, <2>a, <2>1, DayUnderWriters
  <2>2. ASSUME NEW r \in Runs, StartRun(r) PROVE Archived(d)' /\ Shown(d)'
    BY <1>1, <2>a, <2>2, DayUnderStart
  <2>3. ASSUME NEW r \in Runs, RunStep(r) \/ StepFails(r) \/ RunCrashes(r)
        PROVE  Archived(d)' /\ Shown(d)'
    BY <2>a, <2>3, DayElsewhere, DayAtRun
  <2>4. CASE NewDay
    BY <2>a, <2>4, DayUnderNewDay
  <2>5. CASE UNCHANGED vars
    <3>1. UNCHANGED <<today, log, hot, archive>>
      BY <2>5 DEF vars, chain
    <3>2. RowsOf(d)' = RowsOf(d)
      BY <3>1 DEF RowsOf, DayOf
    <3> QED
      BY <2>a, <3>1, <3>2, DayFrame DEF archive, At, Window, Pending
  <2> QED
    BY <2>1, <2>2, <2>3, <2>4, <2>5 DEF Next
<1> QED
  BY <1>1, <1>2, <1>3 DEF Inv

LEMMA InvInit == Init => Inv
<1> SUFFICES ASSUME Init PROVE Inv
  OBVIOUS
<1>1. /\ log = <<>> /\ DOMAIN log = {} /\ Len(log) = 0 /\ hot = {} /\ head = 0
      /\ \A w \in Writers : writer[w].pc = "idle"
      /\ \A r \in Runs : run[r] = NoRun
  BY DEF Init, NoWriter
<1>2. \A r \in Runs : run[r].pc = "idle" /\ run[r].rows = {} /\ Pending(r) = {}
                      /\ run[r].now = 0
  BY <1>1, NoRunType DEF Pending, NoRun
<1>3. Chained /\ Timely /\ \A r \in Runs : Fresh(r)
  BY <1>1, <1>2 DEF Init, Chained, ChainLinear, Timely, Busy, Fresh
<1>4. ASSUME NEW d \in Days PROVE Alone(d) /\ Archived(d) /\ Shown(d)
  <2>1. AllHot(d) /\ ~Gone(d) /\ \A r \in Runs : d \notin Pending(r) /\ ~At(r, d)
    BY <1>1, <1>2 DEF AllHot, Gone, At
  <2> QED
    BY <2>1 DEF Alone, Archived, Shown, Whole
<1> QED
  BY <1>3, <1>4 DEF Inv

(* Every reachable state satisfies the inductive invariant.                *)
THEOREM SafetyInvariant == Spec => [](Typed /\ Inv)
BY TypedInit, TypedStep, InvInit, InvStep, PTL DEF Spec

(* However many requests append at once, and whatever fails, the chain has *)
(* no fork and no gap and its head is the last entry.                      *)
THEOREM ChainIsLinear == Spec => []ChainLinear
<1>1. Typed /\ Inv => ChainLinear
  BY DEF Inv, Chained
<1> QED
  BY <1>1, SafetyInvariant, PTL

(* Whatever fails and wherever a run is cut off, an entry within the       *)
(* retention is in the table or in the file of its day, if no two runs had *)
(* the day on their lists.                                                 *)
THEOREM ArchivingLosesNothing == Spec => []NothingLost
<1>1. Typed /\ Inv => NothingLost
  BY DEF Inv, NothingLost, Kept, Archived, Whole, AllHot, Filed
<1> QED
  BY <1>1, SafetyInvariant, PTL

(* What left the table is in a manifest that the query of the archive      *)
(* shows, if no run of the day failed or overlapped another.               *)
THEOREM ArchiveIsAlwaysShown == Spec => []ArchiveIsShown
<1>1. Typed /\ Inv => ArchiveIsShown
  BY DEF Inv, ArchiveIsShown, Shown
<1> QED
  BY <1>1, SafetyInvariant, PTL
-------------------------------------------------------------------------------
(* The log as an audit trail.                                              *)
(* Where table, files and log are as before, the same entries are found.   *)
LEMMA FoundFrame ==
  ASSUME UNCHANGED <<log, hot, object>>
  PROVE  Found' = Found
BY DEF Found, DayOf

(* An insertion records the next entry, linked to the last one.            *)
LEMMA InsertRecords ==
  ASSUME Typed, Inv, NEW w \in Writers, Insert(w)
  PROVE  Trail!Record
<1>1. /\ log \in Seq([prev : Nat, day : Days]) /\ Len(log) \in Nat
      /\ hot \subseteq DOMAIN log /\ DOMAIN log = 1 .. Len(log)
      /\ writer[w] \in WriterRows /\ today \in Days /\ Days \subseteq Nat
  BY AuditAssumption DEF Typed, TypeOK, Days
<1>2. writer[w].pc = "insert" /\ writer[w].prev = Len(log) /\ writer[w].day \in Days
  BY <1>1 DEF Insert, Inv, Chained, ChainLinear, WriterRows
<1>3. PICK entry : entry = [prev |-> Len(log), day |-> writer[w].day]
  OBVIOUS
<1>4. /\ entry \in [prev : Nat, day : Days]
      /\ log' = Append(log, entry) /\ hot' = hot \cup {Len(log')}
      /\ UNCHANGED <<today, mixed, object>>
  BY <1>1, <1>2, <1>3 DEF Insert, archive
<1>5. /\ Len(log') = Len(log) + 1 /\ DOMAIN log' = DOMAIN log \cup {Len(log')}
      /\ \A i \in DOMAIN log : log'[i] = log[i]
  BY <1>1, <1>4
<1>6. Found' = Found \cup {Len(log')}
  BY <1>1, <1>4, <1>5 DEF Found, DayOf
<1>7. writer[w].day <= today /\ today <= writer[w].day + 1
  BY <1>2 DEF Inv, Timely, Busy
<1> QED
  BY <1>2, <1>3, <1>4, <1>6, <1>7 DEF Trail!Record, Trail!Days, Days

(* Whatever a run does, only what is past the retention, or of a day that  *)
(* two runs work on, can be lost.                                          *)
LEMMA RunForgets ==
  ASSUME Typed, Typed', Inv, Inv', UNCHANGED <<today, log, mixed>>
  PROVE  Trail!Forget
<1>1. log \in Seq([prev : Nat, day : Days])
  BY DEF Typed, TypeOK
<1>2. Found' \in SUBSET DOMAIN log
  BY DEF Found
<1>3. ASSUME NEW d \in Days, d \notin mixed, ~Expired(d, today)
      PROVE  Kept(d) /\ Kept(d)'
  BY <1>3 DEF Inv, Kept, Archived, Whole, AllHot, Filed, Expired
<1>4. ASSUME NEW i \in DOMAIN log, ~Trail!Past(i), log[i].day \notin mixed
      PROVE  i \in Found /\ i \in Found'
  <2>1. log[i].day \in Days
    <3>1. i \in 1 .. Len(log) /\ Len(log) \in Nat
      BY <1>1, <1>4
    <3>2. PICK S : S = [prev : Nat, day : Days]
      OBVIOUS
    <3>3. log \in Seq(S)
      BY <1>1, <3>2
    <3>4. log[i] \in S
      BY <3>1, <3>3
    <3> QED
      BY <3>2, <3>4
  <2>2. PICK d \in Days : d = DayOf(i)
    BY <2>1 DEF DayOf
  <2>3. Kept(d) /\ Kept(d)'
    BY <1>3, <1>4, <2>2 DEF Trail!Past, Expired, DayOf
  <2> QED
    BY <2>2, <2>3 DEF Kept, Found, DayOf
<1> QED
  BY <1>2, <1>4 DEF Trail!Forget

(* The audit log implements the audit trail, for any number of requests,   *)
(* archive runs and failures: every entry is appended once, linked to the  *)
(* one before it and dated when it was made, and stays to be found until   *)
(* it is past the retention, unless two runs worked on its day.            *)
THEOREM ImplementsAuditTrail == Spec => ImplementsTrail
<1>1. Init => Trail!TrailInit
  BY DEF Init, Trail!TrailInit, Found
<1>2. Typed /\ Inv /\ Typed' /\ Inv' /\ [Next]_vars => [Trail!TrailNext]_(Trail!trailVars)
  <2> SUFFICES ASSUME Typed, Inv, Typed', Inv', [Next]_vars
               PROVE  Trail!TrailNext \/ UNCHANGED Trail!trailVars
    OBVIOUS
  <2>a. ASSUME UNCHANGED <<today, log, hot, object, mixed>>
        PROVE  UNCHANGED Trail!trailVars
    BY <2>a, FoundFrame DEF Trail!trailVars
  <2>1. ASSUME NEW w \in Writers, Insert(w) PROVE Trail!TrailNext
    BY <2>1, InsertRecords DEF Trail!TrailNext
  <2>2. ASSUME NEW w \in Writers,
               \/ Connect(w) \/ Lock(w) \/ ReadHead(w) \/ End(w) \/ PoolTimeout(w)
               \/ AppendFails(w) \/ \E mode \in Modes : Write(w, mode)
        PROVE  UNCHANGED Trail!trailVars
    BY <2>2, <2>a DEF Connect, Lock, ReadHead, End, PoolTimeout, AppendFails, Throw, Write, archive
  <2>3. ASSUME NEW r \in Runs, StartRun(r) PROVE Trail!TrailNext
    <3>1. UNCHANGED <<today, log, hot, object>>
      BY <2>3 DEF StartRun, chain
    <3>2. \E days \in SUBSET Days : mixed' = mixed \cup days
      <4>1. mixed' = mixed \cup (Listed(today) \cap UNION {Pending(q) : q \in Runs})
        BY <2>3 DEF StartRun
      <4>2. Listed(today) \cap UNION {Pending(q) : q \in Runs} \in SUBSET Days
        BY DEF Listed, FirstOf, Candidates
      <4> QED
        BY <4>1, <4>2
    <3>3. Trail!Contend
      BY <3>1, <3>2, FoundFrame DEF Trail!Contend, Trail!Days, Days
    <3> QED
      BY <3>3 DEF Trail!TrailNext
  <2>4. ASSUME NEW r \in Runs, RunStep(r) \/ StepFails(r) \/ RunCrashes(r)
        PROVE  Trail!TrailNext
    <3>1. UNCHANGED <<today, log, mixed>>
      BY <2>4, RunMoves DEF chain
    <3> QED
      BY <3>1, RunForgets DEF Trail!TrailNext
  <2>5. CASE NewDay
    <3>1. today < LastDay /\ today' = today + 1 /\ UNCHANGED <<log, hot, object, mixed>>
      BY <2>5 DEF NewDay, chain, archive
    <3>2. Trail!NewDay
      BY <3>1, FoundFrame DEF Trail!NewDay
    <3> QED
      BY <3>2 DEF Trail!TrailNext
  <2>6. CASE UNCHANGED vars
    BY <2>6, <2>a DEF vars, chain, archive
  <2> QED
    BY <2>1, <2>2, <2>3, <2>4, <2>5, <2>6 DEF Next, WriterStep
<1> QED
  BY <1>1, <1>2, SafetyInvariant, PTL DEF Spec, ImplementsTrail, Trail!TrailSpec
================================================================================
