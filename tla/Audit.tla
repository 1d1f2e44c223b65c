--------------------------------- MODULE Audit ---------------------------------
(* The audit log: prisma.service.ts appends to a hash chain,               *)
(* audit-archive.service.ts moves old days to the object store.            *)
(*                                                                         *)
(* Every write of a request appends an entry on a connection of its own,   *)
(* so an entry can be there although the transaction that caused it rolled *)
(* back, and a transaction in progress needs a second connection. Archive  *)
(* runs, started by the timer of each process or by hand, export the days  *)
(* past the hot tier and delete them from the table, one statement or call *)
(* of the store at a time. A day of the model is a window of the archive.  *)
(* The object store is configured: without it a run passes every day over  *)
(* and the table keeps everything. A dry run writes nothing and is left    *)
(* out.                                                                    *)
(* Operators marked "mutant" are not part of the specification: each is a  *)
(* plausible mistake in the definition after it.                           *)
EXTENDS Naturals, Sequences, FiniteSets

CONSTANTS Writers,        \* requests that write
          Runs,           \* archive runs: timers and requests
          LastDay,        \* bound: days that pass
          LastWrite,      \* bound: day of the last write
          HotDays,        \* auditHotRetentionMonths
          RetentionDays,  \* auditRetentionYears
          MaxEntries,     \* bound: entries ever appended
          Connections,    \* size of the connection pool
          Chunk,          \* exportChunkSize
          MaxWindows,     \* windows of one run
          MaxFailures,    \* bound: statements and calls that fail, restarts
          None            \* nobody

ASSUME AuditAssumption ==
  /\ LastDay \in Nat /\ LastWrite \in Nat /\ HotDays \in Nat \ {0} /\ RetentionDays \in Nat
  /\ HotDays <= RetentionDays
  /\ MaxEntries \in Nat /\ Connections \in Nat \ {0} /\ Chunk \in Nat \ {0}
  /\ MaxWindows \in Nat \ {0} /\ MaxFailures \in Nat
  /\ IsFiniteSet(Writers)
  /\ None \notin Writers

VARIABLES today,
          log,        \* every AuditLog row ever inserted, by insertion
          hot,        \* those still in the table
          head,       \* AuditChainState.lastLogId, 0 before the first entry
          holder,     \* who holds the row lock on AuditChainState
          manifest,   \* AuditArchiveManifest of each day
          object,     \* the file of each day: the entries in it
          writer,     \* local variables of the writing requests
          run,        \* local variables of the archive runs
          failures,
          mixed,      \* history: days that two runs had on their list at once
          hurt        \* history: days in which a run failed

chain == <<log, head, holder, writer>>
archive == <<manifest, object, run, mixed, hurt>>
vars == <<today, hot, chain, archive, failures>>

Days == 0 .. LastDay
Entries == 1 .. MaxEntries
ManifestRows == [status : {"NONE", "PENDING", "COMPLETED", "FAILED", "NOOP"},
                 key : BOOLEAN, pruned : BOOLEAN]
(* A write on its own, or the read of something sensitive; a transaction.  *)
Modes == {"alone", "transaction"}

NoWriter == [pc |-> "idle", mode |-> "alone", day |-> 0, prev |-> 0]
NoRun == [pc |-> "idle", now |-> 0, todo |-> {}, seen |-> FALSE, rows |-> {},
          expired |-> FALSE]

Init ==
  /\ today = 0 /\ log = <<>> /\ hot = {} /\ head = 0 /\ holder = None
  /\ manifest = [d \in Days |-> [status |-> "NONE", key |-> FALSE, pruned |-> FALSE]]
  /\ object = [d \in Days |-> {}]
  /\ writer = [w \in Writers |-> NoWriter]
  /\ run = [r \in Runs |-> NoRun]
  /\ failures = 0 /\ mixed = {} /\ hurt = {}

-------------------------------------------------------------------------------
(* Writes: auditWriteMiddleware and appendAuditLog.                        *)
Busy(w) == writer[w].pc # "idle"
(* A transaction holds a connection while it runs, an append another.      *)
InUse == Cardinality({w \in Writers : Busy(w) /\ writer[w].mode = "transaction"})
         + Cardinality({w \in Writers : writer[w].pc \in {"lock", "chain", "insert"}})
(* Mutant: one connection too many.                                        *)
ConnectionExpected == InUse <= Connections
ConnectionLeft == InUse < Connections
Release(w) == writer' = [writer EXCEPT ![w] = NoWriter]

(* The write itself; createdAt is taken when the append begins.            *)
Write(w, mode) ==
  /\ ~Busy(w) /\ today <= LastWrite
  /\ Len(log) + Cardinality({v \in Writers : Busy(v)}) < MaxEntries
  /\ mode = "transaction" => ConnectionLeft
  /\ writer' = [writer EXCEPT ![w] = [NoWriter EXCEPT !.pc = "append", !.mode = mode,
                                                      !.day = today]]
  /\ UNCHANGED <<today, hot, log, head, holder, archive, failures>>

Connect(w) ==
  /\ writer[w].pc = "append" /\ ConnectionLeft
  /\ writer' = [writer EXCEPT ![w].pc = "lock"]
  /\ UNCHANGED <<today, hot, log, head, holder, archive, failures>>

(* SELECT ... FOR UPDATE on the chain state.                               *)
(* Mutant: the row is read without the lock.                               *)
Unlocked(w) == TRUE
Free(w) == holder = None

Lock(w) ==
  /\ writer[w].pc = "lock" /\ Free(w)
  /\ holder' = w
  /\ writer' = [writer EXCEPT ![w].pc = "chain"]
  /\ UNCHANGED <<today, hot, log, head, archive, failures>>

ReadHead(w) ==
  /\ writer[w].pc = "chain"
  /\ writer' = [writer EXCEPT ![w].pc = "insert", ![w].prev = head]
  /\ UNCHANGED <<today, hot, log, head, holder, archive, failures>>

(* The entry and the chain state commit together.                          *)
Insert(w) ==
  /\ writer[w].pc = "insert"
  /\ log' = Append(log, [prev |-> writer[w].prev, day |-> writer[w].day])
  /\ hot' = hot \cup {Len(log')}
  /\ head' = Len(log')
  /\ holder' = None
  /\ IF writer[w].mode = "transaction" THEN writer' = [writer EXCEPT ![w].pc = "commit"]
     ELSE Release(w)
  /\ UNCHANGED <<today, archive, failures>>

(* The transaction commits, or a later statement rolls it back: the entry  *)
(* stays.                                                                  *)
End(w) ==
  /\ writer[w].pc = "commit"
  /\ Release(w)
  /\ UNCHANGED <<today, hot, log, head, holder, archive, failures>>

(* The append throws: a transaction rolls back, otherwise the caller sees  *)
(* an error although the write is committed, a reader nothing.             *)
Throw(w) ==
  /\ holder' = IF holder = w THEN None ELSE holder
  /\ Release(w)
  /\ UNCHANGED <<today, hot, log, head, archive>>

AppendFails(w) ==
  /\ writer[w].pc \in {"append", "lock", "chain", "insert"} /\ failures < MaxFailures
  /\ failures' = failures + 1
  /\ Throw(w)

(* No connection becomes free in time. Mutant: only those wait in vain that *)
(* hold none themselves.                                                    *)
StarvedAlone(w) ==
  writer[w].pc = "append" /\ writer[w].mode = "alone" /\ ~ConnectionLeft
Starved(w) == writer[w].pc = "append" /\ ~ConnectionLeft
PoolTimeout(w) ==
  /\ Starved(w)
  /\ Throw(w)
  /\ UNCHANGED failures

-------------------------------------------------------------------------------
(* Archive runs: runDataGovernanceMaintenance, runArchiveAndPrune.         *)
DayOf(i) == log[i].day
RowsOf(d) == {i \in hot : DayOf(i) = d}
Cold(d, now) == d + HotDays < now
Expired(d, now) == d + RetentionDays < now

(* Mutant: days without rows are listed too.                               *)
CandidatesEmpty(now) == {d \in Days : Cold(d, now) /\ ~Expired(d, now)}
(* Mutant: a day that was tried before is not listed again.                *)
CandidatesUntried(now) ==
  {d \in Days : Cold(d, now) /\ ~Expired(d, now) /\ RowsOf(d) # {}
                /\ manifest[d].status = "NONE"}
(* listCandidateWindows: the oldest days with rows in the table.           *)
Candidates(now) == {d \in Days : Cold(d, now) /\ ~Expired(d, now) /\ RowsOf(d) # {}}
FirstOf(S, n) == {i \in S : Cardinality({j \in S : j < i}) < n}
Listed(now) == FirstOf(Candidates(now), MaxWindows)

(* A run takes the days of its list in order.                              *)
Pending(r) == run[r].todo
Window(r) == CHOOSE d \in Pending(r) : \A e \in Pending(r) : d <= e

StartRun(r) ==
  /\ run[r].pc = "idle"
  /\ run' = [run EXCEPT ![r] = [NoRun EXCEPT !.pc = "window", !.now = today,
       !.todo = Listed(today), !.expired = \E i \in hot : Expired(DayOf(i), today)]]
  /\ mixed' = mixed \cup (Listed(today) \cap UNION {Pending(q) : q \in Runs})
  /\ UNCHANGED <<today, hot, chain, manifest, object, hurt, failures>>

Goto(r, pc) == run' = [run EXCEPT ![r].pc = pc]
NextWindow(r) == run' = [run EXCEPT ![r].pc = "window", ![r].todo = @ \ {Window(r)},
                                    ![r].seen = FALSE, ![r].rows = {}]

(* ensureManifest: look for the row, then reset or create it.              *)
FindManifest(r) ==
  /\ run[r].pc = "window" /\ run[r].todo # {}
  /\ run' = [run EXCEPT ![r].pc = "manifest",
                        ![r].seen = manifest[Window(r)].status # "NONE"]
  /\ UNCHANGED <<today, hot, chain, manifest, object, mixed, hurt, failures>>

WriteManifest(r) ==
  /\ run[r].pc = "manifest"
  /\ run[r].seen \/ manifest[Window(r)].status = "NONE"
  /\ manifest' = [manifest EXCEPT ![Window(r)].status = "PENDING"]
  /\ Goto(r, "read")
  /\ UNCHANGED <<today, hot, chain, object, mixed, hurt, failures>>

(* The other run created the row in between: unique key.                   *)
ManifestExists(r) ==
  /\ run[r].pc = "manifest" /\ ~run[r].seen /\ manifest[Window(r)].status # "NONE"
  /\ Goto(r, "failed")
  /\ UNCHANGED <<today, hot, chain, manifest, object, mixed, hurt, failures>>

(* readWindowRows: chunks in order, each after the last row of the one     *)
(* before; nothing follows a row that is gone. Mutant: one chunk is read.  *)
AfterNothing(r) == IF run[r].rows = {} THEN RowsOf(Window(r)) ELSE {}
After(r) ==
  LET last == {i \in run[r].rows : \A j \in run[r].rows : j <= i}
  IN IF last \subseteq hot THEN {i \in RowsOf(Window(r)) : \A j \in last : i > j} ELSE {}

ReadChunk(r) ==
  /\ run[r].pc = "read"
  /\ IF After(r) # {} THEN run' = [run EXCEPT ![r].rows = @ \cup FirstOf(After(r), Chunk)]
     ELSE Goto(r, IF run[r].rows = {} THEN "noop" ELSE "upload")
  /\ UNCHANGED <<today, hot, chain, manifest, object, mixed, hurt, failures>>

Noop(r) ==
  /\ run[r].pc = "noop"
  /\ manifest' = [manifest EXCEPT ![Window(r)].status = "NOOP", ![Window(r)].pruned = TRUE]
  /\ NextWindow(r)
  /\ UNCHANGED <<today, hot, chain, object, mixed, hurt, failures>>

(* uploadObject replaces the file of the day, verifyObjectExists finds it. *)
Upload(r) ==
  /\ run[r].pc = "upload"
  /\ object' = [object EXCEPT ![Window(r)] = run[r].rows]
  /\ run' = [run EXCEPT ![r].pc = "complete", ![r].rows = {}]
  /\ UNCHANGED <<today, hot, chain, manifest, mixed, hurt, failures>>

Complete(r) ==
  /\ run[r].pc = "complete"
  /\ manifest' = [manifest EXCEPT ![Window(r)].status = "COMPLETED", ![Window(r)].key = TRUE]
  /\ Goto(r, "prune")
  /\ UNCHANGED <<today, hot, chain, object, mixed, hurt, failures>>

(* pruneWindow.                                                            *)
Pruned(r) == {i \in RowsOf(Window(r)) : ~Expired(DayOf(i), run[r].now)}

Prune(r) ==
  /\ run[r].pc = "prune"
  /\ hot' = hot \ Pruned(r)
  /\ Goto(r, "pruned")
  /\ UNCHANGED <<today, chain, manifest, object, mixed, hurt, failures>>

MarkPruned(r) ==
  /\ run[r].pc = "pruned"
  /\ manifest' = [manifest EXCEPT ![Window(r)].pruned = TRUE]
  /\ NextWindow(r)
  /\ UNCHANGED <<today, hot, chain, object, mixed, hurt, failures>>

(* A statement or a call of the store throws.                              *)
InWindow == {"manifest", "read", "noop", "upload", "complete", "prune", "pruned"}
StepFails(r) ==
  /\ run[r].pc \in InWindow /\ failures < MaxFailures
  /\ failures' = failures + 1
  /\ hurt' = hurt \cup {Window(r)}
  /\ Goto(r, "failed")
  /\ UNCHANGED <<today, hot, chain, manifest, object, mixed>>

WriteFailed(r) ==
  /\ run[r].pc = "failed"
  /\ manifest' = [manifest EXCEPT ![Window(r)].status = IF @ = "NONE" THEN @ ELSE "FAILED"]
  /\ NextWindow(r)
  /\ UNCHANGED <<today, hot, chain, object, mixed, hurt, failures>>

(* At last the entries past the retention are deleted, if some were        *)
(* counted when the run began.                                             *)
DeleteExpired(r) ==
  /\ run[r].pc = "window" /\ run[r].todo = {}
  /\ hot' = IF run[r].expired THEN {i \in hot : ~Expired(DayOf(i), run[r].now)} ELSE hot
  /\ run' = [run EXCEPT ![r] = NoRun]
  /\ UNCHANGED <<today, chain, manifest, object, mixed, hurt, failures>>

(* The process restarts, or writing FAILED throws: the run is over.        *)
RunCrashes(r) ==
  /\ run[r].pc # "idle" /\ failures < MaxFailures
  /\ failures' = failures + 1
  /\ hurt' = hurt \cup Pending(r)
  /\ run' = [run EXCEPT ![r] = NoRun]
  /\ UNCHANGED <<today, hot, chain, manifest, object, mixed>>

-------------------------------------------------------------------------------
(* A request does not last a day.                                          *)
NewDay ==
  /\ today < LastDay
  /\ \A w \in Writers : Busy(w) => writer[w].day = today
  /\ today' = today + 1
  /\ UNCHANGED <<hot, chain, archive, failures>>

WriterStep(w) ==
  \/ Connect(w) \/ Lock(w) \/ ReadHead(w) \/ Insert(w) \/ End(w) \/ PoolTimeout(w)

RunStep(r) ==
  \/ FindManifest(r) \/ WriteManifest(r) \/ ManifestExists(r) \/ ReadChunk(r) \/ Noop(r)
  \/ Upload(r) \/ Complete(r) \/ Prune(r) \/ MarkPruned(r) \/ WriteFailed(r)
  \/ DeleteExpired(r)

Next ==
  \/ \E w \in Writers : WriterStep(w) \/ AppendFails(w)
  \/ \E w \in Writers, mode \in Modes : Write(w, mode)
  \/ \E r \in Runs : StartRun(r) \/ RunStep(r) \/ StepFails(r) \/ RunCrashes(r)
  \/ NewDay

Spec == Init /\ [][Next]_vars
(* Statements return or time out, and the timer starts a run every day.    *)
FairSpec ==
  /\ Spec
  /\ \A w \in Writers : WF_vars(WriterStep(w))
  /\ \A r \in Runs : WF_vars(RunStep(r)) /\ WF_vars(StartRun(r))

-------------------------------------------------------------------------------
WriterRows ==
  [pc : {"idle", "append", "lock", "chain", "insert", "commit"}, mode : Modes,
   day : Days, prev : 0 .. Len(log)]
RunRows ==
  [pc : InWindow \cup {"idle", "window", "failed"}, now : Days, todo : SUBSET Days,
   seen : BOOLEAN, rows : SUBSET DOMAIN log, expired : BOOLEAN]
TypeOK ==
  /\ today \in Days
  /\ log \in Seq([prev : Nat, day : Days]) /\ Len(log) <= MaxEntries
  /\ hot \subseteq DOMAIN log
  /\ head \in 0 .. Len(log) /\ holder \in Writers \cup {None}
  /\ manifest \in [Days -> ManifestRows]
  /\ object \in [Days -> SUBSET DOMAIN log]
  /\ writer \in [Writers -> WriterRows] /\ run \in [Runs -> RunRows]
  /\ failures \in 0 .. MaxFailures /\ InUse \in 0 .. Connections
  /\ mixed \subseteq Days /\ hurt \subseteq Days

(* What can be found, in the table or in the file of its day.              *)
Found == {i \in DOMAIN log : i \in hot \/ i \in object[DayOf(i)]}
Trail == INSTANCE AuditTrail WITH entries <- log, found <- Found, contended <- mixed

(* The log is an audit trail: under every overlap and failure of requests  *)
(* and runs, each entry is appended once, linked to its predecessor and    *)
(* dated when it was made, none is changed, and what can be found changes  *)
(* only past the retention or on days that two runs worked on              *)
(* (appendAuditLog, runArchiveAndPrune).                                   *)
ImplementsTrail == Trail!TrailSpec

(* Archiving loses nothing: an entry within the retention is in the table  *)
(* or in the file of its day, whatever fails and whenever a run is cut     *)
(* off, as long as no second run had the same day on its list.             *)
Kept(d) == \A i \in DOMAIN log : DayOf(i) = d => i \in hot \/ i \in object[d]
NothingLost == \A d \in Days \ mixed : Expired(d, today) \/ Kept(d)

(* What left the table is found by the query of the archive (COMPLETED,    *)
(* with a key), if no run of that day failed or overlapped another.        *)
Gone(d) == \E i \in DOMAIN log : DayOf(i) = d /\ i \notin hot
ArchiveIsShown ==
  \A d \in Days \ (mixed \cup hurt) :
    Gone(d) /\ ~Expired(d, today) => manifest[d].status = "COMPLETED" /\ manifest[d].key

(* The table is relieved: every entry past the hot tier leaves it, where   *)
(* an object store is configured (runArchiveAndPrune).                     *)
OldEntriesLeave ==
  \A i \in Entries : (i \in hot /\ Cold(DayOf(i), today)) ~> (i \notin hot)

(* Every request returns, also when all connections are held by            *)
(* transactions that wait for one more.                                    *)
WritersReturn == \A w \in Writers : Busy(w) ~> ~Busy(w)
=============================================================================
