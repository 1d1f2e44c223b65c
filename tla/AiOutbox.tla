------------------------------- MODULE AiOutbox -------------------------------
(* The jobs that hand a customer's message to the external AI flow:        *)
(* zalo-ai-jobs.service.ts, the callback endpoint of                       *)
(* zalo-ai-routing.controller.ts and the manual takeover of                *)
(* zalo.service.ts, on the jobs of one conversation thread.                *)
(*                                                                         *)
(* A job and its outbox row are two rows. Dispatchers (the request that    *)
(* enqueues, and the runs of the five second timer, which nothing keeps    *)
(* from overlapping) post outbox rows to the flow; the flow calls back,    *)
(* perhaps more than once and perhaps before the post has returned. One    *)
(* action is one statement, one transaction or one external call; between  *)
(* two actions of a process anything may happen, its crash included. In    *)
(* mode legacy enqueuing and the timer do nothing, which is a stutter.     *)
(* Operators marked "mutant" are not part of the specification: each is a  *)
(* plausible mistake in the definition after it.                           *)
EXTENDS Naturals, FiniteSets

CONSTANTS Jobs,         \* the events of the thread
          Dispatchers,  \* runs of dispatchOutboxById: enqueuers and timer runs
          Callbacks,    \* requests of the callback endpoint in flight
          MaxAttempts,  \* runtime.maxRetryAttempts
          MaxCrashes,   \* bound: crashes of a process between two statements
          None          \* no job

ASSUME OutboxAssumption ==
  /\ MaxAttempts \in Nat \ {0}
  /\ MaxCrashes \in Nat
  /\ None \notin Jobs

VARIABLES job,      \* AiConversationJob: status, callback stored or not
          outbox,   \* AiConversationOutbox: status, attemptNo, retry time passed
          paused,   \* the thread's pauseUntil lies ahead
          answered, \* jobs whose customer message has a later message of ours
          run,      \* the dispatchers' local variables
          call,     \* the callback requests' local variables
          posts,    \* history: how often the flow was given the event
          replies,  \* history: how often a reply went out for the event
          mixed,    \* history: what has overlapped on the job
          crashes   \* history: crashes so far

thread == <<paused, answered>>
history == <<posts, replies, mixed, crashes>>
vars == <<job, outbox, thread, run, call, history>>

JobStatuses == {"NONE", "QUEUED", "DISPATCHING", "DISPATCHED", "RETRIED",
                "CALLBACK_RECEIVED", "REPLIED", "HANDOFF",
                "SKIPPED_TAKEOVER", "SKIPPED_DISABLED"}
Final == {"REPLIED", "HANDOFF", "SKIPPED_TAKEOVER", "SKIPPED_DISABLED"}
OutboxStatuses == {"NONE", "PENDING", "SENT", "FAILED", "DEAD"}

JobRows == [status : JobStatuses, payload : BOOLEAN]
OutboxRows == [status : OutboxStatuses, attemptNo : 0 .. MaxAttempts, due : BOOLEAN]
Runs == [pc : {"idle", "next", "mark", "post", "ok", "failed"},
         todo : SUBSET Jobs, row : Jobs \cup {None}, attempt : 0 .. MaxAttempts]
Calls == [pc : {"idle", "store", "check", "send", "sent", "clear", "failed"},
          job : Jobs \cup {None}, paused : BOOLEAN]
Overlaps == {"dispatch", "early", "callback", "crash"}

NoRun == [pc |-> "idle", todo |-> {}, row |-> None, attempt |-> 0]
NoCall == [pc |-> "idle", job |-> None, paused |-> FALSE]

Existing == {j \in Jobs : job[j].status # "NONE"}
SettledWhenDead(j) == outbox[j].status = "DEAD" \* mutant
Settled(j) == outbox[j].status \in {"SENT", "DEAD"}
Posting(j) == {d \in Dispatchers : run[d].row = j}
Answering(j) == {c \in Callbacks : call[c].job = j}

Init ==
  /\ job = [j \in Jobs |-> [status |-> "NONE", payload |-> FALSE]]
  /\ outbox = [j \in Jobs |-> [status |-> "NONE", attemptNo |-> 0, due |-> TRUE]]
  /\ paused = FALSE /\ answered = {}
  /\ run = [d \in Dispatchers |-> NoRun]
  /\ call = [c \in Callbacks |-> NoCall]
  /\ posts = [j \in Jobs |-> 0]
  /\ replies = [j \in Jobs |-> 0]
  /\ mixed = [j \in Jobs |-> {}]
  /\ crashes = 0

-------------------------------------------------------------------------------
(* enqueueN8nJob: job and outbox row in one transaction, then the first    *)
(* dispatch by the same request.                                           *)
Enqueue(d, j) ==
  /\ run[d].pc = "idle" /\ job[j].status = "NONE"
  /\ job' = [job EXCEPT ![j].status = "QUEUED"]
  /\ outbox' = [outbox EXCEPT ![j].status = "PENDING"]
  /\ run' = [run EXCEPT ![d] = [NoRun EXCEPT !.pc = "next", !.todo = {j}]]
  /\ UNCHANGED <<thread, call, history>>

(* No channel account or no active route: a job for a person, never sent.  *)
EnqueueHandoff(j) ==
  /\ job[j].status = "NONE"
  /\ job' = [job EXCEPT ![j].status = "HANDOFF"]
  /\ UNCHANGED <<outbox, thread, run, call, history>>

(* flushPendingOutbox: the rows waiting, however many runs are still busy. *)
WaitingUntried == {j \in Jobs : outbox[j].status = "PENDING"} \* mutant
Waiting == {j \in Jobs : \/ outbox[j].status = "PENDING"
                         \/ outbox[j].status = "FAILED" /\ outbox[j].due}

Flush(d) ==
  /\ run[d].pc = "idle" /\ Waiting # {}
  /\ run' = [run EXCEPT ![d] = [NoRun EXCEPT !.pc = "next", !.todo = Waiting]]
  /\ UNCHANGED <<job, outbox, thread, call, history>>

-------------------------------------------------------------------------------
(* dispatchOutboxById reads the row: nothing to do once SENT or DEAD; with *)
(* no URL configured the attempt has failed already.                       *)
Take(d, pc, j) ==
  run' = [run EXCEPT ![d].pc = pc, ![d].todo = @ \ {j}, ![d].row = j,
                     ![d].attempt = outbox[j].attemptNo]

(* On to the next row of the run, or done.                                 *)
RunOn(d, todo) ==
  run' = [run EXCEPT ![d] = IF todo = {} THEN NoRun
                            ELSE [NoRun EXCEPT !.pc = "next", !.todo = todo]]

DispatchSkip(d) ==
  /\ run[d].pc = "next"
  /\ \E j \in run[d].todo : Settled(j) /\ RunOn(d, run[d].todo \ {j})
  /\ UNCHANGED <<job, outbox, thread, call, history>>

DispatchRead(d) ==
  /\ run[d].pc = "next"
  /\ \E j \in run[d].todo, pc \in {"mark", "failed"} :
       /\ ~Settled(j)
       /\ Take(d, pc, j)
       /\ mixed' = [mixed EXCEPT ![j] = IF Posting(j) = {} THEN @ ELSE @ \cup {"dispatch"}]
  /\ UNCHANGED <<job, outbox, thread, call, posts, replies, crashes>>

DispatchMark(d) ==
  /\ run[d].pc = "mark"
  /\ job' = [job EXCEPT ![run[d].row].status = "DISPATCHING"]
  /\ run' = [run EXCEPT ![d].pc = "post"]
  /\ UNCHANGED <<outbox, thread, call, history>>

(* The POST: accepted, accepted but answered too late or with an error, or *)
(* never delivered.                                                        *)
DispatchPost(d) ==
  /\ run[d].pc = "post"
  /\ \E pc \in {"ok", "failed"}, given \in BOOLEAN :
       /\ pc = "ok" => given
       /\ run' = [run EXCEPT ![d].pc = pc]
       /\ posts' = IF given THEN [posts EXCEPT ![run[d].row] = @ + 1] ELSE posts
  /\ UNCHANGED <<job, outbox, thread, call, replies, mixed, crashes>>

DispatchSent(d) ==
  /\ run[d].pc = "ok"
  /\ outbox' = [outbox EXCEPT ![run[d].row] = [status |-> "SENT", due |-> TRUE,
                                               attemptNo |-> run[d].attempt + 1]]
  /\ job' = [job EXCEPT ![run[d].row].status = "DISPATCHED"]
  /\ RunOn(d, run[d].todo)
  /\ UNCHANGED <<thread, call, history>>

(* markOutboxAttemptFailed counts from the attempt that was read.          *)
GivesUpLate(attempt) == attempt >= MaxAttempts \* mutant
GivesUp(attempt) == attempt + 1 >= MaxAttempts
StatusOfRetry(dead) == "RETRIED" \* mutant
StatusAfterFailure(dead) == IF dead THEN "HANDOFF" ELSE "RETRIED"

DispatchFailed(d) ==
  LET j == run[d].row
      dead == GivesUp(run[d].attempt)
  IN /\ run[d].pc = "failed"
     /\ outbox' = [outbox EXCEPT ![j] = [status |-> IF dead THEN "DEAD" ELSE "FAILED",
                                         attemptNo |-> run[d].attempt + 1, due |-> dead]]
     /\ job' = [job EXCEPT ![j].status = StatusAfterFailure(dead)]
     /\ RunOn(d, run[d].todo)
     /\ UNCHANGED <<thread, call, history>>

BackoffElapses(j) ==
  /\ outbox[j].status = "FAILED" /\ ~outbox[j].due
  /\ outbox' = [outbox EXCEPT ![j].due = TRUE]
  /\ UNCHANGED <<job, thread, run, call, history>>

-------------------------------------------------------------------------------
(* registerCallback: finds the job with its thread as they are now; a      *)
(* callback already stored makes this one a duplicate.                     *)
DuplicateWhileOpen(j) == job[j].status = "CALLBACK_RECEIVED" \* mutant
Duplicate(j) == job[j].payload

CallbackRead(c, j) ==
  /\ call[c].pc = "idle"
  /\ posts[j] > 0 /\ ~Duplicate(j)
  /\ call' = [call EXCEPT ![c] = [pc |-> "store", job |-> j, paused |-> paused]]
  /\ mixed' = [mixed EXCEPT ![j] = @ \cup
       (IF Answering(j) # {} THEN {"callback"} ELSE {}) \cup
       (IF Posting(j) # {} \/ outbox[j].status # "SENT" THEN {"early"} ELSE {})]
  /\ UNCHANGED <<job, outbox, thread, run, posts, replies, crashes>>

CallbackStore(c) ==
  /\ call[c].pc = "store"
  /\ job' = [job EXCEPT ![call[c].job] = [status |-> "CALLBACK_RECEIVED", payload |-> TRUE]]
  /\ call' = [call EXCEPT ![c].pc = "check"]
  /\ UNCHANGED <<outbox, thread, run, history>>

(* Asks for a person or carries no text; auto-reply is switched off.       *)
CallbackSkip(c) ==
  /\ call[c].pc = "check"
  /\ \E status \in {"HANDOFF", "SKIPPED_DISABLED"} :
       job' = [job EXCEPT ![call[c].job].status = status]
  /\ call' = [call EXCEPT ![c] = NoCall]
  /\ UNCHANGED <<outbox, thread, run, history>>

(* Paused in the thread that was read, or answered by now.                 *)
TakenOver(c) == call[c].paused \/ call[c].job \in answered

CallbackTakenOver(c) ==
  /\ call[c].pc = "check" /\ TakenOver(c)
  /\ job' = [job EXCEPT ![call[c].job].status = "SKIPPED_TAKEOVER"]
  /\ call' = [call EXCEPT ![c] = NoCall]
  /\ UNCHANGED <<outbox, thread, run, history>>

CallbackAccept(c) ==
  /\ call[c].pc = "check" /\ ~TakenOver(c)
  /\ call' = [call EXCEPT ![c].pc = "send"]
  /\ UNCHANGED <<job, outbox, thread, run, history>>

(* sendPersonalMessage: the message goes out and is ingested, goes out     *)
(* without being ingested, or the channel refuses it.                      *)
CallbackSend(c) ==
  /\ call[c].pc = "send"
  /\ \E out, stored, ok \in BOOLEAN :
       /\ stored => out
       /\ ok => out
       /\ replies' = IF out THEN [replies EXCEPT ![call[c].job] = @ + 1] ELSE replies
       /\ answered' = IF stored THEN answered \cup Existing ELSE answered
       /\ call' = [call EXCEPT ![c].pc = IF ok THEN "sent" ELSE "failed"]
  /\ UNCHANGED <<job, outbox, paused, run, posts, mixed, crashes>>

(* markJobReplied: the job, then the thread with pauseUntil null.          *)
CallbackReplied(c) ==
  /\ call[c].pc = "sent"
  /\ job' = [job EXCEPT ![call[c].job].status = "REPLIED"]
  /\ call' = [call EXCEPT ![c].pc = "clear"]
  /\ UNCHANGED <<outbox, thread, run, history>>

CallbackClear(c) ==
  /\ call[c].pc = "clear"
  /\ paused' = FALSE
  /\ call' = [call EXCEPT ![c] = NoCall]
  /\ UNCHANGED <<job, outbox, answered, run, history>>

(* Whatever throws after the decision to send ends in markJobFailed.       *)
CallbackThrows(c) ==
  /\ call[c].pc \in {"sent", "clear"}
  /\ call' = [call EXCEPT ![c].pc = "failed"]
  /\ UNCHANGED <<job, outbox, thread, run, history>>

CallbackFailed(c) ==
  /\ call[c].pc = "failed"
  /\ job' = [job EXCEPT ![call[c].job].status = "HANDOFF"]
  /\ call' = [call EXCEPT ![c] = NoCall]
  /\ UNCHANGED <<outbox, thread, run, history>>

-------------------------------------------------------------------------------
(* An employee's message (sendPersonalMessage with origin USER) with the   *)
(* takeover after it (markPersonalThreadManualTakeover): one action,       *)
(* because a callback reads the pause first and the messages last, and the *)
(* pause may end at any time.                                              *)
AgentReplies ==
  /\ answered' = answered \cup Existing
  /\ paused' = TRUE
  /\ UNCHANGED <<job, outbox, run, call, history>>

PauseEnds ==
  /\ paused
  /\ paused' = FALSE
  /\ call' = [c \in Callbacks |-> [call[c] EXCEPT !.paused = FALSE]]
  /\ UNCHANGED <<job, outbox, answered, run, history>>

(* A restart, or a statement outside the try block that throws.            *)
RunCrashes(d) ==
  /\ run[d].pc # "idle" /\ crashes < MaxCrashes
  /\ crashes' = crashes + 1
  /\ run' = [run EXCEPT ![d] = NoRun]
  /\ UNCHANGED <<job, outbox, thread, call, posts, replies, mixed>>

CallbackCrashes(c) ==
  /\ call[c].pc # "idle" /\ crashes < MaxCrashes
  /\ crashes' = crashes + 1
  /\ mixed' = [mixed EXCEPT ![call[c].job] = @ \cup {"crash"}]
  /\ call' = [call EXCEPT ![c] = NoCall]
  /\ UNCHANGED <<job, outbox, thread, run, posts, replies>>

-------------------------------------------------------------------------------
RunStep(d) ==
  \/ DispatchSkip(d) \/ DispatchRead(d) \/ DispatchMark(d)
  \/ DispatchPost(d) \/ DispatchSent(d) \/ DispatchFailed(d)

CallbackStep(c) ==
  \/ CallbackStore(c) \/ CallbackSkip(c) \/ CallbackTakenOver(c) \/ CallbackAccept(c)
  \/ CallbackSend(c) \/ CallbackReplied(c) \/ CallbackClear(c) \/ CallbackThrows(c)
  \/ CallbackFailed(c)

Next ==
  \/ \E d \in Dispatchers : RunStep(d) \/ RunCrashes(d) \/ Flush(d)
  \/ \E d \in Dispatchers, j \in Jobs : Enqueue(d, j)
  \/ \E j \in Jobs : EnqueueHandoff(j) \/ BackoffElapses(j)
  \/ \E c \in Callbacks : CallbackStep(c) \/ CallbackCrashes(c)
  \/ \E c \in Callbacks, j \in Jobs : CallbackRead(c, j)
  \/ AgentReplies \/ PauseEnds

Spec == Init /\ [][Next]_vars

(* The timer keeps firing, statements and external calls return, backoff   *)
(* passes, and the mode is not legacy for ever. The flow need not call     *)
(* back, and nobody need write.                                            *)
FairSpec ==
  /\ Spec
  /\ \A d \in Dispatchers : WF_vars(RunStep(d)) /\ WF_vars(Flush(d))
  /\ \A j \in Jobs : WF_vars(BackoffElapses(j))

-------------------------------------------------------------------------------
TypeOK ==
  /\ job \in [Jobs -> JobRows]
  /\ outbox \in [Jobs -> OutboxRows]
  /\ paused \in BOOLEAN /\ answered \subseteq Jobs
  /\ run \in [Dispatchers -> Runs]
  /\ call \in [Callbacks -> Calls]
  /\ posts \in [Jobs -> Nat] /\ replies \in [Jobs -> Nat]
  /\ mixed \in [Jobs -> SUBSET Overlaps]
  /\ crashes \in 0 .. MaxCrashes

(* The customer gets at most one reply to an event, whatever the           *)
(* dispatchers do and however often the flow calls back, as long as the    *)
(* callbacks come one after the other ("co idempotency theo eventId",      *)
(* ADR-055): crashes, late posts and retries do not send it again.         *)
AtMostOneReply == \A j \in Jobs : "callback" \notin mixed[j] => replies[j] <= 1

(* The flow is given an event at most maxRetryAttempts times, plus once    *)
(* for each crash between post and commit, if runs of the timer do not     *)
(* overlap on it (dispatchOutboxById, markOutboxAttemptFailed).            *)
RetryBudget ==
  \A j \in Jobs : "dispatch" \notin mixed[j] => posts[j] <= MaxAttempts + crashes

(* No event is lost ("khong mat event ... handoff khi loi", ADR-055): a    *)
(* job whose outbox row is dead and which got no callback is handed to a   *)
(* person, unless two dispatches overlapped; and a job stays at            *)
(* CALLBACK_RECEIVED only while a request is working on it, unless that    *)
(* request crashed.                                                        *)
NothingLost ==
  \A j \in Jobs :
    /\ outbox[j].status = "DEAD" /\ ~job[j].payload /\ "dispatch" \notin mixed[j]
         => job[j].status = "HANDOFF"
    /\ job[j].status = "CALLBACK_RECEIVED" /\ "crash" \notin mixed[j]
         => Answering(j) # {}

(* Once a job has an outcome and no callback request works on it, the      *)
(* outcome stays, provided that the flow called back only after the        *)
(* dispatch was committed and neither dispatches nor callbacks overlapped. *)
OutcomeStays ==
  [][\A j \in Jobs :
       /\ job[j].status \in Final /\ Answering(j) = {}
       /\ mixed'[j] \subseteq {"crash"}
       => job'[j].status = job[j].status]_vars

(* The queue drains: every outbox row is in the end SENT or DEAD for good, *)
(* even though overlapping runs of the timer write each other's attempt    *)
(* numbers back (flushPendingOutbox, markOutboxAttemptFailed).             *)
QueueDrains ==
  \A j \in Jobs : <>[](outbox[j].status \in {"NONE", "SENT", "DEAD"})
=============================================================================
