---------------------------- MODULE AiOutboxProofs ----------------------------
(* Machine-checked theorems about AiOutbox, for every set of events, every *)
(* number of dispatchers, callbacks and crashes, and every retry limit.    *)
EXTENDS AiOutbox, TLAPS

(* A run has a row exactly while it works on one, and has then attempts    *)
(* left; a callback request has a job exactly while it is in flight; and   *)
(* an outbox row that is not settled has attempts left.                    *)
Working == {"mark", "post", "ok", "failed"}
Shapes ==
  /\ \A d \in Dispatchers :
       /\ run[d].pc \in Working <=> run[d].row # None
       /\ run[d].row # None => run[d].attempt < MaxAttempts
  /\ \A c \in Callbacks : call[c].pc # "idle" <=> call[c].job # None
  /\ \A j \in Jobs :
       /\ ~Settled(j) => outbox[j].attemptNo < MaxAttempts
       /\ job[j].status = "NONE" => outbox[j].status = "NONE"

Typed == TypeOK /\ Shapes

(* The steps that end a request or a run.                                  *)
LEMMA NoRunType == NoRun \in Runs /\ NoRun.row = None /\ NoRun.pc = "idle"
BY OutboxAssumption DEF NoRun, Runs

LEMMA NoCallType == NoCall \in Calls /\ NoCall.job = None /\ NoCall.pc = "idle"
BY DEF NoCall, Calls

LEMMA NextType ==
  ASSUME NEW todo \in SUBSET Jobs
  PROVE  LET r == [NoRun EXCEPT !.pc = "next", !.todo = todo]
         IN r \in Runs /\ r.row = None /\ r.pc \notin Working
BY NoRunType DEF Runs, Working

LEMMA RunOnKeeps ==
  ASSUME Typed, NEW d \in Dispatchers, NEW todo \in SUBSET Jobs, RunOn(d, todo)
  PROVE  /\ run' \in [Dispatchers -> Runs]
         /\ run'[d].row = None /\ run'[d].pc \notin Working
         /\ \A e \in Dispatchers : e # d => run'[e] = run[e]
<1> DEFINE next == [NoRun EXCEPT !.pc = "next", !.todo = todo]
<1>1. next \in Runs /\ next.row = None /\ next.pc \notin Working
  BY NextType
<1>2. run' = [run EXCEPT ![d] = NoRun] \/ run' = [run EXCEPT ![d] = next]
  BY DEF RunOn
<1> HIDE DEF next
<1> QED
  BY <1>1, <1>2, NoRunType DEF Typed, TypeOK, Working

(* Every step keeps the types and the shapes.                              *)
LEMMA TypedStep == Typed /\ [Next]_vars => Typed'
<1> SUFFICES ASSUME Typed, [Next]_vars PROVE Typed'
  OBVIOUS
<1> USE OutboxAssumption
<1>1. ASSUME NEW d \in Dispatchers, NEW j \in Jobs, Enqueue(d, j) PROVE Typed'
  <2> DEFINE next == [NoRun EXCEPT !.pc = "next", !.todo = {j}]
  <2>1. next \in Runs /\ next.row = None /\ next.pc \notin Working
    BY NextType
  <2>2. run' = [run EXCEPT ![d] = next]
    BY <1>1 DEF Enqueue
  <2>3. job' \in [Jobs -> JobRows] /\ outbox' \in [Jobs -> OutboxRows]
    BY <1>1 DEF Enqueue, Typed, TypeOK, JobRows, JobStatuses, OutboxRows, OutboxStatuses
  <2> HIDE DEF next
  <2>4. \A i \in Jobs : /\ ~Settled(i)' => outbox'[i].attemptNo < MaxAttempts
                        /\ job'[i].status = "NONE" => outbox'[i].status = "NONE"
    BY <1>1 DEF Enqueue, Typed, TypeOK, Shapes, Settled, JobRows, OutboxRows
  <2>5. UNCHANGED <<thread, call, history>>
    BY <1>1 DEF Enqueue
  <2>6. Shapes'
    BY <2>1, <2>2, <2>4, <2>5 DEF Typed, TypeOK, Shapes
  <2> QED
    BY <2>1, <2>2, <2>3, <2>5, <2>6 DEF Typed, TypeOK, thread, history
<1>2. ASSUME NEW j \in Jobs, EnqueueHandoff(j) PROVE Typed'
  BY <1>2 DEF EnqueueHandoff, Typed, TypeOK, Shapes, thread, history, JobRows, JobStatuses,
     Settled
<1>3. ASSUME NEW d \in Dispatchers, Flush(d) PROVE Typed'
  <2> DEFINE next == [NoRun EXCEPT !.pc = "next", !.todo = Waiting]
  <2>1. next \in Runs /\ next.row = None /\ next.pc \notin Working
    BY NextType DEF Waiting
  <2>2. run' = [run EXCEPT ![d] = next]
    BY <1>3 DEF Flush
  <2> HIDE DEF next
  <2> QED
    BY <1>3, <2>1, <2>2 DEF Flush, Typed, TypeOK, Shapes, thread, history, Settled
<1>4. ASSUME NEW d \in Dispatchers, DispatchSkip(d) PROVE Typed'
  <2>1. PICK j \in run[d].todo : RunOn(d, run[d].todo \ {j})
    BY <1>4 DEF DispatchSkip
  <2>2. run[d].todo \ {j} \in SUBSET Jobs
    BY DEF Typed, TypeOK, Runs
  <2> QED
    BY <1>4, <2>1, <2>2, RunOnKeeps DEF DispatchSkip, Typed, TypeOK, Shapes, thread, history,
       Settled
<1>5. ASSUME NEW d \in Dispatchers, DispatchRead(d) PROVE Typed'
  <2>1. PICK j \in run[d].todo, pc \in {"mark", "failed"} :
          /\ ~Settled(j) /\ Take(d, pc, j)
          /\ mixed' = [mixed EXCEPT ![j] = IF Posting(j) = {} THEN @ ELSE @ \cup {"dispatch"}]
    BY <1>5 DEF DispatchRead
  <2>2. j \in Jobs /\ run[d] \in Runs /\ outbox[j].attemptNo \in 0 .. MaxAttempts
    BY DEF Typed, TypeOK, Runs, OutboxRows
  <2> DEFINE r == [run[d] EXCEPT !.pc = pc, !.todo = run[d].todo \ {j}, !.row = j,
                                 !.attempt = outbox[j].attemptNo]
  <2>3. r \in Runs /\ r.pc \in Working /\ r.row = j /\ r.attempt < MaxAttempts
    BY <2>1, <2>2 DEF Runs, Working, Typed, Shapes
  <2>4. run' = [run EXCEPT ![d] = r]
    BY <2>1, <2>2 DEF Take, Typed, TypeOK, Runs
  <2>5. mixed' \in [Jobs -> SUBSET Overlaps]
    BY <2>1, <2>2 DEF Typed, TypeOK, Overlaps
  <2> HIDE DEF r
  <2> QED
    BY <1>5, <2>2, <2>3, <2>4, <2>5 DEF DispatchRead, Typed, TypeOK, Shapes, thread, Settled
<1>6. ASSUME NEW d \in Dispatchers, DispatchMark(d) PROVE Typed'
  <2>1. run[d].row \in Jobs
    BY <1>6 DEF DispatchMark, Typed, TypeOK, Shapes, Runs, Working
  <2>2. job' \in [Jobs -> JobRows]
    BY <1>6, <2>1 DEF DispatchMark, Typed, TypeOK, JobRows, JobStatuses
  <2>3. run' = [run EXCEPT ![d] = [run[d] EXCEPT !.pc = "post"]]
          /\ [run[d] EXCEPT !.pc = "post"] \in Runs
    BY <1>6 DEF DispatchMark, Typed, TypeOK, Runs
  <2> QED
    BY <1>6, <2>1, <2>2, <2>3 DEF DispatchMark, Typed, TypeOK, Shapes, thread, history,
       Working, Settled
<1>7. ASSUME NEW d \in Dispatchers, DispatchPost(d) PROVE Typed'
  <2>1. run[d].row \in Jobs
    BY <1>7 DEF DispatchPost, Typed, TypeOK, Shapes, Runs, Working
  <2>2. posts' \in [Jobs -> Nat]
    BY <1>7, <2>1 DEF DispatchPost, Typed, TypeOK
  <2> QED
    BY <1>7, <2>1, <2>2 DEF DispatchPost, Typed, TypeOK, Shapes, thread, Runs, Working, Settled
<1>8. ASSUME NEW d \in Dispatchers, DispatchSent(d) PROVE Typed'
  <2>1. run[d].row \in Jobs /\ run[d].attempt \in Nat /\ run[d].attempt < MaxAttempts
    BY <1>8 DEF DispatchSent, Typed, TypeOK, Shapes, Runs, Working
  <2>2. run[d].todo \in SUBSET Jobs /\ RunOn(d, run[d].todo)
    BY <1>8 DEF DispatchSent, Typed, TypeOK, Runs
  <2>3. outbox' \in [Jobs -> OutboxRows]
    <3>1. [status |-> "SENT", due |-> TRUE, attemptNo |-> run[d].attempt + 1] \in OutboxRows
      BY <2>1 DEF OutboxRows, OutboxStatuses
    <3> QED
      BY <1>8, <2>1, <3>1 DEF DispatchSent, Typed, TypeOK
  <2>4. job' \in [Jobs -> JobRows]
    BY <1>8, <2>1 DEF DispatchSent, Typed, TypeOK, JobRows, JobStatuses
  <2> QED
    BY <1>8, <2>1, <2>2, <2>3, <2>4, RunOnKeeps DEF DispatchSent, Typed, TypeOK, Shapes, thread,
       history, Settled
<1>9. ASSUME NEW d \in Dispatchers, DispatchFailed(d) PROVE Typed'
  <2>1. run[d].row \in Jobs /\ run[d].attempt \in Nat /\ run[d].attempt < MaxAttempts
    BY <1>9 DEF DispatchFailed, Typed, TypeOK, Shapes, Runs, Working
  <2>2. run[d].todo \in SUBSET Jobs /\ RunOn(d, run[d].todo)
    BY <1>9 DEF DispatchFailed, Typed, TypeOK, Runs
  <2>3. outbox' \in [Jobs -> OutboxRows] /\ job' \in [Jobs -> JobRows]
    BY <1>9, <2>1 DEF DispatchFailed, Typed, TypeOK, JobRows, JobStatuses, OutboxRows,
       OutboxStatuses, StatusAfterFailure, GivesUp
  <2> QED
    BY <1>9, <2>1, <2>2, <2>3, RunOnKeeps DEF DispatchFailed, Typed, TypeOK, Shapes, thread,
       history, Settled, GivesUp, StatusAfterFailure
<1>10. ASSUME NEW j \in Jobs, BackoffElapses(j) PROVE Typed'
  BY <1>10 DEF BackoffElapses, Typed, TypeOK, Shapes, thread, history, OutboxRows, Settled
<1>11. ASSUME NEW c \in Callbacks, NEW j \in Jobs, CallbackRead(c, j) PROVE Typed'
  <2>1. mixed' \in [Jobs -> SUBSET Overlaps]
    BY <1>11 DEF CallbackRead, Typed, TypeOK, Overlaps
  <2>2. [pc |-> "store", job |-> j, paused |-> paused] \in Calls
    BY DEF Calls, Typed, TypeOK
  <2> DEFINE stored == [pc |-> "store", job |-> j, paused |-> paused]
  <2>3. call' = [call EXCEPT ![c] = stored] /\ stored.pc # "idle" /\ stored.job # None
    BY <1>11 DEF CallbackRead
  <2> HIDE DEF stored
  <2> QED
    BY <1>11, <2>1, <2>2, <2>3 DEF CallbackRead, Typed, TypeOK, Shapes, thread, Settled, stored
<1>12. ASSUME NEW c \in Callbacks, CallbackStep(c) PROVE Typed'
  <2>1. call[c].pc # "idle" => call[c].job \in Jobs
    BY DEF Typed, TypeOK, Shapes, Calls
  <2>2. CASE CallbackStore(c)
    BY <2>1, <2>2 DEF CallbackStore, Typed, TypeOK, Shapes, thread, history, JobRows,
       JobStatuses, Calls, Settled
  <2>3. CASE CallbackSkip(c)
    BY <2>1, <2>3, NoCallType DEF CallbackSkip, Typed, TypeOK, Shapes, thread, history,
       JobRows, JobStatuses, Settled
  <2>4. CASE CallbackTakenOver(c)
    BY <2>1, <2>4, NoCallType DEF CallbackTakenOver, Typed, TypeOK, Shapes, thread, history,
       JobRows, JobStatuses, Settled
  <2>5. CASE CallbackAccept(c)
    BY <2>5 DEF CallbackAccept, Typed, TypeOK, Shapes, thread, history, Calls, Settled
  <2>6. CASE CallbackSend(c)
    <3>1. replies' \in [Jobs -> Nat] /\ answered' \subseteq Jobs
      BY <2>1, <2>6 DEF CallbackSend, Typed, TypeOK, Existing
    <3> QED
      BY <2>6, <3>1 DEF CallbackSend, Typed, TypeOK, Shapes, Calls, Settled
  <2>7. CASE CallbackReplied(c)
    BY <2>1, <2>7 DEF CallbackReplied, Typed, TypeOK, Shapes, thread, history, JobRows,
       JobStatuses, Calls, Settled
  <2>8. CASE CallbackClear(c)
    BY <2>8, NoCallType DEF CallbackClear, Typed, TypeOK, Shapes, history, Settled
  <2>9. CASE CallbackThrows(c)
    BY <2>9 DEF CallbackThrows, Typed, TypeOK, Shapes, thread, history, Calls, Settled
  <2>10. CASE CallbackFailed(c)
    BY <2>1, <2>10, NoCallType DEF CallbackFailed, Typed, TypeOK, Shapes, thread, history,
       JobRows, JobStatuses, Settled
  <2> QED
    BY <1>12, <2>2, <2>3, <2>4, <2>5, <2>6, <2>7, <2>8, <2>9, <2>10 DEF CallbackStep
<1>13. ASSUME AgentReplies PROVE Typed'
  BY <1>13 DEF AgentReplies, Typed, TypeOK, Shapes, history, Existing, Settled
<1>14. ASSUME PauseEnds PROVE Typed'
  <2>1. \A c \in Callbacks : [call[c] EXCEPT !.paused = FALSE] \in Calls
    BY DEF Typed, TypeOK, Calls
  <2> QED
    BY <1>14, <2>1 DEF PauseEnds, Typed, TypeOK, Shapes, history, Settled, Calls
<1>15. ASSUME NEW d \in Dispatchers, RunCrashes(d) PROVE Typed'
  BY <1>15, NoRunType DEF RunCrashes, Typed, TypeOK, Shapes, thread, Settled, Working
<1>16. ASSUME NEW c \in Callbacks, CallbackCrashes(c) PROVE Typed'
  <2>1. mixed' \in [Jobs -> SUBSET Overlaps]
    BY <1>16 DEF CallbackCrashes, Typed, TypeOK, Overlaps
  <2> QED
    BY <1>16, <2>1, NoCallType DEF CallbackCrashes, Typed, TypeOK, Shapes, thread, Settled
<1>17. CASE UNCHANGED vars
  BY <1>17 DEF vars, thread, history, Typed, TypeOK, Shapes, Settled
<1> QED
  BY <1>1, <1>2, <1>3, <1>4, <1>5, <1>6, <1>7, <1>8, <1>9, <1>10, <1>11, <1>12, <1>13, <1>14,
     <1>15, <1>16, <1>17 DEF Next, RunStep

LEMMA TypedInit == Init => Typed
<1> SUFFICES ASSUME Init PROVE Typed
  OBVIOUS
<1>1. 0 \in 0 .. MaxAttempts /\ 0 \in 0 .. MaxCrashes /\ 0 < MaxAttempts
  BY OutboxAssumption
<1>2. job \in [Jobs -> JobRows] /\ outbox \in [Jobs -> OutboxRows]
  BY <1>1 DEF Init, JobRows, JobStatuses, OutboxRows, OutboxStatuses
<1>3. TypeOK
  BY <1>1, <1>2, NoRunType, NoCallType DEF Init, TypeOK, Overlaps
<1>4. Shapes
  BY <1>1, NoRunType, NoCallType DEF Init, Shapes, Settled, Working
<1> QED
  BY <1>3, <1>4 DEF Typed

(* Every reachable state has the types of TypeOK.                          *)
THEOREM TypeCorrect == Spec => []TypeOK
<1>1. Spec => []Typed
  BY TypedInit, TypedStep, PTL DEF Spec
<1>2. Typed => TypeOK
  BY DEF Typed
<1> QED
  BY <1>1, <1>2, PTL

-------------------------------------------------------------------------------
(* Dispatching one event, as long as no two dispatches of it overlapped:   *)
(* who works on its row read the current attempt number, each attempt was  *)
(* given to the flow at most once, and the attempt that is not yet counted *)
(* is the one in the hands of a dispatcher after its post.                 *)
Posted == {"ok", "failed"}
Dispatching(j) ==
  "dispatch" \notin mixed[j] =>
    /\ \A d, e \in Posting(j) : d = e
    /\ \A d \in Posting(j) : ~Settled(j) /\ run[d].attempt = outbox[j].attemptNo
    /\ posts[j] <= outbox[j].attemptNo + crashes + 1
    /\ (\A d \in Posting(j) : run[d].pc \notin Posted)
         => posts[j] <= outbox[j].attemptNo + crashes

(* Answering one event: a callback past its first write has stored the     *)
(* payload that turns later ones away, so with one callback at a time the  *)
(* message goes out once; what is received is in the hands of a request.   *)
Stored(c) == call[c].pc \notin {"idle", "store"}
Undecided == {"check", "send", "sent", "failed"}
Unsent == {"store", "check", "send"}
AnsweringOnce(j) ==
  /\ \A c \in Answering(j) : Stored(c) => job[j].payload
  /\ job[j].status = "CALLBACK_RECEIVED" /\ "crash" \notin mixed[j]
       => \E c \in Answering(j) : call[c].pc \in Undecided
  /\ "callback" \notin mixed[j] =>
       /\ \A c, e \in Answering(j) : c = e
       /\ replies[j] <= 1
       /\ ~job[j].payload => replies[j] = 0
       /\ \A c \in Answering(j) : call[c].pc \in Unsent => replies[j] = 0
  /\ outbox[j].status = "DEAD" /\ ~job[j].payload /\ "dispatch" \notin mixed[j]
       => job[j].status = "HANDOFF"

Inv == \A j \in Jobs : Dispatching(j) /\ AnsweringOnce(j)

(* A step that changes nothing of an event.                                *)
LEMMA DispatchingFrame ==
  ASSUME NEW i \in Jobs, Dispatching(i), Typed, Typed',
         mixed'[i] = mixed[i], outbox'[i] = outbox[i], posts'[i] = posts[i],
         crashes' >= crashes,
         \A d \in Dispatchers : run'[d].row = i =>
           /\ run[d].row = i
           /\ run'[d].attempt = run[d].attempt,
         \A d \in Dispatchers : run[d].row = i /\ run[d].pc \in Posted =>
           (run'[d].row = i /\ run'[d].pc \in Posted) \/ crashes' > crashes
  PROVE  Dispatching(i)'
<1>1. /\ posts[i] \in Nat /\ outbox[i].attemptNo \in Nat /\ crashes \in Nat /\ crashes' \in Nat
  BY DEF Typed, TypeOK, OutboxRows
<1> QED
  BY <1>1 DEF Dispatching, Posting, Settled

LEMMA AnsweringFrame ==
  ASSUME NEW i \in Jobs, AnsweringOnce(i),
         job'[i].payload = job[i].payload, replies'[i] = replies[i],
         mixed[i] \subseteq mixed'[i],
         job'[i].status = "CALLBACK_RECEIVED" => job[i].status = "CALLBACK_RECEIVED",
         outbox'[i].status = "DEAD" /\ ~job[i].payload /\ "dispatch" \notin mixed'[i] =>
           job'[i].status = "HANDOFF"
             \/ (outbox[i].status = "DEAD" /\ job'[i].status = job[i].status),
         \A c \in Callbacks : call'[c].pc = call[c].pc /\ call'[c].job = call[c].job
  PROVE  AnsweringOnce(i)'
BY DEF AnsweringOnce, Answering, Stored, Undecided, Unsent

(* The steps of dispatchers: the event in the row is the one that changes. *)
LEMMA DispatchSteps ==
  ASSUME Typed, Typed', Inv, NEW d \in Dispatchers, RunStep(d), NEW i \in Jobs
  PROVE  Dispatching(i)' /\ AnsweringOnce(i)'
<1>0. Dispatching(i) /\ AnsweringOnce(i)
  BY DEF Inv
<1>a. /\ run \in [Dispatchers -> Runs] /\ job \in [Jobs -> JobRows]
      /\ outbox \in [Jobs -> OutboxRows] /\ mixed \in [Jobs -> SUBSET Overlaps]
      /\ posts \in [Jobs -> Nat] /\ crashes \in Nat
      /\ outbox[i].attemptNo \in Nat /\ posts[i] \in Nat
  BY DEF Typed, TypeOK, OutboxRows
<1>b. \A e \in Dispatchers : run[e].pc \in Working <=> run[e].row # None
  BY DEF Typed, Shapes
<1>1. CASE DispatchSkip(d)
  <2>1. PICK j \in run[d].todo : RunOn(d, run[d].todo \ {j})
    BY <1>1 DEF DispatchSkip
  <2>2. run'[d].row = None /\ \A e \in Dispatchers : e # d => run'[e] = run[e]
    BY <2>1, RunOnKeeps DEF Typed, TypeOK, Runs
  <2>3. run[d].pc \notin Posted
    BY <1>1 DEF DispatchSkip, Posted
  <2> QED
    BY <1>1, <1>0, <1>a, <2>2, <2>3, DispatchingFrame, AnsweringFrame, OutboxAssumption
       DEF DispatchSkip, thread, history
<1>2. CASE DispatchRead(d)
  <2>1. PICK j \in run[d].todo, pc \in {"mark", "failed"} :
          /\ ~Settled(j) /\ Take(d, pc, j)
          /\ mixed' = [mixed EXCEPT ![j] = IF Posting(j) = {} THEN @ ELSE @ \cup {"dispatch"}]
    BY <1>2 DEF DispatchRead
  <2>2. run[d].pc = "next" /\ UNCHANGED <<job, outbox, call, posts, replies, crashes>>
    BY <1>2 DEF DispatchRead
  <2>3. j \in Jobs /\ run[d].row = None
    BY <1>a, <1>b, <2>2 DEF Runs, Working
  <2>4. /\ run'[d].row = j /\ run'[d].pc = pc /\ run'[d].attempt = outbox[j].attemptNo
        /\ \A e \in Dispatchers : e # d => run'[e] = run[e]
    BY <1>a, <2>1 DEF Take, Runs
  <2>5. CASE i = j
    <3>1. ASSUME Posting(j) = {} PROVE Dispatching(i)'
      <4>1. /\ mixed'[i] = mixed[i]
            /\ \A e \in Dispatchers : run[e].row # i
        BY <1>a, <2>1, <2>3, <2>5, <3>1 DEF Posting
      <4>2. /\ \A e \in Posting(i)' : e = d
            /\ ~Settled(i)' /\ run'[d].attempt = outbox'[i].attemptNo
        BY <2>1, <2>2, <2>4, <2>5, <4>1 DEF Posting, Settled
      <4>3. "dispatch" \notin mixed[i] => posts[i] <= outbox[i].attemptNo + crashes
        BY <1>0, <4>1 DEF Dispatching, Posting
      <4> QED
        BY <1>a, <2>2, <4>1, <4>2, <4>3 DEF Dispatching
    <3>2. ASSUME Posting(j) # {} PROVE Dispatching(i)'
      <4>1. "dispatch" \in mixed'[i]
        BY <1>a, <2>1, <2>3, <2>5, <3>2
      <4> QED
        BY <4>1 DEF Dispatching
    <3>3. mixed[i] \subseteq mixed'[i]
      BY <1>a, <2>1, <2>3
    <3> QED
      BY <1>0, <2>2, <3>1, <3>2, <3>3, AnsweringFrame
  <2>6. CASE i # j
    <3>1. mixed'[i] = mixed[i]
      BY <1>a, <2>1, <2>6
    <3>2. run[d].row # i
      BY <2>3, OutboxAssumption
    <3> QED
      BY <1>0, <1>a, <2>2, <2>4, <2>6, <3>1, <3>2, DispatchingFrame, AnsweringFrame
  <2> QED
    BY <2>5, <2>6
<1>3. CASE DispatchMark(d)
  <2>1. run[d].row \in Jobs /\ run[d].pc = "mark"
    BY <1>3, <1>a, <1>b DEF DispatchMark, Runs, Working
  <2>2. /\ run'[d].row = run[d].row /\ run'[d].attempt = run[d].attempt
        /\ \A e \in Dispatchers : e # d => run'[e] = run[e]
    BY <1>3, <1>a DEF DispatchMark, Runs
  <2>3. UNCHANGED <<outbox, call, posts, replies, mixed, crashes>>
    BY <1>3 DEF DispatchMark, history
  <2>4. Dispatching(i)'
    BY <1>0, <1>a, <2>1, <2>2, <2>3, DispatchingFrame DEF Posted
  <2>5. /\ job'[i].payload = job[i].payload
        /\ job'[i].status = IF i = run[d].row THEN "DISPATCHING" ELSE job[i].status
    BY <1>3, <1>a, <2>1 DEF DispatchMark, JobRows
  <2>6. i = run[d].row /\ "dispatch" \notin mixed[i] => ~Settled(i)
    BY <1>0 DEF Dispatching, Posting
  <2> QED
    BY <1>0, <2>3, <2>4, <2>5, <2>6, AnsweringFrame DEF Settled
<1>4. CASE DispatchPost(d)
  <2>1. run[d].row \in Jobs /\ run[d].pc = "post"
    BY <1>4, <1>a, <1>b DEF DispatchPost, Runs, Working
  <2>2. /\ run'[d].row = run[d].row /\ run'[d].attempt = run[d].attempt
        /\ run'[d].pc \in Posted
        /\ \A e \in Dispatchers : e # d => run'[e] = run[e]
    BY <1>4, <1>a DEF DispatchPost, Runs, Posted
  <2>3. UNCHANGED <<outbox, call, job, replies, mixed, crashes>>
    BY <1>4 DEF DispatchPost
  <2>4. /\ posts'[i] \in Nat /\ posts'[i] <= posts[i] + 1
        /\ i # run[d].row => posts'[i] = posts[i]
    BY <1>4, <1>a, <2>1 DEF DispatchPost
  <2>5. Dispatching(i)'
    <3>1. CASE i = run[d].row
      BY <1>0, <1>a, <2>1, <2>2, <2>3, <2>4, <3>1 DEF Dispatching, Posting, Posted, Settled
    <3>2. CASE i # run[d].row
      BY <1>0, <1>a, <2>2, <2>3, <2>4, <3>2, DispatchingFrame
    <3> QED
      BY <3>1, <3>2
  <2> QED
    BY <1>0, <2>3, <2>5, AnsweringFrame
<1>5. CASE DispatchSent(d) \/ DispatchFailed(d)
  <2>1. run[d].row \in Jobs /\ run[d].pc \in Posted
    BY <1>5, <1>a, <1>b DEF DispatchSent, DispatchFailed, Runs, Working, Posted
  <2>2. run'[d].row = None /\ \A e \in Dispatchers : e # d => run'[e] = run[e]
    BY <1>5, <1>a, RunOnKeeps DEF DispatchSent, DispatchFailed, Runs
  <2>3. UNCHANGED <<call, posts, replies, mixed, crashes>>
    BY <1>5 DEF DispatchSent, DispatchFailed, history
  <2>4. /\ i = run[d].row => outbox'[i].attemptNo = run[d].attempt + 1
        /\ i # run[d].row => outbox'[i] = outbox[i] /\ job'[i] = job[i]
        /\ job'[i].payload = job[i].payload
        /\ i = run[d].row => job'[i].status # "CALLBACK_RECEIVED"
        /\ i = run[d].row /\ outbox'[i].status = "DEAD" => job'[i].status = "HANDOFF"
    BY <1>5, <1>a, <2>1 DEF DispatchSent, DispatchFailed, StatusAfterFailure, JobRows
  <2>5. Dispatching(i)'
    <3>1. CASE i = run[d].row
      BY <1>0, <1>a, <2>1, <2>2, <2>3, <2>4, <3>1, OutboxAssumption
         DEF Dispatching, Posting, Posted
    <3>2. CASE i # run[d].row
      BY <1>0, <1>a, <2>2, <2>3, <2>4, <3>2, DispatchingFrame, OutboxAssumption
    <3> QED
      BY <3>1, <3>2
  <2> QED
    BY <1>0, <2>3, <2>4, <2>5, AnsweringFrame
<1> QED
  BY <1>1, <1>2, <1>3, <1>4, <1>5 DEF RunStep

(* The steps of a callback request change its own event only.              *)
LEMMA CallbackSteps ==
  ASSUME Typed, Typed', Inv, NEW c \in Callbacks, CallbackStep(c), NEW i \in Jobs
  PROVE  Dispatching(i)' /\ AnsweringOnce(i)'
<1>0. Dispatching(i) /\ AnsweringOnce(i)
  BY DEF Inv
<1>a. /\ call \in [Callbacks -> Calls] /\ job \in [Jobs -> JobRows]
      /\ mixed \in [Jobs -> SUBSET Overlaps] /\ replies \in [Jobs -> Nat]
      /\ crashes \in Nat /\ NoCall.pc = "idle" /\ NoCall.job = None
  BY NoCallType DEF Typed, TypeOK
<1>b. call[c].pc # "idle" => call[c].job \in Jobs
  BY <1>a DEF Typed, Shapes, Calls
<1>1. UNCHANGED <<outbox, run, posts, mixed, crashes>>
  BY DEF CallbackStep, CallbackStore, CallbackSkip, CallbackTakenOver, CallbackAccept,
     CallbackSend, CallbackReplied, CallbackClear, CallbackThrows, CallbackFailed, thread, history
<1>2. Dispatching(i)'
  BY <1>0, <1>a, <1>1, DispatchingFrame
<1>3. \A e \in Callbacks : e # c => call'[e] = call[e]
  BY <1>a DEF CallbackStep, CallbackStore, CallbackSkip, CallbackTakenOver, CallbackAccept,
     CallbackSend, CallbackReplied, CallbackClear, CallbackThrows, CallbackFailed
<1>4. CASE CallbackStore(c)
  <2>1. /\ call[c].pc = "store" /\ call'[c].pc = "check" /\ call'[c].job = call[c].job
        /\ replies' = replies
        /\ i = call[c].job => job'[i].payload /\ job'[i].status = "CALLBACK_RECEIVED"
        /\ i # call[c].job => job'[i] = job[i]
    BY <1>4, <1>a, <1>b DEF CallbackStore, Calls, history
  <2> QED
    BY <1>0, <1>1, <1>2, <1>3, <2>1 DEF AnsweringOnce, Answering, Stored, Undecided, Unsent
<1>5. CASE CallbackSkip(c) \/ CallbackTakenOver(c) \/ CallbackFailed(c) \/ CallbackReplied(c)
  <2>1. /\ call[c].pc \in Undecided
        /\ \/ call'[c].pc = "idle" /\ call'[c].job = None
           \/ call'[c].pc = "clear" /\ call'[c].job = call[c].job
        /\ replies' = replies /\ job'[i].payload = job[i].payload
        /\ i = call[c].job => job'[i].status # "CALLBACK_RECEIVED"
        /\ i # call[c].job => job'[i] = job[i]
    BY <1>5, <1>a, <1>b DEF CallbackSkip, CallbackTakenOver, CallbackFailed, CallbackReplied,
       Undecided, Calls, JobRows, history
  <2>2. i = call[c].job => job[i].payload
    BY <1>0, <2>1 DEF AnsweringOnce, Answering, Stored, Undecided
  <2> QED
    BY <1>0, <1>1, <1>2, <1>3, <2>1, <2>2, OutboxAssumption
       DEF AnsweringOnce, Answering, Stored, Undecided, Unsent
<1>6. CASE CallbackAccept(c) \/ CallbackThrows(c)
  <2>1. /\ \/ call[c].pc = "check" /\ call'[c].pc = "send"
           \/ call[c].pc \in {"sent", "clear"} /\ call'[c].pc = "failed"
        /\ call'[c].job = call[c].job /\ UNCHANGED <<job, replies>>
    BY <1>6, <1>a DEF CallbackAccept, CallbackThrows, Calls, history
  <2> QED
    BY <1>0, <1>1, <1>2, <1>3, <2>1 DEF AnsweringOnce, Answering, Stored, Undecided, Unsent
<1>7. CASE CallbackSend(c)
  <2>1. /\ call[c].pc = "send" /\ call'[c].pc \in {"sent", "failed"}
        /\ call'[c].job = call[c].job /\ job' = job
        /\ i = call[c].job => replies'[i] <= replies[i] + 1
        /\ i # call[c].job => replies'[i] = replies[i]
        /\ replies[i] \in Nat /\ replies'[i] \in Nat
    BY <1>7, <1>a, <1>b DEF CallbackSend, Calls
  <2>2. i = call[c].job => job[i].payload
    BY <1>0, <2>1 DEF AnsweringOnce, Answering, Stored
  <2> QED
    BY <1>0, <1>1, <1>2, <1>3, <2>1, <2>2
       DEF AnsweringOnce, Answering, Stored, Undecided, Unsent
<1>8. CASE CallbackClear(c)
  <2>1. /\ call[c].pc = "clear" /\ call'[c].pc = "idle" /\ call'[c].job = None
        /\ UNCHANGED <<job, replies>>
    BY <1>8, <1>a DEF CallbackClear, history
  <2> QED
    BY <1>0, <1>1, <1>2, <1>3, <2>1, OutboxAssumption
       DEF AnsweringOnce, Answering, Stored, Undecided, Unsent
<1> QED
  BY <1>4, <1>5, <1>6, <1>7, <1>8 DEF CallbackStep

(* Every step keeps what is said of every event.                           *)
LEMMA InvStep == Typed /\ Typed' /\ Inv /\ [Next]_vars => Inv'
<1> SUFFICES ASSUME Typed, Typed', Inv, [Next]_vars, NEW i \in Jobs
             PROVE  Dispatching(i)' /\ AnsweringOnce(i)'
  BY DEF Inv
<1>0. Dispatching(i) /\ AnsweringOnce(i)
  BY DEF Inv
<1>a. /\ run \in [Dispatchers -> Runs] /\ call \in [Callbacks -> Calls]
      /\ job \in [Jobs -> JobRows] /\ outbox \in [Jobs -> OutboxRows]
      /\ mixed \in [Jobs -> SUBSET Overlaps] /\ crashes \in Nat
  BY DEF Typed, TypeOK
<1>b. \A e \in Dispatchers : run[e].pc \in Working <=> run[e].row # None
  BY DEF Typed, Shapes
<1> USE OutboxAssumption
<1>1. ASSUME NEW d \in Dispatchers, NEW j \in Jobs, Enqueue(d, j)
      PROVE  Dispatching(i)' /\ AnsweringOnce(i)'
  <2>1. run[d].row = None /\ run'[d].row = None
          /\ \A e \in Dispatchers : e # d => run'[e] = run[e]
    BY <1>1, <1>a, <1>b, NextType, {j} \in SUBSET Jobs DEF Enqueue, Working
  <2>2. /\ outbox'[i].attemptNo = outbox[i].attemptNo
        /\ outbox'[i].status = IF i = j THEN "PENDING" ELSE outbox[i].status
        /\ i # j => outbox'[i] = outbox[i]
        /\ job'[i].payload = job[i].payload
        /\ job'[i].status = IF i = j THEN "QUEUED" ELSE job[i].status
        /\ UNCHANGED <<call, posts, replies, mixed, crashes>>
    BY <1>1, <1>a DEF Enqueue, JobRows, OutboxRows, history
  <2>3. Dispatching(i)'
    BY <1>0, <2>1, <2>2 DEF Dispatching, Posting, Posted, Settled
  <2> QED
    BY <1>0, <2>2, <2>3, AnsweringFrame
<1>2. ASSUME NEW j \in Jobs, EnqueueHandoff(j) PROVE Dispatching(i)' /\ AnsweringOnce(i)'
  <2>1. /\ UNCHANGED <<outbox, run, call, posts, replies, mixed, crashes>>
        /\ job'[i].payload = job[i].payload
        /\ job'[i].status = IF i = j THEN "HANDOFF" ELSE job[i].status
    BY <1>2, <1>a DEF EnqueueHandoff, JobRows, history
  <2> QED
    BY <1>0, <1>a, <2>1, DispatchingFrame, AnsweringFrame
<1>3. ASSUME NEW d \in Dispatchers, Flush(d) PROVE Dispatching(i)' /\ AnsweringOnce(i)'
  <2>1. run[d].row = None /\ run'[d].row = None
          /\ \A e \in Dispatchers : e # d => run'[e] = run[e]
    BY <1>3, <1>a, <1>b, NextType, Waiting \in SUBSET Jobs DEF Flush, Working, Waiting
  <2>2. UNCHANGED <<job, outbox, call, posts, replies, mixed, crashes>>
    BY <1>3 DEF Flush, history
  <2> QED
    BY <1>0, <1>a, <2>1, <2>2, DispatchingFrame, AnsweringFrame
<1>4. ASSUME NEW j \in Jobs, BackoffElapses(j) PROVE Dispatching(i)' /\ AnsweringOnce(i)'
  <2>1. /\ UNCHANGED <<job, run, call, posts, replies, mixed, crashes>>
        /\ outbox'[i].status = outbox[i].status
        /\ outbox'[i].attemptNo = outbox[i].attemptNo
    BY <1>4, <1>a DEF BackoffElapses, OutboxRows, history
  <2> QED
    BY <1>0, <2>1, AnsweringFrame DEF Dispatching, Posting, Settled
<1>5. ASSUME NEW c \in Callbacks, NEW j \in Jobs, CallbackRead(c, j)
      PROVE  Dispatching(i)' /\ AnsweringOnce(i)'
  <2>1. /\ UNCHANGED <<job, outbox, run, posts, replies, crashes>>
        /\ ~job[j].payload /\ call[c].pc = "idle"
        /\ call'[c].pc = "store" /\ call'[c].job = j
        /\ \A e \in Callbacks : e # c => call'[e] = call[e]
    BY <1>5, <1>a DEF CallbackRead, Duplicate
  <2>2. /\ i # j => mixed'[i] = mixed[i]
        /\ i = j => mixed[i] \subseteq mixed'[i] /\ mixed'[i] \subseteq mixed[i] \cup {"callback", "early"}
        /\ i = j /\ Answering(j) # {} => "callback" \in mixed'[i]
    BY <1>5, <1>a DEF CallbackRead
  <2>3. Dispatching(i)'
    BY <1>0, <2>1, <2>2 DEF Dispatching, Posting, Settled
  <2>4. AnsweringOnce(i)'
    <3>1. CASE i = j
      BY <1>0, <1>b, <2>1, <2>2, <3>1 DEF AnsweringOnce, Answering, Stored, Undecided, Unsent
    <3>2. CASE i # j
      BY <1>0, <2>1, <2>2, <3>2 DEF AnsweringOnce, Answering, Stored, Undecided, Unsent
    <3> QED
      BY <3>1, <3>2
  <2> QED
    BY <2>3, <2>4
<1>6. ASSUME AgentReplies \/ PauseEnds PROVE Dispatching(i)' /\ AnsweringOnce(i)'
  <2>1. /\ UNCHANGED <<job, outbox, run, posts, replies, mixed, crashes>>
        /\ \A c \in Callbacks : call'[c].pc = call[c].pc /\ call'[c].job = call[c].job
    BY <1>6, <1>a DEF AgentReplies, PauseEnds, Calls, history
  <2> QED
    BY <1>0, <1>a, <2>1, DispatchingFrame, AnsweringFrame
<1>7. ASSUME NEW d \in Dispatchers, RunCrashes(d) PROVE Dispatching(i)' /\ AnsweringOnce(i)'
  <2>1. /\ UNCHANGED <<job, outbox, call, posts, replies, mixed>> /\ crashes' = crashes + 1
        /\ run'[d].row = None /\ \A e \in Dispatchers : e # d => run'[e] = run[e]
    BY <1>7, <1>a, NoRunType DEF RunCrashes, thread
  <2> QED
    BY <1>0, <1>a, <2>1, DispatchingFrame, AnsweringFrame
<1>8. ASSUME NEW c \in Callbacks, CallbackCrashes(c) PROVE Dispatching(i)' /\ AnsweringOnce(i)'
  <2>1. /\ UNCHANGED <<job, outbox, run, posts, replies>> /\ crashes' = crashes + 1
        /\ call[c].pc # "idle" /\ call'[c].pc = "idle" /\ call'[c].job = None
        /\ \A e \in Callbacks : e # c => call'[e] = call[e]
        /\ mixed'[i] = IF i = call[c].job THEN mixed[i] \cup {"crash"} ELSE mixed[i]
    BY <1>8, <1>a, NoCallType DEF CallbackCrashes, thread
  <2>2. Dispatching(i)'
    <3>1. "dispatch" \in mixed'[i] <=> "dispatch" \in mixed[i]
      BY <2>1
    <3>2. posts[i] \in Nat /\ outbox[i].attemptNo \in Nat
      BY DEF Typed, TypeOK, OutboxRows
    <3> QED
      BY <1>0, <1>a, <2>1, <3>1, <3>2 DEF Dispatching, Posting, Settled
  <2>3. AnsweringOnce(i)'
    <3>1. CASE i = call[c].job
      BY <1>0, <2>1, <3>1 DEF AnsweringOnce, Answering, Stored, Undecided, Unsent
    <3>2. CASE i # call[c].job
      BY <1>0, <2>1, <3>2 DEF AnsweringOnce, Answering, Stored, Undecided, Unsent
    <3> QED
      BY <3>1, <3>2
  <2> QED
    BY <2>2, <2>3
<1>9. CASE UNCHANGED vars
  BY <1>0, <1>9, <1>a, DispatchingFrame, AnsweringFrame DEF vars, history
<1> QED
  BY <1>1, <1>2, <1>3, <1>4, <1>5, <1>6, <1>7, <1>8, <1>9, DispatchSteps, CallbackSteps DEF Next

LEMMA InvInit == Init => Inv
<1> SUFFICES ASSUME Init, NEW i \in Jobs PROVE Dispatching(i) /\ AnsweringOnce(i)
  BY DEF Inv
<1>1. Posting(i) = {} /\ Answering(i) = {}
  BY OutboxAssumption, NoRunType, NoCallType DEF Init, Posting, Answering
<1>2. Dispatching(i)
  BY <1>1 DEF Init, Dispatching
<1>3. AnsweringOnce(i)
  BY <1>1 DEF Init, AnsweringOnce
<1> QED
  BY <1>2, <1>3

(* The inductive invariant: types, shapes, dispatching and answering.      *)
THEOREM SafetyInvariant == Spec => [](Typed /\ Inv)
<1>1. Init => Typed /\ Inv
  BY TypedInit, InvInit
<1>2. (Typed /\ Inv) /\ [Next]_vars => (Typed /\ Inv)'
  BY TypedStep, InvStep
<1> QED
  BY <1>1, <1>2, PTL DEF Spec

(* With one callback at a time the customer gets at most one reply to an   *)
(* event, whatever dispatchers, crashes and employees do.                  *)
THEOREM RepliesOnce == Spec => []AtMostOneReply
<1>1. Typed /\ Inv => AtMostOneReply
  BY DEF Inv, AnsweringOnce, AtMostOneReply
<1> QED
  BY <1>1, SafetyInvariant, PTL

(* The flow is given an event at most maxRetryAttempts times, plus once    *)
(* for each crash, unless dispatches of it overlap.                        *)
THEOREM RetriesAreBounded == Spec => []RetryBudget
<1>1. Typed /\ Inv => RetryBudget
  <2> SUFFICES ASSUME Typed, Inv, NEW j \in Jobs, "dispatch" \notin mixed[j]
               PROVE  posts[j] <= MaxAttempts + crashes
    BY DEF RetryBudget
  <2>1. /\ posts[j] \in Nat /\ crashes \in Nat /\ MaxAttempts \in Nat
        /\ outbox[j].attemptNo \in Nat /\ outbox[j].attemptNo <= MaxAttempts
        /\ ~Settled(j) => outbox[j].attemptNo < MaxAttempts
    BY OutboxAssumption DEF Typed, TypeOK, Shapes, OutboxRows
  <2>2. Dispatching(j)
    BY DEF Inv
  <2> QED
    BY <2>1, <2>2 DEF Dispatching
<1> QED
  BY <1>1, SafetyInvariant, PTL

(* A dead outbox row without an answer is in the hands of a person, and a  *)
(* received callback in those of a request, unless it crashed.             *)
THEOREM NoEventIsLost == Spec => []NothingLost
<1>1. Typed /\ Inv => NothingLost
  BY DEF Inv, AnsweringOnce, NothingLost
<1> QED
  BY <1>1, SafetyInvariant, PTL
-------------------------------------------------------------------------------
(* Outcomes. Without overlaps an event is answered only once its row is     *)
(* SENT, an event with an outcome has no row that would still be posted,    *)
(* and nobody posts a row that does not exist.                              *)
Has(d, j) == run[d].row = j \/ j \in run[d].todo
Kept(j) ==
  /\ \A d \in Dispatchers : Has(d, j) => outbox[j].status # "NONE"
  /\ mixed[j] \cap {"dispatch", "early"} = {} =>
       /\ Answering(j) # {} \/ job[j].payload => outbox[j].status = "SENT"
       /\ job[j].status \in Final => outbox[j].status \in {"NONE", "SENT", "DEAD"}
OutcomeInv == \A j \in Jobs : Kept(j)

LEMMA KeptFrame ==
  ASSUME NEW i \in Jobs, Kept(i), mixed[i] \subseteq mixed'[i],
         outbox'[i].status = outbox[i].status,
         job'[i].payload => job[i].payload \/ Answering(i) # {},
         job'[i].status \in Final => job[i].status \in Final \/ Answering(i) # {},
         \A c \in Callbacks : call'[c].job = i => call[c].job = i,
         \A d \in Dispatchers : Has(d, i)' => Has(d, i) \/ outbox[i].status # "NONE"
  PROVE  Kept(i)'
BY DEF Kept, Answering

LEMMA KeptRunStep ==
  ASSUME Typed, Inv, OutcomeInv, NEW d \in Dispatchers, RunStep(d), NEW i \in Jobs
  PROVE  Kept(i)'
<1>0. Kept(i) /\ Dispatching(i)
  BY DEF Inv, OutcomeInv
<1>a. /\ run \in [Dispatchers -> Runs] /\ job \in [Jobs -> JobRows]
      /\ outbox \in [Jobs -> OutboxRows] /\ mixed \in [Jobs -> SUBSET Overlaps]
      /\ run[d].pc \in Working <=> run[d].row # None
  BY DEF Typed, TypeOK, Shapes
<1>b. run[d].row # None => run[d].row \in Jobs
  BY <1>a DEF Runs
<1>c. UNCHANGED call
  BY DEF RunStep, DispatchSkip, DispatchRead, DispatchMark, DispatchPost, DispatchSent,
     DispatchFailed
<1>d. ASSUME NEW todo \in SUBSET run[d].todo, RunOn(d, todo)
      PROVE  \A e \in Dispatchers : Has(e, i)' => Has(e, i)
  <2>1. todo \in SUBSET Jobs
    BY <1>a DEF Runs
  <2>2. \A e \in Dispatchers : e # d => run'[e] = run[e]
    BY <1>d, <2>1, RunOnKeeps
  <2>3. run'[d].row = None /\ run'[d].todo \subseteq todo
    BY <1>a, <1>d, OutboxAssumption DEF RunOn, NoRun
  <2> QED
    BY <2>2, <2>3, OutboxAssumption DEF Has
<1>1. CASE DispatchSkip(d)
  <2>1. PICK j \in run[d].todo : RunOn(d, run[d].todo \ {j})
    BY <1>1 DEF DispatchSkip
  <2>2. UNCHANGED <<job, outbox, mixed>>
    BY <1>1 DEF DispatchSkip, history
  <2> QED
    BY <1>0, <1>c, <1>d, <2>1, <2>2, KeptFrame
<1>2. CASE DispatchRead(d)
  <2>1. PICK j \in run[d].todo, pc \in {"mark", "failed"} :
          /\ Take(d, pc, j)
          /\ mixed' = [mixed EXCEPT ![j] = IF Posting(j) = {} THEN @ ELSE @ \cup {"dispatch"}]
    BY <1>2 DEF DispatchRead
  <2>2. run'[d].row = j /\ run'[d].todo \subseteq run[d].todo
        /\ \A e \in Dispatchers : e # d => run'[e] = run[e]
    BY <1>a, <2>1 DEF Take, Runs
  <2>3. mixed[i] \subseteq mixed'[i] /\ UNCHANGED <<job, outbox>>
    BY <1>2, <1>a, <2>1 DEF DispatchRead
  <2>4. \A e \in Dispatchers : Has(e, i)' => Has(e, i)
    BY <2>2 DEF Has
  <2> QED
    BY <1>0, <1>c, <2>3, <2>4, KeptFrame
<1>3. CASE DispatchMark(d) \/ DispatchPost(d)
  <2>1. /\ run'[d].row = run[d].row /\ run'[d].todo = run[d].todo
        /\ \A e \in Dispatchers : e # d => run'[e] = run[e]
        /\ UNCHANGED <<outbox, mixed>>
    BY <1>3, <1>a DEF DispatchMark, DispatchPost, Runs, history
  <2>2. job'[i].payload = job[i].payload
        /\ (job'[i].status = job[i].status \/ job'[i].status = "DISPATCHING")
    BY <1>3, <1>a DEF DispatchMark, DispatchPost, JobRows
  <2>3. \A e \in Dispatchers : Has(e, i)' => Has(e, i)
    BY <2>1 DEF Has
  <2> QED
    BY <1>0, <1>c, <2>1, <2>2, <2>3, KeptFrame DEF Final
<1>4. CASE DispatchSent(d) \/ DispatchFailed(d)
  <2>1. run[d].row \in Jobs /\ UNCHANGED mixed /\ RunOn(d, run[d].todo)
    BY <1>4, <1>a, <1>b DEF DispatchSent, DispatchFailed, Working, history
  <2>2. \A e \in Dispatchers : Has(e, i)' => Has(e, i)
    BY <1>d, <2>1
  <2>3. CASE i # run[d].row
    <3>1. outbox'[i] = outbox[i] /\ job'[i] = job[i]
      BY <1>4, <1>a, <2>1, <2>3 DEF DispatchSent, DispatchFailed
    <3> QED
      BY <1>0, <1>c, <2>1, <2>2, <3>1, KeptFrame
  <2>4. CASE i = run[d].row
    <3>1. /\ outbox'[i].status \in {"SENT", "DEAD", "FAILED"}
          /\ job'[i].payload = job[i].payload
          /\ job'[i].status \in Final => outbox'[i].status = "DEAD"
      BY <1>4, <1>a, <2>1, <2>4 DEF DispatchSent, DispatchFailed, StatusAfterFailure, JobRows,
         Final
    <3>2. "dispatch" \notin mixed[i] => outbox[i].status # "SENT"
      BY <1>0, <2>4 DEF Dispatching, Posting, Settled
    <3> QED
      BY <1>0, <1>c, <2>1, <3>1, <3>2 DEF Kept, Answering
  <2> QED
    BY <2>3, <2>4
<1> QED
  BY <1>1, <1>2, <1>3, <1>4 DEF RunStep

LEMMA KeptStep ==
  ASSUME Typed, Inv, OutcomeInv, [Next]_vars
  PROVE  OutcomeInv'
<1> SUFFICES ASSUME NEW i \in Jobs PROVE Kept(i)'
  BY DEF OutcomeInv
<1>0. Kept(i)
  BY DEF OutcomeInv
<1>a. /\ run \in [Dispatchers -> Runs] /\ call \in [Callbacks -> Calls]
      /\ job \in [Jobs -> JobRows] /\ outbox \in [Jobs -> OutboxRows]
      /\ mixed \in [Jobs -> SUBSET Overlaps] /\ None \notin Jobs
      /\ NoRun.row = None /\ NoRun.todo = {} /\ NoCall.job = None
  BY OutboxAssumption DEF Typed, TypeOK, NoRun, NoCall
<1>b. \A e \in Dispatchers : run[e].pc = "idle" => run[e].row = None
  BY DEF Typed, Shapes, Working
<1>1. ASSUME NEW d \in Dispatchers, NEW j \in Jobs, Enqueue(d, j) PROVE Kept(i)'
  <2>1. /\ run'[d].row = None /\ run'[d].todo = {j}
        /\ \A e \in Dispatchers : e # d => run'[e] = run[e]
        /\ job[j].status = "NONE" /\ outbox[j].status = "NONE" /\ UNCHANGED <<call, mixed>>
    BY <1>1, <1>a DEF Enqueue, history, NoRun, Typed, Shapes
  <2>2. /\ outbox'[i].status = IF i = j THEN "PENDING" ELSE outbox[i].status
        /\ job'[i].payload = job[i].payload
        /\ job'[i].status = IF i = j THEN "QUEUED" ELSE job[i].status
    BY <1>1, <1>a DEF Enqueue, JobRows, OutboxRows
  <2> QED
    BY <1>0, <1>a, <2>1, <2>2 DEF Kept, Has, Answering, Final
<1>2. ASSUME NEW j \in Jobs, EnqueueHandoff(j) PROVE Kept(i)'
  <2>1. /\ UNCHANGED <<outbox, run, call, mixed>> /\ job'[i].payload = job[i].payload
        /\ i # j => job'[i] = job[i]
        /\ i = j => outbox[i].status = "NONE"
    BY <1>2, <1>a DEF EnqueueHandoff, JobRows, history, Typed, Shapes
  <2> QED
    BY <1>0, <2>1 DEF Kept, Has, Answering
<1>3. ASSUME NEW d \in Dispatchers, Flush(d) PROVE Kept(i)'
  <2>1. /\ run'[d].row = None /\ run'[d].todo = Waiting
        /\ \A e \in Dispatchers : e # d => run'[e] = run[e]
        /\ UNCHANGED <<job, outbox, call, mixed>>
    BY <1>3, <1>a DEF Flush, history, NoRun
  <2>2. i \in Waiting => outbox[i].status # "NONE"
    BY DEF Waiting
  <2>3. \A e \in Dispatchers : Has(e, i)' => Has(e, i) \/ outbox[i].status # "NONE"
    BY <1>a, <2>1, <2>2 DEF Has
  <2> QED
    BY <1>0, <2>1, <2>3, KeptFrame
<1>4. ASSUME NEW j \in Jobs, BackoffElapses(j) PROVE Kept(i)'
  <2>1. UNCHANGED <<job, run, call, mixed>> /\ outbox'[i].status = outbox[i].status
    BY <1>4, <1>a DEF BackoffElapses, OutboxRows, history
  <2> QED
    BY <1>0, <2>1, KeptFrame DEF Has
<1>5. ASSUME NEW c \in Callbacks, NEW j \in Jobs, CallbackRead(c, j) PROVE Kept(i)'
  <2>1. /\ UNCHANGED <<job, outbox, run>> /\ call'[c].job = j
        /\ \A e \in Callbacks : e # c => call'[e] = call[e]
    BY <1>5, <1>a DEF CallbackRead
  <2>2. /\ mixed[i] \subseteq mixed'[i]
        /\ i = j /\ outbox[j].status # "SENT" => "early" \in mixed'[i]
    BY <1>5, <1>a DEF CallbackRead
  <2>3. CASE i = j
    BY <1>0, <2>1, <2>2, <2>3 DEF Kept, Has, Answering
  <2>4. CASE i # j
    BY <1>0, <2>1, <2>2, <2>4, KeptFrame DEF Has
  <2> QED
    BY <2>3, <2>4
<1>6. ASSUME NEW c \in Callbacks, CallbackStep(c) PROVE Kept(i)'
  <2>1. UNCHANGED <<outbox, run, mixed>>
    BY <1>6 DEF CallbackStep, CallbackStore, CallbackSkip, CallbackTakenOver, CallbackAccept,
       CallbackSend, CallbackReplied, CallbackClear, CallbackThrows, CallbackFailed, thread,
       history
  <2>2. \A e \in Callbacks : call'[e].job = i => call[e].job = i
    BY <1>6, <1>a DEF CallbackStep, CallbackStore, CallbackSkip, CallbackTakenOver,
       CallbackAccept, CallbackSend, CallbackReplied, CallbackClear, CallbackThrows,
       CallbackFailed, Calls
  <2>3. i # call[c].job => job'[i] = job[i]
    BY <1>6, <1>a DEF CallbackStep, CallbackStore, CallbackSkip, CallbackTakenOver,
       CallbackAccept, CallbackSend, CallbackReplied, CallbackClear, CallbackThrows,
       CallbackFailed
  <2>4. i = call[c].job => Answering(i) # {}
    BY DEF Answering
  <2> QED
    BY <1>0, <2>1, <2>2, <2>3, <2>4, KeptFrame DEF Has
<1>7. ASSUME AgentReplies \/ PauseEnds PROVE Kept(i)'
  <2>1. /\ UNCHANGED <<job, outbox, run, mixed>>
        /\ \A c \in Callbacks : call'[c].job = call[c].job
    BY <1>7, <1>a DEF AgentReplies, PauseEnds, Calls, history
  <2> QED
    BY <1>0, <2>1, KeptFrame DEF Has
<1>8. ASSUME NEW d \in Dispatchers, RunCrashes(d) PROVE Kept(i)'
  <2>1. /\ UNCHANGED <<job, outbox, call, mixed>> /\ run'[d] = NoRun
        /\ \A e \in Dispatchers : e # d => run'[e] = run[e]
    BY <1>8, <1>a DEF RunCrashes
  <2>2. \A e \in Dispatchers : Has(e, i)' => Has(e, i)
    BY <1>a, <2>1 DEF Has
  <2> QED
    BY <1>0, <2>1, <2>2, KeptFrame
<1>9. ASSUME NEW c \in Callbacks, CallbackCrashes(c) PROVE Kept(i)'
  <2>1. /\ UNCHANGED <<job, outbox, run>> /\ mixed[i] \subseteq mixed'[i]
        /\ call'[c].job = None /\ \A e \in Callbacks : e # c => call'[e] = call[e]
    BY <1>9, <1>a DEF CallbackCrashes
  <2> QED
    BY <1>0, <1>a, <2>1, KeptFrame DEF Has
<1>10. CASE UNCHANGED vars
  BY <1>0, <1>10, KeptFrame DEF vars, history, Has
<1> QED
  BY <1>1, <1>2, <1>3, <1>4, <1>5, <1>6, <1>7, <1>8, <1>9, <1>10, KeptRunStep DEF Next

(* Once an event has an outcome and no callback of it is being handled, the *)
(* outcome stays, if the flow called back after the dispatch was committed  *)
(* and nothing overlapped on the event; crashes do not change that.         *)
THEOREM OutcomesOfEventsStay == Spec => OutcomeStays
<1>1. Init => OutcomeInv
  <2> SUFFICES ASSUME Init, NEW j \in Jobs PROVE Kept(j)
    BY DEF OutcomeInv
  <2>1. \A d \in Dispatchers : ~Has(d, j)
    BY OutboxAssumption DEF Init, Has, NoRun
  <2>2. Answering(j) = {}
    BY OutboxAssumption, NoCallType DEF Init, Answering
  <2> QED
    BY <2>1, <2>2 DEF Init, Kept, Final
<1>2. Typed /\ Inv /\ OutcomeInv /\ [Next]_vars => OutcomeInv'
  BY KeptStep
<1>3. ASSUME Typed, Inv, OutcomeInv, [Next]_vars, NEW j \in Jobs,
             job[j].status \in Final, Answering(j) = {}, mixed'[j] \subseteq {"crash"}
      PROVE  job'[j].status = job[j].status
  <2>a. /\ job \in [Jobs -> JobRows] /\ mixed \in [Jobs -> SUBSET Overlaps]
        /\ run \in [Dispatchers -> Runs]
    BY <1>3 DEF Typed, TypeOK
  <2>1. ASSUME NEW d \in Dispatchers, RunStep(d) PROVE job'[j].status = job[j].status
    <3>1. mixed[j] \subseteq mixed'[j]
      BY <2>1, <2>a DEF RunStep, DispatchSkip, DispatchRead, DispatchMark, DispatchPost,
         DispatchSent, DispatchFailed, history
    <3>2. Dispatching(j) /\ Kept(j)
      BY <1>3 DEF Inv, OutcomeInv
    <3>3. Settled(j) \/ outbox[j].status = "NONE"
      BY <1>3, <3>1, <3>2 DEF Kept, Settled
    <3>4. run[d].row # j
      BY <1>3, <3>1, <3>2, <3>3 DEF Dispatching, Posting, Kept, Has
    <3> QED
      BY <2>1, <2>a, <3>4 DEF RunStep, DispatchSkip, DispatchRead, DispatchMark, DispatchPost,
         DispatchSent, DispatchFailed
  <2>2. ASSUME NEW c \in Callbacks, CallbackStep(c) PROVE job'[j].status = job[j].status
    <3>1. call[c].job # j
      BY <1>3 DEF Answering
    <3> QED
      BY <2>2, <2>a, <3>1 DEF CallbackStep, CallbackStore, CallbackSkip, CallbackTakenOver,
         CallbackAccept, CallbackSend, CallbackReplied, CallbackClear, CallbackThrows,
         CallbackFailed
  <2>3. ASSUME NEW d \in Dispatchers, NEW i \in Jobs, Enqueue(d, i) \/ EnqueueHandoff(i)
        PROVE  job'[j].status = job[j].status
    BY <1>3, <2>3, <2>a DEF Enqueue, EnqueueHandoff, Final
  <2>4. ASSUME NEW i \in Jobs, EnqueueHandoff(i) \/ BackoffElapses(i)
        PROVE  job'[j].status = job[j].status
    BY <1>3, <2>4, <2>a DEF EnqueueHandoff, BackoffElapses, Final
  <2>5. ASSUME NEW d \in Dispatchers, RunCrashes(d) \/ Flush(d)
        PROVE  job'[j].status = job[j].status
    BY <2>5 DEF RunCrashes, Flush
  <2>6. ASSUME NEW c \in Callbacks, NEW i \in Jobs, CallbackCrashes(c) \/ CallbackRead(c, i)
        PROVE  job'[j].status = job[j].status
    BY <2>6 DEF CallbackCrashes, CallbackRead
  <2>7. CASE AgentReplies \/ PauseEnds \/ UNCHANGED vars
    BY <2>7 DEF AgentReplies, PauseEnds, vars
  <2>8. ASSUME NEW c \in Callbacks, CallbackCrashes(c)
        PROVE  job'[j].status = job[j].status
    BY <2>8 DEF CallbackCrashes
  <2> QED
    BY <1>3, <2>1, <2>2, <2>3, <2>4, <2>5, <2>6, <2>7, <2>8 DEF Next
<1>4. Typed /\ Inv /\ OutcomeInv /\ [Next]_vars =>
        [\A j \in Jobs :
           /\ job[j].status \in Final /\ Answering(j) = {}
           /\ mixed'[j] \subseteq {"crash"}
           => job'[j].status = job[j].status]_vars
  BY <1>3
<1> QED
  BY <1>1, <1>2, <1>4, SafetyInvariant, PTL DEF Spec, OutcomeStays

===============================================================================
