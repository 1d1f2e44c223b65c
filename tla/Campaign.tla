------------------------------- MODULE Campaign -------------------------------
(* Message campaigns sent from personal accounts: zalo-campaign.service.ts *)
(* with the timer of zalo-campaign-scheduler.service.ts.                   *)
(*                                                                         *)
(* Operators start, pause, resume, cancel, edit and delete campaigns while *)
(* scheduler ticks send their messages. A tick works on the rows it read   *)
(* when it began: one message per account and tick. Each process has one   *)
(* tick at a time (isRunning), which reads all running campaigns at once   *)
(* and then works on one after the other. A scheduler of the model is the  *)
(* work of such a tick on one of them: a process with several running      *)
(* campaigns counts as several schedulers that may begin together, and     *)
(* more interleavings are allowed than the code has. One action            *)
(* is one statement, one transaction or one call of the messenger. Whether *)
(* an account is connected may change at any time, so each reading of it   *)
(* may say either.                                                         *)
(* Operators marked "mutant" are not part of the specification: each is a  *)
(* plausible mistake in the definition after it.                           *)
EXTENDS Naturals, FiniteSets

CONSTANTS Campaigns,
          Accounts,     \* personal accounts of the messenger
          Customers,
          Selects,      \* the customers the filter of a campaign selects
          Reach,        \* accounts that may write to the customer; {}: none can
          Lists,        \* bound: account lists of a campaign, daily quota by account
          Schedulers,   \* works of ticks on a campaign
          Operators,    \* operator requests in flight
          OpKinds,      \* bound: what each of them asks for
          MaxErrors,    \* maxConsecutiveErrors
          MaxAttempts,  \* MAX_RECIPIENT_ATTEMPTS
          MaxCrashes,   \* bound: restarts in the middle of a tick
          DaysPass,     \* bound: FALSE when everything happens in one day
          None          \* no campaign, account or customer

(* "replace" is an update with accounts in its payload, "update" one       *)
(* without.                                                                *)
Kinds == {"start", "resume", "update", "replace", "delete"}

ASSUME CampaignAssumption ==
  /\ MaxErrors \in Nat \ {0} /\ MaxAttempts \in Nat \ {0}
  /\ MaxCrashes \in Nat /\ DaysPass \in BOOLEAN
  /\ OpKinds \in [Operators -> SUBSET Kinds]
  /\ Reach \in [Customers -> SUBSET Accounts]
  /\ Selects \in [Campaigns -> SUBSET Customers]
  /\ Lists \in [Campaigns -> (SUBSET [Accounts -> Nat]) \ {{}}]
  /\ \A c \in Campaigns : \A list \in Lists[c] : \E a \in Accounts : list[a] > 0
  /\ None \notin Campaigns \cup Accounts \cup Customers
  /\ IsFiniteSet(Accounts)

VARIABLES status,     \* ZaloCampaign.status, NONE once deleted
          account,    \* ZaloCampaignAccount rows of each campaign
          recipient,  \* ZaloCampaignRecipient rows of each campaign
          tick,       \* local variables of the ticks
          op,         \* local variables of the operator requests
          out,        \* history: messages that reached the customer
          unsure,     \* history: deliveries that were not recorded as sent
          today,      \* history: messages of today recorded for the account
          late,       \* history: messages since the campaign was stopped
          raced,      \* history: campaigns with two ticks, or a tick and a start,
                      \*   at once, or made a draft again after they were started
          crashes     \* history: ticks cut off so far

history == <<out, unsure, today, late, raced>>
vars == <<status, account, recipient, tick, op, history, crashes>>

CampaignStatuses ==
  {"DRAFT", "RUNNING", "PAUSED", "COMPLETED", "CANCELED", "FAILED", "NONE"}
AccountRows == [quota : Nat, status : {"READY", "PAUSED_ERROR"}, sent : Nat,
                errors : 0 .. MaxErrors, day : {"never", "before", "today"}, due : BOOLEAN]
RecipientRows == [status : {"NONE", "PENDING", "IN_PROGRESS", "SENT", "SKIPPED", "FAILED"},
                  attempts : 0 .. MaxAttempts]
Done == {"SENT", "SKIPPED", "FAILED"}

(* A row as createMany makes it. A quota of 0, which the list of a request *)
(* cannot have, stands for no row.                                         *)
NewAccount(quota) == [quota |-> quota, status |-> "READY", sent |-> 0, errors |-> 0,
                      day |-> "never", due |-> TRUE]
Fresh(list) == [a \in Accounts |-> NewAccount(list[a])]
NoRow == NewAccount(0)
Members(c) == {a \in Accounts : account[c][a].quota > 0}
NewRecipient == [status |-> "NONE", attempts |-> 0]
NoTick == [pc |-> "idle", campaign |-> None, rows |-> [a \in Accounts |-> NoRow],
           gone |-> FALSE, todo |-> {}, account |-> None, customer |-> None,
           day |-> "today", pending |-> FALSE, verdict |-> "none"]
NoOp == [pc |-> "idle", kind |-> "none", campaign |-> None, status |-> "NONE", accounts |-> {},
         sent |-> [a \in Accounts |-> 0], day |-> [a \in Accounts |-> "today"]]

Init ==
  /\ status = [c \in Campaigns |-> "DRAFT"]
  /\ \E lists \in [Campaigns -> UNION {Lists[c] : c \in Campaigns}] :
       /\ \A c \in Campaigns : lists[c] \in Lists[c]
       /\ account = [c \in Campaigns |-> Fresh(lists[c])]
  /\ recipient = [c \in Campaigns |-> [k \in Customers |-> NewRecipient]]
  /\ tick = [s \in Schedulers |-> NoTick]
  /\ op = [o \in Operators |-> NoOp]
  /\ out = [c \in Campaigns |-> [k \in Customers |-> 0]]
  /\ unsure = [c \in Campaigns |-> {}]
  /\ today = [c \in Campaigns |-> [a \in Accounts |-> 0]]
  /\ late = [c \in Campaigns |-> [a \in Accounts |-> 0]]
  /\ raced = {}
  /\ crashes = 0

-------------------------------------------------------------------------------
(* Operator requests.                                                      *)
SetStatus(c, new) ==
  /\ status' = [status EXCEPT ![c] = new]
  /\ late' = IF "RUNNING" \in {status[c], new}
             THEN [late EXCEPT ![c] = [a \in Accounts |-> 0]] ELSE late
Return(o) == op' = [op EXCEPT ![o] = NoOp]
Sending(c) == {s \in Schedulers : tick[s].campaign = c}
(* The transaction of startCampaign holds the campaign's row from its      *)
(* first write on: whoever else writes that row waits for its end.         *)
Unlocked(c) ==
  \A o \in Operators : ~(op[o].pc = "write" /\ op[o].kind = "start" /\ op[o].campaign = c)

(* startCampaign: anything but running, canceled, completed.               *)
Startable(c) == status[c] \notin {"NONE", "RUNNING", "CANCELED", "COMPLETED"}
(* resumeCampaign: only what is paused.                                    *)
Resumable(c) == status[c] = "PAUSED"
(* deleteCampaign, updateCampaign: what they test in the row they read.    *)
Readable(kind, c) ==
  CASE kind = "start" -> Startable(c)
    [] kind = "resume" -> Resumable(c)
    [] kind \in {"delete", "replace"} -> status[c] = "DRAFT"
    [] kind = "update" -> status[c] # "NONE"

OpRead(o, kind, c) ==
  /\ op[o].pc = "idle" /\ Readable(kind, c)
  /\ op' = [op EXCEPT ![o] = [NoOp EXCEPT !.kind = kind, !.campaign = c, !.status = status[c],
              !.accounts = Members(c),
              !.pc = IF kind \in {"start", "resume"} THEN "conflict" ELSE "write"]]
  /\ UNCHANGED <<status, account, recipient, crashes, tick, history>>

(* Mutant: only a campaign that is sending right now is in the way.        *)
ConflictWhileSending(c, mine) ==
  \E d \in Campaigns \ {c} : /\ status[d] = "RUNNING" /\ mine \cap Members(d) # {}
                           /\ \E k \in Customers : recipient[d][k].status = "IN_PROGRESS"

(* assertNoRunningAccountConflict, for the accounts read before.           *)
Conflict(c, mine) ==
  \E d \in Campaigns \ {c} : status[d] = "RUNNING" /\ mine \cap Members(d) # {}

OpCheck(o) ==
  /\ op[o].pc = "conflict"
  /\ op' = [op EXCEPT ![o] = IF Conflict(op[o].campaign, op[o].accounts) THEN NoOp
                             ELSE [@ EXCEPT !.pc = IF op[o].kind = "start" THEN "accounts"
                                                   ELSE "write"]]
  /\ UNCHANGED <<status, account, recipient, crashes, tick, history>>

(* The transaction of startCampaign writes the campaign, reads the         *)
(* accounts, then commits the counters and days it read with everything.   *)
StartAccounts(o) ==
  /\ op[o].pc = "accounts" /\ status[op[o].campaign] # "NONE" /\ Unlocked(op[o].campaign)
  /\ LET rows == account[op[o].campaign]
     IN op' = [op EXCEPT ![o].pc = "write",
                 ![o].sent = [a \in Accounts |-> rows[a].sent],
                 ![o].day = [a \in Accounts |->
                   IF rows[a].day = "never" THEN "today" ELSE rows[a].day]]
  /\ raced' = IF Sending(op[o].campaign) = {} THEN raced ELSE raced \cup {op[o].campaign}
  /\ UNCHANGED <<status, account, recipient, crashes, tick, out, unsure, today, late>>

StartCommit(o) ==
  LET c == op[o].campaign
  IN /\ op[o].pc = "write" /\ op[o].kind = "start" /\ status[c] # "NONE"
     /\ Return(o)
     /\ SetStatus(c, "RUNNING")
     /\ account' = [account EXCEPT ![c] = [a \in Accounts |->
          IF a \in Members(c)
          THEN [@[a] EXCEPT !.status = "READY", !.due = TRUE,
                            !.sent = op[o].sent[a], !.day = op[o].day[a]]
          ELSE @[a]]]
     /\ recipient' = [recipient EXCEPT ![c] =
          IF \A k \in Customers : @[k].status = "NONE"
          THEN [k \in Customers |-> IF k \in Selects[c]
                                   THEN [NewRecipient EXCEPT !.status = "PENDING"]
                                   ELSE NewRecipient]
          ELSE @]
     /\ UNCHANGED <<crashes, tick, out, unsure, today, raced>>

ResumeCommit(o) ==
  LET c == op[o].campaign
  IN /\ op[o].pc = "write" /\ op[o].kind = "resume" /\ status[c] # "NONE"
     /\ Unlocked(c) /\ Return(o)
     /\ SetStatus(c, "RUNNING")
     /\ account' = [account EXCEPT ![c] = [a \in Accounts |->
          IF @[a].status = "PAUSED_ERROR"
          THEN [@[a] EXCEPT !.status = "READY", !.due = TRUE, !.errors = 0]
          ELSE @[a]]]
     /\ UNCHANGED <<recipient, crashes, tick, out, unsure, today, raced>>

(* updateCampaign writes the status it read. With accounts in the payload, *)
(* the account rows are replaced by new ones; a tick in flight keeps the   *)
(* ids of the old ones.                                                    *)

UpdateCommit(o) ==
  LET c == op[o].campaign
  IN /\ op[o].pc = "write" /\ op[o].kind \in {"update", "replace"} /\ status[c] # "NONE"
     /\ Unlocked(c) /\ Return(o)
     /\ SetStatus(c, op[o].status)
     /\ raced' = IF op[o].status = "DRAFT" /\ status[c] # "DRAFT" THEN raced \cup {c} ELSE raced
     /\ \/ op[o].kind = "update" /\ UNCHANGED <<account, tick>>
        \/ /\ op[o].kind = "replace"
           /\ \E list \in Lists[c] : account' = [account EXCEPT ![c] = Fresh(list)]
           /\ tick' = [s \in Schedulers |-> IF s \in Sending(c)
                                           THEN [tick[s] EXCEPT !.gone = TRUE] ELSE tick[s]]
     /\ UNCHANGED <<recipient, crashes, out, unsure, today>>

(* deleteCampaign deletes by id, accounts and recipients with it.          *)
DeleteCommit(o) ==
  LET c == op[o].campaign
  IN /\ op[o].pc = "write" /\ op[o].kind = "delete" /\ Unlocked(c)
     /\ Return(o)
     /\ SetStatus(c, "NONE")
     /\ recipient' = [recipient EXCEPT ![c] = [k \in Customers |-> NewRecipient]]
     /\ UNCHANGED <<account, crashes, tick, out, unsure, today, raced>>

(* The row is gone when the request writes it, or the transaction fails.   *)
OpFails(o) ==
  /\ op[o].pc \in {"accounts", "write"}
  /\ Return(o)
  /\ UNCHANGED <<status, account, recipient, crashes, tick, history>>

(* pauseCampaign and cancelCampaign: one write, whatever the status.       *)
Stop(c, new) ==
  /\ status[c] # "NONE" /\ Unlocked(c)
  /\ SetStatus(c, new)
  /\ UNCHANGED <<account, recipient, crashes, tick, op, out, unsure, today, raced>>

Pause(c) == Stop(c, "PAUSED")
Cancel(c) == Stop(c, "CANCELED")
-------------------------------------------------------------------------------
(* A tick: runSchedulerTick reads the running campaigns with their         *)
(* accounts; processRunningCampaign goes through them on the rows read,    *)
(* later, when the campaigns before it are done, and with the day of then. *)
TickBegin(s, c) ==
  /\ tick[s].pc = "idle" /\ status[c] = "RUNNING"
  /\ tick' = [tick EXCEPT ![s] = [NoTick EXCEPT !.pc = "read", !.campaign = c,
                !.rows = account[c], !.todo = Members(c)]]
  /\ raced' = IF \/ Sending(c) # {}
                 \/ \E o \in Operators : op[o].kind = "start" /\ op[o].campaign = c
                                        /\ op[o].pc = "write"
              THEN raced \cup {c} ELSE raced
  /\ UNCHANGED <<status, account, recipient, crashes, op, out, unsure, today, late>>

Process(s) ==
  /\ tick[s].pc = "read"
  /\ tick' = [tick EXCEPT ![s].pc = "account"]
  /\ UNCHANGED <<status, account, recipient, crashes, op, history>>

(* Outside the campaign's hours, or a campaign before it ended the tick.   *)
LeaveOut(s) ==
  /\ tick[s].pc = "read"
  /\ tick' = [tick EXCEPT ![s] = NoTick]
  /\ UNCHANGED <<status, account, recipient, crashes, op, history>>

Row(s, a) == tick[s].rows[a]
(* Writes go by the ids read: without the row they throw.                  *)
RowsExist(s) == status[tick[s].campaign] # "NONE" /\ ~tick[s].gone
(* Mutant: an account that has sent stays on the list of the tick.         *)
NextAccountStays(s) == tick' = [tick EXCEPT ![s].pc = "account", ![s].account = None,
                                            ![s].customer = None]
NextAccount(s) == tick' = [tick EXCEPT ![s].pc = "account", ![s].todo = @ \ {tick[s].account},
                                       ![s].account = None, ![s].customer = None,
                                       ![s].rows[tick[s].account] = NoRow]

(* ensureDailyQuotaWindow: on a new day the counter starts again and the   *)
(* account is due. A tick goes by the day it began on, which may be over.  *)
(* Mutant: the counter goes on.                                            *)
Renewable(s, a) == Row(s, a).status = "READY" /\ Row(s, a).day # "today"
RenewedCooldown(row, old) ==
  IF old.day = "before" THEN [row EXCEPT !.due = TRUE] ELSE row
Renewed(row, old) ==
  IF old.day = "before" THEN [row EXCEPT !.sent = 0, !.due = TRUE] ELSE row

QuotaWindow(s, a) ==
  LET c == tick[s].campaign
      new == Renewed(account[c][a], Row(s, a))
  IN /\ tick[s].pc = "account" /\ a \in tick[s].todo /\ RowsExist(s)
     /\ Renewable(s, a)
     /\ account' = [account EXCEPT ![c][a] = [new EXCEPT !.day = tick[s].day]]
     /\ tick' = [tick EXCEPT ![s].rows[a] = [new EXCEPT !.day = "today"]]
     /\ UNCHANGED <<status, recipient, crashes, op, history>>

(* Accounts that cannot send now are passed over. Mutant: one message      *)
(* more than the quota.                                                    *)
UsableAtQuota(row) == row.status = "READY" /\ row.sent <= row.quota /\ row.due
Usable(row) == row.status = "READY" /\ row.sent < row.quota /\ row.due
PassOver(s, a) ==
  /\ tick[s].pc = "account" /\ a \in tick[s].todo
  /\ ~Renewable(s, a) /\ ~Usable(Row(s, a))
  /\ tick' = [tick EXCEPT ![s].todo = @ \ {a}, ![s].rows[a] = NoRow]
  /\ UNCHANGED <<status, account, recipient, crashes, op, history>>

(* One more error than the row read had: the account is paused at the      *)
(* limit, otherwise it waits (pauseCampaignAccountByError, and the catch   *)
(* of processRecipientDelivery). Counts above the limit are not told apart.*)
AfterError(old, errors) ==
  IF errors + 1 >= MaxErrors
  THEN [old EXCEPT !.errors = MaxErrors, !.status = "PAUSED_ERROR", !.due = TRUE]
  ELSE [old EXCEPT !.errors = errors + 1, !.status = "READY", !.due = FALSE]

Offline(s, a) ==
  LET c == tick[s].campaign
  IN /\ tick[s].pc = "account" /\ a \in tick[s].todo /\ RowsExist(s)
     /\ ~Renewable(s, a) /\ Usable(Row(s, a))
     /\ account' = [account EXCEPT ![c][a] = AfterError(@, Row(s, a).errors)]
     /\ tick' = [tick EXCEPT ![s].todo = @ \ {a}, ![s].rows[a] = NoRow]
     /\ UNCHANGED <<status, recipient, crashes, op, history>>

Choose(s, a) ==
  /\ tick[s].pc = "account" /\ a \in tick[s].todo
  /\ ~Renewable(s, a) /\ Usable(Row(s, a))
  /\ tick' = [tick EXCEPT ![s].pc = "claim", ![s].account = a]
  /\ UNCHANGED <<status, account, recipient, crashes, op, history>>

(* claimNextRecipient: nobody can write to the customer (skipped), the     *)
(* guarded update from PENDING to IN_PROGRESS, or nothing left.            *)
Pending(c, k) == recipient[c][k].status = "PENDING"

SkipRecipient(s, k) ==
  LET c == tick[s].campaign
  IN /\ tick[s].pc = "claim" /\ RowsExist(s)
     /\ Pending(c, k) /\ Reach[k] = {}
     /\ recipient' = [recipient EXCEPT ![c][k].status = "SKIPPED"]
     /\ UNCHANGED <<status, account, crashes, tick, op, history>>

(* Mutant: what an overlapping tick is sending is claimed once more.       *)
ClaimableAgain(c, k) == Pending(c, k) \/ recipient[c][k].status = "IN_PROGRESS"

Claimable(c, k) == Pending(c, k)

Claim(s, k) ==
  LET c == tick[s].campaign
  IN /\ tick[s].pc = "claim"
     /\ Claimable(c, k) /\ tick[s].account \in Reach[k]
     /\ recipient' = [recipient EXCEPT ![c][k].status = "IN_PROGRESS", ![c][k].attempts = @ + 1]
     /\ tick' = [tick EXCEPT ![s].pc = "send", ![s].customer = k]
     /\ UNCHANGED <<status, account, crashes, op, history>>

NothingToClaim(s) ==
  /\ tick[s].pc = "claim"
  /\ \A k \in Customers : Pending(tick[s].campaign, k) =>
       Reach[k] # {} /\ tick[s].account \notin Reach[k]
  /\ NextAccount(s)
  /\ UNCHANGED <<status, account, recipient, crashes, op, history>>

(* processRecipientDelivery. The template misses a variable.               *)
Unrenderable(s) ==
  LET c == tick[s].campaign  k == tick[s].customer  a == tick[s].account
  IN /\ tick[s].pc = "send" /\ RowsExist(s)
     /\ recipient' = [recipient EXCEPT ![c][k].status = "SKIPPED"]
     /\ account' = [account EXCEPT ![c][a] = [@ EXCEPT !.errors = 0, !.due = FALSE]]
     /\ NextAccount(s)
     /\ UNCHANGED <<status, crashes, op, history>>

(* The message goes out, goes out with an error, or does not go out.       *)
Send(s) ==
  LET c == tick[s].campaign  k == tick[s].customer  a == tick[s].account
  IN /\ tick[s].pc = "send"
     /\ \E gone, ok \in BOOLEAN :
          /\ ok => gone
          /\ tick' = [tick EXCEPT ![s].pc = IF ok THEN "record" ELSE "error"]
          /\ out' = IF gone THEN [out EXCEPT ![c][k] = @ + 1] ELSE out
          /\ unsure' = IF gone /\ ~ok THEN [unsure EXCEPT ![c] = @ \cup {k}] ELSE unsure
          /\ late' = IF gone /\ status[c] # "RUNNING" THEN [late EXCEPT ![c][a] = @ + 1]
                     ELSE late
     /\ UNCHANGED <<status, account, recipient, crashes, op, today, raced>>

(* The transaction after the message: recipient SENT, counters, cooldown.  *)
Record(s) ==
  LET c == tick[s].campaign  k == tick[s].customer  a == tick[s].account
  IN /\ tick[s].pc = "record" /\ RowsExist(s)
     /\ recipient' = [recipient EXCEPT ![c][k].status = "SENT"]
     /\ account' = [account EXCEPT ![c][a] =
          [@ EXCEPT !.status = "READY", !.sent = account[c][a].sent + 1, !.errors = 0,
                    !.day = tick[s].day, !.due = FALSE]]
     /\ today' = IF tick[s].day = "today" THEN [today EXCEPT ![c][a] = @ + 1] ELSE today
     /\ NextAccount(s)
     /\ UNCHANGED <<status, crashes, op, out, unsure, late, raced>>

(* The transaction fails: the catch treats it as a failed message.         *)
RecordFails(s) ==
  /\ tick[s].pc = "record"
  /\ tick' = [tick EXCEPT ![s].pc = "error"]
  /\ unsure' = [unsure EXCEPT ![tick[s].campaign] = @ \cup {tick[s].customer}]
  /\ UNCHANGED <<status, account, recipient, crashes, op, out, today, late, raced>>

(* Mutant: one attempt too many.                                           *)
RetriedOnceMore(attempts) == IF attempts > MaxAttempts THEN "FAILED" ELSE "PENDING"

Retried(attempts) == IF attempts >= MaxAttempts THEN "FAILED" ELSE "PENDING"

RecordError(s) ==
  LET c == tick[s].campaign  k == tick[s].customer  a == tick[s].account
  IN /\ tick[s].pc = "error" /\ RowsExist(s)
     /\ recipient' = [recipient EXCEPT ![c][k].status = Retried(recipient[c][k].attempts)]
     /\ account' = [account EXCEPT ![c][a] = AfterError(@, Row(s, a).errors)]
     /\ NextAccount(s)
     /\ UNCHANGED <<status, crashes, op, history>>

(* syncCampaignTerminalStatus: counts, then a write whatever the status.   *)
CountPending(s) ==
  /\ tick[s].pc = "account" /\ tick[s].todo = {}
  /\ tick' = [tick EXCEPT ![s].pc = "sync",
       ![s].pending = \E k \in Customers : Pending(tick[s].campaign, k)]
  /\ UNCHANGED <<status, account, recipient, crashes, op, history>>

Ready(c) == {a \in Members(c) : account[c][a].status = "READY"}
InProgress(c) == \E k \in Customers : recipient[c][k].status = "IN_PROGRESS"
Verdict(pending, inProgress, runnable) ==
  CASE inProgress -> "none"
    [] ~inProgress /\ ~pending -> "COMPLETED"
    [] ~inProgress /\ pending -> IF runnable = {} THEN "FAILED" ELSE "none"

Decide(s) ==
  LET c == tick[s].campaign
  IN /\ tick[s].pc = "sync"
     /\ \E online \in SUBSET Accounts :
        LET v == Verdict(tick[s].pending, InProgress(c), Ready(c) \cap online)
        IN tick' = [tick EXCEPT ![s] = IF v = "none" THEN NoTick
                                    ELSE [@ EXCEPT !.pc = "finish", !.verdict = v, !.pending = FALSE]]
     /\ UNCHANGED <<status, account, recipient, crashes, op, history>>

Finish(s) ==
  /\ tick[s].pc = "finish" /\ status[tick[s].campaign] # "NONE"
  /\ Unlocked(tick[s].campaign)
  /\ SetStatus(tick[s].campaign, tick[s].verdict)
  /\ tick' = [tick EXCEPT ![s] = NoTick]
  /\ UNCHANGED <<account, recipient, crashes, op, out, unsure, today, raced>>

(* The tick ends in the middle: what was claimed stays IN_PROGRESS.        *)
Abort(s) ==
  /\ tick' = [tick EXCEPT ![s] = NoTick]
  /\ unsure' = IF tick[s].pc = "record"
               THEN [unsure EXCEPT ![tick[s].campaign] = @ \cup {tick[s].customer}] ELSE unsure

(* A restart, or a statement that throws outside the try block.            *)
TickCrashes(s) ==
  /\ tick[s].pc # "idle" /\ crashes < MaxCrashes
  /\ crashes' = crashes + 1
  /\ Abort(s)
  /\ UNCHANGED <<status, account, recipient, op, out, today, late, raced>>

(* The tick may come to write an account row now.                          *)
WritesAccount(s) ==
  \/ tick[s].pc = "account" /\ \E a \in tick[s].todo : Renewable(s, a) \/ Usable(Row(s, a))
  \/ /\ tick[s].pc = "claim"
     /\ \E k \in Customers : Pending(tick[s].campaign, k) /\ Reach[k] = {}
  \/ tick[s].pc \in {"send", "error"}

(* The campaign was deleted under the tick, or its accounts replaced: the  *)
(* next write of what is gone throws.                                      *)
TickLost(s) ==
  /\ tick[s].pc # "idle"
  /\ status[tick[s].campaign] = "NONE" \/ (tick[s].gone /\ WritesAccount(s))
  /\ Abort(s)
  /\ UNCHANGED <<status, account, recipient, crashes, op, out, today, late, raced>>

-------------------------------------------------------------------------------
(* Time.                                                                   *)
CooldownEnds(c, a) ==
  /\ ~account[c][a].due
  /\ account' = [account EXCEPT ![c][a].due = TRUE]
  /\ UNCHANGED <<status, recipient, crashes, tick, op, history>>

Yesterday(rows) == [a \in Accounts |->
  IF rows[a].day = "today" THEN [rows[a] EXCEPT !.day = "before"] ELSE rows[a]]

NewDay ==
  /\ DaysPass
  /\ account' = [c \in Campaigns |-> Yesterday(account[c])]
  /\ tick' = [s \in Schedulers |->
       CASE tick[s].pc = "idle" -> tick[s]
         [] tick[s].pc = "read" -> [tick[s] EXCEPT !.rows = Yesterday(@)]
         [] tick[s].pc \notin {"idle", "read"} -> [tick[s] EXCEPT !.day = "before"]]
  /\ op' = [o \in Operators |->
       IF op[o].pc = "write" /\ op[o].kind = "start"
       THEN [op[o] EXCEPT !.day = [a \in Accounts |-> "before"]] ELSE op[o]]
  /\ today' = [c \in Campaigns |-> [a \in Accounts |-> 0]]
  /\ UNCHANGED <<status, recipient, crashes, out, unsure, late, raced>>

-------------------------------------------------------------------------------
TickStep(s) ==
  \/ Process(s)
  \/ \E a \in Accounts : QuotaWindow(s, a) \/ PassOver(s, a) \/ Offline(s, a) \/ Choose(s, a)
  \/ \E k \in Customers : SkipRecipient(s, k) \/ Claim(s, k)
  \/ NothingToClaim(s) \/ Unrenderable(s) \/ Send(s) \/ Record(s) \/ RecordFails(s)
  \/ RecordError(s) \/ CountPending(s) \/ Decide(s) \/ Finish(s) \/ TickLost(s)

OpStep(o) ==
  \/ OpCheck(o) \/ StartAccounts(o) \/ StartCommit(o) \/ ResumeCommit(o)
  \/ UpdateCommit(o) \/ DeleteCommit(o) \/ OpFails(o)

Next ==
  \/ \E o \in Operators : OpStep(o)
  \/ \E o \in Operators, c \in Campaigns :
       \E kind \in OpKinds[o] : OpRead(o, kind, c)
  \/ \E c \in Campaigns : Pause(c) \/ Cancel(c)
  \/ \E s \in Schedulers, c \in Campaigns : TickBegin(s, c)
  \/ \E s \in Schedulers : TickStep(s) \/ LeaveOut(s) \/ TickCrashes(s)
  \/ \E c \in Campaigns, a \in Accounts : CooldownEnds(c, a)
  \/ NewDay

Spec == Init /\ [][Next]_vars
(* Statements, transactions and calls of the messenger return, ticks look  *)
(* at every running campaign again and again, not always outside its hours *)
(* and not always ended by one before it, cooldowns and days pass. Nobody  *)
(* need make a request.                                                    *)
FairSpec ==
  /\ Spec
  /\ \A o \in Operators : WF_vars(OpStep(o))
  /\ \A s \in Schedulers : WF_vars(TickStep(s)) /\ SF_vars(Process(s))
  /\ \A s \in Schedulers, c \in Campaigns : SF_vars(TickBegin(s, c))
  /\ \A c \in Campaigns, a \in Accounts : WF_vars(CooldownEnds(c, a))
  /\ WF_vars(NewDay)

-------------------------------------------------------------------------------
TypeOK ==
  /\ status \in [Campaigns -> CampaignStatuses]
  /\ account \in [Campaigns -> [Accounts -> AccountRows]]
  /\ recipient \in [Campaigns -> [Customers -> RecipientRows]]
  /\ tick \in [Schedulers ->
       [pc : {"idle", "read", "account", "claim", "send", "record", "error", "sync", "finish"},
        campaign : Campaigns \cup {None}, rows : [Accounts -> AccountRows],
        gone : BOOLEAN, todo : SUBSET Accounts, account : Accounts \cup {None},
        customer : Customers \cup {None}, day : {"before", "today"},
        pending : BOOLEAN, verdict : {"none", "COMPLETED", "FAILED"}]]
  /\ op \in [Operators ->
       [pc : {"idle", "conflict", "accounts", "write"},
        kind : Kinds \cup {"none"},
        campaign : Campaigns \cup {None}, status : CampaignStatuses,
        accounts : SUBSET Accounts, sent : [Accounts -> Nat], day : [Accounts -> {"before", "today"}]]]
  /\ out \in [Campaigns -> [Customers -> Nat]]
  /\ unsure \in [Campaigns -> SUBSET Customers]
  /\ today \in [Campaigns -> [Accounts -> Nat]]
  /\ late \in [Campaigns -> [Accounts -> Nat]]
  /\ raced \subseteq Campaigns
  /\ crashes \in 0 .. MaxCrashes

(* "Moi khach chi 1 tin trong pham vi 1 campaign" (ADR-049): no customer   *)
(* gets two messages of a campaign, however many ticks overlap, unless a   *)
(* message that went out was not recorded (claimNextRecipient).            *)
OneMessagePerCustomer ==
  \A c \in Campaigns, k \in Customers : out[c][k] <= 1 \/ k \in unsure[c]

(* An account keeps its daily quota in each campaign, as long as no second *)
(* tick and no start ran at the same time (the quota is tested on the row  *)
(* the tick read, startCampaign writes back the count it read), and no     *)
(* update made a started campaign a draft again (updateCampaign writes the *)
(* status it read, and the account rows it replaces count from 0).         *)
QuotaKept ==
  \A c \in Campaigns \ raced, a \in Accounts : today[c][a] <= account[c][a].quota

(* Stopping takes effect: once a campaign does not run, no account sends   *)
(* more than one more message per tick in flight (processRunningCampaign   *)
(* does not look at the status again).                                     *)
StopIsSoon ==
  \A c \in Campaigns, a \in Accounts : late[c][a] <= Cardinality(Schedulers)

(* "1 account khong duoc thuoc 2 campaign RUNNING cung luc" (ADR-049).     *)
(* Kept when starting, resuming and editing come one after the other; two  *)
(* starts that overlap both pass assertNoRunningAccountConflict, and a     *)
(* list replaced while a campaign starts is not checked.                   *)
AccountRunsOnce ==
  \A c, d \in Campaigns :
    status[c] = "RUNNING" /\ status[d] = "RUNNING" /\ Members(c) \cap Members(d) # {}
      => c = d

(* A running campaign does not run for ever: every customer is sent to,    *)
(* skipped or given up, or no account is left, if every account can reach  *)
(* everybody who can be reached and no claim is stranded: nothing takes up *)
(* a recipient left IN_PROGRESS by a tick that was cut off, or lost its    *)
(* account rows, after the claim.                                          *)
Stranded(c) == \E k \in Customers : /\ recipient[c][k].status = "IN_PROGRESS"
                                  /\ \A s \in Sending(c) : tick[s].customer # k
CampaignFinishes ==
  \A c \in Campaigns :
    ( /\ status[c] = "RUNNING"
      /\ \A k \in Customers : Reach[k] = {} \/ Members(c) \subseteq Reach[k] )
    ~> (status[c] # "RUNNING" \/ Stranded(c))
=============================================================================
