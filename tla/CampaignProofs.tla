---------------------------- MODULE CampaignProofs ----------------------------
(* Campaign for every number of campaigns, accounts, customers, processes   *)
(* and operator requests: the types, that no customer gets two messages of  *)
(* a campaign, that an account runs in one campaign, that a stop takes      *)
(* effect at once and that the daily quota is kept.                         *)
EXTENDS Campaign, FiniteSetTheorems, TLAPS

TickRows ==
  [pc : {"idle", "read", "account", "claim", "send", "record", "error", "sync", "finish"},
   campaign : Campaigns \cup {None}, rows : [Accounts -> AccountRows],
   gone : BOOLEAN, todo : SUBSET Accounts, account : Accounts \cup {None},
   customer : Customers \cup {None}, day : {"before", "today"},
   pending : BOOLEAN, verdict : {"none", "COMPLETED", "FAILED"}]
OpRows ==
  [pc : {"idle", "conflict", "accounts", "write"},
   kind : Kinds \cup {"none"},
   campaign : Campaigns \cup {None}, status : CampaignStatuses,
   accounts : SUBSET Accounts, sent : [Accounts -> Nat], day : [Accounts -> {"before", "today"}]]

(* A tick that has claimed a recipient works on it until it recorded what   *)
(* became of the message.                                                   *)
Working(s) == tick[s].pc \in {"send", "record", "error"}

(* Which local variables each step of a tick and of a request uses.         *)
TickShape(r) ==
  /\ r.pc # "idle" => r.campaign \in Campaigns
  /\ r.pc \in {"claim", "send", "record", "error"} => r.account \in Accounts
  /\ r.pc \in {"send", "record", "error"} => r.customer \in Customers
  /\ r.pc = "finish" => r.verdict \in {"COMPLETED", "FAILED"}
OpShape(r) ==
  /\ r.pc # "idle" => r.campaign \in Campaigns
  /\ r.pc = "conflict" => r.kind \in {"start", "resume"}
  /\ r.pc = "accounts" => r.kind = "start"
  /\ r.pc = "write" /\ r.kind = "update" => r.status # "NONE"
  /\ r.kind = "replace" => r.status = "DRAFT"

(* What waits may still be tried.                                           *)
Triable(r) == r.status = "PENDING" => r.attempts < MaxAttempts

(* The rows and the histories, the ticks and the requests.                  *)
RowTypes ==
  /\ status \in [Campaigns -> CampaignStatuses]
  /\ account \in [Campaigns -> [Accounts -> AccountRows]]
  /\ recipient \in [Campaigns -> [Customers -> RecipientRows]]
  /\ \A c \in Campaigns, k \in Customers : Triable(recipient[c][k])
HistoryTypes ==
  /\ out \in [Campaigns -> [Customers -> Nat]]
  /\ unsure \in [Campaigns -> SUBSET Customers]
  /\ today \in [Campaigns -> [Accounts -> Nat]]
  /\ late \in [Campaigns -> [Accounts -> Nat]]
  /\ raced \subseteq Campaigns
  /\ crashes \in 0 .. MaxCrashes
TickTypes ==
  tick \in [Schedulers -> TickRows] /\ \A s \in Schedulers : TickShape(tick[s])
OpTypes ==
  op \in [Operators -> OpRows] /\ \A o \in Operators : OpShape(op[o])
Typed == RowTypes /\ HistoryTypes /\ TickTypes /\ OpTypes

LEMMA TypedTypeOK == Typed => TypeOK
BY DEF Typed, RowTypes, HistoryTypes, TickTypes, OpTypes, TypeOK, TickRows, OpRows

LEMMA NewTypes ==
  /\ NoRow \in AccountRows /\ NewRecipient \in RecipientRows /\ NoTick \in TickRows
  /\ NoOp \in OpRows /\ NoTick.pc = "idle" /\ NoOp.pc = "idle" /\ NoOp.kind = "none"
  /\ NewRecipient.status = "NONE" /\ NewRecipient.attempts = 0
<1>1. 0 \in Nat /\ 0 \in 0 .. MaxErrors /\ 0 \in 0 .. MaxAttempts
  BY CampaignAssumption
<1>2. NoRow \in AccountRows
  BY <1>1 DEF NoRow, NewAccount, AccountRows
<1>3. NewRecipient \in RecipientRows /\ NewRecipient.status = "NONE" /\ NewRecipient.attempts = 0
  BY <1>1 DEF NewRecipient, RecipientRows
<1>4. NoTick \in TickRows /\ NoTick.pc = "idle"
  BY <1>2 DEF NoTick, TickRows
<1>5. NoOp \in OpRows /\ NoOp.pc = "idle" /\ NoOp.kind = "none"
  BY <1>1 DEF NoOp, OpRows, CampaignStatuses
<1> QED
  BY <1>2, <1>3, <1>4, <1>5

(* The account rows a list makes.                                           *)
LEMMA FreshRows ==
  ASSUME NEW c \in Campaigns, NEW list \in Lists[c]
  PROVE  /\ Fresh(list) \in [Accounts -> AccountRows]
         /\ \A a \in Accounts :
              /\ Fresh(list)[a].quota = list[a] /\ Fresh(list)[a].sent = 0
              /\ Fresh(list)[a].day = "never"
<1>1. list \in [Accounts -> Nat] /\ 0 \in 0 .. MaxErrors
  BY CampaignAssumption
<1> QED
  BY <1>1 DEF Fresh, NewAccount, AccountRows

(* The local variables of a tick, and of a request, after a step.           *)
LEMMA TickSet ==
  ASSUME TickTypes, NEW s \in Schedulers, NEW r \in TickRows, TickShape(r),
         tick' = [tick EXCEPT ![s] = r]
  PROVE  TickTypes' /\ tick'[s] = r /\ \A t \in Schedulers : t # s => tick'[t] = tick[t]
<1>1. /\ tick' \in [Schedulers -> TickRows] /\ tick'[s] = r
      /\ \A t \in Schedulers : t # s => tick'[t] = tick[t]
  BY DEF TickTypes
<1>2. \A t \in Schedulers : TickShape(tick'[t])
  <2> TAKE t \in Schedulers
  <2>1. TickShape(tick[t])
    BY DEF TickTypes
  <2> QED
    BY <1>1, <2>1
<1> QED
  BY <1>1, <1>2 DEF TickTypes

LEMMA OpSet ==
  ASSUME OpTypes, NEW o \in Operators, NEW r \in OpRows, OpShape(r),
         op' = [op EXCEPT ![o] = r]
  PROVE  OpTypes'
<1>1. op' \in [Operators -> OpRows] /\ op'[o] = r /\ \A p \in Operators : p # o => op'[p] = op[p]
  BY DEF OpTypes
<1>2. \A p \in Operators : OpShape(op'[p])
  <2> TAKE p \in Operators
  <2>1. OpShape(op[p])
    BY DEF OpTypes
  <2> QED
    BY <1>1, <2>1
<1> QED
  BY <1>1, <1>2 DEF OpTypes

LEMMA ReturnType ==
  ASSUME OpTypes, NEW o \in Operators, Return(o)
  PROVE  OpTypes'
<1>1. OpShape(NoOp)
  BY NewTypes DEF OpShape
<1> QED
  BY <1>1, NewTypes, OpSet DEF Return

(* A row of the accounts, and of the recipients, after a write.             *)
LEMMA AccountSet ==
  ASSUME RowTypes, NEW c \in Campaigns, NEW a \in Accounts, NEW row \in AccountRows,
         account' = [account EXCEPT ![c] = [account[c] EXCEPT ![a] = row]]
  PROVE  account' \in [Campaigns -> [Accounts -> AccountRows]]
<1>1. [account[c] EXCEPT ![a] = row] \in [Accounts -> AccountRows]
  BY DEF RowTypes
<1> QED
  BY <1>1 DEF RowTypes

LEMMA RecipientSet ==
  ASSUME RowTypes, NEW c \in Campaigns, NEW k \in Customers, NEW row \in RecipientRows,
         Triable(row),
         recipient' = [recipient EXCEPT ![c] = [recipient[c] EXCEPT ![k] = row]]
  PROVE  /\ recipient' \in [Campaigns -> [Customers -> RecipientRows]]
         /\ \A d \in Campaigns, j \in Customers : Triable(recipient'[d][j])
         /\ recipient'[c][k] = row
         /\ \A d \in Campaigns, j \in Customers :
              <<d, j>> # <<c, k>> => recipient'[d][j] = recipient[d][j]
<1> DEFINE rows == [recipient[c] EXCEPT ![k] = row]
<1>1. /\ rows \in [Customers -> RecipientRows] /\ rows[k] = row
      /\ \A j \in Customers : j # k => rows[j] = recipient[c][j]
  BY DEF RowTypes
<1> HIDE DEF rows
<1>2. /\ recipient' \in [Campaigns -> [Customers -> RecipientRows]] /\ recipient'[c] = rows
      /\ \A d \in Campaigns : d # c => recipient'[d] = recipient[d]
  BY <1>1 DEF RowTypes, rows
<1>3. ASSUME NEW d \in Campaigns, NEW j \in Customers, <<d, j>> # <<c, k>>
      PROVE  recipient'[d][j] = recipient[d][j]
  BY <1>1, <1>2, <1>3
<1>4. ASSUME NEW d \in Campaigns, NEW j \in Customers
      PROVE  Triable(recipient'[d][j])
  <2>1. Triable(recipient[d][j])
    BY DEF RowTypes
  <2> QED
    BY <1>1, <1>2, <1>3, <2>1
<1> QED
  BY <1>1, <1>2, <1>3, <1>4

(* The status of a campaign after a write.                                  *)
LEMMA StatusSet ==
  ASSUME RowTypes, HistoryTypes, NEW c \in Campaigns, NEW new \in CampaignStatuses,
         SetStatus(c, new)
  PROVE  /\ status' \in [Campaigns -> CampaignStatuses]
         /\ late' \in [Campaigns -> [Accounts -> Nat]]
         /\ status'[c] = new /\ \A d \in Campaigns : d # c => status'[d] = status[d]
BY DEF RowTypes, HistoryTypes, SetStatus

-----------------------------------------------------------------------------
(* The operator requests.                                                   *)
LEMMA TypedOpRead ==
  ASSUME Typed, NEW o \in Operators, NEW c \in Campaigns, NEW kind \in OpKinds[o],
         OpRead(o, kind, c)
  PROVE  Typed'
<1> DEFINE r == [NoOp EXCEPT !.kind = kind, !.campaign = c, !.status = status[c], !.accounts = Members(c),
                   !.pc = IF kind \in {"start", "resume"} THEN "conflict" ELSE "write"]
<1>1. kind \in Kinds /\ Members(c) \in SUBSET Accounts
  BY CampaignAssumption DEF Members
<1>2. /\ status[c] \in CampaignStatuses /\ (kind = "update" => status[c] # "NONE")
      /\ kind = "replace" => status[c] = "DRAFT"
  BY <1>1 DEF Typed, RowTypes, OpRead, Readable, Kinds
<1>3. r \in OpRows /\ r.kind = kind /\ r.campaign = c /\ r.status = status[c]
      /\ r.pc = IF kind \in {"start", "resume"} THEN "conflict" ELSE "write"
  BY NewTypes, <1>1, <1>2 DEF OpRows
<1>4. op' = [op EXCEPT ![o] = r]
      /\ UNCHANGED <<status, account, recipient, crashes, tick, history>>
  BY DEF OpRead
<1> HIDE DEF r
<1>5. OpShape(r)
  BY <1>1, <1>2, <1>3 DEF OpShape, Kinds
<1>6. OpTypes'
  BY <1>3, <1>4, <1>5, OpSet DEF Typed
<1> QED
  BY <1>4, <1>6 DEF Typed, RowTypes, HistoryTypes, TickTypes, history

LEMMA TypedOpStep ==
  ASSUME Typed, NEW o \in Operators, OpStep(o)
  PROVE  Typed'
<1> DEFINE c == op[o].campaign
<1>a. op[o] \in OpRows /\ OpShape(op[o]) /\ RowTypes /\ HistoryTypes /\ OpTypes /\ TickTypes
  BY DEF Typed, OpTypes
<1>b. op[o].pc # "idle" => c \in Campaigns
  BY <1>a DEF OpShape
<1>c. /\ status \in [Campaigns -> CampaignStatuses]
      /\ account \in [Campaigns -> [Accounts -> AccountRows]]
      /\ recipient \in [Campaigns -> [Customers -> RecipientRows]]
  BY <1>a DEF RowTypes
<1>1. CASE OpCheck(o)
  <2> DEFINE r == [op[o] EXCEPT !.pc = IF op[o].kind = "start" THEN "accounts" ELSE "write"]
  <2>1. /\ op[o].pc = "conflict" /\ UNCHANGED <<status, account, recipient, crashes, tick, history>>
        /\ (Return(o) \/ op' = [op EXCEPT ![o] = r])
    BY <1>1 DEF OpCheck, Return
  <2>2. r \in OpRows /\ r.campaign = op[o].campaign /\ r.kind = op[o].kind
        /\ r.pc = IF op[o].kind = "start" THEN "accounts" ELSE "write"
    BY <1>a DEF OpRows
  <2> HIDE DEF r
  <2>3. OpShape(r)
    BY <1>a, <2>1, <2>2 DEF OpShape
  <2>4. OpTypes'
    BY <1>a, <2>1, <2>2, <2>3, ReturnType, OpSet
  <2> QED
    BY <1>a, <2>1, <2>4 DEF Typed, RowTypes, HistoryTypes, TickTypes, history
<1>2. CASE StartAccounts(o)
  <2> DEFINE sent == [a \in Accounts |-> account[c][a].sent]
             day == [a \in Accounts |-> IF account[c][a].day = "never" THEN "today"
                                        ELSE account[c][a].day]
             r == [op[o] EXCEPT !.pc = "write", !.sent = sent, !.day = day]
  <2>1. /\ op[o].pc = "accounts" /\ op' = [op EXCEPT ![o] = r]
        /\ raced' \in {raced, raced \cup {c}}
        /\ UNCHANGED <<status, account, recipient, crashes, tick, out, unsure, today, late>>
    BY <1>2, <1>a DEF StartAccounts, OpRows
  <2>2. c \in Campaigns /\ op[o].kind = "start"
    BY <1>a, <2>1 DEF OpShape
  <2>3. sent \in [Accounts -> Nat] /\ day \in [Accounts -> {"before", "today"}]
    BY <1>c, <2>2 DEF AccountRows
  <2> HIDE DEF sent, day
  <2>4. r \in OpRows /\ r.campaign = c /\ r.kind = op[o].kind /\ r.pc = "write"
    BY <1>a, <2>3 DEF OpRows
  <2> HIDE DEF r
  <2>5. OpShape(r)
    BY <2>2, <2>4 DEF OpShape
  <2>6. OpTypes'
    BY <1>a, <2>1, <2>4, <2>5, OpSet
  <2> QED
    BY <1>a, <2>1, <2>2, <2>6 DEF Typed, RowTypes, HistoryTypes, TickTypes
<1>3. ASSUME Return(o), op[o].pc = "write", NEW new \in CampaignStatuses, SetStatus(c, new),
             account' \in [Campaigns -> [Accounts -> AccountRows]],
             recipient' \in [Campaigns -> [Customers -> RecipientRows]],
             \A d \in Campaigns, k \in Customers : Triable(recipient'[d][k]),
             UNCHANGED <<crashes, tick, out, unsure, today, raced>>
      PROVE  Typed'
  <2>1. /\ status' \in [Campaigns -> CampaignStatuses]
        /\ late' \in [Campaigns -> [Accounts -> Nat]]
    BY <1>a, <1>b, <1>3, StatusSet
  <2>2. OpTypes'
    BY <1>3, <1>a, ReturnType
  <2> QED
    BY <1>a, <1>3, <2>1, <2>2 DEF Typed, RowTypes, HistoryTypes, TickTypes
<1>4. ASSUME NEW rows \in [Accounts -> AccountRows], c \in Campaigns,
             account' = [account EXCEPT ![c] = rows]
      PROVE  account' \in [Campaigns -> [Accounts -> AccountRows]]
  BY <1>c, <1>4
<1>5. CASE StartCommit(o)
  <2>1. /\ op[o].pc = "write" /\ Return(o) /\ SetStatus(c, "RUNNING") /\ c \in Campaigns
        /\ UNCHANGED <<crashes, tick, out, unsure, today, raced>>
    BY <1>5, <1>b DEF StartCommit
  <2>2. account' \in [Campaigns -> [Accounts -> AccountRows]]
    <3> DEFINE rows == [a \in Accounts |->
                 IF a \in Members(c)
                 THEN [account[c][a] EXCEPT !.status = "READY", !.due = TRUE,
                          !.sent = op[o].sent[a], !.day = op[o].day[a]]
                 ELSE account[c][a]]
    <3>1. account' = [account EXCEPT ![c] = rows]
      BY <1>5 DEF StartCommit
    <3>2. op[o].sent \in [Accounts -> Nat] /\ op[o].day \in [Accounts -> {"before", "today"}]
      BY <1>a DEF OpRows
    <3>3. ASSUME NEW a \in Accounts PROVE rows[a] \in AccountRows
      <4>1. account[c][a] \in AccountRows /\ op[o].sent[a] \in Nat
            /\ op[o].day[a] \in {"never", "before", "today"}
        BY <1>c, <2>1, <3>2
      <4>2. [account[c][a] EXCEPT !.status = "READY", !.due = TRUE, !.sent = op[o].sent[a],
                                  !.day = op[o].day[a]] \in AccountRows
        BY <4>1 DEF AccountRows
      <4> QED
        BY <4>1, <4>2
    <3>4. rows \in [Accounts -> AccountRows]
      BY <3>3
    <3> HIDE DEF rows
    <3> QED
      BY <1>4, <2>1, <3>1, <3>4
  <2>3. /\ recipient' \in [Campaigns -> [Customers -> RecipientRows]]
        /\ \A d \in Campaigns, k \in Customers : Triable(recipient'[d][k])
    <3> DEFINE new == [k \in Customers |-> IF k \in Selects[c]
                                           THEN [NewRecipient EXCEPT !.status = "PENDING"]
                                           ELSE NewRecipient]
    <3>1. recipient' = recipient \/ recipient' = [recipient EXCEPT ![c] = new]
      BY <1>5, <1>c, <2>1 DEF StartCommit
    <3>2. ASSUME NEW k \in Customers PROVE new[k] \in RecipientRows /\ Triable(new[k])
      BY NewTypes, CampaignAssumption DEF RecipientRows, Triable
    <3>3. new \in [Customers -> RecipientRows]
      BY <3>2
    <3> HIDE DEF new
    <3> QED
      BY <1>a, <1>c, <2>1, <3>1, <3>2, <3>3 DEF RowTypes
  <2> QED
    BY <1>3, <2>1, <2>2, <2>3 DEF CampaignStatuses
<1>6. CASE ResumeCommit(o)
  <2>1. /\ op[o].pc = "write" /\ Return(o) /\ SetStatus(c, "RUNNING") /\ c \in Campaigns
        /\ UNCHANGED <<recipient, crashes, tick, out, unsure, today, raced>>
    BY <1>6, <1>b DEF ResumeCommit
  <2>2. account' \in [Campaigns -> [Accounts -> AccountRows]]
    <3> DEFINE rows == [a \in Accounts |->
                 IF account[c][a].status = "PAUSED_ERROR"
                 THEN [account[c][a] EXCEPT !.status = "READY", !.due = TRUE, !.errors = 0]
                 ELSE account[c][a]]
    <3>1. account' = [account EXCEPT ![c] = rows]
      BY <1>6 DEF ResumeCommit
    <3>2. 0 \in 0 .. MaxErrors
      BY CampaignAssumption
    <3>3. ASSUME NEW a \in Accounts PROVE rows[a] \in AccountRows
      <4>1. account[c][a] \in AccountRows
        BY <1>c, <2>1
      <4>2. [account[c][a] EXCEPT !.status = "READY", !.due = TRUE, !.errors = 0]
              \in AccountRows
        BY <3>2, <4>1 DEF AccountRows
      <4> QED
        BY <4>1, <4>2
    <3>4. rows \in [Accounts -> AccountRows]
      BY <3>3
    <3> HIDE DEF rows
    <3> QED
      BY <1>4, <2>1, <3>1, <3>4
  <2> QED
    BY <1>a, <1>3, <2>1, <2>2 DEF CampaignStatuses, RowTypes
<1>7. CASE UpdateCommit(o)
  <2>1. /\ op[o].pc = "write" /\ Return(o) /\ SetStatus(c, op[o].status) /\ c \in Campaigns
        /\ op[o].status \in CampaignStatuses /\ raced' \in {raced, raced \cup {c}}
        /\ UNCHANGED <<recipient, crashes, out, unsure, today>>
    BY <1>7, <1>a, <1>b DEF UpdateCommit, OpRows
  <2>2. /\ status' \in [Campaigns -> CampaignStatuses]
        /\ late' \in [Campaigns -> [Accounts -> Nat]]
    BY <1>a, <2>1, StatusSet
  <2>3. OpTypes'
    BY <1>a, <2>1, ReturnType
  <2>4. TickTypes' /\ account' \in [Campaigns -> [Accounts -> AccountRows]]
    <3>1. CASE UNCHANGED <<account, tick>>
      BY <1>a, <1>c, <3>1 DEF TickTypes
    <3>2. CASE ~UNCHANGED <<account, tick>>
      <4>1. PICK list \in Lists[c] : account' = [account EXCEPT ![c] = Fresh(list)]
        BY <1>7, <3>2 DEF UpdateCommit
      <4>2. tick' = [s \in Schedulers |-> IF s \in Sending(c)
                                          THEN [tick[s] EXCEPT !.gone = TRUE] ELSE tick[s]]
        BY <1>7, <3>2 DEF UpdateCommit
      <4>3. ASSUME NEW s \in Schedulers
            PROVE  tick'[s] \in TickRows /\ TickShape(tick'[s])
        <5>1. tick[s] \in TickRows /\ TickShape(tick[s])
          BY <1>a DEF TickTypes
        <5>2. /\ [tick[s] EXCEPT !.gone = TRUE] \in TickRows
              /\ TickShape([tick[s] EXCEPT !.gone = TRUE])
          BY <5>1 DEF TickRows, TickShape
        <5> QED
          BY <4>2, <5>1, <5>2
      <4>4. TickTypes'
        BY <4>2, <4>3 DEF TickTypes
      <4> QED
        BY <1>4, <2>1, <4>1, <4>4, FreshRows
    <3> QED
      BY <3>1, <3>2
  <2> QED
    BY <1>a, <2>1, <2>2, <2>3, <2>4 DEF Typed, RowTypes, HistoryTypes
<1>8. CASE DeleteCommit(o)
  <2>1. /\ op[o].pc = "write" /\ Return(o) /\ SetStatus(c, "NONE") /\ c \in Campaigns
        /\ UNCHANGED <<account, crashes, tick, out, unsure, today, raced>>
        /\ recipient' = [recipient EXCEPT ![c] = [k \in Customers |-> NewRecipient]]
    BY <1>8, <1>b DEF DeleteCommit
  <2>2. Triable(NewRecipient)
    BY NewTypes DEF Triable
  <2>3. /\ recipient' \in [Campaigns -> [Customers -> RecipientRows]]
        /\ \A d \in Campaigns, k \in Customers : Triable(recipient'[d][k])
    BY <1>a, <1>c, <2>1, <2>2, NewTypes DEF RowTypes
  <2> QED
    BY <1>3, <1>c, <2>1, <2>3 DEF CampaignStatuses
<1>9. CASE OpFails(o)
  <2>1. Return(o) /\ UNCHANGED <<status, account, recipient, crashes, tick, history>>
    BY <1>9 DEF OpFails
  <2>2. OpTypes'
    BY <1>a, <2>1, ReturnType
  <2> QED
    BY <1>a, <2>1, <2>2 DEF Typed, RowTypes, HistoryTypes, TickTypes, history
<1> QED
  BY <1>1, <1>2, <1>5, <1>6, <1>7, <1>8, <1>9 DEF OpStep

LEMMA TypedStop ==
  ASSUME Typed, NEW c \in Campaigns, Pause(c) \/ Cancel(c)
  PROVE  Typed'
<1>1. PICK new \in CampaignStatuses : SetStatus(c, new)
  BY DEF Pause, Cancel, Stop, CampaignStatuses
<1>2. UNCHANGED <<account, recipient, crashes, tick, op, out, unsure, today, raced>>
  BY DEF Pause, Cancel, Stop
<1>3. /\ status' \in [Campaigns -> CampaignStatuses]
      /\ late' \in [Campaigns -> [Accounts -> Nat]]
  BY <1>1, StatusSet DEF Typed
<1> QED
  BY <1>2, <1>3 DEF Typed, RowTypes, HistoryTypes, TickTypes, OpTypes

-----------------------------------------------------------------------------
(* The ticks.                                                               *)
LEMMA TypedTickBegin ==
  ASSUME Typed, NEW s \in Schedulers, NEW c \in Campaigns, TickBegin(s, c)
  PROVE  /\ Typed' /\ tick'[s].pc = "read" /\ tick'[s].campaign = c
         /\ \A t \in Schedulers : t # s => tick'[t] = tick[t]
<1> DEFINE r == [NoTick EXCEPT !.pc = "read", !.campaign = c,
                               !.rows = account[c], !.todo = Members(c)]
<1>1. account[c] \in [Accounts -> AccountRows] /\ Members(c) \in SUBSET Accounts
  BY DEF Typed, RowTypes, Members
<1>2. r \in TickRows /\ r.pc = "read" /\ r.campaign = c
  BY NewTypes, <1>1 DEF TickRows
<1>3. /\ tick' = [tick EXCEPT ![s] = r] /\ raced' \in {raced, raced \cup {c}}
      /\ UNCHANGED <<status, account, recipient, crashes, op, out, unsure, today, late>>
  BY DEF TickBegin
<1> HIDE DEF r
<1>4. TickShape(r)
  BY <1>2 DEF TickShape
<1>5. TickTypes' /\ tick'[s] = r /\ \A t \in Schedulers : t # s => tick'[t] = tick[t]
  BY <1>2, <1>3, <1>4, TickSet DEF Typed
<1> QED
  BY <1>2, <1>3, <1>5 DEF Typed, RowTypes, HistoryTypes, OpTypes

LEMMA NextAccountType ==
  ASSUME TickTypes, NEW s \in Schedulers, tick[s].pc # "idle", NextAccount(s)
  PROVE  /\ TickTypes' /\ tick'[s].pc = "account" /\ tick'[s].campaign = tick[s].campaign
         /\ \A t \in Schedulers : t # s => tick'[t] = tick[t]
<1> DEFINE rows == [tick[s].rows EXCEPT ![tick[s].account] = NoRow]
           todo == tick[s].todo \ {tick[s].account}
           r == [tick[s] EXCEPT !.pc = "account", !.todo = todo, !.account = None,
                                !.customer = None, !.rows = rows]
<1>1. tick[s] \in TickRows /\ TickShape(tick[s])
  BY DEF TickTypes
<1>2. rows \in [Accounts -> AccountRows] /\ todo \in SUBSET Accounts
  BY <1>1, NewTypes DEF TickRows
<1>3. tick' = [tick EXCEPT ![s] = r]
  BY <1>1 DEF TickTypes, NextAccount, TickRows
<1> HIDE DEF rows, todo
<1>4. r \in TickRows /\ r.pc = "account" /\ r.campaign = tick[s].campaign
  BY <1>1, <1>2 DEF TickRows
<1> HIDE DEF r
<1>5. TickShape(r)
  BY <1>1, <1>4 DEF TickShape
<1> QED
  BY <1>3, <1>4, <1>5, TickSet

LEMMA AbortType ==
  ASSUME TickTypes, NEW s \in Schedulers, tick' = [tick EXCEPT ![s] = NoTick]
  PROVE  /\ TickTypes' /\ tick'[s] = NoTick
         /\ \A t \in Schedulers : t # s => tick'[t] = tick[t]
<1>1. TickShape(NoTick)
  BY NewTypes DEF TickShape
<1> QED
  BY <1>1, NewTypes, TickSet

LEMMA AfterErrorType ==
  ASSUME NEW old \in AccountRows, NEW errors \in 0 .. MaxErrors
  PROVE  AfterError(old, errors) \in AccountRows
<1>1. MaxErrors \in 0 .. MaxErrors /\ (~(errors + 1 >= MaxErrors) => errors + 1 \in 0 .. MaxErrors)
  BY CampaignAssumption
<1>2. CASE errors + 1 >= MaxErrors
  <2>1. MaxErrors \in 0 .. MaxErrors
    BY <1>1
  <2> QED
    BY <1>2, <2>1 DEF AfterError, AccountRows
<1>3. CASE ~(errors + 1 >= MaxErrors)
  <2> DEFINE n == errors + 1
  <2>1. n \in 0 .. MaxErrors
    BY <1>1, <1>3
  <2>2. AfterError(old, errors) = [old EXCEPT !.errors = n, !.status = "READY", !.due = FALSE]
    BY <1>3 DEF AfterError
  <2> HIDE DEF n
  <2> QED
    BY <2>1, <2>2 DEF AccountRows
<1> QED
  BY <1>2, <1>3

(* The tick drops an account, or goes to the next statement.                *)
LEMMA DropType ==
  ASSUME TickTypes, NEW s \in Schedulers, NEW a \in Accounts, tick[s].pc # "idle",
         NEW row \in AccountRows, NEW gone \in SUBSET Accounts,
         tick[s].pc \notin {"claim", "send", "record", "error", "finish"},
         tick' = [tick EXCEPT ![s] = [tick[s] EXCEPT !.todo = tick[s].todo \ gone,
                                        !.rows = [tick[s].rows EXCEPT ![a] = row]]]
  PROVE  /\ TickTypes' /\ tick'[s].pc = tick[s].pc /\ tick'[s].campaign = tick[s].campaign
         /\ \A t \in Schedulers : t # s => tick'[t] = tick[t]
<1> DEFINE rows == [tick[s].rows EXCEPT ![a] = row]
           todo == tick[s].todo \ gone
           r == [tick[s] EXCEPT !.todo = todo, !.rows = rows]
<1>1. tick[s] \in TickRows /\ TickShape(tick[s])
  BY DEF TickTypes
<1>2. rows \in [Accounts -> AccountRows] /\ todo \in SUBSET Accounts
  BY <1>1 DEF TickRows
<1>3. tick' = [tick EXCEPT ![s] = r]
  OBVIOUS
<1> HIDE DEF rows, todo
<1>4. r \in TickRows /\ r.pc = tick[s].pc /\ r.campaign = tick[s].campaign
  BY <1>1, <1>2 DEF TickRows
<1> HIDE DEF r
<1>5. TickShape(r)
  BY <1>1, <1>4 DEF TickShape
<1> QED
  BY <1>3, <1>4, <1>5, TickSet

LEMMA TypedTickStep ==
  ASSUME Typed, NEW s \in Schedulers, TickStep(s)
  PROVE  Typed'
<1> DEFINE c == tick[s].campaign  k == tick[s].customer  a == tick[s].account
<1>a. /\ tick[s] \in TickRows /\ TickShape(tick[s]) /\ tick \in [Schedulers -> TickRows]
      /\ RowTypes /\ HistoryTypes /\ OpTypes /\ TickTypes
  BY DEF Typed, TickTypes
<1>b. /\ status \in [Campaigns -> CampaignStatuses]
      /\ account \in [Campaigns -> [Accounts -> AccountRows]]
      /\ recipient \in [Campaigns -> [Customers -> RecipientRows]]
      /\ tick[s].rows \in [Accounts -> AccountRows] /\ tick[s].day \in {"before", "today"}
      /\ \A d \in Campaigns, j \in Customers : Triable(recipient[d][j])
  BY <1>a DEF RowTypes, TickRows
<1>c. tick[s].pc # "idle" => c \in Campaigns
  BY <1>a DEF TickShape
<1>d. tick[s].pc \in {"claim", "send", "record", "error"} => a \in Accounts
  BY <1>a DEF TickShape
<1>e. tick[s].pc \in {"send", "record", "error"} => k \in Customers
  BY <1>a DEF TickShape
<1>1. ASSUME UNCHANGED <<status, recipient, crashes, op, history>>, TickTypes',
             account' \in [Campaigns -> [Accounts -> AccountRows]]
      PROVE  Typed'
  BY <1>a, <1>1 DEF Typed, RowTypes, HistoryTypes, OpTypes, history
<1>2. ASSUME NEW b \in Accounts, QuotaWindow(s, b) PROVE Typed'
  <2> DEFINE new == Renewed(account[c][b], Row(s, b))
             row == [new EXCEPT !.day = tick[s].day]
             own == [new EXCEPT !.day = "today"]
  <2>1. /\ tick[s].pc = "account" /\ c \in Campaigns
        /\ UNCHANGED <<status, recipient, crashes, op, history>>
    BY <1>2, <1>c DEF QuotaWindow
  <2>2. new \in AccountRows
    <3>1. account[c][b] \in AccountRows /\ 0 \in Nat
      BY <1>b, <2>1
    <3>2. [account[c][b] EXCEPT !.sent = 0, !.due = TRUE] \in AccountRows
      BY <3>1 DEF AccountRows
    <3> QED
      BY <3>1, <3>2 DEF Renewed
  <2>3. /\ account' = [account EXCEPT ![c] = [account[c] EXCEPT ![b] = row]]
        /\ tick' = [tick EXCEPT ![s] = [tick[s] EXCEPT !.rows = [tick[s].rows EXCEPT ![b] = own]]]
    BY <1>2 DEF QuotaWindow
  <2> HIDE DEF new
  <2>4. row \in AccountRows /\ own \in AccountRows
    BY <1>b, <2>2 DEF AccountRows
  <2> HIDE DEF row, own
  <2>5. account' \in [Campaigns -> [Accounts -> AccountRows]]
    BY <1>a, <2>1, <2>3, <2>4, AccountSet
  <2>6. TickTypes'
    <3> DEFINE rows == [tick[s].rows EXCEPT ![b] = own]
               r == [tick[s] EXCEPT !.rows = rows]
    <3>1. rows \in [Accounts -> AccountRows] /\ tick' = [tick EXCEPT ![s] = r]
      BY <1>b, <2>3, <2>4
    <3> HIDE DEF rows
    <3>2. r \in TickRows /\ r.pc = tick[s].pc /\ r.campaign = c
      BY <1>a, <3>1 DEF TickRows
    <3> HIDE DEF r
    <3>3. TickShape(r)
      BY <2>1, <3>2 DEF TickShape
    <3> QED
      BY <1>a, <3>1, <3>2, <3>3, TickSet
  <2> QED
    BY <1>1, <2>1, <2>5, <2>6
<1>3. ASSUME NEW b \in Accounts, PassOver(s, b) \/ Offline(s, b) PROVE Typed'
  <2>1. /\ tick[s].pc = "account" /\ c \in Campaigns
        /\ UNCHANGED <<status, recipient, crashes, op, history>>
    BY <1>3, <1>c DEF PassOver, Offline
  <2>2. tick' = [tick EXCEPT ![s] = [tick[s] EXCEPT !.todo = tick[s].todo \ {b},
                                        !.rows = [tick[s].rows EXCEPT ![b] = NoRow]]]
    BY <1>3, <1>a DEF PassOver, Offline, TickRows
  <2>3. TickTypes'
    BY ZenonT(40), <1>a, <2>1, <2>2, NewTypes, DropType
  <2>4. account' \in [Campaigns -> [Accounts -> AccountRows]]
    <3>1. CASE PassOver(s, b)
      BY <1>b, <3>1 DEF PassOver
    <3>2. CASE Offline(s, b)
      <4> DEFINE row == AfterError(account[c][b], Row(s, b).errors)
      <4>1. account' = [account EXCEPT ![c] = [account[c] EXCEPT ![b] = row]]
        BY <3>2 DEF Offline
      <4>2. account[c][b] \in AccountRows /\ Row(s, b).errors \in 0 .. MaxErrors
        BY <1>b, <2>1 DEF Row, AccountRows
      <4>3. row \in AccountRows
        BY <4>2, AfterErrorType
      <4> HIDE DEF row
      <4> QED
        BY <1>a, <2>1, <4>1, <4>3, AccountSet
    <3> QED
      BY <1>3, <3>1, <3>2
  <2> QED
    BY <1>1, <2>1, <2>3, <2>4
<1>4. ASSUME NEW b \in Accounts, Choose(s, b) PROVE Typed'
  <2> DEFINE r == [tick[s] EXCEPT !.pc = "claim", !.account = b]
  <2>1. /\ tick[s].pc = "account" /\ c \in Campaigns /\ tick' = [tick EXCEPT ![s] = r]
        /\ UNCHANGED <<status, account, recipient, crashes, op, history>>
    BY <1>4, <1>a, <1>c DEF Choose
  <2>2. r \in TickRows /\ r.pc = "claim" /\ r.account = b /\ r.campaign = c
    BY <1>a DEF TickRows
  <2> HIDE DEF r
  <2>3. TickShape(r)
    BY <2>1, <2>2 DEF TickShape
  <2>4. TickTypes'
    BY <1>a, <2>1, <2>2, <2>3, TickSet
  <2> QED
    BY <1>1, <1>b, <2>1, <2>4
<1>5. ASSUME NEW j \in Customers, SkipRecipient(s, j) PROVE Typed'
  <2> DEFINE row == [recipient[c][j] EXCEPT !.status = "SKIPPED"]
  <2>1. /\ c \in Campaigns /\ UNCHANGED <<status, account, crashes, tick, op, history>>
        /\ recipient' = [recipient EXCEPT ![c] = [recipient[c] EXCEPT ![j] = row]]
    BY <1>5, <1>c DEF SkipRecipient
  <2>2. row \in RecipientRows /\ row.status = "SKIPPED"
    <3>1. recipient[c][j] \in RecipientRows
      BY <1>b, <2>1
    <3> QED
      BY <3>1 DEF RecipientRows
  <2> HIDE DEF row
  <2>3. RowTypes'
    BY <1>a, <2>1, <2>2, RecipientSet DEF Triable, RowTypes
  <2> QED
    BY <1>a, <2>1, <2>3 DEF Typed, HistoryTypes, OpTypes, TickTypes, history
<1>6. ASSUME NEW j \in Customers, Claim(s, j) PROVE Typed'
  <2> DEFINE n == recipient[c][j].attempts + 1
             row == [recipient[c][j] EXCEPT !.status = "IN_PROGRESS", !.attempts = n]
             r == [tick[s] EXCEPT !.pc = "send", !.customer = j]
  <2>1. /\ tick[s].pc = "claim" /\ recipient[c][j].status = "PENDING" /\ c \in Campaigns
        /\ UNCHANGED <<status, account, crashes, op, history>>
    BY <1>6, <1>c DEF Claim, Claimable, Pending
  <2>2. recipient' = [recipient EXCEPT ![c] = [recipient[c] EXCEPT ![j] = row]]
    BY <1>6, <1>b, <2>1 DEF Claim
  <2>3. n \in 0 .. MaxAttempts
    <3>1. recipient[c][j] \in RecipientRows /\ Triable(recipient[c][j])
      BY <1>b, <2>1
    <3>2. recipient[c][j].attempts \in 0 .. MaxAttempts /\ recipient[c][j].attempts < MaxAttempts
      BY <2>1, <3>1 DEF Triable, RecipientRows
    <3> QED
      BY <3>2, CampaignAssumption
  <2> HIDE DEF n
  <2>4. row \in RecipientRows /\ row.status = "IN_PROGRESS"
    <3>1. recipient[c][j] \in RecipientRows
      BY <1>b, <2>1
    <3> QED
      BY <2>3, <3>1 DEF RecipientRows
  <2>5. tick' = [tick EXCEPT ![s] = r]
    BY <1>6, <1>a DEF Claim
  <2>6. r \in TickRows /\ r.pc = "send" /\ r.customer = j /\ r.campaign = c /\ r.account = a
    BY <1>a DEF TickRows
  <2> HIDE DEF row, r
  <2>7. RowTypes'
    BY <1>a, <2>1, <2>2, <2>4, RecipientSet DEF Triable, RowTypes
  <2>8. TickShape(r)
    BY <1>d, <2>1, <2>6 DEF TickShape
  <2>9. TickTypes'
    BY <1>a, <2>5, <2>6, <2>8, TickSet
  <2> QED
    BY <1>a, <2>1, <2>7, <2>9 DEF Typed, HistoryTypes, OpTypes, history
<1>7. CASE NothingToClaim(s)
  BY <1>1, <1>7, <1>a, <1>b, NextAccountType DEF NothingToClaim
<1>8. ASSUME tick[s].pc \in {"send", "record", "error"}, NextAccount(s),
             NEW to \in {"SKIPPED", "SENT", "FAILED", "PENDING"},
             to = "PENDING" => recipient[c][k].attempts < MaxAttempts,
             recipient' = [recipient EXCEPT ![c] = [recipient[c] EXCEPT ![k] =
                             [recipient[c][k] EXCEPT !.status = to]]],
             NEW new \in AccountRows,
             account' = [account EXCEPT ![c] = [account[c] EXCEPT ![a] = new]],
             HistoryTypes', UNCHANGED <<status, op>>
      PROVE  Typed'
  <2> DEFINE row == [recipient[c][k] EXCEPT !.status = to]
  <2>1. c \in Campaigns /\ k \in Customers /\ a \in Accounts
    BY <1>8, <1>c, <1>d, <1>e
  <2>2. row \in RecipientRows /\ row.status = to /\ row.attempts = recipient[c][k].attempts
    BY SMTT(30), <1>b, <2>1 DEF RecipientRows
  <2>3. recipient' = [recipient EXCEPT ![c] = [recipient[c] EXCEPT ![k] = row]]
    BY <1>8
  <2> HIDE DEF row
  <2>4. Triable(row)
    BY <1>8, <2>2 DEF Triable
  <2>5. /\ recipient' \in [Campaigns -> [Customers -> RecipientRows]]
        /\ \A d \in Campaigns, j \in Customers : Triable(recipient'[d][j])
    BY <1>a, <2>1, <2>2, <2>3, <2>4, RecipientSet
  <2>6. account' \in [Campaigns -> [Accounts -> AccountRows]]
    BY <1>a, <1>8, <2>1, AccountSet
  <2>7. TickTypes'
    BY <1>a, <1>8, NextAccountType
  <2> QED
    BY <1>a, <1>8, <2>5, <2>6, <2>7 DEF Typed, RowTypes, OpTypes
<1>9. ASSUME UNCHANGED <<crashes, history>> PROVE HistoryTypes'
  BY <1>a, <1>9 DEF HistoryTypes, history
<1>10. CASE Unrenderable(s)
  <2> DEFINE new == [account[c][a] EXCEPT !.errors = 0, !.due = FALSE]
  <2>1. /\ tick[s].pc = "send" /\ NextAccount(s) /\ UNCHANGED <<status, crashes, op, history>>
        /\ recipient' = [recipient EXCEPT ![c] = [recipient[c] EXCEPT ![k] =
                           [recipient[c][k] EXCEPT !.status = "SKIPPED"]]]
        /\ account' = [account EXCEPT ![c] = [account[c] EXCEPT ![a] = new]]
    BY <1>10 DEF Unrenderable
  <2>2. account[c][a] \in AccountRows /\ 0 \in 0 .. MaxErrors
    BY <1>b, <1>c, <1>d, <2>1, CampaignAssumption
  <2>3. new \in AccountRows
    BY <2>2 DEF AccountRows
  <2> HIDE DEF new
  <2> QED
    BY <1>8, <1>9, <2>1, <2>3
<1>11. ASSUME NEW pc \in {"record", "error"}, tick[s].pc \in {"send", "record"},
              tick' = [tick EXCEPT ![s].pc = pc]
       PROVE  TickTypes'
  <2> DEFINE r == [tick[s] EXCEPT !.pc = pc]
  <2>1. tick' = [tick EXCEPT ![s] = r]
    BY <1>11
  <2>2. r \in TickRows /\ r.pc = pc /\ r.campaign = c /\ r.account = a /\ r.customer = k
    BY <1>a DEF TickRows
  <2> HIDE DEF r
  <2>3. TickShape(r)
    BY <1>11, <1>c, <1>d, <1>e, <2>2 DEF TickShape
  <2> QED
    BY <1>a, <2>1, <2>2, <2>3, TickSet
<1>12. CASE Send(s)
  <2>1. PICK gone \in BOOLEAN, ok \in BOOLEAN :
          /\ tick' = [tick EXCEPT ![s].pc = IF ok THEN "record" ELSE "error"]
          /\ out' = IF gone THEN [out EXCEPT ![c][k] = @ + 1] ELSE out
          /\ unsure' = IF gone /\ ~ok THEN [unsure EXCEPT ![c] = @ \cup {k}] ELSE unsure
          /\ late' = IF gone /\ status[c] # "RUNNING" THEN [late EXCEPT ![c][a] = @ + 1]
                     ELSE late
    BY <1>12 DEF Send
  <2>2. /\ tick[s].pc = "send" /\ c \in Campaigns /\ k \in Customers /\ a \in Accounts
        /\ UNCHANGED <<status, account, recipient, crashes, op, today, raced>>
    BY <1>12, <1>c, <1>d, <1>e DEF Send
  <2>3. TickTypes'
    BY <1>11, <2>1, <2>2
  <2>4. out' \in [Campaigns -> [Customers -> Nat]]
    BY <1>a, <2>1, <2>2 DEF HistoryTypes
  <2>5. late' \in [Campaigns -> [Accounts -> Nat]]
    BY <1>a, <2>1, <2>2 DEF HistoryTypes
  <2>6. unsure' \in [Campaigns -> SUBSET Customers]
    BY <1>a, <2>1, <2>2 DEF HistoryTypes
  <2> QED
    BY <1>a, <2>2, <2>3, <2>4, <2>5, <2>6 DEF Typed, RowTypes, HistoryTypes, OpTypes
<1>13. CASE Record(s)
  <2> DEFINE n == account[c][a].sent + 1
             new == [account[c][a] EXCEPT !.status = "READY", !.sent = n, !.errors = 0,
                                          !.day = tick[s].day, !.due = FALSE]
  <2>0. c \in Campaigns /\ a \in Accounts /\ account[c][a] \in AccountRows
    BY <1>13, <1>b, <1>c, <1>d DEF Record
  <2>1. /\ tick[s].pc = "record" /\ NextAccount(s)
        /\ UNCHANGED <<status, crashes, op, out, unsure, late, raced>>
        /\ recipient' = [recipient EXCEPT ![c] = [recipient[c] EXCEPT ![k] =
                           [recipient[c][k] EXCEPT !.status = "SENT"]]]
        /\ account' = [account EXCEPT ![c] = [account[c] EXCEPT ![a] = new]]
        /\ today' = IF tick[s].day = "today" THEN [today EXCEPT ![c][a] = @ + 1] ELSE today
    BY <1>13, <2>0 DEF Record, AccountRows
  <2>2. c \in Campaigns /\ a \in Accounts /\ 0 \in 0 .. MaxErrors /\ n \in Nat
    <3>1. account[c][a].sent \in Nat
      BY <2>0 DEF AccountRows
    <3>2. 0 \in 0 .. MaxErrors
      BY CampaignAssumption
    <3> QED
      BY <2>0, <3>1, <3>2
  <2> HIDE DEF n
  <2>3. new \in AccountRows
    <3>1. tick[s].day \in {"before", "today"}
      BY <1>a DEF TickRows
    <3> QED
      BY <2>0, <2>2, <3>1 DEF AccountRows
  <2> HIDE DEF new
  <2>4. today' \in [Campaigns -> [Accounts -> Nat]]
    BY <1>a, <2>1, <2>2 DEF HistoryTypes
  <2>5. HistoryTypes'
    BY <1>a, <2>1, <2>4 DEF HistoryTypes
  <2> QED
    BY <1>8, <2>1, <2>3, <2>5
<1>14. CASE RecordFails(s)
  <2>1. /\ tick[s].pc = "record" /\ c \in Campaigns /\ k \in Customers
        /\ tick' = [tick EXCEPT ![s].pc = "error"]
        /\ unsure' = [unsure EXCEPT ![c] = unsure[c] \cup {k}]
        /\ UNCHANGED <<status, account, recipient, crashes, op, out, today, late, raced>>
    BY <1>14, <1>c, <1>e DEF RecordFails
  <2>2. TickTypes'
    BY <1>11, <2>1
  <2>3. unsure' \in [Campaigns -> SUBSET Customers]
    BY <1>a, <2>1 DEF HistoryTypes
  <2> QED
    BY <1>a, <2>1, <2>2, <2>3 DEF Typed, RowTypes, HistoryTypes, OpTypes
<1>15. CASE RecordError(s)
  <2> DEFINE new == AfterError(account[c][a], Row(s, a).errors)
             to == Retried(recipient[c][k].attempts)
  <2>1. /\ tick[s].pc = "error" /\ NextAccount(s) /\ UNCHANGED <<status, crashes, op, history>>
        /\ recipient' = [recipient EXCEPT ![c] = [recipient[c] EXCEPT ![k] =
                           [recipient[c][k] EXCEPT !.status = to]]]
        /\ account' = [account EXCEPT ![c] = [account[c] EXCEPT ![a] = new]]
    BY <1>15 DEF RecordError
  <2>2. account[c][a] \in AccountRows /\ Row(s, a).errors \in 0 .. MaxErrors
    BY <1>b, <1>c, <1>d, <2>1 DEF Row, AccountRows
  <2>3. new \in AccountRows
    BY <2>2, AfterErrorType
  <2>4. recipient[c][k].attempts \in 0 .. MaxAttempts
    BY <1>b, <1>c, <1>e, <2>1 DEF RecipientRows
  <2>5. to \in {"FAILED", "PENDING"} /\ (to = "PENDING" => recipient[c][k].attempts < MaxAttempts)
    BY <2>4, CampaignAssumption DEF Retried
  <2> HIDE DEF new, to
  <2> QED
    BY <1>8, <1>9, <2>1, <2>3, <2>5
<1>16. CASE CountPending(s)
  <2> DEFINE pending == \E j \in Customers : Pending(c, j)
             r == [tick[s] EXCEPT !.pc = "sync", !.pending = pending]
  <2>1. /\ tick[s].pc = "account" /\ c \in Campaigns /\ tick' = [tick EXCEPT ![s] = r]
        /\ UNCHANGED <<status, account, recipient, crashes, op, history>>
    BY <1>16, <1>a, <1>c DEF CountPending
  <2>2. pending \in BOOLEAN
    OBVIOUS
  <2> HIDE DEF pending
  <2>3. r \in TickRows /\ r.pc = "sync" /\ r.campaign = c
    BY <1>a, <2>2 DEF TickRows
  <2> HIDE DEF r
  <2>4. TickShape(r)
    BY <2>1, <2>3 DEF TickShape
  <2>5. TickTypes'
    BY <1>a, <2>1, <2>3, <2>4, TickSet
  <2> QED
    BY <1>1, <1>b, <2>1, <2>5
<1>17. CASE Decide(s)
  <2>1. /\ tick[s].pc = "sync" /\ c \in Campaigns
        /\ UNCHANGED <<status, account, recipient, crashes, op, history>>
    BY <1>17, <1>c DEF Decide
  <2>2. PICK v \in {"none", "COMPLETED", "FAILED"} :
          tick' = [tick EXCEPT ![s] = IF v = "none" THEN NoTick
                     ELSE [tick[s] EXCEPT !.pc = "finish", !.verdict = v, !.pending = FALSE]]
    <3>1. PICK online \in SUBSET Accounts :
            LET v == Verdict(tick[s].pending, InProgress(c), Ready(c) \cap online)
            IN tick' = [tick EXCEPT ![s] = IF v = "none" THEN NoTick
                     ELSE [tick[s] EXCEPT !.pc = "finish", !.verdict = v, !.pending = FALSE]]
      BY <1>17, <1>a DEF Decide
    <3>2. Verdict(tick[s].pending, InProgress(c), Ready(c) \cap online)
            \in {"none", "COMPLETED", "FAILED"}
      BY <1>a DEF Verdict, TickRows, InProgress
    <3> QED
      BY <3>1, <3>2
  <2>3. TickTypes'
    <3> DEFINE r == [tick[s] EXCEPT !.pc = "finish", !.verdict = v, !.pending = FALSE]
    <3>1. r \in TickRows /\ r.pc = "finish" /\ r.campaign = c /\ r.verdict = v
      BY <1>a DEF TickRows
    <3>2. tick' = [tick EXCEPT ![s] = NoTick] \/ (v # "none" /\ tick' = [tick EXCEPT ![s] = r])
      BY <2>2
    <3> HIDE DEF r
    <3>3. v # "none" => TickShape(r)
      BY <2>1, <3>1 DEF TickShape
    <3> QED
      BY <1>a, <3>1, <3>2, <3>3, AbortType, TickSet
  <2> QED
    BY <1>1, <1>b, <2>1, <2>3
<1>18. CASE Finish(s)
  <2>1. /\ c \in Campaigns /\ tick[s].verdict \in CampaignStatuses
        /\ SetStatus(c, tick[s].verdict) /\ tick' = [tick EXCEPT ![s] = NoTick]
        /\ UNCHANGED <<account, recipient, crashes, op, out, unsure, today, raced>>
    BY <1>18, <1>a, <1>c DEF Finish, TickShape, CampaignStatuses
  <2>2. /\ status' \in [Campaigns -> CampaignStatuses]
        /\ late' \in [Campaigns -> [Accounts -> Nat]]
    BY <1>a, <2>1, StatusSet
  <2>3. TickTypes'
    BY <1>a, <2>1, AbortType
  <2> QED
    BY <1>a, <2>1, <2>2, <2>3 DEF Typed, RowTypes, HistoryTypes, OpTypes
<1>20. CASE Process(s)
  <2> DEFINE r == [tick[s] EXCEPT !.pc = "account"]
  <2>1. /\ tick[s].pc = "read" /\ c \in Campaigns /\ tick' = [tick EXCEPT ![s] = r]
        /\ UNCHANGED <<status, account, recipient, crashes, op, history>>
    BY <1>20, <1>a, <1>c DEF Process
  <2>2. r \in TickRows /\ r.pc = "account" /\ r.campaign = c
    BY <1>a DEF TickRows
  <2> HIDE DEF r
  <2>3. TickShape(r)
    BY <2>1, <2>2 DEF TickShape
  <2>4. TickTypes'
    BY <1>a, <2>1, <2>2, <2>3, TickSet
  <2> QED
    BY <1>1, <1>b, <2>1, <2>4
<1>19. CASE TickLost(s)
  <2>1. /\ tick' = [tick EXCEPT ![s] = NoTick]
        /\ UNCHANGED <<status, account, recipient, crashes, op, out, today, late, raced>>
    BY <1>19 DEF TickLost, Abort
  <2>2. unsure' \in [Campaigns -> SUBSET Customers]
    BY <1>19, <1>a, <1>c, <1>e DEF TickLost, Abort, HistoryTypes
  <2>3. TickTypes'
    BY <1>a, <2>1, AbortType
  <2> QED
    BY <1>a, <2>1, <2>2, <2>3 DEF Typed, RowTypes, HistoryTypes, OpTypes
<1> QED
  BY <1>2, <1>3, <1>4, <1>5, <1>6, <1>7, <1>10, <1>12, <1>13, <1>14, <1>15, <1>16, <1>17, <1>18,
     <1>19, <1>20 DEF TickStep

LEMMA TypedLeaveOut ==
  ASSUME Typed, NEW s \in Schedulers, LeaveOut(s)
  PROVE  Typed'
<1>1. TickTypes'
  BY AbortType DEF LeaveOut, Typed
<1> QED
  BY <1>1 DEF LeaveOut, Typed, RowTypes, HistoryTypes, OpTypes, history

LEMMA TypedCrash ==
  ASSUME Typed, NEW s \in Schedulers, TickCrashes(s)
  PROVE  Typed'
<1>1. /\ tick[s].pc # "idle" /\ tick' = [tick EXCEPT ![s] = NoTick]
      /\ UNCHANGED <<status, account, recipient, op, out, today, late, raced>>
  BY DEF TickCrashes, Abort
<1>2. crashes' \in 0 .. MaxCrashes
  BY CampaignAssumption DEF Typed, HistoryTypes, TickCrashes
<1>3. TickShape(tick[s]) /\ unsure \in [Campaigns -> SUBSET Customers]
  BY DEF Typed, TickTypes, HistoryTypes
<1>4. unsure' \in [Campaigns -> SUBSET Customers]
  BY <1>1, <1>3 DEF TickCrashes, Abort, TickShape
<1>5. TickTypes'
  BY <1>1, AbortType DEF Typed
<1> QED
  BY <1>1, <1>2, <1>4, <1>5 DEF Typed, RowTypes, HistoryTypes, OpTypes

LEMMA TypedCooldown ==
  ASSUME Typed, NEW c \in Campaigns, NEW a \in Accounts, CooldownEnds(c, a)
  PROVE  Typed'
<1> DEFINE row == [account[c][a] EXCEPT !.due = TRUE]
<1>1. /\ account' = [account EXCEPT ![c] = [account[c] EXCEPT ![a] = row]]
      /\ UNCHANGED <<status, recipient, crashes, tick, op, history>>
  BY DEF CooldownEnds
<1>2. account[c][a] \in AccountRows
  BY DEF Typed, RowTypes
<1>3. row \in AccountRows
  BY <1>2 DEF AccountRows
<1> HIDE DEF row
<1>4. account' \in [Campaigns -> [Accounts -> AccountRows]]
  BY <1>1, <1>3, AccountSet DEF Typed
<1> QED
  BY <1>1, <1>4 DEF Typed, RowTypes, HistoryTypes, OpTypes, TickTypes, history

LEMMA YesterdayType ==
  ASSUME NEW rows \in [Accounts -> AccountRows]
  PROVE  /\ Yesterday(rows) \in [Accounts -> AccountRows]
         /\ \A a \in Accounts : /\ Yesterday(rows)[a].quota = rows[a].quota
                               /\ Yesterday(rows)[a].sent = rows[a].sent
                               /\ Yesterday(rows)[a].day # "today"
                               /\ (Yesterday(rows)[a].day = "never" <=> rows[a].day = "never")
<1>1. ASSUME NEW a \in Accounts
      PROVE  /\ Yesterday(rows)[a] \in AccountRows
             /\ Yesterday(rows)[a].quota = rows[a].quota
             /\ Yesterday(rows)[a].sent = rows[a].sent
             /\ Yesterday(rows)[a].day # "today"
             /\ (Yesterday(rows)[a].day = "never" <=> rows[a].day = "never")
  <2>1. rows[a] \in AccountRows
    OBVIOUS
  <2>2. CASE rows[a].day = "today"
    <3>1. Yesterday(rows)[a] = [rows[a] EXCEPT !.day = "before"]
      BY <2>2 DEF Yesterday
    <3> QED
      BY <2>1, <2>2, <3>1 DEF AccountRows
  <2>3. CASE rows[a].day # "today"
    <3>1. Yesterday(rows)[a] = rows[a]
      BY <2>3 DEF Yesterday
    <3> QED
      BY <2>1, <2>3, <3>1
  <2> QED
    BY <2>2, <2>3
<1>2. Yesterday(rows) = [a \in Accounts |-> Yesterday(rows)[a]]
  BY DEF Yesterday
<1> QED
  BY <1>1, <1>2

(* What midnight leaves of a tick.                                          *)
SameWork(new, old) ==
  /\ new.pc = old.pc /\ new.campaign = old.campaign /\ new.todo = old.todo
  /\ new.account = old.account /\ new.customer = old.customer /\ new.verdict = old.verdict

LEMMA NewDayTick ==
  ASSUME Typed, NewDay, NEW s \in Schedulers
  PROVE  /\ tick'[s] \in TickRows /\ SameWork(tick'[s], tick[s])
         /\ \/ tick[s].pc = "idle" /\ tick'[s] = tick[s]
            \/ tick[s].pc = "read" /\ tick'[s] = [tick[s] EXCEPT !.rows = Yesterday(tick[s].rows)]
            \/ tick[s].pc \notin {"idle", "read"} /\ tick'[s] = [tick[s] EXCEPT !.day = "before"]
<1>1. tick[s] \in TickRows /\ tick[s].rows \in [Accounts -> AccountRows]
  BY DEF Typed, TickTypes, TickRows
<1>2. Yesterday(tick[s].rows) \in [Accounts -> AccountRows]
  BY <1>1, YesterdayType
<1>3. tick'[s] = CASE tick[s].pc = "idle" -> tick[s]
                   [] tick[s].pc = "read" -> [tick[s] EXCEPT !.rows = Yesterday(tick[s].rows)]
                   [] tick[s].pc \notin {"idle", "read"} -> [tick[s] EXCEPT !.day = "before"]
  BY DEF NewDay
<1>4. CASE tick[s].pc = "idle"
  BY <1>1, <1>3, <1>4 DEF SameWork
<1>5. CASE tick[s].pc = "read"
  <2>1. tick'[s] = [tick[s] EXCEPT !.rows = Yesterday(tick[s].rows)]
    BY <1>3, <1>5
  <2>2. tick'[s] \in TickRows
    BY <1>1, <1>2, <2>1 DEF TickRows
  <2>3. SameWork(tick'[s], tick[s])
    BY <1>1, <2>1 DEF TickRows, SameWork
  <2> QED
    BY <1>5, <2>1, <2>2, <2>3
<1>6. CASE tick[s].pc \notin {"idle", "read"}
  <2>1. tick'[s] = [tick[s] EXCEPT !.day = "before"]
    BY <1>3, <1>6
  <2>2. tick'[s] \in TickRows
    BY <1>1, <2>1 DEF TickRows
  <2>3. SameWork(tick'[s], tick[s])
    BY <1>1, <2>1 DEF TickRows, SameWork
  <2> QED
    BY <1>6, <2>1, <2>2, <2>3
<1> QED
  BY <1>4, <1>5, <1>6

LEMMA TypedNewDay ==
  ASSUME Typed, NewDay
  PROVE  /\ Typed'
         /\ \A s \in Schedulers :
              /\ tick'[s].pc = tick[s].pc /\ tick'[s].campaign = tick[s].campaign
              /\ tick'[s].customer = tick[s].customer
<1>1. UNCHANGED <<status, recipient, crashes, out, unsure, late, raced>>
  BY DEF NewDay
<1>2. account' \in [Campaigns -> [Accounts -> AccountRows]]
  BY YesterdayType DEF Typed, RowTypes, NewDay
<1>3. ASSUME NEW s \in Schedulers
      PROVE  /\ tick'[s] \in TickRows /\ TickShape(tick'[s])
             /\ tick'[s].pc = tick[s].pc /\ tick'[s].campaign = tick[s].campaign
             /\ tick'[s].customer = tick[s].customer
  <2>1. tick[s] \in TickRows /\ TickShape(tick[s])
    BY DEF Typed, TickTypes
  <2>2. /\ tick'[s] \in TickRows /\ tick'[s].pc = tick[s].pc
        /\ tick'[s].campaign = tick[s].campaign /\ tick'[s].account = tick[s].account
        /\ tick'[s].customer = tick[s].customer /\ tick'[s].verdict = tick[s].verdict
    BY NewDayTick DEF SameWork
  <2> QED
    BY <2>1, <2>2 DEF TickShape
<1>4. TickTypes'
  <2>1. tick' = [s \in Schedulers |-> tick'[s]]
    BY DEF NewDay
  <2> QED
    BY <1>3, <2>1 DEF TickTypes
<1>5. ASSUME NEW o \in Operators PROVE op'[o] \in OpRows /\ OpShape(op'[o])
  <2> DEFINE day == [a \in Accounts |-> "before"]
             r == [op[o] EXCEPT !.day = day]
  <2>1. op[o] \in OpRows /\ OpShape(op[o]) /\ day \in [Accounts -> {"before", "today"}]
    BY DEF Typed, OpTypes
  <2>2. op'[o] = op[o] \/ op'[o] = r
    BY DEF NewDay
  <2> HIDE DEF day
  <2>3. r \in OpRows /\ r.pc = op[o].pc /\ r.campaign = op[o].campaign
        /\ r.kind = op[o].kind /\ r.status = op[o].status
    BY <2>1 DEF OpRows
  <2> HIDE DEF r
  <2>4. OpShape(r)
    BY <2>1, <2>3 DEF OpShape
  <2> QED
    BY <2>1, <2>2, <2>3, <2>4
<1>6. OpTypes'
  <2>1. op' = [o \in Operators |-> op'[o]]
    BY DEF NewDay
  <2> QED
    BY <1>5, <2>1 DEF OpTypes
<1>7. today' \in [Campaigns -> [Accounts -> Nat]]
  BY DEF NewDay
<1> QED
  BY <1>1, <1>2, <1>3, <1>4, <1>6, <1>7 DEF Typed, RowTypes, HistoryTypes

LEMMA TypedStep == Typed /\ [Next]_vars => Typed'
<1> SUFFICES ASSUME Typed, [Next]_vars PROVE Typed'
  OBVIOUS
<1>1. CASE UNCHANGED vars
  BY <1>1 DEF vars, history, Typed, RowTypes, HistoryTypes, TickTypes, OpTypes
<1> QED
  BY <1>1, TypedOpStep, TypedOpRead, TypedStop, TypedTickBegin, TypedTickStep, TypedLeaveOut, TypedCrash,
     TypedCooldown, TypedNewDay DEF Next

LEMMA TypedInit == Init => Typed
<1> SUFFICES ASSUME Init PROVE Typed
  OBVIOUS
<1>1. RowTypes
  <2>1. PICK lists : /\ \A c \in Campaigns : lists[c] \in Lists[c]
                     /\ account = [c \in Campaigns |-> Fresh(lists[c])]
    BY DEF Init
  <2>2. account \in [Campaigns -> [Accounts -> AccountRows]]
    BY <2>1, FreshRows
  <2> QED
    BY <2>2, NewTypes DEF Init, RowTypes, CampaignStatuses, Triable
<1>2. HistoryTypes
  BY CampaignAssumption DEF Init, HistoryTypes
<1>3. TickShape(NoTick) /\ OpShape(NoOp)
  BY NewTypes DEF TickShape, OpShape
<1>4. TickTypes /\ OpTypes
  BY <1>3, NewTypes DEF Init, TickTypes, OpTypes
<1> QED
  BY <1>1, <1>2, <1>4 DEF Typed

(* Every reachable state has the types of TypeOK.                           *)
THEOREM TypeCorrect == Spec => []TypeOK
<1>1. Spec => []Typed
  BY TypedInit, TypedStep, PTL DEF Spec
<1> QED
  BY <1>1, TypedTypeOK, PTL

-----------------------------------------------------------------------------
(* No message of the campaign reached the customer, or nobody knows.        *)
Unsent(c, k) == out[c][k] = 0 \/ k \in unsure[c]
(* The tick works on this recipient.                                        *)
On(s, c, k) == Working(s) /\ tick[s].campaign = c /\ tick[s].customer = k

(* What waits was not sent; what a tick works on is IN_PROGRESS, is not     *)
(* sent yet unless it is to be recorded, and no other tick works on it.     *)
Once(c, k) ==
  /\ out[c][k] <= 1 \/ k \in unsure[c]
  /\ status[c] = "NONE" => recipient[c][k].status # "PENDING"
  /\ status[c] # "NONE" /\ recipient[c][k].status \in {"NONE", "PENDING"} => Unsent(c, k)
  /\ \A s \in Schedulers : On(s, c, k) =>
       /\ status[c] # "NONE" => recipient[c][k].status = "IN_PROGRESS"
       /\ tick[s].pc \in {"send", "error"} => Unsent(c, k)
  /\ \A s, t \in Schedulers : On(s, c, k) /\ On(t, c, k) => s = t
Inv == \A c \in Campaigns, k \in Customers : Once(c, k)
TypedInv == Typed /\ Inv

(* A recipient that is not written, by no tick that works on it.            *)
LEMMA OnceFrame ==
  ASSUME NEW c \in Campaigns, NEW k \in Customers, Once(c, k),
         out'[c][k] = out[c][k], k \in unsure[c] => k \in unsure'[c],
         recipient'[c][k] = recipient[c][k], (status'[c] = "NONE") <=> (status[c] = "NONE"),
         \A s \in Schedulers : On(s, c, k)' => On(s, c, k) /\ tick'[s].pc = tick[s].pc
  PROVE  Once(c, k)'
BY DEF Once, Unsent

LEMMA RestFrame ==
  ASSUME Inv, UNCHANGED <<recipient, out>>,
         \A c \in Campaigns : unsure[c] \subseteq unsure'[c],
         \A c \in Campaigns : (status'[c] = "NONE") <=> (status[c] = "NONE"),
         \A s \in Schedulers :
           Working(s)' => /\ tick'[s].pc = tick[s].pc /\ tick'[s].campaign = tick[s].campaign
                          /\ tick'[s].customer = tick[s].customer
  PROVE  Inv'
<1> SUFFICES ASSUME NEW c \in Campaigns, NEW k \in Customers PROVE Once(c, k)'
  BY DEF Inv
<1>1. Once(c, k)
  BY DEF Inv
<1>2. \A s \in Schedulers : On(s, c, k)' => On(s, c, k) /\ tick'[s].pc = tick[s].pc
  BY DEF On, Working
<1> QED
  BY <1>1, <1>2, OnceFrame

LEMMA StatusKept ==
  ASSUME Typed, NEW c \in Campaigns, NEW new \in CampaignStatuses, SetStatus(c, new),
         status[c] # "NONE", new # "NONE"
  PROVE  \A d \in Campaigns : (status'[d] = "NONE") <=> (status[d] = "NONE")
BY StatusSet DEF Typed

(* A request leaves the ticks alone, or marks those whose account rows it   *)
(* replaced.                                                                *)
LEMMA OpKeepsTicks ==
  ASSUME Typed, NEW o \in Operators,
         OpStep(o) \/ \E c \in Campaigns : \E kind \in OpKinds[o] : OpRead(o, kind, c)
  PROVE  \A s \in Schedulers :
           \/ tick'[s] = tick[s]
           \/ /\ op[o].kind = "replace" /\ tick[s].campaign = op[o].campaign
              /\ tick'[s] = [tick[s] EXCEPT !.gone = TRUE]
<1>1. CASE UpdateCommit(o)
  <2>1. CASE tick' = tick
    BY <2>1
  <2>2. CASE tick' # tick
    BY <1>1, <2>2 DEF UpdateCommit, Sending
  <2> QED
    BY <2>1, <2>2
<1>2. CASE ~UpdateCommit(o)
  BY <1>2 DEF OpStep, OpRead, OpCheck, StartAccounts, StartCommit, ResumeCommit,
              DeleteCommit, OpFails, history
<1> QED
  BY <1>1, <1>2

LEMMA OpTicks ==
  ASSUME Typed, NEW o \in Operators,
         OpStep(o) \/ \E c \in Campaigns : \E kind \in OpKinds[o] : OpRead(o, kind, c)
  PROVE  \A s \in Schedulers :
           /\ tick'[s].pc = tick[s].pc /\ tick'[s].campaign = tick[s].campaign
           /\ tick'[s].customer = tick[s].customer /\ tick'[s].account = tick[s].account
           /\ tick'[s].todo = tick[s].todo /\ tick'[s].rows = tick[s].rows
           /\ tick'[s].day = tick[s].day
<1> SUFFICES ASSUME NEW s \in Schedulers
             PROVE  /\ tick'[s].pc = tick[s].pc /\ tick'[s].campaign = tick[s].campaign
                    /\ tick'[s].customer = tick[s].customer
                    /\ tick'[s].account = tick[s].account /\ tick'[s].todo = tick[s].todo
                    /\ tick'[s].rows = tick[s].rows /\ tick'[s].day = tick[s].day
  OBVIOUS
<1>1. tick[s] \in TickRows
  BY DEF Typed, TickTypes
<1>2. CASE tick'[s] = [tick[s] EXCEPT !.gone = TRUE]
  BY <1>1, <1>2 DEF TickRows
<1> QED
  BY <1>2, OpKeepsTicks

LEMMA InvOperator ==
  ASSUME Typed, Inv, NEW o \in Operators,
         OpStep(o) \/ \E c \in Campaigns : \E kind \in OpKinds[o] : OpRead(o, kind, c)
  PROVE  Inv'
<1> DEFINE c == op[o].campaign
<1>a. op[o] \in OpRows /\ OpShape(op[o]) /\ (op[o].pc = "write" => c \in Campaigns)
  BY DEF Typed, OpTypes, OpShape
<1>b. /\ UNCHANGED <<out, unsure>>
      /\ \A s \in Schedulers :
           /\ tick'[s].pc = tick[s].pc /\ tick'[s].campaign = tick[s].campaign
           /\ tick'[s].customer = tick[s].customer
  <2>1. UNCHANGED <<out, unsure>>
    BY DEF OpStep, OpRead, OpCheck, StartAccounts, StartCommit, ResumeCommit, UpdateCommit,
           DeleteCommit, OpFails, history
  <2> QED
    BY <2>1, OpTicks
<1>1. ASSUME recipient' = recipient,
             \A d \in Campaigns : (status'[d] = "NONE") <=> (status[d] = "NONE")
      PROVE  Inv'
  BY <1>b, <1>1, RestFrame
<1>2. CASE \/ OpCheck(o) \/ StartAccounts(o) \/ OpFails(o)
           \/ \E d \in Campaigns : \E kind \in OpKinds[o] : OpRead(o, kind, d)
  BY <1>1, <1>2 DEF OpCheck, StartAccounts, OpFails, OpRead
<1>3. CASE ResumeCommit(o)
  <2>1. SetStatus(c, "RUNNING") /\ status[c] # "NONE" /\ recipient' = recipient /\ c \in Campaigns
    BY <1>3, <1>a DEF ResumeCommit
  <2> QED
    BY <1>1, <2>1, StatusKept DEF CampaignStatuses
<1>4. CASE UpdateCommit(o)
  <2>1. /\ SetStatus(c, op[o].status) /\ status[c] # "NONE" /\ recipient' = recipient
        /\ c \in Campaigns /\ op[o].status \in CampaignStatuses /\ op[o].status # "NONE"
    <3>1. op[o].status # "NONE"
      BY <1>4, <1>a DEF UpdateCommit, OpShape
    <3> QED
      BY <1>4, <1>a, <3>1 DEF UpdateCommit, OpRows
  <2> QED
    BY <1>1, <2>1, StatusKept
<1>5. CASE StartCommit(o)
  <2> DEFINE new == [k \in Customers |-> IF k \in Selects[c]
                                         THEN [NewRecipient EXCEPT !.status = "PENDING"]
                                         ELSE NewRecipient]
  <2>1. /\ SetStatus(c, "RUNNING") /\ status[c] # "NONE" /\ c \in Campaigns
        /\ \/ recipient' = recipient
           \/ /\ \A k \in Customers : recipient[c][k].status = "NONE"
              /\ recipient' = [recipient EXCEPT ![c] = new]
    BY <1>5, <1>a DEF StartCommit, Typed, RowTypes
  <2>2. \A d \in Campaigns : (status'[d] = "NONE") <=> (status[d] = "NONE")
    BY <2>1, StatusKept DEF CampaignStatuses
  <2>3. CASE recipient' = recipient
    BY <1>1, <2>2, <2>3
  <2>4. CASE /\ \A k \in Customers : recipient[c][k].status = "NONE"
             /\ recipient' = [recipient EXCEPT ![c] = new]
    <3> SUFFICES ASSUME NEW d \in Campaigns, NEW k \in Customers PROVE Once(d, k)'
      BY DEF Inv
    <3>1. Once(d, k)
      BY DEF Inv
    <3>2. \A s \in Schedulers : On(s, d, k)' <=> On(s, d, k)
      BY <1>b DEF On, Working
    <3>3. CASE d # c
      <4>1. recipient'[d] = recipient[d]
        BY <2>1, <2>4, <3>3 DEF Typed, RowTypes
      <4> QED
        BY <1>b, <2>2, <3>1, <3>2, <4>1, OnceFrame
    <3>4. CASE d = c
      <4>1. /\ \A s \in Schedulers : ~On(s, c, k)
            /\ Unsent(c, k) /\ (out[c][k] <= 1 \/ k \in unsure[c])
        BY <2>1, <2>4, <3>1, <3>4 DEF Once
      <4>2. status'[c] # "NONE"
        BY <2>1, <2>2
      <4> QED
        BY <1>b, <3>2, <3>4, <4>1, <4>2 DEF Once, Unsent
    <3> QED
      BY <3>3, <3>4
  <2> QED
    BY <2>1, <2>3, <2>4
<1>6. CASE DeleteCommit(o)
  <2>1. /\ SetStatus(c, "NONE") /\ c \in Campaigns
        /\ recipient' = [recipient EXCEPT ![c] = [k \in Customers |-> NewRecipient]]
    BY <1>6, <1>a DEF DeleteCommit
  <2>2. status'[c] = "NONE" /\ \A d \in Campaigns : d # c => status'[d] = status[d]
    BY <2>1, StatusSet DEF Typed, CampaignStatuses
  <2> SUFFICES ASSUME NEW d \in Campaigns, NEW k \in Customers PROVE Once(d, k)'
    BY DEF Inv
  <2>3. Once(d, k)
    BY DEF Inv
  <2>4. \A s \in Schedulers : On(s, d, k)' <=> On(s, d, k)
    BY <1>b DEF On, Working
  <2>5. CASE d # c
    <3>1. recipient'[d] = recipient[d]
      BY <2>1, <2>5 DEF Typed, RowTypes
    <3> QED
      BY <1>b, <2>2, <2>3, <2>4, <2>5, <3>1, OnceFrame
  <2>6. CASE d = c
    <3>1. recipient'[c][k].status = "NONE"
      BY <2>1, NewTypes DEF Typed, RowTypes
    <3> QED
      BY <1>b, <2>2, <2>3, <2>4, <2>6, <3>1 DEF Once, Unsent
  <2> QED
    BY <2>5, <2>6
<1> QED
  BY <1>2, <1>3, <1>4, <1>5, <1>6 DEF OpStep

LEMMA InvStop ==
  ASSUME Typed, Inv, NEW c \in Campaigns, Pause(c) \/ Cancel(c)
  PROVE  Inv'
<1>1. PICK new \in {"PAUSED", "CANCELED"} : SetStatus(c, new)
  BY DEF Pause, Cancel, Stop
<1>2. status[c] # "NONE" /\ UNCHANGED <<recipient, tick, out, unsure>>
  BY DEF Pause, Cancel, Stop
<1>3. \A d \in Campaigns : (status'[d] = "NONE") <=> (status[d] = "NONE")
  BY <1>1, <1>2, StatusKept DEF CampaignStatuses
<1> QED
  BY <1>2, <1>3, RestFrame

(* A step of tick s that writes at most the recipient it works on.          *)
LEMMA OwnFrame ==
  ASSUME Typed, Inv, NEW s \in Schedulers, NEW c \in Campaigns, NEW k \in Customers,
         \A t \in Schedulers : t # s => tick'[t] = tick[t],
         Working(s)' => tick'[s].campaign = c /\ tick'[s].customer = k,
         \A d \in Campaigns, j \in Customers : <<d, j>> # <<c, k>> =>
           /\ recipient'[d][j] = recipient[d][j] /\ out'[d][j] = out[d][j]
           /\ j \in unsure[d] => j \in unsure'[d],
         UNCHANGED status, Once(c, k)'
  PROVE  Inv'
<1> SUFFICES ASSUME NEW d \in Campaigns, NEW j \in Customers, <<d, j>> # <<c, k>>
             PROVE  Once(d, j)'
  BY DEF Inv
<1>1. Once(d, j)
  BY DEF Inv
<1>2. ASSUME NEW t \in Schedulers, On(t, d, j)'
      PROVE  On(t, d, j) /\ tick'[t].pc = tick[t].pc
  <2>1. t # s
    BY <1>2 DEF On
  <2> QED
    BY <1>2, <2>1 DEF On, Working
<1> QED
  BY <1>1, <1>2, OnceFrame

LEMMA InvTick ==
  ASSUME Typed, Typed', Inv, NEW s \in Schedulers, TickStep(s)
  PROVE  Inv'
<1>0. PICK c, k : c = tick[s].campaign /\ k = tick[s].customer
  OBVIOUS
<1> USE <1>0
<1>a. /\ tick[s] \in TickRows /\ TickShape(tick[s]) /\ tick \in [Schedulers -> TickRows]
      /\ recipient \in [Campaigns -> [Customers -> RecipientRows]]
      /\ out \in [Campaigns -> [Customers -> Nat]]
      /\ unsure \in [Campaigns -> SUBSET Customers]
  BY DEF Typed, TickTypes, RowTypes, HistoryTypes
<1>b. tick[s].pc # "idle" => c \in Campaigns
  BY <1>a DEF TickShape
<1>c. Working(s) => k \in Customers /\ c \in Campaigns
  BY <1>a DEF TickShape, Working
<1>d. \A t \in Schedulers : t # s => tick'[t] = tick[t]
  BY <1>a DEF TickStep, Process, QuotaWindow, PassOver, Offline, Choose, SkipRecipient, Claim,
       NothingToClaim, Unrenderable, Send, Record, RecordFails, RecordError, CountPending,
       Decide, Finish, TickLost, NextAccount, Abort
<1>1. ASSUME ~Working(s)', UNCHANGED <<recipient, out>>,
             \A d \in Campaigns : unsure[d] \subseteq unsure'[d],
             \A d \in Campaigns : (status'[d] = "NONE") <=> (status[d] = "NONE")
      PROVE  Inv'
  BY <1>1, <1>d, RestFrame DEF Working
<1>2. ASSUME NEW b \in Accounts, QuotaWindow(s, b) \/ PassOver(s, b) \/ Offline(s, b)
      PROVE  Inv'
  <2>1. /\ tick[s].pc = "account" /\ tick'[s].pc = tick[s].pc
        /\ UNCHANGED <<status, recipient, out, unsure>>
    BY <1>2, <1>a DEF QuotaWindow, PassOver, Offline, TickRows, history
  <2> QED
    BY <1>1, <2>1 DEF Working
<1>3. ASSUME NEW b \in Accounts, Choose(s, b) PROVE Inv'
  <2>1. tick'[s].pc = "claim" /\ UNCHANGED <<status, recipient, out, unsure>>
    BY <1>3, <1>a DEF Choose, TickRows, history
  <2> QED
    BY <1>1, <2>1 DEF Working
<1>17. CASE Process(s)
  <2>1. tick'[s].pc = "account" /\ UNCHANGED <<status, recipient, out, unsure>>
    BY <1>17, <1>a DEF Process, TickRows, history
  <2> QED
    BY <1>1, <2>1 DEF Working
<1>4. CASE NothingToClaim(s) \/ CountPending(s)
  <2>1. tick'[s].pc \in {"account", "sync"} /\ UNCHANGED <<status, recipient, out, unsure>>
    <3>1. CASE NothingToClaim(s)
      <4>1. NextAccount(s) /\ tick[s].pc # "idle" /\ UNCHANGED <<status, recipient, out, unsure>>
        BY <3>1 DEF NothingToClaim, history
      <4> QED
        BY <4>1, NextAccountType DEF Typed
    <3>2. CASE CountPending(s)
      BY <3>2, <1>a DEF CountPending, TickRows, history
    <3> QED
      BY <1>4, <3>1, <3>2
  <2> QED
    BY <1>1, <2>1 DEF Working
<1>5. CASE Decide(s)
  <2>1. UNCHANGED <<status, recipient, out, unsure>>
    BY <1>5 DEF Decide, history
  <2>2. PICK r : tick' = [tick EXCEPT ![s] = r] /\ r.pc \in {"idle", "finish"}
    <3>1. PICK v : tick' = [tick EXCEPT ![s] = IF v = "none" THEN NoTick
                     ELSE [tick[s] EXCEPT !.pc = "finish", !.verdict = v, !.pending = FALSE]]
      BY <1>5, <1>a DEF Decide
    <3>2. [tick[s] EXCEPT !.pc = "finish", !.verdict = v, !.pending = FALSE].pc = "finish"
      BY <1>a DEF TickRows
    <3> QED
      BY <3>1, <3>2, NewTypes
  <2> QED
    BY <1>1, <1>a, <2>1, <2>2 DEF Working
<1>6. CASE Finish(s)
  <2>1. /\ c \in Campaigns /\ tick[s].verdict \in {"COMPLETED", "FAILED"} /\ status[c] # "NONE"
        /\ SetStatus(c, tick[s].verdict) /\ tick' = [tick EXCEPT ![s] = NoTick]
        /\ UNCHANGED <<recipient, out, unsure>>
    BY <1>6, <1>a, <1>b DEF Finish, TickShape
  <2>2. \A d \in Campaigns : (status'[d] = "NONE") <=> (status[d] = "NONE")
    BY <2>1, StatusKept DEF CampaignStatuses
  <2> QED
    BY <1>1, <1>a, <2>1, <2>2, NewTypes DEF Working
<1>7. CASE TickLost(s)
  <2>1. tick' = [tick EXCEPT ![s] = NoTick] /\ UNCHANGED <<status, recipient, out>>
    BY <1>7 DEF TickLost, Abort
  <2>2. \A d \in Campaigns : unsure[d] \subseteq unsure'[d]
    BY <1>7, <1>a DEF TickLost, Abort
  <2> QED
    BY <1>1, <1>a, <2>1, <2>2, NewTypes DEF Working
<1>8. ASSUME NEW j \in Customers, SkipRecipient(s, j) PROVE Inv'
  <2> DEFINE row == [recipient[c][j] EXCEPT !.status = "SKIPPED"]
  <2>1. /\ tick[s].pc = "claim" /\ c \in Campaigns /\ recipient[c][j].status = "PENDING"
        /\ UNCHANGED <<status, tick, out, unsure>>
        /\ recipient' = [recipient EXCEPT ![c] = [recipient[c] EXCEPT ![j] = row]]
    BY <1>8, <1>b DEF SkipRecipient, Pending, history
  <2>2. row \in RecipientRows /\ row.status = "SKIPPED"
    <3>1. recipient[c][j] \in RecipientRows
      BY <1>a, <2>1
    <3> QED
      BY <3>1 DEF RecipientRows
  <2> HIDE DEF row
  <2>3. /\ recipient'[c][j] = row
        /\ \A d \in Campaigns, i \in Customers :
             <<d, i>> # <<c, j>> => recipient'[d][i] = recipient[d][i]
    BY <1>a, <2>1, <2>2
  <2>4. Once(c, j) /\ \A t \in Schedulers : ~On(t, c, j)
    BY <2>1 DEF Inv, Once
  <2>5. \A t \in Schedulers : On(t, c, j)' <=> On(t, c, j)
    BY <2>1 DEF On, Working
  <2>6. Once(c, j)'
    BY <2>1, <2>2, <2>3, <2>4, <2>5 DEF Once
  <2>7. ~Working(s)'
    BY <2>1 DEF Working
  <2> QED
    BY <1>d, <2>1, <2>3, <2>6, <2>7, OwnFrame
<1>9. ASSUME NEW j \in Customers, Claim(s, j) PROVE Inv'
  <2> DEFINE row == [recipient[c][j] EXCEPT !.status = "IN_PROGRESS",
                                            !.attempts = recipient[c][j].attempts + 1]
  <2>1. /\ tick[s].pc = "claim" /\ c \in Campaigns /\ recipient[c][j].status = "PENDING"
        /\ UNCHANGED <<status, out, unsure>>
        /\ tick' = [tick EXCEPT ![s].pc = "send", ![s].customer = j]
    BY <1>9, <1>b DEF Claim, Claimable, Pending, history
  <2>2. recipient' = [recipient EXCEPT ![c] = [recipient[c] EXCEPT ![j] = row]]
    BY <1>9, <1>a, <2>1 DEF Claim
  <2>3. recipient[c][j] \in RecipientRows
    BY <1>a, <2>1
  <2>4. row.status = "IN_PROGRESS"
    BY <2>3 DEF RecipientRows
  <2> HIDE DEF row
  <2>5. /\ recipient'[c][j] = row
        /\ \A d \in Campaigns, i \in Customers :
             <<d, i>> # <<c, j>> => recipient'[d][i] = recipient[d][i]
    BY <1>a, <2>1, <2>2
  <2>6. Once(c, j) /\ \A t \in Schedulers : ~On(t, c, j)
    BY <2>1 DEF Inv, Once
  <2>7. /\ tick'[s].pc = "send" /\ tick'[s].campaign = c /\ tick'[s].customer = j
    BY <1>a, <2>1 DEF TickRows
  <2>8. status[c] # "NONE" /\ Unsent(c, j)
    BY <2>1, <2>6 DEF Once
  <2>9. \A t \in Schedulers : On(t, c, j)' => t = s
    BY <1>d, <2>6 DEF On, Working
  <2>10. Once(c, j)'
    BY <2>1, <2>4, <2>5, <2>6, <2>7, <2>8, <2>9 DEF Once, Unsent
  <2> QED
    BY <1>d, <2>1, <2>5, <2>7, <2>10, OwnFrame
<1>10. ASSUME Working(s), UNCHANGED <<status, out, unsure>>, NextAccount(s),
              NEW to \in {"SKIPPED", "SENT", "FAILED", "PENDING"},
              to = "PENDING" => tick[s].pc = "error" /\ status[c] # "NONE",
              recipient' = [recipient EXCEPT ![c] = [recipient[c] EXCEPT ![k] =
                              [recipient[c][k] EXCEPT !.status = to]]]
       PROVE  Inv'
  <2> DEFINE row == [recipient[c][k] EXCEPT !.status = to]
  <2>1. c \in Campaigns /\ k \in Customers /\ On(s, c, k)
    BY <1>10, <1>c DEF On
  <2>2. row.status = to
    <3>1. recipient[c][k] \in RecipientRows
      BY <1>a, <2>1
    <3> QED
      BY <3>1 DEF RecipientRows
  <2>3. recipient' = [recipient EXCEPT ![c] = [recipient[c] EXCEPT ![k] = row]]
    BY <1>10
  <2> HIDE DEF row
  <2>4. /\ recipient'[c][k] = row
        /\ \A d \in Campaigns, i \in Customers :
             <<d, i>> # <<c, k>> => recipient'[d][i] = recipient[d][i]
    BY <1>a, <2>1, <2>3
  <2>5. Once(c, k) /\ \A t \in Schedulers : On(t, c, k) => t = s
    BY <2>1 DEF Inv, Once
  <2>6. tick'[s].pc = "account"
    BY <1>10, NextAccountType DEF Typed, Working
  <2>7. \A t \in Schedulers : ~On(t, c, k)'
    BY <1>d, <2>5, <2>6 DEF On, Working
  <2>8. to = "PENDING" => Unsent(c, k) /\ status[c] # "NONE"
    BY <1>10, <2>1, <2>5 DEF Once
  <2>9. Once(c, k)'
    BY <1>10, <2>2, <2>4, <2>5, <2>7, <2>8 DEF Once, Unsent
  <2> QED
    <3>1. ~Working(s)'
      BY <2>6 DEF Working
    <3>2. UNCHANGED <<status, out, unsure>>
      BY <1>10
    <3> QED
      BY <1>d, <2>1, <2>4, <2>9, <3>1, <3>2, OwnFrame
<1>11. CASE Unrenderable(s)
  BY <1>10, <1>11 DEF Unrenderable, Working, history
<1>12. CASE Record(s)
  BY <1>10, <1>12 DEF Record, Working
<1>13. CASE RecordError(s)
  <2> DEFINE to == Retried(recipient[c][k].attempts)
  <2>1. /\ tick[s].pc = "error" /\ NextAccount(s) /\ UNCHANGED <<status, out, unsure>>
        /\ recipient' = [recipient EXCEPT ![c] = [recipient[c] EXCEPT ![k] =
                           [recipient[c][k] EXCEPT !.status = to]]]
        /\ status[c] # "NONE" /\ to \in {"FAILED", "PENDING"}
    BY <1>13 DEF RecordError, RowsExist, Retried, history
  <2> HIDE DEF to
  <2> QED
    BY <1>10, <2>1 DEF Working
<1>14. ASSUME Working(s), NEW pc \in {"record", "error"}, tick' = [tick EXCEPT ![s].pc = pc],
              UNCHANGED <<status, recipient>>,
              \A d \in Campaigns, j \in Customers :
                /\ <<d, j>> # <<c, k>> => out'[d][j] = out[d][j]
                /\ j \in unsure[d] => j \in unsure'[d],
              out'[c][k] <= 1 \/ k \in unsure'[c],
              pc = "error" => Unsent(c, k)'
       PROVE  Inv'
  <2>1. c \in Campaigns /\ k \in Customers /\ On(s, c, k)
    BY <1>14, <1>c DEF On
  <2>2. Once(c, k) /\ \A t \in Schedulers : On(t, c, k) => t = s
    BY <2>1 DEF Inv, Once
  <2>3. tick'[s].pc = pc /\ tick'[s].campaign = c /\ tick'[s].customer = k
    BY <1>a, <1>14 DEF TickRows
  <2>4. \A t \in Schedulers : On(t, c, k)' => t = s
    BY <1>d, <2>2 DEF On, Working
  <2>5. status[c] # "NONE" => recipient[c][k].status = "IN_PROGRESS"
    BY <2>1, <2>2 DEF Once
  <2>6. Once(c, k)'
    BY <1>14, <2>2, <2>3, <2>4, <2>5 DEF Once
  <2> QED
    BY <1>14, <1>d, <2>1, <2>3, <2>6, OwnFrame
<1>15. CASE Send(s)
  <2>1. PICK gone \in BOOLEAN, ok \in BOOLEAN :
          /\ ok => gone
          /\ tick' = [tick EXCEPT ![s].pc = IF ok THEN "record" ELSE "error"]
          /\ out' = IF gone THEN [out EXCEPT ![c][k] = @ + 1] ELSE out
          /\ unsure' = IF gone /\ ~ok THEN [unsure EXCEPT ![c] = @ \cup {k}] ELSE unsure
    BY <1>15 DEF Send
  <2>2. /\ Working(s) /\ c \in Campaigns /\ k \in Customers /\ tick[s].pc = "send"
        /\ UNCHANGED <<status, recipient>>
    BY <1>15, <1>c DEF Send, Working
  <2>3. Unsent(c, k)
    BY <2>2 DEF Inv, Once, On
  <2>4. \A d \in Campaigns, j \in Customers :
          /\ <<d, j>> # <<c, k>> => out'[d][j] = out[d][j]
          /\ j \in unsure[d] => j \in unsure'[d]
    BY <1>a, <2>1, <2>2
  <2>5. out'[c][k] = (IF gone THEN out[c][k] + 1 ELSE out[c][k]) /\ out[c][k] \in Nat
    BY <1>a, <2>1, <2>2
  <2>6. out'[c][k] <= 1 \/ k \in unsure'[c]
    BY <2>2, <2>3, <2>4, <2>5 DEF Unsent
  <2>7. ~ok => Unsent(c, k)'
    <3>1. CASE gone
      BY <1>a, <2>1, <2>2, <3>1 DEF Unsent
    <3>2. CASE ~gone
      BY <2>1, <2>3, <3>2 DEF Unsent
    <3> QED
      BY <3>1, <3>2
  <2>8. CASE ok
    BY <1>14, <2>1, <2>2, <2>4, <2>6, <2>8
  <2>9. CASE ~ok
    BY <1>14, <2>1, <2>2, <2>4, <2>6, <2>7, <2>9
  <2> QED
    BY <2>8, <2>9
<1>16. CASE RecordFails(s)
  <2>1. /\ Working(s) /\ c \in Campaigns /\ k \in Customers
        /\ tick' = [tick EXCEPT ![s].pc = "error"] /\ UNCHANGED <<status, recipient, out>>
        /\ unsure' = [unsure EXCEPT ![c] = unsure[c] \cup {k}]
    BY <1>16, <1>c DEF RecordFails, Working
  <2>2. k \in unsure'[c] /\ \A d \in Campaigns, j \in Customers : j \in unsure[d] => j \in unsure'[d]
    BY <1>a, <2>1
  <2>3. Unsent(c, k)'
    BY <2>2 DEF Unsent
  <2> QED
    BY <1>14, <2>1, <2>2, <2>3
<1> QED
  BY <1>2, <1>3, <1>4, <1>5, <1>6, <1>7, <1>8, <1>9, <1>11, <1>12, <1>13, <1>15, <1>16,
     <1>17 DEF TickStep

LEMMA InvStep == TypedInv /\ [Next]_vars => Inv'
<1> SUFFICES ASSUME Typed, Inv, [Next]_vars PROVE Inv'
  BY DEF TypedInv
<1>a. Typed'
  BY TypedStep
<1>1. CASE UNCHANGED vars
  <2>1. UNCHANGED <<status, recipient, tick, out, unsure>>
    BY <1>1 DEF vars, history
  <2> QED
    BY <2>1, RestFrame
<1>2. ASSUME NEW s \in Schedulers, NEW c \in Campaigns, TickBegin(s, c) PROVE Inv'
  <2>1. /\ tick'[s].pc = "read" /\ \A t \in Schedulers : t # s => tick'[t] = tick[t]
        /\ UNCHANGED <<status, recipient, out, unsure>>
    BY <1>2, TypedTickBegin DEF TickBegin
  <2> QED
    BY <2>1, RestFrame DEF Working
<1>3. ASSUME NEW s \in Schedulers, TickCrashes(s) PROVE Inv'
  <2>1. tick' = [tick EXCEPT ![s] = NoTick] /\ UNCHANGED <<status, recipient, out>>
    BY <1>3 DEF TickCrashes, Abort
  <2>2. tick'[s].pc = "idle" /\ \A t \in Schedulers : t # s => tick'[t] = tick[t]
    BY <2>1, AbortType, NewTypes DEF Typed
  <2>3. \A d \in Campaigns : unsure[d] \subseteq unsure'[d]
    BY <1>3 DEF TickCrashes, Abort, Typed, HistoryTypes
  <2> QED
    BY <2>1, <2>2, <2>3, RestFrame DEF Working
<1>6. ASSUME NEW s \in Schedulers, LeaveOut(s) PROVE Inv'
  <2>1. tick' = [tick EXCEPT ![s] = NoTick] /\ UNCHANGED <<status, recipient, out, unsure>>
    BY <1>6 DEF LeaveOut, history
  <2>2. tick'[s].pc = "idle" /\ \A t \in Schedulers : t # s => tick'[t] = tick[t]
    BY <2>1, AbortType, NewTypes DEF Typed
  <2> QED
    BY <2>1, <2>2, RestFrame DEF Working
<1>4. ASSUME NEW c \in Campaigns, NEW a \in Accounts, CooldownEnds(c, a) PROVE Inv'
  <2>1. UNCHANGED <<status, recipient, tick, out, unsure>>
    BY <1>4 DEF CooldownEnds, history
  <2> QED
    BY <2>1, RestFrame
<1>5. CASE NewDay
  <2>1. UNCHANGED <<status, recipient, out, unsure>>
    BY <1>5 DEF NewDay
  <2> QED
    BY <1>5, <2>1, TypedNewDay, RestFrame
<1> QED
  BY <1>a, <1>1, <1>2, <1>3, <1>4, <1>5, <1>6, InvOperator, InvStop, InvTick DEF Next

LEMMA InvInit == Init => Inv
<1> SUFFICES ASSUME Init, NEW c \in Campaigns, NEW k \in Customers PROVE Once(c, k)
  BY DEF Inv
<1>1. recipient[c][k].status = "NONE" /\ out[c][k] = 0
  BY NewTypes DEF Init
<1>2. \A s \in Schedulers : ~Working(s)
  BY NewTypes DEF Init, Working
<1> QED
  BY <1>1, <1>2 DEF Once, On, Unsent

(* The inductive invariant: what a tick works on, nobody else works on.     *)
THEOREM SafetyInvariant == Spec => []TypedInv
<1>1. Init => TypedInv
  BY TypedInit, InvInit DEF TypedInv
<1>2. TypedInv /\ [Next]_vars => TypedInv'
  BY TypedStep, InvStep DEF TypedInv
<1> QED
  BY <1>1, <1>2, PTL DEF Spec

(* No customer gets two messages of a campaign, for any number of           *)
(* processes, operator requests, accounts and restarts, unless a message    *)
(* that went out was not recorded.                                          *)
THEOREM CustomersAreWrittenToOnce == Spec => []OneMessagePerCustomer
<1>1. TypedInv => OneMessagePerCustomer
  BY DEF TypedInv, Inv, Once, OneMessagePerCustomer
<1> QED
  BY <1>1, SafetyInvariant, PTL

-----------------------------------------------------------------------------
(* The accounts of a campaign and their quotas: only an update that         *)
(* replaces the account rows changes them.                                  *)
SameLists ==
  \A c \in Campaigns, a \in Accounts : account'[c][a].quota = account[c][a].quota
Replaces(o) == UpdateCommit(o) /\ op[o].kind = "replace"

LEMMA SameMembers ==
  ASSUME SameLists, NEW c \in Campaigns PROVE Members(c)' = Members(c)
BY DEF SameLists, Members

LEMMA ListFrame ==
  ASSUME Typed, NEW c \in Campaigns, NEW a \in Accounts, NEW row,
         row.quota = account[c][a].quota,
         account' = [account EXCEPT ![c] = [account[c] EXCEPT ![a] = row]]
  PROVE  SameLists
<1> DEFINE rows == [account[c] EXCEPT ![a] = row]
<1>1. rows[a] = row /\ \A b \in Accounts : b # a => rows[b] = account[c][b]
  BY DEF Typed, RowTypes
<1> HIDE DEF rows
<1>2. account'[c] = rows /\ \A d \in Campaigns : d # c => account'[d] = account[d]
  BY DEF Typed, RowTypes, rows
<1> QED
  BY <1>1, <1>2 DEF SameLists

LEMMA ErrorKeepsQuota ==
  ASSUME NEW old \in AccountRows, NEW errors \in 0 .. MaxErrors
  PROVE  AfterError(old, errors).quota = old.quota
<1>1. CASE errors + 1 >= MaxErrors
  BY <1>1 DEF AfterError, AccountRows
<1>2. CASE ~(errors + 1 >= MaxErrors)
  BY <1>2 DEF AfterError, AccountRows
<1> QED
  BY <1>1, <1>2

LEMMA RenewedKeepsQuota ==
  ASSUME NEW row \in AccountRows, NEW old
  PROVE  Renewed(row, old) \in AccountRows /\ Renewed(row, old).quota = row.quota
<1>1. CASE old.day = "before"
  BY <1>1 DEF Renewed, AccountRows
<1>2. CASE old.day # "before"
  BY <1>2 DEF Renewed, AccountRows
<1> QED
  BY <1>1, <1>2

LEMMA OperatorKeepsLists ==
  ASSUME Typed, NEW o \in Operators, OpStep(o), ~Replaces(o)
  PROVE  SameLists
<1>1. ASSUME UNCHANGED account PROVE SameLists
  BY <1>1 DEF SameLists
<1>2. ASSUME StartCommit(o) \/ ResumeCommit(o) PROVE SameLists
  <2>1. PICK c \in Campaigns : c = op[o].campaign
    BY <1>2 DEF StartCommit, ResumeCommit, Typed, OpTypes, OpShape
  <2>2. ASSUME NEW rows, account' = [account EXCEPT ![c] = rows],
               \A a \in Accounts : rows[a].quota = account[c][a].quota
        PROVE  SameLists
    <3>1. account'[c] = rows /\ \A d \in Campaigns : d # c => account'[d] = account[d]
      BY <2>2 DEF Typed, RowTypes
    <3> QED
      BY <2>2, <3>1 DEF SameLists
  <2>3. \A a \in Accounts : account[c][a] \in AccountRows
    BY DEF Typed, RowTypes
  <2>4. CASE StartCommit(o)
    <3> DEFINE rows == [a \in Accounts |->
                 IF a \in Members(c)
                 THEN [account[c][a] EXCEPT !.status = "READY", !.due = TRUE,
                          !.sent = op[o].sent[a], !.day = op[o].day[a]]
                 ELSE account[c][a]]
    <3>1. account' = [account EXCEPT ![c] = rows]
      BY <2>1, <2>4 DEF StartCommit
    <3>2. \A a \in Accounts : rows[a].quota = account[c][a].quota
      BY <2>3 DEF AccountRows
    <3> HIDE DEF rows
    <3> QED
      BY <2>2, <3>1, <3>2
  <2>5. CASE ResumeCommit(o)
    <3> DEFINE rows == [a \in Accounts |->
                 IF account[c][a].status = "PAUSED_ERROR"
                 THEN [account[c][a] EXCEPT !.status = "READY", !.due = TRUE, !.errors = 0]
                 ELSE account[c][a]]
    <3>1. account' = [account EXCEPT ![c] = rows]
      BY <2>1, <2>5 DEF ResumeCommit
    <3>2. \A a \in Accounts : rows[a].quota = account[c][a].quota
      BY <2>3 DEF AccountRows
    <3> HIDE DEF rows
    <3> QED
      BY <2>2, <3>1, <3>2
  <2> QED
    BY <1>2, <2>4, <2>5
<1>3. CASE OpCheck(o) \/ StartAccounts(o) \/ UpdateCommit(o) \/ DeleteCommit(o) \/ OpFails(o)
  BY <1>1, <1>3 DEF OpCheck, StartAccounts, UpdateCommit, DeleteCommit, OpFails, Replaces
<1> QED
  BY <1>2, <1>3 DEF OpStep

LEMMA TickKeepsLists ==
  ASSUME Typed, NEW s \in Schedulers, TickStep(s)
  PROVE  SameLists
<1>0. PICK c, a : c = tick[s].campaign /\ a = tick[s].account
  OBVIOUS
<1> USE <1>0
<1>a. /\ tick[s] \in TickRows /\ TickShape(tick[s])
      /\ account \in [Campaigns -> [Accounts -> AccountRows]]
  BY DEF Typed, TickTypes, RowTypes
<1>1. ASSUME UNCHANGED account PROVE SameLists
  BY <1>1 DEF SameLists
<1>2. ASSUME NEW b \in Accounts, QuotaWindow(s, b) \/ Offline(s, b) PROVE SameLists
  <2>1. c \in Campaigns /\ account[c][b] \in AccountRows /\ Row(s, b).errors \in 0 .. MaxErrors
    BY <1>2, <1>a DEF QuotaWindow, Offline, TickShape, Row, TickRows, AccountRows
  <2>2. CASE QuotaWindow(s, b)
    <3> DEFINE new == Renewed(account[c][b], Row(s, b))
               row == [new EXCEPT !.day = tick[s].day]
    <3>1. account' = [account EXCEPT ![c] = [account[c] EXCEPT ![b] = row]]
      BY <2>2 DEF QuotaWindow
    <3>2. new \in AccountRows /\ new.quota = account[c][b].quota
      BY <2>1, RenewedKeepsQuota
    <3> HIDE DEF new
    <3>3. row.quota = account[c][b].quota
      BY <3>2 DEF AccountRows
    <3> HIDE DEF row
    <3> QED
      BY <2>1, <3>1, <3>3, ListFrame
  <2>3. CASE Offline(s, b)
    <3> DEFINE row == AfterError(account[c][b], Row(s, b).errors)
    <3>1. account' = [account EXCEPT ![c] = [account[c] EXCEPT ![b] = row]]
      BY <2>3 DEF Offline
    <3>2. row.quota = account[c][b].quota
      BY <2>1, ErrorKeepsQuota
    <3> HIDE DEF row
    <3> QED
      BY <2>1, <3>1, <3>2, ListFrame
  <2> QED
    BY <1>2, <2>2, <2>3
<1>3. ASSUME Unrenderable(s) \/ Record(s) \/ RecordError(s) PROVE SameLists
  <2>1. /\ c \in Campaigns /\ a \in Accounts /\ account[c][a] \in AccountRows
        /\ Row(s, a).errors \in 0 .. MaxErrors
    <3>1. tick[s].pc \in {"send", "record", "error"}
      BY <1>3 DEF Unrenderable, Record, RecordError
    <3>2. c \in Campaigns /\ a \in Accounts
      BY <3>1, <1>a DEF TickShape
    <3> QED
      BY <3>2, <1>a DEF Row, TickRows, AccountRows
  <2>2. CASE Unrenderable(s)
    <3> DEFINE row == [account[c][a] EXCEPT !.errors = 0, !.due = FALSE]
    <3>1. account' = [account EXCEPT ![c] = [account[c] EXCEPT ![a] = row]]
      BY <2>2 DEF Unrenderable
    <3>2. row.quota = account[c][a].quota
      BY <2>1 DEF AccountRows
    <3> HIDE DEF row
    <3> QED
      BY <2>1, <3>1, <3>2, ListFrame
  <2>3. CASE Record(s)
    <3> DEFINE n == account[c][a].sent + 1
               row == [account[c][a] EXCEPT !.status = "READY", !.sent = n, !.errors = 0,
                                            !.day = tick[s].day, !.due = FALSE]
    <3>1. account' = [account EXCEPT ![c] = [account[c] EXCEPT ![a] = row]]
      BY <2>3 DEF Record
    <3> HIDE DEF n
    <3>2. row.quota = account[c][a].quota
      BY <2>1 DEF AccountRows
    <3> HIDE DEF row
    <3> QED
      BY <2>1, <3>1, <3>2, ListFrame
  <2>4. CASE RecordError(s)
    <3> DEFINE row == AfterError(account[c][a], Row(s, a).errors)
    <3>1. account' = [account EXCEPT ![c] = [account[c] EXCEPT ![a] = row]]
      BY <2>4 DEF RecordError
    <3>2. row.quota = account[c][a].quota
      BY <2>1, ErrorKeepsQuota
    <3> HIDE DEF row
    <3> QED
      BY <2>1, <3>1, <3>2, ListFrame
  <2> QED
    BY <1>3, <2>2, <2>3, <2>4
<1>4. ASSUME \A b \in Accounts : ~QuotaWindow(s, b) /\ ~Offline(s, b), ~Unrenderable(s),
             ~Record(s), ~RecordError(s)
      PROVE  UNCHANGED account
  BY <1>4 DEF TickStep, Process, PassOver, Choose, SkipRecipient, Claim, NothingToClaim, Send,
     RecordFails, CountPending, Decide, Finish, TickLost
<1> QED
  BY <1>1, <1>2, <1>3, <1>4

LEMMA ListsKept ==
  ASSUME Typed, [Next]_vars, \A o \in Operators : ~Replaces(o)
  PROVE  SameLists
<1>1. ASSUME UNCHANGED account PROVE SameLists
  BY <1>1 DEF SameLists
<1>2. CASE UNCHANGED vars
  BY <1>1, <1>2 DEF vars
<1>3. ASSUME NEW o \in Operators, NEW c \in Campaigns, NEW kind \in OpKinds[o],
             OpRead(o, kind, c)
      PROVE  SameLists
  BY <1>1, <1>3 DEF OpRead
<1>4. ASSUME NEW c \in Campaigns, Pause(c) \/ Cancel(c) PROVE SameLists
  BY <1>1, <1>4 DEF Pause, Cancel, Stop
<1>5. ASSUME NEW s \in Schedulers,
             LeaveOut(s) \/ TickCrashes(s) \/ \E c \in Campaigns : TickBegin(s, c)
      PROVE  SameLists
  BY <1>1, <1>5 DEF LeaveOut, TickCrashes, TickBegin
<1>6. ASSUME NEW c \in Campaigns, NEW a \in Accounts, CooldownEnds(c, a) PROVE SameLists
  <2> DEFINE row == [account[c][a] EXCEPT !.due = TRUE]
  <2>1. account' = [account EXCEPT ![c] = [account[c] EXCEPT ![a] = row]]
    BY <1>6 DEF CooldownEnds
  <2>2. row.quota = account[c][a].quota
    BY DEF AccountRows, Typed, RowTypes
  <2> HIDE DEF row
  <2> QED
    BY <2>1, <2>2, ListFrame
<1>7. CASE NewDay
  <2> SUFFICES ASSUME NEW c \in Campaigns, NEW a \in Accounts
               PROVE  account'[c][a].quota = account[c][a].quota
    BY DEF SameLists
  <2>1. PICK rows \in [Accounts -> AccountRows] : rows = account[c]
    BY DEF Typed, RowTypes
  <2>2. account'[c] = Yesterday(rows)
    BY <1>7, <2>1 DEF NewDay
  <2> QED
    BY <2>1, <2>2, YesterdayType
<1> QED
  BY <1>2, <1>3, <1>4, <1>5, <1>6, <1>7, OperatorKeepsLists, TickKeepsLists DEF Next

-----------------------------------------------------------------------------
(* Accounts of two campaigns, when one operator at a time starts, resumes   *)
(* and edits, while others delete, pause and cancel.                        *)
Running == {"start", "resume", "update", "replace"}
OneStarts ==
  \A o, p \in Operators : OpKinds[o] \cap Running # {} /\ OpKinds[p] \cap Running # {} => o = p

(* A request that will set its campaign to RUNNING.                         *)
WillRun(r) ==
  \/ r.kind \in {"start", "resume"} /\ r.pc \in {"accounts", "write"}
  \/ r.kind = "update" /\ r.pc = "write" /\ r.status = "RUNNING"
(* Its accounts are those the campaign still has, and no running campaign   *)
(* has one of them.                                                         *)
Clear(o) ==
  /\ op[o].pc # "idle" => op[o].kind \in OpKinds[o]
  /\ op[o].pc # "idle" /\ op[o].kind \in Running => op[o].accounts = Members(op[o].campaign)
  /\ WillRun(op[o]) => ~Conflict(op[o].campaign, Members(op[o].campaign))
Excl == AccountRunsOnce /\ \A o \in Operators : Clear(o)

(* No campaign starts to run, none gets other accounts and no request gets  *)
(* further towards it.                                                      *)
LEMMA ExclFewer ==
  ASSUME Typed, Excl, SameLists,
         \A c \in Campaigns : status'[c] = "RUNNING" => status[c] = "RUNNING",
         \A o \in Operators :
           /\ op'[o].pc # "idle" =>
                /\ op[o].pc # "idle" /\ op'[o].kind = op[o].kind
                /\ op'[o].campaign = op[o].campaign /\ op'[o].accounts = op[o].accounts
           /\ WillRun(op'[o]) => WillRun(op[o]) /\ op'[o].pc # "idle"
  PROVE  Excl'
<1>1. AccountRunsOnce'
  BY SameMembers DEF Excl, AccountRunsOnce
<1>2. ASSUME NEW o \in Operators PROVE Clear(o)'
  <2>1. Clear(o)
    BY DEF Excl
  <2>2. CASE op'[o].pc = "idle"
    BY <2>2 DEF Clear
  <2>3. CASE op'[o].pc # "idle"
    <3>1. PICK c \in Campaigns : c = op[o].campaign
      BY <2>3 DEF Typed, OpTypes, OpShape
    <3>2. op'[o].campaign = c /\ op'[o].accounts = op[o].accounts /\ op'[o].kind = op[o].kind
      BY <2>3, <3>1
    <3>3. Members(c)' = Members(c)
      BY SameMembers
    <3>4. ~Conflict(c, Members(c)) => ~Conflict(c, Members(c))'
      BY <3>3, SameMembers DEF Conflict
    <3> QED
      BY <2>1, <2>3, <3>1, <3>2, <3>3, <3>4 DEF Clear
  <2> QED
    BY <2>2, <2>3
<1> QED
  BY <1>1, <1>2 DEF Excl

(* The request of o becomes r; nothing else changes.                        *)
LEMMA ExclOp ==
  ASSUME Typed, Excl, NEW o \in Operators, NEW r \in OpRows, op' = [op EXCEPT ![o] = r],
         UNCHANGED <<status, account>>, r.pc # "idle" => r.kind \in OpKinds[o],
         r.pc # "idle" /\ r.kind \in Running => r.accounts = Members(r.campaign),
         WillRun(r) => ~Conflict(r.campaign, Members(r.campaign))
  PROVE  Excl'
<1>1. op'[o] = r /\ \A p \in Operators : p # o => op'[p] = op[p]
  BY DEF Typed, OpTypes
<1>2. AccountRunsOnce'
  BY DEF Excl, AccountRunsOnce, Members
<1>3. ASSUME NEW p \in Operators PROVE Clear(p)'
  <2>1. Clear(p)
    BY DEF Excl
  <2>2. CASE p = o
    BY <1>1, <2>2 DEF Clear, Conflict, Members
  <2>3. CASE p # o
    BY <1>1, <2>1, <2>3 DEF Clear, Conflict, Members
  <2> QED
    BY <2>2, <2>3
<1> QED
  BY <1>2, <1>3 DEF Excl

(* Who else has a request open only deletes, so o returns and nobody is     *)
(* left that will run a campaign.                                           *)
LEMMA OthersDelete ==
  ASSUME OneStarts, Typed, Excl, NEW o \in Operators, op[o].pc # "idle",
         op[o].kind \in Running, Return(o)
  PROVE  \A p \in Operators : Clear(p)'
<1> SUFFICES ASSUME NEW p \in Operators PROVE Clear(p)'
  OBVIOUS
<1>1. op'[o] = NoOp /\ \A q \in Operators : q # o => op'[q] = op[q]
  BY DEF Return, Typed, OpTypes
<1>2. CASE p = o
  BY <1>1, <1>2, NewTypes DEF Clear, WillRun
<1>3. CASE p # o
  <2>1. Clear(o) /\ Clear(p)
    BY DEF Excl
  <2>2. op[o].kind \in OpKinds[o] \cap Running
    BY <2>1 DEF Clear
  <2>3. op[p].pc # "idle" => op[p].kind \in OpKinds[p] /\ op[p].kind \notin Running
    BY <1>3, <2>1, <2>2 DEF OneStarts, Clear
  <2> QED
    BY <1>1, <1>3, <2>3 DEF Clear, WillRun, Running
<1> QED
  BY <1>2, <1>3

(* The request of o sets its campaign to RUNNING and returns.               *)
LEMMA ExclRun ==
  ASSUME OneStarts, Typed, Excl, SameLists, NEW o \in Operators, WillRun(op[o]), Return(o),
         SetStatus(op[o].campaign, "RUNNING")
  PROVE  Excl'
<1>0. op[o].pc # "idle" /\ op[o].kind \in Running
  BY DEF WillRun, Running
<1>1. PICK c \in Campaigns : c = op[o].campaign
  BY <1>0 DEF Typed, OpTypes, OpShape
<1>2. status'[c] = "RUNNING" /\ \A d \in Campaigns : d # c => status'[d] = status[d]
  BY <1>1, StatusSet DEF Typed, CampaignStatuses
<1>3. ~Conflict(c, Members(c))
  BY <1>1 DEF Excl, Clear
<1>4. AccountRunsOnce'
  <2> SUFFICES ASSUME NEW d \in Campaigns, NEW e \in Campaigns, d # e,
                      status'[d] = "RUNNING", status'[e] = "RUNNING"
               PROVE  Members(d)' \cap Members(e)' = {}
    BY DEF AccountRunsOnce
  <2>1. Members(d)' = Members(d) /\ Members(e)' = Members(e)
    BY SameMembers
  <2>2. CASE d = c \/ e = c
    BY <1>2, <1>3, <2>1, <2>2 DEF Conflict
  <2>3. CASE d # c /\ e # c
    BY <1>2, <2>1, <2>3 DEF Excl, AccountRunsOnce
  <2> QED
    BY <2>2, <2>3
<1> QED
  BY <1>0, <1>4, OthersDelete DEF Excl

(* The request of o replaces the accounts of a draft.                       *)
LEMMA ExclReplace ==
  ASSUME OneStarts, Typed, Excl, NEW o \in Operators, Replaces(o)
  PROVE  Excl'
<1>1. PICK c \in Campaigns : c = op[o].campaign
  BY DEF Replaces, UpdateCommit, Typed, OpTypes, OpShape
<1>2. op[o].status = "DRAFT" /\ op[o].pc # "idle" /\ op[o].kind \in Running
  BY DEF Replaces, UpdateCommit, Typed, OpTypes, OpShape, Running
<1>3. PICK list \in Lists[c] : account' = [account EXCEPT ![c] = Fresh(list)]
  BY <1>1 DEF Replaces, UpdateCommit
<1>4. SetStatus(c, "DRAFT") /\ Return(o)
  BY <1>1, <1>2 DEF Replaces, UpdateCommit
<1>5. status'[c] = "DRAFT" /\ \A d \in Campaigns : d # c => status'[d] = status[d]
  BY <1>4, StatusSet DEF Typed, CampaignStatuses
<1>6. \A d \in Campaigns : d # c => Members(d)' = Members(d)
  BY <1>3 DEF Members, Typed, RowTypes
<1>7. AccountRunsOnce'
  BY <1>5, <1>6 DEF Excl, AccountRunsOnce
<1> QED
  BY <1>2, <1>4, <1>7, OthersDelete DEF Excl

LEMMA ExclKept ==
  ASSUME OneStarts, Typed, Excl, [Next]_vars, SameLists, \A o \in Operators : ~Replaces(o)
  PROVE  Excl'
<1>a. \A o \in Operators : op[o] \in OpRows /\ OpShape(op[o])
  BY DEF Typed, OpTypes
<1>1. ASSUME UNCHANGED op, \A c \in Campaigns : status'[c] = "RUNNING" => status[c] = "RUNNING"
      PROVE  Excl'
  BY <1>1, ExclFewer DEF WillRun
<1>2. CASE UNCHANGED vars
  BY <1>1, <1>2 DEF vars
<1>3. ASSUME NEW o \in Operators, NEW new \in CampaignStatuses, op[o].campaign \in Campaigns,
             new # "RUNNING", SetStatus(op[o].campaign, new), Return(o)
      PROVE  Excl'
  <2>1. \A c \in Campaigns : status'[c] = "RUNNING" => status[c] = "RUNNING"
    BY <1>3, StatusSet DEF Typed
  <2>2. op'[o] = NoOp /\ \A p \in Operators : p # o => op'[p] = op[p]
    BY <1>3 DEF Return, Typed, OpTypes
  <2>3. \A p \in Operators : op'[p] = op[p] \/ (op'[p].pc = "idle" /\ ~WillRun(op'[p]))
    BY <2>2, NewTypes DEF WillRun
  <2> QED
    BY <2>1, <2>3, ExclFewer DEF WillRun
<1>4. ASSUME NEW o \in Operators, Return(o), UNCHANGED <<status, account>>
      PROVE  Excl'
  BY <1>4, NewTypes, ExclOp DEF Return, WillRun
<1>5. ASSUME NEW o \in Operators, OpStep(o) PROVE Excl'
  <2>0. /\ op[o].pc # "idle" => op[o].campaign \in Campaigns /\ op[o].kind \in OpKinds[o]
        /\ op[o].pc # "idle" /\ op[o].kind \in Running => op[o].accounts = Members(op[o].campaign)
    BY <1>a DEF OpShape, Excl, Clear
  <2>1. CASE OpCheck(o)
    <3> DEFINE r == [op[o] EXCEPT !.pc = IF op[o].kind = "start" THEN "accounts" ELSE "write"]
    <3>1. /\ op[o].pc = "conflict" /\ UNCHANGED <<status, account>>
          /\ IF Conflict(op[o].campaign, op[o].accounts) THEN Return(o)
             ELSE op' = [op EXCEPT ![o] = r]
      BY <2>1 DEF OpCheck, Return
    <3>2. /\ r \in OpRows /\ r.kind = op[o].kind /\ r.campaign = op[o].campaign
          /\ r.accounts = op[o].accounts /\ op[o].kind \in Running
      BY <1>a, <3>1 DEF OpRows, OpShape, Running
    <3> HIDE DEF r
    <3> QED
      BY <1>4, <2>0, <3>1, <3>2, ExclOp
  <2>2. CASE StartAccounts(o)
    <3> DEFINE sent == [a \in Accounts |-> account[op[o].campaign][a].sent]
               day == [a \in Accounts |-> IF account[op[o].campaign][a].day = "never"
                                          THEN "today" ELSE account[op[o].campaign][a].day]
               r == [op[o] EXCEPT !.pc = "write", !.sent = sent, !.day = day]
    <3>1. op[o].pc = "accounts" /\ UNCHANGED <<status, account>> /\ op' = [op EXCEPT ![o] = r]
      BY <2>2, <1>a DEF StartAccounts, OpRows
    <3>2. /\ r.kind = op[o].kind /\ r.campaign = op[o].campaign /\ op[o].kind = "start"
          /\ r.accounts = op[o].accounts /\ r.pc = "write"
      BY <1>a, <3>1 DEF OpRows, OpShape
    <3> HIDE DEF r
    <3>3. op'[o] = r /\ \A p \in Operators : p # o => op'[p] = op[p]
      BY <3>1 DEF Typed, OpTypes
    <3>4. \A p \in Operators :
            /\ op'[p].pc # "idle" =>
                 /\ op[p].pc # "idle" /\ op'[p].kind = op[p].kind
                 /\ op'[p].campaign = op[p].campaign /\ op'[p].accounts = op[p].accounts
            /\ WillRun(op'[p]) => WillRun(op[p]) /\ op'[p].pc # "idle"
      BY <3>1, <3>2, <3>3 DEF WillRun
    <3> QED
      BY <3>1, <3>4, ExclFewer
  <2>3. CASE StartCommit(o) \/ ResumeCommit(o)
    BY <2>3, ExclRun DEF StartCommit, ResumeCommit, WillRun
  <2>4. CASE UpdateCommit(o)
    <3>1. /\ op[o].pc = "write" /\ op[o].kind = "update" /\ Return(o)
          /\ SetStatus(op[o].campaign, op[o].status)
      BY <2>4 DEF UpdateCommit, Replaces
    <3>2. op[o].status \in CampaignStatuses
      BY <1>a DEF OpRows
    <3>3. CASE op[o].status = "RUNNING"
      BY <3>1, <3>3, ExclRun DEF WillRun
    <3>4. CASE op[o].status # "RUNNING"
      BY <1>3, <2>0, <3>1, <3>2, <3>4
    <3> QED
      BY <3>3, <3>4
  <2>5. CASE DeleteCommit(o)
    BY <1>3, <2>0, <2>5 DEF DeleteCommit, CampaignStatuses
  <2>6. CASE OpFails(o)
    BY <1>4, <2>6 DEF OpFails
  <2> QED
    BY <1>5, <2>1, <2>2, <2>3, <2>4, <2>5, <2>6 DEF OpStep
<1>6. ASSUME NEW o \in Operators, NEW c \in Campaigns, NEW kind \in OpKinds[o],
             OpRead(o, kind, c)
      PROVE  Excl'
  <2> DEFINE r == [NoOp EXCEPT !.kind = kind, !.campaign = c, !.status = status[c],
                     !.accounts = Members(c),
                     !.pc = IF kind \in {"start", "resume"} THEN "conflict" ELSE "write"]
  <2>1. UNCHANGED <<status, account>> /\ op' = [op EXCEPT ![o] = r]
    BY <1>6 DEF OpRead
  <2>2. kind \in Kinds /\ status[c] \in CampaignStatuses /\ Members(c) \in SUBSET Accounts
    BY CampaignAssumption DEF Typed, RowTypes, Members
  <2>3. /\ r \in OpRows /\ r.kind = kind /\ r.campaign = c /\ r.status = status[c]
        /\ r.accounts = Members(c)
        /\ r.pc = IF kind \in {"start", "resume"} THEN "conflict" ELSE "write"
    BY <2>2, NewTypes DEF OpRows
  <2> HIDE DEF r
  <2>4. WillRun(r) => status[c] = "RUNNING"
    BY <2>3 DEF WillRun
  <2>5. status[c] = "RUNNING" => ~Conflict(c, Members(c))
    BY DEF Excl, AccountRunsOnce, Conflict
  <2> QED
    BY <2>1, <2>3, <2>4, <2>5, ExclOp
<1>7. ASSUME NEW c \in Campaigns, Pause(c) \/ Cancel(c) PROVE Excl'
  <2>1. PICK new \in {"PAUSED", "CANCELED"} : SetStatus(c, new) /\ UNCHANGED op
    BY <1>7 DEF Pause, Cancel, Stop
  <2>2. \A d \in Campaigns : status'[d] = "RUNNING" => status[d] = "RUNNING"
    BY <2>1, StatusSet DEF Typed, CampaignStatuses
  <2> QED
    BY <1>1, <2>1, <2>2
<1>8. ASSUME NEW s \in Schedulers, TickStep(s) PROVE Excl'
  <2>1. CASE Finish(s)
    <3>1. tick[s].campaign \in Campaigns /\ tick[s].verdict \in {"COMPLETED", "FAILED"}
      BY <2>1 DEF Finish, Typed, TickTypes, TickShape
    <3>2. SetStatus(tick[s].campaign, tick[s].verdict) /\ UNCHANGED op
      BY <2>1 DEF Finish
    <3>3. \A d \in Campaigns : status'[d] = "RUNNING" => status[d] = "RUNNING"
      BY <3>1, <3>2, StatusSet DEF Typed, CampaignStatuses
    <3> QED
      BY <1>1, <3>2, <3>3
  <2>2. CASE ~Finish(s)
    <3>1. UNCHANGED <<status, op>>
      BY <1>8, <2>2 DEF TickStep, Process, QuotaWindow, PassOver, Offline, Choose, SkipRecipient, Claim,
         NothingToClaim, Unrenderable, Send, Record, RecordFails, RecordError, CountPending,
         Decide, TickLost
    <3> QED
      BY <1>1, <3>1
  <2> QED
    BY <2>1, <2>2
<1>9. ASSUME NEW s \in Schedulers, NEW c \in Campaigns, TickBegin(s, c) PROVE Excl'
  BY <1>1, <1>9 DEF TickBegin
<1>10. ASSUME NEW c \in Campaigns, NEW a \in Accounts, CooldownEnds(c, a) PROVE Excl'
  BY <1>1, <1>10 DEF CooldownEnds
<1>11. CASE NewDay
  <2>1. UNCHANGED status
    BY <1>11 DEF NewDay
  <2>2. ASSUME NEW o \in Operators
        PROVE  /\ op'[o].pc = op[o].pc /\ op'[o].kind = op[o].kind
               /\ op'[o].campaign = op[o].campaign /\ op'[o].status = op[o].status
               /\ op'[o].accounts = op[o].accounts
    BY <1>11, <1>a DEF NewDay, OpRows
  <2> QED
    BY <2>1, <2>2, ExclFewer DEF WillRun
<1>12. ASSUME NEW s \in Schedulers, TickCrashes(s) \/ LeaveOut(s) PROVE Excl'
  BY <1>1, <1>12 DEF TickCrashes, LeaveOut
<1> QED
  BY <1>2, <1>5, <1>6, <1>7, <1>8, <1>9, <1>10, <1>11, <1>12 DEF Next

LEMMA ExclStep == OneStarts /\ Typed /\ Excl /\ [Next]_vars => Excl'
<1> SUFFICES ASSUME OneStarts, Typed, Excl, [Next]_vars PROVE Excl'
  OBVIOUS
<1>1. CASE \E o \in Operators : Replaces(o)
  BY <1>1, ExclReplace
<1>2. CASE \A o \in Operators : ~Replaces(o)
  BY <1>2, ListsKept, ExclKept
<1> QED
  BY <1>1, <1>2

(* An account is in one running campaign at most, for any number of         *)
(* campaigns, accounts and processes, as long as one operator at a time     *)
(* starts, resumes and edits: the conflict check sees every other start.    *)
THEOREM AccountsRunOnce ==
  ASSUME OneStarts PROVE Spec => []AccountRunsOnce
<1>1. Init => Excl
  BY NewTypes DEF Init, Excl, AccountRunsOnce, Clear, WillRun
<1>2. TypedInv /\ Excl /\ [Next]_vars => Excl'
  BY ExclStep DEF TypedInv
<1>3. Excl => AccountRunsOnce
  BY DEF Excl
<1> QED
  BY <1>1, <1>2, <1>3, SafetyInvariant, PTL DEF Spec

-----------------------------------------------------------------------------
(* Stopping. A tick owes an account a message of a campaign until it has    *)
(* sent it or passed the account over.                                      *)
Owes(r, c, a) ==
  /\ r.pc # "idle" /\ r.campaign = c /\ a \in r.todo
  /\ ~(r.account = a /\ r.pc \in {"record", "error"})
Owing(c, a) == {s \in Schedulers : Owes(tick[s], c, a)}
Held(r) == r.pc \in {"claim", "send", "record", "error"} => r.account \in r.todo

(* What went out since the stop and what is still owed are one message for  *)
(* each process.                                                            *)
Stops(c, a) ==
  /\ status[c] = "RUNNING" => late[c][a] = 0
  /\ late[c][a] + Cardinality(Owing(c, a)) <= Cardinality(Schedulers)
StopInv ==
  /\ \A s \in Schedulers : Held(tick[s])
  /\ \A c \in Campaigns, a \in Accounts : Stops(c, a)

LEMMA OwingCount ==
  ASSUME IsFiniteSet(Schedulers), NEW c, NEW a
  PROVE  /\ Cardinality(Owing(c, a)) \in Nat /\ Cardinality(Schedulers) \in Nat
         /\ Cardinality(Owing(c, a)) <= Cardinality(Schedulers)
<1>1. Owing(c, a) \in SUBSET Schedulers
  BY DEF Owing
<1>2. IsFiniteSet(Owing(c, a)) /\ Cardinality(Owing(c, a)) <= Cardinality(Schedulers)
  BY <1>1, FS_Subset
<1> QED
  BY <1>2, FS_CardinalityType

(* Nobody owes the account more than before, or nothing was sent yet.       *)
LEMMA StopsFrame ==
  ASSUME IsFiniteSet(Schedulers), Typed, NEW c \in Campaigns, NEW a \in Accounts, Stops(c, a),
         status'[c] = "RUNNING" => late'[c][a] = 0,
         \/ late'[c][a] = 0
         \/ /\ late'[c][a] = late[c][a]
            /\ \A s \in Schedulers : Owes(tick'[s], c, a) => Owes(tick[s], c, a)
  PROVE  Stops(c, a)'
<1>0. late[c][a] \in Nat
  BY DEF Typed, HistoryTypes
<1> DEFINE now == {s \in Schedulers : Owes(tick'[s], c, a)}
<1>1. now \in SUBSET Schedulers /\ Owing(c, a)' = now
  BY DEF Owing
<1>2. /\ IsFiniteSet(now) /\ Cardinality(now) \in Nat /\ Cardinality(now) <= Cardinality(Schedulers)
      /\ Cardinality(Schedulers) \in Nat
  BY <1>1, FS_Subset, FS_CardinalityType
<1>3. CASE late'[c][a] = 0
  BY <1>1, <1>2, <1>3 DEF Stops
<1>4. CASE late'[c][a] = late[c][a] /\ \A s \in Schedulers : Owes(tick'[s], c, a) => Owes(tick[s], c, a)
  <2>1. now \in SUBSET Owing(c, a) /\ Owing(c, a) \in SUBSET Schedulers
    BY <1>4 DEF Owing
  <2>2. IsFiniteSet(Owing(c, a))
    BY <2>1, FS_Subset
  <2>3. Cardinality(now) <= Cardinality(Owing(c, a))
    BY <2>1, <2>2, FS_Subset
  <2>4. Cardinality(Owing(c, a)) \in Nat
    BY OwingCount
  <2>5. late'[c][a] + Cardinality(now) <= Cardinality(Schedulers)
    BY <1>0, <1>2, <1>4, <2>3, <2>4 DEF Stops
  <2> HIDE DEF now
  <2> QED
    BY <1>1, <2>5 DEF Stops
<1> QED
  BY <1>3, <1>4

(* A step in which no campaign sends and no tick owes more.                 *)
Fewer(new, old) ==
  Held(new) /\ \A c \in Campaigns, a \in Accounts : Owes(new, c, a) => Owes(old, c, a)
LEMMA StopTick ==
  ASSUME IsFiniteSet(Schedulers), Typed, StopInv, UNCHANGED <<status, late>>,
         \A s \in Schedulers : tick'[s] = tick[s] \/ Fewer(tick'[s], tick[s])
  PROVE  StopInv'
<1>1. ASSUME NEW c \in Campaigns, NEW a \in Accounts PROVE Stops(c, a)'
  <2>1. Stops(c, a)
    BY DEF StopInv
  <2>2. \A s \in Schedulers : Owes(tick'[s], c, a) => Owes(tick[s], c, a)
    BY DEF Fewer
  <2>3. status'[c] = "RUNNING" => late'[c][a] = 0
    BY <2>1 DEF Stops
  <2> QED
    BY <2>1, <2>2, <2>3, StopsFrame
<1> QED
  BY <1>1 DEF StopInv, Fewer

LEMMA StopStatus ==
  ASSUME IsFiniteSet(Schedulers), Typed, StopInv, NEW c \in Campaigns,
         NEW new \in CampaignStatuses, SetStatus(c, new),
         \A s \in Schedulers : \/ tick'[s] = tick[s] \/ tick'[s].pc = "idle"
                               \/ Fewer(tick'[s], tick[s])
  PROVE  StopInv'
<1>1. ASSUME NEW d \in Campaigns, NEW a \in Accounts PROVE Stops(d, a)'
  <2>1. Stops(d, a)
    BY DEF StopInv
  <2>2. \A s \in Schedulers : Owes(tick'[s], d, a) => Owes(tick[s], d, a)
    BY DEF Owes, Fewer
  <2>3. /\ late'[d][a] \in {0, late[d][a]}
        /\ status'[d] = "RUNNING" => late'[d][a] = 0 \/ (d # c /\ late'[d][a] = late[d][a])
    BY DEF SetStatus, Typed, RowTypes, HistoryTypes
  <2>4. d # c => status'[d] = status[d]
    BY StatusSet DEF Typed
  <2>5. status'[d] = "RUNNING" => late'[d][a] = 0
    BY <2>1, <2>3, <2>4 DEF Stops
  <2> QED
    BY <2>1, <2>2, <2>3, <2>5, StopsFrame
<1> QED
  BY <1>1 DEF StopInv, Held, Fewer

(* A tick that goes on owes what it owed, less what it is done with.        *)
LEMMA GoesOn ==
  ASSUME Typed, NEW s \in Schedulers, Held(tick[s]), tick'[s].pc = "idle" \/
           /\ tick'[s].campaign = tick[s].campaign /\ tick[s].pc # "idle"
           /\ tick'[s].todo \subseteq tick[s].todo
           /\ Held(tick'[s])
           /\ tick[s].pc \in {"record", "error"} =>
                \/ tick[s].account \notin tick'[s].todo
                \/ tick'[s].account = tick[s].account /\ tick'[s].pc \in {"record", "error"}
  PROVE  Fewer(tick'[s], tick[s])
BY DEF Fewer, Owes, Held

LEMMA StopTickStep ==
  ASSUME IsFiniteSet(Schedulers), Typed, StopInv, NEW s \in Schedulers, TickStep(s)
  PROVE  StopInv'
<1>0. PICK c, a : c = tick[s].campaign /\ a = tick[s].account
  OBVIOUS
<1> USE <1>0
<1>a. /\ tick[s] \in TickRows /\ TickShape(tick[s]) /\ tick \in [Schedulers -> TickRows]
      /\ Held(tick[s])
  BY DEF Typed, TickTypes, StopInv
<1>1. ASSUME NEW r, tick' = [tick EXCEPT ![s] = r], UNCHANGED <<status, late>>,
             r.campaign = c, tick[s].pc \notin {"idle", "record", "error"},
             r.todo \subseteq tick[s].todo, Held(r)
      PROVE  StopInv'
  <2>1. tick'[s] = r /\ \A t \in Schedulers : t # s => tick'[t] = tick[t]
    BY <1>a, <1>1
  <2>2. Fewer(tick'[s], tick[s])
    BY <1>a, <1>1, <2>1, GoesOn
  <2> QED
    BY <1>1, <2>1, <2>2, StopTick
<1>2. ASSUME NextAccount(s), UNCHANGED <<status, late>>, tick[s].pc # "idle"
      PROVE  StopInv'
  <2> DEFINE rows == [tick[s].rows EXCEPT ![a] = NoRow]
             todo == tick[s].todo \ {a}
             r == [tick[s] EXCEPT !.pc = "account", !.todo = todo, !.account = None,
                                  !.customer = None, !.rows = rows]
  <2>1. tick' = [tick EXCEPT ![s] = r]
    BY <1>2, <1>a DEF NextAccount, TickRows
  <2>2. tick'[s] = r /\ \A t \in Schedulers : t # s => tick'[t] = tick[t]
    BY <1>a, <2>1
  <2>3. r.pc = "account" /\ r.todo = todo /\ r.campaign = c
    BY <1>a DEF TickRows
  <2> HIDE DEF r
  <2>4. Fewer(tick'[s], tick[s])
    BY <1>a, <1>2, <2>2, <2>3, GoesOn DEF Held
  <2> QED
    BY <1>2, <2>2, <2>4, StopTick
<1>b. ASSUME tick' = [tick EXCEPT ![s] = NoTick], UNCHANGED <<status, late>>
      PROVE  StopInv'
  <2>1. tick'[s] = NoTick /\ \A t \in Schedulers : t # s => tick'[t] = tick[t]
    BY <1>a, <1>b
  <2>2. Fewer(tick'[s], tick[s])
    BY <2>1, NewTypes DEF Fewer, Held, Owes
  <2> QED
    BY <1>b, <2>1, <2>2, StopTick
<1>13. CASE Process(s)
  <2> DEFINE r == [tick[s] EXCEPT !.pc = "account"]
  <2>1. tick[s].pc = "read" /\ tick' = [tick EXCEPT ![s] = r] /\ UNCHANGED <<status, late>>
    BY <1>13, <1>a DEF Process, history
  <2>2. r.pc = "account" /\ r.campaign = c /\ r.todo = tick[s].todo
    BY <1>a DEF TickRows
  <2> HIDE DEF r
  <2> QED
    BY <1>1, <2>1, <2>2 DEF Held
<1>3. ASSUME NEW b \in Accounts, QuotaWindow(s, b) \/ PassOver(s, b) \/ Offline(s, b)
      PROVE  StopInv'
  <2>0. tick[s].pc = "account" /\ UNCHANGED <<status, late>>
    BY <1>3 DEF QuotaWindow, PassOver, Offline, history
  <2>1. CASE QuotaWindow(s, b)
    <3>1. PICK row : tick' = [tick EXCEPT ![s] = [tick[s] EXCEPT
                                !.rows = [tick[s].rows EXCEPT ![b] = row]]]
      BY <2>1, <1>a DEF QuotaWindow
    <3> DEFINE rows == [tick[s].rows EXCEPT ![b] = row]
               r == [tick[s] EXCEPT !.rows = rows]
    <3>2. tick' = [tick EXCEPT ![s] = r]
      BY <3>1
    <3> HIDE DEF rows
    <3>3. r.pc = "account" /\ r.campaign = c /\ r.todo = tick[s].todo
      BY <1>a, <2>0 DEF TickRows
    <3> HIDE DEF r
    <3> QED
      BY <1>1, <2>0, <3>2, <3>3 DEF Held
  <2>2. CASE PassOver(s, b) \/ Offline(s, b)
    <3> DEFINE todo == tick[s].todo \ {b}
               rows == [tick[s].rows EXCEPT ![b] = NoRow]
               r == [tick[s] EXCEPT !.todo = todo, !.rows = rows]
    <3>1. tick' = [tick EXCEPT ![s] = r]
      BY <2>2, <1>a DEF PassOver, Offline, TickRows
    <3> HIDE DEF rows
    <3>2. r.pc = "account" /\ r.campaign = c /\ r.todo \subseteq tick[s].todo
      BY <1>a, <2>0 DEF TickRows
    <3> HIDE DEF r
    <3> QED
      BY <1>1, <2>0, <3>1, <3>2 DEF Held
  <2> QED
    BY <1>3, <2>1, <2>2
<1>4. ASSUME NEW b \in Accounts, Choose(s, b) PROVE StopInv'
  <2> DEFINE r == [tick[s] EXCEPT !.pc = "claim", !.account = b]
  <2>1. /\ tick[s].pc = "account" /\ b \in tick[s].todo /\ tick' = [tick EXCEPT ![s] = r]
        /\ UNCHANGED <<status, late>>
    BY <1>4, <1>a DEF Choose, history
  <2>2. r.pc = "claim" /\ r.account = b /\ r.campaign = c /\ r.todo = tick[s].todo
    BY <1>a DEF TickRows
  <2> HIDE DEF r
  <2> QED
    BY <1>1, <2>1, <2>2 DEF Held
<1>5. ASSUME NEW j \in Customers, SkipRecipient(s, j) PROVE StopInv'
  BY <1>5, StopTick DEF SkipRecipient, history
<1>6. ASSUME NEW j \in Customers, Claim(s, j) PROVE StopInv'
  <2> DEFINE r == [tick[s] EXCEPT !.pc = "send", !.customer = j]
  <2>1. tick[s].pc = "claim" /\ tick' = [tick EXCEPT ![s] = r] /\ UNCHANGED <<status, late>>
    BY <1>6, <1>a DEF Claim, history
  <2>2. r.pc = "send" /\ r.account = a /\ r.campaign = c /\ r.todo = tick[s].todo
    BY <1>a DEF TickRows
  <2> HIDE DEF r
  <2> QED
    BY <1>1, <1>a, <2>1, <2>2 DEF Held
<1>7. CASE NothingToClaim(s) \/ Unrenderable(s) \/ Record(s) \/ RecordError(s)
  BY <1>2, <1>7 DEF NothingToClaim, Unrenderable, Record, RecordError, history
<1>8. CASE RecordFails(s)
  <2> DEFINE r == [tick[s] EXCEPT !.pc = "error"]
  <2>1. tick[s].pc = "record" /\ tick' = [tick EXCEPT ![s] = r] /\ UNCHANGED <<status, late>>
    BY <1>8, <1>a DEF RecordFails
  <2>2. r.pc = "error" /\ r.account = a /\ r.campaign = c /\ r.todo = tick[s].todo
    BY <1>a DEF TickRows
  <2>3. tick'[s] = r /\ \A t \in Schedulers : t # s => tick'[t] = tick[t]
    BY <1>a, <2>1
  <2> HIDE DEF r
  <2>4. Fewer(tick'[s], tick[s])
    BY <1>a, <2>1, <2>2, <2>3, GoesOn DEF Held
  <2> QED
    BY <2>1, <2>3, <2>4, StopTick
<1>9. CASE CountPending(s) \/ Decide(s)
  <2>1. UNCHANGED <<status, late>> /\ tick[s].pc \in {"account", "sync"}
    BY <1>9 DEF CountPending, Decide, history
  <2>2. PICK pc \in {"sync", "finish"} : \E pending, v :
          \/ tick' = [tick EXCEPT ![s] = NoTick]
          \/ tick' = [tick EXCEPT ![s] = [tick[s] EXCEPT !.pc = pc, !.pending = pending,
                                                         !.verdict = v]]
    <3>1. CASE CountPending(s)
      <4>1. PICK pending : pending = \E k \in Customers : Pending(c, k)
        OBVIOUS
      <4>2. tick' = [tick EXCEPT ![s] = [tick[s] EXCEPT !.pc = "sync", !.pending = pending]]
        BY <3>1, <4>1, <1>a DEF CountPending
      <4>3. [tick[s] EXCEPT !.pc = "sync", !.pending = pending]
              = [tick[s] EXCEPT !.pc = "sync", !.pending = pending, !.verdict = tick[s].verdict]
        BY <1>a DEF TickRows
      <4> QED
        BY <4>2, <4>3
    <3>2. CASE Decide(s)
      <4>1. PICK v : tick' = [tick EXCEPT ![s] = IF v = "none" THEN NoTick
                     ELSE [tick[s] EXCEPT !.pc = "finish", !.verdict = v, !.pending = FALSE]]
        BY <3>2, <1>a DEF Decide
      <4>2. [tick[s] EXCEPT !.pc = "finish", !.verdict = v, !.pending = FALSE]
              = [tick[s] EXCEPT !.pc = "finish", !.pending = FALSE, !.verdict = v]
        BY <1>a DEF TickRows
      <4> QED
        BY <4>1, <4>2
    <3> QED
      BY <1>9, <3>1, <3>2
  <2>2a. PICK pending, v :
          \/ tick' = [tick EXCEPT ![s] = NoTick]
          \/ tick' = [tick EXCEPT ![s] = [tick[s] EXCEPT !.pc = pc, !.pending = pending,
                                                         !.verdict = v]]
    BY <2>2
  <2> DEFINE r == [tick[s] EXCEPT !.pc = pc, !.pending = pending, !.verdict = v]
  <2>3. r.pc = pc /\ r.campaign = c /\ r.todo = tick[s].todo
    BY <1>a DEF TickRows
  <2> HIDE DEF r
  <2>4. tick' = [tick EXCEPT ![s] = NoTick] \/ tick' = [tick EXCEPT ![s] = r]
    BY <2>2a DEF r
  <2>5. Held(r)
    BY <2>2, <2>3 DEF Held
  <2>6. CASE tick' = [tick EXCEPT ![s] = r]
    BY <1>1, <2>1, <2>3, <2>5, <2>6
  <2> QED
    BY <1>b, <2>1, <2>4, <2>6
<1>10. CASE Finish(s)
  <2>1. /\ c \in Campaigns /\ tick[s].verdict \in CampaignStatuses
        /\ SetStatus(c, tick[s].verdict) /\ tick' = [tick EXCEPT ![s] = NoTick]
    BY <1>10, <1>a DEF Finish, TickShape, CampaignStatuses
  <2>2. \A t \in Schedulers : tick'[t] = tick[t] \/ tick'[t].pc = "idle"
    BY <1>a, <2>1, NewTypes
  <2> QED
    BY <2>1, <2>2, StopStatus
<1>11. CASE TickLost(s)
  BY <1>b, <1>11 DEF TickLost, Abort
<1>12. CASE Send(s)
  <2>1. PICK pc \in {"record", "error"} : tick' = [tick EXCEPT ![s].pc = pc]
    BY <1>12 DEF Send
  <2>2. /\ tick[s].pc = "send" /\ c \in Campaigns /\ a \in Accounts /\ a \in tick[s].todo
        /\ UNCHANGED status
        /\ late' = late \/ (status[c] # "RUNNING" /\ late' = [late EXCEPT ![c][a] = late[c][a] + 1])
    BY <1>12, <1>a DEF Send, TickShape, Held
  <2> DEFINE r == [tick[s] EXCEPT !.pc = pc]
  <2>3. /\ tick'[s] = r /\ \A t \in Schedulers : t # s => tick'[t] = tick[t]
    BY <1>a, <2>1
  <2>4. r.pc = pc /\ r.account = a /\ r.campaign = c /\ r.todo = tick[s].todo
    BY <1>a DEF TickRows
  <2> HIDE DEF r
  <2>5. Fewer(tick'[s], tick[s])
    BY <1>a, <2>2, <2>3, <2>4, GoesOn DEF Held
  <2>6. CASE late' = late
    BY <2>2, <2>3, <2>5, <2>6, StopTick
  <2>7. CASE status[c] # "RUNNING" /\ late' = [late EXCEPT ![c][a] = late[c][a] + 1]
    <3>1. ASSUME NEW d \in Campaigns, NEW b \in Accounts, <<d, b>> # <<c, a>>
          PROVE  Stops(d, b)'
      <4>1. late'[d][b] = late[d][b] /\ Stops(d, b)
        BY <2>2, <2>7, <3>1 DEF Typed, HistoryTypes, StopInv
      <4>2. \A t \in Schedulers : Owes(tick'[t], d, b) => Owes(tick[t], d, b)
        BY <2>3, <2>5 DEF Fewer
      <4>3. status'[d] = "RUNNING" => late'[d][b] = 0
        BY <2>2, <4>1 DEF Stops
      <4> QED
        BY <4>1, <4>2, <4>3, StopsFrame
    <3>2. Stops(c, a)'
      <4> DEFINE now == {t \in Schedulers : Owes(tick'[t], c, a)}
      <4>1. s \in Owing(c, a) /\ Owing(c, a) \in SUBSET Schedulers
        BY <2>2 DEF Owing, Owes
      <4>2. now \in SUBSET (Owing(c, a) \ {s})
        <5>1. ~Owes(tick'[s], c, a)
          BY <2>3, <2>4 DEF Owes
        <5> QED
          BY <2>3, <5>1 DEF Owing
      <4>3. IsFiniteSet(Owing(c, a))
        BY <4>1, FS_Subset
      <4>4. /\ IsFiniteSet(Owing(c, a) \ {s})
            /\ Cardinality(Owing(c, a) \ {s}) = Cardinality(Owing(c, a)) - 1
        BY <4>1, <4>3, FS_RemoveElement
      <4>5. IsFiniteSet(now) /\ Cardinality(now) <= Cardinality(Owing(c, a)) - 1
        BY <4>2, <4>4, FS_Subset
      <4>6. Cardinality(now) \in Nat /\ Cardinality(Owing(c, a)) \in Nat
            /\ Cardinality(Schedulers) \in Nat
        BY <4>3, <4>5, FS_CardinalityType
      <4>7. late'[c][a] = late[c][a] + 1 /\ late[c][a] \in Nat
        BY <2>2, <2>7 DEF Typed, HistoryTypes
      <4>8. late[c][a] + Cardinality(Owing(c, a)) <= Cardinality(Schedulers)
        BY <2>2 DEF StopInv, Stops
      <4>9. Owing(c, a)' = now
        BY DEF Owing
      <4> HIDE DEF now
      <4>10. late'[c][a] + Cardinality(now) <= Cardinality(Schedulers)
        BY <4>5, <4>6, <4>7, <4>8
      <4> QED
        BY <2>2, <2>7, <4>9, <4>10 DEF Stops
    <3>3. ASSUME NEW d \in Campaigns, NEW b \in Accounts PROVE Stops(d, b)'
      BY <3>1, <3>2
    <3> QED
      BY <2>3, <2>5, <3>3 DEF StopInv, Fewer
  <2> QED
    BY <2>2, <2>6, <2>7
<1> QED
  BY <1>3, <1>4, <1>5, <1>6, <1>7, <1>8, <1>9, <1>10, <1>11, <1>12, <1>13 DEF TickStep

LEMMA StopStep == IsFiniteSet(Schedulers) /\ Typed /\ StopInv /\ [Next]_vars => StopInv'
<1> SUFFICES ASSUME IsFiniteSet(Schedulers), Typed, StopInv, [Next]_vars PROVE StopInv'
  OBVIOUS
<1>1. ASSUME UNCHANGED <<status, late, tick>> PROVE StopInv'
  BY <1>1, StopTick
<1>2. CASE UNCHANGED vars
  BY <1>1, <1>2 DEF vars, history
<1>3. ASSUME NEW o \in Operators, OpStep(o) PROVE StopInv'
  <2>1. CASE OpCheck(o) \/ StartAccounts(o) \/ OpFails(o)
    BY <1>1, <2>1 DEF OpCheck, StartAccounts, OpFails, history
  <2>2. CASE StartCommit(o) \/ ResumeCommit(o) \/ UpdateCommit(o) \/ DeleteCommit(o)
    <3>1. op[o].campaign \in Campaigns /\ op[o].status \in CampaignStatuses
      BY <2>2 DEF Typed, OpTypes, OpShape, OpRows, StartCommit, ResumeCommit, UpdateCommit,
         DeleteCommit
    <3>2. PICK new \in CampaignStatuses : SetStatus(op[o].campaign, new)
      BY <2>2, <3>1 DEF StartCommit, ResumeCommit, UpdateCommit, DeleteCommit, CampaignStatuses
    <3>3. \A s \in Schedulers : Fewer(tick'[s], tick[s])
      BY <1>3, OpTicks DEF Fewer, Held, Owes, StopInv
    <3> QED
      BY <3>1, <3>2, <3>3, StopStatus
  <2> QED
    BY <1>3, <2>1, <2>2 DEF OpStep
<1>4. ASSUME NEW o \in Operators, NEW c \in Campaigns, NEW kind \in OpKinds[o],
             OpRead(o, kind, c)
      PROVE  StopInv'
  BY <1>1, <1>4 DEF OpRead, history
<1>5. ASSUME NEW c \in Campaigns, Pause(c) \/ Cancel(c) PROVE StopInv'
  BY <1>5, StopStatus DEF Pause, Cancel, Stop, CampaignStatuses
<1>6. ASSUME NEW s \in Schedulers, NEW c \in Campaigns, TickBegin(s, c) PROVE StopInv'
  <2>1. /\ tick'[s].pc = "read" /\ tick'[s].campaign = c
        /\ \A t \in Schedulers : t # s => tick'[t] = tick[t]
    BY <1>6, TypedTickBegin
  <2>2. status[c] = "RUNNING" /\ UNCHANGED <<status, late>>
    BY <1>6 DEF TickBegin
  <2>3. ASSUME NEW d \in Campaigns, NEW a \in Accounts PROVE Stops(d, a)'
    <3>1. Stops(d, a)
      BY DEF StopInv
    <3>2. d = c => late'[d][a] = 0
      BY <2>2, <3>1 DEF Stops
    <3>3. d # c => \A t \in Schedulers : Owes(tick'[t], d, a) => Owes(tick[t], d, a)
      BY <2>1 DEF Owes
    <3>4. status'[d] = "RUNNING" => late'[d][a] = 0
      BY <2>2, <3>1 DEF Stops
    <3>5. late'[d][a] = late[d][a]
      BY <2>2
    <3> QED
      BY <3>1, <3>2, <3>3, <3>4, <3>5, StopsFrame
  <2>4. \A t \in Schedulers : Held(tick'[t])
    BY <2>1 DEF Held, StopInv
  <2> QED
    BY <2>3, <2>4 DEF StopInv
<1>7. ASSUME NEW s \in Schedulers, TickCrashes(s) \/ LeaveOut(s) PROVE StopInv'
  <2>1. tick'[s] = NoTick /\ \A t \in Schedulers : t # s => tick'[t] = tick[t]
    BY <1>7, AbortType DEF TickCrashes, LeaveOut, Abort, Typed
  <2>2. Fewer(tick'[s], tick[s]) /\ UNCHANGED <<status, late>>
    BY <1>7, <2>1, NewTypes DEF Fewer, Held, Owes, TickCrashes, LeaveOut, history
  <2> QED
    BY <2>1, <2>2, StopTick
<1>8. ASSUME NEW c \in Campaigns, NEW a \in Accounts, CooldownEnds(c, a) PROVE StopInv'
  BY <1>1, <1>8 DEF CooldownEnds, history
<1>9. CASE NewDay
  <2>1. UNCHANGED <<status, late>>
    BY <1>9 DEF NewDay
  <2>2. ASSUME NEW s \in Schedulers
        PROVE  /\ tick'[s].pc = tick[s].pc /\ tick'[s].campaign = tick[s].campaign
               /\ tick'[s].todo = tick[s].todo /\ tick'[s].account = tick[s].account
    BY <1>9, NewDayTick DEF SameWork
  <2>3. \A s \in Schedulers : Fewer(tick'[s], tick[s])
    BY <2>2 DEF Fewer, Owes, Held, StopInv
  <2> QED
    BY <2>1, <2>3, StopTick
<1> QED
  BY <1>2, <1>3, <1>4, <1>5, <1>6, <1>7, <1>8, <1>9, StopTickStep DEF Next

(* After a campaign is stopped each account sends at most the one message   *)
(* per process that a tick had in hand, for any number of processes,        *)
(* campaigns, accounts and operator requests.                               *)
THEOREM StopsSoon ==
  ASSUME IsFiniteSet(Schedulers) PROVE Spec => []StopIsSoon
<1>1. Init => StopInv
  <2> SUFFICES ASSUME Init, NEW c \in Campaigns, NEW a \in Accounts PROVE Stops(c, a)
    BY NewTypes DEF StopInv, Held, Init
  <2>1. late[c][a] = 0
    BY DEF Init
  <2> QED
    BY <2>1, OwingCount DEF Stops
<1>2. TypedInv /\ StopInv /\ [Next]_vars => StopInv'
  BY StopStep DEF TypedInv
<1>3. TypedInv /\ StopInv => StopIsSoon
  <2> SUFFICES ASSUME TypedInv, StopInv, NEW c \in Campaigns, NEW a \in Accounts
               PROVE  late[c][a] <= Cardinality(Schedulers)
    BY DEF StopIsSoon
  <2>1. late[c][a] + Cardinality(Owing(c, a)) <= Cardinality(Schedulers) /\ late[c][a] \in Nat
    BY DEF StopInv, Stops, TypedInv, Typed, HistoryTypes
  <2> QED
    BY <2>1, OwingCount
<1> QED
  BY <1>1, <1>2, <1>3, SafetyInvariant, PTL DEF Spec

-----------------------------------------------------------------------------
(* The daily quota. What a campaign without races has sent today is in the  *)
(* counter of the account, in the row its only tick has read, and in the    *)
(* counter a start is about to write back; a draft has sent nothing and is  *)
(* on no tick.                                                              *)
Serves(r, c) == r.pc # "idle" /\ r.campaign = c
InHand(r) == r.pc \in {"claim", "send", "record", "error"} =>
               r.account \in r.todo /\ r.rows[r.account].sent < r.rows[r.account].quota
RowQuota(c, a) ==
  /\ today[c][a] <= account[c][a].quota
  /\ today[c][a] # 0 => account[c][a].day = "today" /\ today[c][a] <= account[c][a].sent
TickQuota(r, c) ==
  /\ InHand(r)
  /\ \A a \in r.todo : r.rows[a].quota = account[c][a].quota
  /\ r.day = "before" => \A a \in Accounts : today[c][a] = 0
  /\ r.day = "today" => \A a \in r.todo :
       today[c][a] <= r.rows[a].sent /\ (r.rows[a].day # "today" => today[c][a] = 0)
OpQuota(r, c) ==
  r.pc = "write" /\ r.kind = "start" /\ r.campaign = c =>
    /\ \A s \in Schedulers : ~Serves(tick[s], c)
    /\ \A a \in Accounts : today[c][a] # 0 => r.day[a] = "today" /\ today[c][a] <= r.sent[a]
Drafted(c) ==
  status[c] = "DRAFT" => /\ \A a \in Accounts : today[c][a] = 0
                         /\ \A s \in Schedulers : ~Serves(tick[s], c)
Counted(c) ==
  /\ Drafted(c)
  /\ \A a \in Accounts : RowQuota(c, a)
  /\ \A s, t \in Schedulers : Serves(tick[s], c) /\ Serves(tick[t], c) => s = t
  /\ \A s \in Schedulers : Serves(tick[s], c) => TickQuota(tick[s], c)
  /\ \A o \in Operators : OpQuota(op[o], c)
QuotaInv == \A c \in Campaigns \ raced : Counted(c)

(* A tick that goes on without counting a message.                          *)
Shrinks(new, old) ==
  /\ old.pc # "idle" /\ new.campaign = old.campaign /\ new.day = old.day
  /\ new.todo \subseteq old.todo /\ \A a \in new.todo : new.rows[a] = old.rows[a]
  /\ InHand(new)
SameCounts ==
  \A c \in Campaigns, a \in Accounts :
    account'[c][a].sent = account[c][a].sent /\ account'[c][a].day = account[c][a].day

(* A campaign that becomes a draft again counts as raced.                   *)
NoNewDraft ==
  \A c \in Campaigns \ raced' : status'[c] = "DRAFT" => status[c] = "DRAFT"

LEMMA DraftsKept ==
  ASSUME Typed, [Next]_vars
  PROVE  NoNewDraft
<1>1. ASSUME UNCHANGED status PROVE NoNewDraft
  BY <1>1 DEF NoNewDraft
<1>2. ASSUME NEW c \in Campaigns, NEW new \in CampaignStatuses \ {"DRAFT"}, SetStatus(c, new)
      PROVE  NoNewDraft
  BY <1>2, StatusSet DEF NoNewDraft, Typed
<1>3. ASSUME NEW o \in Operators, OpStep(o) PROVE NoNewDraft
  <2>1. CASE OpCheck(o) \/ StartAccounts(o) \/ OpFails(o)
    BY <1>1, <2>1 DEF OpCheck, StartAccounts, OpFails
  <2>2. CASE StartCommit(o) \/ ResumeCommit(o) \/ DeleteCommit(o)
    <3>1. op[o].campaign \in Campaigns
      BY <2>2 DEF StartCommit, ResumeCommit, DeleteCommit, Typed, OpTypes, OpShape
    <3>2. \E new \in {"RUNNING", "NONE"} : SetStatus(op[o].campaign, new)
      BY <2>2 DEF StartCommit, ResumeCommit, DeleteCommit
    <3> QED
      BY <1>2, <3>1, <3>2 DEF CampaignStatuses
  <2>3. CASE UpdateCommit(o)
    <3>1. PICK c, new : c = op[o].campaign /\ new = op[o].status
      OBVIOUS
    <3>2. /\ c \in Campaigns /\ new \in CampaignStatuses /\ SetStatus(c, new)
          /\ raced' = IF new = "DRAFT" /\ status[c] # "DRAFT" THEN raced \cup {c} ELSE raced
      BY <2>3, <3>1 DEF UpdateCommit, Typed, OpTypes, OpRows, OpShape
    <3>3. status'[c] = new /\ \A d \in Campaigns : d # c => status'[d] = status[d]
      BY <3>2, StatusSet DEF Typed
    <3> QED
      BY <3>2, <3>3 DEF NoNewDraft
  <2> QED
    BY <1>3, <2>1, <2>2, <2>3 DEF OpStep
<1>4. ASSUME NEW c \in Campaigns, Pause(c) \/ Cancel(c) PROVE NoNewDraft
  BY <1>2, <1>4 DEF Pause, Cancel, Stop, CampaignStatuses
<1>5. ASSUME NEW s \in Schedulers, Finish(s) PROVE NoNewDraft
  <2>1. tick[s].campaign \in Campaigns /\ tick[s].verdict \in {"COMPLETED", "FAILED"}
    BY <1>5 DEF Finish, Typed, TickTypes, TickShape
  <2> QED
    BY <1>2, <1>5, <2>1 DEF Finish, CampaignStatuses
<1>6. ASSUME NEW s \in Schedulers, TickStep(s), ~Finish(s) PROVE NoNewDraft
  <2>1. UNCHANGED status
    BY <1>6 DEF TickStep, Process, QuotaWindow, PassOver, Offline, Choose, SkipRecipient, Claim,
       NothingToClaim, Unrenderable, Send, Record, RecordFails, RecordError, CountPending,
       Decide, TickLost
  <2> QED
    BY <1>1, <2>1
<1>7. CASE UNCHANGED vars
  BY <1>1, <1>7 DEF vars
<1>8. CASE NewDay
  BY <1>1, <1>8 DEF NewDay
<1>9. ASSUME NEW s \in Schedulers,
             LeaveOut(s) \/ TickCrashes(s) \/ \E c \in Campaigns : TickBegin(s, c)
      PROVE  NoNewDraft
  BY <1>1, <1>9 DEF LeaveOut, TickCrashes, TickBegin
<1>10. ASSUME NEW o \in Operators, NEW c \in Campaigns, NEW kind \in OpKinds[o],
              OpRead(o, kind, c)
       PROVE  NoNewDraft
  BY <1>1, <1>10 DEF OpRead
<1>11. ASSUME NEW c \in Campaigns, NEW a \in Accounts, CooldownEnds(c, a) PROVE NoNewDraft
  BY <1>1, <1>11 DEF CooldownEnds
<1> QED
  BY <1>3, <1>4, <1>5, <1>6, <1>7, <1>8, <1>9, <1>10, <1>11 DEF Next

LEMMA QuotaFrame ==
  ASSUME Typed, QuotaInv, SameCounts, SameLists, NoNewDraft, UNCHANGED today,
         raced \subseteq raced',
         \A s \in Schedulers : \/ tick'[s] = tick[s] \/ tick'[s].pc = "idle"
                               \/ Shrinks(tick'[s], tick[s]),
         \A o \in Operators : op'[o] = op[o] \/ op'[o].pc # "write" \/ op'[o].kind # "start"
  PROVE  QuotaInv'
<1> SUFFICES ASSUME NEW c \in Campaigns \ raced' PROVE Counted(c)'
  BY DEF QuotaInv
<1>1. Counted(c)
  BY DEF QuotaInv
<1>2. \A a \in Accounts : RowQuota(c, a)'
  BY <1>1 DEF Counted, RowQuota, SameCounts, SameLists
<1>3. \A s \in Schedulers : Serves(tick'[s], c) => Serves(tick[s], c)
  BY DEF Serves, Shrinks
<1>4. ASSUME NEW s \in Schedulers, Serves(tick'[s], c) PROVE TickQuota(tick[s], c)'
  <2>1. TickQuota(tick[s], c)
    BY <1>1, <1>3, <1>4 DEF Counted
  <2>2. tick'[s] = tick[s] \/ Shrinks(tick'[s], tick[s])
    BY <1>4 DEF Serves
  <2>3. \A a \in tick[s].todo : account'[c][a].quota = account[c][a].quota
    BY DEF SameLists, Typed, TickTypes, TickRows
  <2> QED
    BY <2>1, <2>2, <2>3 DEF TickQuota, Shrinks
<1>5. ASSUME NEW o \in Operators PROVE OpQuota(op[o], c)'
  BY <1>1, <1>3 DEF Counted, OpQuota
<1>6. Drafted(c)'
  BY <1>1, <1>3 DEF Counted, Drafted, NoNewDraft
<1> QED
  BY <1>1, <1>2, <1>3, <1>4, <1>5, <1>6 DEF Counted, Serves

(* A write of one account row that keeps the counter and its day.           *)
LEMMA RowFrame ==
  ASSUME Typed, NEW c \in Campaigns, NEW a \in Accounts, NEW row,
         row.sent = account[c][a].sent, row.day = account[c][a].day,
         account' = [account EXCEPT ![c] = [account[c] EXCEPT ![a] = row]]
  PROVE  SameCounts
<1> DEFINE rows == [account[c] EXCEPT ![a] = row]
<1>1. rows[a] = row /\ \A b \in Accounts : b # a => rows[b] = account[c][b]
  BY DEF Typed, RowTypes
<1> HIDE DEF rows
<1>2. account'[c] = rows /\ \A d \in Campaigns : d # c => account'[d] = account[d]
  BY DEF Typed, RowTypes, rows
<1> QED
  BY <1>1, <1>2 DEF SameCounts

LEMMA ErrorFrame ==
  ASSUME NEW old \in AccountRows, NEW errors \in 0 .. MaxErrors
  PROVE  AfterError(old, errors).sent = old.sent /\ AfterError(old, errors).day = old.day
<1>1. CASE errors + 1 >= MaxErrors
  BY <1>1 DEF AfterError, AccountRows
<1>2. CASE ~(errors + 1 >= MaxErrors)
  BY <1>2 DEF AfterError, AccountRows
<1> QED
  BY <1>1, <1>2

LEMMA NextAccountShrinks ==
  ASSUME Typed, NEW s \in Schedulers, tick[s].pc # "idle", NextAccount(s)
  PROVE  /\ Shrinks(tick'[s], tick[s]) /\ \A t \in Schedulers : t # s => tick'[t] = tick[t]
         /\ tick'[s].pc = "account" /\ tick'[s].todo = tick[s].todo \ {tick[s].account}
<1> DEFINE rows == [tick[s].rows EXCEPT ![tick[s].account] = NoRow]
           todo == tick[s].todo \ {tick[s].account}
           r == [tick[s] EXCEPT !.pc = "account", !.todo = todo, !.account = None,
                                !.customer = None, !.rows = rows]
<1>1. tick[s] \in TickRows /\ tick \in [Schedulers -> TickRows]
  BY DEF Typed, TickTypes
<1>2. tick' = [tick EXCEPT ![s] = r]
  BY <1>1 DEF NextAccount, TickRows
<1>3. todo \subseteq tick[s].todo /\ \A a \in todo : rows[a] = tick[s].rows[a]
  BY <1>1 DEF TickRows
<1> HIDE DEF rows
<1>4. /\ r.pc = "account" /\ r.campaign = tick[s].campaign /\ r.day = tick[s].day
      /\ r.todo = todo /\ r.rows = rows
  BY <1>1 DEF TickRows
<1>5. tick'[s] = r /\ \A t \in Schedulers : t # s => tick'[t] = tick[t]
  BY <1>1, <1>2
<1> HIDE DEF r
<1> QED
  BY <1>3, <1>4, <1>5 DEF Shrinks, InHand

(* The steps of a tick that count nothing.                                  *)
LEMMA QuotaTickStep ==
  ASSUME Typed, QuotaInv, SameLists, NoNewDraft, NEW s \in Schedulers, TickStep(s),
         \A a \in Accounts : ~QuotaWindow(s, a), ~Record(s)
  PROVE  QuotaInv'
<1>0. PICK c, a : c = tick[s].campaign /\ a = tick[s].account
  OBVIOUS
<1> USE <1>0
<1>a. /\ tick[s] \in TickRows /\ TickShape(tick[s]) /\ tick \in [Schedulers -> TickRows]
      /\ account \in [Campaigns -> [Accounts -> AccountRows]]
  BY DEF Typed, TickTypes, RowTypes
<1>b. tick[s].pc # "idle" => c \in Campaigns /\ (c \notin raced => InHand(tick[s]))
  BY <1>a DEF TickShape, QuotaInv, Counted, TickQuota, Serves
<1>1. ASSUME UNCHANGED <<op, today, raced>>, SameCounts,
             \A t \in Schedulers : t # s => tick'[t] = tick[t],
             tick[s].pc # "idle",
             \/ tick'[s] = tick[s] \/ tick'[s].pc = "idle" \/ Shrinks(tick'[s], tick[s])
             \/ c \in raced /\ tick'[s].campaign = c
      PROVE  QuotaInv'
  <2>1. CASE tick'[s] = tick[s] \/ tick'[s].pc = "idle" \/ Shrinks(tick'[s], tick[s])
    BY <1>1, <2>1, QuotaFrame
  <2>2. CASE c \in raced /\ tick'[s].campaign = c
    <3> SUFFICES ASSUME NEW d \in Campaigns \ raced PROVE Counted(d)'
      BY <1>1 DEF QuotaInv
    <3>1. Counted(d) /\ d # c
      BY <2>2 DEF QuotaInv
    <3>2. \A t \in Schedulers : Serves(tick'[t], d) => tick'[t] = tick[t]
      BY <1>1, <2>2, <3>1 DEF Serves
    <3>3. \A b \in Accounts : RowQuota(d, b)'
      BY <1>1, <3>1 DEF Counted, RowQuota, SameCounts, SameLists
    <3>4. ASSUME NEW t \in Schedulers, Serves(tick'[t], d) PROVE TickQuota(tick[t], d)'
      <4>1. \A b \in tick[t].todo : account'[d][b].quota = account[d][b].quota
        BY DEF SameLists, Typed, TickTypes, TickRows
      <4> QED
        BY <1>1, <3>1, <3>2, <3>4, <4>1 DEF Counted, TickQuota
    <3>6. Drafted(d)'
      BY <1>1, <3>1, <3>2 DEF Counted, Drafted, NoNewDraft
    <3>5. ASSUME NEW o \in Operators PROVE OpQuota(op[o], d)'
      BY <1>1, <3>1, <3>2 DEF Counted, OpQuota
    <3> QED
      BY <3>1, <3>2, <3>3, <3>4, <3>5, <3>6 DEF Counted
  <2> QED
    BY <1>1, <2>1, <2>2
<1>2. ASSUME UNCHANGED account PROVE SameCounts
  BY <1>2 DEF SameCounts
<1>3. ASSUME NEW b \in Accounts, PassOver(s, b) \/ Offline(s, b) PROVE QuotaInv'
  <2>1. /\ tick[s].pc = "account" /\ UNCHANGED <<op, today, raced>>
    BY <1>3 DEF PassOver, Offline, history
  <2>2. SameCounts
    <3>1. CASE PassOver(s, b)
      BY <1>2, <3>1 DEF PassOver
    <3>2. CASE Offline(s, b)
      <4>1. account[c][b] \in AccountRows /\ Row(s, b).errors \in 0 .. MaxErrors /\ c \in Campaigns
        BY <1>a, <1>b, <2>1 DEF Row, AccountRows, TickRows
      <4> DEFINE row == AfterError(account[c][b], Row(s, b).errors)
      <4>2. account' = [account EXCEPT ![c] = [account[c] EXCEPT ![b] = row]]
        BY <3>2 DEF Offline
      <4>3. row.sent = account[c][b].sent /\ row.day = account[c][b].day
        BY <4>1, ErrorFrame
      <4> HIDE DEF row
      <4> QED
        BY <4>1, <4>2, <4>3, RowFrame
    <3> QED
      BY <1>3, <3>1, <3>2
  <2> DEFINE todo == tick[s].todo \ {b}
             rows == [tick[s].rows EXCEPT ![b] = NoRow]
             r == [tick[s] EXCEPT !.todo = todo, !.rows = rows]
  <2>3. tick' = [tick EXCEPT ![s] = r]
    BY <1>3, <1>a DEF PassOver, Offline, TickRows
  <2>4. \A d \in todo : rows[d] = tick[s].rows[d]
    BY <1>a DEF TickRows
  <2> HIDE DEF rows
  <2>5. /\ r.pc = "account" /\ r.campaign = c /\ r.day = tick[s].day
        /\ r.todo = todo /\ r.rows = rows
    BY <1>a, <2>1 DEF TickRows
  <2>6. tick'[s] = r /\ \A t \in Schedulers : t # s => tick'[t] = tick[t]
    BY <1>a, <2>3
  <2> HIDE DEF r
  <2>7. Shrinks(tick'[s], tick[s])
    BY <2>1, <2>4, <2>5, <2>6 DEF Shrinks, InHand
  <2> QED
    BY <1>1, <2>1, <2>2, <2>6, <2>7
<1>4. ASSUME NEW r, tick' = [tick EXCEPT ![s] = r],
             r.campaign = c /\ r.day = tick[s].day /\ r.todo = tick[s].todo
               /\ r.rows = tick[s].rows,
             \/ r.pc \in {"account", "sync", "finish"}
             \/ /\ r.account \in tick[s].todo
                /\ tick[s].rows[r.account].sent < tick[s].rows[r.account].quota
             \/ tick[s].pc \in {"claim", "send", "record", "error"} /\ r.account = a,
             tick[s].pc # "idle", UNCHANGED <<account, op, today, raced>>
      PROVE  QuotaInv'
  <2>1. tick'[s] = r /\ \A t \in Schedulers : t # s => tick'[t] = tick[t]
    BY <1>a, <1>4
  <2>2. c \notin raced => Shrinks(tick'[s], tick[s])
    BY <1>b, <1>4, <2>1 DEF Shrinks, InHand
  <2> QED
    BY <1>1, <1>2, <1>4, <2>1, <2>2
<1>18. CASE Process(s)
  <2> DEFINE r == [tick[s] EXCEPT !.pc = "account"]
  <2>1. /\ tick[s].pc = "read" /\ UNCHANGED <<account, op, today, raced>>
        /\ tick' = [tick EXCEPT ![s] = r]
    BY <1>18, <1>a DEF Process, history
  <2>2. /\ r.campaign = c /\ r.day = tick[s].day /\ r.todo = tick[s].todo
        /\ r.rows = tick[s].rows /\ r.pc = "account"
    BY <1>a DEF TickRows
  <2> HIDE DEF r
  <2> QED
    BY <1>4, <2>1, <2>2
<1>5. ASSUME NEW b \in Accounts, Choose(s, b) PROVE QuotaInv'
  <2> DEFINE r == [tick[s] EXCEPT !.pc = "claim", !.account = b]
  <2>1. /\ tick[s].pc = "account" /\ b \in tick[s].todo
        /\ tick[s].rows[b].sent < tick[s].rows[b].quota
        /\ UNCHANGED <<account, op, today, raced>> /\ tick' = [tick EXCEPT ![s] = r]
    BY <1>5, <1>a DEF Choose, Usable, Row, history
  <2>2. /\ r.campaign = c /\ r.day = tick[s].day /\ r.todo = tick[s].todo
        /\ r.rows = tick[s].rows /\ r.account = b
    BY <1>a DEF TickRows
  <2> HIDE DEF r
  <2> QED
    BY <1>4, <2>1, <2>2
<1>6. ASSUME NEW k \in Customers, SkipRecipient(s, k) PROVE QuotaInv'
  BY <1>1, <1>2, <1>6 DEF SkipRecipient, history
<1>7. ASSUME NEW k \in Customers, Claim(s, k) PROVE QuotaInv'
  <2> DEFINE r == [tick[s] EXCEPT !.pc = "send", !.customer = k]
  <2>1. /\ tick[s].pc = "claim" /\ UNCHANGED <<account, op, today, raced>>
        /\ tick' = [tick EXCEPT ![s] = r]
    BY <1>7, <1>a DEF Claim, history
  <2>2. /\ r.campaign = c /\ r.day = tick[s].day /\ r.todo = tick[s].todo
        /\ r.rows = tick[s].rows /\ r.account = a
    BY <1>a DEF TickRows
  <2> HIDE DEF r
  <2> QED
    BY <1>4, <2>1, <2>2
<1>8. CASE Send(s) \/ RecordFails(s)
  <2>1. /\ tick[s].pc \in {"send", "record"} /\ UNCHANGED <<account, op, today, raced>>
        /\ \E pc \in {"record", "error"} : tick' = [tick EXCEPT ![s] = [tick[s] EXCEPT !.pc = pc]]
    BY <1>8, <1>a DEF Send, RecordFails
  <2>2. PICK pc \in {"record", "error"} : tick' = [tick EXCEPT ![s] = [tick[s] EXCEPT !.pc = pc]]
    BY <2>1
  <2> DEFINE r == [tick[s] EXCEPT !.pc = pc]
  <2>3. /\ r.campaign = c /\ r.day = tick[s].day /\ r.todo = tick[s].todo
        /\ r.rows = tick[s].rows /\ r.account = a
    BY <1>a DEF TickRows
  <2>4. tick' = [tick EXCEPT ![s] = r]
    BY <2>2
  <2> HIDE DEF r
  <2> QED
    BY <1>4, <2>1, <2>3, <2>4
<1>9. CASE CountPending(s)
  <2>1. PICK pending : pending = \E k \in Customers : Pending(c, k)
    OBVIOUS
  <2> DEFINE r == [tick[s] EXCEPT !.pc = "sync", !.pending = pending]
  <2>2. /\ tick[s].pc = "account" /\ UNCHANGED <<account, op, today, raced>>
        /\ tick' = [tick EXCEPT ![s] = r]
    BY <1>9, <1>a, <2>1 DEF CountPending, history
  <2>3. /\ r.campaign = c /\ r.day = tick[s].day /\ r.todo = tick[s].todo
        /\ r.rows = tick[s].rows /\ r.pc = "sync"
    BY <1>a DEF TickRows
  <2> HIDE DEF r
  <2> QED
    BY <1>4, <2>2, <2>3
<1>10. ASSUME tick' = [tick EXCEPT ![s] = NoTick], UNCHANGED <<account, op, today, raced>>,
              tick[s].pc # "idle"
       PROVE  QuotaInv'
  BY <1>1, <1>2, <1>10, <1>a, NewTypes
<1>11. CASE Decide(s)
  <2>1. PICK v : tick' = [tick EXCEPT ![s] = IF v = "none" THEN NoTick
                   ELSE [tick[s] EXCEPT !.pc = "finish", !.verdict = v, !.pending = FALSE]]
    BY <1>11, <1>a DEF Decide
  <2>2. tick[s].pc = "sync" /\ UNCHANGED <<account, op, today, raced>>
    BY <1>11 DEF Decide, history
  <2> DEFINE r == [tick[s] EXCEPT !.pc = "finish", !.verdict = v, !.pending = FALSE]
  <2>3. /\ r.campaign = c /\ r.day = tick[s].day /\ r.todo = tick[s].todo
        /\ r.rows = tick[s].rows /\ r.pc = "finish"
    BY <1>a DEF TickRows
  <2>4. tick' = [tick EXCEPT ![s] = NoTick] \/ tick' = [tick EXCEPT ![s] = r]
    BY <2>1
  <2> HIDE DEF r
  <2>5. CASE tick' = [tick EXCEPT ![s] = r]
    BY <1>4, <2>2, <2>3, <2>5
  <2> QED
    BY <1>10, <2>2, <2>4, <2>5
<1>12. CASE Finish(s)
  BY <1>10, <1>12 DEF Finish
<1>13. CASE TickLost(s)
  BY <1>10, <1>13 DEF TickLost, Abort
<1>14. ASSUME NextAccount(s), tick[s].pc # "idle", UNCHANGED <<op, today, raced>>, SameCounts
       PROVE  QuotaInv'
  BY <1>1, <1>14, NextAccountShrinks
<1>15. CASE NothingToClaim(s)
  BY <1>2, <1>14, <1>15 DEF NothingToClaim, history
<1>16. CASE Unrenderable(s)
  <2> DEFINE row == [account[c][a] EXCEPT !.errors = 0, !.due = FALSE]
  <2>1. /\ tick[s].pc = "send" /\ NextAccount(s) /\ UNCHANGED <<op, today, raced>>
        /\ account' = [account EXCEPT ![c] = [account[c] EXCEPT ![a] = row]]
    BY <1>16 DEF Unrenderable, history
  <2>2. c \in Campaigns /\ a \in Accounts /\ account[c][a] \in AccountRows
    BY <1>a, <2>1 DEF TickShape
  <2>3. row.sent = account[c][a].sent /\ row.day = account[c][a].day
    BY <2>2 DEF AccountRows
  <2> HIDE DEF row
  <2>4. SameCounts
    BY <2>1, <2>2, <2>3, RowFrame
  <2> QED
    BY <1>14, <2>1, <2>4
<1>17. CASE RecordError(s)
  <2> DEFINE row == AfterError(account[c][a], Row(s, a).errors)
  <2>1. /\ tick[s].pc = "error" /\ NextAccount(s) /\ UNCHANGED <<op, today, raced>>
        /\ account' = [account EXCEPT ![c] = [account[c] EXCEPT ![a] = row]]
    BY <1>17 DEF RecordError, history
  <2>2. c \in Campaigns /\ a \in Accounts /\ account[c][a] \in AccountRows
        /\ Row(s, a).errors \in 0 .. MaxErrors
    BY <1>a, <2>1 DEF TickShape, Row, TickRows, AccountRows
  <2>3. row.sent = account[c][a].sent /\ row.day = account[c][a].day
    BY <2>2, ErrorFrame
  <2> HIDE DEF row
  <2>4. SameCounts
    BY <2>1, <2>2, <2>3, RowFrame
  <2> QED
    BY <1>14, <2>1, <2>4
<1> QED
  BY <1>3, <1>5, <1>6, <1>7, <1>8, <1>9, <1>11, <1>12, <1>13, <1>15, <1>16, <1>17,
     <1>18 DEF TickStep

(* A campaign the step has nothing to do with.                              *)
LEMMA CountedElsewhere ==
  ASSUME NEW d, Counted(d), account'[d] = account[d], today'[d] = today[d],
         status'[d] = "DRAFT" => status[d] = "DRAFT",
         \A s \in Schedulers : Serves(tick'[s], d) => tick'[s] = tick[s],
         \A o \in Operators : op'[o] = op[o] \/ op'[o].campaign # d \/ op'[o].pc # "write"
  PROVE  Counted(d)'
<1>1. \A a \in Accounts : RowQuota(d, a)'
  BY DEF Counted, RowQuota
<1>2. ASSUME NEW t \in Schedulers, Serves(tick'[t], d) PROVE TickQuota(tick[t], d)'
  BY <1>2 DEF Counted, TickQuota
<1>3. ASSUME NEW o \in Operators PROVE OpQuota(op[o], d)'
  BY DEF Counted, OpQuota
<1>4. Drafted(d)'
  BY DEF Counted, Drafted
<1> QED
  BY <1>1, <1>2, <1>3, <1>4 DEF Counted

LEMMA QuotaWindowStep ==
  ASSUME Typed, QuotaInv, SameLists, NoNewDraft, NEW s \in Schedulers, NEW b \in Accounts, QuotaWindow(s, b)
  PROVE  QuotaInv'
<1>0. PICK c : c = tick[s].campaign
  OBVIOUS
<1> USE <1>0
<1>a. /\ tick[s] \in TickRows /\ TickShape(tick[s]) /\ tick \in [Schedulers -> TickRows]
      /\ account \in [Campaigns -> [Accounts -> AccountRows]]
      /\ today \in [Campaigns -> [Accounts -> Nat]]
  BY DEF Typed, TickTypes, RowTypes, HistoryTypes
<1> DEFINE new == Renewed(account[c][b], Row(s, b))
           row == [new EXCEPT !.day = tick[s].day]
           own == [new EXCEPT !.day = "today"]
           rows == [tick[s].rows EXCEPT ![b] = own]
           r == [tick[s] EXCEPT !.rows = rows]
<1>1. /\ tick[s].pc = "account" /\ b \in tick[s].todo /\ tick[s].rows[b].day # "today"
      /\ UNCHANGED <<op, today, raced>> /\ c \in Campaigns
      /\ tick' = [tick EXCEPT ![s] = r]
      /\ account' = [account EXCEPT ![c] = [account[c] EXCEPT ![b] = row]]
  BY <1>a DEF QuotaWindow, Renewable, Row, history, TickShape
<1>2. new \in AccountRows /\ new.quota = account[c][b].quota
  <2>1. account[c][b] \in AccountRows
    BY <1>a, <1>1
  <2> QED
    BY <2>1, RenewedKeepsQuota
<1> HIDE DEF new
<1>3. /\ own.sent \in Nat /\ own.day = "today" /\ row \in AccountRows
      /\ own.quota = account[c][b].quota
  BY <1>2, <1>a DEF AccountRows, TickRows
<1> HIDE DEF own, row
<1>4. rows[b] = own /\ \A e \in Accounts : e # b => rows[e] = tick[s].rows[e]
  BY <1>a DEF TickRows
<1> HIDE DEF rows
<1>5. /\ r.pc = "account" /\ r.campaign = c /\ r.day = tick[s].day /\ r.todo = tick[s].todo
      /\ r.rows = rows
  BY <1>a, <1>1 DEF TickRows
<1>6. tick'[s] = r /\ \A t \in Schedulers : t # s => tick'[t] = tick[t]
  BY <1>a, <1>1
<1> HIDE DEF r
<1>7. /\ \A e \in Accounts : e # b => account'[c][e] = account[c][e]
      /\ \A d \in Campaigns : d # c => account'[d] = account[d]
  BY <1>a, <1>1
<1> SUFFICES ASSUME NEW d \in Campaigns \ raced PROVE Counted(d)'
  BY <1>1 DEF QuotaInv
<1>8. Counted(d) /\ (status'[d] = "DRAFT" => status[d] = "DRAFT")
  BY <1>1 DEF QuotaInv, NoNewDraft
<1>9. CASE d # c
  <2>1. \A t \in Schedulers : Serves(tick'[t], d) => tick'[t] = tick[t]
    BY <1>5, <1>6, <1>9 DEF Serves
  <2> QED
    BY <1>1, <1>7, <1>8, <1>9, <2>1, CountedElsewhere
<1>10. CASE d = c
  <2>0. Serves(tick[s], c)
    BY <1>1 DEF Serves
  <2>1. TickQuota(tick[s], c)
    BY <1>8, <1>10, <2>0 DEF Counted
  <2>2. today[c][b] = 0
    BY <1>a, <1>1, <2>1 DEF TickQuota, TickRows
  <2>3. \A e \in Accounts : RowQuota(c, e)'
    BY <1>1, <1>7, <1>8, <1>10, <2>2 DEF Counted, RowQuota, SameLists
  <2>4. \A t \in Schedulers : Serves(tick'[t], c) <=> Serves(tick[t], c)
    BY <1>1, <1>5, <1>6 DEF Serves
  <2>5. TickQuota(tick[s], c)'
    <3>1. tick[s].todo \subseteq Accounts
      BY <1>a DEF TickRows
    <3>2. \A e \in tick[s].todo : rows[e].quota = account'[c][e].quota
      BY <1>1, <1>3, <1>4, <2>1, <3>1 DEF TickQuota, SameLists
    <3>3. InHand(r)
      BY <1>5 DEF InHand
    <3>4. /\ r.day = "before" => \A e \in Accounts : today'[c][e] = 0
          /\ r.day = "today" => \A e \in r.todo :
               today'[c][e] <= rows[e].sent /\ (rows[e].day # "today" => today'[c][e] = 0)
      BY <1>1, <1>3, <1>4, <1>5, <2>1, <2>2, <3>1 DEF TickQuota
    <3> QED
      BY <1>5, <1>6, <3>2, <3>3, <3>4 DEF TickQuota
  <2>6. ASSUME NEW t \in Schedulers, Serves(tick'[t], c) PROVE TickQuota(tick[t], c)'
    <3>1. t = s
      BY <1>8, <1>10, <2>0, <2>4, <2>6 DEF Counted
    <3> QED
      BY <2>5, <3>1
  <2>7. \A o \in Operators : OpQuota(op[o], c)'
    BY <1>1, <1>8, <1>10, <2>4 DEF Counted, OpQuota
  <2>8. Drafted(c)'
    BY <1>8, <1>10, <2>0 DEF Counted, Drafted
  <2> QED
    BY <1>8, <1>10, <2>3, <2>4, <2>6, <2>7, <2>8 DEF Counted
<1> QED
  BY <1>9, <1>10

LEMMA RecordStep ==
  ASSUME Typed, QuotaInv, SameLists, NoNewDraft, NEW s \in Schedulers, Record(s)
  PROVE  QuotaInv'
<1>0. PICK c, a, n : c = tick[s].campaign /\ a = tick[s].account /\ n = account[c][a].sent + 1
  OBVIOUS
<1> USE <1>0
<1>a. /\ tick[s] \in TickRows /\ TickShape(tick[s]) /\ tick \in [Schedulers -> TickRows]
      /\ account \in [Campaigns -> [Accounts -> AccountRows]]
      /\ today \in [Campaigns -> [Accounts -> Nat]]
  BY DEF Typed, TickTypes, RowTypes, HistoryTypes
<1> DEFINE row == [account[c][a] EXCEPT !.status = "READY", !.sent = n, !.errors = 0,
                                        !.day = tick[s].day, !.due = FALSE]
<1>1. /\ tick[s].pc = "record" /\ NextAccount(s) /\ UNCHANGED <<op, raced>>
      /\ account' = [account EXCEPT ![c] = [account[c] EXCEPT ![a] = row]]
      /\ today' = IF tick[s].day = "today"
                  THEN [today EXCEPT ![c] = [today[c] EXCEPT ![a] = today[c][a] + 1]] ELSE today
  BY DEF Record
<1>2. c \in Campaigns /\ a \in Accounts /\ account[c][a].sent \in Nat
  BY <1>a, <1>1 DEF TickShape, AccountRows
<1>3. row.sent = n /\ row.day = tick[s].day
  <2>1. account[c][a] \in AccountRows
    BY <1>a, <1>2
  <2> QED
    BY <2>1 DEF AccountRows
<1> HIDE DEF row
<1>4. /\ account'[c][a] = row /\ \A e \in Accounts : e # a => account'[c][e] = account[c][e]
      /\ \A d \in Campaigns : d # c => account'[d] = account[d] /\ today'[d] = today[d]
      /\ \A e \in Accounts : e # a => today'[c][e] = today[c][e]
      /\ today'[c][a] = IF tick[s].day = "today" THEN today[c][a] + 1 ELSE today[c][a]
  BY <1>a, <1>1, <1>2
<1>5. /\ Shrinks(tick'[s], tick[s]) /\ \A t \in Schedulers : t # s => tick'[t] = tick[t]
      /\ tick'[s].pc = "account" /\ tick'[s].todo = tick[s].todo \ {a}
  BY <1>1, NextAccountShrinks
<1>6. tick'[s].campaign = c
  BY <1>5 DEF Shrinks
<1> SUFFICES ASSUME NEW d \in Campaigns \ raced PROVE Counted(d)'
  BY <1>1 DEF QuotaInv
<1>7. Counted(d) /\ (status'[d] = "DRAFT" => status[d] = "DRAFT")
  BY <1>1 DEF QuotaInv, NoNewDraft
<1>8. CASE d # c
  <2>1. \A t \in Schedulers : Serves(tick'[t], d) => tick'[t] = tick[t]
    BY <1>5, <1>6, <1>8 DEF Serves
  <2> QED
    BY <1>1, <1>4, <1>7, <1>8, <2>1, CountedElsewhere
<1>9. CASE d = c
  <2>0. Serves(tick[s], c)
    BY <1>1 DEF Serves
  <2>1. TickQuota(tick[s], c) /\ RowQuota(c, a)
    BY <1>2, <1>7, <1>9, <2>0 DEF Counted
  <2>2. /\ a \in tick[s].todo /\ tick[s].rows[a].sent < account[c][a].quota
        /\ tick[s].rows[a].sent \in Nat /\ account[c][a].quota \in Nat
    <3>1. tick[s].rows[a] \in AccountRows /\ account[c][a] \in AccountRows
      BY <1>a, <1>2 DEF TickRows
    <3> QED
      BY <1>1, <2>1, <3>1 DEF TickQuota, InHand, AccountRows
  <2>3. RowQuota(c, a)'
    <3>1. CASE tick[s].day = "today"
      <4>1. today[c][a] <= tick[s].rows[a].sent /\ today[c][a] \in Nat
        BY <1>a, <1>2, <2>1, <2>2, <3>1 DEF TickQuota
      <4>2. today'[c][a] <= account[c][a].quota
        BY <1>4, <2>2, <3>1, <4>1
      <4>3. today'[c][a] <= n
        BY <1>2, <1>4, <2>1, <3>1, <4>1 DEF RowQuota
      <4> QED
        BY <1>2, <1>3, <1>4, <3>1, <4>2, <4>3 DEF RowQuota, SameLists
    <3>2. CASE tick[s].day = "before"
      BY <1>2, <1>4, <2>1, <3>2 DEF RowQuota, TickQuota, SameLists
    <3> QED
      BY <1>a, <3>1, <3>2 DEF TickRows
  <2>4. \A e \in Accounts : RowQuota(c, e)'
    BY ZenonT(40), <1>4, <1>7, <1>9, <2>3 DEF Counted, RowQuota, SameLists
  <2>5. \A t \in Schedulers : Serves(tick'[t], c) <=> Serves(tick[t], c)
    BY <1>1, <1>5, <1>6 DEF Serves
  <2>6. TickQuota(tick[s], c)'
    <3>1. tick[s].todo \subseteq Accounts /\ tick[s].day \in {"before", "today"}
      BY <1>a DEF TickRows
    <3>4. \A e \in tick'[s].todo : tick'[s].rows[e].quota = account'[c][e].quota
      BY <1>2, <1>5, <2>1, <3>1 DEF TickQuota, Shrinks, SameLists
    <3>2. CASE tick[s].day = "before"
      BY SMTT(30), <1>2, <1>4, <1>5, <2>1, <3>2, <3>4 DEF TickQuota, Shrinks
    <3>3. CASE tick[s].day = "today"
      BY SMTT(30), <1>4, <1>5, <2>1, <3>1, <3>3, <3>4 DEF TickQuota, Shrinks
    <3> QED
      BY <3>1, <3>2, <3>3
  <2>7. ASSUME NEW t \in Schedulers, Serves(tick'[t], c) PROVE TickQuota(tick[t], c)'
    <3>1. t = s
      BY <1>7, <1>9, <2>0, <2>5, <2>7 DEF Counted
    <3> QED
      BY <2>6, <3>1
  <2>8. \A o \in Operators : OpQuota(op[o], c)'
    BY <1>1, <1>7, <1>9, <2>0, <2>5 DEF Counted, OpQuota
  <2>9. Drafted(c)'
    BY <1>7, <1>9, <2>0 DEF Counted, Drafted
  <2> QED
    BY <1>7, <1>9, <2>4, <2>5, <2>7, <2>8, <2>9 DEF Counted
<1> QED
  BY <1>8, <1>9

LEMMA QuotaBegin ==
  ASSUME Typed, QuotaInv, NEW s \in Schedulers, NEW c \in Campaigns, TickBegin(s, c)
  PROVE  QuotaInv'
<1> DEFINE r == [NoTick EXCEPT !.pc = "read", !.campaign = c,
                               !.rows = account[c], !.todo = Members(c)]
<1>1. /\ UNCHANGED <<status, account, op, today>> /\ status[c] = "RUNNING" /\ tick' = [tick EXCEPT ![s] = r]
      /\ tick[s].pc = "idle"
      /\ raced' = IF \/ Sending(c) # {}
                     \/ \E o \in Operators : op[o].kind = "start" /\ op[o].campaign = c
                                            /\ op[o].pc = "write"
                  THEN raced \cup {c} ELSE raced
  BY DEF TickBegin
<1>2. /\ r.pc = "read" /\ r.campaign = c /\ r.rows = account[c] /\ r.todo = Members(c)
      /\ r.day = "today"
  BY DEF NoTick
<1>3. tick'[s] = r /\ \A t \in Schedulers : t # s => tick'[t] = tick[t]
  BY <1>1 DEF Typed, TickTypes
<1> HIDE DEF r
<1> SUFFICES ASSUME NEW d \in Campaigns \ raced' PROVE Counted(d)'
  BY DEF QuotaInv
<1>4. d \notin raced
  BY <1>1
<1>5. Counted(d)
  BY <1>4 DEF QuotaInv
<1>6. CASE d # c
  <2>1. \A t \in Schedulers : Serves(tick'[t], d) => tick'[t] = tick[t]
    BY <1>2, <1>3, <1>6 DEF Serves
  <2> QED
    BY <1>1, <1>5, <2>1, CountedElsewhere
<1>7. CASE d = c
  <2>1. /\ \A t \in Schedulers : ~Serves(tick[t], c)
        /\ \A o \in Operators : ~(op[o].kind = "start" /\ op[o].campaign = c /\ op[o].pc = "write")
    BY <1>1, <1>7 DEF Sending, Serves
  <2>2. \A t \in Schedulers : Serves(tick'[t], c) => t = s
    BY <1>3, <2>1
  <2>3. \A e \in Accounts : RowQuota(c, e) /\ RowQuota(c, e)'
    BY <1>1, <1>5, <1>7 DEF Counted, RowQuota
  <2>4. TickQuota(tick[s], c)'
    <3>1. Members(c) \subseteq Accounts
      BY DEF Members
    <3>2. \A e \in Accounts : account[c][e].sent \in Nat /\ today[c][e] \in Nat
      BY DEF Typed, RowTypes, HistoryTypes, AccountRows
    <3> QED
      BY <1>1, <1>2, <1>3, <2>3, <3>1, <3>2 DEF TickQuota, InHand, RowQuota
  <2>5. \A o \in Operators : OpQuota(op[o], c)'
    BY <1>1, <2>1 DEF OpQuota
  <2>6. Drafted(c)'
    BY <1>1 DEF Drafted
  <2> QED
    BY <1>7, <2>2, <2>3, <2>4, <2>5, <2>6 DEF Counted
<1> QED
  BY <1>6, <1>7

LEMMA QuotaStart ==
  ASSUME Typed, QuotaInv, SameLists, NoNewDraft, NEW o \in Operators,
         StartAccounts(o) \/ StartCommit(o)
  PROVE  QuotaInv'
<1>0. PICK c : c = op[o].campaign
  OBVIOUS
<1> USE <1>0
<1>a. /\ op[o] \in OpRows /\ op \in [Operators -> OpRows] /\ c \in Campaigns
      /\ account \in [Campaigns -> [Accounts -> AccountRows]]
  BY DEF Typed, OpTypes, RowTypes, OpShape, StartAccounts, StartCommit
<1>b. UNCHANGED <<today, tick>>
  BY DEF StartAccounts, StartCommit
<1>1. CASE StartAccounts(o)
  <2> DEFINE sent == [a \in Accounts |-> account[c][a].sent]
             day == [a \in Accounts |-> IF account[c][a].day = "never" THEN "today"
                                        ELSE account[c][a].day]
             r == [op[o] EXCEPT !.pc = "write", !.sent = sent, !.day = day]
  <2>1. /\ op' = [op EXCEPT ![o] = r] /\ UNCHANGED account
        /\ raced' = IF Sending(c) = {} THEN raced ELSE raced \cup {c}
    BY <1>1, <1>a DEF StartAccounts, OpRows
  <2>2. r.campaign = c /\ r.sent = sent /\ r.day = day
    BY <1>a DEF OpRows
  <2>3. op'[o] = r /\ \A p \in Operators : p # o => op'[p] = op[p]
    BY <1>a, <2>1
  <2> HIDE DEF r
  <2> SUFFICES ASSUME NEW d \in Campaigns \ raced' PROVE Counted(d)'
    BY DEF QuotaInv
  <2>4. Counted(d) /\ (status'[d] = "DRAFT" => status[d] = "DRAFT")
    BY <2>1 DEF QuotaInv, NoNewDraft
  <2>5. CASE d # c
    BY <1>b, <2>1, <2>2, <2>3, <2>4, <2>5, CountedElsewhere
  <2>6. CASE d = c
    <3>1. \A s \in Schedulers : ~Serves(tick[s], c)
      BY <2>1, <2>6 DEF Sending, Serves
    <3>2. \A a \in Accounts : RowQuota(c, a)
      BY <2>4, <2>6 DEF Counted
    <3>3. \A a \in Accounts : today[c][a] # 0 => day[a] = "today" /\ today[c][a] <= sent[a]
      BY <3>2 DEF RowQuota
    <3> HIDE DEF sent, day
    <3>4. OpQuota(op[o], c)'
      <4>1. OpQuota(r, c)
        BY <2>2, <3>1, <3>3 DEF OpQuota
      <4> QED
        BY <1>b, <2>3, <4>1 DEF OpQuota
    <3>5. ASSUME NEW p \in Operators, p # o PROVE OpQuota(op[p], c)'
      BY <1>b, <2>3, <2>4, <2>6, <3>5 DEF Counted, OpQuota
    <3>6. \A a \in Accounts : RowQuota(c, a)'
      BY <1>b, <2>1, <3>2 DEF RowQuota
    <3>7. \A s \in Schedulers : ~Serves(tick'[s], c)
      BY <1>b, <3>1
    <3>8. Drafted(c)'
      BY <1>b, <2>4, <2>6 DEF Counted, Drafted
    <3> QED
      BY <2>6, <3>4, <3>5, <3>6, <3>7, <3>8 DEF Counted
  <2> QED
    BY <2>5, <2>6
<1>2. CASE StartCommit(o)
  <2> DEFINE rows == [a \in Accounts |->
               IF a \in Members(c)
               THEN [account[c][a] EXCEPT !.status = "READY", !.due = TRUE,
                        !.sent = op[o].sent[a], !.day = op[o].day[a]]
               ELSE account[c][a]]
  <2>1. /\ op[o].pc = "write" /\ op[o].kind = "start" /\ Return(o) /\ UNCHANGED raced
        /\ account' = [account EXCEPT ![c] = rows]
    BY <1>2 DEF StartCommit
  <2>2. ASSUME NEW a \in Accounts
        PROVE  \/ rows[a].sent = account[c][a].sent /\ rows[a].day = account[c][a].day
               \/ rows[a].sent = op[o].sent[a] /\ rows[a].day = op[o].day[a]
    <3>1. account[c][a] \in AccountRows
      BY <1>a
    <3> QED
      BY <3>1 DEF AccountRows
  <2> HIDE DEF rows
  <2>3. account'[c] = rows /\ \A d \in Campaigns : d # c => account'[d] = account[d]
    BY <1>a, <2>1
  <2>4. op'[o] = NoOp /\ \A p \in Operators : p # o => op'[p] = op[p]
    BY <1>a, <2>1 DEF Return
  <2> SUFFICES ASSUME NEW d \in Campaigns \ raced PROVE Counted(d)'
    BY <2>1 DEF QuotaInv
  <2>5. Counted(d) /\ (status'[d] = "DRAFT" => status[d] = "DRAFT")
    BY <2>1 DEF QuotaInv, NoNewDraft
  <2>6. CASE d # c
    BY <1>b, <2>3, <2>4, <2>5, <2>6, NewTypes, CountedElsewhere
  <2>7. CASE d = c
    <3>1. OpQuota(op[o], c)
      BY <2>5, <2>7 DEF Counted
    <3>2. /\ \A s \in Schedulers : ~Serves(tick'[s], c)
          /\ \A a \in Accounts :
               today[c][a] # 0 => op[o].day[a] = "today" /\ today[c][a] <= op[o].sent[a]
      BY <1>b, <2>1, <3>1 DEF OpQuota
    <3>3. \A a \in Accounts : RowQuota(c, a)'
      BY <1>b, <2>2, <2>3, <2>5, <2>7, <3>2 DEF Counted, RowQuota, SameLists
    <3>4. ASSUME NEW p \in Operators PROVE OpQuota(op[p], c)'
      BY <1>b, <2>4, <2>5, <2>7, NewTypes DEF Counted, OpQuota
    <3>5. Drafted(c)'
      BY <1>b, <2>5, <2>7 DEF Counted, Drafted
    <3> QED
      BY <2>7, <3>2, <3>3, <3>4, <3>5 DEF Counted
  <2> QED
    BY <2>6, <2>7
<1> QED
  BY <1>1, <1>2

LEMMA QuotaNewDay ==
  ASSUME Typed, QuotaInv, SameLists, NewDay
  PROVE  QuotaInv'
<1> SUFFICES ASSUME NEW c \in Campaigns \ raced PROVE Counted(c)'
  BY DEF QuotaInv, NewDay
<1>1. Counted(c)
  BY DEF QuotaInv
<1>2. \A a \in Accounts : today'[c][a] = 0
  BY DEF NewDay
<1>3. ASSUME NEW a \in Accounts PROVE RowQuota(c, a)'
  <2>1. account[c][a].quota \in Nat /\ account'[c][a].quota = account[c][a].quota
    BY DEF Typed, RowTypes, AccountRows, SameLists
  <2> QED
    BY <1>2, <2>1 DEF RowQuota
<1>4. ASSUME NEW s \in Schedulers
      PROVE  /\ tick'[s].pc = tick[s].pc /\ tick'[s].campaign = tick[s].campaign
             /\ tick'[s].todo = tick[s].todo /\ tick'[s].account = tick[s].account
             /\ \A a \in tick[s].todo : tick'[s].rows[a].quota = tick[s].rows[a].quota
             /\ \A a \in tick[s].todo : tick'[s].rows[a].sent = tick[s].rows[a].sent
             /\ tick[s].todo \subseteq Accounts
             /\ \A a \in tick[s].todo : tick'[s].rows[a].sent \in Nat
  <2>1. /\ tick[s] \in TickRows /\ tick[s].todo \subseteq Accounts
        /\ \A a \in Accounts : tick[s].rows[a].sent \in Nat
    BY DEF Typed, TickTypes, TickRows, AccountRows
  <2>2. PICK rows \in [Accounts -> AccountRows] : rows = tick[s].rows
    BY <2>1 DEF TickRows
  <2>3. CASE tick'[s] = [tick[s] EXCEPT !.rows = Yesterday(tick[s].rows)]
    <3>1. /\ tick'[s].pc = tick[s].pc /\ tick'[s].campaign = tick[s].campaign
          /\ tick'[s].todo = tick[s].todo /\ tick'[s].account = tick[s].account
          /\ tick'[s].rows = Yesterday(rows)
      BY <2>1, <2>2, <2>3 DEF TickRows
    <3> QED
      BY <2>1, <2>2, <3>1, YesterdayType
  <2>4. CASE tick'[s] = tick[s] \/ tick'[s] = [tick[s] EXCEPT !.day = "before"]
    BY <2>1, <2>4 DEF TickRows
  <2> QED
    BY <2>3, <2>4, NewDayTick
<1>5. ASSUME NEW s \in Schedulers, Serves(tick'[s], c) PROVE TickQuota(tick[s], c)'
  <2>1. Serves(tick[s], c)
    BY <1>4, <1>5 DEF Serves
  <2>2. TickQuota(tick[s], c)
    BY <1>1, <2>1 DEF Counted
  <2>3. InHand(tick'[s])
    BY <1>4, <2>1, <2>2 DEF TickQuota, InHand, Serves
  <2>4. \A a \in tick'[s].todo : tick'[s].rows[a].quota = account'[c][a].quota
    BY <1>4, <2>2 DEF TickQuota, SameLists
  <2>5. \A a \in tick'[s].todo : 0 <= tick'[s].rows[a].sent /\ a \in Accounts
    BY <1>4
  <2> QED
    BY <1>2, <2>3, <2>4, <2>5 DEF TickQuota
<1>6. ASSUME NEW o \in Operators PROVE OpQuota(op[o], c)'
  <2>1. op'[o].pc = op[o].pc /\ op'[o].kind = op[o].kind /\ op'[o].campaign = op[o].campaign
    <3>1. op[o] \in OpRows
      BY DEF Typed, OpTypes
    <3> QED
      BY <3>1 DEF NewDay, OpRows
  <2>2. OpQuota(op[o], c)
    BY <1>1 DEF Counted
  <2> QED
    BY <1>2, <1>4, <2>1, <2>2 DEF OpQuota, Serves
<1>7. \A s, t \in Schedulers : Serves(tick'[s], c) /\ Serves(tick'[t], c) => s = t
  BY <1>1, <1>4 DEF Counted, Serves
<1>8. Drafted(c)'
  BY <1>1, <1>2, <1>4 DEF Counted, Drafted, Serves, NewDay
<1> QED
  BY <1>3, <1>5, <1>6, <1>7, <1>8 DEF Counted

(* A draft gets other accounts: nothing was sent from the old ones.         *)
LEMMA QuotaReplace ==
  ASSUME Typed, QuotaInv, NoNewDraft, NEW o \in Operators, Replaces(o)
  PROVE  QuotaInv'
<1>1. PICK c \in Campaigns : c = op[o].campaign
  BY DEF Replaces, UpdateCommit, Typed, OpTypes, OpShape
<1>2. PICK list \in Lists[c] : account' = [account EXCEPT ![c] = Fresh(list)]
  BY <1>1 DEF Replaces, UpdateCommit
<1>3. /\ op[o].status = "DRAFT" /\ Return(o) /\ UNCHANGED today /\ Unlocked(c)
      /\ raced' = IF status[c] # "DRAFT" THEN raced \cup {c} ELSE raced
  BY <1>1 DEF Replaces, UpdateCommit, Typed, OpTypes, OpShape
<1>4. op'[o] = NoOp /\ \A p \in Operators : p # o => op'[p] = op[p]
  BY <1>3 DEF Return, Typed, OpTypes
<1>5. ASSUME NEW s \in Schedulers
      PROVE  /\ tick'[s].pc = tick[s].pc /\ tick'[s].campaign = tick[s].campaign
             /\ tick[s].campaign # c => tick'[s] = tick[s]
  <2>1. OpStep(o)
    BY DEF Replaces, OpStep
  <2> QED
    BY <1>1, <2>1, OpTicks, OpKeepsTicks
<1>6. account'[c] = Fresh(list) /\ \A d \in Campaigns : d # c => account'[d] = account[d]
  BY <1>2 DEF Typed, RowTypes
<1> SUFFICES ASSUME NEW d \in Campaigns \ raced' PROVE Counted(d)'
  BY DEF QuotaInv
<1>7. Counted(d) /\ (status'[d] = "DRAFT" => status[d] = "DRAFT")
  BY <1>3 DEF QuotaInv, NoNewDraft
<1>8. CASE d # c
  <2>1. \A s \in Schedulers : Serves(tick'[s], d) => tick'[s] = tick[s]
    BY <1>5, <1>8 DEF Serves
  <2>2. \A p \in Operators : op'[p] = op[p] \/ op'[p].pc # "write"
    BY <1>4, NewTypes
  <2> QED
    BY <1>3, <1>6, <1>7, <1>8, <2>1, <2>2, CountedElsewhere
<1>9. CASE d = c
  <2>1. status[c] = "DRAFT"
    BY <1>3, <1>9
  <2>2. /\ \A a \in Accounts : today'[c][a] = 0
        /\ \A s \in Schedulers : ~Serves(tick'[s], c)
    BY <1>3, <1>5, <1>7, <1>9, <2>1 DEF Counted, Drafted, Serves
  <2>3. ASSUME NEW a \in Accounts PROVE RowQuota(c, a)'
    <3>1. account'[c][a].quota \in Nat
      BY <1>6, FreshRows DEF AccountRows
    <3> QED
      BY <2>2, <3>1 DEF RowQuota
  <2>4. ASSUME NEW p \in Operators PROVE OpQuota(op[p], c)'
    BY <1>3, <1>4, NewTypes DEF OpQuota, Unlocked
  <2>5. Drafted(c)'
    BY <2>2 DEF Drafted
  <2> QED
    BY <1>9, <2>2, <2>3, <2>4, <2>5 DEF Counted
<1> QED
  BY <1>8, <1>9

LEMMA QuotaOther ==
  ASSUME Typed, QuotaInv, [Next]_vars, SameLists, NoNewDraft, \A o \in Operators : ~Replaces(o)
  PROVE  QuotaInv'
<1>1. ASSUME UNCHANGED <<account, today, raced>>,
             \A s \in Schedulers : tick'[s] = tick[s] \/ tick'[s].pc = "idle",
             \A o \in Operators : op'[o] = op[o] \/ op'[o].pc # "write" \/ op'[o].kind # "start"
      PROVE  QuotaInv'
  BY <1>1, QuotaFrame DEF SameCounts
<1>2. CASE UNCHANGED vars
  BY <1>1, <1>2 DEF vars, history
<1>3. ASSUME NEW o \in Operators, OpStep(o) PROVE QuotaInv'
  <2>a. op[o] \in OpRows /\ OpShape(op[o]) /\ op \in [Operators -> OpRows]
    BY DEF Typed, OpTypes
  <2>1. CASE OpCheck(o)
    <3> DEFINE r == [op[o] EXCEPT !.pc = IF op[o].kind = "start" THEN "accounts" ELSE "write"]
    <3>1. Return(o) \/ op' = [op EXCEPT ![o] = r]
      BY <2>1 DEF OpCheck, Return
    <3>2. r.pc # "write" \/ r.kind # "start"
      BY <2>a DEF OpRows
    <3> HIDE DEF r
    <3>3. \A p \in Operators : op'[p] = op[p] \/ op'[p].pc # "write" \/ op'[p].kind # "start"
      BY <2>a, <3>1, <3>2, NewTypes DEF Return
    <3> QED
      BY <1>1, <2>1, <3>3 DEF OpCheck, history
  <2>2. ASSUME Return(o)
        PROVE  \A p \in Operators : op'[p] = op[p] \/ op'[p].pc # "write"
    BY <2>a, <2>2, NewTypes DEF Return
  <2>3. CASE UpdateCommit(o) \/ DeleteCommit(o) \/ OpFails(o)
    <3>1. UNCHANGED <<account, today, tick>> /\ raced \subseteq raced' /\ Return(o)
      BY <2>3 DEF UpdateCommit, DeleteCommit, OpFails, history, Replaces
    <3> QED
      BY <2>2, <3>1, QuotaFrame DEF SameCounts
  <2>4. CASE ResumeCommit(o)
    <3> DEFINE c == op[o].campaign
               rows == [a \in Accounts |->
                 IF account[c][a].status = "PAUSED_ERROR"
                 THEN [account[c][a] EXCEPT !.status = "READY", !.due = TRUE, !.errors = 0]
                 ELSE account[c][a]]
    <3>1. /\ c \in Campaigns /\ Return(o) /\ UNCHANGED <<tick, today, raced>>
          /\ account' = [account EXCEPT ![c] = rows]
      BY <2>4, <2>a DEF ResumeCommit, OpShape
    <3>2. ASSUME NEW a \in Accounts
          PROVE  rows[a].sent = account[c][a].sent /\ rows[a].day = account[c][a].day
      <4>1. account[c][a] \in AccountRows
        BY <3>1 DEF Typed, RowTypes
      <4> QED
        BY <4>1 DEF AccountRows
    <3> HIDE DEF rows
    <3>3. SameCounts
      BY <3>1, <3>2 DEF SameCounts, Typed, RowTypes
    <3> QED
      BY <2>2, <3>1, <3>3, QuotaFrame
  <2> QED
    BY <1>3, <2>1, <2>3, <2>4, QuotaStart DEF OpStep
<1>4. ASSUME NEW o \in Operators, NEW c \in Campaigns, NEW kind \in OpKinds[o],
             OpRead(o, kind, c)
      PROVE  QuotaInv'
  <2> DEFINE r == [NoOp EXCEPT !.kind = kind, !.campaign = c, !.status = status[c],
                     !.accounts = Members(c),
                     !.pc = IF kind \in {"start", "resume"} THEN "conflict" ELSE "write"]
  <2>1. op' = [op EXCEPT ![o] = r] /\ UNCHANGED <<account, tick, today, raced>>
    BY <1>4 DEF OpRead, history
  <2>2. r.pc # "write" \/ r.kind # "start"
    BY DEF NoOp
  <2> HIDE DEF r
  <2>3. \A p \in Operators : op'[p] = op[p] \/ op'[p].pc # "write" \/ op'[p].kind # "start"
    BY <2>1, <2>2 DEF Typed, OpTypes
  <2> QED
    BY <1>1, <2>1, <2>3
<1>5. ASSUME NEW c \in Campaigns, Pause(c) \/ Cancel(c) PROVE QuotaInv'
  BY <1>1, <1>5 DEF Pause, Cancel, Stop
<1>6. ASSUME NEW s \in Schedulers, TickStep(s) PROVE QuotaInv'
  BY <1>6, QuotaTickStep, QuotaWindowStep, RecordStep
<1>7. ASSUME NEW s \in Schedulers, TickCrashes(s) \/ LeaveOut(s) PROVE QuotaInv'
  <2>1. \A t \in Schedulers : tick'[t] = tick[t] \/ tick'[t].pc = "idle"
    BY <1>7, AbortType, NewTypes DEF TickCrashes, LeaveOut, Abort, Typed
  <2> QED
    BY <1>1, <1>7, <2>1 DEF TickCrashes, LeaveOut, history
<1>8. ASSUME NEW c \in Campaigns, NEW a \in Accounts, CooldownEnds(c, a) PROVE QuotaInv'
  <2> DEFINE row == [account[c][a] EXCEPT !.due = TRUE]
  <2>1. /\ account' = [account EXCEPT ![c] = [account[c] EXCEPT ![a] = row]]
        /\ UNCHANGED <<tick, op, today, raced>>
    BY <1>8 DEF CooldownEnds, history
  <2>2. account[c][a] \in AccountRows
    BY DEF Typed, RowTypes
  <2>3. row.sent = account[c][a].sent /\ row.day = account[c][a].day
    BY <2>2 DEF AccountRows
  <2> HIDE DEF row
  <2>4. SameCounts
    BY <2>1, <2>3, RowFrame
  <2> QED
    BY <2>1, <2>4, QuotaFrame
<1> QED
  BY <1>2, <1>3, <1>4, <1>5, <1>6, <1>7, <1>8, QuotaBegin, QuotaNewDay DEF Next

LEMMA QuotaStep == Typed /\ QuotaInv /\ [Next]_vars => QuotaInv'
<1> SUFFICES ASSUME Typed, QuotaInv, [Next]_vars PROVE QuotaInv'
  OBVIOUS
<1>1. CASE \E o \in Operators : Replaces(o)
  BY <1>1, DraftsKept, QuotaReplace
<1>2. CASE \A o \in Operators : ~Replaces(o)
  BY <1>2, DraftsKept, ListsKept, QuotaOther
<1> QED
  BY <1>1, <1>2

(* An account keeps its daily quota in every campaign without races, for    *)
(* any quotas, also when an update gives a draft other accounts or quotas,  *)
(* and any number of campaigns, accounts, processes, requests and days.     *)
THEOREM QuotaIsKept == Spec => []QuotaKept
<1>1. Init => QuotaInv
  <2> SUFFICES ASSUME Init, NEW c \in Campaigns PROVE Counted(c)
    BY DEF QuotaInv
  <2>1. \A a \in Accounts : today[c][a] = 0
    BY DEF Init
  <2>2. ASSUME NEW a \in Accounts PROVE RowQuota(c, a)
    <3>1. account[c][a].quota \in Nat
      BY TypedInit DEF Typed, RowTypes, AccountRows
    <3> QED
      BY <2>1, <3>1 DEF RowQuota
  <2>3. (\A s \in Schedulers : ~Serves(tick[s], c)) /\ \A o \in Operators : op[o] = NoOp
    BY NewTypes DEF Init, Serves
  <2> QED
    BY <2>1, <2>2, <2>3, NewTypes DEF Counted, OpQuota, Drafted
<1>2. TypedInv /\ QuotaInv /\ [Next]_vars => QuotaInv'
  BY QuotaStep DEF TypedInv
<1>3. QuotaInv => QuotaKept
  BY DEF QuotaInv, Counted, RowQuota, QuotaKept
<1> QED
  BY <1>1, <1>2, <1>3, SafetyInvariant, PTL DEF Spec

=============================================================================
