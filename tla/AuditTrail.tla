------------------------------ MODULE AuditTrail ------------------------------
(* What the audit log promises, without its requests, connections, locks,  *)
(* runs, manifests and tiers: entries are recorded one after the other,    *)
(* each linked to the one before it, and what was recorded can be found    *)
(* until it is past the retention. Days that two archive runs had on their *)
(* lists at once are excepted.                                             *)
EXTENDS Naturals, Sequences

CONSTANTS LastDay, RetentionDays

VARIABLES today,
          entries,   \* all that was ever recorded
          found,     \* the entries that can be found
          contended  \* days that two runs worked on

trailVars == <<today, entries, found, contended>>

Days == 0 .. LastDay
Past(i) == entries[i].day + RetentionDays < today

TrailInit == today = 0 /\ entries = <<>> /\ found = {} /\ contended = {}

(* An entry is dated when its append begins, at most a day before it is    *)
(* there.                                                                  *)
Record ==
  /\ \E day \in Days :
       /\ day <= today /\ today <= day + 1
       /\ entries' = Append(entries, [prev |-> Len(entries), day |-> day])
  /\ found' = found \cup {Len(entries')}
  /\ UNCHANGED <<today, contended>>

(* What is past the retention goes (a file that is written late may bring  *)
(* it back for a while); the rest stays.                                   *)
Forget ==
  /\ found' \in SUBSET DOMAIN entries
  /\ \A i \in DOMAIN entries :
       Past(i) \/ entries[i].day \in contended \/ (i \in found' <=> i \in found)
  /\ UNCHANGED <<today, entries, contended>>

Contend ==
  /\ \E days \in SUBSET Days : contended' = contended \cup days
  /\ UNCHANGED <<today, entries, found>>

NewDay ==
  /\ today < LastDay /\ today' = today + 1
  /\ UNCHANGED <<entries, found, contended>>

TrailNext == Record \/ Forget \/ Contend \/ NewDay
TrailSpec == TrailInit /\ [][TrailNext]_trailVars
===============================================================================
