------------------------------ MODULE MCCampaign ------------------------------
(* Small instances of Campaign for TLC.                                    *)
EXTENDS Campaign, TLC

CONSTANTS p1, p2, z1, z2, k1, k2, s1, s2, o1, o2, none

(* The first customer can be reached, the second has no thread and no      *)
(* phone number.                                                           *)
FirstOnly == [k \in Customers |-> IF k = k1 THEN Accounts ELSE {}]
ForAll == [c \in Campaigns |-> Customers]
(* The filter of one campaign selects a customer, that of the other nobody.*)
FirstForOne == [c \in Campaigns |-> IF c = p1 THEN {k1} ELSE {}]
Everybody == [k \in Customers |-> Accounts]
(* One account list, of all accounts; or lists of one account each. Every  *)
(* quota is 1.                                                             *)
OneList == [c \in Campaigns |-> {[a \in Accounts |-> 1]}]
OneAccountLists ==
  [c \in Campaigns |-> {[a \in Accounts |-> IF a = b THEN 1 ELSE 0] : b \in Accounts}]
(* What operators ask for: everything; one starts, another deletes or      *)
(* gives a draft new accounts; all only start.                             *)
Everything == [o \in Operators |-> Kinds]
DraftsApart == [o \in Operators |-> IF o = o1 THEN {"start"} ELSE {"delete", "replace"}]
StartOnly == [o \in Operators |-> {"start"}]
(* Accounts are alike, and so are processes.                               *)
AccountsAlike == Permutations({z1, z2})
ProcessesAlike == Permutations({s1, s2})
===============================================================================
