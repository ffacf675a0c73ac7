---------------------------- MODULE OrderContract ----------------------------
(***************************************************************************)
(* What a customer, a provider and an administrator may rely on about an   *)
(* order, without prices, transactions, locks or handlers: it is placed and*)
(* paid at once, under a key of its own; it is delivered after that; its   *)
(* service then either confirms it or gives the same money back, never     *)
(* both; an administrator gives the money back at most once.  Money that   *)
(* moved is on a receipt: the row it is in, and its kobo.                  *)
(***************************************************************************)

CONSTANTS Orders, Keys

VARIABLES
    status,     \* of each order
    used,       \* the keys of the orders there are
    paid,       \* the receipts of what was taken for each order
    delivered,  \* the orders that were delivered
    confirmed,  \* the orders whose service has confirmed them
    returned,   \* the receipts of what each order's service gave back
    reimbursed  \* the receipts of what administrators gave back for each order

contractVars == <<status, used, paid, delivered, confirmed, returned, reimbursed>>

Init ==
    /\ status = [o \in Orders |-> "absent"]
    /\ used = {}
    /\ paid = [o \in Orders |-> {}]
    /\ delivered = {}
    /\ confirmed = {}
    /\ returned = [o \in Orders |-> {}]
    /\ reimbursed = [o \in Orders |-> {}]

Place(o) ==
    /\ status[o] = "absent"
    /\ status' = [status EXCEPT ![o] = "PROCESSING"]
    /\ \E k \in Keys \ used : used' = used \cup {k}
    /\ \E receipt \in paid'[o] : paid' = [paid EXCEPT ![o] = {receipt}]
    /\ UNCHANGED <<delivered, confirmed, returned, reimbursed>>

\* Whether the service goes on with it.
Undecided(o) == paid[o] # {} /\ o \notin confirmed /\ returned[o] = {}

Kobo(receipts) == {receipt.kobo : receipt \in receipts}

Deliver(o) ==
    /\ Undecided(o)
    /\ o \notin delivered
    /\ delivered' = delivered \cup {o}
    /\ UNCHANGED <<status, used, paid, confirmed, returned, reimbursed>>

Confirm(o) ==
    /\ Undecided(o)
    /\ o \in delivered
    /\ status' = [status EXCEPT ![o] = "SUCCESS"]
    /\ confirmed' = confirmed \cup {o}
    /\ UNCHANGED <<used, paid, delivered, returned, reimbursed>>

Return(o) ==
    /\ Undecided(o)
    /\ status' = [status EXCEPT ![o] = "REFUNDED"]
    /\ \E receipt \in returned'[o] :
         /\ receipt.kobo \in Kobo(paid[o])
         /\ returned' = [returned EXCEPT ![o] = {receipt}]
    /\ UNCHANGED <<used, paid, delivered, confirmed, reimbursed>>

Reimburse(o) ==
    /\ paid[o] # {}
    /\ reimbursed[o] = {}
    /\ status' = [status EXCEPT ![o] = "REFUNDED"]
    /\ \E receipt \in reimbursed'[o] :
         /\ receipt.kobo \in Kobo(paid[o])
         /\ reimbursed' = [reimbursed EXCEPT ![o] = {receipt}]
    /\ UNCHANGED <<used, paid, delivered, confirmed, returned>>

Next ==
    \E o \in Orders : Place(o) \/ Deliver(o) \/ Confirm(o) \/ Return(o) \/ Reimburse(o)

Spec == Init /\ [][Next]_contractVars
===============================================================================
