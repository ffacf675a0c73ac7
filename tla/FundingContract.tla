--------------------------- MODULE FundingContract ---------------------------
(***************************************************************************)
(* What a customer and his referrer may rely on, without webhooks, wallets,*)
(* transactions or handlers: a funding is asked for under a key of its own;*)
(* a credit of it is a receipt over what was asked, and the first one to   *)
(* qualify the customer's referral does so at once; a payout is one receipt*)
(* over a reward for each of the referrals it settles.                     *)
(*                                                                         *)
(* Spec allows a funding to be credited, and a referral to be paid out,    *)
(* more than once.  OnceSpec does not.                                     *)
(***************************************************************************)
EXTENDS Integers, FiniteSets

CONSTANTS Fundings, Orders, Users, Referrer, Nobody, Threshold, RewardKobo

VARIABLES
    status,     \* of each funding
    asked,      \* the order of each funding, from the moment it is asked for
    credited,   \* the receipts of each funding's credits
    referral,   \* the status of the referral of each user
    payouts     \* the receipts of the rewards paid to each user

contractVars == <<status, asked, credited, referral, payouts>>

Init ==
    /\ status = [f \in Fundings |-> "absent"]
    /\ asked = [f \in Fundings |-> Nobody]
    /\ credited = [f \in Fundings |-> {}]
    /\ referral = [u \in Users |-> "PENDING_QUALIFICATION"]
    /\ payouts = [u \in Users |-> {}]

Ask(f) ==
    /\ status[f] = "absent"
    /\ status' = [status EXCEPT ![f] = "PENDING"]
    /\ \E order \in Orders :
         /\ \A g \in Fundings : status[g] # "absent" => asked[g].key # order.key
         /\ asked' = [asked EXCEPT ![f] = order]
    /\ UNCHANGED <<credited, referral, payouts>>

\* Whether a credit of this funding qualifies its user's referral.
Qualifies(f) ==
    /\ asked[f].amount >= Threshold
    /\ Referrer[asked[f].user] # Nobody
    /\ referral[asked[f].user] = "PENDING_QUALIFICATION"

Credit(f) ==
    /\ status[f] # "absent"
    /\ status' = [status EXCEPT ![f] = "SUCCESS"]
    /\ \E receipt \in credited'[f] \ credited[f] :
         /\ receipt.kobo = asked[f].amount
         /\ credited' = [credited EXCEPT ![f] = @ \cup {receipt}]
    /\ referral' = IF Qualifies(f) THEN [referral EXCEPT ![asked[f].user] = "QUALIFIED"]
                                   ELSE referral
    /\ UNCHANGED <<asked, payouts>>

\* A reward for each referral in settled, none of which has yet to qualify.
PayOut(u, settled) ==
    /\ settled # {}
    /\ \A v \in settled : Referrer[v] = u /\ referral[v] # "PENDING_QUALIFICATION"
    /\ referral' = [v \in Users |-> IF v \in settled THEN "REWARDED" ELSE referral[v]]
    /\ \E receipt \in payouts'[u] \ payouts[u] :
         /\ receipt.kobo = RewardKobo * Cardinality(settled)
         /\ payouts' = [payouts EXCEPT ![u] = @ \cup {receipt}]
    /\ UNCHANGED <<status, asked, credited>>

Next ==
    \/ \E f \in Fundings : Ask(f) \/ Credit(f)
    \/ \E u \in Users, settled \in SUBSET Users : PayOut(u, settled)

\* The same, where nothing is credited or paid out that has been before.
CreditOnce(f) == status[f] = "PENDING" /\ Credit(f)

PayOutOnce(u, settled) ==
    (\A v \in settled : referral[v] = "QUALIFIED") /\ PayOut(u, settled)

OnceNext ==
    \/ \E f \in Fundings : Ask(f) \/ CreditOnce(f)
    \/ \E u \in Users, settled \in SUBSET Users : PayOutOnce(u, settled)

Spec == Init /\ [][Next]_contractVars

OnceSpec == Init /\ [][OnceNext]_contractVars
===============================================================================
