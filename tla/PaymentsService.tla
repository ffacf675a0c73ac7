--------------------------- MODULE PaymentsService ---------------------------
(***************************************************************************)
(* Wallet funding and the referral rewards that hang on it:                *)
(* WalletService.initializeFunding, the three webhook handlers and         *)
(* verifyPayment of PaymentsService, their common _fulfillPayment, and     *)
(* ReferralsService.claimRewards.                                          *)
(*                                                                         *)
(* A gateway tells of one payment as often as it likes, and the app may ask*)
(* for verification at the same time: each is a handler.  The status that  *)
(* makes a repetition harmless is read before the transaction opens.       *)
(*                                                                         *)
(* Fundings are named after the handlers of initializeFunding that insert  *)
(* them, rewards after the fulfilment that inserts them, claims after the  *)
(* handler of claimRewards.  A row that is fulfilled is looked up by its   *)
(* reference alone and compared with SUCCESS alone, so the rows of         *)
(* purchases that were refunded are among the fundings; PENDING stands for *)
(* every status that is not SUCCESS.                                       *)
(***************************************************************************)
EXTENDS WalletLedger, PaymentGateways, FiniteSets

CONSTANTS
    Fundings,      \* handlers of initializeFunding and the rows they insert
    Purchases,     \* those of them that are purchases, and no payment is due for
    Deliveries,    \* handlers of a webhook or of verifyPayment
    Claims,        \* handlers of claimRewards
    Keys,          \* idempotency keys
    Amounts,       \* amounts customers fund, in kobo
    Threshold,     \* QUALIFYING amount (100000 kobo)
    RewardKobo,    \* the reward of a qualified referral (20000 kobo)
    Referrer,      \* [Users -> Users \cup {Nobody}]: who referred each user
    Nobody,        \* not a handler, not a user
    Faults,        \* whether the database fails and the server dies
    GatewayErrors, \* whether the gateway's API may fail to answer
    GatewayOf,     \* the gateway each funding is asked for
    SecretKey,     \* the gateways' key the deployment has
    Production     \* NODE_ENV = 'production'

Funding == [user: Users, amount: Amounts, key: Keys]

ReferralStatuses == {"PENDING_QUALIFICATION", "QUALIFIED", "REWARDED"}

ASSUME PaymentsAssumption ==
    /\ Procs = Fundings \cup Deliveries \cup Claims
    /\ Refs = Fundings \cup Claims
    /\ Purchases \subseteq Fundings
    /\ Fundings \cap (Deliveries \cup Claims) = {}
    /\ Deliveries \cap Claims = {}
    /\ IsFiniteSet(Deliveries)
    /\ Amounts \subseteq Nat \ {0}
    /\ Threshold \in Nat
    /\ RewardKobo \in Nat
    /\ Referrer \in [Users -> Users \cup {Nobody}]
    /\ \A u \in Users : Referrer[u] # u
    /\ Nobody \notin Procs \cup Users \cup Funding
    /\ Faults \in BOOLEAN
    /\ GatewayErrors \in BOOLEAN
    /\ GatewayOf \in [Fundings -> Gateways]
    /\ \A f \in Purchases : GatewayOf[f] = "MOCK"
    /\ SecretKey \in SecretKeys
    /\ Production \in BOOLEAN
    /\ Missing \notin Fundings

VARIABLES
    pc,            \* where each handler is
    funding,       \* what each funding handler was asked for
    status,        \* transactions.status of each funding, committed
    statusDraft,   \* the handler with an uncommitted SUCCESS on it, or Nobody
    keyRow,        \* committed transactions row of each key
    paid,          \* fundings the customer has paid at the gateway
    about,         \* the funding each delivery is about
    unproven,      \* deliveries that go by something else than a gateway's word
    referral,      \* referrals.status of each referred user, committed
    referralDraft, \* the handler with an uncommitted QUALIFIED on it, or Nobody
    reward,        \* referral_rewards row of each delivery: absent, unpaid, paid
    claimer,       \* the user each claim is for
    claimed        \* the unpaid rewards each claim found

fundVars == <<funding, status, statusDraft, keyRow, paid, about, unproven>>
referralVars == <<referral, referralDraft, reward, claimer, claimed>>
vars == <<walletVars, pc, fundVars, referralVars>>

FulfilTx == {"creditRead", "creditWrite", "qualify", "grant", "commit"}
ClaimTx == {"claimRead", "claimWrite", "claimCommit"}
Running == FulfilTx \cup ClaimTx \cup {"create", "ask", "find", "mark"}
Ended == {"answered", "existing", "failed", "ignored", "unconfirmed",
          "fulfilled", "refused", "claimed", "lost"}

TypeOK ==
    /\ WalletTypeOK
    /\ pc \in [Procs -> {"idle"} \cup Running \cup Ended]
    /\ funding \in [Fundings -> Funding \cup {Nobody}]
    /\ status \in [Fundings -> {"absent", "PENDING", "SUCCESS"}]
    /\ statusDraft \in [Fundings -> Deliveries \cup {Nobody}]
    /\ keyRow \in [Keys -> Fundings \cup {Nobody}]
    /\ paid \subseteq Fundings
    /\ about \in [Deliveries -> Fundings \cup {Nobody}]
    /\ unproven \subseteq Deliveries
    /\ referral \in [Users -> ReferralStatuses]
    /\ referralDraft \in [Users -> Deliveries \cup {Nobody}]
    /\ reward \in [Deliveries -> {"absent", "unpaid", "paid"}]
    /\ claimer \in [Claims -> Users \cup {Nobody}]
    /\ claimed \in [Claims -> SUBSET Deliveries]

Init ==
    /\ WalletInit
    /\ pc = [p \in Procs |-> "idle"]
    /\ funding = [f \in Fundings |-> Nobody]
    /\ status = [f \in Fundings |-> "absent"]
    /\ statusDraft = [f \in Fundings |-> Nobody]
    /\ keyRow = [k \in Keys |-> Nobody]
    /\ paid = {}
    /\ about = [d \in Deliveries |-> Nobody]
    /\ unproven = {}
    /\ referral = [u \in Users |-> "PENDING_QUALIFICATION"]
    /\ referralDraft = [u \in Users |-> Nobody]
    /\ reward = [d \in Deliveries |-> "absent"]
    /\ claimer = [c \in Claims |-> Nobody]
    /\ claimed = [c \in Claims |-> {}]

At(p, label) == pc[p] = label
Goto(p, label) == pc' = [pc EXCEPT ![p] = label]

-------------------------------------------------------------------------------
(* WalletService.initializeFunding, and the customer at the gateway *)

\* A committed row with the key is answered as it is, whatever it is.  A
\* purchase begins in the same way; its debit and its refund cancel out.
InitializeFunding(f) ==
    /\ At(f, "idle")
    /\ \E r \in Funding :
         /\ funding' = [funding EXCEPT ![f] = r]
         /\ Goto(f, IF keyRow[r.key] # Nobody THEN "existing" ELSE "create")
    /\ UNCHANGED <<walletVars, referralVars, status, statusDraft, keyRow, paid, about,
                    unproven>>

CreateFunding(f) ==
    LET k == funding[f].key
    IN  /\ At(f, "create")
        /\ IF keyRow[k] # Nobody
           THEN Goto(f, "failed") /\ UNCHANGED <<status, keyRow>>
           ELSE /\ Goto(f, "answered")
                /\ status' = [status EXCEPT ![f] = "PENDING"]
                /\ keyRow' = [keyRow EXCEPT ![k] = f]
        /\ UNCHANGED <<walletVars, referralVars, funding, statusDraft, paid, about,
                        unproven>>

Pay(f) ==
    /\ status[f] = "PENDING"
    /\ f \notin paid \cup Purchases
    /\ paid' = paid \cup {f}
    /\ UNCHANGED <<walletVars, pc, referralVars, funding, status, statusDraft, keyRow, about,
                    unproven>>

-------------------------------------------------------------------------------
(* The webhooks and verifyPayment *)

Existing == {f \in Fundings : status[f] # "absent"}

\* What a webhook does with a signature and a body: 401, ignored, 400, or a
\* fulfilment.  A sandbox signature is a fixed text, which proves nothing.
Receive(d, believed, signature, parsed) ==
    CASE ~ believed -> Goto(d, "refused") /\ UNCHANGED <<about, unproven>>
      [] believed /\ ~ parsed.fulfils -> Goto(d, "ignored") /\ UNCHANGED <<about, unproven>>
      [] OTHER ->
           IF parsed.reference = Missing
           THEN Goto(d, "refused") /\ UNCHANGED <<about, unproven>>
           ELSE /\ about' = [about EXCEPT ![d] = parsed.reference]
                /\ unproven' = IF signature = "sandbox" THEN unproven \cup {d} ELSE unproven
                /\ Goto(d, "find")

\* What a gateway signs is true: a success it names has been paid.
Honest(signature, parsed) ==
    signature = "signed" /\ parsed.fulfils => parsed.reference \in paid \cup {Missing}

HandlePaystackWebhook(d) ==
    /\ At(d, "idle")
    /\ \E signature \in Signatures,
          body \in [event: {"charge.success", "other"}, reference: Existing \cup {Missing}] :
         LET parsed == PaystackEvent(body)
         IN  /\ Honest(signature, parsed)
             /\ Receive(d, PaystackSignature(signature), signature, parsed)
    /\ UNCHANGED <<walletVars, referralVars, funding, status, statusDraft, keyRow, paid>>

HandleFlutterwaveWebhook(d) ==
    /\ At(d, "idle")
    /\ \E signature \in Signatures,
          body \in [status: {"successful", "failed"}, reference: Existing \cup {Missing}] :
         LET parsed == FlutterwaveEvent(body)
         IN  /\ Honest(signature, parsed)
             /\ Receive(d, FlutterwaveSignature(signature, Production), signature, parsed)
    /\ UNCHANGED <<walletVars, referralVars, funding, status, statusDraft, keyRow, paid>>

\* The sandbox trigger, in any environment: nobody has paid, and it is fulfilled.
HandleMockWebhook(d) ==
    /\ At(d, "idle")
    /\ \E f \in Existing : about' = [about EXCEPT ![d] = f]
    /\ unproven' = unproven \cup {d}
    /\ Goto(d, "find")
    /\ UNCHANGED <<walletVars, referralVars, funding, status, statusDraft, keyRow, paid>>

VerifyPayment(d) ==
    /\ At(d, "idle")
    /\ \E f \in Existing :
         /\ about' = [about EXCEPT ![d] = f]
         /\ Goto(d, IF status[f] = "SUCCESS" THEN "ignored" ELSE "ask")
    /\ UNCHANGED <<walletVars, referralVars, funding, status, statusDraft, keyRow, paid,
                    unproven>>

\* The answers a gateway may give about a funding.
AnswersAbout(f) ==
    {x \in Answers : (x = "success" => f \in paid) /\ (Told(x) \/ GatewayErrors)}

Searches == {"found"} \cup (IF GatewayErrors THEN {"none", Unreadable} ELSE {})

\* What an adapter may report, and whether it had it from the gateway.  The
\* mock declines no reference the services make, unless chance has spelt FAIL
\* in it.
Reported(f) ==
    CASE GatewayOf[f] = "PAYSTACK" ->
            {[status |-> PaystackVerify(SecretKey, x), heard |-> PaystackHears(SecretKey, x)] :
                x \in AnswersAbout(f)}
      [] GatewayOf[f] = "FLUTTERWAVE" ->
            {[status |-> FlutterwaveVerify(SecretKey, x, y),
              heard |-> FlutterwaveHears(SecretKey, x, y)] :
                x \in Searches, y \in AnswersAbout(f)}
      [] GatewayOf[f] = "MOCK" ->
            {[status |-> MockVerify(x), heard |-> FALSE] : x \in {"FAIL", "other"}}

\* Mutant of AskGateway: a payment is confirmed unless it is said to have failed.
AskGatewayNotFailed(d) ==
    /\ At(d, "ask")
    /\ \E reported \in Reported(about[d]) :
         /\ Goto(d, IF reported.status # "FAILED" THEN "find" ELSE "unconfirmed")
         /\ unproven' = IF reported.heard THEN unproven ELSE unproven \cup {d}
    /\ UNCHANGED <<walletVars, referralVars, funding, status, statusDraft, keyRow, paid,
                    about>>

AskGateway(d) ==
    /\ At(d, "ask")
    /\ \E reported \in Reported(about[d]) :
         /\ Goto(d, IF reported.status = "SUCCESS" THEN "find" ELSE "unconfirmed")
         /\ unproven' = IF reported.heard THEN unproven ELSE unproven \cup {d}
    /\ UNCHANGED <<walletVars, referralVars, funding, status, statusDraft, keyRow, paid,
                    about>>

-------------------------------------------------------------------------------
(* _fulfillPayment *)

FindFunding(d) ==
    /\ At(d, "find")
    /\ Goto(d, IF status[about[d]] = "SUCCESS" THEN "ignored" ELSE "mark")
    /\ UNCHANGED <<walletVars, fundVars, referralVars>>

\* Mutant of MarkSuccess: the status is set before the transaction opens.
MarkSuccessOutsideTx(d) ==
    /\ At(d, "mark")
    /\ statusDraft[about[d]] = Nobody
    /\ status' = [status EXCEPT ![about[d]] = "SUCCESS"]
    /\ Goto(d, "creditRead")
    /\ UNCHANGED <<walletVars, referralVars, funding, statusDraft, keyRow, paid, about,
                    unproven>>

\* transaction.update sets SUCCESS whatever the row holds by then, and keeps
\* its lock; the payment_transactions row is upserted under that lock.
MarkSuccess(d) ==
    /\ At(d, "mark")
    /\ statusDraft[about[d]] = Nobody
    /\ statusDraft' = [statusDraft EXCEPT ![about[d]] = d]
    /\ Goto(d, "creditRead")
    /\ UNCHANGED <<walletVars, referralVars, funding, status, keyRow, paid, about, unproven>>

Payee(d) == funding[about[d]].user
Amount(d) == funding[about[d]].amount

\* The database undoes the open transactions of handlers P.
Discard(P) ==
    /\ RollbackWallets(P)
    /\ statusDraft' = [f \in Fundings |->
          IF statusDraft[f] \in P THEN Nobody ELSE statusDraft[f]]
    /\ referralDraft' = [u \in Users |->
          IF referralDraft[u] \in P THEN Nobody ELSE referralDraft[u]]

\* Mutant of CreditRead: a locked wallet is refused a credit, as it is a debit.
CreditReadUnlocked(d) ==
    /\ At(d, "creditRead")
    /\ IF Payee(d) \in LockedUsers
       THEN /\ Discard({d})
            /\ Goto(d, "failed")
            /\ UNCHANGED <<funding, status, keyRow, paid, about, unproven, referral,
                            reward, claimer, claimed>>
       ELSE /\ ReadWallet(d, Payee(d))
            /\ Goto(d, "creditWrite")
            /\ UNCHANGED <<fundVars, referralVars>>

CreditRead(d) ==
    /\ At(d, "creditRead")
    /\ ReadWallet(d, Payee(d))
    /\ Goto(d, "creditWrite")
    /\ UNCHANGED <<fundVars, referralVars>>

CreditWrite(d) ==
    /\ At(d, "creditWrite")
    /\ CreditWallet(d, Payee(d), Amount(d), about[d])
    /\ Goto(d, "qualify")
    /\ UNCHANGED <<fundVars, referralVars>>

\* Mutant of Qualify: an amount at the threshold does not qualify.
QualifyAbove(d) ==
    /\ At(d, "qualify")
    /\ Goto(d, IF /\ Amount(d) > Threshold
                  /\ Referrer[Payee(d)] # Nobody
                  /\ referral[Payee(d)] = "PENDING_QUALIFICATION"
               THEN "grant" ELSE "commit")
    /\ UNCHANGED <<walletVars, fundVars, referralVars>>

\* Mutant of Qualify: the referral's status is not checked.
QualifyUnchecked(d) ==
    /\ At(d, "qualify")
    /\ Goto(d, IF Amount(d) >= Threshold /\ Referrer[Payee(d)] # Nobody
               THEN "grant" ELSE "commit")
    /\ UNCHANGED <<walletVars, fundVars, referralVars>>

\* The referral is read only now, with the wallet's row locked.
Qualify(d) ==
    LET qualifies == /\ Amount(d) >= Threshold
                     /\ Referrer[Payee(d)] # Nobody
                     /\ referral[Payee(d)] = "PENDING_QUALIFICATION"
    IN  /\ At(d, "qualify")
        /\ Goto(d, IF qualifies THEN "grant" ELSE "commit")
        /\ UNCHANGED <<walletVars, fundVars, referralVars>>

\* referral.update and referralReward.create.
Grant(d) ==
    /\ At(d, "grant")
    /\ referralDraft[Payee(d)] = Nobody
    /\ referralDraft' = [referralDraft EXCEPT ![Payee(d)] = d]
    /\ Goto(d, "commit")
    /\ UNCHANGED <<walletVars, fundVars, referral, reward, claimer, claimed>>

CommitFulfilment(d) ==
    LET u == Payee(d)
        granted == referralDraft[u] = d
    IN  /\ At(d, "commit")
        /\ CommitWallets(d)
        /\ status' = [status EXCEPT ![about[d]] = "SUCCESS"]
        /\ statusDraft' = [statusDraft EXCEPT ![about[d]] = Nobody]
        /\ referral' = [referral EXCEPT ![u] = IF granted THEN "QUALIFIED" ELSE @]
        /\ referralDraft' = [referralDraft EXCEPT ![u] = IF granted THEN Nobody ELSE @]
        /\ reward' = [reward EXCEPT ![d] = IF granted THEN "unpaid" ELSE @]
        /\ Goto(d, "fulfilled")
        /\ UNCHANGED <<funding, keyRow, paid, about, unproven, claimer, claimed>>

-------------------------------------------------------------------------------
(* ReferralsService.claimRewards *)

Unpaid(u) == {d \in Deliveries : reward[d] = "unpaid" /\ Referrer[Payee(d)] = u}

\* Outside the transaction: what is unpaid now is what will be paid.
ClaimRewards(c) ==
    /\ At(c, "idle")
    /\ \E u \in Users :
         /\ claimer' = [claimer EXCEPT ![c] = u]
         /\ claimed' = [claimed EXCEPT ![c] = Unpaid(u)]
         /\ Goto(c, IF Unpaid(u) = {} THEN "refused" ELSE "claimRead")
    /\ UNCHANGED <<walletVars, fundVars, referral, referralDraft, reward>>

ClaimRead(c) ==
    /\ At(c, "claimRead")
    /\ claimer[c] \notin LockedUsers
    /\ ReadWallet(c, claimer[c])
    /\ Goto(c, "claimWrite")
    /\ UNCHANGED <<fundVars, referralVars>>

ClaimLocked(c) ==
    /\ At(c, "claimRead")
    /\ claimer[c] \in LockedUsers
    /\ Goto(c, "refused")
    /\ UNCHANGED <<walletVars, fundVars, referralVars>>

ClaimTotal(c) == RewardKobo * Cardinality(claimed[c])

\* The wallet update, the REFERRAL_BONUS row (its key is fresh: clients send
\* none) and the ledger row.
ClaimWrite(c) ==
    /\ At(c, "claimWrite")
    /\ CreditWallet(c, claimer[c], ClaimTotal(c), c)
    /\ Goto(c, "claimCommit")
    /\ UNCHANGED <<fundVars, referralVars>>

\* Mutant of ClaimCommit: whatever is unpaid by now is marked, not what was
\* summed up.
ClaimCommitAllUnpaid(c) ==
    LET now == Unpaid(claimer[c])
    IN  /\ At(c, "claimCommit")
        /\ CommitWallets(c)
        /\ reward' = [d \in Deliveries |-> IF d \in now THEN "paid" ELSE reward[d]]
        /\ referral' = [u \in Users |->
              IF \E d \in now : Payee(d) = u THEN "REWARDED" ELSE referral[u]]
        /\ Goto(c, "claimed")
        /\ UNCHANGED <<fundVars, referralDraft, claimer, claimed>>

\* The rewards are marked by id, paid or not, and their referrals follow.
ClaimCommit(c) ==
    /\ At(c, "claimCommit")
    /\ CommitWallets(c)
    /\ reward' = [d \in Deliveries |-> IF d \in claimed[c] THEN "paid" ELSE reward[d]]
    /\ referral' = [u \in Users |->
          IF \E d \in claimed[c] : Payee(d) = u THEN "REWARDED" ELSE referral[u]]
    /\ Goto(c, "claimed")
    /\ UNCHANGED <<fundVars, referralDraft, claimer, claimed>>

-------------------------------------------------------------------------------
(* Faults *)

Fail(p) ==
    /\ Faults
    /\ pc[p] \in Running
    /\ Discard({p})
    /\ Goto(p, "failed")
    /\ UNCHANGED <<funding, status, keyRow, paid, about, unproven, referral, reward,
                    claimer, claimed>>

Crash ==
    LET dead == {p \in Procs : pc[p] \in Running}
    IN  /\ Faults
        /\ dead # {}
        /\ pc' = [p \in Procs |-> IF p \in dead THEN "lost" ELSE pc[p]]
        /\ Discard(dead)
        /\ UNCHANGED <<funding, status, keyRow, paid, about, unproven, referral, reward,
                    claimer, claimed>>

Terminated ==
    /\ \A p \in Procs : pc[p] \in Ended \cup {"idle"}
    /\ UNCHANGED vars

Fulfil(d) ==
    \/ AskGateway(d) \/ FindFunding(d) \/ MarkSuccess(d)
    \/ CreditRead(d) \/ CreditWrite(d) \/ Qualify(d) \/ Grant(d)
    \/ CommitFulfilment(d)

Claim(c) == ClaimRead(c) \/ ClaimLocked(c) \/ ClaimWrite(c) \/ ClaimCommit(c)

Next ==
    \/ \E f \in Fundings : InitializeFunding(f) \/ CreateFunding(f) \/ Pay(f)
    \/ \E d \in Deliveries :
         \/ HandlePaystackWebhook(d) \/ HandleFlutterwaveWebhook(d)
         \/ HandleMockWebhook(d) \/ VerifyPayment(d) \/ Fulfil(d)
    \/ \E c \in Claims : ClaimRewards(c) \/ Claim(c)
    \/ \E p \in Procs : Fail(p)
    \/ Crash
    \/ Terminated

Spec == Init /\ [][Next]_vars

\* Handlers run while they can.  A fulfilment takes the rows of its funding,
\* its wallet and its referral in that order, a claim one wallet: no cycle.
FairSpec ==
    /\ Spec
    /\ \A d \in Deliveries : WF_vars(Fulfil(d))
    /\ \A c \in Claims : WF_vars(Claim(c))

-------------------------------------------------------------------------------
(* Properties *)

Credits(f) == RowsOf(funding[f].user, f)

\* A funding is SUCCESS exactly when its wallet has a credit for it, of its
\* amount: the status and the money commit together, or neither does.
SuccessIsCredited ==
    \A f \in Fundings : status[f] # "absent" =>
        /\ (status[f] = "SUCCESS") = (Credits(f) # {})
        /\ \A i \in Credits(f) :
              entries[funding[f].user][i].amount = funding[f].amount

\* One qualified referral earns one reward, however many fundings of the
\* referred user are fulfilled at once: the referral is read under the row
\* lock of the wallet that creditWallet has just written.
OneRewardPerReferral ==
    \A d, e \in Deliveries :
        reward[d] # "absent" /\ reward[e] # "absent" /\ Payee(d) = Payee(e) => d = e

\* A referral only moves from PENDING_QUALIFICATION to QUALIFIED to REWARDED,
\* although fulfilments and claims both write its status.
ReferralAdvances ==
    [][\A u \in Users : referral'[u] # referral[u] =>
         \/ referral[u] = "PENDING_QUALIFICATION" /\ referral'[u] = "QUALIFIED"
         \/ referral[u] = "QUALIFIED" /\ referral'[u] = "REWARDED"]_vars

\* A reward marked paid is part of a credit its referrer's wallet has, and
\* every such credit is the sum of rewards that are marked paid.
PaidRewardIsCredited ==
    /\ \A d \in Deliveries : reward[d] = "paid" =>
         \E c \in Claims : d \in claimed[c] /\ RowsOf(Referrer[Payee(d)], c) # {}
    /\ \A c \in Claims, u \in Users : \A i \in RowsOf(u, c) :
         /\ entries[u][i].amount = RewardKobo * Cardinality(claimed[c])
         /\ \A d \in claimed[c] : reward[d] = "paid" /\ Referrer[Payee(d)] = u

\* A wallet's balance is the balanceAfterKobo of its newest ledger row, with
\* fundings and claims interleaved on it.
LatestEntryIsBalance == \A u \in Users : balance[u] = LatestBalance(u)

\* Nothing is credited that the customer has not paid at the gateway, by
\* whatever webhook or verification the handler heard of it.
CreditedIsPaid == \A f \in Fundings : status[f] = "SUCCESS" => f \in paid

\* What is credited without a payment was fulfilled by a handler that no
\* gateway told of it: by a test signature, the sandbox's webhook, the mock
\* adapter, or a call to the API that was not made or came to nothing.  A
\* gateway's word, signed or asked for, never credits what is unpaid, however
\* deliveries, repetitions, failures and crashes are interleaved.
UnpaidIsUnproven ==
    \A f \in Fundings : status[f] = "SUCCESS" =>
        f \in paid \/ \E d \in unproven : At(d, "fulfilled") /\ about[d] = f

\* One payment is credited once, however often the gateway tells of it.
CreditedOnce ==
    \A f \in Fundings : status[f] # "absent" => Cardinality(Credits(f)) <= 1

\* A reward is paid out by one claim.
ClaimedOnce ==
    \A c, e \in Claims : At(c, "claimed") /\ At(e, "claimed") /\ c # e =>
        claimed[c] \cap claimed[e] = {}

\* What the ledger and the tables say of the contract of fundings.
Receipts(u, rows) == {[row |-> <<u, i>>, kobo |-> entries[u][i].amount] : i \in rows}

asked == [f \in Fundings |-> IF status[f] = "absent" THEN Nobody ELSE funding[f]]

credited ==
    [f \in Fundings |->
        IF status[f] = "absent" THEN {} ELSE Receipts(funding[f].user, Credits(f))]

payouts == [u \in Users |-> Receipts(u, UNION {RowsOf(u, c) : c \in Claims})]

Contract == INSTANCE FundingContract WITH Orders <- Funding

\* Webhooks, verifications, claims, faults and crashes leave to the customer
\* and his referrer what FundingContract says: each credit is one receipt over
\* what was asked, qualifies the referral in the same step if it is the first
\* that can, and each payout is one receipt over a reward per referral.
ImplementsFundingContract == Contract!Spec

\* A delivered event ends in its funding being SUCCESS: fulfilments and
\* claims that wait for each other's rows never wait for ever.
DeliveredIsCredited ==
    \A d \in Deliveries, f \in Fundings :
        At(d, "find") /\ about[d] = f ~> status[f] = "SUCCESS"
===============================================================================
