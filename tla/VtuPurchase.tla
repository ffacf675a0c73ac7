----------------------------- MODULE VtuPurchase -----------------------------
(***************************************************************************)
(* The purchase of airtime, data, electricity and cable TV: four services  *)
(* with one shape, the adapter they call, and AdminService refunding their *)
(* orders and changing the prices they read.                               *)
(*                                                                         *)
(*   1. a transaction inserts the order as PROCESSING and debits the wallet*)
(*   2. the provider is called, outside any transaction                    *)
(*   3. success: a transaction sets the order to SUCCESS                   *)
(*      failure, or an exception since step 2: a transaction sets it to    *)
(*      REFUNDED and credits the wallet; an error of that transaction is   *)
(*      logged and swallowed                                               *)
(*                                                                         *)
(* Orders, their transactions rows and the handlers serving them are       *)
(* one-to-one, so a handler's name stands for all three; an administrator's*)
(* handler also stands for the companion REFUND transaction it inserts.    *)
(***************************************************************************)
EXTENDS WalletLedger, VtuProviders

CONSTANTS
    Purchases,     \* handlers of purchase requests
    Admins,        \* handlers of administrators' requests
    Services,      \* those of the four services the clients use
    Keys,          \* idempotency keys
    Faces,         \* face values clients ask for, in kobo
    PartyOf,       \* the network or company the orders of each service name
    Settings,      \* values of DEFAULT_VTU_PROVIDER
    Discounts,     \* values of networks.airtime_discount_bps
    PlanPrices,    \* values of data_plans.selling_price_kobo
    FeeKobo,       \* convenience fee of the meter and cable providers
    Nobody,        \* not a handler
    NoOrder,       \* what a handler serves before it has an order
    Faults         \* whether the database fails and the server dies

Bills == {"electricity", "cable"}

Order == [service: Services, user: Users, face: Faces, key: Keys]

Statuses == {"absent", "PROCESSING", "SUCCESS", "REFUNDED"}

ASSUME PurchaseAssumption ==
    /\ Procs = Purchases \cup Admins
    /\ Purchases \cap Admins = {}
    /\ Refs = Procs
    /\ Services \subseteq {"airtime", "data"} \cup Bills
    /\ Faces \subseteq Nat \ {0}
    /\ \A s \in Services : PartyOf[s] \in Parties(s)
    /\ Discounts \subseteq 0..2000
    /\ PlanPrices \subseteq Nat \ {0}
    /\ FeeKobo \in Nat
    /\ Nobody \notin Procs
    /\ NoOrder \notin Order
    /\ Clean \notin [by: Procs, to: Statuses]
    /\ Absent \notin Int
    /\ Faults \in BOOLEAN

VARIABLES
    provider,     \* the adapter injected as VTU_PROVIDER
    discount,     \* networks.airtime_discount_bps
    planPrice,    \* data_plans.selling_price_kobo
    pc,           \* where each handler is
    order,        \* the order a purchase handler serves
    net,          \* netAmountKobo of each order, 0 before it is priced
    target,       \* the order an administrator's handler refunds
    status,       \* transactions.status of each order, committed
    statusDraft,  \* its uncommitted version and who wrote it, or Clean
    keyRow,       \* committed row of each idempotency key
    keyClaim,     \* uncommitted row of each idempotency key
    refund,       \* committed refunds row of each order (unique)
    refundClaim,  \* uncommitted refunds row of each order
    sessions,     \* bill services whose meter or smartcard is verified now
    worth         \* kobo the provider has really delivered of each order, or Absent

rowVars == <<status, statusDraft, keyRow, keyClaim, refund, refundClaim>>
priceVars == <<provider, discount, planPrice>>
orderVars == <<order, net, target>>
outsideVars == <<sessions, worth>>
vars == <<walletVars, priceVars, pc, orderVars, rowVars, outsideVars>>

delivered == {p \in Purchases : worth[p] # Absent}

DebitTx == {"debitRead", "debitWrite", "debitCommit"}
RefundTx == {"refundRead", "refundWrite", "refundCommit"}
AdminTx == {"adminMark", "adminRead", "adminWrite", "adminCommit"}
Open == DebitTx \cup RefundTx \cup AdminTx
Running == Open \cup {"accept", "create", "provider", "record", "refundMark",
                      "adminCreate", "adminAudit"}
Ended == {"conflict", "refused", "failed", "done", "sorry", "lost"}

TypeOK ==
    /\ WalletTypeOK
    /\ provider \in ProviderNames
    /\ discount \in Discounts
    /\ planPrice \in PlanPrices
    /\ net \in [Purchases -> Nat]
    /\ worth \in [Purchases -> Nat \cup {Absent}]
    /\ pc \in [Procs -> {"idle"} \cup Running \cup Ended]
    /\ order \in [Purchases -> Order \cup {NoOrder}]
    /\ target \in [Admins -> Purchases \cup {Nobody}]
    /\ status \in [Purchases -> Statuses]
    /\ statusDraft \in [Purchases -> [by: Procs, to: Statuses] \cup {Clean}]
    /\ keyRow \in [Keys -> Purchases \cup {Nobody}]
    /\ keyClaim \in [Keys -> Purchases \cup {Nobody}]
    /\ refund \in [Purchases -> Admins \cup {Nobody}]
    /\ refundClaim \in [Purchases -> Admins \cup {Nobody}]
    /\ sessions \subseteq Bills

Init ==
    /\ WalletInit
    /\ provider \in {Selected(setting) : setting \in Settings}
    /\ discount \in Discounts
    /\ planPrice \in PlanPrices
    /\ net = [p \in Purchases |-> 0]
    /\ worth = [p \in Purchases |-> Absent]
    /\ pc = [p \in Procs |-> "idle"]
    /\ order = [p \in Purchases |-> NoOrder]
    /\ target = [q \in Admins |-> Nobody]
    /\ status = [p \in Purchases |-> "absent"]
    /\ statusDraft = [p \in Purchases |-> Clean]
    /\ keyRow = [k \in Keys |-> Nobody]
    /\ keyClaim = [k \in Keys |-> Nobody]
    /\ refund = [p \in Purchases |-> Nobody]
    /\ refundClaim = [p \in Purchases |-> Nobody]
    /\ sessions = {}

-------------------------------------------------------------------------------
(* Helpers *)

At(p, label) == pc[p] = label
Goto(p, label) == pc' = [pc EXCEPT ![p] = label]

AirtimeDiscount(face) == (face * discount) \div 10000

\* netAmountKobo: what the wallet pays and a refund returns.
NetKobo(o) ==
    CASE o.service = "airtime" -> o.face - AirtimeDiscount(o.face)
      [] o.service = "data"    -> planPrice
      [] o.service \in Bills   -> o.face + FeeKobo

User(p) == order[p].user

\* amountKobo: what the provider is asked for.  A plan's price is its amount.
Asked(p) == IF order[p].service = "data" THEN net[p] ELSE order[p].face

\* What handlers P inserted or wrote in open transactions disappears.
Discard(P) ==
    /\ RollbackWallets(P)
    /\ statusDraft' = [t \in Purchases |->
          IF statusDraft[t] # Clean /\ statusDraft[t].by \in P
          THEN Clean ELSE statusDraft[t]]
    /\ keyClaim' = [k \in Keys |-> IF keyClaim[k] \in P THEN Nobody ELSE keyClaim[k]]
    /\ refundClaim' = [t \in Purchases |->
          IF refundClaim[t] \in P THEN Nobody ELSE refundClaim[t]]
    /\ UNCHANGED <<status, keyRow, refund>>

\* transaction.update inside a transaction: waits for the order's row lock.
MarkRefunded(p, t) ==
    /\ statusDraft[t] = Clean
    /\ statusDraft' = [statusDraft EXCEPT ![t] = [by |-> p, to |-> "REFUNDED"]]
    /\ UNCHANGED <<status, keyRow, keyClaim, refund, refundClaim>>

-------------------------------------------------------------------------------
(* The request, up to the transaction *)

Submit(p) ==
    /\ At(p, "idle")
    /\ \E o \in Order : order' = [order EXCEPT ![p] = o]
    /\ Goto(p, "accept")
    /\ UNCHANGED <<walletVars, priceVars, net, target, rowVars, outsideVars>>

\* A wrong PIN or an inactive network, plan or provider refuses the order; a
\* committed row with its key is a conflict; else it goes on at the prices of
\* now.
Accept(p, service) ==
    /\ At(p, "accept")
    /\ order[p].service = service
    /\ \/ Goto(p, "refused") /\ UNCHANGED net
       \/ keyRow[order[p].key] # Nobody /\ Goto(p, "conflict") /\ UNCHANGED net
       \/ /\ keyRow[order[p].key] = Nobody
          /\ net' = [net EXCEPT ![p] = NetKobo(order[p])]
          /\ Goto(p, "create")
    /\ UNCHANGED <<walletVars, priceVars, order, target, rowVars, outsideVars>>

PurchaseAirtime(p) == Accept(p, "airtime")

PurchaseData(p) == Accept(p, "data")

Unverified(p, service) ==
    /\ At(p, "accept")
    /\ order[p].service = service
    /\ service \notin sessions
    /\ Goto(p, "refused")
    /\ UNCHANGED <<walletVars, priceVars, orderVars, rowVars, outsideVars>>

PayElectricity(p) ==
    \/ Unverified(p, "electricity")
    \/ "electricity" \in sessions /\ Accept(p, "electricity")

PayCableTV(p) ==
    \/ Unverified(p, "cable")
    \/ "cable" \in sessions /\ Accept(p, "cable")

-------------------------------------------------------------------------------
(* Step 1: the order and the debit *)

\* Mutant of CreateOrder: idempotency_key is not a unique column.
CreateOrderNotUnique(p, service) ==
    /\ At(p, "create")
    /\ order[p].service = service
    /\ Goto(p, "debitRead")
    /\ keyClaim' = [keyClaim EXCEPT ![order[p].key] = p]
    /\ UNCHANGED <<walletVars, priceVars, orderVars, outsideVars,
                   status, statusDraft, keyRow, refund, refundClaim>>

CreateOrder(p, service) ==
    LET k == order[p].key
    IN  /\ At(p, "create")
        /\ order[p].service = service
        /\ keyClaim[k] = Nobody
        /\ IF keyRow[k] # Nobody
           THEN Goto(p, "failed") /\ UNCHANGED keyClaim
           ELSE Goto(p, "debitRead") /\ keyClaim' = [keyClaim EXCEPT ![k] = p]
        /\ UNCHANGED <<walletVars, priceVars, orderVars, outsideVars,
                       status, statusDraft, keyRow, refund, refundClaim>>

OrderAirtime(p) == CreateOrder(p, "airtime")
OrderData(p) == CreateOrder(p, "data")
OrderElectricity(p) == CreateOrder(p, "electricity")
OrderCable(p) == CreateOrder(p, "cable")

DebitRead(p) ==
    /\ At(p, "debitRead")
    /\ CanDebit(User(p), net[p])
    /\ ReadWallet(p, User(p))
    /\ Goto(p, "debitWrite")
    /\ UNCHANGED <<priceVars, orderVars, rowVars, outsideVars>>

DebitRefused(p) ==
    /\ At(p, "debitRead")
    /\ ~ CanDebit(User(p), net[p])
    /\ Discard({p})
    /\ Goto(p, "refused")
    /\ UNCHANGED <<priceVars, orderVars, outsideVars>>

DebitWrite(p) ==
    /\ At(p, "debitWrite")
    /\ DebitWallet(p, User(p), net[p], p)
    /\ Goto(p, "debitCommit")
    /\ UNCHANGED <<priceVars, orderVars, rowVars, outsideVars>>

DebitCommit(p) ==
    /\ At(p, "debitCommit")
    /\ CommitWallets(p)
    /\ status' = [status EXCEPT ![p] = "PROCESSING"]
    /\ keyRow' = [keyRow EXCEPT ![order[p].key] = p]
    /\ keyClaim' = [keyClaim EXCEPT ![order[p].key] = Nobody]
    /\ Goto(p, "provider")
    /\ UNCHANGED <<priceVars, orderVars, statusDraft, refund, refundClaim, outsideVars>>

-------------------------------------------------------------------------------
(* Steps 2 and 3: the provider and what follows its answer *)

Request(p) == [party |-> PartyOf[order[p].service], kobo |-> Asked(p)]

\* What the customer has if the provider does what an adapter asked for.
WorthOf(p, result) == IF result.naira = Absent THEN Asked(p) ELSE 100 * result.naira

\* Mutant of CallProvider: it is called while the debit is uncommitted.
CallProviderEarly(p, service) ==
    /\ pc[p] \in {"debitCommit", "provider"}
    /\ order[p].service = service
    /\ worth' = [worth EXCEPT ![p] = Asked(p)]
    /\ sessions' = sessions \ {service}
    /\ Goto(p, "record")
    /\ UNCHANGED <<walletVars, priceVars, orderVars, rowVars>>

\* Mutant of CallProvider: a failed answer is not handled.
CallProviderUnhandled(p, service) ==
    /\ At(p, "provider")
    /\ order[p].service = service
    /\ Goto(p, "failed")
    /\ UNCHANGED <<walletVars, priceVars, orderVars, rowVars, outsideVars>>

\* The provider delivers or not and replies; the adapter reads the reply.  A
\* success consumes the verification session in the same turn, anything else
\* is a failure, delivered or not.
CallProvider(p, service) ==
    /\ At(p, "provider")
    /\ order[p].service = service
    /\ \E done \in BOOLEAN, reply \in Replies(provider) :
         LET result == Deliver(provider, service, Request(p), reply)
         IN  /\ Truthful(provider, reply, done)
             /\ worth' = [worth EXCEPT ![p] = IF done THEN WorthOf(p, result) ELSE Absent]
             /\ IF result.success
                THEN sessions' = sessions \ {service} /\ Goto(p, "record")
                ELSE UNCHANGED sessions /\ Goto(p, "refundMark")
    /\ UNCHANGED <<walletVars, priceVars, orderVars, rowVars>>

DeliverAirtime(p) == CallProvider(p, "airtime")
DeliverData(p) == CallProvider(p, "data")
DeliverElectricity(p) == CallProvider(p, "electricity")
DeliverCable(p) == CallProvider(p, "cable")

\* Mutant of RecordSuccess: something after it, in the same try, may throw.
RecordSuccessThenThrow(p, service) ==
    /\ At(p, "record")
    /\ order[p].service = service
    /\ statusDraft[p] = Clean
    /\ status' = [status EXCEPT ![p] = "SUCCESS"]
    /\ Goto(p, "done") \/ Goto(p, "refundMark")
    /\ UNCHANGED <<walletVars, priceVars, orderVars, outsideVars,
                   statusDraft, keyRow, keyClaim, refund, refundClaim>>

\* The status is set whatever it is by now.
RecordSuccess(p, service) ==
    /\ At(p, "record")
    /\ order[p].service = service
    /\ statusDraft[p] = Clean
    /\ status' = [status EXCEPT ![p] = "SUCCESS"]
    /\ Goto(p, "done")
    /\ UNCHANGED <<walletVars, priceVars, orderVars, outsideVars,
                   statusDraft, keyRow, keyClaim, refund, refundClaim>>

RecordAirtime(p) == RecordSuccess(p, "airtime")
RecordData(p) == RecordSuccess(p, "data")
RecordElectricity(p) == RecordSuccess(p, "electricity")
RecordCable(p) == RecordSuccess(p, "cable")

\* The catch clause does not tell this failure from the provider's.
RecordFails(p) ==
    /\ Faults
    /\ At(p, "record")
    /\ Goto(p, "refundMark")
    /\ UNCHANGED <<walletVars, priceVars, orderVars, rowVars, outsideVars>>

\* Mutant of HandleFailure: the order is marked before the transaction opens.
HandleFailureOutsideTx(p, service) ==
    /\ At(p, "refundMark")
    /\ order[p].service = service
    /\ statusDraft[p] = Clean
    /\ status' = [status EXCEPT ![p] = "REFUNDED"]
    /\ statusDraft' = [statusDraft EXCEPT ![p] = [by |-> p, to |-> "REFUNDED"]]
    /\ Goto(p, "refundRead")
    /\ UNCHANGED <<walletVars, priceVars, orderVars, outsideVars,
                   keyRow, keyClaim, refund, refundClaim>>

HandleFailure(p, service) ==
    /\ At(p, "refundMark")
    /\ order[p].service = service
    /\ MarkRefunded(p, p)
    /\ Goto(p, "refundRead")
    /\ UNCHANGED <<walletVars, priceVars, orderVars, outsideVars>>

HandleAirtimeFailure(p) == HandleFailure(p, "airtime")
HandleDataFailure(p) == HandleFailure(p, "data")
HandleElectricityFailure(p) == HandleFailure(p, "electricity")
HandleCableFailure(p) == HandleFailure(p, "cable")

RefundRead(p) ==
    /\ At(p, "refundRead")
    /\ ReadWallet(p, User(p))
    /\ Goto(p, "refundWrite")
    /\ UNCHANGED <<priceVars, orderVars, rowVars, outsideVars>>

\* Mutant of RefundWrite: the order is priced again when it is refunded.
RefundWritePricedAgain(p) ==
    /\ At(p, "refundWrite")
    /\ CreditWallet(p, User(p), NetKobo(order[p]), p)
    /\ Goto(p, "refundCommit")
    /\ UNCHANGED <<priceVars, orderVars, rowVars, outsideVars>>

RefundWrite(p) ==
    /\ At(p, "refundWrite")
    /\ CreditWallet(p, User(p), net[p], p)
    /\ Goto(p, "refundCommit")
    /\ UNCHANGED <<priceVars, orderVars, rowVars, outsideVars>>

\* The client is told that the purchase failed and the wallet was refunded.
RefundCommit(p) ==
    /\ At(p, "refundCommit")
    /\ CommitWallets(p)
    /\ status' = [status EXCEPT ![p] = statusDraft[p].to]
    /\ statusDraft' = [statusDraft EXCEPT ![p] = Clean]
    /\ Goto(p, "sorry")
    /\ UNCHANGED <<priceVars, orderVars, outsideVars, keyRow, keyClaim, refund, refundClaim>>

\* "Critical: Auto-refund failed": logged, and the client is told the same.
RefundFails(p) ==
    /\ Faults
    /\ pc[p] \in RefundTx \cup {"refundMark"}
    /\ Discard({p})
    /\ Goto(p, "sorry")
    /\ UNCHANGED <<priceVars, orderVars, outsideVars>>

-------------------------------------------------------------------------------
(* AdminService.processRefund *)

AdminLookup(q) ==
    /\ At(q, "idle")
    /\ \E t \in Purchases :
         /\ status[t] # "absent"
         /\ target' = [target EXCEPT ![q] = t]
         /\ Goto(q, IF status[t] = "REFUNDED" \/ refund[t] # Nobody
                    THEN "conflict" ELSE "adminCreate")
    /\ UNCHANGED <<walletVars, priceVars, order, net, rowVars, outsideVars>>

\* Mutant of AdminCreate: refunds.transaction_id is not unique.
AdminCreateNotUnique(q) ==
    /\ At(q, "adminCreate")
    /\ Goto(q, "adminMark")
    /\ refundClaim' = [refundClaim EXCEPT ![target[q]] = q]
    /\ UNCHANGED <<walletVars, priceVars, orderVars, outsideVars,
                   status, statusDraft, keyRow, keyClaim, refund>>

AdminCreate(q) ==
    LET t == target[q]
    IN  /\ At(q, "adminCreate")
        /\ refundClaim[t] = Nobody
        /\ IF refund[t] # Nobody
           THEN Goto(q, "failed") /\ UNCHANGED refundClaim
           ELSE Goto(q, "adminMark") /\ refundClaim' = [refundClaim EXCEPT ![t] = q]
        /\ UNCHANGED <<walletVars, priceVars, orderVars, outsideVars,
                       status, statusDraft, keyRow, keyClaim, refund>>

AdminMark(q) ==
    /\ At(q, "adminMark")
    /\ MarkRefunded(q, target[q])
    /\ Goto(q, "adminRead")
    /\ UNCHANGED <<walletVars, priceVars, orderVars, outsideVars>>

AdminRead(q) ==
    /\ At(q, "adminRead")
    /\ ReadWallet(q, User(target[q]))
    /\ Goto(q, "adminWrite")
    /\ UNCHANGED <<priceVars, orderVars, rowVars, outsideVars>>

\* { increment } adds to the row as it is under the lock; the ledger row is
\* computed from the balance read before.
AdminWrite(q) ==
    LET u == User(target[q])
        amount == net[target[q]]
    IN  /\ At(q, "adminWrite")
        /\ WriteWallet(q, u, balance[u] + amount,
              [type |-> "CREDIT", amount |-> amount, before |-> seen[q],
               after |-> seen[q] + amount, ref |-> q])
        /\ Goto(q, "adminCommit")
        /\ UNCHANGED <<priceVars, orderVars, rowVars, outsideVars>>

AdminCommit(q) ==
    LET t == target[q]
    IN  /\ At(q, "adminCommit")
        /\ CommitWallets(q)
        /\ status' = [status EXCEPT ![t] = statusDraft[t].to]
        /\ statusDraft' = [statusDraft EXCEPT ![t] = Clean]
        /\ refund' = [refund EXCEPT ![t] = q]
        /\ refundClaim' = [refundClaim EXCEPT ![t] = Nobody]
        /\ Goto(q, "adminAudit")
        /\ UNCHANGED <<priceVars, orderVars, outsideVars, keyRow, keyClaim>>

-------------------------------------------------------------------------------
(* AdminService.updateNetworkDiscount, updateDataPlanPrice, and audit rows *)

UpdateNetworkDiscount(q) ==
    /\ At(q, "idle")
    /\ discount' \in Discounts
    /\ Goto(q, "adminAudit")
    /\ UNCHANGED <<walletVars, provider, planPrice, orderVars, rowVars, outsideVars>>

UpdateDataPlanPrice(q) ==
    /\ At(q, "idle")
    /\ planPrice' \in PlanPrices
    /\ Goto(q, "adminAudit")
    /\ UNCHANGED <<walletVars, provider, discount, orderVars, rowVars, outsideVars>>

\* The audit row is inserted after the write it is about, on its own.
AdminAudit(q) ==
    /\ At(q, "adminAudit")
    /\ Goto(q, "done") \/ (Faults /\ Goto(q, "failed"))
    /\ UNCHANGED <<walletVars, priceVars, orderVars, rowVars, outsideVars>>

-------------------------------------------------------------------------------
(* Faults, and the verification sessions of meters and smartcards *)

Fail(p) ==
    /\ Faults
    /\ pc[p] \in DebitTx \cup AdminTx \cup {"accept", "create", "adminCreate"}
    /\ Discard({p})
    /\ Goto(p, "failed")
    /\ UNCHANGED <<priceVars, orderVars, outsideVars>>

\* Handlers and the in-memory sessions are lost, committed rows stay.
Crash ==
    LET dead == {p \in Procs : pc[p] \in Running}
    IN  /\ Faults
        /\ dead # {}
        /\ pc' = [p \in Procs |-> IF p \in dead THEN "lost" ELSE pc[p]]
        /\ Discard(dead)
        /\ sessions' = {}
        /\ UNCHANGED <<priceVars, orderVars, worth>>

\* An adapter that does not find the customer throws, and nothing is kept.
Verify(service) ==
    /\ service \in Services \ sessions
    /\ \E reply \in CustomerReplies :
         /\ LookUp(provider, service, PartyOf[service], reply).found
         /\ sessions' = sessions \cup {service}
    /\ UNCHANGED <<walletVars, priceVars, pc, orderVars, rowVars, worth>>

VerifyMeter == Verify("electricity")
VerifySmartcard == Verify("cable")

\* Ten minutes after the verification.
Expire ==
    /\ \E service \in sessions : sessions' = sessions \ {service}
    /\ UNCHANGED <<walletVars, priceVars, pc, orderVars, rowVars, worth>>

Terminated ==
    /\ \A p \in Purchases : pc[p] \in Ended
    /\ \A q \in Admins : pc[q] \in Ended \cup {"idle"}
    /\ UNCHANGED vars

PurchaseStep(p) ==
    \/ PurchaseAirtime(p) \/ PurchaseData(p) \/ PayElectricity(p) \/ PayCableTV(p)
    \/ OrderAirtime(p) \/ OrderData(p) \/ OrderElectricity(p) \/ OrderCable(p)
    \/ DebitRead(p) \/ DebitRefused(p) \/ DebitWrite(p) \/ DebitCommit(p)
    \/ DeliverAirtime(p) \/ DeliverData(p)
    \/ DeliverElectricity(p) \/ DeliverCable(p)
    \/ RecordAirtime(p) \/ RecordData(p)
    \/ RecordElectricity(p) \/ RecordCable(p)
    \/ HandleAirtimeFailure(p) \/ HandleDataFailure(p)
    \/ HandleElectricityFailure(p) \/ HandleCableFailure(p)
    \/ RefundRead(p) \/ RefundWrite(p) \/ RefundCommit(p)

AdminStep(q) ==
    \/ AdminCreate(q) \/ AdminMark(q) \/ AdminRead(q) \/ AdminWrite(q)
    \/ AdminCommit(q) \/ AdminAudit(q)

Next ==
    \/ \E p \in Purchases :
         Submit(p) \/ PurchaseStep(p) \/ RecordFails(p) \/ RefundFails(p)
    \/ \E q \in Admins :
         \/ AdminLookup(q) \/ UpdateNetworkDiscount(q) \/ UpdateDataPlanPrice(q)
         \/ AdminStep(q)
    \/ \E p \in Procs : Fail(p)
    \/ Crash
    \/ VerifyMeter \/ VerifySmartcard \/ Expire
    \/ Terminated

Spec == Init /\ [][Next]_vars

\* Handlers run while they can.  No two of them can wait for each other: all
\* take the order's row before the wallet's.
FairSpec ==
    /\ Spec
    /\ \A p \in Purchases : WF_vars(PurchaseStep(p))
    /\ \A q \in Admins : WF_vars(AdminStep(q))
-------------------------------------------------------------------------------
(* Properties *)

LedgerRows(type, ref) ==
    UNION {{<<u, i>> : i \in {j \in RowsOf(u, ref) : entries[u][j].type = type}} :
           u \in Users}

Debits(t) == LedgerRows("DEBIT", t)
AutoCredits(t) == LedgerRows("CREDIT", t)
AdminCredits(t) ==
    UNION {LedgerRows("CREDIT", q) : q \in {r \in Admins : target[r] = t}}

AtMostOne(S) == \A x, y \in S : x = y

\* No purchase or refund makes a balance negative under any interleaving,
\* and while no manual refund has incremented one, it is what the newest
\* ledger row of its wallet says.
BalancesHold ==
    /\ \A u \in Users : balance[u] >= 0
    /\ (\A t \in Purchases : refund[t] = Nobody)
         => \A u \in Users : balance[u] = LatestBalance(u)

\* A provider is never asked for something that has not been paid: whatever
\* it delivered has its one DEBIT, of the net amount, committed before.
DeliveredIsPaid ==
    \A t \in delivered :
        /\ \E d \in Debits(t) : entries[d[1]][d[2]].amount = net[t] /\ d[1] = User(t)
        /\ AtMostOne(Debits(t))

\* Two purchases with one idempotency key are never both paid for.
OneDebitPerKey ==
    \A s, t \in Purchases :
        Debits(s) # {} /\ Debits(t) # {} /\ s # t => order[s].key # order[t].key

\* The auto-refund returns what the same order paid, after it paid, and
\* once, whatever the prices are by then and even if an error sends the
\* handler into it a second way.
AutoRefundReverses ==
    \A t \in Purchases :
        /\ AtMostOne(AutoCredits(t))
        /\ \A c \in AutoCredits(t) : \E d \in Debits(t) :
             /\ d[1] = c[1]
             /\ d[2] < c[2]
             /\ entries[d[1]][d[2]].amount = entries[c[1]][c[2]].amount

\* Administrators racing each other refund an order once: both pass the
\* check outside the transaction, the unique refunds row stops one of them.
OneAdminRefund == \A t \in Purchases : AtMostOne(AdminCredits(t))

\* A committed status is backed by what happened: REFUNDED by a credit for
\* the order, SUCCESS by a delivery, however the provider put its answer.
StatusIsBacked ==
    \A t \in Purchases :
        /\ status[t] = "REFUNDED" => AutoCredits(t) \cup AdminCredits(t) # {}
        /\ status[t] = "SUCCESS" => t \in delivered

\* What ledger rows say to whom they concern.
Receipts(rows) == {[row |-> r, kobo |-> entries[r[1]][r[2]].amount] : r \in rows}

used == {k \in Keys : keyRow[k] # Nobody}
paid == [t \in Purchases |-> Receipts(Debits(t))]
confirmed == {t \in Purchases : pc[t] = "done"}
returned == [t \in Purchases |-> Receipts(AutoCredits(t))]
reimbursed == [t \in Purchases |-> Receipts(AdminCredits(t))]

Contract == INSTANCE OrderContract WITH Orders <- Purchases

\* Under every interleaving of handlers, administrators, price changes and
\* faults an order is paid with its key, delivered, and then confirmed or
\* refunded by its handler, each in one step; only a manual refund changes
\* the status of a settled order, and only once.
ImplementsOrderContract == Contract!Spec

\* What a provider delivers is worth what was ordered, to half a naira: the
\* adapters round an amount in kobo to the naira their provider takes.
DeliveredIsWorthIt ==
    \A t \in delivered : worth[t] - Asked(t) \in -50..50

\* A paid order is settled in the end: delivered and SUCCESS, or REFUNDED.
PaidIsSettled ==
    \A t \in Purchases :
        status[t] = "PROCESSING" ~> status[t] \in {"SUCCESS", "REFUNDED"}
===============================================================================
