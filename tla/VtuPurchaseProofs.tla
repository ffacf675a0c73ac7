--------------------------- MODULE VtuPurchaseProofs ---------------------------
(***************************************************************************)
(* Orders are paid once, delivered for what was paid, and refunded once by *)
(* their handler and once by administrators, for every number of users,    *)
(* orders, administrators and keys, every price, adapter and reply.  IInv  *)
(* says which rows a handler holds where it stands, what its uncommitted   *)
(* rows contain, and what the committed ledger rows stand for.  From it    *)
(* follow that the purchases implement OrderContract, that handlers never  *)
(* wait in a circle, and what it takes to compensate an order twice and to *)
(* break a trail.                                                          *)
(***************************************************************************)
EXTENDS VtuPurchase, WalletLedgerProofs

Unpaid == {"idle", "accept", "create", "debitRead", "debitWrite", "debitCommit",
           "conflict", "refused", "failed"}
Paid == {"provider", "record", "done", "refundMark", "sorry"} \cup RefundTx

\* An order exists from its request on; it is paid where its handler says so,
\* and delivered after that, for what it asked.
Placed(p) ==
    /\ pc[p] # "idle" => order[p] \in Order
    /\ pc[p] \in Unpaid => status[p] = "absent"
    /\ pc[p] \in Paid => status[p] # "absent"
    /\ pc[p] \in Unpaid \cup Paid \cup {"lost"}
    /\ pc[p] \in {"record", "done"} \/ status[p] = "SUCCESS" => worth[p] # Absent
    /\ worth[p] # Absent =>
         /\ status[p] # "absent"
         /\ pc[p] # "provider"
         /\ worth[p] - Asked(p) \in -50..50

\* The unique column of keys: who is in a debit has claimed its key, and a
\* paid order owns it.
KeysHeld ==
    /\ \A p \in Purchases : pc[p] \in DebitTx =>
         keyClaim[order[p].key] = p /\ keyRow[order[p].key] = Nobody
    /\ \A k \in Keys : keyClaim[k] # Nobody =>
         pc[keyClaim[k]] \in DebitTx /\ order[keyClaim[k]].key = k
    /\ \A p \in Purchases : status[p] # "absent" => keyRow[order[p].key] = p

\* The unique column of refunds, in the same way.
RefundsHeld ==
    /\ \A q \in Admins : pc[q] \in {"idle", "adminCreate", "adminAudit"} \cup AdminTx \cup Ended
    /\ \A q \in Admins : pc[q] \in AdminTx \cup {"adminCreate"} =>
         target[q] \in Purchases /\ status[target[q]] # "absent"
    /\ \A q \in Admins : pc[q] \in AdminTx =>
         refundClaim[target[q]] = q /\ refund[target[q]] = Nobody
    /\ \A t \in Purchases : refundClaim[t] # Nobody =>
         pc[refundClaim[t]] \in AdminTx /\ target[refundClaim[t]] = t
    /\ \A t \in Purchases : refund[t] # Nobody =>
         /\ status[t] # "absent" /\ target[refund[t]] = t
         /\ pc[refund[t]] \in Ended \cup {"adminAudit"}

\* An uncommitted status is REFUNDED, of whoever is refunding the order.
StatusHeld ==
    /\ \A p \in Purchases : pc[p] \in RefundTx =>
         statusDraft[p] = [by |-> p, to |-> "REFUNDED"]
    /\ \A q \in Admins : pc[q] \in AdminTx \ {"adminMark"} =>
         statusDraft[target[q]] = [by |-> q, to |-> "REFUNDED"]
    /\ \A t \in Purchases : statusDraft[t] # Clean =>
         /\ statusDraft[t].to = "REFUNDED"
         /\ \/ statusDraft[t].by = t /\ pc[t] \in RefundTx
            \/ /\ statusDraft[t].by \in Admins
               /\ target[statusDraft[t].by] = t
               /\ pc[statusDraft[t].by] \in AdminTx \ {"adminMark"}

\* Whose wallet a handler works on.
Wallet(p) == IF p \in Admins THEN User(target[p]) ELSE User(p)
Amount(p) == IF p \in Admins THEN net[target[p]] ELSE net[p]

\* An uncommitted wallet row is the debit or the credit its handler is about
\* to commit.
WalletsHeld ==
    /\ \A p \in Procs : pc[p] \in {"debitCommit", "refundCommit", "adminCommit"} =>
         Owned(p, Wallet(p))
    /\ \A u \in Users : dirty[u] # Clean =>
         LET p == dirty[u].by
             e == dirty[u].entry
         IN  /\ e.ref = p /\ u = Wallet(p) /\ e.amount = Amount(p)
             /\ \/ pc[p] = "debitCommit" /\ e.type = "DEBIT"
                \/ pc[p] \in {"refundCommit", "adminCommit"} /\ e.type = "CREDIT"
             /\ p \in Purchases => dirty[u].balance = e.after
             /\ dirty[u].balance >= 0

\* What has been read covers what is about to be written.
Covered ==
    /\ \A u \in Users : balance[u] >= 0
    /\ \A p \in Procs : seen[p] >= 0
    /\ \A p \in Purchases : pc[p] = "debitWrite" => seen[p] >= net[p]

\* What a committed ledger row stands for.
RowStands(u, e) ==
    /\ e.ref \in Purchases =>
         /\ u = User(e.ref) /\ e.amount = net[e.ref] /\ status[e.ref] # "absent"
         /\ e.type = "CREDIT" => pc[e.ref] = "sorry"
    /\ e.ref \in Admins =>
         /\ e.type = "CREDIT" /\ target[e.ref] \in Purchases
         /\ u = User(target[e.ref]) /\ refund[target[e.ref]] = e.ref

RowsStand == \A u \in Users : \A i \in DOMAIN entries[u] : RowStands(u, entries[u][i])

\* A handler writes one debit, and one credit after it, or one credit.
RowsOnce ==
    \A u \in Users : \A i, j \in DOMAIN entries[u] :
        i < j /\ entries[u][i].ref = entries[u][j].ref =>
            entries[u][i].type = "DEBIT" /\ entries[u][j].type = "CREDIT"

\* A paid order has its debit, a refunded one a credit.
Backed(t) ==
    /\ status[t] # "absent" =>
         \E i \in DOMAIN entries[User(t)] :
            entries[User(t)][i].ref = t /\ entries[User(t)][i].type = "DEBIT"
    /\ status[t] = "REFUNDED" =>
         \E i \in DOMAIN entries[User(t)] :
            /\ entries[User(t)][i].type = "CREDIT"
            /\ \/ entries[User(t)][i].ref = t
               \/ entries[User(t)][i].ref \in Admins /\ target[entries[User(t)][i].ref] = t

\* Without manual refunds balances are what their newest rows say.
Latest ==
    (\A t \in Purchases : refund[t] = Nobody) =>
        \A u \in Users : balance[u] = LatestBalance(u)

IInv ==
    /\ TypeOK
    /\ \A p \in Purchases : Placed(p)
    /\ KeysHeld
    /\ RefundsHeld
    /\ StatusHeld
    /\ WalletsHeld
    /\ Covered
    /\ RowsStand
    /\ RowsOnce
    /\ \A t \in Purchases : Backed(t)
    /\ Latest

-------------------------------------------------------------------------------
(* Kinds and types *)

\* Handlers are of purchases or of administrators, and name what they insert.
LEMMA Kinds ==
    /\ Procs = Purchases \cup Admins /\ Refs = Procs
    /\ \A p \in Purchases : p \notin Admins
    /\ Nobody \notin Purchases /\ Nobody \notin Admins
  BY PurchaseAssumption

\* What is in an order.
LEMMA OrderType ==
    ASSUME NEW p \in Purchases, Placed(p), pc[p] # "idle"
    PROVE  /\ order[p] \in Order
           /\ order[p].service \in Services /\ User(p) \in Users
           /\ order[p].key \in Keys /\ order[p].face \in Faces
  <1>1. order[p] \in Order
    BY DEF Placed
  <1> QED
    BY <1>1 DEF Order, User

\* An order that was placed has a handler that is not idle.
LEMMA PlacedUser ==
    ASSUME NEW t \in Purchases, Placed(t), status[t] # "absent"
    PROVE  pc[t] # "idle" /\ User(t) \in Users /\ order[t].key \in Keys
  <1>1. pc[t] # "idle"
    BY DEF Placed, Unpaid
  <1> QED
    BY <1>1, OrderType

\* The wallet and the amount of an open transaction.
LEMMA WalletType ==
    ASSUME TypeOK, \A t \in Purchases : Placed(t), RefundsHeld, NEW p \in Procs, pc[p] \in Open
    PROVE  Wallet(p) \in Users /\ Amount(p) \in Nat
  <1>1. CASE p \in Purchases
    BY <1>1, Kinds, OrderType DEF Wallet, Amount, TypeOK, Open, DebitTx, RefundTx, AdminTx
  <1>2. CASE p \in Admins
    <2>1. pc[p] \in AdminTx
      BY <1>2 DEF RefundsHeld, Open, DebitTx, RefundTx, AdminTx, Ended
    <2>2. target[p] \in Purchases /\ status[target[p]] # "absent"
      BY <1>2, <2>1 DEF RefundsHeld
    <2> QED
      BY <1>2, <2>2, PlacedUser DEF Wallet, Amount, TypeOK
  <1> QED
    BY <1>1, <1>2, Kinds

\* A discount is at most a fifth of the face value.
LEMMA DiscountType ==
    ASSUME NEW face \in Nat, discount \in 0..2000
    PROVE  AirtimeDiscount(face) \in 0..face
  <1>1. face * discount \in Nat
    OBVIOUS
  <1>2. face * discount <= face * 10000
    <2>1. face * (10000 - discount) \in Nat
      OBVIOUS
    <2>2. face * (10000 - discount) = face * 10000 - face * discount
      OBVIOUS
    <2> QED
      BY <1>1, <2>1, <2>2
  <1>3. \A y \in Nat : y <= face * 10000 => y \div 10000 \in 0..face
    OBVIOUS
  <1> QED
    BY <1>1, <1>2, <1>3 DEF AirtimeDiscount

\* Net amounts are naturals.
LEMMA NetType ==
    ASSUME TypeOK, NEW o \in Order
    PROVE  NetKobo(o) \in Nat
  <1>0. /\ Services \subseteq {"airtime", "data"} \cup Bills
        /\ Faces \subseteq Nat /\ FeeKobo \in Nat
    BY PurchaseAssumption
  <1>1. o.service \in {"airtime", "data"} \cup Bills /\ o.face \in Nat /\ FeeKobo \in Nat
    BY <1>0 DEF Order
  <1>2. discount \in 0..2000 /\ planPrice \in Nat
    BY PurchaseAssumption DEF TypeOK
  <1>3. CASE o.service = "airtime"
    <2>1. AirtimeDiscount(o.face) \in 0..o.face
      BY <1>1, <1>2, DiscountType
    <2>2. NetKobo(o) = o.face - AirtimeDiscount(o.face)
      BY <1>3 DEF NetKobo, Bills
    <2> QED
      BY <1>1, <2>1, <2>2
  <1>4. CASE o.service = "data"
    BY <1>2, <1>4 DEF NetKobo, Bills
  <1>5. CASE o.service \in Bills
    <2>1. NetKobo(o) = o.face + FeeKobo
      BY <1>5 DEF NetKobo, Bills
    <2> QED
      BY <1>1, <2>1
  <1> QED
    BY <1>1, <1>3, <1>4, <1>5

-------------------------------------------------------------------------------
(* The adapters *)

\* toFixed(0): half a naira is the most that is lost or gained.
LEMMA NairaIsNear ==
    ASSUME NEW kobo \in Nat
    PROVE  Naira(kobo) \in Nat /\ 100 * Naira(kobo) - kobo \in -50..50
  BY DEF Naira

\* What an adapter's result says.
LEMMA ResultFields ==
    ASSUME NEW id, NEW naira, NEW success, NEW reference, NEW result,
           result = [id |-> id, naira |-> naira, success |-> success, reference |-> reference]
    PROVE  result.naira = naira /\ result.success = success
  OBVIOUS

\* What VTPass was asked for, and that a success was read from a reply.
LEMMA VTPassSays ==
    ASSUME NEW id, NEW k, NEW reply
    PROVE  /\ VTPassPay(id, k, reply).naira = Naira(k)
           /\ VTPassPay(id, k, reply).success => reply # Unreadable /\ VTPassIsSuccess(reply)
  BY ResultFields, Zenon DEF VTPassPay, CallFailed

\* The same of ClubKonnect, whose caller has done the rounding.
LEMMA ClubKonnectSays ==
    ASSUME NEW id, NEW k, NEW reply
    PROVE  /\ ClubKonnectPay(id, k, reply).naira = k
           /\ ClubKonnectPay(id, k, reply).success =>
                reply # Unreadable /\ ClubKonnectIsSuccess(reply)
  BY ResultFields, Zenon DEF ClubKonnectPay, CallFailed

\* The mock is asked for no amount and fails for every number but an ordinary one.
LEMMA MockSays ==
    ASSUME NEW r, NEW reply
    PROVE  /\ MockPay(r, reply).naira = Absent
           /\ MockPay(r, reply).success => reply = "ordinary number"
  BY ResultFields, Zenon DEF MockPay

\* VTPass: success is read from one of two fields, each of which tells the truth.
LEMMA VTPassIsTrue ==
    ASSUME NEW id, NEW k, NEW reply, NEW done, Truthful("vtpass", reply, done)
    PROVE  /\ VTPassPay(id, k, reply).naira = Naira(k)
           /\ VTPassPay(id, k, reply).success => done
  <1>1. reply # Unreadable /\ VTPassIsSuccess(reply) => done
    BY DEF VTPassIsSuccess, Coalesce, Truthful
  <1> QED
    BY <1>1, VTPassSays, Zenon

\* ClubKonnect: success is read from the first of four fields that is there.
LEMMA ClubKonnectIsTrue ==
    ASSUME NEW id, NEW k, NEW reply \in ClubKonnectReplies, NEW done,
           Truthful("clubkonnect", reply, done)
    PROVE  /\ ClubKonnectPay(id, k, reply).naira = k
           /\ ClubKonnectPay(id, k, reply).success => done
  <1>1. reply # Unreadable =>
          {reply.status, reply.Status, reply.ReturnCode, reply.StatusCode} \subseteq ClubKonnectWords
    BY DEF ClubKonnectReplies
  <1>2. reply # Unreadable /\ ClubKonnectIsSuccess(reply) => done
    BY <1>1 DEF ClubKonnectIsSuccess, Coalesce, ClubKonnectWords, Truthful
  <1> QED
    BY <1>2, ClubKonnectSays, Zenon

\* The mock asks for no amount and delivers to ordinary numbers.
LEMMA MockIsTrue ==
    ASSUME NEW r, NEW reply, NEW done, Truthful("mock", reply, done)
    PROVE  MockPay(r, reply).naira = Absent /\ (MockPay(r, reply).success => done)
  <1>1. reply = "ordinary number" => done
    BY DEF Truthful
  <1> QED
    BY <1>1, MockSays, Zenon

\* Whatever the adapter and the reply, the result asks for the naira of the
\* order, or for no amount, and says success only of what was delivered.
LEMMA ResultIsTrue ==
    ASSUME NEW name \in ProviderNames, NEW service \in {"airtime", "data"} \cup Bills,
           NEW r, NEW reply \in Replies(name), NEW done, Truthful(name, reply, done),
           NEW result, result = Deliver(name, service, r, reply)
    PROVE  /\ result.naira \in {Absent, Naira(r.kobo)}
           /\ result.success => done
  <1>1. CASE name = "vtpass"
    <2>1. \E id : result = VTPassPay(id, r.kobo, reply)
      BY <1>1 DEF Deliver, Bills, VTPassAirtime, VTPassData, VTPassElectricity, VTPassCable
    <2> QED
      BY <1>1, <2>1, VTPassIsTrue
  <1>2. CASE name = "clubkonnect"
    <2>1. \E id : \E naira \in {Absent, Naira(r.kobo)} : result = ClubKonnectPay(id, naira, reply)
      BY <1>2 DEF Deliver, Bills, ClubKonnectAirtime, ClubKonnectData, ClubKonnectElectricity,
                  ClubKonnectCable
    <2>2. reply \in ClubKonnectReplies
      BY <1>2 DEF Replies
    <2> QED
      BY <1>2, <2>1, <2>2, ClubKonnectIsTrue
  <1>3. CASE name = "mock"
    <2>1. result = MockPay(r, reply)
      BY <1>3 DEF Deliver, Bills, MockAirtime, MockData, MockElectricity, MockCable
    <2> QED
      BY <1>3, <2>1, MockIsTrue
  <1> QED
    BY <1>1, <1>2, <1>3 DEF ProviderNames

-------------------------------------------------------------------------------
(* What each kind of step preserves *)

\* Prices and verification sessions change under the orders.
LEMMA OutsideStep ==
    ASSUME IInv, UNCHANGED <<walletVars, pc, orderVars, rowVars, worth>>,
           provider' \in ProviderNames, discount' \in Discounts, planPrice' \in PlanPrices,
           sessions' \subseteq Bills
    PROVE  IInv'
  <1>i. /\ TypeOK /\ KeysHeld /\ RefundsHeld /\ StatusHeld /\ WalletsHeld /\ Covered
        /\ RowsStand /\ RowsOnce /\ Latest
        /\ \A x \in Purchases : Placed(x) /\ Backed(x)
    BY DEF IInv
  <1>1. TypeOK'
    BY <1>i DEF TypeOK, WalletTypeOK, walletVars, orderVars, rowVars
  <1>2. (\A x \in Purchases : Placed(x))'
    BY <1>i DEF Placed, Asked, orderVars, rowVars
  <1>3. KeysHeld'
    BY <1>i DEF KeysHeld, orderVars, rowVars
  <1>4. RefundsHeld'
    BY <1>i DEF RefundsHeld, orderVars, rowVars
  <1>5. StatusHeld'
    BY <1>i DEF StatusHeld, orderVars, rowVars
  <1>6. WalletsHeld'
    BY <1>i DEF WalletsHeld, Owned, Wallet, Amount, User, walletVars, orderVars
  <1>7. Covered'
    BY <1>i DEF Covered, walletVars, orderVars
  <1>8. RowsStand'
    BY <1>i DEF RowsStand, RowStands, User, walletVars, orderVars, rowVars
  <1>9. RowsOnce'
    BY <1>i DEF RowsOnce, walletVars
  <1>10. (\A x \in Purchases : Backed(x))'
    BY <1>i DEF Backed, User, walletVars, orderVars, rowVars
  <1>11. Latest'
    BY <1>i DEF Latest, LatestBalance, walletVars, rowVars
  <1> QED
    BY <1>1, <1>2, <1>3, <1>4, <1>5, <1>6, <1>7, <1>8, <1>9, <1>10, <1>11 DEF IInv

\* Steps of a handler that holds no row before or after them.
Strolls(p, l) ==
    \/ /\ p \in Purchases
       /\ \/ pc[p] = "accept" /\ l \in {"refused", "conflict"}
          \/ pc[p] = "create" /\ l = "failed"
          \/ pc[p] = "record" /\ l = "refundMark"
    \/ /\ p \in Admins
       /\ \/ pc[p] = "idle" /\ l = "adminAudit"
          \/ pc[p] = "adminCreate" /\ l = "failed"
          \/ pc[p] = "adminAudit" /\ l \in {"done", "failed"}

\* They change no order.
LEMMA StrollStep ==
    ASSUME IInv, NEW p \in Procs, NEW l, Strolls(p, l), pc' = [pc EXCEPT ![p] = l],
           UNCHANGED <<walletVars, provider, orderVars, rowVars, worth, sessions>>,
           discount' \in Discounts, planPrice' \in PlanPrices
    PROVE  IInv'
  <1>i. /\ TypeOK /\ KeysHeld /\ RefundsHeld /\ StatusHeld /\ WalletsHeld /\ Covered
        /\ RowsStand /\ RowsOnce /\ Latest
        /\ \A x \in Purchases : Placed(x) /\ Backed(x)
    BY DEF IInv
  <1>1. TypeOK'
    BY <1>i DEF TypeOK, WalletTypeOK, Running, Ended, Strolls, walletVars, orderVars, rowVars
  <1>2. (\A x \in Purchases : Placed(x))'
    BY <1>i, Kinds DEF Placed, Asked, Unpaid, Paid, RefundTx, Strolls, orderVars, rowVars
  <1>3. KeysHeld'
    BY <1>i DEF KeysHeld, DebitTx, Strolls, orderVars, rowVars
  <1>4. RefundsHeld'
    BY <1>i DEF RefundsHeld, AdminTx, Ended, Strolls, orderVars, rowVars
  <1>5. StatusHeld'
    BY <1>i DEF StatusHeld, RefundTx, AdminTx, Strolls, orderVars, rowVars
  <1>6. WalletsHeld'
    BY <1>i DEF WalletsHeld, Owned, Wallet, Amount, User, Strolls, walletVars, orderVars
  <1>7. Covered'
    BY <1>i DEF Covered, Strolls, walletVars, orderVars
  <1>8. RowsStand'
    BY <1>i DEF RowsStand, RowStands, User, Strolls, walletVars, orderVars, rowVars
  <1>9. RowsOnce'
    BY <1>i DEF RowsOnce, walletVars
  <1>10. (\A x \in Purchases : Backed(x))'
    BY <1>i DEF Backed, User, walletVars, orderVars, rowVars
  <1>11. Latest'
    BY <1>i DEF Latest, LatestBalance, walletVars, rowVars
  <1> QED
    BY <1>1, <1>2, <1>3, <1>4, <1>5, <1>6, <1>7, <1>8, <1>9, <1>10, <1>11 DEF IInv

\* Where the handlers in P may end when their open transactions are dropped.
Drops(P) ==
    /\ \A q \in Procs \ P : pc'[q] = pc[q]
    /\ \A q \in P : pc[q] \in Running /\
         \/ pc'[q] = "lost"
         \/ pc'[q] \in {"refused", "failed"} /\ pc[q] \in Unpaid \cup AdminTx \cup {"adminCreate"}
         \/ pc'[q] = "sorry" /\ q \in Purchases /\ pc[q] \in Paid

\* Dropped transactions leave the committed rows and what they stand for.
LEMMA DropStep ==
    ASSUME IInv, NEW P \in SUBSET Procs, Drops(P), Discard(P),
           pc' \in [Procs -> {"idle"} \cup Running \cup Ended],
           UNCHANGED <<priceVars, orderVars, worth>>, sessions' \subseteq Bills
    PROVE  IInv'
  <1>i. /\ TypeOK /\ KeysHeld /\ RefundsHeld /\ StatusHeld /\ WalletsHeld /\ Covered
        /\ RowsStand /\ RowsOnce /\ Latest
        /\ \A x \in Purchases : Placed(x) /\ Backed(x)
    BY DEF IInv
  <1>u. UNCHANGED <<priceVars, order, net, target, worth, balance, entries, seen, status,
                    keyRow, refund>>
    BY DEF Discard, RollbackWallets, orderVars
  <1>a. \A q \in Procs :
          /\ q \notin P => pc'[q] = pc[q]
          /\ q \in P => pc[q] \in Running /\ pc'[q] \in {"lost", "refused", "failed", "sorry"}
    BY DEF Drops
  <1>p. \A q \in Purchases :
          \/ pc'[q] = pc[q]
          \/ /\ pc[q] \in Running
             /\ \/ pc'[q] = "lost"
                \/ pc'[q] \in {"refused", "failed"} /\ pc[q] \in Unpaid
                \/ pc'[q] = "sorry" /\ pc[q] \in Paid
    BY <1>i, Kinds DEF Drops, Placed, Unpaid, Paid, RefundTx, AdminTx
  <1>d. \A u \in Users :
          dirty'[u] = IF dirty[u] # Clean /\ dirty[u].by \in P THEN Clean ELSE dirty[u]
    BY DEF Discard, RollbackWallets, Owned
  <1>s. \A t \in Purchases :
          statusDraft'[t] = IF statusDraft[t] # Clean /\ statusDraft[t].by \in P
                            THEN Clean ELSE statusDraft[t]
    BY DEF Discard
  <1>k. \A k \in Keys : keyClaim'[k] = IF keyClaim[k] \in P THEN Nobody ELSE keyClaim[k]
    BY DEF Discard
  <1>o. \A q \in Purchases : User(q)' = User(q)
    BY <1>u DEF User
  <1>w. \A q \in Procs : q \notin Admins \/ target[q] \in Purchases => Wallet(q)' = Wallet(q) /\ Amount(q)' = Amount(q)
    BY <1>u DEF Wallet, Amount, User
  <1>1. TypeOK'
    BY <1>i DEF TypeOK, WalletTypeOK, Discard, RollbackWallets, priceVars, orderVars
  <1>2. (\A x \in Purchases : Placed(x))'
    BY <1>i, <1>u, <1>p
    DEF Placed, Asked, Unpaid, Paid, RefundTx, AdminTx, Running, Open, DebitTx
  <1>3. KeysHeld'
    <2>1. \A q \in Purchases : pc'[q] \in DebitTx => q \notin P /\ pc[q] \in DebitTx
      BY <1>a, Kinds DEF DebitTx
    <2>2. \A k \in Keys : keyClaim'[k] # Nobody => keyClaim'[k] = keyClaim[k] /\ keyClaim[k] \notin P
      BY <1>k
    <2>3. \A k \in Keys : keyClaim[k] \in Purchases \cup {Nobody}
      BY <1>i DEF TypeOK
    <2> QED
      BY <1>i, <1>u, <1>a, <1>k, <2>1, <2>2, <2>3, OrderType, Kinds DEF KeysHeld, DebitTx
  <1>4. RefundsHeld'
    BY <1>i, Kinds
    DEF RefundsHeld, TypeOK, AdminTx, Ended, Drops, Discard, RollbackWallets, orderVars
  <1>5. StatusHeld'
    <2>1. \A q \in Procs : pc'[q] \in RefundTx \cup AdminTx => q \notin P /\ pc'[q] = pc[q]
      BY <1>a DEF RefundTx, AdminTx
    <2>2. \A t \in Purchases : statusDraft'[t] # Clean =>
            statusDraft'[t] = statusDraft[t] /\ statusDraft[t].by \notin P
      BY <1>s
    <2>3. \A t \in Purchases : statusDraft[t] # Clean => statusDraft[t].by \in Procs
      BY <1>i DEF TypeOK
    <2>4. \A q \in Procs, t \in Purchases : q \notin P => [by |-> q, to |-> "REFUNDED"].by \notin P
      OBVIOUS
    <2>5. \A q \in Admins : pc[q] \in AdminTx => target[q] \in Purchases
      BY <1>i DEF RefundsHeld
    <2> QED
      BY <1>i, <1>u, <1>a, <1>s, <2>1, <2>2, <2>3, <2>4, <2>5, Kinds DEF StatusHeld
  <1>6. WalletsHeld'
    <2>1. \A q \in Procs : pc'[q] \in {"debitCommit", "refundCommit", "adminCommit"} =>
            q \notin P /\ pc'[q] = pc[q]
      BY <1>a
    <2>2. \A u \in Users : dirty'[u] # Clean => dirty'[u] = dirty[u] /\ dirty[u].by \notin P
      BY <1>d
    <2>3. \A u \in Users : dirty[u] # Clean => dirty[u].by \in Procs
      BY <1>i DEF TypeOK, WalletTypeOK, Version
    <2>4. \A q \in Procs : Wallet(q)' = Wallet(q) /\ Amount(q)' = Amount(q)
      BY <1>u DEF Wallet, Amount, User
    <2>5. \A q \in Procs : q \notin P =>
            \A u \in Users : Owned(q, u) => Owned(q, u)'
      BY <1>d DEF Owned
    <2>6. \A q \in Procs : pc[q] \in {"debitCommit", "refundCommit", "adminCommit"} => Wallet(q) \in Users
      BY <1>i, WalletType DEF Open, DebitTx, RefundTx, AdminTx
    <2> QED
      BY <1>i, <1>a, <2>1, <2>2, <2>3, <2>4, <2>5, <2>6, Kinds DEF WalletsHeld
  <1>7. Covered'
    BY <1>i, Kinds DEF Covered, Drops, Discard, RollbackWallets, orderVars
  <1>8. RowsStand'
    <2>1. \A q \in Purchases : pc[q] = "sorry" => pc'[q] = "sorry"
      BY <1>a, Kinds DEF Running, Open, DebitTx, RefundTx, AdminTx
    <2> QED
      BY <1>i, <1>u, <2>1 DEF RowsStand, RowStands, User
  <1>9. RowsOnce'
    BY <1>i DEF RowsOnce, Discard, RollbackWallets
  <1>10. (\A x \in Purchases : Backed(x))'
    BY <1>i DEF Backed, User, Discard, RollbackWallets, orderVars
  <1>11. Latest'
    BY <1>i DEF Latest, LatestBalance, Discard, RollbackWallets
  <1> QED
    BY <1>1, <1>2, <1>3, <1>4, <1>5, <1>6, <1>7, <1>8, <1>9, <1>10, <1>11 DEF IInv

\* A request gets its order, then its price, before anything else knows it.
LEMMA RequestStep ==
    ASSUME IInv, NEW p \in Purchases, NEW l,
           (pc[p] = "idle" /\ l = "accept") \/ (pc[p] = "accept" /\ l = "create"),
           pc' = [pc EXCEPT ![p] = l],
           order' \in [Purchases -> Order \cup {NoOrder}], order'[p] \in Order,
           net' \in [Purchases -> Nat],
           \A q \in Purchases : q # p => order'[q] = order[q] /\ net'[q] = net[q],
           UNCHANGED <<walletVars, priceVars, target, rowVars, outsideVars>>
    PROVE  IInv'
  <1>i. /\ TypeOK /\ KeysHeld /\ RefundsHeld /\ StatusHeld /\ WalletsHeld /\ Covered
        /\ RowsStand /\ RowsOnce /\ Latest
        /\ \A x \in Purchases : Placed(x) /\ Backed(x)
    BY DEF IInv
  <1>u. UNCHANGED <<walletVars, priceVars, target, rowVars, sessions, worth>>
    BY DEF outsideVars
  <1>s. status[p] = "absent" /\ worth[p] = Absent
    BY <1>i DEF Placed, Unpaid
  <1>p. pc[p] \in {"idle", "accept"} /\ l \in {"accept", "create"}
    OBVIOUS
  <1>q. \A q \in Procs : q # p => pc'[q] = pc[q]
    BY <1>i DEF TypeOK
  <1>1. TypeOK'
    BY <1>i, <1>u DEF TypeOK, WalletTypeOK, Running, walletVars, priceVars, rowVars
  <1>2. (\A x \in Purchases : Placed(x))'
    BY <1>i, <1>u DEF Placed, Asked, Unpaid, Paid, RefundTx, rowVars
  <1>3. KeysHeld'
    BY <1>i, <1>s DEF KeysHeld, TypeOK, DebitTx, rowVars
  <1>4. RefundsHeld'
    BY <1>i, Kinds DEF RefundsHeld, TypeOK, rowVars
  <1>5. StatusHeld'
    BY <1>i, Kinds DEF StatusHeld, RefundTx, rowVars
  <1>6. WalletsHeld'
    <2>1. \A q \in Procs : pc[q] \in {"debitCommit", "refundCommit", "adminCommit"} =>
            pc'[q] = pc[q] /\ Wallet(q)' = Wallet(q) /\ Amount(q)' = Amount(q)
      <3> SUFFICES ASSUME NEW q \in Procs, pc[q] \in {"debitCommit", "refundCommit", "adminCommit"}
                   PROVE  pc'[q] = pc[q] /\ Wallet(q)' = Wallet(q) /\ Amount(q)' = Amount(q)
        OBVIOUS
      <3>1. q # p
        BY <1>p
      <3>2. CASE q \in Admins
        <4>1. target[q] \in Purchases /\ target[q] # p
          BY <1>i, <1>s, <3>2, Kinds DEF RefundsHeld, AdminTx, Ended
        <4> QED
          BY <1>u, <1>q, <3>1, <3>2, <4>1 DEF Wallet, Amount, User
      <3>3. CASE q \notin Admins
        BY <1>u, <1>q, <3>1, <3>3, Kinds DEF Wallet, Amount, User
      <3> QED
        BY <3>2, <3>3
    <2>2. \A u \in Users : dirty[u] # Clean => dirty[u].by \in Procs
      BY <1>i DEF TypeOK, WalletTypeOK, Version
    <2>3. \A q \in Procs : pc'[q] \in {"debitCommit", "refundCommit", "adminCommit"} => pc'[q] = pc[q]
      BY <1>i, <1>p, <1>q DEF TypeOK
    <2>4. UNCHANGED dirty
      BY <1>u DEF walletVars
    <2> QED
      BY <1>i, <2>1, <2>2, <2>3, <2>4 DEF WalletsHeld, Owned
  <1>7. Covered'
    BY <1>i DEF Covered, walletVars
  <1>8. RowsStand'
    BY <1>i, <1>s, Kinds DEF RowsStand, RowStands, User, RefundsHeld, walletVars, rowVars
  <1>9. RowsOnce'
    BY <1>i DEF RowsOnce, walletVars
  <1>10. (\A x \in Purchases : Backed(x))'
    <2>1. \A t \in Purchases : status[t] # "absent" => User(t)' = User(t)
      BY <1>s DEF User
    <2>2. UNCHANGED <<entries, status, target>>
      BY <1>u DEF walletVars, rowVars
    <2> QED
      BY <1>i, <2>1, <2>2 DEF Backed
  <1>11. Latest'
    BY <1>i DEF Latest, LatestBalance, walletVars, rowVars
  <1> QED
    BY <1>1, <1>2, <1>3, <1>4, <1>5, <1>6, <1>7, <1>8, <1>9, <1>10, <1>11 DEF IInv

\* An order is inserted with its key.
LEMMA ClaimStep ==
    ASSUME IInv, NEW p \in Purchases, pc[p] = "create", pc' = [pc EXCEPT ![p] = "debitRead"],
           keyClaim[order[p].key] = Nobody, keyRow[order[p].key] = Nobody,
           keyClaim' = [keyClaim EXCEPT ![order[p].key] = p],
           UNCHANGED <<walletVars, priceVars, orderVars, outsideVars, status, statusDraft,
                       keyRow, refund, refundClaim>>
    PROVE  IInv'
  <1>i. /\ TypeOK /\ KeysHeld /\ RefundsHeld /\ StatusHeld /\ WalletsHeld /\ Covered
        /\ RowsStand /\ RowsOnce /\ Latest
        /\ \A x \in Purchases : Placed(x) /\ Backed(x)
    BY DEF IInv
  <1>k. order[p].key \in Keys
    BY <1>i, OrderType
  <1>1. TypeOK'
    BY <1>i
    DEF TypeOK, WalletTypeOK, Running, Open, DebitTx, walletVars, priceVars, orderVars,
        outsideVars
  <1>2. (\A x \in Purchases : Placed(x))'
    BY <1>i DEF Placed, Asked, Unpaid, Paid, RefundTx, orderVars, outsideVars
  <1>3. KeysHeld'
    BY <1>i, <1>k, Kinds DEF KeysHeld, TypeOK, DebitTx, orderVars
  <1>4. RefundsHeld'
    BY <1>i, Kinds DEF RefundsHeld, TypeOK, orderVars
  <1>5. StatusHeld'
    BY <1>i, Kinds DEF StatusHeld, RefundTx, orderVars
  <1>6. WalletsHeld'
    BY <1>i DEF WalletsHeld, Owned, Wallet, Amount, User, walletVars, orderVars
  <1>7. Covered'
    BY <1>i DEF Covered, walletVars, orderVars
  <1>8. RowsStand'
    BY <1>i DEF RowsStand, RowStands, User, walletVars, orderVars
  <1>9. RowsOnce'
    BY <1>i DEF RowsOnce, walletVars
  <1>10. (\A x \in Purchases : Backed(x))'
    BY <1>i DEF Backed, User, walletVars, orderVars
  <1>11. Latest'
    BY <1>i DEF Latest, LatestBalance, walletVars
  <1> QED
    BY <1>1, <1>2, <1>3, <1>4, <1>5, <1>6, <1>7, <1>8, <1>9, <1>10, <1>11 DEF IInv

\* The moves of a handler within its transaction.
Reads(from, to) ==
    \/ from = "debitRead" /\ to = "debitWrite"
    \/ from = "refundRead" /\ to = "refundWrite"
    \/ from = "adminRead" /\ to = "adminWrite"

Writes(from, to) ==
    \/ from = "debitWrite" /\ to = "debitCommit"
    \/ from = "refundWrite" /\ to = "refundCommit"
    \/ from = "adminWrite" /\ to = "adminCommit"

\* A balance is read.
LEMMA ReadStep ==
    ASSUME IInv, NEW p \in Procs, NEW l, Reads(pc[p], l), pc' = [pc EXCEPT ![p] = l],
           ReadWallet(p, Wallet(p)), l = "debitWrite" => balance[Wallet(p)] >= Amount(p),
           UNCHANGED <<priceVars, orderVars, rowVars, outsideVars>>
    PROVE  IInv'
  <1>i. /\ TypeOK /\ KeysHeld /\ RefundsHeld /\ StatusHeld /\ WalletsHeld /\ Covered
        /\ RowsStand /\ RowsOnce /\ Latest
        /\ \A x \in Purchases : Placed(x) /\ Backed(x)
    BY DEF IInv
  <1>w. Wallet(p) \in Users /\ Amount(p) \in Nat
    BY <1>i, WalletType DEF Reads, Open, DebitTx, RefundTx, AdminTx
  <1>t. WalletTypeOK'
    BY <1>i, <1>w, ReadWalletType DEF TypeOK
  <1>s. /\ seen' = [seen EXCEPT ![p] = balance[Wallet(p)]]
        /\ UNCHANGED <<balance, entries, dirty>>
    BY DEF ReadWallet
  <1>1. TypeOK'
    BY <1>i, <1>t
    DEF TypeOK, Running, Open, DebitTx, RefundTx, AdminTx, Reads, priceVars, orderVars, rowVars,
        outsideVars
  <1>2. (\A x \in Purchases : Placed(x))'
    BY <1>i DEF Placed, Asked, Unpaid, Paid, RefundTx, Reads, orderVars, rowVars, outsideVars
  <1>3. KeysHeld'
    BY <1>i DEF KeysHeld, DebitTx, Reads, orderVars, rowVars
  <1>4. RefundsHeld'
    BY <1>i DEF RefundsHeld, AdminTx, Ended, Reads, orderVars, rowVars
  <1>5. StatusHeld'
    BY <1>i DEF StatusHeld, RefundTx, AdminTx, Reads, orderVars, rowVars
  <1>6. WalletsHeld'
    BY <1>i, <1>s DEF WalletsHeld, Owned, Wallet, Amount, User, Reads, orderVars
  <1>7. Covered'
    BY <1>i, <1>w, <1>s, Kinds DEF Covered, TypeOK, WalletTypeOK, Amount, orderVars
  <1>8. RowsStand'
    BY <1>i, <1>s DEF RowsStand, RowStands, User, Reads, orderVars, rowVars
  <1>9. RowsOnce'
    BY <1>i, <1>s DEF RowsOnce
  <1>10. (\A x \in Purchases : Backed(x))'
    BY <1>i, <1>s DEF Backed, User, orderVars, rowVars
  <1>11. Latest'
    BY <1>i, <1>s DEF Latest, LatestBalance, rowVars
  <1> QED
    BY <1>1, <1>2, <1>3, <1>4, <1>5, <1>6, <1>7, <1>8, <1>9, <1>10, <1>11 DEF IInv

\* A wallet row is written, with the ledger row that goes with it.
LEMMA WriteStep ==
    ASSUME IInv, NEW p \in Procs, NEW l, Writes(pc[p], l), pc' = [pc EXCEPT ![p] = l],
           NEW b \in Nat, NEW e \in Entry, WriteWallet(p, Wallet(p), b, e),
           e.ref = p, e.amount = Amount(p), p \in Purchases => b = e.after,
           l = "debitCommit" => e.type = "DEBIT", l # "debitCommit" => e.type = "CREDIT",
           UNCHANGED <<priceVars, orderVars, rowVars, outsideVars>>
    PROVE  IInv'
  <1>i. /\ TypeOK /\ KeysHeld /\ RefundsHeld /\ StatusHeld /\ WalletsHeld /\ Covered
        /\ RowsStand /\ RowsOnce /\ Latest
        /\ \A x \in Purchases : Placed(x) /\ Backed(x)
    BY DEF IInv
  <1>w. Wallet(p) \in Users
    BY <1>i, WalletType DEF Writes, Open, DebitTx, RefundTx, AdminTx
  <1>t. WalletTypeOK'
    BY <1>i, <1>w, WriteWalletType DEF TypeOK
  <1>s. /\ dirty[Wallet(p)] = Clean
        /\ dirty'[Wallet(p)] # Clean
        /\ dirty'[Wallet(p)].by = p
        /\ dirty'[Wallet(p)].balance = b
        /\ dirty'[Wallet(p)].entry = e
        /\ \A v \in Users : v # Wallet(p) => dirty'[v] = dirty[v]
    BY <1>i, <1>w, WriteWalletOwns DEF TypeOK
  <1>u. UNCHANGED <<balance, entries, seen>>
    BY DEF WriteWallet
  <1>1. TypeOK'
    BY <1>i, <1>t
    DEF TypeOK, Running, Open, DebitTx, RefundTx, AdminTx, Writes, priceVars, orderVars,
        rowVars, outsideVars
  <1>2. (\A x \in Purchases : Placed(x))'
    BY <1>i DEF Placed, Asked, Unpaid, Paid, RefundTx, Writes, orderVars, rowVars, outsideVars
  <1>3. KeysHeld'
    BY <1>i DEF KeysHeld, DebitTx, Writes, orderVars, rowVars
  <1>4. RefundsHeld'
    BY <1>i DEF RefundsHeld, AdminTx, Ended, Writes, orderVars, rowVars
  <1>5. StatusHeld'
    BY <1>i DEF StatusHeld, RefundTx, AdminTx, Writes, orderVars, rowVars
  <1>6. WalletsHeld'
    <2>1. \A q \in Procs : Wallet(q)' = Wallet(q) /\ Amount(q)' = Amount(q)
      BY DEF Wallet, Amount, User, orderVars
    <2>2. \A u \in Users : dirty[u] # Clean => dirty[u].by \in Procs
      BY <1>i DEF TypeOK, WalletTypeOK, Version
    <2>3. /\ pc'[p] = l /\ \A q \in Procs : q # p => pc'[q] = pc[q]
          /\ pc[p] \notin {"debitCommit", "refundCommit", "adminCommit"}
          /\ l \in {"debitCommit", "refundCommit", "adminCommit"}
      BY <1>i DEF TypeOK, Writes
    <2>4. ASSUME NEW q \in Procs, pc'[q] \in {"debitCommit", "refundCommit", "adminCommit"}
          PROVE  Owned(q, Wallet(q))'
      <3>1. CASE q = p
        BY <1>s, <2>1, <3>1 DEF Owned
      <3>2. CASE q # p
        <4>1. Owned(q, Wallet(q)) /\ Wallet(q) \in Users
          BY <1>i, <2>3, <2>4, <3>2, WalletType
          DEF WalletsHeld, Open, DebitTx, RefundTx, AdminTx
        <4> QED
          BY <1>s, <2>1, <4>1 DEF Owned
      <3> QED
        BY <3>1, <3>2
    <2>5. ASSUME NEW u \in Users, dirty'[u] # Clean
          PROVE  /\ dirty'[u].by \in Procs
                 /\ dirty'[u].entry.ref = dirty'[u].by /\ u = Wallet(dirty'[u].by)
                 /\ dirty'[u].entry.amount = Amount(dirty'[u].by)
                 /\ \/ pc'[dirty'[u].by] = "debitCommit" /\ dirty'[u].entry.type = "DEBIT"
                    \/ /\ pc'[dirty'[u].by] \in {"refundCommit", "adminCommit"}
                       /\ dirty'[u].entry.type = "CREDIT"
                 /\ dirty'[u].by \in Purchases => dirty'[u].balance = dirty'[u].entry.after
                 /\ dirty'[u].balance >= 0
      <3>1. CASE u = Wallet(p)
        BY <1>s, <2>1, <2>3, <3>1
      <3>2. CASE u # Wallet(p)
        <4>1. dirty'[u] = dirty[u] /\ dirty[u].by \in Procs
          BY <1>s, <2>2, <2>5, <3>2
        <4>2. dirty[u].by # p
          BY <1>i, <2>3, <2>5, <4>1 DEF WalletsHeld
        <4> QED
          BY <1>i, <2>1, <2>3, <2>5, <4>1, <4>2 DEF WalletsHeld
      <3> QED
        BY <3>1, <3>2
    <2> QED
      BY <2>1, <2>4, <2>5 DEF WalletsHeld
  <1>7. Covered'
    BY <1>i, <1>u DEF Covered, Writes, orderVars
  <1>8. RowsStand'
    BY <1>i, <1>u DEF RowsStand, RowStands, User, Writes, orderVars, rowVars
  <1>9. RowsOnce'
    BY <1>i, <1>u DEF RowsOnce
  <1>10. (\A x \in Purchases : Backed(x))'
    BY <1>i, <1>u DEF Backed, User, orderVars, rowVars
  <1>11. Latest'
    BY <1>i, <1>u DEF Latest, LatestBalance, rowVars
  <1> QED
    BY <1>1, <1>2, <1>3, <1>4, <1>5, <1>6, <1>7, <1>8, <1>9, <1>10, <1>11 DEF IInv

\* A delivered order is set to SUCCESS.
LEMMA RecordStep ==
    ASSUME IInv, NEW p \in Purchases, pc[p] = "record", pc' = [pc EXCEPT ![p] = "done"],
           statusDraft[p] = Clean, status' = [status EXCEPT ![p] = "SUCCESS"],
           UNCHANGED <<walletVars, priceVars, orderVars, outsideVars, statusDraft,
                       keyRow, keyClaim, refund, refundClaim>>
    PROVE  IInv'
  <1>i. /\ TypeOK /\ KeysHeld /\ RefundsHeld /\ StatusHeld /\ WalletsHeld /\ Covered
        /\ RowsStand /\ RowsOnce /\ Latest
        /\ \A x \in Purchases : Placed(x) /\ Backed(x)
    BY DEF IInv
  <1>s. status[p] # "absent"
    BY <1>i DEF Placed, Paid
  <1>1. TypeOK'
    BY <1>i
    DEF TypeOK, WalletTypeOK, Ended, Statuses, walletVars, priceVars, orderVars, outsideVars
  <1>2. (\A x \in Purchases : Placed(x))'
    BY <1>i DEF Placed, Asked, Unpaid, Paid, orderVars, outsideVars
  <1>3. KeysHeld'
    BY <1>i, <1>s DEF KeysHeld, DebitTx, orderVars
  <1>4. RefundsHeld'
    BY <1>i, Kinds DEF RefundsHeld, TypeOK, orderVars
  <1>5. StatusHeld'
    BY <1>i, Kinds DEF StatusHeld, RefundTx, orderVars
  <1>6. WalletsHeld'
    BY <1>i DEF WalletsHeld, Owned, Wallet, Amount, User, walletVars, orderVars
  <1>7. Covered'
    BY <1>i DEF Covered, walletVars, orderVars
  <1>8. RowsStand'
    BY <1>i DEF RowsStand, RowStands, User, walletVars, orderVars
  <1>9. RowsOnce'
    BY <1>i DEF RowsOnce, walletVars
  <1>10. (\A x \in Purchases : Backed(x))'
    BY <1>i, <1>s DEF Backed, User, walletVars, orderVars
  <1>11. Latest'
    BY <1>i DEF Latest, LatestBalance, walletVars
  <1> QED
    BY <1>1, <1>2, <1>3, <1>4, <1>5, <1>6, <1>7, <1>8, <1>9, <1>10, <1>11 DEF IInv

\* The provider delivers what was asked for, or not.
LEMMA ProviderStep ==
    ASSUME IInv, NEW p \in Purchases, pc[p] = "provider", NEW l \in {"record", "refundMark"},
           pc' = [pc EXCEPT ![p] = l], NEW w \in Nat \cup {Absent},
           worth' = [worth EXCEPT ![p] = w], l = "record" => w # Absent,
           w # Absent => w - Asked(p) \in -50..50, sessions' \subseteq Bills,
           UNCHANGED <<walletVars, priceVars, orderVars, rowVars>>
    PROVE  IInv'
  <1>i. /\ TypeOK /\ KeysHeld /\ RefundsHeld /\ StatusHeld /\ WalletsHeld /\ Covered
        /\ RowsStand /\ RowsOnce /\ Latest
        /\ \A x \in Purchases : Placed(x) /\ Backed(x)
    BY DEF IInv
  <1>1. TypeOK'
    BY <1>i DEF TypeOK, WalletTypeOK, Running, walletVars, priceVars, orderVars, rowVars
  <1>2. (\A x \in Purchases : Placed(x))'
    BY <1>i, Kinds DEF Placed, Asked, TypeOK, Unpaid, Paid, orderVars, rowVars
  <1>3. KeysHeld'
    BY <1>i DEF KeysHeld, DebitTx, orderVars, rowVars
  <1>4. RefundsHeld'
    BY <1>i, Kinds DEF RefundsHeld, TypeOK, orderVars, rowVars
  <1>5. StatusHeld'
    BY <1>i, Kinds DEF StatusHeld, RefundTx, orderVars, rowVars
  <1>6. WalletsHeld'
    BY <1>i DEF WalletsHeld, Owned, Wallet, Amount, User, walletVars, orderVars
  <1>7. Covered'
    BY <1>i DEF Covered, walletVars, orderVars
  <1>8. RowsStand'
    BY <1>i DEF RowsStand, RowStands, User, walletVars, orderVars, rowVars
  <1>9. RowsOnce'
    BY <1>i DEF RowsOnce, walletVars
  <1>10. (\A x \in Purchases : Backed(x))'
    BY <1>i DEF Backed, User, walletVars, orderVars, rowVars
  <1>11. Latest'
    BY <1>i DEF Latest, LatestBalance, walletVars, rowVars
  <1> QED
    BY <1>1, <1>2, <1>3, <1>4, <1>5, <1>6, <1>7, <1>8, <1>9, <1>10, <1>11 DEF IInv

\* An order is marked REFUNDED under its row lock.
LEMMA MarkStep ==
    ASSUME IInv, NEW p \in Procs, NEW t \in Purchases, NEW l,
           \/ p \in Purchases /\ t = p /\ pc[p] = "refundMark" /\ l = "refundRead"
           \/ p \in Admins /\ t = target[p] /\ pc[p] = "adminMark" /\ l = "adminRead",
           MarkRefunded(p, t), pc' = [pc EXCEPT ![p] = l],
           UNCHANGED <<walletVars, priceVars, orderVars, outsideVars>>
    PROVE  IInv'
  <1>i. /\ TypeOK /\ KeysHeld /\ RefundsHeld /\ StatusHeld /\ WalletsHeld /\ Covered
        /\ RowsStand /\ RowsOnce /\ Latest
        /\ \A x \in Purchases : Placed(x) /\ Backed(x)
    BY DEF IInv
  <1>v. [by |-> p, to |-> "REFUNDED"] \in [by: Procs, to: Statuses]
    BY DEF Statuses
  <1>s. /\ statusDraft[t] = Clean
        /\ statusDraft' \in [Purchases -> [by: Procs, to: Statuses] \cup {Clean}]
        /\ statusDraft'[t] = [by |-> p, to |-> "REFUNDED"]
        /\ \A x \in Purchases : x # t => statusDraft'[x] = statusDraft[x]
        /\ UNCHANGED <<status, keyRow, keyClaim, refund, refundClaim>>
    BY <1>i, <1>v DEF MarkRefunded, TypeOK
  <1>1. TypeOK'
    BY <1>i, <1>s
    DEF TypeOK, WalletTypeOK, Running, Open, RefundTx, AdminTx, walletVars, priceVars,
        orderVars, outsideVars
  <1>2. (\A x \in Purchases : Placed(x))'
    BY <1>i, <1>s DEF Placed, Asked, Unpaid, Paid, RefundTx, walletVars, orderVars, outsideVars
  <1>3. KeysHeld'
    BY <1>i, <1>s DEF KeysHeld, DebitTx, orderVars
  <1>4. RefundsHeld'
    BY <1>i, <1>s, Kinds DEF RefundsHeld, TypeOK, AdminTx, orderVars
  <1>5. StatusHeld'
    <2>1. pc'[p] = l /\ \A q \in Procs : q # p => pc'[q] = pc[q]
      BY <1>i DEF TypeOK
    <2>2. UNCHANGED target
      BY DEF orderVars
    <2>3. pc[p] \notin RefundTx /\ pc[p] \notin AdminTx \ {"adminMark"}
      BY DEF RefundTx, AdminTx
    <2>4. \A q \in Purchases : pc'[q] \in RefundTx => statusDraft'[q] = [by |-> q, to |-> "REFUNDED"]
      <3> SUFFICES ASSUME NEW q \in Purchases, pc'[q] \in RefundTx
                   PROVE  statusDraft'[q] = [by |-> q, to |-> "REFUNDED"]
        OBVIOUS
      <3>1. CASE q = p
        BY <1>s, <3>1, Kinds
      <3>2. CASE q # p
        <4>1. statusDraft[q] = [by |-> q, to |-> "REFUNDED"]
          BY <1>i, <2>1, <3>2, Kinds DEF StatusHeld
        <4>2. q # t
          BY <1>s, <1>v, <4>1, PurchaseAssumption, Kinds DEF Statuses
        <4> QED
          BY <1>s, <4>1, <4>2
      <3> QED
        BY <3>1, <3>2
    <2>5. \A q \in Admins : pc'[q] \in AdminTx \ {"adminMark"} =>
            statusDraft'[target[q]] = [by |-> q, to |-> "REFUNDED"]
      <3> SUFFICES ASSUME NEW q \in Admins, pc'[q] \in AdminTx \ {"adminMark"}
                   PROVE  statusDraft'[target[q]] = [by |-> q, to |-> "REFUNDED"]
        OBVIOUS
      <3>1. CASE q = p
        BY <1>s, <3>1, Kinds
      <3>2. CASE q # p
        <4>1. statusDraft[target[q]] = [by |-> q, to |-> "REFUNDED"] /\ target[q] \in Purchases
          BY <1>i, <2>1, <3>2, Kinds DEF StatusHeld, RefundsHeld
        <4>2. target[q] # t
          <5>1. [by |-> q, to |-> "REFUNDED"] \in [by: Procs, to: Statuses]
            BY Kinds DEF Statuses
          <5> QED
            BY <1>s, <4>1, <5>1, PurchaseAssumption
        <4> QED
          BY <1>s, <4>1, <4>2
      <3> QED
        BY <3>1, <3>2
    <2>6. \A x \in Purchases : statusDraft'[x] # Clean =>
            /\ statusDraft'[x].to = "REFUNDED"
            /\ \/ statusDraft'[x].by = x /\ pc'[x] \in RefundTx
               \/ /\ statusDraft'[x].by \in Admins
                  /\ target[statusDraft'[x].by] = x
                  /\ pc'[statusDraft'[x].by] \in AdminTx \ {"adminMark"}
      <3> SUFFICES ASSUME NEW x \in Purchases, statusDraft'[x] # Clean
                   PROVE  /\ statusDraft'[x].to = "REFUNDED"
                          /\ \/ statusDraft'[x].by = x /\ pc'[x] \in RefundTx
                             \/ /\ statusDraft'[x].by \in Admins
                                /\ target[statusDraft'[x].by] = x
                                /\ pc'[statusDraft'[x].by] \in AdminTx \ {"adminMark"}
        OBVIOUS
      <3>1. CASE x = t
        <4>1. statusDraft'[x].to = "REFUNDED" /\ statusDraft'[x].by = p
          BY <1>s, <3>1
        <4> QED
          BY <2>1, <3>1, <4>1 DEF RefundTx, AdminTx
      <3>2. CASE x # t
        BY <1>i, <1>s, <2>1, <2>3, <3>2, Kinds DEF StatusHeld
      <3> QED
        BY <3>1, <3>2
    <2> QED
      BY <2>2, <2>4, <2>5, <2>6 DEF StatusHeld
  <1>6. WalletsHeld'
    BY <1>i DEF WalletsHeld, Owned, Wallet, Amount, User, walletVars, orderVars
  <1>7. Covered'
    BY <1>i DEF Covered, walletVars, orderVars
  <1>8. RowsStand'
    BY <1>i, <1>s DEF RowsStand, RowStands, User, walletVars, orderVars
  <1>9. RowsOnce'
    BY <1>i DEF RowsOnce, walletVars
  <1>10. (\A x \in Purchases : Backed(x))'
    BY <1>i, <1>s DEF Backed, User, walletVars, orderVars
  <1>11. Latest'
    BY <1>i, <1>s DEF Latest, LatestBalance, walletVars
  <1> QED
    BY <1>1, <1>2, <1>3, <1>4, <1>5, <1>6, <1>7, <1>8, <1>9, <1>10, <1>11 DEF IInv

\* An administrator chooses an order that exists.
LEMMA LookupStep ==
    ASSUME IInv, NEW p \in Admins, NEW t \in Purchases, pc[p] = "idle", status[t] # "absent",
           target' = [target EXCEPT ![p] = t], NEW l \in {"conflict", "adminCreate"},
           pc' = [pc EXCEPT ![p] = l],
           UNCHANGED <<walletVars, priceVars, order, net, rowVars, outsideVars>>
    PROVE  IInv'
  <1>i. /\ TypeOK /\ KeysHeld /\ RefundsHeld /\ StatusHeld /\ WalletsHeld /\ Covered
        /\ RowsStand /\ RowsOnce /\ Latest
        /\ \A x \in Purchases : Placed(x) /\ Backed(x)
    BY DEF IInv
  <1>r. \A u \in Users : dirty[u] # Clean => dirty[u].by # p /\ dirty[u].by \in Procs
    BY <1>i DEF WalletsHeld, TypeOK, WalletTypeOK, Version
  <1>e. \A u \in Users : \A i \in DOMAIN entries[u] : entries[u][i].ref # p
    <2> SUFFICES ASSUME NEW u \in Users, NEW i \in DOMAIN entries[u], entries[u][i].ref = p
                 PROVE  FALSE
      OBVIOUS
    <2>1. target[p] \in Purchases /\ refund[target[p]] = p
      BY <1>i DEF RowsStand, RowStands
    <2>2. pc[p] \in Ended \cup {"adminAudit"}
      BY <1>i, <2>1, Kinds DEF RefundsHeld
    <2> QED
      BY <2>2 DEF Ended
  <1>1. TypeOK'
    BY <1>i
    DEF TypeOK, WalletTypeOK, Running, Ended, walletVars, priceVars, rowVars, outsideVars
  <1>2. (\A x \in Purchases : Placed(x))'
    BY <1>i, Kinds DEF Placed, Asked, rowVars, outsideVars
  <1>3. KeysHeld'
    BY <1>i, Kinds DEF KeysHeld, TypeOK, rowVars
  <1>4. RefundsHeld'
    BY <1>i DEF RefundsHeld, TypeOK, AdminTx, Ended, rowVars
  <1>5. StatusHeld'
    BY <1>i, Kinds DEF StatusHeld, AdminTx, rowVars
  <1>6. WalletsHeld'
    BY <1>i DEF WalletsHeld, Owned, Wallet, Amount, User, walletVars
  <1>7. Covered'
    BY <1>i DEF Covered, walletVars
  <1>8. RowsStand'
    BY <1>i, Kinds
    DEF RowsStand, RowStands, User, RefundsHeld, AdminTx, Ended, walletVars, rowVars
  <1>9. RowsOnce'
    BY <1>i DEF RowsOnce, walletVars
  <1>10. (\A x \in Purchases : Backed(x))'
    <2>1. \A x \in Admins : x # p => target'[x] = target[x]
      BY <1>i DEF TypeOK
    <2>2. \A x \in Purchases : status[x] # "absent" => User(x) \in Users
      BY <1>i, PlacedUser
    <2>3. UNCHANGED <<entries, status>> /\ \A x \in Purchases : User(x)' = User(x)
      BY DEF walletVars, rowVars, User
    <2> QED
      BY <1>i, <1>e, <2>1, <2>2, <2>3 DEF Backed
  <1>11. Latest'
    BY <1>i DEF Latest, LatestBalance, walletVars, rowVars
  <1> QED
    BY <1>1, <1>2, <1>3, <1>4, <1>5, <1>6, <1>7, <1>8, <1>9, <1>10, <1>11 DEF IInv

\* A refunds row is inserted for an order that has none.
LEMMA RefundClaimStep ==
    ASSUME IInv, NEW p \in Admins, pc[p] = "adminCreate", pc' = [pc EXCEPT ![p] = "adminMark"],
           refundClaim[target[p]] = Nobody, refund[target[p]] = Nobody,
           refundClaim' = [refundClaim EXCEPT ![target[p]] = p],
           UNCHANGED <<walletVars, priceVars, orderVars, outsideVars, status, statusDraft,
                       keyRow, keyClaim, refund>>
    PROVE  IInv'
  <1>i. /\ TypeOK /\ KeysHeld /\ RefundsHeld /\ StatusHeld /\ WalletsHeld /\ Covered
        /\ RowsStand /\ RowsOnce /\ Latest
        /\ \A x \in Purchases : Placed(x) /\ Backed(x)
    BY DEF IInv
  <1>t. target[p] \in Purchases
    BY <1>i DEF RefundsHeld
  <1>1. TypeOK'
    BY <1>i
    DEF TypeOK, WalletTypeOK, Running, Open, AdminTx, walletVars, priceVars, orderVars,
        outsideVars
  <1>2. (\A x \in Purchases : Placed(x))'
    BY <1>i, Kinds DEF Placed, Asked, orderVars, outsideVars
  <1>3. KeysHeld'
    BY <1>i, Kinds DEF KeysHeld, TypeOK, orderVars
  <1>4. RefundsHeld'
    BY <1>i, Kinds DEF RefundsHeld, TypeOK, AdminTx, orderVars
  <1>5. StatusHeld'
    BY <1>i, Kinds DEF StatusHeld, RefundsHeld, orderVars
  <1>6. WalletsHeld'
    BY <1>i DEF WalletsHeld, Owned, Wallet, Amount, User, walletVars, orderVars
  <1>7. Covered'
    BY <1>i DEF Covered, walletVars, orderVars
  <1>8. RowsStand'
    BY <1>i DEF RowsStand, RowStands, User, walletVars, orderVars
  <1>9. RowsOnce'
    BY <1>i DEF RowsOnce, walletVars
  <1>10. (\A x \in Purchases : Backed(x))'
    BY <1>i DEF Backed, User, walletVars, orderVars
  <1>11. Latest'
    BY <1>i DEF Latest, LatestBalance, walletVars
  <1> QED
    BY <1>1, <1>2, <1>3, <1>4, <1>5, <1>6, <1>7, <1>8, <1>9, <1>10, <1>11 DEF IInv

Commits == {"debitCommit", "refundCommit", "adminCommit"}

\* What a commit publishes: its handler's one row, and nothing else.
LEMMA Published ==
    ASSUME IInv, NEW p \in Procs, pc[p] \in Commits, CommitWallets(p),
           NEW w, w = Wallet(p), NEW e, e = dirty[w].entry, NEW n, n = Len(entries[w])
    PROVE  /\ w \in Users /\ e \in Entry /\ e.ref = p /\ e.amount = Amount(p)
           /\ e.type = IF pc[p] = "debitCommit" THEN "DEBIT" ELSE "CREDIT"
           /\ balance'[w] >= 0
           /\ p \in Purchases => balance'[w] = e.after
           /\ n \in Nat /\ DOMAIN entries[w] = 1..n /\ DOMAIN entries'[w] = 1..(n + 1)
           /\ entries'[w][n + 1] = e
           /\ \A i \in 1..n : entries'[w][i] = entries[w][i]
           /\ dirty'[w] = Clean
           /\ \A u \in Users : u # w =>
                /\ balance'[u] = balance[u] /\ entries'[u] = entries[u] /\ dirty'[u] = dirty[u]
                /\ dirty[u] # Clean => dirty[u].by # p
           /\ LatestBalance(w)' = e.after
           /\ UNCHANGED seen
           /\ WalletTypeOK'
  <1>1. WalletTypeOK /\ w \in Users /\ WalletTypeOK'
    BY WalletType, CommitWalletsType
    DEF IInv, TypeOK, Commits, Open, DebitTx, RefundTx, AdminTx
  <1>2. dirty[w] # Clean /\ dirty[w].by = p
    BY DEF IInv, WalletsHeld, Owned, Commits
  <1>3. e \in Entry /\ dirty[w].balance \in Int
    BY <1>1, <1>2, DirtyType
  <1>4. /\ e.ref = p /\ e.amount = Amount(p)
        /\ \/ pc[p] = "debitCommit" /\ e.type = "DEBIT"
           \/ pc[p] \in {"refundCommit", "adminCommit"} /\ e.type = "CREDIT"
        /\ p \in Purchases => dirty[w].balance = e.after
        /\ dirty[w].balance >= 0
    BY <1>1, <1>2 DEF IInv, WalletsHeld
  <1>5. \A u \in Users : u # w => ~ Owned(p, u)
    BY DEF IInv, WalletsHeld, Owned
  <1>6. Owned(p, w)
    BY <1>2 DEF Owned
  <1>7. /\ balance'[w] = dirty[w].balance
        /\ n \in Nat /\ DOMAIN entries[w] = 1..n /\ DOMAIN entries'[w] = 1..(n + 1)
        /\ entries'[w][n + 1] = e
        /\ \A i \in 1..n : entries'[w][i] = entries[w][i]
        /\ entries'[w] = Append(entries[w], e)
    BY <1>1, <1>6, CommittedTrail
  <1>8. LatestBalance(w)' = e.after
    <2>1. entries[w] \in Seq(Entry)
      BY <1>1 DEF WalletTypeOK
    <2>2. entries'[w] # <<>> /\ Len(entries'[w]) = n + 1
      BY <1>3, <1>7, <2>1
    <2> QED
      BY <1>7, <2>2 DEF LatestBalance
  <1>9. \A u \in Users : u # w =>
          /\ balance'[u] = balance[u] /\ entries'[u] = entries[u] /\ dirty'[u] = dirty[u]
          /\ dirty[u] # Clean => dirty[u].by # p
    BY <1>5 DEF CommitWallets, Owned
  <1>10. dirty'[w] = Clean /\ UNCHANGED seen
    BY <1>1, <1>6 DEF CommitWallets
  <1> QED
    BY <1>1, <1>3, <1>4, <1>7, <1>8, <1>9, <1>10

\* What a commit needs of the orders for its row to stand for what it says.
Settles(p, l) ==
    /\ \A t \in Purchases :
         /\ refund[t] # Nobody => refund'[t] = refund[t]
         /\ status[t] # "absent" => status'[t] # "absent"
         /\ status'[t] # "absent" =>
              status[t] # "absent" \/ (t = p /\ pc[p] = "debitCommit")
         /\ status'[t] = "REFUNDED" =>
              \/ status[t] = "REFUNDED"
              \/ pc[p] # "debitCommit" /\ (t = p \/ (p \in Admins /\ t = target[p]))
    /\ p \in Purchases => /\ status'[p] # "absent" /\ UNCHANGED refund
                          /\ pc[p] \in {"debitCommit", "refundCommit"}
                          /\ pc[p] = "refundCommit" => l = "sorry"
    /\ p \in Admins => refund'[target[p]] = p /\ target[p] \in Purchases /\ pc[p] = "adminCommit"

\* A commit of one order's row keeps what is said of uncommitted rows, of the
\* ledger, and of what stands behind the statuses.
LEMMA CommittedRows ==
    ASSUME IInv, NEW p \in Procs, pc[p] \in Commits, CommitWallets(p),
           NEW l \in {"provider", "sorry", "adminAudit"}, pc' = [pc EXCEPT ![p] = l], UNCHANGED orderVars,
           Settles(p, l)
    PROVE  /\ WalletsHeld' /\ Covered' /\ RowsStand' /\ RowsOnce' /\ Latest'
           /\ (\A t \in Purchases : Backed(t))'
  <1>0. PICK w, e, n : w = Wallet(p) /\ e = dirty[w].entry /\ n = Len(entries[w])
    OBVIOUS
  <1>p. /\ w \in Users /\ e \in Entry /\ e.ref = p /\ e.amount = Amount(p)
        /\ e.type = IF pc[p] = "debitCommit" THEN "DEBIT" ELSE "CREDIT"
        /\ balance'[w] >= 0
        /\ p \in Purchases => balance'[w] = e.after
        /\ n \in Nat /\ DOMAIN entries[w] = 1..n /\ DOMAIN entries'[w] = 1..(n + 1)
        /\ entries'[w][n + 1] = e
        /\ \A i \in 1..n : entries'[w][i] = entries[w][i]
        /\ dirty'[w] = Clean
        /\ \A u \in Users : u # w =>
             /\ balance'[u] = balance[u] /\ entries'[u] = entries[u] /\ dirty'[u] = dirty[u]
             /\ dirty[u] # Clean => dirty[u].by # p
        /\ LatestBalance(w)' = e.after
        /\ UNCHANGED seen
        /\ WalletTypeOK'
    BY <1>0, Published
  <1>u. UNCHANGED <<order, net, target>>
    BY DEF orderVars
  <1>o. \A q \in Purchases : User(q)' = User(q)
    BY <1>u DEF User
  <1>w. \A q \in Procs : Wallet(q)' = Wallet(q) /\ Amount(q)' = Amount(q)
    BY <1>u DEF Wallet, Amount, User
  <1>i. /\ TypeOK /\ KeysHeld /\ RefundsHeld /\ StatusHeld /\ WalletsHeld /\ Covered
        /\ RowsStand /\ RowsOnce /\ Latest
        /\ \A t \in Purchases : Placed(t) /\ Backed(t)
    BY DEF IInv
  <1>c. pc'[p] = l /\ \A q \in Procs : q # p => pc'[q] = pc[q]
    BY <1>i DEF TypeOK
  <1>d. \A u \in Users : dirty[u] # Clean => dirty[u].by \in Procs
    BY <1>i DEF TypeOK, WalletTypeOK, Version
  <1>r. \A u \in Users : \A i \in DOMAIN entries[u] :
          entries[u][i] \in Entry /\ entries[u][i].ref \in Procs
    <2>1. \A u \in Users : entries[u] \in Seq(Entry)
      BY <1>i DEF TypeOK, WalletTypeOK
    <2>2. \A u \in Users : \A i \in DOMAIN entries[u] : entries[u][i] \in Entry
      BY <2>1
    <2> QED
      BY <2>2, Kinds DEF Entry
  <1>n. \A u \in Users : \A i \in DOMAIN entries[u] : entries[u][i].ref = p =>
          pc[p] = "refundCommit" /\ entries[u][i].type = "DEBIT"
    <2> SUFFICES ASSUME NEW u \in Users, NEW i \in DOMAIN entries[u], entries[u][i].ref = p
                 PROVE  pc[p] = "refundCommit" /\ entries[u][i].type = "DEBIT"
      OBVIOUS
    <2>1. CASE p \in Purchases
      <3>1. status[p] # "absent" /\ (entries[u][i].type = "CREDIT" => pc[p] = "sorry")
        BY <1>i, <2>1 DEF RowsStand, RowStands
      <3>2. pc[p] = "refundCommit"
        BY <1>i, <2>1, <3>1 DEF Placed, Unpaid, Settles
      <3> QED
        BY <1>r, <3>1, <3>2 DEF Entry, EntryTypes
    <2>2. CASE p \in Admins
      <3>1. target[p] \in Purchases /\ refund[target[p]] = p
        BY <1>i, <2>2 DEF RowsStand, RowStands
      <3>2. refund[target[p]] = Nobody
        BY <1>i, <2>2, Kinds DEF RefundsHeld, Settles, AdminTx
      <3> QED
        BY <2>2, <3>1, <3>2, Kinds
    <2> QED
      BY <2>1, <2>2, Kinds
  <1>1. WalletsHeld'
    <2>1. ASSUME NEW q \in Procs, pc'[q] \in Commits
          PROVE  Owned(q, Wallet(q))'
      <3>1. q # p /\ pc[q] \in Commits
        BY <1>c, <2>1 DEF Commits
      <3>2. Owned(q, Wallet(q)) /\ Wallet(q) \in Users
        BY <1>i, <3>1, WalletType DEF WalletsHeld, Commits, Open, DebitTx, RefundTx, AdminTx
      <3>3. Wallet(q) # w
        BY <1>i, <1>0, <3>1, <3>2 DEF WalletsHeld, Owned, Commits
      <3> QED
        BY <1>p, <1>w, <3>2, <3>3 DEF Owned
    <2>2. ASSUME NEW u \in Users, dirty'[u] # Clean
          PROVE  u # w /\ dirty'[u] = dirty[u] /\ dirty[u].by \in Procs /\ dirty[u].by # p
      BY <1>p, <1>d, <2>2
    <2> QED
      BY <1>i, <1>c, <1>w, <2>1, <2>2 DEF WalletsHeld, Commits
  <1>2. Covered'
    <2>1. \A q \in Purchases : pc'[q] = "debitWrite" => l = "debitWrite" \/ pc[q] = "debitWrite"
      BY <1>c, Kinds
    <2> QED
      BY <1>i, <1>p, <1>u, <1>c, Kinds DEF Covered
  <1>3. RowsStand'
    <2>1. ASSUME NEW u \in Users, NEW i \in DOMAIN entries[u], NEW x, x = entries[u][i]
          PROVE  RowStands(u, x)'
      <3>1. RowStands(u, x) /\ x.ref \in Procs
        BY <1>i, <1>r, <2>1 DEF RowsStand
      <3>2. x.ref \in Purchases /\ x.type = "CREDIT" => pc'[x.ref] = "sorry"
        BY <1>c, <3>1 DEF RowStands, Commits
      <3> QED
        BY <1>u, <1>o, <3>1, <3>2, Kinds DEF RowStands, Settles
    <2>2. RowStands(w, e)'
      <3>1. CASE p \in Purchases
        <4>1. w = User(p) /\ e.amount = net[p]
          BY <1>0, <1>p, <3>1, Kinds DEF Wallet, Amount
        <4>2. e.type = "CREDIT" => l = "sorry"
          BY <1>p, <3>1 DEF Settles
        <4> QED
          BY <1>p, <1>u, <1>o, <1>c, <3>1, <4>1, <4>2, Kinds DEF RowStands, Settles
      <3>2. CASE p \in Admins
        <4>1. w = User(target[p]) /\ e.type = "CREDIT"
          BY <1>0, <1>p, <3>2 DEF Wallet, Settles
        <4> QED
          BY <1>p, <1>u, <1>o, <3>2, <4>1, Kinds DEF RowStands, Settles
      <3> QED
        BY <3>1, <3>2, Kinds
    <2>3. ASSUME NEW u \in Users, NEW i \in DOMAIN entries'[u]
          PROVE  \/ i \in DOMAIN entries[u] /\ entries'[u][i] = entries[u][i]
                 \/ u = w /\ entries'[u][i] = e
      <3>1. CASE u # w
        BY <1>p, <2>3, <3>1
      <3>2. CASE u = w
        BY <1>p, <2>3, <3>2
      <3> QED
        BY <3>1, <3>2
    <2>4. ASSUME NEW u \in Users, NEW i \in DOMAIN entries'[u], NEW x, x = entries'[u][i]
          PROVE  RowStands(u, x)'
      BY <2>1, <2>2, <2>3, <2>4
    <2> QED
      BY <2>4 DEF RowsStand, RowStands
  <1>4. RowsOnce'
    <2> SUFFICES ASSUME NEW u \in Users, NEW i \in DOMAIN entries'[u], NEW j \in DOMAIN entries'[u],
                        i < j, entries'[u][i].ref = entries'[u][j].ref
                 PROVE  entries'[u][i].type = "DEBIT" /\ entries'[u][j].type = "CREDIT"
      BY DEF RowsOnce
    <2>1. CASE u # w
      BY <1>i, <1>p, <2>1 DEF RowsOnce
    <2>2. CASE u = w /\ j \in 1..n
      <3>1. i \in 1..n
        BY <1>p, <2>2
      <3> QED
        BY <1>i, <1>p, <2>2, <3>1 DEF RowsOnce
    <2>3. CASE u = w /\ j = n + 1
      <3>1. i \in 1..n
        BY <1>p, <2>3
      <3>2. entries[w][i].ref = p
        BY <1>p, <2>3, <3>1
      <3> QED
        BY <1>p, <1>n, <2>3, <3>1, <3>2
    <2> QED
      BY <1>p, <2>1, <2>2, <2>3
  <1>5. Latest'
    <2>1. CASE p \in Purchases
      <3>1. \A u \in Users : u # w => LatestBalance(u)' = LatestBalance(u)
        BY <1>p DEF LatestBalance
      <3> QED
        BY <1>i, <1>p, <2>1, <3>1 DEF Latest, Settles
    <2>2. CASE p \in Admins
      BY <2>2, Kinds DEF Latest, Settles
    <2> QED
      BY <2>1, <2>2, Kinds
  <1>6. (\A t \in Purchases : Backed(t))'
    <2> SUFFICES ASSUME NEW t \in Purchases PROVE Backed(t)'
      OBVIOUS
    <2>1. ASSUME NEW u \in Users, NEW i \in DOMAIN entries[u]
          PROVE  i \in DOMAIN entries'[u] /\ entries'[u][i] = entries[u][i]
      <3>1. CASE u # w
        BY <1>p, <2>1, <3>1
      <3>2. CASE u = w
        BY <1>p, <2>1, <3>2
      <3> QED
        BY <3>1, <3>2
    <2>2. CASE status[t] # "absent"
      <3>1. User(t) \in Users
        BY <1>i, <2>2, PlacedUser
      <3>2. \E i \in DOMAIN entries'[User(t)] :
              entries'[User(t)][i].ref = t /\ entries'[User(t)][i].type = "DEBIT"
        BY <1>i, <2>1, <2>2, <3>1 DEF Backed
      <3>3. ASSUME status'[t] = "REFUNDED"
            PROVE  \E i \in DOMAIN entries'[User(t)] :
                     /\ entries'[User(t)][i].type = "CREDIT"
                     /\ \/ entries'[User(t)][i].ref = t
                        \/ /\ entries'[User(t)][i].ref \in Admins
                           /\ target[entries'[User(t)][i].ref] = t
        <4>1. CASE status[t] = "REFUNDED"
          BY <1>i, <2>1, <3>1, <4>1 DEF Backed
        <4>2. CASE status[t] # "REFUNDED"
          <5>1. pc[p] # "debitCommit" /\ (t = p \/ (p \in Admins /\ t = target[p]))
            BY <3>3, <4>2 DEF Settles
          <5>2. w = User(t)
            BY <1>0, <5>1, Kinds DEF Wallet
          <5>3. n + 1 \in DOMAIN entries'[w]
            BY <1>p
          <5> QED
            BY <1>p, <5>1, <5>2, <5>3
        <4> QED
          BY <4>1, <4>2
      <3> QED
        BY <1>o, <1>u, <3>2, <3>3 DEF Backed
    <2>3. CASE status[t] = "absent" /\ status'[t] # "absent"
      <3>1. t = p /\ pc[p] = "debitCommit"
        BY <2>3 DEF Settles
      <3>2. w = User(t) /\ n + 1 \in DOMAIN entries'[w]
        BY <1>0, <1>p, <3>1, Kinds DEF Wallet
      <3>3. status'[t] # "REFUNDED"
        BY <2>3, <3>1 DEF Settles
      <3> QED
        BY <1>p, <1>o, <3>1, <3>2, <3>3 DEF Backed
    <2>4. CASE status'[t] = "absent"
      BY <2>4 DEF Backed
    <2> QED
      BY <2>2, <2>3, <2>4
  <1> QED
    BY <1>1, <1>2, <1>3, <1>4, <1>5, <1>6

\* The order, its key and its debit are committed together.
LEMMA DebitCommitStep ==
    ASSUME IInv, NEW p \in Purchases, DebitCommit(p)
    PROVE  IInv'
  <1>i. /\ TypeOK /\ KeysHeld /\ RefundsHeld /\ StatusHeld /\ WalletsHeld /\ Covered
        /\ RowsStand /\ RowsOnce /\ Latest
        /\ \A x \in Purchases : Placed(x) /\ Backed(x)
    BY DEF IInv
  <1>s. /\ pc[p] = "debitCommit" /\ pc' = [pc EXCEPT ![p] = "provider"]
        /\ CommitWallets(p) /\ status[p] = "absent" /\ worth[p] = Absent
        /\ order[p].key \in Keys /\ keyClaim[order[p].key] = p
        /\ keyRow[order[p].key] = Nobody
    BY <1>i, OrderType DEF DebitCommit, At, Goto, Placed, Unpaid, KeysHeld, DebitTx
  <1>t. WalletTypeOK'
    BY <1>i, <1>s, Kinds, CommitWalletsType DEF TypeOK
  <1>u. /\ status' = [status EXCEPT ![p] = "PROCESSING"]
        /\ keyRow' = [keyRow EXCEPT ![order[p].key] = p]
        /\ keyClaim' = [keyClaim EXCEPT ![order[p].key] = Nobody]
        /\ UNCHANGED <<priceVars, orderVars, statusDraft, refund, refundClaim, outsideVars>>
    BY DEF DebitCommit
  <1>z. /\ p \in Procs /\ pc[p] \in Commits /\ UNCHANGED orderVars
        /\ Settles(p, "provider")
    BY <1>i, <1>s, <1>u, Kinds DEF Settles, TypeOK, Commits
  <1>c. /\ WalletsHeld' /\ Covered' /\ RowsStand' /\ RowsOnce' /\ Latest'
        /\ (\A t \in Purchases : Backed(t))'
    BY <1>s, <1>z, CommittedRows DEF Commits, orderVars
  <1>1. TypeOK'
    BY <1>i, <1>s, <1>u, <1>t DEF TypeOK, Running, Statuses, priceVars, orderVars, outsideVars
  <1>2. (\A x \in Purchases : Placed(x))'
    BY <1>i, <1>s, <1>u, Kinds DEF Placed, Asked, TypeOK, Unpaid, Paid, orderVars, outsideVars
  <1>3. KeysHeld'
    BY <1>i, <1>s, <1>u, Kinds DEF KeysHeld, TypeOK, DebitTx, orderVars
  <1>4. RefundsHeld'
    BY <1>i, <1>s, <1>u, Kinds DEF RefundsHeld, TypeOK, orderVars
  <1>5. StatusHeld'
    BY <1>i, <1>s, <1>u, Kinds DEF StatusHeld, RefundTx, orderVars
  <1>6. WalletsHeld'
    BY <1>c
  <1>7. Covered'
    BY <1>c
  <1>8. RowsStand'
    BY <1>c
  <1>9. RowsOnce'
    BY <1>c
  <1>10. (\A x \in Purchases : Backed(x))'
    BY <1>c
  <1>11. Latest'
    BY <1>c
  <1> QED
    BY <1>1, <1>2, <1>3, <1>4, <1>5, <1>6, <1>7, <1>8, <1>9, <1>10, <1>11 DEF IInv

\* The status and the credit of an auto-refund are committed together.
LEMMA RefundCommitStep ==
    ASSUME IInv, NEW p \in Purchases, RefundCommit(p)
    PROVE  IInv'
  <1>i. /\ TypeOK /\ KeysHeld /\ RefundsHeld /\ StatusHeld /\ WalletsHeld /\ Covered
        /\ RowsStand /\ RowsOnce /\ Latest
        /\ \A x \in Purchases : Placed(x) /\ Backed(x)
    BY DEF IInv
  <1>s. /\ pc[p] = "refundCommit" /\ pc' = [pc EXCEPT ![p] = "sorry"]
        /\ CommitWallets(p) /\ status[p] # "absent"
        /\ statusDraft[p] = [by |-> p, to |-> "REFUNDED"]
    BY <1>i DEF RefundCommit, At, Goto, Placed, Paid, StatusHeld, RefundTx
  <1>t. WalletTypeOK'
    BY <1>i, <1>s, Kinds, CommitWalletsType DEF TypeOK
  <1>u. /\ status' = [status EXCEPT ![p] = "REFUNDED"]
        /\ statusDraft' = [statusDraft EXCEPT ![p] = Clean]
        /\ UNCHANGED <<priceVars, orderVars, outsideVars, keyRow, keyClaim, refund, refundClaim>>
    BY <1>s DEF RefundCommit
  <1>z. /\ p \in Procs /\ pc[p] \in Commits /\ UNCHANGED orderVars
        /\ Settles(p, "sorry")
    BY <1>i, <1>s, <1>u, Kinds DEF Settles, TypeOK, Commits
  <1>c. /\ WalletsHeld' /\ Covered' /\ RowsStand' /\ RowsOnce' /\ Latest'
        /\ (\A t \in Purchases : Backed(t))'
    BY <1>s, <1>z, CommittedRows DEF Commits, orderVars
  <1>1. TypeOK'
    BY <1>i, <1>s, <1>u, <1>t DEF TypeOK, Ended, Statuses, priceVars, orderVars, outsideVars
  <1>2. (\A x \in Purchases : Placed(x))'
    BY <1>i, <1>s, <1>u DEF Placed, Asked, Unpaid, Paid, orderVars, outsideVars
  <1>3. KeysHeld'
    BY <1>i, <1>s, <1>u DEF KeysHeld, DebitTx, orderVars
  <1>4. RefundsHeld'
    BY <1>i, <1>s, <1>u, Kinds DEF RefundsHeld, TypeOK, orderVars
  <1>5. StatusHeld'
    BY <1>i, <1>s, <1>u, Kinds DEF StatusHeld, TypeOK, RefundTx, orderVars
  <1>6. WalletsHeld'
    BY <1>c
  <1>7. Covered'
    BY <1>c
  <1>8. RowsStand'
    BY <1>c
  <1>9. RowsOnce'
    BY <1>c
  <1>10. (\A x \in Purchases : Backed(x))'
    BY <1>c
  <1>11. Latest'
    BY <1>c
  <1> QED
    BY <1>1, <1>2, <1>3, <1>4, <1>5, <1>6, <1>7, <1>8, <1>9, <1>10, <1>11 DEF IInv

\* So are the refunds row, the status and the credit of a manual refund.
LEMMA AdminCommitStep ==
    ASSUME IInv, NEW p \in Admins, AdminCommit(p)
    PROVE  IInv'
  <1>i. /\ TypeOK /\ KeysHeld /\ RefundsHeld /\ StatusHeld /\ WalletsHeld /\ Covered
        /\ RowsStand /\ RowsOnce /\ Latest
        /\ \A x \in Purchases : Placed(x) /\ Backed(x)
    BY DEF IInv
  <1>s. /\ pc[p] = "adminCommit" /\ pc' = [pc EXCEPT ![p] = "adminAudit"]
        /\ CommitWallets(p) /\ target[p] \in Purchases /\ status[target[p]] # "absent"
        /\ statusDraft[target[p]] = [by |-> p, to |-> "REFUNDED"]
        /\ refund[target[p]] = Nobody /\ refundClaim[target[p]] = p
    BY <1>i DEF AdminCommit, At, Goto, RefundsHeld, StatusHeld, AdminTx
  <1>t. WalletTypeOK'
    BY <1>i, <1>s, Kinds, CommitWalletsType DEF TypeOK
  <1>u. /\ status' = [status EXCEPT ![target[p]] = "REFUNDED"]
        /\ statusDraft' = [statusDraft EXCEPT ![target[p]] = Clean]
        /\ refund' = [refund EXCEPT ![target[p]] = p]
        /\ refundClaim' = [refundClaim EXCEPT ![target[p]] = Nobody]
        /\ UNCHANGED <<priceVars, orderVars, outsideVars, keyRow, keyClaim>>
    BY <1>s DEF AdminCommit
  <1>z. /\ p \in Procs /\ pc[p] \in Commits /\ UNCHANGED orderVars
        /\ Settles(p, "adminAudit")
    BY <1>i, <1>s, <1>u, Kinds DEF Settles, TypeOK, Commits
  <1>c. /\ WalletsHeld' /\ Covered' /\ RowsStand' /\ RowsOnce' /\ Latest'
        /\ (\A t \in Purchases : Backed(t))'
    BY <1>s, <1>z, CommittedRows DEF Commits, orderVars
  <1>1. TypeOK'
    BY <1>i, <1>s, <1>u, <1>t DEF TypeOK, Running, Statuses, priceVars, orderVars, outsideVars
  <1>2. (\A x \in Purchases : Placed(x))'
    BY <1>i, <1>s, <1>u, Kinds DEF Placed, Asked, TypeOK, orderVars, outsideVars
  <1>3. KeysHeld'
    BY <1>i, <1>s, <1>u, Kinds DEF KeysHeld, TypeOK, orderVars
  <1>4. RefundsHeld'
    BY <1>i, <1>s, <1>u, Kinds DEF RefundsHeld, TypeOK, AdminTx, orderVars
  <1>5. StatusHeld'
    BY <1>i, <1>s, <1>u, Kinds DEF StatusHeld, TypeOK, AdminTx, orderVars
  <1>6. WalletsHeld'
    BY <1>c
  <1>7. Covered'
    BY <1>c
  <1>8. RowsStand'
    BY <1>c
  <1>9. RowsOnce'
    BY <1>c
  <1>10. (\A x \in Purchases : Backed(x))'
    BY <1>c
  <1>11. Latest'
    BY <1>c
  <1> QED
    BY <1>1, <1>2, <1>3, <1>4, <1>5, <1>6, <1>7, <1>8, <1>9, <1>10, <1>11 DEF IInv

-------------------------------------------------------------------------------
(* The invariant *)

\* IInv holds before the first request.
THEOREM PurchaseInit == Init => IInv
  <1> SUFFICES ASSUME Init PROVE IInv
    OBVIOUS
  <1>1. provider \in ProviderNames
    BY DEF Init, Selected, ProviderNames
  <1>2. WalletTypeOK
    BY WalletAssumption DEF Init, WalletInit, WalletTypeOK
  <1>3. TypeOK
    BY <1>1, <1>2, PurchaseAssumption DEF Init, TypeOK, Statuses
  <1>4. \A u \in Users : balance[u] >= 0 /\ entries[u] = <<>> /\ dirty[u] = Clean
    <2>1. balance = InitialKobo /\ InitialKobo \in [Users -> Nat]
      BY WalletAssumption DEF Init, WalletInit
    <2>2. entries = [u \in Users |-> <<>>] /\ dirty = [u \in Users |-> Clean]
      BY DEF Init, WalletInit
    <2>3. \A u \in Users : balance[u] >= 0
      BY <2>1
    <2> QED
      BY <2>2, <2>3
  <1>5. \A p \in Procs : pc[p] = "idle" /\ seen[p] = 0
    BY DEF Init, WalletInit
  <1>6. \A u \in Users : DOMAIN entries[u] = {} /\ LatestBalance(u) = balance[u]
    <2>1. DOMAIN <<>> = {}
      OBVIOUS
    <2> QED
      BY <1>4, <2>1 DEF LatestBalance, Init, WalletInit
  <1>7. (\A p \in Purchases : Placed(p)) /\ KeysHeld /\ RefundsHeld /\ StatusHeld
    BY <1>5, Kinds
    DEF Init, Placed, KeysHeld, RefundsHeld, StatusHeld, Unpaid, Paid, Open, DebitTx, RefundTx,
        AdminTx, Ended
  <1>8. WalletsHeld /\ Covered
    BY <1>4, <1>5, Kinds DEF WalletsHeld, Covered
  <1>9. RowsStand /\ RowsOnce /\ Latest
    BY <1>6 DEF RowsStand, RowsOnce, Latest
  <1>10. \A t \in Purchases : Backed(t)
    BY DEF Init, Backed
  <1> QED
    BY <1>3, <1>7, <1>8, <1>9, <1>10 DEF IInv

\* A request is priced for what it orders, or refused.
LEMMA AcceptStep ==
    ASSUME IInv, NEW p \in Purchases, NEW s, Accept(p, s)
    PROVE  IInv'
  <1>1. ASSUME NEW l \in {"refused", "conflict"}, Goto(p, l), UNCHANGED net
        PROVE  IInv'
    <2>1. Strolls(p, l) /\ pc' = [pc EXCEPT ![p] = l]
      BY <1>1 DEF Strolls, Accept, At, Goto
    <2>2. UNCHANGED <<walletVars, provider, discount, planPrice, orderVars, rowVars, worth, sessions>>
      BY <1>1 DEF Accept, priceVars, orderVars, outsideVars
    <2>3. discount \in Discounts /\ planPrice \in PlanPrices
      BY DEF IInv, TypeOK
    <2> QED
      BY <2>1, <2>2, <2>3, StrollStep, Kinds
  <1>2. ASSUME Goto(p, "create"), net' = [net EXCEPT ![p] = NetKobo(order[p])]
        PROVE  IInv'
    <2>1. pc[p] = "accept" /\ pc' = [pc EXCEPT ![p] = "create"]
      BY <1>2 DEF Accept, At, Goto
    <2>2. order[p] \in Order
      BY <2>1 DEF IInv, Placed
    <2>3. NetKobo(order[p]) \in Nat
      BY <2>2, NetType DEF IInv
    <2>4. UNCHANGED <<walletVars, priceVars, order, target, rowVars, outsideVars>>
      BY DEF Accept
    <2>5. order' \in [Purchases -> Order \cup {NoOrder}] /\ net' \in [Purchases -> Nat]
          /\ order'[p] \in Order
          /\ \A q \in Purchases : q # p => order'[q] = order[q] /\ net'[q] = net[q]
      BY <1>2, <2>2, <2>3, <2>4 DEF IInv, TypeOK
    <2> QED
      BY <2>1, <2>4, <2>5, RequestStep
  <1> QED
    BY <1>1, <1>2 DEF Accept

\* The key of an order is claimed, or its owner has committed it.
LEMMA CreateStep ==
    ASSUME IInv, NEW p \in Purchases, NEW s, CreateOrder(p, s)
    PROVE  IInv'
  <1>0. /\ pc[p] = "create" /\ keyClaim[order[p].key] = Nobody
        /\ UNCHANGED <<walletVars, priceVars, orderVars, outsideVars, status, statusDraft,
                       keyRow, refund, refundClaim>>
    BY DEF CreateOrder, At
  <1>1. CASE keyRow[order[p].key] # Nobody
    <2>1. Strolls(p, "failed") /\ pc' = [pc EXCEPT ![p] = "failed"] /\ UNCHANGED keyClaim
      BY <1>0, <1>1 DEF Strolls, CreateOrder, Goto
    <2>2. discount \in Discounts /\ planPrice \in PlanPrices
      BY DEF IInv, TypeOK
    <2> QED
      BY <1>0, <2>1, <2>2, StrollStep, Kinds DEF priceVars, rowVars, outsideVars
  <1>2. CASE keyRow[order[p].key] = Nobody
    <2>1. /\ pc' = [pc EXCEPT ![p] = "debitRead"]
          /\ keyClaim' = [keyClaim EXCEPT ![order[p].key] = p]
      BY <1>2 DEF CreateOrder, Goto
    <2> QED
      BY <1>0, <1>2, <2>1, ClaimStep
  <1> QED
    BY <1>1, <1>2

\* Purchases and refunds read the wallet of their order.
LEMMA ReadsStep ==
    ASSUME IInv, NEW p \in Procs,
           \/ p \in Purchases /\ (DebitRead(p) \/ RefundRead(p))
           \/ p \in Admins /\ AdminRead(p)
    PROVE  IInv'
  <1>1. CASE p \in Purchases /\ DebitRead(p)
    <2>1. Wallet(p) = User(p) /\ Amount(p) = net[p]
      BY <1>1, Kinds DEF Wallet, Amount
    <2> QED
      BY <1>1, <2>1, ReadStep DEF DebitRead, Reads, At, Goto, CanDebit
  <1>2. CASE p \in Purchases /\ RefundRead(p)
    <2>1. Wallet(p) = User(p)
      BY <1>2, Kinds DEF Wallet
    <2> QED
      BY <1>2, <2>1, ReadStep DEF RefundRead, Reads, At, Goto
  <1>3. CASE p \in Admins /\ AdminRead(p)
    <2>1. Wallet(p) = User(target[p])
      BY <1>3 DEF Wallet
    <2> QED
      BY <1>3, <2>1, ReadStep DEF AdminRead, Reads, At, Goto
  <1> QED
    BY <1>1, <1>2, <1>3

\* They write it, with what covers it.
LEMMA WritesStep ==
    ASSUME IInv, NEW p \in Procs,
           \/ p \in Purchases /\ (DebitWrite(p) \/ RefundWrite(p))
           \/ p \in Admins /\ AdminWrite(p)
    PROVE  IInv'
  <1>0. /\ WalletTypeOK /\ p \in Refs /\ seen[p] \in Nat
        /\ \A u \in Users : balance[u] \in Nat
    BY Kinds DEF IInv, TypeOK, WalletTypeOK, Covered
  <1>1. CASE p \in Purchases /\ DebitWrite(p)
    <2>1. Wallet(p) = User(p) /\ Amount(p) = net[p]
      BY <1>1, Kinds DEF Wallet, Amount
    <2>2. pc[p] = "debitWrite" /\ pc' = [pc EXCEPT ![p] = "debitCommit"]
          /\ DebitWallet(p, User(p), net[p], p)
          /\ UNCHANGED <<priceVars, orderVars, rowVars, outsideVars>>
      BY <1>1 DEF DebitWrite, At, Goto
    <2>3. Wallet(p) \in Users /\ Amount(p) \in Nat
      BY <2>2, WalletType DEF IInv, Open, DebitTx
    <2>4. PICK e \in Entry :
            /\ e.type = "DEBIT" /\ e.amount = net[p] /\ e.ref = p
            /\ e.after = seen[p] - net[p] /\ WriteWallet(p, User(p), e.after, e)
      BY <1>0, <2>1, <2>2, <2>3, DebitWalletIsWrite
    <2>5. e.after \in Nat
      BY <1>0, <1>1, <2>1, <2>2, <2>3, <2>4 DEF IInv, Covered
    <2> QED
      BY <2>1, <2>2, <2>4, <2>5, WriteStep DEF Writes
  <1>2. CASE p \in Purchases /\ RefundWrite(p)
    <2>1. Wallet(p) = User(p) /\ Amount(p) = net[p]
      BY <1>2, Kinds DEF Wallet, Amount
    <2>2. pc[p] = "refundWrite" /\ pc' = [pc EXCEPT ![p] = "refundCommit"]
          /\ CreditWallet(p, User(p), net[p], p)
          /\ UNCHANGED <<priceVars, orderVars, rowVars, outsideVars>>
      BY <1>2 DEF RefundWrite, At, Goto
    <2>3. Wallet(p) \in Users /\ Amount(p) \in Nat
      BY <2>2, WalletType DEF IInv, Open, RefundTx
    <2>4. PICK e \in Entry :
            /\ e.type = "CREDIT" /\ e.amount = net[p] /\ e.ref = p
            /\ e.after = seen[p] + net[p] /\ WriteWallet(p, User(p), e.after, e)
      BY <1>0, <2>1, <2>2, <2>3, CreditWalletIsWrite
    <2>5. e.after \in Nat
      BY <1>0, <2>1, <2>3, <2>4
    <2>6. PICK l, b : l = "refundCommit" /\ b = e.after
      OBVIOUS
    <2>7. Writes(pc[p], l) /\ pc' = [pc EXCEPT ![p] = l] /\ l # "debitCommit"
      BY <2>2, <2>6 DEF Writes
    <2>8. b \in Nat /\ WriteWallet(p, Wallet(p), b, e) /\ e.amount = Amount(p)
      BY <2>1, <2>4, <2>5, <2>6
    <2> QED
      BY <2>2, <2>4, <2>6, <2>7, <2>8, WriteStep
  <1>3. CASE p \in Admins /\ AdminWrite(p)
    <2>1. Wallet(p) = User(target[p]) /\ Amount(p) = net[target[p]]
      BY <1>3 DEF Wallet, Amount
    <2>2. pc[p] = "adminWrite" /\ pc' = [pc EXCEPT ![p] = "adminCommit"]
          /\ UNCHANGED <<priceVars, orderVars, rowVars, outsideVars>>
      BY <1>3 DEF AdminWrite, At, Goto
    <2>3. Wallet(p) \in Users /\ Amount(p) \in Nat
      BY <2>2, WalletType DEF IInv, Open, AdminTx
    <2>4. PICK e : e = [type |-> "CREDIT", amount |-> Amount(p), before |-> seen[p],
                        after |-> seen[p] + Amount(p), ref |-> p]
      OBVIOUS
    <2>5. e \in Entry /\ e.type = "CREDIT" /\ e.amount = Amount(p) /\ e.ref = p
      BY <1>0, <2>3, <2>4 DEF Entry, EntryTypes
    <2>6. WriteWallet(p, Wallet(p), balance[Wallet(p)] + Amount(p), e)
      BY <1>3, <2>1, <2>4 DEF AdminWrite
    <2>7. balance[Wallet(p)] + Amount(p) \in Nat
      BY <1>0, <2>3
    <2>8. PICK l : l = "adminCommit"
      OBVIOUS
    <2>9. Writes(pc[p], l) /\ pc' = [pc EXCEPT ![p] = l] /\ l # "debitCommit" /\ p \notin Purchases
      BY <1>3, <2>2, <2>8, Kinds DEF Writes
    <2> QED
      BY <2>2, <2>5, <2>6, <2>7, <2>9, WriteStep
  <1> QED
    BY <1>1, <1>2, <1>3

\* What a provider that has an order's request delivers is near what was asked.
LEMMA CallStep ==
    ASSUME IInv, NEW p \in Purchases, NEW s, CallProvider(p, s)
    PROVE  IInv'
  <1>1. /\ pc[p] = "provider" /\ order[p].service = s /\ Placed(p) /\ TypeOK
        /\ UNCHANGED <<walletVars, priceVars, orderVars, rowVars>>
    BY DEF CallProvider, At, IInv
  <1>2. s \in Services /\ order[p].face \in Faces
    BY <1>1, OrderType
  <1>3. s \in {"airtime", "data"} \cup Bills /\ provider \in ProviderNames
    BY <1>1, <1>2, PurchaseAssumption DEF TypeOK
  <1>4. Asked(p) \in Nat
    <2>1. Faces \subseteq Nat
      BY PurchaseAssumption
    <2> QED
      BY <1>1, <1>2, <2>1 DEF Asked, TypeOK
  <1>r. PICK done \in BOOLEAN, reply \in Replies(provider) :
          LET result == Deliver(provider, s, Request(p), reply)
          IN  /\ Truthful(provider, reply, done)
              /\ worth' = [worth EXCEPT ![p] = IF done THEN WorthOf(p, result) ELSE Absent]
              /\ IF result.success
                 THEN sessions' = sessions \ {s} /\ Goto(p, "record")
                 ELSE UNCHANGED sessions /\ Goto(p, "refundMark")
    BY DEF CallProvider
  <1>5. PICK result :
          /\ result = Deliver(provider, s, Request(p), reply)
          /\ Truthful(provider, reply, done)
          /\ worth' = [worth EXCEPT ![p] = IF done THEN WorthOf(p, result) ELSE Absent]
          /\ IF result.success
             THEN sessions' = sessions \ {s} /\ Goto(p, "record")
             ELSE UNCHANGED sessions /\ Goto(p, "refundMark")
    BY <1>r
  <1>6. Request(p).kobo = Asked(p)
    BY DEF Request
  <1>7. /\ result.naira \in {Absent, Naira(Asked(p))}
        /\ result.success => done
    BY <1>3, <1>5, <1>6, ResultIsTrue
  <1>8. WorthOf(p, result) \in Nat /\ WorthOf(p, result) - Asked(p) \in -50..50
    BY <1>4, <1>7, NairaIsNear DEF WorthOf
  <1>9. PICK w \in Nat \cup {Absent} :
          /\ w = IF done THEN WorthOf(p, result) ELSE Absent
          /\ worth' = [worth EXCEPT ![p] = w]
          /\ w # Absent => w - Asked(p) \in -50..50
          /\ done => w # Absent
    <2>1. WorthOf(p, result) # Absent
      BY <1>8, PurchaseAssumption
    <2> QED
      BY <1>5, <1>8, <2>1
  <1>10. PICK l \in {"record", "refundMark"} :
           /\ pc' = [pc EXCEPT ![p] = l] /\ sessions' \subseteq Bills
           /\ l = "record" => w # Absent
    BY <1>1, <1>5, <1>7, <1>9 DEF Goto, TypeOK
  <1> QED
    BY <1>1, <1>9, <1>10, ProviderStep

\* A refunds row is claimed, or there is one.
LEMMA AdminCreateStep ==
    ASSUME IInv, NEW p \in Admins, AdminCreate(p)
    PROVE  IInv'
  <1>0. /\ pc[p] = "adminCreate" /\ refundClaim[target[p]] = Nobody
        /\ UNCHANGED <<walletVars, priceVars, orderVars, outsideVars, status, statusDraft,
                       keyRow, keyClaim, refund>>
    BY DEF AdminCreate, At
  <1>1. CASE refund[target[p]] # Nobody
    <2>1. Strolls(p, "failed") /\ pc' = [pc EXCEPT ![p] = "failed"] /\ UNCHANGED refundClaim
      BY <1>0, <1>1 DEF Strolls, AdminCreate, Goto
    <2>2. discount \in Discounts /\ planPrice \in PlanPrices
      BY DEF IInv, TypeOK
    <2> QED
      BY <1>0, <2>1, <2>2, StrollStep, Kinds DEF priceVars, rowVars, outsideVars
  <1>2. CASE refund[target[p]] = Nobody
    <2>1. /\ pc' = [pc EXCEPT ![p] = "adminMark"]
          /\ refundClaim' = [refundClaim EXCEPT ![target[p]] = p]
      BY <1>2 DEF AdminCreate, Goto
    <2> QED
      BY <1>0, <1>2, <2>1, RefundClaimStep
  <1> QED
    BY <1>1, <1>2

\* The other steps of administrators.
LEMMA AdminStrolls ==
    ASSUME IInv, NEW p \in Admins,
           UpdateNetworkDiscount(p) \/ UpdateDataPlanPrice(p) \/ AdminAudit(p)
    PROVE  IInv'
  <1>1. PICK l : Strolls(p, l) /\ pc' = [pc EXCEPT ![p] = l]
    BY DEF UpdateNetworkDiscount, UpdateDataPlanPrice, AdminAudit, Strolls, At, Goto
  <1>2. /\ UNCHANGED <<walletVars, provider, orderVars, rowVars, outsideVars>>
        /\ discount' \in Discounts /\ planPrice' \in PlanPrices
    BY DEF UpdateNetworkDiscount, UpdateDataPlanPrice, AdminAudit, priceVars, IInv, TypeOK
  <1> QED
    BY <1>1, <1>2, StrollStep, Kinds DEF outsideVars

\* Handlers lose their transactions one by one, or all at once.
LEMMA FaultStep ==
    ASSUME IInv,
           \/ \E p \in Purchases : DebitRefused(p) \/ RefundFails(p)
           \/ \E p \in Procs : Fail(p)
           \/ Crash
    PROVE  IInv'
  <1>0. pc \in [Procs -> {"idle"} \cup Running \cup Ended] /\ sessions \subseteq Bills
    BY DEF IInv, TypeOK
  <1>1. ASSUME NEW p \in Procs, NEW l \in {"refused", "failed", "sorry"}, Goto(p, l), Discard({p}),
               UNCHANGED <<priceVars, orderVars, outsideVars>>,
               pc[p] \in Running,
               l \in {"refused", "failed"} => pc[p] \in Unpaid \cup AdminTx \cup {"adminCreate"},
               l = "sorry" => p \in Purchases /\ pc[p] \in Paid
        PROVE  IInv'
    <2>1. pc' = [pc EXCEPT ![p] = l] /\ {p} \in SUBSET Procs
      BY <1>1 DEF Goto
    <2>2. pc' \in [Procs -> {"idle"} \cup Running \cup Ended]
      BY <1>0, <2>1 DEF Ended
    <2>3. Drops({p})
      BY <1>0, <1>1, <2>1 DEF Drops
    <2> QED
      BY <1>0, <1>1, <2>1, <2>2, <2>3, DropStep DEF outsideVars
  <1>2. ASSUME NEW p \in Purchases, DebitRefused(p) PROVE IInv'
    BY <1>1, <1>2, Kinds DEF DebitRefused, At, Unpaid, Running, Open, DebitTx
  <1>3. ASSUME NEW p \in Purchases, RefundFails(p) PROVE IInv'
    <2>1. pc[p] \in Running /\ pc[p] \in Paid
      BY <1>3 DEF RefundFails, Paid, Running, Open, RefundTx
    <2> QED
      BY <1>1, <1>3, <2>1, Kinds DEF RefundFails
  <1>4. ASSUME NEW p \in Procs, Fail(p) PROVE IInv'
    <2>1. pc[p] \in Running /\ pc[p] \in Unpaid \cup AdminTx \cup {"adminCreate"}
      BY <1>4 DEF Fail, Unpaid, Running, Open, DebitTx
    <2> QED
      BY <1>1, <1>4, <2>1 DEF Fail
  <1>5. ASSUME Crash PROVE IInv'
    <2>1. PICK dead \in SUBSET Procs :
            /\ \A p \in Procs : p \in dead <=> pc[p] \in Running
            /\ pc' = [p \in Procs |-> IF p \in dead THEN "lost" ELSE pc[p]]
            /\ Discard(dead) /\ sessions' = {}
            /\ UNCHANGED <<priceVars, orderVars, worth>>
      BY <1>5 DEF Crash
    <2>2. pc' \in [Procs -> {"idle"} \cup Running \cup Ended]
      BY <1>0, <2>1 DEF Ended
    <2>3. Drops(dead)
      BY <1>0, <2>1 DEF Drops
    <2> QED
      BY <2>1, <2>2, <2>3, DropStep
  <1> QED
    BY <1>2, <1>3, <1>4, <1>5

\* IInv holds in every state.
THEOREM PurchaseInvariant == Spec => []IInv
  <1>1. Init => IInv
    BY PurchaseInit
  <1>2. IInv /\ [Next]_vars => IInv'
    <2> SUFFICES ASSUME IInv, [Next]_vars PROVE IInv'
      OBVIOUS
    <2>0. /\ provider \in ProviderNames /\ discount \in Discounts /\ planPrice \in PlanPrices
          /\ sessions \subseteq Bills
      BY DEF IInv, TypeOK
    <2>1. ASSUME NEW p \in Purchases, Submit(p) PROVE IInv'
      <3>1. PICK o \in Order : order' = [order EXCEPT ![p] = o]
        BY <2>1 DEF Submit
      <3>2. /\ pc[p] = "idle" /\ pc' = [pc EXCEPT ![p] = "accept"]
            /\ UNCHANGED <<walletVars, priceVars, net, target, rowVars, outsideVars>>
        BY <2>1 DEF Submit, At, Goto
      <3>3. /\ order' \in [Purchases -> Order \cup {NoOrder}] /\ net' \in [Purchases -> Nat]
            /\ order'[p] \in Order
            /\ \A q \in Purchases : q # p => order'[q] = order[q] /\ net'[q] = net[q]
        BY <3>1, <3>2 DEF IInv, TypeOK
      <3> QED
        BY <3>2, <3>3, RequestStep
    <2>2. ASSUME NEW p \in Purchases, NEW s, Unverified(p, s) PROVE IInv'
      <3>1. Strolls(p, "refused") /\ pc' = [pc EXCEPT ![p] = "refused"]
        BY <2>2 DEF Unverified, Strolls, At, Goto
      <3>2. UNCHANGED <<walletVars, provider, discount, planPrice, orderVars, rowVars, worth, sessions>>
        BY <2>2 DEF Unverified, priceVars, outsideVars
      <3> QED
        BY <2>0, <3>1, <3>2, StrollStep, Kinds
    <2>3. ASSUME NEW p \in Purchases, RecordFails(p) PROVE IInv'
      <3>1. Strolls(p, "refundMark") /\ pc' = [pc EXCEPT ![p] = "refundMark"]
        BY <2>3 DEF RecordFails, Strolls, At, Goto
      <3>2. UNCHANGED <<walletVars, provider, discount, planPrice, orderVars, rowVars, worth, sessions>>
        BY <2>3 DEF RecordFails, priceVars, outsideVars
      <3> QED
        BY <2>0, <3>1, <3>2, StrollStep, Kinds
    <2>4. ASSUME NEW p \in Purchases, NEW s, RecordSuccess(p, s) PROVE IInv'
      BY <2>4, RecordStep DEF RecordSuccess, At, Goto
    <2>5. ASSUME NEW p \in Purchases, NEW s, HandleFailure(p, s) PROVE IInv'
      BY <2>5, MarkStep, Kinds DEF HandleFailure, At, Goto
    <2>6. ASSUME NEW p \in Purchases, PurchaseStep(p) PROVE IInv'
      <3>1. CASE PurchaseAirtime(p) \/ PurchaseData(p) \/ PayElectricity(p) \/ PayCableTV(p)
        BY <2>2, <3>1, AcceptStep DEF PurchaseAirtime, PurchaseData, PayElectricity, PayCableTV
      <3>2. CASE OrderAirtime(p) \/ OrderData(p) \/ OrderElectricity(p) \/ OrderCable(p)
        BY <3>2, CreateStep DEF OrderAirtime, OrderData, OrderElectricity, OrderCable
      <3>3. CASE DebitRead(p) \/ RefundRead(p)
        BY <3>3, ReadsStep, Kinds
      <3>4. CASE DebitRefused(p)
        BY <3>4, FaultStep
      <3>5. CASE DebitWrite(p) \/ RefundWrite(p)
        BY <3>5, WritesStep, Kinds
      <3>6. CASE DebitCommit(p)
        BY <3>6, DebitCommitStep
      <3>7. CASE DeliverAirtime(p) \/ DeliverData(p) \/ DeliverElectricity(p) \/ DeliverCable(p)
        BY <3>7, CallStep DEF DeliverAirtime, DeliverData, DeliverElectricity, DeliverCable
      <3>8. CASE RecordAirtime(p) \/ RecordData(p) \/ RecordElectricity(p) \/ RecordCable(p)
        BY <2>4, <3>8 DEF RecordAirtime, RecordData, RecordElectricity, RecordCable
      <3>9. CASE HandleAirtimeFailure(p) \/ HandleDataFailure(p) \/ HandleElectricityFailure(p)
                 \/ HandleCableFailure(p)
        BY <2>5, <3>9 DEF HandleAirtimeFailure, HandleDataFailure, HandleElectricityFailure,
                          HandleCableFailure
      <3>10. CASE RefundCommit(p)
        BY <3>10, RefundCommitStep
      <3> QED
        BY <2>6, <3>1, <3>2, <3>3, <3>4, <3>5, <3>6, <3>7, <3>8, <3>9, <3>10 DEF PurchaseStep
    <2>7. ASSUME NEW q \in Admins, AdminLookup(q) PROVE IInv'
      <3>1. PICK t \in Purchases :
              /\ status[t] # "absent" /\ target' = [target EXCEPT ![q] = t]
              /\ Goto(q, IF status[t] = "REFUNDED" \/ refund[t] # Nobody
                         THEN "conflict" ELSE "adminCreate")
        BY <2>7 DEF AdminLookup
      <3>2. PICK l \in {"conflict", "adminCreate"} : pc' = [pc EXCEPT ![q] = l]
        BY <3>1 DEF Goto
      <3>3. pc[q] = "idle"
            /\ UNCHANGED <<walletVars, priceVars, order, net, rowVars, outsideVars>>
        BY <2>7 DEF AdminLookup, At
      <3> QED
        BY <3>1, <3>2, <3>3, LookupStep
    <2>8. ASSUME NEW q \in Admins, AdminStep(q) PROVE IInv'
      <3>1. CASE AdminCreate(q)
        BY <3>1, AdminCreateStep
      <3>2. CASE AdminMark(q)
        <4>1. target[q] \in Purchases /\ pc[q] = "adminMark" /\ pc' = [pc EXCEPT ![q] = "adminRead"]
          BY <3>2 DEF AdminMark, At, Goto, IInv, RefundsHeld, AdminTx
        <4> QED
          BY <3>2, <4>1, MarkStep, Kinds DEF AdminMark
      <3>3. CASE AdminRead(q)
        BY <3>3, ReadsStep, Kinds
      <3>4. CASE AdminWrite(q)
        BY <3>4, WritesStep, Kinds
      <3>5. CASE AdminCommit(q)
        BY <3>5, AdminCommitStep
      <3>6. CASE AdminAudit(q)
        BY <3>6, AdminStrolls
      <3> QED
        BY <2>8, <3>1, <3>2, <3>3, <3>4, <3>5, <3>6 DEF AdminStep
    <2>9. CASE VerifyMeter \/ VerifySmartcard \/ Expire \/ Terminated \/ UNCHANGED vars
      <3>1. UNCHANGED <<walletVars, priceVars, pc, orderVars, rowVars, worth>>
        BY <2>9 DEF VerifyMeter, VerifySmartcard, Verify, Expire, Terminated, vars, outsideVars
      <3>2. sessions' \subseteq Bills
        BY <2>0, <2>9 DEF VerifyMeter, VerifySmartcard, Verify, Expire, Terminated, vars,
                          outsideVars, Bills
      <3> QED
        BY <2>0, <3>1, <3>2, OutsideStep DEF priceVars
    <2> QED
      BY <2>1, <2>3, <2>6, <2>7, <2>8, <2>9, AdminStrolls, FaultStep DEF Next
  <1> QED
    BY <1>1, <1>2, PTL DEF Spec

-------------------------------------------------------------------------------
(* What follows from it *)

\* The ledger rows of one handler of one type are one row.
LEMMA OneRow ==
    ASSUME IInv, NEW ref \in Procs, NEW type \in {"DEBIT", "CREDIT"}
    PROVE  AtMostOne(LedgerRows(type, ref))
  <1> SUFFICES ASSUME NEW x \in LedgerRows(type, ref), NEW y \in LedgerRows(type, ref)
               PROVE  x = y
    BY DEF AtMostOne
  <1>1. PICK u, i : /\ u \in Users /\ i \in DOMAIN entries[u] /\ x = <<u, i>>
                    /\ entries[u][i].ref = ref /\ entries[u][i].type = type
    BY DEF LedgerRows, RowsOf
  <1>2. PICK v, j : /\ v \in Users /\ j \in DOMAIN entries[v] /\ y = <<v, j>>
                    /\ entries[v][j].ref = ref /\ entries[v][j].type = type
    BY DEF LedgerRows, RowsOf
  <1>3. u = v
    <2>1. RowStands(u, entries[u][i]) /\ RowStands(v, entries[v][j])
      BY <1>1, <1>2 DEF IInv, RowsStand
    <2> QED
      BY <1>1, <1>2, <2>1, Kinds DEF RowStands
  <1>4. i \in Int /\ j \in Int
    BY <1>1, <1>2, <1>3 DEF IInv, TypeOK, WalletTypeOK
  <1>5. ~ (i < j) /\ ~ (j < i)
    BY <1>1, <1>2, <1>3 DEF IInv, RowsOnce
  <1> QED
    BY <1>1, <1>2, <1>3, <1>4, <1>5

\* A ledger row of a handler is one of the rows its wallet has.
LEMMA RowIn ==
    ASSUME NEW type, NEW ref, NEW u, NEW i
    PROVE  <<u, i>> \in LedgerRows(type, ref) <=>
             /\ u \in Users /\ i \in DOMAIN entries[u]
             /\ entries[u][i].ref = ref /\ entries[u][i].type = type
  BY DEF LedgerRows, RowsOf

\* A ledger row is named by its wallet and its place in the wallet's trail.
LEMMA RowIs ==
    ASSUME NEW type, NEW ref, NEW x \in LedgerRows(type, ref)
    PROVE  x = <<x[1], x[2]>>
  BY DEF LedgerRows

\* The one debit of a paid order.
LEMMA PaidDebit ==
    ASSUME IInv, NEW t \in Purchases, status[t] # "absent"
    PROVE  /\ \E d \in Debits(t) : entries[d[1]][d[2]].amount = net[t] /\ d[1] = User(t)
           /\ AtMostOne(Debits(t))
  <1>1. User(t) \in Users /\ Backed(t)
    BY PlacedUser DEF IInv
  <1>2. PICK i \in DOMAIN entries[User(t)] :
          entries[User(t)][i].ref = t /\ entries[User(t)][i].type = "DEBIT"
    BY <1>1 DEF Backed
  <1>3. RowStands(User(t), entries[User(t)][i])
    BY <1>1, <1>2 DEF IInv, RowsStand
  <1>4. entries[User(t)][i].amount = net[t]
    BY <1>2, <1>3 DEF RowStands
  <1>5. <<User(t), i>> \in Debits(t)
    BY <1>1, <1>2, RowIn DEF Debits
  <1>6. AtMostOne(Debits(t))
    BY OneRow, Kinds DEF Debits
  <1> QED
    BY <1>4, <1>5, <1>6

\* TypeOK holds in every state.
THEOREM PurchaseTypeCorrect == Spec => []TypeOK
  <1>1. IInv => TypeOK
    BY DEF IInv
  <1> QED
    BY <1>1, PurchaseInvariant, PTL

\* DeliveredIsPaid: whatever a provider has delivered was paid before, once.
THEOREM DeliveredArePaid == Spec => []DeliveredIsPaid
  <1>1. ASSUME IInv PROVE DeliveredIsPaid
    <2> SUFFICES ASSUME NEW t \in delivered
                 PROVE  /\ \E d \in Debits(t) : entries[d[1]][d[2]].amount = net[t] /\ d[1] = User(t)
                        /\ AtMostOne(Debits(t))
      BY DEF DeliveredIsPaid
    <2>1. t \in Purchases /\ status[t] # "absent"
      BY <1>1 DEF delivered, IInv, Placed
    <2> QED
      BY <1>1, <2>1, PaidDebit
  <1> QED
    BY <1>1, PurchaseInvariant, PTL

\* OneDebitPerKey: two orders with one idempotency key are never both paid.
THEOREM KeysPayOnce == Spec => []OneDebitPerKey
  <1>1. ASSUME IInv PROVE OneDebitPerKey
    <2> SUFFICES ASSUME NEW s \in Purchases, NEW t \in Purchases,
                        Debits(s) # {}, Debits(t) # {}, order[s].key = order[t].key
                 PROVE  s = t
      BY DEF OneDebitPerKey
    <2>1. ASSUME NEW x \in Purchases, Debits(x) # {}
          PROVE  status[x] # "absent"
      <3>1. PICK d \in Debits(x) : TRUE
        BY <2>1
      <3>2. /\ d[1] \in Users /\ d[2] \in DOMAIN entries[d[1]]
            /\ entries[d[1]][d[2]].ref = x
        BY <3>1, RowIs, RowIn DEF Debits
      <3>3. RowStands(d[1], entries[d[1]][d[2]])
        BY <1>1, <3>2 DEF IInv, RowsStand
      <3> QED
        BY <3>2, <3>3 DEF RowStands
    <2> QED
      BY <1>1, <2>1 DEF IInv, KeysHeld
  <1> QED
    BY <1>1, PurchaseInvariant, PTL

\* AutoRefundReverses: an auto-refund is of the same order's one debit, after
\* it, and there is one.
THEOREM AutoRefundsReverse == Spec => []AutoRefundReverses
  <1>1. ASSUME IInv PROVE AutoRefundReverses
    <2> SUFFICES ASSUME NEW t \in Purchases
                 PROVE  /\ AtMostOne(AutoCredits(t))
                        /\ \A c \in AutoCredits(t) : \E d \in Debits(t) :
                             /\ d[1] = c[1]
                             /\ d[2] < c[2]
                             /\ entries[d[1]][d[2]].amount = entries[c[1]][c[2]].amount
      BY DEF AutoRefundReverses
    <2>1. AtMostOne(AutoCredits(t))
      BY <1>1, OneRow, Kinds DEF AutoCredits
    <2>2. ASSUME NEW c \in AutoCredits(t)
          PROVE  \E d \in Debits(t) :
                   /\ d[1] = c[1]
                   /\ d[2] < c[2]
                   /\ entries[d[1]][d[2]].amount = entries[c[1]][c[2]].amount
      <3>1. /\ c[1] \in Users /\ c[2] \in DOMAIN entries[c[1]]
            /\ entries[c[1]][c[2]].ref = t /\ entries[c[1]][c[2]].type = "CREDIT"
        BY RowIs, RowIn DEF AutoCredits
      <3>2. RowStands(c[1], entries[c[1]][c[2]])
        BY <1>1, <3>1 DEF IInv, RowsStand
      <3>3. c[1] = User(t) /\ entries[c[1]][c[2]].amount = net[t] /\ status[t] # "absent"
        BY <3>1, <3>2 DEF RowStands
      <3>4. PICK d \in Debits(t) : entries[d[1]][d[2]].amount = net[t] /\ d[1] = User(t)
        BY <1>1, <3>3, PaidDebit
      <3>5. /\ d[2] \in DOMAIN entries[d[1]]
            /\ entries[d[1]][d[2]].ref = t /\ entries[d[1]][d[2]].type = "DEBIT"
        BY RowIs, RowIn DEF Debits
      <3>6. c[2] \in Int /\ d[2] \in Int /\ d[2] # c[2]
        BY <1>1, <3>1, <3>3, <3>4, <3>5 DEF IInv, TypeOK, WalletTypeOK
      <3>7. ~ (c[2] < d[2])
        BY <1>1, <3>1, <3>3, <3>4, <3>5 DEF IInv, RowsOnce
      <3> QED
        BY <3>3, <3>4, <3>6, <3>7
    <2> QED
      BY <2>1, <2>2
  <1> QED
    BY <1>1, PurchaseInvariant, PTL

\* OneAdminRefund: however many administrators refund an order, one does.
THEOREM AdminsRefundOnce == Spec => []OneAdminRefund
  <1>1. ASSUME IInv PROVE OneAdminRefund
    <2> SUFFICES ASSUME NEW t \in Purchases, NEW x \in AdminCredits(t), NEW y \in AdminCredits(t)
                 PROVE  x = y
      BY DEF OneAdminRefund, AtMostOne
    <2>1. PICK q \in Admins : x \in LedgerRows("CREDIT", q) /\ target[q] = t
      BY DEF AdminCredits
    <2>2. PICK r \in Admins : y \in LedgerRows("CREDIT", r) /\ target[r] = t
      BY DEF AdminCredits
    <2>3. ASSUME NEW z, NEW s \in Admins, z \in LedgerRows("CREDIT", s)
          PROVE  refund[target[s]] = s
      <3>1. z[1] \in Users /\ z[2] \in DOMAIN entries[z[1]] /\ entries[z[1]][z[2]].ref = s
        BY <2>3, RowIs, RowIn
      <3>2. RowStands(z[1], entries[z[1]][z[2]])
        BY <1>1, <3>1 DEF IInv, RowsStand
      <3> QED
        BY <3>1, <3>2 DEF RowStands
    <2>4. q = r
      BY <2>1, <2>2, <2>3
    <2>5. AtMostOne(LedgerRows("CREDIT", q))
      BY <1>1, OneRow, Kinds
    <2> QED
      BY <2>1, <2>2, <2>4, <2>5 DEF AtMostOne
  <1> QED
    BY <1>1, PurchaseInvariant, PTL

\* StatusIsBacked: a status never says more than what happened.
THEOREM StatusesAreBacked == Spec => []StatusIsBacked
  <1>1. ASSUME IInv PROVE StatusIsBacked
    <2> SUFFICES ASSUME NEW t \in Purchases
                 PROVE  /\ status[t] = "REFUNDED" => AutoCredits(t) \cup AdminCredits(t) # {}
                        /\ status[t] = "SUCCESS" => t \in delivered
      BY DEF StatusIsBacked
    <2>1. ASSUME status[t] = "REFUNDED" PROVE AutoCredits(t) \cup AdminCredits(t) # {}
      <3>1. User(t) \in Users /\ Backed(t)
        BY <1>1, <2>1, PlacedUser DEF IInv
      <3>2. PICK i \in DOMAIN entries[User(t)] :
              /\ entries[User(t)][i].type = "CREDIT"
              /\ \/ entries[User(t)][i].ref = t
                 \/ entries[User(t)][i].ref \in Admins /\ target[entries[User(t)][i].ref] = t
        BY <2>1, <3>1 DEF Backed
      <3>3. CASE entries[User(t)][i].ref = t
        BY <3>1, <3>2, <3>3, RowIn DEF AutoCredits
      <3>4. CASE entries[User(t)][i].ref \in Admins /\ target[entries[User(t)][i].ref] = t
        <4>1. <<User(t), i>> \in LedgerRows("CREDIT", entries[User(t)][i].ref)
          BY <3>1, <3>2, RowIn
        <4> QED
          BY <3>4, <4>1 DEF AdminCredits
      <3> QED
        BY <3>2, <3>3, <3>4
    <2>2. status[t] = "SUCCESS" => t \in delivered
      BY <1>1 DEF IInv, Placed, delivered
    <2> QED
      BY <2>1, <2>2
  <1> QED
    BY <1>1, PurchaseInvariant, PTL

\* DeliveredIsWorthIt: half a naira is the most the adapters' rounding costs.
THEOREM DeliveriesAreWorthIt == Spec => []DeliveredIsWorthIt
  <1>1. IInv => DeliveredIsWorthIt
    BY DEF IInv, Placed, DeliveredIsWorthIt, delivered
  <1> QED
    BY <1>1, PurchaseInvariant, PTL

\* BalancesHold: no balance is negative, and without manual refunds each one
\* is what the newest row of its trail says.
THEOREM BalancesAreHeld == Spec => []BalancesHold
  <1>1. IInv => BalancesHold
    BY DEF IInv, Covered, Latest, BalancesHold
  <1> QED
    BY <1>1, PurchaseInvariant, PTL

-------------------------------------------------------------------------------
(* The contract *)

\* The receipts of the rows a trail has of one handler and type.
LEMMA TrailReceipts ==
    ASSUME NEW trail, NEW type, NEW ref, NEW rows,
           rows = UNION {{<<u, i>> : i \in {j \in {k \in DOMAIN trail[u] : trail[u][k].ref = ref} :
                                              trail[u][j].type = type}} : u \in Users},
           NEW x
    PROVE  x \in {[row |-> r, kobo |-> trail[r[1]][r[2]].amount] : r \in rows} <=>
             \E u \in Users : \E i \in DOMAIN trail[u] :
                /\ trail[u][i].ref = ref /\ trail[u][i].type = type
                /\ x = [row |-> <<u, i>>, kobo |-> trail[u][i].amount]
  <1>1. ASSUME NEW r \in rows, x = [row |-> r, kobo |-> trail[r[1]][r[2]].amount]
        PROVE  \E u \in Users : \E i \in DOMAIN trail[u] :
                /\ trail[u][i].ref = ref /\ trail[u][i].type = type
                /\ x = [row |-> <<u, i>>, kobo |-> trail[u][i].amount]
    <2>1. PICK u \in Users : \E i \in DOMAIN trail[u] :
             trail[u][i].ref = ref /\ trail[u][i].type = type /\ r = <<u, i>>
      OBVIOUS
    <2>2. PICK i \in DOMAIN trail[u] :
             trail[u][i].ref = ref /\ trail[u][i].type = type /\ r = <<u, i>>
      BY <2>1
    <2> QED
      BY <1>1, <2>2
  <1>2. ASSUME NEW u \in Users, NEW i \in DOMAIN trail[u],
               trail[u][i].ref = ref, trail[u][i].type = type,
               x = [row |-> <<u, i>>, kobo |-> trail[u][i].amount]
        PROVE  x \in {[row |-> r, kobo |-> trail[r[1]][r[2]].amount] : r \in rows}
    <2>1. <<u, i>> \in rows
      BY <1>2
    <2>2. x = [row |-> <<u, i>>, kobo |-> trail[<<u, i>>[1]][<<u, i>>[2]].amount]
      BY <1>2
    <2> QED
      BY <2>1, <2>2
  <1> QED
    BY <1>1, <1>2

\* Those of the ledger.
LEMMA ReceiptIn ==
    ASSUME NEW type, NEW ref, NEW x
    PROVE  x \in Receipts(LedgerRows(type, ref)) <=>
             \E u \in Users : \E i \in DOMAIN entries[u] :
                /\ entries[u][i].ref = ref /\ entries[u][i].type = type
                /\ x = [row |-> <<u, i>>, kobo |-> entries[u][i].amount]
  BY TrailReceipts DEF Receipts, LedgerRows, RowsOf

\* The receipts of administrators are those of the rows each one has written.
LEMMA ReimbursedIn ==
    ASSUME NEW t, NEW x
    PROVE  x \in Receipts(AdminCredits(t)) <=>
             \E q \in Admins : target[q] = t /\ x \in Receipts(LedgerRows("CREDIT", q))
  BY Zenon DEF Receipts, AdminCredits

\* Where no row was written the receipts are those there were.
LEMMA SameReceipts ==
    ASSUME UNCHANGED entries, NEW type, NEW ref
    PROVE  Receipts(LedgerRows(type, ref))' = Receipts(LedgerRows(type, ref))
  BY DEF Receipts, LedgerRows, RowsOf

\* A commit adds one receipt, of its handler.
LEMMA CommitReceipts ==
    ASSUME IInv, NEW p \in Procs, pc[p] \in Commits, CommitWallets(p),
           NEW kind, kind = IF pc[p] = "debitCommit" THEN "DEBIT" ELSE "CREDIT"
    PROVE  \E r : /\ r.kobo = Amount(p)
                  /\ Receipts(LedgerRows(kind, p))' = Receipts(LedgerRows(kind, p)) \cup {r}
                  /\ \A type, ref : type # kind \/ ref # p =>
                       Receipts(LedgerRows(type, ref))' = Receipts(LedgerRows(type, ref))
  <1>0. PICK w, e, n : w = Wallet(p) /\ e = dirty[w].entry /\ n = Len(entries[w])
    OBVIOUS
  <1>p. /\ w \in Users /\ e.ref = p /\ e.amount = Amount(p) /\ e.type = kind
        /\ n \in Nat /\ DOMAIN entries[w] = 1..n /\ DOMAIN entries'[w] = 1..(n + 1)
        /\ entries'[w][n + 1] = e
        /\ \A i \in 1..n : entries'[w][i] = entries[w][i]
        /\ \A u \in Users : u # w => entries'[u] = entries[u]
    BY <1>0, Published
  <1>1. PICK r : r = [row |-> <<w, n + 1>>, kobo |-> e.amount]
    OBVIOUS
  <1>2. ASSUME NEW type, NEW ref, NEW x
        PROVE  x \in Receipts(LedgerRows(type, ref))' <=>
                 \/ x \in Receipts(LedgerRows(type, ref))
                 \/ type = kind /\ ref = p /\ x = r
    <2>1. x \in Receipts(LedgerRows(type, ref))' <=>
             \E u \in Users : \E i \in DOMAIN entries'[u] :
                /\ entries'[u][i].ref = ref /\ entries'[u][i].type = type
                /\ x = [row |-> <<u, i>>, kobo |-> entries'[u][i].amount]
      BY TrailReceipts DEF Receipts, LedgerRows, RowsOf
    <2>2. x \in Receipts(LedgerRows(type, ref)) <=>
             \E u \in Users : \E i \in DOMAIN entries[u] :
                /\ entries[u][i].ref = ref /\ entries[u][i].type = type
                /\ x = [row |-> <<u, i>>, kobo |-> entries[u][i].amount]
      BY ReceiptIn
    <2>3. n + 1 \in DOMAIN entries'[w]
          /\ \A i \in DOMAIN entries[w] : i \in DOMAIN entries'[w] /\ entries'[w][i] = entries[w][i]
          /\ \A j \in DOMAIN entries'[w] : j \in DOMAIN entries[w] \/ j = n + 1
      BY <1>p
    <2>4. ASSUME x \in Receipts(LedgerRows(type, ref))'
          PROVE  \/ x \in Receipts(LedgerRows(type, ref))
                 \/ type = kind /\ ref = p /\ x = r
      <3>1. PICK u \in Users : \E i \in DOMAIN entries'[u] :
                /\ entries'[u][i].ref = ref /\ entries'[u][i].type = type
                /\ x = [row |-> <<u, i>>, kobo |-> entries'[u][i].amount]
        BY <2>1, <2>4
      <3>2. PICK i \in DOMAIN entries'[u] :
                /\ entries'[u][i].ref = ref /\ entries'[u][i].type = type
                /\ x = [row |-> <<u, i>>, kobo |-> entries'[u][i].amount]
        BY <3>1
      <3>3. CASE u = w /\ i = n + 1
        BY <1>p, <1>1, <3>2, <3>3
      <3>4. CASE ~ (u = w /\ i = n + 1)
        <4>1. i \in DOMAIN entries[u] /\ entries'[u][i] = entries[u][i]
          BY <1>p, <2>3, <3>2, <3>4
        <4> QED
          BY <2>2, <3>2, <4>1
      <3> QED
        BY <3>3, <3>4
    <2>5. ASSUME x \in Receipts(LedgerRows(type, ref)) PROVE x \in Receipts(LedgerRows(type, ref))'
      <3>1. PICK u \in Users : \E i \in DOMAIN entries[u] :
                /\ entries[u][i].ref = ref /\ entries[u][i].type = type
                /\ x = [row |-> <<u, i>>, kobo |-> entries[u][i].amount]
        BY <2>2, <2>5
      <3>2. PICK i \in DOMAIN entries[u] :
                /\ entries[u][i].ref = ref /\ entries[u][i].type = type
                /\ x = [row |-> <<u, i>>, kobo |-> entries[u][i].amount]
        BY <3>1
      <3>3. i \in DOMAIN entries'[u] /\ entries'[u][i] = entries[u][i]
        BY <1>p, <2>3
      <3> QED
        BY <2>1, <3>2, <3>3
    <2>6. ASSUME type = kind, ref = p, x = r PROVE x \in Receipts(LedgerRows(type, ref))'
      BY <1>p, <1>1, <2>1, <2>3, <2>6
    <2> QED
      BY <2>4, <2>5, <2>6
  <1>3. r.kobo = Amount(p)
    BY <1>p, <1>1
  <1>4. Receipts(LedgerRows(kind, p))' = Receipts(LedgerRows(kind, p)) \cup {r}
    BY <1>2
  <1>5. ASSUME NEW type, NEW ref, type # kind \/ ref # p
        PROVE  Receipts(LedgerRows(type, ref))' = Receipts(LedgerRows(type, ref))
    <2>1. \A x : x \in Receipts(LedgerRows(type, ref))' <=> x \in Receipts(LedgerRows(type, ref))
      BY <1>2, <1>5
    <2> QED
      BY <2>1
  <1> QED
    BY <1>3, <1>4, <1>5

\* Before the rows: who has written none.
LEMMA NoReceipts ==
    ASSUME IInv
    PROVE  /\ \A t \in Purchases : status[t] = "absent" => Receipts(Debits(t)) = {}
           /\ \A t \in Purchases : pc[t] # "sorry" => Receipts(AutoCredits(t)) = {}
           /\ \A q \in Admins : target[q] \notin Purchases \/ refund[target[q]] # q =>
                Receipts(LedgerRows("CREDIT", q)) = {}
  <1>1. ASSUME NEW type, NEW ref, NEW x \in Receipts(LedgerRows(type, ref))
        PROVE  \E u : \E e : RowStands(u, e) /\ e.ref = ref /\ e.type = type
    <2>1. PICK u \in Users : \E i \in DOMAIN entries[u] :
                entries[u][i].ref = ref /\ entries[u][i].type = type
      BY ReceiptIn
    <2>2. PICK i \in DOMAIN entries[u] : entries[u][i].ref = ref /\ entries[u][i].type = type
      BY <2>1
    <2>3. RowStands(u, entries[u][i])
      BY DEF IInv, RowsStand
    <2> QED
      BY <2>2, <2>3
  <1>2. ASSUME NEW t \in Purchases, status[t] = "absent", NEW x \in Receipts(Debits(t)) PROVE FALSE
    <2>1. PICK u, e : RowStands(u, e) /\ e.ref = t
      BY <1>1 DEF Debits
    <2> QED
      BY <1>2, <2>1 DEF RowStands
  <1>3. ASSUME NEW t \in Purchases, pc[t] # "sorry", NEW x \in Receipts(AutoCredits(t)) PROVE FALSE
    <2>1. PICK u, e : RowStands(u, e) /\ e.ref = t /\ e.type = "CREDIT"
      BY <1>1 DEF AutoCredits
    <2> QED
      BY <1>3, <2>1 DEF RowStands
  <1>4. ASSUME NEW q \in Admins, target[q] \notin Purchases \/ refund[target[q]] # q,
               NEW x \in Receipts(LedgerRows("CREDIT", q))
        PROVE  FALSE
    <2>1. PICK u, e : RowStands(u, e) /\ e.ref = q
      BY <1>1
    <2> QED
      BY <1>4, <2>1 DEF RowStands
  <1> QED
    BY <1>2, <1>3, <1>4

\* A paid order has a receipt of its net amount.
LEMMA PaidReceipt ==
    ASSUME IInv, NEW t \in Purchases, status[t] # "absent"
    PROVE  Receipts(Debits(t)) # {} /\ net[t] \in Contract!Kobo(Receipts(Debits(t)))
  <1>1. PICK d \in Debits(t) : entries[d[1]][d[2]].amount = net[t]
    BY PaidDebit
  <1>2. PICK r : r = [row |-> d, kobo |-> entries[d[1]][d[2]].amount]
    OBVIOUS
  <1>3. r \in Receipts(Debits(t)) /\ r.kobo = net[t]
    BY <1>1, <1>2 DEF Receipts
  <1> QED
    BY <1>3, Zenon DEF Contract!Kobo

\* Steps that publish no row, and confirm, deliver and settle nothing, are not
\* seen by the contract; an administrator who picks an order has no rows yet.
LEMMA QuietStep ==
    ASSUME IInv, UNCHANGED <<entries, status, keyRow, worth>>,
           \A t \in Purchases : pc'[t] = "done" <=> pc[t] = "done",
           \A q \in Admins : target'[q] = target[q] \/ pc[q] = "idle"
    PROVE  UNCHANGED Contract!contractVars
  <1>1. ASSUME NEW type, NEW ref
        PROVE  Receipts(LedgerRows(type, ref))' = Receipts(LedgerRows(type, ref))
    BY SameReceipts
  <1>2. UNCHANGED <<used, delivered, confirmed>>
    BY DEF used, delivered, confirmed
  <1>3. UNCHANGED <<paid, returned>>
    BY <1>1 DEF paid, returned, Debits, AutoCredits
  <1>4. UNCHANGED reimbursed
    <2>1. ASSUME NEW q \in Admins, target'[q] # target[q]
          PROVE  Receipts(LedgerRows("CREDIT", q)) = {}
      <3>1. pc[q] = "idle"
        BY <2>1
      <3>2. target[q] \notin Purchases \/ refund[target[q]] # q
        BY <3>1, Kinds DEF IInv, RefundsHeld, Ended
      <3> QED
        BY <3>2, NoReceipts
    <2>2. ASSUME NEW t \in Purchases
          PROVE  Receipts(AdminCredits(t))' = Receipts(AdminCredits(t))
      <3>1. ASSUME NEW x
            PROVE  x \in Receipts(AdminCredits(t))' <=> x \in Receipts(AdminCredits(t))
        <4>1. x \in Receipts(AdminCredits(t)) <=>
                \E q \in Admins : target[q] = t /\ x \in Receipts(LedgerRows("CREDIT", q))
          BY ReimbursedIn
        <4>2. x \in Receipts(AdminCredits(t))' <=>
                \E q \in Admins : target'[q] = t /\ x \in Receipts(LedgerRows("CREDIT", q))'
          BY DEF Receipts, AdminCredits
        <4> QED
          BY <1>1, <2>1, <4>1, <4>2
      <3> QED
        BY <3>1
    <2> QED
      BY <2>2 DEF reimbursed
  <1> QED
    BY <1>2, <1>3, <1>4 DEF Contract!contractVars

\* What a commit leaves as it was, and what it adds.
LEMMA CommitFrame ==
    ASSUME IInv, NEW p \in Procs, pc[p] \in Commits, CommitWallets(p), UNCHANGED <<orderVars, worth>>,
           NEW l, l # "done", pc' = [pc EXCEPT ![p] = l]
    PROVE  /\ UNCHANGED <<delivered, confirmed>>
           /\ \E r :
                /\ r.kobo = Amount(p)
                /\ IF pc[p] = "debitCommit"
                   THEN /\ p \in Purchases => paid' = [paid EXCEPT ![p] = paid[p] \cup {r}]
                        /\ UNCHANGED <<returned, reimbursed>>
                   ELSE /\ UNCHANGED paid
                        /\ p \in Purchases =>
                             /\ returned' = [returned EXCEPT ![p] = returned[p] \cup {r}]
                             /\ UNCHANGED reimbursed
                        /\ p \in Admins /\ target[p] \in Purchases =>
                             /\ UNCHANGED returned
                             /\ reimbursed' = [reimbursed EXCEPT
                                                ![target[p]] = reimbursed[target[p]] \cup {r}]
  <1>k. PICK kind : kind = IF pc[p] = "debitCommit" THEN "DEBIT" ELSE "CREDIT"
    OBVIOUS
  <1>r. PICK r : /\ r.kobo = Amount(p)
                 /\ Receipts(LedgerRows(kind, p))' = Receipts(LedgerRows(kind, p)) \cup {r}
                 /\ \A type, ref : type # kind \/ ref # p =>
                      Receipts(LedgerRows(type, ref))' = Receipts(LedgerRows(type, ref))
    BY <1>k, CommitReceipts
  <1>u. UNCHANGED <<target, worth>> /\ pc \in [Procs -> {"idle"} \cup Running \cup Ended]
    BY DEF orderVars, IInv, TypeOK
  <1>0. UNCHANGED <<delivered, confirmed>>
    <2>1. \A t \in Purchases : pc'[t] = "done" <=> pc[t] = "done"
      BY <1>u, Kinds DEF Commits
    <2> QED
      BY <1>u, <2>1 DEF delivered, confirmed
  <1>1. ASSUME NEW t \in Purchases
        PROVE  Receipts(Debits(t))' = IF kind = "DEBIT" /\ t = p THEN paid[p] \cup {r} ELSE paid[t]
    BY <1>r DEF Debits, paid
  <1>2. ASSUME NEW t \in Purchases
        PROVE  Receipts(AutoCredits(t))' =
                 IF kind = "CREDIT" /\ t = p THEN returned[p] \cup {r} ELSE returned[t]
    BY <1>r DEF AutoCredits, returned
  <1>3. ASSUME NEW t \in Purchases
        PROVE  Receipts(AdminCredits(t))' =
                 IF kind = "CREDIT" /\ p \in Admins /\ t = target[p]
                 THEN reimbursed[t] \cup {r} ELSE reimbursed[t]
    <2>1. ASSUME NEW x
          PROVE  x \in Receipts(AdminCredits(t))' <=>
                   \/ x \in Receipts(AdminCredits(t))
                   \/ kind = "CREDIT" /\ p \in Admins /\ t = target[p] /\ x = r
      <3>1. x \in Receipts(AdminCredits(t)) <=>
              \E q \in Admins : target[q] = t /\ x \in Receipts(LedgerRows("CREDIT", q))
        BY ReimbursedIn
      <3>2. x \in Receipts(AdminCredits(t))' <=>
              \E q \in Admins : target[q] = t /\ x \in Receipts(LedgerRows("CREDIT", q))'
        BY <1>u, Zenon DEF Receipts, AdminCredits
      <3>3. ASSUME NEW q
            PROVE  x \in Receipts(LedgerRows("CREDIT", q))' <=>
                     \/ x \in Receipts(LedgerRows("CREDIT", q))
                     \/ kind = "CREDIT" /\ q = p /\ x = r
        BY <1>r
      <3> QED
        BY <3>1, <3>2, <3>3
    <2> QED
      BY <2>1 DEF reimbursed
  <1>4. CASE kind = "DEBIT"
    <2>1. \A t \in Purchases : Receipts(AutoCredits(t))' = returned[t]
                               /\ Receipts(AdminCredits(t))' = reimbursed[t]
      BY <1>2, <1>3, <1>4
    <2>2. UNCHANGED <<returned, reimbursed>>
      BY <2>1 DEF returned, reimbursed
    <2>3. p \in Purchases => paid' = [paid EXCEPT ![p] = paid[p] \cup {r}]
      BY <1>1, <1>4 DEF paid
    <2> QED
      BY <1>0, <1>k, <1>r, <1>4, <2>2, <2>3
  <1>5. CASE kind = "CREDIT"
    <2>1. UNCHANGED paid
      BY <1>1, <1>5 DEF paid
    <2>2. ASSUME p \in Purchases
          PROVE  returned' = [returned EXCEPT ![p] = returned[p] \cup {r}] /\ UNCHANGED reimbursed
      <3>1. \A t \in Purchases : Receipts(AdminCredits(t))' = reimbursed[t]
        BY <1>3, <2>2, Kinds
      <3> QED
        BY <1>2, <1>5, <3>1 DEF returned, reimbursed
    <2>3. ASSUME p \in Admins, target[p] \in Purchases
          PROVE  /\ UNCHANGED returned
                 /\ reimbursed' = [reimbursed EXCEPT ![target[p]] = reimbursed[target[p]] \cup {r}]
      <3>1. \A t \in Purchases : Receipts(AutoCredits(t))' = returned[t]
        BY <1>2, <2>3, Kinds
      <3> QED
        BY <1>3, <1>5, <2>3, <3>1 DEF returned, reimbursed
    <2> QED
      BY <1>0, <1>k, <1>r, <1>5, <2>1, <2>2, <2>3
  <1> QED
    BY <1>k, <1>4, <1>5

\* What is known of the receipts where they decide.
LEMMA ReceiptsAre ==
    ASSUME IInv
    PROVE  /\ \A t \in Purchases : status[t] = "absent" => paid[t] = {}
           /\ \A t \in Purchases : status[t] # "absent" =>
                paid[t] # {} /\ net[t] \in Contract!Kobo(paid[t])
           /\ \A t \in Purchases : pc[t] # "sorry" => returned[t] = {}
           /\ \A t \in Purchases : refund[t] = Nobody => reimbursed[t] = {}
  <1>1. ASSUME NEW t \in Purchases, refund[t] = Nobody PROVE reimbursed[t] = {}
    <2>1. ASSUME NEW x \in Receipts(AdminCredits(t)) PROVE FALSE
      <3>1. PICK q \in Admins : target[q] = t /\ x \in Receipts(LedgerRows("CREDIT", q))
        BY ReimbursedIn
      <3> QED
        BY <1>1, <3>1, NoReceipts, Kinds
    <2> QED
      BY <2>1 DEF reimbursed
  <1> QED
    BY <1>1, NoReceipts, PaidReceipt DEF paid, returned

\* A paid order that its handler has neither confirmed nor refunded.
LEMMA UndecidedOrder ==
    ASSUME IInv, NEW p \in Purchases, pc[p] \in {"provider", "record", "refundCommit"}
    PROVE  Contract!Undecided(p) /\ status[p] # "absent"
  <1>1. status[p] # "absent"
    BY DEF IInv, Placed, Paid, RefundTx
  <1> QED
    BY <1>1, ReceiptsAre DEF Contract!Undecided, confirmed

\* The debit's commit places the order.
LEMMA DebitCommitPlaces ==
    ASSUME IInv, NEW p \in Purchases, DebitCommit(p)
    PROVE  Contract!Place(p)
  <1>1. /\ pc[p] = "debitCommit" /\ pc' = [pc EXCEPT ![p] = "provider"]
        /\ CommitWallets(p) /\ status[p] = "absent" /\ p \in Procs
        /\ status' = [status EXCEPT ![p] = "PROCESSING"]
        /\ UNCHANGED <<orderVars, worth>>
    BY Kinds DEF DebitCommit, At, Goto, IInv, Placed, Unpaid, outsideVars
  <1>2. PICK l : l = "provider"
    OBVIOUS
  <1>3. l # "done" /\ pc' = [pc EXCEPT ![p] = l] /\ pc[p] \in Commits
    BY <1>1, <1>2 DEF Commits
  <1>4. UNCHANGED <<delivered, confirmed, returned, reimbursed>>
        /\ \E r : paid' = [paid EXCEPT ![p] = paid[p] \cup {r}]
    BY <1>1, <1>3, CommitFrame
  <1>5. PICK r : paid' = [paid EXCEPT ![p] = {r}]
    BY <1>1, <1>4, ReceiptsAre
  <1>6. r \in paid'[p]
    BY <1>5 DEF paid
  <1>7. \E k \in Keys \ used : used' = used \cup {k}
    <2>1. /\ order[p].key \in Keys /\ keyRow[order[p].key] = Nobody
          /\ keyRow \in [Keys -> Purchases \cup {Nobody}]
      BY <1>1, OrderType DEF IInv, TypeOK, KeysHeld, DebitTx
    <2>2. keyRow' = [keyRow EXCEPT ![order[p].key] = p] /\ p # Nobody
      BY Kinds DEF DebitCommit
    <2> QED
      BY <2>1, <2>2 DEF used
  <1> QED
    BY <1>1, <1>4, <1>5, <1>6, <1>7 DEF Contract!Place

\* The provider's answer delivers the order, or nothing.
LEMMA CallDelivers ==
    ASSUME IInv, NEW p \in Purchases, NEW s, CallProvider(p, s)
    PROVE  Contract!Deliver(p) \/ UNCHANGED Contract!contractVars
  <1>1. /\ pc[p] = "provider" /\ worth[p] = Absent
        /\ worth \in [Purchases -> Nat \cup {Absent}]
        /\ pc \in [Procs -> {"idle"} \cup Running \cup Ended] /\ p \in Procs
    BY Kinds DEF CallProvider, At, IInv, TypeOK, Placed
  <1>2. UNCHANGED <<walletVars, orderVars, rowVars>>
    BY DEF CallProvider
  <1>3. PICK w, l : /\ worth' = [worth EXCEPT ![p] = w] /\ pc' = [pc EXCEPT ![p] = l]
                    /\ l \in {"record", "refundMark"}
    BY DEF CallProvider, Goto
  <1>4. UNCHANGED <<entries, status, keyRow, target>>
        /\ \A t \in Purchases : pc'[t] = "done" <=> pc[t] = "done"
    BY <1>1, <1>2, <1>3, Kinds DEF walletVars, orderVars, rowVars
  <1>5. CASE w = Absent
    <2>1. UNCHANGED worth
      BY <1>1, <1>3, <1>5
    <2> QED
      BY <1>4, <2>1, QuietStep
  <1>6. CASE w # Absent
    <2>1. p \notin delivered /\ delivered' = delivered \cup {p}
      BY <1>1, <1>3, <1>6 DEF delivered
    <2>2. UNCHANGED <<used, confirmed>>
      BY <1>4 DEF used, confirmed
    <2>3. ASSUME NEW type, NEW ref
          PROVE  Receipts(LedgerRows(type, ref))' = Receipts(LedgerRows(type, ref))
      BY <1>4, SameReceipts
    <2>4. UNCHANGED <<paid, returned>>
      BY <2>3 DEF paid, returned, Debits, AutoCredits
    <2>5. UNCHANGED reimbursed
      BY <1>4 DEF reimbursed, AdminCredits, Receipts, LedgerRows, RowsOf
    <2>6. Contract!Undecided(p)
      BY <1>1, UndecidedOrder
    <2> QED
      BY <1>4, <2>1, <2>2, <2>4, <2>5, <2>6 DEF Contract!Deliver
  <1> QED
    BY <1>5, <1>6

\* Recording the success confirms the order.
LEMMA RecordConfirms ==
    ASSUME IInv, NEW p \in Purchases, NEW s, RecordSuccess(p, s)
    PROVE  Contract!Confirm(p)
  <1>1. /\ pc[p] = "record" /\ pc' = [pc EXCEPT ![p] = "done"] /\ p \in Procs
        /\ pc \in [Procs -> {"idle"} \cup Running \cup Ended]
        /\ status' = [status EXCEPT ![p] = "SUCCESS"]
        /\ UNCHANGED <<entries, keyRow, worth, target>>
    BY Kinds DEF RecordSuccess, At, Goto, IInv, TypeOK, walletVars, orderVars, outsideVars
  <1>2. p \in delivered
    BY <1>1 DEF IInv, Placed, delivered
  <1>3. UNCHANGED <<used, delivered>>
    BY <1>1 DEF used, delivered
  <1>4. confirmed' = confirmed \cup {p}
    BY <1>1, Kinds DEF confirmed
  <1>5. UNCHANGED <<paid, returned, reimbursed>>
    BY <1>1
    DEF paid, returned, reimbursed, Debits, AutoCredits, AdminCredits, Receipts, LedgerRows,
        RowsOf
  <1>6. Contract!Undecided(p)
    BY <1>1, UndecidedOrder
  <1> QED
    BY <1>1, <1>2, <1>3, <1>4, <1>5, <1>6 DEF Contract!Confirm

\* The auto-refund's commit returns the money.
LEMMA RefundCommitReturns ==
    ASSUME IInv, NEW p \in Purchases, RefundCommit(p)
    PROVE  Contract!Return(p)
  <1>1. /\ pc[p] = "refundCommit" /\ pc' = [pc EXCEPT ![p] = "sorry"]
        /\ CommitWallets(p) /\ p \in Procs
        /\ status' = [status EXCEPT ![p] = "REFUNDED"]
        /\ UNCHANGED <<orderVars, worth, keyRow>>
    <2>1. pc[p] = "refundCommit"
      BY DEF RefundCommit, At
    <2>2. statusDraft[p] = [by |-> p, to |-> "REFUNDED"]
      BY <2>1 DEF IInv, StatusHeld, RefundTx
    <2>3. status' = [status EXCEPT ![p] = statusDraft[p].to]
      BY DEF RefundCommit
    <2>4. /\ pc' = [pc EXCEPT ![p] = "sorry"] /\ CommitWallets(p)
          /\ UNCHANGED <<orderVars, worth, keyRow>>
      BY DEF RefundCommit, Goto, outsideVars
    <2> QED
      BY <2>1, <2>2, <2>3, <2>4, Kinds
  <1>2. PICK l : l = "sorry"
    OBVIOUS
  <1>3. l # "done" /\ pc' = [pc EXCEPT ![p] = l] /\ pc[p] \in Commits
    BY <1>1, <1>2 DEF Commits
  <1>4. /\ UNCHANGED <<delivered, confirmed, paid, reimbursed>>
        /\ \E r : r.kobo = Amount(p) /\ returned' = [returned EXCEPT ![p] = returned[p] \cup {r}]
    BY <1>1, <1>3, CommitFrame
  <1>5. Contract!Undecided(p) /\ status[p] # "absent"
    BY <1>1, UndecidedOrder
  <1>6. returned[p] = {} /\ net[p] \in Contract!Kobo(paid[p])
    BY <1>1, <1>5, ReceiptsAre
  <1>7. PICK r : r.kobo = net[p] /\ returned' = [returned EXCEPT ![p] = {r}]
    BY <1>4, <1>6, Kinds DEF Amount
  <1>8. r \in returned'[p]
    BY <1>7 DEF returned
  <1>9. UNCHANGED used
    BY <1>1 DEF used
  <1> QED
    BY <1>1, <1>4, <1>5, <1>6, <1>7, <1>8, <1>9 DEF Contract!Return

\* A manual refund's commit reimburses the order.
LEMMA AdminCommitReimburses ==
    ASSUME IInv, NEW q \in Admins, AdminCommit(q)
    PROVE  \E t \in Purchases : Contract!Reimburse(t)
  <1>1. /\ pc[q] = "adminCommit" /\ pc' = [pc EXCEPT ![q] = "adminAudit"]
        /\ CommitWallets(q) /\ q \in Procs
        /\ target[q] \in Purchases /\ status[target[q]] # "absent" /\ refund[target[q]] = Nobody
        /\ status' = [status EXCEPT ![target[q]] = "REFUNDED"]
        /\ UNCHANGED <<orderVars, worth, keyRow>>
    <2>1. pc[q] = "adminCommit"
      BY DEF AdminCommit, At
    <2>2. /\ target[q] \in Purchases /\ status[target[q]] # "absent"
          /\ refund[target[q]] = Nobody /\ statusDraft[target[q]] = [by |-> q, to |-> "REFUNDED"]
      BY <2>1 DEF IInv, StatusHeld, RefundsHeld, AdminTx
    <2>3. status' = [status EXCEPT ![target[q]] = statusDraft[target[q]].to]
      BY DEF AdminCommit
    <2>4. /\ pc' = [pc EXCEPT ![q] = "adminAudit"] /\ CommitWallets(q)
          /\ UNCHANGED <<orderVars, worth, keyRow>>
      BY DEF AdminCommit, Goto, outsideVars
    <2> QED
      BY <2>1, <2>2, <2>3, <2>4, Kinds
  <1>2. PICK l, t : l = "adminAudit" /\ t = target[q]
    OBVIOUS
  <1>3. l # "done" /\ pc' = [pc EXCEPT ![q] = l] /\ pc[q] \in Commits
    BY <1>1, <1>2 DEF Commits
  <1>4. /\ UNCHANGED <<delivered, confirmed, paid, returned>>
        /\ \E r : r.kobo = Amount(q) /\ reimbursed' = [reimbursed EXCEPT ![t] = reimbursed[t] \cup {r}]
    BY <1>1, <1>2, <1>3, CommitFrame
  <1>5. t \in Purchases /\ paid[t] # {} /\ reimbursed[t] = {} /\ net[t] \in Contract!Kobo(paid[t])
    BY <1>1, <1>2, ReceiptsAre
  <1>6. PICK r : r.kobo = net[t] /\ reimbursed' = [reimbursed EXCEPT ![t] = {r}]
    <2>1. Amount(q) = net[t]
      BY <1>2 DEF Amount
    <2>2. PICK r : r.kobo = Amount(q) /\ reimbursed' = [reimbursed EXCEPT ![t] = reimbursed[t] \cup {r}]
      BY <1>4
    <2>3. reimbursed[t] \cup {r} = {r}
      BY <1>5
    <2> QED
      BY <2>1, <2>2, <2>3
  <1>7. r \in reimbursed'[t]
    BY <1>5, <1>6 DEF reimbursed
  <1>8. UNCHANGED used
    BY <1>1 DEF used
  <1> QED
    BY <1>1, <1>2, <1>4, <1>5, <1>6, <1>7, <1>8 DEF Contract!Reimburse

\* A handler that steps without confirming or publishing anything is not seen.
LEMMA QuietHandler ==
    ASSUME IInv, NEW p \in Procs, pc[p] # "done" \/ p \in Admins, NEW l, l # "done" \/ p \in Admins,
           pc' = [pc EXCEPT ![p] = l], UNCHANGED <<entries, status, keyRow, worth, target>>
    PROVE  UNCHANGED Contract!contractVars
  <1>1. \A t \in Purchases : pc'[t] = "done" <=> pc[t] = "done"
    BY Kinds DEF IInv, TypeOK
  <1> QED
    BY <1>1, QuietStep

\* Handlers that are not where the contract looks; those that end their
\* transactions, or are lost with the server.
LEMMA QuietFault ==
    ASSUME IInv,
           \/ \E p \in Purchases : DebitRefused(p) \/ RefundFails(p)
           \/ \E p \in Procs : Fail(p)
           \/ Crash
    PROVE  UNCHANGED Contract!contractVars
  <1>1. ASSUME NEW p \in Procs, NEW l \in {"refused", "failed", "sorry"}, Goto(p, l), Discard({p}),
               UNCHANGED <<orderVars, outsideVars>>, pc[p] # "done"
        PROVE  UNCHANGED Contract!contractVars
    BY <1>1, QuietHandler DEF Goto, Discard, RollbackWallets, orderVars, outsideVars
  <1>2. ASSUME NEW p \in Purchases, DebitRefused(p) PROVE UNCHANGED Contract!contractVars
    BY <1>1, <1>2, Kinds DEF DebitRefused, At
  <1>3. ASSUME NEW p \in Purchases, RefundFails(p) PROVE UNCHANGED Contract!contractVars
    BY <1>1, <1>3, Kinds DEF RefundFails, RefundTx
  <1>4. ASSUME NEW p \in Procs, Fail(p) PROVE UNCHANGED Contract!contractVars
    BY <1>1, <1>4 DEF Fail, DebitTx, AdminTx
  <1>5. ASSUME Crash PROVE UNCHANGED Contract!contractVars
    <2>1. pc' = [p \in Procs |-> IF pc[p] \in Running THEN "lost" ELSE pc[p]]
      BY <1>5 DEF Crash
    <2>2. \A t \in Purchases : pc'[t] = "done" <=> pc[t] = "done"
      BY <2>1, Kinds DEF Running, Open, DebitTx, RefundTx, AdminTx
    <2>3. UNCHANGED <<entries, status, keyRow, worth, target>>
      BY <1>5 DEF Crash, Discard, RollbackWallets, orderVars
    <2> QED
      BY <2>2, <2>3, QuietStep
  <1> QED
    BY <1>2, <1>3, <1>4, <1>5

\* A purchase handler's step is one of the contract's, or is not seen.
LEMMA PurchaseStepMaps ==
    ASSUME IInv, NEW p \in Purchases, Submit(p) \/ PurchaseStep(p) \/ RecordFails(p)
    PROVE  (\E t \in Purchases : Contract!Place(t) \/ Contract!Deliver(t) \/ Contract!Confirm(t)
                                 \/ Contract!Return(t))
           \/ UNCHANGED Contract!contractVars
  <1>0. p \in Procs
    BY Kinds
  <1>1. CASE \/ Submit(p) \/ RecordFails(p)
             \/ \E s : Accept(p, s) \/ Unverified(p, s) \/ CreateOrder(p, s) \/ HandleFailure(p, s)
             \/ DebitRead(p) \/ RefundRead(p)
    <2>1. PICK l : pc' = [pc EXCEPT ![p] = l] /\ l # "done" /\ pc[p] # "done"
      BY <1>1
      DEF Submit, RecordFails, Accept, Unverified, CreateOrder, HandleFailure, DebitRead,
                  RefundRead, At, Goto
    <2>2. UNCHANGED <<entries, status, keyRow, worth, target>>
      BY <1>1
      DEF Submit, RecordFails, Accept, Unverified, CreateOrder, HandleFailure, DebitRead,
                  RefundRead, ReadWallet, MarkRefunded, walletVars, orderVars, rowVars, outsideVars
    <2> QED
      BY <1>0, <2>1, <2>2, QuietHandler
  <1>2. CASE DebitWrite(p) \/ RefundWrite(p)
    <2>1. PICK l : pc' = [pc EXCEPT ![p] = l] /\ l # "done" /\ pc[p] # "done"
      BY <1>2 DEF DebitWrite, RefundWrite, At, Goto
    <2>2. UNCHANGED <<entries, status, keyRow, worth, target>>
      BY <1>2
      DEF DebitWrite, RefundWrite, DebitWallet, CreditWallet, WriteWallet, orderVars, rowVars,
                  outsideVars
    <2> QED
      BY <1>0, <2>1, <2>2, QuietHandler
  <1>3. CASE DebitRefused(p)
    BY <1>3, QuietFault
  <1>4. CASE DebitCommit(p)
    BY <1>4, DebitCommitPlaces
  <1>5. CASE \E s : CallProvider(p, s)
    BY <1>5, CallDelivers
  <1>6. CASE \E s : RecordSuccess(p, s)
    BY <1>6, RecordConfirms
  <1>7. CASE RefundCommit(p)
    BY <1>7, RefundCommitReturns
  <1>8. PurchaseStep(p) =>
          \/ \E s : \/ Accept(p, s) \/ Unverified(p, s) \/ CreateOrder(p, s) \/ HandleFailure(p, s)
                    \/ CallProvider(p, s) \/ RecordSuccess(p, s)
          \/ DebitRead(p) \/ RefundRead(p) \/ DebitWrite(p) \/ RefundWrite(p) \/ DebitRefused(p)
          \/ DebitCommit(p) \/ RefundCommit(p)
    BY Zenon
    DEF PurchaseStep, PurchaseAirtime, PurchaseData, PayElectricity, PayCableTV, OrderAirtime,
           OrderData, OrderElectricity, OrderCable, DeliverAirtime, DeliverData, DeliverElectricity,
           DeliverCable, RecordAirtime, RecordData, RecordElectricity, RecordCable,
           HandleAirtimeFailure, HandleDataFailure, HandleElectricityFailure, HandleCableFailure
  <1> QED
    BY <1>1, <1>2, <1>3, <1>4, <1>5, <1>6, <1>7, <1>8

\* So is an administrator's.
LEMMA AdminStepMaps ==
    ASSUME IInv, NEW q \in Admins,
           AdminLookup(q) \/ UpdateNetworkDiscount(q) \/ UpdateDataPlanPrice(q) \/ AdminStep(q)
    PROVE  (\E t \in Purchases : Contract!Reimburse(t)) \/ UNCHANGED Contract!contractVars
  <1>0. q \in Procs
    BY Kinds
  <1>1. CASE AdminLookup(q)
    <2>1. /\ pc[q] = "idle" /\ \E l : pc' = [pc EXCEPT ![q] = l]
          /\ \E t : target' = [target EXCEPT ![q] = t]
          /\ UNCHANGED <<entries, status, keyRow, worth>>
      BY <1>1 DEF AdminLookup, At, Goto, walletVars, rowVars, outsideVars
    <2>2. \A r \in Admins : target'[r] = target[r] \/ pc[r] = "idle"
      BY <2>1 DEF IInv, TypeOK
    <2>3. \A t \in Purchases : pc'[t] = "done" <=> pc[t] = "done"
      BY <2>1, Kinds DEF IInv, TypeOK
    <2> QED
      BY <2>1, <2>2, <2>3, QuietStep
  <1>2. CASE \/ UpdateNetworkDiscount(q) \/ UpdateDataPlanPrice(q) \/ AdminCreate(q) \/ AdminMark(q)
             \/ AdminRead(q) \/ AdminAudit(q)
    <2>1. \E l : pc' = [pc EXCEPT ![q] = l]
      BY <1>2 DEF UpdateNetworkDiscount, UpdateDataPlanPrice, AdminCreate, AdminMark, AdminRead,
                  AdminAudit, Goto
    <2>2. UNCHANGED <<entries, status, keyRow, worth, target>>
      BY <1>2 DEF UpdateNetworkDiscount, UpdateDataPlanPrice, AdminCreate, AdminMark, AdminRead,
                  AdminAudit, ReadWallet, MarkRefunded, walletVars, orderVars, rowVars, outsideVars
    <2> QED
      BY <1>0, <2>1, <2>2, QuietHandler
  <1>3. CASE AdminWrite(q)
    <2>1. pc' = [pc EXCEPT ![q] = "adminCommit"] /\ UNCHANGED <<entries, status, keyRow, worth, target>>
      BY <1>3 DEF AdminWrite, WriteWallet, Goto, orderVars, rowVars, outsideVars
    <2> QED
      BY <1>0, <2>1, QuietHandler
  <1>4. CASE AdminCommit(q)
    BY <1>4, AdminCommitReimburses
  <1> QED
    BY <1>1, <1>2, <1>3, <1>4 DEF AdminStep

\* ImplementsOrderContract: purchases, refunds, administrators, price changes,
\* faults and crashes are, to the order, the steps of its contract.
THEOREM OrderRefinement == Spec => ImplementsOrderContract
  <1>1. Init => Contract!Init
    <2> SUFFICES ASSUME Init PROVE Contract!Init
      OBVIOUS
    <2>1. IInv
      BY PurchaseInit
    <2>2. /\ status = [p \in Purchases |-> "absent"]
          /\ \A p \in Purchases : worth[p] = Absent /\ refund[p] = Nobody
          /\ \A p \in Purchases : pc[p] = "idle"
          /\ \A k \in Keys : keyRow[k] = Nobody
      BY Kinds DEF Init
    <2>3. used = {} /\ delivered = {} /\ confirmed = {}
      BY <2>2 DEF used, delivered, confirmed
    <2>4. \A t \in Purchases : paid[t] = {} /\ returned[t] = {} /\ reimbursed[t] = {}
      BY <2>1, <2>2, ReceiptsAre
    <2> QED
      BY <2>2, <2>3, <2>4 DEF Contract!Init, paid, returned, reimbursed
  <1>2. IInv /\ [Next]_vars => [Contract!Next]_(Contract!contractVars)
    <2> SUFFICES ASSUME IInv, [Next]_vars
                 PROVE  Contract!Next \/ UNCHANGED Contract!contractVars
      OBVIOUS
    <2>1. CASE \E p \in Purchases : Submit(p) \/ PurchaseStep(p) \/ RecordFails(p)
      BY <2>1, PurchaseStepMaps DEF Contract!Next
    <2>2. CASE \E q \in Admins : \/ AdminLookup(q) \/ UpdateNetworkDiscount(q)
                                 \/ UpdateDataPlanPrice(q) \/ AdminStep(q)
      BY <2>2, AdminStepMaps DEF Contract!Next
    <2>3. CASE (\E p \in Purchases : RefundFails(p)) \/ (\E p \in Procs : Fail(p)) \/ Crash
      BY <2>3, QuietFault
    <2>4. CASE VerifyMeter \/ VerifySmartcard \/ Expire \/ Terminated \/ UNCHANGED vars
      <3>1. UNCHANGED <<pc, entries, status, keyRow, worth, target>>
        BY <2>4
        DEF VerifyMeter, VerifySmartcard, Verify, Expire, Terminated, vars, walletVars,
            orderVars,
                    rowVars, outsideVars
      <3> QED
        BY <3>1, QuietStep
    <2> QED
      BY <2>1, <2>2, <2>3, <2>4 DEF Next
  <1> QED
    BY <1>1, <1>2, PurchaseInvariant, PTL DEF Spec, ImplementsOrderContract, Contract!Spec

-------------------------------------------------------------------------------
(* Nobody waits for ever *)

HasOrder(q, t) == statusDraft[t] # Clean /\ statusDraft[t].by = q

\* Whose uncommitted row a handler is blocked on, where it inserts a key or a
\* refunds row, updates an order or writes a wallet.
WaitsFor(p, q) ==
    \/ At(p, "create") /\ keyClaim[order[p].key] = q
    \/ At(p, "adminCreate") /\ refundClaim[target[p]] = q
    \/ pc[p] \in {"record", "refundMark"} /\ HasOrder(q, p)
    \/ At(p, "adminMark") /\ HasOrder(q, target[p])
    \/ pc[p] \in {"debitWrite", "refundWrite", "adminWrite"} /\ Owned(q, Wallet(p))

Waiting(p) == \E q \in Procs : WaitsFor(p, q)

\* How many kinds of rows a handler has got past: the unique ones, the
\* order's, the wallet's.
Depth(p) ==
    IF pc[p] \in {"create", "adminCreate"} THEN 1
    ELSE IF pc[p] \in {"record", "refundMark", "adminMark"} THEN 2
    ELSE IF pc[p] \in {"debitCommit", "refundCommit", "adminCommit"} THEN 4
    ELSE 3

\* Who is waited for has an open transaction and is further on.
WaitsAreOrdered ==
    \A p, q \in Procs : WaitsFor(p, q) => pc[q] \in Open /\ Depth(p) < Depth(q)

\* While any handler runs, one of them runs on.
SomeoneGoesOn ==
    (\E p \in Procs : pc[p] \in Running) =>
        \E p \in Procs : pc[p] \in Running /\ ~ Waiting(p)

\* A handler that waits takes no step but to fail: one that records a success
\* goes over to the refund.
WaitersStay ==
    [][\A p \in Procs : Waiting(p) =>
          \/ pc'[p] \in {pc[p], "failed", "sorry", "lost"}
          \/ pc[p] = "record" /\ pc'[p] = "refundMark"]_vars

\* A purchase is never at an administrator's label, nor the other way round.
LEMMA Places ==
    ASSUME IInv, NEW p \in Procs
    PROVE  /\ p \in Purchases => pc[p] \notin AdminTx \cup {"adminCreate", "adminAudit"}
           /\ p \in Admins =>
                pc[p] \notin DebitTx \cup RefundTx \cup
                             {"accept", "create", "provider", "record", "refundMark"}
  <1>1. p \in Purchases => pc[p] \in Unpaid \cup Paid \cup {"lost"}
    BY DEF IInv, Placed
  <1>2. p \in Admins => pc[p] \in {"idle", "adminCreate", "adminAudit"} \cup AdminTx \cup Ended
    BY DEF IInv, RefundsHeld
  <1> QED
    BY <1>1, <1>2 DEF Unpaid, Paid, AdminTx, DebitTx, RefundTx, Ended

\* Handlers insert their key or their refunds row first, then update the
\* order, then the wallet: who is waited for has got further.
LEMMA WaitsGoUp ==
    ASSUME IInv
    PROVE  WaitsAreOrdered
  <1>i. TypeOK /\ KeysHeld /\ RefundsHeld /\ StatusHeld /\ WalletsHeld
        /\ \A t \in Purchases : Placed(t)
    BY DEF IInv
  <1> SUFFICES ASSUME NEW p \in Procs, NEW q \in Procs, WaitsFor(p, q)
               PROVE  pc[q] \in Open /\ Depth(p) < Depth(q)
    BY DEF WaitsAreOrdered
  <1>0. q # Nobody
    BY Kinds
  <1>1. CASE At(p, "create") /\ keyClaim[order[p].key] = q
    <2>1. p \in Purchases
      BY <1>1, Places, Kinds DEF At
    <2>2. order[p].key \in Keys
      BY <1>i, <1>1, <2>1, OrderType DEF At
    <2>3. pc[q] \in DebitTx
      BY <1>i, <1>0, <1>1, <2>2 DEF KeysHeld
    <2> QED
      BY <1>1, <2>3 DEF Depth, At, Open, DebitTx
  <1>2. CASE At(p, "adminCreate") /\ refundClaim[target[p]] = q
    <2>1. p \in Admins
      BY <1>2, Places, Kinds DEF At
    <2>2. target[p] \in Purchases
      BY <1>i, <1>2, <2>1 DEF RefundsHeld, At
    <2>3. pc[q] \in AdminTx
      BY <1>i, <1>0, <1>2, <2>2 DEF RefundsHeld
    <2> QED
      BY <1>2, <2>3 DEF Depth, At, Open, AdminTx
  <1>3. ASSUME NEW t \in Purchases, HasOrder(q, t)
        PROVE  pc[q] \in RefundTx \cup (AdminTx \ {"adminMark"})
    BY <1>i, <1>3 DEF StatusHeld, HasOrder
  <1>4. CASE pc[p] \in {"record", "refundMark"} /\ HasOrder(q, p)
    <2>1. p \in Purchases
      BY <1>4, Places, Kinds
    <2>2. pc[q] \in RefundTx \cup (AdminTx \ {"adminMark"})
      BY <1>3, <1>4, <2>1
    <2> QED
      BY <1>4, <2>2 DEF Depth, Open, RefundTx, AdminTx
  <1>5. CASE At(p, "adminMark") /\ HasOrder(q, target[p])
    <2>1. p \in Admins
      BY <1>5, Places, Kinds DEF At, AdminTx
    <2>2. target[p] \in Purchases
      BY <1>i, <1>5, <2>1 DEF RefundsHeld, At, AdminTx
    <2>3. pc[q] \in RefundTx \cup (AdminTx \ {"adminMark"})
      BY <1>3, <1>5, <2>2
    <2> QED
      BY <1>5, <2>3 DEF Depth, At, Open, RefundTx, AdminTx
  <1>6. CASE pc[p] \in {"debitWrite", "refundWrite", "adminWrite"} /\ Owned(q, Wallet(p))
    <2>1. pc[p] \in Open
      BY <1>6 DEF Open, DebitTx, RefundTx, AdminTx
    <2>2. Wallet(p) \in Users
      BY <1>i, <2>1, WalletType
    <2>3. pc[q] \in {"debitCommit", "refundCommit", "adminCommit"}
      BY <1>i, <1>6, <2>2 DEF WalletsHeld, Owned
    <2> QED
      BY <1>6, <2>3 DEF Depth, Open, DebitTx, RefundTx, AdminTx
  <1> QED
    BY <1>1, <1>2, <1>4, <1>5, <1>6 DEF WaitsFor

\* Purchases and manual refunds never wait in a circle, although they insert
\* into two unique columns and write the same orders and wallets: who is
\* waited for is always further on in one order of rows.
THEOREM WaitsFormNoCircle == Spec => []WaitsAreOrdered
  BY WaitsGoUp, PurchaseInvariant, PTL

\* While any handler runs, one of them is not waiting: no fault, timeout or
\* deadlock detector is needed to get the others going again.
THEOREM NoDeadlock == Spec => []SomeoneGoesOn
  <1>1. ASSUME IInv
        PROVE  SomeoneGoesOn
    <2>w. WaitsAreOrdered
      BY <1>1, WaitsGoUp
    <2> SUFFICES ASSUME NEW p \in Procs, pc[p] \in Running,
                        \A q \in Procs : pc[q] \in Running => Waiting(q)
                 PROVE  FALSE
      BY DEF SomeoneGoesOn
    <2>d. \A q \in Procs : Depth(q) \in 1..4
      BY DEF Depth
    <2>r. \A q \in Procs : pc[q] \in Open => pc[q] \in Running
      BY DEF Running
    <2>1. PICK q \in Procs : WaitsFor(p, q)
      BY DEF Waiting
    <2>2. pc[q] \in Running /\ Depth(p) < Depth(q)
      BY <2>w, <2>r, <2>1 DEF WaitsAreOrdered
    <2>3. PICK r \in Procs : WaitsFor(q, r)
      BY <2>2 DEF Waiting
    <2>4. pc[r] \in Running /\ Depth(q) < Depth(r)
      BY <2>w, <2>r, <2>3 DEF WaitsAreOrdered
    <2>5. PICK s \in Procs : WaitsFor(r, s)
      BY <2>4 DEF Waiting
    <2>6. pc[s] \in Running /\ Depth(r) < Depth(s)
      BY <2>w, <2>r, <2>5 DEF WaitsAreOrdered
    <2>7. PICK t \in Procs : WaitsFor(s, t)
      BY <2>6 DEF Waiting
    <2>8. Depth(s) < Depth(t)
      BY <2>w, <2>7 DEF WaitsAreOrdered
    <2> QED
      BY <2>d, <2>2, <2>4, <2>6, <2>8
  <1> QED
    BY <1>1, PurchaseInvariant, PTL

\* Who waits takes no step of its own.
LEMMA WaitersAreBlocked ==
    ASSUME IInv, NEW p \in Procs, Waiting(p)
    PROVE  ~ PurchaseStep(p) /\ ~ AdminStep(p)
  <1>0. PICK q \in Procs : WaitsFor(p, q)
    BY DEF Waiting
  <1>q. q # Nobody
    BY Kinds
  <1> DEFINE There == {"create", "adminCreate", "record", "refundMark", "adminMark",
                       "debitWrite", "refundWrite", "adminWrite"}
  <1>1. pc[p] \in There
    BY <1>0 DEF WaitsFor, At
  <1>2. \A s : ~ Accept(p, s) /\ ~ Unverified(p, s) /\ ~ CallProvider(p, s)
    BY <1>1 DEF Accept, Unverified, CallProvider, At
  <1>3. /\ ~ DebitRead(p) /\ ~ DebitRefused(p) /\ ~ DebitCommit(p) /\ ~ RefundRead(p)
        /\ ~ RefundCommit(p) /\ ~ AdminRead(p) /\ ~ AdminCommit(p) /\ ~ AdminAudit(p)
    BY <1>1 DEF DebitRead, DebitRefused, DebitCommit, RefundRead, RefundCommit, AdminRead,
       AdminCommit, AdminAudit, At
  <1>4. \A s : ~ CreateOrder(p, s)
    BY <1>0, <1>q DEF CreateOrder, WaitsFor, At
  <1>5. ~ AdminCreate(p)
    BY <1>0, <1>q DEF AdminCreate, WaitsFor, At
  <1>6. \A s : ~ RecordSuccess(p, s) /\ ~ HandleFailure(p, s)
    BY <1>0 DEF RecordSuccess, HandleFailure, MarkRefunded, WaitsFor, HasOrder, At
  <1>7. ~ AdminMark(p)
    BY <1>0 DEF AdminMark, MarkRefunded, WaitsFor, HasOrder, At
  <1>8. pc[p] \in {"debitWrite", "refundWrite", "adminWrite"} => dirty[Wallet(p)] # Clean
    BY <1>0 DEF WaitsFor, At, Owned
  <1>9. /\ pc[p] \in {"debitWrite", "refundWrite"} => Wallet(p) = User(p)
        /\ pc[p] = "adminWrite" => Wallet(p) = User(target[p])
    BY Places, Kinds DEF Wallet, AdminTx, DebitTx, RefundTx
  <1>10. ~ DebitWrite(p) /\ ~ RefundWrite(p) /\ ~ AdminWrite(p)
    BY <1>8, <1>9
    DEF DebitWrite, RefundWrite, AdminWrite, DebitWallet, CreditWallet, WriteWallet,
       At
  <1>11. ~ PurchaseStep(p)
    BY <1>2, <1>3, <1>4, <1>6, <1>10
    DEF PurchaseStep, PurchaseAirtime, PurchaseData, PayElectricity, PayCableTV, OrderAirtime,
        OrderData, OrderElectricity, OrderCable, DeliverAirtime, DeliverData,
        DeliverElectricity, DeliverCable, RecordAirtime, RecordData, RecordElectricity,
        RecordCable, HandleAirtimeFailure, HandleDataFailure, HandleElectricityFailure,
        HandleCableFailure
  <1> QED
    BY <1>3, <1>5, <1>7, <1>10, <1>11 DEF AdminStep

\* A step of a handler moves that handler, which was running.
LEMMA StepsMoveOne ==
    ASSUME NEW p, PurchaseStep(p) \/ AdminStep(p)
    PROVE  pc[p] \in Running /\ \E l : pc' = [pc EXCEPT ![p] = l]
  <1>1. ASSUME NEW s, Accept(p, s) \/ Unverified(p, s) \/ CreateOrder(p, s)
        PROVE  pc[p] \in Running /\ \E l : pc' = [pc EXCEPT ![p] = l]
    BY <1>1 DEF Accept, Unverified, CreateOrder, Goto, At, Running
  <1>2. ASSUME NEW s, RecordSuccess(p, s) \/ HandleFailure(p, s)
        PROVE  pc[p] \in Running /\ \E l : pc' = [pc EXCEPT ![p] = l]
    BY <1>2 DEF RecordSuccess, HandleFailure, Goto, At, Running
  <1>3. ASSUME NEW s, CallProvider(p, s)
        PROVE  pc[p] \in Running /\ \E l : pc' = [pc EXCEPT ![p] = l]
    BY <1>3 DEF CallProvider, Goto, At, Running
  <1>4. CASE \/ DebitRead(p) \/ DebitRefused(p) \/ DebitWrite(p) \/ DebitCommit(p)
             \/ RefundRead(p) \/ RefundWrite(p) \/ RefundCommit(p)
    BY <1>4 DEF DebitRead, DebitRefused, DebitWrite, DebitCommit, RefundRead, RefundWrite,
       RefundCommit, Goto, At, Running, Open, DebitTx, RefundTx
  <1>5. CASE AdminStep(p)
    BY <1>5
    DEF AdminStep, AdminCreate, AdminMark, AdminRead, AdminWrite, AdminCommit, AdminAudit,
       Goto, At, Running, Open, AdminTx
  <1> QED
    BY <1>1, <1>2, <1>3, <1>4, <1>5
    DEF PurchaseStep, PurchaseAirtime, PurchaseData, PayElectricity, PayCableTV, OrderAirtime,
        OrderData, OrderElectricity, OrderCable, DeliverAirtime, DeliverData,
        DeliverElectricity, DeliverCable, RecordAirtime, RecordData, RecordElectricity,
        RecordCable, HandleAirtimeFailure, HandleDataFailure, HandleElectricityFailure,
        HandleCableFailure

\* A handler that waits takes no step before the row is released, except to
\* fail: waiting, as WaitsFor defines it, is what the database's locks enforce.
THEOREM WaitingIsBlocking == Spec => WaitersStay
  <1> DEFINE Stays(p) == \/ pc'[p] \in {pc[p], "failed", "sorry", "lost"}
                         \/ pc[p] = "record" /\ pc'[p] = "refundMark"
  <1>1. ASSUME IInv, [Next]_vars, NEW p \in Procs, Waiting(p)
        PROVE  Stays(p)
    <2>i. TypeOK
      BY <1>1 DEF IInv
    <2>1. PICK q \in Procs : WaitsFor(p, q)
      BY <1>1 DEF Waiting
    <2>2. pc[p] # "idle"
      BY <2>1 DEF WaitsFor, At
    <2>3. ASSUME NEW r \in Procs, r # p, NEW l, pc' = [pc EXCEPT ![r] = l]
          PROVE  Stays(p)
      BY <2>i, <2>3 DEF TypeOK
    <2>4. CASE UNCHANGED pc
      BY <2>4
    <2>5. ASSUME NEW r \in Procs, PurchaseStep(r) \/ AdminStep(r)
          PROVE  Stays(p)
      BY <1>1, <2>3, <2>5, WaitersAreBlocked, StepsMoveOne
    <2>6. ASSUME NEW r \in Procs,
                 \/ Submit(r) \/ AdminLookup(r) \/ UpdateNetworkDiscount(r)
                 \/ UpdateDataPlanPrice(r)
          PROVE  Stays(p)
      <3>1. pc[r] = "idle"
        BY <2>6 DEF Submit, AdminLookup, UpdateNetworkDiscount, UpdateDataPlanPrice, At
      <3>2. \E l : pc' = [pc EXCEPT ![r] = l]
        BY <2>6 DEF Submit, AdminLookup, UpdateNetworkDiscount, UpdateDataPlanPrice, Goto
      <3> QED
        BY <2>2, <2>3, <3>1, <3>2
    <2>7. ASSUME NEW r \in Procs, RecordFails(r) \/ RefundFails(r) \/ Fail(r)
          PROVE  Stays(p)
      <3>1. PICK l \in {"refundMark", "sorry", "failed"} :
              pc' = [pc EXCEPT ![r] = l] /\ (l = "refundMark" => pc[r] = "record")
        BY <2>7 DEF RecordFails, RefundFails, Fail, Goto, At
      <3> QED
        BY <2>i, <2>3, <3>1 DEF TypeOK
    <2>8. CASE Crash
      BY <2>8 DEF Crash
    <2>9. CASE VerifyMeter \/ VerifySmartcard \/ Expire \/ Terminated \/ UNCHANGED vars
      BY <2>4, <2>9 DEF VerifyMeter, VerifySmartcard, Verify, Expire, Terminated, vars
    <2> QED
      BY <1>1, <2>5, <2>6, <2>7, <2>8, <2>9, Kinds DEF Next
  <1>2. IInv /\ [Next]_vars =>
          [\A p \in Procs : Waiting(p) =>
              \/ pc'[p] \in {pc[p], "failed", "sorry", "lost"}
              \/ pc[p] = "record" /\ pc'[p] = "refundMark"]_vars
    BY <1>1
  <1> QED
    BY <1>2, PurchaseInvariant, PTL DEF Spec, WaitersStay

-------------------------------------------------------------------------------
(* Compensated once, where administrators wait *)

\* An administrator refunds only orders whose handlers have ended, which the
\* code does not see to: it accepts an order that is PROCESSING.
AdminsWait ==
    \A q \in Admins :
        pc[q] \in AdminTx \cup {"adminCreate"} => pc[target[q]] \notin Running

\* An order's money is given back once, by its handler or an administrator.
CompensatedOnce == \A t \in Purchases : AtMostOne(AutoCredits(t) \cup AdminCredits(t))

\* Who refunds an order by hand has found that its handler has not.
FoundUnreturned ==
    /\ \A q \in Admins :
         pc[q] \in AdminTx \cup {"adminCreate"} => returned[target[q]] = {}
    /\ \A t \in Purchases : refund[t] # Nobody => pc[t] \in Ended /\ returned[t] = {}
    /\ \A t \in Purchases : returned[t] # {} => status[t] = "REFUNDED"

\* The steps that write orders, refunds and ledger rows.
LEMMA StepShapes ==
    ASSUME [Next]_vars
    PROVE  \/ \E p \in Purchases : \/ DebitCommit(p) \/ RefundCommit(p)
                                   \/ \E s : RecordSuccess(p, s)
           \/ \E q \in Admins : AdminCommit(q) \/ AdminLookup(q)
           \/ UNCHANGED <<entries, status, refund, target>>
  <1> DEFINE Rest == UNCHANGED <<entries, status, refund, target>>
  <1>1. ASSUME NEW p, NEW s,
               \/ Accept(p, s) \/ Unverified(p, s) \/ CreateOrder(p, s) \/ CallProvider(p, s)
               \/ HandleFailure(p, s)
        PROVE  Rest
    BY <1>1 DEF Accept, Unverified, CreateOrder, CallProvider, HandleFailure, MarkRefunded,
       walletVars, rowVars, orderVars
  <1>2. ASSUME NEW p,
               \/ Submit(p) \/ RecordFails(p) \/ DebitRead(p) \/ RefundRead(p)
               \/ AdminRead(p) \/ AdminCreate(p) \/ AdminMark(p) \/ AdminAudit(p)
               \/ UpdateNetworkDiscount(p) \/ UpdateDataPlanPrice(p)
        PROVE  Rest
    BY <1>2 DEF Submit, RecordFails, DebitRead, RefundRead, ReadWallet, AdminRead, AdminCreate,
       AdminMark, MarkRefunded, AdminAudit, UpdateNetworkDiscount, UpdateDataPlanPrice,
       walletVars, rowVars, orderVars
  <1>3. ASSUME NEW p, DebitWrite(p) \/ RefundWrite(p) \/ AdminWrite(p)
        PROVE  Rest
    BY <1>3 DEF DebitWrite, RefundWrite, AdminWrite, DebitWallet, CreditWallet, WriteWallet,
       rowVars, orderVars
  <1>4. ASSUME NEW p, DebitRefused(p) \/ RefundFails(p) \/ Fail(p) \/ Crash
        PROVE  Rest
    BY <1>4 DEF DebitRefused, RefundFails, Fail, Crash, Discard, RollbackWallets, orderVars
  <1>5. CASE VerifyMeter \/ VerifySmartcard \/ Expire \/ Terminated \/ UNCHANGED vars
    BY <1>5 DEF VerifyMeter, VerifySmartcard, Verify, Expire, Terminated, vars, walletVars,
       rowVars, orderVars
  <1>6. ASSUME NEW p \in Purchases, PurchaseStep(p)
        PROVE  Rest \/ DebitCommit(p) \/ RefundCommit(p) \/ \E s : RecordSuccess(p, s)
    BY <1>1, <1>2, <1>3, <1>4, <1>6, Zenon
    DEF PurchaseStep, PurchaseAirtime, PurchaseData, PayElectricity, PayCableTV, OrderAirtime,
        OrderData, OrderElectricity, OrderCable, DeliverAirtime, DeliverData,
        DeliverElectricity, DeliverCable, RecordAirtime, RecordData, RecordElectricity,
        RecordCable, HandleAirtimeFailure, HandleDataFailure, HandleElectricityFailure,
        HandleCableFailure
  <1>7. ASSUME NEW q \in Admins, AdminStep(q)
        PROVE  Rest \/ AdminCommit(q)
    BY <1>2, <1>3, <1>7 DEF AdminStep
  <1> QED
    BY <1>2, <1>4, <1>5, <1>6, <1>7 DEF Next

\* Only an order's own refund changes what was returned for it.
LEMMA ReturnedStep ==
    ASSUME IInv, [Next]_vars, NEW t \in Purchases
    PROVE  returned'[t] = returned[t] \/ RefundCommit(t)
  <1>1. CASE UNCHANGED entries
    BY <1>1, SameReceipts DEF returned, AutoCredits
  <1>2. ASSUME NEW p \in Purchases, DebitCommit(p)
        PROVE  returned'[t] = returned[t]
    BY <1>2, DebitCommitPlaces DEF Contract!Place
  <1>3. ASSUME NEW p \in Purchases, RefundCommit(p), p # t
        PROVE  returned'[t] = returned[t]
    <2>1. DOMAIN returned = Purchases
      BY DEF returned
    <2>2. \E receipt : returned' = [returned EXCEPT ![p] = {receipt}]
      BY <1>3, RefundCommitReturns DEF Contract!Return
    <2> QED
      BY <1>3, <2>1, <2>2
  <1>4. ASSUME NEW q \in Admins, AdminCommit(q)
        PROVE  returned'[t] = returned[t]
    BY <1>4, AdminCommitReimburses DEF Contract!Reimburse
  <1>5. ASSUME NEW p \in Purchases, NEW s, RecordSuccess(p, s)
        PROVE  UNCHANGED entries
    BY <1>5 DEF RecordSuccess, walletVars
  <1>6. ASSUME NEW q \in Admins, AdminLookup(q)
        PROVE  UNCHANGED entries
    BY <1>6 DEF AdminLookup, walletVars
  <1> QED
    BY <1>1, <1>2, <1>3, <1>4, <1>5, <1>6, StepShapes

\* A handler that has ended is not moved.
LEMMA EndedStays ==
    ASSUME IInv, [Next]_vars, NEW p \in Procs, pc[p] \in Ended
    PROVE  pc'[p] = pc[p]
  <1>i. TypeOK
    BY DEF IInv
  <1>0. pc[p] \notin {"idle"} \cup Running
    BY DEF Ended, Running, Open, DebitTx, RefundTx, AdminTx
  <1>1. ASSUME NEW r \in Procs, r # p, NEW l, pc' = [pc EXCEPT ![r] = l]
        PROVE  pc'[p] = pc[p]
    BY <1>i, <1>1 DEF TypeOK
  <1>2. ASSUME NEW r \in Procs, PurchaseStep(r) \/ AdminStep(r)
        PROVE  pc'[p] = pc[p]
    BY <1>0, <1>1, <1>2, StepsMoveOne
  <1>3. ASSUME NEW r \in Procs,
               \/ Submit(r) \/ AdminLookup(r) \/ UpdateNetworkDiscount(r)
               \/ UpdateDataPlanPrice(r) \/ RecordFails(r) \/ RefundFails(r) \/ Fail(r)
        PROVE  pc'[p] = pc[p]
    <2>1. pc[r] \in {"idle"} \cup Running
      BY <1>3 DEF Submit, AdminLookup, UpdateNetworkDiscount, UpdateDataPlanPrice, RecordFails,
         RefundFails, Fail, At, Running, Open
    <2>2. \E l : pc' = [pc EXCEPT ![r] = l]
      BY <1>3 DEF Submit, AdminLookup, UpdateNetworkDiscount, UpdateDataPlanPrice, RecordFails,
         RefundFails, Fail, Goto
    <2> QED
      BY <1>0, <1>1, <2>1, <2>2
  <1>4. CASE Crash
    BY <1>0, <1>4 DEF Crash
  <1>5. CASE VerifyMeter \/ VerifySmartcard \/ Expire \/ Terminated \/ UNCHANGED vars
    BY <1>5 DEF VerifyMeter, VerifySmartcard, Verify, Expire, Terminated, vars
  <1> QED
    BY <1>2, <1>3, <1>4, <1>5, Kinds DEF Next

\* What is REFUNDED stays so once its handler is through.
LEMMA RefundedStays ==
    ASSUME IInv, [Next]_vars, NEW t \in Purchases, pc[t] = "sorry", status[t] = "REFUNDED"
    PROVE  status'[t] = "REFUNDED"
  <1>t. status \in [Purchases -> Statuses]
    BY DEF IInv, TypeOK
  <1>1. ASSUME NEW p \in Purchases, NEW s, DebitCommit(p) \/ RefundCommit(p) \/ RecordSuccess(p, s)
        PROVE  status'[t] = status[t]
    <2>1. p # t
      BY <1>1 DEF DebitCommit, RefundCommit, RecordSuccess, At
    <2> QED
      BY <1>t, <1>1, <2>1 DEF DebitCommit, RefundCommit, RecordSuccess
  <1>2. ASSUME NEW q \in Admins, AdminCommit(q)
        PROVE  status'[t] \in {status[t], "REFUNDED"}
    BY <1>t, <1>2, AdminCommitReimburses DEF Contract!Reimburse
  <1>3. ASSUME NEW q \in Admins, AdminLookup(q)
        PROVE  status'[t] = status[t]
    BY <1>3 DEF AdminLookup, rowVars
  <1> QED
    BY <1>1, <1>2, <1>3, StepShapes

\* Where an administrator who has an order in hand comes from.
LEMMA AdminBegins ==
    ASSUME IInv, [Next]_vars, NEW q \in Admins, pc'[q] \in AdminTx \cup {"adminCreate"}
    PROVE  \/ AdminLookup(q)
           \/ pc[q] \in AdminTx \cup {"adminCreate"} /\ target'[q] = target[q]
  <1> DEFINE InHand == AdminTx \cup {"adminCreate"}
  <1>i. TypeOK
    BY DEF IInv
  <1>0. q \in Procs
    BY Kinds
  <1>1. ASSUME NEW r \in Procs, NEW l, pc' = [pc EXCEPT ![r] = l], r = q => l \notin InHand
        PROVE  pc[q] \in InHand
    BY <1>i, <1>0, <1>1 DEF TypeOK
  <1>2. ASSUME NEW p \in Purchases, Submit(p) \/ PurchaseStep(p) \/ RecordFails(p) \/ RefundFails(p)
        PROVE  pc[q] \in InHand
    <2>1. \E l : pc' = [pc EXCEPT ![p] = l]
      BY <1>2, StepsMoveOne DEF Submit, RecordFails, RefundFails, Goto
    <2> QED
      BY <1>1, <2>1, Kinds
  <1>3. ASSUME NEW r \in Admins, AdminStep(r)
        PROVE  pc[q] \in InHand
    <2>1. r # q => \E l : pc' = [pc EXCEPT ![r] = l]
      BY <1>3, StepsMoveOne
    <2>2. CASE AdminAudit(r)
      BY <1>1, <2>2, Kinds DEF AdminAudit, Goto, AdminTx
    <2>3. CASE r = q /\ ~ AdminAudit(r)
      BY <1>3, <2>3
      DEF AdminStep, AdminCreate, AdminMark, AdminRead, AdminWrite, AdminCommit, At,
         AdminTx
    <2> QED
      BY <1>1, <2>1, <2>2, <2>3, Kinds
  <1>4. ASSUME NEW r \in Admins, AdminLookup(r), r # q
        PROVE  pc[q] \in InHand
    <2>1. \E l : pc' = [pc EXCEPT ![r] = l]
      BY <1>4 DEF AdminLookup, Goto
    <2> QED
      BY <1>1, <1>4, <2>1, Kinds
  <1>5. ASSUME NEW r \in Admins, UpdateNetworkDiscount(r) \/ UpdateDataPlanPrice(r)
        PROVE  pc[q] \in InHand
    BY <1>1, <1>5, Kinds DEF UpdateNetworkDiscount, UpdateDataPlanPrice, Goto, AdminTx
  <1>6. ASSUME NEW r \in Procs, Fail(r)
        PROVE  pc[q] \in InHand
    BY <1>1, <1>6 DEF Fail, Goto, AdminTx
  <1>7. ASSUME Crash
        PROVE  pc[q] \in InHand
    BY <1>0, <1>7 DEF Crash, AdminTx
  <1>8. ASSUME VerifyMeter \/ VerifySmartcard \/ Expire \/ Terminated \/ UNCHANGED vars
        PROVE  pc[q] \in InHand
    BY <1>8 DEF VerifyMeter, VerifySmartcard, Verify, Expire, Terminated, vars
  <1>9. pc[q] \in InHand \/ AdminLookup(q)
    BY <1>2, <1>3, <1>4, <1>5, <1>6, <1>7, <1>8 DEF Next
  <1>10. ASSUME pc[q] \in InHand
         PROVE  target'[q] = target[q]
    <2>1. ASSUME NEW r \in Admins, AdminLookup(r)
          PROVE  target'[q] = target[q]
      <3>1. r # q
        BY <1>10, <2>1 DEF AdminLookup, At, AdminTx
      <3> QED
        BY <1>i, <2>1, <3>1 DEF AdminLookup, TypeOK
    <2>2. ASSUME NEW r \in Admins, AdminCommit(r)
          PROVE  target'[q] = target[q]
      BY <2>2 DEF AdminCommit, orderVars
    <2>3. ASSUME NEW p \in Purchases,
                 DebitCommit(p) \/ RefundCommit(p) \/ \E s : RecordSuccess(p, s)
          PROVE  target'[q] = target[q]
      BY <2>3 DEF DebitCommit, RefundCommit, RecordSuccess, orderVars
    <2> QED
      BY <2>1, <2>2, <2>3, StepShapes
  <1> QED
    BY <1>9, <1>10

\* Administrators who wait find out the truth, and it stays so.
LEMMA FoundUnreturnedStep ==
    ASSUME IInv, AdminsWait, FoundUnreturned, [Next]_vars
    PROVE  FoundUnreturned'
  <1>i. TypeOK /\ RefundsHeld /\ \A t \in Purchases : Placed(t)
    BY DEF IInv
  <1>0. \A t \in Purchases : t \in Procs
    BY Kinds
  <1>1. ASSUME NEW t \in Purchases, pc[t] \notin Running
        PROVE  returned'[t] = returned[t]
    BY <1>1, ReturnedStep DEF RefundCommit, At, Running, Open, RefundTx
  <1>2. ASSUME NEW q \in Admins, pc'[q] \in AdminTx \cup {"adminCreate"}
        PROVE  returned'[target'[q]] = {}
    <2>1. CASE AdminLookup(q)
      <3>1. PICK t \in Purchases :
              /\ target' = [target EXCEPT ![q] = t]
              /\ pc' = [pc EXCEPT ![q] = IF status[t] = "REFUNDED" \/ refund[t] # Nobody
                                         THEN "conflict" ELSE "adminCreate"]
        BY <2>1 DEF AdminLookup, Goto
      <3>2. target'[q] = t /\ status[t] # "REFUNDED"
        BY <1>i, <1>2, <3>1, Kinds DEF TypeOK, AdminTx
      <3>3. returned[t] = {}
        BY <3>2 DEF FoundUnreturned
      <3>4. UNCHANGED entries
        BY <2>1 DEF AdminLookup, walletVars
      <3>5. returned'[t] = returned[t]
        BY <3>4, SameReceipts DEF returned, AutoCredits
      <3> QED
        BY <3>2, <3>3, <3>5
    <2>2. CASE pc[q] \in AdminTx \cup {"adminCreate"} /\ target'[q] = target[q]
      <3>1. target[q] \in Purchases /\ pc[target[q]] \notin Running
        BY <1>i, <2>2 DEF RefundsHeld, AdminsWait
      <3>2. returned[target[q]] = {}
        BY <2>2 DEF FoundUnreturned
      <3> QED
        BY <1>1, <2>2, <3>1, <3>2
    <2> QED
      BY <1>2, <2>1, <2>2, AdminBegins
  <1>3. ASSUME NEW t \in Purchases, refund'[t] # Nobody
        PROVE  pc'[t] \in Ended /\ returned'[t] = {}
    <2>1. ASSUME pc[t] \in Ended, returned[t] = {}
          PROVE  pc'[t] \in Ended /\ returned'[t] = {}
      <3>1. pc[t] \notin Running
        BY <2>1 DEF Ended, Running, Open, DebitTx, RefundTx, AdminTx
      <3> QED
        BY <1>0, <1>1, <2>1, <3>1, EndedStays
    <2>2. CASE refund[t] # Nobody
      BY <2>1, <2>2 DEF FoundUnreturned
    <2>3. ASSUME NEW q \in Admins, AdminCommit(q), target[q] = t
          PROVE  pc[t] \in Ended /\ returned[t] = {}
      <3>1. pc[q] \in AdminTx
        BY <2>3 DEF AdminCommit, At, AdminTx
      <3>2. status[t] # "absent" /\ pc[t] \notin Running /\ returned[t] = {}
        BY <1>i, <2>3, <3>1 DEF RefundsHeld, AdminsWait, FoundUnreturned
      <3>3. pc[t] \in Paid \cup {"lost"}
        BY <1>i, <3>2 DEF Placed
      <3> QED
        BY <3>2, <3>3 DEF Paid, Ended, Running, Open, RefundTx
    <2>4. ASSUME NEW q \in Admins, AdminCommit(q), target[q] # t
          PROVE  refund'[t] = refund[t]
      BY <1>i, <2>4 DEF AdminCommit, TypeOK
    <2>5. ASSUME \A q \in Admins : ~ AdminCommit(q)
          PROVE  refund'[t] = refund[t]
      <3>1. ASSUME NEW p \in Purchases,
                   DebitCommit(p) \/ RefundCommit(p) \/ \E s : RecordSuccess(p, s)
            PROVE  UNCHANGED refund
        BY <3>1 DEF DebitCommit, RefundCommit, RecordSuccess
      <3>2. ASSUME NEW r \in Admins, AdminLookup(r)
            PROVE  UNCHANGED refund
        BY <3>2 DEF AdminLookup, rowVars
      <3> QED
        BY <2>5, <3>1, <3>2, StepShapes
    <2> QED
      BY <1>3, <2>1, <2>2, <2>3, <2>4, <2>5
  <1>4. ASSUME NEW t \in Purchases, returned'[t] # {}
        PROVE  status'[t] = "REFUNDED"
    <2>t. status \in [Purchases -> Statuses]
      BY <1>i DEF TypeOK
    <2>1. CASE RefundCommit(t)
      BY <2>t, <2>1, RefundCommitReturns DEF Contract!Return
    <2>2. CASE ~ RefundCommit(t)
      <3>1. returned[t] # {}
        BY <1>4, <2>2, ReturnedStep
      <3>2. status[t] = "REFUNDED" /\ pc[t] = "sorry"
        BY <3>1, ReceiptsAre DEF FoundUnreturned
      <3> QED
        BY <3>2, RefundedStays
    <2> QED
      BY <2>1, <2>2
  <1> QED
    BY <1>2, <1>3, <1>4 DEF FoundUnreturned

\* An order is compensated twice only where an administrator takes it up while
\* its handler is still running: that is all that stands against it.
THEOREM CompensatedOnceIfAdminsWait == Spec /\ []AdminsWait => []CompensatedOnce
  <1>1. ASSUME Init
        PROVE  FoundUnreturned
    <2>1. /\ \A t \in Purchases : pc[t] = "idle" /\ refund[t] = Nobody
          /\ \A q \in Admins : pc[q] = "idle"
      BY <1>1, Kinds DEF Init
    <2>2. \A t \in Purchases : returned[t] = {}
      BY <1>1, <2>1, PurchaseInit, ReceiptsAre
    <2> QED
      BY <2>1, <2>2 DEF FoundUnreturned, AdminTx
  <1>2. IInv /\ AdminsWait /\ FoundUnreturned /\ [Next]_vars => FoundUnreturned'
    BY FoundUnreturnedStep
  <1>3. ASSUME IInv, OneAdminRefund, FoundUnreturned
        PROVE  CompensatedOnce
    <2> SUFFICES ASSUME NEW t \in Purchases
                 PROVE  AtMostOne(AutoCredits(t) \cup AdminCredits(t))
      BY DEF CompensatedOnce
    <2>1. AtMostOne(AutoCredits(t)) /\ AtMostOne(AdminCredits(t))
      BY <1>3, OneRow, Kinds DEF AutoCredits, OneAdminRefund
    <2>2. CASE AutoCredits(t) = {}
      BY <2>1, <2>2 DEF AtMostOne
    <2>3. CASE AutoCredits(t) # {}
      <3>1. returned[t] # {}
        BY <2>3 DEF returned, Receipts
      <3>2. refund[t] = Nobody
        BY <1>3, <3>1 DEF FoundUnreturned
      <3>3. reimbursed[t] = {}
        BY <1>3, <3>2, ReceiptsAre
      <3>4. AdminCredits(t) = {}
        BY <3>3 DEF reimbursed, Receipts
      <3> QED
        BY <2>1, <3>4 DEF AtMostOne
    <2> QED
      BY <2>2, <2>3
  <1> QED
    BY <1>1, <1>2, <1>3, PurchaseInvariant, AdminsRefundOnce, PTL DEF Spec

-------------------------------------------------------------------------------
(* The trail, where no handler waits for a wallet *)

Writers == {"debitWrite", "refundWrite", "adminWrite"}

\* Nobody waits for a wallet's row.
Uncontended == \A p, q \in Procs : WaitsFor(p, q) => pc[p] \notin Writers

\* What a handler has read and is about to write back is still the balance.
ReadsCurrent == \A p \in Procs : pc[p] \in Writers => seen[p] = balance[Wallet(p)]

CurrentInv == IInv /\ ReadsCurrent /\ DraftsCurrent /\ Reconciled

\* Who is about to write a wallet has just read it, or was there before, with
\* the same wallet in mind.
LEMMA WritersCome ==
    ASSUME IInv, [Next]_vars, NEW q \in Procs, pc'[q] \in Writers
    PROVE  \/ DebitRead(q) \/ RefundRead(q) \/ AdminRead(q)
           \/ pc[q] = pc'[q] /\ Wallet(q)' = Wallet(q) /\ seen'[q] = seen[q]
  <1> DEFINE Keeps == pc[q] = pc'[q] /\ Wallet(q)' = Wallet(q) /\ seen'[q] = seen[q]
             Come == DebitRead(q) \/ RefundRead(q) \/ AdminRead(q)
  <1>i. TypeOK /\ seen \in [Procs -> Int]
    BY DEF IInv, TypeOK, WalletTypeOK
  <1>m. ASSUME NEW r, NEW l, l \notin Writers, pc' = [pc EXCEPT ![r] = l],
               UNCHANGED <<seen, order, target>>
        PROVE  Keeps
    BY <1>i, <1>m DEF TypeOK, Wallet, User
  <1>1. ASSUME NEW p, NEW s,
               \/ Accept(p, s) \/ Unverified(p, s) \/ CreateOrder(p, s) \/ CallProvider(p, s)
               \/ HandleFailure(p, s) \/ RecordSuccess(p, s)
        PROVE  Keeps
    <2>1. \E l : l \notin Writers /\ pc' = [pc EXCEPT ![p] = l]
      BY <1>1 DEF Accept, Unverified, CreateOrder, CallProvider, HandleFailure, RecordSuccess,
         Goto, Writers
    <2>2. UNCHANGED <<seen, order, target>>
      BY <1>1 DEF Accept, Unverified, CreateOrder, CallProvider, HandleFailure, RecordSuccess,
         walletVars, orderVars
    <2> QED
      BY <1>m, <2>1, <2>2
  <1>2. ASSUME NEW p,
               \/ RecordFails(p) \/ AdminCreate(p) \/ AdminMark(p) \/ AdminAudit(p)
               \/ UpdateNetworkDiscount(p) \/ UpdateDataPlanPrice(p)
        PROVE  Keeps
    <2>1. \E l : l \notin Writers /\ pc' = [pc EXCEPT ![p] = l]
      BY <1>2 DEF RecordFails, AdminCreate, AdminMark, AdminAudit, UpdateNetworkDiscount,
         UpdateDataPlanPrice, Goto, Writers
    <2>2. UNCHANGED <<seen, order, target>>
      BY <1>2 DEF RecordFails, AdminCreate, AdminMark, AdminAudit, UpdateNetworkDiscount,
         UpdateDataPlanPrice, walletVars, orderVars
    <2> QED
      BY <1>m, <2>1, <2>2
  <1>3. ASSUME NEW p, DebitWrite(p) \/ RefundWrite(p) \/ AdminWrite(p)
        PROVE  Keeps
    <2>1. \E l : l \notin Writers /\ pc' = [pc EXCEPT ![p] = l]
      BY <1>3 DEF DebitWrite, RefundWrite, AdminWrite, Goto, Writers
    <2>2. UNCHANGED <<seen, order, target>>
      BY <1>3 DEF DebitWrite, RefundWrite, AdminWrite, DebitWallet, CreditWallet, WriteWallet,
         orderVars
    <2> QED
      BY <1>m, <2>1, <2>2
  <1>4. ASSUME NEW p, DebitCommit(p) \/ RefundCommit(p) \/ AdminCommit(p)
        PROVE  Keeps
    <2>1. \E l : l \notin Writers /\ pc' = [pc EXCEPT ![p] = l]
      BY <1>4 DEF DebitCommit, RefundCommit, AdminCommit, Goto, Writers
    <2>2. UNCHANGED <<seen, order, target>>
      BY <1>4 DEF DebitCommit, RefundCommit, AdminCommit, CommitWallets, orderVars
    <2> QED
      BY <1>m, <2>1, <2>2
  <1>5. ASSUME NEW p, DebitRefused(p) \/ RefundFails(p) \/ Fail(p)
        PROVE  Keeps
    <2>1. \E l : l \notin Writers /\ pc' = [pc EXCEPT ![p] = l]
      BY <1>5 DEF DebitRefused, RefundFails, Fail, Goto, Writers
    <2>2. UNCHANGED <<seen, order, target>>
      BY <1>5 DEF DebitRefused, RefundFails, Fail, Discard, RollbackWallets, orderVars
    <2> QED
      BY <1>m, <2>1, <2>2
  <1>6. CASE Crash
    BY <1>i, <1>6 DEF Crash, Discard, RollbackWallets, orderVars, Writers, Wallet, User
  <1>7. CASE VerifyMeter \/ VerifySmartcard \/ Expire \/ Terminated \/ UNCHANGED vars
    BY <1>7 DEF VerifyMeter, VerifySmartcard, Verify, Expire, Terminated, vars, walletVars,
       orderVars, Wallet, User
  <1>8. ASSUME NEW p, p # q, DebitRead(p) \/ RefundRead(p) \/ AdminRead(p)
        PROVE  Keeps
    <2>1. UNCHANGED <<order, target>> /\ \E x : seen' = [seen EXCEPT ![p] = x]
      BY <1>8 DEF DebitRead, RefundRead, AdminRead, ReadWallet, orderVars
    <2>2. \E l : pc' = [pc EXCEPT ![p] = l]
      BY <1>8 DEF DebitRead, RefundRead, AdminRead, Goto
    <2> QED
      BY <1>i, <1>8, <2>1, <2>2 DEF TypeOK, Wallet, User
  <1>t. ASSUME q \in Admins, pc[q] \in AdminTx
        PROVE  target[q] \in Purchases /\ pc[target[q]] # "idle"
    <2>1. target[q] \in Purchases /\ status[target[q]] # "absent"
      BY <1>t DEF IInv, RefundsHeld
    <2> QED
      BY <2>1, PlacedUser DEF IInv
  <1>9. ASSUME NEW p \in Purchases, Submit(p)
        PROVE  Keeps
    <2>1. /\ pc[p] = "idle" /\ UNCHANGED <<seen, target>>
          /\ \E o : order' = [order EXCEPT ![p] = o]
          /\ pc' = [pc EXCEPT ![p] = "accept"]
      BY <1>9 DEF Submit, At, Goto, walletVars
    <2>2. q # p /\ pc'[q] = pc[q]
      BY <1>i, <2>1, Kinds DEF TypeOK, Writers
    <2>3. q \in Admins => pc[q] \in AdminTx
      BY <2>2, Places DEF Writers, DebitTx, RefundTx, AdminTx
    <2>4. q \in Admins => target[q] # p
      BY <1>t, <2>1, <2>3
    <2>5. \A t \in Purchases : t # p => order'[t] = order[t]
      BY <1>i, <2>1 DEF TypeOK
    <2> QED
      BY <1>t, <2>1, <2>2, <2>3, <2>4, <2>5, Kinds DEF Wallet, User
  <1>10. ASSUME NEW r \in Admins, AdminLookup(r)
         PROVE  Keeps
    <2>1. /\ UNCHANGED <<seen, order>>
          /\ \E t : target' = [target EXCEPT ![r] = t]
          /\ \E l : l \notin Writers /\ pc' = [pc EXCEPT ![r] = l]
      BY <1>10 DEF AdminLookup, Goto, walletVars, Writers
    <2>2. q # r /\ pc'[q] = pc[q]
      BY <1>i, <2>1, Kinds DEF TypeOK
    <2>3. target'[q] = target[q] \/ q \notin Admins
      BY <1>i, <2>1, <2>2 DEF TypeOK
    <2> QED
      BY <2>1, <2>2, <2>3 DEF Wallet, User
  <1>11. ASSUME NEW p \in Purchases, PurchaseStep(p)
         PROVE  Keeps \/ Come
    BY <1>1, <1>3, <1>4, <1>5, <1>8, <1>11
    DEF PurchaseStep, PurchaseAirtime, PurchaseData, PayElectricity, PayCableTV, OrderAirtime,
        OrderData, OrderElectricity, OrderCable, DeliverAirtime, DeliverData,
        DeliverElectricity, DeliverCable, RecordAirtime, RecordData, RecordElectricity,
        RecordCable, HandleAirtimeFailure, HandleDataFailure, HandleElectricityFailure,
        HandleCableFailure
  <1>12. ASSUME NEW r \in Admins, AdminStep(r)
         PROVE  Keeps \/ Come
    BY <1>2, <1>3, <1>4, <1>8, <1>12 DEF AdminStep
  <1> QED
    BY <1>2, <1>5, <1>6, <1>7, <1>9, <1>10, <1>11, <1>12 DEF Next

\* A step that neither writes nor commits leaves what is committed, and undoes
\* what is not at most.
LEMMA LedgerShapes ==
    ASSUME [Next]_vars
    PROVE  \/ \E p \in Purchases : \/ DebitWrite(p) \/ RefundWrite(p)
                                   \/ DebitCommit(p) \/ RefundCommit(p)
           \/ \E q \in Admins : AdminWrite(q) \/ AdminCommit(q)
           \/ /\ UNCHANGED <<balance, entries>>
              /\ \A u \in Users : dirty'[u] \in {dirty[u], Clean}
  <1> DEFINE Rest == /\ UNCHANGED <<balance, entries>>
                     /\ \A u \in Users : dirty'[u] \in {dirty[u], Clean}
  <1>1. ASSUME NEW p, NEW s,
               \/ Accept(p, s) \/ Unverified(p, s) \/ CreateOrder(p, s) \/ CallProvider(p, s)
               \/ HandleFailure(p, s) \/ RecordSuccess(p, s)
        PROVE  Rest
    BY <1>1 DEF Accept, Unverified, CreateOrder, CallProvider, HandleFailure, RecordSuccess,
       walletVars
  <1>2. ASSUME NEW p,
               \/ Submit(p) \/ RecordFails(p) \/ DebitRead(p) \/ RefundRead(p)
               \/ AdminRead(p) \/ AdminCreate(p) \/ AdminMark(p) \/ AdminAudit(p)
               \/ UpdateNetworkDiscount(p) \/ UpdateDataPlanPrice(p) \/ AdminLookup(p)
        PROVE  Rest
    BY <1>2 DEF Submit, RecordFails, DebitRead, RefundRead, ReadWallet, AdminRead, AdminCreate,
       AdminMark, AdminAudit, UpdateNetworkDiscount, UpdateDataPlanPrice, AdminLookup,
       walletVars
  <1>3. ASSUME NEW p, DebitRefused(p) \/ RefundFails(p) \/ Fail(p) \/ Crash
        PROVE  Rest
    BY <1>3 DEF DebitRefused, RefundFails, Fail, Crash, Discard, RollbackWallets
  <1>4. CASE VerifyMeter \/ VerifySmartcard \/ Expire \/ Terminated \/ UNCHANGED vars
    BY <1>4 DEF VerifyMeter, VerifySmartcard, Verify, Expire, Terminated, vars, walletVars
  <1>5. ASSUME NEW p \in Purchases, PurchaseStep(p)
        PROVE  Rest \/ DebitWrite(p) \/ RefundWrite(p) \/ DebitCommit(p) \/ RefundCommit(p)
    BY <1>1, <1>2, <1>3, <1>5, Zenon
    DEF PurchaseStep, PurchaseAirtime, PurchaseData, PayElectricity, PayCableTV, OrderAirtime,
        OrderData, OrderElectricity, OrderCable, DeliverAirtime, DeliverData,
        DeliverElectricity, DeliverCable, RecordAirtime, RecordData, RecordElectricity,
        RecordCable, HandleAirtimeFailure, HandleDataFailure, HandleElectricityFailure,
        HandleCableFailure
  <1>6. ASSUME NEW q \in Admins, AdminStep(q)
        PROVE  Rest \/ AdminWrite(q) \/ AdminCommit(q)
    BY <1>2, <1>6 DEF AdminStep
  <1> QED
    BY <1>2, <1>3, <1>4, <1>5, <1>6 DEF Next

\* A commit changes the balance of no wallet that another handler has read and
\* is about to write: that handler would be waiting for it.
LEMMA CurrentStep ==
    ASSUME CurrentInv, Uncontended, [Next]_vars
    PROVE  ReadsCurrent' /\ DraftsCurrent' /\ Reconciled'
  <1>i. /\ IInv /\ TypeOK /\ WalletTypeOK /\ DraftsCurrent /\ Reconciled
        /\ RefundsHeld /\ \A t \in Purchases : Placed(t)
    BY DEF CurrentInv, IInv, TypeOK
  <1> DEFINE CommitsWallet(p) == DebitCommit(p) \/ RefundCommit(p) \/ AdminCommit(p)
             WritesWallet(p) == DebitWrite(p) \/ RefundWrite(p) \/ AdminWrite(p)
  <1>w. ASSUME NEW p \in Procs, pc[p] \in Writers
        PROVE  Wallet(p) \in Users /\ Amount(p) \in Nat /\ seen[p] = balance[Wallet(p)]
    <2>1. pc[p] \in Open
      BY <1>w DEF Writers, Open, DebitTx, RefundTx, AdminTx
    <2> QED
      BY <1>i, <1>w, <2>1, WalletType DEF CurrentInv, ReadsCurrent
  <1>c. ASSUME NEW p \in Procs, CommitsWallet(p)
        PROVE  /\ Reconciled' /\ DraftsCurrent'
               /\ \A u \in Users : ~ Owned(p, u) => balance'[u] = balance[u]
    <2>1. CommitWallets(p)
      BY <1>c DEF DebitCommit, RefundCommit, AdminCommit
    <2> QED
      BY <1>i, <2>1, CommitReconciles
  <1>b. ASSUME NEW q \in Procs, pc[q] \in Writers
        PROVE  balance'[Wallet(q)] = balance[Wallet(q)]
    <2>1. ASSUME NEW p \in Procs, CommitsWallet(p)
          PROVE  balance'[Wallet(q)] = balance[Wallet(q)]
      <3>1. ~ Owned(p, Wallet(q))
        BY <1>b DEF Uncontended, WaitsFor, Writers
      <3> QED
        BY <1>b, <1>c, <1>w, <2>1, <3>1
    <2>2. ASSUME NEW p \in Procs, WritesWallet(p)
          PROVE  UNCHANGED balance
      BY <2>2 DEF DebitWrite, RefundWrite, AdminWrite, DebitWallet, CreditWallet, WriteWallet
    <2> QED
      BY <2>1, <2>2, LedgerShapes, Kinds
  <1>1. ReadsCurrent'
    <2> SUFFICES ASSUME NEW q \in Procs, pc'[q] \in Writers
                 PROVE  seen'[q] = balance'[Wallet(q)']
      BY DEF ReadsCurrent
    <2>1. CASE pc[q] = pc'[q] /\ Wallet(q)' = Wallet(q) /\ seen'[q] = seen[q]
      BY <1>b, <1>w, <2>1
    <2>2. CASE DebitRead(q) \/ RefundRead(q) \/ AdminRead(q)
      <3>1. UNCHANGED <<order, target, balance>>
        BY <2>2 DEF DebitRead, RefundRead, AdminRead, ReadWallet, orderVars
      <3>2. \E u : u = Wallet(q) /\ seen' = [seen EXCEPT ![q] = balance[u]]
        <4>1. /\ DebitRead(q) \/ RefundRead(q) => Wallet(q) = User(q)
              /\ AdminRead(q) => Wallet(q) = User(target[q])
          BY <1>i, Places, Kinds
          DEF DebitRead, RefundRead, AdminRead, At, Wallet, AdminTx, DebitTx, RefundTx
        <4> QED
          BY <2>2, <4>1 DEF DebitRead, RefundRead, AdminRead, ReadWallet
      <3>3. seen'[q] = balance[Wallet(q)]
        BY <1>i, <3>2 DEF WalletTypeOK
      <3> QED
        BY <3>1, <3>3 DEF Wallet, User
    <2> QED
      BY <1>i, <2>1, <2>2, WritersCome
  <1>2. ASSUME NEW p \in Procs, WritesWallet(p)
        PROVE  DraftsCurrent' /\ Reconciled'
    <2>1. pc[p] \in Writers
      BY <1>2 DEF DebitWrite, RefundWrite, AdminWrite, At, Writers
    <2>2. /\ DebitWrite(p) \/ RefundWrite(p) =>
               Wallet(p) = User(p) /\ Amount(p) = net[p]
          /\ AdminWrite(p) =>
               Wallet(p) = User(target[p]) /\ Amount(p) = net[target[p]]
      BY <1>i, Places, Kinds
      DEF DebitWrite, RefundWrite, AdminWrite, At, Wallet, Amount, AdminTx, DebitTx, RefundTx
    <2>3. \E e : /\ e.before = balance[Wallet(p)]
                 /\ WriteWallet(p, Wallet(p), e.after, e)
      <3>1. CASE DebitWrite(p)
        <4>1. PICK e \in Entry : e.before = seen[p] /\ WriteWallet(p, Wallet(p), e.after, e)
          BY <1>i, <1>w, <2>1, <2>2, <3>1, DebitWalletIsWrite, Kinds DEF DebitWrite
        <4> QED
          BY <1>w, <2>1, <4>1
      <3>2. CASE RefundWrite(p)
        <4>1. PICK e \in Entry : e.before = seen[p] /\ WriteWallet(p, Wallet(p), e.after, e)
          BY <1>i, <1>w, <2>1, <2>2, <3>2, CreditWalletIsWrite, Kinds DEF RefundWrite
        <4> QED
          BY <1>w, <2>1, <4>1
      <3>3. CASE AdminWrite(p)
        <4> DEFINE e == [type |-> "CREDIT", amount |-> Amount(p), before |-> seen[p],
                         after |-> seen[p] + Amount(p), ref |-> p]
        <4>1. WriteWallet(p, Wallet(p), balance[Wallet(p)] + Amount(p), e)
          BY <2>2, <3>3 DEF AdminWrite
        <4>2. e.before = balance[Wallet(p)] /\ e.after = balance[Wallet(p)] + Amount(p)
          BY <1>w, <2>1
        <4> HIDE DEF e
        <4> QED
          BY <4>1, <4>2
      <3> QED
        BY <1>2, <3>1, <3>2, <3>3
    <2> QED
      BY <1>i, <1>w, <2>1, <2>3, WriteReconciles
  <1> QED
    BY <1>i, <1>1, <1>2, <1>c, LedgerShapes, QuietReconciles, Kinds

\* The strengthened invariant, while no handler waits for a wallet.
LEMMA CurrentInvariance == Spec /\ []Uncontended => []CurrentInv
  <1>1. Init => ReadsCurrent /\ DraftsCurrent /\ Reconciled
    BY FreshLedger DEF Init, ReadsCurrent, Writers
  <1>2. CurrentInv /\ Uncontended /\ [Next]_vars
          => ReadsCurrent' /\ DraftsCurrent' /\ Reconciled'
    BY CurrentStep
  <1> QED
    BY <1>1, <1>2, PurchaseInvariant, PTL DEF Spec, CurrentInv

\* While no handler waits for a wallet's row, purchases and refunds of every
\* kind, a manual refund's { increment } too, keep the trail: each ledger row
\* starts where the row before it ended, and the newest ends at the balance.
THEOREM TrailUnlessContended == Spec /\ []Uncontended => []Reconciled
  <1>1. CurrentInv => Reconciled
    BY DEF CurrentInv
  <1> QED
    BY <1>1, CurrentInvariance, PTL
===============================================================================
