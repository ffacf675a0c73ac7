------------------------- MODULE PaymentsServiceProofs -------------------------
(***************************************************************************)
(* A funding is SUCCESS exactly when it is credited, a referral earns one  *)
(* reward, and a paid reward is part of a credit, for every number of      *)
(* users, fundings, deliveries and claims, and every amount; what is       *)
(* credited without a payment no gateway told of.  IInv says what a handler*)
(* holds where it stands, and what the committed rows stand for.  From it  *)
(* follow that handlers never wait in a circle, that credits and payouts   *)
(* are repeated only by handlers that overlap, that trails break only by   *)
(* waiting, and that what is committed keeps to FundingContract.           *)
(***************************************************************************)
EXTENDS PaymentsService, WalletLedgerProofs, FiniteSetTheorems

Heard == {"ask", "find", "mark", "fulfilled"} \cup FulfilTx
Crediting == {"qualify", "grant", "commit"}

\* What a request knows where its handler is: a funding its order, a delivery
\* the row it is about, a claim whose it is.
Standing ==
    /\ \A f \in Fundings :
         /\ pc[f] \in {"idle", "create", "answered", "existing", "failed", "lost"}
         /\ pc[f] # "idle" => funding[f] \in Funding
         /\ status[f] # "absent" <=> pc[f] = "answered"
    /\ \A d \in Deliveries :
         /\ pc[d] \in {"idle", "ignored", "refused", "unconfirmed", "failed", "lost"} \cup Heard
         /\ pc[d] \in Heard => about[d] # Nobody
         /\ about[d] # Nobody => status[about[d]] # "absent"
    /\ \A c \in Claims :
         /\ pc[c] \in {"idle", "refused", "failed", "lost", "claimed"} \cup ClaimTx
         /\ pc[c] \in {"claimed"} \cup ClaimTx => claimer[c] \in Users

\* A fulfilment holds its funding's row from MarkSuccess on.
Marked ==
    /\ \A d \in Deliveries : pc[d] \in FulfilTx => statusDraft[about[d]] = d
    /\ \A f \in Fundings : statusDraft[f] # Nobody =>
         pc[statusDraft[f]] \in FulfilTx /\ about[statusDraft[f]] = f

\* What a handler is about to add to whose wallet, and the row it refers to.
Wallet(p) == IF p \in Claims THEN claimer[p] ELSE Payee(p)
Due(p) == IF p \in Claims THEN ClaimTotal(p) ELSE Amount(p)
Row(p) == IF p \in Claims THEN p ELSE about[p]

\* It holds the wallet's row once it has written it.
Writing(p) == pc[p] \in Crediting \cup {"claimCommit"}

WalletsHeld ==
    /\ \A p \in Procs : Writing(p) => Owned(p, Wallet(p))
    /\ \A u \in Users : dirty[u] # Clean =>
         LET p == dirty[u].by
             e == dirty[u].entry
         IN  /\ Writing(p) /\ u = Wallet(p)
             /\ e.ref = Row(p) /\ e.amount = Due(p) /\ e.after = dirty[u].balance

\* Who is granting a reward holds the one wallet whose owner it is for, and
\* read PENDING_QUALIFICATION under that lock.
Granting ==
    /\ \A d \in Deliveries : pc[d] = "grant" =>
         Referrer[Payee(d)] # Nobody /\ referral[Payee(d)] = "PENDING_QUALIFICATION"
    /\ \A u \in Users : referralDraft[u] # Nobody =>
         /\ pc[referralDraft[u]] = "commit" /\ Payee(referralDraft[u]) = u
         /\ Referrer[u] # Nobody /\ referral[u] = "PENDING_QUALIFICATION"

\* A reward is of a fulfilment that has ended, and its referral has moved on.
Rewarded ==
    \A d \in Deliveries : reward[d] # "absent" =>
        /\ pc[d] = "fulfilled" /\ Referrer[Payee(d)] # Nobody
        /\ referral[Payee(d)] # "PENDING_QUALIFICATION"

\* A claim is for rewards there are; a paid one is of a claim that has ended.
Claiming ==
    /\ \A c \in Claims : \A d \in claimed[c] :
         /\ reward[d] # "absent" /\ Referrer[Payee(d)] = claimer[c]
         /\ pc[c] = "claimed" => reward[d] = "paid"
    /\ \A d \in Deliveries : reward[d] = "paid" =>
         \E c \in Claims : d \in claimed[c] /\ pc[c] = "claimed"

\* What a committed ledger row stands for.
RowStands(u, e) ==
    /\ e.ref \in Fundings =>
         /\ status[e.ref] = "SUCCESS"
         /\ u = funding[e.ref].user /\ e.amount = funding[e.ref].amount
    /\ e.ref \in Claims =>
         pc[e.ref] = "claimed" /\ u = claimer[e.ref] /\ e.amount = ClaimTotal(e.ref)

RowsStand == \A u \in Users : \A i \in DOMAIN entries[u] : RowStands(u, entries[u][i])

\* What has succeeded has its row.
Credited ==
    /\ \A f \in Fundings : status[f] = "SUCCESS" =>
         \E i \in DOMAIN entries[funding[f].user] : entries[funding[f].user][i].ref = f
    /\ \A c \in Claims : pc[c] = "claimed" =>
         \E i \in DOMAIN entries[claimer[c]] : entries[claimer[c]][i].ref = c

IInv ==
    /\ TypeOK
    /\ Standing
    /\ Marked
    /\ WalletsHeld
    /\ Granting
    /\ Rewarded
    /\ OneRewardPerReferral
    /\ Claiming
    /\ RowsStand
    /\ Credited
    /\ LatestEntryIsBalance

\* What is being fulfilled has been paid, unless the handler has no proof of it.
Confirmed ==
    /\ \A d \in Deliveries : pc[d] \in Heard \ {"ask"} => about[d] \in paid \/ d \in unproven
    /\ UnpaidIsUnproven

-------------------------------------------------------------------------------
(* Kinds and types *)

\* Handlers are of fundings, of deliveries or of claims; a ledger row refers
\* to a funding or a claim.
LEMMA Kinds ==
    /\ Procs = Fundings \cup Deliveries \cup Claims /\ Refs = Fundings \cup Claims
    /\ \A p \in Fundings : p \notin Deliveries /\ p \notin Claims
    /\ \A p \in Deliveries : p \notin Claims
    /\ Nobody \notin Fundings /\ Nobody \notin Deliveries /\ Nobody \notin Claims
    /\ Nobody \notin Users /\ Nobody \notin Funding
  BY PaymentsAssumption

\* The funding a delivery is about, and whom it credits with how much.
LEMMA PayeeType ==
    ASSUME TypeOK, Standing, NEW d \in Deliveries, about[d] # Nobody
    PROVE  /\ about[d] \in Fundings /\ funding[about[d]] \in Funding
           /\ Payee(d) \in Users /\ Amount(d) \in Nat
  <1>1. about[d] \in Fundings
    BY DEF TypeOK
  <1>2. pc[about[d]] = "answered"
    BY <1>1 DEF Standing
  <1>3. funding[about[d]] \in Funding
    BY <1>1, <1>2 DEF Standing
  <1>4. Amounts \subseteq Nat
    BY PaymentsAssumption
  <1> QED
    BY <1>1, <1>3, <1>4 DEF Payee, Amount, Funding

\* Rewards add up to a natural number.
LEMMA TotalType ==
    ASSUME TypeOK, NEW c \in Claims
    PROVE  ClaimTotal(c) \in Nat
  <1>1. IsFiniteSet(claimed[c])
    BY PaymentsAssumption, FS_Subset DEF TypeOK
  <1>2. Cardinality(claimed[c]) \in Nat
    BY <1>1, FS_CardinalityType
  <1> QED
    BY <1>2, PaymentsAssumption DEF ClaimTotal

\* Whose wallet a handler works on, with what.
LEMMA WalletType ==
    ASSUME TypeOK, Standing, NEW p \in Procs, pc[p] \in FulfilTx \cup ClaimTx
    PROVE  /\ p \in Deliveries \cup Claims
           /\ Wallet(p) \in Users /\ Due(p) \in Nat /\ Row(p) \in Refs
  <1>1. CASE p \in Fundings
    BY <1>1 DEF Standing, FulfilTx, ClaimTx
  <1>2. CASE p \in Deliveries
    <2>1. about[p] # Nobody
      BY <1>2 DEF Standing, Heard, FulfilTx, ClaimTx
    <2> QED
      BY <1>2, <2>1, PayeeType, Kinds DEF Wallet, Due, Row
  <1>3. CASE p \in Claims
    <2>1. claimer[p] \in Users
      BY <1>3 DEF Standing, FulfilTx, ClaimTx
    <2> QED
      BY <1>3, <2>1, TotalType, Kinds DEF Wallet, Due, Row
  <1> QED
    BY <1>1, <1>2, <1>3, Kinds

\* A step that writes no wallet, and leaves alone what the handlers that have
\* written one are about, leaves the wallets held.
LEMMA WalletsStay ==
    ASSUME TypeOK, WalletsHeld, UNCHANGED dirty,
           \A q \in Procs : Writing(q)' = Writing(q),
           \A q \in Procs : Writing(q) =>
             Wallet(q)' = Wallet(q) /\ Due(q)' = Due(q) /\ Row(q)' = Row(q)
    PROVE  WalletsHeld'
  <1>1. \A u \in Users : dirty[u] # Clean => dirty[u].by \in Procs
    BY DEF TypeOK, WalletTypeOK, Version
  <1> QED
    BY <1>1 DEF WalletsHeld, Owned

-------------------------------------------------------------------------------
(* What each kind of step preserves *)

\* Payments happen under the handlers.
LEMMA PayStep ==
    ASSUME IInv, paid' \subseteq Fundings,
           UNCHANGED <<walletVars, pc, funding, status, statusDraft, keyRow, about, unproven,
                       referralVars>>
    PROVE  IInv'
  <1>i. /\ TypeOK /\ Standing /\ Marked /\ WalletsHeld /\ Granting /\ Rewarded
        /\ OneRewardPerReferral /\ Claiming /\ RowsStand /\ Credited
        /\ LatestEntryIsBalance
    BY DEF IInv
  <1>1. TypeOK'
    BY <1>i DEF TypeOK, WalletTypeOK, Running, Ended, walletVars, referralVars
  <1>2. Standing'
    BY <1>i DEF Standing, referralVars
  <1>3. Marked'
    BY <1>i DEF Marked
  <1>4. WalletsHeld'
    <2>1. \A q \in Procs : Writing(q)' = Writing(q)
      BY <1>i DEF Writing
    <2>2. \A q \in Procs : Writing(q) =>
            Wallet(q)' = Wallet(q) /\ Due(q)' = Due(q) /\ Row(q)' = Row(q)
      BY <1>i DEF Wallet, Due, Row, Payee, Amount, ClaimTotal, Writing, referralVars
    <2> QED
      BY <1>i, <2>1, <2>2, WalletsStay DEF walletVars
  <1>5. Granting'
    BY <1>i DEF Granting, Payee, referralVars
  <1>6. Rewarded'
    BY <1>i DEF Rewarded, Payee, referralVars
  <1>7. OneRewardPerReferral'
    BY <1>i DEF OneRewardPerReferral, Rewarded, Payee, referralVars
  <1>8. Claiming'
    BY <1>i DEF Claiming, Rewarded, Payee, referralVars
  <1>9. RowsStand'
    BY <1>i DEF RowsStand, RowStands, ClaimTotal, walletVars, referralVars
  <1>10. Credited'
    BY <1>i DEF Credited, walletVars, referralVars
  <1>11. LatestEntryIsBalance'
    BY <1>i DEF LatestEntryIsBalance, LatestBalance, walletVars
  <1> QED
    BY <1>1, <1>2, <1>3, <1>4, <1>5, <1>6, <1>7, <1>8, <1>9, <1>10, <1>11 DEF IInv

\* Steps of a handler that holds no row before or after them.
Strolls(p, l) ==
    \/ p \in Fundings /\ pc[p] = "create" /\ l = "failed"
    \/ /\ p \in Deliveries
       /\ \/ pc[p] = "idle" /\ l \in {"refused", "ignored"}
          \/ pc[p] = "ask" /\ l \in {"find", "unconfirmed"}
          \/ pc[p] = "find" /\ l \in {"ignored", "mark"}
    \/ p \in Claims /\ pc[p] = "claimRead" /\ l = "refused"

\* They change no row.
LEMMA StrollStep ==
    ASSUME IInv, NEW p \in Procs, NEW l, Strolls(p, l), pc' = [pc EXCEPT ![p] = l],
           unproven' \subseteq Deliveries,
           UNCHANGED <<walletVars, funding, status, statusDraft, keyRow, paid, about, referralVars>>
    PROVE  IInv'
  <1>i. /\ TypeOK /\ Standing /\ Marked /\ WalletsHeld /\ Granting /\ Rewarded
        /\ OneRewardPerReferral /\ Claiming /\ RowsStand /\ Credited
        /\ LatestEntryIsBalance
    BY DEF IInv
  <1>1. TypeOK'
    BY <1>i
    DEF TypeOK, WalletTypeOK, Running, Ended, Strolls, walletVars, fundVars, referralVars
  <1>2. Standing'
    BY <1>i, Kinds DEF Standing, Heard, FulfilTx, Strolls, fundVars, referralVars
  <1>3. Marked'
    BY <1>i DEF Marked, FulfilTx, Strolls, fundVars
  <1>4. WalletsHeld'
    <2>1. \A q \in Procs : Writing(q)' = Writing(q)
      BY <1>i DEF Writing, Crediting, Strolls
    <2>2. \A q \in Procs : Writing(q) =>
            Wallet(q)' = Wallet(q) /\ Due(q)' = Due(q) /\ Row(q)' = Row(q)
      BY <1>i
      DEF Wallet, Due, Row, Payee, Amount, ClaimTotal, Writing, Strolls, fundVars, referralVars
    <2> QED
      BY <1>i, <2>1, <2>2, WalletsStay DEF walletVars
  <1>5. Granting'
    BY <1>i DEF Granting, Payee, Strolls, fundVars, referralVars
  <1>6. Rewarded'
    BY <1>i DEF Rewarded, Payee, Strolls, fundVars, referralVars
  <1>7. OneRewardPerReferral'
    BY <1>i DEF OneRewardPerReferral, Rewarded, Payee, Strolls, fundVars, referralVars
  <1>8. Claiming'
    BY <1>i DEF Claiming, Rewarded, Payee, Strolls, fundVars, referralVars
  <1>9. RowsStand'
    BY <1>i DEF RowsStand, RowStands, ClaimTotal, Strolls, walletVars, fundVars, referralVars
  <1>10. Credited'
    BY <1>i DEF Credited, Strolls, walletVars, fundVars, referralVars
  <1>11. LatestEntryIsBalance'
    BY <1>i DEF LatestEntryIsBalance, LatestBalance, Strolls, walletVars
  <1> QED
    BY <1>1, <1>2, <1>3, <1>4, <1>5, <1>6, <1>7, <1>8, <1>9, <1>10, <1>11 DEF IInv

\* A funding gets its order before anything else knows of it.
LEMMA RequestStep ==
    ASSUME IInv, NEW f \in Fundings, NEW r \in Funding, NEW l \in {"existing", "create"},
           pc[f] = "idle", pc' = [pc EXCEPT ![f] = l], funding' = [funding EXCEPT ![f] = r],
           UNCHANGED <<walletVars, status, statusDraft, keyRow, paid, about, unproven, referralVars>>
    PROVE  IInv'
  <1>i. /\ TypeOK /\ Standing /\ Marked /\ WalletsHeld /\ Granting /\ Rewarded
        /\ OneRewardPerReferral /\ Claiming /\ RowsStand /\ Credited
        /\ LatestEntryIsBalance
    BY DEF IInv
  <1>s. status[f] = "absent"
    BY <1>i DEF Standing
  <1>o. \A g \in Fundings : status[g] # "absent" => funding'[g] = funding[g]
    BY <1>i, <1>s DEF TypeOK
  <1>a. \A d \in Deliveries : about[d] # Nobody => Payee(d)' = Payee(d) /\ Amount(d)' = Amount(d)
    <2>1. \A d \in Deliveries : about[d] # Nobody => about[d] \in Fundings /\ status[about[d]] # "absent"
      BY <1>i DEF Standing, TypeOK
    <2> QED
      BY <1>o, <2>1 DEF Payee, Amount
  <1>1. TypeOK'
    BY <1>i, <1>s, <1>o, <1>a DEF TypeOK, WalletTypeOK, Running, Ended, walletVars, referralVars
  <1>2. Standing'
    BY <1>i, <1>s, <1>o, <1>a, Kinds DEF Standing, TypeOK, referralVars
  <1>3. Marked'
    BY <1>i, <1>s, <1>o, <1>a, Kinds DEF Marked, TypeOK
  <1>4. WalletsHeld'
    <2>1. \A q \in Procs : Writing(q)' = Writing(q)
      BY <1>i DEF Writing, Crediting, TypeOK
    <2>2. \A q \in Procs : Writing(q) =>
            q \notin Fundings /\ (q \in Deliveries => about[q] # Nobody)
      BY <1>i DEF Writing, Standing, Crediting, Heard, FulfilTx
    <2>3. \A q \in Procs : Writing(q) =>
            Wallet(q)' = Wallet(q) /\ Due(q)' = Due(q) /\ Row(q)' = Row(q)
      BY <1>a, <2>2, Kinds DEF Wallet, Due, Row, ClaimTotal, referralVars
    <2> QED
      BY <1>i, <2>1, <2>3, WalletsStay DEF walletVars
  <1>5. Granting'
    BY <1>i, <1>s, <1>o, <1>a, Kinds DEF Granting, Payee, TypeOK, referralVars
  <1>6. Rewarded'
    BY <1>i, <1>s, <1>o, <1>a, Kinds DEF Rewarded, Payee, referralVars
  <1>7. OneRewardPerReferral'
    BY <1>i, <1>s, <1>o, <1>a, Kinds DEF OneRewardPerReferral, Rewarded, Payee, referralVars
  <1>8. Claiming'
    BY <1>i, <1>s, <1>o, <1>a, Kinds DEF Claiming, Rewarded, Payee, TypeOK, referralVars
  <1>9. RowsStand'
    BY <1>i, <1>s, <1>o, <1>a DEF RowsStand, RowStands, ClaimTotal, walletVars, referralVars
  <1>10. Credited'
    <2>1. \A c \in Claims : pc'[c] = pc[c]
      BY <1>i, Kinds DEF TypeOK
    <2>2. UNCHANGED <<entries, status, claimer>>
      BY DEF walletVars, referralVars
    <2>3. \A g \in Fundings : status[g] = "SUCCESS" => funding'[g] = funding[g]
      BY <1>o
    <2> QED
      BY <1>i, <2>1, <2>2, <2>3 DEF Credited
  <1>11. LatestEntryIsBalance'
    BY <1>i, <1>s, <1>o, <1>a DEF LatestEntryIsBalance, LatestBalance, walletVars
  <1> QED
    BY <1>1, <1>2, <1>3, <1>4, <1>5, <1>6, <1>7, <1>8, <1>9, <1>10, <1>11 DEF IInv

\* Its row is inserted.
LEMMA InsertStep ==
    ASSUME IInv, NEW f \in Fundings, pc[f] = "create", pc' = [pc EXCEPT ![f] = "answered"],
           status' = [status EXCEPT ![f] = "PENDING"],
           keyRow' = [keyRow EXCEPT ![funding[f].key] = f],
           UNCHANGED <<walletVars, funding, statusDraft, paid, about, unproven, referralVars>>
    PROVE  IInv'
  <1>i. /\ TypeOK /\ Standing /\ Marked /\ WalletsHeld /\ Granting /\ Rewarded
        /\ OneRewardPerReferral /\ Claiming /\ RowsStand /\ Credited
        /\ LatestEntryIsBalance
    BY DEF IInv
  <1>f. funding[f].key \in Keys
    BY <1>i DEF Standing, Funding
  <1>s. status[f] = "absent"
    BY <1>i DEF Standing
  <1>1. TypeOK'
    BY <1>i, <1>f, <1>s DEF TypeOK, WalletTypeOK, Running, Ended, walletVars, referralVars
  <1>2. Standing'
    BY <1>i, <1>f, <1>s, Kinds DEF Standing, TypeOK, referralVars
  <1>3. Marked'
    BY <1>i, <1>f, <1>s, Kinds DEF Marked, TypeOK
  <1>4. WalletsHeld'
    <2>1. \A q \in Procs : Writing(q)' = Writing(q)
      BY <1>i, <1>f, <1>s DEF Writing, Crediting
    <2>2. \A q \in Procs : Writing(q) =>
            Wallet(q)' = Wallet(q) /\ Due(q)' = Due(q) /\ Row(q)' = Row(q)
      BY <1>i, <1>f, <1>s DEF Wallet, Due, Row, Payee, Amount, ClaimTotal, Writing, referralVars
    <2> QED
      BY <1>i, <2>1, <2>2, WalletsStay DEF walletVars
  <1>5. Granting'
    BY <1>i, <1>f, <1>s DEF Granting, Payee, referralVars
  <1>6. Rewarded'
    BY <1>i, <1>f, <1>s DEF Rewarded, Payee, referralVars
  <1>7. OneRewardPerReferral'
    BY <1>i, <1>f, <1>s DEF OneRewardPerReferral, Rewarded, Payee, referralVars
  <1>8. Claiming'
    BY <1>i, <1>f, <1>s DEF Claiming, Rewarded, Payee, referralVars
  <1>9. RowsStand'
    BY <1>i, <1>f, <1>s DEF RowsStand, RowStands, ClaimTotal, walletVars, referralVars
  <1>10. Credited'
    BY <1>i, <1>f, <1>s DEF Credited, walletVars, referralVars
  <1>11. LatestEntryIsBalance'
    BY <1>i, <1>f, <1>s DEF LatestEntryIsBalance, LatestBalance, walletVars
  <1> QED
    BY <1>1, <1>2, <1>3, <1>4, <1>5, <1>6, <1>7, <1>8, <1>9, <1>10, <1>11 DEF IInv

\* A delivery is about a row there is.
LEMMA HearStep ==
    ASSUME IInv, NEW d \in Deliveries, NEW f \in Fundings, NEW l \in {"find", "ask", "ignored"},
           pc[d] = "idle", pc' = [pc EXCEPT ![d] = l], status[f] # "absent",
           about' = [about EXCEPT ![d] = f], unproven' \subseteq Deliveries,
           UNCHANGED <<walletVars, funding, status, statusDraft, keyRow, paid, referralVars>>
    PROVE  IInv'
  <1>i. /\ TypeOK /\ Standing /\ Marked /\ WalletsHeld /\ Granting /\ Rewarded
        /\ OneRewardPerReferral /\ Claiming /\ RowsStand /\ Credited
        /\ LatestEntryIsBalance
    BY DEF IInv
  <1>r. reward[d] = "absent"
    BY <1>i DEF Rewarded, TypeOK
  <1>a. \A e \in Deliveries : e # d => about'[e] = about[e] /\ Payee(e)' = Payee(e) /\ Amount(e)' = Amount(e)
    BY <1>i DEF Payee, Amount, TypeOK
  <1>1. TypeOK'
    BY <1>i, <1>r, <1>a DEF TypeOK, WalletTypeOK, Running, Ended, walletVars, referralVars
  <1>2. Standing'
    BY <1>i, <1>r, <1>a, Kinds DEF Standing, TypeOK, Heard, referralVars
  <1>3. Marked'
    BY <1>i, <1>r, <1>a DEF Marked, FulfilTx
  <1>4. WalletsHeld'
    <2>1. \A q \in Procs : Writing(q)' = Writing(q)
      BY <1>i, <1>r, <1>a DEF Writing, Crediting
    <2>2. \A q \in Procs : Writing(q) =>
            Wallet(q)' = Wallet(q) /\ Due(q)' = Due(q) /\ Row(q)' = Row(q)
      BY <1>i, <1>r, <1>a
      DEF Wallet, Due, Row, Payee, Amount, ClaimTotal, Writing, Crediting, referralVars
    <2> QED
      BY <1>i, <2>1, <2>2, WalletsStay DEF walletVars
  <1>5. Granting'
    BY <1>i, <1>r, <1>a DEF Granting, Payee, referralVars
  <1>6. Rewarded'
    BY <1>i, <1>r, <1>a DEF Rewarded, referralVars
  <1>7. OneRewardPerReferral'
    BY <1>i, <1>r, <1>a DEF OneRewardPerReferral, Rewarded, referralVars
  <1>8. Claiming'
    BY <1>i, <1>r, <1>a DEF Claiming, Rewarded, Payee, referralVars
  <1>9. RowsStand'
    BY <1>i, <1>r, <1>a DEF RowsStand, RowStands, ClaimTotal, walletVars, referralVars
  <1>10. Credited'
    BY <1>i, <1>r, <1>a DEF Credited, walletVars, referralVars
  <1>11. LatestEntryIsBalance'
    BY <1>i, <1>r, <1>a DEF LatestEntryIsBalance, LatestBalance, walletVars
  <1> QED
    BY <1>1, <1>2, <1>3, <1>4, <1>5, <1>6, <1>7, <1>8, <1>9, <1>10, <1>11 DEF IInv

\* A funding is marked under its row lock.
LEMMA MarkStep ==
    ASSUME IInv, NEW d \in Deliveries, pc[d] = "mark", pc' = [pc EXCEPT ![d] = "creditRead"],
           statusDraft[about[d]] = Nobody, statusDraft' = [statusDraft EXCEPT ![about[d]] = d],
           UNCHANGED <<walletVars, funding, status, keyRow, paid, about, unproven, referralVars>>
    PROVE  IInv'
  <1>i. /\ TypeOK /\ Standing /\ Marked /\ WalletsHeld /\ Granting /\ Rewarded
        /\ OneRewardPerReferral /\ Claiming /\ RowsStand /\ Credited
        /\ LatestEntryIsBalance
    BY DEF IInv
  <1>f. about[d] \in Fundings
    BY <1>i DEF Standing, Heard, TypeOK
  <1>1. TypeOK'
    BY <1>i, <1>f DEF TypeOK, WalletTypeOK, Running, Ended, FulfilTx, walletVars, referralVars
  <1>2. Standing'
    BY <1>i, <1>f, Kinds DEF Standing, Heard, FulfilTx, referralVars
  <1>3. Marked'
    BY <1>i, <1>f, Kinds DEF Marked, TypeOK, FulfilTx
  <1>4. WalletsHeld'
    <2>1. \A q \in Procs : Writing(q)' = Writing(q)
      BY <1>i, <1>f DEF Writing, Crediting
    <2>2. \A q \in Procs : Writing(q) =>
            Wallet(q)' = Wallet(q) /\ Due(q)' = Due(q) /\ Row(q)' = Row(q)
      BY <1>i, <1>f DEF Wallet, Due, Row, Payee, Amount, ClaimTotal, Writing, referralVars
    <2> QED
      BY <1>i, <2>1, <2>2, WalletsStay DEF walletVars
  <1>5. Granting'
    BY <1>i, <1>f DEF Granting, Payee, referralVars
  <1>6. Rewarded'
    BY <1>i, <1>f DEF Rewarded, Payee, referralVars
  <1>7. OneRewardPerReferral'
    BY <1>i, <1>f DEF OneRewardPerReferral, Rewarded, Payee, referralVars
  <1>8. Claiming'
    BY <1>i, <1>f DEF Claiming, Rewarded, Payee, referralVars
  <1>9. RowsStand'
    BY <1>i, <1>f DEF RowsStand, RowStands, ClaimTotal, walletVars, referralVars
  <1>10. Credited'
    BY <1>i, <1>f DEF Credited, walletVars, referralVars
  <1>11. LatestEntryIsBalance'
    BY <1>i, <1>f DEF LatestEntryIsBalance, LatestBalance, walletVars
  <1> QED
    BY <1>1, <1>2, <1>3, <1>4, <1>5, <1>6, <1>7, <1>8, <1>9, <1>10, <1>11 DEF IInv

\* The moves of a handler within its transaction.
Reads(from, to) ==
    \/ from = "creditRead" /\ to = "creditWrite"
    \/ from = "claimRead" /\ to = "claimWrite"

Writes(from, to) ==
    \/ from = "creditWrite" /\ to = "qualify"
    \/ from = "claimWrite" /\ to = "claimCommit"

\* A balance is read.
LEMMA ReadStep ==
    ASSUME IInv, NEW p \in Procs, NEW l, Reads(pc[p], l), pc' = [pc EXCEPT ![p] = l],
           ReadWallet(p, Wallet(p)), UNCHANGED <<fundVars, referralVars>>
    PROVE  IInv'
  <1>i. /\ TypeOK /\ Standing /\ Marked /\ WalletsHeld /\ Granting /\ Rewarded
        /\ OneRewardPerReferral /\ Claiming /\ RowsStand /\ Credited
        /\ LatestEntryIsBalance
    BY DEF IInv
  <1>w. Wallet(p) \in Users
    BY <1>i, WalletType DEF Reads, FulfilTx, ClaimTx
  <1>t. WalletTypeOK'
    BY <1>i, <1>w, ReadWalletType DEF TypeOK
  <1>s. UNCHANGED <<balance, entries, dirty>>
    BY DEF ReadWallet
  <1>1. TypeOK'
    BY <1>i, <1>w, <1>s, <1>t
    DEF TypeOK, WalletTypeOK, Running, Ended, FulfilTx, ClaimTx, Reads, fundVars, referralVars
  <1>2. Standing'
    BY <1>i, <1>w, <1>s DEF Standing, Heard, FulfilTx, ClaimTx, Reads, fundVars, referralVars
  <1>3. Marked'
    BY <1>i, <1>w, <1>s DEF Marked, FulfilTx, Reads, fundVars
  <1>4. WalletsHeld'
    <2>1. \A q \in Procs : Wallet(q)' = Wallet(q) /\ Due(q)' = Due(q) /\ Row(q)' = Row(q)
      BY DEF Wallet, Due, Row, Payee, Amount, ClaimTotal, fundVars, referralVars
    <2>2. \A q \in Procs : Writing(q)' = Writing(q)
      BY <1>i DEF Writing, Reads, Crediting, TypeOK
    <2> QED
      BY <1>i, <1>s, <2>1, <2>2, WalletsStay
  <1>5. Granting'
    BY <1>i, <1>w, <1>s DEF Granting, Payee, Reads, fundVars, referralVars
  <1>6. Rewarded'
    BY <1>i, <1>w, <1>s DEF Rewarded, Payee, Reads, fundVars, referralVars
  <1>7. OneRewardPerReferral'
    BY <1>i, <1>w, <1>s DEF OneRewardPerReferral, Rewarded, Payee, Reads, fundVars, referralVars
  <1>8. Claiming'
    BY <1>i, <1>w, <1>s DEF Claiming, Rewarded, Payee, Reads, fundVars, referralVars
  <1>9. RowsStand'
    BY <1>i, <1>w, <1>s DEF RowsStand, RowStands, ClaimTotal, Reads, fundVars, referralVars
  <1>10. Credited'
    BY <1>i, <1>w, <1>s DEF Credited, Reads, fundVars, referralVars
  <1>11. LatestEntryIsBalance'
    BY <1>i, <1>w, <1>s DEF LatestEntryIsBalance, LatestBalance, Reads
  <1> QED
    BY <1>1, <1>2, <1>3, <1>4, <1>5, <1>6, <1>7, <1>8, <1>9, <1>10, <1>11 DEF IInv

\* A wallet row is written, with the ledger row that goes with it.
LEMMA WriteStep ==
    ASSUME IInv, NEW p \in Procs, NEW l, Writes(pc[p], l), pc' = [pc EXCEPT ![p] = l],
           NEW e \in Entry, WriteWallet(p, Wallet(p), e.after, e),
           e.ref = Row(p), e.amount = Due(p), UNCHANGED <<fundVars, referralVars>>
    PROVE  IInv'
  <1>i. /\ TypeOK /\ Standing /\ Marked /\ WalletsHeld /\ Granting /\ Rewarded
        /\ OneRewardPerReferral /\ Claiming /\ RowsStand /\ Credited
        /\ LatestEntryIsBalance
    BY DEF IInv
  <1>w. Wallet(p) \in Users
    BY <1>i, WalletType DEF Writes, FulfilTx, ClaimTx
  <1>b. e.after \in Int
    BY DEF Entry
  <1>t. WalletTypeOK'
    BY <1>i, <1>w, <1>b, WriteWalletType DEF TypeOK
  <1>s. /\ dirty[Wallet(p)] = Clean
        /\ dirty'[Wallet(p)] # Clean
        /\ dirty'[Wallet(p)].by = p
        /\ dirty'[Wallet(p)].balance = e.after
        /\ dirty'[Wallet(p)].entry = e
        /\ \A v \in Users : v # Wallet(p) => dirty'[v] = dirty[v]
    BY <1>i, <1>w, <1>b, WriteWalletOwns DEF TypeOK
  <1>u. UNCHANGED <<balance, entries, seen>>
    BY DEF WriteWallet
  <1>1. TypeOK'
    BY <1>i, <1>u, <1>t
    DEF TypeOK, WalletTypeOK, Running, Ended, FulfilTx, ClaimTx, Writes, fundVars, referralVars
  <1>2. Standing'
    BY <1>i, <1>u DEF Standing, Heard, FulfilTx, ClaimTx, Writes, fundVars, referralVars
  <1>3. Marked'
    BY <1>i, <1>u DEF Marked, FulfilTx, Writes, fundVars
  <1>4. WalletsHeld'
    <2>1. \A q \in Procs : Wallet(q)' = Wallet(q) /\ Due(q)' = Due(q) /\ Row(q)' = Row(q)
      BY DEF Wallet, Due, Row, Payee, Amount, ClaimTotal, fundVars, referralVars
    <2>2. \A u \in Users : dirty[u] # Clean => dirty[u].by \in Procs
      BY <1>i DEF TypeOK, WalletTypeOK, Version
    <2>3. pc'[p] = l /\ \A q \in Procs : q # p => pc'[q] = pc[q]
      BY <1>i DEF TypeOK
    <2>4. ~ Writing(p) /\ Writing(p)' /\ \A q \in Procs : q # p => Writing(q)' = Writing(q)
      BY <2>3 DEF Writing, Writes, Crediting
    <2>5. ASSUME NEW q \in Procs, Writing(q)'
          PROVE  Owned(q, Wallet(q))'
      <3>1. CASE q = p
        BY <1>s, <2>1, <3>1 DEF Owned
      <3>2. CASE q # p
        <4>1. pc[q] \in FulfilTx \cup ClaimTx
          BY <2>4, <2>5, <3>2 DEF Writing, Crediting, FulfilTx, ClaimTx
        <4>2. Owned(q, Wallet(q)) /\ Wallet(q) \in Users
          BY <1>i, <2>4, <2>5, <3>2, <4>1, WalletType DEF WalletsHeld
        <4> QED
          BY <1>s, <2>1, <4>2 DEF Owned
      <3> QED
        BY <3>1, <3>2
    <2>6. ASSUME NEW u \in Users, dirty'[u] # Clean, NEW q, q = dirty'[u].by
          PROVE  /\ Writing(q)' /\ u = Wallet(q)'
                 /\ dirty'[u].entry.ref = Row(q)'
                 /\ dirty'[u].entry.amount = Due(q)'
                 /\ dirty'[u].entry.after = dirty'[u].balance
      <3>1. CASE u = Wallet(p)
        <4>1. q = p
          BY <1>s, <2>6, <3>1
        <4> QED
          BY <1>s, <2>1, <2>4, <3>1, <4>1
      <3>2. CASE u # Wallet(p)
        <4>1. dirty'[u] = dirty[u] /\ q \in Procs
          BY <1>s, <2>2, <2>6, <3>2
        <4>2. /\ Writing(q) /\ u = Wallet(q)
              /\ dirty[u].entry.ref = Row(q) /\ dirty[u].entry.amount = Due(q)
              /\ dirty[u].entry.after = dirty[u].balance
          BY <1>i, <2>6, <4>1 DEF WalletsHeld
        <4>3. q # p
          BY <2>4, <4>2
        <4> QED
          BY <2>1, <2>4, <4>1, <4>2, <4>3
      <3> QED
        BY <3>1, <3>2
    <2> QED
      BY <2>5, <2>6 DEF WalletsHeld
  <1>5. Granting'
    BY <1>i, <1>u DEF Granting, Payee, Writes, fundVars, referralVars
  <1>6. Rewarded'
    BY <1>i, <1>u DEF Rewarded, Payee, Writes, fundVars, referralVars
  <1>7. OneRewardPerReferral'
    BY <1>i, <1>u DEF OneRewardPerReferral, Rewarded, Payee, Writes, fundVars, referralVars
  <1>8. Claiming'
    BY <1>i, <1>u DEF Claiming, Rewarded, Payee, Writes, fundVars, referralVars
  <1>9. RowsStand'
    BY <1>i, <1>u DEF RowsStand, RowStands, ClaimTotal, Writes, fundVars, referralVars
  <1>10. Credited'
    BY <1>i, <1>u DEF Credited, Writes, fundVars, referralVars
  <1>11. LatestEntryIsBalance'
    BY <1>i, <1>u DEF LatestEntryIsBalance, LatestBalance, Writes
  <1> QED
    BY <1>1, <1>2, <1>3, <1>4, <1>5, <1>6, <1>7, <1>8, <1>9, <1>10, <1>11 DEF IInv

\* A referral is read with the wallet of the referred user held.
LEMMA QualifyStep ==
    ASSUME IInv, NEW d \in Deliveries, NEW l \in {"grant", "commit"}, pc[d] = "qualify",
           pc' = [pc EXCEPT ![d] = l],
           l = "grant" => /\ Referrer[Payee(d)] # Nobody
                          /\ referral[Payee(d)] = "PENDING_QUALIFICATION",
           UNCHANGED <<walletVars, fundVars, referralVars>>
    PROVE  IInv'
  <1>i. /\ TypeOK /\ Standing /\ Marked /\ WalletsHeld /\ Granting /\ Rewarded
        /\ OneRewardPerReferral /\ Claiming /\ RowsStand /\ Credited
        /\ LatestEntryIsBalance
    BY DEF IInv
  <1>1. TypeOK'
    BY <1>i
    DEF TypeOK, WalletTypeOK, Running, Ended, FulfilTx, walletVars, fundVars, referralVars
  <1>2. Standing'
    BY <1>i, Kinds DEF Standing, Heard, FulfilTx, fundVars, referralVars
  <1>3. Marked'
    BY <1>i DEF Marked, FulfilTx, fundVars
  <1>4. WalletsHeld'
    <2>1. \A q \in Procs : Writing(q)' = Writing(q)
      BY <1>i DEF Writing, Crediting
    <2>2. \A q \in Procs : Writing(q) =>
            Wallet(q)' = Wallet(q) /\ Due(q)' = Due(q) /\ Row(q)' = Row(q)
      BY <1>i DEF Wallet, Due, Row, Payee, Amount, ClaimTotal, Writing, fundVars, referralVars
    <2> QED
      BY <1>i, <2>1, <2>2, WalletsStay DEF walletVars
  <1>5. Granting'
    BY <1>i DEF Granting, Payee, fundVars, referralVars
  <1>6. Rewarded'
    BY <1>i DEF Rewarded, Payee, fundVars, referralVars
  <1>7. OneRewardPerReferral'
    BY <1>i DEF OneRewardPerReferral, Rewarded, Payee, fundVars, referralVars
  <1>8. Claiming'
    BY <1>i DEF Claiming, Rewarded, Payee, fundVars, referralVars
  <1>9. RowsStand'
    BY <1>i DEF RowsStand, RowStands, ClaimTotal, walletVars, fundVars, referralVars
  <1>10. Credited'
    BY <1>i DEF Credited, walletVars, fundVars, referralVars
  <1>11. LatestEntryIsBalance'
    BY <1>i DEF LatestEntryIsBalance, LatestBalance, walletVars
  <1> QED
    BY <1>1, <1>2, <1>3, <1>4, <1>5, <1>6, <1>7, <1>8, <1>9, <1>10, <1>11 DEF IInv

\* A referral is qualified under its row lock.
LEMMA GrantStep ==
    ASSUME IInv, NEW d \in Deliveries, pc[d] = "grant", pc' = [pc EXCEPT ![d] = "commit"],
           referralDraft[Payee(d)] = Nobody,
           referralDraft' = [referralDraft EXCEPT ![Payee(d)] = d],
           UNCHANGED <<walletVars, fundVars, referral, reward, claimer, claimed>>
    PROVE  IInv'
  <1>i. /\ TypeOK /\ Standing /\ Marked /\ WalletsHeld /\ Granting /\ Rewarded
        /\ OneRewardPerReferral /\ Claiming /\ RowsStand /\ Credited
        /\ LatestEntryIsBalance
    BY DEF IInv
  <1>p. Payee(d) \in Users
    BY <1>i, PayeeType DEF Standing, Heard, FulfilTx
  <1>1. TypeOK'
    BY <1>i, <1>p DEF TypeOK, WalletTypeOK, Running, Ended, FulfilTx, walletVars, fundVars
  <1>2. Standing'
    BY <1>i, <1>p, Kinds DEF Standing, Heard, FulfilTx, fundVars
  <1>3. Marked'
    BY <1>i, <1>p DEF Marked, FulfilTx, fundVars
  <1>4. WalletsHeld'
    <2>1. \A q \in Procs : Writing(q)' = Writing(q)
      BY <1>i, <1>p DEF Writing, Crediting
    <2>2. \A q \in Procs : Writing(q) =>
            Wallet(q)' = Wallet(q) /\ Due(q)' = Due(q) /\ Row(q)' = Row(q)
      BY <1>i, <1>p DEF Wallet, Due, Row, Payee, Amount, ClaimTotal, Writing, fundVars
    <2> QED
      BY <1>i, <2>1, <2>2, WalletsStay DEF walletVars
  <1>5. Granting'
    BY <1>i, <1>p, Kinds DEF Granting, Payee, TypeOK, fundVars
  <1>6. Rewarded'
    BY <1>i, <1>p DEF Rewarded, Payee, fundVars
  <1>7. OneRewardPerReferral'
    BY <1>i, <1>p DEF OneRewardPerReferral, Rewarded, Payee, fundVars
  <1>8. Claiming'
    BY <1>i, <1>p DEF Claiming, Rewarded, Payee, fundVars
  <1>9. RowsStand'
    BY <1>i, <1>p DEF RowsStand, RowStands, ClaimTotal, walletVars, fundVars
  <1>10. Credited'
    BY <1>i, <1>p DEF Credited, walletVars, fundVars
  <1>11. LatestEntryIsBalance'
    BY <1>i, <1>p DEF LatestEntryIsBalance, LatestBalance, walletVars
  <1> QED
    BY <1>1, <1>2, <1>3, <1>4, <1>5, <1>6, <1>7, <1>8, <1>9, <1>10, <1>11 DEF IInv

\* A claim finds what is unpaid.
LEMMA ClaimStep ==
    ASSUME IInv, NEW c \in Claims, NEW u \in Users, NEW l, pc[c] = "idle",
           l = (IF Unpaid(u) = {} THEN "refused" ELSE "claimRead"), pc' = [pc EXCEPT ![c] = l],
           claimer' = [claimer EXCEPT ![c] = u], claimed' = [claimed EXCEPT ![c] = Unpaid(u)],
           UNCHANGED <<walletVars, fundVars, referral, referralDraft, reward>>
    PROVE  IInv'
  <1>i. /\ TypeOK /\ Standing /\ Marked /\ WalletsHeld /\ Granting /\ Rewarded
        /\ OneRewardPerReferral /\ Claiming /\ RowsStand /\ Credited
        /\ LatestEntryIsBalance
    BY DEF IInv
  <1>l. l \in {"refused", "claimRead"}
    OBVIOUS
  <1>u. Unpaid(u) \subseteq Deliveries
    BY DEF Unpaid
  <1>d. \A d \in Unpaid(u) : reward[d] # "absent" /\ Referrer[Payee(d)] = u
    BY DEF Unpaid
  <1>e. \A x \in Claims : x # c => claimer'[x] = claimer[x] /\ claimed'[x] = claimed[x] /\ pc'[x] = pc[x]
    BY <1>i DEF TypeOK
  <1>1. TypeOK'
    BY <1>i, <1>l, <1>u, <1>d
    DEF TypeOK, WalletTypeOK, Running, Ended, FulfilTx, ClaimTx, walletVars, fundVars
  <1>2. Standing'
    BY <1>i, <1>l, <1>u, <1>d, Kinds DEF Standing, TypeOK, FulfilTx, ClaimTx, fundVars
  <1>3. Marked'
    BY <1>i, <1>l, <1>u, <1>d, Kinds DEF Marked, TypeOK, fundVars
  <1>4. WalletsHeld'
    <2>1. \A q \in Procs : Writing(q)' = Writing(q) /\ (Writing(q) => q # c)
      BY <1>i, <1>l DEF Writing, Crediting, TypeOK
    <2>2. \A q \in Procs : q # c => Wallet(q)' = Wallet(q) /\ Due(q)' = Due(q) /\ Row(q)' = Row(q)
      BY <1>e DEF Wallet, Due, Row, Payee, Amount, ClaimTotal, fundVars
    <2> QED
      BY <1>i, <2>1, <2>2, WalletsStay DEF walletVars
  <1>5. Granting'
    BY <1>i, <1>l, <1>u, <1>d DEF Granting, Payee, fundVars
  <1>6. Rewarded'
    BY <1>i, <1>l, <1>u, <1>d DEF Rewarded, Payee, fundVars
  <1>7. OneRewardPerReferral'
    BY <1>i, <1>l, <1>u, <1>d DEF OneRewardPerReferral, Rewarded, Payee, fundVars
  <1>8. Claiming'
    BY <1>i, <1>l, <1>u, <1>d DEF Claiming, Rewarded, Payee, TypeOK, fundVars
  <1>9. RowsStand'
    BY <1>i, <1>l, <1>u, <1>d DEF RowsStand, RowStands, ClaimTotal, walletVars, fundVars
  <1>10. Credited'
    BY <1>i, <1>l, <1>u, <1>d DEF Credited, walletVars, fundVars
  <1>11. LatestEntryIsBalance'
    BY <1>i, <1>l, <1>u, <1>d DEF LatestEntryIsBalance, LatestBalance, walletVars
  <1> QED
    BY <1>1, <1>2, <1>3, <1>4, <1>5, <1>6, <1>7, <1>8, <1>9, <1>10, <1>11 DEF IInv

\* Where the handlers in P may end when their open transactions are dropped.
Drops(P) ==
    /\ \A q \in Procs \ P : pc'[q] = pc[q]
    /\ \A q \in P : pc[q] \in Running /\ pc'[q] \in {"failed", "lost"}

\* Dropped transactions leave the committed rows and what they stand for.
LEMMA DropStep ==
    ASSUME IInv, NEW P \in SUBSET Procs, Drops(P), Discard(P),
           pc' \in [Procs -> {"idle"} \cup Running \cup Ended],
           UNCHANGED <<funding, status, keyRow, paid, about, unproven, referral, reward, claimer,
                    claimed>>
    PROVE  IInv'
  <1>i. /\ TypeOK /\ Standing /\ Marked /\ WalletsHeld /\ Granting /\ Rewarded
        /\ OneRewardPerReferral /\ Claiming /\ RowsStand /\ Credited
        /\ LatestEntryIsBalance
    BY DEF IInv
  <1>u. UNCHANGED <<funding, status, keyRow, paid, about, unproven, referral, reward, claimer,
                    claimed,
                    balance, entries, seen>>
    BY DEF Discard, RollbackWallets
  <1>a. \A q \in Procs :
          \/ q \notin P /\ pc'[q] = pc[q]
          \/ q \in P /\ pc[q] \in Running /\ pc'[q] \in {"failed", "lost"}
    BY DEF Drops
  <1>d. \A u \in Users :
          dirty'[u] = IF dirty[u] # Clean /\ dirty[u].by \in P THEN Clean ELSE dirty[u]
    BY DEF Discard, RollbackWallets, Owned
  <1>s. \A f \in Fundings :
          statusDraft'[f] = IF statusDraft[f] \in P THEN Nobody ELSE statusDraft[f]
    BY DEF Discard
  <1>r. \A u \in Users :
          referralDraft'[u] = IF referralDraft[u] \in P THEN Nobody ELSE referralDraft[u]
    BY DEF Discard
  <1>1. TypeOK'
    <2>1. WalletTypeOK'
      BY <1>i, RollbackWalletsType DEF TypeOK, Discard
    <2>2. /\ statusDraft' \in [Fundings -> Deliveries \cup {Nobody}]
          /\ referralDraft' \in [Users -> Deliveries \cup {Nobody}]
      BY <1>i DEF TypeOK, Discard
    <2> QED
      BY <1>i, <1>u, <2>1, <2>2 DEF TypeOK
  <1>2. Standing'
    BY <1>i, <1>u, <1>a, Kinds DEF Standing, FulfilTx, ClaimTx, Running
  <1>3. Marked'
    <2>1. \A d \in Deliveries : pc'[d] \in FulfilTx => d \notin P /\ pc'[d] = pc[d]
      BY <1>a, Kinds DEF FulfilTx
    <2>2. \A f \in Fundings : statusDraft[f] \in Deliveries \cup {Nobody}
      BY <1>i DEF TypeOK
    <2>3. \A d \in Deliveries : pc[d] \in FulfilTx => about[d] \in Fundings
      BY <1>i DEF Standing, Heard, TypeOK
    <2> QED
      BY <1>i, <1>u, <1>a, <1>s, <2>1, <2>2, <2>3, Kinds DEF Marked
  <1>4. WalletsHeld'
    <2>1. \A q \in Procs : Wallet(q)' = Wallet(q) /\ Due(q)' = Due(q) /\ Row(q)' = Row(q)
      BY <1>u DEF Wallet, Due, Row, Payee, Amount, ClaimTotal
    <2>2. \A q \in Procs : Writing(q)' => q \notin P /\ Writing(q)
      BY <1>a DEF Writing, Crediting
    <2>3. \A q \in Procs : Writing(q) /\ q \notin P => Writing(q)'
      BY <1>a DEF Writing
    <2>4. \A u \in Users : dirty'[u] # Clean =>
            dirty'[u] = dirty[u] /\ dirty[u].by \notin P /\ dirty[u].by \in Procs
      BY <1>i, <1>d DEF TypeOK, WalletTypeOK, Version
    <2>5. \A q \in Procs : Writing(q) => Wallet(q) \in Users
      BY <1>i, WalletType DEF Writing, Crediting, FulfilTx, ClaimTx
    <2>6. \A q \in Procs, u \in Users : q \notin P /\ Owned(q, u) => Owned(q, u)'
      BY <1>d DEF Owned
    <2> QED
      BY <1>i, <2>1, <2>2, <2>3, <2>4, <2>5, <2>6 DEF WalletsHeld
  <1>5. Granting'
    <2>1. \A d \in Deliveries : Payee(d)' = Payee(d)
      BY <1>u DEF Payee
    <2>2. \A u \in Users : referralDraft'[u] # Nobody =>
            /\ referralDraft'[u] = referralDraft[u] /\ referralDraft[u] \notin P
            /\ referralDraft[u] \in Deliveries
      BY <1>i, <1>r DEF TypeOK
    <2>3. \A d \in Deliveries : pc'[d] = "grant" => pc[d] = "grant"
      BY <1>a, Kinds
    <2>4. \A d \in Deliveries : d \notin P => pc'[d] = pc[d]
      BY <1>a, Kinds
    <2> QED
      BY <1>i, <1>u, <2>1, <2>2, <2>3, <2>4 DEF Granting
  <1>6. Rewarded'
    BY <1>i, <1>u, <1>a, Kinds DEF Rewarded, Payee, FulfilTx, ClaimTx, Ended, Running
  <1>7. OneRewardPerReferral'
    BY <1>i, <1>u, <1>a DEF OneRewardPerReferral, Rewarded, Payee
  <1>8. Claiming'
    <2>1. \A d \in Deliveries : Payee(d)' = Payee(d)
      BY <1>u DEF Payee
    <2>2. \A c \in Claims : pc'[c] = "claimed" <=> pc[c] = "claimed"
      BY <1>a, Kinds DEF Running, FulfilTx, ClaimTx
    <2> QED
      BY <1>i, <1>u, <2>1, <2>2 DEF Claiming, TypeOK
  <1>9. RowsStand'
    <2>1. \A c \in Claims : pc[c] = "claimed" => pc'[c] = "claimed"
      BY <1>a, Kinds DEF Running, FulfilTx, ClaimTx
    <2> QED
      BY <1>i, <1>u, <2>1 DEF RowsStand, RowStands, ClaimTotal
  <1>10. Credited'
    <2>1. \A c \in Claims : pc'[c] = "claimed" => pc[c] = "claimed"
      BY <1>a, Kinds
    <2> QED
      BY <1>i, <1>u, <2>1 DEF Credited
  <1>11. LatestEntryIsBalance'
    BY <1>i, <1>u, <1>a DEF LatestEntryIsBalance, LatestBalance
  <1> QED
    BY <1>1, <1>2, <1>3, <1>4, <1>5, <1>6, <1>7, <1>8, <1>9, <1>10, <1>11 DEF IInv

-------------------------------------------------------------------------------
(* The two commits *)

\* What a commit publishes: one row of one wallet.
LEMMA Published ==
    ASSUME IInv, NEW p \in Procs, pc[p] \in {"commit", "claimCommit"}, CommitWallets(p),
           NEW w, w = Wallet(p), NEW e, e = dirty[w].entry, NEW n, n = Len(entries[w])
    PROVE  /\ p \in Deliveries \cup Claims
           /\ w \in Users /\ e \in Entry /\ e.ref = Row(p) /\ e.amount = Due(p)
           /\ balance'[w] = e.after
           /\ n \in Nat /\ DOMAIN entries[w] = 1..n /\ DOMAIN entries'[w] = 1..(n + 1)
           /\ entries'[w][n + 1] = e
           /\ \A i \in 1..n : entries'[w][i] = entries[w][i]
           /\ dirty[w].by = p /\ dirty'[w] = Clean
           /\ \A u \in Users : u # w =>
                /\ balance'[u] = balance[u] /\ entries'[u] = entries[u] /\ dirty'[u] = dirty[u]
                /\ dirty[u] # Clean => dirty[u].by # p
           /\ LatestBalance(w)' = e.after
           /\ WalletTypeOK'
  <1>1. WalletTypeOK /\ w \in Users /\ p \in Deliveries \cup Claims /\ WalletTypeOK'
    BY WalletType, CommitWalletsType DEF IInv, TypeOK, FulfilTx, ClaimTx
  <1>2. dirty[w] # Clean /\ dirty[w].by = p
    BY DEF IInv, WalletsHeld, Writing, Crediting, Owned
  <1>3. e \in Entry /\ dirty[w].balance \in Int
    BY <1>1, <1>2, DirtyType
  <1>4. e.ref = Row(p) /\ e.amount = Due(p) /\ e.after = dirty[w].balance
    BY <1>1, <1>2 DEF IInv, WalletsHeld
  <1>5. \A u \in Users : u # w => ~ Owned(p, u)
    BY DEF IInv, WalletsHeld, Owned
  <1>6. Owned(p, w)
    BY <1>2 DEF Owned
  <1>7. /\ balance'[w] = dirty[w].balance
        /\ n \in Nat /\ DOMAIN entries[w] = 1..n /\ DOMAIN entries'[w] = 1..(n + 1)
        /\ entries'[w][n + 1] = e
        /\ \A i \in 1..n : entries'[w][i] = entries[w][i]
        /\ entries'[w] = Append(entries[w], e)
    BY <1>1, <1>6, CommittedTrail
  <1>8. LatestBalance(w)' = e.after
    <2>1. entries[w] \in Seq(Entry)
      BY <1>1 DEF WalletTypeOK
    <2>2. e \in Entry /\ entries'[w] = Append(entries[w], e)
      BY <1>3, <1>7
    <2>3. entries'[w] # <<>> /\ Len(entries'[w]) = n + 1
      BY <2>1, <2>2
    <2> QED
      BY <1>7, <2>3 DEF LatestBalance
  <1>9. \A u \in Users : u # w =>
          balance'[u] = balance[u] /\ entries'[u] = entries[u] /\ dirty'[u] = dirty[u]
    BY <1>5 DEF CommitWallets
  <1>10. dirty'[w] = Clean
    BY <1>1, <1>6 DEF CommitWallets
  <1> QED
    BY <1>1, <1>2, <1>3, <1>4, <1>5, <1>7, <1>8, <1>9, <1>10 DEF Owned

\* A fulfilment's commit makes its funding SUCCESS, and no other.
Succeeds(p) ==
    \A f \in Fundings :
        status'[f] = "SUCCESS" <=> status[f] = "SUCCESS" \/ (p \in Deliveries /\ f = about[p])

\* What the commit leaves of the rows and of what they stand for, where the
\* handler ends.
LEMMA CommittedRows ==
    ASSUME IInv, NEW p \in Procs, NEW l,
           \/ pc[p] = "commit" /\ l = "fulfilled"
           \/ pc[p] = "claimCommit" /\ l = "claimed",
           CommitWallets(p), pc' = [pc EXCEPT ![p] = l],
           UNCHANGED <<funding, about, claimer, claimed>>,
           Succeeds(p)
    PROVE  WalletsHeld' /\ RowsStand' /\ Credited' /\ LatestEntryIsBalance'
  <1>0. PICK w, e, n : w = Wallet(p) /\ e = dirty[w].entry /\ n = Len(entries[w])
    OBVIOUS
  <1>p. /\ p \in Deliveries \cup Claims
        /\ w \in Users /\ e \in Entry /\ e.ref = Row(p) /\ e.amount = Due(p)
        /\ balance'[w] = e.after
        /\ n \in Nat /\ DOMAIN entries[w] = 1..n /\ DOMAIN entries'[w] = 1..(n + 1)
        /\ entries'[w][n + 1] = e
        /\ \A i \in 1..n : entries'[w][i] = entries[w][i]
        /\ dirty[w].by = p /\ dirty'[w] = Clean
        /\ \A u \in Users : u # w =>
             /\ balance'[u] = balance[u] /\ entries'[u] = entries[u] /\ dirty'[u] = dirty[u]
             /\ dirty[u] # Clean => dirty[u].by # p
        /\ LatestBalance(w)' = e.after
        /\ WalletTypeOK'
    BY <1>0, Published
  <1>i. TypeOK /\ Standing /\ WalletsHeld /\ RowsStand /\ Credited /\ LatestEntryIsBalance
    BY DEF IInv
  <1>c. pc'[p] = l /\ \A q \in Procs : q # p => pc'[q] = pc[q]
    BY <1>i DEF TypeOK
  <1>w. \A q \in Procs : Wallet(q)' = Wallet(q) /\ Due(q)' = Due(q) /\ Row(q)' = Row(q)
    BY DEF Wallet, Due, Row, Payee, Amount, ClaimTotal
  <1>k. pc[p] = "claimCommit" <=> p \in Claims
    BY <1>i, <1>p DEF Standing, Heard, FulfilTx, ClaimTx
  <1>1. WalletsHeld'
    <2>1. Writing(p) /\ ~ Writing(p)' /\ \A q \in Procs : q # p => Writing(q)' = Writing(q)
      BY <1>c DEF Writing, Crediting
    <2>2. ASSUME NEW q \in Procs, Writing(q)'
          PROVE  Owned(q, Wallet(q))'
      <3>1. q # p /\ Writing(q)
        BY <2>1, <2>2
      <3>2. pc[q] \in FulfilTx \cup ClaimTx
        BY <3>1 DEF Writing, Crediting, FulfilTx, ClaimTx
      <3>3. Owned(q, Wallet(q)) /\ Wallet(q) \in Users
        BY <1>i, <3>1, <3>2, WalletType DEF WalletsHeld
      <3>4. Wallet(q) # w
        BY <1>p, <3>1, <3>3 DEF Owned
      <3> QED
        BY <1>p, <1>w, <3>3, <3>4 DEF Owned
    <2>3. ASSUME NEW u \in Users, dirty'[u] # Clean, NEW q, q = dirty'[u].by
          PROVE  /\ Writing(q)' /\ u = Wallet(q)'
                 /\ dirty'[u].entry.ref = Row(q)'
                 /\ dirty'[u].entry.amount = Due(q)'
                 /\ dirty'[u].entry.after = dirty'[u].balance
      <3>1. u # w /\ dirty'[u] = dirty[u] /\ q # p
        BY <1>p, <2>3
      <3>2. q \in Procs
        BY <1>i, <2>3, <3>1, DirtyType DEF TypeOK
      <3>3. /\ Writing(q) /\ u = Wallet(q)
            /\ dirty[u].entry.ref = Row(q) /\ dirty[u].entry.amount = Due(q)
            /\ dirty[u].entry.after = dirty[u].balance
        BY <1>i, <2>3, <3>1 DEF WalletsHeld
      <3> QED
        BY <1>w, <2>1, <3>1, <3>2, <3>3
    <2> QED
      BY <2>2, <2>3 DEF WalletsHeld
  <1>2. RowsStand'
    <2>1. ASSUME NEW u \in Users, NEW x, RowStands(u, x)
          PROVE  RowStands(u, x)'
      BY <1>c, <1>k, <2>1 DEF RowStands, ClaimTotal, Succeeds
    <2>2. RowStands(w, e)'
      <3>1. CASE p \in Deliveries
        <4>1. /\ e.ref = about[p] /\ e.amount = funding[about[p]].amount
              /\ w = funding[about[p]].user
          BY <1>0, <1>p, <3>1, Kinds DEF Row, Due, Wallet, Payee, Amount
        <4>2. about[p] \in Fundings
          BY <1>i, <1>k, <3>1 DEF Standing, TypeOK
        <4> QED
          BY <3>1, <4>1, <4>2, Kinds DEF RowStands, Succeeds
      <3>2. CASE p \in Claims
        BY <1>0, <1>p, <1>c, <1>k, <3>2, Kinds DEF RowStands, Row, Due, Wallet, ClaimTotal
      <3> QED
        BY <1>p, <3>1, <3>2
    <2>3. ASSUME NEW u \in Users, NEW i \in DOMAIN entries'[u], NEW x, x = entries'[u][i]
          PROVE  RowStands(u, x)'
      <3>1. CASE u # w
        <4>1. i \in DOMAIN entries[u] /\ x = entries[u][i]
          BY <1>p, <2>3, <3>1
        <4> QED
          BY <1>i, <2>1, <4>1 DEF RowsStand
      <3>2. CASE u = w /\ i # n + 1
        <4>1. i \in 1..n
          BY <1>p, <2>3, <3>2
        <4>2. w \in Users /\ i \in DOMAIN entries[w] /\ x = entries[w][i]
          BY <1>p, <2>3, <3>2, <4>1
        <4> QED
          BY <1>i, <2>1, <3>2, <4>2 DEF RowsStand
      <3>3. CASE u = w /\ i = n + 1
        BY <1>p, <2>2, <2>3, <3>3
      <3> QED
        BY <3>1, <3>2, <3>3
    <2> QED
      BY <2>3 DEF RowsStand
  <1>3. Credited'
    <2>1. ASSUME NEW u \in Users, NEW r, \E i \in DOMAIN entries[u] : entries[u][i].ref = r
          PROVE  \E i \in DOMAIN entries'[u] : entries'[u][i].ref = r
      <3>1. CASE u # w
        BY <1>p, <2>1, <3>1
      <3>2. CASE u = w
        <4>1. PICK i \in 1..n : entries[w][i].ref = r
          BY <1>p, <2>1, <3>2
        <4>2. i \in 1..(n + 1) /\ entries'[w][i].ref = r
          BY <1>p, <4>1
        <4> QED
          BY <1>p, <3>2, <4>2
      <3> QED
        BY <3>1, <3>2
    <2>2. \E i \in DOMAIN entries'[w] : entries'[w][i].ref = Row(p)
      <3>1. n + 1 \in DOMAIN entries'[w] /\ entries'[w][n + 1].ref = Row(p)
        BY <1>p
      <3> QED
        BY <3>1
    <2>3. ASSUME NEW f \in Fundings, status'[f] = "SUCCESS"
          PROVE  \E i \in DOMAIN entries'[funding[f].user] : entries'[funding[f].user][i].ref = f
      <3>1. CASE p \in Deliveries /\ f = about[p]
        <4>1. f = Row(p) /\ funding[f].user = w
          BY <1>0, <3>1, Kinds DEF Row, Wallet, Payee
        <4> QED
          BY <2>2, <4>1
      <3>2. CASE status[f] = "SUCCESS"
        <4>1. funding[f].user \in Users
          BY <1>i, <3>2 DEF Standing, Funding
        <4>2. \E i \in DOMAIN entries[funding[f].user] : entries[funding[f].user][i].ref = f
          BY <1>i, <3>2 DEF Credited
        <4> QED
          BY <2>1, <4>1, <4>2
      <3> QED
        BY <2>3, <3>1, <3>2 DEF Succeeds
    <2>4. ASSUME NEW c \in Claims, pc'[c] = "claimed"
          PROVE  \E i \in DOMAIN entries'[claimer[c]] : entries'[claimer[c]][i].ref = c
      <3>1. CASE c = p
        <4>1. Row(p) = c /\ claimer[c] = w
          BY <1>0, <2>4, <3>1 DEF Row, Wallet
        <4> QED
          BY <2>2, <4>1
      <3>2. CASE c # p
        <4>1. pc[c] = "claimed" /\ claimer[c] \in Users
          BY <1>i, <1>c, <2>4, <3>2 DEF Standing
        <4>2. \E i \in DOMAIN entries[claimer[c]] : entries[claimer[c]][i].ref = c
          BY <1>i, <4>1 DEF Credited
        <4> QED
          BY <2>1, <4>1, <4>2
      <3> QED
        BY <3>1, <3>2
    <2> QED
      BY <2>3, <2>4 DEF Credited
  <1>4. LatestEntryIsBalance'
    BY <1>i, <1>p DEF LatestEntryIsBalance, LatestBalance
  <1> QED
    BY <1>1, <1>2, <1>3, <1>4

\* A fulfilment commits its status, its credit and the reward it grants.
LEMMA FulfilStep ==
    ASSUME IInv, NEW d \in Deliveries, CommitFulfilment(d)
    PROVE  IInv'
  <1>i. /\ TypeOK /\ Standing /\ Marked /\ WalletsHeld /\ Granting /\ Rewarded
        /\ OneRewardPerReferral /\ Claiming /\ RowsStand /\ Credited
        /\ LatestEntryIsBalance
    BY DEF IInv
  <1>c. pc[d] = "commit" /\ pc' = [pc EXCEPT ![d] = "fulfilled"]
    BY DEF CommitFulfilment, At, Goto
  <1>p. about[d] \in Fundings /\ Payee(d) \in Users
    BY <1>i, <1>c, PayeeType DEF Standing, Heard, FulfilTx
  <1>u. UNCHANGED <<funding, keyRow, paid, about, unproven, claimer, claimed>> /\ CommitWallets(d)
    BY DEF CommitFulfilment
  <1>s. /\ status' = [status EXCEPT ![about[d]] = "SUCCESS"]
        /\ statusDraft' = [statusDraft EXCEPT ![about[d]] = Nobody]
    BY DEF CommitFulfilment
  <1>a. \A e \in Deliveries : Payee(e)' = Payee(e)
    BY <1>u DEF Payee
  <1>t. WalletTypeOK'
    BY <1>i, <1>u, CommitWalletsType, Kinds DEF TypeOK
  <1>r. WalletsHeld' /\ RowsStand' /\ Credited' /\ LatestEntryIsBalance'
    <2>1. UNCHANGED <<funding, about, claimer, claimed>> /\ Succeeds(d)
      BY <1>i, <1>u, <1>s DEF TypeOK, Succeeds
    <2> QED
      BY <1>c, <1>u, <2>1, CommittedRows, Kinds
  <1>g. \/ /\ referralDraft[Payee(d)] = d
           /\ referral' = [referral EXCEPT ![Payee(d)] = "QUALIFIED"]
           /\ referralDraft' = [referralDraft EXCEPT ![Payee(d)] = Nobody]
           /\ reward' = [reward EXCEPT ![d] = "unpaid"]
        \/ /\ referralDraft[Payee(d)] # d
           /\ UNCHANGED <<referral, referralDraft, reward>>
    BY <1>i DEF CommitFulfilment, TypeOK
  <1>o. \A u \in Users : referralDraft[u] = d => u = Payee(d)
    BY <1>i, Kinds DEF Granting
  <1>h. \A e \in Deliveries : pc[e] = "grant" => Payee(e) # Payee(d)
    <2> SUFFICES ASSUME NEW e \in Deliveries, pc[e] = "grant", Payee(e) = Payee(d) PROVE FALSE
      OBVIOUS
    <2>1. Owned(e, Payee(e)) /\ Owned(d, Payee(d))
      BY <1>i, <1>c, Kinds DEF WalletsHeld, Writing, Crediting, Wallet
    <2> QED
      BY <1>c, <2>1 DEF Owned
  <1>n. reward[d] = "absent"
    BY <1>i, <1>c DEF Rewarded, TypeOK
  <1>1. TypeOK'
    <2>1. status' \in [Fundings -> {"absent", "PENDING", "SUCCESS"}]
      BY <1>i, <1>s DEF TypeOK
    <2>2. statusDraft' \in [Fundings -> Deliveries \cup {Nobody}]
      BY <1>i, <1>s DEF TypeOK
    <2>3. pc' \in [Procs -> {"idle"} \cup Running \cup Ended]
      BY <1>i, <1>c DEF TypeOK, Ended
    <2>4. referral' \in [Users -> ReferralStatuses]
      BY <1>i, <1>g DEF TypeOK, ReferralStatuses
    <2>5. referralDraft' \in [Users -> Deliveries \cup {Nobody}]
      BY <1>i, <1>g DEF TypeOK
    <2>6. reward' \in [Deliveries -> {"absent", "unpaid", "paid"}]
      BY <1>i, <1>g DEF TypeOK
    <2> QED
      BY <1>i, <1>u, <1>t, <2>1, <2>2, <2>3, <2>4, <2>5, <2>6 DEF TypeOK
  <1>2. Standing'
    BY <1>i, <1>c, <1>p, <1>u, <1>s, Kinds DEF Standing, Heard
  <1>3. Marked'
    BY <1>i, <1>c, <1>p, <1>u, <1>s, Kinds DEF Marked, TypeOK, FulfilTx
  <1>4. WalletsHeld'
    BY <1>r
  <1>5. Granting'
    <2>1. \A e \in Deliveries : pc'[e] = "grant" => pc[e] = "grant" /\ Payee(e) \in Users
      BY <1>i, <1>c, PayeeType DEF TypeOK, Standing
    <2>2. \A e \in Deliveries : pc'[e] = "grant" => referral'[Payee(e)] = referral[Payee(e)]
      BY <1>i, <1>g, <1>h, <2>1 DEF TypeOK
    <2>3. \A u \in Users : referralDraft'[u] # Nobody =>
            /\ referralDraft'[u] = referralDraft[u] /\ referral'[u] = referral[u]
            /\ referralDraft[u] # d /\ referralDraft[u] \in Deliveries
      BY <1>i, <1>g, <1>o DEF TypeOK
    <2>4. \A e \in Deliveries : e # d => pc'[e] = pc[e]
      BY <1>c, <1>i DEF TypeOK
    <2> QED
      BY <1>i, <1>a, <2>1, <2>2, <2>3, <2>4 DEF Granting
  <1>6. Rewarded'
    <2>1. \A e \in Deliveries : e # d => pc'[e] = pc[e] /\ reward'[e] = reward[e]
      BY <1>i, <1>c, <1>g DEF TypeOK
    <2>2. \A u \in Users : referral'[u] = "PENDING_QUALIFICATION" => referral[u] = "PENDING_QUALIFICATION"
      BY <1>i, <1>g DEF TypeOK
    <2>3. \A e \in Deliveries : reward[e] # "absent" => Payee(e) \in Users
      BY <1>i, PayeeType DEF Rewarded, Standing, Heard
    <2>4. reward'[d] # "absent" =>
            /\ pc'[d] = "fulfilled" /\ Referrer[Payee(d)] # Nobody
            /\ referral'[Payee(d)] # "PENDING_QUALIFICATION"
      BY <1>i, <1>c, <1>g, <1>n, <1>p, Kinds DEF Granting, TypeOK
    <2> QED
      BY <1>i, <1>a, <2>1, <2>2, <2>3, <2>4 DEF Rewarded
  <1>7. OneRewardPerReferral'
    <2>1. \A e \in Deliveries : e # d => reward'[e] = reward[e]
      BY <1>i, <1>g DEF TypeOK
    <2>2. \A e \in Deliveries : reward[e] # "absent" /\ reward'[d] # "absent" => Payee(e) # Payee(d)
      BY <1>i, <1>g, <1>n, <1>p, Kinds DEF Granting, Rewarded
    <2> QED
      BY <1>i, <1>a, <2>1, <2>2 DEF OneRewardPerReferral
  <1>8. Claiming'
    <2>1. \A e \in Deliveries : reward[e] # "absent" => reward'[e] = reward[e]
      BY <1>i, <1>g, <1>n DEF TypeOK
    <2>2. \A e \in Deliveries : reward'[e] = "paid" => reward[e] = "paid"
      BY <1>i, <1>g DEF TypeOK
    <2>3. \A c \in Claims : pc'[c] = pc[c] /\ claimed[c] \subseteq Deliveries
      BY <1>i, <1>c, Kinds DEF TypeOK
    <2> QED
      BY <1>i, <1>u, <1>a, <2>1, <2>2, <2>3 DEF Claiming
  <1>9. RowsStand'
    BY <1>r
  <1>10. Credited'
    BY <1>r
  <1>11. LatestEntryIsBalance'
    BY <1>r
  <1> QED
    BY <1>1, <1>2, <1>3, <1>4, <1>5, <1>6, <1>7, <1>8, <1>9, <1>10, <1>11 DEF IInv

\* A claim commits its credit and marks its rewards.
LEMMA PayoutStep ==
    ASSUME IInv, NEW c \in Claims, ClaimCommit(c)
    PROVE  IInv'
  <1>i. /\ TypeOK /\ Standing /\ Marked /\ WalletsHeld /\ Granting /\ Rewarded
        /\ OneRewardPerReferral /\ Claiming /\ RowsStand /\ Credited
        /\ LatestEntryIsBalance
    BY DEF IInv
  <1>c. pc[c] = "claimCommit" /\ pc' = [pc EXCEPT ![c] = "claimed"]
    BY DEF ClaimCommit, At, Goto
  <1>u. UNCHANGED <<fundVars, referralDraft, claimer, claimed>> /\ CommitWallets(c)
    BY DEF ClaimCommit
  <1>a. \A e \in Deliveries : Payee(e)' = Payee(e)
    BY <1>u DEF Payee, fundVars
  <1>t. WalletTypeOK'
    BY <1>i, <1>u, CommitWalletsType, Kinds DEF TypeOK
  <1>r. WalletsHeld' /\ RowsStand' /\ Credited' /\ LatestEntryIsBalance'
    <2>1. UNCHANGED <<funding, about, claimer, claimed>> /\ Succeeds(c)
      BY <1>u, Kinds DEF fundVars, Succeeds
    <2> QED
      BY <1>c, <1>u, <2>1, CommittedRows, Kinds
  <1>w. /\ reward' \in [Deliveries -> {"absent", "unpaid", "paid"}]
        /\ \A d \in Deliveries : reward'[d] = IF d \in claimed[c] THEN "paid" ELSE reward[d]
    BY <1>i DEF ClaimCommit, TypeOK
  <1>g. /\ referral' \in [Users -> ReferralStatuses]
        /\ \A u \in Users : \/ referral'[u] = referral[u]
                            \/ /\ referral'[u] = "REWARDED"
                               /\ \E d \in claimed[c] : Payee(d) = u
    BY <1>i DEF ClaimCommit, TypeOK, ReferralStatuses
  <1>h. \A u \in Users : referral[u] = "PENDING_QUALIFICATION" => referral'[u] = referral[u]
    BY <1>i, <1>g DEF Claiming, Rewarded, TypeOK
  <1>j. \A u \in Users : referral'[u] = "PENDING_QUALIFICATION" => referral[u] = referral'[u]
    BY <1>g
  <1>k. \A d \in Deliveries : reward'[d] # "absent" <=> reward[d] # "absent"
    BY <1>i, <1>w DEF Claiming
  <1>d. \A d \in Deliveries : pc'[d] = pc[d]
    BY <1>i, <1>c, Kinds DEF TypeOK
  <1>e. \A d \in Deliveries : about[d] # Nobody => Payee(d) \in Users
    BY <1>i, PayeeType
  <1>1. TypeOK'
    BY <1>i, <1>c, <1>u, <1>t, <1>w, <1>g DEF TypeOK, WalletTypeOK, Running, Ended, fundVars
  <1>2. Standing'
    BY <1>i, <1>c, <1>u, Kinds DEF Standing, fundVars
  <1>3. Marked'
    BY <1>i, <1>c, <1>u, Kinds DEF Marked, TypeOK, fundVars
  <1>4. WalletsHeld'
    BY <1>r
  <1>5. Granting'
    <2>1. \A d \in Deliveries : pc[d] = "grant" => Payee(d) \in Users
      BY <1>i, <1>e DEF Standing, Heard, FulfilTx
    <2> QED
      BY <1>i, <1>u, <1>a, <1>h, <1>d, <2>1 DEF Granting, TypeOK
  <1>6. Rewarded'
    <2>1. \A d \in Deliveries : reward[d] # "absent" => Payee(d) \in Users
      BY <1>i, <1>e DEF Rewarded, Standing, Heard
    <2> QED
      BY <1>i, <1>a, <1>j, <1>k, <1>d, <2>1 DEF Rewarded
  <1>7. OneRewardPerReferral'
    BY <1>i, <1>c, <1>u, <1>a, <1>k DEF OneRewardPerReferral, Rewarded
  <1>8. Claiming'
    <2>1. \A x \in Claims : claimed'[x] = claimed[x] /\ claimer'[x] = claimer[x] /\ claimed[x] \subseteq Deliveries
      BY <1>i, <1>u DEF TypeOK
    <2>2. \A x \in Claims : x # c => pc'[x] = pc[x]
      BY <1>i, <1>c DEF TypeOK
    <2>3. ASSUME NEW x \in Claims, NEW d \in claimed'[x]
          PROVE  /\ reward'[d] # "absent" /\ Referrer[Payee(d)'] = claimer'[x]
                 /\ pc'[x] = "claimed" => reward'[d] = "paid"
      <3>1. d \in claimed[x] /\ d \in Deliveries
        BY <2>1, <2>3
      <3>2. /\ reward[d] # "absent" /\ Referrer[Payee(d)] = claimer[x]
            /\ pc[x] = "claimed" => reward[d] = "paid"
        BY <1>i, <3>1 DEF Claiming
      <3>3. pc'[x] = "claimed" => reward'[d] = "paid"
        BY <1>w, <2>2, <3>1, <3>2
      <3> QED
        BY <1>a, <1>k, <2>1, <3>1, <3>2, <3>3
    <2>4. ASSUME NEW d \in Deliveries, reward'[d] = "paid"
          PROVE  \E x \in Claims : d \in claimed'[x] /\ pc'[x] = "claimed"
      <3>1. CASE d \in claimed[c]
        <4>1. d \in claimed'[c] /\ pc'[c] = "claimed"
          BY <1>i, <1>c, <2>1, <3>1, Kinds DEF TypeOK
        <4> QED
          BY <4>1
      <3>2. CASE d \notin claimed[c]
        <4>1. PICK x \in Claims : d \in claimed[x] /\ pc[x] = "claimed"
          BY <1>i, <1>w, <2>4, <3>2 DEF Claiming
        <4>2. x # c
          BY <1>c, <4>1
        <4> QED
          BY <2>1, <2>2, <4>1, <4>2
      <3> QED
        BY <3>1, <3>2
    <2> QED
      BY <2>3, <2>4 DEF Claiming
  <1>9. RowsStand'
    BY <1>r
  <1>10. Credited'
    BY <1>r
  <1>11. LatestEntryIsBalance'
    BY <1>r
  <1> QED
    BY <1>1, <1>2, <1>3, <1>4, <1>5, <1>6, <1>7, <1>8, <1>9, <1>10, <1>11 DEF IInv

-------------------------------------------------------------------------------
(* Every step *)

\* The fields of what a webhook's body says.
LEMMA EventFields ==
    ASSUME NEW fulfils, NEW reference, NEW parsed,
           parsed = [fulfils |-> fulfils, reference |-> reference]
    PROVE  parsed.fulfils = fulfils /\ parsed.reference = reference
  OBVIOUS

\* What a webhook does: it turns the event away, or hears of a row there is,
\* signed or sent as a sandbox event.
LEMMA Received ==
    ASSUME NEW d \in Deliveries, NEW believed, NEW signature, NEW parsed,
           parsed.reference \in Existing \cup {Missing},
           Receive(d, believed, signature, parsed)
    PROVE  \/ \E l \in {"refused", "ignored"} :
                pc' = [pc EXCEPT ![d] = l] /\ UNCHANGED <<about, unproven>>
           \/ \E f \in Existing :
                /\ believed /\ parsed.fulfils /\ f = parsed.reference
                /\ pc' = [pc EXCEPT ![d] = "find"] /\ about' = [about EXCEPT ![d] = f]
                /\ \/ signature = "sandbox" /\ unproven' = unproven \cup {d}
                   \/ signature # "sandbox" /\ unproven' = unproven
  <1>1. CASE ~ believed
    <2>1. pc' = [pc EXCEPT ![d] = "refused"] /\ UNCHANGED <<about, unproven>>
      BY <1>1 DEF Receive, Goto
    <2> QED
      BY <2>1
  <1>2. CASE believed /\ ~ parsed.fulfils
    <2>1. pc' = [pc EXCEPT ![d] = "ignored"] /\ UNCHANGED <<about, unproven>>
      BY <1>2 DEF Receive, Goto
    <2> QED
      BY <2>1
  <1>3. CASE believed /\ parsed.fulfils
    <2>1. IF parsed.reference = Missing
          THEN pc' = [pc EXCEPT ![d] = "refused"] /\ UNCHANGED <<about, unproven>>
          ELSE /\ about' = [about EXCEPT ![d] = parsed.reference]
               /\ unproven' = IF signature = "sandbox" THEN unproven \cup {d} ELSE unproven
               /\ pc' = [pc EXCEPT ![d] = "find"]
      BY <1>3 DEF Receive, Goto
    <2> QED
      BY <1>3, <2>1
  <1> QED
    BY <1>1, <1>2, <1>3

\* What each of the webhooks does, then.
Heeds(d) ==
    \/ \E l \in {"refused", "ignored"} :
         pc' = [pc EXCEPT ![d] = l] /\ UNCHANGED <<about, unproven>>
    \/ \E f \in Existing :
         /\ pc' = [pc EXCEPT ![d] = "find"] /\ about' = [about EXCEPT ![d] = f]
         /\ unproven \subseteq unproven' /\ unproven' \subseteq unproven \cup {d}
         /\ f \in paid \/ d \in unproven'

\* A webhook that fulfils hears the truth, or is unproven.
LEMMA WebhooksHeed ==
    ASSUME PaymentsAssumption, NEW d \in Deliveries,
           HandlePaystackWebhook(d) \/ HandleFlutterwaveWebhook(d) \/ HandleMockWebhook(d)
    PROVE  /\ pc[d] = "idle" /\ Heeds(d)
           /\ UNCHANGED <<walletVars, referralVars, funding, status, statusDraft, keyRow, paid>>
  <1>f. \A f \in Existing : f # Missing
    BY PaymentsAssumption DEF Existing
  <1>1. CASE HandlePaystackWebhook(d)
    <2>1. PICK signature \in Signatures,
               body \in [event: {"charge.success", "other"}, reference: Existing \cup {Missing}] :
            /\ Honest(signature, PaystackEvent(body))
            /\ Receive(d, PaystackSignature(signature), signature, PaystackEvent(body))
      BY <1>1 DEF HandlePaystackWebhook
    <2>2. PICK parsed, believed :
            parsed = PaystackEvent(body) /\ believed = PaystackSignature(signature)
      OBVIOUS
    <2>3. believed => signature \in {"signed", "sandbox"}
      BY <2>2, Zenon DEF PaystackSignature
    <2>4. parsed.reference = body.reference
      BY <2>2, EventFields, Zenon DEF PaystackEvent
    <2>5. Honest(signature, parsed) /\ Receive(d, believed, signature, parsed)
      BY <2>1, <2>2
    <2> QED
      BY <1>1, <1>f, <2>3, <2>4, <2>5, Received DEF HandlePaystackWebhook, Heeds, Honest, At
  <1>2. CASE HandleFlutterwaveWebhook(d)
    <2>1. PICK signature \in Signatures,
               body \in [status: {"successful", "failed"}, reference: Existing \cup {Missing}] :
            /\ Honest(signature, FlutterwaveEvent(body))
            /\ Receive(d, FlutterwaveSignature(signature, Production), signature,
                       FlutterwaveEvent(body))
      BY <1>2 DEF HandleFlutterwaveWebhook
    <2>2. PICK parsed, believed : /\ parsed = FlutterwaveEvent(body)
                                  /\ believed = FlutterwaveSignature(signature, Production)
      OBVIOUS
    <2>3. believed => signature \in {"signed", "sandbox"}
      BY <2>2 DEF FlutterwaveSignature
    <2>4. parsed.reference = body.reference
      BY <2>2, EventFields, Zenon DEF FlutterwaveEvent
    <2>5. Honest(signature, parsed) /\ Receive(d, believed, signature, parsed)
      BY <2>1, <2>2
    <2> QED
      BY <1>2, <1>f, <2>3, <2>4, <2>5, Received DEF HandleFlutterwaveWebhook, Heeds, Honest, At
  <1>3. CASE HandleMockWebhook(d)
    BY <1>3 DEF HandleMockWebhook, Heeds, Existing, At, Goto
  <1> QED
    BY <1>1, <1>2, <1>3

\* Webhooks and verifications.
LEMMA HearingStep ==
    ASSUME IInv, NEW d \in Deliveries,
           \/ HandlePaystackWebhook(d) \/ HandleFlutterwaveWebhook(d)
           \/ HandleMockWebhook(d) \/ VerifyPayment(d)
    PROVE  IInv'
  <1>i. TypeOK
    BY DEF IInv
  <1>1. CASE HandlePaystackWebhook(d) \/ HandleFlutterwaveWebhook(d) \/ HandleMockWebhook(d)
    <2>1. /\ pc[d] = "idle" /\ Heeds(d)
          /\ UNCHANGED <<walletVars, referralVars, funding, status, statusDraft, keyRow, paid>>
      BY <1>1, WebhooksHeed, PaymentsAssumption
    <2>2. CASE \E l \in {"refused", "ignored"} :
                 pc' = [pc EXCEPT ![d] = l] /\ UNCHANGED <<about, unproven>>
      <3>1. PICK l \in {"refused", "ignored"} :
              pc' = [pc EXCEPT ![d] = l] /\ UNCHANGED <<about, unproven>>
        BY <2>2
      <3>2. /\ UNCHANGED <<walletVars, funding, status, statusDraft, keyRow, paid, about,
                            referralVars>>
            /\ Strolls(d, l) /\ d \in Procs /\ unproven' \subseteq Deliveries
        BY <1>i, <2>1, <3>1, Kinds DEF Strolls, TypeOK
      <3> QED
        BY <3>1, <3>2, StrollStep
    <2>3. CASE \E f \in Existing :
                 /\ pc' = [pc EXCEPT ![d] = "find"] /\ about' = [about EXCEPT ![d] = f]
                 /\ unproven \subseteq unproven' /\ unproven' \subseteq unproven \cup {d}
                 /\ f \in paid \/ d \in unproven'
      <3>1. PICK f \in Fundings, l \in {"find", "ask", "ignored"} :
              /\ status[f] # "absent" /\ pc' = [pc EXCEPT ![d] = l]
              /\ about' = [about EXCEPT ![d] = f] /\ unproven' \subseteq unproven \cup {d}
        BY <2>3 DEF Existing
      <3>2. unproven' \subseteq Deliveries
        BY <1>i, <3>1 DEF TypeOK
      <3> QED
        BY <2>1, <3>1, <3>2, HearStep
    <2> QED
      BY <2>1, <2>2, <2>3 DEF Heeds
  <1>2. CASE VerifyPayment(d)
    <2>1. PICK f \in Fundings, l \in {"find", "ask", "ignored"} :
            /\ status[f] # "absent" /\ pc' = [pc EXCEPT ![d] = l]
            /\ about' = [about EXCEPT ![d] = f]
      BY <1>2 DEF VerifyPayment, Existing, Goto
    <2>2. unproven' \subseteq Deliveries /\ pc[d] = "idle"
      BY <1>i, <1>2 DEF TypeOK, VerifyPayment, At
    <2>3. UNCHANGED <<walletVars, funding, status, statusDraft, keyRow, paid, referralVars>>
      BY <1>2 DEF VerifyPayment
    <2> QED
      BY <2>1, <2>2, <2>3, HearStep
  <1> QED
    BY <1>1, <1>2

\* initializeFunding, and the customer at the gateway.
LEMMA FundingStep ==
    ASSUME IInv, NEW f \in Fundings, InitializeFunding(f) \/ CreateFunding(f) \/ Pay(f)
    PROVE  IInv'
  <1>1. CASE InitializeFunding(f)
    <2>1. PICK r \in Funding, l \in {"existing", "create"} :
            funding' = [funding EXCEPT ![f] = r] /\ pc' = [pc EXCEPT ![f] = l]
      BY <1>1 DEF InitializeFunding, Goto
    <2> QED
      BY <1>1, <2>1, RequestStep DEF InitializeFunding, At
  <1>2. CASE CreateFunding(f) /\ keyRow[funding[f].key] # Nobody
    <2>1. PICK l : l = "failed" /\ pc' = [pc EXCEPT ![f] = l]
      BY <1>2 DEF CreateFunding, Goto
    <2>2. /\ UNCHANGED <<walletVars, funding, status, statusDraft, keyRow, paid, about,
                          referralVars>>
          /\ Strolls(f, l) /\ f \in Procs /\ unproven' \subseteq Deliveries
      BY <1>2, <2>1, Kinds DEF CreateFunding, Strolls, At, IInv, TypeOK
    <2> QED
      BY <2>1, <2>2, StrollStep
  <1>3. CASE CreateFunding(f) /\ keyRow[funding[f].key] = Nobody
    BY <1>3, InsertStep DEF CreateFunding, At, Goto
  <1>4. CASE Pay(f)
    BY <1>4, PayStep DEF Pay, IInv, TypeOK
  <1> QED
    BY <1>1, <1>2, <1>3, <1>4

\* What _fulfillPayment does, and the verification before it.
LEMMA FulfillingStep ==
    ASSUME IInv, NEW d \in Deliveries, Fulfil(d)
    PROVE  IInv'
  <1>i. TypeOK /\ Standing
    BY DEF IInv
  <1>k. d \in Procs /\ d \notin Claims
    BY Kinds
  <1>1. CASE AskGateway(d)
    <2>1. PICK l \in {"find", "unconfirmed"} : pc' = [pc EXCEPT ![d] = l]
      BY <1>1 DEF AskGateway, Goto
    <2>2. /\ UNCHANGED <<walletVars, funding, status, statusDraft, keyRow, paid, about,
                          referralVars>>
          /\ Strolls(d, l) /\ unproven' \subseteq Deliveries
      BY <1>i, <1>1, <2>1 DEF AskGateway, Strolls, At, fundVars, TypeOK
    <2> QED
      BY <1>k, <2>1, <2>2, StrollStep
  <1>2. CASE FindFunding(d)
    <2>1. PICK l \in {"ignored", "mark"} : pc' = [pc EXCEPT ![d] = l]
      BY <1>2 DEF FindFunding, Goto
    <2>2. /\ UNCHANGED <<walletVars, funding, status, statusDraft, keyRow, paid, about,
                          referralVars>>
          /\ Strolls(d, l) /\ unproven' \subseteq Deliveries
      BY <1>i, <1>2, <2>1 DEF FindFunding, Strolls, At, fundVars, TypeOK
    <2> QED
      BY <1>k, <2>1, <2>2, StrollStep
  <1>3. CASE MarkSuccess(d)
    BY <1>3, MarkStep DEF MarkSuccess, At, Goto
  <1>4. CASE CreditRead(d)
    <2>1. PICK l : l = "creditWrite" /\ pc' = [pc EXCEPT ![d] = l]
      BY <1>4 DEF CreditRead, Goto
    <2>2. ReadWallet(d, Wallet(d)) /\ Reads(pc[d], l) /\ UNCHANGED <<fundVars, referralVars>>
      BY <1>4, <1>k, <2>1 DEF CreditRead, Wallet, Reads, At
    <2> QED
      BY <1>k, <2>1, <2>2, ReadStep
  <1>5. CASE CreditWrite(d)
    <2>1. PICK l : l = "qualify" /\ pc' = [pc EXCEPT ![d] = l]
      BY <1>5 DEF CreditWrite, Goto
    <2>2. pc[d] = "creditWrite" /\ UNCHANGED <<fundVars, referralVars>>
      BY <1>5 DEF CreditWrite, At
    <2>3. CreditWallet(d, Wallet(d), Due(d), Row(d))
      BY <1>5, <1>k DEF CreditWrite, Wallet, Due, Row
    <2>4. Wallet(d) \in Users /\ Due(d) \in Nat /\ Row(d) \in Refs
      BY <1>i, <1>k, <2>2, WalletType DEF FulfilTx
    <2>5. PICK e \in Entry : /\ e.amount = Due(d) /\ e.ref = Row(d)
                             /\ WriteWallet(d, Wallet(d), e.after, e)
      BY <1>i, <1>k, <2>3, <2>4, CreditWalletIsWrite DEF TypeOK
    <2>6. Writes(pc[d], l)
      BY <2>1, <2>2 DEF Writes
    <2> QED
      BY <1>k, <2>1, <2>2, <2>5, <2>6, WriteStep
  <1>6. CASE Qualify(d)
    <2>1. PICK l \in {"grant", "commit"} :
            /\ pc' = [pc EXCEPT ![d] = l]
            /\ l = "grant" => /\ Referrer[Payee(d)] # Nobody
                              /\ referral[Payee(d)] = "PENDING_QUALIFICATION"
      BY <1>6 DEF Qualify, Goto
    <2> QED
      BY <1>6, <2>1, QualifyStep DEF Qualify, At
  <1>7. CASE Grant(d)
    BY <1>7, GrantStep DEF Grant, At, Goto
  <1>8. CASE CommitFulfilment(d)
    BY <1>8, FulfilStep
  <1> QED
    BY <1>1, <1>2, <1>3, <1>4, <1>5, <1>6, <1>7, <1>8 DEF Fulfil

\* What claimRewards does.
LEMMA ClaimingStep ==
    ASSUME IInv, NEW c \in Claims, ClaimRewards(c) \/ Claim(c)
    PROVE  IInv'
  <1>i. TypeOK /\ Standing
    BY DEF IInv
  <1>k. c \in Procs
    BY Kinds
  <1>1. CASE ClaimRewards(c)
    <2>1. PICK u \in Users, l \in {"refused", "claimRead"} :
            /\ l = (IF Unpaid(u) = {} THEN "refused" ELSE "claimRead")
            /\ pc' = [pc EXCEPT ![c] = l]
            /\ claimer' = [claimer EXCEPT ![c] = u]
            /\ claimed' = [claimed EXCEPT ![c] = Unpaid(u)]
      BY <1>1 DEF ClaimRewards, Goto
    <2> QED
      BY <1>1, <2>1, ClaimStep DEF ClaimRewards, At
  <1>2. CASE ClaimRead(c)
    <2>1. PICK l : l = "claimWrite" /\ pc' = [pc EXCEPT ![c] = l]
      BY <1>2 DEF ClaimRead, Goto
    <2>2. ReadWallet(c, Wallet(c)) /\ Reads(pc[c], l) /\ UNCHANGED <<fundVars, referralVars>>
      BY <1>2, <2>1 DEF ClaimRead, Wallet, Reads, At
    <2> QED
      BY <1>k, <2>1, <2>2, ReadStep
  <1>3. CASE ClaimLocked(c)
    <2>1. PICK l : l = "refused" /\ pc' = [pc EXCEPT ![c] = l]
      BY <1>3 DEF ClaimLocked, Goto
    <2>2. /\ UNCHANGED <<walletVars, funding, status, statusDraft, keyRow, paid, about,
                          referralVars>>
          /\ Strolls(c, l) /\ unproven' \subseteq Deliveries
      BY <1>i, <1>3, <2>1 DEF ClaimLocked, Strolls, At, fundVars, TypeOK
    <2> QED
      BY <1>k, <2>1, <2>2, StrollStep
  <1>4. CASE ClaimWrite(c)
    <2>1. PICK l : l = "claimCommit" /\ pc' = [pc EXCEPT ![c] = l]
      BY <1>4 DEF ClaimWrite, Goto
    <2>2. pc[c] = "claimWrite" /\ UNCHANGED <<fundVars, referralVars>>
      BY <1>4 DEF ClaimWrite, At
    <2>3. CreditWallet(c, Wallet(c), Due(c), Row(c))
      BY <1>4 DEF ClaimWrite, Wallet, Due, Row
    <2>4. Wallet(c) \in Users /\ Due(c) \in Nat /\ Row(c) \in Refs
      BY <1>i, <1>k, <2>2, WalletType DEF ClaimTx
    <2>5. PICK e \in Entry : /\ e.amount = Due(c) /\ e.ref = Row(c)
                             /\ WriteWallet(c, Wallet(c), e.after, e)
      BY <1>i, <1>k, <2>3, <2>4, CreditWalletIsWrite DEF TypeOK
    <2>6. Writes(pc[c], l)
      BY <2>1, <2>2 DEF Writes
    <2> QED
      BY <1>k, <2>1, <2>2, <2>5, <2>6, WriteStep
  <1>5. CASE ClaimCommit(c)
    BY <1>5, PayoutStep
  <1> QED
    BY <1>1, <1>2, <1>3, <1>4, <1>5 DEF Claim

\* A failing handler, and a dying server.
LEMMA FaultStep ==
    ASSUME IInv, (\E p \in Procs : Fail(p)) \/ Crash
    PROVE  IInv'
  <1>i. TypeOK
    BY DEF IInv
  <1>1. CASE \E p \in Procs : Fail(p)
    <2>1. PICK p \in Procs : Fail(p)
      BY <1>1
    <2>2. PICK P \in SUBSET Procs : P = {p}
      OBVIOUS
    <2>3. Drops(P) /\ pc' \in [Procs -> {"idle"} \cup Running \cup Ended]
      BY <1>i, <2>1, <2>2 DEF Fail, Goto, Drops, TypeOK, Ended
    <2> QED
      BY <2>1, <2>2, <2>3, DropStep DEF Fail
  <1>2. CASE Crash
    <2>1. PICK P \in SUBSET Procs : P = {p \in Procs : pc[p] \in Running}
      OBVIOUS
    <2>2. /\ pc' = [p \in Procs |-> IF p \in P THEN "lost" ELSE pc[p]]
          /\ Discard(P)
          /\ UNCHANGED <<funding, status, keyRow, paid, about, unproven, referral, reward, claimer,
                    claimed>>
      BY <1>2, <2>1 DEF Crash
    <2>3. Drops(P) /\ pc' \in [Procs -> {"idle"} \cup Running \cup Ended]
      BY <1>i, <2>1, <2>2 DEF Drops, TypeOK, Ended
    <2> QED
      BY <2>2, <2>3, DropStep
  <1> QED
    BY <1>1, <1>2

-------------------------------------------------------------------------------
(* The theorems *)

\* Before any request the invariant holds.
THEOREM PaymentsInit == Init => IInv
  <1> SUFFICES ASSUME Init PROVE IInv
    OBVIOUS
  <1>1. TypeOK
    BY PaymentsAssumption, WalletAssumption
    DEF Init, WalletInit, TypeOK, WalletTypeOK, ReferralStatuses
  <1>2. Standing /\ Marked /\ Granting /\ Rewarded /\ OneRewardPerReferral /\ Claiming
    BY Kinds DEF Init, Standing, Marked, Granting, Rewarded, OneRewardPerReferral, Claiming,
       Heard, FulfilTx, ClaimTx
  <1>3. WalletsHeld
    BY DEF Init, WalletInit, WalletsHeld, Writing, Crediting
  <1>4. RowsStand /\ Credited /\ LatestEntryIsBalance
    BY Kinds DEF Init, WalletInit, RowsStand, Credited, LatestEntryIsBalance, LatestBalance
  <1> QED
    BY <1>1, <1>2, <1>3, <1>4 DEF IInv

\* What the services write and hold is consistent after every step.
THEOREM PaymentsStep == IInv /\ [Next]_vars => IInv'
  <1> SUFFICES ASSUME IInv, [Next]_vars PROVE IInv'
    OBVIOUS
  <1>1. ASSUME NEW f \in Fundings, InitializeFunding(f) \/ CreateFunding(f) \/ Pay(f)
        PROVE  IInv'
    BY <1>1, FundingStep
  <1>2. ASSUME NEW d \in Deliveries,
               \/ HandlePaystackWebhook(d) \/ HandleFlutterwaveWebhook(d)
               \/ HandleMockWebhook(d) \/ VerifyPayment(d)
        PROVE  IInv'
    BY <1>2, HearingStep
  <1>3. ASSUME NEW d \in Deliveries, Fulfil(d)
        PROVE  IInv'
    BY <1>3, FulfillingStep
  <1>4. ASSUME NEW c \in Claims, ClaimRewards(c) \/ Claim(c)
        PROVE  IInv'
    BY <1>4, ClaimingStep
  <1>5. CASE (\E p \in Procs : Fail(p)) \/ Crash
    BY <1>5, FaultStep
  <1>6. CASE UNCHANGED vars
    BY <1>6, PayStep DEF vars, fundVars, IInv, TypeOK
  <1> QED
    BY <1>1, <1>2, <1>3, <1>4, <1>5, <1>6 DEF Next, Terminated

\* The inductive invariant is an invariant.
THEOREM PaymentsInvariant == Spec => []IInv
  BY PaymentsInit, PaymentsStep, PTL DEF Spec

\* Every variable keeps its type.
THEOREM PaymentsTypeCorrect == Spec => []TypeOK
  <1>1. IInv => TypeOK
    BY DEF IInv
  <1> QED
    BY <1>1, PaymentsInvariant, PTL

\* A wallet's balance is that of its newest ledger row.
THEOREM LedgersKeepUp == Spec => []LatestEntryIsBalance
  <1>1. IInv => LatestEntryIsBalance
    BY DEF IInv
  <1> QED
    BY <1>1, PaymentsInvariant, PTL

\* One qualified referral earns one reward: the wallet row that the
\* fulfilment holds serialises the reads of the referral.
THEOREM ReferralsPayOnce == Spec => []OneRewardPerReferral
  <1>1. IInv => OneRewardPerReferral
    BY DEF IInv
  <1> QED
    BY <1>1, PaymentsInvariant, PTL

\* A funding is SUCCESS exactly when its wallet has a credit of its amount.
THEOREM SuccessesAreCredited == Spec => []SuccessIsCredited
  <1>1. ASSUME IInv
        PROVE  SuccessIsCredited
    <2>1. Standing /\ RowsStand /\ Credited
      BY <1>1 DEF IInv
    <2>2. ASSUME NEW f \in Fundings, status[f] # "absent"
          PROVE  /\ (status[f] = "SUCCESS") = (Credits(f) # {})
                 /\ \A i \in Credits(f) :
                       entries[funding[f].user][i].amount = funding[f].amount
      <3>1. funding[f].user \in Users
        BY <2>1, <2>2 DEF Standing, Funding
      <3>2. \A i \in Credits(f) :
              status[f] = "SUCCESS" /\ entries[funding[f].user][i].amount = funding[f].amount
        BY <2>1, <3>1 DEF RowsStand, RowStands, Credits, RowsOf
      <3>3. status[f] = "SUCCESS" => Credits(f) # {}
        BY <2>1 DEF Credited, Credits, RowsOf
      <3> QED
        BY <3>2, <3>3
    <2> QED
      BY <2>2 DEF SuccessIsCredited
  <1> QED
    BY <1>1, PaymentsInvariant, PTL

\* A reward that is marked paid is in its referrer's wallet, and a claim's
\* credit is the sum of rewards that are marked paid.
THEOREM PaidRewardsAreCredited == Spec => []PaidRewardIsCredited
  <1>1. ASSUME IInv
        PROVE  PaidRewardIsCredited
    <2>1. Claiming /\ RowsStand /\ Credited
      BY <1>1 DEF IInv
    <2>2. ASSUME NEW d \in Deliveries, reward[d] = "paid"
          PROVE  \E c \in Claims : d \in claimed[c] /\ RowsOf(Referrer[Payee(d)], c) # {}
      <3>1. PICK c \in Claims : d \in claimed[c] /\ pc[c] = "claimed"
        BY <2>1, <2>2 DEF Claiming
      <3>2. Referrer[Payee(d)] = claimer[c]
        BY <2>1, <3>1 DEF Claiming
      <3>3. PICK i \in DOMAIN entries[claimer[c]] : entries[claimer[c]][i].ref = c
        BY <2>1, <3>1 DEF Credited
      <3> QED
        BY <3>1, <3>2, <3>3 DEF RowsOf
    <2>3. ASSUME NEW c \in Claims, NEW u \in Users, NEW i \in RowsOf(u, c)
          PROVE  /\ entries[u][i].amount = RewardKobo * Cardinality(claimed[c])
                 /\ \A d \in claimed[c] : reward[d] = "paid" /\ Referrer[Payee(d)] = u
      <3>1. pc[c] = "claimed" /\ u = claimer[c] /\ entries[u][i].amount = ClaimTotal(c)
        BY <2>1 DEF RowsStand, RowStands, RowsOf
      <3> QED
        BY <2>1, <3>1 DEF Claiming, ClaimTotal
    <2> QED
      BY <2>2, <2>3 DEF PaidRewardIsCredited
  <1> QED
    BY <1>1, PaymentsInvariant, PTL

\* The referral's status is written by fulfilments and by claims, and only
\* ever moves on: a grant starts from PENDING_QUALIFICATION because nobody else
\* has the wallet, a claim from QUALIFIED because a reward there is was granted.
THEOREM ReferralsAdvance == Spec => ReferralAdvances
  <1> DEFINE Moves(u) == \/ referral[u] = "PENDING_QUALIFICATION" /\ referral'[u] = "QUALIFIED"
                         \/ referral[u] = "QUALIFIED" /\ referral'[u] = "REWARDED"
  <1>1. ASSUME IInv, [Next]_vars, NEW u \in Users, referral'[u] # referral[u]
        PROVE  Moves(u)
    <2>i. TypeOK /\ Granting /\ Rewarded /\ Claiming
      BY <1>1 DEF IInv
    <2>1. ASSUME NEW d \in Deliveries, CommitFulfilment(d)
          PROVE  Moves(u)
      <3>1. u = Payee(d) /\ referralDraft[u] = d /\ referral'[u] = "QUALIFIED"
        BY <1>1, <2>i, <2>1 DEF CommitFulfilment, TypeOK
      <3> QED
        BY <2>i, <3>1, Kinds DEF Granting
    <2>2. ASSUME NEW c \in Claims, ClaimCommit(c)
          PROVE  Moves(u)
      <3>1. referral'[u] = "REWARDED" /\ \E d \in claimed[c] : Payee(d) = u
        BY <1>1, <2>2 DEF ClaimCommit
      <3>2. referral[u] # "PENDING_QUALIFICATION"
        BY <2>i, <3>1 DEF Claiming, Rewarded, TypeOK
      <3> QED
        BY <1>1, <2>i, <3>1, <3>2 DEF TypeOK, ReferralStatuses
    <2>3. CASE UNCHANGED referral
      BY <1>1, <2>3
    <2>4. ASSUME NEW f \in Fundings, InitializeFunding(f) \/ CreateFunding(f) \/ Pay(f)
          PROVE  UNCHANGED referral
      BY <2>4 DEF InitializeFunding, CreateFunding, Pay, referralVars
    <2>5. ASSUME NEW d \in Deliveries,
                 \/ HandlePaystackWebhook(d) \/ HandleFlutterwaveWebhook(d)
                 \/ HandleMockWebhook(d) \/ VerifyPayment(d)
          PROVE  UNCHANGED referral
      BY <2>5 DEF HandlePaystackWebhook, HandleFlutterwaveWebhook, HandleMockWebhook,
         VerifyPayment, referralVars
    <2>6. ASSUME NEW d \in Deliveries, Fulfil(d)
          PROVE  UNCHANGED referral \/ CommitFulfilment(d)
      BY <2>6 DEF Fulfil, AskGateway, FindFunding, MarkSuccess, CreditRead, CreditWrite,
         Qualify, Grant, referralVars
    <2>7. ASSUME NEW c \in Claims, ClaimRewards(c) \/ Claim(c)
          PROVE  UNCHANGED referral \/ ClaimCommit(c)
      BY <2>7 DEF Claim, ClaimRewards, ClaimRead, ClaimLocked, ClaimWrite, referralVars
    <2>8. ASSUME (\E p \in Procs : Fail(p)) \/ Crash \/ UNCHANGED vars
          PROVE  UNCHANGED referral
      BY <2>8 DEF Fail, Crash, vars, referralVars
    <2> QED
      BY <1>1, <2>1, <2>2, <2>3, <2>4, <2>5, <2>6, <2>7, <2>8 DEF Next, Terminated
  <1>2. IInv /\ [Next]_vars =>
          [\A u \in Users : referral'[u] # referral[u] => Moves(u)]_vars
    BY <1>1
  <1> QED
    BY <1>2, PaymentsInvariant, PTL DEF Spec, ReferralAdvances

-------------------------------------------------------------------------------
(* What is credited without a payment *)

LEMMA ReportFields ==
    ASSUME NEW reported, NEW x, NEW y, reported = [status |-> x, heard |-> y]
    PROVE  reported.status = x /\ reported.heard = y
  OBVIOUS

\* A gateway that is asked and answers says success of what has been paid.
LEMMA ReportedIsPaid ==
    ASSUME NEW f \in Fundings, NEW reported \in Reported(f), GatewayOf[f] \in Gateways,
           reported.status = "SUCCESS", reported.heard
    PROVE  f \in paid
  <1>1. ASSUME NEW x \in AnswersAbout(f), Told(x), StatusOf(x) = "SUCCESS"
        PROVE  f \in paid
    <2>1. x \in Answers /\ (x = "success" => f \in paid)
      BY DEF AnswersAbout
    <2>2. x \in {"success", "failed", "pending"}
      BY <1>1, <2>1 DEF Told, Answers
    <2>3. x # "failed" /\ x # "pending"
      BY <1>1 DEF StatusOf
    <2> QED
      BY <2>1, <2>2, <2>3
  <1>2. CASE GatewayOf[f] = "PAYSTACK"
    <2>1. PICK x \in AnswersAbout(f) :
            reported = [status |-> PaystackVerify(SecretKey, x), heard |-> PaystackHears(SecretKey, x)]
      BY <1>2 DEF Reported
    <2>2. PaystackVerify(SecretKey, x) = "SUCCESS" /\ PaystackHears(SecretKey, x)
      BY <2>1, ReportFields
    <2> QED
      BY <1>1, <2>2 DEF PaystackVerify, PaystackHears
  <1>3. CASE GatewayOf[f] = "FLUTTERWAVE"
    <2>1. PICK y \in Searches, x \in AnswersAbout(f) :
            reported = [status |-> FlutterwaveVerify(SecretKey, y, x),
                        heard |-> FlutterwaveHears(SecretKey, y, x)]
      BY <1>3 DEF Reported
    <2>2. FlutterwaveVerify(SecretKey, y, x) = "SUCCESS" /\ FlutterwaveHears(SecretKey, y, x)
      BY <2>1, ReportFields
    <2> QED
      BY <1>1, <2>2 DEF FlutterwaveVerify, FlutterwaveHears
  <1>4. CASE GatewayOf[f] = "MOCK"
    <2>1. PICK x \in {"FAIL", "other"} : reported = [status |-> MockVerify(x), heard |-> FALSE]
      BY <1>4 DEF Reported
    <2> QED
      BY <2>1, ReportFields
  <1> QED
    BY <1>2, <1>3, <1>4 DEF Gateways

\* A handler that goes on to fulfil knows that its funding has been paid, or
\* has no proof of it.
LEMMA ConfirmedStep ==
    ASSUME IInv, Confirmed, [Next]_vars
    PROVE  Confirmed'
  <1>i. TypeOK /\ Standing
    BY DEF IInv
  <1>l. \A d \in Deliveries : pc[d] \in Heard => about[d] \in Fundings
    BY <1>i DEF Standing, TypeOK
  <1>g. ASSUME paid \subseteq paid', unproven \subseteq unproven',
               \A d \in Deliveries : pc'[d] \in Heard \ {"ask"} =>
                 \/ about'[d] = about[d] /\ pc[d] \in Heard \ {"ask"}
                 \/ about'[d] \in paid' \/ d \in unproven',
               \A d \in Deliveries : pc[d] = "fulfilled" =>
                 pc'[d] = "fulfilled" /\ about'[d] = about[d],
               \A f \in Fundings : status'[f] = "SUCCESS" =>
                 \/ status[f] = "SUCCESS" \/ f \in paid
                 \/ \E d \in unproven : pc'[d] = "fulfilled" /\ about'[d] = f
        PROVE  Confirmed'
    <2>1. UnpaidIsUnproven /\ unproven \subseteq Deliveries
      BY <1>i DEF Confirmed, TypeOK
    <2>2. UnpaidIsUnproven'
      BY <1>g, <2>1 DEF UnpaidIsUnproven, At
    <2>3. \A d \in Deliveries : pc'[d] \in Heard \ {"ask"} =>
            about'[d] \in paid' \/ d \in unproven'
      BY <1>g DEF Confirmed
    <2> QED
      BY <2>2, <2>3 DEF Confirmed
  <1>1. ASSUME NEW f \in Fundings, InitializeFunding(f) \/ CreateFunding(f) \/ Pay(f)
        PROVE  Confirmed'
    <2>1. paid \subseteq paid' /\ UNCHANGED <<about, unproven>>
      BY <1>1 DEF InitializeFunding, CreateFunding, Pay
    <2>2. \A d \in Deliveries : pc'[d] = pc[d]
      BY <1>i, <1>1, Kinds DEF InitializeFunding, CreateFunding, Pay, Goto, TypeOK
    <2>3. \A g \in Fundings : status'[g] = "SUCCESS" => status[g] = "SUCCESS"
      BY <1>i, <1>1 DEF InitializeFunding, CreateFunding, Pay, TypeOK
    <2> QED
      BY <1>g, <2>1, <2>2, <2>3
  <1>2. ASSUME NEW d \in Deliveries,
               HandlePaystackWebhook(d) \/ HandleFlutterwaveWebhook(d) \/ HandleMockWebhook(d)
        PROVE  Confirmed'
    <2>1. pc[d] = "idle" /\ Heeds(d) /\ UNCHANGED <<status, paid>>
      BY <1>2, WebhooksHeed, PaymentsAssumption
    <2>2. unproven \subseteq unproven'
      BY <2>1 DEF Heeds
    <2>3. \A e \in Deliveries : e # d => pc'[e] = pc[e] /\ about'[e] = about[e]
      BY <1>i, <2>1, Kinds DEF Heeds, TypeOK
    <2>4. pc'[d] \in Heard => about'[d] \in paid \/ d \in unproven'
      BY <1>i, <2>1, Kinds DEF Heeds, Heard, FulfilTx, TypeOK
    <2> QED
      BY <1>g, <2>1, <2>2, <2>3, <2>4
  <1>3. ASSUME NEW d \in Deliveries, VerifyPayment(d)
        PROVE  Confirmed'
    <2>1. UNCHANGED <<paid, status, unproven>> /\ pc[d] = "idle"
      BY <1>3 DEF VerifyPayment, At
    <2>2. \A e \in Deliveries : e # d => pc'[e] = pc[e] /\ about'[e] = about[e]
      BY <1>i, <1>3, Kinds DEF VerifyPayment, Goto, TypeOK
    <2>3. pc'[d] \in {"ignored", "ask"}
      BY <1>i, <1>3, Kinds DEF VerifyPayment, Goto, TypeOK
    <2> QED
      BY <1>g, <2>1, <2>2, <2>3 DEF Heard, FulfilTx
  <1>4. ASSUME NEW d \in Deliveries, Fulfil(d)
        PROVE  Confirmed'
    <2>1. UNCHANGED <<paid, about>>
      BY <1>4 DEF Fulfil, AskGateway, FindFunding, MarkSuccess, CreditRead, CreditWrite,
         Qualify, Grant, CommitFulfilment, fundVars
    <2>2. PICK l : pc' = [pc EXCEPT ![d] = l]
      BY <1>4 DEF Fulfil, AskGateway, FindFunding, MarkSuccess, CreditRead, CreditWrite,
         Qualify, Grant, CommitFulfilment, Goto
    <2>3. \A e \in Deliveries : e # d => pc'[e] = pc[e]
      BY <1>i, <2>2 DEF TypeOK
    <2>4. CASE AskGateway(d)
      <3>1. pc[d] = "ask" /\ UNCHANGED status
        BY <2>4 DEF AskGateway, At
      <3>2. about[d] \in Fundings
        BY <1>l, <3>1 DEF Heard
      <3>3. PICK reported \in Reported(about[d]) :
              /\ Goto(d, IF reported.status = "SUCCESS" THEN "find" ELSE "unconfirmed")
              /\ unproven' = IF reported.heard THEN unproven ELSE unproven \cup {d}
        BY <2>4 DEF AskGateway
      <3>4. unproven \subseteq unproven' /\ (~ reported.heard => d \in unproven')
        BY <3>3
      <3>5. pc'[d] = (IF reported.status = "SUCCESS" THEN "find" ELSE "unconfirmed")
        BY <1>i, <3>3, Kinds DEF Goto, TypeOK
      <3>6. GatewayOf[about[d]] \in Gateways
        BY <3>2, PaymentsAssumption
      <3>7. pc'[d] \in Heard => about[d] \in paid \/ d \in unproven'
        BY <3>2, <3>4, <3>5, <3>6, ReportedIsPaid DEF Heard, FulfilTx
      <3> QED
        BY <1>g, <2>1, <2>3, <3>1, <3>4, <3>7
    <2>5. CASE CommitFulfilment(d)
      <3>1. pc[d] \in Heard \ {"ask"} /\ UNCHANGED unproven
        BY <2>5 DEF CommitFulfilment, At, Heard, FulfilTx
      <3>2. about[d] \in Fundings /\ (about[d] \in paid \/ d \in unproven)
        BY <1>l, <3>1 DEF Confirmed
      <3>3. pc'[d] = "fulfilled" /\ pc[d] = "commit"
        BY <1>i, <2>5, Kinds DEF CommitFulfilment, Goto, At, TypeOK
      <3>4. \A f \in Fundings : status'[f] = "SUCCESS" => status[f] = "SUCCESS" \/ f = about[d]
        BY <1>i, <2>5, <3>2 DEF CommitFulfilment, TypeOK
      <3> QED
        BY <1>g, <2>1, <2>3, <3>1, <3>2, <3>3, <3>4 DEF Heard, FulfilTx
    <2>6. CASE ~ AskGateway(d) /\ ~ CommitFulfilment(d)
      <3>1. pc[d] \in Heard \ {"ask", "fulfilled"} /\ UNCHANGED <<status, unproven>>
        BY <1>4, <2>6 DEF Fulfil, FindFunding, MarkSuccess, CreditRead, CreditWrite,
           Qualify, Grant, At, Heard, FulfilTx, fundVars
      <3> QED
        BY <1>g, <2>1, <2>3, <3>1 DEF Heard, FulfilTx
    <2> QED
      BY <2>4, <2>5, <2>6
  <1>5. ASSUME NEW c \in Claims, ClaimRewards(c) \/ Claim(c)
        PROVE  Confirmed'
    <2>1. UNCHANGED <<paid, about, status, unproven>>
      BY <1>5 DEF Claim, ClaimRewards, ClaimRead, ClaimLocked, ClaimWrite, ClaimCommit, fundVars
    <2>2. \A d \in Deliveries : pc'[d] = pc[d]
      BY <1>i, <1>5, Kinds DEF Claim, ClaimRewards, ClaimRead, ClaimLocked, ClaimWrite,
         ClaimCommit, Goto, TypeOK
    <2> QED
      BY <1>g, <2>1, <2>2
  <1>6. CASE (\E p \in Procs : Fail(p)) \/ Crash
    <2>1. UNCHANGED <<paid, about, status, unproven>>
      BY <1>6 DEF Fail, Crash
    <2>2. \A d \in Deliveries :
            pc'[d] = pc[d] \/ (pc[d] \in Running /\ pc'[d] \in {"failed", "lost"})
      BY <1>i, <1>6, Kinds DEF Fail, Crash, Goto, TypeOK
    <2> QED
      BY <1>g, <2>1, <2>2 DEF Heard, FulfilTx, ClaimTx, Running
  <1>7. CASE UNCHANGED vars
    BY <1>7, <1>g DEF vars, fundVars
  <1> QED
    BY <1>1, <1>2, <1>3, <1>4, <1>5, <1>6, <1>7 DEF Next, Terminated

\* Whatever deliveries there are, and in whatever order: what is credited
\* without a payment was fulfilled by a handler no gateway had told of it.
THEOREM UnpaidAreUnproven == Spec => []UnpaidIsUnproven
  <1>1. Init => Confirmed
    BY Kinds DEF Init, Confirmed, UnpaidIsUnproven, Heard, FulfilTx
  <1>2. IInv /\ Confirmed /\ [Next]_vars => Confirmed'
    BY ConfirmedStep
  <1>3. Confirmed => UnpaidIsUnproven
    BY DEF Confirmed
  <1> QED
    BY <1>1, <1>2, <1>3, PaymentsInvariant, PTL DEF Spec

-------------------------------------------------------------------------------
(* Nobody waits for ever *)

\* Whose lock a handler is blocked on, where it updates a row.
WaitsFor(p, q) ==
    \/ At(p, "mark") /\ statusDraft[about[p]] = q
    \/ At(p, "creditWrite") /\ Owned(q, Payee(p))
    \/ At(p, "claimWrite") /\ Owned(q, claimer[p])
    \/ At(p, "grant") /\ referralDraft[Payee(p)] = q

Waiting(p) == \E q \in Procs : WaitsFor(p, q)

\* How many kinds of rows a handler has got past: its funding's, its wallet's.
Depth(p) == IF At(p, "mark") THEN 1 ELSE IF Writing(p) THEN 3 ELSE 2

\* Who is waited for has an open transaction and is further on.
WaitsAreOrdered ==
    \A p, q \in Procs : WaitsFor(p, q) =>
        pc[q] \in FulfilTx \cup ClaimTx /\ Depth(p) < Depth(q)

\* While any handler runs, one of them runs on.
SomeoneGoesOn ==
    (\E p \in Procs : pc[p] \in Running) =>
        \E p \in Procs : pc[p] \in Running /\ ~ Waiting(p)

\* A handler that waits stays where it is, unless it fails.
WaitersStay ==
    [][\A p \in Procs : Waiting(p) => pc'[p] \in {pc[p], "failed", "lost"}]_vars

\* Only a delivery marks and grants, a delivery or a claim writes a wallet.
LEMMA PlacesOfHandlers ==
    ASSUME TypeOK, Standing, NEW p \in Procs
    PROVE  /\ pc[p] \in {"mark"} \cup FulfilTx => p \in Deliveries
           /\ pc[p] \in ClaimTx => p \in Claims
  <1>1. p \in Fundings => pc[p] \notin {"mark"} \cup FulfilTx \cup ClaimTx
    BY DEF Standing, FulfilTx, ClaimTx
  <1>2. p \in Deliveries => pc[p] \notin ClaimTx
    BY DEF Standing, Heard, FulfilTx, ClaimTx
  <1>3. p \in Claims => pc[p] \notin {"mark"} \cup FulfilTx
    BY DEF Standing, FulfilTx, ClaimTx
  <1> QED
    BY <1>1, <1>2, <1>3, Kinds

\* Who has a wallet's row has written it and not committed.
LEMMA OwnersWrite ==
    ASSUME WalletsHeld, NEW q \in Procs, NEW u \in Users, Owned(q, u)
    PROVE  Writing(q) /\ u = Wallet(q)
  BY DEF WalletsHeld, Owned

\* A granting handler finds the referral free: who had drafted it would have
\* the same wallet.
LEMMA GrantIsFree ==
    ASSUME IInv, NEW p \in Procs, At(p, "grant")
    PROVE  referralDraft[Payee(p)] = Nobody
  <1>i. TypeOK /\ Standing /\ WalletsHeld /\ Granting
    BY DEF IInv
  <1>1. p \in Deliveries
    BY <1>i, PlacesOfHandlers DEF At, FulfilTx
  <1>2. about[p] # Nobody
    BY <1>i, <1>1 DEF Standing, Heard, FulfilTx, At
  <1>3. Payee(p) \in Users
    BY <1>i, <1>1, <1>2, PayeeType
  <1> DEFINE q == referralDraft[Payee(p)]
  <1> SUFFICES ASSUME q # Nobody PROVE FALSE
    OBVIOUS
  <1>4. q \in Deliveries /\ pc[q] = "commit" /\ Payee(q) = Payee(p)
    BY <1>i, <1>3 DEF Granting, TypeOK
  <1>5. Owned(p, Payee(p))
    BY <1>i, <1>1, Kinds DEF WalletsHeld, Writing, Crediting, Wallet, At
  <1>6. Owned(q, Payee(p))
    BY <1>i, <1>4, Kinds DEF WalletsHeld, Writing, Crediting, Wallet
  <1>7. p = q
    BY <1>5, <1>6 DEF Owned
  <1> QED
    BY <1>4, <1>7 DEF At

\* The rows are taken in one order: the funding's, the wallet's, the referral's.
LEMMA WaitsGoUp ==
    ASSUME IInv
    PROVE  WaitsAreOrdered
  <1>i. TypeOK /\ Standing /\ Marked /\ WalletsHeld
    BY DEF IInv
  <1> SUFFICES ASSUME NEW p \in Procs, NEW q \in Procs, WaitsFor(p, q)
               PROVE  pc[q] \in FulfilTx \cup ClaimTx /\ Depth(p) < Depth(q)
    BY DEF WaitsAreOrdered
  <1>1. CASE At(p, "mark") /\ statusDraft[about[p]] = q
    <2>1. p \in Deliveries
      BY <1>i, <1>1, PlacesOfHandlers DEF At
    <2>2. about[p] \in Fundings
      BY <1>i, <1>1, <2>1 DEF Standing, Heard, TypeOK, At
    <2>3. q # Nobody
      BY PaymentsAssumption
    <2>4. pc[q] \in FulfilTx
      BY <1>i, <1>1, <2>2, <2>3 DEF Marked
    <2>5. pc[q] # "mark"
      BY <2>4 DEF FulfilTx
    <2> QED
      BY <1>1, <2>4, <2>5 DEF Depth, At
  <1>2. ASSUME pc[p] \in {"creditWrite", "claimWrite"}, NEW u \in Users, Owned(q, u)
        PROVE  pc[q] \in FulfilTx \cup ClaimTx /\ Depth(p) < Depth(q)
    <2>1. Writing(q)
      BY <1>i, <1>2, OwnersWrite
    <2>2. pc[q] # "mark" /\ pc[p] # "mark" /\ ~ Writing(p)
      BY <1>2, <2>1 DEF Writing, Crediting
    <2> QED
      BY <2>1, <2>2 DEF Depth, At, Writing, Crediting, FulfilTx, ClaimTx
  <1>3. CASE At(p, "creditWrite") /\ Owned(q, Payee(p))
    <2>1. p \in Deliveries
      BY <1>i, <1>3, PlacesOfHandlers DEF At, FulfilTx
    <2>2. about[p] # Nobody
      BY <1>i, <1>3, <2>1 DEF Standing, Heard, FulfilTx, At
    <2>3. Payee(p) \in Users
      BY <1>i, <2>1, <2>2, PayeeType
    <2> QED
      BY <1>2, <1>3, <2>3 DEF At
  <1>4. CASE At(p, "claimWrite") /\ Owned(q, claimer[p])
    <2>1. p \in Claims
      BY <1>i, <1>4, PlacesOfHandlers DEF At, ClaimTx
    <2>2. claimer[p] \in Users
      BY <1>i, <1>4, <2>1 DEF Standing, ClaimTx, At
    <2> QED
      BY <1>2, <1>4, <2>2 DEF At
  <1>5. CASE At(p, "grant") /\ referralDraft[Payee(p)] = q
    BY <1>5, GrantIsFree, PaymentsAssumption
  <1> QED
    BY <1>1, <1>3, <1>4, <1>5 DEF WaitsFor

\* Handlers never wait in a circle, although fulfilments and claims write the
\* same wallets: who is waited for is always further on in one order of rows.
THEOREM WaitsFormNoCircle == Spec => []WaitsAreOrdered
  BY WaitsGoUp, PaymentsInvariant, PTL

\* While any fulfilment or claim runs, one of them is not waiting: no fault,
\* timeout or deadlock detector is needed to get the others going again.
THEOREM NoDeadlock == Spec => []SomeoneGoesOn
  <1>1. ASSUME IInv
        PROVE  SomeoneGoesOn
    <2>w. WaitsAreOrdered
      BY <1>1, WaitsGoUp
    <2> SUFFICES ASSUME NEW p \in Procs, pc[p] \in Running,
                        \A q \in Procs : pc[q] \in Running => Waiting(q)
                 PROVE  FALSE
      BY DEF SomeoneGoesOn
    <2>d. \A q \in Procs : Depth(q) \in 1..3
      BY DEF Depth
    <2>r. \A q \in Procs : pc[q] \in FulfilTx \cup ClaimTx => pc[q] \in Running
      BY DEF Running
    <2>1. PICK q \in Procs : WaitsFor(p, q)
      BY DEF Waiting
    <2>2. pc[q] \in Running /\ Depth(p) < Depth(q)
      BY <2>w, <2>r, <2>1 DEF WaitsAreOrdered
    <2>3. PICK r \in Procs : WaitsFor(q, r)
      BY <2>2 DEF Waiting
    <2>4. pc[r] \in Running /\ Depth(q) < Depth(r)
      BY <2>w, <2>r, <2>3 DEF WaitsAreOrdered
    <2>5. PICK s \in Procs : WaitsFor(r, s)
      BY <2>4 DEF Waiting
    <2>6. Depth(r) < Depth(s)
      BY <2>w, <2>5 DEF WaitsAreOrdered
    <2> QED
      BY <2>d, <2>2, <2>4, <2>6
  <1> QED
    BY <1>1, PaymentsInvariant, PTL

\* Who waits takes no step of its own.
LEMMA WaitersAreBlocked ==
    ASSUME IInv, NEW p \in Procs, Waiting(p)
    PROVE  ~ Fulfil(p) /\ ~ Claim(p)
  <1>i. TypeOK /\ Standing
    BY DEF IInv
  <1>1. PICK q \in Procs : WaitsFor(p, q)
    BY DEF Waiting
  <1>2. q # Nobody
    BY PaymentsAssumption
  <1>3. CASE At(p, "mark") /\ statusDraft[about[p]] = q
    <2>1. ~ MarkSuccess(p)
      BY <1>2, <1>3 DEF MarkSuccess
    <2> QED
      BY <1>3, <2>1
      DEF Fulfil, Claim, AskGateway, FindFunding, CreditRead, CreditWrite, Qualify,
         Grant, CommitFulfilment, ClaimRead, ClaimLocked, ClaimWrite, ClaimCommit, At
  <1>4. CASE At(p, "creditWrite") /\ Owned(q, Payee(p))
    <2>1. ~ CreditWrite(p)
      BY <1>4 DEF CreditWrite, CreditWallet, WriteWallet, Owned
    <2> QED
      BY <1>4, <2>1
      DEF Fulfil, Claim, AskGateway, FindFunding, MarkSuccess, CreditRead, Qualify,
         Grant, CommitFulfilment, ClaimRead, ClaimLocked, ClaimWrite, ClaimCommit, At
  <1>5. CASE At(p, "claimWrite") /\ Owned(q, claimer[p])
    <2>1. ~ ClaimWrite(p)
      BY <1>5 DEF ClaimWrite, CreditWallet, WriteWallet, Owned
    <2> QED
      BY <1>5, <2>1
      DEF Fulfil, Claim, AskGateway, FindFunding, MarkSuccess, CreditRead, CreditWrite,
         Qualify, Grant, CommitFulfilment, ClaimRead, ClaimLocked, ClaimCommit, At
  <1>6. CASE At(p, "grant") /\ referralDraft[Payee(p)] = q
    BY <1>2, <1>6, GrantIsFree
  <1> QED
    BY <1>1, <1>3, <1>4, <1>5, <1>6 DEF WaitsFor

\* What WaitsFor says is what blocks: a waiting handler goes nowhere but out.
THEOREM WaitingIsBlocking == Spec => WaitersStay
  <1> DEFINE Stays(p) == pc'[p] \in {pc[p], "failed", "lost"}
  <1>1. ASSUME IInv, [Next]_vars, NEW p \in Procs, Waiting(p)
        PROVE  Stays(p)
    <2>i. TypeOK /\ Standing
      BY <1>1 DEF IInv
    <2>1. PICK q \in Procs : WaitsFor(p, q)
      BY <1>1 DEF Waiting
    <2>2. pc[p] \in {"mark", "creditWrite", "claimWrite", "grant"}
      BY <2>1 DEF WaitsFor, At
    <2>3. ASSUME NEW q2 \in Procs, NEW l, pc' = [pc EXCEPT ![q2] = l],
                 q2 = p => l \in {pc[p], "failed", "lost"}
          PROVE  Stays(p)
      BY <2>i, <2>3 DEF TypeOK
    <2>4. CASE UNCHANGED pc
      BY <2>4
    <2>5. ASSUME NEW f \in Fundings, InitializeFunding(f) \/ CreateFunding(f)
          PROVE  Stays(p)
      <3>1. f # p
        BY <2>2, <2>5 DEF InitializeFunding, CreateFunding, At
      <3>2. f \in Procs
        BY Kinds
      <3>3. PICK l : pc' = [pc EXCEPT ![f] = l]
        BY <2>5 DEF InitializeFunding, CreateFunding, Goto
      <3> QED
        BY <2>3, <3>1, <3>2, <3>3
    <2>6. ASSUME NEW d \in Deliveries,
                 \/ HandlePaystackWebhook(d) \/ HandleFlutterwaveWebhook(d)
                 \/ HandleMockWebhook(d) \/ VerifyPayment(d)
          PROVE  Stays(p)
      <3>1. pc[d] = "idle"
        BY <2>6 DEF HandlePaystackWebhook, HandleFlutterwaveWebhook, HandleMockWebhook,
           VerifyPayment, At
      <3>2. \E l : pc' = [pc EXCEPT ![d] = l]
        <4>1. CASE HandleMockWebhook(d) \/ VerifyPayment(d)
          BY <4>1 DEF HandleMockWebhook, VerifyPayment, Goto
        <4>2. CASE HandlePaystackWebhook(d) \/ HandleFlutterwaveWebhook(d)
          BY <4>2, WebhooksHeed, PaymentsAssumption DEF Heeds
        <4> QED
          BY <2>6, <4>1, <4>2
      <3> QED
        BY <2>2, <2>3, <3>1, <3>2, Kinds
    <2>7. ASSUME NEW d \in Deliveries, Fulfil(d)
          PROVE  Stays(p)
      <3>1. d # p
        BY <1>1, <2>7, WaitersAreBlocked
      <3>2. PICK l : pc' = [pc EXCEPT ![d] = l]
        BY <2>7 DEF Fulfil, AskGateway, FindFunding, MarkSuccess, CreditRead, CreditWrite,
           Qualify, Grant, CommitFulfilment, Goto
      <3> QED
        BY <2>3, <3>1, <3>2, Kinds
    <2>8. ASSUME NEW c \in Claims, ClaimRewards(c) \/ Claim(c)
          PROVE  Stays(p)
      <3>1. c # p
        BY <1>1, <2>2, <2>8, WaitersAreBlocked DEF ClaimRewards, At
      <3>2. \E l : pc' = [pc EXCEPT ![c] = l]
        BY <2>8 DEF Claim, ClaimRewards, ClaimRead, ClaimLocked, ClaimWrite, ClaimCommit, Goto
      <3> QED
        BY <2>3, <3>1, <3>2, Kinds
    <2>9. ASSUME NEW q2 \in Procs, Fail(q2)
          PROVE  Stays(p)
      <3>1. pc' = [pc EXCEPT ![q2] = "failed"]
        BY <2>9 DEF Fail, Goto
      <3> QED
        BY <2>3, <3>1
    <2>10. CASE Crash
      BY <2>10 DEF Crash
    <2>11. ASSUME NEW f \in Fundings, Pay(f)
           PROVE  Stays(p)
      BY <2>11 DEF Pay
    <2> QED
      BY <1>1, <2>4, <2>5, <2>6, <2>7, <2>8, <2>9, <2>10, <2>11 DEF Next, Terminated, vars
  <1>2. IInv /\ [Next]_vars =>
          [\A p \in Procs : Waiting(p) => pc'[p] \in {pc[p], "failed", "lost"}]_vars
    BY <1>1
  <1> QED
    BY <1>2, PaymentsInvariant, PTL DEF Spec, WaitersStay

-------------------------------------------------------------------------------
(* Once, where handlers of one funding or one user do not overlap *)

\* A delivery between its check of the status and its commit.
Fulfilling(d) == pc[d] \in {"mark"} \cup FulfilTx

OneFulfilmentAtATime ==
    \A d, e \in Deliveries : Fulfilling(d) /\ Fulfilling(e) /\ about[d] = about[e] => d = e

OneClaimAtATime ==
    \A c, e \in Claims :
        pc[c] \in ClaimTx /\ pc[e] \in ClaimTx /\ claimer[c] = claimer[e] => c = e

\* What is being fulfilled is not SUCCESS yet, and what is has one credit.
FulfilsOnce ==
    /\ \A d \in Deliveries : Fulfilling(d) => status[about[d]] # "SUCCESS"
    /\ \A f \in Fundings : status[f] # "absent" =>
         \A i, j \in Credits(f) : i = j

\* What is being paid out is unpaid.
ClaimsOnce ==
    /\ \A c \in Claims : pc[c] \in ClaimTx =>
         \A d \in claimed[c] : reward[d] = "unpaid"
    /\ ClaimedOnce

\* The rows that refer to something, after a commit.
LEMMA CommittedRowsOf ==
    ASSUME IInv, NEW p \in Procs, pc[p] \in {"commit", "claimCommit"}, CommitWallets(p),
           NEW u \in Users, NEW r
    PROVE  /\ RowsOf(u, r) \subseteq DOMAIN entries[u]
           /\ RowsOf(u, r)' = RowsOf(u, r) \cup
                (IF u = Wallet(p) /\ r = Row(p) THEN {Len(entries[u]) + 1} ELSE {})
           /\ \A i \in DOMAIN entries[u] : entries'[u][i] = entries[u][i]
           /\ Len(entries[u]) + 1 \notin DOMAIN entries[u]
           /\ u = Wallet(p) => entries'[u][Len(entries[u]) + 1].amount = Due(p)
  <1>0. PICK w, e, n : w = Wallet(p) /\ e = dirty[w].entry /\ n = Len(entries[w])
    OBVIOUS
  <1>p. /\ w \in Users /\ e.ref = Row(p) /\ e.amount = Due(p)
        /\ n \in Nat /\ DOMAIN entries[w] = 1..n /\ DOMAIN entries'[w] = 1..(n + 1)
        /\ entries'[w][n + 1] = e
        /\ \A i \in 1..n : entries'[w][i] = entries[w][i]
        /\ \A v \in Users : v # w => entries'[v] = entries[v]
    BY <1>0, Published
  <1>1. RowsOf(u, r) \subseteq DOMAIN entries[u]
    BY DEF RowsOf
  <1>2. Len(entries[u]) + 1 \notin DOMAIN entries[u]
    <2>1. entries[u] \in Seq(Entry)
      BY DEF IInv, TypeOK, WalletTypeOK
    <2> QED
      BY <2>1
  <1>3. CASE u # w
    BY <1>0, <1>p, <1>1, <1>2, <1>3 DEF RowsOf
  <1>4. CASE u = w
    <2>0. \A i \in 1..(n + 1) : i \in 1..n \/ i = n + 1
      BY <1>p
    <2>a. DOMAIN entries[u] = 1..n /\ DOMAIN entries'[u] = 1..(n + 1) /\ n + 1 \in 1..(n + 1)
      BY <1>p, <1>4
    <2>b. 1..n \subseteq 1..(n + 1)
      BY <1>p
    <2>c. entries'[u][n + 1].ref = Row(p) /\ \A i \in 1..n : entries'[u][i] = entries[u][i]
      BY <1>p, <1>4
    <2>d. n + 1 \notin 1..n
      BY <1>p
    <2>1. \A i : i \in RowsOf(u, r)' <=> i \in RowsOf(u, r) \/ (r = Row(p) /\ i = n + 1)
      BY <2>0, <2>a, <2>b, <2>c, <2>d DEF RowsOf
    <2>2. RowsOf(u, r)' = RowsOf(u, r) \cup (IF r = Row(p) THEN {n + 1} ELSE {})
      BY <2>1
    <2> QED
      BY <1>0, <1>p, <1>1, <1>2, <1>4, <2>2
  <1> QED
    BY <1>3, <1>4

\* A step that writes no row of a funding, a wallet or a reward.
Quiet ==
    /\ UNCHANGED <<entries, status, referral, reward>>
    /\ \A f \in Fundings : status[f] # "absent" => funding'[f] = funding[f]

\* Three actions write such rows.
LEMMA StepKinds ==
    ASSUME IInv, [Next]_vars
    PROVE  \/ \E f \in Fundings : CreateFunding(f)
           \/ \E d \in Deliveries : CommitFulfilment(d)
           \/ \E c \in Claims : ClaimCommit(c)
           \/ Quiet
  <1>i. TypeOK /\ Standing
    BY DEF IInv
  <1>1. ASSUME NEW f \in Fundings, InitializeFunding(f)
        PROVE  Quiet
    <2>1. status[f] = "absent"
      BY <1>i, <1>1 DEF InitializeFunding, At, Standing
    <2> QED
      BY <1>i, <1>1, <2>1 DEF InitializeFunding, Quiet, TypeOK, walletVars, referralVars
  <1>2. ASSUME NEW f \in Fundings, Pay(f)
        PROVE  Quiet
    BY <1>2 DEF Pay, Quiet, walletVars, referralVars
  <1>3. ASSUME NEW d \in Deliveries,
               \/ HandlePaystackWebhook(d) \/ HandleFlutterwaveWebhook(d)
               \/ HandleMockWebhook(d) \/ VerifyPayment(d)
        PROVE  Quiet
    BY <1>3 DEF HandlePaystackWebhook, HandleFlutterwaveWebhook, HandleMockWebhook,
       VerifyPayment, Quiet, walletVars, referralVars
  <1>4. ASSUME NEW d \in Deliveries, Fulfil(d), ~ CommitFulfilment(d)
        PROVE  Quiet
    <2>1. UNCHANGED entries
      BY <1>4
      DEF Fulfil, AskGateway, FindFunding, MarkSuccess, CreditRead, CreditWrite, Qualify,
         Grant, ReadWallet, CreditWallet, WriteWallet, walletVars
    <2> QED
      BY <1>4, <2>1 DEF Fulfil, AskGateway, FindFunding, MarkSuccess, CreditRead, CreditWrite,
         Qualify, Grant, Quiet, fundVars, referralVars
  <1>5. ASSUME NEW c \in Claims, ClaimRewards(c) \/ Claim(c), ~ ClaimCommit(c)
        PROVE  Quiet
    <2>1. UNCHANGED entries
      BY <1>5 DEF ClaimRewards, Claim, ClaimRead, ClaimLocked, ClaimWrite, ReadWallet,
         CreditWallet, WriteWallet, walletVars
    <2> QED
      BY <1>5, <2>1 DEF ClaimRewards, Claim, ClaimRead, ClaimLocked, ClaimWrite, Quiet,
         fundVars, referralVars
  <1>6. ASSUME (\E p \in Procs : Fail(p)) \/ Crash
        PROVE  Quiet
    BY <1>6 DEF Fail, Crash, Discard, RollbackWallets, Quiet
  <1>7. CASE UNCHANGED vars
    BY <1>7 DEF vars, fundVars, walletVars, referralVars, Quiet
  <1> QED
    BY <1>1, <1>2, <1>3, <1>4, <1>5, <1>6, <1>7 DEF Next, Terminated

\* A fulfilment begins with a funding that is not SUCCESS, and goes on with it.
LEMMA FulfillingBegins ==
    ASSUME IInv, [Next]_vars, NEW d \in Deliveries, Fulfilling(d)'
    PROVE  /\ about'[d] = about[d]
           /\ Fulfilling(d) \/ status[about[d]] # "SUCCESS"
  <1>i. TypeOK /\ Standing
    BY DEF IInv
  <1>l. pc'[d] \in {"mark"} \cup FulfilTx
    BY DEF Fulfilling
  <1>o. ASSUME NEW q \in Procs, NEW l, pc' = [pc EXCEPT ![q] = l], l \notin {"mark"} \cup FulfilTx
        PROVE  d # q /\ pc'[d] = pc[d]
    BY <1>i, <1>l, <1>o, Kinds DEF TypeOK
  <1>1. ASSUME NEW f \in Fundings, InitializeFunding(f) \/ CreateFunding(f) \/ Pay(f)
        PROVE  pc'[d] = pc[d] /\ about'[d] = about[d]
    BY <1>i, <1>1, Kinds DEF InitializeFunding, CreateFunding, Pay, Goto, TypeOK
  <1>2. ASSUME NEW e \in Deliveries,
               \/ HandlePaystackWebhook(e) \/ HandleFlutterwaveWebhook(e)
               \/ HandleMockWebhook(e) \/ VerifyPayment(e)
        PROVE  pc'[d] = pc[d] /\ about'[d] = about[d]
    <2>1. PICK l \in {"refused", "ignored", "find", "ask"} : pc' = [pc EXCEPT ![e] = l]
      <3>1. CASE VerifyPayment(e)
        BY <3>1 DEF VerifyPayment, Goto
      <3>2. CASE HandlePaystackWebhook(e) \/ HandleFlutterwaveWebhook(e) \/ HandleMockWebhook(e)
        BY <3>2, WebhooksHeed, PaymentsAssumption DEF Heeds
      <3> QED
        BY <1>2, <3>1, <3>2
    <2>2. d # e /\ pc'[d] = pc[d]
      BY <1>o, <2>1, Kinds DEF FulfilTx
    <2>3. about'[d] = about[d]
      <3>1. CASE VerifyPayment(e)
        BY <1>i, <2>2, <3>1 DEF VerifyPayment, TypeOK
      <3>2. CASE HandlePaystackWebhook(e) \/ HandleFlutterwaveWebhook(e) \/ HandleMockWebhook(e)
        BY <1>i, <2>2, <3>2, WebhooksHeed, PaymentsAssumption DEF Heeds, TypeOK
      <3> QED
        BY <1>2, <3>1, <3>2
    <2> QED
      BY <2>2, <2>3
  <1>3. ASSUME NEW e \in Deliveries, Fulfil(e)
        PROVE  /\ about'[d] = about[d]
               /\ pc'[d] = pc[d] \/ pc[d] \in {"mark"} \cup FulfilTx \/ status[about[d]] # "SUCCESS"
    <2>1. UNCHANGED about
      BY <1>3 DEF Fulfil, AskGateway, FindFunding, MarkSuccess, CreditRead, CreditWrite,
         Qualify, Grant, CommitFulfilment, fundVars
    <2>2. PICK l : pc' = [pc EXCEPT ![e] = l]
      BY <1>3 DEF Fulfil, AskGateway, FindFunding, MarkSuccess, CreditRead, CreditWrite,
         Qualify, Grant, CommitFulfilment, Goto
    <2>3. d # e => pc'[d] = pc[d]
      BY <1>i, <2>2 DEF TypeOK
    <2>4. CASE d = e /\ FindFunding(d)
      BY <1>i, <1>l, <2>1, <2>4, Kinds DEF FindFunding, Goto, TypeOK, FulfilTx
    <2>5. CASE d = e /\ AskGateway(d)
      BY <1>i, <1>l, <2>5, Kinds DEF AskGateway, Goto, TypeOK, FulfilTx
    <2>6. CASE d = e /\ ~ FindFunding(d) /\ ~ AskGateway(d)
      BY <1>3, <2>1, <2>6 DEF Fulfil, MarkSuccess, CreditRead, CreditWrite,
         Qualify, Grant, CommitFulfilment, At, FulfilTx
    <2> QED
      BY <2>1, <2>3, <2>4, <2>5, <2>6
  <1>4. ASSUME NEW c \in Claims, ClaimRewards(c) \/ Claim(c)
        PROVE  pc'[d] = pc[d] /\ about'[d] = about[d]
    BY <1>i, <1>4, Kinds DEF Claim, ClaimRewards, ClaimRead, ClaimLocked, ClaimWrite,
       ClaimCommit, Goto, TypeOK, fundVars
  <1>5. CASE (\E p \in Procs : Fail(p)) \/ Crash
    <2>1. UNCHANGED about /\ (pc'[d] = pc[d] \/ pc'[d] \in {"failed", "lost"})
      BY <1>i, <1>5, Kinds DEF Fail, Crash, Goto, TypeOK
    <2> QED
      BY <1>l, <2>1 DEF Fulfilling, FulfilTx
  <1>6. CASE UNCHANGED vars
    BY <1>6 DEF vars, fundVars, Fulfilling
  <1> QED
    BY <1>l, <1>1, <1>2, <1>3, <1>4, <1>5, <1>6 DEF Next, Terminated, Fulfilling

\* Nobody else fulfils what a commit makes SUCCESS, and it had no credit.
LEMMA FulfilsOnceStep ==
    ASSUME IInv, OneFulfilmentAtATime, FulfilsOnce, [Next]_vars
    PROVE  FulfilsOnce'
  <1>i. TypeOK /\ Standing /\ RowsStand
    BY DEF IInv
  <1>u. \A f \in Fundings : status[f] # "absent" => funding[f].user \in Users
    BY <1>i DEF Standing, Funding
  <1>a. \A d \in Deliveries : Fulfilling(d) => about[d] \in Fundings /\ status[about[d]] # "absent"
    BY <1>i DEF Standing, Heard, Fulfilling, TypeOK
  <1>b. \A d \in Deliveries : Fulfilling(d)' => about'[d] \in Fundings /\ about'[d] = about[d]
    <2>1. IInv'
      BY PaymentsStep
    <2>2. \A d \in Deliveries : Fulfilling(d)' => about'[d] \in Fundings
      BY <2>1 DEF IInv, Standing, Heard, Fulfilling, TypeOK
    <2> QED
      BY <2>2, FulfillingBegins
  <1>1. ASSUME \A f \in Fundings : status'[f] = "SUCCESS" => status[f] = "SUCCESS"
        PROVE  \A d \in Deliveries : Fulfilling(d)' => status'[about'[d]] # "SUCCESS"
    BY <1>1, <1>b, FulfillingBegins DEF FulfilsOnce
  <1>2. ASSUME NEW f \in Fundings, CreateFunding(f)
        PROVE  FulfilsOnce'
    <2>1. UNCHANGED <<entries, funding>> /\ pc[f] = "create"
      BY <1>2 DEF CreateFunding, At, walletVars
    <2>2. status[f] = "absent" /\ \A g \in Fundings : g # f => status'[g] = status[g]
      BY <1>i, <1>2, <2>1 DEF CreateFunding, Standing, TypeOK
    <2>3. status'[f] # "SUCCESS"
      BY <1>i, <1>2, <2>2 DEF CreateFunding, TypeOK
    <2>4. \A u \in Users : \A i \in DOMAIN entries[u] : entries[u][i].ref # f
      BY <1>i, <2>2 DEF RowsStand, RowStands
    <2>5. funding[f].user \in Users
      BY <1>i, <2>1 DEF Standing, Funding
    <2>6. Credits(f)' = {}
      BY <2>1, <2>4, <2>5 DEF Credits, RowsOf
    <2>7. \A g \in Fundings : g # f => Credits(g)' = Credits(g)
      BY <2>1 DEF Credits, RowsOf
    <2>8. \A g \in Fundings : status'[g] # "absent" => \A i, j \in Credits(g)' : i = j
      BY <2>2, <2>6, <2>7 DEF FulfilsOnce
    <2> QED
      BY <1>1, <2>2, <2>3, <2>8 DEF FulfilsOnce
  <1>3. ASSUME NEW d \in Deliveries, CommitFulfilment(d)
        PROVE  FulfilsOnce'
    <2>1. /\ pc[d] = "commit" /\ CommitWallets(d) /\ UNCHANGED <<funding, about>>
          /\ status' = [status EXCEPT ![about[d]] = "SUCCESS"]
      BY <1>3 DEF CommitFulfilment, At
    <2>2. /\ Fulfilling(d) /\ about[d] \in Fundings /\ status[about[d]] # "absent"
          /\ d \in Procs /\ d \notin Claims
      BY <1>a, <2>1, Kinds DEF Fulfilling, FulfilTx
    <2>3. status[about[d]] # "SUCCESS"
      BY <2>2 DEF FulfilsOnce
    <2>4. ~ Fulfilling(d)'
      BY <1>i, <1>3, <2>2 DEF CommitFulfilment, Goto, TypeOK, Fulfilling, FulfilTx
    <2>5. ASSUME NEW e \in Deliveries, Fulfilling(e)'
          PROVE  status'[about'[e]] # "SUCCESS"
      <3>1. about'[e] = about[e] /\ about[e] \in Fundings /\ e # d
        BY <1>b, <2>4, <2>5
      <3>2. pc'[e] = pc[e]
        BY <1>i, <1>3, <2>2, <3>1 DEF CommitFulfilment, Goto, TypeOK
      <3>3. Fulfilling(e)
        BY <2>5, <3>2 DEF Fulfilling
      <3>4. about[e] # about[d] /\ status[about[e]] # "SUCCESS"
        BY <2>2, <3>1, <3>3 DEF OneFulfilmentAtATime, FulfilsOnce
      <3> QED
        BY <1>i, <2>1, <3>1, <3>4 DEF TypeOK
    <2>6. ASSUME NEW f \in Fundings, status'[f] # "absent"
          PROVE  \A i, j \in Credits(f)' : i = j
      <3>1. status[f] # "absent"
        BY <1>i, <2>1, <2>2, <2>6 DEF TypeOK
      <3>2. funding[f].user \in Users
        BY <1>u, <3>1
      <3> DEFINE u == funding[f].user
      <3>3. Credits(f)' = RowsOf(u, f)' /\ Credits(f) = RowsOf(u, f)
        BY <2>1 DEF Credits, RowsOf
      <3>4. RowsOf(u, f)' = RowsOf(u, f) \cup
              (IF u = Wallet(d) /\ f = Row(d) THEN {Len(entries[u]) + 1} ELSE {})
        BY <2>1, <2>2, <3>2, CommittedRowsOf
      <3>5. CASE f = about[d]
        <4>1. RowsOf(u, f) = {}
          BY <1>i, <2>3, <3>2, <3>5 DEF RowsStand, RowStands, RowsOf
        <4> QED
          BY <3>3, <3>4, <4>1
      <3>6. CASE f # about[d]
        <4>1. Row(d) # f
          BY <2>2, <3>6 DEF Row
        <4>2. Credits(f)' = Credits(f)
          BY <3>3, <3>4, <4>1
        <4> QED
          BY <3>1, <4>2 DEF FulfilsOnce
      <3> QED
        BY <3>5, <3>6
    <2> QED
      BY <2>5, <2>6 DEF FulfilsOnce
  <1>4. ASSUME NEW c \in Claims, ClaimCommit(c)
        PROVE  FulfilsOnce'
    <2>1. /\ pc[c] = "claimCommit" /\ CommitWallets(c) /\ UNCHANGED <<funding, about, status>>
          /\ c \in Procs
      BY <1>4, Kinds DEF ClaimCommit, At, fundVars
    <2>2. ASSUME NEW f \in Fundings, status[f] # "absent"
          PROVE  Credits(f)' = Credits(f)
      <3>1. funding[f].user \in Users /\ Row(c) # f
        BY <1>u, <2>2, Kinds DEF Row
      <3> DEFINE u == funding[f].user
      <3>2. RowsOf(u, f)' = RowsOf(u, f) \cup
              (IF u = Wallet(c) /\ f = Row(c) THEN {Len(entries[u]) + 1} ELSE {})
        BY <2>1, <3>1, CommittedRowsOf
      <3>3. RowsOf(u, f)' = RowsOf(u, f)
        BY <3>1, <3>2
      <3> QED
        BY <2>1, <3>3 DEF Credits, RowsOf
    <2>3. \A d \in Deliveries : Fulfilling(d)' => status'[about'[d]] # "SUCCESS"
      BY <1>1, <2>1
    <2>4. \A f \in Fundings : status'[f] # "absent" => \A i, j \in Credits(f)' : i = j
      BY <2>1, <2>2 DEF FulfilsOnce
    <2> QED
      BY <2>3, <2>4 DEF FulfilsOnce
  <1>5. CASE Quiet
    <2>1. \A f \in Fundings : status[f] # "absent" => Credits(f)' = Credits(f)
      BY <1>5 DEF Quiet, Credits, RowsOf
    <2>2. \A f \in Fundings : status'[f] # "absent" => \A i, j \in Credits(f)' : i = j
      BY <1>5, <2>1 DEF Quiet, FulfilsOnce
    <2>3. \A d \in Deliveries : Fulfilling(d)' => status'[about'[d]] # "SUCCESS"
      BY <1>1, <1>5 DEF Quiet
    <2> QED
      BY <2>2, <2>3 DEF FulfilsOnce
  <1> QED
    BY <1>2, <1>3, <1>4, <1>5, StepKinds

\* What violates CreditedOnce is two handlers of one funding between the check
\* of its status and the commit, and nothing else.
THEOREM CreditedOnceUnlessTwice == Spec /\ []OneFulfilmentAtATime => []CreditedOnce
  <1>1. Init => FulfilsOnce
    BY Kinds DEF Init, FulfilsOnce, Fulfilling, FulfilTx
  <1>2. IInv /\ OneFulfilmentAtATime /\ FulfilsOnce /\ [Next]_vars => FulfilsOnce'
    BY FulfilsOnceStep
  <1>3. ASSUME FulfilsOnce
        PROVE  CreditedOnce
    <2>1. ASSUME NEW f \in Fundings, status[f] # "absent"
          PROVE  Cardinality(Credits(f)) <= 1
      <3>1. CASE Credits(f) = {}
        BY <3>1, FS_EmptySet
      <3>2. CASE Credits(f) # {}
        <4>1. PICK i : i \in Credits(f)
          BY <3>2
        <4>2. Credits(f) = {i}
          BY <1>3, <2>1, <4>1 DEF FulfilsOnce
        <4> QED
          BY <4>2, FS_Singleton
      <3> QED
        BY <3>1, <3>2
    <2> QED
      BY <2>1 DEF CreditedOnce
  <1> QED
    BY <1>1, <1>2, <1>3, PaymentsInvariant, PTL DEF Spec

\* A claim's rewards stay unpaid until it commits, where its user has no other.
LEMMA ClaimsOnceStep ==
    ASSUME IInv, OneClaimAtATime, ClaimsOnce, [Next]_vars
    PROVE  ClaimsOnce'
  <1>i. TypeOK /\ Standing /\ Claiming
    BY DEF IInv
  <1>g. ASSUME \A c \in Claims :
                 /\ claimed'[c] = claimed[c]
                 /\ pc'[c] \in ClaimTx => pc[c] \in ClaimTx
                 /\ pc'[c] = "claimed" => pc[c] = "claimed",
               \A d \in Deliveries : reward[d] # "absent" => reward'[d] = reward[d]
        PROVE  ClaimsOnce'
    BY <1>i, <1>g DEF ClaimsOnce, ClaimedOnce, Claiming, At, TypeOK
  <1>1. ASSUME NEW f \in Fundings, InitializeFunding(f) \/ CreateFunding(f) \/ Pay(f)
        PROVE  ClaimsOnce'
    <2>1. \A c \in Claims : pc'[c] = pc[c]
      BY <1>i, <1>1, Kinds DEF InitializeFunding, CreateFunding, Pay, Goto, TypeOK
    <2>2. UNCHANGED <<claimed, reward>>
      BY <1>1 DEF InitializeFunding, CreateFunding, Pay, referralVars
    <2> QED
      BY <1>g, <2>1, <2>2
  <1>2. ASSUME NEW d \in Deliveries,
               \/ HandlePaystackWebhook(d) \/ HandleFlutterwaveWebhook(d)
               \/ HandleMockWebhook(d) \/ VerifyPayment(d)
        PROVE  ClaimsOnce'
    <2>1. \A c \in Claims : pc'[c] = pc[c]
      <3>1. CASE VerifyPayment(d)
        BY <1>i, <3>1, Kinds DEF VerifyPayment, Goto, TypeOK
      <3>2. CASE HandlePaystackWebhook(d) \/ HandleFlutterwaveWebhook(d) \/ HandleMockWebhook(d)
        <4>1. \E l : pc' = [pc EXCEPT ![d] = l]
          BY <3>2, WebhooksHeed, PaymentsAssumption DEF Heeds
        <4> QED
          BY <1>i, <4>1, Kinds DEF TypeOK
      <3> QED
        BY <1>2, <3>1, <3>2
    <2>2. UNCHANGED <<claimed, reward>>
      BY <1>2 DEF HandlePaystackWebhook, HandleFlutterwaveWebhook, HandleMockWebhook,
         VerifyPayment, referralVars
    <2> QED
      BY <1>g, <2>1, <2>2
  <1>3. ASSUME NEW d \in Deliveries, Fulfil(d)
        PROVE  ClaimsOnce'
    <2>1. \A c \in Claims : pc'[c] = pc[c]
      <3>1. \E l : pc' = [pc EXCEPT ![d] = l]
        BY <1>3 DEF Fulfil, AskGateway, FindFunding, MarkSuccess, CreditRead, CreditWrite,
           Qualify, Grant, CommitFulfilment, Goto
      <3> QED
        BY <1>i, <3>1, Kinds DEF TypeOK
    <2>2. UNCHANGED claimed
      BY <1>3 DEF Fulfil, AskGateway, FindFunding, MarkSuccess, CreditRead, CreditWrite,
         Qualify, Grant, CommitFulfilment, referralVars
    <2>3. \A e \in Deliveries : reward[e] # "absent" => reward'[e] = reward[e]
      <3>1. CASE CommitFulfilment(d)
        <4>1. reward[d] = "absent"
          BY <3>1 DEF IInv, Rewarded, TypeOK, CommitFulfilment, At
        <4> QED
          BY <1>i, <3>1, <4>1 DEF CommitFulfilment, TypeOK
      <3>2. CASE ~ CommitFulfilment(d)
        BY <1>3, <3>2 DEF Fulfil, AskGateway, FindFunding, MarkSuccess, CreditRead, CreditWrite,
           Qualify, Grant, referralVars
      <3> QED
        BY <3>1, <3>2
    <2> QED
      BY <1>g, <2>1, <2>2, <2>3
  <1>4. ASSUME NEW c \in Claims, ClaimRewards(c)
        PROVE  ClaimsOnce'
    <2>1. PICK u \in Users : claimed' = [claimed EXCEPT ![c] = Unpaid(u)]
      BY <1>4 DEF ClaimRewards
    <2>2. /\ UNCHANGED reward /\ pc[c] = "idle"
          /\ \E l \in {"refused", "claimRead"} : pc' = [pc EXCEPT ![c] = l]
      BY <1>4 DEF ClaimRewards, At, Goto
    <2>3. \A e \in Claims : e # c => pc'[e] = pc[e] /\ claimed'[e] = claimed[e]
      BY <1>i, <2>1, <2>2 DEF TypeOK
    <2>4. pc'[c] # "claimed" /\ \A d \in claimed'[c] : reward[d] = "unpaid"
      BY <1>i, <2>1, <2>2, Kinds DEF TypeOK, Unpaid
    <2> QED
      BY <2>2, <2>3, <2>4 DEF ClaimsOnce, ClaimedOnce, At
  <1>5. ASSUME NEW c \in Claims, ClaimRead(c) \/ ClaimLocked(c) \/ ClaimWrite(c)
        PROVE  ClaimsOnce'
    <2>1. pc[c] \in ClaimTx /\ \E l : l # "claimed" /\ pc' = [pc EXCEPT ![c] = l]
      BY <1>5 DEF ClaimRead, ClaimLocked, ClaimWrite, At, Goto, ClaimTx
    <2>2. \A e \in Claims : /\ e # c => pc'[e] = pc[e]
                            /\ pc'[c] # "claimed"
      BY <1>i, <2>1, Kinds DEF TypeOK
    <2>3. UNCHANGED <<claimed, reward>>
      BY <1>5 DEF ClaimRead, ClaimLocked, ClaimWrite, referralVars
    <2> QED
      BY <1>g, <2>1, <2>2, <2>3
  <1>6. ASSUME NEW c \in Claims, ClaimCommit(c)
        PROVE  ClaimsOnce'
    <2>1. pc[c] = "claimCommit" /\ pc' = [pc EXCEPT ![c] = "claimed"] /\ UNCHANGED claimed
      BY <1>6 DEF ClaimCommit, At, Goto
    <2>2. \A d \in Deliveries : d \notin claimed[c] => reward'[d] = reward[d]
      BY <1>6 DEF ClaimCommit
    <2>3. \A e \in Claims : e # c => pc'[e] = pc[e]
      BY <1>i, <2>1 DEF TypeOK
    <2>4. pc'[c] = "claimed" /\ pc[c] \in ClaimTx
      BY <1>i, <2>1, Kinds DEF TypeOK, ClaimTx
    <2>5. ASSUME NEW e \in Claims, e # c, pc[e] \in ClaimTx
          PROVE  claimed[e] \cap claimed[c] = {}
      BY <1>i, <2>4, <2>5 DEF Claiming, OneClaimAtATime
    <2>6. ASSUME NEW e \in Claims, e # c, pc[e] = "claimed"
          PROVE  claimed[e] \cap claimed[c] = {}
      BY <1>i, <2>4, <2>6 DEF Claiming, ClaimsOnce
    <2>7. \A e \in Claims : claimed[e] \subseteq Deliveries
      BY <1>i DEF TypeOK
    <2>8. ASSUME NEW e \in Claims, pc'[e] \in ClaimTx, NEW d \in claimed'[e]
          PROVE  reward'[d] = "unpaid"
      <3>1. e # c
        BY <2>4, <2>8 DEF ClaimTx
      <3>2. pc[e] \in ClaimTx /\ d \in claimed[e] /\ d \in Deliveries
        BY <2>1, <2>3, <2>7, <2>8, <3>1
      <3>3. d \notin claimed[c]
        BY <2>5, <3>1, <3>2
      <3> QED
        BY <2>2, <3>2, <3>3 DEF ClaimsOnce
    <2>9. ClaimedOnce'
      <3>1. ASSUME NEW x \in Claims, NEW e \in Claims, pc'[x] = "claimed", pc'[e] = "claimed", x # e
            PROVE  claimed[x] \cap claimed[e] = {}
        <4>1. CASE x = c
          BY <2>3, <2>6, <3>1, <4>1
        <4>2. CASE e = c
          BY <2>3, <2>6, <3>1, <4>2
        <4>3. CASE x # c /\ e # c
          BY <2>3, <3>1, <4>3 DEF ClaimsOnce, ClaimedOnce, At
        <4> QED
          BY <4>1, <4>2, <4>3
      <3> QED
        BY <2>1, <3>1 DEF ClaimedOnce, At
    <2> QED
      BY <2>8, <2>9 DEF ClaimsOnce
  <1>7. CASE (\E p \in Procs : Fail(p)) \/ Crash
    <2>1. \A c \in Claims : pc'[c] = pc[c] \/ pc'[c] \in {"failed", "lost"}
      BY <1>i, <1>7, Kinds DEF Fail, Crash, Goto, TypeOK
    <2>2. UNCHANGED <<claimed, reward>>
      BY <1>7 DEF Fail, Crash
    <2> QED
      BY <1>g, <2>1, <2>2 DEF ClaimTx
  <1>8. CASE UNCHANGED vars
    BY <1>8, <1>g DEF vars, referralVars
  <1> QED
    BY <1>1, <1>2, <1>3, <1>4, <1>5, <1>6, <1>7, <1>8 DEF Next, Terminated, Claim

\* What violates ClaimedOnce is two claims of one user at once, and nothing else.
THEOREM ClaimedOnceUnlessTwice == Spec /\ []OneClaimAtATime => []ClaimedOnce
  <1>1. Init => ClaimsOnce
    BY Kinds DEF Init, ClaimsOnce, ClaimedOnce, ClaimTx, At
  <1>2. IInv /\ OneClaimAtATime /\ ClaimsOnce /\ [Next]_vars => ClaimsOnce'
    BY ClaimsOnceStep
  <1>3. ClaimsOnce => ClaimedOnce
    BY DEF ClaimsOnce
  <1> QED
    BY <1>1, <1>2, <1>3, PaymentsInvariant, PTL DEF Spec

-------------------------------------------------------------------------------
(* The contract of fundings *)

\* A funding that was inserted has its key.
KeysOwned ==
    \A f \in Fundings : status[f] # "absent" => keyRow[funding[f].key] = f

\* Whether a fulfilment would qualify its payee's referral now.
Qualifying(d) ==
    /\ Amount(d) >= Threshold
    /\ Referrer[Payee(d)] # Nobody
    /\ referral[Payee(d)] = "PENDING_QUALIFICATION"

\* A fulfilment about to commit has granted a reward if it qualifies.
Judged ==
    \A d \in Deliveries :
        /\ pc[d] = "grant" => Amount(d) >= Threshold
        /\ pc[d] = "commit" /\ referralDraft[Payee(d)] = d => Amount(d) >= Threshold
        /\ pc[d] = "commit" /\ referralDraft[Payee(d)] # d => ~ Qualifying(d)

\* A claim under way is for some reward.
ClaimsSome == \A c \in Claims : pc[c] \in ClaimTx => claimed[c] # {}

\* A reward that is not paid is of a referral that is QUALIFIED.
Outstanding ==
    \A d \in Deliveries : reward[d] = "unpaid" => referral[Payee(d)] = "QUALIFIED"

KInv == IInv /\ KeysOwned /\ Judged /\ ClaimsSome /\ Outstanding

\* Inserting a funding is what changes its key's row and its order.
LEMMA KeysOwnedStep ==
    ASSUME IInv, KeysOwned, [Next]_vars
    PROVE  KeysOwned'
  <1>i. TypeOK /\ Standing
    BY DEF IInv
  <1>1. ASSUME NEW f \in Fundings, InitializeFunding(f)
        PROVE  KeysOwned'
    <2>1. status[f] = "absent" /\ UNCHANGED <<status, keyRow>>
      BY <1>i, <1>1 DEF InitializeFunding, At, Standing
    <2>2. \A g \in Fundings : g # f => funding'[g] = funding[g]
      BY <1>i, <1>1 DEF InitializeFunding, TypeOK
    <2> QED
      BY <2>1, <2>2 DEF KeysOwned
  <1>2. ASSUME NEW f \in Fundings, CreateFunding(f)
        PROVE  KeysOwned'
    <2>1. CASE keyRow[funding[f].key] # Nobody
      BY <1>2, <2>1 DEF CreateFunding, KeysOwned
    <2>2. CASE keyRow[funding[f].key] = Nobody
      <3>1. funding[f].key \in Keys
        BY <1>i, <1>2 DEF CreateFunding, At, Standing, Funding
      <3>2. \A g \in Fundings : status[g] # "absent" => funding[g].key # funding[f].key
        BY <2>2, Kinds DEF KeysOwned
      <3>3. /\ UNCHANGED funding /\ keyRow' = [keyRow EXCEPT ![funding[f].key] = f]
            /\ status' = [status EXCEPT ![f] = "PENDING"]
        BY <1>2, <2>2 DEF CreateFunding
      <3>4. \A k \in Keys : keyRow'[k] = IF k = funding[f].key THEN f ELSE keyRow[k]
        BY <1>i, <3>1, <3>3 DEF TypeOK
      <3>5. \A g \in Fundings : status[g] # "absent" => funding[g].key \in Keys
        BY <1>i DEF Standing, Funding
      <3>6. \A g \in Fundings : g # f => status'[g] = status[g]
        BY <1>i, <3>3 DEF TypeOK
      <3> QED
        BY <3>1, <3>2, <3>3, <3>4, <3>5, <3>6 DEF KeysOwned
    <2> QED
      BY <2>1, <2>2
  <1>3. ASSUME NEW d \in Deliveries, CommitFulfilment(d)
        PROVE  KeysOwned'
    <2>1. about[d] \in Fundings /\ status[about[d]] # "absent"
      BY <1>i, <1>3 DEF CommitFulfilment, At, Standing, Heard, FulfilTx, TypeOK
    <2>2. \A g \in Fundings : status'[g] # "absent" => status[g] # "absent"
      BY <1>i, <1>3, <2>1 DEF CommitFulfilment, TypeOK
    <2> QED
      BY <1>3, <2>2 DEF CommitFulfilment, KeysOwned
  <1>4. ASSUME UNCHANGED <<status, keyRow, funding>>
        PROVE  KeysOwned'
    BY <1>4 DEF KeysOwned
  <1>5. ASSUME NEW f \in Fundings, Pay(f)
        PROVE  UNCHANGED <<status, keyRow, funding>>
    BY <1>5 DEF Pay
  <1>6. ASSUME NEW d \in Deliveries,
               \/ HandlePaystackWebhook(d) \/ HandleFlutterwaveWebhook(d)
               \/ HandleMockWebhook(d) \/ VerifyPayment(d)
        PROVE  UNCHANGED <<status, keyRow, funding>>
    BY <1>6
    DEF HandlePaystackWebhook, HandleFlutterwaveWebhook, HandleMockWebhook, VerifyPayment
  <1>7. ASSUME NEW d \in Deliveries, Fulfil(d), ~ CommitFulfilment(d)
        PROVE  UNCHANGED <<status, keyRow, funding>>
    BY <1>7 DEF Fulfil, AskGateway, FindFunding, MarkSuccess, CreditRead, CreditWrite, Qualify,
       Grant, fundVars
  <1>8. ASSUME NEW c \in Claims, ClaimRewards(c) \/ Claim(c)
        PROVE  UNCHANGED <<status, keyRow, funding>>
    BY <1>8 DEF Claim, ClaimRewards, ClaimRead, ClaimLocked, ClaimWrite, ClaimCommit, fundVars
  <1>9. ASSUME (\E p \in Procs : Fail(p)) \/ Crash \/ UNCHANGED vars
        PROVE  UNCHANGED <<status, keyRow, funding>>
    BY <1>9 DEF Fail, Crash, vars, fundVars
  <1> QED
    BY <1>1, <1>2, <1>3, <1>4, <1>5, <1>6, <1>7, <1>8, <1>9 DEF Next, Terminated

\* A referral that has moved on has moved on for good.
LEMMA ReferralStaysOn ==
    ASSUME IInv, [Next]_vars, NEW u \in Users, referral'[u] = "PENDING_QUALIFICATION"
    PROVE  referral[u] = "PENDING_QUALIFICATION"
  <1>i. TypeOK
    BY DEF IInv
  <1>1. ASSUME NEW d \in Deliveries, CommitFulfilment(d)
        PROVE  referral[u] = "PENDING_QUALIFICATION"
    BY <1>i, <1>1 DEF CommitFulfilment, TypeOK
  <1>2. ASSUME NEW c \in Claims, ClaimCommit(c)
        PROVE  referral[u] = "PENDING_QUALIFICATION"
    BY <1>i, <1>2 DEF ClaimCommit, TypeOK
  <1>3. ASSUME NEW f \in Fundings, CreateFunding(f)
        PROVE  referral[u] = "PENDING_QUALIFICATION"
    BY <1>3 DEF CreateFunding, referralVars
  <1> QED
    BY <1>1, <1>2, <1>3, StepKinds DEF Quiet

\* What a delivery credits whom is settled once it is about something.
LEMMA PayeesStay ==
    ASSUME IInv, [Next]_vars, NEW d \in Deliveries, Fulfilling(d)'
    PROVE  Payee(d)' = Payee(d) /\ Amount(d)' = Amount(d) /\ Payee(d) \in Users
  <1>1. about'[d] = about[d] /\ IInv'
    BY FulfillingBegins, PaymentsStep
  <1>2. about'[d] \in Fundings
    BY <1>1 DEF IInv, TypeOK, Standing, Heard, Fulfilling
  <1>3. about[d] # Nobody /\ about[d] \in Fundings
    BY <1>1, <1>2, Kinds
  <1>4. status[about[d]] # "absent"
    BY <1>3 DEF IInv, Standing
  <1>5. funding'[about[d]] = funding[about[d]]
    <2>1. ASSUME NEW f \in Fundings, CreateFunding(f)
          PROVE  UNCHANGED funding
      BY <2>1 DEF CreateFunding
    <2>2. ASSUME NEW e \in Deliveries, CommitFulfilment(e)
          PROVE  UNCHANGED funding
      BY <2>2 DEF CommitFulfilment
    <2>3. ASSUME NEW c \in Claims, ClaimCommit(c)
          PROVE  UNCHANGED funding
      BY <2>3 DEF ClaimCommit, fundVars
    <2> QED
      BY <1>3, <1>4, <2>1, <2>2, <2>3, StepKinds DEF Quiet
  <1> QED
    BY <1>1, <1>3, <1>5, PayeeType DEF Payee, Amount, IInv

\* Only qualify decides on a referral, and until the commit no other handler
\* can, for the fulfilment holds the wallet's row.
LEMMA JudgedStep ==
    ASSUME IInv, Judged, [Next]_vars
    PROVE  Judged'
  <1>i. TypeOK /\ Standing /\ Granting
    BY DEF IInv
  <1>s. SUFFICES ASSUME NEW d \in Deliveries, pc'[d] \in {"grant", "commit"}
                 PROVE  /\ pc'[d] = "grant" => Amount(d)' >= Threshold
                        /\ pc'[d] = "commit" /\ referralDraft'[Payee(d)'] = d => Amount(d)' >= Threshold
                        /\ pc'[d] = "commit" /\ referralDraft'[Payee(d)'] # d => ~ Qualifying(d)'
    BY DEF Judged
  <1>p. Payee(d)' = Payee(d) /\ Amount(d)' = Amount(d) /\ Payee(d) \in Users
    BY <1>s, PayeesStay DEF Fulfilling, FulfilTx
  <1>r. referral'[Payee(d)] = "PENDING_QUALIFICATION" => referral[Payee(d)] = "PENDING_QUALIFICATION"
    BY <1>p, ReferralStaysOn
  <1>q. ~ Qualifying(d) => ~ Qualifying(d)'
    BY <1>p, <1>r DEF Qualifying
  <1>g. ASSUME pc'[d] = pc[d], (referralDraft'[Payee(d)] = d <=> referralDraft[Payee(d)] = d)
        PROVE  /\ pc'[d] = "grant" => Amount(d)' >= Threshold
               /\ pc'[d] = "commit" /\ referralDraft'[Payee(d)'] = d => Amount(d)' >= Threshold
               /\ pc'[d] = "commit" /\ referralDraft'[Payee(d)'] # d => ~ Qualifying(d)'
    BY <1>p, <1>q, <1>g DEF Judged
  <1>o. ASSUME NEW q \in Procs, NEW l, pc' = [pc EXCEPT ![q] = l], l \notin {"grant", "commit"}
        PROVE  d # q /\ pc'[d] = pc[d]
    BY <1>i, <1>s, <1>o, Kinds DEF TypeOK
  <1>1. ASSUME NEW f \in Fundings, InitializeFunding(f) \/ CreateFunding(f) \/ Pay(f)
        PROVE  pc'[d] = pc[d] /\ UNCHANGED referralDraft
    BY <1>i, <1>1, Kinds DEF InitializeFunding, CreateFunding, Pay, Goto, TypeOK, referralVars
  <1>2. ASSUME NEW e \in Deliveries,
               \/ HandlePaystackWebhook(e) \/ HandleFlutterwaveWebhook(e)
               \/ HandleMockWebhook(e) \/ VerifyPayment(e)
        PROVE  pc'[d] = pc[d] /\ UNCHANGED referralDraft
    <2>1. PICK l \in {"refused", "ignored", "find", "ask"} : pc' = [pc EXCEPT ![e] = l]
      <3>1. CASE VerifyPayment(e)
        BY <3>1 DEF VerifyPayment, Goto
      <3>2. CASE HandlePaystackWebhook(e) \/ HandleFlutterwaveWebhook(e) \/ HandleMockWebhook(e)
        BY <3>2, WebhooksHeed, PaymentsAssumption DEF Heeds
      <3> QED
        BY <1>2, <3>1, <3>2
    <2>2. UNCHANGED referralDraft
      BY <1>2 DEF HandlePaystackWebhook, HandleFlutterwaveWebhook, HandleMockWebhook,
         VerifyPayment, referralVars
    <2> QED
      BY <1>o, <2>1, <2>2, Kinds
  <1>3. ASSUME NEW e \in Deliveries,
               \/ AskGateway(e) \/ FindFunding(e) \/ MarkSuccess(e) \/ CreditRead(e) \/ CreditWrite(e)
        PROVE  pc'[d] = pc[d] /\ UNCHANGED referralDraft
    <2>1. PICK l \in {"find", "unconfirmed", "ignored", "mark", "creditRead", "creditWrite", "qualify"} :
            pc' = [pc EXCEPT ![e] = l]
      BY <1>3 DEF AskGateway, FindFunding, MarkSuccess, CreditRead, CreditWrite, Goto
    <2>2. UNCHANGED referralDraft
      BY <1>3 DEF AskGateway, FindFunding, MarkSuccess, CreditRead, CreditWrite, referralVars
    <2> QED
      BY <1>o, <2>1, <2>2, Kinds
  <1>4. ASSUME NEW e \in Deliveries, Qualify(e)
        PROVE  Judged'
    <2>1. UNCHANGED <<referralDraft, referral, funding, about>>
      BY <1>4 DEF Qualify, fundVars, referralVars
    <2>2. pc[e] = "qualify" /\ pc' = [pc EXCEPT ![e] = IF Qualifying(e) THEN "grant" ELSE "commit"]
      BY <1>4 DEF Qualify, Qualifying, At, Goto
    <2>3. \A x \in Deliveries : x # e => pc'[x] = pc[x]
      BY <1>i, <2>2 DEF TypeOK
    <2>4. pc'[e] = IF Qualifying(e) THEN "grant" ELSE "commit"
      BY <1>i, <2>2, Kinds DEF TypeOK
    <2>5. about[e] # Nobody
      BY <1>i, <2>2 DEF Standing, Heard, FulfilTx
    <2>6. Payee(e) \in Users
      BY <1>i, <2>5, PayeeType
    <2>7. referralDraft[Payee(e)] # e
      BY <1>i, <2>2, <2>6, Kinds DEF Granting
    <2>8. \A x \in Deliveries : /\ Payee(x)' = Payee(x) /\ Amount(x)' = Amount(x)
                                /\ Qualifying(x)' = Qualifying(x)
      BY <2>1 DEF Payee, Amount, Qualifying
    <2>9. Qualifying(e) => Amount(e) >= Threshold
      BY DEF Qualifying
    <2> QED
      BY <2>1, <2>3, <2>4, <2>7, <2>8, <2>9 DEF Judged
  <1>5. ASSUME NEW e \in Deliveries, Grant(e)
        PROVE  Judged'
    <2>1. /\ UNCHANGED <<referral, funding, about>> /\ pc[e] = "grant"
          /\ pc' = [pc EXCEPT ![e] = "commit"]
          /\ referralDraft' = [referralDraft EXCEPT ![Payee(e)] = e]
          /\ referralDraft[Payee(e)] = Nobody
      BY <1>5 DEF Grant, fundVars, At, Goto
    <2>2. \A x \in Deliveries : x # e => pc'[x] = pc[x]
      BY <1>i, <2>1 DEF TypeOK
    <2>3. about[e] # Nobody
      BY <1>i, <2>1 DEF Standing, Heard, FulfilTx
    <2>4. Payee(e) \in Users
      BY <1>i, <2>3, PayeeType
    <2>5. referralDraft'[Payee(e)] = e /\ Amount(e) >= Threshold
      BY <1>i, <2>1, <2>4 DEF TypeOK, Judged
    <2>6. \A u \in Users : u # Payee(e) => referralDraft'[u] = referralDraft[u]
      BY <1>i, <2>1 DEF TypeOK
    <2>7. \A x \in Deliveries : /\ Payee(x)' = Payee(x) /\ Amount(x)' = Amount(x)
                                /\ Qualifying(x)' = Qualifying(x)
      BY <2>1 DEF Payee, Amount, Qualifying
    <2>8. \A x \in Deliveries : x # e /\ pc[x] \in {"commit", "grant"} => Payee(x) \in Users
      BY <1>i, PayeeType DEF Standing, Heard, FulfilTx
    <2>9. \A x \in Deliveries : x # e /\ pc[x] = "commit" => Payee(x) # Payee(e)
      <3> SUFFICES ASSUME NEW x \in Deliveries, x # e, pc[x] = "commit", Payee(x) = Payee(e)
                   PROVE  FALSE
        OBVIOUS
      <3>1. Owned(x, Payee(x)) /\ Owned(e, Payee(e))
        BY <2>1, Kinds DEF IInv, WalletsHeld, Writing, Crediting, Wallet
      <3> QED
        BY <3>1 DEF Owned
    <2> QED
      BY <2>2, <2>4, <2>5, <2>6, <2>7, <2>8, <2>9 DEF Judged
  <1>6. ASSUME NEW e \in Deliveries, CommitFulfilment(e)
        PROVE  pc'[d] = pc[d] /\ (referralDraft'[Payee(d)] = d <=> referralDraft[Payee(d)] = d)
    <2>1. PICK l : l = "fulfilled" /\ pc' = [pc EXCEPT ![e] = l]
      BY <1>6 DEF CommitFulfilment, Goto
    <2>c. e \in Procs /\ l \notin {"grant", "commit"}
      BY <2>1, Kinds
    <2>2. d # e /\ pc'[d] = pc[d]
      BY <1>o, <2>1, <2>c, Zenon
    <2>a. PICK u : u = Payee(e)
      OBVIOUS
    <2>b. \/ referralDraft[u] = e /\ referralDraft' = [referralDraft EXCEPT ![u] = Nobody]
          \/ referralDraft[u] # e /\ referralDraft' = [referralDraft EXCEPT ![u] = referralDraft[u]]
      BY <1>6, <2>a DEF CommitFulfilment
    <2>3. \A v \in Users : \/ referralDraft'[v] = referralDraft[v]
                           \/ referralDraft[v] = e /\ referralDraft'[v] = Nobody
      BY <1>i, <2>b DEF TypeOK
    <2> QED
      BY <1>p, <2>2, <2>3, Kinds
  <1>7. ASSUME NEW c \in Claims, ClaimRewards(c) \/ Claim(c)
        PROVE  pc'[d] = pc[d] /\ UNCHANGED referralDraft
    BY <1>i, <1>7, Kinds DEF Claim, ClaimRewards, ClaimRead, ClaimLocked, ClaimWrite,
       ClaimCommit, Goto, TypeOK, referralVars
  <1>8. ASSUME NEW P \in SUBSET Procs, Discard(P),
               \A q \in P : pc'[q] \in {"failed", "lost"}, \A q \in Procs : q \notin P => pc'[q] = pc[q]
        PROVE  pc'[d] = pc[d] /\ (referralDraft'[Payee(d)] = d <=> referralDraft[Payee(d)] = d)
    <2>1. d \notin P /\ pc'[d] = pc[d]
      BY <1>s, <1>8, Kinds
    <2>2. referralDraft'[Payee(d)] =
            IF referralDraft[Payee(d)] \in P THEN Nobody ELSE referralDraft[Payee(d)]
      BY <1>p, <1>8 DEF Discard
    <2> QED
      BY <2>1, <2>2, Kinds
  <1>9. ASSUME NEW p \in Procs, Fail(p)
        PROVE  pc'[d] = pc[d] /\ (referralDraft'[Payee(d)] = d <=> referralDraft[Payee(d)] = d)
    <2>1. /\ Discard({p}) /\ \A q \in {p} : pc'[q] \in {"failed", "lost"}
          /\ \A q \in Procs : q \notin {p} => pc'[q] = pc[q]
      BY <1>i, <1>9 DEF Fail, Goto, TypeOK
    <2>2. {p} \in SUBSET Procs
      OBVIOUS
    <2> QED
      BY <1>8, <2>1, <2>2
  <1>10. ASSUME Crash
         PROVE  pc'[d] = pc[d] /\ (referralDraft'[Payee(d)] = d <=> referralDraft[Payee(d)] = d)
    <2>1. PICK P \in SUBSET Procs : P = {p \in Procs : pc[p] \in Running}
      OBVIOUS
    <2>2. /\ Discard(P) /\ \A q \in P : pc'[q] \in {"failed", "lost"}
          /\ \A q \in Procs : q \notin P => pc'[q] = pc[q]
      BY <1>10, <2>1 DEF Crash
    <2> QED
      BY <1>8, <2>2
  <1>11. CASE UNCHANGED vars
    BY <1>11, <1>g DEF vars, referralVars
  <1>12. ASSUME Judged'
         PROVE  /\ pc'[d] = "grant" => Amount(d)' >= Threshold
                /\ pc'[d] = "commit" /\ referralDraft'[Payee(d)'] = d => Amount(d)' >= Threshold
                /\ pc'[d] = "commit" /\ referralDraft'[Payee(d)'] # d => ~ Qualifying(d)'
    BY <1>12 DEF Judged
  <1> QED
    BY <1>g, <1>1, <1>2, <1>3, <1>4, <1>5, <1>6, <1>7, <1>9, <1>10, <1>11, <1>12
    DEF Next, Terminated, Fulfil

\* A claim starts with the rewards it found, and keeps them.
LEMMA ClaimsSomeStep ==
    ASSUME IInv, ClaimsSome, [Next]_vars
    PROVE  ClaimsSome'
  <1>i. TypeOK /\ Standing
    BY DEF IInv
  <1>g. ASSUME UNCHANGED claimed, \A c \in Claims : pc'[c] \in ClaimTx => pc[c] \in ClaimTx
        PROVE  ClaimsSome'
    BY <1>g DEF ClaimsSome
  <1>1. ASSUME NEW f \in Fundings, InitializeFunding(f) \/ CreateFunding(f) \/ Pay(f)
        PROVE  ClaimsSome'
    BY <1>g, <1>i, <1>1, Kinds
    DEF InitializeFunding, CreateFunding, Pay, Goto, TypeOK, referralVars
  <1>2. ASSUME NEW d \in Deliveries,
               \/ HandlePaystackWebhook(d) \/ HandleFlutterwaveWebhook(d)
               \/ HandleMockWebhook(d) \/ VerifyPayment(d)
        PROVE  ClaimsSome'
    <2>1. \E l : pc' = [pc EXCEPT ![d] = l]
      <3>1. CASE VerifyPayment(d)
        BY <3>1 DEF VerifyPayment, Goto
      <3>2. CASE HandlePaystackWebhook(d) \/ HandleFlutterwaveWebhook(d) \/ HandleMockWebhook(d)
        BY <3>2, WebhooksHeed, PaymentsAssumption DEF Heeds
      <3> QED
        BY <1>2, <3>1, <3>2
    <2>2. UNCHANGED claimed
      BY <1>2 DEF HandlePaystackWebhook, HandleFlutterwaveWebhook, HandleMockWebhook,
         VerifyPayment, referralVars
    <2> QED
      BY <1>g, <1>i, <2>1, <2>2, Kinds DEF TypeOK
  <1>3. ASSUME NEW d \in Deliveries, Fulfil(d)
        PROVE  ClaimsSome'
    <2>1. \E l : pc' = [pc EXCEPT ![d] = l]
      BY <1>3 DEF Fulfil, AskGateway, FindFunding, MarkSuccess, CreditRead, CreditWrite,
         Qualify, Grant, CommitFulfilment, Goto
    <2>2. UNCHANGED claimed
      BY <1>3 DEF Fulfil, AskGateway, FindFunding, MarkSuccess, CreditRead, CreditWrite,
         Qualify, Grant, CommitFulfilment, referralVars
    <2> QED
      BY <1>g, <1>i, <2>1, <2>2, Kinds DEF TypeOK
  <1>4. ASSUME NEW c \in Claims, ClaimRewards(c)
        PROVE  ClaimsSome'
    <2>1. PICK u \in Users :
            /\ claimed' = [claimed EXCEPT ![c] = Unpaid(u)]
            /\ pc' = [pc EXCEPT ![c] = IF Unpaid(u) = {} THEN "refused" ELSE "claimRead"]
      BY <1>4 DEF ClaimRewards, Goto
    <2>2. \A e \in Claims : e # c => pc'[e] = pc[e] /\ claimed'[e] = claimed[e]
      BY <1>i, <2>1 DEF TypeOK
    <2>3. pc'[c] \in ClaimTx => claimed'[c] # {}
      BY <1>i, <2>1, Kinds DEF TypeOK, ClaimTx
    <2> QED
      BY <2>2, <2>3 DEF ClaimsSome
  <1>5. ASSUME NEW c \in Claims, Claim(c)
        PROVE  ClaimsSome'
    <2>1. pc[c] \in ClaimTx /\ \E l : pc' = [pc EXCEPT ![c] = l]
      BY <1>5 DEF Claim, ClaimRead, ClaimLocked, ClaimWrite, ClaimCommit, At, Goto, ClaimTx
    <2>2. UNCHANGED claimed
      BY <1>5 DEF Claim, ClaimRead, ClaimLocked, ClaimWrite, ClaimCommit, referralVars
    <2> QED
      BY <1>g, <1>i, <2>1, <2>2, Kinds DEF TypeOK
  <1>6. CASE (\E p \in Procs : Fail(p)) \/ Crash
    <2>1. UNCHANGED claimed /\ \A c \in Claims : pc'[c] = pc[c] \/ pc'[c] \in {"failed", "lost"}
      BY <1>i, <1>6, Kinds DEF Fail, Crash, Goto, TypeOK
    <2> QED
      BY <1>g, <2>1 DEF ClaimTx
  <1>7. CASE UNCHANGED vars
    BY <1>7, <1>g DEF vars, referralVars
  <1> QED
    BY <1>1, <1>2, <1>3, <1>4, <1>5, <1>6, <1>7 DEF Next, Terminated

\* A delivery that has ended is about what it was about.
LEMMA RewardedStays ==
    ASSUME IInv, [Next]_vars, NEW d \in Deliveries, pc[d] = "fulfilled"
    PROVE  about'[d] = about[d]
  <1>i. TypeOK
    BY DEF IInv
  <1>1. ASSUME NEW f \in Fundings, InitializeFunding(f) \/ CreateFunding(f) \/ Pay(f)
        PROVE  UNCHANGED about
    BY <1>1 DEF InitializeFunding, CreateFunding, Pay
  <1>2. ASSUME NEW e \in Deliveries, VerifyPayment(e)
        PROVE  about'[d] = about[d]
    BY <1>i, <1>2 DEF VerifyPayment, At, TypeOK
  <1>3. ASSUME NEW e \in Deliveries,
               HandlePaystackWebhook(e) \/ HandleFlutterwaveWebhook(e) \/ HandleMockWebhook(e)
        PROVE  about'[d] = about[d]
    BY <1>i, <1>3, WebhooksHeed, PaymentsAssumption DEF Heeds, TypeOK
  <1>4. ASSUME NEW e \in Deliveries, Fulfil(e)
        PROVE  UNCHANGED about
    BY <1>4 DEF Fulfil, AskGateway, FindFunding, MarkSuccess, CreditRead, CreditWrite,
       Qualify, Grant, CommitFulfilment, fundVars
  <1>5. ASSUME NEW c \in Claims, ClaimRewards(c) \/ Claim(c)
        PROVE  UNCHANGED about
    BY <1>5 DEF Claim, ClaimRewards, ClaimRead, ClaimLocked, ClaimWrite, ClaimCommit, fundVars
  <1>6. ASSUME (\E p \in Procs : Fail(p)) \/ Crash \/ UNCHANGED vars
        PROVE  UNCHANGED about
    BY <1>6 DEF Fail, Crash, vars, fundVars
  <1> QED
    BY <1>1, <1>2, <1>3, <1>4, <1>5, <1>6 DEF Next, Terminated

\* A commit that moves a referral on grants or pays the one reward it has.
LEMMA OutstandingStep ==
    ASSUME IInv, Outstanding, [Next]_vars
    PROVE  Outstanding'
  <1>i. TypeOK /\ Standing /\ Rewarded /\ OneRewardPerReferral /\ Claiming
    BY DEF IInv
  <1>b. \A d \in Deliveries : reward[d] # "absent" => about[d] # Nobody /\ Payee(d) \in Users
    BY <1>i, PayeeType DEF Rewarded, Standing, Heard
  <1>1. ASSUME NEW e \in Deliveries, CommitFulfilment(e)
        PROVE  Outstanding'
    <2>1. /\ pc[e] = "commit" /\ UNCHANGED <<funding, about>>
      BY <1>1 DEF CommitFulfilment, At
    <2>2. about[e] # Nobody /\ reward[e] = "absent"
      BY <1>i, <2>1 DEF Standing, Rewarded, Heard, FulfilTx, TypeOK
    <2>3. PICK u : u = Payee(e)
      OBVIOUS
    <2>4. u \in Users
      BY <1>i, <2>2, <2>3, PayeeType
    <2>5. \/ /\ referralDraft[u] = e
             /\ referral' = [referral EXCEPT ![u] = "QUALIFIED"]
             /\ reward' = [reward EXCEPT ![e] = "unpaid"]
          \/ /\ referral' = [referral EXCEPT ![u] = referral[u]]
             /\ reward' = [reward EXCEPT ![e] = reward[e]]
      BY <1>1, <2>3 DEF CommitFulfilment
    <2>6. \A d \in Deliveries : Payee(d)' = Payee(d)
      BY <2>1 DEF Payee
    <2>7. \A v \in Users : referral[v] = "QUALIFIED" => referral'[v] = "QUALIFIED"
      BY <1>i, <2>4, <2>5 DEF TypeOK
    <2>8. \A d \in Deliveries : d # e => reward'[d] = reward[d]
      BY <1>i, <2>5 DEF TypeOK
    <2>9. reward'[e] = "unpaid" => referral'[u] = "QUALIFIED"
      BY <1>i, <2>2, <2>4, <2>5 DEF TypeOK
    <2> QED
      BY <1>b, <2>3, <2>6, <2>7, <2>8, <2>9 DEF Outstanding
  <1>2. ASSUME NEW c \in Claims, ClaimCommit(c)
        PROVE  Outstanding'
    <2>1. /\ UNCHANGED <<funding, about>>
          /\ \A d \in Deliveries : reward'[d] = IF d \in claimed[c] THEN "paid" ELSE reward[d]
          /\ \A u \in Users : referral'[u] =
               IF \E d \in claimed[c] : Payee(d) = u THEN "REWARDED" ELSE referral[u]
      BY <1>2 DEF ClaimCommit, fundVars
    <2>2. \A d \in Deliveries : Payee(d)' = Payee(d)
      BY <2>1 DEF Payee
    <2>3. ASSUME NEW d \in Deliveries, reward'[d] = "unpaid"
          PROVE  referral'[Payee(d)] = "QUALIFIED"
      <3>1. d \notin claimed[c] /\ reward[d] = "unpaid"
        BY <2>1, <2>3
      <3>2. \A e \in claimed[c] : e \in Deliveries /\ reward[e] # "absent" /\ e # d
        BY <1>i, <3>1 DEF Claiming, TypeOK
      <3>3. \A e \in claimed[c] : Payee(e) # Payee(d)
        BY <1>i, <3>1, <3>2 DEF OneRewardPerReferral
      <3> QED
        BY <1>b, <2>1, <3>1, <3>3 DEF Outstanding
    <2> QED
      BY <2>2, <2>3 DEF Outstanding
  <1>3. ASSUME NEW f \in Fundings, CreateFunding(f)
        PROVE  Outstanding'
    BY <1>3 DEF CreateFunding, referralVars, Outstanding, Payee
  <1>4. CASE Quiet
    <2>1. UNCHANGED <<reward, referral>>
      BY <1>4 DEF Quiet
    <2>2. \A d \in Deliveries : reward[d] # "absent" => Payee(d)' = Payee(d)
      <3> SUFFICES ASSUME NEW d \in Deliveries, reward[d] # "absent"
                   PROVE  Payee(d)' = Payee(d)
        OBVIOUS
      <3>1. status[about[d]] # "absent" /\ about[d] \in Fundings
        BY <1>b, <1>i DEF Standing, TypeOK
      <3>2. about'[d] = about[d]
        BY <1>i, RewardedStays DEF Rewarded
      <3> QED
        BY <1>4, <3>1, <3>2 DEF Quiet, Payee
    <2> QED
      BY <2>1, <2>2 DEF Outstanding
  <1> QED
    BY <1>1, <1>2, <1>3, <1>4, StepKinds

\* What the refinement needs beyond IInv holds of every behaviour too: keys
\* owned by the fundings that used them, judgements that still stand.
THEOREM ContractInvariant == Spec => []KInv
  <1>1. Init => KInv
    BY PaymentsInit, Kinds DEF Init, KInv, KeysOwned, Judged, ClaimsSome, Outstanding, ClaimTx
  <1>2. KInv /\ [Next]_vars => KInv'
    BY PaymentsStep, KeysOwnedStep, JudgedStep, ClaimsSomeStep, OutstandingStep DEF KInv
  <1> QED
    BY <1>1, <1>2, PTL DEF Spec

\* The receipts of a wallet, after a commit.
LEMMA CommittedReceipts ==
    ASSUME IInv, NEW p \in Procs, pc[p] \in {"commit", "claimCommit"}, CommitWallets(p),
           NEW u \in Users, NEW rows \in SUBSET DOMAIN entries[u],
           NEW k, k = Len(entries[u]) + 1,
           NEW receipt, receipt = [row |-> <<u, k>>, kobo |-> Due(p)]
    PROVE  /\ {[row |-> <<u, i>>, kobo |-> entries'[u][i].amount] : i \in rows} = Receipts(u, rows)
           /\ u = Wallet(p) =>
                {[row |-> <<u, i>>, kobo |-> entries'[u][i].amount] : i \in rows \cup {k}} =
                  Receipts(u, rows) \cup {receipt}
           /\ receipt \notin Receipts(u, rows)
           /\ receipt.kobo = Due(p)
  <1>1. /\ \A i \in DOMAIN entries[u] : entries'[u][i] = entries[u][i]
        /\ k \notin DOMAIN entries[u]
        /\ u = Wallet(p) => entries'[u][k].amount = Due(p)
    BY CommittedRowsOf
  <1>2. \A i \in rows : entries'[u][i].amount = entries[u][i].amount
    BY <1>1
  <1>3. {[row |-> <<u, i>>, kobo |-> entries'[u][i].amount] : i \in rows} = Receipts(u, rows)
    BY <1>2 DEF Receipts
  <1>4. ASSUME u = Wallet(p)
        PROVE  {[row |-> <<u, i>>, kobo |-> entries'[u][i].amount] : i \in rows \cup {k}} =
                 Receipts(u, rows) \cup {receipt}
    <2>1. receipt = [row |-> <<u, k>>, kobo |-> entries'[u][k].amount]
      BY <1>1, <1>4
    <2> QED
      BY <1>3, <2>1
  <1>5. receipt \notin Receipts(u, rows)
    <2> SUFFICES ASSUME NEW i \in rows,
                        receipt = [row |-> <<u, i>>, kobo |-> entries[u][i].amount]
                 PROVE  FALSE
      BY DEF Receipts
    <2>1. receipt.row = <<u, k>> /\ receipt.row = <<u, i>>
      OBVIOUS
    <2>2. <<u, k>>[2] = <<u, i>>[2]
      BY <2>1
    <2>3. k = i
      BY <2>2
    <2> QED
      BY <1>1, <2>3
  <1> QED
    BY <1>1, <1>3, <1>4, <1>5

\* Every funding's receipts and every user's payouts, after a commit.
LEMMA CommittedContract ==
    ASSUME IInv, NEW p \in Procs, pc[p] \in {"commit", "claimCommit"}, CommitWallets(p),
           UNCHANGED funding, \A f \in Fundings : status'[f] = "absent" <=> status[f] = "absent",
           p \in Deliveries => status[about[p]] # "absent"
    PROVE  \E receipt :
             /\ receipt.kobo = Due(p)
             /\ p \in Deliveries =>
                  /\ receipt \notin credited[about[p]]
                  /\ credited' = [credited EXCEPT ![about[p]] = credited[about[p]] \cup {receipt}]
                  /\ payouts' = payouts
             /\ p \in Claims =>
                  /\ receipt \notin payouts[claimer[p]]
                  /\ payouts' = [payouts EXCEPT ![claimer[p]] = payouts[claimer[p]] \cup {receipt}]
                  /\ credited' = credited
  <1>i. TypeOK /\ Standing
    BY DEF IInv
  <1>w. p \in Deliveries \cup Claims /\ Wallet(p) \in Users
    BY <1>i, WalletType DEF FulfilTx, ClaimTx
  <1>0. PICK w, k, receipt : /\ w = Wallet(p) /\ k = Len(entries[w]) + 1
                             /\ receipt = [row |-> <<w, k>>, kobo |-> Due(p)]
    OBVIOUS
  <1>u. \A f \in Fundings : status[f] # "absent" => funding[f].user \in Users
    BY <1>i DEF Standing, Funding
  <1>1. ASSUME NEW f \in Fundings, status[f] # "absent"
        PROVE  /\ credited[f] = Receipts(funding[f].user, Credits(f))
               /\ credited'[f] = {[row |-> <<funding[f].user, i>>,
                                   kobo |-> entries'[funding[f].user][i].amount] : i \in Credits(f)'}
    BY <1>1 DEF credited, Receipts
  <1>2. ASSUME NEW f \in Fundings, status[f] = "absent"
        PROVE  credited[f] = {} /\ credited'[f] = {}
    BY <1>2 DEF credited
  <1>3. ASSUME NEW f \in Fundings, status[f] # "absent", f # Row(p)
        PROVE  credited'[f] = credited[f]
    <2> DEFINE u == funding[f].user
    <2>1. u \in Users
      BY <1>3, <1>u
    <2>a. /\ RowsOf(u, f) \subseteq DOMAIN entries[u]
          /\ RowsOf(u, f)' = RowsOf(u, f) \cup
               (IF u = Wallet(p) /\ f = Row(p) THEN {Len(entries[u]) + 1} ELSE {})
      BY <2>1, CommittedRowsOf
    <2>2. RowsOf(u, f)' = RowsOf(u, f) /\ RowsOf(u, f) \in SUBSET DOMAIN entries[u]
      BY <1>3, <2>a
    <2>3. Credits(f)' = RowsOf(u, f) /\ Credits(f) = RowsOf(u, f)
      BY <2>2 DEF Credits, RowsOf
    <2>4. {[row |-> <<u, i>>, kobo |-> entries'[u][i].amount] : i \in RowsOf(u, f)} =
            Receipts(u, RowsOf(u, f))
      <3>1. PICK v, rows, k2, r2 : /\ v = u /\ rows = RowsOf(u, f) /\ k2 = Len(entries[v]) + 1
                                   /\ r2 = [row |-> <<v, k2>>, kobo |-> Due(p)]
        OBVIOUS
      <3>2. {[row |-> <<v, i>>, kobo |-> entries'[v][i].amount] : i \in rows} = Receipts(v, rows)
        BY <2>1, <2>2, <3>1, CommittedReceipts
      <3> QED
        BY <3>1, <3>2
    <2> QED
      BY <1>1, <1>3, <2>3, <2>4
  <1>4. ASSUME NEW u \in Users
        PROVE  /\ payouts[u] = Receipts(u, UNION {RowsOf(u, c) : c \in Claims})
               /\ payouts'[u] = {[row |-> <<u, i>>, kobo |-> entries'[u][i].amount] :
                                    i \in UNION {RowsOf(u, c)' : c \in Claims}}
               /\ UNION {RowsOf(u, c) : c \in Claims} \in SUBSET DOMAIN entries[u]
    <2>1. \A c : RowsOf(u, c) \subseteq DOMAIN entries[u]
      BY DEF RowsOf
    <2> QED
      BY <2>1 DEF payouts, Receipts, RowsOf
  <1>5. ASSUME NEW u \in Users, u # w \/ p \notin Claims
        PROVE  payouts'[u] = payouts[u]
    <2>1. \A c \in Claims : RowsOf(u, c)' = RowsOf(u, c)
      <3> SUFFICES ASSUME NEW c \in Claims PROVE RowsOf(u, c)' = RowsOf(u, c)
        OBVIOUS
      <3>1. u # Wallet(p) \/ c # Row(p)
        <4>1. p \in Deliveries => Row(p) \notin Claims
          <5>1. p \in Deliveries => about[p] \in Fundings \cup {Nobody}
            BY <1>i DEF TypeOK
          <5> QED
            BY <5>1, Kinds DEF Row
        <4> QED
          BY <1>0, <1>5, <1>w, <4>1
      <3>2. RowsOf(u, c)' = RowsOf(u, c) \cup
              (IF u = Wallet(p) /\ c = Row(p) THEN {Len(entries[u]) + 1} ELSE {})
        BY CommittedRowsOf
      <3> QED
        BY <3>1, <3>2
    <2>2. UNION {RowsOf(u, c)' : c \in Claims} = UNION {RowsOf(u, c) : c \in Claims}
      BY <2>1
    <2>3. PICK rows : rows = UNION {RowsOf(u, c) : c \in Claims}
      OBVIOUS
    <2>4. rows \in SUBSET DOMAIN entries[u]
      BY <1>4, <2>3
    <2>5. {[row |-> <<u, i>>, kobo |-> entries'[u][i].amount] : i \in rows} = Receipts(u, rows)
      BY <2>4, CommittedReceipts
    <2> QED
      BY <1>4, <2>2, <2>3, <2>5
  <1>6. receipt.kobo = Due(p)
    BY <1>0
  <1>7. CASE p \in Deliveries
    <2>f. PICK f : f = about[p]
      OBVIOUS
    <2>1. f \in Fundings /\ status[f] # "absent" /\ Row(p) = f /\ w = funding[f].user
      <3>1. about[p] \in Fundings
        BY <1>i, <1>7 DEF Standing, Heard, FulfilTx, TypeOK, ClaimTx
      <3> QED
        BY <1>0, <1>7, <2>f, <3>1, Kinds DEF Row, Wallet, Payee
    <2>2. RowsOf(w, f)' = RowsOf(w, f) \cup {k} /\ RowsOf(w, f) \in SUBSET DOMAIN entries[w]
      BY <1>0, <1>w, <2>1, CommittedRowsOf
    <2>3. Credits(f)' = RowsOf(w, f) \cup {k} /\ Credits(f) = RowsOf(w, f)
      BY <2>1, <2>2 DEF Credits, RowsOf
    <2>4. /\ {[row |-> <<w, i>>, kobo |-> entries'[w][i].amount] : i \in RowsOf(w, f) \cup {k}} =
               Receipts(w, RowsOf(w, f)) \cup {receipt}
          /\ receipt \notin Receipts(w, RowsOf(w, f))
      BY <1>0, <1>w, <2>2, CommittedReceipts
    <2>5. credited'[f] = credited[f] \cup {receipt} /\ receipt \notin credited[f]
      BY <1>1, <2>1, <2>3, <2>4
    <2>6. \A g \in Fundings : g # f => credited'[g] = credited[g]
      BY <1>2, <1>3, <2>1
    <2>7. credited' = [credited EXCEPT ![f] = credited[f] \cup {receipt}]
      <3>1. DOMAIN credited = Fundings /\ credited = [g \in Fundings |-> credited[g]]
        BY DEF credited
      <3>2. credited' = [g \in Fundings |-> credited'[g]]
        BY DEF credited
      <3> QED
        BY <2>1, <2>5, <2>6, <3>1, <3>2
    <2>8. p \notin Claims /\ \A u \in Users : payouts'[u] = payouts[u]
      BY <1>5, <1>7, Kinds
    <2>9. payouts' = payouts
      BY <2>8 DEF payouts
    <2> QED
      BY <1>6, <2>f, <2>5, <2>7, <2>8, <2>9
  <1>8. CASE p \in Claims
    <2>1. w = claimer[p] /\ Row(p) = p /\ w \in Users /\ p \notin Fundings /\ p \notin Deliveries
      BY <1>0, <1>8, <1>w, Kinds DEF Wallet, Row
    <2>2. ASSUME NEW c \in Claims
          PROVE  RowsOf(w, c)' = RowsOf(w, c) \cup (IF c = p THEN {k} ELSE {})
      <3>1. RowsOf(w, c)' = RowsOf(w, c) \cup
              (IF w = Wallet(p) /\ c = Row(p) THEN {Len(entries[w]) + 1} ELSE {})
        BY <2>1, CommittedRowsOf
      <3> QED
        BY <1>0, <2>1, <3>1
    <2>3. PICK rows : rows = UNION {RowsOf(w, c) : c \in Claims}
      OBVIOUS
    <2>4. UNION {RowsOf(w, c)' : c \in Claims} = rows \cup {k}
      BY <1>8, <2>2, <2>3
    <2>5. rows \in SUBSET DOMAIN entries[w] /\ payouts[w] = Receipts(w, rows)
      BY <1>4, <2>1, <2>3
    <2>6. /\ {[row |-> <<w, i>>, kobo |-> entries'[w][i].amount] : i \in rows \cup {k}} =
               Receipts(w, rows) \cup {receipt}
          /\ receipt \notin Receipts(w, rows)
      <3>1. rows \in SUBSET DOMAIN entries[w] /\ w = Wallet(p)
        BY <1>0, <2>5
      <3> QED
        BY <1>0, <2>1, <3>1, CommittedReceipts
    <2>7. payouts'[w] = payouts[w] \cup {receipt} /\ receipt \notin payouts[w]
      BY <1>4, <2>1, <2>4, <2>5, <2>6
    <2>8. \A u \in Users : u # w => payouts'[u] = payouts[u]
      BY <1>5
    <2>9. payouts' = [payouts EXCEPT ![w] = payouts[w] \cup {receipt}]
      <3>1. DOMAIN payouts = Users /\ payouts = [u \in Users |-> payouts[u]]
        BY DEF payouts
      <3>2. payouts' = [u \in Users |-> payouts'[u]]
        BY DEF payouts
      <3> QED
        BY <2>1, <2>7, <2>8, <3>1, <3>2
    <2>10. \A f \in Fundings : credited'[f] = credited[f]
      BY <1>2, <1>3, <2>1
    <2>11. credited' = credited
      BY <2>10 DEF credited
    <2> QED
      BY <1>6, <2>1, <2>7, <2>9, <2>11
  <1> QED
    BY <1>7, <1>8, <1>w

\* A quiet step is not seen by the contract.
LEMMA QuietMaps ==
    ASSUME IInv, Quiet
    PROVE  UNCHANGED Contract!contractVars
  <1>1. UNCHANGED <<entries, status, referral>>
    BY DEF Quiet
  <1>2. asked' = asked
    BY <1>1 DEF Quiet, asked
  <1>3. \A f \in Fundings : status[f] # "absent" =>
          Receipts(funding[f].user, Credits(f))' = Receipts(funding[f].user, Credits(f))
    BY <1>1 DEF Quiet, Receipts, Credits, RowsOf
  <1>4. credited' = credited
    BY <1>1, <1>3 DEF credited
  <1>5. payouts' = payouts
    BY <1>1 DEF payouts, Receipts, RowsOf
  <1> QED
    BY <1>1, <1>2, <1>4, <1>5 DEF Contract!contractVars

\* An inserted funding is asked for under a key of its own.
LEMMA CreateMaps ==
    ASSUME KInv, NEW f \in Fundings, CreateFunding(f)
    PROVE  Contract!Ask(f) \/ UNCHANGED Contract!contractVars
  <1>i. TypeOK /\ Standing /\ RowsStand /\ KeysOwned
    BY DEF KInv, IInv
  <1>1. /\ pc[f] = "create" /\ UNCHANGED <<entries, funding, referral>>
        /\ \/ UNCHANGED <<status, keyRow>>
           \/ keyRow[funding[f].key] = Nobody /\ status' = [status EXCEPT ![f] = "PENDING"]
    BY DEF CreateFunding, At, walletVars, referralVars
  <1>2. CASE UNCHANGED <<status, keyRow>>
    <2>1. UNCHANGED reward
      BY DEF CreateFunding, referralVars
    <2>2. Quiet
      BY <1>1, <1>2, <2>1 DEF Quiet
    <2> QED
      BY <2>2, QuietMaps DEF KInv
  <1>3. CASE keyRow[funding[f].key] = Nobody /\ status' = [status EXCEPT ![f] = "PENDING"]
    <2>1. status[f] = "absent" /\ funding[f] \in Funding
      BY <1>i, <1>1 DEF Standing
    <2>2. \A g \in Fundings : status[g] # "absent" => funding[g].key # funding[f].key
      BY <1>i, <1>3, Kinds DEF KeysOwned
    <2>3. \A g \in Fundings : status[g] # "absent" => asked[g].key # funding[f].key
      BY <2>2 DEF asked
    <2>4. \A g \in Fundings : g # f => status'[g] = status[g]
      BY <1>i, <1>3 DEF TypeOK
    <2>5. status'[f] = "PENDING"
      BY <1>i, <1>3 DEF TypeOK
    <2>6. asked' = [asked EXCEPT ![f] = funding[f]]
      <3>1. asked = [g \in Fundings |-> IF status[g] = "absent" THEN Nobody ELSE funding[g]]
        BY DEF asked
      <3>2. asked' = [g \in Fundings |-> IF status'[g] = "absent" THEN Nobody ELSE funding[g]]
        BY <1>1 DEF asked
      <3>3. \A g \in Fundings : asked'[g] = IF g = f THEN funding[f] ELSE asked[g]
        BY <2>4, <2>5, <3>1, <3>2
      <3> QED
        BY <3>1, <3>2, <3>3
    <2>7. Receipts(funding[f].user, Credits(f)) = {}
      <3>1. funding[f].user \in Users
        BY <2>1 DEF Funding
      <3>2. Credits(f) = {}
        BY <1>i, <2>1, <3>1 DEF RowsStand, RowStands, Credits, RowsOf
      <3> QED
        BY <3>2 DEF Receipts
    <2>8. \A g \in Fundings :
            Receipts(funding[g].user, Credits(g))' = Receipts(funding[g].user, Credits(g))
      BY <1>1 DEF Receipts, Credits, RowsOf
    <2>9. credited' = credited
      <3>1. \A g \in Fundings : credited'[g] = credited[g]
        BY <2>1, <2>4, <2>5, <2>7, <2>8 DEF credited
      <3> QED
        BY <3>1 DEF credited
    <2>10. payouts' = payouts
      BY <1>1 DEF payouts, Receipts, RowsOf
    <2> QED
      BY <1>1, <1>3, <2>1, <2>3, <2>6, <2>9, <2>10 DEF Contract!Ask
  <1> QED
    BY <1>1, <1>2, <1>3

\* A fulfilment is one credit, and qualifies the referral if it is the first to.
LEMMA FulfilMaps ==
    ASSUME KInv, NEW d \in Deliveries, CommitFulfilment(d)
    PROVE  Contract!Credit(about[d])
  <1>i. IInv /\ TypeOK /\ Standing /\ Granting /\ Judged
    BY DEF KInv, IInv
  <1>0. PICK f, u : f = about[d] /\ u = Payee(d)
    OBVIOUS
  <1>1. pc[d] = "commit" /\ CommitWallets(d) /\ UNCHANGED funding
        /\ status' = [status EXCEPT ![f] = "SUCCESS"]
    BY <1>0 DEF CommitFulfilment, At
  <1>2. about[d] # Nobody
    BY <1>i, <1>1 DEF Standing, Heard, FulfilTx
  <1>3. /\ f \in Fundings /\ status[f] # "absent" /\ u \in Users /\ funding[f].user = u
        /\ d \in Procs /\ d \notin Claims
    BY <1>0, <1>i, <1>2, PayeeType, Kinds DEF Standing, Payee
  <1>4. \A g \in Fundings : status'[g] = "absent" <=> status[g] = "absent"
    BY <1>i, <1>1, <1>3 DEF TypeOK
  <1>5. PICK receipt : /\ receipt.kobo = Due(d)
                       /\ receipt \notin credited[f]
                       /\ credited' = [credited EXCEPT ![f] = credited[f] \cup {receipt}]
                       /\ payouts' = payouts
    BY <1>0, <1>i, <1>1, <1>3, <1>4, CommittedContract
  <1>6. asked[f] = funding[f] /\ asked' = asked
    BY <1>1, <1>3, <1>4 DEF asked
  <1>7. receipt.kobo = asked[f].amount
    BY <1>0, <1>3, <1>5, <1>6 DEF Due, Amount
  <1>8. receipt \in credited'[f] \ credited[f]
    BY <1>3, <1>5 DEF credited
  <1>9. Contract!Qualifies(f) <=> Qualifying(d)
    BY <1>0, <1>6 DEF Contract!Qualifies, Qualifying, Amount, Payee
  <1>10. Qualifying(d) <=> referralDraft[u] = d
    <2>1. referralDraft[u] = d => Amount(d) >= Threshold /\ Referrer[u] # Nobody
                                  /\ referral[u] = "PENDING_QUALIFICATION"
      BY <1>0, <1>i, <1>1, <1>3, Kinds DEF Judged, Granting
    <2>2. referralDraft[u] # d => ~ Qualifying(d)
      BY <1>0, <1>i, <1>1 DEF Judged
    <2> QED
      BY <1>0, <2>1, <2>2 DEF Qualifying
  <1>11. referral' = [referral EXCEPT ![u] = IF referralDraft[u] = d THEN "QUALIFIED" ELSE referral[u]]
    BY <1>0 DEF CommitFulfilment
  <1>12. referral' = IF Contract!Qualifies(f) THEN [referral EXCEPT ![asked[f].user] = "QUALIFIED"]
                                              ELSE referral
    BY <1>i, <1>3, <1>6, <1>9, <1>10, <1>11 DEF TypeOK
  <1> QED
    BY <1>0, <1>1, <1>3, <1>5, <1>6, <1>7, <1>8, <1>12 DEF Contract!Credit

\* A claim's rewards are of as many referrals.
LEMMA RewardsAreReferrals ==
    ASSUME IInv, NEW c \in Claims, NEW settled, settled = {Payee(d) : d \in claimed[c]}
    PROVE  Cardinality(settled) = Cardinality(claimed[c])
  <1>i. TypeOK /\ Claiming /\ OneRewardPerReferral
    BY DEF IInv
  <1>0. PICK S : S = claimed[c]
    OBVIOUS
  <1>1. S \subseteq Deliveries /\ IsFiniteSet(S)
    BY <1>0, <1>i, PaymentsAssumption, FS_Subset DEF TypeOK
  <1>2. \A d, e \in S : Payee(d) = Payee(e) => d = e
    BY <1>0, <1>i, <1>1 DEF Claiming, OneRewardPerReferral
  <1>3. PICK f : f = [d \in S |-> Payee(d)]
    OBVIOUS
  <1>4. f \in [S -> settled] /\ \A t \in settled : \E d \in S : f[d] = t
    BY <1>0, <1>3
  <1>5. f \in Surjection(S, settled)
    BY <1>4 DEF Surjection
  <1>6. IsFiniteSet(settled) /\ Cardinality(settled) <= Cardinality(S)
    BY <1>1, <1>5, FS_Surjection
  <1>7. ~ (Cardinality(settled) < Cardinality(S))
    <2> SUFFICES ASSUME Cardinality(settled) < Cardinality(S) PROVE FALSE
      OBVIOUS
    <2>1. \E x, y \in S : x # y /\ f[x] = f[y]
      BY <1>1, <1>4, <1>6, FS_PigeonHole
    <2> QED
      BY <1>2, <1>3, <2>1
  <1>8. Cardinality(settled) \in Nat /\ Cardinality(S) \in Nat
    BY <1>1, <1>6, FS_CardinalityType
  <1> QED
    BY <1>0, <1>6, <1>7, <1>8

\* A claim is one payout of a reward per referral it settles.
LEMMA ClaimMaps ==
    ASSUME KInv, NEW c \in Claims, ClaimCommit(c),
           NEW settled, settled = {Payee(d) : d \in claimed[c]}
    PROVE  /\ Contract!PayOut(claimer[c], settled)
           /\ claimer[c] \in Users /\ settled \in SUBSET Users
  <1>i. IInv /\ TypeOK /\ Standing /\ Claiming /\ Rewarded /\ ClaimsSome
    BY DEF KInv, IInv
  <1>1. pc[c] = "claimCommit" /\ CommitWallets(c) /\ UNCHANGED <<funding, status, about>>
    BY DEF ClaimCommit, At, fundVars
  <1>2. c \in Procs /\ c \notin Deliveries /\ claimer[c] \in Users
    BY <1>i, <1>1, Kinds DEF Standing, ClaimTx
  <1>3. claimed[c] # {} /\ claimed[c] \subseteq Deliveries
    BY <1>i, <1>1 DEF ClaimsSome, ClaimTx, TypeOK
  <1>4. \A d \in claimed[c] : /\ about[d] # Nobody /\ Referrer[Payee(d)] = claimer[c]
                              /\ referral[Payee(d)] # "PENDING_QUALIFICATION"
    BY <1>i, <1>3 DEF Claiming, Rewarded, Standing, Heard
  <1>5. settled \in SUBSET Users /\ settled # {}
    BY <1>i, <1>3, <1>4, PayeeType
  <1>6. \A v \in settled : Referrer[v] = claimer[c] /\ referral[v] # "PENDING_QUALIFICATION"
    BY <1>4
  <1>7. referral' = [v \in Users |-> IF v \in settled THEN "REWARDED" ELSE referral[v]]
    <2>1. referral' = [v \in Users |->
             IF \E d \in claimed[c] : Payee(d) = v THEN "REWARDED" ELSE referral[v]]
      BY DEF ClaimCommit
    <2>2. \A v : v \in settled <=> \E d \in claimed[c] : Payee(d) = v
      OBVIOUS
    <2> QED
      BY <2>1, <2>2
  <1>8. PICK receipt : /\ receipt.kobo = Due(c)
                       /\ receipt \notin payouts[claimer[c]]
                       /\ payouts' = [payouts EXCEPT ![claimer[c]] = payouts[claimer[c]] \cup {receipt}]
                       /\ credited' = credited
    BY <1>i, <1>1, <1>2, CommittedContract
  <1>9. receipt.kobo = RewardKobo * Cardinality(settled)
    BY <1>i, <1>8, RewardsAreReferrals DEF Due, ClaimTotal
  <1>10. receipt \in payouts'[claimer[c]] \ payouts[claimer[c]]
    BY <1>2, <1>8 DEF payouts
  <1>11. asked' = asked
    BY <1>1 DEF asked
  <1>12. PICK u : u = claimer[c]
    OBVIOUS
  <1>13. UNCHANGED <<status, asked, credited>>
    BY <1>1, <1>8, <1>11
  <1>14. \E r \in payouts'[u] \ payouts[u] :
           /\ r.kobo = RewardKobo * Cardinality(settled)
           /\ payouts' = [payouts EXCEPT ![u] = payouts[u] \cup {r}]
    BY <1>8, <1>9, <1>10, <1>12
  <1>15. \A v \in settled : Referrer[v] = u /\ referral[v] # "PENDING_QUALIFICATION"
    BY <1>6, <1>12
  <1>c. Contract!Cardinality(settled) = Cardinality(settled)
    BY Zenon DEF Contract!Cardinality, Cardinality
  <1>16. Contract!PayOut(u, settled)
    BY <1>5, <1>7, <1>13, <1>14, <1>15, <1>c, Zenon DEF Contract!PayOut
  <1> QED
    BY <1>2, <1>5, <1>12, <1>16

\* Every step keeps the contract.
LEMMA ContractStep ==
    ASSUME KInv, [Next]_vars
    PROVE  Contract!Next \/ UNCHANGED Contract!contractVars
  <1>1. ASSUME NEW f \in Fundings, CreateFunding(f)
        PROVE  Contract!Next \/ UNCHANGED Contract!contractVars
    BY <1>1, CreateMaps DEF Contract!Next
  <1>2. ASSUME NEW d \in Deliveries, CommitFulfilment(d)
        PROVE  Contract!Next
    <2>1. about[d] \in Fundings
      BY <1>2 DEF KInv, IInv, TypeOK, Standing, Heard, FulfilTx, CommitFulfilment, At
    <2> QED
      BY <1>2, <2>1, FulfilMaps DEF Contract!Next
  <1>3. ASSUME NEW c \in Claims, ClaimCommit(c)
        PROVE  Contract!Next
    <2>1. PICK settled : settled = {Payee(d) : d \in claimed[c]}
      OBVIOUS
    <2> QED
      BY <1>3, <2>1, ClaimMaps DEF Contract!Next
  <1>4. CASE Quiet
    BY <1>4, QuietMaps DEF KInv
  <1> QED
    BY <1>1, <1>2, <1>3, <1>4, StepKinds DEF KInv

\* Before any request the contract has not begun.
LEMMA ContractInit ==
    ASSUME Init
    PROVE  Contract!Init
  <1>1. /\ status = [f \in Fundings |-> "absent"]
        /\ referral = [u \in Users |-> "PENDING_QUALIFICATION"]
        /\ \A u \in Users : entries[u] = <<>>
    BY DEF Init, WalletInit
  <1>2. asked = [f \in Fundings |-> Nobody] /\ credited = [f \in Fundings |-> {}]
    BY <1>1 DEF asked, credited
  <1>3. ASSUME NEW u \in Users
        PROVE  Receipts(u, UNION {RowsOf(u, c) : c \in Claims}) = {}
    <2>1. \A c : RowsOf(u, c) = {}
      BY <1>1 DEF RowsOf
    <2>2. UNION {RowsOf(u, c) : c \in Claims} = {}
      BY <2>1
    <2> QED
      BY <2>2 DEF Receipts
  <1>4. payouts = [u \in Users |-> {}]
    BY <1>3 DEF payouts
  <1> QED
    BY <1>1, <1>2, <1>4 DEF Contract!Init

\* Whatever handlers race, fail and crash, what is committed is a behaviour of
\* FundingContract: a credit comes in one step with the SUCCESS and with the
\* qualification it causes, a payout in one step with the referrals it settles.
THEOREM FundingRefinement == Spec => ImplementsFundingContract
  <1>1. Init => Contract!Init
    BY ContractInit
  <1>2. KInv /\ [Next]_vars => [Contract!Next]_(Contract!contractVars)
    BY ContractStep
  <1> QED
    BY <1>1, <1>2, ContractInvariant, PTL DEF Spec, ImplementsFundingContract, Contract!Spec

\* While no two handlers fulfil one funding or claim for one user at a time,
\* which the code does not see to, it is one where nothing is credited or paid
\* out a second time: the overlaps are all that stands against it.
THEOREM FundingRefinementOnce ==
    Spec /\ []OneFulfilmentAtATime /\ []OneClaimAtATime => Contract!OnceSpec
  <1>1. Init => Contract!Init /\ FulfilsOnce /\ ClaimsOnce
    BY ContractInit, Kinds
    DEF Init, FulfilsOnce, Fulfilling, FulfilTx, ClaimsOnce, ClaimedOnce, ClaimTx, At
  <1>2. ASSUME KInv, FulfilsOnce, ClaimsOnce, [Next]_vars
        PROVE  Contract!OnceNext \/ UNCHANGED Contract!contractVars
    <2>i. TypeOK /\ Standing /\ Claiming /\ Rewarded
      BY <1>2 DEF KInv, IInv
    <2>1. ASSUME NEW f \in Fundings, CreateFunding(f)
          PROVE  Contract!OnceNext \/ UNCHANGED Contract!contractVars
      BY <1>2, <2>1, CreateMaps DEF Contract!OnceNext
    <2>2. ASSUME NEW d \in Deliveries, CommitFulfilment(d)
          PROVE  Contract!OnceNext
      <3>1. about[d] \in Fundings /\ status[about[d]] # "absent" /\ Fulfilling(d)
        BY <2>i, <2>2 DEF TypeOK, Standing, Heard, Fulfilling, FulfilTx, CommitFulfilment, At
      <3>2. status[about[d]] = "PENDING"
        BY <1>2, <2>i, <3>1 DEF FulfilsOnce, TypeOK
      <3>3. Contract!CreditOnce(about[d])
        BY <1>2, <2>2, <3>2, FulfilMaps DEF Contract!CreditOnce
      <3> QED
        BY <3>1, <3>3 DEF Contract!OnceNext
    <2>3. ASSUME NEW c \in Claims, ClaimCommit(c)
          PROVE  Contract!OnceNext
      <3>1. PICK settled : settled = {Payee(d) : d \in claimed[c]}
        OBVIOUS
      <3>2. /\ Contract!PayOut(claimer[c], settled)
            /\ claimer[c] \in Users /\ settled \in SUBSET Users
        BY <1>2, <2>3, <3>1, ClaimMaps
      <3>3. \A d \in claimed[c] : referral[Payee(d)] = "QUALIFIED"
        BY <1>2, <2>i, <2>3 DEF KInv, Outstanding, ClaimsOnce, TypeOK, ClaimCommit, At, ClaimTx
      <3> QED
        BY <3>1, <3>2, <3>3 DEF Contract!OnceNext, Contract!PayOutOnce
    <2> QED
      BY <1>2, <2>1, <2>2, <2>3, StepKinds, QuietMaps DEF KInv
  <1>3. KInv /\ FulfilsOnce /\ ClaimsOnce /\ [Next]_vars => [Contract!OnceNext]_(Contract!contractVars)
    BY <1>2
  <1>4. KInv => IInv
    BY DEF KInv
  <1>5. IInv /\ OneFulfilmentAtATime /\ FulfilsOnce /\ [Next]_vars => FulfilsOnce'
    BY FulfilsOnceStep
  <1>6. IInv /\ OneClaimAtATime /\ ClaimsOnce /\ [Next]_vars => ClaimsOnce'
    BY ClaimsOnceStep
  <1> QED
    BY <1>1, <1>3, <1>4, <1>5, <1>6, ContractInvariant, PTL DEF Spec, Contract!OnceSpec

-------------------------------------------------------------------------------
(* The trail, where no handler waits for a wallet *)

Writers == {"creditWrite", "claimWrite"}

\* Nobody waits for a wallet's row.
Uncontended == \A p, q \in Procs : WaitsFor(p, q) => pc[p] \notin Writers

\* What a handler has read and is about to write back is still the balance.
ReadsCurrent == \A p \in Procs : pc[p] \in Writers => seen[p] = balance[Wallet(p)]

CurrentInv == IInv /\ ReadsCurrent /\ DraftsCurrent /\ Reconciled

\* What webhooks and faults do to the handlers' places.
LEMMA PlacesMove ==
    ASSUME IInv, [Next]_vars, NEW q \in Procs, pc'[q] \in Writers
    PROVE  \/ CreditRead(q) \/ ClaimRead(q)
           \/ pc[q] = pc'[q] /\ seen'[q] = seen[q]
  <1>i. TypeOK /\ seen \in [Procs -> Int]
    BY DEF IInv, TypeOK, WalletTypeOK
  <1> DEFINE Keeps == pc[q] = pc'[q] /\ seen'[q] = seen[q]
  <1>m. ASSUME NEW r, NEW l, l \notin Writers, pc' = [pc EXCEPT ![r] = l], UNCHANGED seen
        PROVE  Keeps
    BY <1>i, <1>m DEF TypeOK
  <1>1. ASSUME NEW f \in Fundings, InitializeFunding(f) \/ CreateFunding(f)
        PROVE  Keeps
    <2>1. (\E l : l \notin Writers /\ pc' = [pc EXCEPT ![f] = l]) /\ UNCHANGED seen
      BY <1>1 DEF InitializeFunding, CreateFunding, Goto, Writers, walletVars
    <2> QED
      BY <1>m, <2>1
  <1>2. ASSUME NEW f \in Fundings, Pay(f)
        PROVE  Keeps
    BY <1>2 DEF Pay, walletVars
  <1>3. ASSUME NEW d \in Deliveries, VerifyPayment(d)
        PROVE  Keeps
    <2>1. (\E l : l \notin Writers /\ pc' = [pc EXCEPT ![d] = l]) /\ UNCHANGED seen
      BY <1>3 DEF VerifyPayment, Goto, Writers, walletVars
    <2> QED
      BY <1>m, <2>1
  <1>4. ASSUME NEW d \in Deliveries,
               HandlePaystackWebhook(d) \/ HandleFlutterwaveWebhook(d) \/ HandleMockWebhook(d)
        PROVE  Keeps
    <2>1. \E l : l \in {"refused", "ignored", "find"} /\ pc' = [pc EXCEPT ![d] = l]
      BY <1>4, WebhooksHeed, PaymentsAssumption DEF Heeds
    <2>2. UNCHANGED seen
      BY <1>4 DEF HandlePaystackWebhook, HandleFlutterwaveWebhook, HandleMockWebhook, walletVars
    <2> QED
      BY <1>m, <2>1, <2>2 DEF Writers
  <1>5. ASSUME NEW d \in Deliveries,
               \/ AskGateway(d) \/ FindFunding(d) \/ MarkSuccess(d) \/ CreditWrite(d)
               \/ Qualify(d) \/ Grant(d) \/ CommitFulfilment(d)
        PROVE  Keeps
    <2>1. \E l : l \notin Writers /\ pc' = [pc EXCEPT ![d] = l]
      BY <1>5 DEF AskGateway, FindFunding, MarkSuccess, CreditWrite, Qualify, Grant,
         CommitFulfilment, Goto, Writers
    <2>2. UNCHANGED seen
      BY <1>5 DEF AskGateway, FindFunding, MarkSuccess, CreditWrite, Qualify, Grant,
         CommitFulfilment, CommitWallets, CreditWallet, WriteWallet, walletVars
    <2> QED
      BY <1>m, <2>1, <2>2
  <1>6. ASSUME NEW c \in Claims,
               ClaimRewards(c) \/ ClaimLocked(c) \/ ClaimWrite(c) \/ ClaimCommit(c)
        PROVE  Keeps
    <2>1. \E l : l \notin Writers /\ pc' = [pc EXCEPT ![c] = l]
      BY <1>6 DEF ClaimRewards, ClaimLocked, ClaimWrite, ClaimCommit, Goto, Writers
    <2>2. UNCHANGED seen
      BY <1>6 DEF ClaimRewards, ClaimLocked, ClaimWrite, ClaimCommit, CommitWallets,
         CreditWallet, WriteWallet, walletVars
    <2> QED
      BY <1>m, <2>1, <2>2
  <1>7. ASSUME NEW p, p # q, CreditRead(p) \/ ClaimRead(p)
        PROVE  Keeps
    <2>1. \E l, x : pc' = [pc EXCEPT ![p] = l] /\ seen' = [seen EXCEPT ![p] = x]
      BY <1>7 DEF CreditRead, ClaimRead, ReadWallet, Goto
    <2> QED
      BY <1>i, <1>7, <2>1 DEF TypeOK
  <1>8. ASSUME NEW p \in Procs, Fail(p)
        PROVE  Keeps
    BY <1>m, <1>8 DEF Fail, Goto, Discard, RollbackWallets, Writers
  <1>9. CASE Crash
    BY <1>9 DEF Crash, Discard, RollbackWallets, Writers
  <1>10. CASE UNCHANGED vars
    BY <1>10 DEF vars, walletVars
  <1>11. ASSUME NEW d \in Deliveries, Fulfil(d)
         PROVE  Keeps \/ CreditRead(q)
    BY <1>5, <1>7, <1>11 DEF Fulfil
  <1>12. ASSUME NEW c \in Claims, ClaimRewards(c) \/ Claim(c)
         PROVE  Keeps \/ ClaimRead(q)
    BY <1>6, <1>7, <1>12 DEF Claim
  <1> QED
    BY <1>1, <1>2, <1>3, <1>4, <1>8, <1>9, <1>10, <1>11, <1>12 DEF Next, Terminated

\* Whose wallet a handler is about to write does not change under it.
LEMMA WalletsKeep ==
    ASSUME IInv, [Next]_vars, NEW q \in Procs, pc'[q] \in Writers
    PROVE  Wallet(q)' = Wallet(q)
  <1>1. IInv'
    BY PaymentsStep
  <1>i. /\ TypeOK /\ TypeOK' /\ Standing /\ Standing'
    BY <1>1 DEF IInv
  <1>2. CASE pc'[q] = "creditWrite"
    <2>1. q \in Deliveries
      BY <1>i, <1>2, Kinds DEF Standing, Heard, FulfilTx, ClaimTx
    <2>2. Fulfilling(q)'
      BY <1>2 DEF Fulfilling, FulfilTx
    <2>3. Payee(q)' = Payee(q)
      BY <2>1, <2>2, PayeesStay
    <2> QED
      BY <2>1, <2>3, Kinds DEF Wallet
  <1>3. CASE pc'[q] = "claimWrite"
    <2>1. q \in Claims
      BY <1>i, <1>3, Kinds DEF Standing, Heard, FulfilTx, ClaimTx
    <2>2. claimer'[q] = claimer[q]
      <3>1. pc[q] = pc'[q] \/ CreditRead(q) \/ ClaimRead(q)
        BY PlacesMove
      <3>2. pc[q] # "idle"
        BY <1>3, <3>1 DEF CreditRead, ClaimRead, At
      <3>3. ASSUME NEW c \in Claims, ClaimRewards(c)
            PROVE  claimer'[q] = claimer[q]
        BY <1>i, <3>2, <3>3 DEF ClaimRewards, At, TypeOK
      <3>4. ASSUME NEW c \in Claims, Claim(c)
            PROVE  UNCHANGED claimer
        BY <3>4 DEF Claim, ClaimRead, ClaimLocked, ClaimWrite, ClaimCommit, referralVars
      <3>5. ASSUME NEW f \in Fundings, InitializeFunding(f) \/ CreateFunding(f) \/ Pay(f)
            PROVE  UNCHANGED claimer
        BY <3>5 DEF InitializeFunding, CreateFunding, Pay, referralVars
      <3>6. ASSUME NEW d \in Deliveries,
                   \/ HandlePaystackWebhook(d) \/ HandleFlutterwaveWebhook(d)
                   \/ HandleMockWebhook(d) \/ VerifyPayment(d)
            PROVE  UNCHANGED claimer
        BY <3>6 DEF HandlePaystackWebhook, HandleFlutterwaveWebhook, HandleMockWebhook,
           VerifyPayment, referralVars
      <3>7. ASSUME NEW d \in Deliveries, Fulfil(d)
            PROVE  UNCHANGED claimer
        BY <3>7 DEF Fulfil, AskGateway, FindFunding, MarkSuccess, CreditRead, CreditWrite,
           Qualify, Grant, CommitFulfilment, referralVars
      <3>8. CASE (\E p \in Procs : Fail(p)) \/ Crash \/ UNCHANGED vars
        BY <3>8 DEF Fail, Crash, vars, referralVars
      <3> QED
        BY <3>3, <3>4, <3>5, <3>6, <3>7, <3>8 DEF Next, Terminated
    <2> QED
      BY <2>1, <2>2 DEF Wallet
  <1> QED
    BY <1>2, <1>3 DEF Writers

\* A step that neither writes nor commits leaves what is committed, and undoes
\* what is not at most.
LEMMA LedgerShapes ==
    ASSUME [Next]_vars
    PROVE  \/ \E d \in Deliveries : CreditWrite(d) \/ CommitFulfilment(d)
           \/ \E c \in Claims : ClaimWrite(c) \/ ClaimCommit(c)
           \/ /\ UNCHANGED <<balance, entries>>
              /\ \A u \in Users : dirty'[u] \in {dirty[u], Clean}
  <1> DEFINE Rest == /\ UNCHANGED <<balance, entries>>
                     /\ \A u \in Users : dirty'[u] \in {dirty[u], Clean}
  <1>1. ASSUME NEW f, InitializeFunding(f) \/ CreateFunding(f) \/ Pay(f)
        PROVE  Rest
    BY <1>1 DEF InitializeFunding, CreateFunding, Pay, walletVars
  <1>2. ASSUME NEW d,
               \/ HandlePaystackWebhook(d) \/ HandleFlutterwaveWebhook(d)
               \/ HandleMockWebhook(d) \/ VerifyPayment(d)
        PROVE  Rest
    BY <1>2 DEF HandlePaystackWebhook, HandleFlutterwaveWebhook, HandleMockWebhook,
       VerifyPayment, walletVars
  <1>3. ASSUME NEW d, Fulfil(d), ~ CreditWrite(d), ~ CommitFulfilment(d)
        PROVE  Rest
    BY <1>3 DEF Fulfil, AskGateway, FindFunding, MarkSuccess, CreditRead, Qualify, Grant,
       ReadWallet, walletVars
  <1>4. ASSUME NEW c, ClaimRewards(c) \/ Claim(c), ~ ClaimWrite(c), ~ ClaimCommit(c)
        PROVE  Rest
    BY <1>4 DEF ClaimRewards, Claim, ClaimRead, ClaimLocked, ReadWallet, walletVars
  <1>5. CASE (\E p \in Procs : Fail(p)) \/ Crash
    BY <1>5 DEF Fail, Crash, Discard, RollbackWallets
  <1>6. CASE UNCHANGED vars
    BY <1>6 DEF vars, walletVars
  <1> QED
    BY <1>1, <1>2, <1>3, <1>4, <1>5, <1>6 DEF Next, Terminated

\* A commit changes the balance of no wallet that another handler has read and
\* is about to write: that handler would be waiting for it.
LEMMA CurrentStep ==
    ASSUME CurrentInv, Uncontended, [Next]_vars
    PROVE  ReadsCurrent' /\ DraftsCurrent' /\ Reconciled'
  <1>i. IInv /\ TypeOK /\ WalletTypeOK /\ DraftsCurrent /\ Reconciled /\ Standing
    BY DEF CurrentInv, IInv, TypeOK
  <1> DEFINE CommitsWallet(p) == CommitFulfilment(p) \/ ClaimCommit(p)
             WritesWallet(p) == CreditWrite(p) \/ ClaimWrite(p)
  <1>w. ASSUME NEW p \in Procs, pc[p] \in Writers
        PROVE  /\ Wallet(p) \in Users /\ Due(p) \in Nat /\ Row(p) \in Refs
               /\ seen[p] = balance[Wallet(p)]
               /\ pc[p] = "creditWrite" => p \in Deliveries
               /\ pc[p] = "claimWrite" => p \in Claims
    <2>1. pc[p] \in FulfilTx \cup ClaimTx
      BY <1>w DEF Writers, FulfilTx, ClaimTx
    <2>2. Wallet(p) \in Users /\ Due(p) \in Nat /\ Row(p) \in Refs
      BY <1>i, <2>1, WalletType
    <2>3. /\ pc[p] = "creditWrite" => p \in Deliveries
          /\ pc[p] = "claimWrite" => p \in Claims
      BY <1>i, PlacesOfHandlers DEF FulfilTx, ClaimTx
    <2> QED
      BY <1>w, <2>2, <2>3 DEF CurrentInv, ReadsCurrent
  <1>c. ASSUME NEW p \in Procs, CommitsWallet(p)
        PROVE  /\ Reconciled' /\ DraftsCurrent'
               /\ \A u \in Users : ~ Owned(p, u) => balance'[u] = balance[u]
    <2>1. CommitWallets(p)
      BY <1>c DEF CommitFulfilment, ClaimCommit
    <2> QED
      BY <1>i, <2>1, CommitReconciles
  <1>b. ASSUME NEW q \in Procs, pc[q] \in Writers
        PROVE  balance'[Wallet(q)] = balance[Wallet(q)]
    <2>1. ASSUME NEW p \in Procs, CommitsWallet(p)
          PROVE  balance'[Wallet(q)] = balance[Wallet(q)]
      <3>1. /\ pc[q] = "creditWrite" => Wallet(q) = Payee(q)
            /\ pc[q] = "claimWrite" => Wallet(q) = claimer[q]
        BY <1>b, <1>w, Kinds DEF Wallet
      <3>2. ~ Owned(p, Wallet(q))
        BY <1>b, <3>1 DEF Uncontended, WaitsFor, Writers, At
      <3> QED
        BY <1>b, <1>c, <1>w, <2>1, <3>2
    <2>2. ASSUME NEW p \in Procs, WritesWallet(p)
          PROVE  UNCHANGED balance
      BY <2>2 DEF CreditWrite, ClaimWrite, CreditWallet, WriteWallet
    <2> QED
      BY <2>1, <2>2, LedgerShapes, Kinds
  <1>1. ReadsCurrent'
    <2> SUFFICES ASSUME NEW q \in Procs, pc'[q] \in Writers
                 PROVE  seen'[q] = balance'[Wallet(q)']
      BY DEF ReadsCurrent
    <2>0. Wallet(q)' = Wallet(q)
      BY <1>i, WalletsKeep
    <2>1. CASE pc[q] = pc'[q] /\ seen'[q] = seen[q]
      BY <1>b, <1>w, <2>0, <2>1
    <2>2. CASE CreditRead(q) \/ ClaimRead(q)
      <3>1. /\ CreditRead(q) => Wallet(q) = Payee(q)
            /\ ClaimRead(q) => Wallet(q) = claimer[q]
        BY <1>i, PlacesOfHandlers, Kinds DEF CreditRead, ClaimRead, At, Wallet, FulfilTx, ClaimTx
      <3>2. /\ UNCHANGED balance
            /\ \E u : u = Wallet(q) /\ seen' = [seen EXCEPT ![q] = balance[u]]
        BY <2>2, <3>1 DEF CreditRead, ClaimRead, ReadWallet
      <3> QED
        BY <1>i, <2>0, <3>2 DEF WalletTypeOK
    <2> QED
      BY <1>i, <2>1, <2>2, PlacesMove
  <1>2. ASSUME NEW p \in Procs, WritesWallet(p)
        PROVE  DraftsCurrent' /\ Reconciled'
    <2>1. pc[p] \in Writers
      BY <1>2 DEF CreditWrite, ClaimWrite, At, Writers
    <2>2. /\ CreditWrite(p) =>
               Wallet(p) = Payee(p) /\ Due(p) = Amount(p) /\ Row(p) = about[p]
          /\ ClaimWrite(p) =>
               Wallet(p) = claimer[p] /\ Due(p) = ClaimTotal(p) /\ Row(p) = p
      BY <1>w, Kinds DEF CreditWrite, ClaimWrite, At, Wallet, Due, Row, Writers
    <2>3. CreditWallet(p, Wallet(p), Due(p), Row(p))
      BY <1>2, <2>2 DEF CreditWrite, ClaimWrite
    <2>4. PICK e \in Entry : e.before = seen[p] /\ WriteWallet(p, Wallet(p), e.after, e)
      BY <1>i, <1>w, <2>1, <2>3, CreditWalletIsWrite
    <2>5. e.before = balance[Wallet(p)] /\ Wallet(p) \in Users
      BY <1>w, <2>1, <2>4
    <2> QED
      BY <1>i, <2>4, <2>5, WriteReconciles
  <1> QED
    BY <1>i, <1>1, <1>2, <1>c, LedgerShapes, QuietReconciles, Kinds

\* The strengthened invariant, while no handler waits for a wallet.
LEMMA CurrentInvariance == Spec /\ []Uncontended => []CurrentInv
  <1>1. Init => ReadsCurrent /\ DraftsCurrent /\ Reconciled
    BY FreshLedger DEF Init, ReadsCurrent, Writers
  <1>2. CurrentInv /\ Uncontended /\ [Next]_vars
          => ReadsCurrent' /\ DraftsCurrent' /\ Reconciled'
    BY CurrentStep
  <1> QED
    BY <1>1, <1>2, PaymentsInvariant, PTL DEF Spec, CurrentInv

\* While no handler waits for a wallet's row, fundings and reward payouts keep
\* the trail: each ledger row starts where the row before it ended, and the
\* newest ends at the balance.
THEOREM TrailUnlessContended == Spec /\ []Uncontended => []Reconciled
  <1>1. CurrentInv => Reconciled
    BY DEF CurrentInv
  <1> QED
    BY <1>1, CurrentInvariance, PTL
===============================================================================
