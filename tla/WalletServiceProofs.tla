------------------------- MODULE WalletServiceProofs -------------------------
(***************************************************************************)
(* What holds of WalletService.transferFunds for every number of users,    *)
(* handlers and keys.  The safety properties are not inductive: they follow*)
(* from IInv, which says which locks a handler holds at each await, that   *)
(* the balance it is about to write back is one the wallet has had, and    *)
(* what its uncommitted rows contain.  From IInv follows also who waits for*)
(* whom, and that deadlocks are rings of opposite transfers.               *)
(***************************************************************************)
EXTENDS WalletService, WalletLedgerProofs

-------------------------------------------------------------------------------
(* Types *)

\* A handler past "idle" serves a request with all its parts.
LEMMA RequestType ==
    ASSUME TypeOK, NEW p \in Procs, pc[p] # "idle"
    PROVE  /\ req[p] \in Request
           /\ req[p].from \in Users
           /\ req[p].to \in Users
           /\ req[p].amount \in Nat \ {0}
           /\ req[p].amount \in Amounts
           /\ req[p].key \in Keys
  BY ServiceAssumption DEF TypeOK, Request

\* Releasing idempotency keys keeps the type of the claims.
LEMMA ReleaseClaimsType ==
    ASSUME TypeOK, NEW P, ReleaseClaims(P)
    PROVE  claim' \in [Keys -> Procs \cup {Nobody}]
  BY DEF TypeOK, ReleaseClaims

\* Every step of a handler, and a crash, keeps the types.
LEMMA TypeStep ==
    ASSUME TypeOK, [Next]_vars
    PROVE  TypeOK'
  <1> USE DEF Goto, Open, Before, Running, Refusals, Ended
  <1>1. ASSUME NEW p \in Procs, Receive(p) PROVE TypeOK'
    BY <1>1 DEF TypeOK, Receive, walletVars, WalletTypeOK
  <1>2. ASSUME NEW p \in Procs, LookupKey(p) PROVE TypeOK'
    BY <1>2 DEF TypeOK, LookupKey, walletVars, WalletTypeOK
  <1>3. ASSUME NEW p \in Procs, Validate(p) PROVE TypeOK'
    BY <1>3 DEF TypeOK, Validate, walletVars, WalletTypeOK
  <1>4. ASSUME NEW p \in Procs, CreateMaster(p) PROVE TypeOK'
    BY <1>4 DEF TypeOK, CreateMaster, walletVars, WalletTypeOK
  <1>5. ASSUME NEW p \in Procs, DuplicateKey(p) PROVE TypeOK'
    BY <1>5 DEF TypeOK, DuplicateKey, walletVars, WalletTypeOK
  <1>6. ASSUME NEW p \in Procs, DebitRead(p) PROVE TypeOK'
    <2>1. WalletTypeOK'
      BY <1>6, RequestType, ReadWalletType DEF TypeOK, DebitRead
    <2> QED
      BY <1>6, <2>1 DEF TypeOK, DebitRead
  <1>7. ASSUME NEW p \in Procs, DebitRefused(p) PROVE TypeOK'
    <2>1. WalletTypeOK'
      BY <1>7, RollbackWalletsType DEF TypeOK, DebitRefused
    <2> QED
      BY <1>7, <2>1, ReleaseClaimsType DEF TypeOK, DebitRefused
  <1>8. ASSUME NEW p \in Procs, DebitWrite(p) PROVE TypeOK'
    <2>1. WalletTypeOK'
      BY <1>8, RequestType, DebitWalletIsWrite, WriteWalletType, ServiceAssumption
      DEF TypeOK, DebitWrite, Entry
    <2> QED
      BY <1>8, <2>1 DEF TypeOK, DebitWrite
  <1>9. ASSUME NEW p \in Procs, CreditRead(p) PROVE TypeOK'
    <2>1. WalletTypeOK'
      BY <1>9, RequestType, ReadWalletType DEF TypeOK, CreditRead
    <2> QED
      BY <1>9, <2>1 DEF TypeOK, CreditRead
  <1>10. ASSUME NEW p \in Procs, CreditWrite(p) PROVE TypeOK'
    <2>1. WalletTypeOK'
      BY <1>10, RequestType, CreditWalletIsWrite, WriteWalletType, ServiceAssumption
      DEF TypeOK, CreditWrite, Entry
    <2> QED
      BY <1>10, <2>1 DEF TypeOK, CreditWrite
  <1>11. ASSUME NEW p \in Procs, Commit(p) PROVE TypeOK'
    <2>1. WalletTypeOK'
      BY <1>11, CommitWalletsType DEF TypeOK, Commit
    <2> QED
      BY <1>11, <2>1, ReleaseClaimsType DEF TypeOK, Commit
  <1>12. ASSUME NEW p \in Procs, Fail(p) PROVE TypeOK'
    <2>1. WalletTypeOK'
      BY <1>12, RollbackWalletsType DEF TypeOK, Fail
    <2> QED
      BY <1>12, <2>1, ReleaseClaimsType DEF TypeOK, Fail
  <1>13. ASSUME NEW p \in Procs, Answer(p) PROVE TypeOK'
    BY <1>13 DEF TypeOK, Answer, walletVars, WalletTypeOK
  <1>14. CASE Crash
    <2>1. WalletTypeOK'
      BY <1>14, RollbackWalletsType DEF TypeOK, Crash
    <2> QED
      BY <1>14, <2>1, ReleaseClaimsType DEF TypeOK, Crash
  <1>15. CASE UNCHANGED vars
    BY <1>15 DEF TypeOK, vars, walletVars, WalletTypeOK
  <1> QED
    BY <1>1, <1>2, <1>3, <1>4, <1>5, <1>6, <1>7, <1>8, <1>9, <1>10, <1>11,
       <1>12, <1>13, <1>14, <1>15 DEF Next, Step, Terminated

\* Type correctness of transferFunds, for any numbers of users, handlers and
\* keys: every balance stays an integer and every ledger row a whole row.
THEOREM TypeCorrect == Spec => []TypeOK
  <1>1. Init => TypeOK
    BY WalletAssumption DEF Init, TypeOK, WalletInit, WalletTypeOK
  <1>2. TypeOK /\ [Next]_vars => TypeOK'
    BY TypeStep
  <1> QED
    BY <1>1, <1>2, PTL DEF Spec

-------------------------------------------------------------------------------
(* The inductive invariant *)

AfterDebit == {"creditRead", "creditWrite", "commit"}
Committed == {"answer", "done", "lost"}

\* A key belongs to the open transaction that inserted it, or to nobody.
KeysHeld ==
    /\ \A p \in Procs : pc[p] \in Open =>
         claim[req[p].key] = p /\ master[req[p].key] = Nobody
    /\ \A k \in Keys : claim[k] # Nobody =>
         pc[claim[k]] \in Open /\ req[claim[k]].key = k

\* A committed ledger row is of a handler that has committed, under its key.
RowsSettled ==
    \A u \in Users : \A i \in DOMAIN entries[u] :
        /\ pc[entries[u][i].ref] \in Committed
        /\ master[req[entries[u][i].ref].key] = entries[u][i].ref

\* The locks a handler holds follow from how far it has come.
LocksHeldBy(p) ==
    /\ pc[p] \in Open \cup {"begin"} => req[p].from # req[p].to
    /\ pc[p] \in AfterDebit => Owned(p, req[p].from)
    /\ pc[p] = "commit" => Owned(p, req[p].to)

LocksHeld == \A p \in Procs : LocksHeldBy(p)

\* What a handler has read and is about to write back was a balance of that
\* wallet, now or before.
SeenIsPastOf(p) ==
    /\ pc[p] = "debitWrite" =>
         seen[p] \in PastBalances(req[p].from) /\ seen[p] >= req[p].amount
    /\ pc[p] = "creditWrite" => seen[p] \in PastBalances(req[p].to)

SeenIsPast == \A p \in Procs : SeenIsPastOf(p)

DebitDraft(u) ==
    /\ pc[dirty[u].by] \in AfterDebit
    /\ u = req[dirty[u].by].from
    /\ dirty[u].entry.type = "DEBIT"
    /\ dirty[u].entry.before >= dirty[u].entry.amount
    /\ dirty[u].entry.after = dirty[u].entry.before - dirty[u].entry.amount

CreditDraft(u) ==
    /\ pc[dirty[u].by] = "commit"
    /\ u = req[dirty[u].by].to
    /\ dirty[u].entry.type = "CREDIT"
    /\ dirty[u].entry.after = dirty[u].entry.before + dirty[u].entry.amount

\* An uncommitted version is the debit or the credit its handler was asked for.
DraftMatches(u) ==
    dirty[u] # Clean =>
        /\ dirty[u].entry.ref = dirty[u].by
        /\ dirty[u].entry.amount = req[dirty[u].by].amount
        /\ dirty[u].entry.before \in PastBalances(u)
        /\ dirty[u].balance = dirty[u].entry.after
        /\ DebitDraft(u) \/ CreditDraft(u)

DraftsMatch == \A u \in Users : DraftMatches(u)

PastNonNegative == \A u \in Users : \A x \in PastBalances(u) : x >= 0

\* A committed key names a handler that has written its rows, and an answer
\* that mentions the key finds it committed.
KeysBacked ==
    /\ \A k \in Keys : master[k] # Nobody =>
         /\ pc[master[k]] \in Committed
         /\ req[master[k]].key = k
         /\ RowsOf(req[master[k]].from, master[k]) # {}
    /\ \A p \in Procs :
         /\ pc[p] \in {"answer", "done"} => master[req[p].key] = p
         /\ pc[p] = "conflict" => master[req[p].key] # Nobody

IInv ==
    /\ TypeOK
    /\ KeysHeld
    /\ KeysBacked
    /\ RowsSettled
    /\ LocksHeld
    /\ SeenIsPast
    /\ DraftsMatch
    /\ PastNonNegative
    /\ LatestEntryIsBalance

-------------------------------------------------------------------------------
(* What a step leaves alone *)

HandlerStep(p) == Receive(p) \/ Step(p) \/ Fail(p)

\* A committed row is a row, and names the handler that wrote it.
LEMMA RowType ==
    ASSUME TypeOK, NEW u \in Users, NEW i \in DOMAIN entries[u]
    PROVE  /\ entries[u][i] \in Entry
           /\ entries[u][i].ref \in Procs
           /\ entries[u][i].after \in Int
  <1>1. entries[u] \in Seq(Entry)
    BY DEF TypeOK, WalletTypeOK
  <1>2. entries[u][i] \in Entry
    BY <1>1
  <1> QED
    BY <1>2, ServiceAssumption DEF Entry

\* Committed rows are written by Commit alone.
LEMMA OnlyCommitPublishes ==
    ASSUME [Next]_vars, \A p \in Procs : ~ Commit(p)
    PROVE  UNCHANGED <<balance, entries, master>>
  BY DEF Next, Step, Receive, LookupKey, Validate, CreateMaster, DuplicateKey,
         DebitRead, DebitRefused, DebitWrite, CreditRead, CreditWrite, Answer,
         Fail, Crash, Terminated, vars, walletVars, ReadWallet, WriteWallet,
         DebitWallet, CreditWallet, RollbackWallets

\* A handler whose transaction has committed keeps its request and its outcome.
LEMMA CommittedStays ==
    ASSUME TypeOK, [Next]_vars, NEW p \in Procs, pc[p] \in Committed
    PROVE  pc'[p] \in Committed /\ req'[p] = req[p]
  BY DEF TypeOK, Next, Step, Receive, LookupKey, Validate, CreateMaster, DuplicateKey,
         DebitRead, DebitRefused, DebitWrite, CreditRead, CreditWrite, Commit, Answer,
         Fail, Crash, Terminated, vars, Goto, Committed, Before, Open, Running

\* The balances a wallet has had are never forgotten: the ledger only grows.
LEMMA PastGrows ==
    ASSUME TypeOK, [Next]_vars, NEW u \in Users
    PROVE  PastBalances(u) \subseteq PastBalances(u)'
  <1>1. ASSUME NEW p \in Procs, Commit(p)
        PROVE  PastBalances(u) \subseteq PastBalances(u)'
    BY <1>1, CommittedPast DEF Commit, TypeOK
  <1>2. CASE \A p \in Procs : ~ Commit(p)
    BY <1>2, OnlyCommitPublishes DEF PastBalances, Rows
  <1> QED
    BY <1>1, <1>2

\* A handler's step does not touch what another one has locked or read.
LEMMA OthersUntouched ==
    ASSUME TypeOK, NEW p \in Procs, HandlerStep(p), NEW q \in Procs, q # p
    PROVE  /\ pc'[q] = pc[q] /\ req'[q] = req[q] /\ seen'[q] = seen[q]
           /\ \A u \in Users : Owned(q, u)' = Owned(q, u)
           /\ \A u \in Users : Owned(q, u) => dirty'[u] = dirty[u]
  <1> USE DEF HandlerStep, Step, Receive, LookupKey, Validate, CreateMaster, DuplicateKey,
         DebitRead, DebitRefused, DebitWrite, CreditRead, CreditWrite, Commit, Answer,
         Fail, walletVars, ReadWallet, WriteWallet,
         DebitWallet, CreditWallet, RollbackWallets, CommitWallets
  <1>1. pc'[q] = pc[q] /\ req'[q] = req[q] /\ seen'[q] = seen[q]
    BY DEF TypeOK, WalletTypeOK, Goto
  <1>2. \A u \in Users : Owned(q, u)' = Owned(q, u)
    BY DEF TypeOK, WalletTypeOK, Owned
  <1>3. \A u \in Users : Owned(q, u) => dirty'[u] = dirty[u]
    BY DEF TypeOK, WalletTypeOK, Owned
  <1> QED
    BY <1>1, <1>2, <1>3

-------------------------------------------------------------------------------
(* Every step keeps the invariant, one conjunct at a time *)

\* The unique column at work: an insert waits for an uncommitted row and fails
\* on a committed one.
LEMMA KeysHeldStep ==
    ASSUME TypeOK, KeysHeld, [Next]_vars
    PROVE  KeysHeld'
  <1> USE ServiceAssumption DEF KeysHeld, TypeOK, Open, Goto, ReleaseClaims, Request
  <1>1. ASSUME NEW p \in Procs, Receive(p) PROVE KeysHeld'
    BY <1>1 DEF Receive
  <1>2. ASSUME NEW p \in Procs, LookupKey(p) \/ Validate(p) \/ DuplicateKey(p)
        PROVE  KeysHeld'
    BY <1>2 DEF LookupKey, Validate, DuplicateKey
  <1>3. ASSUME NEW p \in Procs, CreateMaster(p) PROVE KeysHeld'
    BY <1>3 DEF CreateMaster
  <1>4. ASSUME NEW p \in Procs,
               DebitRead(p) \/ DebitWrite(p) \/ CreditRead(p) \/ CreditWrite(p)
        PROVE  KeysHeld'
    BY <1>4 DEF DebitRead, DebitWrite, CreditRead, CreditWrite
  <1>5. ASSUME NEW p \in Procs, DebitRefused(p) \/ Fail(p) PROVE KeysHeld'
    BY <1>5 DEF DebitRefused, Fail, Before
  <1>6. ASSUME NEW p \in Procs, Commit(p) PROVE KeysHeld'
    BY <1>6 DEF Commit
  <1>7. ASSUME NEW p \in Procs, Answer(p) PROVE KeysHeld'
    BY <1>7 DEF Answer
  <1>8. CASE Crash
    BY <1>8 DEF Crash, Running
  <1>9. CASE UNCHANGED vars
    BY <1>9 DEF vars
  <1> QED
    BY <1>1, <1>2, <1>3, <1>4, <1>5, <1>6, <1>7, <1>8, <1>9 DEF Next, Step, Terminated

\* A committed row stays under the key of the handler that committed it.
LEMMA RowsSettledStep ==
    ASSUME TypeOK, KeysHeld, RowsSettled, DraftsMatch, [Next]_vars
    PROVE  RowsSettled'
  <1>1. ASSUME NEW u \in Users, NEW i \in DOMAIN entries[u]
        PROVE  LET p == entries[u][i].ref
               IN  pc'[p] \in Committed /\ req'[p] = req[p] /\ master[req[p].key] = p
    BY RowType, CommittedStays DEF RowsSettled
  <1>2. CASE \A p \in Procs : ~ Commit(p)
    BY <1>1, <1>2, OnlyCommitPublishes DEF RowsSettled
  <1>3. ASSUME NEW p \in Procs, Commit(p)
        PROVE  RowsSettled'
    <2>1. /\ WalletTypeOK
          /\ CommitWallets(p)
          /\ pc[p] = "commit"
          /\ master' = [master EXCEPT ![req[p].key] = p]
          /\ pc'[p] \in Committed
          /\ req' = req
          /\ req[p].key \in Keys
          /\ master[req[p].key] = Nobody
      BY <1>3, RequestType DEF Commit, TypeOK, Goto, Committed, KeysHeld, Open
    <2> SUFFICES ASSUME NEW u \in Users, NEW i \in DOMAIN entries'[u]
                 PROVE  /\ pc'[entries'[u][i].ref] \in Committed
                        /\ master'[req'[entries'[u][i].ref].key] = entries'[u][i].ref
      BY DEF RowsSettled
    <2>2. CASE i \in DOMAIN entries[u]
      <3> DEFINE q == entries[u][i].ref
      <3>1. entries'[u][i] = entries[u][i]
        BY <2>1, <2>2, CommittedTrail
      <3>2. q \in Procs
        BY <2>2, RowType
      <3>3. master[req[q].key] = q /\ pc'[q] \in Committed
        BY <1>1, <2>2
      <3>4. req[q].key # req[p].key
        BY <2>1, <3>2, <3>3, ServiceAssumption
      <3> QED
        BY <2>1, <3>1, <3>3, <3>4 DEF TypeOK
    <2>3. CASE i \notin DOMAIN entries[u]
      <3>1. Owned(p, u) /\ entries'[u][i] = dirty[u].entry
        BY <2>1, <2>3, CommittedTrail
      <3>2. dirty[u].entry.ref = p
        BY <3>1 DEF Owned, DraftsMatch, DraftMatches
      <3> QED
        BY <2>1, <3>1, <3>2 DEF TypeOK
    <2> QED
      BY <2>2, <2>3
  <1> QED
    BY <1>2, <1>3

\* No transfer writes a negative balance: a debit is at most what was read.
LEMMA PastNonNegativeStep ==
    ASSUME TypeOK, DraftsMatch, PastNonNegative, [Next]_vars
    PROVE  PastNonNegative'
  <1>1. CASE \A p \in Procs : ~ Commit(p)
    BY <1>1, OnlyCommitPublishes DEF PastNonNegative, PastBalances, Rows
  <1>2. ASSUME NEW p \in Procs, Commit(p)
        PROVE  PastNonNegative'
    <2>1. ASSUME NEW u \in Users, Owned(p, u)
          PROVE  dirty[u].entry.after >= 0
      <3>1. dirty[u].entry \in Entry /\ dirty[u].entry.before >= 0
        BY <2>1, DirtyType DEF TypeOK, Owned, DraftsMatch, DraftMatches, PastNonNegative
      <3> QED
        BY <2>1, <3>1 DEF Entry, Owned, DraftsMatch, DraftMatches, DebitDraft, CreditDraft
    <2> QED
      BY <1>2, <2>1, CommittedPast DEF Commit, TypeOK, PastNonNegative
  <1> QED
    BY <1>1, <1>2

\* A commit publishes a balance together with the row that ends at it.
LEMMA LatestEntryStep ==
    ASSUME TypeOK, DraftsMatch, LatestEntryIsBalance, [Next]_vars
    PROVE  LatestEntryIsBalance'
  <1>1. CASE \A p \in Procs : ~ Commit(p)
    BY <1>1, OnlyCommitPublishes DEF LatestEntryIsBalance, LatestBalance
  <1>2. ASSUME NEW p \in Procs, Commit(p), NEW u \in Users
        PROVE  balance'[u] = LatestBalance(u)'
    <2>1. WalletTypeOK /\ CommitWallets(p)
      BY <1>2 DEF Commit, TypeOK
    <2>2. CASE ~ Owned(p, u)
      BY <2>1, <2>2, CommittedTrail DEF LatestEntryIsBalance, LatestBalance
    <2>3. CASE Owned(p, u)
      <3>1. /\ balance'[u] = dirty[u].entry.after
            /\ entries[u] \in Seq(Entry)
            /\ dirty[u].entry \in Entry
            /\ entries'[u] = Append(entries[u], dirty[u].entry)
        BY <2>1, <2>3, CommittedTrail, DirtyType
        DEF Owned, DraftsMatch, DraftMatches, WalletTypeOK
      <3>2. entries'[u] # <<>> /\ entries'[u][Len(entries'[u])] = dirty[u].entry
        BY <3>1
      <3> QED
        BY <3>1, <3>2 DEF LatestBalance
    <2> QED
      BY <2>2, <2>3
  <1> QED
    BY <1>1, <1>2 DEF LatestEntryIsBalance

\* Row locks are kept from the write to the end of the transaction.
LEMMA LocksHeldStep ==
    ASSUME TypeOK, LocksHeld, DraftsMatch, [Next]_vars
    PROVE  LocksHeld'
  <1>1. ASSUME NEW p \in Procs, HandlerStep(p), NEW q \in Procs, q # p
        PROVE  LocksHeldBy(q)'
    <2>1. pc'[q] = pc[q] /\ req'[q] = req[q]
      BY <1>1, OthersUntouched
    <2>2. \A u \in Users : Owned(q, u)' = Owned(q, u)
      BY <1>1, OthersUntouched
    <2>3. pc[q] \in AfterDebit => req[q].from \in Users /\ req[q].to \in Users
      BY RequestType DEF AfterDebit
    <2>4. LocksHeldBy(q)
      BY DEF LocksHeld
    <2> QED
      BY <2>1, <2>2, <2>3, <2>4 DEF LocksHeldBy, AfterDebit, Owned
  <1>2. ASSUME NEW p \in Procs, HandlerStep(p)
        PROVE  LocksHeldBy(p)'
    <2> USE <1>2 DEF TypeOK, Goto, LocksHeldBy, AfterDebit, Open
    <2>0. LocksHeldBy(p)
      BY DEF LocksHeld
    <2>1. CASE \/ Receive(p) \/ LookupKey(p) \/ DuplicateKey(p) \/ DebitRefused(p)
               \/ Fail(p) \/ Commit(p) \/ Answer(p)
      BY <2>1 DEF Receive, LookupKey, DuplicateKey, DebitRefused, Fail, Commit, Answer
    <2>2. CASE Validate(p)
      BY <2>2 DEF Validate
    <2>3. CASE CreateMaster(p) \/ DebitRead(p)
      BY <2>0, <2>3 DEF CreateMaster, DebitRead
    <2>4. CASE DebitWrite(p)
      <3>1. /\ req[p].from \in Users /\ req[p].from # req[p].to
            /\ pc'[p] = "creditRead" /\ req' = req
        BY <2>0, <2>4, RequestType DEF DebitWrite
      <3>2. \E e \in Entry : WriteWallet(p, req[p].from, e.after, e)
        BY <2>4, DebitWalletIsWrite, RequestType, ServiceAssumption DEF DebitWrite
      <3>3. Owned(p, req[p].from)'
        BY <3>1, <3>2, WriteWalletOwns DEF Entry, Owned
      <3> QED
        BY <3>1, <3>3
    <2>5. CASE CreditRead(p)
      BY <2>0, <2>5 DEF CreditRead, ReadWallet, Owned
    <2>6. CASE CreditWrite(p)
      <3>1. /\ req[p].from \in Users /\ req[p].to \in Users
            /\ req[p].from # req[p].to
            /\ pc'[p] = "commit" /\ req' = req
        BY <2>0, <2>6, RequestType DEF CreditWrite
      <3>2. \E e \in Entry : WriteWallet(p, req[p].to, e.after, e)
        BY <2>6, CreditWalletIsWrite, RequestType, ServiceAssumption DEF CreditWrite
      <3>3. Owned(p, req[p].to)'
        BY <3>1, <3>2, WriteWalletOwns DEF Entry, Owned
      <3>4. Owned(p, req[p].from)'
        BY <2>0, <2>6, <3>1, <3>2, WriteWalletOwns DEF CreditWrite, Entry, Owned
      <3> QED
        BY <3>1, <3>3, <3>4
    <2> QED
      BY <2>1, <2>2, <2>3, <2>4, <2>5, <2>6 DEF HandlerStep, Step
  <1>3. CASE Crash
    <2>1. ASSUME NEW q \in Procs, pc[q] \notin Running
          PROVE  LocksHeldBy(q)'
      BY <1>3, <2>1 DEF Crash, TypeOK, Running, Before, Open, AfterDebit, LocksHeldBy
    <2>2. ASSUME NEW q \in Procs, pc[q] \in Running
          PROVE  LocksHeldBy(q)'
      BY <1>3, <2>2 DEF Crash, TypeOK, LocksHeldBy, Open, AfterDebit
    <2> QED
      BY <2>1, <2>2 DEF LocksHeld
  <1>4. CASE UNCHANGED vars
    BY <1>4 DEF vars, walletVars, LocksHeld, LocksHeldBy, Owned
  <1> QED
    BY <1>1, <1>2, <1>3, <1>4 DEF LocksHeld, Next, Terminated, HandlerStep

\* The current balance is one of those the ledger records.
LEMMA BalanceIsPast ==
    ASSUME TypeOK, LatestEntryIsBalance, NEW u \in Users
    PROVE  balance[u] \in PastBalances(u)
  <1>1. entries[u] \in Seq(Entry)
    BY DEF TypeOK, WalletTypeOK
  <1>2. entries[u] # <<>> => Len(entries[u]) \in DOMAIN entries[u]
    BY <1>1
  <1> QED
    BY <1>2 DEF LatestEntryIsBalance, LatestBalance, PastBalances, Rows

\* A balance that was read stays one the wallet has had.
LEMMA SeenIsPastStep ==
    ASSUME TypeOK, SeenIsPast, LatestEntryIsBalance, [Next]_vars
    PROVE  SeenIsPast'
  <1>1. \A u \in Users : balance[u] \in PastBalances(u)
    BY BalanceIsPast
  <1>2. ASSUME NEW p \in Procs, HandlerStep(p), NEW q \in Procs, q # p
        PROVE  SeenIsPastOf(q)'
    <2>1. pc'[q] = pc[q] /\ req'[q] = req[q] /\ seen'[q] = seen[q]
      BY <1>2, OthersUntouched
    <2>2. pc[q] \in {"debitWrite", "creditWrite"} =>
            /\ PastBalances(req[q].from) \subseteq PastBalances(req[q].from)'
            /\ PastBalances(req[q].to) \subseteq PastBalances(req[q].to)'
      BY RequestType, PastGrows, <1>2, <2>1 DEF HandlerStep, Next
    <2> QED
      BY <2>1, <2>2 DEF SeenIsPast, SeenIsPastOf, PastBalances, Rows
  <1>3. ASSUME NEW p \in Procs, HandlerStep(p)
        PROVE  SeenIsPastOf(p)'
    <2> USE <1>3 DEF TypeOK, Goto, SeenIsPastOf
    <2>1. CASE \/ Receive(p) \/ LookupKey(p) \/ DuplicateKey(p) \/ DebitRefused(p)
               \/ Fail(p) \/ Commit(p) \/ Answer(p) \/ Validate(p) \/ CreateMaster(p)
               \/ DebitWrite(p) \/ CreditWrite(p)
      BY <2>1 DEF Receive, LookupKey, DuplicateKey, DebitRefused, Fail, Commit, Answer,
                  Validate, CreateMaster, DebitWrite, CreditWrite
    <2>2. CASE DebitRead(p)
      <3>1. /\ req[p].from \in Users /\ req' = req /\ entries' = entries
            /\ pc'[p] = "debitWrite" /\ seen'[p] = balance[req[p].from]
            /\ balance[req[p].from] >= req[p].amount
        BY <2>2, RequestType DEF DebitRead, ReadWallet, CanDebit, WalletTypeOK
      <3> QED
        BY <1>1, <3>1 DEF PastBalances, Rows
    <2>3. CASE CreditRead(p)
      <3>1. /\ req[p].to \in Users /\ req' = req /\ entries' = entries
            /\ pc'[p] = "creditWrite" /\ seen'[p] = balance[req[p].to]
        BY <2>3, RequestType DEF CreditRead, ReadWallet, WalletTypeOK
      <3> QED
        BY <1>1, <3>1 DEF PastBalances, Rows
    <2> QED
      BY <2>1, <2>2, <2>3 DEF HandlerStep, Step
  <1>4. CASE Crash
    BY <1>4 DEF Crash, TypeOK, SeenIsPast, SeenIsPastOf, Running, Open,
                RollbackWallets, PastBalances, Rows
  <1>5. CASE UNCHANGED vars
    BY <1>5 DEF vars, walletVars, SeenIsPast, SeenIsPastOf, PastBalances, Rows
  <1> QED
    BY <1>2, <1>3, <1>4, <1>5 DEF SeenIsPast, Next, Terminated, HandlerStep

\* A version that a step does not write, of a handler whose position and
\* request the step does not change, still matches.
LEMMA DraftFrame ==
    ASSUME TypeOK, [Next]_vars, NEW u \in Users, DraftMatches(u),
           dirty[u] # Clean, dirty'[u] = dirty[u],
           pc'[dirty[u].by] = pc[dirty[u].by], req'[dirty[u].by] = req[dirty[u].by]
    PROVE  DraftMatches(u)'
  BY PastGrows DEF DraftMatches, DebitDraft, CreditDraft

\* What is uncommitted is what the request asked for.
LEMMA DraftsMatchStep ==
    ASSUME TypeOK, LocksHeld, SeenIsPast, DraftsMatch, [Next]_vars
    PROVE  DraftsMatch'
  <1>1. ASSUME NEW p \in Procs, HandlerStep(p), NEW u \in Users,
               dirty[u] # Clean, dirty[u].by # p
        PROVE  DraftMatches(u)'
    <2>1. dirty[u].by \in Procs
      BY <1>1, DirtyType DEF TypeOK
    <2>2. dirty'[u] = dirty[u]
      BY <1>1, <2>1, OthersUntouched DEF Owned
    <2>3. pc'[dirty[u].by] = pc[dirty[u].by] /\ req'[dirty[u].by] = req[dirty[u].by]
      BY <1>1, <2>1, OthersUntouched
    <2> QED
      BY <1>1, <2>2, <2>3, DraftFrame DEF DraftsMatch
  <1>2. ASSUME NEW p \in Procs, HandlerStep(p), NEW u \in Users,
               dirty[u] = Clean \/ dirty[u].by = p
        PROVE  DraftMatches(u)'
    <2> USE <1>2 DEF TypeOK, Goto
    <2>1. DraftMatches(u)
      BY DEF DraftsMatch
    <2>2. CASE \/ Receive(p) \/ LookupKey(p) \/ DuplicateKey(p) \/ Answer(p)
               \/ Validate(p) \/ CreateMaster(p) \/ DebitRead(p)
      <3>1. pc[p] \notin AfterDebit /\ dirty' = dirty
        BY <2>2 DEF Receive, LookupKey, DuplicateKey, Answer, Validate, CreateMaster,
                    DebitRead, ReadWallet, walletVars, AfterDebit
      <3>2. dirty[u] = Clean
        BY <2>1, <3>1 DEF DraftMatches, DebitDraft, CreditDraft, AfterDebit
      <3> QED
        BY <3>1, <3>2 DEF DraftMatches
    <2>3. CASE DebitRefused(p) \/ Fail(p) \/ Commit(p)
      <3>1. dirty'[u] = Clean
        BY <2>3 DEF DebitRefused, Fail, Commit, RollbackWallets, CommitWallets, Owned,
                    WalletTypeOK
      <3> QED
        BY <3>1 DEF DraftMatches
    <2>4. CASE DebitWrite(p)
      <3>1. /\ req' = req /\ pc[p] = "debitWrite" /\ pc'[p] = "creditRead"
            /\ req[p].from \in Users /\ req[p].amount \in Nat /\ p \in Refs
            /\ seen[p] \in PastBalances(req[p].from) /\ seen[p] >= req[p].amount
        BY <2>4, RequestType, ServiceAssumption DEF DebitWrite, SeenIsPast, SeenIsPastOf
      <3>2. PICK e \in Entry :
               /\ e.type = "DEBIT" /\ e.amount = req[p].amount /\ e.ref = p
               /\ e.before = seen[p] /\ e.after = seen[p] - req[p].amount
               /\ WriteWallet(p, req[p].from, e.after, e)
        BY <2>4, <3>1, DebitWalletIsWrite DEF DebitWrite
      <3>3. CASE u = req[p].from
        <4>1. dirty'[u].by = p /\ dirty'[u].balance = e.after /\ dirty'[u].entry = e
          BY <3>2, <3>3, WriteWalletOwns DEF Entry
        <4>2. PastBalances(u)' = PastBalances(u)
          BY <3>2 DEF WriteWallet, PastBalances, Rows
        <4> QED
          BY <3>1, <3>2, <3>3, <4>1, <4>2 DEF DraftMatches, DebitDraft, AfterDebit
      <3>4. CASE u # req[p].from
        <4>1. dirty'[u] = dirty[u]
          BY <3>1, <3>2, <3>4, WriteWalletOwns DEF Entry
        <4>2. dirty[u] = Clean
          BY <2>1, <3>1 DEF DraftMatches, DebitDraft, CreditDraft, AfterDebit
        <4> QED
          BY <4>1, <4>2 DEF DraftMatches
      <3> QED
        BY <3>3, <3>4
    <2>5. CASE CreditRead(p)
      <3>1. /\ dirty' = dirty /\ entries' = entries /\ req' = req
            /\ pc[p] = "creditRead" /\ pc'[p] = "creditWrite"
        BY <2>5 DEF CreditRead, ReadWallet
      <3>2. PastBalances(u)' = PastBalances(u)
        BY <3>1 DEF PastBalances, Rows
      <3> QED
        BY <2>1, <3>1, <3>2 DEF DraftMatches, DebitDraft, CreditDraft, AfterDebit
    <2>6. CASE CreditWrite(p)
      <3>1. /\ req' = req /\ pc[p] = "creditWrite" /\ pc'[p] = "commit"
            /\ req[p].to \in Users /\ req[p].amount \in Nat /\ p \in Refs
            /\ seen[p] \in PastBalances(req[p].to)
        BY <2>6, RequestType, ServiceAssumption DEF CreditWrite, SeenIsPast, SeenIsPastOf
      <3>2. PICK e \in Entry :
               /\ e.type = "CREDIT" /\ e.amount = req[p].amount /\ e.ref = p
               /\ e.before = seen[p] /\ e.after = seen[p] + req[p].amount
               /\ WriteWallet(p, req[p].to, e.after, e)
        BY <2>6, <3>1, CreditWalletIsWrite DEF CreditWrite
      <3>3. PastBalances(u)' = PastBalances(u)
        BY <3>2 DEF WriteWallet, PastBalances, Rows
      <3>4. CASE u = req[p].to
        <4>1. dirty'[u].by = p /\ dirty'[u].balance = e.after /\ dirty'[u].entry = e
          BY <3>2, <3>4, WriteWalletOwns DEF Entry
        <4> QED
          BY <3>1, <3>2, <3>3, <3>4, <4>1 DEF DraftMatches, CreditDraft
      <3>5. CASE u # req[p].to
        <4>1. dirty'[u] = dirty[u]
          BY <3>1, <3>2, <3>5, WriteWalletOwns DEF Entry
        <4> QED
          BY <2>1, <3>1, <3>3, <4>1 DEF DraftMatches, DebitDraft, CreditDraft, AfterDebit
      <3> QED
        BY <3>4, <3>5
    <2> QED
      BY <2>2, <2>3, <2>4, <2>5, <2>6 DEF HandlerStep, Step
  <1>3. CASE Crash
    <2>1. ASSUME NEW u \in Users, dirty[u] # Clean
          PROVE  dirty[u].by \in Procs /\ pc[dirty[u].by] \in Running
      BY <2>1, DirtyType DEF TypeOK, DraftsMatch, DraftMatches, DebitDraft, CreditDraft,
                             AfterDebit, Running, Open
    <2>2. \A u \in Users : dirty'[u] = Clean
      BY <1>3, <2>1 DEF Crash, RollbackWallets, Owned, TypeOK, WalletTypeOK
    <2> QED
      BY <2>2 DEF DraftsMatch, DraftMatches
  <1>4. CASE UNCHANGED vars
    BY <1>4 DEF vars, walletVars, DraftsMatch, DraftMatches, DebitDraft, CreditDraft,
                PastBalances, Rows
  <1> QED
    BY <1>1, <1>2, <1>3, <1>4 DEF DraftsMatch, Next, Terminated, HandlerStep

\* A key is committed together with the ledger rows of its handler.
LEMMA KeysBackedStep ==
    ASSUME TypeOK, KeysHeld, KeysBacked, LocksHeld, DraftsMatch, [Next]_vars
    PROVE  KeysBacked'
  <1>1. ASSUME NEW k \in Keys, master[k] # Nobody
        PROVE  /\ master'[k] = master[k]
               /\ pc'[master[k]] \in Committed
               /\ req'[master[k]].key = k
               /\ RowsOf(req[master[k]].from, master[k])' # {}
    <2> DEFINE q == master[k]
    <2>1. q \in Procs /\ pc[q] \in Committed /\ req[q].key = k
      BY <1>1 DEF KeysBacked, TypeOK
    <2>2. pc'[q] \in Committed /\ req'[q] = req[q] /\ req[q].from \in Users
      BY <2>1, CommittedStays, RequestType DEF Committed
    <2>3. PICK i \in DOMAIN entries[req[q].from] : entries[req[q].from][i].ref = q
      BY <1>1 DEF KeysBacked, RowsOf
    <2>4. CASE \A p \in Procs : ~ Commit(p)
      BY <2>1, <2>2, <2>3, <2>4, OnlyCommitPublishes DEF RowsOf
    <2>5. ASSUME NEW p \in Procs, Commit(p)
          PROVE  /\ master'[k] = master[k]
                 /\ i \in DOMAIN entries'[req[q].from]
                 /\ entries'[req[q].from][i].ref = q
      <3>1. req[p].key # k
        BY <1>1, <2>5 DEF KeysHeld, Commit, Open
      <3>2. CommitWallets(p) /\ WalletTypeOK
        BY <2>5 DEF Commit, TypeOK
      <3>3. i \in DOMAIN entries'[req[q].from] /\ entries'[req[q].from][i].ref = q
        BY <2>2, <2>3, <3>2, CommittedTrail
      <3> QED
        BY <2>5, <3>1, <3>3 DEF Commit, TypeOK
    <2> QED
      BY <2>1, <2>2, <2>3, <2>4, <2>5 DEF RowsOf
  <1>2. ASSUME NEW p \in Procs, Commit(p)
        PROVE  /\ pc'[p] = "answer" /\ req' = req
               /\ master' = [master EXCEPT ![req[p].key] = p]
               /\ RowsOf(req[p].from, p)' # {}
    <2>1. /\ CommitWallets(p) /\ WalletTypeOK /\ req' = req /\ pc'[p] = "answer"
          /\ master' = [master EXCEPT ![req[p].key] = p]
          /\ req[p].from \in Users
          /\ pc[p] = "commit"
      BY <1>2, RequestType DEF Commit, TypeOK, Goto
    <2>2. Owned(p, req[p].from)
      BY <2>1 DEF LocksHeld, LocksHeldBy, AfterDebit
    <2>3. dirty[req[p].from].entry.ref = p
      BY <2>1, <2>2 DEF DraftsMatch, DraftMatches, Owned
    <2>4. \E i \in DOMAIN entries'[req[p].from] : entries'[req[p].from][i].ref = p
      BY <2>1, <2>2, <2>3, CommittedTrail
    <2> QED
      BY <2>1, <2>4 DEF RowsOf
  <1>3. ASSUME NEW k \in Keys, master'[k] # Nobody
        PROVE  /\ pc'[master'[k]] \in Committed
               /\ req'[master'[k]].key = k
               /\ RowsOf(req[master[k]].from, master[k])' # {}
    <2>1. CASE master[k] # Nobody
      BY <1>1, <2>1 DEF RowsOf
    <2>2. CASE master[k] = Nobody
      <3>1. PICK p \in Procs : Commit(p)
        BY <1>3, <2>2, OnlyCommitPublishes
      <3>2. k = req[p].key /\ master'[k] = p
        BY <1>2, <1>3, <2>2, <3>1 DEF TypeOK
      <3> QED
        BY <1>2, <3>1, <3>2 DEF Committed, RowsOf
    <2> QED
      BY <2>1, <2>2
  <1>4. ASSUME NEW p \in Procs, pc'[p] \in {"answer", "done"}
        PROVE  master'[req'[p].key] = p
    <2>1. CASE pc[p] \in {"answer", "done"}
      BY <1>1, <2>1, CommittedStays, RequestType, ServiceAssumption DEF KeysBacked, Committed
    <2>2. CASE pc[p] \notin {"answer", "done"}
      <3>1. Commit(p)
        BY <1>4, <2>2 DEF TypeOK, Next, Step, Receive, LookupKey, Validate, CreateMaster,
           DuplicateKey, DebitRead, DebitRefused, DebitWrite, CreditRead, CreditWrite,
           Commit, Answer, Fail, Crash, Terminated, vars, Goto
      <3> QED
        BY <1>2, <3>1, RequestType DEF TypeOK, Commit
    <2> QED
      BY <2>1, <2>2
  <1>5. ASSUME NEW p \in Procs, pc'[p] = "conflict"
        PROVE  master'[req'[p].key] # Nobody
    <2>1. pc[p] \in {"lookup", "conflict"} /\ req'[p] = req[p]
      BY <1>5 DEF TypeOK, Next, Step, Receive, LookupKey, Validate, CreateMaster,
         DuplicateKey, DebitRead, DebitRefused, DebitWrite, CreditRead, CreditWrite,
         Commit, Answer, Fail, Crash, Terminated, vars, Goto
    <2>2. master[req[p].key] # Nobody
      <3>1. CASE pc[p] = "conflict"
        BY <3>1 DEF KeysBacked
      <3>2. CASE pc[p] = "lookup"
        BY <1>5, <3>2 DEF TypeOK, Next, Step, Receive, LookupKey, Validate, CreateMaster,
           DuplicateKey, DebitRead, DebitRefused, DebitWrite, CreditRead, CreditWrite,
           Commit, Answer, Fail, Crash, Terminated, vars, Goto
      <3> QED
        BY <2>1, <3>1, <3>2
    <2> QED
      BY <1>1, <2>1, <2>2, RequestType
  <1> QED
    BY <1>3, <1>4, <1>5 DEF KeysBacked, RowsOf

\* The rows one handler has in one wallet.
WholeAt(p, u) ==
    /\ u \notin Wallets(p) => RowsOf(u, p) = {}
    /\ u \in Wallets(p) => \E i \in DOMAIN entries[u] :
         /\ RowsOf(u, p) = {i}
         /\ entries[u][i].amount = req[p].amount
         /\ entries[u][i].type = (IF u = req[p].from THEN "DEBIT" ELSE "CREDIT")

\* A handler has rows only after its commit, and keeps its request then.
LEMMA ExecutedIsCommitted ==
    ASSUME IInv, NEW p \in Procs, Executed(p)
    PROVE  pc[p] \in Committed
  BY DEF IInv, RowsSettled, Executed, RowsOf

\* A commit adds the rows of its own handler, in the two wallets it is between.
LEMMA CommitIsWhole ==
    ASSUME IInv, NEW p \in Procs, Commit(p), NEW u \in Users
    PROVE  /\ WholeAt(p, u)'
           /\ \A q \in Procs : q # p => RowsOf(u, q)' = RowsOf(u, q)
           /\ \A i \in DOMAIN entries[u] :
                i \in DOMAIN entries'[u] /\ entries'[u][i] = entries[u][i]
  <1>1. /\ WalletTypeOK /\ CommitWallets(p) /\ pc[p] = "commit" /\ req' = req
        /\ req[p].from # req[p].to
        /\ Owned(p, req[p].from) /\ Owned(p, req[p].to)
    BY DEF IInv, TypeOK, Commit, LocksHeld, LocksHeldBy, Open, AfterDebit
  <1>2. RowsOf(u, p) = {}
    <2>1. ~ Executed(p)
      BY <1>1, ExecutedIsCommitted DEF Committed
    <2> QED
      BY <2>1 DEF Executed
  <1>3. CASE ~ Owned(p, u)
    <2>1. entries'[u] = entries[u] /\ u \notin Wallets(p)
      BY <1>1, <1>3, CommittedTrail DEF Wallets
    <2> QED
      BY <1>1, <1>2, <2>1 DEF WholeAt, Wallets, RowsOf
  <1>4. CASE Owned(p, u)
    <2> DEFINE n == Len(entries[u]) + 1
               e == dirty[u].entry
    <2>1. /\ e.ref = p /\ e.amount = req[p].amount
          /\ \/ u = req[p].from /\ e.type = "DEBIT"
             \/ u = req[p].to /\ e.type = "CREDIT"
      BY <1>4 DEF IInv, DraftsMatch, DraftMatches, DebitDraft, CreditDraft, Owned
    <2>2. /\ n \in DOMAIN entries'[u] /\ n \notin DOMAIN entries[u]
          /\ \A i \in DOMAIN entries'[u] : i \in DOMAIN entries[u] \/ i = n
          /\ \A i \in DOMAIN entries[u] :
                i \in DOMAIN entries'[u] /\ entries'[u][i] = entries[u][i]
          /\ entries'[u][n] = e
      BY <1>1, <1>4, CommittedTrail
    <2> HIDE DEF n, e
    <2>3. RowsOf(u, p)' = {n}
      BY <1>2, <2>1, <2>2 DEF RowsOf
    <2>4. \A q \in Procs : q # p => RowsOf(u, q)' = RowsOf(u, q)
      BY <2>1, <2>2 DEF RowsOf
    <2>5. WholeAt(p, u)'
      BY <1>1, <2>1, <2>2, <2>3 DEF WholeAt, Wallets
    <2> QED
      BY <2>2, <2>4, <2>5
  <1> QED
    BY <1>3, <1>4

\* Rows are appended at a commit only, and only to what the handler is between.
LEMMA TransferWholeStep == IInv /\ TransferWhole /\ [Next]_vars => TransferWhole'
  <1> SUFFICES ASSUME IInv, TransferWhole, [Next]_vars, NEW p \in Procs, Executed(p)',
                      NEW u \in Users
               PROVE  WholeAt(p, u)'
    BY DEF TransferWhole, WholeAt
  <1>1. ASSUME Executed(p)
        PROVE  WholeAt(p, u) /\ req'[p] = req[p]
    BY <1>1, ExecutedIsCommitted, CommittedStays DEF IInv, TransferWhole, WholeAt
  <1>2. CASE \A q \in Procs : ~ Commit(q)
    <2>1. entries' = entries
      BY <1>2, OnlyCommitPublishes
    <2>2. Executed(p)
      BY <2>1 DEF Executed, RowsOf
    <2> QED
      BY <1>1, <2>1, <2>2 DEF WholeAt, Wallets, RowsOf
  <1>3. ASSUME NEW q \in Procs, Commit(q) PROVE WholeAt(p, u)'
    <2>1. CASE q = p
      BY <1>3, <2>1, CommitIsWhole
    <2>2. CASE q # p
      <3>1. Executed(p)
        BY <1>3, <2>2, CommitIsWhole DEF Executed
      <3>2. /\ RowsOf(u, p)' = RowsOf(u, p)
            /\ \A i \in DOMAIN entries[u] :
                  i \in DOMAIN entries'[u] /\ entries'[u][i] = entries[u][i]
        BY <1>3, <2>2, CommitIsWhole
      <3> QED
        BY <1>1, <3>1, <3>2 DEF WholeAt, Wallets
    <2> QED
      BY <2>1, <2>2
  <1> QED
    BY <1>2, <1>3

-------------------------------------------------------------------------------
(* The theorems *)

\* The inductive invariant holds in every state transferFunds can reach, with
\* transfers interleaved at every await, failing and crashing.
THEOREM Invariance == Spec => []IInv
  <1>1. Init => IInv
    <2> SUFFICES ASSUME Init PROVE IInv
      OBVIOUS
    <2>1. TypeOK
      BY WalletAssumption DEF Init, TypeOK, WalletInit, WalletTypeOK
    <2>2. ASSUME NEW u \in Users
          PROVE  PastBalances(u) = {InitialKobo[u]} /\ entries[u] = <<>>
      <3>1. entries[u] = <<>> /\ DOMAIN entries[u] = {}
        BY DEF Init, WalletInit
      <3> QED
        BY <3>1 DEF PastBalances, Rows
    <2>3. PastNonNegative /\ LatestEntryIsBalance
      BY <2>2, WalletAssumption
      DEF Init, WalletInit, PastNonNegative, LatestEntryIsBalance, LatestBalance
    <2>4. KeysHeld /\ KeysBacked /\ LocksHeld /\ SeenIsPast
      BY DEF Init, KeysHeld, KeysBacked, LocksHeld, LocksHeldBy, SeenIsPast,
             SeenIsPastOf, Open, AfterDebit
    <2>5. RowsSettled /\ DraftsMatch
      BY <2>2 DEF Init, WalletInit, RowsSettled, DraftsMatch, DraftMatches
    <2> QED
      BY <2>1, <2>3, <2>4, <2>5 DEF IInv
  <1>2. TypeOK /\ IInv /\ [Next]_vars => IInv'
    BY TypeStep, KeysHeldStep, KeysBackedStep, RowsSettledStep, LocksHeldStep, SeenIsPastStep,
       DraftsMatchStep, PastNonNegativeStep, LatestEntryStep DEF IInv
  <1> QED
    BY <1>1, <1>2, PTL DEF Spec, IInv

\* No row lock and no uncommitted key outlives its transaction, however
\* transferFunds ends: commit, refusal, failure or crash.
THEOREM LocksAreReleased == Spec => []NoOrphanLocks
  <1>1. IInv => NoOrphanLocks
    BY DEF IInv, NoOrphanLocks, KeysHeld, DraftsMatch, DraftMatches, DebitDraft,
           CreditDraft, AfterDebit, Open, Wallets
  <1> QED
    BY <1>1, Invariance, PTL

\* No interleaving of transfers makes a balance negative, although
\* debitWallet checks one row version and overwrites another.
THEOREM BalancesStayNonNegative == Spec => []NonNegative
  <1>1. IInv => NonNegative
    <2> SUFFICES ASSUME IInv, NEW u \in Users PROVE balance[u] >= 0
      BY DEF NonNegative
    <2>1. balance[u] \in PastBalances(u)
      BY BalanceIsPast DEF IInv
    <2> QED
      BY <2>1 DEF IInv, PastNonNegative
  <1> QED
    BY <1>1, Invariance, PTL

\* After any interleaving of transfers a wallet holds what its newest ledger
\* row says (docs/PHASE_3, section 3.2).
THEOREM LedgerEndsAtBalance == Spec => []LatestEntryIsBalance
  <1>1. IInv => LatestEntryIsBalance
    BY DEF IInv
  <1> QED
    BY <1>1, Invariance, PTL

\* Two transfers with one idempotency key are never both executed, whatever
\* the lookup outside the transaction found.
THEOREM KeysAreUsedOnce == Spec => []OneTransferPerKey
  <1>1. IInv => OneTransferPerKey
    <2> SUFFICES ASSUME IInv, NEW p \in Procs, NEW q \in Procs,
                        Executed(p), Executed(q), req[p].key = req[q].key
                 PROVE  p = q
      BY DEF OneTransferPerKey
    <2>1. master[req[p].key] = p /\ master[req[q].key] = q
      BY DEF IInv, RowsSettled, Executed, RowsOf
    <2> QED
      BY <2>1
  <1> QED
    BY <1>1, Invariance, PTL

\* A transfer answered as done is in the ledger, a refused one is not, and a
\* conflict is answered only if another transfer has used the key.
THEOREM ClientsAreToldTheTruth == Spec => []AnswersAreTrue
  <1>1. IInv => AnswersAreTrue
    <2> SUFFICES ASSUME IInv, NEW p \in Procs
                 PROVE  /\ pc[p] = "done" => Executed(p)
                        /\ pc[p] \in Refusals => ~ Executed(p)
                        /\ pc[p] = "conflict" =>
                             \E q \in Procs : Executed(q) /\ req[q].key = req[p].key
      BY DEF AnswersAreTrue
    <2>1. ASSUME NEW k \in Keys, master[k] # Nobody
          PROVE  /\ master[k] \in Procs
                 /\ req[master[k]].key = k
                 /\ Executed(master[k])
      <3>1. master[k] \in Procs /\ pc[master[k]] # "idle" /\ req[master[k]].key = k
        BY <2>1 DEF IInv, TypeOK, KeysBacked, Committed
      <3>2. req[master[k]].from \in Users
        BY <3>1, RequestType DEF IInv
      <3> QED
        BY <2>1, <3>1, <3>2 DEF IInv, KeysBacked, Executed
    <2>2. pc[p] = "done" => Executed(p)
      BY <2>1, RequestType, ServiceAssumption DEF IInv, KeysBacked
    <2>3. pc[p] \in Refusals => ~ Executed(p)
      BY DEF IInv, RowsSettled, Executed, RowsOf, Refusals, Committed
    <2>4. pc[p] = "conflict" =>
             \E q \in Procs : Executed(q) /\ req[q].key = req[p].key
      BY <2>1, RequestType DEF IInv, KeysBacked
    <2> QED
      BY <2>2, <2>3, <2>4
  <1> QED
    BY <1>1, Invariance, PTL

\* TransferWhole: a transfer is in the ledger whole or not at all, one debit and
\* one credit of the same amount, whatever fails or dies between its writes.
THEOREM TransfersAreWhole == Spec => []TransferWhole
  <1>1. Init => TransferWhole
    <2> SUFFICES ASSUME Init, NEW p \in Procs, NEW u \in Users PROVE RowsOf(u, p) = {}
      BY DEF TransferWhole, Executed
    <2>1. DOMAIN entries[u] = {}
      BY DEF Init, WalletInit
    <2> QED
      BY <2>1 DEF RowsOf
  <1> QED
    BY <1>1, TransferWholeStep, Invariance, PTL DEF Spec

-------------------------------------------------------------------------------
(* Who waits for whom: the deadlocks of transferFunds *)

\* Whose uncommitted row a handler is blocked on, where it inserts its key,
\* debits its sender or credits its recipient.
WaitsFor(p, q) ==
    \/ pc[p] = "begin" /\ master[req[p].key] = Nobody /\ claim[req[p].key] = q
    \/ pc[p] = "debitWrite" /\ Owned(q, req[p].from)
    \/ pc[p] = "creditWrite" /\ Owned(q, req[p].to)

Waiting(p) == \E q \in Procs : WaitsFor(p, q)

\* A handler whose recipient is the sender of the one it waits for.
Opposed(p, q) ==
    /\ p # q
    /\ pc[p] = "creditWrite" /\ pc[q] = "creditWrite"
    /\ req[p].to = req[q].from

\* How far a handler is: its key, its sender's row, its recipient's row.
Depth(p) ==
    IF pc[p] = "begin" THEN 1
    ELSE IF pc[p] = "debitWrite" THEN 2
    ELSE IF pc[p] = "creditWrite" THEN 3
    ELSE 4

\* Who is waited for has an open transaction and is further on, except that a
\* credit waits for the credit of its recipient's own transfer.
WaitsAreOrdered ==
    \A p, q \in Procs : WaitsFor(p, q) =>
        pc[q] \in Open /\ (Depth(p) < Depth(q) \/ Opposed(p, q))

\* Transfers that each wait to credit the sender of another of them.
RingOfTransfers ==
    \E R \in SUBSET Procs :
        /\ R # {}
        /\ \A p \in R : \E q \in R : WaitsFor(p, q) /\ Opposed(p, q)

\* While any handler runs, one of them runs on, or transfers block each other
\* in a ring.
DeadlocksAreRings ==
    (\E p \in Procs : pc[p] \in Running) =>
        \/ \E p \in Procs : pc[p] \in Running /\ ~ Waiting(p)
        \/ RingOfTransfers

\* A handler that waits takes no step but to fail.
WaitersStay ==
    [][\A p \in Procs : Waiting(p) => pc'[p] \in {pc[p], "failed", "lost"}]_vars

\* Every transfer inserts its key, then debits its sender, then credits its
\* recipient; the only row it holds while it wants another is its sender's.
LEMMA WaitsGoUp ==
    ASSUME IInv
    PROVE  WaitsAreOrdered
  <1>i. TypeOK /\ KeysHeld /\ LocksHeld /\ DraftsMatch
    BY DEF IInv
  <1> SUFFICES ASSUME NEW p \in Procs, NEW q \in Procs, WaitsFor(p, q)
               PROVE  pc[q] \in Open /\ (Depth(p) < Depth(q) \/ Opposed(p, q))
    BY DEF WaitsAreOrdered
  <1>0. q # Nobody
    BY ServiceAssumption
  <1>1. CASE pc[p] = "begin" /\ claim[req[p].key] = q
    <2>1. req[p].key \in Keys
      BY <1>i, <1>1, RequestType
    <2>2. pc[q] \in Open
      BY <1>i, <1>0, <1>1, <2>1 DEF KeysHeld
    <2> QED
      BY <1>1, <2>2 DEF Depth, Open
  <1>2. ASSUME NEW u \in Users, Owned(q, u)
        PROVE  \/ pc[q] \in AfterDebit /\ u = req[q].from
               \/ pc[q] = "commit" /\ u = req[q].to
    BY <1>i, <1>2 DEF DraftsMatch, DraftMatches, DebitDraft, CreditDraft, Owned
  <1>3. CASE pc[p] = "debitWrite" /\ Owned(q, req[p].from)
    <2>1. req[p].from \in Users
      BY <1>i, <1>3, RequestType
    <2>2. pc[q] \in AfterDebit
      BY <1>2, <1>3, <2>1 DEF AfterDebit
    <2> QED
      BY <1>3, <2>2 DEF Depth, Open, AfterDebit
  <1>4. CASE pc[p] = "creditWrite" /\ Owned(q, req[p].to)
    <2>1. req[p].to \in Users
      BY <1>i, <1>4, RequestType
    <2>2. \/ pc[q] \in AfterDebit /\ req[p].to = req[q].from
          \/ pc[q] = "commit"
      BY <1>2, <1>4, <2>1
    <2>3. req[p].from # req[p].to
      BY <1>i, <1>4 DEF LocksHeld, LocksHeldBy, Open
    <2>4. pc[q] \in Open /\ (pc[q] = "creditWrite" => Opposed(p, q))
      BY <1>4, <2>2, <2>3 DEF Opposed, Open, AfterDebit
    <2>5. pc[q] # "creditWrite" => Depth(q) = 4
      BY <2>2 DEF Depth, AfterDebit
    <2> QED
      BY <1>4, <2>4, <2>5 DEF Depth
  <1> QED
    BY <1>1, <1>3, <1>4 DEF WaitsFor

\* Transfers wait in one order of rows, the key, the sender's wallet, the
\* recipient's, but for the pairs the docs warn of: transferFunds locks the
\* sender first, so a credit may wait for a transfer the other way.
THEOREM WaitsAreForOpposites == Spec => []WaitsAreOrdered
  BY WaitsGoUp, Invariance, PTL

\* transferFunds deadlocks in one way only: a ring of transfers each of which
\* has debited its sender and waits to credit the sender of another.
THEOREM OnlyRingsDeadlock == Spec => []DeadlocksAreRings
  <1>1. ASSUME IInv
        PROVE  DeadlocksAreRings
    <2>w. WaitsAreOrdered
      BY <1>1, WaitsGoUp
    <2> SUFFICES ASSUME NEW p \in Procs, pc[p] \in Running,
                        \A q \in Procs : pc[q] \in Running => Waiting(q)
                 PROVE  RingOfTransfers
      BY DEF DeadlocksAreRings
    <2>d. \A q \in Procs : Depth(q) \in 1..4
      BY DEF Depth
    <2>r. \A q \in Procs : pc[q] \in Open => pc[q] \in Running
      BY DEF Running
    <2>n. \A q \in Procs : Waiting(q) => Depth(q) \in 1..3
      BY DEF Waiting, WaitsFor, Depth
    <2> DEFINE R == {q \in Procs : pc[q] = "creditWrite"}
    <2>1. ASSUME NEW q \in Procs, pc[q] \in Running
          PROVE  \E r \in Procs : /\ WaitsFor(q, r) /\ pc[r] \in Running
                                  /\ Depth(q) < Depth(r) \/ Opposed(q, r)
      <3>1. PICK r \in Procs : WaitsFor(q, r)
        BY <2>1 DEF Waiting
      <3> QED
        BY <2>w, <2>r, <3>1 DEF WaitsAreOrdered
    <2>2. \A q \in Procs : pc[q] = "creditWrite" => Depth(q) = 3 /\ pc[q] \in Running
      BY DEF Depth, Running, Open
    <2>3. \A q \in Procs : Depth(q) = 3 => pc[q] = "creditWrite"
      BY DEF Depth
    <2>4. ASSUME NEW q \in R
          PROVE  \E r \in R : WaitsFor(q, r) /\ Opposed(q, r)
      <3>1. PICK r \in Procs : /\ WaitsFor(q, r) /\ pc[r] \in Running
                               /\ Depth(q) < Depth(r) \/ Opposed(q, r)
        BY <2>1, <2>2
      <3>2. Depth(r) \in 1..3 /\ Depth(q) = 3
        BY <2>n, <2>2, <3>1
      <3>3. Opposed(q, r)
        BY <3>1, <3>2
      <3> QED
        BY <3>1, <3>3 DEF Opposed
    <2>5. R # {}
      <3>1. ASSUME NEW q \in Procs, pc[q] \in Running, R = {}
            PROVE  \E r \in Procs : pc[r] \in Running /\ Depth(q) < Depth(r)
        <4>1. PICK r \in Procs : /\ pc[r] \in Running
                                 /\ Depth(q) < Depth(r) \/ Opposed(q, r)
          BY <2>1, <3>1
        <4> QED
          BY <3>1, <4>1 DEF Opposed
      <3> SUFFICES ASSUME R = {} PROVE FALSE
        OBVIOUS
      <3>2. PICK q \in Procs : pc[q] \in Running /\ Depth(p) < Depth(q)
        BY <3>1
      <3>3. PICK r \in Procs : pc[r] \in Running /\ Depth(q) < Depth(r)
        BY <3>1, <3>2
      <3>4. PICK s \in Procs : pc[s] \in Running /\ Depth(r) < Depth(s)
        BY <3>1, <3>3
      <3>5. Depth(s) \in 1..3
        BY <2>n, <3>4
      <3> QED
        BY <2>d, <3>2, <3>3, <3>4, <3>5
    <2> QED
      BY <2>4, <2>5 DEF RingOfTransfers
  <1> QED
    BY <1>1, Invariance, PTL

\* The waits are those of the handlers' guards: whoever waits takes no step of
\* its own, and leaves its label only by failing or in a crash.
THEOREM WaitingIsBlocking == Spec => WaitersStay
  <1>1. ASSUME IInv, [Next]_vars, NEW p \in Procs, Waiting(p)
        PROVE  pc'[p] \in {pc[p], "failed", "lost"}
    <2>0. PICK q \in Procs : WaitsFor(p, q)
      BY <1>1 DEF Waiting
    <2>i. TypeOK
      BY <1>1 DEF IInv
    <2>n. q # Nobody
      BY ServiceAssumption
    <2>1. pc[p] \in {"begin", "debitWrite", "creditWrite"}
      BY <2>0 DEF WaitsFor
    <2>2. /\ ~ LookupKey(p) /\ ~ Validate(p) /\ ~ DebitRead(p) /\ ~ DebitRefused(p)
          /\ ~ CreditRead(p) /\ ~ Commit(p) /\ ~ Answer(p) /\ ~ Receive(p)
      BY <2>1 DEF LookupKey, Validate, DebitRead, DebitRefused, CreditRead, Commit, Answer,
         Receive
    <2>3. ~ CreateMaster(p) /\ ~ DuplicateKey(p)
      BY <2>0, <2>n DEF CreateMaster, DuplicateKey, WaitsFor
    <2>4. ~ DebitWrite(p) /\ ~ CreditWrite(p)
      BY <2>0 DEF DebitWrite, CreditWrite, WaitsFor, Owned, DebitWallet, CreditWallet, WriteWallet
    <2>5. ~ Step(p)
      BY <2>2, <2>3, <2>4 DEF Step
    <2>6. ASSUME NEW r \in Procs, HandlerStep(r), r # p
          PROVE  pc'[p] = pc[p]
      BY <2>i, <2>6, OthersUntouched
    <2>7. CASE Fail(p)
      BY <2>i, <2>7 DEF Fail, Goto, TypeOK
    <2>8. CASE Crash
      BY <2>8 DEF Crash
    <2>9. CASE UNCHANGED vars
      BY <2>9 DEF vars
    <2> QED
      BY <1>1, <2>2, <2>5, <2>6, <2>7, <2>8, <2>9 DEF Next, Terminated, HandlerStep
  <1>2. IInv /\ [Next]_vars
          => \A p \in Procs : Waiting(p) => pc'[p] \in {pc[p], "failed", "lost"}
    BY <1>1
  <1> QED
    BY <1>2, Invariance, PTL DEF Spec, WaitersStay
===============================================================================
