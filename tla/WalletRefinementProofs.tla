------------------------ MODULE WalletRefinementProofs ------------------------
(***************************************************************************)
(* WalletService implements LedgerContract: every step of the service is a *)
(* transfer of the contract or leaves its three variables alone.  The      *)
(* balances it starts from are the current ones as long as no transfer has *)
(* waited for a wallet's row; then the trails reconcile, too.              *)
(***************************************************************************)
EXTENDS WalletServiceProofs

\* The rows a handler about to commit publishes: the debit of its sender and
\* the credit of its recipient, and nothing else.
LEMMA CommitPublishes ==
    ASSUME IInv, NEW p \in Procs, Commit(p)
    PROVE  LET f == req[p].from
               t == req[p].to
               m == req[p].amount
           IN  /\ f \in Users /\ t \in Users /\ f # t /\ m \in Amounts
               /\ \A u \in Users : Owned(p, u) <=> u \in {f, t}
               /\ dirty[f].entry \in Entry /\ dirty[t].entry \in Entry
               /\ dirty[f].entry.type = "DEBIT" /\ dirty[t].entry.type = "CREDIT"
               /\ dirty[f].entry.amount = m /\ dirty[t].entry.amount = m
               /\ dirty[f].entry.ref = p /\ dirty[t].entry.ref = p
               /\ dirty[f].entry.before \in PastBalances(f)
               /\ dirty[t].entry.before \in PastBalances(t)
               /\ dirty[f].entry.before >= m
               /\ dirty[f].entry.after = dirty[f].entry.before - m
               /\ dirty[t].entry.after = dirty[t].entry.before + m
               /\ dirty[f].balance = dirty[f].entry.after
               /\ dirty[t].balance = dirty[t].entry.after
  <1> DEFINE f == req[p].from
             t == req[p].to
  <1>1. /\ pc[p] = "commit" /\ f \in Users /\ t \in Users /\ f # t
        /\ req[p].amount \in Amounts
        /\ Owned(p, f) /\ Owned(p, t)
    BY RequestType DEF IInv, Commit, LocksHeld, LocksHeldBy, AfterDebit, Open
  <1>2. ASSUME NEW u \in Users, Owned(p, u)
        PROVE  /\ dirty[u].entry \in Entry
               /\ dirty[u].entry.ref = p
               /\ dirty[u].entry.amount = req[p].amount
               /\ dirty[u].entry.before \in PastBalances(u)
               /\ dirty[u].balance = dirty[u].entry.after
               /\ \/ /\ u = f /\ dirty[u].entry.type = "DEBIT"
                     /\ dirty[u].entry.before >= req[p].amount
                     /\ dirty[u].entry.after = dirty[u].entry.before - req[p].amount
                  \/ /\ u = t /\ dirty[u].entry.type = "CREDIT"
                     /\ dirty[u].entry.after = dirty[u].entry.before + req[p].amount
    BY <1>2, DirtyType
    DEF IInv, TypeOK, Owned, DraftsMatch, DraftMatches, DebitDraft, CreditDraft
  <1> QED
    BY <1>1, <1>2

\* A commit is a move of the contract between the balances its rows start at.
LEMMA CommitIsMove ==
    ASSUME IInv, NEW p \in Procs, Commit(p)
    PROVE  Contract!Move(req[p].from, req[p].to, req[p].amount, req[p].key, p,
                         dirty[req[p].from].entry.before, dirty[req[p].to].entry.before)
  <1> DEFINE f == req[p].from
             t == req[p].to
             m == req[p].amount
             b == dirty[f].entry.before
             c == dirty[t].entry.before
  <1>1. CommitWallets(p) /\ WalletTypeOK
    BY DEF Commit, IInv, TypeOK
  <1>2. /\ f \in Users /\ t \in Users /\ f # t
        /\ \A u \in Users : Owned(p, u) <=> u \in {f, t}
        /\ b \in PastBalances(f) /\ c \in PastBalances(t) /\ b >= m
    BY CommitPublishes
  <1>3. balance' = [balance EXCEPT ![f] = b - m, ![t] = c + m]
    <2>1. balance' = [u \in Users |-> IF Owned(p, u) THEN dirty[u].balance ELSE balance[u]]
      BY <1>1 DEF CommitWallets
    <2>2. dirty[f].balance = b - m /\ dirty[t].balance = c + m
      BY CommitPublishes
    <2>3. balance' = [u \in Users |-> IF u = t THEN c + m
                                      ELSE IF u = f THEN b - m ELSE balance[u]]
      BY <1>2, <2>1, <2>2
    <2>4. balance \in [Users -> Int]
      BY <1>1 DEF WalletTypeOK
    <2> HIDE DEF b, c, f, t, m
    <2> QED
      BY <1>2, <2>3, <2>4
  <1>4. /\ dirty[f].entry = Contract!Row("DEBIT", m, b, b - m, p)
        /\ dirty[t].entry = Contract!Row("CREDIT", m, c, c + m, p)
    BY CommitPublishes DEF Entry, Contract!Row
  <1>5. entries' = [entries EXCEPT
          ![f] = Append(@, Contract!Row("DEBIT", m, b, b - m, p)),
          ![t] = Append(@, Contract!Row("CREDIT", m, c, c + m, p))]
    <2> DEFINE debit == Contract!Row("DEBIT", m, b, b - m, p)
               credit == Contract!Row("CREDIT", m, c, c + m, p)
    <2>1. entries' = [u \in Users |-> IF Owned(p, u) THEN Append(entries[u], dirty[u].entry)
                                                     ELSE entries[u]]
      BY <1>1 DEF CommitWallets
    <2>2. dirty[f].entry = debit /\ dirty[t].entry = credit
      BY <1>4
    <2> HIDE DEF debit, credit
    <2>3. entries' = [u \in Users |-> IF u = t THEN Append(entries[u], credit)
                                      ELSE IF u = f THEN Append(entries[u], debit)
                                      ELSE entries[u]]
      BY <1>2, <2>1, <2>2
    <2>4. entries \in [Users -> Seq(Entry)]
      BY <1>1 DEF WalletTypeOK
    <2> HIDE DEF b, c, f, t, m
    <2>5. entries' = [entries EXCEPT ![f] = Append(@, debit), ![t] = Append(@, credit)]
      BY <1>2, <2>3, <2>4
    <2> QED
      BY <2>5 DEF debit, credit
  <1>6. req[p].key \in Keys /\ master[req[p].key] = Nobody
    BY RequestType DEF IInv, KeysHeld, Commit, Open
  <1>7. req[p].key \notin UsedKeys /\ UsedKeys' = UsedKeys \cup {req[p].key}
    BY <1>6, ServiceAssumption DEF UsedKeys, Commit, IInv, TypeOK
  <1> QED
    BY <1>2, <1>3, <1>5, <1>7 DEF Contract!Move

\* Those balances are ones the wallets have had.
LEMMA CommitIsTransfer ==
    ASSUME IInv, NEW p \in Procs, Commit(p)
    PROVE  Contract!SnapshotTransfer(req[p].from, req[p].to, req[p].amount, req[p].key, p)
  <1>1. /\ req[p].from \in Users /\ req[p].to \in Users
        /\ dirty[req[p].from].entry.before \in Contract!Past(req[p].from)
        /\ dirty[req[p].to].entry.before \in Contract!Past(req[p].to)
    BY CommitPublishes DEF Contract!Past, PastBalances, Rows
  <1> QED
    BY <1>1, CommitIsMove DEF Contract!SnapshotTransfer

\* Every step is a snapshot transfer or leaves the ledger alone.
LEMMA StepIsContractStep ==
    ASSUME IInv, [Next]_vars
    PROVE  [Contract!SnapshotNext]_(Contract!contractVars)
  <1>1. ASSUME NEW p \in Procs, Commit(p)
        PROVE  Contract!SnapshotNext
    <2>1. /\ req[p].from \in Users /\ req[p].to \in Users /\ p \in Refs
          /\ req[p].amount \in Amounts /\ req[p].key \in Keys
      BY <1>1, RequestType, ServiceAssumption DEF IInv, Commit
    <2> QED
      BY <1>1, <2>1, CommitIsTransfer DEF Contract!SnapshotNext
  <1>2. CASE \A p \in Procs : ~ Commit(p)
    BY <1>2, OnlyCommitPublishes DEF Contract!contractVars, UsedKeys
  <1> QED
    BY <1>1, <1>2

\* The service starts where the contract starts.
LEMMA InitIsContractInit ==
    ASSUME Init
    PROVE  Contract!Init
  BY DEF Init, WalletInit, Contract!Init, UsedKeys

\* transferFunds implements the snapshot ledger: whatever the interleaving,
\* what readers see is whole transfers, once per key, each starting from
\* balances its wallets really had.
THEOREM SnapshotRefinement == Spec => ImplementsSnapshotLedger
  <1>1. Init => Contract!Init
    BY InitIsContractInit
  <1>2. IInv /\ [Next]_vars => [Contract!SnapshotNext]_(Contract!contractVars)
    BY StepIsContractStep
  <1> QED
    BY <1>1, <1>2, Invariance, PTL DEF Spec, ImplementsSnapshotLedger, Contract!SnapshotSpec

-------------------------------------------------------------------------------
(* Without interference: no transfer waits for a wallet *)

\* Nobody waits for a wallets row: who waits has inserted a key in use.
Uncontended == \A p, q \in Procs : WaitsFor(p, q) => pc[p] = "begin"

\* What a handler has read and is about to write back is still the balance.
ReadsCurrent ==
    \A p \in Procs :
        /\ pc[p] = "debitWrite" => seen[p] = balance[req[p].from]
        /\ pc[p] = "creditWrite" => seen[p] = balance[req[p].to]

CurrentInv == IInv /\ ReadsCurrent /\ DraftsCurrent /\ Reconciled

\* A commit changes the balance of no wallet that another handler has read and
\* is about to write: that handler would be waiting for it.
LEMMA CurrentStep ==
    ASSUME CurrentInv, Uncontended, [Next]_vars
    PROVE  ReadsCurrent' /\ DraftsCurrent' /\ Reconciled'
  <1>i. TypeOK /\ WalletTypeOK /\ DraftsCurrent /\ Reconciled
    BY DEF CurrentInv, IInv, TypeOK
  <1>1. ASSUME NEW p \in Procs, Commit(p)
        PROVE  ReadsCurrent' /\ DraftsCurrent' /\ Reconciled'
    <2>1. /\ CommitWallets(p)
          /\ pc' = [pc EXCEPT ![p] = "answer"] /\ req' = req /\ seen' = seen
      BY <1>1 DEF Commit, Goto, CommitWallets
    <2>2. /\ Reconciled' /\ DraftsCurrent'
          /\ \A u \in Users : ~ Owned(p, u) => balance'[u] = balance[u]
      BY <1>i, <2>1, CommitReconciles
    <2>3. ASSUME NEW q \in Procs
          PROVE  /\ pc'[q] = "debitWrite" => seen'[q] = balance'[req'[q].from]
                 /\ pc'[q] = "creditWrite" => seen'[q] = balance'[req'[q].to]
      <3>1. pc'[q] \in {"debitWrite", "creditWrite"} => pc'[q] = pc[q]
        BY <1>i, <2>1 DEF TypeOK
      <3>2. pc[q] \in {"debitWrite", "creditWrite"} =>
              req[q].from \in Users /\ req[q].to \in Users
        BY <1>i, RequestType
      <3>3. /\ pc[q] = "debitWrite" => ~ Owned(p, req[q].from)
            /\ pc[q] = "creditWrite" => ~ Owned(p, req[q].to)
        BY DEF Uncontended, WaitsFor
      <3> QED
        BY <2>1, <2>2, <3>1, <3>2, <3>3 DEF CurrentInv, ReadsCurrent
    <2> QED
      BY <2>2, <2>3 DEF ReadsCurrent
  <1>2. CASE \A p \in Procs : ~ Commit(p)
    <2>1. balance' = balance /\ entries' = entries
      BY <1>2, OnlyCommitPublishes
    <2>2. ASSUME NEW p \in Procs, HandlerStep(p), NEW q \in Procs
          PROVE  /\ pc'[q] = "debitWrite" => seen'[q] = balance'[req'[q].from]
                 /\ pc'[q] = "creditWrite" => seen'[q] = balance'[req'[q].to]
      <3>1. CASE q # p
        BY <1>i, <2>1, <2>2, <3>1, OthersUntouched DEF CurrentInv, ReadsCurrent
      <3>2. CASE q = p
        BY <1>i, <1>2, <2>1, <2>2, <3>2 DEF HandlerStep, Step, TypeOK, WalletTypeOK, Goto, Receive,
           LookupKey, Validate, CreateMaster, DuplicateKey, DebitRead, DebitRefused,
           DebitWrite, CreditRead, CreditWrite, Answer, Fail, ReadWallet
      <3> QED
        BY <3>1, <3>2
    <2>3. ASSUME NEW p \in Procs, DebitWrite(p)
          PROVE  DraftsCurrent' /\ Reconciled'
      <3>1. /\ req[p].from \in Users /\ req[p].amount \in Nat /\ p \in Refs
            /\ seen[p] = balance[req[p].from]
        BY <1>i, <2>3, RequestType, ServiceAssumption DEF DebitWrite, CurrentInv, ReadsCurrent
      <3>2. PICK e \in Entry : e.before = seen[p] /\ WriteWallet(p, req[p].from, e.after, e)
        BY <1>i, <2>3, <3>1, DebitWalletIsWrite DEF DebitWrite
      <3> QED
        BY <1>i, <3>1, <3>2, WriteReconciles
    <2>4. ASSUME NEW p \in Procs, CreditWrite(p)
          PROVE  DraftsCurrent' /\ Reconciled'
      <3>1. /\ req[p].to \in Users /\ req[p].amount \in Nat /\ p \in Refs
            /\ seen[p] = balance[req[p].to]
        BY <1>i, <2>4, RequestType, ServiceAssumption DEF CreditWrite, CurrentInv, ReadsCurrent
      <3>2. PICK e \in Entry : e.before = seen[p] /\ WriteWallet(p, req[p].to, e.after, e)
        BY <1>i, <2>4, <3>1, CreditWalletIsWrite DEF CreditWrite
      <3> QED
        BY <1>i, <3>1, <3>2, WriteReconciles
    <2>5. ASSUME NEW p \in Procs, HandlerStep(p), ~ DebitWrite(p), ~ CreditWrite(p)
          PROVE  DraftsCurrent' /\ Reconciled'
      <3>1. \A u \in Users : dirty'[u] \in {dirty[u], Clean}
        BY <1>2, <2>5 DEF HandlerStep, Step, Receive, LookupKey, Validate, CreateMaster,
           DuplicateKey, DebitRead, DebitRefused, CreditRead, Answer, Fail, ReadWallet,
           RollbackWallets, walletVars
      <3> QED
        BY <1>i, <2>1, <3>1, QuietReconciles
    <2>6. CASE Crash
      <3>1. \A u \in Users : dirty'[u] \in {dirty[u], Clean}
        BY <2>6 DEF Crash, RollbackWallets
      <3>2. ReadsCurrent'
        BY <1>i, <2>1, <2>6
        DEF Crash, TypeOK, RollbackWallets, CurrentInv, ReadsCurrent, Running, Open
      <3> QED
        BY <1>i, <2>1, <3>1, <3>2, QuietReconciles
    <2>7. CASE UNCHANGED vars
      <3>1. \A u \in Users : dirty'[u] \in {dirty[u], Clean}
        BY <2>7 DEF vars, walletVars
      <3>2. ReadsCurrent'
        BY <2>7 DEF vars, walletVars, CurrentInv, ReadsCurrent
      <3> QED
        BY <1>i, <2>1, <3>1, <3>2, QuietReconciles
    <2>8. (\E p \in Procs : HandlerStep(p)) \/ Crash \/ UNCHANGED vars
      BY DEF Next, Terminated, HandlerStep
    <2>9. (\E p \in Procs : HandlerStep(p)) => ReadsCurrent'
      BY <2>2 DEF ReadsCurrent
    <2> QED
      BY <2>3, <2>4, <2>5, <2>6, <2>7, <2>8, <2>9
  <1> QED
    BY <1>1, <1>2

\* The strengthened invariant, while no transfer waits for a wallet.
LEMMA CurrentInvariance == Spec /\ []Uncontended => []CurrentInv
  <1>1. Init => ReadsCurrent /\ DraftsCurrent /\ Reconciled
    BY FreshLedger DEF Init, ReadsCurrent
  <1>2. CurrentInv /\ Uncontended /\ [Next]_vars
          => ReadsCurrent' /\ DraftsCurrent' /\ Reconciled'
    BY CurrentStep
  <1> QED
    BY <1>1, <1>2, Invariance, PTL DEF Spec, CurrentInv

\* The trail breaks only where a transfer has waited for a wallet's row: while
\* none does, every ledger row starts where the row before it ended, so the
\* trail of creditWallet and debitWallet accounts for the balance.
THEOREM TrailUnlessContended == Spec /\ []Uncontended => []TrailReconciles
  <1>1. CurrentInv => TrailReconciles
    BY DEF CurrentInv, Reconciled, TrailReconciles
  <1> QED
    BY <1>1, CurrentInvariance, PTL

\* Then a commit moves money between the current balances.
LEMMA CommitIsAtomicTransfer ==
    ASSUME CurrentInv, NEW p \in Procs, Commit(p)
    PROVE  Contract!AtomicTransfer(req[p].from, req[p].to, req[p].amount, req[p].key, p)
  <1> DEFINE f == req[p].from
             t == req[p].to
  <1>1. /\ f \in Users /\ t \in Users
        /\ \A u \in Users : Owned(p, u) <=> u \in {f, t}
    BY CommitPublishes DEF CurrentInv
  <1>2. dirty[f].entry.before = balance[f] /\ dirty[t].entry.before = balance[t]
    BY <1>1 DEF CurrentInv, DraftsCurrent, Owned
  <1>3. Contract!Move(f, t, req[p].amount, req[p].key, p,
                      dirty[f].entry.before, dirty[t].entry.before)
    BY CommitIsMove DEF CurrentInv
  <1> QED
    BY <1>2, <1>3 DEF Contract!AtomicTransfer

\* While no transfer waits for a wallet's row, transferFunds implements the
\* atomic ledger: each transfer is one indivisible move.
THEOREM AtomicUnlessContended == Spec /\ []Uncontended => ImplementsAtomicLedger
  <1>1. Init => Contract!Init
    BY InitIsContractInit
  <1>2. CurrentInv /\ [Next]_vars => [Contract!AtomicNext]_(Contract!contractVars)
    <2> SUFFICES ASSUME CurrentInv, [Next]_vars
                 PROVE  [Contract!AtomicNext]_(Contract!contractVars)
      OBVIOUS
    <2>1. ASSUME NEW p \in Procs, Commit(p)
          PROVE  Contract!AtomicNext
      <3>1. /\ req[p].from \in Users /\ req[p].to \in Users /\ p \in Refs
            /\ req[p].amount \in Amounts /\ req[p].key \in Keys
        BY <2>1, RequestType, ServiceAssumption DEF CurrentInv, IInv, Commit
      <3> QED
        BY <2>1, <3>1, CommitIsAtomicTransfer DEF Contract!AtomicNext
    <2>2. CASE \A p \in Procs : ~ Commit(p)
      BY <2>2, OnlyCommitPublishes DEF Contract!contractVars, UsedKeys
    <2> QED
      BY <2>1, <2>2
  <1> QED
    BY <1>1, <1>2, CurrentInvariance, PTL
    DEF Spec, ImplementsAtomicLedger, Contract!AtomicSpec
===============================================================================
