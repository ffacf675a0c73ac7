-------------------------- MODULE WalletLedgerProofs --------------------------
(***************************************************************************)
(* What the row layer's operators do, for the proofs about the services    *)
(* that use it: which types they keep, and when they keep a wallet's trail *)
(* reconciled.                                                             *)
(***************************************************************************)
EXTENDS WalletLedger, TLAPS

\* wallet.findUnique keeps the types of the wallet layer.
LEMMA ReadWalletType ==
    ASSUME WalletTypeOK, NEW p \in Procs, NEW u \in Users, ReadWallet(p, u)
    PROVE  WalletTypeOK'
  BY DEF WalletTypeOK, ReadWallet

\* So does wallet.update with its ledger row, which makes a well-typed version.
LEMMA WriteWalletType ==
    ASSUME WalletTypeOK, NEW p \in Procs, NEW u \in Users, NEW b \in Int,
           NEW e \in Entry, WriteWallet(p, u, b, e)
    PROVE  WalletTypeOK'
  <1>1. [by |-> p, balance |-> b, entry |-> e] \in Version
    BY DEF Version
  <1> QED
    BY <1>1 DEF WalletTypeOK, WriteWallet

\* A write locks its row for the writer and leaves the others alone.
LEMMA WriteWalletOwns ==
    ASSUME WalletTypeOK, NEW p \in Procs, NEW u \in Users, NEW b \in Int,
           NEW e \in Entry, WriteWallet(p, u, b, e)
    PROVE  /\ dirty[u] = Clean
           /\ dirty'[u] # Clean
           /\ dirty'[u].by = p /\ dirty'[u].balance = b /\ dirty'[u].entry = e
           /\ \A v \in Users : v # u => dirty'[v] = dirty[v]
  <1>1. [by |-> p, balance |-> b, entry |-> e] \in Version
    BY DEF Version
  <1>2. [by |-> p, balance |-> b, entry |-> e] # Clean
    BY <1>1, WalletAssumption
  <1> QED
    BY <1>2 DEF WalletTypeOK, WriteWallet

\* A commit publishes well-typed rows.
LEMMA CommitWalletsType ==
    ASSUME WalletTypeOK, NEW p \in Procs, CommitWallets(p)
    PROVE  WalletTypeOK'
  <1>1. \A u \in Users : Owned(p, u) => dirty[u] \in Version
    BY DEF WalletTypeOK, Owned
  <1>2. \A u \in Users : Owned(p, u) =>
          dirty[u].balance \in Int /\ dirty[u].entry \in Entry
    BY <1>1 DEF Version
  <1>3. balance' \in [Users -> Int]
    BY <1>2 DEF WalletTypeOK, CommitWallets
  <1>4. \A u \in Users : Owned(p, u) => Append(entries[u], dirty[u].entry) \in Seq(Entry)
    BY <1>2 DEF WalletTypeOK
  <1>5. entries' \in [Users -> Seq(Entry)]
    BY <1>4 DEF WalletTypeOK, CommitWallets
  <1>6. dirty' \in [Users -> Version \cup {Clean}]
    BY DEF WalletTypeOK, CommitWallets
  <1> QED
    BY <1>3, <1>5, <1>6 DEF WalletTypeOK, CommitWallets

\* A rollback keeps the types.
LEMMA RollbackWalletsType ==
    ASSUME WalletTypeOK, NEW P, RollbackWallets(P)
    PROVE  WalletTypeOK'
  BY DEF WalletTypeOK, RollbackWallets

\* creditWallet is one write of the balance it read plus the amount, with
\* the ledger row that says so.
LEMMA CreditWalletIsWrite ==
    ASSUME WalletTypeOK, NEW p \in Procs, NEW u \in Users, NEW amount \in Nat,
           NEW ref \in Refs, CreditWallet(p, u, amount, ref)
    PROVE  \E e \in Entry :
              /\ e.type = "CREDIT" /\ e.amount = amount /\ e.ref = ref
              /\ e.before = seen[p] /\ e.after = seen[p] + amount
              /\ WriteWallet(p, u, e.after, e)
  <1> DEFINE e == [type |-> "CREDIT", amount |-> amount, before |-> seen[p],
                   after |-> seen[p] + amount, ref |-> ref]
  <1>1. seen[p] \in Int
    BY DEF WalletTypeOK
  <1>2. e \in Entry
    BY <1>1 DEF Entry, EntryTypes
  <1>3. e.after = seen[p] + amount
    OBVIOUS
  <1>4. WriteWallet(p, u, e.after, e)
    BY <1>3 DEF CreditWallet
  <1> QED
    BY <1>2, <1>4

\* debitWallet is one write of the balance it read minus the amount, with
\* the ledger row that says so.
LEMMA DebitWalletIsWrite ==
    ASSUME WalletTypeOK, NEW p \in Procs, NEW u \in Users, NEW amount \in Nat,
           NEW ref \in Refs, DebitWallet(p, u, amount, ref)
    PROVE  \E e \in Entry :
              /\ e.type = "DEBIT" /\ e.amount = amount /\ e.ref = ref
              /\ e.before = seen[p] /\ e.after = seen[p] - amount
              /\ WriteWallet(p, u, e.after, e)
  <1> DEFINE e == [type |-> "DEBIT", amount |-> amount, before |-> seen[p],
                   after |-> seen[p] - amount, ref |-> ref]
  <1>1. seen[p] \in Int
    BY DEF WalletTypeOK
  <1>2. e \in Entry
    BY <1>1 DEF Entry, EntryTypes
  <1>3. e.after = seen[p] - amount
    OBVIOUS
  <1>4. WriteWallet(p, u, e.after, e)
    BY <1>3 DEF DebitWallet
  <1> QED
    BY <1>2, <1>4

\* An uncommitted version names its handler and its row.
LEMMA DirtyType ==
    ASSUME WalletTypeOK, NEW u \in Users, dirty[u] # Clean
    PROVE  /\ dirty[u].by \in Procs
           /\ dirty[u].balance \in Int
           /\ dirty[u].entry \in Entry
  BY DEF WalletTypeOK, Version

\* What a commit does to one wallet.
LEMMA CommittedTrail ==
    ASSUME WalletTypeOK, NEW p \in Procs, CommitWallets(p), NEW u \in Users
    PROVE  /\ ~ Owned(p, u) => balance'[u] = balance[u] /\ entries'[u] = entries[u]
           /\ Owned(p, u) =>
                /\ balance'[u] = dirty[u].balance
                /\ entries'[u] = Append(entries[u], dirty[u].entry)
                /\ DOMAIN entries'[u] = 1 .. Len(entries[u]) + 1
                /\ DOMAIN entries[u] = 1 .. Len(entries[u])
                /\ Len(entries[u]) \in Nat
                /\ \A i \in DOMAIN entries[u] : entries'[u][i] = entries[u][i]
                /\ entries'[u][Len(entries[u]) + 1] = dirty[u].entry
  <1>1. entries[u] \in Seq(Entry)
    BY DEF WalletTypeOK
  <1>2. ASSUME Owned(p, u)
        PROVE  /\ balance'[u] = dirty[u].balance
               /\ entries'[u] = Append(entries[u], dirty[u].entry)
               /\ dirty[u].entry \in Entry
    BY <1>2, DirtyType DEF CommitWallets, Owned
  <1>3. ~ Owned(p, u) => balance'[u] = balance[u] /\ entries'[u] = entries[u]
    BY DEF CommitWallets
  <1> QED
    BY <1>1, <1>2, <1>3

\* A commit adds to the balances a wallet has had those it publishes.
LEMMA CommittedPast ==
    ASSUME WalletTypeOK, NEW p \in Procs, CommitWallets(p), NEW u \in Users
    PROVE  PastBalances(u)' =
             PastBalances(u) \cup (IF Owned(p, u) THEN {dirty[u].entry.after} ELSE {})
  <1>1. CASE ~ Owned(p, u)
    BY <1>1, CommittedTrail DEF PastBalances, Rows
  <1>2. CASE Owned(p, u)
    <2>1. Rows(u)' = Rows(u) \cup {dirty[u].entry}
      BY <1>2, CommittedTrail DEF Rows
    <2> QED
      BY <1>2, <2>1 DEF PastBalances
  <1> QED
    BY <1>1, <1>2

\* What is in an uncommitted version was computed from the balance that is
\* still committed, and its ledger row ends at the balance it leaves.
DraftsCurrent ==
    \A u \in Users : dirty[u] # Clean =>
        dirty[u].entry.before = balance[u] /\ dirty[u].balance = dirty[u].entry.after

\* Every row of a trail starts where the one before it ended, and the newest
\* one ends at the balance.
Reconciled ==
    \A u \in Users :
        /\ balance[u] = LatestBalance(u)
        /\ \A i \in DOMAIN entries[u] : entries[u][i].before = Starts(u, i)

\* A ledger nobody has written to is reconciled.
LEMMA FreshLedger ==
    ASSUME WalletInit
    PROVE  Reconciled /\ DraftsCurrent
  BY WalletAssumption DEF WalletInit, Reconciled, DraftsCurrent, LatestBalance

\* A commit of current versions continues the trails, and leaves the balances
\* of the wallets its transaction has not written.
LEMMA CommitReconciles ==
    ASSUME WalletTypeOK, Reconciled, DraftsCurrent, NEW p \in Procs, CommitWallets(p)
    PROVE  /\ Reconciled' /\ DraftsCurrent'
           /\ \A u \in Users : ~ Owned(p, u) => balance'[u] = balance[u]
  <1>1. ASSUME NEW u \in Users, ~ Owned(p, u)
        PROVE  balance'[u] = balance[u] /\ entries'[u] = entries[u]
    BY <1>1, CommittedTrail
  <1>2. DraftsCurrent'
    <2> SUFFICES ASSUME NEW u \in Users, dirty'[u] # Clean
                 PROVE  /\ dirty'[u].entry.before = balance'[u]
                        /\ dirty'[u].balance = dirty'[u].entry.after
      BY DEF DraftsCurrent
    <2>1. dirty'[u] = dirty[u] /\ ~ Owned(p, u)
      BY DEF CommitWallets
    <2> QED
      BY <1>1, <2>1 DEF DraftsCurrent
  <1>3. ASSUME NEW u \in Users
        PROVE  /\ balance'[u] = LatestBalance(u)'
               /\ \A i \in DOMAIN entries'[u] : entries'[u][i].before = Starts(u, i)'
    <2>1. CASE ~ Owned(p, u)
      BY <1>1, <2>1 DEF Reconciled, LatestBalance, Starts
    <2>2. CASE Owned(p, u)
      <3> DEFINE n == Len(entries[u])
      <3>1. /\ DOMAIN entries'[u] = 1 .. n + 1 /\ DOMAIN entries[u] = 1 .. n
            /\ n \in Nat
            /\ \A j \in DOMAIN entries[u] : entries'[u][j] = entries[u][j]
            /\ entries'[u][n + 1] = dirty[u].entry
        BY <2>2, CommittedTrail
      <3>2. ASSUME NEW i \in 1 .. n
            PROVE  entries'[u][i].before = Starts(u, i)'
        <4>1. entries'[u][i] = entries[u][i]
          BY <3>1, <3>2
        <4>2. i # 1 => i - 1 \in 1 .. n /\ entries'[u][i - 1] = entries[u][i - 1]
          BY <3>1, <3>2
        <4> QED
          BY <3>1, <3>2, <4>1, <4>2 DEF Reconciled, Starts
      <3>3. ASSUME NEW i, i = n + 1
            PROVE  entries'[u][i].before = Starts(u, i)'
        <4>1. entries'[u][i].before = balance[u]
          BY <2>2, <3>1, <3>3 DEF DraftsCurrent, Owned
        <4>2. balance[u] = LatestBalance(u)
          BY DEF Reconciled
        <4>3. n = 0 <=> entries[u] = <<>>
          BY DEF WalletTypeOK
        <4>4. n # 0 => entries'[u][n] = entries[u][n]
          BY <3>1
        <4> QED
          BY <3>1, <3>3, <4>1, <4>2, <4>3, <4>4 DEF LatestBalance, Starts
      <3>4. balance'[u] = LatestBalance(u)'
        <4>1. balance'[u] = dirty[u].entry.after
          BY <2>2 DEF CommitWallets, DraftsCurrent, Owned
        <4>2. entries'[u] # <<>> /\ Len(entries'[u]) = n + 1
          <5>1. entries'[u] = Append(entries[u], dirty[u].entry)
            BY <2>2 DEF CommitWallets
          <5>2. entries[u] \in Seq(Entry)
            BY DEF WalletTypeOK
          <5> QED
            BY <5>1, <5>2
        <4> QED
          BY <3>1, <4>1, <4>2 DEF LatestBalance
      <3>5. ASSUME NEW i \in DOMAIN entries'[u]
            PROVE  entries'[u][i].before = Starts(u, i)'
        <4>1. i \in 1 .. n \/ i = n + 1
          BY <3>1
        <4> QED
          BY <3>2, <3>3, <4>1
      <3> QED
        BY <3>4, <3>5
    <2> QED
      BY <2>1, <2>2
  <1> QED
    BY <1>1, <1>2, <1>3 DEF Reconciled

\* A write computed from the balance is current.
LEMMA WriteReconciles ==
    ASSUME WalletTypeOK, Reconciled, DraftsCurrent, NEW p \in Procs, NEW u \in Users,
           NEW e, WriteWallet(p, u, e.after, e), e.before = balance[u]
    PROVE  Reconciled' /\ DraftsCurrent'
  <1>1. UNCHANGED <<balance, entries>>
    BY DEF WriteWallet
  <1>2. \A v \in Users : dirty'[v] = (IF v = u THEN [by |-> p, balance |-> e.after, entry |-> e]
                                              ELSE dirty[v])
    BY DEF WriteWallet, WalletTypeOK
  <1> QED
    BY <1>1, <1>2 DEF Reconciled, DraftsCurrent, LatestBalance, Starts

\* So is what remains when transactions are undone or read.
LEMMA QuietReconciles ==
    ASSUME Reconciled, DraftsCurrent, UNCHANGED <<balance, entries>>,
           \A u \in Users : dirty'[u] \in {dirty[u], Clean}
    PROVE  Reconciled' /\ DraftsCurrent'
  BY DEF Reconciled, DraftsCurrent, LatestBalance, Starts
===============================================================================
