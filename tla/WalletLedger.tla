----------------------------- MODULE WalletLedger -----------------------------
(***************************************************************************)
(* The rows every money-moving service of the backend writes: one `wallets`*)
(* row per user and its `wallet_transactions` rows, seen through Prisma's  *)
(* interactive transactions on PostgreSQL at READ COMMITTED (the code names*)
(* no other level).                                                        *)
(*                                                                         *)
(*   - wallet.findUnique reads the committed row and takes no lock;        *)
(*   - wallet.update takes the row lock until the transaction ends, so the *)
(*     row has at most one uncommitted version, and a second writer waits; *)
(*   - creditWallet and debitWallet write balance = (value read) +/- amount*)
(*     as an absolute value, whatever was committed since the read;        *)
(*   - a commit publishes every version of the transaction at once, a      *)
(*     rollback drops them.                                                *)
(*                                                                         *)
(* A service EXTENDS this module and sequences these operators in its own  *)
(* handlers.  No handler writes one wallet twice in a transaction.         *)
(***************************************************************************)
EXTENDS Integers, Sequences

CONSTANTS
    Users,        \* owners of a wallet (wallets.user_id is unique)
    Procs,        \* request handlers running in the backend
    Refs,         \* transactions rows an entry can point at
    InitialKobo,  \* [Users -> Nat]: the balances the ledger starts from
    LockedUsers,  \* wallets with is_locked set (no code path changes it)
    Clean         \* "the row has no uncommitted version"

EntryTypes == {"CREDIT", "DEBIT"}

\* A wallet_transactions row; its walletId is the index it is kept under.
Entry == [type: EntryTypes, amount: Nat, before: Int, after: Int, ref: Refs]

\* An uncommitted wallets row, the handler whose transaction wrote it, and
\* the ledger row the same transaction inserted for it.
Version == [by: Procs, balance: Int, entry: Entry]

ASSUME WalletAssumption ==
    /\ InitialKobo \in [Users -> Nat]
    /\ LockedUsers \subseteq Users
    /\ Clean \notin Version

VARIABLES
    balance,   \* wallets.balance_kobo, committed
    entries,   \* wallet_transactions, committed, in the order of insertion
    dirty,     \* the uncommitted version of each wallets row, or Clean
    seen       \* the balance a handler's last wallet.findUnique returned

walletVars == <<balance, entries, dirty, seen>>

WalletTypeOK ==
    /\ balance \in [Users -> Int]
    /\ entries \in [Users -> Seq(Entry)]
    /\ dirty \in [Users -> Version \cup {Clean}]
    /\ seen \in [Procs -> Int]

WalletInit ==
    /\ balance = InitialKobo
    /\ entries = [u \in Users |-> <<>>]
    /\ dirty = [u \in Users |-> Clean]
    /\ seen = [p \in Procs |-> 0]

-------------------------------------------------------------------------------
(* Inside a transaction *)

ReadWallet(p, u) ==
    /\ seen' = [seen EXCEPT ![p] = balance[u]]
    /\ UNCHANGED <<balance, entries, dirty>>

\* Mutant of CanDebit: the balance is not compared with the amount.
CanDebitUnchecked(u, amount) == u \notin LockedUsers

\* What debitWallet checks on the row it has just read.
CanDebit(u, amount) ==
    /\ u \notin LockedUsers
    /\ balance[u] >= amount

Owned(p, u) == dirty[u] # Clean /\ dirty[u].by = p

\* wallet.update followed by walletTransaction.create: waits for the row
\* lock, then leaves an uncommitted version behind.
WriteWallet(p, u, newBalance, entry) ==
    /\ dirty[u] = Clean
    /\ dirty' = [dirty EXCEPT ![u] =
                    [by |-> p, balance |-> newBalance, entry |-> entry]]
    /\ UNCHANGED <<balance, entries, seen>>

\* Mutant of CreditWallet: { increment } on the row, the ledger row as read.
CreditWalletIncrement(p, u, amount, ref) ==
    WriteWallet(p, u, balance[u] + amount,
        [type |-> "CREDIT", amount |-> amount,
         before |-> seen[p], after |-> seen[p] + amount, ref |-> ref])

\* Mutant of CreditWallet: the transaction's type where the entry's belongs.
CreditWalletMistyped(p, u, amount, ref) ==
    WriteWallet(p, u, seen[p] + amount,
        [type |-> "TRANSFER", amount |-> amount,
         before |-> seen[p], after |-> seen[p] + amount, ref |-> ref])

CreditWallet(p, u, amount, ref) ==
    LET after == seen[p] + amount
    IN  WriteWallet(p, u, after,
            [type |-> "CREDIT", amount |-> amount,
             before |-> seen[p], after |-> after, ref |-> ref])

\* Mutant of DebitWallet: { decrement } on the row, the ledger row as read.
DebitWalletDecrement(p, u, amount, ref) ==
    WriteWallet(p, u, balance[u] - amount,
        [type |-> "DEBIT", amount |-> amount,
         before |-> seen[p], after |-> seen[p] - amount, ref |-> ref])

DebitWallet(p, u, amount, ref) ==
    LET after == seen[p] - amount
    IN  WriteWallet(p, u, after,
            [type |-> "DEBIT", amount |-> amount,
             before |-> seen[p], after |-> after, ref |-> ref])

-------------------------------------------------------------------------------
(* The end of a transaction, or of several when the server dies *)

CommitWallets(p) ==
    /\ balance' = [u \in Users |->
                     IF Owned(p, u) THEN dirty[u].balance ELSE balance[u]]
    /\ entries' = [u \in Users |->
                     IF Owned(p, u) THEN Append(entries[u], dirty[u].entry)
                                    ELSE entries[u]]
    /\ dirty' = [u \in Users |-> IF Owned(p, u) THEN Clean ELSE dirty[u]]
    /\ UNCHANGED seen

RollbackWallets(P) ==
    /\ dirty' = [u \in Users |->
                   IF \E p \in P : Owned(p, u) THEN Clean ELSE dirty[u]]
    /\ UNCHANGED <<balance, entries, seen>>

-------------------------------------------------------------------------------
(* What is said of the ledger *)

Rows(u) == {entries[u][i] : i \in DOMAIN entries[u]}

RowsOf(u, ref) == {i \in DOMAIN entries[u] : entries[u][i].ref = ref}

\* Every balance a wallet has had, as its audit trail records them.
PastBalances(u) == {InitialKobo[u]} \cup {e.after : e \in Rows(u)}

\* The balance the newest ledger row accounts for.
LatestBalance(u) ==
    IF entries[u] = <<>> THEN InitialKobo[u]
                         ELSE entries[u][Len(entries[u])].after

\* Row i of a trail starts where row i - 1 ended.
Starts(u, i) == IF i = 1 THEN InitialKobo[u] ELSE entries[u][i - 1].after
===============================================================================
