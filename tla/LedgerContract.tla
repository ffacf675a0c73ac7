---------------------------- MODULE LedgerContract ----------------------------
(***************************************************************************)
(* What a reader of wallets and wallet_transactions may rely on, without   *)
(* transactions, locks or handlers: transfers happen one at a time, each   *)
(* at most once per idempotency key, each with its two ledger rows.        *)
(*                                                                         *)
(* AtomicSpec moves money from and to the current balances.  SnapshotSpec  *)
(* lets a transfer start from any balance the wallet has ever had.         *)
(***************************************************************************)
EXTENDS Integers, Sequences

CONSTANTS Users, Refs, Keys, Amounts, InitialKobo

VARIABLES balance, entries, used

contractVars == <<balance, entries, used>>

Past(u) ==
    {InitialKobo[u]} \cup {entries[u][i].after : i \in DOMAIN entries[u]}

Init ==
    /\ balance = InitialKobo
    /\ entries = [u \in Users |-> <<>>]
    /\ used = {}

Row(type, amount, before, after, ref) ==
    [type |-> type, amount |-> amount,
     before |-> before, after |-> after, ref |-> ref]

\* The sender leaves at fromBalance - amount, the recipient at toBalance + amount.
Move(from, to, amount, key, ref, fromBalance, toBalance) ==
    /\ from # to
    /\ key \notin used
    /\ fromBalance >= amount
    /\ used' = used \cup {key}
    /\ balance' = [balance EXCEPT ![from] = fromBalance - amount,
                                  ![to] = toBalance + amount]
    /\ entries' = [entries EXCEPT
          ![from] = Append(@, Row("DEBIT", amount, fromBalance, fromBalance - amount, ref)),
          ![to] = Append(@, Row("CREDIT", amount, toBalance, toBalance + amount, ref))]

AtomicTransfer(from, to, amount, key, ref) ==
    Move(from, to, amount, key, ref, balance[from], balance[to])

SnapshotTransfer(from, to, amount, key, ref) ==
    \E b \in Past(from), c \in Past(to) : Move(from, to, amount, key, ref, b, c)

AtomicNext ==
    \E from, to \in Users, amount \in Amounts, key \in Keys, ref \in Refs :
        AtomicTransfer(from, to, amount, key, ref)

SnapshotNext ==
    \E from, to \in Users, amount \in Amounts, key \in Keys, ref \in Refs :
        SnapshotTransfer(from, to, amount, key, ref)

AtomicSpec == Init /\ [][AtomicNext]_contractVars

SnapshotSpec == Init /\ [][SnapshotNext]_contractVars
===============================================================================
