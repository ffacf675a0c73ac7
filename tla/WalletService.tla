---------------------------- MODULE WalletService ----------------------------
(***************************************************************************)
(* WalletService.transferFunds: wallet-to-wallet transfers, each request a *)
(* handler of its own, any number of them interleaved at every await.      *)
(*                                                                         *)
(* The idempotency key is looked up outside the transaction and is also    *)
(* the unique column of the master transactions row, so the insert waits   *)
(* for an uncommitted row with the same key and fails on a committed one.  *)
(* A client that saw no answer repeats its request with the same key: that *)
(* is another handler here.                                                *)
(***************************************************************************)
EXTENDS WalletLedger

CONSTANTS
    Keys,       \* idempotency keys clients use
    Amounts,    \* amounts clients transfer, in kobo
    Nobody,     \* not a handler
    NoRequest   \* what a handler serves before it has a request

\* A request as the controller hands it over: the DTO's amount is a positive
\* integer, the PIN matches or not, the recipient may be the sender.
Request == [from: Users, to: Users, amount: Amounts, key: Keys, pinOk: BOOLEAN]

ASSUME ServiceAssumption ==
    /\ Refs = Procs
    /\ Amounts \subseteq Nat \ {0}
    /\ Nobody \notin Procs
    /\ NoRequest \notin Request

VARIABLES
    pc,       \* where the handler is
    req,      \* the request it serves
    master,   \* committed transactions row of each key: the handler it is of
    claim     \* uncommitted transactions row of each key: the handler inserting it

vars == <<walletVars, pc, req, master, claim>>

Open == {"debitRead", "debitWrite", "creditRead", "creditWrite", "commit"}
Before == {"lookup", "validate", "begin"}
Running == Open \cup Before \cup {"answer"}
Refusals == {"conflict", "refused", "failed"}
Ended == Refusals \cup {"done", "lost"}

TypeOK ==
    /\ WalletTypeOK
    /\ pc \in [Procs -> {"idle"} \cup Running \cup Ended]
    /\ req \in [Procs -> Request \cup {NoRequest}]
    /\ \A p \in Procs : pc[p] # "idle" => req[p] \in Request
    /\ master \in [Keys -> Procs \cup {Nobody}]
    /\ claim \in [Keys -> Procs \cup {Nobody}]

Init ==
    /\ WalletInit
    /\ pc = [p \in Procs |-> "idle"]
    /\ req = [p \in Procs |-> NoRequest]
    /\ master = [k \in Keys |-> Nobody]
    /\ claim = [k \in Keys |-> Nobody]

Goto(p, label) == pc' = [pc EXCEPT ![p] = label]

-------------------------------------------------------------------------------
(* Before the transaction *)

Receive(p) ==
    /\ pc[p] = "idle"
    /\ \E r \in Request : req' = [req EXCEPT ![p] = r]
    /\ Goto(p, "lookup")
    /\ UNCHANGED <<walletVars, master, claim>>

LookupKey(p) ==
    /\ pc[p] = "lookup"
    /\ Goto(p, IF master[req[p].key] = Nobody THEN "validate" ELSE "conflict")
    /\ UNCHANGED <<walletVars, req, master, claim>>

\* verifyTransactionPin, the recipient lookup and the self-transfer check.
Validate(p) ==
    /\ pc[p] = "validate"
    /\ Goto(p, IF req[p].pinOk /\ req[p].from # req[p].to THEN "begin" ELSE "refused")
    /\ UNCHANGED <<walletVars, req, master, claim>>

-------------------------------------------------------------------------------
(* The transaction *)

Wallets(p) == {req[p].from, req[p].to}

\* Mutant of CreateMaster: idempotency_key is not a unique column.
CreateMasterNotUnique(p) ==
    /\ pc[p] = "begin"
    /\ claim' = [claim EXCEPT ![req[p].key] = p]
    /\ Goto(p, "debitRead")
    /\ UNCHANGED <<walletVars, req, master>>

CreateMaster(p) ==
    /\ pc[p] = "begin"
    /\ master[req[p].key] = Nobody
    /\ claim[req[p].key] = Nobody
    /\ claim' = [claim EXCEPT ![req[p].key] = p]
    /\ Goto(p, "debitRead")
    /\ UNCHANGED <<walletVars, req, master>>

\* Mutant of DuplicateKey: the violation is taken for the request's own row.
DuplicateKeyIsSuccess(p) ==
    /\ pc[p] = "begin"
    /\ master[req[p].key] # Nobody
    /\ Goto(p, "done")
    /\ UNCHANGED <<walletVars, req, master, claim>>

\* The insert meets a row committed after the lookup: unique violation.
DuplicateKey(p) ==
    /\ pc[p] = "begin"
    /\ master[req[p].key] # Nobody
    /\ Goto(p, "failed")
    /\ UNCHANGED <<walletVars, req, master, claim>>

\* The transactions rows of handlers P vanish with their open transactions.
ReleaseClaims(P) ==
    claim' = [k \in Keys |-> IF claim[k] \in P THEN Nobody ELSE claim[k]]

DebitRead(p) ==
    /\ pc[p] = "debitRead"
    /\ CanDebit(req[p].from, req[p].amount)
    /\ ReadWallet(p, req[p].from)
    /\ Goto(p, "debitWrite")
    /\ UNCHANGED <<req, master, claim>>

\* Mutant of DebitRefused: the refusal is answered with the transaction open.
DebitRefusedLeftOpen(p) ==
    /\ pc[p] = "debitRead"
    /\ ~ CanDebit(req[p].from, req[p].amount)
    /\ Goto(p, "refused")
    /\ UNCHANGED <<walletVars, req, master, claim>>

\* Locked (403) or insufficient funds (400): the exception rolls back.
DebitRefused(p) ==
    /\ pc[p] = "debitRead"
    /\ ~ CanDebit(req[p].from, req[p].amount)
    /\ RollbackWallets({p})
    /\ ReleaseClaims({p})
    /\ Goto(p, "refused")
    /\ UNCHANGED <<req, master>>

\* Mutant of DebitWrite: debitWallet is handed the client, not the transaction.
DebitWriteOutsideTx(p) ==
    LET u == req[p].from
        after == seen[p] - req[p].amount
    IN  /\ pc[p] = "debitWrite"
        /\ dirty[u] = Clean
        /\ balance' = [balance EXCEPT ![u] = after]
        /\ entries' = [entries EXCEPT ![u] = Append(@,
              [type |-> "DEBIT", amount |-> req[p].amount,
               before |-> seen[p], after |-> after, ref |-> p])]
        /\ Goto(p, "creditRead")
        /\ UNCHANGED <<dirty, seen, req, master, claim>>

DebitWrite(p) ==
    /\ pc[p] = "debitWrite"
    /\ DebitWallet(p, req[p].from, req[p].amount, p)
    /\ Goto(p, "creditRead")
    /\ UNCHANGED <<req, master, claim>>

CreditRead(p) ==
    /\ pc[p] = "creditRead"
    /\ ReadWallet(p, req[p].to)
    /\ Goto(p, "creditWrite")
    /\ UNCHANGED <<req, master, claim>>

CreditWrite(p) ==
    /\ pc[p] = "creditWrite"
    /\ CreditWallet(p, req[p].to, req[p].amount, p)
    /\ Goto(p, "commit")
    /\ UNCHANGED <<req, master, claim>>

Commit(p) ==
    /\ pc[p] = "commit"
    /\ CommitWallets(p)
    /\ master' = [master EXCEPT ![req[p].key] = p]
    /\ ReleaseClaims({p})
    /\ Goto(p, "answer")
    /\ UNCHANGED req

\* A database error at any await, the interactive transaction's timeout, or
\* PostgreSQL picking it to break a deadlock.
Fail(p) ==
    /\ pc[p] \in Before \cup Open
    /\ RollbackWallets({p})
    /\ ReleaseClaims({p})
    /\ Goto(p, "failed")
    /\ UNCHANGED <<req, master>>

-------------------------------------------------------------------------------
(* After it *)

\* dispatchNotification swallows its own failures: the answer is a success.
Answer(p) ==
    /\ pc[p] = "answer"
    /\ Goto(p, "done")
    /\ UNCHANGED <<walletVars, req, master, claim>>

\* The server dies: every running handler is gone, its client sees no
\* answer, open transactions roll back, committed ones stay.
Crash ==
    LET dead == {p \in Procs : pc[p] \in Running}
    IN  /\ dead # {}
        /\ pc' = [p \in Procs |-> IF p \in dead THEN "lost" ELSE pc[p]]
        /\ RollbackWallets(dead)
        /\ ReleaseClaims(dead)
        /\ UNCHANGED <<req, master>>

Terminated ==
    /\ \A p \in Procs : pc[p] \in Ended
    /\ UNCHANGED vars

Step(p) ==
    \/ LookupKey(p) \/ Validate(p)
    \/ CreateMaster(p) \/ DuplicateKey(p)
    \/ DebitRead(p) \/ DebitRefused(p) \/ DebitWrite(p)
    \/ CreditRead(p) \/ CreditWrite(p) \/ Commit(p)
    \/ Answer(p)

Next ==
    \/ \E p \in Procs : Receive(p) \/ Step(p) \/ Fail(p)
    \/ Crash
    \/ Terminated

Spec == Init /\ [][Next]_vars

\* Handlers keep running while they can; a transaction that waits for a row
\* lock and never gets it is ended by the timeout or the deadlock detector.
BlockedOnRow(p) ==
    \/ pc[p] = "debitWrite" /\ dirty[req[p].from] # Clean
    \/ pc[p] = "creditWrite" /\ dirty[req[p].to] # Clean

LockTimeout(p) == BlockedOnRow(p) /\ Fail(p)

FairSpec == Spec /\ \A p \in Procs : WF_vars(Step(p)) /\ WF_vars(LockTimeout(p))

-------------------------------------------------------------------------------
(* Properties *)

Executed(p) == \E u \in Users : RowsOf(u, p) # {}

\* No interleaving makes a balance negative, although the check and the
\* write are not one step: a stale read is written back whole, so what is
\* written is never less than the amount that was found sufficient
\* (debitWallet, the balance check against the absolute update).
NonNegative == \A u \in Users : balance[u] >= 0

\* A wallet's balance is the balanceAfterKobo of its newest ledger row, under
\* every interleaving of transfers, failures and crashes
\* (the verification constraint of docs/PHASE_3, section 3.2).
LatestEntryIsBalance == \A u \in Users : balance[u] = LatestBalance(u)

\* Two transfers with the same idempotency key are never both executed, even
\* when both found the key unused (lookup outside, unique column inside).
OneTransferPerKey ==
    \A p, q \in Procs :
        Executed(p) /\ Executed(q) /\ p # q => req[p].key # req[q].key

\* A transfer is in the ledger whole or not at all: one DEBIT of the sender
\* and one CREDIT of the recipient, of the same amount, and no other row.
TransferWhole ==
    \A p \in Procs : Executed(p) =>
        \A u \in Users :
            /\ u \notin Wallets(p) => RowsOf(u, p) = {}
            /\ u \in Wallets(p) => \E i \in DOMAIN entries[u] :
                 /\ RowsOf(u, p) = {i}
                 /\ entries[u][i].amount = req[p].amount
                 /\ entries[u][i].type = (IF u = req[p].from THEN "DEBIT" ELSE "CREDIT")

\* A client is told the truth: "done" means executed, a refusal means not
\* executed by this request, a conflict that another request with the key was.
AnswersAreTrue ==
    \A p \in Procs :
        /\ pc[p] = "done" => Executed(p)
        /\ pc[p] \in Refusals => ~ Executed(p)
        /\ pc[p] = "conflict" =>
             \E q \in Procs : Executed(q) /\ req[q].key = req[p].key

\* A row lock or an uncommitted key belongs to a handler whose transaction is
\* still open: none outlives a commit, a refusal, a failure or a crash.
NoOrphanLocks ==
    /\ \A u \in Users : dirty[u] # Clean =>
         pc[dirty[u].by] \in Open /\ u \in Wallets(dirty[u].by)
    /\ \A k \in Keys : claim[k] # Nobody =>
         pc[claim[k]] \in Open /\ req[claim[k]].key = k

\* Each row of a wallet's trail starts at the balance the row before it ended
\* with, so the trail accounts for every kobo of the balance.
TrailReconciles ==
    \A u \in Users : \A i \in DOMAIN entries[u] :
        entries[u][i].before = Starts(u, i)

\* Every request is answered or its server dies: opposite transfers that
\* lock each other's rows do not wait for ever.
EveryRequestEnds == \A p \in Procs : pc[p] = "lookup" ~> pc[p] \in Ended

\* What the ledger promises its readers.
UsedKeys == {k \in Keys : master[k] # Nobody}

Contract == INSTANCE LedgerContract WITH used <- UsedKeys

\* Under every interleaving a committed transfer moves money between
\* balances its wallets really had, once per key, and records it.
ImplementsSnapshotLedger == Contract!SnapshotSpec

\* A committed transfer is one atomic move of the balances of that moment: so
\* while no transfer waits for a wallet's row, not under every interleaving.
ImplementsAtomicLedger == Contract!AtomicSpec
===============================================================================
