--------------------------- MODULE PaymentGateways ---------------------------
(***************************************************************************)
(* The three adapters behind IPaymentGateway, as operators: whom a webhook *)
(* is believed to come from, what its body says, and what the status of a  *)
(* payment is after asking the gateway's API.  They keep no state.         *)
(*                                                                         *)
(* initializePayment of all three, and the mock's webhook operations, have *)
(* no caller: initializeFunding builds the checkout address itself.        *)
(***************************************************************************)
CONSTANTS
    Missing,      \* a body without a reference
    Unreadable    \* an API call that throws: no connection, or not JSON

Gateways == {"PAYSTACK", "FLUTTERWAVE", "MOCK"}

\* The secret key the deployment has: absent, or a word its text contains.
SecretKeys == {"absent", "mock", "test", "live"}

\* A signature made with the key, the literal test signatures, others, none.
Signatures == {"signed", "sandbox", "wrong", "absent"}

\* What a verification is answered: the gateway's word for the payment, a
\* body without data, or nothing readable.
Answers == {"success", "failed", "pending", "no data", Unreadable}

\* status: isSuccess ? 'SUCCESS' : 'failed' ? 'FAILED' : 'PENDING'
StatusOf(answer) ==
    CASE answer = "success" -> "SUCCESS"
      [] answer = "failed"  -> "FAILED"
      [] answer = "pending" -> "PENDING"

\* Whether a call that was made has brought back the gateway's word.
Told(answer) == answer \notin {"no data", Unreadable}

-------------------------------------------------------------------------------
(* PaystackAdapter *)

\* Without a key the adapter takes a mock one.
PaystackCallsApi(key) == key \notin {"absent", "mock"}

PaystackHears(key, answer) == PaystackCallsApi(key) /\ Told(answer)

\* A call that was not made or told nothing falls through to the sandbox.
PaystackVerify(key, answer) ==
    IF PaystackHears(key, answer) THEN StatusOf(answer) ELSE "SUCCESS"

PaystackSignature(signature) == signature \in {"signed", "sandbox"}

\* What the handler does is decided by the event's name alone.
PaystackEvent(body) ==
    [fulfils |-> body.event = "charge.success", reference |-> body.reference]

-------------------------------------------------------------------------------
(* FlutterwaveAdapter *)

FlutterwaveCallsApi(key) == key = "live"

\* First a search for the reference, then the verification of what it found.
FlutterwaveHears(key, search, answer) ==
    FlutterwaveCallsApi(key) /\ search = "found" /\ Told(answer)

FlutterwaveVerify(key, search, answer) ==
    IF FlutterwaveHears(key, search, answer) THEN StatusOf(answer) ELSE "SUCCESS"

FlutterwaveSignature(signature, production) ==
    signature = "signed" \/ (signature = "sandbox" /\ ~ production)

\* Here by the status alone, whatever the event is.
FlutterwaveEvent(body) ==
    [fulfils |-> body.status \in {"successful", "success"},
     reference |-> body.reference]

-------------------------------------------------------------------------------
(* MockPaymentAdapter: references that contain FAIL are declined *)

MockVerify(name) == IF name = "FAIL" THEN "FAILED" ELSE "SUCCESS"
===============================================================================
