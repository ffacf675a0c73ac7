----------------------------- MODULE VtuProviders -----------------------------
(***************************************************************************)
(* The three adapters behind IVTUProvider, as operators: the request each  *)
(* one builds for an order, and the result it makes of the reply.  They    *)
(* keep no state; VtuPurchase calls the one that ProvidersModule injects.  *)
(*                                                                         *)
(* A reply is what the adapters look at: for each field they read, whether *)
(* it is there and says yes.                                               *)
(***************************************************************************)
EXTENDS Integers

CONSTANTS
    Absent,      \* a field that a reply does not have
    Unreadable   \* a call that throws: no connection, or not JSON

Networks == {"MTN", "AIRTEL", "GLO", "NINE_MOBILE"}
Cables == {"DSTV", "GOTV", "STARTIMES", "SHOWMAX"}
Discos == {"IKEDC", "EKEDC", "AEDC", "IBEDC", "PHED", "KEDCO", "JED", "EEDC"}

\* The companies an order can name: the rows of the seed.
Parties(service) ==
    CASE service \in {"airtime", "data"} -> Networks
      [] service = "electricity"         -> Discos
      [] service = "cable"               -> Cables

ProviderNames == {"mock", "vtpass", "clubkonnect"}

\* DEFAULT_VTU_PROVIDER picks the adapter; anything else is the mock.
Selected(setting) == IF setting \in {"vtpass", "clubkonnect"} THEN setting ELSE "mock"

References == {"", "theirs", "request id", "order", "mock"}

\* What an adapter asks for (naira is Absent if the request has no amount)
\* and what it answers.
Result == [id: STRING, naira: Int \cup {Absent}, success: BOOLEAN,
           reference: References]

-------------------------------------------------------------------------------
(* Shared by the adapters *)

\* x ?? y
Coalesce(x, y) == IF x # Absent THEN x ELSE y

\* Mutant of Naira: the kobo are cut off.
NairaTruncated(kobo) == kobo \div 100

\* (Number(kobo) / 100).toFixed(0): the nearest naira, the larger of two.
Naira(kobo) == (kobo + 50) \div 100

\* The catch clause around each paying call.
CallFailed(id, naira) ==
    [id |-> id, naira |-> naira, success |-> FALSE, reference |-> ""]

\* map[code] ?? other
Lookup(table, code, other) == IF code \in DOMAIN table THEN table[code] ELSE other

-------------------------------------------------------------------------------
(* VTPassAdapter *)

VTPassNetworkId(code) ==
    Lookup([MTN |-> "mtn", AIRTEL |-> "airtel", GLO |-> "glo",
            NINE_MOBILE |-> "etisalat"], code, "unlisted")

VTPassDataId(code) ==
    Lookup([mtn |-> "mtn-data", airtel |-> "airtel-data", glo |-> "glo-data",
            etisalat |-> "etisalat-data"], VTPassNetworkId(code), "unlisted")

VTPassDiscoId(code) ==
    Lookup([IKEDC |-> "ikeja-electric", EKEDC |-> "eko-electric",
            AEDC |-> "abuja-electric", IBEDC |-> "ibadan-electric",
            PHED |-> "phed", KEDCO |-> "kedco", JEDC |-> "jos-electric",
            BEDC |-> "benin-electric", KAEDCO |-> "kaduna-electric",
            EEDC |-> "enugu-electric"], code, "unlisted")

VTPassCableId(code) ==
    Lookup([DSTV |-> "dstv", GOTV |-> "gotv", STARTIMES |-> "startimes",
            SHOWMAX |-> "showmax"], code, "unlisted")

VTPassWords == {"000", "delivered", "other", Absent}

\* code, content.transactions.status, and whether there is a transactionId.
VTPassReplies ==
    [code: VTPassWords, status: VTPassWords, theirs: BOOLEAN] \cup {Unreadable}

\* Mutant of VTPassIsSuccess: any code that came back is taken for success.
VTPassIsSuccessLax(reply) == Coalesce(reply.code, reply.status) # Absent

VTPassIsSuccess(reply) ==
    Coalesce(reply.code, Coalesce(reply.status, "")) \in {"000", "delivered"}

VTPassPay(id, kobo, reply) ==
    IF reply = Unreadable
    THEN CallFailed(id, Naira(kobo))
    ELSE [id |-> id, naira |-> Naira(kobo), success |-> VTPassIsSuccess(reply),
          reference |-> IF reply.theirs THEN "theirs" ELSE "request id"]

VTPassAirtime(r, reply) == VTPassPay(VTPassNetworkId(r.party), r.kobo, reply)
VTPassData(r, reply) == VTPassPay(VTPassDataId(r.party), r.kobo, reply)
VTPassElectricity(r, reply) == VTPassPay(VTPassDiscoId(r.party), r.kobo, reply)
VTPassCable(r, reply) == VTPassPay(VTPassCableId(r.party), r.kobo, reply)

-------------------------------------------------------------------------------
(* ClubKonnectAdapter *)

ClubKonnectNetworkId(code) ==
    Lookup([MTN |-> "01", GLO |-> "02", NINE_MOBILE |-> "03", AIRTEL |-> "04"],
           code, "01")

ClubKonnectDiscoId(code) ==
    Lookup([IKEDC |-> "IKEJA", EKEDC |-> "EKO", AEDC |-> "ABUJA",
            IBEDC |-> "IBADAN", PHED |-> "PHED", KEDCO |-> "KANO",
            JEDC |-> "JOS", BEDC |-> "BENIN", KAEDCO |-> "KADUNA",
            EEDC |-> "ENUGU"], code, "unlisted")

ClubKonnectWords == {"00", "other", Absent}

\* status, Status, ReturnCode, StatusCode, and whether there is an id of theirs.
ClubKonnectReplies ==
    [status: ClubKonnectWords, Status: ClubKonnectWords,
     ReturnCode: ClubKonnectWords, StatusCode: ClubKonnectWords,
     theirs: BOOLEAN] \cup {Unreadable}

ClubKonnectIsSuccess(reply) ==
    Coalesce(reply.status, Coalesce(reply.Status,
        Coalesce(reply.ReturnCode, Coalesce(reply.StatusCode, ""))))
      \in {"00", "0", "success", "successful"}

\* _extractRef falls back to the order's own reference, which was sent along.
ClubKonnectRef(reply) == IF reply.theirs THEN "theirs" ELSE "order"

ClubKonnectPay(id, naira, reply) ==
    IF reply = Unreadable
    THEN CallFailed(id, naira)
    ELSE [id |-> id, naira |-> naira, success |-> ClubKonnectIsSuccess(reply),
          reference |-> ClubKonnectRef(reply)]

ClubKonnectAirtime(r, reply) ==
    ClubKonnectPay(ClubKonnectNetworkId(r.party), Naira(r.kobo), reply)

\* Data is ordered by plan, without an amount.
ClubKonnectData(r, reply) ==
    ClubKonnectPay(ClubKonnectNetworkId(r.party), Absent, reply)

ClubKonnectElectricity(r, reply) ==
    ClubKonnectPay(ClubKonnectDiscoId(r.party), Naira(r.kobo), reply)

ClubKonnectCable(r, reply) == ClubKonnectPay(r.party, Naira(r.kobo), reply)

-------------------------------------------------------------------------------
(* MockVTUAdapter: the reply is the account number, a failing one or not *)

MockReplies == {"ordinary number", "failing number"}

MockPay(r, reply) ==
    [id |-> r.party, naira |-> Absent, success |-> reply = "ordinary number",
     reference |-> "mock"]

MockAirtime(r, reply) == MockPay(r, reply)
MockData(r, reply) == MockPay(r, reply)
MockElectricity(r, reply) == MockPay(r, reply)
MockCable(r, reply) == MockPay(r, reply)

-------------------------------------------------------------------------------
(* The lookups of a customer: without a name they throw *)

CustomerReplies == {"named", "nameless", "none"}

VTPassVerifyMeter(party, reply) == [id |-> VTPassDiscoId(party), found |-> reply = "named"]
VTPassVerifySmartcard(party, reply) == [id |-> VTPassCableId(party), found |-> reply = "named"]
ClubKonnectVerifyMeter(party, reply) == [id |-> ClubKonnectDiscoId(party), found |-> reply = "named"]
ClubKonnectVerifySmartcard(party, reply) == [id |-> party, found |-> reply = "named"]
MockVerifyMeter(party, reply) == [id |-> party, found |-> reply = "named"]
MockVerifySmartcard(party, reply) == [id |-> party, found |-> reply = "named"]

-------------------------------------------------------------------------------
(* IVTUProvider *)

Replies(provider) ==
    CASE provider = "vtpass"      -> VTPassReplies
      [] provider = "clubkonnect" -> ClubKonnectReplies
      [] provider = "mock"        -> MockReplies

Deliver(provider, service, r, reply) ==
    LET Call == <<provider, service>>
    IN  CASE Call = <<"vtpass", "airtime">>          -> VTPassAirtime(r, reply)
          [] Call = <<"vtpass", "data">>             -> VTPassData(r, reply)
          [] Call = <<"vtpass", "electricity">>      -> VTPassElectricity(r, reply)
          [] Call = <<"vtpass", "cable">>            -> VTPassCable(r, reply)
          [] Call = <<"clubkonnect", "airtime">>     -> ClubKonnectAirtime(r, reply)
          [] Call = <<"clubkonnect", "data">>        -> ClubKonnectData(r, reply)
          [] Call = <<"clubkonnect", "electricity">> -> ClubKonnectElectricity(r, reply)
          [] Call = <<"clubkonnect", "cable">>       -> ClubKonnectCable(r, reply)
          [] Call = <<"mock", "airtime">>            -> MockAirtime(r, reply)
          [] Call = <<"mock", "data">>               -> MockData(r, reply)
          [] Call = <<"mock", "electricity">>        -> MockElectricity(r, reply)
          [] Call = <<"mock", "cable">>              -> MockCable(r, reply)

LookUp(provider, service, party, reply) ==
    LET Call == <<provider, service>>
    IN  CASE Call = <<"vtpass", "electricity">>      -> VTPassVerifyMeter(party, reply)
          [] Call = <<"vtpass", "cable">>            -> VTPassVerifySmartcard(party, reply)
          [] Call = <<"clubkonnect", "electricity">> -> ClubKonnectVerifyMeter(party, reply)
          [] Call = <<"clubkonnect", "cable">>       -> ClubKonnectVerifySmartcard(party, reply)
          [] Call = <<"mock", "electricity">>        -> MockVerifyMeter(party, reply)
          [] Call = <<"mock", "cable">>              -> MockVerifySmartcard(party, reply)

\* What is assumed of a provider: a field says yes only if it has delivered.
\* Nothing is assumed of one that says no, or says nothing.
Truthful(provider, reply, done) ==
    \/ provider \in {"vtpass", "clubkonnect"} /\ reply = Unreadable
    \/ /\ provider = "vtpass" /\ reply # Unreadable
       /\ {reply.code, reply.status} \cap {"000", "delivered"} # {} => done
    \/ /\ provider = "clubkonnect" /\ reply # Unreadable
       /\ "00" \in {reply.status, reply.Status, reply.ReturnCode, reply.StatusCode}
            => done
    \/ provider = "mock" /\ done = (reply = "ordinary number")
===============================================================================
