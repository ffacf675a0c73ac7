--------------------------- MODULE MCPaymentsService ---------------------------
EXTENDS PaymentsService, TLC

CONSTANTS a, b, c, f1, f2

MCGatewayOf == [f \in Fundings |-> "PAYSTACK"]

\* One funding is asked for with the mock gateway, as the client may choose
\* and as every purchase is.
MCAnyGateway == [f \in Fundings |-> IF f = f1 THEN "MOCK" ELSE "PAYSTACK"]

MCOtherGateways == [f \in Fundings |-> IF f = f1 THEN "MOCK" ELSE "FLUTTERWAVE"]

MCInitialKobo == [u \in Users |-> 0]

\* a referred everybody else and was referred by nobody.
MCReferrer == [u \in Users |-> IF u # a THEN a ELSE Nobody]

\* Deliveries, claims and keys are interchangeable, and so are the users a
\* referred; fundings differ by their gateway.
MCSymmetry ==
    Permutations(Deliveries) \cup Permutations(Claims) \cup Permutations(Keys)
        \cup Permutations(Users \ {a})
===============================================================================
