--------------------------- MODULE ProviderEvents ---------------------------
(***************************************************************************)
(* What becomes of a notification of the custody provider before a deposit *)
(* is looked at: its signature is verified                                 *)
(* (src/realMoneyAdapters/fireblocksDepositWebhook.ts), the payload, which *)
(* comes in two formats and with fields missing, is read                   *)
(* (parseFireblocksDeposit of src/coinWallets.ts) and stored under the id  *)
(* it gives itself (storeProviderEvent).  Deposits goes on from there.     *)
(* Notifications are repeated, and two may claim one id; the unique index  *)
(* makes the insertions follow each other.                                 *)
(***************************************************************************)
EXTENDS Integers, Sequences

CONSTANTS
    None,           \* a field that is missing
    Payloads,       \* what may be sent, records with the fields used below; an
                    \* amount is in atomic units, -1 is no plain decimal
    Deliveries,     \* [body, signature, jwks]: what may arrive
    Contract        \* usdtTronContract, or None when it is not configured

VARIABLES
    stored,         \* money_provider_events: [id, payload]
    committed       \* history: the payloads whose transactions committed

vars == <<stored, committed>>

Init == stored = {} /\ committed = {}

FirstOf(values) ==
    LET given == SelectSeq(values, LAMBDA v : v # None)
    IN  IF given = <<>> THEN None ELSE given[1]

-----------------------------------------------------------------------------
(* Verification                                                            *)

\* A detached signature: what is there, what its header says, and whether it
\* is one of this body by the key.
Detached(s) == s # None /\ s.parts = 3 /\ s.detached /\ s.decodes

SigningKey(jwks, kid) == CHOOSE k \in jwks : k.kid = kid

UsableKey(k) == /\ k.kty = "RSA" /\ k.use \in {None, "sig"} /\ k.alg \in {None, "RS512"}

\* The first check that fails, in their order; None when the delivery is what
\* the provider sent.
VerifyRefusal(delivery) ==
    LET s == delivery.signature
        failing ==
          <<IF delivery.body = None THEN "RAW_BODY_REQUIRED" ELSE None,
            IF s = None THEN "SIGNATURE_REQUIRED" ELSE None,
            IF ~Detached(s) THEN "SIGNATURE_MALFORMED" ELSE None,
            IF Detached(s) /\ s.kid = None THEN "SIGNATURE_KID_REQUIRED" ELSE None,
            IF Detached(s) /\ s.alg # "RS512" THEN "SIGNATURE_ALG_UNSUPPORTED" ELSE None,
            IF delivery.jwks = {} THEN "JWKS_REQUIRED" ELSE None,
            IF Detached(s) /\ \A k \in delivery.jwks : k.kid # s.kid THEN "JWKS_KEY_NOT_FOUND" ELSE None>>
    IN  IF FirstOf(failing) # None THEN FirstOf(failing)
        ELSE IF ~UsableKey(SigningKey(delivery.jwks, s.kid)) THEN "JWKS_KEY_UNSUPPORTED"
        ELSE IF ~(s.of = delivery.body /\ s.by = s.kid) THEN "SIGNATURE_INVALID"
        ELSE IF delivery.body \notin Payloads THEN "PAYLOAD_JSON_INVALID"
        ELSE None

\* Only the older format, which has no eventType, names the transaction in "id".
TransactionId(p) ==
    FirstOf(<<p.resourceId, p.dataId, p.transactionId,
              IF p.eventType # None THEN None ELSE p.id>>)

-----------------------------------------------------------------------------
(* Reading a payload                                                       *)

\* Stands for a coordinate the payload lacks: no other event can share it.
Missing(id) == <<"missing", id, None>>

\* An id of its own, of the transaction, or one that only this payload has.
ProviderEventId(p) ==
    LET given == FirstOf(<<p.eventId, p.notificationId, p.id, TransactionId(p)>>)
    IN  IF given # None THEN <<"event", given, None>> ELSE <<"unidentified", None, p>>

Coordinate(p, value) ==
    IF value # None THEN <<"chain", value, None>> ELSE Missing(ProviderEventId(p))

Where(p) ==
    [hash |-> Coordinate(p, p.hash), contract |-> p.contract,
     index |-> Coordinate(p, p.index), destination |-> p.destination]

\* What is missing or is no decimal counts as nothing, and is an issue.
Amount(value) == IF value \in Nat THEN value ELSE 0

GrossIssue(value) == value \notin Nat \ {0}
FeeIssue(value) == value # None /\ value \notin Nat

ValidationIssues(p) ==
    {i \in {<<"INVALID_GROSS_USDT_AMOUNT", GrossIssue(p.gross)>>,
            <<"INVALID_NETWORK_FEE", FeeIssue(p.networkFee)>>,
            <<"INVALID_PROVIDER_FEE", FeeIssue(p.providerFee)>>,
            <<"EVENT_INDEX_REQUIRED", p.index = None>>,
            <<"TX_HASH_REQUIRED", p.hash = None>>,
            <<"INVALID_DESTINATION_ADDRESS", p.destination \in {None, "malformed"}>>,
            <<"TOKEN_CONTRACT_REQUIRED", p.contract = None>>,
            <<"PROVIDER_EVENT_ID_REQUIRED", ProviderEventId(p)[1] = "unidentified">>,
            <<"UNSUPPORTED_ASSET", p.asset # "USDT">>,
            <<"UNSUPPORTED_NETWORK", p.network # "TRON">>,
            <<"USDT_CONTRACT_NOT_CONFIGURED", Contract = None>>,
            <<"TOKEN_CONTRACT_MISMATCH", Contract # None /\ p.contract # Contract>>} : i[2]}

Reversal(p) ==
    p.status \in {"CANCELLED", "CANCELED", "REJECTED", "FAILED", "REVERTED", "REORGED"}
    \/ p.eventType = "reversal"

Confirmed(p) == p.status \in {"COMPLETED", "CONFIRMED"}

CalculateNetUsdt(p) ==
    LET fees == Amount(p.networkFee) + Amount(p.providerFee)
    IN  IF Amount(p.gross) > fees THEN Amount(p.gross) - fees ELSE 0

\* For these a rate is asked; anything else waits for an administrator.
Creditable(p) == Confirmed(p) /\ ~Reversal(p) /\ ValidationIssues(p) = {}

-----------------------------------------------------------------------------
(* Storing it                                                              *)

\* (mutant) All conflicts with an event are one.
ConflictIdOfEvent(p) == <<"conflict", ProviderEventId(p), None>>

ConflictId(p) == <<"conflict", ProviderEventId(p), p>>

Ids == {e.id : e \in stored}

\* insert ... on conflict do nothing
Inserted(id, p) == IF id \in Ids THEN stored ELSE stored \cup {[id |-> id, payload |-> p]}

\* The id is known and what it names is something else.
Conflicts(p) == \E e \in stored : e.id = ProviderEventId(p) /\ e.payload # p

Process(p) ==
    /\ stored' = IF Conflicts(p) THEN Inserted(ConflictId(p), p) ELSE Inserted(ProviderEventId(p), p)
    /\ committed' = committed \cup {p}

Deliver(delivery) ==
    /\ VerifyRefusal(delivery) = None
    /\ Process(delivery.body)

Next == \E delivery \in Deliveries : Deliver(delivery)

-----------------------------------------------------------------------------
(* Properties                                                              *)

\* Every notification that was acted upon can be audited: its payload is stored
\* once, whichever ids it and others claimed and in whatever order they came
\* (the event id, its fallbacks and the conflict id decide that together).
EveryPayloadKept ==
    /\ \A p \in committed : \E e \in stored : e.payload = p
    /\ \A e, f \in stored : e.payload = f.payload => e = f

\* Two notifications are taken for reports of one transfer only if both name
\* the transaction and the event in it, or if they are one event; and what a
\* rate is asked for names all of it, in USDT of the configured contract.
TransfersToldApart ==
    /\ \A p, q \in Payloads :
           Where(p) = Where(q) =>
               \/ p.hash # None /\ p.hash = q.hash /\ p.index # None /\ p.index = q.index
               \/ ProviderEventId(p) = ProviderEventId(q)
    /\ \A p \in Payloads :
           Creditable(p) =>
               /\ {p.hash, p.index, p.contract, p.destination} \cap {None} = {}
               /\ ProviderEventId(p)[2] # None
               /\ CalculateNetUsdt(p) \in 0 .. p.gross
=============================================================================
