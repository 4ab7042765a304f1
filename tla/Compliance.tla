----------------------------- MODULE Compliance -----------------------------
(***************************************************************************)
(* A user's compliance profile, consents to the legal texts, and the       *)
(* answer whether the user may trade (src/compliance.ts,                   *)
(* src/routes/complianceRoutes.ts).                                        *)
(*                                                                         *)
(* Requests read the profile and write the whole row back in a statement   *)
(* of its own: two of them may overwrite each other, and the first read of *)
(* a user without a profile stores an empty one.  The three consents are   *)
(* three independent statements.  One user is modelled: the tables are     *)
(* keyed by user.  Time matters once, when the user comes of age.          *)
(***************************************************************************)
EXTENDS FiniteSets

CONSTANTS
    Countries, Blocked,     \* country codes, and BLOCKED_COUNTRY_CODES
    Births,                 \* dates of birth: "child" is under 18 for good,
                            \* "teen" comes of age meanwhile, others are adults
    Calls,
    None

ComplianceAssumption ==
    Blocked \subseteq Countries /\ None \notin Countries \cup Births \cup {"child", "teen"}

VARIABLES
    row,        \* the user's row of user_compliance_profiles, or None
    consents,   \* types the user has consented to
    grown,      \* the teen has turned 18
    request     \* what each request does, and the profile it has read or is to store

vars == <<row, consents, grown, request>>

ConsentTypes == {"terms", "privacy", "risk_disclosure"}

Profiles == [country : Countries \cup {None}, birth : Births \cup {None},
             kyc : {"not_started", "rejected"}, aml : {"clear", "blocked"},
             risk : {"low", "blocked"}]

EmptyProfile == [country |-> None, birth |-> None,
                 kyc |-> "not_started", aml |-> "clear", risk |-> "low"]

\* validateProfilePatch: either field may be left out, or set to null.
Keep == "keep"
Patches == [country : Countries \cup {None, Keep}, birth : Births \cup {None, Keep}]

Idle == [op |-> "none", stage |-> "idle", patch |-> None, read |-> None,
         todo |-> {}, answer |-> "none"]

TypeOK == row \in Profiles \cup {None} /\ consents \subseteq ConsentTypes

Init == row = None /\ consents = {} /\ grown = FALSE /\ request = [c \in Calls |-> Idle]

At(c, stage) == request[c].stage = stage
Become(c, r) == request' = [request EXCEPT ![c] = r]

-----------------------------------------------------------------------------
(* Pure parts                                                              *)

\* calculateAge(...) < 18
UnderAge(birth) == birth = "child" \/ (birth = "teen" /\ ~grown)

Refused(p) == p.country \in Blocked \/ UnderAge(p.birth)

DeriveComplianceStatuses(p) ==
    [p EXCEPT !.kyc = IF Refused(p) THEN "rejected" ELSE "not_started",
              !.aml = IF p.country \in Blocked THEN "blocked" ELSE "clear",
              !.risk = IF Refused(p) THEN "blocked" ELSE "low"]

Patched(p, patch) ==
    [p EXCEPT !.country = IF patch.country = Keep THEN @ ELSE patch.country,
              !.birth = IF patch.birth = Keep THEN @ ELSE patch.birth]

\* (mutant) One consent is taken for all.
AnyLegalConsent(given) == given # {}

HasAllLegalConsents(given) == given = ConsentTypes

CanTrade(p, given) ==
    /\ p.birth # None /\ p.country # None
    /\ HasAllLegalConsents(given)
    /\ ~Refused(p)
    /\ p.risk # "blocked" /\ p.aml # "blocked"

-----------------------------------------------------------------------------
(* Requests                                                                *)

\* getMe, updateProfile and getEligibility all begin with getOrCreateProfile.
Begin(c, op, patch) ==
    /\ At(c, "idle")
    /\ Become(c, [Idle EXCEPT !.op = op, !.stage = "read", !.patch = patch])
    /\ UNCHANGED <<row, consents, grown>>

\* With its profile a request asks for the consents, or updateProfile has derived,
\* of the profile and on the day it was read, what it is going to store.
Given(r, p) ==
    IF r.op = "update"
    THEN [Idle EXCEPT !.op = r.op, !.stage = "write",
                      !.read = DeriveComplianceStatuses(Patched(p, r.patch))]
    ELSE [Idle EXCEPT !.op = r.op, !.stage = "consents", !.read = p]

ReadProfile(c) ==
    /\ At(c, "read")
    /\ Become(c, IF row = None THEN [request[c] EXCEPT !.stage = "create"]
                 ELSE Given(request[c], row))
    /\ UNCHANGED <<row, consents, grown>>

\* The upsert replaces whatever profile was saved since the read.
CreateProfile(c) ==
    /\ At(c, "create")
    /\ row' = EmptyProfile
    /\ Become(c, Given(request[c], EmptyProfile))
    /\ UNCHANGED <<consents, grown>>

\* updateProfile, which then answers like getMe.
WriteProfile(c) ==
    /\ At(c, "write")
    /\ row' = request[c].read
    /\ Become(c, [Idle EXCEPT !.op = "me", !.stage = "read"])
    /\ UNCHANGED <<consents, grown>>

\* Both getMe and getEligibility read the consents after the profile.
ReadConsents(c) ==
    LET r == request[c] IN
    /\ At(c, "consents")
    /\ Become(c, IF r.op = "me" THEN Idle
                 ELSE [Idle EXCEPT !.op = r.op, !.stage = "answered", !.read = r.read,
                          !.answer = IF CanTrade(r.read, consents) THEN "yes" ELSE "no"])
    /\ UNCHANGED <<row, consents, grown>>

AcceptTerms(c) ==
    /\ At(c, "idle")
    /\ Become(c, [Idle EXCEPT !.op = "accept", !.stage = "consent", !.todo = ConsentTypes])
    /\ UNCHANGED <<row, consents, grown>>

UpsertLegalConsent(c, type) ==
    /\ At(c, "consent") /\ type \in request[c].todo
    /\ consents' = consents \cup {type}
    /\ Become(c, IF request[c].todo = {type} THEN Idle
                 ELSE [request[c] EXCEPT !.todo = @ \ {type}])
    /\ UNCHANGED <<row, grown>>

\* A request is answered, or fails between two statements.
Finish(c) ==
    /\ ~At(c, "idle")
    /\ Become(c, Idle)
    /\ UNCHANGED <<row, consents, grown>>

ComeOfAge ==
    /\ ~grown /\ grown' = TRUE
    /\ UNCHANGED <<row, consents, request>>

Next ==
    \/ \E c \in Calls :
          \/ \E op \in {"me", "eligibility"} : Begin(c, op, None)
          \/ \E patch \in Patches : Begin(c, "update", patch)
          \/ \E type \in ConsentTypes : UpsertLegalConsent(c, type)
          \/ ReadProfile(c) \/ CreateProfile(c) \/ WriteProfile(c)
          \/ ReadConsents(c) \/ AcceptTerms(c) \/ Finish(c)
    \/ ComeOfAge

Spec == Init /\ [][Next]_vars

-----------------------------------------------------------------------------
(* Properties                                                              *)

\* However requests overwrite each other, a stored profile of a blocked country
\* or of somebody under age carries its refusal; the country alone decides the
\* AML status.  The converse fails for a user who has come of age since.
RefusalIsStored ==
    row # None =>
        /\ Refused(row) => row.risk = "blocked" /\ row.kyc = "rejected"
        /\ row.aml = "blocked" <=> row.country \in Blocked
        /\ row.risk = "low" => ~Refused(row)

\* Whoever is told that they may trade has consented to all three texts, however
\* many requests that stored only some of them failed, and was no child.
EligibleHasConsented ==
    \A c \in Calls : request[c].answer = "yes" =>
        consents = ConsentTypes /\ ~Refused(request[c].read)
=============================================================================
