------------------------------ MODULE Accounts ------------------------------
(***************************************************************************)
(* Accounts: registration, log-in, sessions, e-mail tokens, password reset *)
(* and two-factor authentication (src/auth.ts, src/authRepositories.ts,    *)
(* src/authVerification.ts, src/authTwoFactor.ts, src/routes/authRoutes.ts)*)
(*                                                                         *)
(* None of these operations runs in a transaction: a request reads, awaits *)
(* (the database, scrypt, the mailer) and writes in separate statements,   *)
(* and may fail between any two.  One action is one statement on the       *)
(* tables, with the checks on what it returns; a request that a check      *)
(* refuses changes nothing more and is not followed further.               *)
(*                                                                         *)
(* A row that has expired is a row that is gone: every reader compares     *)
(* expires_at and most of them delete what has expired first.  Passwords   *)
(* are told apart by how often they were replaced ("epoch").               *)
(***************************************************************************)
EXTENDS Naturals, FiniteSets

CONSTANTS
    Emails,
    Calls,          \* requests that may be under way at once
    None,
    MaxUsers, MaxSessions, MaxTokens, MaxSecrets, MaxEpoch,     \* bounds
    BackupCodes     \* how many codes a user is given (8)

AccountsAssumption ==
    /\ None \notin Emails
    /\ {MaxUsers, MaxSessions, MaxTokens, MaxSecrets, MaxEpoch, BackupCodes} \subseteq Nat

UserIds == 1 .. MaxUsers
SessionIds == 1 .. MaxSessions
TokenIds == 1 .. MaxTokens

UserRows == [email : Emails \cup {None}, verified : BOOLEAN, epoch : 0 .. MaxEpoch]

\* A row of user_sessions is its user; None is no row.
SessionRows == UserIds \cup {None}

\* email_verification_tokens and password_reset_tokens: those that do not exist
\* yet are "new".
TokenRows == [kind : {"new", "verify", "reset"}, user : UserIds \cup {None},
              state : {"fresh", "used", "gone"}]

FactorRows == [secret : 0 .. MaxSecrets, codes : 0 .. BackupCodes, enabled : BOOLEAN]

VARIABLES
    user,           \* users, by id
    session,        \* user_sessions
    token,
    factor,         \* user_2fa_secrets, by user
    call,           \* what each request is about to do, and what it has read
    proven          \* history: secrets for which their owner has shown a code

vars == <<user, session, token, factor, call, proven>>

NoFactor == [secret |-> 0, codes |-> 0, enabled |-> FALSE]
NoToken == [kind |-> "new", user |-> None, state |-> "fresh"]
Idle == [op |-> "none", stage |-> "idle", email |-> None, user |-> None,
         item |-> 0, read |-> NoFactor]

TypeOK ==
    /\ user \in [UserIds -> UserRows]
    /\ session \in [SessionIds -> SessionRows]
    /\ token \in [TokenIds -> TokenRows]
    /\ factor \in [UserIds -> FactorRows]
    /\ proven \subseteq 1 .. MaxSecrets

Init ==
    /\ user = [u \in UserIds |-> [email |-> None, verified |-> FALSE, epoch |-> 0]]
    /\ session = [s \in SessionIds |-> None]
    /\ token = [t \in TokenIds |-> NoToken]
    /\ factor = [u \in UserIds |-> NoFactor]
    /\ call = [c \in Calls |-> Idle]
    /\ proven = {}

-----------------------------------------------------------------------------
(* Statements                                                              *)

ByEmail(e) == {u \in UserIds : user[u].email = e}
SessionsOf(u) == {s \in SessionIds : session[s] = u}

At(c, stage) == call[c].stage = stage
Become(c, r) == call' = [call EXCEPT ![c] = r]
Goto(c, stage) == Become(c, [call[c] EXCEPT !.stage = stage])
Done(c) == Become(c, Idle)

First(S) == CHOOSE x \in S : \A y \in S : x <= y

Taken(e) == ByEmail(e) # {}

InsertUser(e) ==
    LET free == ByEmail(None) IN
    /\ free # {}
    /\ user' = [user EXCEPT ![First(free)].email = e]

\* Ids are random: that of a row that is gone is not given to another while a
\* request holds it.
InsertSession(u) ==
    LET held == {call[c].item : c \in {d \in Calls : At(d, "revoke")}}
        free == {s \in SessionIds : session[s] = None} \ held
    IN
    /\ free # {}
    /\ session' = [session EXCEPT ![First(free)] = u]

InsertToken(u, kind) ==
    LET free == {t \in TokenIds : token[t].kind = "new"} IN
    /\ free # {}
    /\ token' = [token EXCEPT ![First(free)] = [kind |-> kind, user |-> u, state |-> "fresh"]]

DeleteSessions(gone) ==
    session' = [s \in SessionIds |-> IF s \in gone THEN None ELSE session[s]]

\* (mutant) A row that exists is switched on, whatever secret it holds by now.
UpsertEnabled(c, r) ==
    factor' = [factor EXCEPT ![call[c].user] =
                  IF r.enabled THEN [@ EXCEPT !.enabled = TRUE, !.codes = r.codes] ELSE r]

\* The whole row is replaced by the one the request has read, and changed.
UpsertFactor(c, r) == factor' = [factor EXCEPT ![call[c].user] = r]

\* The clock: sessions and tokens run out.
ExpireSession(s) ==
    /\ session[s] # None
    /\ DeleteSessions({s})
    /\ UNCHANGED <<user, token, factor, call, proven>>

ExpireToken(t) ==
    /\ token[t].kind # "new" /\ token[t].state = "fresh"
    /\ token' = [token EXCEPT ![t].state = "gone"]
    /\ UNCHANGED <<user, session, factor, call, proven>>

-----------------------------------------------------------------------------
(* Registration and log-in                                                 *)

Register(c, e) ==
    /\ At(c, "idle")
    /\ ByEmail(e) = {}
    /\ Become(c, [Idle EXCEPT !.op = "register", !.stage = "create", !.email = e])
    /\ UNCHANGED <<user, session, token, factor, proven>>

CreateUser(c) ==
    LET e == call[c].email IN
    /\ At(c, "create")
    /\ \/ Taken(e) /\ Done(c) /\ UNCHANGED user
       \/ /\ ~Taken(e)
          /\ InsertUser(e)
          /\ Become(c, [Idle EXCEPT !.op = "register", !.stage = "session",
                                    !.user = First(ByEmail(None))])
    /\ UNCHANGED <<session, token, factor, proven>>

\* The password is compared with the row as it is read here, and not again.
Login(c, u) ==
    /\ At(c, "idle")
    /\ user[u].email # None
    /\ Become(c, [Idle EXCEPT !.op = "login", !.stage = "status", !.user = u])
    /\ UNCHANGED <<user, session, token, factor, proven>>

CheckStatus(c) ==
    /\ At(c, "status")
    /\ Goto(c, IF factor[call[c].user].enabled THEN "code" ELSE "session")
    /\ UNCHANGED <<user, session, token, factor, proven>>

OpenSession(c) ==
    /\ At(c, "session")
    /\ InsertSession(call[c].user)
    /\ IF call[c].op = "register" THEN Goto(c, "mail") ELSE Done(c)
    /\ UNCHANGED <<user, token, factor, proven>>

-----------------------------------------------------------------------------
(* E-mail tokens                                                           *)

\* After registration, on request of a user, or for a forgotten password.
SendToken(c) ==
    /\ \/ At(c, "mail") /\ InsertToken(call[c].user, "verify")
       \/ At(c, "resetMail") /\ InsertToken(call[c].user, "reset")
    /\ Done(c)
    /\ UNCHANGED <<user, session, factor, proven>>

RequestReset(c, e) ==
    /\ At(c, "idle")
    /\ \E u \in ByEmail(e) :
          Become(c, [Idle EXCEPT !.op = "forgotten", !.stage = "resetMail", !.user = u])
    /\ UNCHANGED <<user, session, token, factor, proven>>

Usable(t) == token[t].kind # "new" /\ token[t].state = "fresh"

PresentToken(c, t) ==
    /\ At(c, "idle")
    /\ Usable(t)
    /\ Become(c, [Idle EXCEPT !.op = token[t].kind, !.stage = "token", !.item = t,
                              !.user = token[t].user])
    /\ UNCHANGED <<user, session, token, factor, proven>>

Used(row) == [row EXCEPT !.state = "used"]

MarkUsed(c) ==
    /\ At(c, "token")
    /\ token' = [token EXCEPT ![call[c].item] = Used(@)]
    /\ Goto(c, IF call[c].op = "verify" THEN "verified" ELSE "password")
    /\ UNCHANGED <<user, session, factor, proven>>

MarkVerified(c) ==
    /\ At(c, "verified")
    /\ user' = [user EXCEPT ![call[c].user].verified = TRUE]
    /\ Done(c)
    /\ UNCHANGED <<session, token, factor, proven>>

UpdatePassword(c) ==
    /\ At(c, "password")
    /\ user[call[c].user].epoch < MaxEpoch
    /\ user' = [user EXCEPT ![call[c].user].epoch = @ + 1]
    /\ Goto(c, "purge")
    /\ UNCHANGED <<session, token, factor, proven>>

\* deleteOtherSessions without a session to keep.
PurgeSessions(c) ==
    /\ At(c, "purge")
    /\ DeleteSessions(SessionsOf(call[c].user))
    /\ Done(c)
    /\ UNCHANGED <<user, token, factor, proven>>

-----------------------------------------------------------------------------
(* Requests with a session                                                 *)

SessionOps == {"logout", "revoke_others", "revoke_all", "resend",
               "setup", "confirm", "disable", "regenerate"}

StageOf(op) ==
    IF op \in {"logout", "revoke_others", "revoke_all"} THEN "revoke"
    ELSE IF op = "resend" THEN "mail" ELSE op

\* requireAuth; the session may be revoked before the request goes on, which needs
\* it again only to delete it or to spare it.
Authenticate(c, s, op) ==
    /\ At(c, "idle")
    /\ session[s] # None
    /\ Become(c, [Idle EXCEPT !.op = op, !.stage = StageOf(op), !.user = session[s],
                              !.item = IF op \in {"logout", "revoke_others"} THEN s ELSE 0])
    /\ UNCHANGED <<user, session, token, factor, proven>>

\* Log-out deletes the session itself; a session of the list is deleted alike.
Victims(c) ==
    CASE call[c].op = "logout" -> {call[c].item}
      [] call[c].op = "revoke_others" -> SessionsOf(call[c].user) \ {call[c].item}
      [] call[c].op = "revoke_all" -> SessionsOf(call[c].user)

Revoke(c) ==
    /\ At(c, "revoke")
    /\ DeleteSessions(Victims(c))
    /\ Done(c)
    /\ UNCHANGED <<user, token, factor, proven>>

RevokeOne(c, s) ==
    /\ At(c, "revoke") /\ call[c].op = "logout"
    /\ s \in SessionsOf(call[c].user)
    /\ DeleteSessions({s})
    /\ Done(c)
    /\ UNCHANGED <<user, token, factor, proven>>

-----------------------------------------------------------------------------
(* Two-factor authentication                                               *)

StartSetup(c) ==
    LET used == {factor[u].secret : u \in UserIds} \cup {call[d].read.secret : d \in Calls}
                    \cup proven
        free == (1 .. MaxSecrets) \ used IN
    /\ At(c, "setup")
    /\ free # {}
    /\ UpsertFactor(c, [secret |-> First(free), codes |-> BackupCodes, enabled |-> FALSE])
    /\ Done(c)
    /\ UNCHANGED <<user, session, token, proven>>

\* confirm reads the row and compares the code with its secret ...
ConfirmCode(c) ==
    LET r == factor[call[c].user] IN
    /\ At(c, "confirm")
    /\ r.secret # 0
    /\ proven' = proven \cup {r.secret}
    /\ Become(c, [call[c] EXCEPT !.stage = "enable", !.read = r])
    /\ UNCHANGED <<user, session, token, factor>>

\* ... and writes the row back.
Enable(c) ==
    /\ At(c, "enable")
    /\ UpsertFactor(c, [call[c].read EXCEPT !.enabled = TRUE])
    /\ Done(c)
    /\ UNCHANGED <<user, session, token, proven>>

\* disable and regenerateBackupCodes look whether there is anything to do.
CheckEnabled(c) ==
    /\ At(c, "disable") \/ At(c, "regenerate")
    /\ factor[call[c].user].enabled
    /\ Goto(c, "code")
    /\ UNCHANGED <<user, session, token, factor, proven>>

\* What follows an accepted code, of a log-in, of "disable" or of "regenerate".
AfterCode(c) ==
    IF call[c].op = "login" THEN "session"
    ELSE IF call[c].op = "disable" THEN "switchOff" ELSE "latest"

\* verifyCode: nothing to verify, a code of the app, or a backup code.
VerifyCode(c) ==
    LET r == factor[call[c].user] IN
    /\ At(c, "code")
    /\ \/ ~r.enabled /\ Goto(c, AfterCode(c)) /\ UNCHANGED proven
       \/ r.enabled /\ Goto(c, AfterCode(c)) /\ proven' = proven \cup {r.secret}
       \/ /\ r.enabled /\ r.codes > 0
          /\ Become(c, [call[c] EXCEPT !.stage = "spend", !.read = r])
          /\ UNCHANGED proven
    /\ UNCHANGED <<user, session, token, factor>>

SpendCode(c) ==
    /\ At(c, "spend")
    /\ UpsertFactor(c, [call[c].read EXCEPT !.codes = @ - 1])
    /\ Become(c, [call[c] EXCEPT !.stage = AfterCode(c), !.read = NoFactor])
    /\ UNCHANGED <<user, session, token, proven>>

SwitchOff(c) ==
    /\ At(c, "switchOff")
    /\ factor' = [factor EXCEPT ![call[c].user].enabled = FALSE]
    /\ Done(c)
    /\ UNCHANGED <<user, session, token, proven>>

ReadLatest(c) ==
    /\ At(c, "latest")
    /\ Become(c, [call[c] EXCEPT !.stage = "newCodes", !.read = factor[call[c].user]])
    /\ UNCHANGED <<user, session, token, factor, proven>>

RegenerateCodes(c) ==
    /\ At(c, "newCodes")
    /\ UpsertFactor(c, [call[c].read EXCEPT !.codes = BackupCodes])
    /\ Done(c)
    /\ UNCHANGED <<user, session, token, proven>>

-----------------------------------------------------------------------------

\* The code is wrong, a query fails, or the process dies.
Fail(c) ==
    /\ ~At(c, "idle")
    /\ Done(c)
    /\ UNCHANGED <<user, session, token, factor, proven>>

Next ==
    \/ \E s \in SessionIds : ExpireSession(s)
    \/ \E t \in TokenIds : ExpireToken(t)
    \/ \E c \in Calls :
          \/ \E e \in Emails : Register(c, e) \/ RequestReset(c, e)
          \/ \E u \in UserIds : Login(c, u)
          \/ \E t \in TokenIds : PresentToken(c, t)
          \/ \E s \in SessionIds : RevokeOne(c, s) \/ \E op \in SessionOps : Authenticate(c, s, op)
          \/ CreateUser(c) \/ CheckStatus(c) \/ OpenSession(c)
          \/ SendToken(c) \/ MarkUsed(c) \/ MarkVerified(c)
          \/ UpdatePassword(c) \/ PurgeSessions(c) \/ Revoke(c)
          \/ StartSetup(c) \/ ConfirmCode(c) \/ Enable(c) \/ CheckEnabled(c)
          \/ VerifyCode(c) \/ SpendCode(c) \/ SwitchOff(c)
          \/ ReadLatest(c) \/ RegenerateCodes(c)
          \/ Fail(c)

Spec == Init /\ [][Next]_vars

-----------------------------------------------------------------------------
(* Properties                                                              *)

\* What an account relies on was proven by its owner, whatever requests overlap
\* or die: two-factor authentication is only ever on with a secret whose owner
\* has shown a code for it (set-ups, confirmations, log-ins and new backup codes
\* overwrite each other's row), and an address counts as verified, and a password
\* is replaced, only after a token mailed for that purpose to that user was used.
CredentialsProven ==
    \A u \in UserIds :
        LET spent(kind) == \E t \in TokenIds :
                              token[t].kind = kind /\ token[t].user = u /\ token[t].state = "used"
        IN  /\ factor[u].enabled => factor[u].secret \in proven
            /\ user[u].verified => spent("verify")
            /\ user[u].epoch > 0 => spent("reset")
=============================================================================
