----------------------------- MODULE WebSession -----------------------------
(***************************************************************************)
(* What the web client shows of the user who is signed in                  *)
(* (src/web/src/hooks/useAuth.ts, usePortfolio.ts and useCoinAccount.ts):  *)
(* the user, the portfolio and the balance, each loaded by effects and     *)
(* handlers whose answers come in any order.                               *)
(*                                                                         *)
(* A request is answered for the session that the browser has when it is   *)
(* sent, and fails if the user has signed out before.  The browser has one *)
(* window; what another window does to the session is not modelled.        *)
(* A portfolio or a balance is the user it belongs to, or None for the     *)
(* empty ones of createInitialPortfolio and of a guest.                    *)
(***************************************************************************)
EXTENDS Integers, FiniteSets

CONSTANTS
    None,
    Users,
    MaxLoads            \* bound: refreshes of a balance in flight

WebSessionAssumption == None \notin Users /\ MaxLoads \in Nat \ {0}

VARIABLES
    session,            \* the session of the browser
    user, authStatus,   \* useAuth
    folio, folioStatus, \* usePortfolio
    balance, balanceStatus,
    loads,              \* the loads of both in flight, and whom they were for
    late,               \* answers that nothing guards: the first session, settings, trades
    stray               \* one of them has come after its user had left

vars == <<session, user, authStatus, folio, folioStatus, balance, balanceStatus, loads, late, stray>>

\* What is being loaded, and for whom (requestedUserId): "portfolio" and
\* "balance" by an effect, "refresh" by refreshBalance.
Load(what, for, id) == [what |-> what, for |-> for, id |-> id]

Answer(kind, for) == [kind |-> kind, for |-> for]

\* The page is opened by someone who was signed in before, or by nobody.
Init ==
    /\ session \in Users \cup {None}
    /\ user = None /\ authStatus = "loading"
    /\ folio = None /\ folioStatus = "loading"
    /\ balance = None /\ balanceStatus = "loading"
    /\ loads = {}
    /\ late = {Answer("session", session)}
    /\ stray = FALSE

-----------------------------------------------------------------------------
(* The effects on the user                                                 *)

\* The effects give up what those before have started: requestIdRef of the
\* portfolio has another value, the signal of the balance is aborted.
GivenUp == {l \in loads : l.what \in {"portfolio", "balance"}}

\* The effects of usePortfolio and useCoinAccount, after the user or the status
\* of the session has changed.
Effects ==
    IF <<user', authStatus'>> = <<user, authStatus>>
    THEN UNCHANGED <<folio, folioStatus, balance, balanceStatus, loads>>
    ELSE /\ folio' = None
         /\ IF authStatus' = "authenticated" /\ user' # None
            THEN /\ folioStatus' = "loading" /\ balanceStatus' = "loading"
                 /\ UNCHANGED balance
                 /\ loads' = (loads \ GivenUp) \cup {Load(what, user', 1) : what \in {"portfolio", "balance"}}
            ELSE /\ folioStatus' = (IF authStatus' = "error" THEN "error" ELSE "ready")
                 /\ balance' = None
                 /\ balanceStatus' = (IF authStatus' = "error" THEN "error" ELSE "ready")
                 /\ loads' = loads \ GivenUp

-----------------------------------------------------------------------------
(* useAuth                                                                 *)

Become(u, status) == user' = u /\ authStatus' = status

\* A pending answer takes effect whatever has happened since.
Unguarded(a) ==
    /\ late' = late \ {a}
    /\ stray' = (stray \/ a.for # session \/ user # (IF a.kind = "session" THEN None ELSE a.for))

SessionLoaded(a) ==
    /\ a.kind = "session"
    /\ \/ Become(a.for, IF a.for = None THEN "guest" ELSE "authenticated")
       \/ Become(None, "error")
    /\ Unguarded(a)
    /\ Effects
    /\ UNCHANGED session

\* register, login: the forms are shown while there is no user.
SignIn(u) ==
    /\ user = None
    /\ session' = u
    /\ Become(u, "authenticated")
    /\ Effects
    /\ UNCHANGED <<late, stray>>

\* logout
SignOut ==
    /\ user # None
    /\ session' = None
    /\ Become(None, "guest")
    /\ Effects
    /\ UNCHANGED <<late, stray>>

\* updateSettings, and MarketDetail.placeTrade: a request of the user.
Send(kind) ==
    /\ user # None
    /\ \A a \in late : a.kind # kind
    /\ late' = late \cup {Answer(kind, session)}
    /\ UNCHANGED <<session, user, authStatus, folio, folioStatus, balance, balanceStatus, loads, stray>>

SettingsSaved(a) ==
    /\ a.kind = "settings" /\ a.for # None
    /\ Become(a.for, "authenticated")
    /\ Unguarded(a)
    /\ Effects
    /\ UNCHANGED session

RequestFailed(a) ==
    /\ a.kind \in {"settings", "trade"}
    /\ late' = late \ {a}
    /\ UNCHANGED <<session, user, authStatus, folio, folioStatus, balance, balanceStatus, loads, stray>>

-----------------------------------------------------------------------------
(* usePortfolio                                                            *)

\* (mutant) Nobody asks for whom something was loaded.
AnyUser(l) == user # None

\* activeUserIdRef.current = requestedUserId
SameUser(l) == user = l.for

PortfolioLoaded(l) ==
    /\ l.what = "portfolio" /\ loads' = loads \ {l}
    /\ IF SameUser(l)
       THEN \/ folio' = l.for /\ folioStatus' = "ready"
            \/ folio' = None /\ folioStatus' = "error"
       ELSE UNCHANGED <<folio, folioStatus>>
    /\ UNCHANGED <<session, user, authStatus, balance, balanceStatus, late, stray>>

-----------------------------------------------------------------------------
(* useCoinAccount                                                          *)

\* refreshBalance
Refresh ==
    IF user = None THEN balance' = None /\ UNCHANGED <<balanceStatus, loads>>
    ELSE /\ \E i \in 1 .. MaxLoads :
              /\ Load("refresh", user, i) \notin loads
              /\ loads' = loads \cup {Load("refresh", user, i)}
         /\ balanceStatus' = "loading"
         /\ UNCHANGED balance

RefreshBalance ==
    /\ Refresh
    /\ UNCHANGED <<session, user, authStatus, folio, folioStatus, late, stray>>

\* placeTrade: setPortfolio with the answer, and a refresh of the balance.
TradeAnswered(a) ==
    /\ a.kind = "trade"
    /\ folio' = a.for /\ folioStatus' = "ready"
    /\ Unguarded(a)
    /\ Refresh
    /\ UNCHANGED <<session, user, authStatus>>

BalanceLoaded(l) ==
    /\ l.what \in {"balance", "refresh"} /\ loads' = loads \ {l}
    /\ IF SameUser(l)
       THEN \/ balance' = l.for /\ balanceStatus' = "ready"
            \/ /\ balance' = IF l.what = "balance" THEN None ELSE balance
               /\ balanceStatus' = "error"
       ELSE UNCHANGED <<balance, balanceStatus>>
    /\ UNCHANGED <<session, user, authStatus, folio, folioStatus, late, stray>>

Next ==
    \/ \E a \in late : SessionLoaded(a) \/ SettingsSaved(a) \/ RequestFailed(a) \/ TradeAnswered(a)
    \/ \E u \in Users : SignIn(u)
    \/ SignOut
    \/ \E kind \in {"settings", "trade"} : Send(kind)
    \/ \E l \in loads : PortfolioLoaded(l) \/ BalanceLoaded(l)
    \/ RefreshBalance

-----------------------------------------------------------------------------
(* Properties                                                              *)

\* The user, the portfolio and the balance on the page are those of one user,
\* the one whose session it is, in whatever order requests are answered while
\* users come and go; and what is said to be loading is waited for.  Not covered
\* is what follows once an answer that no hook guards has come after its user
\* had left: of the first session, of the settings or of a trade.
AccountShownIsOwn ==
    ~stray =>
        /\ user \in {session, None}
        /\ folio \in {user, None}
        /\ balance \in {user, None}
        /\ authStatus # "loading" =>
               /\ folioStatus = "loading" => \E l \in loads : l.what = "portfolio" /\ l.for = user
               /\ balanceStatus = "loading" => \E l \in loads : l.what # "portfolio" /\ l.for = user
=============================================================================
