----------------------------- MODULE WebProofs -----------------------------
(***************************************************************************)
(* The web client's components that MCPlatform composes, for any values of *)
(* its constants: what a page shows is of the ticket, of the user and of   *)
(* the filters it is for, whatever answers late.  And the routes of the    *)
(* server that it calls: what they answer is on record.                    *)
(***************************************************************************)
EXTENDS MCPlatform, SequenceTheorems, WellFoundedInduction, TLAPS

USE PlatformAssumption

\* Whatever component a behaviour runs, it is a behaviour of every one of these.
LEMMA EveryPageRuns ==
    Spec => /\ Account!Init /\ [][Account!Next]_(Account!vars)
            /\ Trader!Init /\ [][Trader!Next]_(Trader!vars)
            /\ Page!Init /\ [][Page!Next]_(Page!vars)
<1>1. Init => Account!Init /\ Trader!Init /\ Page!Init
  BY DEF Init
<1>2. [Next]_vars => /\ [Account!Next]_(Account!vars) /\ [Trader!Next]_(Trader!vars)
                     /\ [Page!Next]_(Page!vars)
  <2> SUFFICES ASSUME [Next]_vars
               PROVE  /\ Account!Next \/ UNCHANGED webAccount
                      /\ Trader!Next \/ UNCHANGED webTicket
                      /\ Page!Next \/ UNCHANGED list
    BY DEF webAccount, webTicket, list, Account!vars, Trader!vars, Page!vars
  <2> QED
    BY DEF Next, vars, client, webLists, RunAccounts, RunCompliance, RunLimit, RunMoney, RunWallet,
           RunTrading, RunStore, RunCache, RunRates, RunEvents, Change, RunHttp, RunAccount,
           RunTicket, RunList, Navigate, Page!Next
<1> QED
  BY <1>1, <1>2, PTL DEF Spec

-----------------------------------------------------------------------------
(* The ticket of a market.  A request for a quote that has not been given  *)
(* up is for the ticket that is shown, and nothing of it is entered while  *)
(* the timer runs.                                                         *)

TicketInv ==
    /\ ticket \in Trader!Tickets
    /\ timer \in BOOLEAN
    /\ asking # None => asking = ticket /\ ~timer
    /\ Trader!QuoteIsOfTheTicket

SameBut(t) == t.side = ticket.side /\ t.action = ticket.action

LEMMA EnterKeepsTicket ==
    ASSUME Trader!TradeTicketAssumption, TicketInv, NEW t \in Trader!Tickets, NEW q, NEW s,
           q = None \/ (q = quote /\ SameBut(t)), s \in {"idle", quoteStatus},
           Trader!Enter(t, Trader!Shown(q, s))
    PROVE  TicketInv'
<1> DEFINE other == t.market # ticket.market
           entered == IF other THEN [t EXCEPT !.amount = 0] ELSE t
<1>1. /\ t.market \in Markets /\ t.side \in Sides /\ t.action \in {"buy", "sell"} /\ t.amount \in Nat
      /\ t = [market |-> t.market, side |-> t.side, action |-> t.action, amount |-> t.amount]
  BY DEF Trader!Tickets
<1>2. entered \in Trader!Tickets /\ entered.market = t.market /\ entered.side = t.side
      /\ entered.action = t.action
  BY <1>1 DEF Trader!Tickets
<1>3. ticket' = entered
  BY DEF Trader!Enter
<1>4. /\ quote' = (IF other \/ (entered # ticket /\ ~Trader!AmountValid(entered)) THEN None ELSE q)
      /\ quoteStatus' = (IF other \/ (entered # ticket /\ ~Trader!AmountValid(entered)) THEN "idle" ELSE s)
  BY DEF Trader!Enter, Trader!Shown, Trader!NoQuote
<1>5. IF entered = ticket THEN timer' = timer /\ asking' = asking
      ELSE timer' = Trader!AmountValid(entered) /\ asking' = None
  BY DEF Trader!Enter, Trader!GiveUp
<1>6. Trader!AmountValid(entered) \in BOOLEAN
  BY DEF Trader!AmountValid
<1> HIDE DEF entered
<1>7. ticket' \in Trader!Tickets /\ timer' \in BOOLEAN /\ (asking' # None => asking' = ticket' /\ ~timer')
  BY <1>2, <1>3, <1>5, <1>6 DEF TicketInv
<1>8. ASSUME quote' # None
      PROVE  /\ <<quote.market, quote.side, quote.action>>' = <<ticket.market, ticket.side, ticket.action>>'
             /\ ~timer' /\ asking' = None => quote' = ticket'
  <2>1. q = quote /\ SameBut(t) /\ quote' = quote /\ quote # None /\ ~other
    BY <1>4, <1>8
  <2>2. <<quote.market, quote.side, quote.action>> = <<ticket.market, ticket.side, ticket.action>>
    BY <2>1 DEF TicketInv, Trader!QuoteIsOfTheTicket
  <2>3. <<quote.market, quote.side, quote.action>>' = <<ticket.market, ticket.side, ticket.action>>'
    BY <1>2, <1>3, <2>1, <2>2 DEF SameBut
  <2>4. ASSUME ~timer', asking' = None
        PROVE  quote' = ticket'
    <3>1. entered = ticket
      BY <1>4, <1>5, <1>8, <2>4
    <3> QED
      BY <1>3, <1>5, <2>1, <2>4, <3>1 DEF TicketInv, Trader!QuoteIsOfTheTicket
  <2> QED
    BY <2>3, <2>4
<1>9. ASSUME quoteStatus' = "loading"
      PROVE  timer' \/ asking' # None
  <2>1. s = "loading" /\ quoteStatus = "loading" /\ ~(entered # ticket /\ ~Trader!AmountValid(entered))
    BY <1>4, <1>9
  <2> QED
    BY <1>5, <2>1 DEF TicketInv, Trader!QuoteIsOfTheTicket
<1> QED
  BY <1>7, <1>8, <1>9 DEF TicketInv, Trader!QuoteIsOfTheTicket

LEMMA TicketStep ==
    ASSUME Trader!TradeTicketAssumption, TicketInv, [Trader!Next]_(Trader!vars)
    PROVE  TicketInv'
<1>0. /\ ticket.market \in Markets /\ ticket.side \in Sides /\ ticket.action \in {"buy", "sell"}
      /\ ticket.amount \in Nat /\ ticket # None
  BY DEF TicketInv, Trader!Tickets, Trader!TradeTicketAssumption
<1>a. \A n \in Nat : [ticket EXCEPT !.amount = n] \in Trader!Tickets /\ SameBut([ticket EXCEPT !.amount = n])
  BY <1>0 DEF TicketInv, Trader!Tickets, SameBut
<1>b. Trader!Same = Trader!Shown(quote, quoteStatus) /\ Trader!NoQuote = Trader!Shown(None, "idle")
  BY DEF Trader!Same, Trader!NoQuote
<1>c. ASSUME NEW n \in Nat, Trader!Enter([ticket EXCEPT !.amount = n], Trader!Same)
      PROVE  TicketInv'
  <2> DEFINE t == [ticket EXCEPT !.amount = n]
  <2>1. t \in Trader!Tickets /\ SameBut(t) /\ Trader!Enter(t, Trader!Shown(quote, quoteStatus))
    BY <1>a, <1>b, <1>c
  <2> HIDE DEF t
  <2> QED
    BY <2>1, EnterKeepsTicket
<1>1. CASE Trader!AskQuote
  BY <1>0, <1>1 DEF Trader!AskQuote, TicketInv, Trader!QuoteIsOfTheTicket
<1>2. CASE Trader!Quoted
  BY <1>0, <1>2 DEF Trader!Quoted, TicketInv, Trader!QuoteIsOfTheTicket
<1>3. ASSUME NEW a \in {"buy", "sell"}, Trader!ChangeTradeAction(a)
      PROVE  TicketInv'
  <2> DEFINE t == [ticket EXCEPT !.action = a, !.amount = 0]
  <2>1. t \in Trader!Tickets /\ Trader!Enter(t, Trader!Shown(None, "idle"))
    BY <1>0, <1>b, <1>3 DEF TicketInv, Trader!Tickets, Trader!ChangeTradeAction
  <2> HIDE DEF t
  <2> QED
    BY <2>1, EnterKeepsTicket
<1>4. ASSUME NEW side \in Sides, Trader!ChooseSide(side)
      PROVE  TicketInv'
  <2> DEFINE t == [ticket EXCEPT !.side = side]
  <2>1. t \in Trader!Tickets /\ Trader!Enter(t, Trader!Shown(None, quoteStatus))
    BY <1>0, <1>4 DEF TicketInv, Trader!Tickets, Trader!ChooseSide
  <2> HIDE DEF t
  <2> QED
    BY <2>1, EnterKeepsTicket
<1>5. ASSUME NEW side \in Sides, NEW market \in Markets, Trader!SelectGroupedOutcome(market, side)
      PROVE  TicketInv'
  <2>1. PICK n \in Nat : Trader!Enter([ticket EXCEPT !.market = market, !.side = side, !.amount = n],
                                      Trader!Shown(None, "idle"))
    BY <1>0, <1>b, <1>5 DEF Trader!SelectGroupedOutcome
  <2> DEFINE t == [ticket EXCEPT !.market = market, !.side = side, !.amount = n]
  <2>2. t \in Trader!Tickets /\ Trader!Enter(t, Trader!Shown(None, "idle"))
    BY <1>0, <2>1 DEF TicketInv, Trader!Tickets
  <2> HIDE DEF t
  <2> QED
    BY <2>2, EnterKeepsTicket
<1>6. ASSUME NEW n \in 0 .. MaxEntered, Trader!UpdateTradeAmount(n)
      PROVE  TicketInv'
  BY <1>c, <1>6 DEF Trader!UpdateTradeAmount, Trader!TradeTicketAssumption
<1>7. ASSUME NEW n \in 0 .. MaxEntered, Trader!AddQuickTradeAmount(n)
      PROVE  TicketInv'
  <2>1. PICK sum \in Nat : Trader!Enter([ticket EXCEPT !.amount = sum], Trader!Same)
    BY <1>0, <1>7 DEF Trader!AddQuickTradeAmount, Trader!TradeTicketAssumption
  <2> QED
    BY <1>c, <2>1
<1>8. ASSUME NEW d \in {1, 2}, Trader!EnterShares(1, d)
      PROVE  TicketInv'
  <2>1. (Available * 1) \div d \in Nat
    BY DEF Trader!TradeTicketAssumption
  <2> QED
    BY <1>c, <1>8, <2>1 DEF Trader!EnterShares
<1>9. ASSUME NEW l, Trader!EnterLimit(l)
      PROVE  TicketInv'
  BY <1>9 DEF Trader!EnterLimit, TicketInv, Trader!QuoteIsOfTheTicket
<1>10. CASE Trader!PlaceTrade
  BY <1>10 DEF Trader!PlaceTrade, TicketInv, Trader!QuoteIsOfTheTicket
<1>11. CASE Trader!Placed
  <2>1. CASE Trader!Enter([ticket EXCEPT !.amount = 0], Trader!Same)
    BY <1>c, <2>1
  <2>2. CASE UNCHANGED <<ticket, limitPrice, quote, quoteStatus, timer, asking>>
    BY <2>2 DEF TicketInv, Trader!QuoteIsOfTheTicket
  <2> QED
    BY <1>11, <2>1, <2>2 DEF Trader!Placed
<1>12. CASE UNCHANGED Trader!vars
  BY <1>12 DEF Trader!vars, TicketInv, Trader!QuoteIsOfTheTicket
<1> QED
  BY <1>1, <1>2, <1>3, <1>4, <1>5, <1>6, <1>7, <1>8, <1>9, <1>10, <1>11, <1>12 DEF Trader!Next

-----------------------------------------------------------------------------
(* Who is signed in and what they own.  The user is exactly who is         *)
(* authenticated; what is loading is waited for.                           *)

WaitedFor ==
    authStatus # "loading" =>
        /\ folioStatus = "loading" => \E l \in accountLoads : l.what = "portfolio" /\ l.for = webUser
        /\ balanceStatus = "loading" => \E l \in accountLoads : l.what # "portfolio" /\ l.for = webUser

PageInv ==
    /\ authStatus = "authenticated" <=> webUser # None
    /\ ~stray =>
           webUser \in {webSession, None} /\ folio \in {webUser, None} /\ balance \in {webUser, None}
    /\ WaitedFor

\* What an action on the user leaves to the effects.
LEMMA EffectsKeepAccount ==
    ASSUME PageInv, Account!Effects,
           authStatus' = "authenticated" <=> webUser' # None, authStatus' # "loading",
           ~stray' => ~stray /\ webUser' \in {webSession', None} /\ (webUser = None \/ webUser' \in {webUser, None})
    PROVE  PageInv'
<1>1. CASE webUser' = webUser /\ authStatus' = authStatus
  <2>1. UNCHANGED <<folio, folioStatus, balance, balanceStatus, accountLoads>>
    BY <1>1 DEF Account!Effects
  <2> QED
    BY <1>1, <2>1 DEF PageInv, WaitedFor
<1>2. CASE ~(webUser' = webUser /\ authStatus' = authStatus)
  <2>1. CASE authStatus' = "authenticated" /\ webUser' # None
    <3>1. /\ folio' = None /\ balance' = balance
          /\ accountLoads' = (accountLoads \ Account!GivenUp)
                 \cup {Account!Load(what, webUser', 1) : what \in {"portfolio", "balance"}}
      BY <1>2, <2>1 DEF Account!Effects
    <3>2. /\ Account!Load("portfolio", webUser', 1) \in accountLoads'
          /\ Account!Load("balance", webUser', 1) \in accountLoads'
      BY <3>1
    <3>3. WaitedFor'
      BY <3>2 DEF WaitedFor, Account!Load
    <3>4. ~stray' => balance \in {webUser, None} /\ (webUser = None \/ webUser' = webUser)
      BY <2>1 DEF PageInv
    <3> QED
      BY <2>1, <3>1, <3>3, <3>4 DEF PageInv
  <2>2. CASE ~(authStatus' = "authenticated" /\ webUser' # None)
    <3>1. folio' = None /\ balance' = None /\ folioStatus' # "loading" /\ balanceStatus' # "loading"
      BY <1>2, <2>2 DEF Account!Effects
    <3> QED
      BY <3>1 DEF PageInv, WaitedFor
  <2> QED
    BY <2>1, <2>2
<1> QED
  BY <1>1, <1>2

LEMMA RefreshKeepsAccount ==
    ASSUME PageInv, Account!Refresh,
           UNCHANGED <<webSession, webUser, authStatus>>, ~stray' => ~stray,
           ~stray' => folio' \in {webUser, None},
           folioStatus' = folioStatus \/ folioStatus' # "loading"
    PROVE  PageInv'
<1>1. CASE webUser = None
  <2>1. balance' = None /\ UNCHANGED <<balanceStatus, accountLoads>>
    BY <1>1 DEF Account!Refresh
  <2> QED
    BY <2>1 DEF PageInv, WaitedFor
<1>2. CASE webUser # None
  <2>1. PICK i \in 1 .. MaxLoads : accountLoads' = accountLoads \cup {Account!Load("refresh", webUser, i)}
    BY <1>2 DEF Account!Refresh
  <2>2. balance' = balance
    BY <1>2 DEF Account!Refresh
  <2> DEFINE new == Account!Load("refresh", webUser, i)
  <2>3. new \in accountLoads' /\ new.what # "portfolio" /\ new.for = webUser
    BY <2>1 DEF Account!Load
  <2>4. accountLoads \subseteq accountLoads'
    BY <2>1
  <2>5. WaitedFor'
    <3> HIDE DEF new
    <3> QED
      BY <2>3, <2>4 DEF PageInv, WaitedFor
  <2> QED
    BY <2>2, <2>5 DEF PageInv
<1> QED
  BY <1>1, <1>2

LEMMA PageStep ==
    ASSUME Account!WebSessionAssumption, PageInv, [Account!Next]_(Account!vars)
    PROVE  PageInv'
<1>1. ASSUME NEW a \in late, Account!SessionLoaded(a)
      PROVE  PageInv'
  <2>1. authStatus' = "authenticated" <=> webUser' # None
    BY <1>1 DEF Account!SessionLoaded, Account!Become
  <2>2. authStatus' # "loading" /\ webUser' \in {a.for, None} /\ webSession' = webSession
    BY <1>1 DEF Account!SessionLoaded, Account!Become
  <2>3. ~stray' => ~stray /\ a.for = webSession /\ webUser = None
    BY <1>1 DEF Account!SessionLoaded, Account!Unguarded
  <2> QED
    BY <1>1, <2>1, <2>2, <2>3, EffectsKeepAccount DEF Account!SessionLoaded
<1>2. ASSUME NEW a \in late, Account!SettingsSaved(a)
      PROVE  PageInv'
  <2>1. webUser' = a.for /\ authStatus' = "authenticated" /\ a.for # None /\ webSession' = webSession
    BY <1>2 DEF Account!SettingsSaved, Account!Become
  <2>2. ~stray' => ~stray /\ a.for = webSession /\ webUser = a.for
    BY <1>2 DEF Account!SettingsSaved, Account!Unguarded
  <2> QED
    BY <1>2, <2>1, <2>2, EffectsKeepAccount DEF Account!SettingsSaved
<1>3. ASSUME NEW a \in late, Account!RequestFailed(a)
      PROVE  PageInv'
  BY <1>3 DEF Account!RequestFailed, PageInv, WaitedFor
<1>4. ASSUME NEW a \in late, Account!TradeAnswered(a)
      PROVE  PageInv'
  <2>1. ~stray' => ~stray /\ webUser = a.for
    BY <1>4 DEF Account!TradeAnswered, Account!Unguarded
  <2>2. folio' = a.for /\ folioStatus' = "ready" /\ UNCHANGED <<webSession, webUser, authStatus>>
        /\ Account!Refresh
    BY <1>4 DEF Account!TradeAnswered
  <2> QED
    BY <2>1, <2>2, RefreshKeepsAccount
<1>5. ASSUME NEW u \in Users, Account!SignIn(u)
      PROVE  PageInv'
  <2>1. webUser = None /\ webUser' = u /\ webSession' = u /\ authStatus' = "authenticated" /\ u # None
        /\ stray' = stray /\ Account!Effects
    BY <1>5 DEF Account!SignIn, Account!Become, Account!WebSessionAssumption
  <2> QED
    BY <2>1, EffectsKeepAccount
<1>6. CASE Account!SignOut
  <2>1. webUser' = None /\ webSession' = None /\ authStatus' = "guest" /\ stray' = stray /\ Account!Effects
    BY <1>6 DEF Account!SignOut, Account!Become
  <2> QED
    BY <2>1, EffectsKeepAccount
<1>7. ASSUME NEW kind, Account!Send(kind)
      PROVE  PageInv'
  BY <1>7 DEF Account!Send, PageInv, WaitedFor
<1>8. ASSUME NEW l \in accountLoads, Account!PortfolioLoaded(l)
      PROVE  PageInv'
  <2>1. /\ UNCHANGED <<webSession, webUser, authStatus, balance, balanceStatus, stray>>
        /\ l.what = "portfolio" /\ accountLoads' = accountLoads \ {l}
    BY <1>8 DEF Account!PortfolioLoaded
  <2>2. \/ webUser = l.for /\ folio' \in {l.for, None} /\ folioStatus' # "loading"
        \/ webUser # l.for /\ UNCHANGED <<folio, folioStatus>>
    BY <1>8 DEF Account!PortfolioLoaded, Account!SameUser
  <2> QED
    BY <2>1, <2>2 DEF PageInv, WaitedFor
<1>9. ASSUME NEW l \in accountLoads, Account!BalanceLoaded(l)
      PROVE  PageInv'
  <2>1. /\ UNCHANGED <<webSession, webUser, authStatus, folio, folioStatus, stray>>
        /\ l.what # "portfolio" /\ accountLoads' = accountLoads \ {l}
    BY <1>9 DEF Account!BalanceLoaded
  <2>2. \/ webUser = l.for /\ balance' \in {l.for, None, balance} /\ balanceStatus' # "loading"
        \/ webUser # l.for /\ UNCHANGED <<balance, balanceStatus>>
    BY <1>9 DEF Account!BalanceLoaded, Account!SameUser
  <2> QED
    BY <2>1, <2>2 DEF PageInv, WaitedFor
<1>10. CASE Account!RefreshBalance
  <2>1. Account!Refresh /\ UNCHANGED <<webSession, webUser, authStatus, folio, folioStatus, stray>>
    BY <1>10 DEF Account!RefreshBalance
  <2> QED
    BY <2>1, RefreshKeepsAccount DEF PageInv
<1>11. CASE UNCHANGED Account!vars
  BY <1>11 DEF Account!vars, PageInv, WaitedFor
<1> QED
  BY <1>1, <1>2, <1>3, <1>4, <1>5, <1>6, <1>7, <1>8, <1>9, <1>10, <1>11 DEF Account!Next

\* For any users, markets and amounts, and however requests, quotes, sign-ins and
\* trades overlap: the portfolio and the balance on a page are those of the user
\* whose session it is, the quote is of the ticket, and what is said to be
\* loading is waited for (usePortfolio.ts, useCoinAccount.ts, MarketDetail.tsx).
THEOREM PageAlwaysOfTheUser == Spec => []PageIsOfTheUser
<1>0. Account!WebSessionAssumption /\ Trader!TradeTicketAssumption
  OBVIOUS
<1>1. Account!Init => PageInv
  BY <1>0 DEF Account!Init, PageInv, WaitedFor
<1>2. PageInv /\ [Account!Next]_(Account!vars) => PageInv'
  BY <1>0, PageStep
<1>3. PageInv => Account!AccountShownIsOwn
  BY DEF PageInv, WaitedFor, Account!AccountShownIsOwn
<1>4. ASSUME Trader!Init
      PROVE  TicketInv
  <2>1. PICK m \in Markets : ticket = [market |-> m, side |-> "yes", action |-> "buy", amount |-> 0]
    BY <1>4 DEF Trader!Init, Trader!Ticket
  <2>2. ticket \in Trader!Tickets
    BY <1>0, <2>1 DEF Trader!Tickets, Trader!TradeTicketAssumption
  <2> QED
    BY <1>4, <2>2 DEF Trader!Init, TicketInv, Trader!QuoteIsOfTheTicket
<1>5. TicketInv /\ [Trader!Next]_(Trader!vars) => TicketInv'
  BY <1>0, TicketStep
<1>6. TicketInv => Trader!QuoteIsOfTheTicket
  BY DEF TicketInv
<1> QED
  BY <1>1, <1>2, <1>3, <1>4, <1>5, <1>6, EveryPageRuns, PTL DEF PageIsOfTheUser

-----------------------------------------------------------------------------
(* Lists without duplicates.  What dedupeMarkets keeps of a list is every  *)
(* market of it once: the fold is a recursive function, which TLC          *)
(* evaluates, and an argument about a least counterexample takes the place *)
(* of the induction over its length.                                       *)

\* No element is there twice.
Distinct(s) == \A i, j \in 1 .. Len(s) : s[i] = s[j] => i = j

\* A sequence that has every element of S, and each of them once.
Lists(S, d) ==
    /\ d \in Seq(S)
    /\ Distinct(d)
    /\ \A x \in S : \E i \in 1 .. Len(d) : d[i] = x

LEMMA OneMore ==
    ASSUME NEW S, NEW d, Lists(S, d), NEW m
    PROVE  Lists(S \cup {m}, IF Page!Contains(d, m) THEN d ELSE Append(d, m))
<1>1. d \in Seq(S \cup {m}) /\ Len(d) \in Nat
  BY DEF Lists
<1>2. CASE Page!Contains(d, m)
  BY <1>1, <1>2 DEF Lists, Page!Contains
<1>3. CASE ~Page!Contains(d, m)
  <2> DEFINE e == Append(d, m)
  <2>1. /\ e \in Seq(S \cup {m}) /\ Len(e) = Len(d) + 1 /\ e[Len(d) + 1] = m
        /\ \A i \in 1 .. Len(d) : e[i] = d[i]
    BY <1>1
  <2> HIDE DEF e
  <2>2. \A i \in 1 .. Len(d) : d[i] # m
    BY <1>3 DEF Page!Contains
  <2>3. \A i \in 1 .. Len(e) : i = Len(d) + 1 \/ i \in 1 .. Len(d)
    BY <1>1, <2>1
  <2>4. ASSUME NEW i \in 1 .. Len(e), NEW j \in 1 .. Len(e), e[i] = e[j] PROVE i = j
    <3>1. CASE i \in 1 .. Len(d) /\ j \in 1 .. Len(d)
      BY <2>1, <2>4, <3>1 DEF Lists, Distinct
    <3>2. CASE ~(i \in 1 .. Len(d) /\ j \in 1 .. Len(d))
      BY <2>1, <2>2, <2>3, <2>4, <3>2
    <3> QED
      BY <3>1, <3>2
  <2>5. Len(d) + 1 \in 1 .. Len(e) /\ \A i \in 1 .. Len(d) : i \in 1 .. Len(e)
    BY <1>1, <2>1
  <2>6. \A x \in S \cup {m} : \E i \in 1 .. Len(e) : e[i] = x
    BY <2>1, <2>5 DEF Lists
  <2>7. Lists(S \cup {m}, e)
    BY <2>1, <2>4, <2>6 DEF Lists, Distinct
  <2> QED
    BY <1>3, <2>7 DEF e
<1> QED
  BY <1>2, <1>3

\* The number to take from a set for an argument about a least counterexample.
LEMMA LeastNumber ==
    ASSUME NEW S \in SUBSET Nat, S # {}
    PROVE  \E x \in S : \A y \in S : x <= y
<1>1. \E x \in S : \A y \in S : <<y, x>> \notin OpToRel(<, Nat)
  BY WFMin, NatLessThanWellFounded, Zenon
<1>2. PICK x \in S : \A y \in S : <<y, x>> \notin OpToRel(<, Nat)
  BY <1>1
<1>3. \A y \in S : y \in Nat /\ x \in Nat /\ ~(y < x)
  BY <1>2, Zenon DEF OpToRel
<1> QED
  BY <1>3

\* A set of positions has a last one.
LEMMA LastPosition ==
    ASSUME NEW n \in Nat, NEW T \in SUBSET (1 .. n), T # {}
    PROVE  Page!Max(T) \in T /\ \A i \in T : Page!Max(T) >= i
<1> DEFINE Gaps == {n - i : i \in T}
<1>1. Gaps \in SUBSET Nat /\ Gaps # {}
  <2>1. \A i \in T : i \in 1 .. n
    OBVIOUS
  <2>2. \A i \in T : n - i \in Nat
    BY <2>1
  <2> QED
    BY <2>2
<1>2. \E g \in Gaps : \A h \in Gaps : g <= h
  <2> HIDE DEF Gaps
  <2> QED
    BY <1>1, LeastNumber
<1>3. PICK k \in T : \A h \in Gaps : n - k <= h
  BY <1>2
<1>4. \A i \in T : n - i \in Gaps
  OBVIOUS
<1>5. \A i \in T : k >= i
  <2> HIDE DEF Gaps
  <2> SUFFICES ASSUME NEW i \in T PROVE k >= i
    OBVIOUS
  <2>1. n - k <= n - i /\ i \in Int /\ k \in Int
    BY <1>3, <1>4
  <2> QED
    BY <2>1
<1> QED
  BY <1>5 DEF Page!Max

\* Dedupe (dedupeMarkets): of any list it keeps every market, each of them once.
THEOREM DedupeKeepsEachOnce ==
    ASSUME NEW M, NEW s \in Seq(M)
    PROVE  Lists({s[i] : i \in 1 .. Len(s)}, Page!Dedupe(s))
<1> DEFINE pick(T) == Page!Max(T)
           more(d, m) == IF Page!Contains(d, m) THEN d ELSE Append(d, m)
           Def(n, h) == [T \in SUBSET (1 .. n) |->
                            IF T = {} THEN <<>> ELSE more(h[T \ {pick(T)}], s[pick(T)])]
           iter == CHOOSE h : h = Def(Len(s), h)
<1>1. Len(s) \in Nat /\ DOMAIN s = 1 .. Len(s)
  OBVIOUS
<1>2. Page!Dedupe(s) = iter[1 .. Len(s)]
  BY <1>1 DEF Page!Dedupe, Page!FoldLeft, Page!MapThenFoldSet
<1> HIDE DEF more
<1>3. \A n \in Nat : \A T \in SUBSET (1 .. n) : T # {} => pick(T) \in T /\ \A i \in T : pick(T) >= i
  BY LastPosition
<1> HIDE DEF pick
<1>4. \E h : h = Def(Len(s), h)
  <2> DEFINE Bad == {n \in Nat : ~ \E h : h = Def(n, h)}
  <2>1. SUFFICES ASSUME Bad # {} PROVE FALSE
    BY <1>1
  <2>2. \E n \in Bad : \A k \in Bad : n <= k
    <3>1. Bad \in SUBSET Nat
      OBVIOUS
    <3> HIDE DEF Bad
    <3> QED
      BY <2>1, <3>1, LeastNumber
  <2>3. PICK n \in Bad : \A k \in Bad : n <= k
    BY <2>2
  <2>4. n \in Nat /\ ~ \E h : h = Def(n, h)
    BY <2>3
  <2>5. CASE n = 0
    <3> DEFINE g == [T \in SUBSET (1 .. 0) |-> <<>>]
    <3>1. \A T \in SUBSET (1 .. 0) : T = {}
      OBVIOUS
    <3>2. g = Def(0, g)
      BY <3>1
    <3> QED
      BY <2>4, <2>5, <3>2
  <2>6. CASE n # 0
    <3>1. n - 1 \in Nat /\ n - 1 \notin Bad
      <4>1. n - 1 \in Nat /\ ~(n <= n - 1)
        BY <2>4, <2>6
      <4> HIDE DEF Bad
      <4> QED
        BY <2>3, <4>1
    <3>2. PICK h : h = Def(n - 1, h)
      BY <3>1
    <3> DEFINE g == [T \in SUBSET (1 .. n) |-> IF n \in T THEN more(h[T \ {n}], s[n]) ELSE h[T]]
    <3>3. \A T \in SUBSET (1 .. n) : n \notin T => T \in SUBSET (1 .. n - 1)
      BY <2>4
    <3>4. \A T \in SUBSET (1 .. n - 1) :
             h[T] = IF T = {} THEN <<>> ELSE more(h[T \ {pick(T)}], s[pick(T)])
      <4>1. h = [T \in SUBSET (1 .. n - 1) |->
                   IF T = {} THEN <<>> ELSE more(h[T \ {pick(T)}], s[pick(T)])]
        BY <3>2
      <4> QED
        BY <4>1
    <3>5. ASSUME NEW T \in SUBSET (1 .. n)
          PROVE  g[T] = IF T = {} THEN <<>> ELSE more(g[T \ {pick(T)}], s[pick(T)])
      <4>1. CASE T = {}
        <5>1. n \notin T /\ T \in SUBSET (1 .. n - 1)
          BY <3>3, <4>1
        <5>2. g[T] = h[T]
          BY <5>1
        <5> QED
          BY <3>4, <4>1, <5>1, <5>2
      <4>2. CASE n \in T
        <5>1. pick(T) = n
          <6>1. pick(T) \in T /\ pick(T) >= n
            BY <1>3, <2>4, <4>2
          <6>2. pick(T) \in 1 .. n
            BY <3>5, <6>1
          <6> QED
            BY <2>4, <6>1, <6>2
        <5>2. T \ {n} \in SUBSET (1 .. n) /\ n \notin T \ {n}
          OBVIOUS
        <5>3. g[T \ {n}] = h[T \ {n}] /\ g[T] = more(h[T \ {n}], s[n])
          BY <4>2, <5>2
        <5> QED
          BY <4>2, <5>1, <5>3
      <4>3. CASE T # {} /\ n \notin T
        <5>1. T \in SUBSET (1 .. n - 1) /\ T \ {pick(T)} \in SUBSET (1 .. n) /\ n \notin T \ {pick(T)}
          BY <3>3, <4>3
        <5>2. g[T] = h[T] /\ g[T \ {pick(T)}] = h[T \ {pick(T)}]
          BY <4>3, <5>1
        <5> QED
          BY <3>4, <4>3, <5>1, <5>2
      <4> QED
        BY <4>1, <4>2, <4>3
    <3>6. g = Def(n, g)
      <4>1. g = [T \in SUBSET (1 .. n) |-> g[T]]
        OBVIOUS
      <4> HIDE DEF g
      <4> QED
        BY <3>5, <4>1
    <3> QED
      BY <2>4, <3>6
  <2> QED
    BY <2>5, <2>6
<1>5. iter = Def(Len(s), iter)
  <2> HIDE DEF Def
  <2> QED
    BY <1>4
<1> HIDE DEF iter
<1>6. \A T \in SUBSET (1 .. Len(s)) :
         iter[T] = IF T = {} THEN <<>> ELSE more(iter[T \ {pick(T)}], s[pick(T)])
  <2>1. iter = [T \in SUBSET (1 .. Len(s)) |->
                  IF T = {} THEN <<>> ELSE more(iter[T \ {pick(T)}], s[pick(T)])]
    BY <1>5
  <2> QED
    BY <2>1
<1> DEFINE Of(T) == {s[i] : i \in T}
           Wrong == {n \in Nat : \E T \in SUBSET (1 .. Len(s)) :
                        T \subseteq 1 .. n /\ ~Lists(Of(T), iter[T])}
<1>7. ASSUME Wrong # {} PROVE FALSE
  <2>1. \E n \in Wrong : \A k \in Wrong : n <= k
    <3>1. Wrong \in SUBSET Nat
      OBVIOUS
    <3> HIDE DEF Wrong
    <3> QED
      BY <1>7, <3>1, LeastNumber
  <2>2. PICK n \in Wrong : \A k \in Wrong : n <= k
    BY <2>1
  <2>3. PICK T \in SUBSET (1 .. Len(s)) : T \subseteq 1 .. n /\ ~Lists(Of(T), iter[T])
    BY <2>2
  <2>4. CASE T = {}
    <3>1. iter[T] = <<>> /\ Of(T) = {}
      BY <1>6, <2>4
    <3>2. Lists({}, <<>>)
      BY DEF Lists, Distinct
    <3> QED
      BY <2>3, <3>1, <3>2
  <2>5. CASE T # {}
    <3> DEFINE p == pick(T)
               U == T \ {p}
    <3>1. p \in T /\ \A i \in T : p >= i
      BY <1>1, <1>3, <2>5
    <3>2. n \in Nat /\ p \in 1 .. n
      BY <2>2, <2>3, <3>1
    <3>3. U \in SUBSET (1 .. Len(s)) /\ U \subseteq 1 .. n - 1
      <4>1. \A i \in U : i \in 1 .. n /\ p >= i /\ i # p
        BY <2>3, <3>1
      <4>2. \A i \in U : i \in 1 .. n - 1
        BY <3>2, <4>1
      <4> QED
        BY <4>2
    <3>4. n - 1 \in Nat /\ n - 1 \notin Wrong
      <4>1. n - 1 \in Nat /\ ~(n <= n - 1)
        BY <3>2
      <4> HIDE DEF Wrong
      <4> QED
        BY <2>2, <4>1
    <3>5. Lists(Of(U), iter[U])
      BY <3>3, <3>4
    <3>6. Of(T) = Of(U) \cup {s[p]}
      BY <3>1
    <3>7. iter[T] = more(iter[U], s[p])
      BY <1>6, <2>5
    <3> HIDE DEF U, p, Of
    <3>8. Lists(Of(U) \cup {s[p]}, more(iter[U], s[p]))
      BY <3>5, OneMore DEF more
    <3> QED
      BY <2>3, <3>6, <3>7, <3>8
  <2> QED
    BY <2>4, <2>5
<1>8. Lists(Of(1 .. Len(s)), iter[1 .. Len(s)])
  <2>1. Len(s) \notin Wrong
    BY <1>7
  <2> QED
    BY <1>1, <2>1
<1> QED
  BY <1>2, <1>8

-----------------------------------------------------------------------------
(* The list of a page.  What is shown is always a part of the list for the *)
(* filters that are asked for, no market twice, that goes on where the     *)
(* server's does; what is loading is waited for, and every promise in the  *)
(* cache of pages is a request in flight.                                  *)

ListMarkets == [f : Filters, n : Nat]
ListKeys == [f : Filters, offset : 0 .. Size]
ListPages == [data : Seq(ListMarkets), next : (0 .. Size) \cup {None}]
ListEntries == [value : ListPages \cup {None}, age : 0 .. 2, promise : Page!Ids \cup {None}]
ListRows == [status : {"loading", "ready", "error"}, data : Seq(ListMarkets),
             next : (0 .. Size) \cup {None}, more : BOOLEAN]

\* The server has markets beyond this many, as far as it has not changed.
Offered(offset, new) == ~new /\ Size > 0 => offset < Size

\* A part of the list for f, which ends where the server's does if it says so.
PartOfList(f, got, next, new) ==
    /\ got \in Seq(ListMarkets) /\ next \in (0 .. Size) \cup {None}
    /\ \A i \in 1 .. Len(got) : got[i].f = f
    /\ Distinct(got)
    /\ next # None => Offered(next, new)
    /\ ~new /\ Size > 0 /\ next = None => \E i \in 1 .. Len(got) : got[i] = Page!Market(f, Size)

LEMMA ListConstants ==
    /\ Size \in Nat /\ PageSize \in Nat \ {0} /\ PagesKept \in Nat \ {0} /\ MaxFetches \in Nat \ {0}
    /\ None \notin Filters /\ \A i \in Nat : None # i
    /\ None # "first" /\ None # "more"
BY DEF PlatformAssumption, Page!WebMarketsAssumption

LEMMA FeedTyped ==
    ASSUME NEW f \in Filters, NEW new \in BOOLEAN
    PROVE  /\ Page!Feed(f, new) \in Seq(ListMarkets)
           /\ Len(Page!Feed(f, new)) = Size + (IF new THEN 1 ELSE 0)
           /\ \A i \in 1 .. Len(Page!Feed(f, new)) :
                 Page!Feed(f, new)[i] = Page!Market(f, IF new THEN i - 1 ELSE i)
<1> DEFINE N == Size + (IF new THEN 1 ELSE 0)
<1>1. N \in Nat
  BY ListConstants
<1>2. \A i \in 1 .. N : Page!Market(f, IF new THEN i - 1 ELSE i) \in ListMarkets
  <2>1. \A i \in 1 .. N : (IF new THEN i - 1 ELSE i) \in Nat
    BY <1>1
  <2> HIDE DEF N
  <2> QED
    BY <2>1 DEF Page!Market, ListMarkets
<1>3. Page!Feed(f, new) = [i \in 1 .. N |-> Page!Market(f, IF new THEN i - 1 ELSE i)]
  BY DEF Page!Feed
<1> HIDE DEF N
<1> QED
  BY <1>1, <1>2, <1>3 DEF N

\* A page holds what the server's list has from its offset on.
LEMMA PageIsPart ==
    ASSUME NEW key \in ListKeys, NEW new \in BOOLEAN, NEW latest \in BOOLEAN, new => latest,
           Offered(key.offset, latest)
    PROVE  /\ Page!ToMarketsPage(key, new) \in ListPages
           /\ PartOfList(key.f, Page!ToMarketsPage(key, new).data,
                         Page!ToMarketsPage(key, new).next, latest)
<1>1. PICK feed : feed = Page!Feed(key.f, new)
  OBVIOUS
<1>2. PICK o : o = key.offset
  OBVIOUS
<1>3. PICK N : N = Len(feed)
  OBVIOUS
<1>4. /\ feed \in Seq(ListMarkets) /\ N = Size + (IF new THEN 1 ELSE 0)
      /\ \A i \in 1 .. N : feed[i] = Page!Market(key.f, IF new THEN i - 1 ELSE i)
  BY <1>1, <1>3, FeedTyped DEF ListKeys
<1>5. Size \in Nat /\ PageSize \in Nat \ {0} /\ o \in Nat /\ o <= Size /\ N \in Nat /\ o <= N
  BY <1>2, <1>4, ListConstants DEF ListKeys
<1>6. PICK top : top = IF o + PageSize <= N THEN o + PageSize ELSE N
  OBVIOUS
<1>7. Page!Min({o + PageSize, N}) = top
  BY <1>5, <1>6 DEF Page!Min
<1>8. top \in Nat /\ o <= top /\ top <= N /\ (o < N => o < top) /\ (top < N => top = o + PageSize)
  BY <1>5, <1>6
<1>9. PICK sent : sent = SubSeq(feed, o + 1, top)
  OBVIOUS
<1>10. /\ sent \in Seq(ListMarkets) /\ Len(sent) = top - o
       /\ \A i \in 1 .. Len(sent) : sent[i] = feed[o + i]
  <2>1. o + 1 \in 1 .. Len(feed) + 1 /\ top \in (o + 1) - 1 .. Len(feed)
    BY <1>3, <1>5, <1>8
  <2>2. /\ sent \in Seq(ListMarkets) /\ Len(sent) = top - (o + 1) + 1
        /\ \A i \in 1 .. top - (o + 1) + 1 : sent[i] = feed[(o + 1) + i - 1]
    BY <1>4, <1>9, <2>1, SubSeqProperties
  <2> QED
    BY <1>5, <1>8, <2>2
<1>11. PICK got : got = Page!Dedupe(sent)
  OBVIOUS
<1>12. PICK next : next = IF Len(sent) > 0 /\ o + Len(sent) < N THEN o + Len(sent) ELSE None
  OBVIOUS
<1>13. Page!ToMarketsPage(key, new) = [data |-> got, next |-> next]
  BY <1>1, <1>2, <1>3, <1>7, <1>9, <1>11, <1>12 DEF Page!ToMarketsPage, Page!NextOffset
<1>14. Lists({sent[i] : i \in 1 .. Len(sent)}, got)
  BY <1>10, <1>11, DedupeKeepsEachOnce
<1>15. \A i \in 1 .. Len(sent) : o + i \in 1 .. N
  BY <1>5, <1>8, <1>10
<1>16. \A i \in 1 .. Len(sent) : sent[i] \in ListMarkets /\ sent[i].f = key.f
  <2>1. \A i \in 1 .. N : feed[i].f = key.f
    <3>1. \A n : Page!Market(key.f, n).f = key.f
      BY DEF Page!Market
    <3> QED
      BY <1>4, <3>1
  <2>2. \A i \in 1 .. Len(sent) : sent[i].f = feed[o + i].f
    BY <1>10
  <2> QED
    BY <1>10, <1>15, <2>1, <2>2
<1>17. /\ got \in Seq(ListMarkets)
       /\ \A i \in 1 .. Len(got) : got[i].f = key.f
       /\ Distinct(got)
  <2> DEFINE S == {sent[i] : i \in 1 .. Len(sent)}
  <2>1. \A m \in S : m \in ListMarkets /\ m.f = key.f
    BY <1>16
  <2>2. Lists(S, got)
    BY <1>14
  <2> HIDE DEF S
  <2>3. got \in Seq(S) /\ \A i \in 1 .. Len(got) : got[i] \in S
    BY <2>2 DEF Lists
  <2>4. Len(got) \in Nat /\ \A i \in 1 .. Len(got) : got[i] \in ListMarkets
    BY <2>1, <2>3
  <2>5. got = [i \in 1 .. Len(got) |-> got[i]]
    BY <2>3
  <2>6. got \in Seq(ListMarkets)
    BY <2>4, <2>5
  <2> QED
    BY <2>1, <2>2, <2>3, <2>6 DEF Lists
<1>18. /\ next \in (0 .. Size) \cup {None}
       /\ next # None => Offered(next, latest)
  <2>1. CASE next = None
    BY <2>1
  <2>2. CASE next # None
    <3>1. next = top /\ top < N
      BY <1>5, <1>8, <1>10, <1>12, <2>2
    <3>2. next \in 0 .. Size
      BY <1>4, <1>5, <1>8, <3>1
    <3>3. ~latest => next < Size
      <4>1. ASSUME ~latest PROVE next < Size
        <5>1. ~new
          BY <4>1
        <5>2. N = Size
          BY <1>4, <1>5, <5>1
        <5> QED
          BY <3>1, <5>2
      <4> QED
        BY <4>1
    <3> QED
      BY <3>2, <3>3 DEF Offered
  <2> QED
    BY <2>1, <2>2
<1>19. ASSUME ~latest, Size > 0, next = None
       PROVE  \E i \in 1 .. Len(got) : got[i] = Page!Market(key.f, Size)
  <2>1. ~new /\ N = Size /\ o < N
    BY <1>2, <1>4, <1>5, <1>19 DEF Offered
  <2>2. o + Len(sent) = top /\ Len(sent) > 0
    BY <1>5, <1>8, <1>10, <2>1
  <2>3. top = N
    BY <1>5, <1>8, <1>12, <1>19, <2>2, ListConstants
  <2>4. Len(sent) \in 1 .. Len(sent) /\ o + Len(sent) = Size /\ Size \in 1 .. N
    BY <1>5, <1>8, <1>10, <2>1, <2>2, <2>3
  <2>5. sent[Len(sent)] = feed[Size]
    BY <1>10, <2>4
  <2>6. sent[Len(sent)] = Page!Market(key.f, Size)
    BY <1>4, <2>1, <2>4, <2>5
  <2> QED
    BY <1>14, <2>4, <2>6 DEF Lists
<1>20. PartOfList(key.f, got, next, latest)
  BY <1>17, <1>18, <1>19 DEF PartOfList
<1>21. [data |-> got, next |-> next] \in ListPages
  BY <1>17, <1>18 DEF ListPages
<1> QED
  BY <1>13, <1>20, <1>21

\* Adding the next page to what is shown.
LEMMA MoreIsPart ==
    ASSUME NEW f \in Filters, NEW shownNow \in Seq(ListMarkets), NEW got, NEW next, NEW latest,
           \A i \in 1 .. Len(shownNow) : shownNow[i].f = f, PartOfList(f, got, next, latest)
    PROVE  PartOfList(f, Page!Dedupe(shownNow \o got), next, latest)
<1>1. PICK all : all = shownNow \o got
  OBVIOUS
<1>2. /\ all \in Seq(ListMarkets) /\ Len(all) = Len(shownNow) + Len(got)
      /\ Len(shownNow) \in Nat /\ Len(got) \in Nat /\ got \in Seq(ListMarkets)
      /\ \A i \in 1 .. Len(shownNow) : all[i] = shownNow[i]
      /\ \A i \in 1 .. Len(got) : all[Len(shownNow) + i] = got[i]
  <2>1. got \in Seq(ListMarkets)
    BY DEF PartOfList
  <2> QED
    BY <1>1, <2>1
<1>3. \A i \in 1 .. Len(all) : all[i] \in ListMarkets /\ all[i].f = f
  <2> SUFFICES ASSUME NEW i \in 1 .. Len(all) PROVE all[i] \in ListMarkets /\ all[i].f = f
    OBVIOUS
  <2>1. all[i] \in ListMarkets
    BY <1>2
  <2>2. CASE i \in 1 .. Len(shownNow)
    BY <1>2, <2>1, <2>2
  <2>3. CASE i \notin 1 .. Len(shownNow)
    <3>1. i - Len(shownNow) \in 1 .. Len(got) /\ Len(shownNow) + (i - Len(shownNow)) = i
      BY <1>2, <2>3
    <3>2. all[i] = got[i - Len(shownNow)]
      BY <1>2, <3>1
    <3> QED
      BY <2>1, <3>1, <3>2 DEF PartOfList
  <2> QED
    BY <2>2, <2>3
<1>4. PICK d : d = Page!Dedupe(all)
  OBVIOUS
<1> DEFINE S == {all[i] : i \in 1 .. Len(all)}
<1>5. Lists(S, d)
  BY <1>2, <1>4, DedupeKeepsEachOnce
<1>6. \A m \in S : m \in ListMarkets /\ m.f = f
  BY <1>3
<1>7. \A i \in 1 .. Len(got) : got[i] \in S
  <2> SUFFICES ASSUME NEW i \in 1 .. Len(got) PROVE got[i] \in S
    OBVIOUS
  <2>1. Len(shownNow) + i \in 1 .. Len(all) /\ all[Len(shownNow) + i] = got[i]
    BY <1>2
  <2> QED
    BY <2>1
<1> HIDE DEF S
<1>8. d \in Seq(S) /\ Len(d) \in Nat /\ \A i \in 1 .. Len(d) : d[i] \in S
  BY <1>5 DEF Lists
<1>9. d \in Seq(ListMarkets)
  <2>1. d = [i \in 1 .. Len(d) |-> d[i]] /\ \A i \in 1 .. Len(d) : d[i] \in ListMarkets
    BY <1>6, <1>8
  <2> QED
    BY <1>8, <2>1
<1>10. ~latest /\ Size > 0 /\ next = None => \E i \in 1 .. Len(d) : d[i] = Page!Market(f, Size)
  BY <1>5, <1>7 DEF PartOfList, Lists
<1> QED
  BY <1>1, <1>4, <1>5, <1>6, <1>8, <1>9, <1>10 DEF PartOfList, Lists

FetchesSound ==
    /\ fetches \subseteq [id : Page!Ids, key : ListKeys]
    /\ \A r \in fetches : Offered(r.key.offset, changed)
    /\ \A r, q \in fetches : r.id = q.id => r = q

EntrySound(k, e) ==
    /\ e \in ListEntries
    /\ e.value # None => \E new \in BOOLEAN : (new => changed) /\ e.value = Page!ToMarketsPage(k, new)
    /\ e.promise # None => [id |-> e.promise, key |-> k] \in fetches

PagesSound ==
    /\ DOMAIN pageCache \subseteq ListKeys
    /\ \A k \in DOMAIN pageCache : EntrySound(k, pageCache[k])

WaitRows == [id : Page!Ids, who : {"first", "more"}]

AwaitedAre(f, who) == who \subseteq WaitRows /\ \A r \in fetches, w \in who : r.id = w.id => r.key.f = f

ShownSound ==
    /\ shown \in ListRows
    /\ \A i \in 1 .. Len(shown.data) : shown.data[i].f = asked
    /\ Distinct(shown.data)
    /\ shown.next # None => asked # None /\ Offered(shown.next, changed)
    /\ ~changed /\ Size > 0 /\ shown.status = "ready" /\ shown.next = None =>
           \E i \in 1 .. Len(shown.data) : shown.data[i] = Page!Market(asked, Size)

IsAwaited(who) == \E r \in fetches : Page!WaitsFor(r, who)

LoadsAwaited ==
    /\ asked # None /\ shown.status = "loading" => IsAwaited("first")
    /\ shown.more => IsAwaited("more")

ListInv ==
    /\ asked \in Filters \cup {None} /\ armed \in BOOLEAN /\ changed \in BOOLEAN
    /\ armed => shown.next # None
    /\ FetchesSound /\ PagesSound /\ AwaitedAre(asked, waits) /\ ShownSound /\ LoadsAwaited

LEMMA ListInit ==
    ASSUME Page!Init PROVE ListInv
<1>1. PICK none : none = <<>>
  OBVIOUS
<1>2. none \in Seq(ListMarkets) /\ 1 .. Len(none) = {}
  BY <1>1
<1>3. shown = [status |-> "loading", data |-> none, next |-> None, more |-> FALSE]
  BY <1>1 DEF Page!Init, Page!Loading, Page!State
<1>4. ShownSound
  <2>1. shown \in ListRows /\ 1 .. Len(shown.data) = {} /\ shown.next = None /\ shown.status = "loading"
    BY <1>2, <1>3 DEF ListRows
  <2>2. Distinct(shown.data)
    BY <2>1 DEF Distinct
  <2> QED
    BY <2>1, <2>2 DEF ShownSound
<1>5. pageCache = <<>> /\ fetches = {} /\ waits = {} /\ asked = None /\ armed = FALSE /\ changed = FALSE
  BY DEF Page!Init
<1>6. DOMAIN pageCache = {}
  BY <1>5
<1>7. FetchesSound /\ PagesSound /\ AwaitedAre(asked, waits)
  BY <1>5, <1>6 DEF FetchesSound, PagesSound, AwaitedAre
<1> QED
  BY <1>3, <1>5, <1>7, <1>4 DEF ListInv, LoadsAwaited

\* A request is sent, or the one that runs is shared, and who asks waits for it.
LEMMA RequestKeeps ==
    ASSUME FetchesSound, PagesSound, NEW key \in ListKeys, Offered(key.offset, changed),
           changed' = changed, key.f = asked', NEW who \in {"first", "more", None},
           NEW others, AwaitedAre(asked', others), Page!Request(key, who, others)
    PROVE  /\ FetchesSound' /\ PagesSound' /\ AwaitedAre(asked, waits)'
           /\ fetches \subseteq fetches' /\ others \subseteq waits'
           /\ who # None => IsAwaited(who)'
<1>1. CASE key \in Page!Kept /\ pageCache[key].promise # None
  <2>1. PICK id : id = pageCache[key].promise
    OBVIOUS
  <2>2. /\ waits' = others \cup Page!Waiting(id, who)
        /\ pageCache' = pageCache /\ fetches' = fetches
    BY <1>1, <2>1 DEF Page!Request
  <2>3. [id |-> id, key |-> key] \in fetches
    BY <1>1, <2>1 DEF PagesSound, EntrySound, Page!Kept
  <2>4. PICK r \in fetches : r = [id |-> id, key |-> key]
    BY <2>3
  <2>5. r.id = id /\ r.key = key /\ r.id \in Page!Ids
    BY <2>4 DEF FetchesSound
  <2>6. FetchesSound'
    BY <2>2 DEF FetchesSound
  <2>7. PagesSound'
    BY <2>2 DEF PagesSound, EntrySound
  <2>8. AwaitedAre(asked, waits)'
    <3>1. ASSUME NEW w \in Page!Waiting(id, who)
          PROVE  w \in WaitRows /\ w.id = id
      BY <2>5 DEF Page!Waiting, WaitRows
    <3>2. \A q \in fetches : q.id = id => q.key.f = asked'
      BY <2>5 DEF FetchesSound
    <3> QED
      BY <2>2, <3>1, <3>2 DEF AwaitedAre
  <2>9. who # None => IsAwaited(who)'
    BY <2>2, <2>5 DEF IsAwaited, Page!WaitsFor, Page!Waiting
  <2> QED
    BY <2>2, <2>6, <2>7, <2>8, <2>9
<1>2. CASE ~(key \in Page!Kept /\ pageCache[key].promise # None)
  <2>1. PICK id \in Page!Ids :
           /\ \A r \in fetches : r.id # id
           /\ fetches' = fetches \cup {[id |-> id, key |-> key]}
           /\ waits' = others \cup Page!Waiting(id, who)
           /\ pageCache' = [k \in Page!Kept \cup {key} |->
                           IF k # key THEN pageCache[k]
                           ELSE IF key \in Page!Kept THEN [pageCache[key] EXCEPT !.promise = id]
                           ELSE Page!Entry(None, 2, id)]
    BY <1>2 DEF Page!Request
  <2>2. PICK r : r = [id |-> id, key |-> key]
    OBVIOUS
  <2>3. r.id = id /\ r.key = key /\ r \in [id : Page!Ids, key : ListKeys] /\ fetches' = fetches \cup {r}
    BY <2>1, <2>2
  <2>4. FetchesSound'
    <3>1. fetches' \subseteq [id : Page!Ids, key : ListKeys]
      BY <2>3 DEF FetchesSound
    <3>2. \A q \in fetches' : Offered(q.key.offset, changed)
      BY <2>3 DEF FetchesSound
    <3>3. \A p, q \in fetches' : p.id = q.id => p = q
      BY <2>1, <2>3 DEF FetchesSound
    <3>4. \A q \in fetches' : Offered(q.key.offset, changed)'
      BY <3>2 DEF Offered
    <3> QED
      BY <3>1, <3>3, <3>4 DEF FetchesSound
  <2>5. PICK e : e = IF key \in Page!Kept THEN [pageCache[key] EXCEPT !.promise = id]
                     ELSE Page!Entry(None, 2, id)
    OBVIOUS
  <2>6. /\ DOMAIN pageCache' = DOMAIN pageCache \cup {key}
        /\ \A k \in DOMAIN pageCache' : pageCache'[k] = IF k = key THEN e ELSE pageCache[k]
    BY <2>1, <2>5 DEF Page!Kept
  <2>7. /\ e \in ListEntries /\ e.promise = id
        /\ e.value # None => \E new \in BOOLEAN : (new => changed) /\ e.value = Page!ToMarketsPage(key, new)
    <3>1. CASE key \in Page!Kept
      <4>1. PICK old : old = pageCache[key]
        OBVIOUS
      <4>2. EntrySound(key, old) /\ old \in ListEntries
        BY <3>1, <4>1 DEF PagesSound, EntrySound, Page!Kept
      <4>3. e = [old EXCEPT !.promise = id]
        BY <2>5, <3>1, <4>1
      <4>4. e \in ListEntries /\ e.promise = id /\ e.value = old.value
        BY <2>1, <4>2, <4>3 DEF ListEntries
      <4> QED
        BY <4>2, <4>4 DEF EntrySound
    <3>2. CASE key \notin Page!Kept
      <4>1. e = [value |-> None, age |-> 2, promise |-> id]
        BY <2>5, <3>2 DEF Page!Entry
      <4> QED
        BY <2>1, <4>1 DEF ListEntries
    <3> QED
      BY <3>1, <3>2
  <2>8. PagesSound'
    <3>1. ASSUME NEW k, k \in DOMAIN pageCache' PROVE EntrySound(k, pageCache[k])'
      <4>1. CASE k = key
        <5>1. [id |-> e.promise, key |-> key] \in fetches'
          BY <2>1, <2>7
        <5>2. pageCache'[k] = e
          BY <2>6, <3>1, <4>1
        <5> QED
          BY <2>7, <4>1, <5>1, <5>2 DEF EntrySound
      <4>2. CASE k # key
        <5>1. PICK old : old = pageCache[k]
          OBVIOUS
        <5>2. pageCache'[k] = old /\ EntrySound(k, old)
          BY <2>6, <3>1, <4>2, <5>1 DEF PagesSound
        <5>3. EntrySound(k, old)'
          BY <2>1, <5>2 DEF EntrySound
        <5> QED
          BY <5>2, <5>3 DEF EntrySound
      <4> QED
        BY <4>1, <4>2
    <3>2. DOMAIN pageCache' \subseteq ListKeys
      BY <2>6 DEF PagesSound
    <3> QED
      BY <3>1, <3>2 DEF PagesSound
  <2>9. AwaitedAre(asked, waits)'
    <3>1. ASSUME NEW w \in Page!Waiting(id, who)
          PROVE  w \in WaitRows /\ w.id = id
      BY <2>1 DEF Page!Waiting, WaitRows
    <3>2. \A q \in fetches' : q.id = id => q.key.f = asked'
      BY <2>1, <2>3
    <3>3. \A q \in fetches', w \in others : q.id = w.id => q.key.f = asked'
      BY <2>3 DEF AwaitedAre
    <3> QED
      BY <2>1, <3>1, <3>2, <3>3 DEF AwaitedAre
  <2>10. who # None => IsAwaited(who)'
    BY <2>1, <2>3 DEF IsAwaited, Page!WaitsFor, Page!Waiting
  <2> QED
    BY <2>1, <2>3, <2>4, <2>8, <2>9, <2>10
<1> QED
  BY <1>1, <1>2

\* An answer ends its own request, and the waits for it only.
LEMMA AnswerKeeps ==
    ASSUME FetchesSound, AwaitedAre(asked, waits), NEW r \in fetches, Page!Answered(r),
           asked' = asked, changed' = changed
    PROVE  /\ FetchesSound' /\ AwaitedAre(asked, waits)'
           /\ \A who : IsAwaited(who) /\ ~Page!WaitsFor(r, who) => IsAwaited(who)'
           /\ \A q \in fetches : q # r => q \in fetches' /\ q.id # r.id
<1>1. fetches' = fetches \ {r} /\ waits' = {w \in waits : w.id # r.id}
  BY DEF Page!Answered
<1>2. FetchesSound'
  BY <1>1 DEF FetchesSound
<1>3. AwaitedAre(asked, waits)'
  BY <1>1 DEF AwaitedAre
<1>4. \A q \in fetches : q # r => q \in fetches' /\ q.id # r.id
  BY <1>1 DEF FetchesSound
<1>5. ASSUME NEW who, IsAwaited(who), ~Page!WaitsFor(r, who) PROVE IsAwaited(who)'
  <2>1. PICK q \in fetches : Page!WaitsFor(q, who)
    BY <1>5 DEF IsAwaited
  <2>2. q \in fetches' /\ q.id # r.id
    BY <1>4, <1>5, <2>1
  <2>3. [id |-> q.id, who |-> who] \in waits'
    BY <1>1, <2>1, <2>2 DEF Page!WaitsFor
  <2> QED
    BY <2>2, <2>3 DEF IsAwaited, Page!WaitsFor
<1> QED
  BY <1>2, <1>3, <1>4, <1>5

\* An entry that stays as it is, while the request that it waits for goes on.
LEMMA EntryStays ==
    ASSUME NEW k, NEW e, EntrySound(k, e), NEW r \in fetches, changed' = changed,
           \A q \in fetches : q # r => q \in fetches' /\ q.id # r.id,
           FetchesSound, k # r.key \/ e.promise # r.id
    PROVE  EntrySound(k, e)'
<1>1. ASSUME e.promise # None PROVE [id |-> e.promise, key |-> k] \in fetches'
  <2>1. PICK q : q = [id |-> e.promise, key |-> k]
    OBVIOUS
  <2>2. q \in fetches /\ q # r
    BY <1>1, <2>1 DEF EntrySound
  <2> QED
    BY <2>1, <2>2
<1> QED
  BY <1>1 DEF EntrySound

LEMMA RememberKeeps ==
    ASSUME FetchesSound, PagesSound, changed \in BOOLEAN, NEW r \in fetches, changed' = changed,
           \A q \in fetches : q # r => q \in fetches' /\ q.id # r.id,
           NEW new \in BOOLEAN, new => changed,
           Page!Remember(r.key, Page!ToMarketsPage(r.key, new))
    PROVE  PagesSound'
<1>1. PICK key : key = r.key
  OBVIOUS
<1>2. key \in ListKeys /\ Offered(key.offset, changed)
  BY <1>1 DEF FetchesSound
<1>3. PICK page : page = Page!ToMarketsPage(key, new)
  OBVIOUS
<1>4. page \in ListPages
  BY <1>2, <1>3, PageIsPart
<1>5. PICK e : e = [value |-> page, age |-> 0, promise |-> None]
  OBVIOUS
<1>6. e \in ListEntries /\ e.value = page /\ e.promise = None
  BY <1>4, <1>5 DEF ListEntries
<1>7. EntrySound(key, e)'
  BY <1>3, <1>6 DEF EntrySound
<1> DEFINE all == [k \in Page!Kept \cup {key} |->
                      IF k = key THEN Page!Entry(page, 0, None) ELSE pageCache[k]]
<1>8. /\ DOMAIN all = DOMAIN pageCache \cup {key}
      /\ \A k \in DOMAIN all : all[k] = IF k = key THEN e ELSE pageCache[k]
  BY <1>5 DEF Page!Kept, Page!Entry
<1>9. \E keys \in SUBSET (DOMAIN all) : pageCache' = [k \in keys |-> all[k]]
  <2>1. CASE pageCache' = all
    <3>1. all = [k \in DOMAIN all |-> all[k]]
      OBVIOUS
    <3> QED
      BY <2>1, <3>1
  <2>2. CASE \E out : pageCache' = [k \in DOMAIN all \ {out} |-> all[k]]
    <3> HIDE DEF all
    <3> QED
      BY <2>2
  <2> QED
    <3>1. Page!Remember(key, page)
      BY <1>1, <1>3
    <3>2. pageCache' = all \/ \E out : pageCache' = [k \in DOMAIN all \ {out} |-> all[k]]
      BY <3>1, Zenon DEF Page!Remember
    <3> QED
      BY <2>1, <2>2, <3>2
<1> HIDE DEF all
<1>10. PICK keys \in SUBSET (DOMAIN all) : pageCache' = [k \in keys |-> all[k]]
  BY <1>9
<1>11. DOMAIN pageCache' \subseteq ListKeys
  BY <1>2, <1>8, <1>10 DEF PagesSound
<1>12. ASSUME NEW k, k \in DOMAIN pageCache' PROVE EntrySound(k, pageCache[k])'
  <2>1. CASE k = key
    <3>1. pageCache'[k] = e
      BY <1>8, <1>10, <1>12, <2>1
    <3> QED
      BY <1>7, <2>1, <3>1 DEF EntrySound
  <2>2. CASE k # key
    <3>1. PICK old : old = pageCache[k]
      OBVIOUS
    <3>2. pageCache'[k] = old /\ k \in DOMAIN pageCache
      BY <1>8, <1>10, <1>12, <2>2, <3>1
    <3>3. EntrySound(k, old)
      BY <3>1, <3>2 DEF PagesSound
    <3>4. EntrySound(k, old)'
      BY <1>1, <2>2, <3>3, EntryStays
    <3> QED
      BY <3>2, <3>4 DEF EntrySound
  <2> QED
    BY <2>1, <2>2
<1> QED
  BY <1>11, <1>12 DEF PagesSound

LEMMA ForgetKeeps ==
    ASSUME FetchesSound, PagesSound, NEW r \in fetches, changed' = changed,
           \A q \in fetches : q # r => q \in fetches' /\ q.id # r.id,
           Page!Forget(r.key, r.id)
    PROVE  PagesSound'
<1>1. CASE /\ r.key \in Page!Kept /\ pageCache[r.key].promise = r.id
           /\ pageCache' = [pageCache EXCEPT ![r.key].promise = None]
  <2>1. PICK key : key = r.key
    OBVIOUS
  <2>2. PICK old : old = pageCache[key]
    OBVIOUS
  <2>3. EntrySound(key, old) /\ key \in DOMAIN pageCache
    BY <1>1, <2>1, <2>2 DEF PagesSound, Page!Kept
  <2>4. PICK e : e = [old EXCEPT !.promise = None]
    OBVIOUS
  <2>5. e \in ListEntries /\ e.value = old.value /\ e.promise = None
    BY <2>3, <2>4 DEF EntrySound, ListEntries
  <2>6. EntrySound(key, e)'
    BY <2>3, <2>5 DEF EntrySound
  <2>7. /\ DOMAIN pageCache' = DOMAIN pageCache
        /\ \A k \in DOMAIN pageCache : pageCache'[k] = IF k = key THEN e ELSE pageCache[k]
    BY <1>1, <2>1, <2>2, <2>3, <2>4
  <2>8. ASSUME NEW k, k \in DOMAIN pageCache' PROVE EntrySound(k, pageCache[k])'
    <3>1. CASE k = key
      <4>1. pageCache'[k] = e
        BY <2>3, <2>7, <3>1
      <4> QED
        BY <2>6, <3>1, <4>1 DEF EntrySound
    <3>2. CASE k # key
      <4>1. PICK same : same = pageCache[k]
        OBVIOUS
      <4>2. pageCache'[k] = same /\ EntrySound(k, same)
        BY <2>7, <2>8, <3>2, <4>1 DEF PagesSound
      <4>3. EntrySound(k, same)'
        BY <2>1, <3>2, <4>2, EntryStays
      <4> QED
        BY <4>2, <4>3 DEF EntrySound
    <3> QED
      BY <3>1, <3>2
  <2> QED
    BY <2>7, <2>8 DEF PagesSound
<1>2. CASE ~(r.key \in Page!Kept /\ pageCache[r.key].promise = r.id) /\ pageCache' = pageCache
  <2>1. ASSUME NEW k, k \in DOMAIN pageCache' PROVE EntrySound(k, pageCache[k])'
    <3>1. PICK same : same = pageCache[k]
      OBVIOUS
    <3>2. pageCache'[k] = same /\ EntrySound(k, same) /\ (k # r.key \/ same.promise # r.id)
      BY <1>2, <2>1, <3>1 DEF PagesSound, Page!Kept
    <3>3. EntrySound(k, same)'
      BY <3>2, EntryStays
    <3> QED
      BY <3>2, <3>3 DEF EntrySound
  <2> QED
    BY <1>2, <2>1 DEF PagesSound
<1> QED
  BY <1>1, <1>2 DEF Page!Forget

LEMMA ArmKeeps ==
    ASSUME ListInv, Page!Arm
    PROVE  armed' \in BOOLEAN /\ (armed' => shown'.next # None)
<1>1. CASE <<asked', shown'.next, shown'.status>> = <<asked, shown.next, shown.status>>
  <2>1. armed' = armed /\ shown'.next = shown.next
    BY <1>1 DEF Page!Arm
  <2> QED
    BY <2>1 DEF ListInv
<1>2. CASE <<asked', shown'.next, shown'.status>> # <<asked, shown.next, shown.status>>
  <2>1. armed' = (/\ shown'.status = "ready" /\ shown'.next # None
                  /\ Page!ShouldRevalidate(Page!Key(asked', shown'.next)))
    BY <1>2 DEF Page!Arm
  <2> QED
    BY <2>1
<1> QED
  BY <1>1, <1>2

\* A part of the list that is asked for can be shown.
LEMMA PartIsShown ==
    ASSUME NEW got, NEW next, PartOfList(asked', got, next, changed'), asked' # None,
           shown' = Page!State("ready", got, next, FALSE)
    PROVE  ShownSound' /\ shown'.status = "ready" /\ ~shown'.more
<1>1. PICK after : after = [status |-> "ready", data |-> got, next |-> next, more |-> FALSE]
  OBVIOUS
<1>2. /\ after \in ListRows /\ after.status = "ready" /\ after.data = got /\ after.next = next
      /\ after.more = FALSE
  BY <1>1 DEF ListRows, PartOfList
<1>3. shown' = after
  BY <1>1 DEF Page!State
<1>4. /\ shown' \in ListRows /\ shown'.data = got /\ shown'.next = next /\ shown'.status = "ready"
      /\ shown'.more = FALSE
  BY <1>2, <1>3
<1>5. ShownSound'
  <2>1. /\ \A i \in 1 .. Len(got) : got[i].f = asked'
        /\ Distinct(got)
        /\ next # None => Offered(next, changed')
        /\ ~changed' /\ Size > 0 /\ next = None =>
               \E i \in 1 .. Len(got) : got[i] = Page!Market(asked', Size)
    BY DEF PartOfList
  <2>2. shown'.data = got /\ Len(shown'.data) = Len(got)
    BY <1>4
  <2>5. \A i \in 1 .. Len(shown'.data) : shown'.data[i].f = asked'
    BY <2>1, <2>2
  <2>6. Distinct(shown'.data)
    BY <2>1, <2>2
  <2>3. shown'.next # None => asked' # None /\ Offered(shown'.next, changed')
    BY <1>4, <2>1
  <2>4. ~changed' /\ Size > 0 /\ shown'.status = "ready" /\ shown'.next = None =>
           \E i \in 1 .. Len(shown'.data) : shown'.data[i] = Page!Market(asked', Size)
    BY <1>4, <2>1
  <2> QED
    BY <1>4, <2>3, <2>4, <2>5, <2>6 DEF ShownSound
<1> QED
  BY <1>4, <1>5

\* A list that shows nothing is a part of every one that goes on or has failed.
LEMMA NothingIsShown ==
    ASSUME NEW status \in {"loading", "error"}, shown' = Page!State(status, <<>>, None, FALSE)
    PROVE  ShownSound' /\ shown'.status = status /\ ~shown'.more
<1>1. PICK none : none = <<>>
  OBVIOUS
<1>2. none \in Seq(ListMarkets) /\ 1 .. Len(none) = {}
  BY <1>1
<1>3. PICK after : after = [status |-> status, data |-> none, next |-> None, more |-> FALSE]
  OBVIOUS
<1>4. /\ after \in ListRows /\ after.status = status /\ after.data = none /\ after.next = None
      /\ after.more = FALSE
  BY <1>2, <1>3 DEF ListRows
<1>5. shown' = after
  BY <1>1, <1>3 DEF Page!State
<1>6. /\ shown' \in ListRows /\ 1 .. Len(shown'.data) = {} /\ shown'.next = None
      /\ shown'.status = status /\ shown'.more = FALSE
  BY <1>2, <1>4, <1>5
<1>7. ShownSound'
  <2>1. \A i \in 1 .. Len(shown'.data) : shown'.data[i].f = asked'
    BY <1>6
  <2>2. Distinct(shown'.data)
    BY <1>6 DEF Distinct
  <2>3. shown'.next = None /\ shown'.status # "ready"
    BY <1>6
  <2> QED
    BY <1>6, <2>1, <2>2, <2>3 DEF ShownSound
<1> QED
  BY <1>6, <1>7

LEMMA AskKeeps ==
    ASSUME ListInv, NEW f \in Filters, Page!Ask(f) PROVE ListInv'
<1>1. PICK key : key = Page!Key(f, 0)
  OBVIOUS
<1>2. /\ key \in ListKeys /\ key.f = f /\ key.offset = 0 /\ Offered(key.offset, changed)
  BY <1>1, ListConstants DEF Page!Key, ListKeys, Offered
<1>3. asked' = f /\ changed' = changed /\ asked' # None /\ Page!Arm
  BY ListConstants DEF Page!Ask
<1>4. AwaitedAre(asked', {})
  BY DEF AwaitedAre
<1>5. CASE Page!Readable(key)
  <2>1. PICK page : page = pageCache[key].value
    OBVIOUS
  <2>2. PICK new \in BOOLEAN : (new => changed) /\ page = Page!ToMarketsPage(key, new)
    BY <1>5, <2>1 DEF ListInv, PagesSound, EntrySound, Page!Readable, Page!Kept
  <2>3. PartOfList(f, page.data, page.next, changed)
    BY <1>2, <2>2, PageIsPart DEF ListInv
  <2>4. shown' = Page!State("ready", page.data, page.next, FALSE)
    BY <1>1, <1>5, <2>1 DEF Page!Ask
  <2>5. ShownSound' /\ shown'.status = "ready" /\ ~shown'.more
    BY <1>3, <2>3, <2>4, PartIsShown
  <2>6. LoadsAwaited'
    BY <2>5 DEF LoadsAwaited
  <2>7. FetchesSound' /\ PagesSound' /\ AwaitedAre(asked, waits)'
    <3>1. CASE waits' = {} /\ UNCHANGED <<pageCache, fetches>>
      BY <1>3, <1>4, <3>1 DEF ListInv, FetchesSound, PagesSound, EntrySound, AwaitedAre
    <3>2. CASE Page!Request(key, "first", {})
      BY <1>2, <1>3, <1>4, <3>2, RequestKeeps DEF ListInv
    <3> QED
      BY <1>1, <3>1, <3>2 DEF Page!Ask, Page!Awaited
  <2> QED
    BY <1>3, <2>5, <2>6, <2>7, ArmKeeps DEF ListInv
<1>6. CASE ~Page!Readable(key)
  <2>1. shown' = Page!State("loading", <<>>, None, FALSE)
    BY <1>1, <1>6 DEF Page!Ask, Page!Loading
  <2>2. ShownSound' /\ shown'.status = "loading" /\ ~shown'.more
    BY <2>1, NothingIsShown
  <2>3. Page!Request(key, "first", {})
    BY <1>1, <1>6 DEF Page!Ask, Page!Awaited
  <2>4. FetchesSound' /\ PagesSound' /\ AwaitedAre(asked, waits)' /\ IsAwaited("first")'
    BY <1>2, <1>3, <1>4, <2>3, ListConstants, RequestKeeps DEF ListInv
  <2>5. LoadsAwaited'
    BY <2>2, <2>4 DEF LoadsAwaited
  <2> QED
    BY <1>3, <2>2, <2>4, <2>5, ArmKeeps DEF ListInv
<1> QED
  BY <1>5, <1>6

\* The key of the page after the one that is shown.
LEMMA NextKey ==
    ASSUME ListInv, shown.next # None
    PROVE  /\ Page!Key(asked, shown.next) \in ListKeys
           /\ Page!Key(asked, shown.next).f = asked
           /\ Offered(Page!Key(asked, shown.next).offset, changed)
<1>1. asked \in Filters /\ shown.next \in 0 .. Size /\ Offered(shown.next, changed)
  BY DEF ListInv, ShownSound, ListRows
<1> QED
  BY <1>1 DEF Page!Key, ListKeys

\* What is awaited stays awaited when a request is sent.
LEMMA StillAwaited ==
    ASSUME fetches \subseteq fetches', waits \subseteq waits', NEW who, IsAwaited(who)
    PROVE  IsAwaited(who)'
BY DEF IsAwaited, Page!WaitsFor

LEMMA LoadMoreKeeps ==
    ASSUME ListInv, Page!LoadMore PROVE ListInv'
<1>1. PICK key : key = Page!Key(asked, shown.next)
  OBVIOUS
<1>2. key \in ListKeys /\ key.f = asked /\ Offered(key.offset, changed)
  BY <1>1, NextKey DEF Page!LoadMore
<1>3. Page!Request(key, "more", waits) /\ UNCHANGED <<asked, armed, changed>>
  BY <1>1 DEF Page!LoadMore
<1>4. AwaitedAre(asked', waits)
  BY <1>3 DEF ListInv
<1>5. /\ FetchesSound' /\ PagesSound' /\ AwaitedAre(asked, waits)' /\ IsAwaited("more")'
      /\ fetches \subseteq fetches' /\ waits \subseteq waits'
  BY <1>2, <1>3, <1>4, ListConstants, RequestKeeps DEF ListInv
<1>6. PICK old : old = shown
  OBVIOUS
<1>7. PICK after : after = [old EXCEPT !.more = TRUE]
  OBVIOUS
<1>8. /\ old \in ListRows /\ after \in ListRows /\ after.status = old.status /\ after.data = old.data
      /\ after.next = old.next /\ after.more
  BY <1>6, <1>7 DEF ListInv, ShownSound, ListRows
<1>9. shown' = after
  BY <1>6, <1>7 DEF Page!LoadMore
<1>10. ShownSound'
  BY <1>3, <1>6, <1>8, <1>9 DEF ListInv, ShownSound
<1>11. LoadsAwaited'
  BY <1>5 , <1>8, <1>9 DEF LoadsAwaited, Page!LoadMore
<1> QED
  BY <1>3, <1>5, <1>6, <1>8, <1>9, <1>10, <1>11 DEF ListInv

LEMMA PrefetchKeeps ==
    ASSUME ListInv, Page!Prefetch PROVE ListInv'
<1>1. PICK key : key = Page!Key(asked, shown.next)
  OBVIOUS
<1>2. key \in ListKeys /\ key.f = asked /\ Offered(key.offset, changed)
  BY <1>1, NextKey DEF Page!Prefetch, ListInv
<1>3. Page!Request(key, None, waits) /\ UNCHANGED <<asked, shown, changed>> /\ armed' = FALSE
  BY <1>1 DEF Page!Prefetch
<1>4. AwaitedAre(asked', waits)
  BY <1>3 DEF ListInv
<1>5. /\ FetchesSound' /\ PagesSound' /\ AwaitedAre(asked, waits)'
      /\ fetches \subseteq fetches' /\ waits \subseteq waits'
  BY <1>2, <1>3, <1>4, RequestKeeps DEF ListInv
<1>6. ShownSound'
  BY <1>3 DEF ListInv, ShownSound
<1>7. LoadsAwaited'
  BY <1>3, <1>5, StillAwaited DEF ListInv, LoadsAwaited
<1> QED
  BY <1>3, <1>5, <1>6, <1>7 DEF ListInv

LEMMA SucceedKeeps ==
    ASSUME ListInv, NEW r \in fetches, Page!Succeed(r) PROVE ListInv'
<1>1. PICK key : key = r.key
  OBVIOUS
<1>2. asked' = asked /\ changed' = changed /\ Page!Answered(r) /\ Page!Arm
  BY DEF Page!Succeed
<1>3. PICK new \in {FALSE, changed} :
         /\ Page!Remember(r.key, Page!ToMarketsPage(r.key, new))
         /\ shown' = IF Page!WaitsFor(r, "first") THEN Page!First(Page!ToMarketsPage(r.key, new))
                     ELSE IF Page!WaitsFor(r, "more") THEN Page!More(Page!ToMarketsPage(r.key, new))
                     ELSE shown
  BY DEF Page!Succeed
<1>4. new \in BOOLEAN /\ (new => changed) /\ changed \in BOOLEAN
  <2>1. changed \in BOOLEAN
    BY DEF ListInv
  <2>2. new = FALSE \/ new = changed
    BY <1>3
  <2>3. new \in BOOLEAN
    BY <2>1, <2>2, Zenon
  <2>4. CASE changed = TRUE
    BY <2>1, <2>3, <2>4
  <2>5. CASE changed = FALSE
    <3>1. new = FALSE
      BY <2>2, <2>5, Zenon
    <3> QED
      BY <2>1, <2>3, <3>1
  <2> QED
    BY <2>1, <2>4, <2>5
<1>5. /\ FetchesSound' /\ AwaitedAre(asked, waits)'
      /\ \A who : IsAwaited(who) /\ ~Page!WaitsFor(r, who) => IsAwaited(who)'
      /\ \A q \in fetches : q # r => q \in fetches' /\ q.id # r.id
  BY <1>2, AnswerKeeps DEF ListInv
<1>6. PagesSound'
  BY <1>2, <1>3, <1>4, <1>5, RememberKeeps DEF ListInv
<1>7. key \in ListKeys /\ Offered(key.offset, changed)
  BY <1>1 DEF ListInv, FetchesSound
<1>8. PICK page : page = Page!ToMarketsPage(key, new)
  OBVIOUS
<1>9. PartOfList(key.f, page.data, page.next, changed)
  BY <1>4, <1>7, <1>8, PageIsPart
<1>10. \A who : Page!WaitsFor(r, who) => key.f = asked /\ asked \in Filters /\ asked # None
  <2> SUFFICES ASSUME NEW who, Page!WaitsFor(r, who)
               PROVE  key.f = asked /\ asked \in Filters /\ asked # None
    OBVIOUS
  <2>1. PICK w \in waits : w = [id |-> r.id, who |-> who]
    BY DEF Page!WaitsFor
  <2>2. w.id = r.id
    BY <2>1
  <2>3. r.key.f = asked
    BY <2>2 DEF ListInv, AwaitedAre
  <2>4. key.f \in Filters
    BY <1>7 DEF ListKeys
  <2> QED
    BY <1>1, <2>3, <2>4, ListConstants
<1>11. ShownSound' /\ LoadsAwaited'
  <2>1. CASE Page!WaitsFor(r, "first")
    <3>1. shown' = Page!State("ready", page.data, page.next, FALSE)
      BY <1>1, <1>3, <1>8, <2>1 DEF Page!First
    <3>2. PartOfList(asked', page.data, page.next, changed') /\ asked' # None
      BY <1>2, <1>9, <1>10, <2>1
    <3> QED
      BY <3>1, <3>2, PartIsShown DEF LoadsAwaited
  <2>2. CASE ~Page!WaitsFor(r, "first") /\ Page!WaitsFor(r, "more")
    <3>1. PICK got : got = Page!Dedupe(shown.data \o page.data)
      OBVIOUS
    <3>2. shown' = Page!State("ready", got, page.next, FALSE)
      BY <1>1, <1>3, <1>8, <2>2, <3>1 DEF Page!More
    <3>3. shown.data \in Seq(ListMarkets) /\ \A i \in 1 .. Len(shown.data) : shown.data[i].f = asked
      BY DEF ListInv, ShownSound, ListRows
    <3>4. PartOfList(asked, page.data, page.next, changed) /\ asked \in Filters /\ asked' # None
      BY <1>2, <1>9, <1>10, <2>2
    <3>5. PartOfList(asked', got, page.next, changed')
      BY <1>2, <3>1, <3>3, <3>4, MoreIsPart
    <3> QED
      BY <3>2, <3>4, <3>5, PartIsShown DEF LoadsAwaited
  <2>3. CASE ~Page!WaitsFor(r, "first") /\ ~Page!WaitsFor(r, "more")
    <3>1. shown' = shown
      BY <1>3, <2>3
    <3>2. ShownSound'
      BY <1>2, <3>1 DEF ListInv, ShownSound
    <3>3. LoadsAwaited'
      BY <1>2, <1>5, <2>3, <3>1 DEF ListInv, LoadsAwaited
    <3> QED
      BY <3>2, <3>3
  <2> QED
    BY <2>1, <2>2, <2>3
<1> QED
  BY <1>2, <1>5, <1>6, <1>11, ArmKeeps DEF ListInv

LEMMA FailKeeps ==
    ASSUME ListInv, NEW r \in fetches, Page!Fail(r) PROVE ListInv'
<1>1. asked' = asked /\ changed' = changed /\ Page!Answered(r) /\ Page!Arm /\ Page!Forget(r.key, r.id)
  BY DEF Page!Fail
<1>2. /\ FetchesSound' /\ AwaitedAre(asked, waits)'
      /\ \A who : IsAwaited(who) /\ ~Page!WaitsFor(r, who) => IsAwaited(who)'
      /\ \A q \in fetches : q # r => q \in fetches' /\ q.id # r.id
  BY <1>1, AnswerKeeps DEF ListInv
<1>3. PagesSound'
  BY <1>1, <1>2, ForgetKeeps DEF ListInv
<1>4. ShownSound' /\ LoadsAwaited'
  <2>1. CASE Page!WaitsFor(r, "first")
    <3>1. shown' = Page!State("error", <<>>, None, FALSE)
      BY <2>1 DEF Page!Fail, Page!Failed
    <3> QED
      BY <3>1, NothingIsShown DEF LoadsAwaited
  <2>2. CASE ~Page!WaitsFor(r, "first") /\ Page!WaitsFor(r, "more")
    <3>1. PICK old : old = shown
      OBVIOUS
    <3>2. PICK after : after = [old EXCEPT !.status = "error", !.more = FALSE]
      OBVIOUS
    <3>3. /\ old \in ListRows /\ after \in ListRows /\ after.status = "error" /\ after.data = old.data
          /\ after.next = old.next /\ after.more = FALSE
      BY <3>1, <3>2 DEF ListInv, ShownSound, ListRows
    <3>4. shown' = after
      BY <2>2, <3>1, <3>2 DEF Page!Fail, Page!NoMore
    <3>5. ShownSound'
      BY <1>1, <3>1, <3>3, <3>4 DEF ListInv, ShownSound
    <3> QED
      BY <3>3, <3>4, <3>5 DEF LoadsAwaited
  <2>3. CASE ~Page!WaitsFor(r, "first") /\ ~Page!WaitsFor(r, "more")
    <3>1. shown' = shown
      BY <2>3 DEF Page!Fail
    <3>2. ShownSound'
      BY <1>1, <3>1 DEF ListInv, ShownSound
    <3>3. LoadsAwaited'
      BY <1>1, <1>2, <2>3, <3>1 DEF ListInv, LoadsAwaited
    <3> QED
      BY <3>2, <3>3
  <2> QED
    BY <2>1, <2>2, <2>3
<1> QED
  BY <1>1, <1>2, <1>3, <1>4, ArmKeeps DEF ListInv

LEMMA GrowOldKeeps ==
    ASSUME ListInv, Page!GrowOld PROVE ListInv'
<1>1. /\ UNCHANGED <<asked, shown, fetches, waits, armed, changed>>
      /\ pageCache' = [k \in Page!Kept |-> [pageCache[k] EXCEPT !.age = IF @ < 2 THEN @ + 1 ELSE @]]
  BY DEF Page!GrowOld
<1>2. ASSUME NEW k, k \in DOMAIN pageCache' PROVE EntrySound(k, pageCache[k])'
  <2>1. PICK old : old = pageCache[k]
    OBVIOUS
  <2>2. EntrySound(k, old) /\ old \in ListEntries
    BY <1>1, <1>2, <2>1 DEF ListInv, PagesSound, EntrySound, Page!Kept
  <2>3. PICK age \in 0 .. 2 : age = IF old.age < 2 THEN old.age + 1 ELSE old.age
    BY <2>2 DEF ListEntries
  <2>4. PICK e : e = [old EXCEPT !.age = age]
    OBVIOUS
  <2>5. pageCache'[k] = e
    BY <1>1, <1>2, <2>1, <2>3, <2>4 DEF Page!Kept
  <2>6. e \in ListEntries /\ e.value = old.value /\ e.promise = old.promise
    BY <2>2, <2>3, <2>4 DEF ListEntries
  <2>7. EntrySound(k, e)'
    BY <1>1, <2>2, <2>6 DEF EntrySound
  <2> QED
    BY <2>5, <2>7 DEF EntrySound
<1>3. PagesSound'
  BY <1>1, <1>2 DEF ListInv, PagesSound, Page!Kept
<1>4. FetchesSound' /\ AwaitedAre(asked, waits)' /\ ShownSound' /\ LoadsAwaited'
  BY <1>1 DEF ListInv, FetchesSound, AwaitedAre, ShownSound, LoadsAwaited, IsAwaited, Page!WaitsFor
<1> QED
  BY <1>1, <1>3, <1>4 DEF ListInv

LEMMA PublishKeeps ==
    ASSUME ListInv, Page!Publish PROVE ListInv'
<1>1. UNCHANGED <<asked, shown, pageCache, fetches, waits, armed>> /\ changed' = TRUE
  BY DEF Page!Publish
<1>2. \A offset : Offered(offset, changed')
  BY <1>1 DEF Offered
<1>3. FetchesSound'
  BY <1>1, <1>2 DEF ListInv, FetchesSound
<1>4. ASSUME NEW k, k \in DOMAIN pageCache' PROVE EntrySound(k, pageCache[k])'
  <2>1. PICK same : same = pageCache[k]
    OBVIOUS
  <2>2. pageCache'[k] = same /\ EntrySound(k, same)
    BY <1>1, <1>4, <2>1 DEF ListInv, PagesSound
  <2>3. EntrySound(k, same)'
    BY <1>1, <2>2 DEF EntrySound
  <2> QED
    BY <2>2, <2>3 DEF EntrySound
<1>5. PagesSound'
  BY <1>1, <1>4 DEF ListInv, PagesSound
<1>6. ShownSound'
  BY <1>1, <1>2 DEF ListInv, ShownSound
<1>7. AwaitedAre(asked, waits)' /\ LoadsAwaited'
  BY <1>1 DEF ListInv, AwaitedAre, LoadsAwaited, IsAwaited, Page!WaitsFor
<1> QED
  BY <1>1, <1>3, <1>5, <1>6, <1>7 DEF ListInv

LEMMA ListStep == ListInv /\ [Page!Next]_(Page!vars) => ListInv'
<1> SUFFICES ASSUME ListInv, [Page!Next]_(Page!vars) PROVE ListInv'
  OBVIOUS
<1>1. CASE Page!LoadMore
  BY <1>1, LoadMoreKeeps
<1>2. CASE Page!Prefetch
  BY <1>2, PrefetchKeeps
<1>3. CASE \E r \in fetches : Page!Succeed(r)
  BY <1>3, SucceedKeeps
<1>4. CASE Page!GrowOld
  BY <1>4, GrowOldKeeps
<1>5. CASE Page!Publish
  BY <1>5, PublishKeeps
<1>6. CASE \E f \in Filters : Page!Ask(f)
  BY <1>6, AskKeeps
<1>7. CASE \E r \in fetches : Page!Fail(r)
  BY <1>7, FailKeeps
<1>8. CASE UNCHANGED Page!vars
  <2>1. UNCHANGED <<asked, shown, pageCache, fetches, waits, armed, changed>>
    BY <1>8 DEF Page!vars
  <2>2. FetchesSound' /\ PagesSound'
    BY <2>1 DEF ListInv, FetchesSound, PagesSound, EntrySound
  <2>3. AwaitedAre(asked, waits)' /\ ShownSound' /\ LoadsAwaited'
    BY <2>1 DEF ListInv, AwaitedAre, ShownSound, LoadsAwaited, IsAwaited, Page!WaitsFor
  <2> QED
    BY <2>1, <2>2, <2>3 DEF ListInv
<1> QED
  BY <1>1, <1>2, <1>3, <1>4, <1>5, <1>6, <1>7, <1>8 DEF Page!Next, Page!Serve, Page!Disturb

LEMMA ListInvSuffices == ListInv => Page!ListIsOfTheFilters /\ Page!NobodyWaitsForNothing
<1> SUFFICES ASSUME ListInv PROVE Page!ListIsOfTheFilters /\ Page!NobodyWaitsForNothing
  OBVIOUS
<1>1. shown.data \in Seq(ListMarkets) /\ DOMAIN shown.data = 1 .. Len(shown.data)
  BY DEF ListInv, ShownSound, ListRows
<1>2. Page!IsInjective(shown.data)
  BY <1>1 DEF ListInv, ShownSound, Distinct, Page!IsInjective
<1>3. Page!ListIsOfTheFilters
  BY <1>1, <1>2 DEF ListInv, ShownSound, Page!ListIsOfTheFilters, Page!Contains
<1>4. Page!NobodyWaitsForNothing
  <2>1. asked # None /\ shown.status = "loading" => \E r \in fetches : Page!WaitsFor(r, "first")
    BY DEF ListInv, LoadsAwaited, IsAwaited
  <2>2. shown.more => \E r \in fetches : Page!WaitsFor(r, "more")
    BY DEF ListInv, LoadsAwaited, IsAwaited
  <2>3. \A k \in Page!Kept : pageCache[k].promise # None =>
           [id |-> pageCache[k].promise, key |-> k] \in fetches
    BY DEF ListInv, PagesSound, EntrySound, Page!Kept
  <2> QED
    BY <2>1, <2>2, <2>3 DEF Page!NobodyWaitsForNothing
<1> QED
  BY <1>3, <1>4

-----------------------------------------------------------------------------
(* The filters in the URL.  A page never has a category and a topic at     *)
(* once, so the path says which it has; and every parameter is the only    *)
(* one of its name.                                                        *)

\* A text of a user, or the one a URL was typed with.
SearchTexts == [word : Words \cup {Page!Empty, "1"}, padded : BOOLEAN]

FilterRows ==
    [search : SearchTexts, category : Categories \cup {Page!Empty}, topic : Topics \cup {"all"},
     sort : Page!Sorts, status : Page!Statuses, volume : SearchTexts,
     closing : Dates \cup {None}]

\* What a page can have: a category and a topic are never chosen together.
Choosable(f) == f \in FilterRows /\ (f.category = Page!Empty \/ f.topic = "all")

LEMMA FilterConstants ==
    /\ Page!Empty \notin Categories /\ "all" \notin Topics /\ None \notin Dates
    /\ Dates # {} /\ Page!Empty \notin Words
BY DEF Page!WebMarketsAssumption

LEMMA DefaultChoosable == Choosable(Page!Default) /\ Choosable(DatedFilters)
<1>1. PICK d \in Dates : d = CHOOSE e \in Dates : TRUE
  BY FilterConstants
<1>2. Choosable(Page!Default)
  BY DEF Choosable, FilterRows, SearchTexts, Page!Default, Page!Blank, Page!Text,
         Page!Sorts, Page!Statuses
<1>3. Choosable(DatedFilters)
  BY <1>1, <1>2 DEF Choosable, FilterRows, SearchTexts, DatedFilters, Page!Default, Page!Text
<1> QED
  BY <1>2, <1>3

Patches == Page!PrimaryNav \cup Page!TopicTabs \cup Page!UpdateFilter

\* What a patch sets of a page's filters.
PatchSound(p) ==
    /\ DOMAIN p \subseteq {"search", "category", "topic", "sort", "status"}
    /\ Page!Has(p, "search") => p["search"] \in SearchTexts
    /\ Page!Has(p, "category") => p["category"] \in Categories \cup {Page!Empty}
    /\ Page!Has(p, "topic") => p["topic"] \in Topics \cup {"all"}
    /\ Page!Has(p, "sort") => p["sort"] \in Page!Sorts
    /\ Page!Has(p, "status") => p["status"] \in Page!Statuses
    /\ Page!Has(p, "topic") =>
           Page!Has(p, "category") /\ (p["category"] = Page!Empty \/ p["topic"] = "all")

LEMMA PatchesSound == ASSUME NEW p \in Patches PROVE PatchSound(p)
<1> USE DEF PatchSound, Page!Has, SearchTexts, Page!Text, Page!Blank, Page!Plain,
            Page!Typed, Page!Sorts, Page!Statuses
<1>1. CASE p \in Page!PrimaryNav
  <2>1. CASE p \in [category : Categories \cup {Page!Empty}, topic : {"all"}, sort : Page!Sorts]
    <3>1. DOMAIN p = {"category", "topic", "sort"} /\ p.category \in Categories \cup {Page!Empty}
          /\ p.topic = "all" /\ p.sort \in Page!Sorts
      BY <2>1
    <3> QED
      BY <3>1
  <2>2. CASE p \in [category : {Page!Empty}, topic : Topics, sort : {"trending"}]
    <3>1. DOMAIN p = {"category", "topic", "sort"} /\ p.category = Page!Empty
          /\ p.topic \in Topics /\ p.sort = "trending"
      BY <2>2
    <3> QED
      BY <3>1
  <2>3. CASE p \in [category : Categories, topic : {"all"}, sort : {"trending"},
                    search : Page!Plain(Words)]
    <3>1. DOMAIN p = {"category", "topic", "sort", "search"} /\ p.category \in Categories
          /\ p.topic = "all" /\ p.sort = "trending" /\ p.search \in Page!Plain(Words)
      BY <2>3
    <3> QED
      BY <3>1
  <2> QED
    BY <1>1, <2>1, <2>2, <2>3 DEF Page!PrimaryNav
<1>2. CASE p \in Page!TopicTabs
  <2>1. CASE p \in [category : Categories \cup {Page!Empty}, topic : {"all"},
                    search : Page!Plain(Words \cup {Page!Empty})]
    <3>1. DOMAIN p = {"category", "topic", "search"} /\ p.category \in Categories \cup {Page!Empty}
          /\ p.topic = "all" /\ p.search \in SearchTexts
      BY <2>1
    <3> QED
      BY <3>1
  <2>2. CASE p \in [category : {Page!Empty}, topic : Topics, search : {Page!Blank},
                    status : {"all"}]
    <3>1. DOMAIN p = {"category", "topic", "search", "status"} /\ p.category = Page!Empty
          /\ p.topic \in Topics /\ p.search = Page!Blank /\ p.status = "all"
      BY <2>2
    <3>2. Page!Blank \in SearchTexts
      OBVIOUS
    <3> HIDE DEF SearchTexts, Page!Blank
    <3> QED
      BY <3>1, <3>2
  <2> QED
    BY <1>2, <2>1, <2>2 DEF Page!TopicTabs
<1>3. CASE p \in Page!UpdateFilter
  BY <1>3 DEF Page!UpdateFilter
<1> QED
  BY <1>1, <1>2, <1>3 DEF Patches

LEMMA MergedChoosable ==
    ASSUME NEW f, Choosable(f), NEW p \in Patches
    PROVE  Choosable(Page!MergeDiscoveryFilters(f, p))
<1>1. PatchSound(p)
  BY PatchesSound
<1>2. PICK g : g = Page!MergeDiscoveryFilters(f, p)
  OBVIOUS
<1>3. DOMAIN f = {"search", "category", "topic", "sort", "status", "volume", "closing"}
  BY DEF Choosable, FilterRows
<1>4. /\ g = [search |-> g.search, category |-> g.category, topic |-> g.topic, sort |-> g.sort,
              status |-> g.status, volume |-> g.volume, closing |-> g.closing]
  BY <1>2, <1>3 DEF Page!MergeDiscoveryFilters
<1>5. /\ g.search = IF Page!Has(p, "search") THEN p["search"] ELSE f.search
      /\ g.category = IF Page!Has(p, "category") THEN p["category"] ELSE f.category
      /\ g.topic = Page!TopicOf(f, p)
      /\ g.sort = IF Page!Has(p, "sort") THEN p["sort"] ELSE f.sort
      /\ g.status = IF Page!Has(p, "status") THEN p["status"] ELSE f.status
      /\ g.volume = f.volume /\ g.closing = f.closing
  <2>1. \A n \in DOMAIN f \ {"topic"} : g[n] = IF Page!Has(p, n) THEN p[n] ELSE f[n]
    BY <1>2 DEF Page!MergeDiscoveryFilters
  <2>2. ~Page!Has(p, "volume") /\ ~Page!Has(p, "closing")
    BY <1>1 DEF PatchSound, Page!Has
  <2>3. g["topic"] = Page!TopicOf(f, p)
    BY <1>2, <1>3 DEF Page!MergeDiscoveryFilters
  <2> QED
    BY <1>3, <2>1, <2>2, <2>3
<1>6. g.topic \in Topics \cup {"all"} /\ (g.category = Page!Empty \/ g.topic = "all")
  BY <1>1, <1>5 DEF PatchSound, Page!TopicOf, Choosable, FilterRows
<1>7. /\ g.search \in SearchTexts /\ g.category \in Categories \cup {Page!Empty}
      /\ g.sort \in Page!Sorts
      /\ g.status \in Page!Statuses /\ g.volume \in SearchTexts /\ g.closing \in Dates \cup {None}
  BY <1>1, <1>5 DEF PatchSound, Choosable, FilterRows
<1>8. g \in FilterRows
  BY <1>4, <1>6, <1>7 DEF FilterRows
<1> QED
  BY <1>2, <1>6, <1>8 DEF Choosable


\* A parameter that is the only one of its name is read, and otherwise the default.
LEMMA ReadFinds ==
    ASSUME NEW url, NEW name, NEW default, NEW value,
           \A p \in url.params : p[1] = name => p[2] = value,
           value = default \/ \E p \in url.params : p[1] = name
    PROVE  Page!Read(url, name, default) = value
BY DEF Page!Read

LEMMA ReadFindsNone ==
    ASSUME NEW url, NEW name, NEW default, \A p \in url.params : p[1] # name
    PROVE  Page!Read(url, name, default) = default
BY DEF Page!Read

\* What the URL says of each filter.
LEMMA SearchHas ==
    ASSUME NEW f, NEW p
    PROVE  p \in Page!GetDiscoverySearch(f) <=>
              \/ p = <<"search", Page!Trim(f.search)>> /\ Page!Trim(f.search) # Page!Blank
              \/ p = <<"sort", f.sort>> /\ f.sort # Page!Default.sort
              \/ p = <<"status", f.status>> /\ f.status # Page!Default.status
              \/ p = <<"volume", Page!Trim(f.volume)>> /\ Page!Trim(f.volume) # Page!Blank
              \/ p = <<"closing", f.closing>> /\ f.closing # None
BY DEF Page!GetDiscoverySearch, Page!SetIf, Page!Param

LEMMA TrimmedIs ==
    ASSUME NEW f, Choosable(f)
    PROVE  Page!Trimmed(f) =
              [search |-> Page!Trim(f.search), category |-> f.category, topic |-> f.topic,
               sort |-> f.sort, status |-> f.status, volume |-> Page!Trim(f.volume),
               closing |-> f.closing]
<1>1. PICK search, volume : search = Page!Trim(f.search) /\ volume = Page!Trim(f.volume)
  OBVIOUS
<1>2. PICK new : new = Page!Trimmed(f)
  OBVIOUS
<1>3. new = [search |-> new.search, category |-> new.category, topic |-> new.topic,
             sort |-> new.sort, status |-> new.status, volume |-> new.volume, closing |-> new.closing]
  BY <1>2 DEF Page!Trimmed, Choosable, FilterRows
<1>4. /\ new.search = search /\ new.category = f.category /\ new.topic = f.topic
      /\ new.sort = f.sort /\ new.status = f.status /\ new.volume = volume
      /\ new.closing = f.closing
  BY <1>1, <1>2 DEF Page!Trimmed, Choosable, FilterRows
<1> QED
  BY <1>1, <1>2, <1>3, <1>4

LEMMA TrimmedTwice ==
    ASSUME NEW f, Choosable(f)
    PROVE  /\ Choosable(Page!Trimmed(f))
           /\ Page!Trimmed(Page!Trimmed(f)) = Page!Trimmed(f)
<1>1. PICK search, volume : search = Page!Trim(f.search) /\ volume = Page!Trim(f.volume)
  OBVIOUS
<1>2. /\ search \in SearchTexts /\ volume \in SearchTexts
      /\ Page!Trim(search) = search /\ Page!Trim(volume) = volume
  BY <1>1 DEF Choosable, FilterRows, SearchTexts, Page!Trim, Page!Text
<1>3. PICK new : new = Page!Trimmed(f)
  OBVIOUS
<1>4. new = [search |-> search, category |-> f.category, topic |-> f.topic, sort |-> f.sort,
             status |-> f.status, volume |-> volume, closing |-> f.closing]
  BY <1>1, <1>3, TrimmedIs
<1>5. Choosable(new)
  BY <1>2, <1>4 DEF Choosable, FilterRows
<1>6. Page!Trimmed(new) = new
  BY <1>2, <1>4, <1>5, TrimmedIs
<1> QED
  BY <1>3, <1>5, <1>6

\* GetFiltersFromUrl and GetDiscoveryUrl (discovery.ts): any filters that a page can
\* have are read back from the URL they are written to, but for blanks around texts.
THEOREM AnyUrlKeepsFilters ==
    ASSUME NEW f, Choosable(f)
    PROVE  Page!GetFiltersFromUrl(Page!GetDiscoveryUrl(f)) = Page!Trimmed(f)
<1>1. PICK url : url = Page!GetDiscoveryUrl(f)
  OBVIOUS
<1>2. url.path = Page!GetDiscoveryPath(f) /\ url.params = Page!GetDiscoverySearch(f)
  BY <1>1 DEF Page!GetDiscoveryUrl
<1>3. PICK search, volume : search = Page!Trim(f.search) /\ volume = Page!Trim(f.volume)
  OBVIOUS
<1>4. \A p : p \in url.params <=>
         \/ p = <<"search", search>> /\ search # Page!Blank
         \/ p = <<"sort", f.sort>> /\ f.sort # "trending"
         \/ p = <<"status", f.status>> /\ f.status # "live"
         \/ p = <<"volume", volume>> /\ volume # Page!Blank
         \/ p = <<"closing", f.closing>> /\ f.closing # None
  BY <1>2, <1>3, SearchHas DEF Page!Default
<1>5. /\ Page!Read(url, "search", Page!Blank) = search
      /\ Page!Read(url, "sort", "trending") = f.sort
      /\ Page!Read(url, "status", "live") = f.status
      /\ Page!Read(url, "volume", Page!Blank) = volume
      /\ Page!Read(url, "closing", None) = f.closing
      /\ Page!Read(url, "category", Page!Empty) = Page!Empty
      /\ Page!Read(url, "topic", "all") = "all"
  <2>1. Page!Read(url, "search", Page!Blank) = search
    <3>1. \A p \in url.params : p[1] = "search" => p[2] = search
      BY <1>4
    <3>2. search = Page!Blank \/ \E p \in url.params : p[1] = "search"
      <4>1. search # Page!Blank => <<"search", search>> \in url.params
        BY <1>4
      <4>2. <<"search", search>>[1] = "search"
        OBVIOUS
      <4> QED
        BY <4>1, <4>2
    <3> QED
      BY <3>1, <3>2 DEF Page!Read
  <2>2. Page!Read(url, "sort", "trending") = f.sort
    <3>1. \A p \in url.params : p[1] = "sort" => p[2] = f.sort
      BY <1>4
    <3>2. f.sort = "trending" \/ \E p \in url.params : p[1] = "sort"
      <4>1. f.sort # "trending" => <<"sort", f.sort>> \in url.params
        BY <1>4
      <4>2. <<"sort", f.sort>>[1] = "sort"
        OBVIOUS
      <4> QED
        BY <4>1, <4>2
    <3> QED
      BY <3>1, <3>2 DEF Page!Read
  <2>3. Page!Read(url, "status", "live") = f.status
    <3>1. \A p \in url.params : p[1] = "status" => p[2] = f.status
      BY <1>4
    <3>2. f.status = "live" \/ \E p \in url.params : p[1] = "status"
      <4>1. f.status # "live" => <<"status", f.status>> \in url.params
        BY <1>4
      <4>2. <<"status", f.status>>[1] = "status"
        OBVIOUS
      <4> QED
        BY <4>1, <4>2
    <3> QED
      BY <3>1, <3>2 DEF Page!Read
  <2>4. Page!Read(url, "volume", Page!Blank) = volume
    <3>1. \A p \in url.params : p[1] = "volume" => p[2] = volume
      BY <1>4
    <3>2. volume = Page!Blank \/ \E p \in url.params : p[1] = "volume"
      <4>1. volume # Page!Blank => <<"volume", volume>> \in url.params
        BY <1>4
      <4>2. <<"volume", volume>>[1] = "volume"
        OBVIOUS
      <4> QED
        BY <4>1, <4>2
    <3> QED
      BY <3>1, <3>2 DEF Page!Read
  <2>5. Page!Read(url, "closing", None) = f.closing
    <3>1. \A p \in url.params : p[1] = "closing" => p[2] = f.closing
      BY <1>4
    <3>2. f.closing = None \/ \E p \in url.params : p[1] = "closing"
      <4>1. f.closing # None => <<"closing", f.closing>> \in url.params
        BY <1>4
      <4>2. <<"closing", f.closing>>[1] = "closing"
        OBVIOUS
      <4> QED
        BY <4>1, <4>2
    <3> QED
      BY <3>1, <3>2 DEF Page!Read
  <2>6. \A p \in url.params : p[1] # "category" /\ p[1] # "topic"
    BY <1>4
  <2> QED
    BY <2>1, <2>2, <2>3, <2>4, <2>5, <2>6, ReadFindsNone
<1>6. PICK got : got = Page!GetFiltersFromUrl(url)
  OBVIOUS
<1>7. got.category = f.category /\ got.topic = f.topic
  <2>1. CASE f.category # Page!Empty
    <3>1. url.path = <<"category", f.category>> /\ f.topic = "all"
      BY <1>2, <2>1 DEF Page!GetDiscoveryPath, Choosable
    <3> QED
      BY <1>5, <1>6, <3>1 DEF Page!GetFiltersFromUrl, Page!Default
  <2>2. CASE f.category = Page!Empty /\ f.topic # "all"
    <3>1. url.path = <<"topic", f.topic>>
      BY <1>2, <2>2 DEF Page!GetDiscoveryPath
    <3> QED
      BY <1>5, <1>6, <2>2, <3>1 DEF Page!GetFiltersFromUrl, Page!Default
  <2>3. CASE f.category = Page!Empty /\ f.topic = "all"
    <3>1. url.path = <<"markets">>
      BY <1>2, <2>3 DEF Page!GetDiscoveryPath
    <3> QED
      BY <1>5, <1>6, <2>3, <3>1 DEF Page!GetFiltersFromUrl, Page!Default
  <2> QED
    BY <2>1, <2>2, <2>3
<1>8. got = [search |-> search, category |-> f.category, topic |-> f.topic, sort |-> f.sort,
             status |-> f.status, volume |-> volume, closing |-> f.closing]
  <2>1. got = [search |-> got.search, category |-> got.category, topic |-> got.topic, sort |-> got.sort,
               status |-> got.status, volume |-> got.volume, closing |-> got.closing]
    BY <1>6 DEF Page!GetFiltersFromUrl
  <2>2. /\ got.search = search /\ got.sort = f.sort /\ got.status = f.status
        /\ got.volume = volume /\ got.closing = f.closing
    BY <1>5, <1>6 DEF Page!GetFiltersFromUrl, Page!Default
  <2> QED
    BY <1>7, <2>1, <2>2
<1>9. Page!Trimmed(f) = [search |-> search, category |-> f.category, topic |-> f.topic,
                              sort |-> f.sort, status |-> f.status, volume |-> volume,
                              closing |-> f.closing]
  BY <1>3, TrimmedIs
<1> QED
  BY <1>1, <1>6, <1>8, <1>9

LEMMA ChosenKeepsFilters == ASSUME Choosable(chosen) PROVE Page!UrlKeepsFilters(chosen)
BY DefaultChoosable, MergedChoosable, AnyUrlKeepsFilters DEF Page!UrlKeepsFilters, Patches


\* What the request says of each filter, the two that tell of the status left out.
RequestSearch(f) ==
    IF Page!Trim(f.search) # Page!Blank THEN Page!Trim(f.search)
    ELSE IF f.topic = "social" THEN Page!Text("during", FALSE) ELSE Page!Blank
RequestCategory(f) ==
    IF f.category # Page!Empty THEN f.category ELSE Page!GetBackendCategory(f.topic)
RequestTopic(f) == IF f.topic = "social" THEN "all" ELSE f.topic

LEMMA SetIfNamed ==
    ASSUME NEW set, NEW name, NEW value
    PROVE  \A q \in Page!SetIf(set, name, value) : q[1] = name
BY DEF Page!SetIf, Page!Param

LEMMA RequestHas ==
    ASSUME NEW f, NEW p, p[1] \notin {"active", "closed"}
    PROVE  p \in Page!BuildMarketSearchParams(f) <=>
              \/ p = <<"sort", f.sort>>
              \/ p = <<"category", RequestCategory(f)>> /\ RequestCategory(f) # Page!Empty
              \/ p = <<"search", RequestSearch(f)>> /\ RequestSearch(f) # Page!Blank
              \/ p = <<"topic", RequestTopic(f)>> /\ RequestTopic(f) # "all"
              \/ p = <<"status", f.status>> /\ f.status # "all"
              \/ p = <<"volume", Page!Trim(f.volume)>> /\ Page!Trim(f.volume) # Page!Blank
              \/ p = <<"closing", f.closing>> /\ f.closing # None
<1> DEFINE Active == Page!SetIf(f.status \in {"live", "upcoming"}, "active", TRUE)
           Closed == Page!SetIf(f.status \in {"live", "upcoming", "closed"}, "closed",
                                     f.status = "closed")
<1>1. Page!BuildMarketSearchParams(f) =
         UNION {{Page!Param("sort", f.sort)},
                Page!SetIf(RequestCategory(f) # Page!Empty, "category", RequestCategory(f)),
                Page!SetIf(RequestSearch(f) # Page!Blank, "search", RequestSearch(f)),
                Page!SetIf(RequestTopic(f) # "all", "topic", RequestTopic(f)),
                Page!SetIf(f.status # "all", "status", f.status),
                Active, Closed,
                Page!SetIf(Page!Trim(f.volume) # Page!Blank, "volume",
                                Page!Trim(f.volume)),
                Page!SetIf(f.closing # None, "closing", f.closing)}
  BY Zenon DEF Page!BuildMarketSearchParams, RequestSearch, RequestCategory, RequestTopic
<1>2. (\A q \in Active : q[1] = "active") /\ (\A q \in Closed : q[1] = "closed")
  BY SetIfNamed, Zenon
<1> HIDE DEF Active, Closed
<1> QED
  BY <1>1, <1>2 DEF Page!SetIf, Page!Param

\* Whether a request tells name with the value: unless it is the default, which is left out.
Tells(params, name, value, default) ==
    \A v : <<name, v>> \in params <=> v = value /\ v # default

LEMMA TellsOne ==
    ASSUME NEW params, NEW name, NEW default, NEW v, Tells(params, name, v, default),
           NEW w, Tells(params, name, w, default)
    PROVE  v = w
<1>1. <<name, v>> \in params <=> v # default
  BY DEF Tells
<1>2. <<name, w>> \in params <=> w # default
  BY DEF Tells
<1>3. <<name, v>> \in params => v = w
  BY DEF Tells
<1>4. <<name, w>> \in params => w = v
  BY DEF Tells
<1> QED
  BY <1>1, <1>2, <1>3, <1>4

LEMMA RequestTells ==
    ASSUME NEW f
    PROVE  LET params == Page!BuildMarketSearchParams(f) IN
           /\ \A v : <<"sort", v>> \in params <=> v = f.sort
           /\ Tells(params, "category", RequestCategory(f), Page!Empty)
           /\ Tells(params, "search", RequestSearch(f), Page!Blank)
           /\ Tells(params, "topic", RequestTopic(f), "all")
           /\ Tells(params, "status", f.status, "all")
           /\ Tells(params, "volume", Page!Trim(f.volume), Page!Blank)
           /\ Tells(params, "closing", f.closing, None)
<1>1. PICK params : params = Page!BuildMarketSearchParams(f)
  OBVIOUS
<1>2. PICK search, category, topic, volume :
         /\ search = RequestSearch(f) /\ category = RequestCategory(f) /\ topic = RequestTopic(f)
         /\ volume = Page!Trim(f.volume)
  OBVIOUS
<1>3. \A p : p[1] \notin {"active", "closed"} =>
         (p \in params <=>
              \/ p = <<"sort", f.sort>>
              \/ p = <<"category", category>> /\ category # Page!Empty
              \/ p = <<"search", search>> /\ search # Page!Blank
              \/ p = <<"topic", topic>> /\ topic # "all"
              \/ p = <<"status", f.status>> /\ f.status # "all"
              \/ p = <<"volume", volume>> /\ volume # Page!Blank
              \/ p = <<"closing", f.closing>> /\ f.closing # None)
  BY <1>1, <1>2, RequestHas
<1>4. /\ \A v : <<"sort", v>> \in params <=> v = f.sort
      /\ Tells(params, "category", category, Page!Empty)
      /\ Tells(params, "search", search, Page!Blank)
      /\ Tells(params, "topic", topic, "all")
      /\ Tells(params, "status", f.status, "all")
      /\ Tells(params, "volume", volume, Page!Blank)
      /\ Tells(params, "closing", f.closing, None)
  <2> SUFFICES ASSUME NEW v
               PROVE  /\ <<"sort", v>> \in params <=> v = f.sort
                      /\ <<"category", v>> \in params <=> v = category /\ v # Page!Empty
                      /\ <<"search", v>> \in params <=> v = search /\ v # Page!Blank
                      /\ <<"topic", v>> \in params <=> v = topic /\ v # "all"
                      /\ <<"status", v>> \in params <=> v = f.status /\ v # "all"
                      /\ <<"volume", v>> \in params <=> v = volume /\ v # Page!Blank
                      /\ <<"closing", v>> \in params <=> v = f.closing /\ v # None
    BY DEF Tells
  <2>1. \A name \in {"sort", "category", "search", "topic", "status", "volume", "closing"} :
            <<name, v>>[1] = name /\ name \notin {"active", "closed"}
    OBVIOUS
  <2> QED
    BY <1>3, <2>1
<1> QED
  BY <1>1, <1>2, <1>4

\* BuildMarketSearchParams (buildMarketSearchParams): two pages with one request, and
\* so with one entry of the cache of pages, have the same filters.
THEOREM OneRequestOneList ==
    ASSUME NEW f, Choosable(f), f.topic # "social", NEW g, Choosable(g), g.topic # "social",
           Page!BuildMarketSearchParams(f) = Page!BuildMarketSearchParams(g)
    PROVE  Page!Trimmed(f) = Page!Trimmed(g)
<1>1. PICK params : /\ params = Page!BuildMarketSearchParams(f)
                    /\ params = Page!BuildMarketSearchParams(g)
  OBVIOUS
<1>2. f.sort = g.sort
  BY <1>1, RequestTells
<1>3. /\ RequestCategory(f) = RequestCategory(g) /\ RequestSearch(f) = RequestSearch(g)
      /\ RequestTopic(f) = RequestTopic(g) /\ f.status = g.status
      /\ Page!Trim(f.volume) = Page!Trim(g.volume) /\ f.closing = g.closing
  BY <1>1, RequestTells, TellsOne
<1>4. f.topic = g.topic
  BY <1>3 DEF RequestTopic
<1>5. f.category = g.category
  <2>1. CASE f.topic = "all"
    <3>1. Page!GetBackendCategory("all") = Page!Empty
      BY DEF Page!GetBackendCategory
    <3> QED
      BY <1>3, <1>4, <2>1, <3>1 DEF RequestCategory
  <2>2. CASE f.topic # "all"
    BY <1>4, <2>2 DEF Choosable
  <2> QED
    BY <2>1, <2>2
<1>6. Page!Trim(f.search) = Page!Trim(g.search)
  BY <1>3 DEF RequestSearch
<1> QED
  BY <1>2, <1>3, <1>4, <1>5, <1>6, TrimmedIs

LEMMA KeysTellChosen == ASSUME Choosable(chosen) PROVE Page!KeysTellListsApart(chosen)
<1> SUFFICES ASSUME NEW p \in Patches
             PROVE  LET other == Page!Trimmed(Page!MergeDiscoveryFilters(chosen, p)) IN
                    Page!BuildMarketSearchParams(other) = Page!BuildMarketSearchParams(chosen) =>
                        other = Page!Trimmed(chosen) \/ "social" \in {other.topic, chosen.topic}
  BY DEF Page!KeysTellListsApart, Patches
<1>1. PICK merged : merged = Page!MergeDiscoveryFilters(chosen, p)
  OBVIOUS
<1>2. PICK other : other = Page!Trimmed(merged)
  OBVIOUS
<1>3. Choosable(merged) /\ Choosable(other)
  BY <1>1, <1>2, MergedChoosable, TrimmedTwice
<1>4. Page!Trimmed(other) = other
  BY <1>2, <1>3, TrimmedTwice
<1> QED
  BY <1>1, <1>2, <1>3, <1>4, OneRequestOneList

\* A page goes from one choice to the next, and the URL it goes to is read again.
LEMMA ChosenStep == Choosable(chosen) /\ [Next]_vars => Choosable(chosen)'
<1> SUFFICES ASSUME Choosable(chosen), [Next]_vars PROVE Choosable(chosen)'
  OBVIOUS
<1>1. Navigate \/ chosen' = chosen
  BY DEF Next, vars, client, webLists, RunAccounts, RunCompliance, RunLimit, RunMoney, RunWallet,
         RunTrading, RunStore, RunCache, RunRates, RunEvents, Change, RunHttp, RunAccount,
         RunTicket, RunList
<1>2. CASE Navigate
  <2>1. PICK p \in Patches, from \in {chosen, Page!Default} :
           chosen' = Page!GetFiltersFromUrl(
                         Page!GetDiscoveryUrl(Page!MergeDiscoveryFilters(from, p)))
    BY <1>2 DEF Navigate, Patches
  <2>2. PICK merged : merged = Page!MergeDiscoveryFilters(from, p)
    OBVIOUS
  <2>3. Choosable(merged)
    BY <2>2, MergedChoosable, DefaultChoosable
  <2>4. chosen' = Page!Trimmed(merged)
    BY <2>1, <2>2, <2>3, AnyUrlKeepsFilters
  <2>5. Choosable(Page!Trimmed(merged))
    BY <2>3, TrimmedTwice
  <2> QED
    BY <2>4, <2>5
<1>3. CASE chosen' = chosen
  BY <1>3
<1> QED
  BY <1>1, <1>2, <1>3

\* ListIsAsAsked: whatever answers late, fails or is loaded again, a list shows
\* markets of the filters that are asked for and each of them once, what says it
\* loads is waited for, and a URL keeps the filters it is made of.
THEOREM ListsAlwaysAsAsked == Spec => []ListIsAsAsked
<1>1. Page!Init => ListInv
  BY ListInit
<1>2. Init => Choosable(chosen)
  BY DefaultChoosable DEF Init
<1>3. ListInv /\ Choosable(chosen) => ListIsAsAsked
  BY ListInvSuffices, ChosenKeepsFilters, KeysTellChosen DEF ListIsAsAsked
<1> QED
  BY <1>1, <1>2, <1>3, ListStep, ChosenStep, EveryPageRuns, PTL DEF Spec

-----------------------------------------------------------------------------
(* The routes.  What a route promises rests on the order of its steps:     *)
(* nothing is told before the change it tells of, and after the change     *)
(* nothing but a conflict, which is on record, can refuse the request.  An *)
(* order is filled, or given up, right after its reserve; nothing looks    *)
(* whether there is something to change once something was changed; and    *)
(* what was cleared is seeded again.                                       *)

Tellings == {"event", "announce"}
Trailing == Tellings \cup {"list", "fresh", "agree"}
Orderly(steps) ==
    \A i, j \in 1 .. Len(steps) :
        /\ steps[i] \in Http!Effects /\ i < j => steps[j] \in Trailing
        /\ steps[i] \in Tellings /\ steps[j] \in Http!Effects => j < i
        /\ steps[i] = "reserve" => i < Len(steps) /\ steps[i + 1] = "fill"
        /\ steps[j] = "unless" /\ i < j => steps[i] \notin {"clear", "reserve"}
        /\ steps[i] = "clear" => \E k \in 1 .. Len(steps) : i < k /\ steps[k] = "change"

Hooks == {"token", "session", "user", "admin"}
Kinds == Hooks \cup Tellings \cup {"open", "eligible", "valid", "look", "list", "price", "give",
                                 "unless", "clear", "change", "reserve", "fill", "agree",
                                 "fresh", "retired"}

Whole(steps) == steps \in Seq(Kinds) /\ Orderly(steps)
HasStep(steps, kind) == \E i \in 1 .. Len(steps) : steps[i] = kind

\* What a route does: it tells, it makes a change, or it never tells of finding none.
Recording(steps) == Whole(steps) /\ HasStep(steps, "event")
Makes(steps) == Whole(steps) /\ (HasStep(steps, "change") \/ HasStep(steps, "fill"))
Quiet(steps) ==
    \/ ~HasStep(steps, "unless")
    \/ ~HasStep(steps, "event") /\ ~HasStep(steps, "announce")
ChangesQuietly(steps) == Makes(steps) /\ Quiet(steps)
ChangesAndTells(steps) == Makes(steps) /\ Recording(steps)

\* The hooks before a route's own steps change nothing of this.
LEMMA HooksComeFirst ==
    ASSUME NEW hooks \in Seq(Hooks), NEW steps, Whole(steps)
    PROVE  /\ Whole(hooks \o steps)
           /\ Recording(steps) => Recording(hooks \o steps)
           /\ ChangesQuietly(steps) => ChangesQuietly(hooks \o steps)
           /\ ChangesAndTells(steps) => ChangesAndTells(hooks \o steps)
<1>1. PICK all : all = hooks \o steps
  OBVIOUS
<1>2. PICK n \in Nat : n = Len(hooks)
  OBVIOUS
<1>3. PICK m \in Nat : m = Len(steps)
  BY DEF Whole
<1>4. /\ Len(all) = n + m
      /\ \A i \in 1 .. n + m : all[i] = IF i <= n THEN hooks[i] ELSE steps[i - n]
  BY <1>1, <1>2, <1>3 DEF Whole
<1>5. all \in Seq(Kinds)
  <2>1. Hooks \subseteq Kinds
    BY DEF Hooks, Kinds
  <2>2. hooks \in Seq(Kinds)
    BY <2>1, SeqMonotonic
  <2>3. steps \in Seq(Kinds)
    BY DEF Whole
  <2> QED
    BY <1>1, <2>2, <2>3, ConcatProperties
<1>6. \A i \in 1 .. n : all[i] \in Hooks
  <2>1. \A i \in 1 .. n : hooks[i] \in Hooks
    BY <1>2, ElementOfSeq
  <2> QED
    BY <1>4, <2>1
<1>7. \A i \in 1 .. m : n + i \in 1 .. n + m /\ all[n + i] = steps[i]
  BY <1>4
<1>8. Orderly(all)
  <2> SUFFICES ASSUME NEW i \in 1 .. n + m, NEW j \in 1 .. n + m
               PROVE  /\ all[i] \in Http!Effects /\ i < j => all[j] \in Trailing
                      /\ all[i] \in Tellings /\ all[j] \in Http!Effects => j < i
                      /\ all[i] = "reserve" => i < n + m /\ all[i + 1] = "fill"
                      /\ all[j] = "unless" /\ i < j => all[i] \notin {"clear", "reserve"}
                      /\ all[i] = "clear" => \E k \in 1 .. n + m : i < k /\ all[k] = "change"
    BY <1>4 DEF Orderly
  <2>1. CASE i <= n
    <3>1. i \in 1 .. n /\ all[i] \in Hooks
      BY <1>6, <2>1
    <3> QED
      BY <3>1 DEF Hooks, Tellings, Http!Effects
  <2>2. CASE ~(i <= n) /\ j <= n
    <3>1. PICK a \in 1 .. m : i = n + a
      BY <2>2
    <3>2. all[i] = steps[a]
      BY <1>7, <3>1
    <3>3. steps[a] = "reserve" => a < m /\ steps[a + 1] = "fill"
      BY <1>3 DEF Whole, Orderly
    <3>4. steps[a] = "clear" => \E k \in 1 .. m : a < k /\ steps[k] = "change"
      BY <1>3 DEF Whole, Orderly
    <3>5. all[i] = "reserve" => i < n + m /\ all[i + 1] = "fill"
      BY <1>7, <3>1, <3>2, <3>3
    <3>6. all[i] = "clear" => \E k \in 1 .. n + m : i < k /\ all[k] = "change"
      BY <1>7, <3>1, <3>2, <3>4
    <3>7. j < i /\ j \in 1 .. n /\ all[j] \in Hooks
      BY <1>6, <2>2
    <3>8. all[j] \notin Http!Effects
      BY <3>7 DEF Hooks, Http!Effects
    <3> QED
      BY <3>5, <3>6, <3>7, <3>8
  <2>3. CASE ~(i <= n) /\ ~(j <= n)
    <3>1. PICK a \in 1 .. m : i = n + a
      BY <2>3
    <3>2. PICK b \in 1 .. m : j = n + b
      BY <2>3
    <3>3. all[i] = steps[a] /\ all[j] = steps[b]
      BY <1>7, <3>1, <3>2
    <3>4. /\ steps[a] \in Http!Effects /\ a < b => steps[b] \in Trailing
          /\ steps[a] \in Tellings /\ steps[b] \in Http!Effects => b < a
          /\ steps[a] = "reserve" => a < m /\ steps[a + 1] = "fill"
          /\ steps[b] = "unless" /\ a < b => steps[a] \notin {"clear", "reserve"}
      BY <1>3 DEF Whole, Orderly
    <3>5. steps[a] = "clear" => \E k \in 1 .. m : a < k /\ steps[k] = "change"
      BY <1>3 DEF Whole, Orderly
    <3>6. all[i] = "reserve" => i < n + m /\ all[i + 1] = "fill"
      BY <1>7, <3>1, <3>3, <3>4
    <3>7. ASSUME all[i] = "clear" PROVE \E k \in 1 .. n + m : i < k /\ all[k] = "change"
      <4>1. PICK k \in 1 .. m : a < k /\ steps[k] = "change"
        BY <3>3, <3>5, <3>7
      <4>2. n + k \in 1 .. n + m /\ all[n + k] = "change" /\ i < n + k
        BY <1>7, <3>1, <4>1
      <4> QED
        BY <4>2
    <3>8. (i < j <=> a < b) /\ (j < i <=> b < a)
      BY <3>1, <3>2
    <3> QED
      BY <3>3, <3>4, <3>6, <3>7, <3>8
  <2> QED
    BY <2>1, <2>2, <2>3
<1>9. ASSUME NEW kind, kind \notin Hooks PROVE HasStep(steps, kind) <=> HasStep(all, kind)
  <2>1. ASSUME HasStep(steps, kind) PROVE HasStep(all, kind)
    <3>1. PICK i \in 1 .. m : steps[i] = kind
      BY <1>3, <2>1 DEF HasStep
    <3> QED
      BY <1>4, <1>7, <3>1 DEF HasStep
  <2>2. ASSUME HasStep(all, kind) PROVE HasStep(steps, kind)
    <3>1. PICK i \in 1 .. n + m : all[i] = kind
      BY <1>4, <2>2 DEF HasStep
    <3>2. ~(i <= n)
      BY <1>6, <1>9, <3>1
    <3>3. i - n \in 1 .. m /\ steps[i - n] = kind
      BY <1>4, <3>1, <3>2
    <3> QED
      BY <1>3, <3>3 DEF HasStep
  <2> QED
    BY <2>1, <2>2
<1>10. Whole(all)
  BY <1>5, <1>8 DEF Whole
<1>11. \A kind \in {"change", "fill", "unless", "event", "announce"} :
           HasStep(steps, kind) <=> HasStep(all, kind)
  <2>1. \A kind \in {"change", "fill", "unless", "event", "announce"} : kind \notin Hooks
    BY DEF Hooks
  <2> QED
    BY <1>9, <2>1
<1> QED
  BY <1>1, <1>10, <1>11 DEF Recording, ChangesQuietly, ChangesAndTells, Makes, Quiet

LEMMA HooksAreHooks ==
    /\ Http!Safe \in Seq(Hooks) /\ Http!Unsafe \in Seq(Hooks)
    /\ Http!AsUser(Http!Safe) \in Seq(Hooks) /\ Http!AsUser(Http!Unsafe) \in Seq(Hooks)
    /\ Http!AsAdmin(Http!Safe) \in Seq(Hooks) /\ Http!AsAdmin(Http!Unsafe) \in Seq(Hooks)
<1>1. Http!Safe \in Seq(Hooks)
  BY DEF Http!Safe, Hooks
<1>2. Http!Unsafe \in Seq(Hooks)
  <2>1. <<"token">> \in Seq(Hooks)
    BY DEF Hooks
  <2> QED
    BY <1>1, <2>1 DEF Http!Unsafe
<1>3. <<"user">> \in Seq(Hooks) /\ <<"admin">> \in Seq(Hooks)
  BY DEF Hooks
<1> QED
  BY <1>1, <1>2, <1>3 DEF Http!AsUser, Http!AsAdmin

\* Routes that change nothing and tell of nothing.
LEMMA ShowingRoutes ==
    /\ Whole(Http!AdminCsrf.steps) /\ Whole(Http!AdminSession.steps)
    /\ Whole(Http!AdminDepositApprove.steps) /\ Whole(Http!AdminDepositReject.steps)
    /\ Whole(Http!AdminSeedActivity.steps) /\ Whole(Http!AdminSeedLedger.steps)
    /\ Whole(Http!ResetPortfolio.steps)
    /\ Whole(Http!AdminMoneyUser.steps) /\ Whole(Http!AdminMoneyDeposit.steps)
    /\ Whole(Http!WalletMe.steps) /\ Whole(Http!WalletWithdrawal.steps)
    /\ Whole(Http!Portfolio.steps) /\ Whole(Http!Positions.steps) /\ Whole(Http!Trades.steps)
    /\ Whole(Http!AdminMoneyDeposits.steps) /\ Whole(Http!AdminMoneyWithdrawals.steps)
    /\ Whole(Http!WalletDeposits.steps) /\ Whole(Http!WalletWithdrawals.steps)
    /\ Whole(Http!CoinBalance.steps) /\ Whole(Http!CoinEntries.steps)
    /\ Whole(Http!Activity.steps) /\ Whole(Http!WatchlistList.steps)
<1>1. /\ Whole(Http!AdminCsrf.steps) /\ Whole(Http!AdminSession.steps)
  <2>1. Http!AdminCsrf.steps = Http!Safe /\ Http!AdminSession.steps = Http!Safe
    BY DEF Http!AdminCsrf, Http!AdminSession, Http!Reading
  <2>2. Whole(Http!Safe)
    BY DEF Http!Safe, Whole, Orderly, Kinds, Hooks, Trailing, Tellings, Http!Effects
  <2> QED
    BY <2>1, <2>2
<1>2. /\ Whole(Http!AdminDepositApprove.steps) /\ Whole(Http!AdminDepositReject.steps)
      /\ Whole(Http!AdminSeedActivity.steps) /\ Whole(Http!AdminSeedLedger.steps)
      /\ Whole(Http!ResetPortfolio.steps)
  <2>1. PICK tail : tail = <<"retired">>
    OBVIOUS
  <2>2. Whole(tail)
    BY <2>1 DEF Whole, Orderly, Kinds, Hooks, Trailing, Tellings, Http!Effects
  <2>4. /\ Http!AdminDepositApprove.steps = Http!AsAdmin(Http!Unsafe) \o tail
        /\ Http!AdminDepositReject.steps = Http!AsAdmin(Http!Unsafe) \o tail
        /\ Http!AdminSeedActivity.steps = Http!AsAdmin(Http!Unsafe) \o tail
        /\ Http!AdminSeedLedger.steps = Http!AsAdmin(Http!Unsafe) \o tail
        /\ Http!ResetPortfolio.steps = Http!AsUser(Http!Unsafe) \o tail
    BY <2>1 DEF Http!AdminDepositApprove, Http!AdminDepositReject, Http!AdminSeedActivity,
                Http!AdminSeedLedger, Http!ResetPortfolio, Http!Reading, Http!Keyed, Http!Within,
                Http!TellingRefusals
  <2> QED
    BY <2>2, <2>4, HooksComeFirst, HooksAreHooks
<1>3. /\ Whole(Http!AdminMoneyUser.steps) /\ Whole(Http!AdminMoneyDeposit.steps)
      /\ Whole(Http!WalletMe.steps) /\ Whole(Http!WalletWithdrawal.steps)
      /\ Whole(Http!Portfolio.steps) /\ Whole(Http!Positions.steps) /\ Whole(Http!Trades.steps)
  <2>1. PICK tail : tail = <<"open", "look">>
    OBVIOUS
  <2>2. Whole(tail)
    BY <2>1 DEF Whole, Orderly, Kinds, Hooks, Trailing, Tellings, Http!Effects
  <2>4. /\ Http!AdminMoneyUser.steps = Http!AsAdmin(Http!Safe) \o tail
        /\ Http!AdminMoneyDeposit.steps = Http!AsAdmin(Http!Safe) \o tail
        /\ Http!WalletMe.steps = Http!AsUser(Http!Safe) \o tail
        /\ Http!WalletWithdrawal.steps = Http!AsUser(Http!Safe) \o tail
        /\ Http!Portfolio.steps = Http!AsUser(Http!Safe) \o tail
        /\ Http!Positions.steps = Http!AsUser(Http!Safe) \o tail
        /\ Http!Trades.steps = Http!AsUser(Http!Safe) \o tail
    BY <2>1 DEF Http!AdminMoneyUser, Http!AdminMoneyDeposit, Http!WalletMe,
                Http!WalletWithdrawal, Http!Portfolio, Http!Positions, Http!Trades, Http!Reading,
                Http!Keyed, Http!Within, Http!TellingRefusals
  <2> QED
    BY <2>2, <2>4, HooksComeFirst, HooksAreHooks
<1>4. /\ Whole(Http!AdminMoneyDeposits.steps) /\ Whole(Http!AdminMoneyWithdrawals.steps)
      /\ Whole(Http!WalletDeposits.steps) /\ Whole(Http!WalletWithdrawals.steps)
      /\ Whole(Http!CoinBalance.steps) /\ Whole(Http!CoinEntries.steps)
  <2>1. PICK tail : tail = <<"open", "list">>
    OBVIOUS
  <2>2. Whole(tail)
    BY <2>1 DEF Whole, Orderly, Kinds, Hooks, Trailing, Tellings, Http!Effects
  <2>4. /\ Http!AdminMoneyDeposits.steps = Http!AsAdmin(Http!Safe) \o tail
        /\ Http!AdminMoneyWithdrawals.steps = Http!AsAdmin(Http!Safe) \o tail
        /\ Http!WalletDeposits.steps = Http!AsUser(Http!Safe) \o tail
        /\ Http!WalletWithdrawals.steps = Http!AsUser(Http!Safe) \o tail
        /\ Http!CoinBalance.steps = Http!AsUser(Http!Safe) \o tail
        /\ Http!CoinEntries.steps = Http!AsUser(Http!Safe) \o tail
    BY <2>1 DEF Http!AdminMoneyDeposits, Http!AdminMoneyWithdrawals, Http!WalletDeposits,
                Http!WalletWithdrawals, Http!CoinBalance, Http!CoinEntries, Http!Reading,
                Http!Keyed, Http!Within, Http!TellingRefusals
  <2> QED
    BY <2>2, <2>4, HooksComeFirst, HooksAreHooks
<1>5. /\ Whole(Http!Activity.steps) /\ Whole(Http!WatchlistList.steps)
  <2>1. PICK tail : tail = <<"list">>
    OBVIOUS
  <2>2. Whole(tail)
    BY <2>1 DEF Whole, Orderly, Kinds, Hooks, Trailing, Tellings, Http!Effects
  <2>4. /\ Http!Activity.steps = Http!Safe \o tail
        /\ Http!WatchlistList.steps = Http!AsUser(Http!Safe) \o tail
    BY <2>1 DEF Http!Activity, Http!WatchlistList, Http!Reading, Http!Keyed, Http!Within,
                Http!TellingRefusals
  <2> QED
    BY <2>2, <2>4, HooksComeFirst, HooksAreHooks
<1> QED
  BY <1>1, <1>2, <1>3, <1>4, <1>5

\* Routes that tell of who looked.
LEMMA LookingRoutes ==
    /\ Recording(Http!AdminLogin.steps)
    /\ Recording(Http!AdminLogout.steps)
    /\ Recording(Http!AdminUsers.steps)
    /\ Recording(Http!AdminAuditLogs.steps)
    /\ Recording(Http!AdminWithdrawals.steps) /\ Recording(Http!AdminDeposits.steps)
    /\ Recording(Http!QuoteTrade.steps)
<1>1. Recording(Http!AdminLogin.steps)
  <2>1. PICK tail : tail = <<"valid", "give", "event">>
    OBVIOUS
  <2>2. Whole(tail)
    BY <2>1 DEF Whole, Orderly, Kinds, Hooks, Trailing, Tellings, Http!Effects
  <2>3. Recording(tail)
    BY <2>1, <2>2 DEF Recording, HasStep
  <2>4. Http!AdminLogin.steps = Http!Unsafe \o tail
    BY <2>1 DEF Http!AdminLogin, Http!Reading, Http!Keyed, Http!Within, Http!TellingRefusals
  <2> QED
    BY <2>2, <2>3, <2>4, HooksComeFirst, HooksAreHooks
<1>2. Recording(Http!AdminLogout.steps)
  <2>1. PICK tail : tail = <<"give", "event">>
    OBVIOUS
  <2>2. Whole(tail)
    BY <2>1 DEF Whole, Orderly, Kinds, Hooks, Trailing, Tellings, Http!Effects
  <2>3. Recording(tail)
    BY <2>1, <2>2 DEF Recording, HasStep
  <2>4. Http!AdminLogout.steps = Http!Unsafe \o tail
    BY <2>1 DEF Http!AdminLogout, Http!Reading, Http!Keyed, Http!Within, Http!TellingRefusals
  <2> QED
    BY <2>2, <2>3, <2>4, HooksComeFirst, HooksAreHooks
<1>3. Recording(Http!AdminUsers.steps)
  <2>1. PICK tail : tail = <<"list", "event">>
    OBVIOUS
  <2>2. Whole(tail)
    BY <2>1 DEF Whole, Orderly, Kinds, Hooks, Trailing, Tellings, Http!Effects
  <2>3. Recording(tail)
    BY <2>1, <2>2 DEF Recording, HasStep
  <2>4. Http!AdminUsers.steps = Http!AsAdmin(Http!Safe) \o tail
    BY <2>1 DEF Http!AdminUsers, Http!Reading, Http!Keyed, Http!Within, Http!TellingRefusals
  <2> QED
    BY <2>2, <2>3, <2>4, HooksComeFirst, HooksAreHooks
<1>4. Recording(Http!AdminAuditLogs.steps)
  <2>1. PICK tail : tail = <<"event", "list", "list">>
    OBVIOUS
  <2>2. Whole(tail)
    BY <2>1 DEF Whole, Orderly, Kinds, Hooks, Trailing, Tellings, Http!Effects
  <2>3. Recording(tail)
    BY <2>1, <2>2 DEF Recording, HasStep
  <2>4. Http!AdminAuditLogs.steps = Http!AsAdmin(Http!Safe) \o tail
    BY <2>1 DEF Http!AdminAuditLogs, Http!Reading, Http!Keyed, Http!Within, Http!TellingRefusals
  <2> QED
    BY <2>2, <2>3, <2>4, HooksComeFirst, HooksAreHooks
<1>5. /\ Recording(Http!AdminWithdrawals.steps) /\ Recording(Http!AdminDeposits.steps)
  <2>1. PICK tail : tail = <<"event", "open", "list">>
    OBVIOUS
  <2>2. Whole(tail)
    BY <2>1 DEF Whole, Orderly, Kinds, Hooks, Trailing, Tellings, Http!Effects
  <2>3. Recording(tail)
    BY <2>1, <2>2 DEF Recording, HasStep
  <2>4. /\ Http!AdminWithdrawals.steps = Http!AsAdmin(Http!Safe) \o tail
        /\ Http!AdminDeposits.steps = Http!AsAdmin(Http!Safe) \o tail
    BY <2>1 DEF Http!AdminWithdrawals, Http!AdminDeposits, Http!Reading, Http!Keyed, Http!Within,
                Http!TellingRefusals
  <2> QED
    BY <2>2, <2>3, <2>4, HooksComeFirst, HooksAreHooks
<1>6. Recording(Http!QuoteTrade.steps)
  <2>1. PICK tail : tail = <<"open", "valid", "look", "price", "event">>
    OBVIOUS
  <2>2. Whole(tail)
    BY <2>1 DEF Whole, Orderly, Kinds, Hooks, Trailing, Tellings, Http!Effects
  <2>3. Recording(tail)
    BY <2>1, <2>2 DEF Recording, HasStep
  <2>4. Http!QuoteTrade.steps = Http!AsUser(Http!Unsafe) \o tail
    BY <2>1 DEF Http!QuoteTrade, Http!Reading, Http!Keyed, Http!Within, Http!TellingRefusals
  <2> QED
    BY <2>2, <2>3, <2>4, HooksComeFirst, HooksAreHooks
<1> QED
  BY <1>1, <1>2, <1>3, <1>4, <1>5, <1>6

\* Routes that change something and write no audit log of their own.
LEMMA ChangingRoutes ==
    /\ ChangesQuietly(Http!AdminWalletReject.steps)
    /\ ChangesQuietly(Http!AdminDepositRetry.steps)
    /\ ChangesQuietly(Http!AdminWithdrawalReview.steps)
    /\ ChangesQuietly(Http!CancelWithdrawal.steps)
    /\ ChangesQuietly(Http!AdminCorrection.steps) /\ ChangesQuietly(Http!QuoteWithdrawal.steps)
    /\ ChangesQuietly(Http!AdminResolve.steps) /\ ChangesQuietly(Http!AdminCancel.steps)
    /\ ChangesQuietly(Http!ConfirmWithdrawal.steps)
    /\ ChangesQuietly(Http!DepositWebhook.steps)
    /\ ChangesQuietly(Http!PlaceOrder.steps)
    /\ ChangesQuietly(Http!PlaceTrade.steps)
    /\ ChangesQuietly(Http!WatchlistPut.steps)
    /\ ChangesQuietly(Http!WatchlistDelete.steps)
<1>1. /\ ChangesQuietly(Http!AdminWalletReject.steps)
      /\ ChangesQuietly(Http!AdminDepositRetry.steps)
      /\ ChangesQuietly(Http!AdminWithdrawalReview.steps)
      /\ ChangesQuietly(Http!CancelWithdrawal.steps)
  <2>1. PICK tail : tail = <<"open", "unless", "change">>
    OBVIOUS
  <2>2. Whole(tail)
    BY <2>1 DEF Whole, Orderly, Kinds, Hooks, Trailing, Tellings, Http!Effects
  <2>3. ChangesQuietly(tail)
    BY <2>1, <2>2 DEF ChangesQuietly, Makes, Quiet, HasStep
  <2>4. /\ Http!AdminWalletReject.steps = Http!AsAdmin(Http!Unsafe) \o tail
        /\ Http!AdminDepositRetry.steps = Http!AsAdmin(Http!Unsafe) \o tail
        /\ Http!AdminWithdrawalReview.steps = Http!AsAdmin(Http!Unsafe) \o tail
        /\ Http!CancelWithdrawal.steps = Http!AsUser(Http!Unsafe) \o tail
    BY <2>1 DEF Http!AdminWalletReject, Http!AdminDepositRetry, Http!AdminWithdrawalReview,
                Http!CancelWithdrawal, Http!Reading, Http!Keyed, Http!Within,
                Http!TellingRefusals
  <2> QED
    BY <2>2, <2>3, <2>4, HooksComeFirst, HooksAreHooks
<1>2. /\ ChangesQuietly(Http!AdminCorrection.steps) /\ ChangesQuietly(Http!QuoteWithdrawal.steps)
  <2>1. PICK tail : tail = <<"open", "change">>
    OBVIOUS
  <2>2. Whole(tail)
    BY <2>1 DEF Whole, Orderly, Kinds, Hooks, Trailing, Tellings, Http!Effects
  <2>3. ChangesQuietly(tail)
    BY <2>1, <2>2 DEF ChangesQuietly, Makes, Quiet, HasStep
  <2>4. /\ Http!AdminCorrection.steps = Http!AsAdmin(Http!Unsafe) \o tail
        /\ Http!QuoteWithdrawal.steps = Http!AsUser(Http!Unsafe) \o tail
    BY <2>1 DEF Http!AdminCorrection, Http!QuoteWithdrawal, Http!Reading, Http!Keyed,
                Http!Within, Http!TellingRefusals
  <2> QED
    BY <2>2, <2>3, <2>4, HooksComeFirst, HooksAreHooks
<1>3. /\ ChangesQuietly(Http!AdminResolve.steps) /\ ChangesQuietly(Http!AdminCancel.steps)
  <2>1. PICK tail : tail = <<"open", "valid", "change">>
    OBVIOUS
  <2>2. Whole(tail)
    BY <2>1 DEF Whole, Orderly, Kinds, Hooks, Trailing, Tellings, Http!Effects
  <2>3. ChangesQuietly(tail)
    BY <2>1, <2>2 DEF ChangesQuietly, Makes, Quiet, HasStep
  <2>4. /\ Http!AdminResolve.steps = Http!AsAdmin(Http!Unsafe) \o tail
        /\ Http!AdminCancel.steps = Http!AsAdmin(Http!Unsafe) \o tail
    BY <2>1 DEF Http!AdminResolve, Http!AdminCancel, Http!Reading, Http!Keyed, Http!Within,
                Http!TellingRefusals
  <2> QED
    BY <2>2, <2>3, <2>4, HooksComeFirst, HooksAreHooks
<1>4. ChangesQuietly(Http!ConfirmWithdrawal.steps)
  <2>1. PICK tail : tail = <<"open", "change", "announce">>
    OBVIOUS
  <2>2. Whole(tail)
    BY <2>1 DEF Whole, Orderly, Kinds, Hooks, Trailing, Tellings, Http!Effects
  <2>3. ChangesQuietly(tail)
    BY <2>1, <2>2 DEF ChangesQuietly, Makes, Quiet, HasStep
  <2>4. Http!ConfirmWithdrawal.steps = Http!AsUser(Http!Unsafe) \o tail
    BY <2>1 DEF Http!ConfirmWithdrawal, Http!Reading, Http!Keyed, Http!Within,
                Http!TellingRefusals
  <2> QED
    BY <2>2, <2>3, <2>4, HooksComeFirst, HooksAreHooks
<1>5. ChangesQuietly(Http!DepositWebhook.steps)
  <2>1. PICK tail : tail = <<"open", "valid", "open", "unless", "change", "agree">>
    OBVIOUS
  <2>2. Whole(tail)
    BY <2>1 DEF Whole, Orderly, Kinds, Hooks, Trailing, Tellings, Http!Effects
  <2>3. ChangesQuietly(tail)
    BY <2>1, <2>2 DEF ChangesQuietly, Makes, Quiet, HasStep
  <2>4. Http!DepositWebhook.steps = Http!Safe \o tail
    BY <2>1 DEF Http!DepositWebhook, Http!Reading, Http!Keyed, Http!Within, Http!TellingRefusals
  <2> QED
    BY <2>2, <2>3, <2>4, HooksComeFirst, HooksAreHooks
<1>6. ChangesQuietly(Http!PlaceOrder.steps)
  <2>1. PICK tail : tail = <<"open", "eligible", "valid", "look", "reserve", "fill", "list", "fresh">>
    OBVIOUS
  <2>2. Whole(tail)
    BY <2>1 DEF Whole, Orderly, Kinds, Hooks, Trailing, Tellings, Http!Effects
  <2>3. ChangesQuietly(tail)
    BY <2>1, <2>2 DEF ChangesQuietly, Makes, Quiet, HasStep
  <2>4. Http!PlaceOrder.steps = Http!AsUser(Http!Unsafe) \o tail
    BY <2>1 DEF Http!PlaceOrder, Http!Reading, Http!Keyed, Http!Within, Http!TellingRefusals
  <2> QED
    BY <2>2, <2>3, <2>4, HooksComeFirst, HooksAreHooks
<1>7. ChangesQuietly(Http!PlaceTrade.steps)
  <2>1. PICK tail : tail = <<"open", "eligible", "valid", "look", "reserve", "fill", "list">>
    OBVIOUS
  <2>2. Whole(tail)
    BY <2>1 DEF Whole, Orderly, Kinds, Hooks, Trailing, Tellings, Http!Effects
  <2>3. ChangesQuietly(tail)
    BY <2>1, <2>2 DEF ChangesQuietly, Makes, Quiet, HasStep
  <2>4. Http!PlaceTrade.steps = Http!AsUser(Http!Unsafe) \o tail
    BY <2>1 DEF Http!PlaceTrade, Http!Reading, Http!Keyed, Http!Within, Http!TellingRefusals
  <2> QED
    BY <2>2, <2>3, <2>4, HooksComeFirst, HooksAreHooks
<1>8. ChangesQuietly(Http!WatchlistPut.steps)
  <2>1. PICK tail : tail = <<"valid", "change">>
    OBVIOUS
  <2>2. Whole(tail)
    BY <2>1 DEF Whole, Orderly, Kinds, Hooks, Trailing, Tellings, Http!Effects
  <2>3. ChangesQuietly(tail)
    BY <2>1, <2>2 DEF ChangesQuietly, Makes, Quiet, HasStep
  <2>4. Http!WatchlistPut.steps = Http!AsUser(Http!Unsafe) \o tail
    BY <2>1 DEF Http!WatchlistPut, Http!Reading, Http!Keyed, Http!Within, Http!TellingRefusals
  <2> QED
    BY <2>2, <2>3, <2>4, HooksComeFirst, HooksAreHooks
<1>9. ChangesQuietly(Http!WatchlistDelete.steps)
  <2>1. PICK tail : tail = <<"unless", "change">>
    OBVIOUS
  <2>2. Whole(tail)
    BY <2>1 DEF Whole, Orderly, Kinds, Hooks, Trailing, Tellings, Http!Effects
  <2>3. ChangesQuietly(tail)
    BY <2>1, <2>2 DEF ChangesQuietly, Makes, Quiet, HasStep
  <2>4. Http!WatchlistDelete.steps = Http!AsUser(Http!Unsafe) \o tail
    BY <2>1 DEF Http!WatchlistDelete, Http!Reading, Http!Keyed, Http!Within, Http!TellingRefusals
  <2> QED
    BY <2>2, <2>3, <2>4, HooksComeFirst, HooksAreHooks
<1> QED
  BY <1>1, <1>2, <1>3, <1>4, <1>5, <1>6, <1>7, <1>8, <1>9

\* Routes that change something and tell of it afterwards.
LEMMA TellingRoutes ==
    /\ ChangesAndTells(Http!AdminHide.steps)
    /\ ChangesAndTells(Http!AdminUnhide.steps)
    /\ ChangesAndTells(Http!AdminSeedOdds.steps)
    /\ ChangesAndTells(Http!AdminReseedOdds.steps)
    /\ ChangesAndTells(Http!AdminOverrideOdds.steps)
    /\ ChangesAndTells(Http!DepositIntent.steps)
    /\ ChangesAndTells(Http!Comment.steps)
<1>1. ChangesAndTells(Http!AdminHide.steps)
  <2>1. PICK tail : tail = <<"valid", "change", "list", "event">>
    OBVIOUS
  <2>2. Whole(tail)
    BY <2>1 DEF Whole, Orderly, Kinds, Hooks, Trailing, Tellings, Http!Effects
  <2>3. ChangesAndTells(tail)
    BY <2>1, <2>2 DEF ChangesAndTells, Recording, Makes, HasStep
  <2>4. Http!AdminHide.steps = Http!AsAdmin(Http!Unsafe) \o tail
    BY <2>1 DEF Http!AdminHide, Http!Reading, Http!Keyed, Http!Within, Http!TellingRefusals
  <2> QED
    BY <2>2, <2>3, <2>4, HooksComeFirst, HooksAreHooks
<1>2. ChangesAndTells(Http!AdminUnhide.steps)
  <2>1. PICK tail : tail = <<"valid", "unless", "change", "list", "event">>
    OBVIOUS
  <2>2. Whole(tail)
    BY <2>1 DEF Whole, Orderly, Kinds, Hooks, Trailing, Tellings, Http!Effects
  <2>3. ChangesAndTells(tail)
    BY <2>1, <2>2 DEF ChangesAndTells, Recording, Makes, HasStep
  <2>4. Http!AdminUnhide.steps = Http!AsAdmin(Http!Unsafe) \o tail
    BY <2>1 DEF Http!AdminUnhide, Http!Reading, Http!Keyed, Http!Within, Http!TellingRefusals
  <2> QED
    BY <2>2, <2>3, <2>4, HooksComeFirst, HooksAreHooks
<1>3. ChangesAndTells(Http!AdminSeedOdds.steps)
  <2>1. PICK tail : tail = <<"open", "look", "unless", "valid", "change", "event">>
    OBVIOUS
  <2>2. Whole(tail)
    BY <2>1 DEF Whole, Orderly, Kinds, Hooks, Trailing, Tellings, Http!Effects
  <2>3. ChangesAndTells(tail)
    BY <2>1, <2>2 DEF ChangesAndTells, Recording, Makes, HasStep
  <2>4. Http!AdminSeedOdds.steps = Http!AsAdmin(Http!Unsafe) \o tail
    BY <2>1 DEF Http!AdminSeedOdds, Http!Reading, Http!Keyed, Http!Within, Http!TellingRefusals
  <2> QED
    BY <2>2, <2>3, <2>4, HooksComeFirst, HooksAreHooks
<1>4. ChangesAndTells(Http!AdminReseedOdds.steps)
  <2>1. PICK tail : tail = <<"open", "look", "list", "clear", "valid", "change", "event">>
    OBVIOUS
  <2>2. Whole(tail)
    BY <2>1 DEF Whole, Orderly, Kinds, Hooks, Trailing, Tellings, Http!Effects
  <2>3. ChangesAndTells(tail)
    BY <2>1, <2>2 DEF ChangesAndTells, Recording, Makes, HasStep
  <2>4. Http!AdminReseedOdds.steps = Http!AsAdmin(Http!Unsafe) \o tail
    BY <2>1 DEF Http!AdminReseedOdds, Http!Reading, Http!Keyed, Http!Within, Http!TellingRefusals
  <2> QED
    BY <2>2, <2>3, <2>4, HooksComeFirst, HooksAreHooks
<1>5. ChangesAndTells(Http!AdminOverrideOdds.steps)
  <2>1. PICK tail : tail = <<"open", "look", "valid", "list", "change", "event">>
    OBVIOUS
  <2>2. Whole(tail)
    BY <2>1 DEF Whole, Orderly, Kinds, Hooks, Trailing, Tellings, Http!Effects
  <2>3. ChangesAndTells(tail)
    BY <2>1, <2>2 DEF ChangesAndTells, Recording, Makes, HasStep
  <2>4. Http!AdminOverrideOdds.steps = Http!AsAdmin(Http!Unsafe) \o tail
    BY <2>1 DEF Http!AdminOverrideOdds, Http!Reading, Http!Keyed, Http!Within,
                Http!TellingRefusals
  <2> QED
    BY <2>2, <2>3, <2>4, HooksComeFirst, HooksAreHooks
<1>6. ChangesAndTells(Http!DepositIntent.steps)
  <2>1. PICK tail : tail = <<"open", "change", "event">>
    OBVIOUS
  <2>2. Whole(tail)
    BY <2>1 DEF Whole, Orderly, Kinds, Hooks, Trailing, Tellings, Http!Effects
  <2>3. ChangesAndTells(tail)
    BY <2>1, <2>2 DEF ChangesAndTells, Recording, Makes, HasStep
  <2>4. Http!DepositIntent.steps = Http!AsUser(Http!Unsafe) \o tail
    BY <2>1 DEF Http!DepositIntent, Http!Reading, Http!Keyed, Http!Within, Http!TellingRefusals
  <2> QED
    BY <2>2, <2>3, <2>4, HooksComeFirst, HooksAreHooks
<1>7. ChangesAndTells(Http!Comment.steps)
  <2>1. PICK tail : tail = <<"valid", "change", "event", "list">>
    OBVIOUS
  <2>2. Whole(tail)
    BY <2>1 DEF Whole, Orderly, Kinds, Hooks, Trailing, Tellings, Http!Effects
  <2>3. ChangesAndTells(tail)
    BY <2>1, <2>2 DEF ChangesAndTells, Recording, Makes, HasStep
  <2>4. Http!Comment.steps = Http!Unsafe \o tail
    BY <2>1 DEF Http!Comment, Http!Reading, Http!Keyed, Http!Within, Http!TellingRefusals
  <2> QED
    BY <2>2, <2>3, <2>4, HooksComeFirst, HooksAreHooks
<1> QED
  BY <1>1, <1>2, <1>3, <1>4, <1>5, <1>6, <1>7

\* What each route is.
LEMMA RouteNames == DOMAIN Http!Routes = Http!Names
BY DEF Http!Routes

LEMMA RoutesTogether ==
    /\ Http!Routes["wallet_reject"] = Http!AdminWalletReject
    /\ Http!Routes["correction"] = Http!AdminCorrection
    /\ Http!Routes["deposit_retry"] = Http!AdminDepositRetry
    /\ Http!Routes["review"] = Http!AdminWithdrawalReview
    /\ Http!Routes["resolve"] = Http!AdminResolve /\ Http!Routes["cancel"] = Http!AdminCancel
    /\ Http!Routes["confirm"] = Http!ConfirmWithdrawal
    /\ Http!Routes["quote_withdrawal"] = Http!QuoteWithdrawal
    /\ Http!Routes["cancel_withdrawal"] = Http!CancelWithdrawal
    /\ Http!Routes["order"] = Http!PlaceOrder /\ Http!Routes["trade"] = Http!PlaceTrade
BY DEF Http!Routes, Http!Names, Http!Together

LEMMA RoutesAfterwards ==
    /\ Http!Routes["hide"] = Http!AdminHide /\ Http!Routes["unhide"] = Http!AdminUnhide
    /\ Http!Routes["seed"] = Http!AdminSeedOdds /\ Http!Routes["reseed"] = Http!AdminReseedOdds
    /\ Http!Routes["override"] = Http!AdminOverrideOdds
    /\ Http!Routes["intent"] = Http!DepositIntent /\ Http!Routes["comment"] = Http!Comment
BY DEF Http!Routes, Http!Names, Http!Afterwards

LEMMA RoutesUntold ==
    /\ Http!Routes["webhook"] = Http!DepositWebhook /\ Http!Routes["watch"] = Http!WatchlistPut
    /\ Http!Routes["unwatch"] = Http!WatchlistDelete
BY DEF Http!Routes, Http!Names, Http!Untold

LEMMA RoutesLooking ==
    /\ Http!Routes["admin_login"] = Http!AdminLogin
    /\ Http!Routes["admin_logout"] = Http!AdminLogout
    /\ Http!Routes["admin_users"] = Http!AdminUsers
    /\ Http!Routes["admin_logs"] = Http!AdminAuditLogs
    /\ Http!Routes["admin_withdrawals"] = Http!AdminWithdrawals
    /\ Http!Routes["admin_deposits"] = Http!AdminDeposits
    /\ Http!Routes["quote"] = Http!QuoteTrade
BY DEF Http!Routes, Http!Names, Http!Looking

LEMMA RoutesShowing ==
    /\ Http!Routes["admin_csrf"] = Http!AdminCsrf
    /\ Http!Routes["admin_session"] = Http!AdminSession
    /\ Http!Routes["deposit_approve"] = Http!AdminDepositApprove
    /\ Http!Routes["deposit_reject"] = Http!AdminDepositReject
    /\ Http!Routes["money_user"] = Http!AdminMoneyUser
    /\ Http!Routes["money_deposits"] = Http!AdminMoneyDeposits
    /\ Http!Routes["money_deposit"] = Http!AdminMoneyDeposit
    /\ Http!Routes["money_withdrawals"] = Http!AdminMoneyWithdrawals
    /\ Http!Routes["seed_activity"] = Http!AdminSeedActivity
    /\ Http!Routes["seed_ledger"] = Http!AdminSeedLedger
    /\ Http!Routes["wallet"] = Http!WalletMe /\ Http!Routes["deposits"] = Http!WalletDeposits
    /\ Http!Routes["withdrawals"] = Http!WalletWithdrawals
    /\ Http!Routes["withdrawal"] = Http!WalletWithdrawal
    /\ Http!Routes["balance"] = Http!CoinBalance /\ Http!Routes["entries"] = Http!CoinEntries
    /\ Http!Routes["portfolio"] = Http!Portfolio /\ Http!Routes["positions"] = Http!Positions
    /\ Http!Routes["trades"] = Http!Trades /\ Http!Routes["reset"] = Http!ResetPortfolio
    /\ Http!Routes["activity"] = Http!Activity /\ Http!Routes["watchlist"] = Http!WatchlistList
BY DEF Http!Routes, Http!Names, Http!Showing

LEMMA RoutesAreWhole ==
    \A name \in DOMAIN Http!Routes : Whole(Http!Routes[name].steps)
<1>1. \A name \in Http!Showing : Whole(Http!Routes[name].steps)
  BY ShowingRoutes, RoutesShowing DEF Http!Showing
<1>2. \A name \in Http!Looking : Whole(Http!Routes[name].steps)
  BY LookingRoutes, RoutesLooking DEF Http!Looking, Recording
<1>3. \A name \in Http!Together : Whole(Http!Routes[name].steps)
  BY ChangingRoutes, RoutesTogether DEF Http!Together, Makes, ChangesQuietly
<1>4. \A name \in Http!Afterwards \cup Http!Untold : Whole(Http!Routes[name].steps)
  BY ChangingRoutes, TellingRoutes, RoutesAfterwards, RoutesUntold
     DEF Http!Afterwards, Http!Untold, Recording, Makes, ChangesQuietly, ChangesAndTells
<1> QED
  BY <1>1, <1>2, <1>3, <1>4, RouteNames DEF Http!Names

LEMMA RoutesChange ==
    \A name \in Http!Together \cup Http!Afterwards \cup Http!Untold :
        Makes(Http!Routes[name].steps)
BY ChangingRoutes, TellingRoutes, RoutesTogether, RoutesAfterwards, RoutesUntold
   DEF Http!Together, Http!Afterwards, Http!Untold, ChangesQuietly, ChangesAndTells

LEMMA RoutesTell ==
    \A name \in Http!Afterwards \cup Http!Looking : Recording(Http!Routes[name].steps)
BY LookingRoutes, TellingRoutes, RoutesLooking, RoutesAfterwards
   DEF Http!Looking, Http!Afterwards, ChangesAndTells

LEMMA RoutesAreQuiet == \A name \in Http!Together : Quiet(Http!Routes[name].steps)
BY ChangingRoutes, RoutesTogether DEF Http!Together, ChangesQuietly

WritesAtOnce(route) == route.within = {TRUE}

LEMMA WithinRoutes ==
    /\ WritesAtOnce(Http!AdminWalletReject) /\ WritesAtOnce(Http!AdminCorrection)
    /\ WritesAtOnce(Http!AdminDepositRetry) /\ WritesAtOnce(Http!AdminWithdrawalReview)
    /\ WritesAtOnce(Http!AdminResolve) /\ WritesAtOnce(Http!AdminCancel)
    /\ WritesAtOnce(Http!ConfirmWithdrawal) /\ WritesAtOnce(Http!QuoteWithdrawal)
    /\ WritesAtOnce(Http!CancelWithdrawal) /\ WritesAtOnce(Http!PlaceOrder)
    /\ WritesAtOnce(Http!PlaceTrade)
<1>1. \A steps : WritesAtOnce(Http!Within(steps))
  BY DEF Http!Within, Http!Reading, WritesAtOnce
<1>2. \A steps, where, books : WritesAtOnce(Http!Keyed(steps, where, books))
  BY DEF Http!Keyed, Http!Reading, WritesAtOnce
<1>3. \A steps, where, books, told :
          WritesAtOnce(Http!TellingRefusals(Http!Keyed(steps, where, books), told))
  BY DEF Http!Keyed, Http!Reading, Http!TellingRefusals, WritesAtOnce
<1>4. /\ WritesAtOnce(Http!AdminWalletReject) /\ WritesAtOnce(Http!AdminDepositRetry)
      /\ WritesAtOnce(Http!AdminWithdrawalReview) /\ WritesAtOnce(Http!CancelWithdrawal)
  BY <1>1 DEF Http!AdminWalletReject, Http!AdminDepositRetry,
              Http!AdminWithdrawalReview, Http!CancelWithdrawal
<1>5. /\ WritesAtOnce(Http!AdminCorrection) /\ WritesAtOnce(Http!AdminResolve)
      /\ WritesAtOnce(Http!AdminCancel)
      /\ WritesAtOnce(Http!ConfirmWithdrawal) /\ WritesAtOnce(Http!QuoteWithdrawal)
  BY <1>2 DEF Http!AdminCorrection, Http!AdminResolve, Http!AdminCancel,
              Http!ConfirmWithdrawal, Http!QuoteWithdrawal
<1>6. WritesAtOnce(Http!PlaceOrder) /\ WritesAtOnce(Http!PlaceTrade)
  BY <1>3 DEF Http!PlaceOrder, Http!PlaceTrade
<1> QED
  BY <1>4, <1>5, <1>6

LEMMA RoutesWithin ==
    \A name \in Http!Together : WritesAtOnce(Http!Routes[name])
BY WithinRoutes, RoutesTogether DEF Http!Together

\* Whatever looks for a key writes the audit log within its change.
BooksAtOnce(route) ==
    route.within \in SUBSET BOOLEAN /\ (route.books = None \/ WritesAtOnce(route))

LEMMA BooksOfRoutes == \A name \in DOMAIN Http!Routes : BooksAtOnce(Http!Routes[name])
<1>1. \A steps : BooksAtOnce(Http!Reading(steps))
  BY DEF Http!Reading, BooksAtOnce
<1>2. \A steps, told : BooksAtOnce(Http!TellingRefusals(Http!Reading(steps), told))
  BY DEF Http!Reading, Http!TellingRefusals, BooksAtOnce
<1>3. /\ BooksAtOnce(Http!AdminCsrf) /\ BooksAtOnce(Http!AdminSession)
      /\ BooksAtOnce(Http!AdminLogin) /\ BooksAtOnce(Http!AdminLogout)
      /\ BooksAtOnce(Http!AdminUsers) /\ BooksAtOnce(Http!AdminAuditLogs)
      /\ BooksAtOnce(Http!AdminWithdrawals) /\ BooksAtOnce(Http!AdminDeposits)
      /\ BooksAtOnce(Http!AdminDepositApprove) /\ BooksAtOnce(Http!AdminDepositReject)
      /\ BooksAtOnce(Http!AdminMoneyUser) /\ BooksAtOnce(Http!AdminMoneyDeposits)
      /\ BooksAtOnce(Http!AdminMoneyDeposit)
  BY <1>1 DEF Http!AdminCsrf, Http!AdminSession, Http!AdminLogin, Http!AdminLogout,
              Http!AdminUsers, Http!AdminAuditLogs, Http!AdminWithdrawals, Http!AdminDeposits,
              Http!AdminDepositApprove, Http!AdminDepositReject, Http!AdminMoneyUser,
              Http!AdminMoneyDeposits, Http!AdminMoneyDeposit
<1>4. /\ BooksAtOnce(Http!AdminMoneyWithdrawals) /\ BooksAtOnce(Http!AdminHide)
      /\ BooksAtOnce(Http!AdminUnhide) /\ BooksAtOnce(Http!AdminSeedOdds)
      /\ BooksAtOnce(Http!AdminReseedOdds)
      /\ BooksAtOnce(Http!AdminOverrideOdds) /\ BooksAtOnce(Http!AdminSeedActivity)
      /\ BooksAtOnce(Http!AdminSeedLedger) /\ BooksAtOnce(Http!WalletMe)
      /\ BooksAtOnce(Http!DepositIntent) /\ BooksAtOnce(Http!WalletDeposits)
      /\ BooksAtOnce(Http!WalletWithdrawals) /\ BooksAtOnce(Http!WalletWithdrawal)
      /\ BooksAtOnce(Http!CoinBalance)
  BY <1>1 DEF Http!AdminMoneyWithdrawals, Http!AdminHide, Http!AdminUnhide, Http!AdminSeedOdds,
              Http!AdminReseedOdds, Http!AdminOverrideOdds, Http!AdminSeedActivity,
              Http!AdminSeedLedger, Http!WalletMe, Http!DepositIntent, Http!WalletDeposits,
              Http!WalletWithdrawals, Http!WalletWithdrawal, Http!CoinBalance
<1>5. /\ BooksAtOnce(Http!CoinEntries) /\ BooksAtOnce(Http!Portfolio)
      /\ BooksAtOnce(Http!Positions) /\ BooksAtOnce(Http!Trades)
      /\ BooksAtOnce(Http!ResetPortfolio) /\ BooksAtOnce(Http!Comment)
      /\ BooksAtOnce(Http!Activity) /\ BooksAtOnce(Http!WatchlistList)
      /\ BooksAtOnce(Http!WatchlistPut) /\ BooksAtOnce(Http!WatchlistDelete)
  BY <1>1 DEF Http!CoinEntries, Http!Portfolio, Http!Positions, Http!Trades,
              Http!ResetPortfolio, Http!Comment, Http!Activity, Http!WatchlistList,
              Http!WatchlistPut, Http!WatchlistDelete
<1>6. BooksAtOnce(Http!DepositWebhook)
  BY DEF BooksAtOnce, Http!DepositWebhook, Http!TellingRefusals, Http!Within, Http!Reading
<1>7. BooksAtOnce(Http!QuoteTrade)
  BY <1>2 DEF Http!QuoteTrade
<1>8. \A route : WritesAtOnce(route) => BooksAtOnce(route)
  BY DEF WritesAtOnce, BooksAtOnce
<1> QED
  <2>1. \A name \in Http!Together : BooksAtOnce(Http!Routes[name])
    BY <1>8, WithinRoutes, RoutesTogether DEF Http!Together
  <2>2. \A name \in Http!Afterwards \cup Http!Untold : BooksAtOnce(Http!Routes[name])
    BY <1>4, <1>5, <1>6, RoutesAfterwards, RoutesUntold DEF Http!Afterwards, Http!Untold
  <2>3. \A name \in Http!Looking : BooksAtOnce(Http!Routes[name])
    BY <1>3, <1>7, RoutesLooking DEF Http!Looking
  <2>4. \A name \in Http!Showing : BooksAtOnce(Http!Routes[name])
    BY <1>3, <1>4, <1>5, RoutesShowing DEF Http!Showing
  <2> QED
    BY <2>1, <2>2, <2>3, <2>4, RouteNames DEF Http!Names

-----------------------------------------------------------------------------
(* Answers and the audit log.  A request that has passed the step that     *)
(* makes a change has one, or may find that there is nothing to change;    *)
(* what it tells of afterwards is that change.  A request goes on from     *)
(* what it changed before only when that is settled: cleared points, or a  *)
(* reserve that was filled or given up.                                    *)

StepsOf(r) == Http!Routes[httpRequests[r].route].steps
Passed(r, kind) ==
    \E i \in 1 .. Len(StepsOf(r)) : i < httpRequests[r].at /\ StepsOf(r)[i] = kind
OnBook(n) == \E e \in httpEvents : ~e.refusal /\ e.change = n
EventBy(r) == \E e \in httpEvents : ~e.refusal /\ e.by = r
Ended(n) ==
    \E j \in 1 .. Len(httpDone) :
        httpDone[j].by = httpDone[n].by /\ httpDone[j].part \in Http!Ending
Settled(n) ==
    \/ httpDone[n].part = "clear"
    \/ httpDone[n].part = "reserve" /\ Ended(n)
    \/ OnBook(n)
AllSettled(r) == \A n \in 1 .. Len(httpDone) : httpDone[n].by = r => Settled(n)
TellsOfChange == Http!Together \cup Http!Afterwards

\* What a request goes on with: a reserve until it is filled, cleared points
\* until they are seeded again, an order given up when it was answered.
Holds(r) ==
    LET sent == httpRequests[r]
        piece == httpDone[sent.change].part
    IN  /\ piece = "reserve" => sent.at \in 1 .. Len(StepsOf(r)) /\ StepsOf(r)[sent.at] = "fill"
        /\ piece = "clear" =>
              /\ Passed(r, "clear")
              /\ \E j \in 1 .. Len(StepsOf(r)) : sent.at <= j /\ StepsOf(r)[j] = "change"
        /\ piece = "giveup" => sent.status \notin {"running", "done"}
        /\ piece \in {"change", "fill", "giveup"} /\ sent.route \in Http!Together =>
              OnBook(sent.change)

RequestSound(r) ==
    LET sent == httpRequests[r] IN
    /\ sent.at \in 1 .. Len(StepsOf(r)) + 1
    /\ sent.change \in 0 .. Len(httpDone)
    /\ sent.change # 0 => Holds(r)
    /\ sent.change = 0 /\ (Passed(r, "change") \/ Passed(r, "fill")) =>
          HasStep(StepsOf(r), "unless")
    /\ sent.status \in {"telling", "refused"} => AllSettled(r)
    /\ sent.status = "done" => sent.at = Len(StepsOf(r)) + 1
    /\ Passed(r, "event") => EventBy(r)

ChangeSound(n) ==
    LET made == httpDone[n]
        route == Http!Routes[httpRequests[made.by].route]
    IN  /\ made.by \in AllRequests /\ httpRequests[made.by] # None
        /\ made.books = route.books
        /\ made.books = None => made.key = None
        /\ made.part = "change" =>
              /\ httpRequests[made.by].change = n /\ Passed(made.by, "change")
              /\ WritesAtOnce(route) => OnBook(n)
        /\ made.part \in Http!Ending =>
              httpRequests[made.by].change = n /\ Passed(made.by, "fill") /\ OnBook(n)
        /\ made.part = "reserve" => httpRequests[made.by].change = n \/ Ended(n)

EventSound(e) ==
    ~e.refusal =>
        /\ e.by \in AllRequests /\ httpRequests[e.by] # None
        /\ e.change \in 0 .. Len(httpDone)
        /\ e.change # 0 =>
              /\ httpDone[e.change].part \in Http!Effects \cup Http!Ending
              /\ httpRequests[e.by].change # 0
        /\ httpRequests[e.by].route \in Http!Together => e.change # 0
        /\ httpRequests[e.by].route \in Http!Afterwards /\ e.change = 0 =>
              HasStep(StepsOf(e.by), "unless")

Books == {Http!Routes[name].books : name \in DOMAIN Http!Routes}
Parts == {"change", "clear", "reserve", "fill", "giveup"}
Made == [by : AllRequests, key : AllKeys \cup {None}, books : Books, part : Parts]
SameKey(i, j) ==
    /\ httpDone[i].key # None
    /\ httpDone[i].key = httpDone[j].key /\ httpDone[i].books = httpDone[j].books
    /\ httpDone[i].part = httpDone[j].part

\* That nothing sent is None is a fact about the constants, kept here for the steps.
HttpTyped ==
    /\ None \notin Http!Sent
    /\ httpRequests \in [AllRequests -> Http!Sent \cup {None}] /\ httpDone \in Seq(Made)

RecordInv ==
    /\ HttpTyped
    /\ \A r \in AllRequests : httpRequests[r] # None => RequestSound(r)
    /\ \A n \in 1 .. Len(httpDone) : ChangeSound(n)
    /\ \A e \in httpEvents : EventSound(e)
    /\ \A i, j \in 1 .. Len(httpDone) : SameKey(i, j) => i = j

\* The record grows.
RecordGrows ==
    /\ HttpTyped /\ HttpTyped' /\ httpEvents \subseteq httpEvents'
    /\ Len(httpDone) <= Len(httpDone')
    /\ \A n \in 1 .. Len(httpDone) : httpDone'[n] = httpDone[n]

\* A request that goes on, or stays where it is.
RequestGoesOn(r) ==
    /\ httpRequests[r] # None /\ httpRequests'[r] # None
    /\ httpRequests'[r].route = httpRequests[r].route
    /\ httpRequests[r].at <= httpRequests'[r].at
    /\ httpRequests[r].change # 0 => httpRequests'[r].change # 0

\* What is on record, and what is settled, stays so.
LEMMA OnBookStays ==
    ASSUME httpEvents \subseteq httpEvents', NEW n, OnBook(n) PROVE OnBook(n)'
BY DEF OnBook

LEMMA SettledStays ==
    ASSUME RecordGrows, NEW n \in 1 .. Len(httpDone)
    PROVE  /\ n \in 1 .. Len(httpDone')
           /\ Ended(n) => Ended(n)'
           /\ Settled(n) => Settled(n)'
<1>1. Len(httpDone) \in Nat /\ Len(httpDone') \in Nat /\ Len(httpDone) <= Len(httpDone')
  BY DEF RecordGrows, HttpTyped
<1>2. \A k \in 1 .. Len(httpDone) : k \in 1 .. Len(httpDone') /\ httpDone'[k] = httpDone[k]
  BY <1>1 DEF RecordGrows
<1>3. Ended(n) => Ended(n)'
  BY <1>2 DEF Ended
<1>4. OnBook(n) => OnBook(n)'
  BY OnBookStays DEF RecordGrows
<1> QED
  BY <1>2, <1>3, <1>4 DEF Settled

\* What the steps of a request are.
LEMMA StepsTyped ==
    ASSUME HttpTyped, NEW r \in AllRequests, httpRequests[r] # None
    PROVE  /\ httpRequests[r] \in Http!Sent /\ httpRequests[r].route \in DOMAIN Http!Routes
           /\ StepsOf(r) = Http!Route(r).steps /\ Whole(StepsOf(r)) /\ Len(StepsOf(r)) \in Nat
           /\ httpRequests[r].at \in Nat
<1>1. httpRequests[r] \in Http!Sent /\ httpRequests[r].route \in DOMAIN Http!Routes
  BY DEF HttpTyped, Http!Sent
<1>2. StepsOf(r) = Http!Route(r).steps
  BY DEF StepsOf, Http!Route
<1>3. Whole(StepsOf(r))
  BY <1>1, RoutesAreWhole DEF StepsOf
<1>4. Len(StepsOf(r)) \in Nat
  BY <1>3 DEF Whole
<1> QED
  BY <1>1, <1>2, <1>3, <1>4 DEF Http!Sent

\* A request that goes on has passed what it had passed.
LEMMA PassedStays ==
    ASSUME HttpTyped, HttpTyped', NEW r \in AllRequests, RequestGoesOn(r)
    PROVE  StepsOf(r)' = StepsOf(r) /\ \A kind : Passed(r, kind) => Passed(r, kind)'
<1>1. StepsOf(r)' = StepsOf(r)
  BY DEF RequestGoesOn, StepsOf
<1>2. /\ httpRequests[r].at \in Nat /\ httpRequests'[r].at \in Nat
      /\ httpRequests[r].at <= httpRequests'[r].at
  BY DEF RequestGoesOn, HttpTyped, Http!Sent
<1>3. Len(StepsOf(r)) \in Nat
  BY StepsTyped DEF RequestGoesOn
<1> QED
  BY <1>1, <1>2, <1>3 DEF Passed

\* The other requests: a longer record takes nothing from them.
LEMMA OthersStaySound ==
    ASSUME RecordGrows, NEW r \in AllRequests, httpRequests[r] # None, RequestSound(r),
           httpRequests'[r] = httpRequests[r],
           \A n \in 1 .. Len(httpDone') : n \notin 1 .. Len(httpDone) => httpDone'[n].by # r
    PROVE  RequestSound(r)'
<1>1. StepsOf(r)' = StepsOf(r)
  BY DEF StepsOf
<1>2. \A kind : Passed(r, kind)' <=> Passed(r, kind)
  BY <1>1 DEF Passed
<1>3. \A n : OnBook(n) => OnBook(n)'
  BY OnBookStays DEF RecordGrows
<1>4. EventBy(r) => EventBy(r)'
  BY DEF RecordGrows, EventBy
<1>5. Len(httpDone) \in Nat /\ Len(httpDone') \in Nat /\ Len(httpDone) <= Len(httpDone')
  BY DEF RecordGrows, HttpTyped
<1>6. httpRequests[r].change \in 0 .. Len(httpDone')
  BY <1>5 DEF RequestSound
<1>7. AllSettled(r) => AllSettled(r)'
  <2> SUFFICES ASSUME AllSettled(r), NEW n \in 1 .. Len(httpDone'), httpDone'[n].by = r
               PROVE  Settled(n)'
    BY DEF AllSettled
  <2>1. n \in 1 .. Len(httpDone) /\ httpDone'[n] = httpDone[n]
    BY DEF RecordGrows
  <2> QED
    BY <2>1, SettledStays DEF AllSettled
<1>8. ASSUME httpRequests[r].change # 0 PROVE Holds(r)'
  <2>1. PICK n \in 1 .. Len(httpDone) : n = httpRequests[r].change
    BY <1>5, <1>8 DEF RequestSound
  <2>2. httpDone'[n] = httpDone[n] /\ Holds(r)
    BY <1>8 DEF RecordGrows, RequestSound
  <2> QED
    BY <1>1, <1>2, <1>3, <2>1, <2>2 DEF Holds
<1> QED
  BY <1>1, <1>2, <1>4, <1>6, <1>7, <1>8 DEF RequestSound

\* The committed changes: whoever made one keeps it, or has settled it.
LEMMA ChangesStaySound ==
    ASSUME RecordGrows, NEW n \in 1 .. Len(httpDone), ChangeSound(n),
           NEW r \in AllRequests, r = httpDone[n].by, RequestGoesOn(r),
           \/ httpRequests'[r].change = httpRequests[r].change
           \/ httpDone[n].part = "clear"
           \/ httpDone[n].part = "reserve" /\ Ended(n)'
    PROVE  ChangeSound(n)'
<1>1. httpDone'[n] = httpDone[n]
  BY DEF RecordGrows
<1>2. httpRequests'[r] # None /\ httpRequests'[r].route = httpRequests[r].route
  BY DEF RequestGoesOn
<1>3. OnBook(n) => OnBook(n)'
  BY OnBookStays DEF RecordGrows
<1>4. Ended(n) => Ended(n)'
  BY SettledStays
<1>5. \A kind : Passed(r, kind) => Passed(r, kind)'
  BY PassedStays DEF RecordGrows
<1>6. "clear" \notin Http!Ending \cup {"change", "reserve"} /\ "reserve" \notin Http!Ending \cup {"change"}
  BY DEF Http!Ending
<1> QED
  BY <1>1, <1>2, <1>3, <1>4, <1>5, <1>6 DEF ChangeSound

\* The audit log: whoever is told of goes on.
LEMMA EventsStaySound ==
    ASSUME RecordGrows, NEW e, EventSound(e), ~e.refusal => RequestGoesOn(e.by)
    PROVE  EventSound(e)'
<1> SUFFICES ASSUME ~e.refusal PROVE EventSound(e)'
  BY DEF EventSound
<1>1. PICK r \in AllRequests : r = e.by /\ RequestGoesOn(r)
  BY DEF EventSound
<1>2. StepsOf(r)' = StepsOf(r)
  BY <1>1 DEF RequestGoesOn, StepsOf
<1>3. Len(httpDone) \in Nat /\ Len(httpDone') \in Nat /\ Len(httpDone) <= Len(httpDone')
  BY DEF RecordGrows, HttpTyped
<1>4. e.change \in 0 .. Len(httpDone')
  BY <1>3 DEF EventSound
<1>5. e.change # 0 => httpDone'[e.change] = httpDone[e.change]
  BY <1>3 DEF EventSound, RecordGrows
<1> QED
  BY <1>1, <1>2, <1>4, <1>5 DEF EventSound, RequestGoesOn

\* A step of one request keeps the invariant when it keeps what is said of that
\* request and of what it adds, and settled whatever it lets go of.
LEMMA StepOfOne ==
    ASSUME RecordInv, RecordGrows, NEW r \in AllRequests,
           httpRequests[r] # None => RequestGoesOn(r),
           \A q \in AllRequests : q # r => httpRequests'[q] = httpRequests[q],
           \A n \in 1 .. Len(httpDone') : n \notin 1 .. Len(httpDone) =>
               httpDone'[n].by = r /\ ChangeSound(n)',
           \A n \in 1 .. Len(httpDone) :
               httpDone[n].by = r =>
                   \/ httpRequests'[r].change = httpRequests[r].change
                   \/ httpDone[n].part = "clear"
                   \/ httpDone[n].part = "reserve" /\ Ended(n)',
           RequestSound(r)', \A e \in httpEvents' \ httpEvents : EventSound(e)',
           \A i, j \in 1 .. Len(httpDone') : SameKey(i, j)' => i = j
    PROVE  RecordInv'
<1>1. \A q \in AllRequests : httpRequests[q] # None => RequestGoesOn(q)
  <2>1. \A q \in AllRequests : httpRequests[q] # None => httpRequests[q].at \in Nat
    BY StepsTyped DEF RecordGrows
  <2> QED
    BY <2>1 DEF RequestGoesOn
<1>2. ASSUME NEW q \in AllRequests, httpRequests'[q] # None PROVE RequestSound(q)'
  <2>1. CASE q = r
    BY <2>1
  <2>2. CASE q # r
    <3>1. httpRequests'[q] = httpRequests[q] /\ httpRequests[q] # None /\ RequestSound(q)
      BY <1>2, <2>2 DEF RecordInv
    <3> QED
      BY <2>2, <3>1, OthersStaySound
  <2> QED
    BY <2>1, <2>2
<1>3. ASSUME NEW n \in 1 .. Len(httpDone') PROVE ChangeSound(n)'
  <2>1. CASE n \in 1 .. Len(httpDone)
    <3>1. ChangeSound(n)
      BY <2>1 DEF RecordInv
    <3>2. PICK q \in AllRequests : q = httpDone[n].by /\ httpRequests[q] # None
      BY <3>1 DEF ChangeSound
    <3>3. RequestGoesOn(q)
      BY <1>1, <3>2
    <3>4. \/ httpRequests'[q].change = httpRequests[q].change
          \/ httpDone[n].part = "clear"
          \/ httpDone[n].part = "reserve" /\ Ended(n)'
      BY <2>1, <3>2
    <3> QED
      BY <2>1, <3>1, <3>2, <3>3, <3>4, ChangesStaySound
  <2>2. CASE n \notin 1 .. Len(httpDone)
    BY <2>2
  <2> QED
    BY <2>1, <2>2
<1>4. ASSUME NEW e \in httpEvents' PROVE EventSound(e)'
  <2>1. CASE e \in httpEvents
    <3>1. EventSound(e)
      BY <2>1 DEF RecordInv
    <3>2. ~e.refusal => RequestGoesOn(e.by)
      BY <1>1, <3>1 DEF EventSound
    <3> QED
      BY <3>1, <3>2, EventsStaySound
  <2> QED
    BY <2>1
<1> QED
  BY <1>2, <1>3, <1>4 DEF RecordInv, RecordGrows

\* A request that moves on, or ends, with the change it has.
LEMMA MoveStep ==
    ASSUME RecordInv, NEW r \in AllRequests, httpRequests[r] # None, NEW line \in Http!Sent,
           httpRequests' = [httpRequests EXCEPT ![r] = line],
           line.route = httpRequests[r].route, line.change = httpRequests[r].change,
           httpRequests[r].at <= line.at, UNCHANGED httpDone, httpEvents \subseteq httpEvents',
           RequestSound(r)', \A e \in httpEvents' \ httpEvents : EventSound(e)'
    PROVE  RecordInv'
<1>1. HttpTyped /\ HttpTyped'
  BY DEF RecordInv, HttpTyped
<1>2. httpRequests'[r] = line /\ line # None
  <2>1. None \notin Http!Sent
    BY <1>1 DEF HttpTyped
  <2> QED
    BY <1>1, <2>1 DEF HttpTyped
<1>3. \A q \in AllRequests : q # r => httpRequests'[q] = httpRequests[q]
  BY <1>1 DEF HttpTyped
<1>4. RecordGrows
  BY <1>1 DEF RecordGrows, HttpTyped
<1>5. RequestGoesOn(r)
  BY <1>2 DEF RequestGoesOn
<1>6. \A i, j \in 1 .. Len(httpDone') : SameKey(i, j)' => i = j
  BY DEF RecordInv, SameKey
<1>7. \A n \in 1 .. Len(httpDone') : n \in 1 .. Len(httpDone)
  OBVIOUS
<1> QED
  BY <1>2, <1>3, <1>4, <1>5, <1>6, <1>7, StepOfOne

\* Going on passes one step.
LEMMA PassedOne ==
    ASSUME HttpTyped, NEW r \in AllRequests, httpRequests[r] # None,
           httpRequests[r].at \in 1 .. Len(StepsOf(r)),
           httpRequests'[r].route = httpRequests[r].route,
           httpRequests'[r].at = httpRequests[r].at + 1
    PROVE  \A kind : Passed(r, kind)' <=> Passed(r, kind) \/ StepsOf(r)[httpRequests[r].at] = kind
<1>1. PICK steps : steps = StepsOf(r) /\ steps = StepsOf(r)'
  BY DEF StepsOf
<1>2. PICK at \in Nat : at = httpRequests[r].at /\ at \in 1 .. Len(steps)
  BY <1>1, StepsTyped
<1>3. Len(steps) \in Nat
  BY <1>1, StepsTyped
<1>4. \A i \in 1 .. Len(steps) : i < at + 1 <=> i < at \/ i = at
  BY <1>2, <1>3
<1> QED
  BY <1>1, <1>2, <1>4 DEF Passed

LEMMA AtStepHere ==
    ASSUME RecordInv, NEW r \in AllRequests, NEW kinds, Http!AtStep(r, kinds)
    PROVE  /\ httpRequests[r] # None /\ httpRequests[r].status = "running"
           /\ httpRequests[r].at \in 1 .. Len(StepsOf(r))
           /\ StepsOf(r)[httpRequests[r].at] = Http!Step(r)
           /\ StepsOf(r)[httpRequests[r].at] \in kinds
<1>1. httpRequests[r] # None /\ httpRequests[r].status = "running"
  BY DEF Http!AtStep, Http!Running
<1>2. HttpTyped /\ RequestSound(r)
  BY <1>1 DEF RecordInv
<1>3. StepsOf(r) = Http!Route(r).steps /\ Len(StepsOf(r)) \in Nat
  BY <1>1, <1>2, StepsTyped
<1>4. httpRequests[r].at \in 1 .. Len(StepsOf(r))
  BY <1>2, <1>3 DEF Http!AtStep, RequestSound
<1> QED
  BY <1>1, <1>3, <1>4 DEF Http!AtStep, Http!Step

\* The change of a request is one of the changes.
LEMMA ChangeTyped ==
    ASSUME RecordInv, NEW r \in AllRequests, httpRequests[r] # None, httpRequests[r].change # 0
    PROVE  /\ httpRequests[r].change \in 1 .. Len(httpDone) /\ httpRequests[r].change \in Nat
           /\ httpDone[httpRequests[r].change].part \in Parts
<1>1. Len(httpDone) \in Nat /\ httpDone \in Seq(Made)
  BY DEF RecordInv, HttpTyped
<1>2. httpRequests[r].change \in 1 .. Len(httpDone)
  BY <1>1 DEF RecordInv, RequestSound
<1>3. httpDone[httpRequests[r].change] \in Made
  BY <1>1, <1>2
<1> QED
  BY <1>1, <1>2, <1>3 DEF Made

\* Before a step that nothing trails, no change was made and no order was ended:
\* whatever the request did was cleared, or reserved, and the reserve was ended,
\* unless it is being filled.
LEMMA NothingDoneYet ==
    ASSUME RecordInv, NEW r \in AllRequests, httpRequests[r] # None,
           httpRequests[r].at \in 1 .. Len(StepsOf(r)),
           StepsOf(r)[httpRequests[r].at] \notin Trailing
    PROVE  /\ ~Passed(r, "change") /\ ~Passed(r, "fill")
           /\ \A n \in 1 .. Len(httpDone) : httpDone[n].by = r =>
                  \/ httpDone[n].part = "clear"
                  \/ httpDone[n].part = "reserve" /\ Ended(n)
                  \/ httpDone[n].part = "reserve" /\ StepsOf(r)[httpRequests[r].at] = "fill"
<1>1. Whole(StepsOf(r)) /\ Len(StepsOf(r)) \in Nat /\ RequestSound(r)
  BY StepsTyped DEF RecordInv
<1>2. ASSUME NEW kind \in Http!Effects, Passed(r, kind) PROVE FALSE
  <2>1. PICK i \in 1 .. Len(StepsOf(r)) : i < httpRequests[r].at /\ StepsOf(r)[i] = kind
    BY <1>2 DEF Passed
  <2> QED
    BY <1>1, <1>2, <2>1 DEF Whole, Orderly
<1>3. ~Passed(r, "change") /\ ~Passed(r, "fill")
  BY <1>2 DEF Http!Effects
<1>4. ASSUME NEW n \in 1 .. Len(httpDone), httpDone[n].by = r
      PROVE  \/ httpDone[n].part = "clear"
             \/ httpDone[n].part = "reserve" /\ Ended(n)
             \/ httpDone[n].part = "reserve" /\ StepsOf(r)[httpRequests[r].at] = "fill"
  <2>1. ChangeSound(n)
    BY DEF RecordInv
  <2>2. httpDone[n].part \in Parts
    <3>1. httpDone \in Seq(Made)
      BY DEF RecordInv, HttpTyped
    <3>2. httpDone[n] \in Made
      BY <3>1
    <3> QED
      BY <3>2 DEF Made
  <2>3. httpDone[n].part # "change" /\ httpDone[n].part \notin Http!Ending
    BY <1>3, <1>4, <2>1 DEF ChangeSound
  <2>4. httpDone[n].part \in {"clear", "reserve"}
    BY <2>2, <2>3 DEF Parts, Http!Ending
  <2>5. ASSUME httpDone[n].part = "reserve", ~Ended(n)
        PROVE  StepsOf(r)[httpRequests[r].at] = "fill"
    <3>1. httpRequests[r].change = n /\ n # 0
      BY <1>4, <2>1, <2>5 DEF ChangeSound
    <3>2. Holds(r)
      BY <1>1, <3>1 DEF RequestSound
    <3> QED
      BY <2>5, <3>1, <3>2 DEF Holds
  <2> QED
    BY <2>4, <2>5
<1> QED
  BY <1>3, <1>4

\* A request that goes on to a later step without a change: none of the steps it
\* passes makes one, unless it skips it, and what it passes it has told.
LEMMA GoOnStep ==
    ASSUME RecordInv, NEW r \in AllRequests, httpRequests[r] # None,
           httpRequests[r].status = "running",
           httpRequests[r].at \in 1 .. Len(StepsOf(r)),
           NEW next \in 2 .. Len(StepsOf(r)) + 1, httpRequests[r].at < next,
           httpRequests' = [httpRequests EXCEPT ![r].at = next],
           UNCHANGED httpDone, httpEvents \subseteq httpEvents',
           \A i \in 1 .. Len(StepsOf(r)) : httpRequests[r].at <= i /\ i < next =>
               /\ StepsOf(r)[i] # "fill"
               /\ StepsOf(r)[i] = "change" => StepsOf(r)[httpRequests[r].at] = "unless"
               /\ StepsOf(r)[i] = "event" => EventBy(r)',
           \A e \in httpEvents' \ httpEvents : HttpTyped' => EventSound(e)'
    PROVE  RecordInv'
<1>1. HttpTyped
  BY DEF RecordInv
<1>2. PICK line : line = [httpRequests[r] EXCEPT !.at = next]
  OBVIOUS
<1>3. httpRequests[r] \in Http!Sent /\ httpRequests[r].at \in Nat
  BY <1>1, StepsTyped
<1>4. next \in Nat /\ Len(StepsOf(r)) \in Nat
  BY <1>1, StepsTyped
<1>5. line \in Http!Sent
  BY <1>2, <1>3, <1>4 DEF Http!Sent
<1>6. /\ line.route = httpRequests[r].route /\ line.change = httpRequests[r].change
      /\ line.at = next /\ line.status = "running"
  BY <1>2, <1>3 DEF Http!Sent
<1>7. httpRequests' = [httpRequests EXCEPT ![r] = line]
  BY <1>1, <1>2 DEF HttpTyped
<1>8. httpRequests'[r] = line /\ HttpTyped'
  BY <1>1, <1>5, <1>7 DEF HttpTyped
<1>9. PICK at \in 1 .. Len(StepsOf(r)) : at = httpRequests[r].at
  OBVIOUS
<1>10. StepsOf(r)' = StepsOf(r)
  BY <1>6, <1>8 DEF StepsOf
<1>11. RequestSound(r) /\ Whole(StepsOf(r))
  BY <1>1, StepsTyped DEF RecordInv
<1>12. \A kind : Passed(r, kind)' <=>
           \/ Passed(r, kind)
           \/ \E i \in 1 .. Len(StepsOf(r)) : at <= i /\ i < next /\ StepsOf(r)[i] = kind
  <2>1. \A i \in 1 .. Len(StepsOf(r)) : i < next <=> i < at \/ (at <= i /\ i < next)
    BY <1>4, <1>9
  <2> QED
    BY <1>6, <1>8, <1>9, <1>10, <2>1 DEF Passed
<1>13. Passed(r, "event")' => EventBy(r)'
  <2>1. EventBy(r) => EventBy(r)'
    BY DEF EventBy
  <2> QED
    BY <1>9, <1>11, <1>12, <2>1 DEF RequestSound
<1>14. ASSUME httpRequests[r].change = 0, Passed(r, "change")' \/ Passed(r, "fill")'
       PROVE  HasStep(StepsOf(r), "unless")
  <2>1. CASE Passed(r, "change") \/ Passed(r, "fill")
    BY <1>11, <1>14, <2>1 DEF RequestSound
  <2>2. CASE ~Passed(r, "change") /\ ~Passed(r, "fill")
    BY <1>9, <1>12, <1>14, <2>2 DEF HasStep
  <2> QED
    BY <2>1, <2>2
<1>15. ASSUME httpRequests[r].change # 0 PROVE Holds(r)'
  <2>1. PICK n \in 1 .. Len(httpDone) : n = httpRequests[r].change
    BY <1>15, ChangeTyped
  <2>2. Holds(r)
    BY <1>11, <1>15 DEF RequestSound
  <2>3. httpDone[n].part # "reserve"
    <3>1. StepsOf(r)[at] # "fill"
      BY <1>4, <1>9
    <3> QED
      BY <1>9, <2>1, <2>2, <3>1 DEF Holds
  <2>4. ASSUME httpDone[n].part = "clear"
        PROVE  /\ Passed(r, "clear")'
               /\ \E j \in 1 .. Len(StepsOf(r)) : next <= j /\ StepsOf(r)[j] = "change"
    <3>1. Passed(r, "clear")
      BY <2>1, <2>2, <2>4 DEF Holds
    <3>2. PICK j \in 1 .. Len(StepsOf(r)) : at <= j /\ StepsOf(r)[j] = "change"
      BY <1>9, <2>1, <2>2, <2>4 DEF Holds
    <3>3. PICK i \in 1 .. Len(StepsOf(r)) : i < at /\ StepsOf(r)[i] = "clear"
      BY <1>9, <3>1 DEF Passed
    <3>4. StepsOf(r)[at] # "unless"
      BY <1>9, <1>11, <3>3 DEF Whole, Orderly
    <3>5. ~(j < next)
      BY <1>9, <3>2, <3>4
    <3> QED
      BY <1>4, <1>12, <3>1, <3>2, <3>5
  <2>5. \A m : OnBook(m) => OnBook(m)'
    BY OnBookStays
  <2>6. httpRequests'[r].change = n /\ httpDone'[n] = httpDone[n]
    BY <1>6, <1>8, <2>1
  <2>7. httpDone[n].part # "giveup"
    BY <2>1, <2>2 DEF Holds
  <2> QED
    BY <1>6, <1>8, <1>10, <2>1, <2>2, <2>3, <2>4, <2>5, <2>6, <2>7 DEF Holds
<1>16. RequestSound(r)'
  <2>1. httpRequests[r].change \in 0 .. Len(httpDone)
    BY <1>11 DEF RequestSound
  <2>2. next \in 1 .. Len(StepsOf(r)) + 1
    BY <1>4
  <2> QED
    BY <1>6, <1>8, <1>10, <1>13, <1>14, <1>15, <2>1, <2>2 DEF RequestSound
<1>17. httpRequests[r].at <= line.at
  BY <1>3, <1>4, <1>6
<1> QED
  BY <1>5, <1>6, <1>7, <1>8, <1>16, <1>17, MoveStep

\* One step further.
LEMMA GoStep ==
    ASSUME RecordInv, NEW r \in AllRequests, httpRequests[r] # None,
           httpRequests[r].status = "running",
           httpRequests[r].at \in 1 .. Len(StepsOf(r)),
           StepsOf(r)[httpRequests[r].at] \notin Http!Effects,
           Http!Go(r), UNCHANGED httpDone, httpEvents \subseteq httpEvents',
           StepsOf(r)[httpRequests[r].at] = "event" => EventBy(r)',
           \A e \in httpEvents' \ httpEvents : HttpTyped' => EventSound(e)'
    PROVE  RecordInv'
<1>1. Len(StepsOf(r)) \in Nat /\ httpRequests[r] \in Http!Sent /\ HttpTyped
  BY StepsTyped DEF RecordInv
<1>2. PICK next \in 2 .. Len(StepsOf(r)) + 1 : next = httpRequests[r].at + 1
  BY <1>1
<1>3. httpRequests' = [httpRequests EXCEPT ![r].at = next]
  BY <1>1, <1>2 DEF Http!Go, HttpTyped
<1>4. httpRequests[r].at < next
  BY <1>1, <1>2
<1>5. \A i \in 1 .. Len(StepsOf(r)) :
          httpRequests[r].at <= i /\ i < next => i = httpRequests[r].at
  BY <1>1, <1>2
<1> QED
  BY <1>2, <1>3, <1>4, <1>5, GoOnStep DEF Http!Effects

LEMMA EndStep ==
    ASSUME RecordInv, NEW r \in AllRequests, httpRequests[r] # None,
           NEW status \in {"telling", "refused", "failed", "done", "lost"},
           Http!End(r, status), UNCHANGED httpDone, httpEvents \subseteq httpEvents',
           status \in {"telling", "refused"} => AllSettled(r),
           status = "done" =>
               httpRequests[r].at = Len(StepsOf(r)) + 1 /\ httpRequests[r].status = "running",
           \A e \in httpEvents' \ httpEvents : e.refusal
    PROVE  RecordInv'
<1>1. HttpTyped
  BY DEF RecordInv
<1>2. PICK line : line = [httpRequests[r] EXCEPT !.status = status]
  OBVIOUS
<1>3. httpRequests[r] \in Http!Sent /\ httpRequests[r].at \in Nat
  BY <1>1, StepsTyped
<1>4. line \in Http!Sent
  BY <1>2, <1>3 DEF Http!Sent
<1>5. /\ line.route = httpRequests[r].route /\ line.change = httpRequests[r].change
      /\ line.at = httpRequests[r].at /\ line.status = status
  BY <1>2, <1>3 DEF Http!Sent
<1>6. httpRequests' = [httpRequests EXCEPT ![r] = line]
  BY <1>1, <1>2 DEF Http!End, HttpTyped
<1>7. httpRequests'[r] = line /\ HttpTyped'
  BY <1>1, <1>4, <1>6 DEF HttpTyped
<1>8. RequestSound(r)'
  <2>1. RequestSound(r)
    BY DEF RecordInv
  <2>2. StepsOf(r)' = StepsOf(r)
    BY <1>5, <1>7 DEF StepsOf
  <2>3. \A kind : Passed(r, kind)' <=> Passed(r, kind)
    BY <1>5, <1>7, <2>2 DEF Passed
  <2>4. \A n : OnBook(n) => OnBook(n)'
    BY OnBookStays
  <2>5. AllSettled(r) => AllSettled(r)'
    <3>1. \A n \in 1 .. Len(httpDone) : Settled(n) => Settled(n)'
      BY <2>4 DEF Settled, Ended
    <3> QED
      BY <3>1 DEF AllSettled
  <2>6. EventBy(r) => EventBy(r)'
    BY DEF EventBy
  <2>7. httpRequests[r].change # 0 => Holds(r)'
    BY <1>5, <1>7, <2>1, <2>2, <2>3, <2>4 DEF RequestSound, Holds
  <2> QED
    BY <1>5, <1>7, <2>1, <2>2, <2>3, <2>5, <2>6, <2>7 DEF RequestSound
<1>9. httpRequests[r].at <= line.at
  BY <1>3, <1>5
<1>10. \A e \in httpEvents' \ httpEvents : EventSound(e)'
  BY DEF EventSound
<1> QED
  BY <1>4, <1>5, <1>6, <1>8, <1>9, <1>10, MoveStep

LEMMA PassStep ==
    ASSUME RecordInv, NEW r \in AllRequests, Http!Pass(r) PROVE RecordInv'
<1>1. PICK kinds : /\ kinds = {"token", "session", "user", "admin", "open", "eligible", "valid",
                               "look", "list", "price", "give", "fresh", "unless", "clear",
                               "agree"}
                   /\ Http!AtStep(r, kinds)
  BY DEF Http!Pass
<1>2. /\ httpRequests[r] # None /\ httpRequests[r].status = "running"
      /\ httpRequests[r].at \in 1 .. Len(StepsOf(r))
      /\ StepsOf(r)[httpRequests[r].at] \in kinds
  BY <1>1, AtStepHere
<1>3. \A kind \in kinds : kind \notin Http!Effects /\ kind # "event"
  BY <1>1 DEF Http!Effects
<1>4. Http!Go(r) /\ UNCHANGED httpDone /\ httpEvents' = httpEvents
  BY DEF Http!Pass
<1> QED
  BY <1>2, <1>3, <1>4, GoStep

LEMMA SkipStep ==
    ASSUME RecordInv, NEW r \in AllRequests, Http!Skip(r) PROVE RecordInv'
<1>1. Http!AtStep(r, {"unless"}) /\ httpDone' = httpDone /\ httpEvents' = httpEvents
  BY DEF Http!Skip
<1>2. /\ httpRequests[r] # None /\ httpRequests[r].status = "running"
      /\ httpRequests[r].at \in 1 .. Len(StepsOf(r))
      /\ StepsOf(r)[httpRequests[r].at] = "unless"
  BY <1>1, AtStepHere
<1>3. /\ StepsOf(r) = Http!Route(r).steps /\ Whole(StepsOf(r)) /\ Len(StepsOf(r)) \in Nat
      /\ DOMAIN StepsOf(r) = 1 .. Len(StepsOf(r))
  <2>1. StepsOf(r) = Http!Route(r).steps /\ Whole(StepsOf(r)) /\ Len(StepsOf(r)) \in Nat
    BY <1>2, StepsTyped DEF RecordInv
  <2> QED
    BY <2>1 DEF Whole
<1>4. PICK i \in 1 .. Len(StepsOf(r)) :
          /\ StepsOf(r)[i] = "change"
          /\ httpRequests' = [httpRequests EXCEPT ![r].at = i + 1]
  BY <1>3 DEF Http!Skip
<1>5. PICK at \in 1 .. Len(StepsOf(r)) : at = httpRequests[r].at
  BY <1>2
<1>6. at < i
  <2>1. ~(i < at)
    BY <1>2, <1>3, <1>4, <1>5 DEF Whole, Orderly, Trailing, Tellings, Http!Effects
  <2> QED
    BY <1>2, <1>3, <1>4, <1>5, <2>1
<1>7. ASSUME NEW k \in 1 .. Len(StepsOf(r)), k < i
      PROVE  StepsOf(r)[k] # "fill" /\ StepsOf(r)[k] # "event"
  <2>1. /\ StepsOf(r)[k] \in Http!Effects => StepsOf(r)[i] \in Trailing
        /\ StepsOf(r)[k] \in Tellings => i < k
    BY <1>3, <1>4, <1>7 DEF Whole, Orderly, Http!Effects
  <2> QED
    BY <1>3, <1>4, <1>7, <2>1 DEF Trailing, Tellings, Http!Effects
<1>8. PICK next \in 2 .. Len(StepsOf(r)) + 1 : next = i + 1
  BY <1>3
<1>9. \A k \in 1 .. Len(StepsOf(r)) : at <= k /\ k < next =>
          /\ StepsOf(r)[k] # "fill"
          /\ StepsOf(r)[k] = "change" => StepsOf(r)[at] = "unless"
          /\ StepsOf(r)[k] # "event"
  <2>1. \A k \in 1 .. Len(StepsOf(r)) : k < next => k < i \/ k = i
    BY <1>3, <1>8
  <2> QED
    BY <1>2, <1>4, <1>5, <1>7, <2>1
<1>10. httpRequests[r].at < next /\ httpRequests' = [httpRequests EXCEPT ![r].at = next]
  BY <1>3, <1>4, <1>5, <1>6, <1>8
<1> QED
  BY <1>1, <1>2, <1>5, <1>8, <1>9, <1>10, GoOnStep

LEMMA RefuseStep ==
    ASSUME RecordInv, NEW r \in AllRequests, Http!Refuse(r) PROVE RecordInv'
<1>1. PICK kinds : /\ kinds = {"token", "user", "admin", "open", "eligible", "valid", "look",
                               "price", "change", "reserve", "retired"}
                   /\ \/ Http!AtStep(r, kinds)
                      \/ Http!AtStep(r, {"agree"}) /\ Http!Recorded(httpRequests[r].change)
  BY DEF Http!Refuse
<1>2. /\ httpRequests[r] # None /\ httpRequests[r].at \in 1 .. Len(StepsOf(r))
      /\ \/ StepsOf(r)[httpRequests[r].at] \in kinds
         \/ StepsOf(r)[httpRequests[r].at] = "agree" /\ OnBook(httpRequests[r].change)
  <2>1. CASE Http!AtStep(r, kinds)
    BY <2>1, AtStepHere
  <2>2. CASE Http!AtStep(r, {"agree"}) /\ Http!Recorded(httpRequests[r].change)
    BY <2>2, AtStepHere DEF Http!Recorded, OnBook
  <2> QED
    BY <1>1, <2>1, <2>2
<1>3. AllSettled(r)
  <2>1. CASE StepsOf(r)[httpRequests[r].at] \in kinds
    <3>1. \A kind \in kinds : kind \notin Trailing /\ kind # "fill"
      BY <1>1 DEF Trailing, Tellings
    <3> QED
      BY <1>2, <2>1, <3>1, NothingDoneYet DEF AllSettled, Settled
  <2>2. CASE StepsOf(r)[httpRequests[r].at] = "agree" /\ OnBook(httpRequests[r].change)
    <3> SUFFICES ASSUME NEW n \in 1 .. Len(httpDone), httpDone[n].by = r PROVE Settled(n)
      BY DEF AllSettled
    <3>1. ChangeSound(n) /\ RequestSound(r)
      BY <1>2 DEF RecordInv
    <3>2. httpDone[n].part \in Parts
      <4>1. httpDone \in Seq(Made)
        BY DEF RecordInv, HttpTyped
      <4>2. httpDone[n] \in Made
        BY <4>1
      <4> QED
        BY <4>2 DEF Made
    <3>3. CASE httpRequests[r].change = n
      BY <2>2, <3>3 DEF Settled
    <3>4. CASE httpRequests[r].change # n
      BY <3>1, <3>2, <3>4 DEF ChangeSound, Settled, Parts, Http!Ending
    <3> QED
      BY <3>3, <3>4
  <2> QED
    BY <1>2, <2>1, <2>2
<1>4. PICK status \in {"telling", "refused"} : Http!End(r, status)
  BY DEF Http!Refuse, Http!Refusal
<1>5. UNCHANGED httpDone /\ httpEvents' = httpEvents
  BY DEF Http!Refuse
<1>6. status \in {"telling", "refused", "failed", "done", "lost"} /\ status # "done"
  BY <1>4
<1> QED
  BY <1>2, <1>3, <1>4, <1>5, <1>6, EndStep

LEMMA TellStep ==
    ASSUME RecordInv, NEW r \in AllRequests, Http!Tell(r) PROVE RecordInv'
<1>1. httpRequests[r] # None /\ httpRequests[r].status = "telling" /\ UNCHANGED httpDone
  BY DEF Http!Tell
<1>2. AllSettled(r)
  BY <1>1 DEF RecordInv, RequestSound
<1>3. PICK e : e = [by |-> r, change |-> 0, refusal |-> TRUE]
  OBVIOUS
<1>4. PICK status \in {"refused", "failed"} :
          Http!End(r, status) /\ (httpEvents' = httpEvents \/ httpEvents' = httpEvents \cup {e})
  BY <1>3 DEF Http!Tell
<1>5. e.refusal = TRUE
  BY <1>3
<1>6. httpEvents \subseteq httpEvents' /\ \A f \in httpEvents' \ httpEvents : f.refusal
  BY <1>4, <1>5
<1>7. status \in {"telling", "refused", "failed", "done", "lost"} /\ status # "done"
  BY <1>4
<1> QED
  BY <1>1, <1>2, <1>4, <1>6, <1>7, EndStep

LEMMA FailStep ==
    ASSUME RecordInv, NEW r \in AllRequests, Http!Fail(r) PROVE RecordInv'
<1>1. httpRequests[r] # None
  BY DEF Http!Fail, Http!AtStep, Http!Running
<1>2. PICK status : status = "failed"
  OBVIOUS
<1>3. Http!End(r, status) /\ UNCHANGED httpDone /\ httpEvents' = httpEvents
  BY <1>2 DEF Http!Fail
<1>4. /\ status \in {"telling", "refused", "failed", "done", "lost"}
      /\ status # "done" /\ status \notin {"telling", "refused"}
  BY <1>2
<1> QED
  BY <1>1, <1>3, <1>4, EndStep

LEMMA AnswerStep ==
    ASSUME RecordInv, NEW r \in AllRequests, Http!Answer(r) PROVE RecordInv'
<1>1. /\ httpRequests[r] # None /\ httpRequests[r].status = "running"
      /\ RequestSound(r) /\ HttpTyped
  BY DEF Http!Answer, Http!Running, RecordInv
<1>2. StepsOf(r) = Http!Route(r).steps /\ Len(StepsOf(r)) \in Nat
  BY <1>1, StepsTyped
<1>3. httpRequests[r].at = Len(StepsOf(r)) + 1
  BY <1>1, <1>2 DEF Http!Answer, RequestSound
<1>4. PICK status : status = "done"
  OBVIOUS
<1>5. Http!End(r, status) /\ UNCHANGED httpDone /\ httpEvents' = httpEvents
  BY <1>4 DEF Http!Answer
<1>6. /\ status \in {"telling", "refused", "failed", "done", "lost"}
      /\ status \notin {"telling", "refused"}
  BY <1>4
<1> QED
  BY <1>1, <1>3, <1>5, <1>6, EndStep

LEMMA HttpRecordStep ==
    ASSUME RecordInv, NEW r \in AllRequests, Http!Record(r) PROVE RecordInv'
<1>1. Http!AtStep(r, {"event", "announce"}) /\ Http!Go(r) /\ UNCHANGED httpDone
  BY DEF Http!Record
<1>2. /\ httpRequests[r] # None /\ httpRequests[r].status = "running"
      /\ httpRequests[r].at \in 1 .. Len(StepsOf(r))
      /\ StepsOf(r)[httpRequests[r].at] \in {"event", "announce"}
  BY <1>1, AtStepHere
<1>3. PICK e : e = Http!Telling(r)
  OBVIOUS
<1>4. ~e.refusal /\ e.by = r /\ e.change = httpRequests[r].change
  BY <1>3 DEF Http!Telling
<1>5. httpEvents' = httpEvents \cup {e}
  BY <1>3 DEF Http!Record
<1>6. HttpTyped /\ RequestSound(r) /\ Len(StepsOf(r)) \in Nat /\ Whole(StepsOf(r))
  BY <1>2, StepsTyped DEF RecordInv
<1>7. StepsOf(r)[httpRequests[r].at] \in Tellings
  BY <1>2 DEF Tellings
<1>8. ASSUME httpRequests[r].route \in TellsOfChange, httpRequests[r].change = 0
      PROVE  HasStep(StepsOf(r), "unless")
  <2>1. PICK i \in 1 .. Len(StepsOf(r)) : StepsOf(r)[i] \in {"change", "fill"}
    BY <1>8, RoutesChange DEF TellsOfChange, StepsOf, Makes, HasStep
  <2>2. i < httpRequests[r].at
    BY <1>2, <1>6, <1>7, <2>1 DEF Whole, Orderly, Http!Effects
  <2>3. Passed(r, "change") \/ Passed(r, "fill")
    BY <2>1, <2>2 DEF Passed
  <2> QED
    BY <1>6, <1>8, <2>3 DEF RequestSound
<1>9. ASSUME httpRequests[r].route \in Http!Together PROVE ~HasStep(StepsOf(r), "unless")
  <2>1. Quiet(StepsOf(r))
    BY <1>9, RoutesAreQuiet DEF StepsOf
  <2>2. HasStep(StepsOf(r), "event") \/ HasStep(StepsOf(r), "announce")
    BY <1>2 DEF HasStep
  <2> QED
    BY <2>1, <2>2 DEF Quiet
<1>10. ASSUME httpRequests[r].change # 0
       PROVE  httpDone[httpRequests[r].change].part \in Http!Effects \cup Http!Ending
  <2>1. PICK n \in 1 .. Len(httpDone) : n = httpRequests[r].change /\ httpDone[n].part \in Parts
    BY <1>2, <1>10, ChangeTyped
  <2>2. Holds(r)
    BY <1>6, <1>10 DEF RequestSound
  <2>3. httpDone[n].part # "reserve"
    BY <1>2, <2>1, <2>2 DEF Holds
  <2>4. ASSUME httpDone[n].part = "clear" PROVE FALSE
    <3>1. PICK j \in 1 .. Len(StepsOf(r)) : httpRequests[r].at <= j /\ StepsOf(r)[j] = "change"
      BY <2>1, <2>2, <2>4 DEF Holds
    <3>2. j < httpRequests[r].at
      BY <1>2, <1>6, <1>7, <3>1 DEF Whole, Orderly, Http!Effects
    <3> QED
      BY <1>2, <1>6, <3>1, <3>2
  <2> QED
    BY <2>1, <2>3, <2>4 DEF Parts, Http!Effects, Http!Ending
<1>11. ASSUME HttpTyped' PROVE EventSound(e)'
  <2>1. /\ httpRequests'[r] = [httpRequests[r] EXCEPT !.at = @ + 1] /\ httpRequests[r] \in Http!Sent
    BY <1>1, <1>2, <1>6 DEF Http!Go, HttpTyped
  <2>2. /\ httpRequests'[r].route = httpRequests[r].route
        /\ httpRequests'[r].change = httpRequests[r].change
        /\ httpRequests'[r] \in Http!Sent
    BY <2>1 DEF Http!Sent
  <2>3. httpRequests'[r] # None /\ StepsOf(r)' = StepsOf(r)
    BY <2>2, <1>6 DEF HttpTyped, StepsOf
  <2>4. e.change \in 0 .. Len(httpDone') /\ httpDone' = httpDone
    BY <1>1, <1>4, <1>6 DEF RequestSound
  <2> QED
    BY <1>4, <1>8, <1>9, <1>10, <2>2, <2>3, <2>4 DEF EventSound, TellsOfChange
<1>12. /\ httpEvents \subseteq httpEvents' /\ EventBy(r)'
       /\ \A f \in httpEvents' \ httpEvents : HttpTyped' => EventSound(f)'
  BY <1>4, <1>5, <1>11 DEF EventBy
<1>13. StepsOf(r)[httpRequests[r].at] \notin Http!Effects
  BY <1>2 DEF Http!Effects
<1> QED
  BY <1>1, <1>2, <1>12, <1>13, GoStep

\* A key of a request is one of the keys, or none.
LEMMA KeyTyped ==
    ASSUME HttpTyped, NEW r \in AllRequests, httpRequests[r] # None
    PROVE  Http!RequestKey(r) \in AllKeys \cup {None}
<1>1. httpRequests[r].header \in AllKeys \cup {None} /\ httpRequests[r].body \in AllKeys \cup {None}
  BY DEF HttpTyped, Http!Sent
<1> QED
  BY <1>1 DEF Http!RequestKey

\* A transaction of a request: nothing of it was done before but what is settled
\* now, it has no key that was used, and what it is for is told within it.
LEMMA CommitStep ==
    ASSUME RecordInv, NEW r \in AllRequests, NEW kind \in {"change", "clear", "reserve", "fill"},
           Http!AtStep(r, {kind}),
           NEW piece \in Parts, piece = kind \/ (kind = "fill" /\ piece = "giveup"),
           NEW told \in BOOLEAN, NEW statuses \in SUBSET {"running", "failed", "telling", "refused"},
           Http!Committed(r, piece, told, statuses),
           piece \in {"change", "reserve"} => Http!Found(r) = {},
           piece \in Http!Ending => told,
           piece = "change" /\ WritesAtOnce(Http!Route(r)) => told,
           told => piece \in Http!Effects \cup Http!Ending,
           piece = "giveup" => "running" \notin statuses,
           piece \notin Http!Ending => statuses = {"running", "failed"}
    PROVE  RecordInv'
<1>1. /\ httpRequests[r] # None /\ httpRequests[r].at \in 1 .. Len(StepsOf(r))
      /\ StepsOf(r)[httpRequests[r].at] = kind /\ Http!Step(r) = kind
  BY AtStepHere
<1>2. HttpTyped /\ RequestSound(r)
  BY <1>1 DEF RecordInv
<1>3. PICK route : route = Http!Route(r)
  OBVIOUS
<1>4. route = Http!Routes[httpRequests[r].route] /\ httpRequests[r].route \in DOMAIN Http!Routes
  BY <1>1, <1>2, <1>3, StepsTyped DEF Http!Route
<1>5. PICK key : key = IF route.books # None /\ piece \in {"change", "reserve"}
                       THEN Http!RequestKey(r) ELSE None
  OBVIOUS
<1>6. PICK made : made = [by |-> r, key |-> key, books |-> route.books, part |-> piece]
  OBVIOUS
<1>7. made \in Made
  <2>1. key \in AllKeys \cup {None}
    BY <1>1, <1>2, <1>5, KeyTyped
  <2>2. route.books \in Books
    BY <1>4 DEF Books
  <2> QED
    BY <1>6, <2>1, <2>2 DEF Made
<1>8. PICK n \in Nat : n = Len(httpDone) + 1
  BY <1>2 DEF HttpTyped
<1>9. httpDone' = Append(httpDone, made)
  BY <1>3, <1>5, <1>6 DEF Http!Committed
<1>10. /\ httpDone' \in Seq(Made) /\ Len(httpDone') = n /\ httpDone'[n] = made
       /\ \A i \in 1 .. Len(httpDone) : httpDone'[i] = httpDone[i]
       /\ Len(httpDone) \in Nat
  BY <1>2, <1>7, <1>8, <1>9 DEF HttpTyped
<1>11. made.by = r /\ made.key = key /\ made.books = route.books /\ made.part = piece
  BY <1>6
<1>12. PICK e : e = [by |-> r, change |-> n, refusal |-> FALSE]
  OBVIOUS
<1>13. ~e.refusal /\ e.by = r /\ e.change = n
  BY <1>12
<1>14. httpEvents' = httpEvents \cup IF told THEN {e} ELSE {}
  BY <1>8, <1>12 DEF Http!Committed
<1>15. PICK status \in statuses :
          httpRequests' = [httpRequests EXCEPT ![r].change = n, ![r].at = @ + 1,
                                                  ![r].status = status]
  BY <1>8 DEF Http!Committed
<1>16. httpRequests[r] \in Http!Sent /\ httpRequests[r].at \in Nat
  BY <1>1, <1>2, StepsTyped
<1>17. PICK line : line = [httpRequests[r] EXCEPT !.change = n, !.at = @ + 1, !.status = status]
  OBVIOUS
<1>18. line \in Http!Sent
  <2>1. PICK next \in Nat : next = httpRequests[r].at + 1
    BY <1>16
  <2>2. PICK moved : moved = [httpRequests[r] EXCEPT !.change = n, !.at = next]
    OBVIOUS
  <2>3. moved \in Http!Sent
    BY <1>16, <2>2 DEF Http!Sent
  <2>4. line = [moved EXCEPT !.status = status]
    BY <1>16, <1>17, <2>1, <2>2 DEF Http!Sent
  <2>5. status \in {"running", "telling", "refused", "failed", "done", "lost"}
    OBVIOUS
  <2> QED
    BY <2>3, <2>4, <2>5 DEF Http!Sent
<1>19. /\ line.route = httpRequests[r].route /\ line.change = n
       /\ line.at = httpRequests[r].at + 1 /\ line.status = status
  BY <1>16, <1>17 DEF Http!Sent
<1>20. httpRequests' = [httpRequests EXCEPT ![r] = line]
  BY <1>2, <1>15, <1>17 DEF HttpTyped
<1>21. httpRequests'[r] = line /\ line # None /\ HttpTyped'
  <2>1. None \notin Http!Sent
    BY <1>2 DEF HttpTyped
  <2> QED
    BY <1>2, <1>10, <1>18, <1>20, <2>1 DEF HttpTyped
<1>22. \A q \in AllRequests : q # r => httpRequests'[q] = httpRequests[q]
  BY <1>2, <1>20 DEF HttpTyped
<1>23. /\ n # 0 /\ n \in 1 .. Len(httpDone') /\ Len(httpDone) <= Len(httpDone')
       /\ \A m \in 1 .. Len(httpDone') : m \in 1 .. Len(httpDone) \/ m = n
  BY <1>8, <1>10
<1>24. RecordGrows
  BY <1>2, <1>10, <1>14, <1>21, <1>23 DEF RecordGrows
<1>25. RequestGoesOn(r)
  BY <1>1, <1>16, <1>19, <1>21, <1>23 DEF RequestGoesOn
<1>26. told => OnBook(n)'
  BY <1>13, <1>14 DEF OnBook
<1>27. \A other : Passed(r, other)' <=> Passed(r, other) \/ kind = other
  BY <1>1, <1>2, <1>19, <1>21, PassedOne
<1>28. kind \notin Trailing /\ kind \notin Tellings
  BY DEF Trailing, Tellings
<1>29. \A m \in 1 .. Len(httpDone) : httpDone[m].by = r =>
           \/ httpDone[m].part = "clear"
           \/ httpDone[m].part = "reserve" /\ Ended(m)'
  <2> SUFFICES ASSUME NEW m \in 1 .. Len(httpDone), httpDone[m].by = r
               PROVE  \/ httpDone[m].part = "clear"
                      \/ httpDone[m].part = "reserve" /\ Ended(m)'
    OBVIOUS
  <2>1. \/ httpDone[m].part = "clear"
        \/ httpDone[m].part = "reserve" /\ Ended(m)
        \/ httpDone[m].part = "reserve" /\ kind = "fill"
    BY <1>1, <1>28, NothingDoneYet
  <2>2. Ended(m) => Ended(m)'
    BY <1>24, SettledStays
  <2>3. ASSUME kind = "fill" PROVE Ended(m)'
    <3>1. made.part \in Http!Ending
      BY <1>11, <2>3 DEF Http!Ending
    <3>2. httpDone'[n].by = httpDone'[m].by /\ httpDone'[n].part \in Http!Ending
      BY <1>10, <1>11, <3>1
    <3> QED
      BY <1>23, <3>2 DEF Ended
  <2> QED
    BY <2>1, <2>2, <2>3
<1>30. ChangeSound(n)'
  <2>1. /\ httpDone'[n].by = r /\ httpDone'[n].books = route.books /\ httpDone'[n].part = piece
        /\ route.books = None => httpDone'[n].key = None
    BY <1>5, <1>10, <1>11
  <2>2. httpRequests'[r].change = n /\ Http!Routes[httpRequests'[r].route] = route
    BY <1>4, <1>19, <1>21
  <2>3. piece = "change" => Passed(r, "change")'
    BY <1>27
  <2>4. piece \in Http!Ending => Passed(r, "fill")'
    BY <1>27 DEF Http!Ending
  <2>5. piece = "change" /\ WritesAtOnce(route) => OnBook(n)'
    BY <1>3, <1>26
  <2>6. piece \in Http!Ending => OnBook(n)'
    BY <1>26
  <2> QED
    BY <1>21, <2>1, <2>2, <2>3, <2>4, <2>5, <2>6 DEF ChangeSound
<1>31. StepsOf(r)' = StepsOf(r) /\ Len(StepsOf(r)) \in Nat /\ Whole(StepsOf(r))
  BY <1>1, <1>2, <1>19, <1>21, StepsTyped DEF StepsOf
<1>32. PICK at \in 1 .. Len(StepsOf(r)) : at = httpRequests[r].at
  BY <1>1
<1>33. Holds(r)'
  <2>1. httpRequests'[r].change = n /\ httpDone'[n].part = piece
    BY <1>10, <1>11, <1>19, <1>21
  <2>2. ASSUME piece = "reserve"
        PROVE  at + 1 \in 1 .. Len(StepsOf(r)) /\ StepsOf(r)[at + 1] = "fill"
    BY <1>1, <1>31, <1>32, <2>2 DEF Whole, Orderly
  <2>3. ASSUME piece = "clear"
        PROVE  \E j \in 1 .. Len(StepsOf(r)) : at + 1 <= j /\ StepsOf(r)[j] = "change"
    <3>1. PICK j \in 1 .. Len(StepsOf(r)) : at < j /\ StepsOf(r)[j] = "change"
      BY <1>1, <1>31, <1>32, <2>3 DEF Whole, Orderly
    <3> QED
      BY <1>31, <3>1
  <2>4. piece = "clear" => Passed(r, "clear")'
    BY <1>27
  <2>5. piece = "giveup" => status \notin {"running", "done"}
    OBVIOUS
  <2>6. ASSUME piece \in {"change", "fill", "giveup"}, httpRequests[r].route \in Http!Together
        PROVE  OnBook(n)'
    <3>1. CASE piece = "change"
      BY <1>3, <1>4, <1>26, <2>6, <3>1, RoutesWithin
    <3>2. CASE piece # "change"
      BY <1>26, <2>6, <3>2 DEF Http!Ending
    <3> QED
      BY <3>1, <3>2
  <2> QED
    BY <1>19, <1>21, <1>31, <1>32, <2>1, <2>2, <2>3, <2>4, <2>5, <2>6 DEF Holds
<1>34. ASSUME status \in {"telling", "refused"} PROVE AllSettled(r)'
  <2> SUFFICES ASSUME NEW m \in 1 .. Len(httpDone'), httpDone'[m].by = r PROVE Settled(m)'
    BY DEF AllSettled
  <2>1. piece \in Http!Ending
    BY <1>34
  <2>2. CASE m = n
    BY <1>26, <2>1, <2>2 DEF Settled
  <2>3. CASE m \in 1 .. Len(httpDone)
    BY <1>10, <1>29, <2>3 DEF Settled
  <2> QED
    BY <1>23, <2>2, <2>3
<1>35. RequestSound(r)'
  <2>1. Passed(r, "event")' => EventBy(r)'
    <3>1. EventBy(r) => EventBy(r)'
      BY <1>14 DEF EventBy
    <3> QED
      BY <1>2, <1>27, <3>1 DEF RequestSound
  <2>2. status # "done" /\ at + 1 \in 1 .. Len(StepsOf(r)) + 1 /\ n \in 0 .. Len(httpDone')
    BY <1>23, <1>31
  <2> QED
    BY <1>19, <1>21, <1>23, <1>31, <1>32, <1>33, <1>34, <2>1, <2>2 DEF RequestSound
<1>36. ASSUME NEW f \in httpEvents' \ httpEvents PROVE EventSound(f)'
  <2>1. f = e /\ told
    BY <1>14, <1>36
  <2>2. httpDone'[n].part \in Http!Effects \cup Http!Ending
    BY <1>10, <1>11, <2>1
  <2>3. n \in 0 .. Len(httpDone') /\ httpRequests'[r].change # 0
    BY <1>19, <1>21, <1>23
  <2> QED
    BY <1>13, <1>21, <1>23, <2>1, <2>2, <2>3 DEF EventSound
<1>37. ASSUME NEW i \in 1 .. Len(httpDone'), NEW j \in 1 .. Len(httpDone'), SameKey(i, j)'
       PROVE  i = j
  <2>1. /\ httpDone'[i].key # None
        /\ httpDone'[i].key = httpDone'[j].key /\ httpDone'[i].books = httpDone'[j].books
        /\ httpDone'[i].part = httpDone'[j].part
    BY <1>37 DEF SameKey
  <2>2. ASSUME NEW k \in 1 .. Len(httpDone), key # None, httpDone[k].key = key,
               httpDone[k].books = route.books, httpDone[k].part = piece
        PROVE  FALSE
    <3>1. Http!RequestKey(r) # None /\ key = Http!RequestKey(r) /\ piece \in {"change", "reserve"}
      BY <1>5, <2>2
    <3>2. k \in DOMAIN httpDone
      BY <1>2 DEF HttpTyped
    <3>3. piece = Http!Step(r)
      BY <1>1, <3>1
    <3>4. k \in Http!Found(r)
      BY <1>3, <2>2, <3>1, <3>2, <3>3 DEF Http!Found
    <3> QED
      BY <3>1, <3>4
  <2>3. CASE i = n /\ j # n
    BY <1>10, <1>11, <1>23, <2>1, <2>2, <2>3
  <2>4. CASE i # n /\ j = n
    BY <1>10, <1>11, <1>23, <2>1, <2>2, <2>4
  <2>5. CASE i # n /\ j # n
    <3>1. i \in 1 .. Len(httpDone) /\ j \in 1 .. Len(httpDone)
      BY <1>23, <2>5
    <3>2. SameKey(i, j)
      BY <1>10, <2>1, <3>1 DEF SameKey
    <3> QED
      BY <3>1, <3>2 DEF RecordInv
  <2> QED
    BY <2>3, <2>4, <2>5
<1>38. \A m \in 1 .. Len(httpDone') : m \notin 1 .. Len(httpDone) =>
           httpDone'[m].by = r /\ ChangeSound(m)'
  BY <1>10, <1>11, <1>23, <1>30
<1> QED
  BY <1>22, <1>24, <1>25, <1>29, <1>35, <1>36, <1>37, <1>38, StepOfOne

LEMMA ChangeStep ==
    ASSUME RecordInv, NEW r \in AllRequests, Http!Change(r) PROVE RecordInv'
<1>1. Http!AtStep(r, {"change"}) /\ Http!Found(r) = {}
  BY DEF Http!Change
<1>2. PICK told \in Http!Route(r).within : Http!Committed(r, "change", told, Http!Acknowledged)
  BY DEF Http!Change, Http!Commit
<1>3. httpRequests[r] # None /\ HttpTyped
  BY <1>1, AtStepHere DEF RecordInv
<1>4. told \in BOOLEAN
  <2>1. Http!Route(r) = Http!Routes[httpRequests[r].route]
    BY DEF Http!Route
  <2>2. httpRequests[r].route \in DOMAIN Http!Routes
    BY <1>3, StepsTyped
  <2> QED
    BY <1>2, <2>1, <2>2, BooksOfRoutes DEF BooksAtOnce
<1>5. WritesAtOnce(Http!Route(r)) => told
  BY <1>2, <1>4 DEF WritesAtOnce
<1>6. /\ Http!Acknowledged = {"running", "failed"}
      /\ "change" \in Parts /\ "change" \notin Http!Ending /\ "change" \in Http!Effects
  BY DEF Http!Acknowledged, Parts, Http!Ending, Http!Effects
<1>7. {"running", "failed"} \in SUBSET {"running", "failed", "telling", "refused"}
  OBVIOUS
<1> QED
  BY <1>1, <1>2, <1>4, <1>5, <1>6, <1>7, CommitStep

LEMMA ClearStep ==
    ASSUME RecordInv, NEW r \in AllRequests, Http!Clear(r) PROVE RecordInv'
<1>1. Http!AtStep(r, {"clear"}) /\ Http!Committed(r, "clear", FALSE, {"running", "failed"})
  BY DEF Http!Clear, Http!Acknowledged
<1>2. "clear" \in Parts /\ "clear" \notin Http!Ending
  BY DEF Parts, Http!Ending
<1>3. {"running", "failed"} \in SUBSET {"running", "failed", "telling", "refused"}
  OBVIOUS
<1> QED
  BY <1>1, <1>2, <1>3, CommitStep

LEMMA ReserveStep ==
    ASSUME RecordInv, NEW r \in AllRequests, Http!Reserve(r) PROVE RecordInv'
<1>1. /\ Http!AtStep(r, {"reserve"}) /\ Http!Found(r) = {}
      /\ Http!Committed(r, "reserve", FALSE, {"running", "failed"})
  BY DEF Http!Reserve, Http!Acknowledged
<1>2. "reserve" \in Parts /\ "reserve" \notin Http!Ending
  BY DEF Parts, Http!Ending
<1>3. {"running", "failed"} \in SUBSET {"running", "failed", "telling", "refused"}
  OBVIOUS
<1> QED
  BY <1>1, <1>2, <1>3, CommitStep

LEMMA FillStep ==
    ASSUME RecordInv, NEW r \in AllRequests, Http!Fill(r) PROVE RecordInv'
<1>1. PICK statuses \in SUBSET {"running", "failed", "telling", "refused"} :
          /\ Http!AtStep(r, {"fill"}) /\ Http!Committed(r, "fill", TRUE, statuses)
  BY DEF Http!Fill, Http!Refusal
<1>2. "fill" \in Parts /\ "fill" \in Http!Ending
  BY DEF Parts, Http!Ending
<1> QED
  BY <1>1, <1>2, CommitStep

LEMMA GiveUpStep ==
    ASSUME RecordInv, NEW r \in AllRequests, Http!GiveUp(r) PROVE RecordInv'
<1>1. PICK statuses \in SUBSET {"running", "failed", "telling", "refused"} :
          /\ Http!AtStep(r, {"fill"}) /\ Http!Committed(r, "giveup", TRUE, statuses)
          /\ "running" \notin statuses
  BY DEF Http!GiveUp, Http!Refusal
<1>2. "giveup" \in Parts /\ "giveup" \in Http!Ending
  BY DEF Parts, Http!Ending
<1> QED
  BY <1>1, <1>2, CommitStep

\* A request that takes over a change made before: it had made none, and nothing
\* that it passes would have been told.
LEMMA TakeStep ==
    ASSUME RecordInv, NEW r \in AllRequests, NEW kind \in {"change", "reserve"},
           Http!AtStep(r, {kind}), NEW n \in 1 .. Len(httpDone),
           httpDone[n].part \in Http!Effects,
           httpRequests[r].route \in Http!Together => OnBook(n),
           NEW next \in 2 .. Len(StepsOf(r)) + 1, httpRequests[r].at < next,
           \A i \in 1 .. Len(StepsOf(r)) : httpRequests[r].at < i /\ i < next =>
               StepsOf(r)[i] # "event",
           httpRequests' = [httpRequests EXCEPT ![r].change = n, ![r].at = next],
           httpDone' = httpDone, httpEvents' = httpEvents
    PROVE  RecordInv'
<1>1. /\ httpRequests[r] # None /\ httpRequests[r].status = "running"
      /\ httpRequests[r].at \in 1 .. Len(StepsOf(r))
      /\ StepsOf(r)[httpRequests[r].at] = kind
  BY AtStepHere
<1>2. HttpTyped /\ RequestSound(r)
  BY <1>1 DEF RecordInv
<1>3. /\ httpRequests[r] \in Http!Sent /\ httpRequests[r].at \in Nat
      /\ Len(StepsOf(r)) \in Nat /\ Len(httpDone) \in Nat /\ n \in Nat
  BY <1>1, <1>2, StepsTyped DEF HttpTyped
<1>4. PICK line : line = [httpRequests[r] EXCEPT !.change = n, !.at = next]
  OBVIOUS
<1>5. line \in Http!Sent
  <2>1. next \in Nat
    BY <1>3
  <2> QED
    BY <1>3, <1>4, <2>1 DEF Http!Sent
<1>6. /\ line.route = httpRequests[r].route /\ line.change = n
      /\ line.at = next /\ line.status = "running"
  BY <1>1, <1>3, <1>4 DEF Http!Sent
<1>7. httpRequests' = [httpRequests EXCEPT ![r] = line]
  BY <1>2, <1>4 DEF HttpTyped
<1>8. httpRequests'[r] = line /\ line # None /\ HttpTyped'
  BY <1>2, <1>5, <1>7 DEF HttpTyped
<1>9. \A q \in AllRequests : q # r => httpRequests'[q] = httpRequests[q]
  BY <1>2, <1>7 DEF HttpTyped
<1>10. RecordGrows
  BY <1>2, <1>3, <1>8 DEF RecordGrows
<1>11. RequestGoesOn(r)
  BY <1>1, <1>3, <1>6, <1>8 DEF RequestGoesOn
<1>12. PICK at \in 1 .. Len(StepsOf(r)) : at = httpRequests[r].at
  BY <1>1
<1>13. StepsOf(r)' = StepsOf(r)
  BY <1>6, <1>8 DEF StepsOf
<1>14. Passed(r, "event")' => EventBy(r)'
  <2>1. ASSUME NEW i \in 1 .. Len(StepsOf(r)), i < next, StepsOf(r)[i] = "event"
        PROVE  Passed(r, "event")
    <3>1. i # at /\ ~(at < i)
      BY <1>1, <1>12, <2>1
    <3>2. i < httpRequests[r].at
      BY <1>3, <1>12, <3>1
    <3> QED
      BY <2>1, <3>2 DEF Passed
  <2>2. Passed(r, "event")' => Passed(r, "event")
    BY <1>6, <1>8, <1>13, <2>1 DEF Passed
  <2> QED
    BY <1>2, <2>2 DEF RequestSound, EventBy
<1>15. Holds(r)'
  <2>1. httpRequests'[r].change = n /\ httpDone'[n].part \in {"change", "fill"}
    BY <1>6, <1>8 DEF Http!Effects
  <2>2. httpRequests'[r].route \in Http!Together => OnBook(n)'
    BY <1>6, <1>8 DEF OnBook
  <2> QED
    BY <2>1, <2>2 DEF Holds
<1>16. RequestSound(r)'
  <2>1. next \in 1 .. Len(StepsOf(r)) + 1 /\ n \in 0 .. Len(httpDone') /\ n # 0
    BY <1>3
  <2> QED
    BY <1>6, <1>8, <1>13, <1>14, <1>15, <2>1 DEF RequestSound
<1>17. \A m \in 1 .. Len(httpDone) : httpDone[m].by = r =>
           \/ httpDone[m].part = "clear"
           \/ httpDone[m].part = "reserve" /\ Ended(m)'
  <2>1. kind \notin Trailing /\ kind # "fill"
    BY DEF Trailing, Tellings
  <2>2. \A m : Ended(m)' <=> Ended(m)
    BY DEF Ended
  <2> QED
    BY <1>1, <2>1, <2>2, NothingDoneYet
<1>18. \A i, j \in 1 .. Len(httpDone') : SameKey(i, j)' => i = j
  BY DEF RecordInv, SameKey
<1>19. \A m \in 1 .. Len(httpDone') : m \in 1 .. Len(httpDone)
  OBVIOUS
<1> QED
  BY <1>9, <1>10, <1>11, <1>16, <1>17, <1>18, <1>19, StepOfOne

LEMMA ReplayStep ==
    ASSUME RecordInv, NEW r \in AllRequests, Http!Replay(r) PROVE RecordInv'
<1>1. Http!AtStep(r, {"change"}) /\ httpDone' = httpDone /\ httpEvents' = httpEvents
  BY DEF Http!Replay
<1>2. /\ httpRequests[r] # None /\ httpRequests[r].at \in 1 .. Len(StepsOf(r))
      /\ Http!Step(r) = "change"
  BY <1>1, AtStepHere
<1>3. HttpTyped
  BY DEF RecordInv
<1>4. PICK steps : steps = StepsOf(r) /\ steps = Http!Route(r).steps /\ Len(steps) \in Nat
  BY <1>2, <1>3, StepsTyped
<1>5. PICK at \in 1 .. Len(steps) : at = httpRequests[r].at
  BY <1>2, <1>4
<1>6. PICK rest : rest = SubSeq(steps, at + 1, Len(steps))
  OBVIOUS
<1>7. PICK skips \in BOOLEAN : skips <=> (rest # <<>> /\ Head(rest) = "announce")
  OBVIOUS
<1>8. PICK n \in Http!Found(r) :
          httpRequests' = [httpRequests EXCEPT
              ![r].change = n, ![r].at = IF skips THEN @ + 2 ELSE @ + 1]
  BY <1>4, <1>5, <1>6, <1>7 DEF Http!Replay
<1>9. skips => at + 1 \in 1 .. Len(steps) /\ steps[at + 1] = "announce"
  <2>1. CASE at + 1 <= Len(steps)
    <3>1. Len(rest) = Len(steps) - at /\ rest[1] = steps[at + 1]
      BY <1>4, <1>6, <2>1
    <3>2. Head(rest) = rest[1]
      BY <3>1, <1>4, <2>1
    <3> QED
      BY <1>4, <1>7, <2>1, <3>1, <3>2
  <2>2. CASE ~(at + 1 <= Len(steps))
    <3>1. rest = <<>>
      BY <1>4, <1>6, <2>2, SubSeqEmpty
    <3> QED
      BY <1>7, <3>1
  <2> QED
    BY <2>1, <2>2
<1>10. /\ n \in 1 .. Len(httpDone) /\ httpDone[n].key # None /\ httpDone[n].part = "change"
       /\ httpDone[n].books = Http!Routes[httpRequests[r].route].books
  <2>1. DOMAIN httpDone = 1 .. Len(httpDone)
    BY <1>3 DEF HttpTyped
  <2> QED
    BY <1>2, <1>8, <2>1 DEF Http!Found, Http!Route
<1>11. PICK next \in 2 .. Len(steps) + 1 : next = IF skips THEN at + 2 ELSE at + 1
  BY <1>4, <1>9
<1>12. httpRequests' = [httpRequests EXCEPT ![r].change = n, ![r].at = next]
  BY <1>3, <1>5, <1>8, <1>11 DEF HttpTyped
<1>13. at < next /\ \A i \in 1 .. Len(steps) : at < i /\ i < next => steps[i] # "event"
  <2>1. CASE skips
    <3>1. \A i \in 1 .. Len(steps) : at < i /\ i < next => i = at + 1
      BY <1>4, <1>11, <2>1
    <3>2. steps[at + 1] # "event"
      BY <1>9, <2>1
    <3> QED
      BY <1>4, <1>11, <2>1, <3>1, <3>2
  <2>2. CASE ~skips
    BY <1>4, <1>11, <2>2
  <2> QED
    BY <2>1, <2>2
<1>14. ASSUME httpRequests[r].route \in Http!Together PROVE OnBook(n)
  <2>1. ChangeSound(n)
    BY <1>10 DEF RecordInv
  <2>2. PICK q \in AllRequests : q = httpDone[n].by /\ httpRequests[q] # None
    BY <2>1 DEF ChangeSound
  <2>3. PICK route : route = Http!Routes[httpRequests[q].route]
    OBVIOUS
  <2>4. httpRequests[q].route \in DOMAIN Http!Routes
    BY <1>3, <2>2, StepsTyped
  <2>5. httpDone[n].books = route.books /\ route.books # None
    BY <1>10, <2>1, <2>2, <2>3 DEF ChangeSound
  <2>6. WritesAtOnce(route)
    BY <2>3, <2>4, <2>5, BooksOfRoutes DEF BooksAtOnce
  <2> QED
    BY <1>10, <2>1, <2>2, <2>3, <2>6 DEF ChangeSound
<1>15. n \in 1 .. Len(httpDone) /\ httpDone[n].part \in Http!Effects
  BY <1>10 DEF Http!Effects
<1>16. /\ next \in 2 .. Len(StepsOf(r)) + 1 /\ httpRequests[r].at < next
       /\ \A i \in 1 .. Len(StepsOf(r)) : httpRequests[r].at < i /\ i < next =>
              StepsOf(r)[i] # "event"
  BY <1>4, <1>5, <1>11, <1>13
<1> QED
  BY <1>1, <1>12, <1>14, <1>15, <1>16, TakeStep

LEMMA ReplayOrderStep ==
    ASSUME RecordInv, NEW r \in AllRequests, Http!ReplayOrder(r) PROVE RecordInv'
<1>1. Http!AtStep(r, {"reserve"}) /\ httpDone' = httpDone /\ httpEvents' = httpEvents
  BY DEF Http!ReplayOrder
<1>2. /\ httpRequests[r] # None /\ httpRequests[r].at \in 1 .. Len(StepsOf(r))
      /\ StepsOf(r)[httpRequests[r].at] = "reserve"
  BY <1>1, AtStepHere
<1>3. HttpTyped
  BY DEF RecordInv
<1>4. PICK steps : steps = StepsOf(r) /\ Whole(steps) /\ Len(steps) \in Nat
  BY <1>2, <1>3, StepsTyped
<1>5. PICK at \in 1 .. Len(steps) : at = httpRequests[r].at
  BY <1>2, <1>4
<1>6. at < Len(steps) /\ steps[at + 1] = "fill"
  BY <1>2, <1>4, <1>5 DEF Whole, Orderly
<1>7. PICK n \in 1 .. Len(httpDone) :
          /\ httpDone[n].part = "fill"
          /\ httpRequests' = [httpRequests EXCEPT ![r].change = n, ![r].at = @ + 2]
  <2>1. DOMAIN httpDone = 1 .. Len(httpDone)
    BY <1>3 DEF HttpTyped
  <2> QED
    BY <2>1 DEF Http!ReplayOrder
<1>8. PICK next \in 2 .. Len(steps) + 1 : next = at + 2
  BY <1>4, <1>6
<1>9. httpRequests' = [httpRequests EXCEPT ![r].change = n, ![r].at = next]
  BY <1>3, <1>5, <1>7, <1>8 DEF HttpTyped
<1>10. at < next /\ \A i \in 1 .. Len(steps) : at < i /\ i < next => steps[i] # "event"
  <2>1. \A i \in 1 .. Len(steps) : at < i /\ i < next => i = at + 1
    BY <1>4, <1>8
  <2>2. steps[at + 1] # "event"
    BY <1>6
  <2> QED
    BY <1>4, <1>8, <2>1, <2>2
<1>11. OnBook(n) /\ httpDone[n].part \in Http!Effects
  BY <1>7 DEF RecordInv, ChangeSound, Http!Ending, Http!Effects
<1> QED
  BY <1>1, <1>4, <1>5, <1>8, <1>9, <1>10, <1>11, TakeStep

LEMMA SendStep ==
    ASSUME RecordInv, NEW r \in AllRequests, NEW name \in DOMAIN Http!Routes,
           NEW header \in AllKeys \cup {None}, NEW body \in AllKeys \cup {None},
           Http!Send(r, name, header, body)
    PROVE  RecordInv'
<1>1. httpRequests[r] = None /\ httpDone' = httpDone /\ httpEvents' = httpEvents
  BY DEF Http!Send
<1>2. PICK line : line = [route |-> name, header |-> header, body |-> body, at |-> 1,
                        change |-> 0, status |-> "running"]
  OBVIOUS
<1>3. line \in Http!Sent
  BY <1>2 DEF Http!Sent
<1>4. HttpTyped
  BY DEF RecordInv
<1>5. httpRequests' = [httpRequests EXCEPT ![r] = line]
  BY <1>2 DEF Http!Send
<1>6. HttpTyped'
  BY <1>1, <1>3, <1>4, <1>5 DEF HttpTyped
<1>7. httpRequests'[r] = line /\ \A q \in AllRequests : q # r => httpRequests'[q] = httpRequests[q]
  BY <1>4, <1>5 DEF HttpTyped
<1>8. line.route = name /\ line.at = 1 /\ line.change = 0 /\ line.status = "running"
  BY <1>2
<1>9. RequestSound(r)'
  <2>1. PICK steps : steps = StepsOf(r)' /\ Len(steps) \in Nat
    <3>1. StepsOf(r)' = Http!Routes[name].steps
      BY <1>7, <1>8 DEF StepsOf
    <3>2. Len(Http!Routes[name].steps) \in Nat
      BY RoutesAreWhole DEF Whole
    <3> QED
      BY <3>1, <3>2
  <2>2. \A kind : ~Passed(r, kind)'
    BY <1>7, <1>8, <2>1 DEF Passed
  <2>3. 1 \in 1 .. Len(steps) + 1 /\ 0 \in 0 .. Len(httpDone')
    BY <1>1, <1>4, <2>1 DEF HttpTyped
  <2> QED
    BY <1>7, <1>8, <2>1, <2>2, <2>3 DEF RequestSound
<1>10. RecordGrows
  BY <1>1, <1>4, <1>6 DEF RecordGrows, HttpTyped
<1>11. \A n \in 1 .. Len(httpDone) : httpDone[n].by # r
  BY <1>1 DEF RecordInv, ChangeSound
<1>12. \A i, j \in 1 .. Len(httpDone') : SameKey(i, j)' => i = j
  BY <1>1 DEF RecordInv, SameKey
<1> QED
  BY <1>1, <1>7, <1>9, <1>10, <1>11, <1>12, StepOfOne

LEMMA StopStep ==
    ASSUME RecordInv, Http!Stop PROVE RecordInv'
<1>1. httpDone' = httpDone /\ httpEvents' = httpEvents
  BY DEF Http!Stop
<1>2. HttpTyped
  BY DEF RecordInv
<1>3. ASSUME NEW r \in AllRequests
      PROVE  \/ httpRequests'[r] = httpRequests[r]
             \/ /\ httpRequests[r] # None
                /\ httpRequests'[r] = [httpRequests[r] EXCEPT !.status = "lost"]
  BY DEF Http!Stop
<1>4. ASSUME NEW r \in AllRequests, httpRequests[r] # None
      PROVE  /\ httpRequests'[r] \in Http!Sent /\ httpRequests'[r] # None
             /\ httpRequests'[r].route = httpRequests[r].route
             /\ httpRequests'[r].change = httpRequests[r].change
             /\ httpRequests'[r].at = httpRequests[r].at /\ httpRequests[r].at \in Nat
             /\ httpRequests'[r].status = httpRequests[r].status \/ httpRequests'[r].status = "lost"
  <2>1. httpRequests[r] \in Http!Sent /\ httpRequests[r].at \in Nat
    BY <1>2, <1>4, StepsTyped
  <2>2. PICK line : line = [httpRequests[r] EXCEPT !.status = "lost"]
    OBVIOUS
  <2>3. /\ line \in Http!Sent /\ line.route = httpRequests[r].route
        /\ line.change = httpRequests[r].change /\ line.at = httpRequests[r].at
        /\ line.status = "lost"
    BY <2>1, <2>2 DEF Http!Sent
  <2>4. httpRequests'[r] = httpRequests[r] \/ httpRequests'[r] = line
    BY <1>3, <2>2
  <2>5. None \notin Http!Sent
    BY <1>2 DEF HttpTyped
  <2> QED
    BY <2>1, <2>3, <2>4, <2>5
<1>5. \A r \in AllRequests : httpRequests[r] = None => httpRequests'[r] = None
  BY <1>3
<1>6. HttpTyped'
  <2>1. httpRequests' = [r \in AllRequests |-> httpRequests'[r]]
    BY DEF Http!Stop
  <2>2. \A r \in AllRequests : httpRequests'[r] \in Http!Sent \cup {None}
    BY <1>4, <1>5
  <2> QED
    BY <1>1, <1>2, <2>1, <2>2 DEF HttpTyped
<1>7. RecordGrows
  BY <1>1, <1>2, <1>6 DEF RecordGrows, HttpTyped
<1>8. ASSUME NEW r \in AllRequests, httpRequests[r] # None
      PROVE  RequestGoesOn(r) /\ httpRequests'[r].change = httpRequests[r].change
  BY <1>4, <1>8 DEF RequestGoesOn
<1>9. \A n : (OnBook(n)' <=> OnBook(n)) /\ (Ended(n)' <=> Ended(n)) /\ (Settled(n)' <=> Settled(n))
  BY <1>1 DEF OnBook, Ended, Settled
<1>10. ASSUME NEW r \in AllRequests, httpRequests'[r] # None PROVE RequestSound(r)'
  <2>1. httpRequests[r] # None
    BY <1>5, <1>10
  <2>2. RequestSound(r)
    BY <2>1 DEF RecordInv
  <2>3. StepsOf(r)' = StepsOf(r)
    BY <1>4, <2>1 DEF StepsOf
  <2>4. \A kind : Passed(r, kind)' <=> Passed(r, kind)
    BY <1>4, <2>1, <2>3 DEF Passed
  <2>5. (AllSettled(r)' <=> AllSettled(r)) /\ (EventBy(r)' <=> EventBy(r))
    BY <1>1, <1>9 DEF AllSettled, EventBy
  <2>6. httpRequests[r].change # 0 /\ Holds(r) => Holds(r)'
    BY <1>1, <1>4, <1>9, <2>1, <2>3, <2>4 DEF Holds
  <2> QED
    BY <1>1, <1>4, <2>1, <2>2, <2>3, <2>4, <2>5, <2>6 DEF RequestSound
<1>11. ASSUME NEW n \in 1 .. Len(httpDone') PROVE ChangeSound(n)'
  <2>1. ChangeSound(n) /\ n \in 1 .. Len(httpDone)
    BY <1>1 DEF RecordInv
  <2>2. PICK r \in AllRequests : r = httpDone[n].by /\ httpRequests[r] # None
    BY <2>1 DEF ChangeSound
  <2> QED
    BY <1>7, <1>8, <2>1, <2>2, ChangesStaySound
<1>12. ASSUME NEW e \in httpEvents' PROVE EventSound(e)'
  <2>1. EventSound(e)
    BY <1>1 DEF RecordInv
  <2>2. ~e.refusal => RequestGoesOn(e.by)
    BY <1>8, <2>1 DEF EventSound
  <2> QED
    BY <1>7, <2>1, <2>2, EventsStaySound
<1>13. \A i, j \in 1 .. Len(httpDone') : SameKey(i, j)' => i = j
  BY <1>1 DEF RecordInv, SameKey
<1> QED
  BY <1>6, <1>10, <1>11, <1>12, <1>13 DEF RecordInv

LEMMA RecordNext == RecordInv /\ [Http!Next]_(Http!httpVars) => RecordInv'
<1> SUFFICES ASSUME RecordInv, [Http!Next]_(Http!httpVars) PROVE RecordInv'
  OBVIOUS
<1>1. CASE UNCHANGED Http!httpVars
  <2>1. httpRequests' = httpRequests /\ httpDone' = httpDone /\ httpEvents' = httpEvents
    BY <1>1 DEF Http!httpVars
  <2>2. HttpTyped' /\ \A i, j \in 1 .. Len(httpDone') : SameKey(i, j)' => i = j
    BY <2>1 DEF RecordInv, HttpTyped, SameKey
  <2>3. \A r, kind : Passed(r, kind)' <=> Passed(r, kind)
    BY <2>1 DEF Passed, StepsOf
  <2>4. \A n : (OnBook(n)' <=> OnBook(n)) /\ (Ended(n)' <=> Ended(n)) /\ (Settled(n)' <=> Settled(n))
    BY <2>1 DEF OnBook, Ended, Settled
  <2>5. \A r : (AllSettled(r)' <=> AllSettled(r)) /\ (EventBy(r)' <=> EventBy(r))
    BY <2>1, <2>4 DEF AllSettled, EventBy
  <2>6. \A r : Holds(r) => Holds(r)'
    BY <2>1, <2>3, <2>4 DEF Holds, StepsOf
  <2>7. \A r \in AllRequests : httpRequests'[r] # None => RequestSound(r)'
    BY <2>1, <2>3, <2>5, <2>6 DEF RecordInv, RequestSound, StepsOf
  <2>8. \A n \in 1 .. Len(httpDone') : ChangeSound(n)'
    BY <2>1, <2>3, <2>4 DEF RecordInv, ChangeSound
  <2>9. \A e \in httpEvents' : EventSound(e)'
    BY <2>1 DEF RecordInv, EventSound, StepsOf
  <2> QED
    BY <2>2, <2>7, <2>8, <2>9 DEF RecordInv
<1>2. ASSUME NEW r \in AllRequests, Http!Handle(r) PROVE RecordInv'
  BY <1>2, PassStep, SkipStep, RefuseStep, TellStep, FailStep, ChangeStep, ReplayStep, ClearStep,
     ReserveStep, ReplayOrderStep, FillStep, GiveUpStep, HttpRecordStep, AnswerStep DEF Http!Handle
<1>3. ASSUME NEW r \in AllRequests, NEW name \in DOMAIN Http!Routes,
             NEW header \in AllKeys \cup {None}, NEW body \in AllKeys \cup {None},
             Http!Send(r, name, header, body)
      PROVE  RecordInv'
  BY <1>3, SendStep
<1>4. CASE Http!Stop
  BY <1>4, StopStep
<1> QED
  BY <1>1, <1>2, <1>3, <1>4 DEF Http!Next

LEMMA RecordIsKept == RecordInv => Http!OnRecord
<1> SUFFICES ASSUME RecordInv PROVE Http!OnRecord
  OBVIOUS
<1>1. HttpTyped /\ DOMAIN httpDone = 1 .. Len(httpDone)
  BY DEF RecordInv, HttpTyped
<1>2. \A n : OnBook(n) <=> Http!Recorded(n)
  BY DEF OnBook, Http!Recorded
<1>3. \A name \in DOMAIN Http!Routes : HasStep(Http!Routes[name].steps, "unless") <=> Http!MayFindIt(name)
  <2> SUFFICES ASSUME NEW name \in DOMAIN Http!Routes
               PROVE  HasStep(Http!Routes[name].steps, "unless") <=> Http!MayFindIt(name)
    OBVIOUS
  <2>1. PICK steps : steps = Http!Routes[name].steps
    OBVIOUS
  <2>2. DOMAIN steps = 1 .. Len(steps)
    BY <2>1, RoutesAreWhole DEF Whole
  <2> QED
    BY <2>1, <2>2 DEF HasStep, Http!MayFindIt
<1>4. Http!AnswersAreOnRecord
  <2> SUFFICES ASSUME NEW r \in AllRequests, httpRequests[r] # None, httpRequests[r].status = "done",
                      NEW name, name = httpRequests[r].route,
                      NEW change, change = httpRequests[r].change
               PROVE  /\ change # 0 => change \in DOMAIN httpDone /\ httpDone[change].part \in Http!Effects
                      /\ name \in TellsOfChange \cup Http!Untold /\ change = 0 => Http!MayFindIt(name)
                      /\ name \in Http!Together => (Http!TellsOf(r) # {} <=> change # 0)
                      /\ name \in Http!Afterwards \cup Http!Looking => Http!TellsOf(r) # {}
    BY DEF Http!AnswersAreOnRecord, TellsOfChange
  <2>1. RequestSound(r) /\ Len(StepsOf(r)) \in Nat /\ name \in DOMAIN Http!Routes
    BY <1>1, StepsTyped DEF RecordInv
  <2>2. httpRequests[r].at = Len(StepsOf(r)) + 1
    BY <2>1 DEF RequestSound
  <2>3. \A kind : HasStep(StepsOf(r), kind) => Passed(r, kind)
    BY <2>1, <2>2 DEF HasStep, Passed
  <2>4. ASSUME change # 0
        PROVE  /\ change \in 1 .. Len(httpDone) /\ httpDone[change].part \in Http!Effects
               /\ name \in Http!Together => OnBook(change)
    <3>1. PICK n \in 1 .. Len(httpDone) : n = change /\ httpDone[n].part \in Parts
      BY <2>4, ChangeTyped
    <3>2. Holds(r)
      BY <2>1, <2>4 DEF RequestSound
    <3>3. httpDone[n].part # "reserve"
      BY <2>1, <2>2, <3>1, <3>2 DEF Holds
    <3>4. httpDone[n].part # "clear"
      BY <2>1, <2>2, <3>1, <3>2 DEF Holds
    <3>5. httpDone[n].part # "giveup"
      BY <3>1, <3>2 DEF Holds
    <3>6. httpDone[n].part \in {"change", "fill"}
      BY <3>1, <3>3, <3>4, <3>5 DEF Parts
    <3>7. name \in Http!Together => OnBook(n)
      BY <3>1, <3>2, <3>6 DEF Holds
    <3> QED
      BY <3>1, <3>6, <3>7 DEF Http!Effects
  <2>5. ASSUME name \in TellsOfChange \cup Http!Untold, change = 0 PROVE Http!MayFindIt(name)
    <3>1. Makes(StepsOf(r))
      BY <2>5, RoutesChange DEF StepsOf, TellsOfChange
    <3>2. Passed(r, "change") \/ Passed(r, "fill")
      BY <2>3, <3>1 DEF Makes
    <3>3. HasStep(StepsOf(r), "unless")
      BY <2>1, <2>5, <3>2 DEF RequestSound
    <3> QED
      BY <1>3, <2>1, <3>3 DEF StepsOf
  <2>6. ASSUME name \in Http!Together, change # 0 PROVE Http!TellsOf(r) # {}
    BY <2>4, <2>6 DEF OnBook, Http!TellsOf
  <2>7. ASSUME name \in Http!Together, change = 0 PROVE Http!TellsOf(r) = {}
    <3> SUFFICES ASSUME NEW e \in httpEvents, ~e.refusal, e.by = r PROVE FALSE
      BY <2>7 DEF Http!TellsOf
    <3>1. EventSound(e)
      BY DEF RecordInv
    <3> QED
      BY <2>7, <3>1 DEF EventSound
  <2>8. ASSUME name \in Http!Afterwards \cup Http!Looking PROVE Http!TellsOf(r) # {}
    <3>1. HasStep(StepsOf(r), "event")
      BY <2>8, RoutesTell DEF StepsOf, Recording
    <3>2. EventBy(r)
      BY <2>1, <2>3, <3>1 DEF RequestSound
    <3> QED
      BY <3>2 DEF EventBy, Http!TellsOf
  <2> QED
    BY <1>1, <2>4, <2>5, <2>6, <2>7, <2>8
<1>5. Http!RecordIsTrue
  <2>1. ASSUME NEW n \in DOMAIN httpDone, httpRequests[httpDone[n].by].route \in Http!Together,
               httpDone[n].part \in Http!Effects \cup Http!Ending
        PROVE  Http!Recorded(n)
    <3>1. ChangeSound(n)
      BY <1>1 DEF RecordInv
    <3>2. httpDone[n].part = "change" \/ httpDone[n].part \in Http!Ending
      BY <2>1 DEF Http!Effects, Http!Ending
    <3>3. OnBook(n)
      BY <2>1, <3>1, <3>2, RoutesWithin DEF ChangeSound
    <3> QED
      BY <1>2, <3>3
  <2>2. ASSUME NEW e \in httpEvents, ~e.refusal
        PROVE  /\ e.change # 0 => /\ e.change \in DOMAIN httpDone
                                  /\ httpDone[e.change].part \in Http!Effects \cup Http!Ending
               /\ httpRequests[e.by].route \in Http!Together => e.change # 0
               /\ httpRequests[e.by].route \in Http!Afterwards /\ e.change = 0 =>
                      Http!MayFindIt(httpRequests[e.by].route)
    <3>1. EventSound(e) /\ Len(httpDone) \in Nat
      BY <1>1 DEF RecordInv, HttpTyped
    <3>2. httpRequests[e.by].route \in DOMAIN Http!Routes
      BY <1>1, <2>2, <3>1, StepsTyped DEF EventSound
    <3>3. HasStep(StepsOf(e.by), "unless") => Http!MayFindIt(httpRequests[e.by].route)
      BY <1>3, <3>2 DEF StepsOf
    <3>4. e.change # 0 => e.change \in 1 .. Len(httpDone)
      BY <2>2, <3>1 DEF EventSound
    <3> QED
      BY <1>1, <2>2, <3>1, <3>3, <3>4 DEF EventSound
  <2> QED
    BY <2>1, <2>2 DEF Http!RecordIsTrue
<1>6. Http!OncePerKey
  <2>1. \A i, j \in DOMAIN httpDone : SameKey(i, j) => i = j
    BY <1>1 DEF RecordInv
  <2>2. ASSUME NEW i \in DOMAIN httpDone, NEW j \in DOMAIN httpDone,
               httpDone[i].by = httpDone[j].by,
               httpDone[i].part \in Http!Ending, httpDone[j].part \in Http!Ending
        PROVE  i = j
    <3>1. ChangeSound(i) /\ ChangeSound(j)
      BY <1>1 DEF RecordInv
    <3> QED
      BY <2>2, <3>1 DEF ChangeSound
  <2> QED
    BY <2>1, <2>2 DEF Http!OncePerKey, SameKey
<1>7. Http!RefusalsAreSettled
  <2> SUFFICES ASSUME NEW r \in AllRequests, httpRequests[r] # None,
                      httpRequests[r].status = "refused",
                      NEW n \in DOMAIN httpDone, httpDone[n].by = r
               PROVE  \/ httpDone[n].part = "clear"
                      \/ /\ httpDone[n].part = "reserve"
                         /\ \E j \in DOMAIN httpDone :
                                httpDone[j].by = r /\ httpDone[j].part \in Http!Ending
                      \/ Http!Recorded(n)
    BY DEF Http!RefusalsAreSettled
  <2>1. AllSettled(r)
    BY DEF RecordInv, RequestSound
  <2>2. Settled(n)
    BY <1>1, <2>1 DEF AllSettled
  <2> QED
    BY <1>1, <1>2, <2>2 DEF Settled, Ended
<1> QED
  BY <1>4, <1>5, <1>6, <1>7 DEF Http!OnRecord

\* A behaviour that runs the routes sends its requests as it may.
LEMMA RoutesRun == Spec => Http!Spec
<1>1. Init => Http!Init
  BY DEF Init
<1>2. [Next]_vars => [Http!Next]_(Http!httpVars)
  <2> SUFFICES ASSUME [Next]_vars PROVE Http!Next \/ UNCHANGED routes
    BY DEF routes, Http!httpVars
  <2>1. SendFirst => Http!Next
    BY DEF SendFirst, Http!Next
  <2>2. SendAgain => Http!Next
    <3>1. Http!Together \cup Http!Afterwards \cup Http!Untold \subseteq DOMAIN Http!Routes
      BY DEF Http!Routes, Http!Names
    <3>2. SendAgain => \E r \in AllRequests, name \in DOMAIN Http!Routes,
                          header, body \in AllKeys \cup {None} : Http!Send(r, name, header, body)
      BY <3>1 DEF SendAgain, Waiting
    <3> QED
      BY <3>2 DEF Http!Next
  <2> QED
    BY <2>1, <2>2 DEF Next, vars, data, server, RunAccounts, RunCompliance, RunLimit,
           RunMoney, RunWallet, RunTrading, RunStore, RunCache, RunRates, RunEvents, Change,
           RunHttp, RunAccount, RunTicket, RunList, Navigate, Http!Next
<1> QED
  BY <1>1, <1>2, PTL DEF Spec, Http!Spec

\* OnRecord: for any number of requests, and wherever a step fails, a commit's
\* acknowledgement is lost or the process stops.  Who is answered that something
\* was done is on record; the record tells only of changes that were made, of
\* orders that were given up, and of a look that found nothing to change; a key
\* makes one change, one reserve and one end of an order; and what a refused
\* request changed is on record, was ended, or was cleared to be seeded again.
THEOREM AnswersAlwaysOnRecord == Spec => []OnRecord
<1>0. Http!HttpRequestsAssumption
  OBVIOUS
<1>1. Http!Init => RecordInv
  <2> SUFFICES ASSUME Http!Init PROVE RecordInv
    OBVIOUS
  <2>1. /\ httpRequests = [r \in AllRequests |-> None] /\ httpDone = <<>> /\ httpEvents = {}
    BY DEF Http!Init
  <2>2. HttpTyped /\ Len(httpDone) = 0 /\ \A r \in AllRequests : httpRequests[r] = None
    BY <1>0, <2>1 DEF HttpTyped, Http!HttpRequestsAssumption
  <2> QED
    BY <2>1, <2>2 DEF RecordInv
<1>2. RecordInv /\ [Http!Next]_(Http!httpVars) => RecordInv'
  BY RecordNext
<1>3. RecordInv => OnRecord
  BY RecordIsKept DEF OnRecord
<1> QED
  BY <1>1, <1>2, <1>3, RoutesRun, PTL DEF Http!Spec
=============================================================================
