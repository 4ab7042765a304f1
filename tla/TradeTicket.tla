---------------------------- MODULE TradeTicket ----------------------------
(***************************************************************************)
(* The ticket a market is traded with in the web client                    *)
(* (src/web/src/components/MarketDetail.tsx): the market of the event, the *)
(* side, the action and the amount that are entered; the quote that is     *)
(* asked for 220 ms after any of them has changed; and the order.          *)
(*                                                                         *)
(* Amounts are small numbers; the prices are known and the user is signed  *)
(* in.  A request for a quote is given up when the effect that sent it is  *)
(* cleaned up (cancelled).  The quote that is shown is the ticket it was   *)
(* made for.                                                               *)
(***************************************************************************)
EXTENDS Integers

CONSTANTS
    None,
    Outcomes,           \* the markets of the event
    Sides,
    Available,          \* the Coins of the user, and the shares of each side
    MaxEntered,         \* bound: the largest amount that is entered
    Limits              \* the limit prices that can be entered, of prices 1 .. 3

\* What a ticket may be.
Tickets == [market : Outcomes, side : Sides, action : {"buy", "sell"}, amount : Nat]

TradeTicketAssumption ==
    /\ None \notin Tickets /\ None \notin Limits /\ "yes" \in Sides
    /\ Available \in Nat /\ MaxEntered \in Nat \ {0} /\ Limits \subseteq 0 .. 4

Price == 2              \* selectedPrice

VARIABLES
    ticket,             \* tradeMarket.id, side, action, amount
    limitPrice,         \* of a limit order, or None: orderType
    quote, quoteStatus,
    timer,              \* the timeout of the quote
    asking,             \* the request for a quote that is not cancelled, or None
    placing             \* the order in flight, or None: isPlacingTrade

vars == <<ticket, limitPrice, quote, quoteStatus, timer, asking, placing>>

Ticket(market, side, action, amount) ==
    [market |-> market, side |-> side, action |-> action, amount |-> amount]

Init ==
    /\ ticket \in {Ticket(m, "yes", "buy", 0) : m \in Outcomes}
    /\ limitPrice = None
    /\ quote = None /\ quoteStatus = "idle"
    /\ timer = FALSE /\ asking = None
    /\ placing = None

-----------------------------------------------------------------------------
(* The quote                                                               *)

\* hasValidAmount
AmountValid(t) == t.amount > 0

\* (mutant) What was asked for before is not cancelled.
KeepAsking == asking

\* cancelled
GiveUp == None

\* What the handler leaves of the quote: setQuote(null) or setQuoteStatus too.
Shown(q, status) == [quote |-> q, status |-> status]
Same == Shown(quote, quoteStatus)
NoQuote == Shown(None, "idle")

\* A handler has made the ticket t and left the quote as it says; then the
\* effects run: a ticket for another market is reset, and one that differs gets
\* a new timer, or no quote if its amount is not valid.
Enter(t, left) ==
    LET other == t.market # ticket.market
        entered == IF other THEN [t EXCEPT !.amount = 0] ELSE t
    IN  /\ ticket' = entered
        /\ limitPrice' = IF other THEN None ELSE limitPrice
        /\ LET now == IF other \/ (entered # ticket /\ ~AmountValid(entered)) THEN NoQuote ELSE left IN
           quote' = now.quote /\ quoteStatus' = now.status
        /\ IF entered = ticket THEN UNCHANGED <<timer, asking>>
           ELSE timer' = AmountValid(entered) /\ asking' = GiveUp

AskQuote ==
    /\ timer /\ timer' = FALSE
    /\ asking' = ticket
    /\ quoteStatus' = "loading"
    /\ UNCHANGED <<ticket, limitPrice, quote, placing>>

Quoted ==
    /\ asking # None /\ asking' = None
    /\ \/ quote' = asking /\ quoteStatus' = "ready"
       \/ quote' = None /\ quoteStatus' = "error"
    /\ UNCHANGED <<ticket, limitPrice, timer, placing>>

-----------------------------------------------------------------------------
(* What the user enters                                                    *)

\* changeTradeAction
ChangeTradeAction(action) ==
    Enter([ticket EXCEPT !.action = action, !.amount = 0], NoQuote) /\ UNCHANGED placing

\* The buttons of the sides keep the status.
ChooseSide(side) ==
    Enter([ticket EXCEPT !.side = side], Shown(None, quoteStatus)) /\ UNCHANGED placing

\* selectGroupedOutcome
SelectGroupedOutcome(market, side) ==
    LET amount == IF market = ticket.market THEN ticket.amount ELSE 0 IN
    Enter([ticket EXCEPT !.market = market, !.side = side, !.amount = amount], NoQuote)
    /\ UNCHANGED placing

\* updateTradeAmount keeps the quote and its status.
UpdateTradeAmount(amount) ==
    Enter([ticket EXCEPT !.amount = amount], Same) /\ UNCHANGED placing

\* addQuickTradeAmount: no more than is available.
AddQuickTradeAmount(more) ==
    /\ ticket.action = "buy"
    /\ LET sum == ticket.amount + more IN
       Enter([ticket EXCEPT !.amount = IF sum > Available THEN Available ELSE sum], Same)
    /\ UNCHANGED placing

\* setMaximumTradeAmount, and setSellSharePercent for a half.
EnterShares(numerator, denominator) ==
    /\ ticket.action = "sell"
    /\ Enter([ticket EXCEPT !.amount = (Available * numerator) \div denominator], Same)
    /\ UNCHANGED placing

\* changeOrderType, and the input of the limit price.
EnterLimit(l) ==
    /\ limitPrice' = l
    /\ UNCHANGED <<ticket, quote, quoteStatus, timer, asking, placing>>

-----------------------------------------------------------------------------
(* The order                                                               *)

\* hasValidLimitPrice, and whether the limit can be met at the price shown.
Marketable ==
    limitPrice # None =>
        /\ limitPrice > 0 /\ limitPrice < 4
        /\ IF ticket.action = "buy" THEN Price <= limitPrice ELSE Price >= limitPrice

\* The button is not disabled and placeTrade does not return early.  The limit
\* itself is not sent.
PlaceTrade ==
    /\ placing = None
    /\ Available > 0 \/ ticket.action = "sell"
    /\ AmountValid(ticket) /\ quoteStatus # "loading" /\ Marketable
    /\ ticket.amount <= Available
    /\ placing' = ticket
    /\ UNCHANGED <<ticket, limitPrice, quote, quoteStatus, timer, asking>>

\* A trade empties the amount of whatever ticket is shown by then.
Placed ==
    /\ placing # None /\ placing' = None
    /\ \/ Enter([ticket EXCEPT !.amount = 0], Same)
       \/ UNCHANGED <<ticket, limitPrice, quote, quoteStatus, timer, asking>>

Next ==
    \/ AskQuote \/ Quoted
    \/ \E a \in {"buy", "sell"} : ChangeTradeAction(a)
    \/ \E s \in Sides : ChooseSide(s) \/ \E m \in Outcomes : SelectGroupedOutcome(m, s)
    \/ \E n \in 0 .. MaxEntered : UpdateTradeAmount(n) \/ AddQuickTradeAmount(n)
    \/ EnterShares(1, 1) \/ EnterShares(1, 2)
    \/ \E l \in Limits \cup {None} : EnterLimit(l)
    \/ PlaceTrade \/ Placed

-----------------------------------------------------------------------------
(* Properties                                                              *)

\* The quote on the page is for the market, the side and the action of the
\* ticket, and once the timer has run out it is for the amount too, however
\* quickly the ticket was changed and however slowly quotes came; "Updating
\* quote" does not stay for ever.  (For the 220 ms it may be the quote of the
\* amount before, and the order can be placed.)
QuoteIsOfTheTicket ==
    /\ quote # None =>
           /\ <<quote.market, quote.side, quote.action>> = <<ticket.market, ticket.side, ticket.action>>
           /\ ~timer /\ asking = None => quote = ticket
    /\ quoteStatus = "loading" => timer \/ asking # None
=============================================================================
