----------------------------- MODULE RateQuotes -----------------------------
(***************************************************************************)
(* The dollar rate of USDT on TRON (src/exchangeRates.ts), from the        *)
(* request to the provider to its use by src/coinWallets.ts: a deposit is  *)
(* credited at its rate in a later transaction, a withdrawal quote shows   *)
(* one that the user may confirm until it expires, and the outcome of a    *)
(* withdrawal is compared with a last one.  One request at a time; the     *)
(* requests share nothing.  A quote is stamped when the answer has been    *)
(* read: its age does not count the time the answer took, and the time-out *)
(* covers the headers only.                                                *)
(***************************************************************************)
EXTENDS Integers, Sequences

CONSTANTS
    None,
    Ttl, Timeout,       \* exchangeRateTtlSeconds, exchangeRateRequestTimeoutMs
    Amounts,            \* what is priced, in USDT atomic units
    Said,               \* [whole, fraction]: what the provider may send as a rate
    RateDigits,         \* decimals of a stored rate: 9, nanos
    MaxNow              \* bound

RateQuotesAssumption ==
    /\ {Ttl, Timeout, RateDigits} \subseteq Nat \ {0}
    /\ Said \subseteq [whole : Nat, fraction : Seq(0 .. 9)]

VARIABLES
    now,
    ask         \* the request, the quote it got and when that was used

vars == <<now, ask>>

Purposes == {"deposit_final", "withdrawal_indicative", "withdrawal_final"}

\* Only the quote shown with a withdrawal is not final.
KindOf(purpose) == IF purpose = "withdrawal_indicative" THEN "indicative" ELSE "final"

Idle == [stage |-> "idle", purpose |-> None, amount |-> None, since |-> 0,
         quote |-> None, usedAt |-> None, usedFor |-> None]

Init == now = 0 /\ ask = Idle

-----------------------------------------------------------------------------
(* Reading a rate                                                          *)

Digit(fraction, i) == IF i > Len(fraction) THEN 0 ELSE fraction[i]

Nanos(text) ==
    LET value[i \in 0 .. RateDigits] ==
            IF i = 0 THEN text.whole ELSE 10 * value[i - 1] + Digit(text.fraction, i)
    IN  value[RateDigits]

\* The first digit that is not stored rounds, half up.  A rate of zero is refused.
ParseProviderUsdRate(text) ==
    Nanos(text) + (IF Digit(text.fraction, RateDigits + 1) >= 5 THEN 1 ELSE 0)

-----------------------------------------------------------------------------
(* Quotes                                                                  *)

\* isQuoteStale: at exactly ttl a quote is not stale, but it has expired.
Stale(quote, ttl, t) == t - quote.quotedAt > ttl

ValidateUsdQuote(quote, ttl, t, purpose, amount) ==
    /\ quote.purpose = purpose /\ quote.kind = KindOf(purpose)
    /\ quote.amount = amount
    /\ ~Stale(quote, ttl, t)
    /\ quote.quotedAt < quote.expiresAt /\ quote.quotedAt <= t
    /\ quote.expiresAt <= quote.quotedAt + ttl
    /\ t < quote.expiresAt

\* Rates are rounded when they are read: said is history.
Quoted(text) ==
    [purpose |-> ask.purpose, kind |-> KindOf(ask.purpose), amount |-> ask.amount,
     rate |-> ParseProviderUsdRate(text), quotedAt |-> now, expiresAt |-> now + Ttl,
     said |-> text]

Ended(stage) == ask' = [ask EXCEPT !.stage = stage]

GetUsdQuote(purpose, amount) ==
    /\ ask.stage = "idle"
    /\ ask' = [ask EXCEPT !.stage = "asked", !.purpose = purpose,
                          !.amount = amount, !.since = now]
    /\ UNCHANGED now

\* The headers arrive while the timer runs.
Answered ==
    /\ ask.stage = "asked" /\ now - ask.since < Timeout
    /\ Ended("answered")
    /\ UNCHANGED now

\* The timer aborts the request, the provider is down or answers with an error;
\* or the body, for which no timer runs, is not what was asked for.
Unavailable ==
    /\ ask.stage \in {"asked", "answered"}
    /\ Ended("refused")
    /\ UNCHANGED now

\* The provider checks its quote when it makes it, its caller again.
Answer(text) ==
    /\ ask.stage = "answered"
    /\ IF /\ ParseProviderUsdRate(text) > 0
          /\ ValidateUsdQuote(Quoted(text), Ttl, now, ask.purpose, ask.amount)
       THEN ask' = [ask EXCEPT !.stage = "quoted", !.quote = Quoted(text)]
       ELSE Ended("refused")
    /\ UNCHANGED now

-----------------------------------------------------------------------------
(* Their use                                                               *)

Used(amount) == ask' = [ask EXCEPT !.stage = "used", !.usedAt = now, !.usedFor = amount]

\* (mutant) The quote was validated before the transaction.
CreditableOnce(amount) == TRUE

\* creditDeposit validates the quote again, by its own lifetime, against the
\* amount of the locked row.
Creditable(amount) ==
    ValidateUsdQuote(ask.quote, ask.quote.expiresAt - ask.quote.quotedAt, now,
                     "deposit_final", amount)

CreditDeposit(amount) ==
    /\ ask.stage = "quoted" /\ ask.purpose = "deposit_final"
    /\ IF Creditable(amount) THEN Used(amount) ELSE Ended("refused")
    /\ UNCHANGED now

\* insertRateSnapshot and the quote row, with the amount and the expiry of the
\* quote, which may be over by then.
StoreWithdrawalQuote ==
    /\ ask.stage = "quoted" /\ ask.purpose = "withdrawal_indicative"
    /\ Ended("stored")
    /\ UNCHANGED now

ConfirmWithdrawal ==
    /\ ask.stage = "stored"
    /\ IF ask.quote.expiresAt <= now THEN Ended("refused") ELSE Used(ask.amount)
    /\ UNCHANGED now

\* The final rate is not looked at again once the row is locked.
CompareOutcome ==
    /\ ask.stage = "quoted" /\ ask.purpose = "withdrawal_final"
    /\ Used(ask.amount)
    /\ UNCHANGED now

Tick ==
    /\ now < MaxNow /\ now' = now + 1
    /\ UNCHANGED ask

Next ==
    \/ Tick
    \/ \E purpose \in Purposes, amount \in Amounts : GetUsdQuote(purpose, amount)
    \/ Answered \/ Unavailable
    \/ \E text \in Said : Answer(text)
    \/ \E amount \in Amounts : CreditDeposit(amount)
    \/ StoreWithdrawalQuote \/ ConfirmWithdrawal \/ CompareOutcome

-----------------------------------------------------------------------------
(* Properties                                                              *)

\* What the provider said, to one digit more than is stored.
Exact(text) == 10 * Nanos(text) + Digit(text.fraction, RateDigits + 1)

\* Coins are credited, and a withdrawal is confirmed, only at a rate that was
\* stamped less than its lifetime ago, asked for this purpose and this amount,
\* positive and within half a unit of what the provider said, however long the
\* answer, the locks and the user took (exchangeRates.ts checks the quote when
\* it is made, coinWallets.ts when it is used).
RatesUsedAreFresh ==
    ask.stage = "used" =>
        /\ ask.quote.purpose = ask.purpose /\ ask.quote.amount = ask.usedFor
        /\ ask.quote.rate > 0
        /\ 10 * ask.quote.rate - Exact(ask.quote.said) \in -4 .. 5
        /\ ask.purpose # "withdrawal_final" =>
               ask.usedAt \in ask.quote.quotedAt .. (ask.quote.quotedAt + Ttl - 1)
=============================================================================
