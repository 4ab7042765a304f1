--------------------------- MODULE MoneyArithmetic ---------------------------
(***************************************************************************)
(* Fixed-point money (src/money.ts).  Amounts are natural numbers of       *)
(* micros, atomic USDT or rate nanos; bigint does not overflow, so plain   *)
(* integers model it.  Every conversion goes through multiplyDivide, which *)
(* rounds once, in a stated direction.                                     *)
(***************************************************************************)
EXTENDS Integers, Sequences

\* USD_RATE_SCALE and PRICE_NANOS_SCALE: 10^9 in the code.
CONSTANT NanosScale

ASSUME NanosAssumption == NanosScale \in Nat \ {0}

BasisPointsScale == 10000

\* At least half of the divisor is left over.
AtLeastHalf(n, d) == (n % d) * 2 >= d

\* The throws of multiplyDivide are the domain of the definition: value and
\* multiplier are natural, the divisor is positive.
MultiplyDivide(value, multiplier, divisor, rounding) ==
    LET n == value * multiplier
        quotient == n \div divisor
    IN  IF n % divisor = 0 \/ rounding = "down" THEN quotient
        ELSE IF rounding = "up" THEN quotient + 1
        ELSE IF AtLeastHalf(n, divisor) THEN quotient + 1 ELSE quotient

\* Rounded up, calculateFee's default.
Proportional(amount, basisPoints) ==
    MultiplyDivide(amount, basisPoints, BasisPointsScale, "up")

CalculateFee(amount, basisPoints, minimum) ==
    LET fee == Proportional(amount, basisPoints)
    IN  IF fee > minimum THEN fee ELSE minimum

\* TRADING_FEE_BASIS_POINTS = 200 and no minimum.
TradingFee(amount) == CalculateFee(amount, 200, 0)

\* Deposits and withdrawals both convert downwards.
UsdtToCoinMicros(amount, rate) == MultiplyDivide(amount, rate, NanosScale, "down")
CoinMicrosToUsdt(amount, rate) == MultiplyDivide(amount, NanosScale, rate, "down")

\* The amount of a fill: shares times price.
FillAmount(shares, price) == MultiplyDivide(shares, price, NanosScale, "down")

\* The cost of the shares a sale takes out of a position.
CostBasis(cost, sold, shares) == MultiplyDivide(cost, sold, shares, "down")

-----------------------------------------------------------------------------
(* Plain decimals: [negative, whole, fraction], the fraction being a       *)
(* sequence of digits.                                                     *)

PowerOf10(n) ==
    LET power[i \in 0 .. n] == IF i = 0 THEN 1 ELSE 10 * power[i - 1] IN power[n]

\* The digits of n, most significant first, padded to the given width.
Digits(n, width) == [i \in 1 .. width |-> (n \div PowerOf10(width - i)) % 10]

\* Trailing zeros carry nothing.
Trimmed(digits) ==
    LET kept == {i \in DOMAIN digits : digits[i] # 0}
    IN  SubSeq(digits, 1, IF kept = {} THEN 0
                          ELSE CHOOSE i \in kept : \A j \in kept : j <= i)

FormatAtomic(value, decimals) ==
    LET absolute == IF value < 0 THEN -value ELSE value
    IN  [negative |-> value < 0,
         whole |-> absolute \div PowerOf10(decimals),
         fraction |-> Trimmed(Digits(absolute % PowerOf10(decimals), decimals))]

\* (mutant) The fraction is padded on the left.
PaddedLeft(fraction, decimals) ==
    [i \in 1 .. decimals |-> IF i <= decimals - Len(fraction) THEN 0
                             ELSE fraction[i - (decimals - Len(fraction))]]

\* padEnd.
Padded(fraction, decimals) ==
    [i \in 1 .. decimals |-> IF i <= Len(fraction) THEN fraction[i] ELSE 0]

\* The number that a sequence of digits writes.
NumberOf(digits) ==
    LET upTo[i \in 0 .. Len(digits)] == IF i = 0 THEN 0 ELSE upTo[i - 1] * 10 + digits[i]
    IN  upTo[Len(digits)]

\* A fraction of more than "decimals" digits is refused.
Parsable(d, decimals) == Len(d.fraction) <= decimals

ParseDecimalToAtomic(d, decimals) ==
    LET unsigned == d.whole * PowerOf10(decimals) + NumberOf(Padded(d.fraction, decimals))
    IN  IF d.negative THEN -unsigned ELSE unsigned

\* Only zeros are written beyond the scale.
ZeroExcess(d, decimals) ==
    \A i \in DOMAIN d.fraction : i > decimals => d.fraction[i] = 0

\* A value read from the database may carry zeros beyond the scale.
StoredParsable(d, decimals) == Parsable(d, decimals) \/ ZeroExcess(d, decimals)

ParseStoredDecimalToAtomic(d, decimals) ==
    ParseDecimalToAtomic(
        [d EXCEPT !.fraction = SubSeq(@, 1, IF Len(@) < decimals THEN Len(@) ELSE decimals)],
        decimals)
=============================================================================
