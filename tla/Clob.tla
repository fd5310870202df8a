-------------------------------- MODULE Clob --------------------------------
(***************************************************************************)
(* The amounts of a CLOB order (executor, clob/amounts.py and              *)
(* clob/order.py): what a maker pays and receives, in base units of a      *)
(* millionth.  A decimal is a numerator and a denominator: a price in      *)
(* (0, 1], a size above zero, neither bound to any number of digits.       *)
(* Nothing calls this from the pipeline yet, whose relay only records.     *)
(***************************************************************************)
EXTENDS Integers, TLAPS

Scale == 1000000

Decimals == [num: Nat \ {0}, den: Nat \ {0}]
Prices == {d \in Decimals : d.num <= d.den}

\* ROUND_HALF_UP, of what is not negative.
HalfUp(num, den) == (2 * num + den) \div (2 * den)

\* _to_base_units.
BaseUnits(num, den) == HalfUp(num * Scale, den)

Usdc(price, size) == BaseUnits(price.num * size.num, price.den * size.den)
Tokens(size) == BaseUnits(size.num, size.den)

\* order_amounts.
OrderAmounts(side, price, size) ==
    IF side = "BUY"
    THEN [maker |-> Usdc(price, size), taker |-> Tokens(size)]
    ELSE [maker |-> Tokens(size), taker |-> Usdc(price, size)]

\* order_side: either token is bought or sold.
OrderSide(side) ==
    CASE side \in {"buy_yes", "buy_no"} -> "BUY"
      [] side \in {"sell_yes", "sell_no"} -> "SELL"

\* What an order moves, to a millionth: num over den, and the amount that stands
\* for it.
Rounded(amount, num, den) ==
    /\ 2 * num * Scale - den < 2 * den * amount
    /\ 2 * den * amount <= 2 * num * Scale + den

-----------------------------------------------------------------------------
(* What rounding may do.                                                   *)

LEMMA ProductPositive ==
  ASSUME NEW x \in Nat \ {0}, NEW y \in Nat \ {0}
  PROVE  x * y \in Nat \ {0}
  OBVIOUS

LEMMA QuotientBounds ==
  ASSUME NEW x \in Nat, NEW d \in Nat \ {0}
  PROVE  /\ x \div d \in Nat
         /\ d * (x \div d) <= x
         /\ x < d * (x \div d) + d
  OBVIOUS

\* quantize: to the nearest, and a half to the larger.
LEMMA HalfUpIsNearest ==
  ASSUME NEW num \in Nat \ {0}, NEW den \in Nat \ {0}
  PROVE  BaseUnits(num, den) \in Nat /\ Rounded(BaseUnits(num, den), num, den)
  <1> DEFINE x == 2 * (num * Scale) + den
             d == 2 * den
  <1>1. x \in Nat /\ d \in Nat \ {0}
    BY DEF Scale
  <1>2. /\ x \div d \in Nat
        /\ d * (x \div d) <= x
        /\ x < d * (x \div d) + d
    BY <1>1, QuotientBounds
  <1>3. BaseUnits(num, den) = x \div d
    BY DEF BaseUnits, HalfUp
  <1> DEFINE amount == x \div d
  <1>4. d * amount = 2 * den * amount /\ x = 2 * num * Scale + den
    BY <1>2 DEF Scale
  <1> HIDE DEF amount
  <1>5. amount \in Nat /\ d * amount <= x /\ x < d * amount + d /\ BaseUnits(num, den) = amount
    BY <1>2, <1>3 DEF amount
  <1> QED
    BY <1>1, <1>4, <1>5 DEF Rounded, Scale

\* order_amounts: of either side, the money of an order is at most half a base
\* unit away from its price times its size, and the tokens from its size; so
\* what a BUY pays exceeds its limit by no more than that.
THEOREM AmountsWithinHalfUnit ==
  ASSUME NEW side \in {"BUY", "SELL"}, NEW price \in Prices, NEW size \in Decimals
  PROVE  LET amounts == OrderAmounts(side, price, size)
             usdc == IF side = "BUY" THEN amounts.maker ELSE amounts.taker
             tokens == IF side = "BUY" THEN amounts.taker ELSE amounts.maker
         IN /\ amounts \in [maker: Nat, taker: Nat]
            /\ Rounded(usdc, price.num * size.num, price.den * size.den)
            /\ Rounded(tokens, size.num, size.den)
  <1>1. /\ price.num \in Nat \ {0} /\ price.den \in Nat \ {0}
        /\ size.num \in Nat \ {0} /\ size.den \in Nat \ {0}
    BY DEF Prices, Decimals
  <1>2. price.num * size.num \in Nat \ {0} /\ price.den * size.den \in Nat \ {0}
    BY <1>1, ProductPositive
  <1>3. /\ Usdc(price, size) \in Nat
        /\ Rounded(Usdc(price, size), price.num * size.num, price.den * size.den)
    BY <1>2, HalfUpIsNearest DEF Usdc
  <1>4. Tokens(size) \in Nat /\ Rounded(Tokens(size), size.num, size.den)
    BY <1>1, HalfUpIsNearest DEF Tokens
  <1> QED
    BY <1>3, <1>4 DEF OrderAmounts

\* order_amounts demands a size above zero, and yet an amount is zero: just when
\* what it stands for is below half a base unit.
THEOREM OnlyDustIsFree ==
  ASSUME NEW price \in Prices, NEW size \in Decimals
  PROVE  /\ Usdc(price, size) = 0 <=> 2 * (price.num * size.num) * Scale < price.den * size.den
         /\ Tokens(size) = 0 <=> 2 * size.num * Scale < size.den
  <1>1. ASSUME NEW num \in Nat \ {0}, NEW den \in Nat \ {0}
        PROVE  BaseUnits(num, den) = 0 <=> 2 * num * Scale < den
    <2> PICK amount \in Nat : amount = BaseUnits(num, den)
      BY <1>1, HalfUpIsNearest
    <2>1. 2 * num * Scale - den < 2 * den * amount /\ 2 * den * amount <= 2 * num * Scale + den
      BY <1>1, HalfUpIsNearest DEF Rounded
    <2>2. CASE amount = 0
      BY <1>1, <2>1, <2>2 DEF Scale
    <2>3. CASE amount # 0
      <3>1. den * amount >= den
        BY <1>1, <2>3
      <3>2. 2 * den * amount = 2 * (den * amount)
        BY <1>1
      <3> PICK product \in Nat : product = den * amount
        BY <1>1
      <3> QED
        BY <1>1, <2>1, <2>3, <3>1, <3>2 DEF Scale
    <2> QED
      BY <2>2, <2>3
  <1>2. /\ price.num \in Nat \ {0} /\ price.den \in Nat \ {0}
        /\ size.num \in Nat \ {0} /\ size.den \in Nat \ {0}
    BY DEF Prices, Decimals
  <1>3. price.num * size.num \in Nat \ {0} /\ price.den * size.den \in Nat \ {0}
    BY <1>2, ProductPositive
  <1>4. Usdc(price, size) = 0 <=> 2 * (price.num * size.num) * Scale < price.den * size.den
    BY <1>1, <1>3 DEF Usdc
  <1> QED
    BY <1>1, <1>2, <1>4 DEF Tokens
=============================================================================
