------------------------------ MODULE Position ------------------------------
(***************************************************************************)
(* Net position of one perpetual: backtesting/engine.py, class _Position.  *)
(*                                                                         *)
(* A position is a record [quantity, average]: quantity is signed (long    *)
(* positive), average is the entry price in price quanta.  The code's      *)
(* average_price is None exactly when the position is flat; here a flat    *)
(* position has average 0, which is also how the code reads None           *)
(* ("old_average or Decimal(0)").  Decimal division rounds to the context  *)
(* precision; here it rounds down to a whole quantum.                      *)
(***************************************************************************)
EXTENDS Integers

BUY == 1
SELL == -1
Sides == {BUY, SELL}

Abs(x) == IF x < 0 THEN -x ELSE x

Flat == [quantity |-> 0, average |-> 0]

\* The trade adds to the position, or opens one.
Extends(p, side) == p.quantity = 0 \/ p.quantity * side > 0

Direction(p) == IF p.quantity > 0 THEN 1 ELSE -1

\* Quantity a trade of size q against the position closes.
Closed(p, side, q) ==
    IF Extends(p, side) THEN 0
    ELSE IF Abs(p.quantity) < q THEN Abs(p.quantity) ELSE q

\* Profit a trade realizes, in quanta times quantity ("old_average or price":
\* an average of 0 realizes nothing).
RealizedBy(p, side, q, price) ==
    IF p.average = 0 THEN 0
    ELSE Closed(p, side, q) * (price - p.average) * Direction(p)

\* Mutant of AverageAfter: a flip keeps the old entry price.
AverageKeptOnFlip(p, side, q, price) ==
    LET new == p.quantity + side * q
    IN  IF Extends(p, side)
          THEN (Abs(p.quantity) * p.average + q * price) \div Abs(new)
        ELSE IF new = 0 THEN 0
        ELSE p.average

\* Entry price after a trade: quantity-weighted when it extends the position,
\* the trade's price when it flips it, kept when it only reduces it.
AverageAfter(p, side, q, price) ==
    LET new == p.quantity + side * q
    IN  IF Extends(p, side)
          THEN (Abs(p.quantity) * p.average + q * price) \div Abs(new)
        ELSE IF new = 0 THEN 0
        ELSE IF Abs(p.quantity) < q THEN price
        ELSE p.average

ApplyTrade(p, side, q, price) ==
    [quantity |-> p.quantity + side * q,
     average  |-> AverageAfter(p, side, q, price)]

\* Exposure a trade adds: all of it, or what is left once it has closed the
\* position it goes against.
AdditionalExposure(p, side, q) == q - Closed(p, side, q)
=============================================================================
