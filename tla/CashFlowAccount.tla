--------------------------- MODULE CashFlowAccount --------------------------
(***************************************************************************)
(* What a perpetual account promises, whatever average-cost bookkeeping it *)
(* keeps: a trade pays its full notional and a fee, funding pays the       *)
(* holding times mark times rate, and nothing else moves money or          *)
(* holdings.  BacktestEngine's average price, realized and unrealized      *)
(* profit are one implementation of it (BACKTESTING.md, "Costs, positions  *)
(* and margin"), up to the division of the average price; ExactSpec is the *)
(* account without that allowance.                                         *)
(***************************************************************************)
EXTENDS Integers

CONSTANTS
    Assets,        \* what the account can hold
    OpeningMoney,  \* in quanta * units / Unit
    Unit,          \* denominator of rates and of money
    FeeRates,      \* fee rates a trade may be charged
    Prices,        \* prices a trade may have
    Settlements    \* funding the account may be asked for: [rate, mark]

VARIABLES money, holding

Init ==
    /\ money = OpeningMoney
    /\ holding = [a \in Assets |-> 0]

Magnitude(n) == IF n < 0 THEN -n ELSE n

\* What buying q > 0 or selling -q > 0 takes from the money, fee included.
Paid(q, price, rate) == Unit * q * price + Magnitude(q) * price * rate

\* Buys or sells q of an asset at one price.
ExactTrade(a, q, price, rate) ==
    /\ q # 0
    /\ holding' = [holding EXCEPT ![a] = @ + q]
    /\ money' = money - Paid(q, price, rate)

\* The same in books that carry an average cost, a whole number of quanta:
\* adding to a holding may put them off by less than a quantum a unit held.
Trade(a, q, price, rate) ==
    LET error == money' - (money - Paid(q, price, rate))
    IN  /\ q # 0
        /\ holding' = [holding EXCEPT ![a] = @ + q]
        /\ IF holding[a] * q >= 0
             THEN Magnitude(error) < Unit * Magnitude(holding'[a])
             ELSE error = 0

\* Positive rates debit longs and credit shorts.
Settle(a, f) ==
    /\ money' = money - holding[a] * f.mark * f.rate
    /\ UNCHANGED holding

Settled == \E a \in Assets, f \in Settlements : Settle(a, f)

Next ==
    \/ \E a \in Assets, price \in Prices, rate \in FeeRates :
          Trade(a, holding'[a] - holding[a], price, rate)
    \/ Settled

ExactNext ==
    \/ \E a \in Assets, price \in Prices, rate \in FeeRates :
          ExactTrade(a, holding'[a] - holding[a], price, rate)
    \/ Settled

Spec == Init /\ [][Next]_<<money, holding>>
ExactSpec == Init /\ [][ExactNext]_<<money, holding>>
=============================================================================
