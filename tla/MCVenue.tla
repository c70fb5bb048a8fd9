------------------------------ MODULE MCVenue ------------------------------
(***************************************************************************)
(* Instance of the client: a second is 2 units, a bar 4.  Four candles and *)
(* three settlements in pages of two, while bars close; marks from before  *)
(* the listing; three pages of instruments.                                *)
(***************************************************************************)
EXTENDS VenueProperties

Bar(t, open, high, low, close, volume) ==
    [at |-> t, open |-> open, high |-> high, low |-> low, close |-> close,
     volume |-> volume, turnover |-> close * volume]
Rate(t, rate) == [at |-> t, rate |-> rate]
Mark(t, close) == [at |-> t, open |-> 2, high |-> 3, low |-> 1, close |-> close]

Final(kind, t) ==
    CASE kind = "candles" -> Bar(t, 2, 3, 1, 2, 3)
      [] kind = "marks" -> Mark(t, 2)
      [] kind = "funding" -> Rate(t, "settled")
Interim(kind, t) ==
    CASE kind = "candles" -> Bar(t, 2, 2, 1, 1, 1)
      [] kind = "marks" -> Mark(t, 1)
      [] kind = "funding" -> Rate(t, "predicted")

AllRequests ==
    {[kind |-> "candles", start |-> 4, end |-> 20],
     [kind |-> "funding", start |-> 2, end |-> 14],
     [kind |-> "marks", start |-> 0, end |-> 12],
     [kind |-> "instruments", wanted |-> {}],
     [kind |-> "instruments", wanted |-> {1, 3}]}

Listing(symbol, eligible) == [symbol |-> symbol, eligible |-> eligible]
ThreePages == <<<<Listing(3, TRUE), Listing(2, FALSE)>>, <<Listing(1, TRUE)>>, <<Listing(4, TRUE)>>>>

\* Rows from elsewhere: up to four, also misaligned, unsound or not closed.
AnyRow(kind) ==
    LET times == {0, 4, 6, 8, 12, 16}
    IN  CASE kind = "candles" -> {Final(kind, t) : t \in times}
                 \cup {Bar(t, 1, 2, 1, 3, 1) : t \in {4, 8}} \cup {Bar(4, 0, 1, 0, 1, 1)}
                 \cup {[Bar(8, 2, 3, 1, 2, 3) EXCEPT !.turnover = -1]}
          [] kind = "marks" -> {Final(kind, t) : t \in times} \cup {Mark(4, 4)}
          [] kind = "funding" -> {Final(kind, t) : t \in times} \cup {Rate(8, NotFinite)}
AnyRows(kind) == UNION {[1..n -> AnyRow(kind)] : n \in 0..4}
=============================================================================
