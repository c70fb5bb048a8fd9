---------------------------- MODULE VenueClient ----------------------------
(***************************************************************************)
(* BybitV5PublicClient (data/adapters/bybit_v5.py) against a venue whose   *)
(* clock runs on between two requests, and which may drop, repeat, reorder *)
(* or misplace rows between pages.  Candles, marks and funding are fetched *)
(* backward, page by page, instruments along cursors; the transport tries  *)
(* each request a bounded number of times.                                 *)
(*                                                                         *)
(* The venue is external.  A bar it serves before its close still changes; *)
(* afterwards it is final.                                                 *)
(***************************************************************************)
EXTENDS MarketSeries

CONSTANTS
    Period,       \* the timeframe of the series; the interval of funding
    Requests,     \* [kind, start, end] or [kind |-> "instruments", wanted]
    Moments,      \* when the venue's clock is looked at
    Listed,       \* the venue's history starts here
    Limit,        \* rows of a page
    Attempts,     \* UrlLibPublicTransport.attempts
    FinalRow(_, _), InterimRow(_, _),  \* what the venue serves for kind and time
    StrayTimes,   \* times of the rows of a dishonest page
    StrayRows,    \* bound: rows of a dishonest page
    Catalog,      \* pages of [symbol, eligible]; symbols in their order
    Cursors,      \* cursors a dishonest venue may return, 0 for none
    Batches(_)    \* rows of a kind from elsewhere, for the validators

SeriesRequests == {r \in Requests : r.kind # "instruments"}

ASSUME VenueAssumption ==
    /\ Period \in Nat \ {0} /\ Period % Second = 0
    /\ Moments \subseteq Nat /\ IsFiniteSet(Moments) /\ Moments # {}
    /\ Limit \in Nat \ {0} /\ Attempts \in Nat \ {0} /\ StrayRows \in Nat
    /\ 0 \in Cursors /\ Cursors \subseteq 0..(Len(Catalog) - 1)
    /\ Listed \in Int /\ StrayTimes \subseteq Int
    /\ \A r \in SeriesRequests :
           /\ r.kind \in {"candles", "marks", "funding"}
           /\ r.start \in Int /\ r.end \in Int /\ r.start < r.end

\* What a row and a series of a kind are: parsed numbers, in a tuple.
IsRow(kind, row) ==
    /\ row.at \in Int
    /\ kind # "funding" => {row.open, row.high, row.low, row.close} \subseteq Int
    /\ kind = "candles" => row.volume \in Int /\ row.turnover \in Int

ASSUME RowsAssumption ==
    \A r \in SeriesRequests :
        /\ \A t \in StrayTimes \cup (Listed..Max(Moments)) :
               \A row \in {FinalRow(r.kind, t), InterimRow(r.kind, t)} :
                   IsRow(r.kind, row) /\ row.at = t
        /\ \A batch \in Batches(r.kind) :
               /\ batch \in Seq(Range(batch))
               /\ \A i \in DOMAIN batch : IsRow(r.kind, batch[i])

\* The catalog names an instrument once.
ASSUME CatalogAssumption ==
    /\ Catalog \in Seq(Range(Catalog))
    /\ \A i \in DOMAIN Catalog :
           /\ Catalog[i] \in Seq(Range(Catalog[i]))
           /\ \A k \in DOMAIN Catalog[i] :
                  /\ Catalog[i][k].symbol \in Int /\ Catalog[i][k].eligible \in BOOLEAN
                  /\ \A j \in DOMAIN Catalog : \A l \in DOMAIN Catalog[j] :
                         Catalog[i][k].symbol = Catalog[j][l].symbol => i = j /\ k = l

VARIABLES
    clock,      \* the venue's
    request,    \* what is asked for
    phase,      \* "idle", "time", "pages", "done" or "failed"
    serverTime,
    pageEnd,
    cursor,     \* of the next page of instruments; 0 for the first
    seen,       \* seen_cursors
    attempt,    \* failed attempts at the current request
    rows,       \* candles, rates or instruments so far; the download when done
    honest      \* history: whether every page was what the venue has

vars == <<clock, request, phase, serverTime, pageEnd, cursor, seen, attempt, rows, honest>>

Init ==
    /\ clock = Min(Moments)
    /\ phase = "idle"
    /\ request \in SeriesRequests
    /\ serverTime \in {Whole(t) : t \in Moments}
    /\ rows \in Batches(request.kind)
    /\ pageEnd = 0
    /\ cursor = 0
    /\ seen = {}
    /\ attempt = 0
    /\ honest = TRUE

Tick ==
    /\ phase \in {"time", "pages"}
    /\ \E t \in Moments : t > clock /\ clock' = t
    /\ UNCHANGED <<request, phase, serverTime, pageEnd, cursor, seen, attempt, rows, honest>>

Start(r) ==
    /\ phase = "idle"
    /\ request' = r
    /\ phase' = IF r.kind = "instruments" THEN "pages" ELSE "time"
    /\ rows' = << >>
    /\ serverTime' = 0
    /\ UNCHANGED <<clock, pageEnd, cursor, seen, attempt, honest>>
-----------------------------------------------------------------------------
(***************************************************************************)
(* What the venue may answer.                                              *)
(***************************************************************************)
VenueRow(kind, t) ==
    LET final == IF kind = "funding" THEN t <= clock ELSE t + Period <= clock
    IN  IF final THEN FinalRow(kind, t) ELSE InterimRow(kind, t)

VenueTimes == {t \in Listed..clock : t % Period = 0}

\* The newest rows from start to the end of the page, newest first.
HonestPage ==
    LET times == {t \in VenueTimes : request.start <= t /\ t <= pageEnd}
        newest == {t \in times : Cardinality({u \in times : u > t}) < Limit}
        order == Descending(newest)
    IN  [i \in DOMAIN order |-> VenueRow(request.kind, order[i])]

StrayPages ==
    {[i \in DOMAIN times |-> VenueRow(request.kind, times[i])] :
        times \in UNION {[1..n -> StrayTimes] : n \in 0..StrayRows}}

HonestListing == [list |-> Catalog[cursor + 1],
                  next |-> IF cursor + 1 = Len(Catalog) THEN 0 ELSE cursor + 1]

StrayListings == [list : Range(Catalog) \cup {<< >>}, next : Cursors]
-----------------------------------------------------------------------------
(***************************************************************************)
(* UrlLibPublicTransport.get and the envelope.                             *)
(***************************************************************************)
Asking == phase \in {"time", "pages"}

Fail == /\ phase' = "failed"
        /\ rows' = << >>
        /\ attempt' = 0
        /\ UNCHANGED <<clock, request, serverTime, pageEnd, cursor, seen>>

\* OSError or JSONDecodeError, with attempts left.
Retry ==
    /\ Asking
    /\ attempt + 1 < Attempts
    /\ attempt' = attempt + 1
    /\ UNCHANGED <<clock, request, phase, serverTime, pageEnd, cursor, seen, rows, honest>>

GiveUp ==
    /\ Asking
    /\ attempt + 1 = Attempts
    /\ Fail
    /\ UNCHANGED honest

\* An error envelope, the category or symbol of another series, or a value
\* that does not parse; the raw page is preserved all the same.
RefuseAnswer == Asking /\ Fail /\ UNCHANGED honest

\* server_time: whole seconds.
AnswerTime ==
    /\ phase = "time"
    /\ phase' = "pages"
    /\ serverTime' = Whole(clock)
    /\ pageEnd' = request.end - 1
    /\ attempt' = 0
    /\ UNCHANGED <<clock, request, cursor, seen, rows, honest>>
-----------------------------------------------------------------------------
(***************************************************************************)
(* fetch_closed_candles, fetch_mark_price_candles, fetch_funding_rates.    *)
(***************************************************************************)
\* Mutant of Closed: a bar that has opened is taken.
Opened(row) == row.at <= serverTime

Closed(row) ==
    IF request.kind = "funding" THEN row.at <= serverTime
                                ELSE row.at + Period <= serverTime

Kept(page) ==
    Picked(page, {i \in DOMAIN page : /\ request.start <= page[i].at
                                      /\ page[i].at < request.end
                                      /\ Closed(page[i])})

Oldest(page) == Min(Times(page))

More(page) == page # << >> /\ Oldest(page) > request.start

TakePage(page) ==
    /\ phase = "pages"
    /\ request.kind # "instruments"
    /\ honest' = (honest /\ page = HonestPage)

FinishSeries(page) ==
    /\ TakePage(page)
    /\ ~More(page)
    /\ phase' = "done"
    /\ rows' = InTimeOrder(rows \o Kept(page))
    /\ attempt' = 0
    /\ UNCHANGED <<clock, request, serverTime, pageEnd, cursor, seen>>

\* Mutant of TurnPage: the page need not be older than the one before.
TurnAnyPage(page) ==
    /\ TakePage(page)
    /\ More(page)
    /\ pageEnd' = Oldest(page) - 1
    /\ rows' = IF Oldest(page) <= pageEnd THEN rows \o Kept(page) ELSE rows
    /\ attempt' = 0
    /\ UNCHANGED <<clock, request, phase, serverTime, cursor, seen>>

\* Mutant of TurnPage: the oldest row is asked for again.
TurnPageOverlapping(page) ==
    /\ TakePage(page)
    /\ More(page)
    /\ Oldest(page) < pageEnd
    /\ pageEnd' = Oldest(page)
    /\ rows' = rows \o Kept(page)
    /\ attempt' = 0
    /\ UNCHANGED <<clock, request, phase, serverTime, cursor, seen>>

TurnPage(page) ==
    /\ TakePage(page)
    /\ More(page)
    /\ Oldest(page) - 1 < pageEnd
    /\ pageEnd' = Oldest(page) - 1
    /\ rows' = rows \o Kept(page)
    /\ attempt' = 0
    /\ UNCHANGED <<clock, request, phase, serverTime, cursor, seen>>

\* "pagination did not advance"
RefusePage(page) ==
    /\ TakePage(page)
    /\ More(page)
    /\ Oldest(page) - 1 >= pageEnd
    /\ Fail
-----------------------------------------------------------------------------
(***************************************************************************)
(* fetch_instruments.                                                      *)
(***************************************************************************)
Wanted(page) ==
    Picked([i \in DOMAIN page.list |-> page.list[i].symbol],
           {i \in DOMAIN page.list :
               /\ page.list[i].eligible
               /\ request.wanted = {} \/ page.list[i].symbol \in request.wanted})

TakeListing(page) ==
    /\ phase = "pages"
    /\ request.kind = "instruments"
    /\ honest' = (honest /\ page = HonestListing)

\* Mutant of TurnListing: only the cursor of the page before is remembered.
TurnListingUnlessSame(page) ==
    /\ TakeListing(page)
    /\ page.next # 0
    /\ page.next # cursor
    /\ cursor' = page.next
    /\ rows' = SetToSeq(ToSet(rows \o Wanted(page)))
    /\ attempt' = 0
    /\ UNCHANGED <<clock, request, phase, serverTime, pageEnd, seen>>

TurnListing(page) ==
    /\ TakeListing(page)
    /\ page.next # 0
    /\ page.next \notin seen
    /\ seen' = seen \cup {page.next}
    /\ cursor' = page.next
    /\ rows' = rows \o Wanted(page)
    /\ attempt' = 0
    /\ UNCHANGED <<clock, request, phase, serverTime, pageEnd>>

FinishListing(page) ==
    /\ TakeListing(page)
    /\ page.next = 0
    /\ request.wanted \subseteq ToSet(rows \o Wanted(page))
    /\ rows \o Wanted(page) # << >>
    /\ phase' = "done"
    /\ rows' = LET found == rows \o Wanted(page) IN Sorted(found, found)
    /\ attempt' = 0
    /\ UNCHANGED <<clock, request, serverTime, pageEnd, cursor, seen>>

\* The cursor did not advance, or requested instruments, or all, are missing.
RefuseListing(page) ==
    /\ TakeListing(page)
    /\ \/ page.next # 0 /\ page.next \in seen
       \/ page.next = 0 /\ \/ ~ request.wanted \subseteq ToSet(rows \o Wanted(page))
                           \/ rows \o Wanted(page) = << >>
    /\ Fail
-----------------------------------------------------------------------------
AnswerRows ==
    \E page \in StrayPages \cup {HonestPage} :
        FinishSeries(page) \/ TurnPage(page) \/ RefusePage(page)

AnswerListing ==
    \E page \in StrayListings \cup {HonestListing} :
        TurnListing(page) \/ FinishListing(page) \/ RefuseListing(page)

\* An attempt ends: the transport has a timeout.
Exchange ==
    \/ Retry \/ GiveUp \/ RefuseAnswer \/ AnswerTime
    \/ phase = "pages" /\ request.kind # "instruments" /\ AnswerRows
    \/ phase = "pages" /\ request.kind = "instruments" /\ AnswerListing

Next ==
    \/ Tick
    \/ \E r \in Requests : Start(r)
    \/ Exchange

Spec == Init /\ [][Next]_vars /\ WF_vars(Exchange)
=============================================================================
