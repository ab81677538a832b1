---------------------------- MODULE SellerFigures ----------------------------
(***************************************************************************)
(* What a seller's dashboard shows.  Of the orders in the mirror: the      *)
(* summary of analytics.py on the Overview tab (OverviewTab.tsx,           *)
(* useAnalyticsSummary.ts), and on the Orders tab the tiles, the pick list *)
(* and the deadlines (OrdersTab.tsx, PickListView.tsx,                     *)
(* sellerOrderHelpers.ts).  Two parts of the code fold the same orders     *)
(* apart from each other, one in SQL and one in the page; the clocks of    *)
(* the two agree.  Of the seller's products: the list of the Products tab  *)
(* (ProductsTab.tsx), in the second half.                                  *)
(*                                                                         *)
(* The orders move through the statuses the indexer writes, their times    *)
(* are ticks, Day of them a day.  The weekly and the monthly window are    *)
(* Week and Month days long.                                               *)
(***************************************************************************)
EXTENDS EtaloClock, Sequences, SequencesExt, FiniteSetsExt

CONSTANTS
    Sales,        \* the orders of the seller
    AmountOf,     \* [Sales -> Nat]: total_amount_usdt
    CartOf,       \* [Sales -> Seq(Skus)]: product_ids; empty where the backend knows none
    Skus,
    Article,      \* the line item of an order without products
    Day, Week, Month,
    ShipWindow,   \* SELLER_INACTIVITY_WINDOW_MS
    UrgentLeft, WarnLeft,
    TopRows,      \* LIMIT of the top products
    PageRows      \* orders on a page

ASSUME FiguresAssumption ==
    /\ IsFiniteSet(Sales) /\ IsFiniteSet(Skus) /\ Article \notin Skus
    /\ AmountOf \in [Sales -> Nat \ {0}] /\ CartOf \in [Sales -> Seq(Skus)]
    /\ {Day, ShipWindow, TopRows, PageRows} \subseteq Nat \ {0} /\ {UrgentLeft, WarnLeft} \subseteq Nat
    /\ Week \in Nat \ {0, 1} /\ Month \in Week .. 5 * Week
    /\ 0 < UrgentLeft /\ UrgentLeft < WarnLeft /\ WarnLeft < ShipWindow

VARIABLE book   \* the seller's orders in the mirror: [status, at, funded]

Absent == [status |-> "None", at |-> 0, funded |-> 0]
BookInit == book = [o \in Sales |-> Absent]

Escrowed == {"Funded", "PartiallyShipped", "AllShipped", "PartiallyDelivered"}

\* The statuses an order may be in next (OrderLifecycle), as the indexer mirrors them: of a
\* cancellation it does not hear, and a dispute leaves the order's status alone.
After(s) ==
    CASE s = "Created"            -> {"Funded"}
      [] s = "Funded"             -> {"PartiallyShipped", "AllShipped", "PartiallyDelivered", "Completed", "Refunded"}
      [] s = "PartiallyShipped"   -> {"AllShipped", "PartiallyDelivered", "Completed", "Refunded"}
      [] s = "AllShipped"         -> {"PartiallyDelivered", "Completed", "Refunded"}
      [] s = "PartiallyDelivered" -> {"Completed", "Refunded"}
      [] OTHER                    -> {}

BookMoves(o) ==
    /\ \/ book[o] = Absent /\ book' = [book EXCEPT ![o] = [Absent EXCEPT !.status = "Created", !.at = now]]
       \/ \E s \in After(book[o].status) :
              book' = [book EXCEPT ![o].status = s, ![o].funded = IF s = "Funded" THEN now ELSE @]
    /\ UNCHANGED now

\* The end of time, for model checking.
BookCloses == now = MaxTime /\ (\A o \in Sales : After(book[o].status) = {} /\ book[o] # Absent) /\ UNCHANGED <<now, book>>

BookNext == (\E o \in Sales : BookMoves(o)) \/ (Tick /\ UNCHANGED book) \/ BookCloses

SalesIn(statuses) == {o \in Sales : book[o].status \in statuses}
Money(S) == SumFunctionOnSet(AmountOf, S)

\* The rows of S as a sort leaves them, "above" being what it compares: no two of them the wrong
\* way round, and those it does not tell apart in any order.
Ranked(S, Above(_, _)) ==
    CHOOSE rows \in [1 .. Cardinality(S) -> S] :
        \A i, j \in 1 .. Cardinality(S) : i < j => rows[i] # rows[j] /\ ~Above(rows[j], rows[i])
-------------------------------------------------------------------------------
(***************************************************************************)
(* analytics.py.                                                           *)
(***************************************************************************)
Completed == SalesIn({"Completed"})

EarnedSince(ticks) == Money({o \in Completed : book[o].at >= now - ticks})

DayOf(t) == t \div Day
LastDays == [k \in 1 .. Week |-> DayOf(now) - Week + k]

\* The rows of the last seven times 24 hours, grouped by date; of those eight dates, the last seven.
Timeline ==
    [k \in 1 .. Week |-> Money({o \in Completed : /\ book[o].at >= now - Week * Day
                                                  /\ DayOf(book[o].at) = LastDays[k]})]

\* Mutant: an order of which a part is shipped needs nobody's attention.
ActiveButHalfShipped == SalesIn(Escrowed \ {"PartiallyShipped"})

Active == SalesIn(Escrowed)

\* The whole of an order goes to its first product.
LeadOf(o) == CartOf[o][1]
Leading(p) == {o \in Completed : Len(CartOf[o]) > 0 /\ LeadOf(o) = p}
TopProducts ==
    LET earning == {p \in Skus : Leading(p) # {}}
        row(p) == [product |-> p, revenue |-> Money(Leading(p))]
        rows == Ranked({row(p) : p \in earning}, LAMBDA a, b : a.revenue > b.revenue)
    IN  SubSeq(rows, 1, Min({TopRows, Len(rows)}))

Summary ==
    [h24 |-> EarnedSince(Day), d7 |-> EarnedSince(Week * Day), d30 |-> EarnedSince(Month * Day), timeline |-> Timeline,
     active |-> Cardinality(Active), inEscrow |-> Money(Active), released |-> Money(Completed), top |-> TopProducts]
-------------------------------------------------------------------------------
(***************************************************************************)
(* The Overview tab, with the query of the summary "pending", failed       *)
(* ("error") or answered by f ("data").                                    *)
(***************************************************************************)
Tile(query, value) == CASE query = "pending" -> "skeleton" [] query = "error" -> "dash" [] OTHER -> value

Kpis(query, f) ==
    [inEscrow |-> Tile(query, f.inEscrow), active |-> Tile(query, f.active),
     day |-> Tile(query, f.h24), week |-> Tile(query, f.d7)]

Hero(query, f) ==
    IF query # "data" THEN "hidden"
    ELSE IF f.active > 0 THEN "ship soon"
    ELSE IF f.h24 > 0 THEN "strong day" ELSE "caught up"

Chart(query, f) ==
    IF query = "data" THEN IF \A k \in 1 .. Week : f.timeline[k] = 0 THEN "waiting for a sale" ELSE "line"
    ELSE Tile(query, "line")

TopCard(query, f) == IF query = "data" THEN IF f.top = <<>> THEN "none yet" ELSE "list" ELSE Tile(query, "list")

\* The rows of a page, newest first, and of those the latest shown on the Overview tab.
PageOf(S) ==
    LET rows == Ranked(S, LAMBDA a, b : book[a].at > book[b].at) IN SubSeq(rows, 1, Min({PageRows, Len(rows)}))
Orders1 == PageOf({o \in Sales : book[o] # Absent})
Recent(query) == IF query # "data" THEN "skeleton" ELSE IF Orders1 = <<>> THEN "none yet" ELSE "list"
-------------------------------------------------------------------------------
(***************************************************************************)
(* The Orders tab.                                                         *)
(***************************************************************************)
ToShip == {o \in ToSet(Orders1) : book[o].status \in {"Funded", "PartiallyShipped"}}

\* The line items of an order: how many of each product, or its items as "Article".
LineItems(o) ==
    IF CartOf[o] = <<>> THEN [p \in {Article} |-> 1]
    ELSE [p \in ToSet(CartOf[o]) |-> Cardinality({k \in DOMAIN CartOf[o] : CartOf[o][k] = p})]

Left(o) == book[o].funded + ShipWindow - now
Urgency(left) ==
    IF left <= 0 THEN "expired" ELSE IF left <= UrgentLeft THEN "urgent" ELSE IF left <= WarnLeft THEN "warn" ELSE "safe"

Units(o) == SumFunction(LineItems(o))

\* The tiles of the tab.  "earliest" is the window itself where nothing is to be shipped.
Tiles ==
    [orders |-> Cardinality(ToShip), items |-> SumFunction([o \in ToShip |-> Units(o)]),
     earliest |-> Min({ShipWindow} \cup {Left(o) : o \in ToShip})]

\* The tile of the next deadline, hidden with the others when nothing is to be shipped.
NextDeadline == IF Tiles.orders = 0 THEN "hidden" ELSE Urgency(Tiles.earliest)

\* Mutant: an order counts once for each product, however many of it were bought.
TakesOnce(o, p) == IF p \in DOMAIN LineItems(o) THEN 1 ELSE 0

Takes(o, p) == IF p \in DOMAIN LineItems(o) THEN LineItems(o)[p] ELSE 0

PickRow(p) ==
    LET from == {o \in ToShip : Takes(o, p) > 0}
    IN  [sku |-> p, qty |-> SumFunction([o \in from |-> Takes(o, p)]), orders |-> Cardinality(from),
         left |-> Min({Left(o) : o \in from})]

\* One row for each product to be taken from the shelf, the most urgent first.
PickList ==
    LET wanted == {p \in Skus \cup {Article} : \E o \in ToShip : Takes(o, p) > 0}
    IN  Ranked({PickRow(p) : p \in wanted}, LAMBDA a, b : a.left < b.left \/ (a.left = b.left /\ a.qty > b.qty))

\* The badge of a row.
PickNote(row) == IF Urgency(row.left) = "expired" THEN "past deadline" ELSE Urgency(row.left)
-------------------------------------------------------------------------------
(***************************************************************************)
(* Properties.                                                             *)
(***************************************************************************)
\* The windows nest, and the chart misses of the week's revenue the part of an eighth date alone.
RevenueAddsUp ==
    LET f == Summary
        eighth == Money({o \in Completed : /\ book[o].at >= now - Week * Day /\ DayOf(book[o].at) = DayOf(now) - Week})
    IN  /\ f.h24 <= f.d7 /\ f.d7 <= f.d30 /\ f.d30 <= f.released
        /\ SumFunction(f.timeline) + eighth = f.d7
        /\ SumFunction([k \in DOMAIN f.top |-> f.top[k].revenue]) <= f.released
        /\ Chart("data", f) = "waiting for a sale" => f.h24 = 0

\* A seller told to be all caught up has nothing left to ship, on whichever tab.
CaughtUpIsTrue == Hero("data", Summary) = "caught up" => ToShip = {} /\ Kpis("data", Summary).inEscrow = 0

\* The tiles and the pick list of the Orders tab, folded apart, tell the same: as many pieces, the
\* same next deadline, and none the one without the other.
ViewsAgree ==
    /\ SumFunction([k \in DOMAIN PickList |-> PickList[k].qty]) = Tiles.items
    /\ (PickList = <<>>) = (Tiles.orders = 0)
    /\ PickList # <<>> => /\ PickList[1].left = Tiles.earliest
                           /\ (PickNote(PickList[1]) = "past deadline") = (NextDeadline = "expired")
    /\ Cardinality({o \in Sales : book[o] # Absent}) <= PageRows =>
           \A o \in SalesIn({"Funded", "PartiallyShipped"}) : Tiles.earliest <= Left(o)

FiguresAgree == RevenueAddsUp /\ CaughtUpIsTrue /\ ViewsAgree
-------------------------------------------------------------------------------
(***************************************************************************)
(* The Products tab: the products as of the last fetch, searched, filtered *)
(* by status, sorted, shown PageSize at a time, and counted.  What its     *)
(* dialogs do is ProductDesk.                                              *)
(***************************************************************************)
CONSTANTS
    Goods,      \* the seller's products, numbered as they were created
    PriceAt,    \* [Goods -> Nat]
    Named,      \* the products the search would find
    LowStock,   \* LOW_STOCK_THRESHOLD
    MaxStock,
    PageSize

ASSUME ListAssumption ==
    /\ Goods \subseteq Nat /\ IsFiniteSet(Goods) /\ PriceAt \in [Goods -> Nat] /\ Named \subseteq Goods
    /\ MaxStock \in Nat /\ LowStock \in 1 .. MaxStock /\ PageSize \in Nat \ {0}

Statuses == {"active", "draft", "paused"}
Sorts == {"newest", "oldest", "price_asc", "price_desc", "stock_asc"}

VARIABLES
    fetched,     \* the query: "pending", "error" or "data"
    list,        \* its data: [Goods -> product or Missing]
    searchRaw, searchDebounced,  \* whether something is searched for
    statusFilter, sort, visibleCount,
    turned       \* "Load more" was pressed for these very controls

controls == <<searchDebounced, statusFilter, sort>>
listVars == <<fetched, list, searchRaw, controls, visibleCount, turned>>

Missing == [status |-> "none", stock |-> 0]
Entries == {Missing} \cup [status : Statuses, stock : 0 .. MaxStock]

ListInit ==
    /\ fetched = "pending" /\ list = [p \in Goods |-> Missing]
    /\ searchRaw = FALSE /\ searchDebounced = FALSE /\ statusFilter = "all" /\ sort = "newest"
    /\ visibleCount = PageSize /\ turned = FALSE
-------------------------------------------------------------------------------
(***************************************************************************)
(* What the Products tab shows.                                            *)
(***************************************************************************)
Products == {p \in Goods : list[p] # Missing}
With(status) == {p \in Products : list[p].status = status}
OutOfStock == {p \in With("active") : list[p].stock = 0}
LowOnStock == {p \in With("active") : list[p].stock > 0 /\ list[p].stock < LowStock}

\* The tiles and the chips count all products, whatever is searched for.
Counts ==
    [all |-> Cardinality(Products), active |-> Cardinality(With("active")), draft |-> Cardinality(With("draft")),
     paused |-> Cardinality(With("paused")), low |-> Cardinality(LowOnStock), out |-> Cardinality(OutOfStock)]

Matches(filter, search) ==
    {p \in Products : (filter = "all" \/ list[p].status = filter) /\ (search => p \in Named)}

\* The sorts keep the order of the backend, newest first, where they do not tell.
Before(p, q) ==
    LET key == CASE sort = "oldest"     -> <<p, q>>
                 [] sort = "price_asc"  -> <<PriceAt[p], PriceAt[q]>>
                 [] sort = "price_desc" -> <<PriceAt[q], PriceAt[p]>>
                 [] sort = "stock_asc"  -> <<list[p].stock, list[q].stock>>
                 [] OTHER               -> <<q, p>>
    IN  key[1] < key[2] \/ (key[1] = key[2] /\ p > q)

FilteredSorted == Ranked(Matches(statusFilter, searchDebounced), Before)
VisibleProducts == SubSeq(FilteredSorted, 1, Min({visibleCount, Len(FilteredSorted)}))
HasMore == Len(FilteredSorted) > visibleCount

\* A fetch that failed the first time leaves the page with no products.
Screen ==
    IF fetched = "pending" THEN "skeleton"
    ELSE IF Products = {} THEN "no products yet"
    ELSE IF FilteredSorted = <<>> THEN "no matching products" ELSE "list"

\* What a row of the list and a card of the grid say of a product; the card is silent on a stock
\* that is neither low nor out.
StockLabel(p) == IF p \in OutOfStock THEN "out" ELSE IF p \in LowOnStock THEN "low" ELSE "stock"
Row(p) == [status |-> list[p].status, price |-> PriceAt[p], mark |-> StockLabel(p)]
Card(p) == [Row(p) EXCEPT !.mark = IF p \in OutOfStock \cup LowOnStock THEN @ ELSE "none"]

\* A chip of the filter, and the tone of a tile.
Chip(s) == [count |-> Counts[s], pressed |-> statusFilter = s]
Tone(count, alarm) == IF count > 0 THEN alarm ELSE "neutral"
-------------------------------------------------------------------------------
(***************************************************************************)
(* What the seller does, and the backend.                                  *)
(***************************************************************************)
\* The dialogs of the tab and other devices change the products.  Bound: one of them between two
\* fetches, and none before the first but by creating it.
Fetches ==
    /\ fetched' = "data" /\ \E p \in Goods, e \in Entries : list' = [list EXCEPT ![p] = e]
    /\ UNCHANGED <<searchRaw, controls, visibleCount, turned>>
FetchFails ==
    /\ fetched' = "error" /\ UNCHANGED <<list, searchRaw, controls, visibleCount, turned>>

\* Mutant: only a search sets the window back.
BackForSearch(criteria) == criteria[1] # searchDebounced

NewCriteria(criteria) == criteria # controls

\* The window is the first page again when one of the controls has changed.
Sets(search, filter, by) ==
    /\ searchDebounced' = search /\ statusFilter' = filter /\ sort' = by
    /\ visibleCount' = IF NewCriteria(<<search, filter, by>>) THEN PageSize ELSE visibleCount
    /\ turned' = (turned /\ <<search, filter, by>> = controls)
    /\ UNCHANGED <<fetched, list>>

Usable == Screen \in {"no matching products", "list"}

Search == Usable /\ searchRaw' = ~searchRaw /\ Sets(searchDebounced, statusFilter, sort)

\* After 200 ms of quiet, whatever the screen shows by then.
Debounces == searchDebounced # searchRaw /\ Sets(searchRaw, statusFilter, sort) /\ UNCHANGED searchRaw

SetFilter ==
    Usable /\ (\E s \in Statuses \cup {"all"} : Sets(searchDebounced, s, sort)) /\ UNCHANGED searchRaw
SetSort == Usable /\ (\E by \in Sorts : Sets(searchDebounced, statusFilter, by)) /\ UNCHANGED searchRaw
ClearFilters ==
    Screen = "no matching products" /\ searchRaw' = FALSE /\ Sets(searchDebounced, "all", sort)

LoadMore ==
    /\ Screen = "list" /\ HasMore /\ visibleCount' = visibleCount + PageSize /\ turned' = TRUE
    /\ UNCHANGED <<fetched, list, searchRaw, controls>>

ListNext ==
    \/ Fetches \/ FetchFails
    \/ Search \/ Debounces \/ SetFilter \/ SetSort \/ ClearFilters \/ LoadMore
-------------------------------------------------------------------------------
(***************************************************************************)
(* Properties of the Products tab.                                         *)
(***************************************************************************)
\* A chip counts what it will show, and the tiles what the products below are marked with,
\* in the list as in the grid.
ChipsKeepTheirWord ==
    /\ Counts.all = Counts.active + Counts.draft + Counts.paused
    /\ \A s \in Statuses \cup {"all"} : Chip(s).count = Cardinality(Matches(s, FALSE))
    /\ (Tone(Counts.out, "danger") = "danger") = (\E p \in Products : Row(p).mark = "out")
    /\ Screen = "list" /\ statusFilter \in {"all", "active"} /\ ~searchDebounced /\ ~HasMore =>
           LET shown == ToSet(VisibleProducts)
           IN  /\ Counts.out = Cardinality({p \in shown : Row(p).mark = "out"})
               /\ Counts.low = Cardinality({p \in shown : Card(p).mark = "low"})

\* More than a page is shown only where "Load more" was pressed for just these results.
WindowIsForTheseResults == visibleCount > PageSize => turned

\* Nothing that matches stays out of reach: it is shown, or there is more to load.
EveryMatchInReach ==
    Screen = "list" => VisibleProducts # <<>> /\ (HasMore \/ ToSet(VisibleProducts) = Matches(statusFilter, searchDebounced))

ListIsSound == ChipsKeepTheirWord /\ WindowIsForTheseResults /\ EveryMatchInReach
===============================================================================
