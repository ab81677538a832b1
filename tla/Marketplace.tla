------------------------------ MODULE Marketplace ------------------------------
(***************************************************************************)
(* The marketplace: the filters a buyer sets in the URL                    *)
(* (MarketplaceClient.tsx, MarketplaceSearchInput.tsx, the chips), the     *)
(* pages the listing is made of (useMarketplaceProducts.ts), and the route *)
(* that cuts them with a cursor (marketplace.py), while sellers publish,   *)
(* pause and resume products between two pages.                            *)
(*                                                                         *)
(* A product is its age: the higher, the newer.  An answer of the route    *)
(* may come from a cache on the way (Cache-Control), hence `cached'.       *)
(***************************************************************************)
EXTENDS Integers, Sequences, FiniteSets, Functions

CONSTANTS
    Newest,       \* products are 1 .. Newest
    HomeGoods,    \* those of the buyer's country
    NamedGoods,   \* those a search or a category keeps
    PageSize,
    MaxTurns      \* bound on the filters changed, and on the products published and paused

ASSUME MarketplaceAssumption ==
    /\ {Newest, MaxTurns} \subseteq Nat /\ PageSize \in Nat \ {0}
    /\ HomeGoods \cup NamedGoods \subseteq 1 .. Newest

Goods == 1 .. Newest
NoMore == 0           \* next_cursor is null
Top == Newest + 1     \* no cursor

VARIABLES
    live,      \* active products with an image
    cached,    \* live as the caches have it
    url,       \* country, narrowed (by a search or a category) and sort
    home,      \* the buyer's profile: "unknown", "none" or "home"
    display,   \* the listing on display
    fetch,     \* the fetch under way
    turns      \* changes so far

marketVars == <<live, cached, url, home, display, fetch, turns>>

Nothing == [goods |-> <<>>, next |-> Top, steady |-> {}, pages |-> 0]
NoFetch == [on |-> FALSE, more |-> FALSE, left |-> 0, list |-> Nothing]

MarketInit ==
    /\ live \in SUBSET Goods /\ cached = live /\ home = "unknown" /\ turns = 0
    /\ url \in [country : {"unset", "all"}, narrowed : {FALSE}, sort : {"newest", "price"}]
    /\ display = [list |-> Nothing, at |-> "pending"] /\ fetch = NoFetch
-------------------------------------------------------------------------------
(***************************************************************************)
(* GET /marketplace/products.                                              *)
(***************************************************************************)
\* countryFilter: the URL, then the profile, then every country.
Country == IF url.country # "unset" THEN url.country ELSE IF home = "home" THEN "home" ELSE "all"

\* The key of the query.
Key == <<Country, url.narrowed, url.sort>>

Matches(g) == (Country = "home" => g \in HomeGoods) /\ (url.narrowed => g \in NamedGoods)

\* Mutant: the cursor is not strict.
AtCursor(g, cursor) == g <= cursor

\* created_at < cursor, whatever the sort.
PastCursor(g, cursor) == g < cursor

\* The products after a cursor, of what the database or a cache holds.
RowsAfter(L, cursor) == {g \in L : Matches(g) /\ PastCursor(g, cursor)}

\* The prices of the model rise with the age of a product, so the cheapest is the oldest.
Sooner(g, h) == IF url.sort = "newest" THEN g > h ELSE g < h

\* ORDER BY and LIMIT: the one sequence of the first rows, PageSize of them if there are so many.
Firsts(rows) ==
    {page \in UNION {[1 .. n -> rows] : n \in 0 .. PageSize} :
        /\ \A i, j \in DOMAIN page : i < j => Sooner(page[i], page[j])
        /\ \A g \in rows \ Range(page) : Len(page) = PageSize /\ Sooner(page[PageSize], g)}

\* The cursor a page ends with; one row more than a page tells whether there is another.
NextOf(page, rows) == IF Range(page) = rows THEN NoMore ELSE page[PageSize]
-------------------------------------------------------------------------------
(***************************************************************************)
(* useInfiniteQuery.                                                       *)
(***************************************************************************)
\* The query refetches on mount, after a failure, every 30 s, and at the buyer's wish: all
\* its pages one after the other, shown at the end.  One fetch at a time.
Refetch ==
    /\ ~fetch.on
    /\ fetch' = [on |-> TRUE, more |-> FALSE, list |-> Nothing,
                 left |-> IF display.list.pages = 0 THEN 1 ELSE display.list.pages]
    /\ UNCHANGED <<live, cached, url, home, display, turns>>

\* "Load more", in the place of a refetch under way.
LoadMore ==
    /\ display.at = "list" /\ display.list.next # NoMore /\ display.list.pages > 0 /\ ~fetch.more
    /\ fetch' = [on |-> TRUE, more |-> TRUE, left |-> 1, list |-> display.list]
    /\ UNCHANGED <<live, cached, url, home, display, turns>>

\* `steady' remembers, for the property, what has been there since the first page.
PageArrives(L) ==
    \E page \in Firsts(RowsAfter(L, fetch.list.next)) :
        LET next == NextOf(page, RowsAfter(L, fetch.list.next))
            list == [goods  |-> fetch.list.goods \o page, next |-> next, pages |-> fetch.list.pages + 1,
                     steady |-> IF fetch.list.pages = 0 THEN live \cap cached ELSE fetch.list.steady]
        IN  /\ fetch.on
            /\ IF fetch.left = 1 \/ next = NoMore
               THEN display' = [list |-> list, at |-> "list"] /\ fetch' = NoFetch
               ELSE fetch' = [fetch EXCEPT !.list = list, !.left = @ - 1] /\ UNCHANGED display
            /\ UNCHANGED <<live, cached, url, home, turns>>

\* Without a page to show, the failure is.
FetchFails ==
    /\ fetch.on /\ fetch' = NoFetch
    /\ display' = IF display.at = "list" THEN display ELSE [display EXCEPT !.at = "failed"]
    /\ UNCHANGED <<live, cached, url, home, turns>>
-------------------------------------------------------------------------------
(***************************************************************************)
(* The filters.  Another key is another listing, that starts with nothing: *)
(* what the query may still have of it is left out.                        *)
(***************************************************************************)
Rekeyed ==
    IF Key' = Key THEN UNCHANGED <<display, fetch>>
    ELSE display' = [list |-> Nothing, at |-> "pending"] /\ fetch' = NoFetch

Turn == turns < MaxTurns /\ turns' = turns + 1

\* The chips and the sort are not there before a listing is, and disabled while one that is
\* not empty is refreshed; the search is flushed 300 ms after it was typed, all the same.
Replaces(u) ==
    /\ display.at = "list" /\ Turn /\ u # url /\ url' = u
    /\ (u.country # url.country \/ u.sort # url.sort) => (fetch.on => fetch.more \/ display.list.goods = <<>>)
    /\ UNCHANGED <<live, cached, home>>
    /\ Rekeyed

SetCountry(c) == Replaces([url EXCEPT !.country = c])
SetSort(s) == Replaces([url EXCEPT !.sort = s])

\* The search and the category; and "Reset all", whose three updates start from the same
\* parameters, so that only the last, that of the search, is kept.
Narrow(b) == Replaces([url EXCEPT !.narrowed = b])

\* The profile of a connected wallet arrives, whatever is shown by then.
ProfileKnown(h) ==
    /\ home = "unknown" /\ home' = h
    /\ UNCHANGED <<live, cached, url, turns>>
    /\ Rekeyed

\* CountryPromptBanner: the country is saved, and becomes the filter if none was set.
SaveCountry ==
    /\ home = "none" /\ display.at = "list" /\ display.list.goods # <<>> /\ home' = "home"
    /\ url' = IF url.country = "unset" THEN [url EXCEPT !.country = "home"] ELSE url
    /\ UNCHANGED <<live, cached, turns>>
    /\ Rekeyed
-------------------------------------------------------------------------------
(***************************************************************************)
(* The sellers, and the caches.                                            *)
(***************************************************************************)
Remembered(list) == [list EXCEPT !.steady = @ \cap live']

\* A product is published, paused or resumed.
Publishes(g) ==
    /\ Turn /\ live' = IF g \in live THEN live \ {g} ELSE live \cup {g}
    /\ display' = [display EXCEPT !.list = Remembered(@)]
    /\ fetch' = [fetch EXCEPT !.list = Remembered(@)]
    /\ UNCHANGED <<cached, url, home>>

CacheExpires ==
    /\ cached' = live /\ UNCHANGED <<live, url, home, display, fetch, turns>>

PageSettles == FetchFails \/ \E L \in {live, cached} : PageArrives(L)

MarketNext ==
    \/ Refetch \/ LoadMore \/ PageSettles \/ CacheExpires \/ SaveCountry
    \/ \E c \in {"all", "home"} : SetCountry(c)
    \/ \E s \in {"newest", "price"} : SetSort(s)
    \/ \E b \in BOOLEAN : Narrow(b)
    \/ \E h \in {"none", "home"} : ProfileKnown(h)
    \/ \E g \in Goods : Publishes(g)
-------------------------------------------------------------------------------
(***************************************************************************)
(* Properties.                                                             *)
(***************************************************************************)
\* By age, the listing shows nothing twice, and nothing that was for sale all along is lost
\* between two of its pages, whatever is published, paused or served from a cache in between.
NothingLostBetweenPages ==
    LET goods == display.list.goods
    IN  url.sort = "newest" =>
        /\ \A i, j \in DOMAIN goods : i < j => goods[i] > goods[j]
        /\ \A g \in display.list.steady :
               Matches(g) /\ g > display.list.next => \E i \in DOMAIN goods : goods[i] = g
===============================================================================
