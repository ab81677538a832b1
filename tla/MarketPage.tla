------------------------------ MODULE MarketPage ------------------------------
(***************************************************************************)
(* The page of the marketplace around its listing (MarketplaceClient.tsx): *)
(* four filters kept in the URL, each set by its own control, the search   *)
(* box that forwards what was typed after 300 ms of quiet                  *)
(* (MarketplaceSearchInput.tsx), the country of the buyer's profile and    *)
(* the banner that asks for it, and what is shown: the empty screens, the  *)
(* featured product, the rails of the route /sections and the cards.  How  *)
(* the listing is paged and refreshed is Marketplace.                      *)
(*                                                                         *)
(* router.replace only starts a navigation: until it has arrived, every    *)
(* control still starts from the former parameters.                        *)
(***************************************************************************)
EXTENDS Integers, Sequences, FiniteSets

CONSTANTS
    Wares,        \* active products with an image, numbered by age
    About,        \* [Wares -> [country, category, seller, top, sold, score, recent]]
    Countries, Categories,
    Hits,         \* [texts -> SUBSET Wares], of the texts one may type
    FeatureOver,  \* results above which one of them is featured
    RailLimit,    \* _SECTION_LIMIT
    MaxChoices    \* bound on the choices of a visit

ASSUME MarketPageAssumption ==
    /\ Wares \subseteq Nat /\ DOMAIN About = Wares /\ {FeatureOver, RailLimit, MaxChoices} \subseteq Nat
    /\ {"unset", "all"} \cap (Countries \cup Categories) = {}

Filters == {"country", "category", "q", "sort"}

VARIABLES
    params,     \* searchParams: the value of each filter
    heading,    \* the parameters a navigation is on its way to, or Nowhere
    typed,      \* the text in the search box
    armed,      \* its timer runs
    profile,    \* the buyer's country: "unknown", "none" or one of Countries
    dismissed,  \* the banner was answered in this session
    listing,    \* the query: "pending", "error", "data", or "refreshing" what it has
    wanted,     \* what the buyer chose last for each filter
    outrun,  \* the filters whose last choice was overtaken by another, before it had arrived
    choices     \* made so far

pageVars == <<params, heading, typed, armed, profile, dismissed, listing, wanted, outrun, choices>>

Nowhere == [country |-> "nowhere"]

PageInit ==
    /\ params \in [country : {"unset", "all"}, category : {"all"}, q : {""}, sort : {"newest"}]
    /\ heading = Nowhere /\ typed = params.q /\ armed = FALSE
    /\ profile = "unknown" /\ dismissed = FALSE /\ listing = "pending"
    /\ wanted = params /\ outrun = {} /\ choices = 0
-------------------------------------------------------------------------------
(***************************************************************************)
(* What is shown.                                                          *)
(***************************************************************************)
CountryFilter ==
    IF params.country # "unset" THEN params.country ELSE IF profile \in Countries THEN profile ELSE "all"

Scoped == {w \in Wares : CountryFilter \in {"all", About[w].country}}

Found ==
    {w \in Scoped : /\ params.category \in {"all", About[w].category}
                    /\ params.q # "" => w \in Hits[params.q]}

IsDiscovery == params.sort = "newest" /\ params.category = "all" /\ params.q = ""

\* Top sellers first, then whoever completed more orders.
Outshines(v, w) ==
    LET a == About[v]
        b == About[w]
    IN  IF a.top # b.top THEN a.top ELSE a.sold > b.sold \/ (a.sold = b.sold /\ v > w)

Featured ==
    IF IsDiscovery /\ Cardinality(Found) > FeatureOver
    THEN {w \in Found : \A v \in Found \ {w} : Outshines(w, v)} ELSE {}

Grid == Found \ Featured

\* Of two ranks the greater one comes first.
Precedes(a, b) == \E i \in 1 .. Len(a) : a[i] > b[i] /\ \A j \in 1 .. i - 1 : a[j] = b[j]

\* The first n of S.
First(n, S, Ahead(_, _)) == {w \in S : Cardinality({v \in S : Ahead(v, w)}) < n}

\* The rails, each left out when it is empty.  The best rated products are cut before all but
\* the first of each seller are dropped.
NewRail == First(RailLimit, {w \in Scoped : About[w].recent}, >)
TopRail ==
    LET rank(w) == <<About[w].score, About[w].sold, w>>
        ahead(v, w) == Precedes(rank(v), rank(w))
        rated == First(3 * RailLimit, {w \in Scoped : About[w].sold > 0}, ahead)
        firsts == {w \in rated : \A v \in rated : ahead(v, w) => About[v].seller # About[w].seller}
    IN  First(RailLimit, firsts, ahead)
Sections == IF IsDiscovery THEN {rail \in {NewRail, TopRail} : rail # {}} ELSE {}

Empty == IF params.q # "" THEN "clear search" ELSE IF CountryFilter # "all" THEN "all countries" ELSE "soon"

MarketScreen ==
    IF listing = "pending" THEN "skeleton"
    ELSE IF listing = "error" THEN "failed"
    ELSE IF Found = {} THEN "empty" ELSE "list"

\* Mutant: a country set in the URL, be it every country, is taken for the only one.
HidesCountryOnceSet == params.country # "unset"

HidesCountry == CountryFilter # "all"

WareCard(w) ==
    [flag |-> ~HidesCountry, isNew |-> About[w].recent, topSeller |-> About[w].top, sold |-> About[w].sold]

\* Everything with a card on the page, and the featured product, which names its country.
Cards == Grid \cup UNION Sections

Pills == {f \in Filters \ {"sort"} : [params EXCEPT !.country = CountryFilter][f] \notin {"all", ""}}

ShowBanner == profile = "none" /\ ~dismissed /\ MarketScreen = "list"
-------------------------------------------------------------------------------
(***************************************************************************)
(* Navigation.                                                             *)
(***************************************************************************)
\* Mutant: a choice starts from an empty URL.
FromScratch(f, v) == [country |-> "unset", category |-> "all", q |-> "", sort |-> "newest"]

Choice(f, v) == [params EXCEPT ![f] = v]

\* What had not arrived yet is overtaken.
OnItsWay == IF heading = Nowhere THEN {} ELSE {f \in Filters : heading[f] # params[f]}

Replaces(f, v) ==
    /\ heading' = Choice(f, v) /\ wanted' = [wanted EXCEPT ![f] = v]
    /\ outrun' = (outrun \cup OnItsWay) \ {f}

\* The search, while the box has a text that the URL does not have.
Unsent == IF typed # params.q THEN {"q"} ELSE {}

Chooses == choices < MaxChoices /\ choices' = choices + 1

\* Another key has its own listing, if the cache has one; the box is mounted anew with another
\* screen, and set to the search of the URL when that is another.
Rekeyed ==
    LET key == <<CountryFilter, params.category, params.q, params.sort>>
        kept == MarketScreen' = MarketScreen /\ MarketScreen \in {"list", "empty"} /\ params'.q = params.q
    IN  /\ IF key' = key THEN UNCHANGED listing ELSE listing' \in {"pending", "data", "refreshing"}
        /\ typed' = IF kept THEN typed ELSE params'.q
        /\ armed' = IF params' = params /\ kept THEN armed ELSE typed' # params'.q

Loses == outrun' = outrun \cup IF typed' # typed THEN {"q"} ELSE {}

Navigates ==
    /\ heading # Nowhere /\ params' = heading /\ heading' = Nowhere
    /\ UNCHANGED <<profile, dismissed, wanted, choices>>
    /\ Rekeyed /\ Loses
-------------------------------------------------------------------------------
(***************************************************************************)
(* The controls.                                                           *)
(***************************************************************************)
\* The chips and the sort are disabled while a list is refreshed, not while it is empty.
Enabled == MarketScreen = "empty" \/ (MarketScreen = "list" /\ listing = "data")

PickFilter(f, v) ==
    /\ Enabled /\ Chooses /\ Replaces(f, v)
    /\ UNCHANGED <<params, typed, armed, profile, dismissed, listing>>

\* A pill of the list, and the button of an empty screen; of the search the button alone.
RemovePill(f) ==
    /\ Chooses /\ Replaces(f, IF f = "q" THEN "" ELSE "all")
    /\ \/ MarketScreen = "list" /\ f \in Pills
       \/ MarketScreen = "empty" /\ Empty = (CASE f = "q" -> "clear search" [] f = "country" -> "all countries" [] OTHER -> "")
    /\ UNCHANGED <<params, typed, armed, profile, dismissed, listing>>

\* Three updates at once: the last, that of the search, is what remains.  A text that is not in
\* the URL yet stays in the box.
ResetAll ==
    /\ MarketScreen = "list" /\ Cardinality(Pills) >= 2 /\ Chooses
    /\ heading' = Choice("q", "")
    /\ wanted' = [wanted EXCEPT !.country = "all", !.category = "all", !.q = ""]
    /\ outrun' = ((outrun \cup OnItsWay) \ {"q"}) \cup {"country", "category"} \cup Unsent
    /\ UNCHANGED <<params, typed, armed, profile, dismissed, listing>>

Types(text) ==
    /\ MarketScreen \in {"list", "empty"} /\ Chooses /\ typed' = text /\ armed' = (text # params.q)
    /\ wanted' = [wanted EXCEPT !.q = text] /\ outrun' = outrun \ {"q"}
    /\ UNCHANGED <<params, heading, profile, dismissed, listing>>

Flushes ==
    /\ armed /\ armed' = FALSE /\ Replaces("q", typed)
    /\ UNCHANGED <<params, typed, profile, dismissed, listing, choices>>

\* The cross of the box.
ClearBox ==
    /\ MarketScreen \in {"list", "empty"} /\ typed # "" /\ Chooses
    /\ typed' = "" /\ armed' = (params.q # "") /\ Replaces("q", "")
    /\ UNCHANGED <<params, profile, dismissed, listing>>

NotNow ==
    /\ ShowBanner /\ dismissed' = TRUE
    /\ UNCHANGED <<params, heading, typed, armed, profile, listing, wanted, outrun, choices>>

\* The country is saved; it becomes the filter unless one is set.
SaveCountry(c) ==
    /\ ShowBanner /\ dismissed' = TRUE /\ profile' = c /\ Chooses
    /\ UNCHANGED params /\ Rekeyed
    /\ LET lost == IF typed' # typed THEN {"q"} ELSE {}
       IN  IF params.country # "unset"
           THEN UNCHANGED <<heading, wanted>> /\ outrun' = outrun \cup lost
           ELSE /\ heading' = Choice("country", c) /\ wanted' = [wanted EXCEPT !.country = c]
                /\ outrun' = ((outrun \cup OnItsWay) \ {"country"}) \cup lost
-------------------------------------------------------------------------------
(***************************************************************************)
(* The queries.                                                            *)
(***************************************************************************)
ProfileArrives(c) ==
    /\ profile = "unknown" /\ profile' = c /\ UNCHANGED params
    /\ Rekeyed /\ Loses
    /\ UNCHANGED <<heading, dismissed, wanted, choices>>

\* Another screen, with another box.
Shows(l) ==
    /\ listing' = l /\ UNCHANGED <<params, heading, profile, dismissed, wanted, choices>>
    /\ IF MarketScreen' = MarketScreen THEN UNCHANGED <<typed, armed>> ELSE typed' = params.q /\ armed' = FALSE
    /\ Loses

Answers == listing = "pending" /\ \E l \in {"data", "error"} : Shows(l)
Retry == listing = "error" /\ Shows("pending")

\* The button, and the pull from the very top of the page.
Refresh == MarketScreen = "list" /\ listing = "data" /\ Shows("refreshing")
RefreshEnds == listing = "refreshing" /\ Shows("data")

MarketPageNext ==
    \/ Navigates \/ ResetAll \/ Flushes \/ ClearBox \/ NotNow \/ Answers \/ Retry \/ Refresh \/ RefreshEnds
    \/ \E c \in Countries \cup {"all"} : PickFilter("country", c)
    \/ \E c \in Categories \cup {"all"} : PickFilter("category", c)
    \/ \E s \in {"newest", "price"} : PickFilter("sort", s)
    \/ \E f \in {"country", "category", "q"} : RemovePill(f)
    \/ \E text \in DOMAIN Hits \cup {""} : Types(text)
    \/ \E c \in Countries : SaveCountry(c)
    \/ \E c \in Countries \cup {"none"} : ProfileArrives(c)
-------------------------------------------------------------------------------
(***************************************************************************)
(* Properties.                                                             *)
(***************************************************************************)
AtRest == heading = Nowhere /\ ~armed

\* Once all has arrived, each filter is what was chosen for it last, whatever the others went
\* through and whatever the profile says, except where a later choice overtook one under way.
ChoicesStand ==
    AtRest => \A f \in Filters \ outrun :
                  /\ params[f] = wanted[f]
                  /\ f = "country" /\ wanted[f] # "unset" => CountryFilter = wanted[f]

\* The search box shows what the listing was searched for.
BoxIsTrue == AtRest /\ "q" \notin outrun => typed = params.q

\* Of each card one can tell the country, from its flag or from the one filter on.
CountryIsTold ==
    MarketScreen = "list" => \A w \in Cards : WareCard(w).flag \/ CountryFilter = About[w].country

MarketPageIsSound == ChoicesStand /\ BoxIsTrue /\ CountryIsTold
===============================================================================
