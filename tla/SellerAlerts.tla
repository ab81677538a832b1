----------------------------- MODULE SellerAlerts -----------------------------
(***************************************************************************)
(* How a seller hears of a new order while the dashboard is open: the      *)
(* toast and the badge of the Orders tab (useNewSellerOrderAlerts.ts,      *)
(* SellerDashboardInner.tsx), the bell (NotificationBell.tsx,              *)
(* useNotifications.ts, notifications.py), and the dialog that celebrates  *)
(* a first sale (OrdersTab.tsx, useMilestoneOnce.ts).                      *)
(*                                                                         *)
(* Orders are numbered as they are created, notifications as they are      *)
(* written, when an order is funded.  The toast and the dialog have the    *)
(* first page of the seller's orders in common, one entry of the cache, so *)
(* that one answer reaches both.  The clock of the browser agrees with the *)
(* backend's, and the wallet of the page stays the same.                   *)
(***************************************************************************)
EXTENDS EtaloClock, FiniteSets, FiniteSetsExt

CONSTANTS
    Rows,       \* orders on a page, notifications in the bell
    MaxNews     \* bound on the orders, and on the notifications

ASSUME AlertsAssumption == Rows \in Nat \ {0} /\ MaxNews \in Nat

News == 1 .. MaxNews
Never == 0 - 1

VARIABLES
    arrived,      \* orders mirrored
    noted,        \* of each notification, when it was written, or Never
    tab,
    asOf,         \* the cache holds the first page as of this many orders, Never at first
    seen,         \* seenRef: a set of orders, Never before the baseline
    newCount,
    toasts,       \* of each order, how often a toast has announced it since the page was opened
    base, left,   \* orders in the cache at the baseline, and when the Orders tab was last open
    overtaken,    \* orders that a page of later ones followed before the next poll
    counted,      \* prevOrdersCountRef
    celebrating, hidden, continued,  \* the dialog: open, and what keeps it from opening: shouldShow, its storage
    inbox, bell,  \* the bell: its items, and whether it is open
    lastSeen,     \* when it was opened last, also in the storage of the browser
    looked        \* notifications that were in the list when the bell was opened

alertVars == <<tab, asOf, seen, newCount, toasts, base, left, overtaken>>
milestoneVars == <<counted, celebrating, hidden, continued>>
bellVars == <<inbox, bell, lastSeen, looked>>
dashVars == <<arrived, noted, alertVars, milestoneVars, bellVars>>

AlertsInit ==
    /\ arrived = 0 /\ noted = [o \in News |-> Never] /\ tab = "overview"
    /\ asOf = Never /\ seen = {Never} /\ newCount = 0 /\ toasts = [o \in News |-> 0]
    /\ base = Never /\ left = 0 /\ overtaken = {}
    /\ counted = Never /\ celebrating = FALSE /\ hidden = FALSE /\ continued = FALSE
    /\ inbox = {} /\ bell = FALSE /\ lastSeen = 0 /\ looked = {}
-------------------------------------------------------------------------------
\* Bound: MaxNews, and for the notifications one more than the bell shows.
Arrives == arrived < MaxNews /\ arrived' = arrived + 1 /\ UNCHANGED <<noted, alertVars, milestoneVars, bellVars>>

Notifies(n) ==
    /\ n <= Rows + 1 /\ noted[n] = Never /\ \A m \in 1 .. n - 1 : noted[m] # Never
    /\ noted' = [noted EXCEPT ![n] = now]
    /\ UNCHANGED <<arrived, alertVars, milestoneVars, bellVars>>

\* Mutant: the page lists the oldest first.
OldestFirst(n) == 1 .. Min({n, Rows})

FirstPage(n) == Max({1, n - Rows + 1}) .. n

(***************************************************************************)
(* useNewSellerOrderAlerts, at an answer with the orders of `page'; then   *)
(* the effect of the dashboard, that marks all seen on the Orders tab.     *)
(***************************************************************************)
Alerts(n) ==
    LET page == FirstPage(n)
        fresh == IF seen = {Never} THEN {} ELSE page \ seen
    IN  /\ toasts' = [o \in News |-> IF o \in fresh THEN toasts[o] + 1 ELSE toasts[o]]
        /\ seen' = IF tab = "orders" \/ seen = {Never} THEN page ELSE seen \cup fresh
        /\ newCount' = IF tab = "orders" THEN 0 ELSE newCount + Cardinality(fresh)
        /\ base' = IF seen = {Never} THEN n ELSE base
        /\ left' = IF tab = "orders" \/ seen = {Never} THEN n ELSE left
        /\ overtaken' = overtaken \cup IF seen = {Never} THEN {} ELSE asOf + 1 .. n - Rows

\* The effect of the Orders tab, when its list has length n: it has become longer than nothing.
Celebrates(n) ==
    /\ counted' = n
    /\ celebrating' = (celebrating \/ (counted = 0 /\ n > 0 /\ ~hidden))
    /\ UNCHANGED <<hidden, continued>>

\* The poll of the first page, also of the Orders tab unless that shows one status only.
PollOrders ==
    /\ Alerts(arrived) /\ asOf' = arrived
    /\ \/ tab = "orders" /\ Celebrates(Cardinality(FirstPage(arrived)))
       \/ UNCHANGED milestoneVars
    /\ UNCHANGED <<arrived, noted, tab, bellVars>>

\* The answer for one status: any of the orders may have it.
PollStatus ==
    /\ tab = "orders" /\ \E n \in 0 .. Cardinality(FirstPage(arrived)) : Celebrates(n)
    /\ UNCHANGED <<arrived, noted, alertVars, bellVars>>

\* Mutant: what was continued once is shown at the next visit again.
ForgetsContinue == FALSE

ShownBefore == continued

\* The Orders tab is mounted, with what is in the cache.
OpensOrders ==
    /\ tab' = "orders" /\ newCount' = 0
    /\ seen' = IF asOf = Never THEN seen ELSE FirstPage(asOf)
    /\ left' = IF asOf = Never THEN left ELSE asOf
    /\ counted' = IF asOf = Never THEN Never ELSE Cardinality(FirstPage(asOf))
    /\ hidden' = ShownBefore /\ celebrating' = FALSE
    /\ UNCHANGED <<asOf, toasts, base, overtaken, continued>>

ClosesOrders ==
    /\ tab' = "overview" /\ counted' = Never /\ celebrating' = FALSE /\ hidden' = FALSE
    /\ UNCHANGED <<asOf, seen, newCount, toasts, base, left, overtaken, continued>>

SetTab ==
    /\ IF tab = "overview" THEN OpensOrders ELSE ClosesOrders
    /\ UNCHANGED <<arrived, noted, bellVars>>

\* Only its button keeps the dialog from coming again; other ways to close it do not.
CloseCelebration(continue) ==
    /\ celebrating /\ celebrating' = FALSE
    /\ continued' = (continued \/ continue) /\ hidden' = (hidden \/ continue)
    /\ UNCHANGED <<arrived, noted, alertVars, counted, bellVars>>
-------------------------------------------------------------------------------
(***************************************************************************)
(* The bell.                                                               *)
(***************************************************************************)
Notes == {n \in News : noted[n] # Never}

\* list_notifications: the latest of them, those of one instant in any order.
Latest(S) ==
    /\ Cardinality(S) = Min({Rows, Cardinality(Notes)})
    /\ \A n \in S, m \in Notes \ S : noted[m] <= noted[n]

PollInbox ==
    /\ \E S \in SUBSET Notes : Latest(S) /\ inbox' = S
    /\ UNCHANGED <<arrived, noted, alertVars, milestoneVars, bell, lastSeen, looked>>

Unread == {n \in inbox : noted[n] > lastSeen}

\* Mutant: the bell is marked seen when it is closed.
MarksSeenClosing(opening) == ~opening

MarksSeen(opening) == opening

Panel(open) == IF open THEN inbox ELSE {}

Toggle ==
    /\ bell' = ~bell /\ looked' = looked \cup Panel(bell')
    /\ lastSeen' = IF MarksSeen(bell') THEN now ELSE lastSeen
    /\ UNCHANGED <<arrived, noted, alertVars, milestoneVars, inbox>>

\* A click elsewhere, Escape, or a notification followed.
CloseBell ==
    /\ bell /\ bell' = FALSE
    /\ UNCHANGED <<arrived, noted, alertVars, milestoneVars, inbox, lastSeen, looked>>

\* The page is opened anew; the storage stays.
Reload ==
    /\ tab' = "overview" /\ asOf' = Never /\ seen' = {Never} /\ newCount' = 0 /\ toasts' = [o \in News |-> 0]
    /\ base' = Never /\ left' = 0 /\ overtaken' = {}
    /\ counted' = Never /\ celebrating' = FALSE /\ hidden' = FALSE
    /\ inbox' = {} /\ bell' = FALSE
    /\ UNCHANGED <<arrived, noted, continued, lastSeen, looked>>

\* The bell shares nothing with the others, and is looked at apart.
AlertsNext ==
    /\ \/ Arrives \/ PollOrders \/ PollStatus \/ SetTab \/ Reload
       \/ \E continue \in BOOLEAN : CloseCelebration(continue)
    /\ UNCHANGED now

BellNext ==
    \/ ((\E n \in News : Notifies(n)) \/ PollInbox \/ Toggle \/ CloseBell \/ Reload) /\ UNCHANGED now
    \/ Tick /\ UNCHANGED dashVars
-------------------------------------------------------------------------------
(***************************************************************************)
(* Properties.                                                             *)
(***************************************************************************)
\* An order the first page did not have when the dashboard was opened is announced once, whatever
\* tabs are visited meanwhile, unless a page of later ones has come between two polls.
AnnouncedOnce ==
    base # Never => \A o \in 1 .. asOf : toasts[o] = IF o <= base \/ o \in overtaken THEN 0 ELSE 1

\* The badge counts the orders announced since the Orders tab was last open.
BadgeCountsUnvisited ==
    newCount = IF tab = "orders" THEN 0 ELSE Cardinality({o \in News : o > left /\ toasts[o] > 0})

\* What was in the list when the bell was opened is not unread, in this visit or a later one.
LookedAtIsRead == Unread \cap looked = {}

\* The dialog does not come again once its button has been pressed.
CelebratedOnce == ~(celebrating /\ continued)

AlertsAreSound == AnnouncedOnce /\ BadgeCountsUnvisited /\ LookedAtIsRead /\ CelebratedOnce
===============================================================================
