------------------------------ MODULE AddressBook ------------------------------
(***************************************************************************)
(* A buyer's delivery addresses: the page that lists and changes them      *)
(* (AddressBookPage.tsx, AddressCard.tsx, AddressFormModal.tsx), its query *)
(* and mutations (useAddresses.ts, lib/addresses/api.ts), and the routes   *)
(* behind them (addresses.py).  Those are synchronous: each runs in a      *)
(* thread and a transaction of its own, at READ COMMITTED, so that another *)
(* commits between what it reads and what it writes.  The locks of rows    *)
(* put the commits in an order and change no outcome.                      *)
(*                                                                         *)
(* An address is its age: the higher, the newer.  What it says is left     *)
(* out; which one is the default is not.                                   *)
(***************************************************************************)
EXTENDS Integers, FiniteSets, FiniteSetsExt

CONSTANTS
    Callers,       \* "form" and "card", of the page, and other devices of the buyer
    MaxAddresses,  \* bound on the addresses ever saved
    MaxAsked       \* bound on the requests asked for

ASSUME AddressBookAssumption == {MaxAddresses, MaxAsked} \subseteq Nat /\ {"form", "card"} \subseteq Callers

VARIABLES
    kept,      \* addresses not deleted
    saved,     \* how many were ever saved
    default,   \* rows with is_default, deleted or not
    request,   \* of each caller, where its request is
    muddled,   \* for the property: two writes have overlapped since a lone set-default
    book,      \* the addresses the query holds, with their default flags
    bringing,  \* what the query under way brings back
    unread,    \* the last query failed
    entry,     \* the form: shut, for a new address, or for the address it edits
    requested  \* requests asked for

bookRowVars == <<kept, saved, default, muddled>>
queryVars == <<book, bringing, unread>>
bookVars == <<bookRowVars, request, queryVars, entry, requested>>

None == 0
NoAsk == [at |-> "off", op |-> "none", on |-> None, was |-> FALSE, with |-> {}, met |-> FALSE]
Unloaded == [all |-> {None}, default |-> {}]

BookInit ==
    /\ kept = {} /\ saved = 0 /\ default = {} /\ muddled = FALSE
    /\ request = [c \in Callers |-> NoAsk]
    /\ book = Unloaded /\ bringing = Unloaded /\ unread = FALSE
    /\ entry = "shut" /\ requested = 0
-------------------------------------------------------------------------------
(***************************************************************************)
(* The routes: a request finds its rows, decides, and commits.             *)
(***************************************************************************)
\* list_addresses.
Listing == [all |-> kept, default |-> default \cap kept]

StepsTo(c, r) == request' = [request EXCEPT ![c] = r] /\ UNCHANGED <<queryVars, entry, requested>>

\* The route reads: how many addresses there are (create_address), or the one it is about,
\* which is not found when it has been deleted (_get_or_404_address).
Finds(c) ==
    LET r == request[c]
        found == r.op = "create" \/ r.on \in kept
        was == IF r.op = "create" THEN kept = {} ELSE r.on \in default
    IN  /\ r.at = "sent"
        /\ StepsTo(c, [r EXCEPT !.at = IF found THEN "found" ELSE "failed", !.was = found /\ was])
        /\ UNCHANGED bookRowVars

\* Mutant: nothing takes the place of a deleted default.
NoReplacement(r) == {}

\* The newest address that is left, when the deleted one was the default.
Replacement(r) ==
    LET left == kept \ {r.on}
    IN  IF r.was /\ left # {} THEN {Max(left)} ELSE {}

\* Mutant: the others are left as they are.
OthersLeft(r) == {}

\* The rows set-default unsets.
OtherDefaults(r) == default \ {r.on}

\* delete_address flushes and picks a replacement; set_default_address updates the others.
Decides(c) ==
    LET r == request[c]
    IN  /\ r.at = "found" /\ r.op \in {"delete", "set"}
        /\ StepsTo(c, [r EXCEPT !.at = "decided",
                              !.with = IF r.op = "delete" THEN Replacement(r) ELSE OtherDefaults(r)])
        /\ UNCHANGED bookRowVars

InBetween(c) == {d \in Callers \ {c} : request[d].at \in {"found", "decided"} /\ request[d].op # "update"}

\* The session writes the attributes it has changed: is_default of a row that was read with
\* the value it is to have is not written.
Commits(c) ==
    LET r == request[c]
    IN  /\ r.at = IF r.op \in {"delete", "set"} THEN "decided" ELSE "found"
        /\ CASE r.op = "create" -> /\ saved' = saved + 1 /\ kept' = kept \cup {saved + 1}
                                   /\ default' = IF r.was THEN default \cup {saved + 1} ELSE default
             [] r.op = "update" -> UNCHANGED <<saved, kept, default>>
             [] r.op = "delete" -> /\ kept' = kept \ {r.on} /\ UNCHANGED saved
                                   /\ default' = (IF r.was THEN default \ {r.on} ELSE default) \cup r.with
             [] r.op = "set"    -> /\ default' = (default \ r.with) \cup (IF r.was THEN {} ELSE {r.on})
                                   /\ UNCHANGED <<saved, kept>>
        /\ muddled' = IF r.op = "update" THEN muddled
                      ELSE IF r.met \/ InBetween(c) # {} THEN TRUE
                      ELSE muddled /\ r.op # "set"
        /\ request' = [d \in Callers |->
                         IF d = c THEN [NoAsk EXCEPT !.at = "done"]
                         ELSE IF d \in InBetween(c) /\ r.op # "update" THEN [request[d] EXCEPT !.met = TRUE]
                         ELSE request[d]]
        /\ UNCHANGED <<queryVars, entry, requested>>

\* No answer comes, whatever the route has done and does: of a request that is still to
\* commit, this is its failure.
Fails(c) ==
    /\ request[c].at \notin {"off", "failed"} /\ StepsTo(c, [NoAsk EXCEPT !.at = "failed"])
    /\ UNCHANGED bookRowVars
-------------------------------------------------------------------------------
(***************************************************************************)
(* The page.                                                               *)
(***************************************************************************)
Asks(c, op, id) ==
    /\ request[c].at = "off" /\ requested < MaxAsked /\ requested' = requested + 1
    /\ request' = [request EXCEPT ![c] = [NoAsk EXCEPT !.at = "sent", !.op = op, !.on = id]]
    /\ UNCHANGED <<bookRowVars, queryVars, entry>>

\* The cards are shown when the last query was answered, disabled while one of them has a
\* request under way, and out of reach behind the form.
OnCard(id) == id \in book.all \ {None} /\ ~unread /\ request["card"].at = "off" /\ entry = "shut"

DeleteAddress(id) == OnCard(id) /\ Asks("card", "delete", id)

SetDefault(id) == OnCard(id) /\ id \notin book.default /\ Asks("card", "set", id)

SetEntry(e) == entry' = e /\ UNCHANGED <<bookRowVars, request, queryVars, requested>>

AddAddress == entry = "shut" /\ SetEntry("new")

EditAddress(id) == OnCard(id) /\ SetEntry("edit")

\* Cancel waits for the save; the overlay does not.
CloseEntry == entry # "shut" /\ SetEntry("shut")

\* handleSubmit: one save at a time, of whichever form is open.
\* Bound: MaxAddresses, and an edit is of any address, which the flags do not tell apart.
SaveAddress ==
    \/ entry = "new" /\ saved + Cardinality({c \in Callers : request[c].op = "create"}) < MaxAddresses
                     /\ Asks("form", "create", None)
    \/ entry = "edit" /\ \E id \in book.all \ {None} : Asks("form", "update", id)

\* Another device of the buyer, whose list is as good as any.
AsksElsewhere(c) ==
    /\ c \notin {"form", "card"}
    /\ \/ saved + Cardinality({d \in Callers : request[d].op = "create"}) < MaxAddresses /\ Asks(c, "create", None)
       \/ \E id \in 1 .. saved, op \in {"delete", "set"} : Asks(c, op, id)

\* A success starts the query again, and closes the form, whichever is open.
Succeeds(c) ==
    /\ request[c].at = "done" /\ request' = [request EXCEPT ![c] = NoAsk]
    /\ bringing' = IF c \in {"form", "card"} THEN Unloaded ELSE bringing
    /\ entry' = IF c = "form" THEN "shut" ELSE entry
    /\ UNCHANGED <<bookRowVars, book, unread, requested>>

\* A failure is told, and nothing else.
Told(c) ==
    /\ request[c].at = "failed" /\ request' = [request EXCEPT ![c] = NoAsk]
    /\ UNCHANGED <<bookRowVars, queryVars, entry, requested>>

\* The query: on mount, after a success, at the button Retry, and every 30 s.
AsksBook ==
    /\ bringing = Unloaded /\ bringing' = Listing
    /\ UNCHANGED <<bookRowVars, request, book, unread, entry, requested>>

BookArrives ==
    /\ bringing # Unloaded /\ book' = bringing /\ bringing' = Unloaded /\ unread' = FALSE
    /\ UNCHANGED <<bookRowVars, request, entry, requested>>

QueryFails ==
    /\ bringing # Unloaded /\ bringing' = Unloaded /\ unread' = TRUE
    /\ UNCHANGED <<bookRowVars, request, book, entry, requested>>

RequestMoves(c) == Finds(c) \/ Decides(c) \/ Commits(c) \/ Succeeds(c) \/ Told(c)

BookNext ==
    \/ \E c \in Callers : RequestMoves(c) \/ Fails(c) \/ AsksElsewhere(c)
    \/ \E id \in 1 .. MaxAddresses : DeleteAddress(id) \/ SetDefault(id) \/ EditAddress(id)
    \/ AddAddress \/ CloseEntry \/ SaveAddress \/ AsksBook \/ BookArrives \/ QueryFails
-------------------------------------------------------------------------------
(***************************************************************************)
(* Properties.                                                             *)
(***************************************************************************)
\* A book has one default, an address that is there, as long as no two writes overlap; and
\* after they have, from the next "Set default" on that overlaps with none.
OneDefault ==
    ~muddled => default \subseteq kept /\ Cardinality(default) = (IF kept = {} THEN 0 ELSE 1)
===============================================================================
