------------------------------ MODULE ProductDesk ------------------------------
(***************************************************************************)
(* A seller's products: the list (ProductsTab.tsx, useMyProducts.ts), the  *)
(* form that creates and edits one (ProductFormDialog.tsx), its images     *)
(* (ImageUploader.tsx) and the enhancement of the first of them, the       *)
(* dialog that deletes one (DeleteProductDialog.tsx), and the routes       *)
(* behind them (products.py, sellers.py).                                  *)
(*                                                                         *)
(* One form serves every product: a save or an enhancement goes on when    *)
(* the form is closed and opened for another one, and its answer is told   *)
(* to the form as it is by then.  A product is its slug.  Of its images    *)
(* only the first, the hero, is told apart; "draft" stands for "paused".   *)
(***************************************************************************)
EXTENDS Integers, FiniteSets

CONSTANTS
    Slugs,        \* a product goes by its slug
    NoSlug,
    MaxSaves,     \* bound on the saves and the deletions asked for
    MaxCalls      \* bound on the enhancements under way at once

ASSUME ProductDeskAssumption ==
    NoSlug \notin Slugs /\ MaxSaves \in Nat /\ MaxCalls \in Nat

Heroes == {"none", "raw", "enhanced"}

VARIABLES
    row,       \* the products of the backend
    unasked,   \* the products whose last save had no variant taken and no question answered
    list,      \* the rows on display
    pform,     \* the form
    saving,    \* the save under way: the product, what is written, where the request is
    deleting,  \* the deletion under way, likewise
    calls,     \* enhancements under way
    saves      \* saves and deletions asked for

productVars == <<row, unasked, list, pform, saving, deleting, calls, saves>>

NoListing == [status |-> "none", hero |-> "none"]
Idle == [on |-> NoSlug, at |-> "off"]
Shut == [open |-> FALSE, on |-> NoSlug, new |-> TRUE, status |-> "draft", hero |-> "none",
         uploads |-> "none", phase |-> "idle", nudge |-> FALSE]

\* list_my_products leaves the deleted ones out.
Listed == [p \in Slugs |-> IF row[p].status = "deleted" THEN NoListing ELSE row[p]]

ProductInit ==
    /\ row \in [Slugs -> {NoListing} \cup [status : {"active"}, hero : Heroes]] /\ unasked = {}
    /\ list = [p \in Slugs |-> NoListing] /\ pform = Shut
    /\ saving = Idle /\ deleting = Idle /\ calls = 0 /\ saves = 0
-------------------------------------------------------------------------------
(***************************************************************************)
(* The list.                                                               *)
(***************************************************************************)
\* The query: on mount, after a save or a deletion, and every 30 s.
Lists ==
    /\ list' = Listed
    /\ UNCHANGED <<row, unasked, pform, saving, deleting, calls, saves>>

\* The effect of opening: every field is set anew.  The mode of the form is "create" when
\* it is not opened from a row.
OpenForm(p) ==
    /\ ~pform.open
    /\ pform' = [Shut EXCEPT !.open = TRUE, !.on = p, !.new = (list[p] = NoListing), !.hero = list[p].hero, !.uploads = list[p].hero,
                             !.status = IF list[p] = NoListing THEN "draft" ELSE list[p].status]
    /\ UNCHANGED <<row, unasked, list, saving, deleting, calls, saves>>

\* Cancel is disabled while a save is under way; the cross and the overlay are not.
CloseForm ==
    /\ pform.open /\ pform' = [pform EXCEPT !.open = FALSE]
    /\ UNCHANGED <<row, unasked, list, saving, deleting, calls, saves>>
-------------------------------------------------------------------------------
(***************************************************************************)
(* The form.                                                               *)
(***************************************************************************)
Edits(form) == pform.open /\ pform' = form /\ UNCHANGED <<row, unasked, list, saving, deleting, calls, saves>>

SetStatus(s) == pform.status # s /\ Edits([pform EXCEPT !.status = s])

\* The uploader keeps a list of its own, and hands it to the form when it changes: it does
\* not know of the variant that the form has put in its place.
ChangeImages(h) == Edits([pform EXCEPT !.uploads = h, !.hero = h])

CanEnhance == pform.hero # "none" /\ pform.phase = "idle" /\ calls < MaxCalls

\* handleEnhance, also from the nudge.
Enhance ==
    /\ pform.open /\ CanEnhance /\ calls' = calls + 1
    /\ pform' = [pform EXCEPT !.phase = "loading", !.nudge = FALSE]
    /\ UNCHANGED <<row, unasked, list, saving, deleting, saves>>

\* The answer of an enhancement, to the form as it is: three variants, or a failure.
Enhanced(phase) ==
    /\ calls > 0 /\ calls' = calls - 1 /\ pform' = [pform EXCEPT !.phase = phase]
    /\ UNCHANGED <<row, unasked, list, saving, deleting, saves>>

\* The variants are offered while there is a hero.
Picking == pform.phase = "preview" /\ pform.hero # "none"

UseVariant == Picking /\ Edits([pform EXCEPT !.phase = "used", !.hero = "enhanced"])

KeepOriginal == Picking /\ Edits([pform EXCEPT !.phase = "idle"])

\* Mutant: variants that are only looked at count.
EnhancedWhenSeen == pform.phase \in {"preview", "used"}

\* heroIsEnhanced: a row of the list brings no enhanced_at along.
HeroIsEnhanced == pform.phase = "used"

NeedsNudge == pform.status = "active" /\ pform.hero # "none" /\ ~HeroIsEnhanced

\* submitCore: one save at a time, whatever form it is of.
Saves(asked) ==
    /\ pform.open /\ saving = Idle /\ saves < MaxSaves /\ saves' = saves + 1
    /\ saving' = [on |-> pform.on, at |-> "sent", new |-> pform.new, asked |-> asked,
                  row |-> [status |-> pform.status, hero |-> pform.hero]]
    /\ UNCHANGED <<row, unasked, list, deleting, calls>>

\* handleSubmit.
SubmitForm ==
    \/ NeedsNudge /\ saving = Idle /\ ~pform.nudge /\ Edits([pform EXCEPT !.nudge = TRUE])
    \/ ~NeedsNudge /\ Saves(pform.phase = "used") /\ UNCHANGED pform

\* "Publish anyway", with what the form holds by now.
PublishAnyway == pform.nudge /\ Saves(TRUE) /\ pform' = [pform EXCEPT !.nudge = FALSE]
-------------------------------------------------------------------------------
(***************************************************************************)
(* The routes, and their answers.                                          *)
(***************************************************************************)
\* create_product refuses the slug of any row, deleted or not; update_product writes all
\* the fields of a row, deleted or not.
SlugIsTaken == saving.new /\ row[saving.on] # NoListing

SaveLands ==
    /\ saving.at = "sent"
    /\ saving' = [saving EXCEPT !.at = IF SlugIsTaken THEN "refused" ELSE "saved"]
    /\ IF SlugIsTaken THEN UNCHANGED <<row, unasked>>
       ELSE /\ row' = [row EXCEPT ![saving.on] = saving.row]
            /\ unasked' = IF saving.asked THEN unasked \ {saving.on} ELSE unasked \cup {saving.on}
    /\ UNCHANGED <<list, pform, deleting, calls, saves>>

\* Success closes the form, whichever is open; a failure, which may come without an answer,
\* leaves it open.
SaveAnswered ==
    /\ saving.at \in {"saved", "refused"} /\ saving' = Idle
    /\ pform' = IF saving.at = "saved" THEN [pform EXCEPT !.open = FALSE] ELSE pform
    /\ UNCHANGED <<row, unasked, list, deleting, calls, saves>>

SaveLost ==
    /\ saving # Idle /\ saving' = Idle
    /\ UNCHANGED <<row, unasked, list, pform, deleting, calls, saves>>

Delete(p) ==
    /\ ~pform.open /\ list[p] # NoListing /\ deleting = Idle /\ saves < MaxSaves /\ saves' = saves + 1
    /\ deleting' = [on |-> p, at |-> "sent"]
    /\ UNCHANGED <<row, unasked, list, pform, saving, calls>>

DeleteLands ==
    /\ deleting.at = "sent" /\ deleting' = [deleting EXCEPT !.at = "deleted"]
    /\ row' = [row EXCEPT ![deleting.on].status = "deleted"]
    /\ UNCHANGED <<unasked, list, pform, saving, calls, saves>>

DeleteAnswered ==
    /\ deleting # Idle /\ deleting' = Idle
    /\ UNCHANGED <<row, unasked, list, pform, saving, calls, saves>>

ProductNext ==
    \/ Lists \/ CloseForm \/ Enhance \/ UseVariant \/ KeepOriginal \/ SubmitForm \/ PublishAnyway
    \/ \E p \in Slugs : OpenForm(p) \/ Delete(p)
    \/ \E s \in {"draft", "active"} : SetStatus(s)
    \/ \E h \in {"none", "raw", pform.uploads} : ChangeImages(h)
    \/ \E phase \in {"preview", "idle"} : Enhanced(phase)
    \/ SaveLands \/ SaveAnswered \/ SaveLost \/ DeleteLands \/ DeleteAnswered

\* Requests settle, and the query polls.
ProductFairness ==
    /\ WF_productVars(Lists) /\ WF_productVars(SaveAnswered \/ SaveLost \/ SaveLands)
    /\ WF_productVars(DeleteAnswered \/ DeleteLands)
-------------------------------------------------------------------------------
(***************************************************************************)
(* Properties.                                                             *)
(***************************************************************************)
\* A save does not make a product with a raw photo visible that the seller was not asked
\* about, whatever is closed, reopened, answered late or uploaded in between; but for the
\* photo the uploader puts back over a variant that was taken.
RawHeroWasAskedAbout ==
    \A p \in Slugs :
        row[p].status = "active" /\ row[p].hero = "raw" => p \notin unasked

\* The list comes to show the products there are.
ListSettles == <>[](list = Listed)
===============================================================================
