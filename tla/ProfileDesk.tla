------------------------------ MODULE ProfileDesk ------------------------------
(***************************************************************************)
(* The profile of a shop: the tab that edits it (ProfileTab.tsx), and the  *)
(* route that writes it (update_my_profile in sellers.py), with another    *)
(* device of the seller that writes it too.                                *)
(*                                                                         *)
(* "name" stands for the fields a save always sends (shop_name and         *)
(* description), "logo" for those it sends when they are not what the page *)
(* was given (logo_ipfs_hash and country), "socials" for the three handles *)
(* the page knows; `others' are the handles of the same column it does not *)
(* know.                                                                   *)
(***************************************************************************)
EXTENDS Integers, FiniteSets

CONSTANTS
    Texts,        \* the values of a field
    MaxTyped      \* bound on the edits, the saves and the other device's saves

ASSUME ProfileDeskAssumption == MaxTyped \in Nat /\ Texts # {}

Fields == {"name", "logo", "socials"}
Unsent == "unsent"

VARIABLES
    profileRow,   \* the row: its fields, and whether the other handles are there
    held,         \* the profile the page was given, at its mount or by its last save
    typed,        \* the fields of the form
    update,       \* the save under way: where it is, and what it sends
    typings,      \* edits and saves so far
    theirs,       \* for the properties: what the other device last made of each field
    touched,      \* and the fields edited here
    unseen,       \* and whether the row was written since it was given to the page
    synced        \* and whether a save has been answered

profileRowVars == <<profileRow, theirs, unseen>>
formVars == <<held, typed, touched, synced>>
profileVars == <<profileRowVars, formVars, update, typings>>

NoUpdate == [at |-> "off", sends |-> [f \in Fields |-> Unsent]]

ProfileInit ==
    /\ \E t \in Texts : typed = [f \in Fields |-> t]
    /\ held = typed /\ theirs = typed /\ profileRow = [fields |-> typed, others |-> TRUE]
    /\ update = NoUpdate /\ typings = 0 /\ touched = {} /\ unseen = FALSE /\ synced = FALSE
-------------------------------------------------------------------------------
(***************************************************************************)
(* The tab.                                                                *)
(***************************************************************************)
\* The save bar is there when something differs from what the page was given.
Dirty == typed # held

Types(n) == typings + n <= MaxTyped /\ typings' = typings + n

\* The inputs, the uploader and the country selector, of which only the last waits for a save.
EditProfile(f, t) ==
    /\ typed[f] # t /\ Types(1) /\ typed' = [typed EXCEPT ![f] = t] /\ touched' = touched \cup {f}
    /\ UNCHANGED <<profileRowVars, held, synced, update>>

\* handleResetForm.
Discard ==
    /\ Dirty /\ update.at = "off" /\ typed' = held
    /\ UNCHANGED <<profileRowVars, held, touched, synced, update, typings>>

\* Mutant: every field is sent.
SendsAll(f) == TRUE

\* The payload of handleSubmit.
Sends(f) == f = "name" \/ typed[f] # held[f]

SaveProfile ==
    /\ Dirty /\ update.at = "off" /\ Types(1)
    /\ update' = [at |-> "sent", sends |-> [f \in Fields |-> IF Sends(f) THEN typed[f] ELSE Unsent]]
    /\ UNCHANGED <<profileRowVars, formVars>>

\* update_my_profile: what is sent is written, the socials as a whole.
WritesProfile ==
    LET sent == {f \in Fields : update.sends[f] # Unsent}
    IN  /\ update.at = "sent" /\ update' = [update EXCEPT !.at = "written"]
        /\ profileRow' = [fields |-> [f \in Fields |-> IF f \in sent THEN update.sends[f] ELSE profileRow.fields[f]],
                          others |-> profileRow.others /\ "socials" \notin sent]
        /\ unseen' = TRUE /\ UNCHANGED <<theirs, formVars, typings>>

\* The route reads the row again, and the page is given it; the form stays as it is.
ProfileSaved ==
    /\ update.at = "written" /\ update' = NoUpdate
    /\ held' = profileRow.fields /\ unseen' = FALSE /\ synced' = TRUE
    /\ UNCHANGED <<profileRow, theirs, typed, touched, typings>>

\* "Update failed": the route refused, or its answer is lost.
UpdateFailed ==
    /\ update.at # "off" /\ update' = NoUpdate
    /\ UNCHANGED <<profileRowVars, formVars, typings>>

\* The other device saves one field.
SavedElsewhere(f, t) ==
    /\ profileRow.fields[f] # t /\ Types(1)
    /\ profileRow' = [profileRow EXCEPT !.fields[f] = t] /\ theirs' = [theirs EXCEPT ![f] = t]
    /\ unseen' = TRUE /\ UNCHANGED <<formVars, update>>

ProfileNext ==
    \/ \E f \in Fields, t \in Texts : EditProfile(f, t) \/ SavedElsewhere(f, t)
    \/ Discard \/ SaveProfile \/ WritesProfile \/ ProfileSaved \/ UpdateFailed
-------------------------------------------------------------------------------
(***************************************************************************)
(* Properties.                                                             *)
(***************************************************************************)
\* A form without a save bar shows the shop as it is, but for what another device has
\* written, or a save whose answer was lost, since the page was last given the row.
CleanMeansSaved == ~Dirty /\ ~unseen => typed = profileRow.fields

\* What another device has made of a field that was not touched here outlives the saves of
\* this page, up to the first that is answered (from then on the form, which is not set
\* anew, differs from the row and sends its old value with the next save); the fields that
\* are always sent do not.
UntouchedSurvives ==
    \A f \in Fields \ {"name"} : f \notin touched /\ ~synced => profileRow.fields[f] = theirs[f]

\* Handles the page does not know are lost only by an edit of those it knows.
HandlesSurvive == ~profileRow.others => "socials" \in touched \/ synced
===============================================================================
