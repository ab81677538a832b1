----------------------------- MODULE MCStorefront -----------------------------
(***************************************************************************)
(* A wallet that may open a shop; budgets of two purchases, of two images, *)
(* or of one of each; one product, one save; a profile of two values with  *)
(* five edits and saves; three goods in pages of one; two addresses and    *)
(* three requests of the page and of another device; a wallet that goes    *)
(* away twice.                                                             *)
(***************************************************************************)
EXTENDS Storefront

\* The wallet alone, for the claim about it: the effects of the hook run, and its timer of 8 s
\* ends; a wallet need not answer.
WalletSpec == StoreInit /\ desk = "wallet" /\ [][StoreNext]_storeVars /\ WF_gateVars(HookEffects)

MCBudgets == {[packs |-> 2, images |-> 0], [packs |-> 1, images |-> 1], [packs |-> 0, images |-> 2]}
===============================================================================
