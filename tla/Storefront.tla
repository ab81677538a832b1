------------------------------- MODULE Storefront -------------------------------
(***************************************************************************)
(* The desks of the shop and of its buyers, of which a page shows one at a *)
(* time: the wallet behind them all (WalletGate), opening the shop         *)
(* (ShopDesk), its profile (ProfileDesk), its credits (CreditsDesk), its   *)
(* products (ProductDesk), the marketplace where they are found            *)
(* (Marketplace), and the addresses they go to (AddressBook).  They share  *)
(* no state but the backend's rows that each has to itself: a behaviour is *)
(* one of the desk chosen at the beginning, the others at rest.            *)
(***************************************************************************)
EXTENDS ShopDesk, CreditsDesk, ProductDesk, Marketplace, AddressBook, ProfileDesk, WalletGate

VARIABLE desk

sellerVars == <<shopVars, creditsVars, productVars, profileVars>>
buyerVars == <<marketVars, bookVars, gateVars>>
storeVars == <<desk, sellerVars, buyerVars>>

\* A desk at rest is in one of its initial states.
StoreInit ==
    /\ desk \in {"shop", "credits", "products", "profile", "market", "book", "wallet"}
    /\ ShopInit /\ (desk # "shop" => ~enforced)
    /\ CreditsInit /\ (desk # "credits" => budget = CHOOSE b \in Budgets : TRUE)
    /\ ProductInit /\ (desk # "products" => row = list)
    /\ ProfileInit /\ (desk # "profile" => typed["name"] = CHOOSE t \in Texts : TRUE)
    /\ MarketInit /\ (desk # "market" => live = {} /\ url.country = "all" /\ url.sort = "newest")
    /\ BookInit
    /\ WalletInit /\ (desk # "wallet" => place = "bare")

SellerNext ==
    \/ desk = "shop" /\ ShopNext /\ UNCHANGED <<creditsVars, productVars, profileVars>>
    \/ desk = "credits" /\ CreditsNext /\ UNCHANGED <<shopVars, productVars, profileVars>>
    \/ desk = "products" /\ ProductNext /\ UNCHANGED <<shopVars, creditsVars, profileVars>>
    \/ desk = "profile" /\ ProfileNext /\ UNCHANGED <<shopVars, creditsVars, productVars>>

BuyerNext ==
    \/ desk = "market" /\ MarketNext /\ UNCHANGED <<bookVars, gateVars>>
    \/ desk = "book" /\ BookNext /\ UNCHANGED <<marketVars, gateVars>>
    \/ desk = "wallet" /\ WalletNext /\ UNCHANGED <<marketVars, bookVars>>

StoreNext ==
    /\ UNCHANGED desk
    /\ \/ SellerNext /\ UNCHANGED buyerVars
       \/ BuyerNext /\ UNCHANGED sellerVars

\* The query of the marketplace polls every 30 s while the page is there, and a page settles.
StoreFairness ==
    /\ ShopFairness /\ CreditsFairness /\ ProductFairness
    /\ WF_marketVars(desk = "market" /\ Refetch) /\ WF_marketVars(desk = "market" /\ PageSettles)

StoreSpec == StoreInit /\ [][StoreNext]_storeVars /\ StoreFairness
-------------------------------------------------------------------------------
(***************************************************************************)
(* Properties.                                                             *)
(***************************************************************************)
\* What the desks tell the seller and the buyer is so: a fee or a pack called paid is paid, no
\* purchase counts twice, the ledger is overdrawn by races alone, a raw photo was asked about
\* before it was published, a profile without a save bar is saved, what is not edited here is
\* left alone, the listing loses nothing between its pages, a book of addresses has one default
\* but for races, no wallet asks a permission nobody pressed for, and who waits for MiniPay has
\* the watchdog still to ring.
StoreIsSound ==
    /\ PaymentsReported
    /\ CreditsCounted /\ OverdrawnByRacesOnly
    /\ RawHeroWasAskedAbout
    /\ CleanMeansSaved /\ UntouchedSurvives /\ HandlesSurvive
    /\ NothingLostBetweenPages
    /\ OneDefault
    /\ NoUninvitedPrompt /\ SpinnerIsWatched

\* Who has paid gets the shop and the credits, and the pages come to show what there is: a
\* balance or a list that was overtaken is replaced.
SellersAreServed ==
    /\ PaidShopOpens
    /\ BalanceSettles
    /\ ListSettles
    /\ <>[](desk = "market" => display.at # "pending")
===============================================================================
