--------------------------- MODULE MarketplaceSellers ---------------------------
(***************************************************************************)
(* Sellers and their listings (marketplace-seller-runtime.js), as the      *)
(* MARKETPLACE_ events of server.js apply them: a seller's activation is a *)
(* cached checklist over the seller and its listings, refreshed by some of *)
(* the writes it depends on.                                               *)
(*                                                                         *)
(* A profile (display_name and slug) is required and always there.  Only   *)
(* the live part of the state is modelled, not the replay of the events.   *)
(***************************************************************************)
EXTENDS Integers, FiniteSets, Keyed

CONSTANTS
    Sellers,    \* seller ids
    Listings    \* listing ids, which clients may choose

VARIABLES
    sellers,    \* ledger.marketplace_sellers by id
    listings    \* ledger.marketplace_listings by id: the seller and whether it counts

sellersVars == <<sellers, listings>>

Statuses == {"draft", "ready", "active"}
Seller == [identity : BOOLEAN, payout : BOOLEAN, status : Statuses,
           activation : {"not_ready", "needs_setup", "ready_to_launch"}]

Init == sellers = <<>> /\ listings = <<>>

\* The checklist of refreshSellerActivation: an archived listing does not count.
Ready(seller, s, offers) ==
    /\ seller.identity /\ seller.payout
    /\ \E l \in DOMAIN offers : offers[l].seller = s /\ offers[l].offered

\* refreshSellerActivation
Refreshed(seller, s, offers) ==
    [seller EXCEPT
        !.activation = IF Ready(seller, s, offers) THEN "ready_to_launch" ELSE "needs_setup",
        !.status = IF Ready(seller, s, offers) /\ @ = "draft" THEN "ready" ELSE @]

\* MARKETPLACE_SELLER_UPSERTED: the fields, the status among them, are the event's.
UpsertSeller(s, identity, payout, status) ==
    /\ sellers' = Put(sellers, s,
                      Refreshed([identity |-> identity, payout |-> payout,
                                 status |-> status, activation |-> "not_ready"],
                                s, listings))
    /\ UNCHANGED listings

\* MARKETPLACE_LISTING_UPSERTED: a known listing may come with another seller, of which
\* only the new one is refreshed.
UpsertListing(l, s, offered) ==
    /\ s \in DOMAIN sellers
    /\ listings' = Put(listings, l, [seller |-> s, offered |-> offered])
    /\ sellers' = [sellers EXCEPT ![s] = Refreshed(@, s, listings')]

\* Slip: the cached activation is taken for the checklist.
ActivateAsCached(s) ==
    /\ s \in DOMAIN sellers
    /\ sellers[s].activation = "ready_to_launch"
    /\ sellers' = [sellers EXCEPT ![s].status = "active"]
    /\ UNCHANGED listings

\* activateSeller: what it refreshed stays when it then refuses.
ActivateSeller(s) ==
    /\ s \in DOMAIN sellers
    /\ LET seller == Refreshed(sellers[s], s, listings)
       IN  sellers' = [sellers EXCEPT ![s] =
                          IF seller.activation = "ready_to_launch"
                          THEN [seller EXCEPT !.status = "active"] ELSE seller]
    /\ UNCHANGED listings

Next ==
    \/ \E s \in Sellers, identity, payout \in BOOLEAN, status \in Statuses :
          UpsertSeller(s, identity, payout, status)
    \/ \E l \in Listings, s \in Sellers, offered \in BOOLEAN : UpsertListing(l, s, offered)
    \/ \E s \in Sellers : ActivateSeller(s)

Spec == Init /\ [][Next]_sellersVars

-----------------------------------------------------------------------------

TypeOK ==
    /\ DOMAIN sellers \subseteq Sellers
    /\ \A s \in DOMAIN sellers : sellers[s] \in Seller
    /\ DOMAIN listings \subseteq Listings
    /\ \A l \in DOMAIN listings : listings[l].seller \in DOMAIN sellers

\* A seller that becomes active and is shown as ready to launch has all it takes at that
\* moment, a listing of its own above all, though the activation it had cached may
\* count one that has since moved to another seller.
OnlyReadySellersLaunch ==
    [][\A s \in DOMAIN sellers :
          (/\ sellers[s].status # "active" /\ sellers'[s].status = "active"
           /\ sellers'[s].activation = "ready_to_launch")
              => Ready(sellers'[s], s, listings')]_sellersVars

=============================================================================
