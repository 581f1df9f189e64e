-------------------------------- MODULE MCApi --------------------------------
(***************************************************************************)
(* The components of the API that share no state: sessions, rate limiter   *)
(* and paginated lists.  A behaviour is one of a single component, the     *)
(* others resting in an initial state; the states explored are the sum,    *)
(* not the product.  Calls, hits and items are numbers that are used in    *)
(* order, which stands for a symmetry reduction.                           *)
(***************************************************************************)
EXTENDS Sessions, RateLimit, Listing

VARIABLE part  \* the component that moves

Init ==
    /\ SessionsInit /\ LimiterInit /\ ListingInit
    /\ part \in {"sessions", "limiter", "listing"}
    /\ part # "limiter" => client = [h \in Hits |-> CHOOSE c \in Clients : TRUE]
    /\ part # "listing" => listing = "orders"

UsedInOrder(used(_), S) == \A x, y \in S : x < y /\ used(y) => used(x)

Next ==
    /\ \/ part = "sessions" /\ SessionsNext /\ UNCHANGED <<limiterVars, listingVars>>
          /\ UsedInOrder(LAMBDA r : step'[r] # "idle", AuthCalls)
       \/ part = "limiter" /\ LimiterNext /\ UNCHANGED <<sessionsVars, listingVars>>
          /\ UsedInOrder(LAMBDA h : stage'[h] # "idle", Hits)
       \/ part = "listing" /\ ListingNext /\ UNCHANGED <<sessionsVars, limiterVars>>
          /\ UsedInOrder(LAMBDA i : pos'[i] # 0, Items)
    /\ UNCHANGED part

Spec == Init /\ [][Next]_<<part, sessionsVars, limiterVars, listingVars>>

=============================================================================
