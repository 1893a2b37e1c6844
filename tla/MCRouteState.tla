----------------------------- MODULE MCRouteState -----------------------------
(* Instances of RouteState: one provider with one route, which draws on one   *)
(* pool or on none.                                                           *)
EXTENDS RouteState

CONSTANTS p1, r1, c1, c2

\* The keys: 1 the provider, 2 its route, 3 its pool.
SingleOwner   == [p \in {p1} |-> 1]
SingleRoutes  == [r \in {r1} |-> 2]
SingleOwnerOf == [r \in {r1} |-> p1]
SinglePools   == [r \in {r1} |-> {}]
PooledPools   == [r \in {r1} |-> {3}]
==============================================================================
