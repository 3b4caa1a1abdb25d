---------------------------- MODULE MCOperations ----------------------------
(* Three calls: two that share an id or a Room's start, and one between.    *)
EXTENDS OperationTracker, TLC

CONSTANTS r1, r2, r3, k1, c1, c2, c3

Ask(kind, room, key, body) == [kind |-> kind, room |-> room, key |-> key, body |-> body]

Change(body) == Ask("change", r1, k1, body)
Create == Ask("create", None, k1, "a")
Start == Ask("start", r1, None, "a")

Plan(p, q, r) == (c1 :> p) @@ (c2 :> q) @@ (c3 :> r)

MCPlans == {Plan(Create, Create, Start), Plan(Start, Start, Change("a")),
            Plan(Change("a"), Change("a"), Start),
            Plan(Change("a"), Change("b"), Start)}
=============================================================================
