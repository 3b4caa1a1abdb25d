----------------------------- MODULE PhoneLease -----------------------------
(***************************************************************************)
(* What the Device Broker promises about ownership: one phone, many Rooms. *)
(* A phone goes from nobody to one Room that has none, and back to nobody. *)
(* It never passes from a Room straight to another one.                    *)
(***************************************************************************)
CONSTANTS Rooms, Devices, None

VARIABLE owner

Init == \E d \in Devices, r \in Rooms \cup {None} :
            owner = [e \in Devices |-> IF e = d THEN r ELSE None]

Take(d, r) ==
    /\ owner[d] = None
    /\ \A e \in Devices : owner[e] # r
    /\ owner' = [owner EXCEPT ![d] = r]

Drop(d) ==
    /\ owner[d] # None
    /\ owner' = [owner EXCEPT ![d] = None]

Next == \E d \in Devices : Drop(d) \/ \E r \in Rooms : Take(d, r)

Spec == Init /\ [][Next]_owner
=============================================================================
