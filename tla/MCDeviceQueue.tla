--------------------------- MODULE MCDeviceQueue ---------------------------
(* The broker at one instant: two phones, their transports, and the queue. *)
EXTENDS DeviceBroker, TLC

CONSTANTS d1, d2, n1, r1, r2

AnyPhone == [pin |-> None, conn |-> None, nick |-> None, prio |-> 0]

MCReach == (d1 :> Transports) @@ (d2 :> {"usb"})

MCRequests == {AnyPhone,
               [AnyPhone EXCEPT !.pin = d1, !.conn = "usb", !.prio = 1]}

Symmetry == Permutations({r1, r2})
=============================================================================
