--------------------------- MODULE MCDeviceUnplug ---------------------------
(* One phone with two transports: unplugging, crashes, retained recovery.  *)
EXTENDS DeviceBroker, TLC

CONSTANTS d1, n1, n2, r1, r2

MCReach == d1 :> Transports

MCRequests == {[pin |-> None, conn |-> None, nick |-> None, prio |-> 0]}
=============================================================================
