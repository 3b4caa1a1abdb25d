---------------------------- MODULE MCDeviceReap ----------------------------
(* One phone and one Room in time: heartbeats, probes, reap, crashes.      *)
EXTENDS DeviceBroker, TLC

CONSTANTS d1, n1, r1

MCReach == d1 :> {"usb"}

MCRequests == {[pin |-> None, conn |-> None, nick |-> None, prio |-> 0]}
=============================================================================
