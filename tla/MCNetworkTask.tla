---------------------------- MODULE MCNetworkTask ----------------------------
(* Values for the constants of NetworkTask that a .cfg cannot write.       *)
EXTENDS NetworkTask

CONSTANTS n1, n2, b1, b2

MCStored == [net |-> n1, broker |-> b1]
OneEach  == [wifi |-> 1, mqtt |-> 1]
OneTwo   == [wifi |-> 1, mqtt |-> 2]
=============================================================================
