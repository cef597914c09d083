------------------------ MODULE MCFaultTolerantSync ------------------------
(* Instances of FaultTolerantSync and GracefulShutdown for TLC. *)
EXTENDS GracefulShutdown

CONSTANTS c1, c2, c3

=============================================================================
