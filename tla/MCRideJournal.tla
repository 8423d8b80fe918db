---------------------------- MODULE MCRideJournal ----------------------------
(* RideJournal for TLC.  Pages of two or three samples and a ring of four  *)
(* slots: a ride rolls over twice, and the ring wraps under it.            *)
EXTENDS RideJournal
=============================================================================
