---------------------------- MODULE MCReservations ----------------------------
(* Reservations on small instances.                                        *)
EXTENDS Reservations
=============================================================================
