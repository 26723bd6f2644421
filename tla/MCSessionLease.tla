----------------------------- MODULE MCSessionLease -----------------------------
(* SessionLease on small instances.                                           *)
EXTENDS SessionLease
=============================================================================
