--------------------------- MODULE MCFillIngestion ---------------------------
(* FillIngestion on small instances.                                       *)
EXTENDS FillIngestion
=============================================================================
