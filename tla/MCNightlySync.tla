--------------------------- MODULE MCNightlySync ---------------------------
(* Finite instances of NightlySync.                                          *)
EXTENDS NightlySync

\* A table that points to one before it and to one after it, which is fetched whole.
ThreeTables == {"placements", "billable_charges", "candidates"}
=============================================================================
