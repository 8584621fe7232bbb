--------------------------- MODULE MCRegionSearch ---------------------------
(***************************************************************************)
(* Model of RegionSearch: every sorted list of up to 7 addresses (a full    *)
(* tree of 3 levels and every smaller shape), repeated addresses included.  *)
(***************************************************************************)
EXTENDS RegionSearch
=============================================================================
