------------------------- MODULE MCCacheRefinement -------------------------
(***************************************************************************)
(* Instances of CacheLru for TLC.                                          *)
(***************************************************************************)
EXTENDS CacheLru, MCCache
=============================================================================
