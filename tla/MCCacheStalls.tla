--------------------------- MODULE MCCacheStalls ---------------------------
(***************************************************************************)
(* Instances of CacheStalls for TLC: two registers, two clusters, a queue  *)
(* of two or three slots, two requests.                                    *)
(***************************************************************************)
EXTENDS CacheStalls

NoTarget == {}
=============================================================================
