---------------------------- MODULE MCCacheStore ----------------------------
(* Small instances of CacheStore for TLC. *)
EXTENDS CacheStore
=============================================================================
