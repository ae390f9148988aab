-------------------------------- MODULE MCWopi ---------------------------------
(***************************************************************************)
(* WopiLocks on a small instance: two sessions that may write are alike,   *)
(* and so are the ids they lock with.                                      *)
(***************************************************************************)
EXTENDS WopiLocks, TLC

Alike == Permutations(Sessions \ ReadOnly) \cup Permutations(Ids)
================================================================================
