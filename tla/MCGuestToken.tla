----------------------------- MODULE MCGuestToken -----------------------------
(* Instances of GuestToken: two requests at a time, limits that are reached. *)
EXTENDS GuestToken, TLC

\* Without a session, and with one.
MCDailyCap == (FALSE :> 2) @@ (TRUE :> 1)
MCCooldown == (FALSE :> 1) @@ (TRUE :> 1)
MCWindow == (FALSE :> 2) @@ (TRUE :> 2)

RequestSymmetry == Permutations(Requests)
================================================================================
