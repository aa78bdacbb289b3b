------------------------------ MODULE Addresses ------------------------------
(* The peer addresses that the rate limiter, the pre-login pool and the      *)
(* lockout are keyed by: one set, whichever of them is asked.                *)

CONSTANT Addrs  \* peer IP addresses
=============================================================================
