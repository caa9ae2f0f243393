---------------------------- MODULE MCIdempotency -----------------------------
(* Two requests of two subjects under one key, with two bodies. *)
EXTENDS Idempotency

CONSTANTS r1, r2, k1, alice, bob

MCRequest == {r1, r2}
MCCall ==
    {[key |-> k1, subject |-> alice, path |-> "create", body |-> 1],
     [key |-> k1, subject |-> bob, path |-> "create", body |-> 1],
     [key |-> k1, subject |-> alice, path |-> "create", body |-> 2]}
===============================================================================
