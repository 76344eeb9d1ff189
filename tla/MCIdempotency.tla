--------------------------- MODULE MCIdempotency ---------------------------
(* Small instances of module Idempotency. *)
EXTENDS Idempotency, TLC

CONSTANTS r1, r2, r3, a1, a2, a3

MCRequests == {r1, r2, r3}
MCAttempts == {a1, a2, a3}

(* Requests and attempts are interchangeable. *)
MCSymmetry == Permutations(MCRequests) \cup Permutations(MCAttempts)
=============================================================================
