--------------------------- MODULE MCIdempotency ---------------------------
(* Values of the constants of Idempotency for model checking. *)
EXTENDS Idempotency

CONSTANTS r1, r2, r3, k1

\* Three attempts under one key, the third for another order.
OneKey == [r \in Requests |-> k1]
ThirdDiffers == [r \in Requests |-> IF r = r3 THEN "other order" ELSE "order"]
=============================================================================
