--------------------------- MODULE MCIdempotency ---------------------------
(* Instances of Idempotency for TLC. *)
EXTENDS Idempotency

(* A digest without collisions on the requests of the instance. *)
MCDigest == [r \in Requests |-> <<"req", r>>]
=============================================================================
