--------------------------- MODULE MCAccessReviews ---------------------------
(* AccessReviews with a request of the reviewer's own and one of another's. *)
EXTENDS AccessReviews, TLC
=============================================================================
