--------------------------- MODULE MCRfdcControl ---------------------------
(* Two channels with two values, two web calls at once or one library user. *)
(* A web request carries the same value for both channels.                  *)
EXTENDS RfdcControl, TLC

CONSTANTS c1, c2, x1, x2

MCRequests == {[c \in Channels |-> v] : v \in Values}
MCSymmetry == Permutations({c1, c2}) \cup Permutations({x1, x2})
=============================================================================
