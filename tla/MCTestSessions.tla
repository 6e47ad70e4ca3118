--------------------------- MODULE MCTestSessions ---------------------------
(* One board, one performance test of two points, one max-length test, two  *)
(* API handlers and two workers.                                            *)
EXTENDS TestSessions, TLC

CONSTANTS h1, h2, w1, w2

\* An automatic test that leaves its points playing, one whose points a client
\* executes and that are muted after a while, and a dry one of the same kind.
MCSettings == {[auto |-> TRUE, dry |-> FALSE, mute |-> FALSE],
               [auto |-> FALSE, dry |-> FALSE, mute |-> TRUE],
               [auto |-> FALSE, dry |-> TRUE, mute |-> TRUE]}

MCSymmetry == Permutations({h1, h2}) \cup Permutations({w1, w2})
=============================================================================
