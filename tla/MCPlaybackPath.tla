--------------------------- MODULE MCPlaybackPath ---------------------------
(* Small instances of PlaybackPath: a FIFO of two frames, descriptors that  *)
(* fit it and that do not, one or two passes.                               *)
EXTENDS PlaybackPath

MCTwoPasses == {2}
MCStream == {3}
MCFitting == {2}
MCCore == {"begin", "commit", "play", "stop", "abort"}
MCAll == MCCore \cup {"pause", "status"}
MCStop == {"stop"}
MCNone == {}
MCFaults == BOOLEAN
MCNoFaults == {FALSE}
=============================================================================
