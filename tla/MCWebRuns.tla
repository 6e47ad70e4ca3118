----------------------------- MODULE MCWebRuns -----------------------------
(* One master, one slave, two runs and one API handler at a time.           *)
EXTENDS WebRuns

CONSTANTS b1, b2

Post(jobs, dry, rfdc, mode) == [jobs |-> jobs, dry_run |-> dry, rfdc |-> rfdc, mode |-> mode]

MCRequests == {Post(<<b1>>, FALSE, TRUE, "upload"), Post(<<b1>>, FALSE, FALSE, "one_shot"),
               Post(<<b1, b2>>, FALSE, FALSE, "continuous"), Post(<<b2>>, TRUE, TRUE, "upload")}
=============================================================================
