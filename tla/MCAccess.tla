------------------------------ MODULE MCAccess ------------------------------
(* Two users, two browsers, two boards: runs on the first board or on both. *)
EXTENDS Access

CONSTANTS b1, b2

MCGroups == {<<b1>>, <<b1, b2>>}
=============================================================================
