---------------------------- MODULE MCWebSessions ----------------------------
(* Small instances of WebSessions: model values and bounds are in the .cfg files. *)
EXTENDS WebSessions, TLC

Symmetric == Permutations(Sids) \cup Permutations(Requests)
=============================================================================
