-------------------------- MODULE MCSessionControl --------------------------
(***************************************************************************)
(* SessionControl with one session id, so that every new session uses it   *)
(* again.                                                                  *)
(***************************************************************************)
EXTENDS SessionControl, FiniteSets

CONSTANT id1

AllFaultsOrRetriesOnly == {{"restart", "deny", "retry", "duplicate"}, {"retry"}}
OneId == {id1}
=============================================================================
