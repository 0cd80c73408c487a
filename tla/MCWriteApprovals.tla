--------------------------- MODULE MCWriteApprovals ---------------------------
(***************************************************************************)
(* A small instance of WriteApprovals: two confirm requests, which may be  *)
(* a double click, a retry or two offers, one call of a chat turn beside   *)
(* them, and two restarts, failing statements or changes of grant-all.     *)
(***************************************************************************)
EXTENDS WriteApprovals

CONSTANT chat1
=============================================================================
