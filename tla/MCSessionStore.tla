--------------------------- MODULE MCSessionStore ---------------------------
(* The session store on a few entries. *)
EXTENDS SessionStore
=============================================================================
