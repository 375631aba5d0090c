----------------------------- MODULE MCHttpRequest -----------------------------
(* HttpRequest on all answers of a few lines. *)
EXTENDS HttpRequest
=============================================================================
