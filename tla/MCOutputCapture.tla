--------------------------- MODULE MCOutputCapture ---------------------------
(***************************************************************************)
(* A small instance of OutputCapture: a limit that is no multiple of the   *)
(* chunk, and enough to write to exceed it on one stream.                  *)
(***************************************************************************)
EXTENDS OutputCapture
==============================================================================
