----------------------------- MODULE MCAppRelay -----------------------------
(***************************************************************************)
(* The relay with payloads that end in a carriage return, which passes for  *)
(* a part of the line's end.                                               *)
(***************************************************************************)
EXTENDS AppRelay
=============================================================================
