---------------------------- MODULE MCClientFeed ----------------------------
(***************************************************************************)
(* TLC instance of ClientFeed.                                             *)
(***************************************************************************)
EXTENDS ClientFeed
=============================================================================
