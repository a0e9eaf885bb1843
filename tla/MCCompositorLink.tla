-------------------------- MODULE MCCompositorLink --------------------------
(***************************************************************************)
(* TLC instance of CompositorLink.                                         *)
(***************************************************************************)
EXTENDS CompositorLink
=============================================================================
