--------------------------- MODULE MCWindowStack ---------------------------
(***************************************************************************)
(* TLC instance of WindowStack: the shell's window, another window outside *)
(* any session, and two windows of a session.                              *)
(***************************************************************************)
EXTENDS WindowStack, TLC

CONSTANTS shell, other, a1, a2, A

MCWindow == {shell, other, a1, a2}
MCOwner == shell :> Outside @@ other :> Outside @@ a1 :> A @@ a2 :> A
MCHeight == "large" :> 3 @@ "small" :> 2
MCZone == {[edge |-> "top", size |-> 2]}
=============================================================================
