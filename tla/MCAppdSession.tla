--------------------------- MODULE MCAppdSession ---------------------------
(***************************************************************************)
(* The TLC instances of AppdSession.  A supervised session meets another   *)
(* only in the pruning of a launch and in the shutdown.  So the second one *)
(* is launched in an appd without WEFT_RUNTIME_BIN and without compositor, *)
(* where dispatch resolves nothing and no supervisor runs.                 *)
(***************************************************************************)
EXTENDS AppdSession

\* Nobody reads the stop channels then: a second request only makes them longer.
MCNext ==
  /\ Next
  /\ nextId' > 1 =>
       ~host.runtime /\ ~host.compositor /\ \A s \in Session : Len(stopq'[s]) <= 1

\* The fairness of FairSpec, without that of supervisors that never run.
MCFairness == Fairness(1) /\ \A s \in Session : WF_vars(Dispatch(s))

MCSpec == Init /\ [][MCNext]_vars /\ MCFairness
=============================================================================
