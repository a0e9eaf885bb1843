-------------------------- MODULE SessionLifecycle --------------------------
(***************************************************************************)
(* What weft-appd promises its clients about a session, whatever the       *)
(* supervisor does inside: the states a client can be shown, the order in  *)
(* which it is shown them, and when processes of the session may exist.    *)
(*                                                                         *)
(* AppdSession implements this module; the mapping is given there.         *)
(***************************************************************************)
EXTENDS Naturals

CONSTANT Session        \* the session ids

VARIABLES
  state,                \* the state a client is shown
  working               \* whether a child process of the session is alive

vars == <<state, working>>

(***************************************************************************)
(* "absent": not launched yet; "forgotten": the final state is no longer   *)
(* kept; "disowned": a stop request removed the entry of a session that    *)
(* was not stopped.  Nothing is promised of a disowned session.            *)
(***************************************************************************)
State == {"absent", "starting", "running", "stopping", "stopped",
          "forgotten", "disowned"}

Init ==
  /\ state = [s \in Session |-> "absent"]
  /\ working = [s \in Session |-> FALSE]

Become(s, st) == state' = [state EXCEPT ![s] = st]

\* A launch may make appd forget some stopped sessions.
Launch(s) ==
  /\ state[s] = "absent"
  /\ \E gone \in SUBSET {t \in Session : state[t] = "stopped"} :
       state' = [t \in Session |-> CASE t = s       -> "starting"
                                     [] t \in gone  -> "forgotten"
                                     [] OTHER       -> state[t]]
  /\ UNCHANGED working

\* A stop asked for early does not prevent the supervisor's next spawn.
Spawn(s) ==
  /\ state[s] \in {"starting", "stopping"}
  /\ working' = [working EXCEPT ![s] = TRUE]
  /\ UNCHANGED state

Quiesce(s) ==
  /\ state[s] \in {"starting", "running", "stopping"}
  /\ working' = [working EXCEPT ![s] = FALSE]
  /\ UNCHANGED state

Ready(s) ==
  /\ state[s] = "starting"
  /\ Become(s, "running")
  /\ UNCHANGED working

Stop(s) ==
  /\ state[s] \in {"starting", "running"}
  /\ Become(s, "stopping")
  /\ UNCHANGED working

\* Stopped is shown only when no process of the session is left.
Settle(s) ==
  /\ state[s] \in {"starting", "stopping"}
  /\ ~working[s]
  /\ Become(s, "stopped")
  /\ UNCHANGED working

Forget(s) ==
  /\ state[s] = "stopped"
  /\ Become(s, "forgotten")
  /\ UNCHANGED working

Disown(s) ==
  /\ state[s] \in {"starting", "running", "stopping"}
  /\ Become(s, "disowned")
  /\ UNCHANGED working

DisownedStep(s) ==
  /\ state[s] = "disowned"
  /\ working' = [working EXCEPT ![s] = ~@]
  /\ UNCHANGED state

Next ==
  \E s \in Session :
    \/ Launch(s) \/ Spawn(s) \/ Quiesce(s) \/ Ready(s) \/ Stop(s)
    \/ Settle(s) \/ Forget(s) \/ Disown(s) \/ DisownedStep(s)

\* A session that has begun to stop ends.
StopsSettle == \A s \in Session : state[s] = "stopping" ~> state[s] # "stopping"

Safety == Init /\ [][Next]_vars
Spec == Safety /\ StopsSettle
=============================================================================
