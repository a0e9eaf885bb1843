---------------------------- MODULE AppdSession ----------------------------
(***************************************************************************)
(* The session supervisor weft-appd: the session registry behind its lock, *)
(* the dispatch of LaunchApp, TerminateApp and IpcForward, one supervisor  *)
(* task for each launched session, and the two child processes it owns.    *)
(*                                                                         *)
(* A step of this module is one critical section of the registry lock, or  *)
(* one stretch of a task between two await points.                         *)
(***************************************************************************)
EXTENDS Naturals, Sequences, FiniteSets

CONSTANTS
  MaxSessions,   \* bound: how many sessions are launched (next_id is a u64)
  StopQueue,     \* STOP_QUEUE: capacity of a session's stop channel
  KeptStopped    \* KEPT_STOPPED: final states kept across a launch

ASSUME BoundAssumption == MaxSessions \in Nat /\ KeptStopped \in Nat
ASSUME QueueAssumption == StopQueue \in Nat /\ StopQueue >= 2

Session == 1 .. MaxSessions
Child == {"runtime", "shell"}
Stop == {"close", "force"}

VARIABLES
  host,        \* which of the runtime binary and the compositor are configured
  connected,   \* whether the compositor connection is up
  draining,    \* appd has dropped every stop sender and is about to exit
  \* The registry.
  nextId,      \* next_id
  entry,       \* sessions: the state of each entry, "none" without one
  sender,      \* abort_senders: the sessions with a registered stop sender
  ipc,         \* ipc_senders: the sessions with a registered relay sender
  \* The tasks.
  launch,      \* how far dispatch has come with a launch
  sup,         \* where a session's supervisor is
  stopq,       \* the stop requests queued for a supervisor
  \* What a session owns.
  proc,        \* its children: "none", "live" or "exited"
  printed,     \* the children that have printed READY <token>
  declined,    \* a CLOSE_CANCELLED report waits in the cancelled channel
  image,       \* its mounted package image
  relay,       \* its IPC relay
  portal,      \* whether its file portal runs
  client,      \* what the compositor was told of its Wayland connection
  \* History.
  events,      \* the broadcasts about a session, oldest first
  forced,      \* the supervised sessions told to stop by force
  disowned     \* the sessions whose entry went before they had stopped

registry == <<nextId, entry, sender, ipc>>
children == <<proc, printed, declined>>
owned == <<image, relay, portal, client>>
history == <<events, forced, disowned>>
world == <<host, connected, draining>>
vars == <<host, connected, draining, nextId, entry, sender, ipc, launch, sup,
          stopq, proc, printed, declined, image, relay, portal, client,
          events, forced, disowned>>

EntryState == {"none", "starting", "running", "stopping", "stopped"}
LaunchStep == {"idle", "inserted", "unresolved", "stopNow", "tell", "spawned",
               "acked"}

\* Where a supervisor listens to its stop channel, and where it no longer does.
Waiting == {"waitRuntime", "waitShell"}
Listening == Waiting \cup {"open", "spawn", "attach", "publish", "run", "closing"}
Settling == {"settle", "killShell", "killRuntime", "release", "finish"}
SupStep == {"none", "unstarted", "done"} \cup Listening \cup Settling

\* "running" is AppReady, "ack" is LaunchAck, the others are AppState.
Event == {"ack", "running", "stopping", "stopped"}

TypeOK ==
  /\ host \in [runtime : BOOLEAN, compositor : BOOLEAN]
  /\ connected \in BOOLEAN
  /\ draining \in BOOLEAN
  /\ nextId \in 0 .. MaxSessions
  /\ entry \in [Session -> EntryState]
  /\ sender \in [Session -> BOOLEAN]
  /\ ipc \in [Session -> BOOLEAN]
  /\ launch \in [Session -> LaunchStep]
  /\ sup \in [Session -> SupStep]
  /\ stopq \in [Session -> Seq(Stop)]
  /\ \A s \in Session : Len(stopq[s]) <= StopQueue
  /\ proc \in [Session -> [Child -> {"none", "live", "exited"}]]
  /\ printed \in [Session -> SUBSET Child]
  /\ declined \in [Session -> BOOLEAN]
  /\ image \in [Session -> {"none", "mounted", "released"}]
  /\ relay \in [Session -> {"none", "open", "ended", "dropped"}]
  /\ portal \in [Session -> BOOLEAN]
  /\ client \in [Session -> {"none", "attached", "released", "leaked"}]
  /\ events \in [Session -> Seq(Event)]
  /\ forced \in SUBSET Session
  /\ disowned \in SUBSET Session

(***************************************************************************)
(* A launch is refused while the compositor is not connected, so the       *)
(* observation starts with the connection up.  The check is made before    *)
(* the package is resolved, off the lock: by the time the session exists   *)
(* the connection may be gone.                                             *)
(***************************************************************************)
Init ==
  /\ host \in [runtime : BOOLEAN, compositor : BOOLEAN]
  /\ connected = host.compositor
  /\ draining = FALSE
  /\ nextId = 0
  /\ entry = [s \in Session |-> "none"]
  /\ sender = [s \in Session |-> FALSE]
  /\ ipc = [s \in Session |-> FALSE]
  /\ launch = [s \in Session |-> "idle"]
  /\ sup = [s \in Session |-> "none"]
  /\ stopq = [s \in Session |-> <<>>]
  /\ proc = [s \in Session |-> [c \in Child |-> "none"]]
  /\ printed = [s \in Session |-> {}]
  /\ declined = [s \in Session |-> FALSE]
  /\ image = [s \in Session |-> "none"]
  /\ relay = [s \in Session |-> "none"]
  /\ portal = [s \in Session |-> FALSE]
  /\ client = [s \in Session |-> "none"]
  /\ events = [s \in Session |-> <<>>]
  /\ forced = {}
  /\ disowned = {}

(***************************************************************************)
(* Helpers.                                                                *)
(***************************************************************************)
Goto(s, from, to) ==
  /\ sup[s] \in from
  /\ sup' = [sup EXCEPT ![s] = to]

\* set_state does nothing for a session without an entry.
SetState(s, st) ==
  entry' = [entry EXCEPT ![s] = IF @ = "none" THEN @ ELSE st]

\* A repeat of the latest broadcast is not recorded.
Told(s, e) ==
  IF events[s] # <<>> /\ events[s][Len(events[s])] = e
  THEN events
  ELSE [events EXCEPT ![s] = Append(@, e)]

\* Stopping is broadcast by whoever moves the session there.  The mutant
\* leaves the broadcast to nobody.
MutantStoppingUntold(s) == events
StoppingTold(s) == IF entry[s] = "stopping" THEN events ELSE Told(s, "stopping")

Live(s) == \E c \in Child : proc[s][c] = "live"

\* The queue after a try_send of m.  The mutant is a channel without bound.
MutantUnbounded(s, m) == [stopq EXCEPT ![s] = Append(@, m)]
Queued(s, m) ==
  IF Len(stopq[s]) < StopQueue
  THEN [stopq EXCEPT ![s] = Append(@, m)]
  ELSE stopq

(***************************************************************************)
(* dispatch: LaunchApp.                                                    *)
(***************************************************************************)
StoppedIds == {s \in Session : entry[s] = "stopped"}

\* prune_stopped: the stopped sessions with KeptStopped newer ones.  The
\* mutant does not look at their state.
MutantPrunesAny ==
  {s \in 1 .. nextId : Cardinality({t \in 1 .. nextId : t > s}) >= KeptStopped}
Pruned ==
  {s \in StoppedIds : Cardinality({t \in StoppedIds : t > s}) >= KeptStopped}

\* The package was resolved before, and its image mounted: a package that is
\* a directory is the case with nothing to release.
Launch ==
  /\ nextId < MaxSessions
  /\ LET s == nextId + 1
     IN /\ nextId' = s
        /\ entry' = [t \in Session |-> CASE t = s         -> "starting"
                                         [] t \in Pruned  -> "none"
                                         [] OTHER         -> entry[t]]
        /\ launch' = [launch EXCEPT ![s] = "inserted"]
        /\ image' = [image EXCEPT ![s] = IF host.runtime THEN "mounted" ELSE @]
  /\ UNCHANGED <<world, sender, ipc, sup, stopq, children, relay, portal,
                 client, history>>

\* register_abort takes the lock anew; the supervisor is then spawned.
RegisterAbort(s) ==
  /\ launch[s] = "inserted"
  /\ sender' = [sender EXCEPT ![s] = TRUE]
  /\ IF host.runtime
     THEN /\ launch' = [launch EXCEPT ![s] = "spawned"]
          /\ sup' = [sup EXCEPT ![s] = "open"]
     ELSE /\ launch' = [launch EXCEPT ![s] = "unresolved"]
          /\ UNCHANGED sup
  /\ UNCHANGED <<world, nextId, entry, ipc, stopq, children, owned, history>>

\* The acknowledgement is broadcast once the supervisor already runs.
AckLaunch(s) ==
  /\ launch[s] \in {"unresolved", "spawned"}
  /\ launch' = [launch EXCEPT ![s] = IF @ = "spawned" THEN "acked" ELSE "stopNow"]
  /\ events' = Told(s, "ack")
  /\ UNCHANGED <<world, registry, sup, stopq, children, owned, forced, disowned>>

\* Without a configured runtime the session stops at once, unsupervised.
StopUnresolved(s) ==
  /\ launch[s] = "stopNow"
  /\ SetState(s, "stopped")
  /\ sender' = [sender EXCEPT ![s] = FALSE]
  /\ launch' = [launch EXCEPT ![s] = "tell"]
  /\ UNCHANGED <<world, nextId, ipc, sup, stopq, children, owned, history>>

\* dispatch returns and drops its end of the stop channel.
TellUnresolved(s) ==
  /\ launch[s] = "tell"
  /\ events' = Told(s, "stopped")
  /\ launch' = [launch EXCEPT ![s] = "acked"]
  /\ stopq' = [stopq EXCEPT ![s] = <<>>]
  /\ UNCHANGED <<world, registry, sup, children, owned, forced, disowned>>

(***************************************************************************)
(* dispatch: TerminateApp, under one acquisition of the lock.              *)
(***************************************************************************)
\* A close is queued only into an empty queue.  The mutant queues it
\* whenever there is room.
MutantCloseFitsAnyRoom(s) == Len(stopq[s]) < StopQueue
CloseFits(s) == Len(stopq[s]) = 0

\* A registered sender: a request to a supervisor that has yet to settle.
StopSupervised(s, stop) ==
  /\ sender[s]
  /\ stopq' = IF \/ stop = "force"
                 \/ entry[s] # "stopping" /\ CloseFits(s)
              THEN Queued(s, stop)
              ELSE stopq
  /\ IF entry[s] = "stopping" \/ (stop = "close" /\ entry[s] = "running")
     THEN UNCHANGED <<entry, events>>
     ELSE SetState(s, "stopping") /\ events' = StoppingTold(s)
  /\ forced' = IF stop = "force" /\ host.runtime THEN forced \cup {s} ELSE forced
  /\ UNCHANGED <<world, nextId, sender, ipc, launch, sup, children, owned,
                 disowned>>

\* No sender: the entry is removed and the client told the session stopped.
StopUnsupervised(s) ==
  /\ ~sender[s]
  /\ entry[s] # "none"
  /\ entry' = [entry EXCEPT ![s] = "none"]
  /\ disowned' = IF entry[s] = "stopped" THEN disowned ELSE disowned \cup {s}
  /\ UNCHANGED <<world, nextId, sender, ipc, launch, sup, stopq, children,
                 owned, events, forced>>

\* dispatch: IpcForward into a relay that has ended forgets its sender.
ForwardToEndedRelay(s) ==
  /\ ipc[s]
  /\ relay[s] # "open"
  /\ ipc' = [ipc EXCEPT ![s] = FALSE]
  /\ UNCHANGED <<world, nextId, entry, sender, launch, sup, stopq, children,
                 owned, history>>

(***************************************************************************)
(* shutdown_all.  The process exits 200 ms later, and kill_on_drop takes   *)
(* the children: a behaviour is cut short there, wherever it is.           *)
(***************************************************************************)
ShutdownAll ==
  /\ ~draining
  /\ draining' = TRUE
  /\ sender' = [s \in Session |-> FALSE]
  /\ UNCHANGED <<host, connected, nextId, entry, ipc, launch, sup, stopq,
                 children, owned, history>>

(***************************************************************************)
(* supervise: starting a session.                                          *)
(***************************************************************************)
\* Everything up to register_ipc_sender; a missing binary, token, socket
\* path or socket ends in stop_unstarted.
OpenRelay(s) ==
  /\ \/ /\ Goto(s, {"open"}, "spawn")
        /\ relay' = [relay EXCEPT ![s] = "open"]
        /\ ipc' = [ipc EXCEPT ![s] = TRUE]
     \/ Goto(s, {"open"}, "unstarted") /\ UNCHANGED <<relay, ipc>>
  /\ UNCHANGED <<world, nextId, entry, sender, launch, stopq, children, image,
                 portal, client, history>>

\* Where a supervisor goes that could not spawn its runtime.  The mutant
\* takes the path of a session that owns nothing yet.
MutantSpawnFailedUnstarted == "unstarted"
SpawnFailed == "settle"

\* The file portal is configured and starts: without one there is nothing to
\* release.
SpawnRuntime(s) ==
  /\ portal' = [portal EXCEPT ![s] = TRUE]
  /\ \/ /\ Goto(s, {"spawn"}, "waitRuntime")
        /\ proc' = [proc EXCEPT ![s]["runtime"] = "live"]
     \/ Goto(s, {"spawn"}, SpawnFailed) /\ UNCHANGED proc
  /\ UNCHANGED <<world, registry, launch, stopq, printed, declined, image,
                 relay, client, history>>

\* wait_for_child_ready returns the reader.
RuntimeReady(s) ==
  /\ "runtime" \in printed[s]
  /\ Goto(s, {"waitRuntime"}, "attach")
  /\ UNCHANGED <<world, registry, launch, stopq, children, owned, history>>

\* attach_client, then spawn_app_shell; either may fail.
StartShell(s) ==
  /\ \/ /\ host.compositor
        /\ Goto(s, {"attach"}, "settle")
        /\ UNCHANGED <<client, proc>>
     \/ /\ host.compositor => connected
        /\ client' = IF host.compositor
                     THEN [client EXCEPT ![s] = "attached"]
                     ELSE client
        /\ \/ /\ Goto(s, {"attach"}, "waitShell")
              /\ proc' = [proc EXCEPT ![s]["shell"] = "live"]
           \/ Goto(s, {"attach"}, "settle") /\ UNCHANGED proc
  /\ UNCHANGED <<world, registry, launch, stopq, printed, declined, image,
                 relay, portal, history>>

ShellReady(s) ==
  /\ "shell" \in printed[s]
  /\ Goto(s, {"waitShell"}, "publish")
  /\ UNCHANGED <<world, registry, launch, stopq, children, owned, history>>

\* The child whose READY line is awaited.
Awaited(s) == IF sup[s] = "waitRuntime" THEN "runtime" ELSE "shell"

\* Its output ended first; while the app shell is awaited, the exit of the
\* runtime and the end of the relay also end the startup.
StartupFails(s) ==
  /\ \/ proc[s][Awaited(s)] = "exited" /\ Awaited(s) \notin printed[s]
     \/ sup[s] = "waitShell" /\ (proc[s]["runtime"] = "exited" \/ relay[s] = "ended")
  /\ Goto(s, Waiting, "settle")
  /\ UNCHANGED <<world, registry, launch, stopq, children, owned, history>>

\* Any request, or the loss of the sender, ends a startup.
StartupAborted(s) ==
  /\ stopq[s] # <<>> \/ ~sender[s]
  /\ Goto(s, Waiting, "settle")
  /\ stopq' = [stopq EXCEPT ![s] = IF @ = <<>> THEN @ ELSE Tail(@)]
  /\ UNCHANGED <<world, registry, launch, children, owned, history>>

\* READY_TIMEOUT.  The mutant waits for ever.
MutantWaitsForEver(s) == FALSE
ReadyTimeout(s) ==
  /\ Goto(s, Waiting, "settle")
  /\ UNCHANGED <<world, registry, launch, stopq, children, owned, history>>

\* A stop that lost the race with READY is seen here, under the lock.  The
\* mutant publishes whatever READY was.
MutantNeverOvertaken(s) == FALSE
Overtaken(s) == entry[s] = "stopping" \/ stopq[s] # <<>>

Publish(s) ==
  /\ IF Overtaken(s)
     THEN /\ Goto(s, {"publish"}, "settle")
          /\ stopq' = [stopq EXCEPT ![s] =
                         IF entry[s] = "stopping" THEN @ ELSE Tail(@)]
          /\ UNCHANGED <<entry, events>>
     ELSE /\ Goto(s, {"publish"}, "run")
          /\ SetState(s, "running")
          /\ events' = Told(s, "running")
          /\ UNCHANGED stopq
  /\ UNCHANGED <<world, nextId, sender, ipc, launch, children, owned, forced,
                 disowned>>

(***************************************************************************)
(* supervise: the running session, and OwnedSession::close.                *)
(***************************************************************************)
\* A child has exited or the component closed its IPC connection.
Ended(s) == (\E c \in Child : proc[s][c] = "exited") \/ relay[s] = "ended"

RunEnds(s) ==
  /\ Ended(s)
  /\ Goto(s, {"run", "closing"}, "settle")
  /\ UNCHANGED <<world, registry, launch, stopq, children, owned, history>>

\* The request at the head of the stop channel.
Take(s, stop) ==
  /\ stopq[s] # <<>>
  /\ Head(stopq[s]) = stop
  /\ stopq' = [stopq EXCEPT ![s] = Tail(@)]

TakeForce(s) ==
  /\ Take(s, "force")
  /\ Goto(s, {"run", "closing"}, "settle")
  /\ UNCHANGED <<world, registry, launch, children, owned, history>>

\* Reports of earlier closes are dropped; a session whose window cannot be
\* asked (no client, no connection, no room in the queue) settles.
TakeClose(s) ==
  /\ Take(s, "close")
  /\ declined' = [declined EXCEPT ![s] = FALSE]
  /\ \/ /\ client[s] = "attached" /\ connected
        /\ Goto(s, {"run"}, "closing")
     \/ Goto(s, {"run"}, "settle")
  /\ UNCHANGED <<world, registry, launch, proc, printed, owned, history>>

\* Asking again while the application answers changes nothing.
TakeRepeatedClose(s) ==
  /\ sup[s] = "closing"
  /\ Take(s, "close")
  /\ UNCHANGED <<world, registry, launch, sup, children, owned, history>>

\* The sender is gone and the queue drained: recv returns None.
SeeShutdown(s) ==
  /\ ~sender[s] /\ stopq[s] = <<>>
  /\ Goto(s, {"run", "closing"}, "settle")
  /\ UNCHANGED <<world, registry, launch, stopq, children, owned, history>>

\* The application keeps running and its window is brought to the front.
CloseDeclined(s) ==
  /\ declined[s]
  /\ Goto(s, {"closing"}, "run")
  /\ declined' = [declined EXCEPT ![s] = FALSE]
  /\ UNCHANGED <<world, registry, launch, stopq, proc, printed, owned, history>>

\* CLOSE_TIMEOUT.  It runs from the first request: the mutant starts it
\* anew at each repeated one, so it passes only while none is queued.
MutantTimerRestarted(s) == stopq[s] = <<>>
TimerPasses(s) == TRUE

CloseTimeout(s) ==
  /\ TimerPasses(s)
  /\ Goto(s, {"closing"}, "settle")
  /\ UNCHANGED <<world, registry, launch, stopq, children, owned, history>>

(***************************************************************************)
(* settle: every exit path of a session that owns something.               *)
(***************************************************************************)
BeginSettle(s) ==
  /\ Goto(s, {"settle"}, "killShell")
  /\ SetState(s, "stopping")
  /\ events' = StoppingTold(s)
  /\ UNCHANGED <<world, nextId, sender, ipc, launch, stopq, children, owned,
                 forced, disowned>>

\* kill().await returns once the child has been reaped.  The mutant waits for
\* its exit and sends no signal.
MutantWaitsOnly(s, c) == proc[s][c] # "live" /\ UNCHANGED proc
Killed(s, c) ==
  proc' = [proc EXCEPT ![s][c] = IF @ = "live" THEN "exited" ELSE @]

KillShell(s) ==
  /\ Goto(s, {"killShell"}, "killRuntime")
  /\ Killed(s, "shell")
  /\ UNCHANGED <<world, registry, launch, stopq, printed, declined, owned,
                 history>>

\* The mutant sends the signal and does not wait for the exit.
MutantKillUnawaited(s) ==
  /\ Goto(s, {"killRuntime"}, "release")
  /\ UNCHANGED <<world, registry, launch, stopq, children, owned, history>>
KillRuntime(s) ==
  /\ Goto(s, {"killRuntime"}, "release")
  /\ Killed(s, "runtime")
  /\ UNCHANGED <<world, registry, launch, stopq, printed, declined, owned,
                 history>>

\* AppSurfaceDestroyed (which a full or closed queue loses), then the image,
\* the portal and the relay.
Release(s) ==
  /\ Goto(s, {"release"}, "finish")
  /\ \E c \in {"released", "leaked"} :
       client' = [client EXCEPT ![s] = IF @ = "attached" THEN c ELSE @]
  /\ image' = [image EXCEPT ![s] = IF @ = "mounted" THEN "released" ELSE @]
  /\ portal' = [portal EXCEPT ![s] = FALSE]
  /\ relay' = [relay EXCEPT ![s] = "dropped"]
  /\ UNCHANGED <<world, registry, launch, stopq, children, history>>

\* One critical section ends the session for every client at once; the stop
\* channel goes with the supervisor.
Stopped(s) ==
  /\ SetState(s, "stopped")
  /\ sender' = [sender EXCEPT ![s] = FALSE]
  /\ stopq' = [stopq EXCEPT ![s] = <<>>]
  /\ events' = Told(s, "stopped")

FinishSettle(s) ==
  /\ Goto(s, {"finish"}, "done")
  /\ ipc' = [ipc EXCEPT ![s] = FALSE]
  /\ Stopped(s)
  /\ UNCHANGED <<world, nextId, launch, children, owned, forced, disowned>>

\* stop_unstarted: the session never owned more than its image.
StopUnstarted(s) ==
  /\ Goto(s, {"unstarted"}, "done")
  /\ image' = [image EXCEPT ![s] = IF @ = "mounted" THEN "released" ELSE @]
  /\ Stopped(s)
  /\ UNCHANGED <<world, nextId, ipc, launch, children, relay, portal, client,
                 forced, disowned>>

(***************************************************************************)
(* The children, the component and the compositor connection.              *)
(***************************************************************************)
PrintReady(s, c) ==
  /\ proc[s][c] = "live"
  /\ c \notin printed[s]
  /\ printed' = [printed EXCEPT ![s] = @ \cup {c}]
  /\ UNCHANGED <<world, registry, launch, sup, stopq, proc, declined, owned,
                 history>>

Exits(s, c) ==
  /\ proc[s][c] = "live"
  /\ proc' = [proc EXCEPT ![s][c] = "exited"]
  /\ UNCHANGED <<world, registry, launch, sup, stopq, printed, declined, owned,
                 history>>

\* The app shell reports a declined close; the user may have started that
\* close in the compositor.  One pending report is enough.
Declines(s) ==
  /\ sup[s] \in {"publish", "run", "closing"}
  /\ proc[s]["shell"] = "live"
  /\ declined' = [declined EXCEPT ![s] = TRUE]
  /\ UNCHANGED <<world, registry, launch, sup, stopq, proc, printed, owned,
                 history>>

\* The component's side of the relay's one connection is closed, or the
\* relay gives up on what it sent.
RelayEnds(s) ==
  /\ relay[s] = "open"
  /\ proc[s]["runtime"] # "none"
  /\ relay' = [relay EXCEPT ![s] = "ended"]
  /\ UNCHANGED <<world, registry, launch, sup, stopq, children, image, portal,
                 client, history>>

Connection ==
  /\ host.compositor
  /\ connected' = ~connected
  /\ UNCHANGED <<host, draining, registry, launch, sup, stopq, children, owned,
                 history>>

-----------------------------------------------------------------------------
Dispatch(s) ==
  RegisterAbort(s) \/ AckLaunch(s) \/ StopUnresolved(s) \/ TellUnresolved(s)

\* What a supervisor does without waiting for a timer.
Supervise(s) ==
  \/ OpenRelay(s) \/ SpawnRuntime(s) \/ RuntimeReady(s) \/ StartShell(s)
  \/ ShellReady(s) \/ StartupFails(s) \/ StartupAborted(s) \/ Publish(s)
  \/ RunEnds(s) \/ TakeForce(s) \/ TakeClose(s) \/ TakeRepeatedClose(s)
  \/ SeeShutdown(s) \/ CloseDeclined(s)
  \/ BeginSettle(s) \/ KillShell(s) \/ KillRuntime(s) \/ Release(s)
  \/ FinishSettle(s) \/ StopUnstarted(s)

Environment(s) ==
  \/ \E stop \in Stop : StopSupervised(s, stop)
  \/ StopUnsupervised(s)
  \/ ForwardToEndedRelay(s)
  \/ \E c \in Child : PrintReady(s, c) \/ Exits(s, c)
  \/ Declines(s)
  \/ RelayEnds(s)

Next ==
  \/ Launch
  \/ ShutdownAll
  \/ Connection
  \/ \E s \in Session :
       \/ Dispatch(s) \/ Supervise(s) \/ Environment(s)
       \/ ReadyTimeout(s) \/ CloseTimeout(s)

\* The executor runs a task that can go on, and a timer that is due fires
\* even while the task it belongs to has other work.  Nothing is assumed of
\* clients, children and the compositor.
Fairness(s) ==
  /\ WF_vars(Dispatch(s))
  /\ WF_vars(Supervise(s))
  /\ WF_vars(ReadyTimeout(s))
  /\ WF_vars(CloseTimeout(s))

Spec == Init /\ [][Next]_vars
FairSpec == Spec /\ \A s \in Session : Fairness(s)

(***************************************************************************)
(* Properties.                                                             *)
(***************************************************************************)
ForceQueued(s) == \E i \in DOMAIN stopq[s] : stopq[s][i] = "force"

\* "a forced request always finds room": an accepted forced stop is queued
\* until the supervisor is past listening, whatever was queued before it and
\* however many closes are asked for (terminate, Stop::Close and Stop::Force).
ForcedStopPending ==
  \A s \in forced : sup[s] \in Listening => ForceQueued(s)

\* No client is told that an application is ready after it was told that the
\* session stops: a stop that races READY wins (the check under the lock in
\* supervise).
NoReadyAfterStop ==
  \A s \in Session \ disowned : \A i, j \in DOMAIN events[s] :
    events[s][i] \in {"stopping", "stopped"} /\ events[s][j] = "running" => j < i

Latest(s, e) ==
  \E i \in DOMAIN events[s] :
    events[s][i] = e /\ \A j \in DOMAIN events[s] : j > i => events[s][j] = "ack"

\* A client that follows the broadcasts knows what a query would answer: the
\* latest state broadcast for a supervised session is its registered state,
\* though four different tasks change the one and send the other.
BroadcastMatchesRegistry ==
  \A s \in Session \ disowned :
    sup[s] # "none" =>
      /\ entry[s] = "starting" => \A i \in DOMAIN events[s] : events[s][i] = "ack"
      /\ \A st \in {"running", "stopping", "stopped"} :
           entry[s] = st => Latest(s, st)

\* Every exit path of a supervisor releases everything the session owned:
\* children, relay and its registered sender, portal, compositor client,
\* image and stop sender (OwnedSession, settle, stop_unstarted).
ReleasedWhenDone ==
  \A s \in Session :
    sup[s] = "done" =>
      /\ ~Live(s)
      /\ relay[s] \in {"none", "dropped"} /\ ~portal[s]
      /\ image[s] # "mounted"
      /\ client[s] # "attached"
      /\ ~ipc[s] /\ ~sender[s]

\* The package image is "released after both children have exited".
ImageOutlivesChildren ==
  \A s \in Session : image[s] = "released" => ~Live(s)

\* A forced stop ends the session whatever the application does, though it
\* may decline every close (architecture.md, Closing an application).
ForceSettles ==
  \A s \in Session : s \in forced /\ sup[s] \in Listening ~> sup[s] = "done"

\* Every startup ends: the session runs or its supervisor is done.
StartupEnds ==
  \A s \in Session : sup[s] = "open" ~> sup[s] \in {"run", "done"}

\* A close asked for is answered, declined or timed out, also while further
\* closes keep arriving ("asking again changes nothing").
CloseEnds ==
  \A s \in Session : sup[s] = "closing" ~> sup[s] # "closing"

\* No supervisor waits for ever for what may not come.
WaitsEnd == StartupEnds /\ CloseEnds

\* The states clients see implement the abstract life of a session.
Shown(s) ==
  CASE s > nextId          -> "absent"
    [] s \in disowned      -> "disowned"
    [] s \notin disowned /\ s <= nextId /\ entry[s] = "none" -> "forgotten"
    [] OTHER               -> entry[s]

Lifecycle == INSTANCE SessionLifecycle
               WITH state   <- [s \in Session |-> Shown(s)],
                    working <- [s \in Session |-> Live(s)]

\* Every step of appd is a step of the abstract life of a session: Stopped
\* is shown only once no child is left, states never go back, and only
\* stopped sessions are forgotten.
ImplementsLifecycle == Lifecycle!Safety

\* A session shown as stopping stops.
StopsSettle == Lifecycle!StopsSettle

\* A stop that was accepted ends in a stopped session.
StopsEnd == ForceSettles /\ StopsSettle

\* What the comment in terminate says of a session without a stop sender:
\* "A session no supervisor runs has nothing to settle", so that a client
\* told Stopped is told the truth.
StoppedReplyIsTrue ==
  \A s \in disowned : ~draining => sup[s] \in {"none", "done"}

\* What the system UI relies on to keep an entry only "until it has
\* stopped": the acknowledgement of a launch is not broadcast after the
\* session has stopped.
NoAckAfterStop ==
  \A s \in Session : \A i, j \in DOMAIN events[s] :
    events[s][i] = "stopped" /\ events[s][j] = "ack" => j < i
=============================================================================
