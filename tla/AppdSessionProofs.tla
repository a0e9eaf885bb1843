-------------------------- MODULE AppdSessionProofs --------------------------
(***************************************************************************)
(* Proofs about AppdSession for every number of sessions, every stop queue *)
(* of at least two places and every number of kept final states.           *)
(***************************************************************************)
EXTENDS AppdSession, TLAPS

\* What taking a request from a stop channel leaves.
LEMMA TailFacts ==
  ASSUME NEW S, NEW q \in Seq(S), q # <<>>
  PROVE  /\ Tail(q) \in Seq(S)
         /\ Len(q) \in Nat \ {0} /\ Len(Tail(q)) = Len(q) - 1
         /\ \A i \in DOMAIN Tail(q) : Tail(q)[i] = q[i + 1] /\ i + 1 \in DOMAIN q
OBVIOUS

\* The updates the actions are built from keep the types of what they update.
LEMMA UpdateTypes ==
  ASSUME TypeOK, NEW s \in Session
  PROVE  /\ \A st \in EntryState : SetState(s, st) => entry' \in [Session -> EntryState]
         /\ \A e \in Event : Told(s, e) \in [Session -> Seq(Event)]
         /\ StoppingTold(s) \in [Session -> Seq(Event)]
         /\ \A c \in Child, v \in {"none", "live", "exited"} :
              [proc EXCEPT ![s][c] = v] \in [Session -> [Child -> {"none", "live", "exited"}]]
         /\ \A c \in Child :
              Killed(s, c) => proc' \in [Session -> [Child -> {"none", "live", "exited"}]]
<1>1. ASSUME NEW e \in Event
      PROVE  Told(s, e) \in [Session -> Seq(Event)]
  BY DEF Told, TypeOK
<1>2. StoppingTold(s) \in [Session -> Seq(Event)]
  BY <1>1 DEF StoppingTold, Event, TypeOK
<1>3. ASSUME NEW st \in EntryState, SetState(s, st)
      PROVE  entry' \in [Session -> EntryState]
  BY <1>3 DEF SetState, TypeOK, EntryState
<1>4. ASSUME NEW c \in Child, NEW v \in {"none", "live", "exited"}
      PROVE  [proc EXCEPT ![s][c] = v] \in [Session -> [Child -> {"none", "live", "exited"}]]
  BY DEF TypeOK
<1>5. ASSUME NEW c \in Child, Killed(s, c)
      PROVE  proc' \in [Session -> [Child -> {"none", "live", "exited"}]]
  BY <1>5 DEF TypeOK, Killed
<1>6. QED
  BY <1>1, <1>2, <1>3, <1>4, <1>5

\* The stop channel after a try_send and after a recv.
LEMMA ChannelTypes ==
  ASSUME TypeOK, NEW s \in Session
  PROVE  /\ \A m \in Stop : /\ Queued(s, m) \in [Session -> Seq(Stop)]
                            /\ \A t \in Session : Len(Queued(s, m)[t]) <= StopQueue
         /\ \A q : stopq[s] # <<>> /\ q = [stopq EXCEPT ![s] = Tail(stopq[s])] =>
                 /\ q \in [Session -> Seq(Stop)]
                 /\ \A t \in Session : Len(q[t]) <= StopQueue
<1>1. ASSUME NEW m \in Stop
      PROVE  /\ Queued(s, m) \in [Session -> Seq(Stop)]
             /\ \A t \in Session : Len(Queued(s, m)[t]) <= StopQueue
  BY QueueAssumption DEF Queued, TypeOK
<1>2. ASSUME stopq[s] # <<>>
      PROVE  LET q == [stopq EXCEPT ![s] = Tail(stopq[s])]
             IN /\ q \in [Session -> Seq(Stop)]
                /\ \A t \in Session : Len(q[t]) <= StopQueue
  <2>1. /\ Tail(stopq[s]) \in Seq(Stop)
        /\ Len(stopq[s]) \in Nat /\ Len(Tail(stopq[s])) = Len(stopq[s]) - 1
    BY <1>2, TailFacts DEF TypeOK
  <2>2. QED
    BY <2>1, QueueAssumption DEF TypeOK
<1>3. QED
  BY <1>1, <1>2

\* The stop channel that is gone with its supervisor.
LEMMA EmptyChannel ==
  ASSUME TypeOK, NEW s \in Session, stopq' = [stopq EXCEPT ![s] = <<>>]
  PROVE  /\ stopq' \in [Session -> Seq(Stop)]
         /\ \A t \in Session : Len(stopq'[t]) <= StopQueue
<1>1. <<>> \in Seq(Stop) /\ Len(<<>>) = 0
  OBVIOUS
<1>2. QED
  BY <1>1, QueueAssumption DEF TypeOK

\* The critical section that ends a session.
LEMMA StoppedTypes ==
  ASSUME TypeOK, NEW s \in Session, Stopped(s)
  PROVE  /\ entry' \in [Session -> EntryState]
         /\ sender' \in [Session -> BOOLEAN]
         /\ stopq' \in [Session -> Seq(Stop)]
         /\ \A t \in Session : Len(stopq'[t]) <= StopQueue
         /\ events' \in [Session -> Seq(Event)]
<1>1. SetState(s, "stopped") /\ events' = Told(s, "stopped")
  BY DEF Stopped
<1>2. entry' \in [Session -> EntryState] /\ events' \in [Session -> Seq(Event)]
  BY <1>1, UpdateTypes DEF EntryState, Event
<1>3. stopq' = [stopq EXCEPT ![s] = <<>>]
  BY DEF Stopped
<1>4. sender' \in [Session -> BOOLEAN]
  BY DEF Stopped, TypeOK
<1>5. QED
  BY <1>2, <1>3, <1>4, EmptyChannel

\* Every action of a session preserves the type invariant.
LEMMA ActionType ==
  ASSUME TypeOK, NEW s \in Session,
         \/ Dispatch(s) \/ Supervise(s) \/ Environment(s)
         \/ ReadyTimeout(s) \/ CloseTimeout(s)
  PROVE  TypeOK'
<1> USE DEF TypeOK, Child, Stop, EntryState, LaunchStep, Waiting, Listening, Settling,
            SupStep, Event, world, registry, children, owned, history, Goto
<1>1. CASE RegisterAbort(s)
  <2>1. /\ sender' \in [Session -> BOOLEAN]
        /\ launch' \in [Session -> LaunchStep]
        /\ sup' \in [Session -> SupStep]
    <3>1. /\ sender' = [sender EXCEPT ![s] = TRUE]
          /\ launch' \in {[launch EXCEPT ![s] = "spawned"],
                         [launch EXCEPT ![s] = "unresolved"]}
          /\ sup' \in {sup, [sup EXCEPT ![s] = "open"]}
      BY <1>1 DEF RegisterAbort
    <3>2. sender' \in [Session -> BOOLEAN]
      BY <3>1
    <3>3. launch' \in [Session -> LaunchStep]
      BY <3>1, ZenonT(60)
    <3>4. sup' \in [Session -> SupStep]
      BY <3>1, ZenonT(60)
    <3>5. QED
      BY <3>2, <3>3, <3>4
  <2>2. UNCHANGED <<world, nextId, entry, ipc, stopq, children, owned, history>>
    BY <1>1 DEF RegisterAbort
  <2>3. QED
    BY <2>1, <2>2
<1>2. CASE AckLaunch(s)
  BY <1>2, UpdateTypes DEF AckLaunch
<1>3. CASE StopUnresolved(s)
  BY <1>3, UpdateTypes DEF StopUnresolved
<1>4. CASE TellUnresolved(s)
  <2>1. events' \in [Session -> Seq(Event)]
    BY <1>4, UpdateTypes DEF TellUnresolved
  <2>2. /\ launch' \in [Session -> LaunchStep]
        /\ stopq' \in [Session -> Seq(Stop)]
        /\ \A t \in Session : Len(stopq'[t]) <= StopQueue
    BY <1>4, EmptyChannel DEF TellUnresolved
  <2>3. UNCHANGED <<world, registry, sup, children, owned, forced, disowned>>
    BY <1>4 DEF TellUnresolved
  <2>4. QED
    BY <2>1, <2>2, <2>3
<1>5. CASE OpenRelay(s)
  <2>1. CASE sup' = [sup EXCEPT ![s] = "spawn"] /\ relay' = [relay EXCEPT ![s] = "open"]
             /\ ipc' = [ipc EXCEPT ![s] = TRUE]
    BY <1>5, <2>1 DEF OpenRelay
  <2>2. CASE sup' = [sup EXCEPT ![s] = "unstarted"] /\ UNCHANGED <<relay, ipc>>
    BY <1>5, <2>2 DEF OpenRelay
  <2>3. QED
    BY <1>5, <2>1, <2>2 DEF OpenRelay
<1>6. CASE SpawnRuntime(s)
  <2>1. /\ sup' \in [Session -> SupStep]
        /\ portal' \in [Session -> BOOLEAN]
    BY <1>6, ZenonT(60) DEF SpawnRuntime, SpawnFailed
  <2>4. proc' \in [Session -> [Child -> {"none", "live", "exited"}]]
    <3>1. CASE UNCHANGED proc
      BY <3>1
    <3>2. CASE proc' = [proc EXCEPT ![s]["runtime"] = "live"]
      BY <3>2, UpdateTypes
    <3>3. QED
      BY <1>6, <3>1, <3>2 DEF SpawnRuntime
  <2>2. UNCHANGED <<world, registry, launch, stopq, printed, declined, image,
                    relay, client, history>>
    BY <1>6 DEF SpawnRuntime
  <2>3. QED
    BY <2>1, <2>2, <2>4
<1>7. CASE RuntimeReady(s)
  BY <1>7 DEF RuntimeReady
<1>8. CASE StartShell(s)
  <2>1. sup' \in [Session -> SupStep]
    <3>1. \E to \in {"settle", "waitShell"} : Goto(s, {"attach"}, to)
      BY <1>8 DEF StartShell
    <3>2. QED
      BY <3>1
  <2>5. client' \in [Session -> {"none", "attached", "released", "leaked"}]
    <3>1. client' \in {client, [client EXCEPT ![s] = "attached"]}
      BY <1>8 DEF StartShell
    <3>2. QED
      BY <3>1, ZenonT(60)
  <2>2. proc' \in [Session -> [Child -> {"none", "live", "exited"}]]
    <3>1. CASE UNCHANGED proc
      BY <3>1
    <3>2. CASE proc' = [proc EXCEPT ![s]["shell"] = "live"]
      BY <3>2, UpdateTypes
    <3>3. QED
      BY <1>8, <3>1, <3>2 DEF StartShell
  <2>3. UNCHANGED <<world, registry, launch, stopq, printed, declined, image,
                    relay, portal, history>>
    BY <1>8 DEF StartShell
  <2>4. QED
    BY <2>1, <2>2, <2>3, <2>5
<1>9. CASE ShellReady(s)
  BY <1>9 DEF ShellReady
<1>10. CASE StartupFails(s)
  BY <1>10 DEF StartupFails
<1>11. CASE StartupAborted(s)
  BY <1>11, ChannelTypes, ZenonT(60) DEF StartupAborted
<1>12. CASE Publish(s)
  <2>1. UNCHANGED <<world, nextId, sender, ipc, launch, children, owned, forced,
                    disowned>>
    BY <1>12 DEF Publish
  <2>2. CASE Overtaken(s)
    <3>1. /\ stopq' \in [Session -> Seq(Stop)]
          /\ \A t \in Session : Len(stopq'[t]) <= StopQueue
      <4>1. CASE entry[s] = "stopping"
        <5>1. stopq' = stopq
          BY <1>12, <2>2, <4>1 DEF Publish
        <5>2. QED
          BY <5>1
      <4>2. CASE entry[s] # "stopping"
        <5>1. stopq[s] # <<>> /\ stopq' = [stopq EXCEPT ![s] = Tail(stopq[s])]
          BY <1>12, <2>2, <4>2 DEF Publish, Overtaken
        <5>2. QED
          BY <5>1, ChannelTypes
      <4>3. QED
        BY <4>1, <4>2
    <3>2. sup' \in [Session -> SupStep] /\ UNCHANGED <<entry, events>>
      BY <1>12, <2>2, ZenonT(60) DEF Publish
    <3>3. QED
      BY <2>1, <3>1, <3>2
  <2>3. CASE ~Overtaken(s)
    <3>1. SetState(s, "running") /\ events' = Told(s, "running")
      BY <1>12, <2>3 DEF Publish
    <3>2. entry' \in [Session -> EntryState] /\ events' \in [Session -> Seq(Event)]
      BY <3>1, UpdateTypes
    <3>3. sup' \in [Session -> SupStep] /\ UNCHANGED stopq
      BY <1>12, <2>3, ZenonT(60) DEF Publish
    <3>4. QED
      BY <2>1, <3>2, <3>3
  <2>4. QED
    BY <2>2, <2>3
<1>13. CASE RunEnds(s)
  BY <1>13 DEF RunEnds
<1>14. CASE TakeForce(s)
  BY <1>14, ChannelTypes DEF TakeForce, Take
<1>15. CASE TakeClose(s)
  <2>1. /\ stopq' \in [Session -> Seq(Stop)]
        /\ \A t \in Session : Len(stopq'[t]) <= StopQueue
    BY <1>15, ChannelTypes DEF TakeClose, Take
  <2>2. sup' \in [Session -> SupStep] /\ declined' \in [Session -> BOOLEAN]
    BY <1>15, ZenonT(60) DEF TakeClose
  <2>3. UNCHANGED <<world, registry, launch, proc, printed, owned, history>>
    BY <1>15 DEF TakeClose
  <2>4. QED
    BY <2>1, <2>2, <2>3
<1>16. CASE TakeRepeatedClose(s)
  BY <1>16, ChannelTypes DEF TakeRepeatedClose, Take
<1>17. CASE SeeShutdown(s)
  BY <1>17 DEF SeeShutdown
<1>18. CASE CloseDeclined(s)
  BY <1>18 DEF CloseDeclined
<1>19. CASE BeginSettle(s)
  BY <1>19, UpdateTypes DEF BeginSettle
<1>20. CASE KillShell(s)
  BY <1>20, UpdateTypes DEF KillShell
<1>21. CASE KillRuntime(s)
  BY <1>21, UpdateTypes DEF KillRuntime
<1>22. CASE Release(s)
  BY <1>22 DEF Release
<1>23. CASE FinishSettle(s)
  <2>1. /\ sup' \in [Session -> SupStep]
        /\ ipc' \in [Session -> BOOLEAN]
    BY <1>23 DEF FinishSettle
  <2>2. /\ entry' \in [Session -> EntryState]
        /\ sender' \in [Session -> BOOLEAN]
        /\ stopq' \in [Session -> Seq(Stop)]
        /\ \A t \in Session : Len(stopq'[t]) <= StopQueue
        /\ events' \in [Session -> Seq(Event)]
    BY <1>23, StoppedTypes DEF FinishSettle
  <2>3. UNCHANGED <<world, nextId, launch, children, owned, forced, disowned>>
    BY <1>23 DEF FinishSettle
  <2>4. QED
    BY <2>1, <2>2, <2>3
<1>24. CASE StopUnstarted(s)
  <2>1. /\ sup' \in [Session -> SupStep]
        /\ image' \in [Session -> {"none", "mounted", "released"}]
    BY <1>24 DEF StopUnstarted
  <2>2. /\ entry' \in [Session -> EntryState]
        /\ sender' \in [Session -> BOOLEAN]
        /\ stopq' \in [Session -> Seq(Stop)]
        /\ \A t \in Session : Len(stopq'[t]) <= StopQueue
        /\ events' \in [Session -> Seq(Event)]
    BY <1>24, StoppedTypes DEF StopUnstarted
  <2>3. UNCHANGED <<world, nextId, ipc, launch, children, relay, portal, client,
                    forced, disowned>>
    BY <1>24 DEF StopUnstarted
  <2>4. QED
    BY <2>1, <2>2, <2>3
<1>25. ASSUME NEW stop \in Stop, StopSupervised(s, stop)
       PROVE  TypeOK'
  <2>1. /\ stopq' \in [Session -> Seq(Stop)]
        /\ \A t \in Session : Len(stopq'[t]) <= StopQueue
    BY <1>25, ChannelTypes DEF StopSupervised
  <2>2. /\ entry' \in [Session -> EntryState]
        /\ events' \in [Session -> Seq(Event)]
        /\ forced' \in SUBSET Session
    <3>1. CASE UNCHANGED <<entry, events>>
      BY <1>25, <3>1 DEF StopSupervised
    <3>2. CASE SetState(s, "stopping") /\ events' = StoppingTold(s)
      <4>1. entry' \in [Session -> EntryState] /\ events' \in [Session -> Seq(Event)]
        BY <3>2, UpdateTypes
      <4>2. forced' \in SUBSET Session
        BY <1>25 DEF StopSupervised
      <4>3. QED
        BY <4>1, <4>2
    <3>3. QED
      BY <1>25, <3>1, <3>2 DEF StopSupervised
  <2>3. UNCHANGED <<world, nextId, sender, ipc, launch, sup, children, owned,
                    disowned>>
    BY <1>25 DEF StopSupervised
  <2>4. QED
    BY <2>1, <2>2, <2>3
<1>26. CASE StopUnsupervised(s)
  BY <1>26, UpdateTypes, ZenonT(60) DEF StopUnsupervised
<1>27. CASE ForwardToEndedRelay(s)
  BY <1>27 DEF ForwardToEndedRelay
<1>28. ASSUME NEW c \in Child, PrintReady(s, c)
       PROVE  TypeOK'
  BY <1>28 DEF PrintReady
<1>29. ASSUME NEW c \in Child, Exits(s, c)
       PROVE  TypeOK'
  BY <1>29, UpdateTypes DEF Exits
<1>30. CASE Declines(s)
  BY <1>30 DEF Declines
<1>31. CASE RelayEnds(s)
  BY <1>31 DEF RelayEnds
<1>32. CASE ReadyTimeout(s)
  BY <1>32 DEF ReadyTimeout
<1>33. CASE CloseTimeout(s)
  BY <1>33 DEF CloseTimeout
<1>34. QED
  BY <1>1, <1>2, <1>3, <1>4, <1>5, <1>6, <1>7, <1>8, <1>9, <1>10, <1>11, <1>12,
     <1>13, <1>14, <1>15, <1>16, <1>17, <1>18, <1>19, <1>20, <1>21, <1>22, <1>23,
     <1>24, <1>25, <1>26, <1>27, <1>28, <1>29, <1>30, <1>31, <1>32, <1>33
  DEF Dispatch, Supervise, Environment

\* A launch keeps the types.
LEMMA LaunchType ==
  ASSUME TypeOK, Launch
  PROVE  TypeOK'
<1> DEFINE s == nextId + 1
<1>1. s \in Session /\ nextId' = s
  BY BoundAssumption DEF Launch, TypeOK, Session
<1>2. entry' = [t \in Session |-> CASE t = s         -> "starting"
                                     [] t \in Pruned  -> "none"
                                     [] OTHER         -> entry[t]]
  BY DEF Launch
<1>3. entry' \in [Session -> EntryState]
  BY <1>2 DEF TypeOK, EntryState
<1>4. /\ launch' = [launch EXCEPT ![s] = "inserted"]
      /\ image' = [image EXCEPT ![s] = IF host.runtime THEN "mounted" ELSE @]
  BY DEF Launch
<1>5. /\ launch' \in [Session -> LaunchStep]
      /\ image' \in [Session -> {"none", "mounted", "released"}]
  BY <1>1, <1>4 DEF TypeOK, LaunchStep
<1>6. nextId' \in 0 .. MaxSessions
  BY <1>1, BoundAssumption DEF Session
<1>7. UNCHANGED <<world, sender, ipc, sup, stopq, children, relay, portal,
                  client, history>>
  BY DEF Launch
<1>8. QED
  BY <1>3, <1>5, <1>6, <1>7 DEF TypeOK, world, children, history

LEMMA InitType ==
  ASSUME Init
  PROVE  TypeOK
<1>6. /\ host \in [runtime : BOOLEAN, compositor : BOOLEAN]
      /\ connected \in BOOLEAN /\ draining \in BOOLEAN
      /\ nextId \in 0 .. MaxSessions
  <2>1. host \in [runtime : BOOLEAN, compositor : BOOLEAN]
    BY DEF Init
  <2>2. connected \in BOOLEAN
    BY <2>1 DEF Init
  <2>3. nextId \in 0 .. MaxSessions
    BY BoundAssumption DEF Init
  <2>4. draining \in BOOLEAN
    BY DEF Init
  <2>5. QED
    BY <2>1, <2>2, <2>3, <2>4
<1>1. /\ sender \in [Session -> BOOLEAN] /\ ipc \in [Session -> BOOLEAN]
      /\ declined \in [Session -> BOOLEAN] /\ portal \in [Session -> BOOLEAN]
      /\ forced \in SUBSET Session /\ disowned \in SUBSET Session
  BY DEF Init
<1>2. /\ entry \in [Session -> EntryState]
      /\ launch \in [Session -> LaunchStep]
      /\ sup \in [Session -> SupStep]
  BY DEF Init, EntryState, LaunchStep, SupStep
<1>3. /\ stopq \in [Session -> Seq(Stop)]
      /\ \A s \in Session : Len(stopq[s]) <= StopQueue
      /\ events \in [Session -> Seq(Event)]
  BY QueueAssumption DEF Init
<1>4. /\ proc \in [Session -> [Child -> {"none", "live", "exited"}]]
      /\ printed \in [Session -> SUBSET Child]
      /\ image \in [Session -> {"none", "mounted", "released"}]
      /\ relay \in [Session -> {"none", "open", "ended", "dropped"}]
      /\ client \in [Session -> {"none", "attached", "released", "leaked"}]
  BY DEF Init
<1>5. QED
  BY <1>1, <1>2, <1>3, <1>4, <1>6 DEF TypeOK

LEMMA NextType ==
  ASSUME TypeOK, [Next]_vars
  PROVE  TypeOK'
<1>1. CASE Launch
  BY <1>1, LaunchType
<1>2. CASE ShutdownAll
  BY <1>2 DEF ShutdownAll, TypeOK, registry, children, owned, history
<1>3. CASE Connection
  BY <1>3 DEF Connection, TypeOK, registry, children, owned, history
<1>4. ASSUME NEW s \in Session,
             \/ Dispatch(s) \/ Supervise(s) \/ Environment(s)
             \/ ReadyTimeout(s) \/ CloseTimeout(s)
      PROVE  TypeOK'
  BY <1>4, ActionType
<1>5. CASE UNCHANGED vars
  BY <1>5 DEF vars, TypeOK
<1>6. QED
  BY <1>1, <1>2, <1>3, <1>4, <1>5 DEF Next

\* appd is always in a state of the declared types.
THEOREM TypeCorrect == Spec => []TypeOK
<1>1. Init => TypeOK
  BY InitType
<1>2. TypeOK /\ [Next]_vars => TypeOK'
  BY NextType
<1>3. QED
  BY <1>1, <1>2, PTL DEF Spec

-----------------------------------------------------------------------------
(***************************************************************************)
(* A forced stop is pending until its supervisor no longer listens.        *)
(*                                                                         *)
(* ForcedStopPending alone is not inductive: a full queue has to hold a    *)
(* force already, and a session must not begin listening with a force that *)
(* was accepted before.                                                    *)
(***************************************************************************)
\* A close is only ever at the head of a stop channel.
CloseOnlyFirst ==
  \A s \in Session : \A i \in DOMAIN stopq[s] : i >= 2 => stopq[s][i] = "force"

\* A stop sender exists, and a forced stop is accepted, only once the launch
\* has registered the sender, and only with a runtime is a session supervised.
StopNeedsLaunch ==
  \A s \in Session :
    /\ s > nextId => launch[s] = "idle"
    /\ launch[s] \in {"idle", "inserted"} => ~sender[s] /\ s \notin forced
    /\ launch[s] \in {"unresolved", "stopNow", "tell"} => ~host.runtime
    /\ s \in forced => host.runtime

StopInv == TypeOK /\ CloseOnlyFirst /\ StopNeedsLaunch /\ ForcedStopPending

\* A step that leaves the stop channels alone, and moves a supervisor only
\* while it listens or to where it does not, keeps the invariant.
LEMMA QuietStep ==
  ASSUME StopInv, TypeOK', UNCHANGED <<host, nextId, launch, sender, stopq, forced>>,
         \A t \in Session : sup'[t] \in Listening => sup[t] \in Listening
  PROVE  StopInv'
<1>1. CloseOnlyFirst'
  BY DEF StopInv, CloseOnlyFirst
<1>2. StopNeedsLaunch'
  BY DEF StopInv, StopNeedsLaunch
<1>3. ForcedStopPending'
  <2>1. forced' \in SUBSET Session
    BY DEF TypeOK
  <2>2. QED
    BY <2>1 DEF StopInv, ForcedStopPending, ForceQueued
<1>4. QED
  BY <1>1, <1>2, <1>3 DEF StopInv

\* A step that changes the stop channel of one session.
LEMMA ChannelStep ==
  ASSUME StopInv, TypeOK', NEW s \in Session,
         UNCHANGED <<host, nextId, launch, sup>>,
         \A t \in Session : sender'[t] => sender[t],
         \A t \in Session \ {s} : stopq'[t] = stopq[t] /\ (t \in forced' => t \in forced),
         s \in forced' => s \in forced \/ (sender[s] /\ host.runtime),
         \A i \in DOMAIN stopq'[s] : i >= 2 => stopq'[s][i] = "force",
         s \in forced' /\ sup[s] \in Listening => ForceQueued(s)'
  PROVE  StopInv'
<1>1. CloseOnlyFirst'
  BY DEF StopInv, CloseOnlyFirst
<1>2. StopNeedsLaunch'
  BY DEF StopInv, StopNeedsLaunch
<1>3. ForcedStopPending'
  <2>1. forced' \in SUBSET Session
    BY DEF TypeOK
  <2>2. QED
    BY <2>1 DEF StopInv, ForcedStopPending, ForceQueued
<1>4. QED
  BY <1>1, <1>2, <1>3 DEF StopInv

\* A step after which the supervisor of a session listens no longer; its stop
\* channel may go, or lose its head.
LEMMA LastStep ==
  ASSUME StopInv, TypeOK', NEW s \in Session,
         UNCHANGED <<host, nextId, launch, forced>>,
         \A t \in Session : sender'[t] => sender[t],
         \A t \in Session \ {s} : stopq'[t] = stopq[t] /\ sup'[t] = sup[t],
         sup'[s] \notin Listening,
         \A i \in DOMAIN stopq'[s] : i >= 2 => stopq'[s][i] = "force"
  PROVE  StopInv'
<1>1. CloseOnlyFirst'
  BY DEF StopInv, CloseOnlyFirst
<1>2. StopNeedsLaunch'
  BY DEF StopInv, StopNeedsLaunch
<1>3. ForcedStopPending'
  <2>1. forced' \in SUBSET Session
    BY DEF TypeOK
  <2>2. QED
    BY <2>1 DEF StopInv, ForcedStopPending, ForceQueued
<1>4. QED
  BY <1>1, <1>2, <1>3 DEF StopInv

\* What is left after the head of a stop channel is taken.
LEMMA TakenHead ==
  ASSUME StopInv, NEW s \in Session, stopq[s] # <<>>
  PROVE  /\ \A i \in DOMAIN Tail(stopq[s]) : Tail(stopq[s])[i] = "force"
         /\ s \in forced /\ sup[s] \in Listening /\ Head(stopq[s]) = "close" =>
              \E i \in DOMAIN Tail(stopq[s]) : Tail(stopq[s])[i] = "force"
<1> DEFINE q == stopq[s]
<1>1. /\ q \in Seq(Stop)
      /\ \A i \in DOMAIN q : i >= 2 => q[i] = "force"
  BY DEF StopInv, TypeOK, CloseOnlyFirst
<1>2. \A i \in DOMAIN Tail(q) : Tail(q)[i] = "force"
  BY <1>1, TailFacts
<1>3. ASSUME NEW i \in DOMAIN q, q[i] = "force", Head(q) = "close"
      PROVE  \E j \in DOMAIN Tail(q) : Tail(q)[j] = "force"
  <2>1. i # 1 /\ i \in 1 .. Len(q) /\ Len(q) \in Nat
    BY <1>1, <1>3
  <2>2. i - 1 \in DOMAIN Tail(q)
    BY <1>1, <2>1
  <2>3. QED
    BY <1>2, <2>2
<1>4. s \in forced /\ sup[s] \in Listening => \E i \in DOMAIN q : q[i] = "force"
  BY DEF StopInv, ForcedStopPending, ForceQueued
<1>5. QED
  BY <1>2, <1>3, <1>4

LEMMA StopAction ==
  ASSUME StopInv, TypeOK', NEW s \in Session,
         \/ Dispatch(s) \/ Supervise(s) \/ Environment(s)
         \/ ReadyTimeout(s) \/ CloseTimeout(s)
  PROVE  StopInv'
<1> TypeOK
  BY DEF StopInv
<1>1. CASE OpenRelay(s)
  BY <1>1, QuietStep
  DEF OpenRelay, Listening, Waiting, Settling, Goto, world, registry, owned, children,
      history, TypeOK
<1>2. CASE SpawnRuntime(s)
  BY <1>2, QuietStep
  DEF SpawnRuntime, SpawnFailed, Listening, Waiting, Settling, Goto, world, registry,
      owned, children, history, TypeOK
<1>3. CASE RuntimeReady(s)
  BY <1>3, QuietStep
  DEF RuntimeReady, Listening, Waiting, Settling, Goto, world, registry, owned,
      children, history, TypeOK
<1>4. CASE StartShell(s)
  BY <1>4, QuietStep
  DEF StartShell, Listening, Waiting, Settling, Goto, world, registry, owned, children,
      history, TypeOK
<1>5. CASE ShellReady(s)
  BY <1>5, QuietStep
  DEF ShellReady, Listening, Waiting, Settling, Goto, world, registry, owned, children,
      history, TypeOK
<1>6. CASE StartupFails(s)
  BY <1>6, QuietStep
  DEF StartupFails, Listening, Waiting, Settling, Goto, world, registry, owned,
      children, history, TypeOK
<1>7. CASE RunEnds(s)
  BY <1>7, QuietStep
  DEF RunEnds, Listening, Waiting, Settling, Goto, world, registry, owned, children,
      history, TypeOK
<1>8. CASE SeeShutdown(s)
  BY <1>8, QuietStep
  DEF SeeShutdown, Listening, Waiting, Settling, Goto, world, registry, owned, children,
      history, TypeOK
<1>9. CASE CloseDeclined(s)
  BY <1>9, QuietStep
  DEF CloseDeclined, Listening, Waiting, Settling, Goto, world, registry, owned,
      children, history, TypeOK
<1>10. CASE BeginSettle(s)
  BY <1>10, QuietStep
  DEF BeginSettle, Listening, Waiting, Settling, Goto, world, registry, owned, children,
      history, TypeOK
<1>11. CASE KillShell(s)
  BY <1>11, QuietStep
  DEF KillShell, Listening, Waiting, Settling, Goto, world, registry, owned, children,
      history, TypeOK
<1>12. CASE KillRuntime(s)
  BY <1>12, QuietStep
  DEF KillRuntime, Listening, Waiting, Settling, Goto, world, registry, owned, children,
      history, TypeOK
<1>13. CASE Release(s)
  BY <1>13, QuietStep
  DEF Release, Listening, Waiting, Settling, Goto, world, registry, owned, children,
      history, TypeOK
<1>14. CASE StopUnsupervised(s)
  BY <1>14, QuietStep
  DEF StopUnsupervised, Listening, Waiting, Settling, Goto, world, registry, owned,
      children, history, TypeOK
<1>15. CASE ForwardToEndedRelay(s)
  BY <1>15, QuietStep
  DEF ForwardToEndedRelay, Listening, Waiting, Settling, Goto, world, registry, owned,
      children, history, TypeOK
<1>16. CASE Declines(s)
  BY <1>16, QuietStep
  DEF Declines, Listening, Waiting, Settling, Goto, world, registry, owned, children,
      history, TypeOK
<1>17. CASE RelayEnds(s)
  BY <1>17, QuietStep
  DEF RelayEnds, Listening, Waiting, Settling, Goto, world, registry, owned, children,
      history, TypeOK
<1>18. CASE ReadyTimeout(s)
  BY <1>18, QuietStep
  DEF ReadyTimeout, Listening, Waiting, Settling, Goto, world, registry, owned,
      children, history, TypeOK
<1>19. CASE CloseTimeout(s)
  BY <1>19, QuietStep
  DEF CloseTimeout, Listening, Waiting, Settling, Goto, world, registry, owned,
      children, history, TypeOK
<1>20. ASSUME NEW c \in Child, PrintReady(s, c)
       PROVE  StopInv'
  BY <1>20, QuietStep
  DEF PrintReady, Listening, Waiting, Settling, Goto, world, registry, owned, children,
      history, TypeOK
<1>21. ASSUME NEW c \in Child, Exits(s, c)
       PROVE  StopInv'
  BY <1>21, QuietStep
  DEF Exits, Listening, Waiting, Settling, Goto, world, registry, owned, children,
      history, TypeOK
<1>22. CASE AckLaunch(s)
  BY <1>22
  DEF AckLaunch, StopInv, CloseOnlyFirst, StopNeedsLaunch, ForcedStopPending,
      ForceQueued, Listening, Waiting, Settling, Goto, world, registry, owned, children,
      history, TypeOK, LaunchStep
<1>23. CASE StopUnresolved(s)
  BY <1>23
  DEF StopUnresolved, StopInv, CloseOnlyFirst, StopNeedsLaunch, ForcedStopPending,
      ForceQueued, Listening, Waiting, Settling, Goto, world, registry, owned, children,
      history, TypeOK
<1>24. CASE RegisterAbort(s)
  <2>1. /\ UNCHANGED <<host, nextId, stopq, forced>>
        /\ launch[s] = "inserted"
        /\ sender' = [sender EXCEPT ![s] = TRUE]
        /\ \E l \in {"spawned", "unresolved"} :
              /\ launch' = [launch EXCEPT ![s] = l]
              /\ l = "unresolved" => ~host.runtime
        /\ \A t \in Session \ {s} : sup'[t] = sup[t]
    BY <1>24 DEF RegisterAbort, world, registry, owned, children, history, TypeOK
  <2>2. s \notin forced /\ s <= nextId
    BY <2>1 DEF StopInv, StopNeedsLaunch, TypeOK, Session
  <2>3. CloseOnlyFirst'
    BY <2>1 DEF StopInv, CloseOnlyFirst
  <2>4. StopNeedsLaunch'
    BY <2>1, <2>2 DEF StopInv, StopNeedsLaunch, TypeOK
  <2>5. ForcedStopPending'
    <3>1. forced \in SUBSET Session
      BY DEF TypeOK
    <3>2. QED
      BY <2>1, <2>2, <3>1 DEF StopInv, ForcedStopPending, ForceQueued
  <2>6. QED
    BY <2>3, <2>4, <2>5 DEF StopInv
<1>25. CASE TellUnresolved(s)
  <2>1. ~host.runtime
    BY <1>25 DEF TellUnresolved, StopInv, StopNeedsLaunch
  <2>2. s \notin forced
    BY <2>1 DEF StopInv, StopNeedsLaunch
  <2>3. /\ UNCHANGED <<host, nextId, sender, sup, forced>>
        /\ launch' = [launch EXCEPT ![s] = "acked"]
        /\ launch[s] = "tell"
        /\ stopq'[s] = <<>>
        /\ \A t \in Session \ {s} : stopq'[t] = stopq[t]
    BY <1>25 DEF TellUnresolved, world, registry, owned, children, history, TypeOK
  <2>4. CloseOnlyFirst'
    BY <2>3 DEF StopInv, CloseOnlyFirst
  <2>5. StopNeedsLaunch'
    BY <2>3 DEF StopInv, StopNeedsLaunch, TypeOK
  <2>6. ForcedStopPending'
    <3>1. forced \in SUBSET Session
      BY DEF TypeOK
    <3>2. QED
      BY <2>2, <2>3, <3>1 DEF StopInv, ForcedStopPending, ForceQueued
  <2>7. QED
    BY <2>4, <2>5, <2>6 DEF StopInv
<1>26. CASE StartupAborted(s)
  <2>1. CASE stopq[s] = <<>>
    BY <1>26, <2>1, QuietStep
    DEF StartupAborted, Listening, Waiting, Settling, Goto, world, registry, owned,
        children, history, TypeOK
  <2>2. CASE stopq[s] # <<>>
    <3>1. /\ UNCHANGED <<host, nextId, launch, sender, forced>>
          /\ \A t \in Session \ {s} : stopq'[t] = stopq[t] /\ sup'[t] = sup[t]
          /\ sup'[s] \notin Listening
          /\ stopq'[s] = Tail(stopq[s])
      BY <1>26, <2>2
      DEF StartupAborted, Listening, Waiting, Settling, Goto, world, registry, owned,
          children, history, TypeOK
    <3>2. \A i \in DOMAIN stopq'[s] : i >= 2 => stopq'[s][i] = "force"
      BY <2>2, <3>1, TakenHead
    <3>3. QED
      BY <3>1, <3>2, LastStep
  <2>3. QED
    BY <2>1, <2>2
<1>27. CASE Publish(s)
  <2>1. CASE Overtaken(s)
    <3>1. CASE entry[s] = "stopping"
      BY <1>27, <2>1, <3>1, QuietStep
      DEF Publish, Listening, Waiting, Settling, Goto, world, registry, owned, children,
          history, TypeOK
    <3>2. CASE entry[s] # "stopping"
      <4>1. /\ UNCHANGED <<host, nextId, launch, sender, forced>>
            /\ \A t \in Session \ {s} : stopq'[t] = stopq[t] /\ sup'[t] = sup[t]
            /\ sup'[s] \notin Listening
            /\ stopq[s] # <<>> /\ stopq'[s] = Tail(stopq[s])
        BY <1>27, <2>1, <3>2
        DEF Publish, Overtaken, Listening, Waiting, Settling, Goto, world, registry,
            owned, children, history, TypeOK
      <4>2. \A i \in DOMAIN stopq'[s] : i >= 2 => stopq'[s][i] = "force"
        BY <4>1, TakenHead
      <4>3. QED
        BY <4>1, <4>2, LastStep
    <3>3. QED
      BY <3>1, <3>2
  <2>2. CASE ~Overtaken(s)
    BY <1>27, <2>2, QuietStep
    DEF Publish, Listening, Waiting, Settling, Goto, world, registry, owned, children,
        history, TypeOK
  <2>3. QED
    BY <2>1, <2>2
<1>28. CASE TakeForce(s)
  <2>1. /\ UNCHANGED <<host, nextId, launch, forced>>
        /\ \A t \in Session : sender'[t] => sender[t]
        /\ \A t \in Session \ {s} : stopq'[t] = stopq[t] /\ sup'[t] = sup[t]
        /\ sup'[s] \notin Listening
        /\ stopq[s] # <<>> /\ stopq'[s] = Tail(stopq[s])
    BY <1>28
    DEF TakeForce, Take, Listening, Waiting, Settling, Goto, world, registry, owned,
        children, history, TypeOK
  <2>2. \A i \in DOMAIN stopq'[s] : i >= 2 => stopq'[s][i] = "force"
    BY <2>1, TakenHead
  <2>3. QED
    BY <2>1, <2>2, LastStep
<1>29. CASE TakeClose(s)
  <2>1. /\ UNCHANGED <<host, nextId, launch, sender, forced>>
        /\ stopq[s] # <<>> /\ Head(stopq[s]) = "close"
        /\ stopq' = [stopq EXCEPT ![s] = Tail(stopq[s])]
        /\ sup[s] = "run"
        /\ \E to \in {"closing", "settle"} : sup' = [sup EXCEPT ![s] = to]
    BY <1>29
    DEF TakeClose, Take, Listening, Waiting, Settling, Goto, world, registry, owned,
        children, history, TypeOK
  <2>2. /\ \A t \in Session \ {s} : stopq'[t] = stopq[t] /\ sup'[t] = sup[t]
        /\ stopq'[s] = Tail(stopq[s])
    BY <2>1 DEF TypeOK
  <2>3. \A i \in DOMAIN stopq'[s] : stopq'[s][i] = "force"
    BY <2>1, <2>2, TakenHead, ZenonT(60)
  <2>4. s \in forced => ForceQueued(s)'
    <3>1. sup[s] \in Listening
      BY <2>1 DEF Listening
    <3>2. s \in forced => \E i \in DOMAIN Tail(stopq[s]) : Tail(stopq[s])[i] = "force"
      BY <2>1, <3>1, TakenHead
    <3>3. QED
      BY <2>2, <3>2 DEF ForceQueued
  <2>5. CloseOnlyFirst' /\ StopNeedsLaunch'
    BY <2>1, <2>2, <2>3 DEF StopInv, CloseOnlyFirst, StopNeedsLaunch
  <2>6. ForcedStopPending'
    BY <2>1, <2>2, <2>4 DEF StopInv, ForcedStopPending, ForceQueued
  <2>7. QED
    BY <2>5, <2>6 DEF StopInv
<1>30. CASE TakeRepeatedClose(s)
  <2>1. /\ UNCHANGED <<host, nextId, launch, sup, sender, forced>>
        /\ sup[s] = "closing"
        /\ stopq[s] # <<>> /\ Head(stopq[s]) = "close"
        /\ stopq' = [stopq EXCEPT ![s] = Tail(stopq[s])]
    BY <1>30
    DEF TakeRepeatedClose, Take, Listening, Waiting, Settling, Goto, world, registry,
        owned, children, history, TypeOK
  <2>2. /\ \A t \in Session \ {s} : stopq'[t] = stopq[t]
        /\ stopq'[s] = Tail(stopq[s])
    BY <2>1 DEF TypeOK
  <2>3. \A i \in DOMAIN stopq'[s] : stopq'[s][i] = "force"
    BY <2>1, <2>2, TakenHead
  <2>4. s \in forced => ForceQueued(s)'
    <3>1. sup[s] \in Listening
      BY <2>1 DEF Listening
    <3>2. s \in forced => \E i \in DOMAIN Tail(stopq[s]) : Tail(stopq[s])[i] = "force"
      BY <2>1, <3>1, TakenHead
    <3>3. QED
      BY <2>2, <3>2 DEF ForceQueued
  <2>5. QED
    BY <2>1, <2>2, <2>3, <2>4, ChannelStep
<1>31. CASE FinishSettle(s)
  <2>1. /\ UNCHANGED <<host, nextId, launch, forced>>
        /\ \A t \in Session : sender'[t] => sender[t]
        /\ \A t \in Session \ {s} : stopq'[t] = stopq[t] /\ sup'[t] = sup[t]
        /\ sup'[s] \notin Listening
        /\ stopq'[s] = <<>>
    BY <1>31
    DEF FinishSettle, Stopped, Listening, Waiting, Settling, Goto, world, registry,
        owned, children, history, TypeOK
  <2>2. \A i \in DOMAIN stopq'[s] : i >= 2 => stopq'[s][i] = "force"
    BY <2>1
  <2>3. QED
    BY <2>1, <2>2, LastStep
<1>32. CASE StopUnstarted(s)
  <2>1. /\ UNCHANGED <<host, nextId, launch, forced>>
        /\ \A t \in Session : sender'[t] => sender[t]
        /\ \A t \in Session \ {s} : stopq'[t] = stopq[t] /\ sup'[t] = sup[t]
        /\ sup'[s] \notin Listening
        /\ stopq'[s] = <<>>
    BY <1>32
    DEF StopUnstarted, Stopped, Listening, Waiting, Settling, Goto, world, registry,
        owned, children, history, TypeOK
  <2>2. \A i \in DOMAIN stopq'[s] : i >= 2 => stopq'[s][i] = "force"
    BY <2>1
  <2>3. QED
    BY <2>1, <2>2, LastStep
<1>33. ASSUME NEW stop \in Stop, StopSupervised(s, stop)
       PROVE  StopInv'
  <2> DEFINE q == IF Len(stopq[s]) < StopQueue THEN Append(stopq[s], stop) ELSE stopq[s]
  <2>1. /\ UNCHANGED <<host, nextId, sender, launch, sup>>
        /\ forced' = IF stop = "force" /\ host.runtime THEN forced \cup {s} ELSE forced
        /\ sender[s]
    BY <1>33
    DEF StopSupervised, Listening, Waiting, Settling, Goto, world, registry, owned,
        children, history, TypeOK
  <2>2. /\ stopq[s] \in Seq(Stop) /\ Len(stopq[s]) \in Nat /\ Len(stopq[s]) <= StopQueue
        /\ \A i \in DOMAIN stopq[s] : i >= 2 => stopq[s][i] = "force"
    BY DEF StopInv, TypeOK, CloseOnlyFirst
  <2>3. CASE stop = "force"
    <3>1. stopq' = [stopq EXCEPT ![s] = q]
      BY <1>33, <2>3 DEF StopSupervised, Queued, TypeOK
    <3>2. /\ \A i \in DOMAIN q : i >= 2 => q[i] = "force"
          /\ \E i \in DOMAIN q : q[i] = "force"
      <4>1. CASE Len(stopq[s]) < StopQueue
        BY <2>2, <2>3, <4>1
      <4>2. CASE ~(Len(stopq[s]) < StopQueue)
        <5>1. 2 \in DOMAIN stopq[s]
          BY <2>2, <4>2, QueueAssumption
        <5>2. QED
          BY <2>2, <4>2, <5>1
      <4>3. QED
        BY <4>1, <4>2
    <3>3. stopq'[s] = q /\ \A t \in Session \ {s} : stopq'[t] = stopq[t]
      BY <3>1 DEF TypeOK
    <3>4. ForceQueued(s)'
      BY <3>2, <3>3 DEF ForceQueued
    <3>5. QED
      BY <2>1, <3>2, <3>3, <3>4, ChannelStep
  <2>4. CASE stop = "close" /\ entry[s] # "stopping" /\ CloseFits(s)
    <3>1. stopq' = [stopq EXCEPT ![s] = q]
      BY <1>33, <2>4 DEF StopSupervised, Queued, TypeOK
    <3>2. stopq[s] = <<>>
      BY <2>2, <2>4 DEF CloseFits
    <3>3. \A i \in DOMAIN q : i < 2
      BY <2>2, <3>2
    <3>4. s \in forced => sup[s] \notin Listening
      BY <3>2 DEF StopInv, ForcedStopPending, ForceQueued
    <3>5. stopq'[s] = q /\ \A t \in Session \ {s} : stopq'[t] = stopq[t]
      BY <3>1 DEF TypeOK
    <3>6. forced' = forced
      BY <2>1, <2>4
    <3>7. \A i \in DOMAIN stopq'[s] : i >= 2 => stopq'[s][i] = "force"
      BY <2>2, <3>3, <3>5
    <3>8. QED
      BY <2>1, <3>4, <3>5, <3>6, <3>7, ChannelStep
  <2>5. CASE stop = "close" /\ ~(entry[s] # "stopping" /\ CloseFits(s))
    <3>1. stopq' = stopq /\ forced' = forced
      BY <1>33, <2>5 DEF StopSupervised
    <3>2. QED
      BY <2>1, <3>1, QuietStep
  <2>6. QED
    BY <2>3, <2>4, <2>5 DEF Stop
<1>34. QED
  BY <1>1, <1>2, <1>3, <1>4, <1>5, <1>6, <1>7, <1>8, <1>9, <1>10, <1>11, <1>12, <1>13,
     <1>14, <1>15, <1>16, <1>17, <1>18, <1>19, <1>20, <1>21, <1>22, <1>23, <1>24, <1>25,
     <1>26, <1>27, <1>28, <1>29, <1>30, <1>31, <1>32, <1>33
  DEF Dispatch, Supervise, Environment

\* A forced stop that a supervisor has accepted is queued until it no longer
\* listens: no later close, and no full channel, can lose it.
THEOREM ForcedStopIsPending == Spec => []ForcedStopPending
<1>1. Init => StopInv
  <2> SUFFICES ASSUME Init
               PROVE  StopInv
    OBVIOUS
  <2>1. TypeOK
    BY InitType
  <2>2. CloseOnlyFirst /\ StopNeedsLaunch /\ ForcedStopPending
    BY DEF Init, CloseOnlyFirst, StopNeedsLaunch, ForcedStopPending
  <2>3. QED
    BY <2>1, <2>2 DEF StopInv
<1>2. StopInv /\ [Next]_vars => StopInv'
  <2> SUFFICES ASSUME StopInv, [Next]_vars
               PROVE  StopInv'
    OBVIOUS
  <2>1. TypeOK /\ TypeOK'
    BY NextType DEF StopInv
  <2>2. CASE Launch
    <3>1. nextId + 1 \in Session /\ nextId' = nextId + 1 /\ nextId \in Nat
      BY <2>1, <2>2, BoundAssumption DEF Launch, TypeOK, Session
    <3>2. /\ launch' = [launch EXCEPT ![nextId + 1] = "inserted"]
          /\ UNCHANGED <<host, sender, sup, stopq, forced>>
      BY <2>2 DEF Launch, world, history
    <3>3. nextId + 1 > nextId /\ \A t \in Session : t > nextId + 1 => t > nextId
      BY <3>1 DEF Session
    <3>4. QED
      BY <2>1, <3>1, <3>2, <3>3
      DEF StopInv, CloseOnlyFirst, StopNeedsLaunch, ForcedStopPending, ForceQueued, TypeOK
  <2>3. CASE ShutdownAll
    BY <2>1, <2>3
    DEF ShutdownAll, StopInv, CloseOnlyFirst, StopNeedsLaunch, ForcedStopPending,
        ForceQueued, history
  <2>4. CASE Connection
    BY <2>1, <2>4, QuietStep DEF Connection, registry, history
  <2>5. ASSUME NEW s \in Session,
               \/ Dispatch(s) \/ Supervise(s) \/ Environment(s)
               \/ ReadyTimeout(s) \/ CloseTimeout(s)
        PROVE  StopInv'
    BY <2>1, <2>5, StopAction
  <2>6. CASE UNCHANGED vars
    BY <2>1, <2>6, QuietStep DEF vars
  <2>7. QED
    BY <2>2, <2>3, <2>4, <2>5, <2>6 DEF Next
<1>3. StopInv => ForcedStopPending
  BY DEF StopInv
<1>4. QED
  BY <1>1, <1>2, <1>3, PTL DEF Spec

-----------------------------------------------------------------------------
(***************************************************************************)
(* A supervisor that is done has released everything its session owned,    *)
(* and an image is released only when no child can use it.                 *)
(***************************************************************************)
\* What a session owns at each step of its supervisor.
Owns(s) ==
  /\ sup[s] \in {"none", "open", "unstarted"} =>
       /\ \A c \in Child : proc[s][c] = "none"
       /\ relay[s] = "none" /\ ~portal[s] /\ client[s] = "none" /\ ~ipc[s]
  /\ sup[s] = "spawn" =>
       /\ \A c \in Child : proc[s][c] = "none"
       /\ ~portal[s] /\ client[s] = "none"
  /\ sup[s] \in {"release", "finish", "done"} => ~Live(s)
  /\ sup[s] = "killRuntime" => proc[s]["shell"] # "live"
  /\ sup[s] \in {"finish", "done"} =>
       /\ relay[s] \in {"none", "dropped"} /\ ~portal[s]
       /\ image[s] # "mounted" /\ client[s] # "attached"
  /\ sup[s] = "done" => ~ipc[s] /\ ~sender[s]
  /\ image[s] = "released" => sup[s] \in {"finish", "done"}

\* A session is supervised only once its launch has been registered.
SupervisedOnce ==
  \A s \in Session :
    /\ s > nextId => launch[s] = "idle"
    /\ launch[s] \in {"idle", "inserted"} => sup[s] = "none"

OwnedInv == TypeOK /\ SupervisedOnce /\ \A s \in Session : Owns(s)

\* An action of one session leaves the others alone.
LEMMA OwnsElsewhere ==
  ASSUME NEW s \in Session, NEW t \in Session, t # s, TypeOK, Owns(t),
         \/ Dispatch(s) \/ Supervise(s) \/ Environment(s)
         \/ ReadyTimeout(s) \/ CloseTimeout(s)
  PROVE  Owns(t)'
<1> DEFINE Kept == /\ sup'[t] = sup[t] /\ proc'[t] = proc[t] /\ relay'[t] = relay[t]
                   /\ portal'[t] = portal[t] /\ client'[t] = client[t]
                   /\ image'[t] = image[t] /\ ipc'[t] = ipc[t] /\ sender'[t] = sender[t]
<1>0. Kept
  <2> USE DEF TypeOK, Goto, world, registry, owned, children, history
  <2>1. CASE RegisterAbort(s)
    BY <2>1 DEF RegisterAbort
  <2>2. CASE AckLaunch(s)
    BY <2>2 DEF AckLaunch
  <2>3. CASE StopUnresolved(s)
    BY <2>3 DEF StopUnresolved
  <2>4. CASE TellUnresolved(s)
    BY <2>4 DEF TellUnresolved
  <2>5. CASE OpenRelay(s)
    BY <2>5 DEF OpenRelay
  <2>6. CASE SpawnRuntime(s)
    BY <2>6 DEF SpawnRuntime, SpawnFailed
  <2>7. CASE RuntimeReady(s)
    BY <2>7 DEF RuntimeReady
  <2>8. CASE StartShell(s)
    BY <2>8 DEF StartShell
  <2>9. CASE ShellReady(s)
    BY <2>9 DEF ShellReady
  <2>10. CASE StartupFails(s)
    BY <2>10 DEF StartupFails
  <2>11. CASE StartupAborted(s)
    BY <2>11 DEF StartupAborted
  <2>12. CASE Publish(s)
    BY <2>12 DEF Publish
  <2>13. CASE RunEnds(s)
    BY <2>13 DEF RunEnds
  <2>14. CASE TakeForce(s)
    BY <2>14 DEF TakeForce, Take
  <2>15. CASE TakeClose(s)
    BY <2>15 DEF TakeClose, Take
  <2>16. CASE TakeRepeatedClose(s)
    BY <2>16 DEF TakeRepeatedClose, Take
  <2>17. CASE SeeShutdown(s)
    BY <2>17 DEF SeeShutdown
  <2>18. CASE CloseDeclined(s)
    BY <2>18 DEF CloseDeclined
  <2>19. CASE BeginSettle(s)
    BY <2>19 DEF BeginSettle
  <2>20. CASE KillShell(s)
    BY <2>20 DEF KillShell, Killed
  <2>21. CASE KillRuntime(s)
    BY <2>21 DEF KillRuntime, Killed
  <2>22. CASE Release(s)
    BY <2>22 DEF Release
  <2>23. CASE FinishSettle(s)
    BY <2>23 DEF FinishSettle, Stopped
  <2>24. CASE StopUnstarted(s)
    BY <2>24 DEF StopUnstarted, Stopped
  <2>25. CASE StopUnsupervised(s)
    BY <2>25 DEF StopUnsupervised
  <2>26. CASE ForwardToEndedRelay(s)
    BY <2>26 DEF ForwardToEndedRelay
  <2>27. CASE Declines(s)
    BY <2>27 DEF Declines
  <2>28. CASE RelayEnds(s)
    BY <2>28 DEF RelayEnds
  <2>29. CASE ReadyTimeout(s)
    BY <2>29 DEF ReadyTimeout
  <2>30. CASE CloseTimeout(s)
    BY <2>30 DEF CloseTimeout
  <2>31. ASSUME NEW stop \in Stop, StopSupervised(s, stop)
         PROVE  Kept
    BY <2>31 DEF StopSupervised
  <2>32. ASSUME NEW c \in Child, PrintReady(s, c)
         PROVE  Kept
    BY <2>32 DEF PrintReady
  <2>33. ASSUME NEW c \in Child, Exits(s, c)
         PROVE  Kept
    BY <2>33 DEF Exits
  <2>34. QED
    BY <2>1, <2>2, <2>3, <2>4, <2>5, <2>6, <2>7, <2>8, <2>9, <2>10, <2>11, <2>12,
       <2>13, <2>14, <2>15, <2>16, <2>17, <2>18, <2>19, <2>20, <2>21, <2>22, <2>23,
       <2>24, <2>25, <2>26, <2>27, <2>28, <2>29, <2>30, <2>31, <2>32, <2>33
    DEF Dispatch, Supervise, Environment
<1>1. QED
  BY <1>0 DEF Owns, Live

\* What a session owns follows its supervisor.
LEMMA OwnsHere ==
  ASSUME NEW s \in Session, TypeOK, SupervisedOnce, Owns(s),
         \/ Dispatch(s) \/ Supervise(s) \/ Environment(s)
         \/ ReadyTimeout(s) \/ CloseTimeout(s)
  PROVE  Owns(s)'
<1> USE DEF TypeOK, Child, Owns, Live, Goto, world, registry, owned, children, history
<1>1. CASE RegisterAbort(s)
  BY <1>1 DEF RegisterAbort, SupervisedOnce
<1>2. CASE AckLaunch(s)
  BY <1>2 DEF AckLaunch
<1>3. CASE StopUnresolved(s)
  BY <1>3 DEF StopUnresolved
<1>4. CASE TellUnresolved(s)
  BY <1>4 DEF TellUnresolved
<1>5. CASE OpenRelay(s)
  BY <1>5 DEF OpenRelay
<1>6. CASE SpawnRuntime(s)
  BY <1>6 DEF SpawnRuntime, SpawnFailed
<1>7. CASE RuntimeReady(s)
  BY <1>7 DEF RuntimeReady
<1>8. CASE StartShell(s)
  BY <1>8 DEF StartShell
<1>9. CASE ShellReady(s)
  BY <1>9 DEF ShellReady
<1>10. CASE StartupFails(s)
  BY <1>10 DEF StartupFails, Waiting
<1>11. CASE StartupAborted(s)
  BY <1>11 DEF StartupAborted, Waiting
<1>12. CASE Publish(s)
  BY <1>12 DEF Publish
<1>13. CASE RunEnds(s)
  BY <1>13 DEF RunEnds
<1>14. CASE TakeForce(s)
  BY <1>14 DEF TakeForce, Take
<1>15. CASE TakeClose(s)
  BY <1>15 DEF TakeClose, Take
<1>16. CASE TakeRepeatedClose(s)
  BY <1>16 DEF TakeRepeatedClose, Take
<1>17. CASE SeeShutdown(s)
  BY <1>17 DEF SeeShutdown
<1>18. CASE CloseDeclined(s)
  BY <1>18 DEF CloseDeclined
<1>19. CASE BeginSettle(s)
  BY <1>19 DEF BeginSettle
<1>20. CASE KillShell(s)
  BY <1>20 DEF KillShell, Killed
<1>21. CASE KillRuntime(s)
  BY <1>21 DEF KillRuntime, Killed
<1>22. CASE Release(s)
  BY <1>22 DEF Release
<1>23. CASE FinishSettle(s)
  BY <1>23 DEF FinishSettle, Stopped
<1>24. CASE StopUnstarted(s)
  BY <1>24 DEF StopUnstarted, Stopped
<1>25. CASE StopUnsupervised(s)
  BY <1>25 DEF StopUnsupervised
<1>26. CASE ForwardToEndedRelay(s)
  BY <1>26 DEF ForwardToEndedRelay
<1>27. CASE Declines(s)
  BY <1>27 DEF Declines
<1>28. CASE RelayEnds(s)
  BY <1>28 DEF RelayEnds
<1>29. CASE ReadyTimeout(s)
  BY <1>29 DEF ReadyTimeout, Waiting
<1>30. CASE CloseTimeout(s)
  BY <1>30 DEF CloseTimeout
<1>31. ASSUME NEW stop \in Stop, StopSupervised(s, stop)
       PROVE  Owns(s)'
  BY <1>31 DEF StopSupervised
<1>32. ASSUME NEW c \in Child, PrintReady(s, c)
       PROVE  Owns(s)'
  BY <1>32 DEF PrintReady
<1>33. ASSUME NEW c \in Child, Exits(s, c)
       PROVE  Owns(s)'
  BY <1>33 DEF Exits
<1>34. QED
  BY <1>1, <1>2, <1>3, <1>4, <1>5, <1>6, <1>7, <1>8, <1>9, <1>10, <1>11, <1>12, <1>13,
     <1>14, <1>15, <1>16, <1>17, <1>18, <1>19, <1>20, <1>21, <1>22, <1>23, <1>24, <1>25,
     <1>26, <1>27, <1>28, <1>29, <1>30, <1>31, <1>32, <1>33
  DEF Dispatch, Supervise, Environment

\* Only the registration of a launch starts a supervisor.
LEMMA SupervisedOnceStep ==
  ASSUME TypeOK, TypeOK', SupervisedOnce, [Next]_vars
  PROVE  SupervisedOnce'
<1>1. CASE Launch
  <2>1. nextId + 1 \in Session /\ nextId' = nextId + 1 /\ nextId \in Nat
    BY <1>1, BoundAssumption DEF Launch, TypeOK, Session
  <2>2. launch' = [launch EXCEPT ![nextId + 1] = "inserted"] /\ sup' = sup
    BY <1>1 DEF Launch
  <2>3. nextId + 1 > nextId /\ \A t \in Session : t > nextId + 1 => t > nextId
    BY <2>1 DEF Session
  <2>4. QED
    BY <2>1, <2>2, <2>3 DEF SupervisedOnce, TypeOK
<1>2. ASSUME NEW s \in Session, RegisterAbort(s)
      PROVE  SupervisedOnce'
  <2>1. /\ launch[s] = "inserted" /\ nextId' = nextId
        /\ \E l \in {"spawned", "unresolved"} : launch' = [launch EXCEPT ![s] = l]
        /\ \A t \in Session \ {s} : sup'[t] = sup[t]
    BY <1>2 DEF RegisterAbort, TypeOK
  <2>2. QED
    BY <2>1 DEF SupervisedOnce, TypeOK, Session
<1>3. ASSUME NEW s \in Session, NEW to,
             UNCHANGED <<nextId, launch>>, sup[s] # "none", sup' = [sup EXCEPT ![s] = to]
      PROVE  SupervisedOnce'
  BY <1>3 DEF SupervisedOnce, TypeOK
<1>4. ASSUME NEW s \in Session, Supervise(s) \/ ReadyTimeout(s) \/ CloseTimeout(s)
      PROVE  SupervisedOnce'
  <2>1. UNCHANGED <<nextId, launch>>
    BY <1>4
    DEF Supervise, OpenRelay, SpawnRuntime, RuntimeReady, StartShell, ShellReady, StartupFails,
        StartupAborted, Publish, RunEnds, TakeForce, TakeClose, TakeRepeatedClose,
        SeeShutdown, CloseDeclined, BeginSettle, KillShell, KillRuntime, Release,
        FinishSettle, StopUnstarted, ReadyTimeout, CloseTimeout, registry
  <2>2. \/ sup' = sup
        \/ sup[s] # "none" /\ \E to \in SupStep : sup' = [sup EXCEPT ![s] = to]
    BY <1>4
    DEF Supervise, OpenRelay, SpawnRuntime, RuntimeReady, StartShell, ShellReady, StartupFails,
        StartupAborted, Publish, RunEnds, TakeForce, TakeClose, TakeRepeatedClose,
        SeeShutdown, CloseDeclined, BeginSettle, KillShell, KillRuntime, Release,
        FinishSettle, StopUnstarted, ReadyTimeout, CloseTimeout, Goto, SpawnFailed,
        SupStep, Waiting, Listening, Settling
  <2>3. QED
    BY <1>3, <2>1, <2>2 DEF SupervisedOnce
<1>5. ASSUME NEW s \in Session, AckLaunch(s) \/ StopUnresolved(s) \/ TellUnresolved(s)
      PROVE  SupervisedOnce'
  BY <1>5 DEF AckLaunch, StopUnresolved, TellUnresolved, SupervisedOnce, TypeOK, registry,
              world, Session
<1>6. ASSUME NEW s \in Session, Environment(s)
      PROVE  SupervisedOnce'
  BY <1>6 DEF Environment, StopSupervised, StopUnsupervised, ForwardToEndedRelay,
              PrintReady, Exits, Declines, RelayEnds, SupervisedOnce, registry
<1>7. CASE ShutdownAll \/ Connection \/ UNCHANGED vars
  BY <1>7 DEF ShutdownAll, Connection, vars, SupervisedOnce, registry
<1>8. QED
  BY <1>1, <1>2, <1>4, <1>5, <1>6, <1>7 DEF Next, Dispatch

LEMMA OwnedStep ==
  ASSUME OwnedInv, [Next]_vars
  PROVE  OwnedInv'
<1>1. TypeOK /\ TypeOK' /\ SupervisedOnce /\ SupervisedOnce'
  BY NextType, SupervisedOnceStep DEF OwnedInv
<1>2. ASSUME NEW t \in Session
      PROVE  Owns(t)'
  <2>1. Owns(t)
    BY DEF OwnedInv
  <2>2. CASE Launch
    <3>1. \/ t # nextId + 1 /\ image'[t] = image[t]
          \/ t > nextId /\ image'[t] \in {image[t], "mounted"}
      BY <1>1, <2>2, BoundAssumption DEF Launch, TypeOK, Session
    <3>2. UNCHANGED <<sender, ipc, sup, proc, relay, portal, client>>
      BY <2>2 DEF Launch, children
    <3>3. t > nextId => sup[t] = "none"
      BY <1>1 DEF SupervisedOnce
    <3>4. QED
      BY <2>1, <3>1, <3>2, <3>3 DEF Owns, Live
  <2>3. CASE ShutdownAll
    BY <2>1, <2>3 DEF ShutdownAll, Owns, Live, children, owned
  <2>4. CASE Connection
    BY <2>1, <2>4 DEF Connection, Owns, Live, registry, children, owned
  <2>5. ASSUME NEW s \in Session,
               \/ Dispatch(s) \/ Supervise(s) \/ Environment(s)
               \/ ReadyTimeout(s) \/ CloseTimeout(s)
        PROVE  Owns(t)'
    <3>1. CASE t = s
      BY <1>1, <2>1, <2>5, <3>1, OwnsHere
    <3>2. CASE t # s
      BY <1>1, <2>1, <2>5, <3>2, OwnsElsewhere
    <3>3. QED
      BY <3>1, <3>2
  <2>6. CASE UNCHANGED vars
    BY <2>1, <2>6 DEF vars, Owns, Live
  <2>7. QED
    BY <2>2, <2>3, <2>4, <2>5, <2>6 DEF Next
<1>3. QED
  BY <1>1, <1>2 DEF OwnedInv

LEMMA OwnedInit ==
  ASSUME Init
  PROVE  OwnedInv
<1>1. TypeOK
  BY InitType
<1>2. SupervisedOnce
  BY DEF Init, SupervisedOnce
<1>3. \A s \in Session : Owns(s)
  BY DEF Init, Owns, Live
<1>4. QED
  BY <1>1, <1>2, <1>3 DEF OwnedInv

\* Whatever way a supervisor ends, nothing the session owned is left behind.
THEOREM ReleasedAtTheEnd == Spec => []ReleasedWhenDone
<1>1. OwnedInv => ReleasedWhenDone
  BY DEF OwnedInv, ReleasedWhenDone, Owns
<1>2. QED
  BY <1>1, OwnedInit, OwnedStep, PTL DEF Spec

\* The image of a package stays mounted while a child of the session lives.
THEOREM ImageOutlives == Spec => []ImageOutlivesChildren
<1>1. OwnedInv => ImageOutlivesChildren
  BY DEF OwnedInv, ImageOutlivesChildren, Owns
<1>2. QED
  BY <1>1, OwnedInit, OwnedStep, PTL DEF Spec

-----------------------------------------------------------------------------
(***************************************************************************)
(* What the clients are told of a session agrees with its registry entry.  *)
(***************************************************************************)
InStartup == {"unstarted", "open", "spawn", "waitRuntime", "attach", "waitShell",
              "publish"}
InService == {"run", "closing"}
InEnding == {"killShell", "killRuntime", "release", "finish"}

\* How the steps of dispatch and of the supervisor follow each other, and while
\* which of them a stop sender is registered.
Launched(s) ==
  /\ s > nextId => /\ launch[s] = "idle" /\ entry[s] = "none" /\ events[s] = <<>>
                   /\ s \notin disowned
  /\ launch[s] = "idle" => s > nextId
  /\ launch[s] \in {"idle", "inserted", "unresolved", "stopNow", "tell"} => sup[s] = "none"
  /\ launch[s] = "spawned" => sup[s] # "none"
  /\ sender[s] => \/ sup[s] \notin {"none", "done"}
                  \/ launch[s] \in {"unresolved", "stopNow"}

\* The states an entry can have at each step of dispatch and of the supervisor.
EntryFits(s) ==
  /\ sup[s] \in InStartup => entry[s] \in {"starting", "stopping"}
  /\ sup[s] \in InService => entry[s] \in {"running", "stopping"}
  /\ sup[s] = "settle" => entry[s] \in {"starting", "running", "stopping"}
  /\ sup[s] \in InEnding => entry[s] = "stopping"
  /\ sup[s] = "done" => entry[s] \in {"stopped", "none"}
  /\ launch[s] \in {"inserted", "unresolved", "stopNow"} =>
       entry[s] \in {"starting", "stopping"}
  /\ launch[s] = "tell" \/ (launch[s] = "acked" /\ sup[s] = "none") =>
       entry[s] \in {"stopped", "none"}

\* What has been broadcast when the entry has a given state.
Heard(s) ==
  /\ entry[s] = "starting" => \A i \in DOMAIN events[s] : events[s][i] = "ack"
  /\ entry[s] = "running" =>
       \A i \in DOMAIN events[s] : events[s][i] \notin {"stopping", "stopped"}
  /\ entry[s] \in {"running", "stopping"} => Latest(s, entry[s])
  /\ entry[s] = "stopped" /\ sup[s] # "none" => Latest(s, "stopped")

Ordered(s) ==
  \A i, j \in DOMAIN events[s] :
    events[s][i] \in {"stopping", "stopped"} /\ events[s][j] = "running" => j < i

Truthful(s) == EntryFits(s) /\ Heard(s) /\ Ordered(s)

Lives(s) == Launched(s) /\ (s \notin disowned => Truthful(s))
LifeInv == TypeOK /\ \A s \in Session : Lives(s)

\* What a broadcast does to the events of a session.
LEMMA ToldEvents ==
  ASSUME TypeOK, NEW s \in Session, NEW e \in Event, events' = Told(s, e)
  PROVE  /\ \A t \in Session \ {s} : events'[t] = events[t]
         /\ \/ events'[s] = events[s] /\ Len(events[s]) \in DOMAIN events[s]
               /\ events[s][Len(events[s])] = e
            \/ events'[s] = Append(events[s], e)
         /\ Len(events[s]) \in Nat
<1>1. events[s] \in Seq(Event) /\ Len(events[s]) \in Nat
  BY DEF TypeOK
<1>2. events[s] # <<>> => Len(events[s]) \in DOMAIN events[s]
  BY <1>1
<1>3. QED
  BY <1>1, <1>2 DEF Told, TypeOK

LEMMA AppendFacts ==
  ASSUME NEW S, NEW q \in Seq(S), NEW e \in S
  PROVE  /\ Append(q, e) \in Seq(S)
         /\ Len(q) \in Nat /\ DOMAIN Append(q, e) = 1 .. Len(q) + 1
         /\ DOMAIN q = 1 .. Len(q)
         /\ \A i \in DOMAIN q : Append(q, e)[i] = q[i]
         /\ Append(q, e)[Len(q) + 1] = e
OBVIOUS

\* A broadcast other than an acknowledgement is the latest one.
LEMMA ToldIsLatest ==
  ASSUME TypeOK, NEW s \in Session, NEW e \in Event \ {"ack"}, events' = Told(s, e)
  PROVE  Latest(s, e)'
<1>1. events[s] \in Seq(Event)
  BY DEF TypeOK
<1>2. CASE events'[s] = events[s] /\ Len(events[s]) \in DOMAIN events[s]
           /\ events[s][Len(events[s])] = e
  BY <1>1, <1>2 DEF Latest
<1>3. CASE events'[s] = Append(events[s], e)
  <2>1. /\ Len(events[s]) \in Nat /\ DOMAIN events'[s] = 1 .. Len(events[s]) + 1
        /\ events'[s][Len(events[s]) + 1] = e
    BY <1>1, <1>3, AppendFacts
  <2>2. QED
    BY <2>1 DEF Latest
<1>4. QED
  BY <1>2, <1>3, ToldEvents

\* An acknowledgement leaves the latest state as it is.
LEMMA AckKeepsLatest ==
  ASSUME TypeOK, NEW s \in Session, NEW e, Latest(s, e), events' = Told(s, "ack")
  PROVE  Latest(s, e)'
<1>1. events[s] \in Seq(Event) /\ "ack" \in Event
  BY DEF TypeOK, Event
<1>2. CASE events'[s] = events[s]
  BY <1>2 DEF Latest
<1>3. CASE events'[s] = Append(events[s], "ack")
  <2>1. /\ Len(events[s]) \in Nat /\ DOMAIN events'[s] = 1 .. Len(events[s]) + 1
        /\ DOMAIN events[s] = 1 .. Len(events[s])
        /\ \A i \in DOMAIN events[s] : events'[s][i] = events[s][i]
        /\ events'[s][Len(events[s]) + 1] = "ack"
    BY <1>1, <1>3, AppendFacts
  <2>2. QED
    BY <2>1 DEF Latest
<1>4. QED
  BY <1>1, <1>2, <1>3, ToldEvents

\* Every event after a broadcast was there before or is the one broadcast.
LEMMA ToldAdds ==
  ASSUME TypeOK, NEW s \in Session, NEW e \in Event, events' = Told(s, e)
  PROVE  \A i \in DOMAIN events'[s] :
           \/ i \in DOMAIN events[s] /\ events'[s][i] = events[s][i]
           \/ events'[s][i] = e /\ \A j \in DOMAIN events[s] : j < i
<1>1. events[s] \in Seq(Event)
  BY DEF TypeOK
<1>2. CASE events'[s] = events[s]
  BY <1>2
<1>3. CASE events'[s] = Append(events[s], e)
  <2>1. /\ Len(events[s]) \in Nat /\ DOMAIN events'[s] = 1 .. Len(events[s]) + 1
        /\ DOMAIN events[s] = 1 .. Len(events[s])
        /\ \A i \in DOMAIN events[s] : events'[s][i] = events[s][i]
        /\ events'[s][Len(events[s]) + 1] = e
    BY <1>1, <1>3, AppendFacts
  <2>2. QED
    BY <2>1
<1>4. QED
  BY <1>2, <1>3, ToldEvents

\* A broadcast keeps the order of the states, unless it tells ready after stop.
LEMMA ToldKeepsOrder ==
  ASSUME TypeOK, NEW s \in Session, NEW e \in Event, events' = Told(s, e), Ordered(s),
         e = "running" =>
           \A i \in DOMAIN events[s] : events[s][i] \notin {"stopping", "stopped"}
  PROVE  Ordered(s)'
<1> SUFFICES ASSUME NEW i \in DOMAIN events'[s], NEW j \in DOMAIN events'[s],
                    events'[s][i] \in {"stopping", "stopped"}, events'[s][j] = "running"
             PROVE  j < i
  BY DEF Ordered
<1>1. CASE i \in DOMAIN events[s] /\ events'[s][i] = events[s][i]
  BY <1>1, ToldAdds DEF Ordered
<1>2. CASE events'[s][i] = e /\ \A k \in DOMAIN events[s] : k < i
  BY <1>2, ToldAdds
<1>3. QED
  BY <1>1, <1>2, ToldAdds
\* The moves of a supervisor that change nothing a client is told.
Moves(s) ==
  \/ sup' = sup
  \/ /\ \E to \in SupStep \ {"none", "done"} : sup' = [sup EXCEPT ![s] = to]
     /\ sup[s] \notin {"none", "done"}
     /\ sup'[s] \in InStartup => sup[s] \in InStartup
     /\ sup'[s] \in InService => sup[s] \in InService
     /\ sup'[s] \in InEnding => sup[s] \in InEnding
     /\ sup'[s] = "settle" => sup[s] \notin InEnding

\* A step that leaves all of this alone keeps it for a session.
LEMMA LivesFrame ==
  ASSUME NEW t \in Session, Lives(t), nextId' = nextId,
         entry'[t] = entry[t], launch'[t] = launch[t], events'[t] = events[t],
         sup'[t] = sup[t], sender'[t] => sender[t],
         t \in disowned' <=> t \in disowned
  PROVE  Lives(t)'
  BY DEF Lives, Launched, Truthful, EntryFits, Heard, Ordered, Latest

LEMMA QuietLife ==
  ASSUME LifeInv, NEW s \in Session, Moves(s),
         UNCHANGED <<nextId, entry, launch, events, sender, disowned>>
  PROVE  \A t \in Session : Lives(t)'
<1>1. ASSUME NEW t \in Session, sup'[t] = sup[t]
      PROVE  Lives(t)'
  BY <1>1, LivesFrame DEF LifeInv
<1>2. ASSUME sup' # sup
      PROVE  Lives(s)'
  <2>1. Lives(s) /\ sup \in [Session -> SupStep]
    BY DEF LifeInv, TypeOK
  <2>2. PICK to \in SupStep \ {"none", "done"} : sup' = [sup EXCEPT ![s] = to]
    BY <1>2 DEF Moves
  <2>3. /\ sup[s] \notin {"none", "done"}
        /\ to \in InStartup => sup[s] \in InStartup
        /\ to \in InService => sup[s] \in InService
        /\ to \in InEnding => sup[s] \in InEnding
        /\ to = "settle" => sup[s] \notin InEnding
        /\ sup'[s] = to
    BY <1>2, <2>1, <2>2 DEF Moves
  <2>4. Launched(s)'
    BY <2>1, <2>3 DEF Lives, Launched
  <2>5. sup[s] \in SupStep
    BY <2>1
  <2>6. EntryFits(s) => EntryFits(s)'
    BY <2>3, <2>5, <2>1 DEF EntryFits, Lives, Launched, SupStep, InStartup, InService,
         InEnding, Listening, Waiting, Settling
  <2>7. Heard(s) => Heard(s)'
    BY <2>3 DEF Heard, Latest
  <2>8. Ordered(s) => Ordered(s)'
    BY DEF Ordered
  <2>9. QED
    BY <2>1, <2>4, <2>6, <2>7, <2>8 DEF Lives, Truthful
<1>3. QED
  <2>1. \A t \in Session : t # s => sup'[t] = sup[t]
    BY DEF Moves, LifeInv, TypeOK
  <2>2. QED
    BY <1>1, <1>2, <2>1
\* A step of a session after which its clients know what they knew before.
QuietAction(s) ==
  \/ OpenRelay(s) \/ SpawnRuntime(s) \/ RuntimeReady(s) \/ StartShell(s)
  \/ ShellReady(s) \/ StartupFails(s) \/ StartupAborted(s)
  \/ RunEnds(s) \/ TakeForce(s) \/ TakeClose(s) \/ TakeRepeatedClose(s)
  \/ SeeShutdown(s) \/ CloseDeclined(s)
  \/ KillShell(s) \/ KillRuntime(s) \/ Release(s)
  \/ ForwardToEndedRelay(s) \/ Declines(s) \/ RelayEnds(s)
  \/ \E c \in Child : PrintReady(s, c) \/ Exits(s, c)
  \/ ReadyTimeout(s) \/ CloseTimeout(s)

LEMMA QuietActionMoves ==
  ASSUME TypeOK, NEW s \in Session, QuietAction(s)
  PROVE  Moves(s) /\ UNCHANGED <<nextId, entry, launch, events, sender, disowned>>
<1> USE DEF Moves, Goto, Waiting, Listening, Settling, SupStep, InStartup, InService,
            InEnding, world, registry, children, owned, history
<1> sup \in [Session -> SupStep]
  BY DEF TypeOK
<1>1. CASE OpenRelay(s)
  BY <1>1 DEF OpenRelay
<1>2. CASE SpawnRuntime(s)
  BY <1>2 DEF SpawnRuntime, SpawnFailed
<1>3. CASE RuntimeReady(s)
  BY <1>3 DEF RuntimeReady
<1>4. CASE StartShell(s)
  BY <1>4 DEF StartShell
<1>5. CASE ShellReady(s)
  BY <1>5 DEF ShellReady
<1>6. CASE StartupFails(s)
  BY <1>6 DEF StartupFails
<1>7. CASE StartupAborted(s)
  BY <1>7 DEF StartupAborted
<1>8. CASE RunEnds(s)
  BY <1>8 DEF RunEnds
<1>9. CASE TakeForce(s)
  BY <1>9 DEF TakeForce, Take
<1>10. CASE TakeClose(s)
  BY <1>10 DEF TakeClose, Take
<1>11. CASE TakeRepeatedClose(s)
  BY <1>11 DEF TakeRepeatedClose, Take
<1>12. CASE SeeShutdown(s)
  BY <1>12 DEF SeeShutdown
<1>13. CASE CloseDeclined(s)
  BY <1>13 DEF CloseDeclined
<1>14. CASE KillShell(s)
  BY <1>14 DEF KillShell
<1>15. CASE KillRuntime(s)
  BY <1>15 DEF KillRuntime
<1>16. CASE Release(s)
  BY <1>16 DEF Release
<1>17. CASE ForwardToEndedRelay(s)
  BY <1>17 DEF ForwardToEndedRelay
<1>18. CASE Declines(s)
  BY <1>18 DEF Declines
<1>19. CASE RelayEnds(s)
  BY <1>19 DEF RelayEnds
<1>20. CASE ReadyTimeout(s)
  BY <1>20 DEF ReadyTimeout
<1>21. CASE CloseTimeout(s)
  BY <1>21 DEF CloseTimeout
<1>22. CASE \E c \in Child : PrintReady(s, c) \/ Exits(s, c)
  BY <1>22 DEF PrintReady, Exits
<1>23. QED
  BY <1>1, <1>2, <1>3, <1>4, <1>5, <1>6, <1>7, <1>8, <1>9, <1>10, <1>11, <1>12, <1>13,
       <1>14, <1>15, <1>16, <1>17, <1>18, <1>19, <1>20, <1>21, <1>22 DEF QuietAction
\* The steps that tell clients something, or move a launch.
TellingAction(s) ==
  \/ Dispatch(s) \/ Publish(s) \/ BeginSettle(s) \/ FinishSettle(s)
  \/ StopUnstarted(s) \/ StopUnsupervised(s)
  \/ \E stop \in Stop : StopSupervised(s, stop)

\* They leave what is known of the other sessions alone.
LEMMA TellsOne ==
  ASSUME LifeInv, NEW s \in Session, TellingAction(s)
  PROVE  \A t \in Session \ {s} : Lives(t)'
<1> SUFFICES ASSUME NEW t \in Session, t # s
             PROVE  Lives(t)'
  OBVIOUS
<1>1. Lives(t) /\ TypeOK
  BY DEF LifeInv
<1>2. /\ nextId' = nextId /\ entry'[t] = entry[t] /\ launch'[t] = launch[t]
      /\ sup'[t] = sup[t] /\ (sender'[t] => sender[t])
      /\ (t \in disowned' <=> t \in disowned)
  BY <1>1 DEF TypeOK, TellingAction, Dispatch, RegisterAbort, AckLaunch, StopUnresolved,
              TellUnresolved, Publish, BeginSettle, FinishSettle, StopUnstarted, Stopped,
              StopUnsupervised, StopSupervised, SetState, Goto, registry, history
<1>3. events'[t] = events[t]
  BY <1>1, ToldEvents
     DEF TellingAction, Dispatch, RegisterAbort, AckLaunch, StopUnresolved,
         TellUnresolved, Publish, BeginSettle, FinishSettle, StopUnstarted, Stopped,
         StopUnsupervised, StopSupervised, StoppingTold, Event, history
<1>4. QED
  BY <1>1, <1>2, <1>3, LivesFrame

\* The entry of a session that begins to stop, and its broadcast.
LEMMA BeginsToStop ==
  ASSUME TypeOK, NEW s \in Session, Truthful(s), entry[s] \notin {"none", "stopped"},
         SetState(s, "stopping"), events' = StoppingTold(s)
  PROVE  entry'[s] = "stopping" /\ Heard(s)' /\ Ordered(s)'
<1>1. entry'[s] = "stopping"
  BY DEF SetState, TypeOK
<1>2. CASE entry[s] = "stopping"
  <2>1. events' = events
    BY <1>2 DEF StoppingTold
  <2>2. QED
    BY <1>1, <1>2, <2>1 DEF Truthful, Heard, Ordered, Latest
<1>3. CASE entry[s] # "stopping"
  <2>1. events' = Told(s, "stopping") /\ "stopping" \in Event \ {"ack"}
    BY <1>3 DEF StoppingTold, Event
  <2>2. Latest(s, "stopping")' /\ Ordered(s)'
    BY <2>1, ToldIsLatest, ToldKeepsOrder DEF Truthful
  <2>3. QED
    BY <1>1, <2>2 DEF Heard
<1>4. QED
  BY <1>2, <1>3

\* The critical section that ends a session that has an entry.
LEMMA StopsTruthfully ==
  ASSUME LifeInv, NEW s \in Session, Stopped(s), sup[s] \in {"finish", "unstarted"},
         sup' = [sup EXCEPT ![s] = "done"],
         UNCHANGED <<nextId, launch, disowned>>
  PROVE  Lives(s)'
<1>1. TypeOK /\ Lives(s)
  BY DEF LifeInv
<1>2. /\ sup'[s] = "done" /\ ~sender'[s]
      /\ entry'[s] = IF entry[s] = "none" THEN "none" ELSE "stopped"
      /\ events' = Told(s, "stopped") /\ "stopped" \in Event \ {"ack"}
  BY <1>1 DEF Stopped, SetState, TypeOK, Event
<1>3. Launched(s)'
  BY <1>1, <1>2 DEF Lives, Launched
<1>4. ASSUME s \notin disowned
      PROVE  Truthful(s)'
  <2>1. Latest(s, "stopped")' /\ Ordered(s)'
    BY <1>1, <1>2, <1>4, ToldIsLatest, ToldKeepsOrder DEF Lives, Truthful
  <2>2. entry'[s] = "stopped"
    BY <1>1, <1>2, <1>4 DEF Lives, Truthful, EntryFits, InStartup, InEnding
  <2>3. EntryFits(s)'
    BY <1>1, <1>2, <2>2 DEF EntryFits, Lives, Launched, InStartup, InService, InEnding
  <2>4. QED
    BY <1>2, <2>1, <2>2, <2>3 DEF Truthful, Heard
<1>5. QED
  BY <1>1, <1>3, <1>4 DEF Lives
LEMMA TellsHere ==
  ASSUME LifeInv, NEW s \in Session, TellingAction(s)
  PROVE  Lives(s)'
<1> USE DEF InStartup, InService, InEnding
<1>1. TypeOK /\ Lives(s)
  BY DEF LifeInv
<1>2. CASE RegisterAbort(s)
  <2>1. /\ UNCHANGED <<nextId, entry, events, disowned>>
        /\ launch[s] = "inserted" /\ sup[s] = "none"
    BY <1>1, <1>2 DEF RegisterAbort, history, Lives, Launched
  <2>2. \/ launch'[s] = "spawned" /\ sup'[s] = "open"
        \/ launch'[s] = "unresolved" /\ sup'[s] = "none"
    BY <1>1, <1>2, <2>1 DEF RegisterAbort, TypeOK
  <2>3. QED
    BY <1>1, <2>1, <2>2 DEF Lives, Launched, Truthful, EntryFits, Heard, Ordered, Latest
<1>3. CASE AckLaunch(s)
  <2>1. /\ UNCHANGED <<nextId, entry, sender, sup, disowned>>
        /\ events' = Told(s, "ack") /\ "ack" \in Event
        /\ \/ launch[s] = "spawned" /\ launch'[s] = "acked"
           \/ launch[s] = "unresolved" /\ launch'[s] = "stopNow"
    BY <1>1, <1>3 DEF AckLaunch, registry, TypeOK, Event
  <2>2. Launched(s)'
    BY <1>1, <2>1 DEF Lives, Launched
  <2>3. ASSUME s \notin disowned
        PROVE  Truthful(s)'
    <3>1. EntryFits(s)'
      BY <1>1, <2>1, <2>3 DEF Lives, Launched, Truthful, EntryFits
    <3>2. Ordered(s)'
      BY <1>1, <2>1, <2>3, ToldKeepsOrder DEF Lives, Truthful
    <3>3. \A e : Latest(s, e) => Latest(s, e)'
      BY <1>1, <2>1, AckKeepsLatest
    <3>4. \A i \in DOMAIN events'[s] :
            events'[s][i] = "ack" \/ \E j \in DOMAIN events[s] : events'[s][i] = events[s][j]
      BY <1>1, <2>1, ToldAdds
    <3>5. Heard(s)'
      BY <1>1, <2>1, <2>3, <3>3, <3>4 DEF Lives, Truthful, Heard
    <3>6. QED
      BY <3>1, <3>2, <3>5 DEF Truthful
  <2>4. QED
    BY <2>1, <2>2, <2>3 DEF Lives
<1>4. CASE StopUnresolved(s)
  <2>1. /\ UNCHANGED <<nextId, events, sup, disowned>>
        /\ launch[s] = "stopNow" /\ launch'[s] = "tell" /\ ~sender'[s]
        /\ entry'[s] \in {"none", "stopped"}
    BY <1>1, <1>4 DEF StopUnresolved, SetState, TypeOK, history
  <2>2. sup[s] = "none"
    BY <1>1, <2>1 DEF Lives, Launched
  <2>3. QED
    BY <1>1, <2>1, <2>2 DEF Lives, Launched, Truthful, EntryFits, Heard, Ordered
<1>5. CASE TellUnresolved(s)
  <2>1. /\ UNCHANGED <<nextId, entry, sender, sup, disowned>>
        /\ events' = Told(s, "stopped") /\ "stopped" \in Event
        /\ launch[s] = "tell" /\ launch'[s] = "acked"
    BY <1>1, <1>5 DEF TellUnresolved, registry, TypeOK, Event
  <2>2. sup[s] = "none"
    BY <1>1, <2>1 DEF Lives, Launched
  <2>3. s \notin disowned => Ordered(s)'
    BY <1>1, <2>1, ToldKeepsOrder DEF Lives, Truthful
  <2>4. QED
    BY <1>1, <2>1, <2>2, <2>3 DEF Lives, Launched, Truthful, EntryFits, Heard
<1>6. CASE Publish(s)
  <2>1. CASE Overtaken(s)
    <3>1. Moves(s) /\ UNCHANGED <<nextId, entry, launch, events, sender, disowned>>
      BY <1>1, <1>6, <2>1
         DEF Publish, Moves, Goto, TypeOK, SupStep, Waiting, Listening, Settling
    <3>2. QED
      BY <3>1, QuietLife
  <2>2. CASE ~Overtaken(s)
    <3>1. /\ UNCHANGED <<nextId, launch, sender, disowned>>
          /\ sup[s] = "publish" /\ sup'[s] = "run"
          /\ events' = Told(s, "running") /\ "running" \in Event \ {"ack"}
          /\ entry'[s] = IF entry[s] = "none" THEN "none" ELSE "running"
          /\ entry[s] # "stopping"
      BY <1>1, <1>6, <2>2 DEF Publish, Goto, SetState, TypeOK, Overtaken, Event
    <3>2. Launched(s)'
      BY <1>1, <3>1 DEF Lives, Launched
    <3>3. ASSUME s \notin disowned
          PROVE  Truthful(s)'
      <4>1. entry[s] = "starting" /\ Truthful(s)
        BY <1>1, <3>1, <3>3 DEF Lives, Truthful, EntryFits
      <4>2. \A i \in DOMAIN events[s] : events[s][i] = "ack"
        BY <4>1 DEF Truthful, Heard
      <4>3. Ordered(s)'
        BY <1>1, <3>1, <4>1, <4>2, ToldKeepsOrder DEF Truthful
      <4>4. Latest(s, "running")'
        BY <1>1, <3>1, ToldIsLatest
      <4>5. \A i \in DOMAIN events'[s] : events'[s][i] \notin {"stopping", "stopped"}
        BY <1>1, <3>1, <4>2, ToldAdds
      <4>6. EntryFits(s)'
        BY <1>1, <3>1, <4>1 DEF EntryFits, Lives, Launched
      <4>7. QED
        BY <3>1, <4>1, <4>3, <4>4, <4>5, <4>6 DEF Truthful, Heard
    <3>4. QED
      BY <3>1, <3>2, <3>3 DEF Lives
  <2>3. QED
    BY <2>1, <2>2
<1>7. CASE BeginSettle(s)
  <2>1. /\ UNCHANGED <<nextId, launch, sender, disowned>>
        /\ sup[s] = "settle" /\ sup'[s] = "killShell"
        /\ SetState(s, "stopping") /\ events' = StoppingTold(s)
    BY <1>1, <1>7 DEF BeginSettle, Goto, TypeOK
  <2>2. Launched(s)'
    BY <1>1, <2>1 DEF Lives, Launched
  <2>3. ASSUME s \notin disowned
        PROVE  Truthful(s)'
    <3>1. Truthful(s) /\ entry[s] \in {"starting", "running", "stopping"}
      BY <1>1, <2>1, <2>3 DEF Lives, Truthful, EntryFits
    <3>2. entry'[s] = "stopping" /\ Heard(s)' /\ Ordered(s)'
      BY <1>1, <2>1, <3>1, BeginsToStop
    <3>3. EntryFits(s)'
      BY <1>1, <2>1, <3>2 DEF EntryFits, Lives, Launched
    <3>4. QED
      BY <3>2, <3>3 DEF Truthful
  <2>4. QED
    BY <2>1, <2>2, <2>3 DEF Lives
<1>8. CASE FinishSettle(s)
  BY <1>1, <1>8, StopsTruthfully DEF FinishSettle, Goto, children
<1>9. CASE StopUnstarted(s)
  BY <1>1, <1>9, StopsTruthfully DEF StopUnstarted, Goto, children
<1>10. CASE StopUnsupervised(s)
  <2>1. /\ UNCHANGED <<nextId, launch, sup, sender, events>>
        /\ entry[s] # "none" /\ entry'[s] = "none"
        /\ s \notin disowned' => s \notin disowned /\ entry[s] = "stopped"
    BY <1>1, <1>10 DEF StopUnsupervised, TypeOK
  <2>2. Launched(s)'
    BY <1>1, <2>1 DEF Lives, Launched
  <2>3. ASSUME s \notin disowned'
        PROVE  Truthful(s)'
    BY <1>1, <2>1, <2>3 DEF Lives, Truthful, EntryFits, Heard, Ordered
  <2>4. QED
    BY <2>2, <2>3 DEF Lives
<1>11. ASSUME NEW stop \in Stop, StopSupervised(s, stop)
       PROVE  Lives(s)'
  <2>1. UNCHANGED <<nextId, launch, sup, sender, disowned>> /\ sender[s]
    BY <1>11 DEF StopSupervised
  <2>2. CASE UNCHANGED <<entry, events>>
    BY <1>1, <2>1, <2>2, LivesFrame
  <2>3. CASE SetState(s, "stopping") /\ events' = StoppingTold(s)
    <3>1. entry[s] = "none" => entry'[s] = "none"
      BY <1>1, <2>3 DEF SetState, TypeOK
    <3>2. ~(s > nextId)
      BY <1>1, <2>1 DEF Lives, Launched
    <3>3. Launched(s)'
      BY <1>1, <2>1, <3>2 DEF Lives, Launched
    <3>4. ASSUME s \notin disowned
          PROVE  Truthful(s)'
      <4>1. Truthful(s) /\ Launched(s) /\ sup[s] \in SupStep
        BY <1>1, <3>4 DEF Lives, TypeOK
      <4>2. entry[s] \in {"starting", "running", "stopping"}
        BY <2>1, <4>1
           DEF Truthful, EntryFits, Launched, SupStep, Listening, Waiting, Settling
      <4>3. entry'[s] = "stopping" /\ Heard(s)' /\ Ordered(s)'
        BY <1>1, <2>3, <4>1, <4>2, BeginsToStop
      <4>4. EntryFits(s)'
        BY <2>1, <4>1, <4>2, <4>3 DEF Truthful, EntryFits, Launched
      <4>5. QED
        BY <4>3, <4>4 DEF Truthful
    <3>5. QED
      BY <2>1, <3>3, <3>4 DEF Lives
  <2>4. QED
    BY <1>11, <2>2, <2>3 DEF StopSupervised
<1>12. QED
  BY <1>2, <1>3, <1>4, <1>5, <1>6, <1>7, <1>8, <1>9, <1>10, <1>11
     DEF TellingAction, Dispatch
\* A launch begins the life of one session, and forgets only stopped ones.
LEMMA LaunchLives ==
  ASSUME LifeInv, Launch, NEW t \in Session
  PROVE  Lives(t)'
<1>1. TypeOK /\ Lives(t)
  BY DEF LifeInv
<1>2. /\ nextId \in Nat /\ nextId' = nextId + 1 /\ nextId' \in Session
      /\ UNCHANGED <<sender, sup, events, disowned>>
  BY <1>1, BoundAssumption DEF Launch, TypeOK, Session, history
<1>3. t \in Nat
  BY DEF Session
<1>4. CASE t = nextId + 1
  <2>1. entry'[t] = "starting" /\ launch'[t] = "inserted"
    <3>1. /\ entry' = [x \in Session |-> CASE x = nextId + 1 -> "starting"
                                            [] x \in Pruned  -> "none"
                                            [] OTHER         -> entry[x]]
          /\ launch' = [launch EXCEPT ![nextId + 1] = "inserted"]
      BY DEF Launch
    <3>2. t \notin Pruned
      BY <1>1, <1>2, <1>3, <1>4 DEF Pruned, StoppedIds, Lives, Launched
    <3>3. QED
      BY <1>1, <1>4, <3>1, <3>2 DEF TypeOK
  <2>2. launch[t] = "idle" /\ events[t] = <<>> /\ sup[t] = "none" /\ ~sender[t]
    BY <1>1, <1>2, <1>3, <1>4 DEF Lives, Launched
  <2>3. QED
    BY <1>2, <1>4, <2>1, <2>2
       DEF Lives, Launched, Truthful, EntryFits, Heard, Ordered, InStartup, InService, InEnding
<1>5. CASE t # nextId + 1
  <2>1. launch'[t] = launch[t] /\ sup'[t] = sup[t] /\ events'[t] = events[t]
    BY <1>1, <1>2, <1>5 DEF Launch, TypeOK
  <2>2. \/ entry'[t] = entry[t]
        \/ entry[t] = "stopped" /\ entry'[t] = "none"
    BY <1>5 DEF Launch, Pruned, StoppedIds
  <2>3. t > nextId <=> t > nextId'
    BY <1>2, <1>3, <1>5
  <2>4. Launched(t)'
    BY <1>1, <1>2, <2>1, <2>2, <2>3 DEF Lives, Launched
  <2>5. ASSUME t \notin disowned
        PROVE  Truthful(t)'
    BY <1>1, <2>1, <2>2, <2>5 DEF Lives, Truthful, EntryFits, Heard, Ordered, Latest
  <2>6. QED
    BY <1>2, <2>4, <2>5 DEF Lives
<1>6. QED
  BY <1>4, <1>5

LEMMA LifeStep ==
  ASSUME LifeInv, [Next]_vars
  PROVE  LifeInv'
<1>1. TypeOK'
  BY NextType DEF LifeInv
<1>2. CASE Launch
  BY <1>1, <1>2, LaunchLives DEF LifeInv
<1>3. CASE ShutdownAll \/ Connection \/ UNCHANGED vars
  <2>1. /\ UNCHANGED <<nextId, entry, launch, events, sup, disowned>>
        /\ \A t \in Session : sender'[t] => sender[t]
    BY <1>3 DEF ShutdownAll, Connection, vars, registry, history
  <2>2. QED
    BY <1>1, <2>1, LivesFrame DEF LifeInv
<1>4. ASSUME NEW s \in Session, QuietAction(s)
      PROVE  LifeInv'
  BY <1>1, <1>4, QuietActionMoves, QuietLife DEF LifeInv
<1>5. ASSUME NEW s \in Session, TellingAction(s)
      PROVE  LifeInv'
  BY <1>1, <1>5, TellsHere, TellsOne DEF LifeInv
<1>6. ASSUME NEW s \in Session,
             \/ Dispatch(s) \/ Supervise(s) \/ Environment(s)
             \/ ReadyTimeout(s) \/ CloseTimeout(s)
      PROVE  LifeInv'
  BY <1>4, <1>5, <1>6 DEF QuietAction, TellingAction, Supervise, Environment
<1>7. QED
  BY <1>2, <1>3, <1>6 DEF Next

LEMMA LifeInit ==
  ASSUME Init
  PROVE  LifeInv
<1>1. TypeOK
  BY InitType
<1>2. ASSUME NEW s \in Session
      PROVE  Lives(s)
  <2>1. s > nextId
    BY DEF Init, Session
  <2>2. QED
    BY <2>1 DEF Init, Lives, Launched, Truthful, EntryFits, Heard, Ordered, Latest,
                InStartup, InService, InEnding
<1>3. QED
  BY <1>1, <1>2 DEF LifeInv

\* Whatever races a session's READY, no client hears that it runs after it
\* heard that it stops.
THEOREM NeverReadyAfterStop == Spec => []NoReadyAfterStop
<1>1. LifeInv => NoReadyAfterStop
  BY DEF LifeInv, Lives, Truthful, Ordered, NoReadyAfterStop
<1>2. QED
  BY <1>1, LifeInit, LifeStep, PTL DEF Spec

\* The latest state broadcast for a supervised session is its registered one.
THEOREM BroadcastsMatch == Spec => []BroadcastMatchesRegistry
<1>1. LifeInv => BroadcastMatchesRegistry
  BY DEF LifeInv, Lives, Truthful, Heard, BroadcastMatchesRegistry
<1>2. QED
  BY <1>1, LifeInit, LifeStep, PTL DEF Spec
-----------------------------------------------------------------------------
(***************************************************************************)
(* appd implements the abstract life of a session.                         *)
(***************************************************************************)
MapInv == LifeInv /\ OwnedInv

\* The cases of Shown exclude each other.
LEMMA ShownCases ==
  ASSUME LifeInv, NEW s \in Session
  PROVE  /\ s > nextId => Shown(s) = "absent"
         /\ s \in disowned => Shown(s) = "disowned"
         /\ s <= nextId /\ s \notin disowned =>
              Shown(s) = IF entry[s] = "none" THEN "forgotten" ELSE entry[s]
  BY DEF LifeInv, Lives, Launched, Shown, TypeOK, Session

LEMMA NextShownCases ==
  ASSUME LifeInv', NEW s \in Session
  PROVE  /\ s > nextId' => Shown(s)' = "absent"
         /\ s \in disowned' => Shown(s)' = "disowned"
         /\ s <= nextId' /\ s \notin disowned' =>
              Shown(s)' = IF entry'[s] = "none" THEN "forgotten" ELSE entry'[s]
  BY DEF LifeInv, Lives, Launched, Shown, TypeOK, Session

Same(t) == Shown(t)' = Shown(t) /\ Live(t)' = Live(t)

LEMMA ShowsNothing ==
  ASSUME \A t \in Session : Same(t)
  PROVE  UNCHANGED Lifecycle!vars
  BY DEF Same, Lifecycle!vars

\* A step that shows nothing of the session but leaves it without a child.
LEMMA ShowsChild ==
  ASSUME NEW s \in Session, \A t \in Session \ {s} : Same(t),
         Shown(s)' = Shown(s),
         Live(s)' = Live(s) \/ Shown(s) = "disowned"
           \/ (Live(s)' = FALSE /\ Shown(s) \in {"starting", "running", "stopping"})
           \/ (Live(s)' = TRUE /\ Shown(s) \in {"starting", "stopping"})
  PROVE  [Lifecycle!Next]_(Lifecycle!vars)
<1> Live(s) \in BOOLEAN /\ Live(s)' \in BOOLEAN
  BY DEF Live
<1>1. CASE Live(s)' = Live(s)
  BY <1>1, ShowsNothing DEF Same
<1>2. CASE Live(s)' # Live(s)
  <2>1. /\ UNCHANGED [t \in Session |-> Shown(t)]
        /\ [t \in Session |-> Live(t)]' =
             [[t \in Session |-> Live(t)] EXCEPT ![s] = Live(s)']
    BY DEF Same
  <2>2. /\ [t \in Session |-> Shown(t)][s] = Shown(s)
        /\ [t \in Session |-> Live(t)][s] = Live(s)
    OBVIOUS
  <2>3. CASE Shown(s) = "disowned"
    BY <1>2, <2>1, <2>2, <2>3 DEF Lifecycle!Next, Lifecycle!DisownedStep
  <2>4. CASE Live(s)' = FALSE /\ Shown(s) \in {"starting", "running", "stopping"}
    BY <2>1, <2>2, <2>4 DEF Lifecycle!Next, Lifecycle!Quiesce
  <2>5. CASE Live(s)' = TRUE /\ Shown(s) \in {"starting", "stopping"}
    BY <2>1, <2>2, <2>5 DEF Lifecycle!Next, Lifecycle!Spawn
  <2>6. QED
    BY <1>2, <2>3, <2>4, <2>5
<1>3. QED
  BY <1>1, <1>2

\* A step that shows another state of one session.
LEMMA ShowsState ==
  ASSUME NEW s \in Session, \A t \in Session \ {s} : Same(t),
         Live(s)' = Live(s),
         \/ Shown(s)' = Shown(s)
         \/ Shown(s) = "starting" /\ Shown(s)' = "running"
         \/ Shown(s) \in {"starting", "running"} /\ Shown(s)' = "stopping"
         \/ ~Live(s) /\ Shown(s) \in {"starting", "stopping"} /\ Shown(s)' = "stopped"
         \/ Shown(s) = "stopped" /\ Shown(s)' = "forgotten"
         \/ Shown(s) \in {"starting", "running", "stopping"} /\ Shown(s)' = "disowned"
  PROVE  [Lifecycle!Next]_(Lifecycle!vars)
<1>1. CASE Shown(s)' = Shown(s)
  BY <1>1, ShowsNothing DEF Same
<1>2. CASE Shown(s)' # Shown(s)
  <2>1. /\ UNCHANGED [t \in Session |-> Live(t)]
        /\ [t \in Session |-> Shown(t)]' =
             [[t \in Session |-> Shown(t)] EXCEPT ![s] = Shown(s)']
    BY DEF Same
  <2>2. /\ [t \in Session |-> Shown(t)][s] = Shown(s)
        /\ [t \in Session |-> Live(t)][s] = Live(s)
    OBVIOUS
  <2>3. CASE Shown(s) = "starting" /\ Shown(s)' = "running"
    BY <2>1, <2>2, <2>3 DEF Lifecycle!Next, Lifecycle!Ready, Lifecycle!Become
  <2>4. CASE Shown(s) \in {"starting", "running"} /\ Shown(s)' = "stopping"
    BY <2>1, <2>2, <2>4 DEF Lifecycle!Next, Lifecycle!Stop, Lifecycle!Become
  <2>5. CASE ~Live(s) /\ Shown(s) \in {"starting", "stopping"} /\ Shown(s)' = "stopped"
    BY <2>1, <2>2, <2>5 DEF Lifecycle!Next, Lifecycle!Settle, Lifecycle!Become
  <2>6. CASE Shown(s) = "stopped" /\ Shown(s)' = "forgotten"
    BY <2>1, <2>2, <2>6 DEF Lifecycle!Next, Lifecycle!Forget, Lifecycle!Become
  <2>7. CASE Shown(s) \in {"starting", "running", "stopping"} /\ Shown(s)' = "disowned"
    BY <2>1, <2>2, <2>7 DEF Lifecycle!Next, Lifecycle!Disown, Lifecycle!Become
  <2>8. QED
    BY <1>2, <2>3, <2>4, <2>5, <2>6, <2>7
<1>3. QED
  BY <1>1, <1>2
\* A step that leaves a session's entry and children alone shows nothing of it.
LEMMA SameFrame ==
  ASSUME NEW t \in Session, nextId' = nextId, entry'[t] = entry[t],
         t \in disowned' <=> t \in disowned, proc'[t] = proc[t]
  PROVE  Same(t)
  BY DEF Same, Shown, Live

\* What a supervised session is shown as while it may have a child.
LEMMA LiveIsShown ==
  ASSUME MapInv, NEW s \in Session, Live(s)
  PROVE  Shown(s) \in {"starting", "running", "stopping", "disowned"}
<1>1. /\ Owns(s) /\ Lives(s) /\ sup[s] \in SupStep /\ LifeInv
  BY DEF MapInv, OwnedInv, LifeInv, TypeOK
<1>2. sup[s] \notin {"none", "done"}
  BY <1>1 DEF Owns, Live
<1>3. s <= nextId
  BY <1>1, <1>2 DEF Lives, Launched, LifeInv, TypeOK, Session
<1>4. s \notin disowned => entry[s] \in {"starting", "running", "stopping"}
  BY <1>1, <1>2 DEF Lives, Truthful, EntryFits, SupStep, InStartup, InService, InEnding,
                    Listening, Waiting, Settling
<1>5. QED
  BY <1>1, <1>3, <1>4, ShownCases

LEMMA QuietSimulates ==
  ASSUME MapInv, NEW s \in Session, QuietAction(s)
  PROVE  [Lifecycle!Next]_(Lifecycle!vars)
<1> USE DEF Goto, world, registry, children, owned, history
<1>1. TypeOK /\ LifeInv /\ Owns(s) /\ Lives(s)
  BY DEF MapInv, OwnedInv, LifeInv
<1>2. UNCHANGED <<nextId, entry, disowned>>
  BY <1>1, QuietActionMoves
<1>3. \A t \in Session \ {s} : Same(t)
  <2> SUFFICES ASSUME NEW t \in Session, t # s
               PROVE  Same(t)
    OBVIOUS
  <2>1. proc'[t] = proc[t]
    BY <1>1 DEF TypeOK, QuietAction, OpenRelay, SpawnRuntime, RuntimeReady, StartShell,
                ShellReady, StartupFails, StartupAborted, RunEnds, TakeForce, TakeClose,
                TakeRepeatedClose, Take, SeeShutdown, CloseDeclined, KillShell,
                KillRuntime, Killed, Release, ForwardToEndedRelay, Declines, RelayEnds,
                PrintReady, Exits, ReadyTimeout, CloseTimeout
  <2>2. QED
    BY <1>2, <2>1, SameFrame
<1>4. Shown(s)' = Shown(s)
  BY <1>2 DEF Shown
<1>5. CASE UNCHANGED proc
  BY <1>3, <1>4, <1>5, ShowsChild DEF Live
<1>6. CASE SpawnRuntime(s) \/ StartShell(s)
  <2>1. sup[s] \in {"spawn", "attach"}
    BY <1>6 DEF SpawnRuntime, StartShell
  <2>2. s <= nextId
    BY <1>1, <2>1 DEF Lives, Launched, TypeOK, Session
  <2>3. s \notin disowned => entry[s] \in {"starting", "stopping"}
    BY <1>1, <2>1 DEF Lives, Truthful, EntryFits, InStartup
  <2>4. Shown(s) \in {"starting", "stopping", "disowned"}
    BY <1>1, <2>2, <2>3, ShownCases
  <2>5. \/ UNCHANGED proc
        \/ \E c \in Child : proc' = [proc EXCEPT ![s][c] = "live"]
    BY <1>6 DEF SpawnRuntime, StartShell, Child
  <2>6. Live(s)' \in {Live(s), TRUE}
    BY <1>1, <2>5 DEF Live, TypeOK
  <2>7. QED
    BY <1>3, <1>4, <2>4, <2>6, ShowsChild
<1>7. CASE \E c \in Child : proc' = [proc EXCEPT ![s][c] = "exited"]
  <2>1. Live(s)' => Live(s)
    BY <1>1, <1>7 DEF Live, TypeOK
  <2>2. Live(s) \in BOOLEAN /\ Live(s)' \in BOOLEAN
    BY DEF Live
  <2>3. Live(s) => Shown(s) \in {"starting", "running", "stopping", "disowned"}
    BY LiveIsShown
  <2>4. QED
    BY <1>3, <1>4, <2>1, <2>2, <2>3, ShowsChild
<1>8. ASSUME NEW c \in Child, Killed(s, c)
      PROVE  \/ UNCHANGED proc
             \/ proc' = [proc EXCEPT ![s][c] = "exited"]
  BY <1>1, <1>8 DEF Killed, TypeOK
<1>9. QED
  BY <1>5, <1>6, <1>7, <1>8
     DEF QuietAction, OpenRelay, RuntimeReady, ShellReady, StartupFails, StartupAborted,
         RunEnds, TakeForce, TakeClose, TakeRepeatedClose, SeeShutdown, CloseDeclined,
         KillShell, KillRuntime, Release, ForwardToEndedRelay, Declines, RelayEnds,
         PrintReady, Exits, ReadyTimeout, CloseTimeout, Child

LEMMA TellingSimulates ==
  ASSUME MapInv, LifeInv', NEW s \in Session, TellingAction(s)
  PROVE  [Lifecycle!Next]_(Lifecycle!vars)
<1>1. TypeOK /\ LifeInv /\ Owns(s) /\ Lives(s) /\ Launched(s)
  BY DEF MapInv, OwnedInv, LifeInv, Lives
<1>2. UNCHANGED <<nextId, proc>>
  BY DEF TellingAction, Dispatch, RegisterAbort, AckLaunch, StopUnresolved, TellUnresolved,
         Publish, BeginSettle, FinishSettle, StopUnstarted, StopUnsupervised,
         StopSupervised, registry, children
<1>3. \A t \in Session \ {s} : Same(t)
  <2> SUFFICES ASSUME NEW t \in Session, t # s
               PROVE  Same(t)
    OBVIOUS
  <2>1. entry'[t] = entry[t] /\ (t \in disowned' <=> t \in disowned)
    BY <1>1 DEF TypeOK, TellingAction, Dispatch, RegisterAbort, AckLaunch, StopUnresolved,
                TellUnresolved, Publish, BeginSettle, FinishSettle, StopUnstarted,
                Stopped, StopUnsupervised, StopSupervised, SetState, registry, history
  <2>2. QED
    BY <1>2, <2>1, SameFrame
<1>4. Live(s)' = Live(s)
  BY <1>2 DEF Live
<1>5. s <= nextId
  <2>1. launch[s] # "idle" \/ sup[s] # "none" \/ entry[s] # "none" \/ sender[s]
    BY DEF TellingAction, Dispatch, RegisterAbort, AckLaunch, StopUnresolved,
           TellUnresolved, Publish, BeginSettle, FinishSettle, StopUnstarted,
           StopUnsupervised, StopSupervised, Goto
  <2>2. QED
    BY <1>1, <2>1 DEF Launched, TypeOK, Session
<1>6. /\ s \in disowned => Shown(s) = "disowned"
      /\ s \notin disowned => Shown(s) = IF entry[s] = "none" THEN "forgotten" ELSE entry[s]
      /\ s \in disowned' => Shown(s)' = "disowned"
      /\ s \notin disowned' => Shown(s)' = IF entry'[s] = "none" THEN "forgotten" ELSE entry'[s]
  BY <1>1, <1>2, <1>5, ShownCases, NextShownCases
<1>7. s \notin disowned => EntryFits(s)
  BY <1>1 DEF Lives, Truthful
<1>8. s \in disowned => s \in disowned'
  BY DEF TellingAction, Dispatch, RegisterAbort, AckLaunch, StopUnresolved, TellUnresolved,
         Publish, BeginSettle, FinishSettle, StopUnstarted, StopUnsupervised,
         StopSupervised, history
<1>9. CASE s \in disowned
  BY <1>3, <1>4, <1>6, <1>8, <1>9, ShowsState
<1>10. CASE s \notin disowned
  <2>1. CASE UNCHANGED <<entry, disowned>>
    BY <1>3, <1>4, <1>6, <2>1, ShowsState
  <2>2. CASE StopUnresolved(s)
    <3>1. sup[s] = "none" /\ entry[s] \in {"starting", "stopping"}
      BY <1>1, <1>7, <1>10, <2>2 DEF StopUnresolved, Launched, EntryFits
    <3>2. ~Live(s)
      BY <1>1, <3>1 DEF Owns, Live
    <3>3. entry'[s] = "stopped" /\ s \notin disowned'
      BY <1>1, <1>10, <2>2, <3>1 DEF StopUnresolved, SetState, TypeOK, history
    <3>4. QED
      BY <1>3, <1>4, <1>6, <1>10, <3>1, <3>2, <3>3, ShowsState
  <2>3. CASE Publish(s) /\ ~Overtaken(s)
    <3>1. entry[s] = "starting" /\ entry'[s] = "running" /\ s \notin disowned'
      BY <1>1, <1>7, <1>10, <2>3
         DEF Publish, Overtaken, Goto, SetState, EntryFits, InStartup, TypeOK
    <3>2. QED
      BY <1>3, <1>4, <1>6, <1>10, <3>1, ShowsState
  <2>4. CASE /\ SetState(s, "stopping")
             /\ BeginSettle(s) \/ \E stop \in Stop : StopSupervised(s, stop)
    <3>1. entry[s] \in {"starting", "running", "stopping"}
      <4>1. sup[s] = "settle" \/ sender[s]
        BY <2>4 DEF BeginSettle, StopSupervised, Goto
      <4>2. sup[s] \in SupStep
        BY <1>1 DEF TypeOK
      <4>3. QED
        BY <1>1, <1>7, <1>10, <4>1, <4>2
           DEF Launched, EntryFits, SupStep, Listening, Waiting, Settling, InStartup,
               InService, InEnding
    <3>2. entry'[s] = "stopping" /\ s \notin disowned'
      BY <1>1, <1>10, <2>4, <3>1 DEF SetState, BeginSettle, StopSupervised, TypeOK
    <3>3. QED
      BY <1>3, <1>4, <1>6, <1>10, <3>1, <3>2, ShowsState
  <2>5. CASE FinishSettle(s) \/ StopUnstarted(s)
    <3>1. sup[s] \in {"finish", "unstarted"}
      BY <2>5 DEF FinishSettle, StopUnstarted, Goto
    <3>2. entry[s] \in {"starting", "stopping"}
      BY <1>7, <1>10, <3>1 DEF EntryFits, InStartup, InEnding
    <3>3. ~Live(s)
      BY <1>1, <3>1 DEF Owns, Live
    <3>4. entry'[s] = "stopped" /\ s \notin disowned'
      BY <1>1, <1>10, <2>5, <3>2 DEF FinishSettle, StopUnstarted, Stopped, SetState, TypeOK
    <3>5. QED
      BY <1>3, <1>4, <1>6, <1>10, <3>2, <3>3, <3>4, ShowsState
  <2>6. CASE StopUnsupervised(s)
    <3>1. /\ entry[s] \in EntryState \ {"none"} /\ entry'[s] = "none"
          /\ entry[s] = "stopped" => s \notin disowned'
          /\ entry[s] # "stopped" => s \in disowned'
      BY <1>1, <1>10, <2>6 DEF StopUnsupervised, TypeOK
    <3>2. QED
      BY <1>3, <1>4, <1>6, <1>10, <3>1, ShowsState DEF EntryState
  <2>7. QED
    BY <2>1, <2>2, <2>3, <2>4, <2>5, <2>6
       DEF TellingAction, Dispatch, RegisterAbort, AckLaunch, TellUnresolved, Publish,
           BeginSettle, StopSupervised, registry, history
<1>11. QED
  BY <1>9, <1>10
LEMMA LaunchSimulates ==
  ASSUME MapInv, LifeInv', Launch
  PROVE  [Lifecycle!Next]_(Lifecycle!vars)
<1> DEFINE gone == {t \in Session : entry[t] = "stopped" /\ entry'[t] = "none"
                                    /\ t \notin disowned}
<1>1. TypeOK /\ LifeInv
  BY DEF MapInv, LifeInv
<1>2. PICK n \in Session : n = nextId + 1
  BY <1>1, BoundAssumption DEF Launch, TypeOK, Session
<1>3. /\ nextId' = n /\ UNCHANGED <<proc, disowned>>
      /\ nextId \in Nat
      /\ entry' = [t \in Session |-> CASE t = n         -> "starting"
                                       [] t \in Pruned  -> "none"
                                       [] OTHER         -> entry[t]]
  BY <1>1, <1>2 DEF Launch, children, history, TypeOK
<1>4. /\ Shown(n) = "absent" /\ n \notin Pruned /\ n \notin disowned
      /\ entry[n] = "none"
  <2>1. n > nextId
    BY <1>2, <1>3
  <2>2. QED
    BY <1>1, <2>1, ShownCases DEF Pruned, StoppedIds, LifeInv, Lives, Launched
<1>5. Shown(n)' = "starting"
  <2>1. entry'[n] = "starting" /\ n <= nextId' /\ n \notin disowned'
    BY <1>2, <1>3, <1>4
  <2>2. QED
    BY <2>1, NextShownCases
<1>6. ASSUME NEW t \in Session, t # n
      PROVE  Shown(t)' = IF t \in gone THEN "forgotten" ELSE Shown(t)
  <2>1. entry'[t] = IF t \in Pruned THEN "none" ELSE entry[t]
    BY <1>3, <1>6
  <2>2. t \in Pruned => entry[t] = "stopped"
    BY DEF Pruned, StoppedIds
  <2>3. CASE t > nextId'
    <3>1. t > nextId /\ entry[t] = "none"
      BY <1>1, <1>2, <1>3, <2>3 DEF Session, LifeInv, Lives, Launched
    <3>2. QED
      BY <1>1, <2>3, <3>1, ShownCases, NextShownCases
  <2>4. CASE t <= nextId'
    <3>1. t <= nextId
      BY <1>2, <1>3, <1>6, <2>4 DEF Session
    <3>2. CASE t \in disowned
      BY <1>1, <1>3, <3>2, ShownCases, NextShownCases
    <3>3. CASE t \notin disowned
      <4>1. /\ Shown(t) = IF entry[t] = "none" THEN "forgotten" ELSE entry[t]
            /\ Shown(t)' = IF entry'[t] = "none" THEN "forgotten" ELSE entry'[t]
        BY <1>1, <1>3, <2>4, <3>1, <3>3, ShownCases, NextShownCases
      <4>2. QED
        BY <2>1, <2>2, <3>3, <4>1
    <3>4. QED
      BY <3>2, <3>3
  <2>5. QED
    BY <1>3, <2>3, <2>4 DEF Session
<1>7. gone \in SUBSET {t \in Session : [x \in Session |-> Shown(x)][t] = "stopped"}
  <2> SUFFICES ASSUME NEW t \in gone
               PROVE  Shown(t) = "stopped"
    OBVIOUS
  <2>1. t <= nextId
    BY <1>1, <1>3 DEF LifeInv, Lives, Launched, Session
  <2>2. QED
    BY <1>1, <2>1, ShownCases
<1>8. [t \in Session |-> Shown(t)]' =
        [t \in Session |-> CASE t = n         -> "starting"
                             [] t \in gone    -> "forgotten"
                             [] OTHER         -> [x \in Session |-> Shown(x)][t]]
  <2> SUFFICES ASSUME NEW t \in Session
               PROVE  Shown(t)' = CASE t = n         -> "starting"
                                    [] t \in gone    -> "forgotten"
                                    [] OTHER         -> [x \in Session |-> Shown(x)][t]
    OBVIOUS
  <2>1. n \notin gone
    BY <1>4
  <2>2. QED
    BY <1>5, <1>6, <2>1
<1>9. UNCHANGED [t \in Session |-> Live(t)]
  BY <1>3 DEF Live
<1>10. Lifecycle!Launch(n)
  BY <1>2, <1>4, <1>7, <1>8, <1>9 DEF Lifecycle!Launch
<1>11. QED
  BY <1>2, <1>10 DEF Lifecycle!Next

\* What the clients are shown of every session, and when it has processes, is
\* a behaviour of the abstract life of a session.
THEOREM LifeImplemented == Spec => ImplementsLifecycle
<1>1. Init => MapInv /\ Lifecycle!Init
  <2> SUFFICES ASSUME Init
               PROVE  MapInv /\ Lifecycle!Init
    OBVIOUS
  <2>1. MapInv
    BY LifeInit, OwnedInit DEF MapInv
  <2>2. \A s \in Session : s > nextId
    BY DEF Init, Session
  <2>3. \A s \in Session : Shown(s) = "absent"
    BY <2>1, <2>2, ShownCases DEF MapInv
  <2>4. \A s \in Session : Live(s) = FALSE
    BY DEF Init, Live
  <2>5. Lifecycle!Init
    BY <2>3, <2>4 DEF Lifecycle!Init
  <2>6. QED
    BY <2>1, <2>5
<1>2. MapInv /\ [Next]_vars => MapInv' /\ [Lifecycle!Next]_(Lifecycle!vars)
  <2> SUFFICES ASSUME MapInv, [Next]_vars
               PROVE  MapInv' /\ [Lifecycle!Next]_(Lifecycle!vars)
    OBVIOUS
  <2>1. MapInv' /\ LifeInv'
    BY LifeStep, OwnedStep DEF MapInv
  <2>2. CASE Launch
    BY <2>1, <2>2, LaunchSimulates
  <2>3. CASE ShutdownAll \/ Connection \/ UNCHANGED vars
    <3>1. UNCHANGED <<nextId, entry, disowned, proc>>
      BY <2>3 DEF ShutdownAll, Connection, vars, registry, children, history
    <3>2. \A t \in Session : Same(t)
      BY <3>1, SameFrame
    <3>3. UNCHANGED Lifecycle!vars
      BY <3>2, ShowsNothing
    <3>4. QED
      BY <2>1, <3>3
  <2>4. ASSUME NEW s \in Session, QuietAction(s)
        PROVE  [Lifecycle!Next]_(Lifecycle!vars)
    BY <2>4, QuietSimulates
  <2>5. ASSUME NEW s \in Session, TellingAction(s)
        PROVE  [Lifecycle!Next]_(Lifecycle!vars)
    BY <2>1, <2>5, TellingSimulates
  <2>6. QED
    BY <2>1, <2>2, <2>3, <2>4, <2>5
       DEF Next, QuietAction, TellingAction, Supervise, Environment
<1>3. QED
  BY <1>1, <1>2, PTL DEF Spec, ImplementsLifecycle, Lifecycle!Safety
=============================================================================
