---------------------------- MODULE SystemShell ----------------------------
(***************************************************************************)
(* The way of a navigation gesture: swipes recognised by the compositor    *)
(* (input.rs) reach the panel of weft-servo-shell (shell_client.rs), which *)
(* forwards them, a batch at a time, over a connection of their own to     *)
(* weft-appd (embedder.rs), which broadcasts them (main.rs).  The shell    *)
(* finds weft-appd, and tells the page of it, by two files which weft-appd *)
(* replaces one after the other whenever it starts.                        *)
(*                                                                         *)
(* Each weft-appd has its own port, WEFT_APPD_WS_PORT set anew for it but  *)
(* not for the shell, and its own token, both named by its number; 0 is a  *)
(* file that is absent, empty or refused, and the default port, at which   *)
(* nothing listens.  ClientFeed has the page's own connection.  A swipe    *)
(* moves along one axis.                                                   *)
(***************************************************************************)
EXTENDS Naturals, Integers, Sequences, FiniteSets

CONSTANTS
  Fingers,      \* fingers of a swipe
  MinFingers,   \* NAVIGATION_SWIPE_FINGERS
  Threshold,    \* NAVIGATION_SWIPE_THRESHOLD
  MaxSwipes,    \* bound: swipes that are navigation gestures
  MaxAppds      \* bound: lives of weft-appd

VARIABLES
  \* the compositor
  gesture,      \* gesture_state
  panel,        \* whether the shell's panel is registered
  \* weft-appd
  appd,         \* its number and how far it has come
  wsport, systoken, \* the two files
  clients,      \* connections with gestures: to which weft-appd, by which token
  \* weft-servo-shell
  system,       \* "new", "shown" or "exited"
  events,       \* the gestures in its Wayland event queue
  batch,        \* gesture_thread: its endpoint and gestures, while it runs
  token,        \* the token read, while the port is not
  endpoint,     \* endpoint
  page,         \* the endpoint the page has
  \* history
  swipe,        \* the fingers and the way of the swipe under way, as they are
  full,         \* the number of swipes that ended as navigation gestures
  unwritten,    \* weft-appds that could not write their port
  broadcast     \* the gestures broadcast, the oldest first

compositor == <<gesture, panel, swipe, full>>
files == <<wsport, systoken, unwritten>>
server == <<appd, files>>
shellState == <<system, events, batch, token, endpoint, page>>
systemVars == <<compositor, server, clients, shellState, broadcast>>

Life == 0 .. MaxAppds
Endpoint == [port : Life, token : Life]
Unknown == [port |-> 0, token |-> 0]
NoBatch == [to |-> Unknown, gestures |-> <<>>]
NoSwipe == [in_progress |-> FALSE, fingers |-> 0, dx |-> 0]
Far == Threshold  \* how far a swipe is followed
Swipe == [in_progress : BOOLEAN, fingers : Fingers \cup {0}, dx : -Far .. Far]
Gestures == Seq(1 .. MaxSwipes)

TypeOK ==
  /\ gesture \in Swipe /\ swipe \in Swipe /\ panel \in BOOLEAN
  /\ appd \in [life : Life, step : {"down", "bound", "emptied", "ported", "serving"}]
  /\ {wsport, systoken} \subseteq Life /\ unwritten \subseteq Life
  /\ \A c \in clients : c.to \in Endpoint /\ c.gestures \in Gestures
  /\ system \in {"new", "shown", "exited"}
  /\ events \in Gestures /\ batch.to \in Endpoint /\ batch.gestures \in Gestures
  /\ token \in Life /\ endpoint \in Endpoint /\ page \in Endpoint
  /\ full \in 0 .. MaxSwipes /\ broadcast \in Gestures

Init ==
  /\ gesture = NoSwipe /\ swipe = NoSwipe /\ full = 0 /\ panel = FALSE
  /\ appd = [life |-> 0, step |-> "down"]
  /\ wsport = 0 /\ systoken = 0 /\ unwritten = {} /\ clients = {}
  /\ system = "new" /\ events = <<>> /\ batch = NoBatch
  /\ token = 0 /\ endpoint = Unknown /\ page = Unknown
  /\ broadcast = <<>>

Distance(x) == IF x < 0 THEN -x ELSE x
IsNavigation(s, cancelled) ==
  ~cancelled /\ s.in_progress /\ s.fingers >= MinFingers /\ Distance(s.dx) >= Threshold

(***************************************************************************)
(* The compositor: one swipe at a time (libinput).                         *)
(***************************************************************************)
\* handle_gesture_swipe_begin.
SwipeBegin(n) ==
  /\ ~swipe.in_progress
  /\ swipe' = [in_progress |-> TRUE, fingers |-> n, dx |-> 0]
  /\ gesture' = swipe'
  /\ UNCHANGED <<panel, full, server, clients, shellState, broadcast>>

Moved(s, by) == [s EXCEPT !.dx = IF s.in_progress THEN @ + by ELSE @]

\* handle_gesture_swipe_update.
SwipeUpdate(by) ==
  /\ swipe.in_progress /\ Distance(swipe.dx + by) <= Far
  /\ swipe' = Moved(swipe, by) /\ gesture' = Moved(gesture, by)
  /\ UNCHANGED <<panel, full, server, clients, shellState, broadcast>>

\* send_navigation_gesture_to_panels.
SendToPanels(g) ==
  events' = IF panel /\ system = "shown" THEN Append(events, g) ELSE events

\* handle_gesture_swipe_end: the state is taken, whatever becomes of it.
SwipeEnd(cancelled) ==
  /\ swipe.in_progress /\ swipe' = NoSwipe /\ gesture' = NoSwipe
  /\ full' = IF IsNavigation(swipe, cancelled) THEN full + 1 ELSE full
  /\ full' <= MaxSwipes
  /\ IF IsNavigation(gesture, cancelled)
     THEN SendToPanels(full')
     ELSE UNCHANGED events
  /\ UNCHANGED <<panel, server, clients, system, batch, token, endpoint, page, broadcast>>

(***************************************************************************)
(* weft-appd: the port file is written in place, then the token file is    *)
(* replaced; a stop removes the token file, a crash nothing.               *)
(***************************************************************************)
At(step) == appd.step = step
Goto(step) == appd' = [appd EXCEPT !.step = step]

\* A mutant: the token is published before the port.
MutantTokenFirst ==
  /\ At("down") /\ appd.life < MaxAppds
  /\ appd' = [life |-> appd.life + 1, step |-> "bound"]
  /\ systoken' = appd.life + 1
  /\ UNCHANGED <<compositor, wsport, unwritten, clients, shellState, broadcast>>

\* The listener is bound.
AppdStarts ==
  /\ At("down") /\ appd.life < MaxAppds
  /\ appd' = [life |-> appd.life + 1, step |-> "bound"]
  /\ UNCHANGED <<compositor, files, clients, shellState, broadcast>>

\* write_ws_port, whose failure, before or after the file is emptied, is only
\* logged.
EmptyPort ==
  /\ At("bound")
  /\ \/ Goto("emptied") /\ wsport' = 0 /\ UNCHANGED unwritten
     \/ Goto("ported") /\ unwritten' = unwritten \cup {appd.life} /\ UNCHANGED wsport
  /\ UNCHANGED <<compositor, systoken, clients, shellState, broadcast>>

WritePort ==
  /\ At("emptied") /\ Goto("ported")
  /\ \/ wsport' = appd.life /\ UNCHANGED unwritten
     \/ unwritten' = unwritten \cup {appd.life} /\ UNCHANGED wsport
  /\ UNCHANGED <<compositor, systoken, clients, shellState, broadcast>>

\* write_system_token.
WriteToken ==
  /\ At("ported") /\ Goto("serving") /\ systoken' = appd.life
  /\ UNCHANGED <<compositor, wsport, unwritten, clients, shellState, broadcast>>

\* Its connections end with it.
AppdEnds ==
  /\ ~At("down") /\ Goto("down") /\ clients' = {}
  /\ systoken' \in {systoken} \cup (IF At("serving") THEN {0} ELSE {})
  /\ UNCHANGED <<compositor, wsport, unwritten, shellState, broadcast>>

\* handle_ws_connection and PanelGesture, for the next gesture of a connection
\* that authenticates.
Dispatch(c) ==
  /\ At("serving") /\ c \in clients
  /\ IF c.to.token = appd.life
     THEN /\ broadcast' = Append(broadcast, Head(c.gestures))
          /\ clients' = (clients \ {c}) \cup
               {d \in {[c EXCEPT !.gestures = Tail(@)]} : d.gestures # <<>>}
     ELSE clients' = clients \ {c} /\ UNCHANGED broadcast
  /\ UNCHANGED <<compositor, server, shellState>>

\* A connection closed with messages unread may lose them.
Lose(c) ==
  /\ c \in clients /\ clients' = clients \ {c}
  /\ UNCHANGED <<compositor, server, shellState, broadcast>>

(***************************************************************************)
(* weft-servo-shell.                                                       *)
(***************************************************************************)
\* connect_with_display, which the shell does without if it fails.
ConnectWithDisplay == panel' \in BOOLEAN

\* resumed: the window, the webview and its scripts, and the panel.
Resumed ==
  /\ system = "new" /\ system' = "shown" /\ ConnectWithDisplay
  /\ UNCHANGED <<gesture, swipe, full, server, clients,
                 events, batch, token, endpoint, page, broadcast>>

\* A mutant: the pending gestures are copied, not taken.
MutantGesturesKept ==
  /\ system = "shown" /\ token = 0 /\ events # <<>>
  /\ batch' = IF batch = NoBatch /\ endpoint # Unknown
              THEN [to |-> endpoint, gestures |-> events] ELSE batch
  /\ UNCHANGED <<compositor, server, clients, system, events, token, endpoint, page, broadcast>>

\* about_to_wait: a batch is dropped while one is being forwarded, or without
\* an endpoint.
TakeGestures ==
  /\ system = "shown" /\ token = 0 /\ events # <<>>
  /\ events' = <<>>
  /\ batch' = IF batch = NoBatch /\ endpoint # Unknown
              THEN [to |-> endpoint, gestures |-> events] ELSE batch
  /\ UNCHANGED <<compositor, server, clients, system, token, endpoint, page, broadcast>>

\* forward_gestures_to_appd, on its thread.
ForwardGestures ==
  /\ batch # NoBatch /\ batch' = NoBatch
  /\ clients' \in {clients} \cup
       (IF ~At("down") /\ batch.to.port = appd.life
        THEN {clients \cup {batch}} ELSE {})
  /\ UNCHANGED <<compositor, server, system, events, token, endpoint, page, broadcast>>

\* A mutant: the endpoint is looked for only while there is none.
MutantReadOnce ==
  /\ system = "shown" /\ token = 0 /\ endpoint = Unknown
  /\ token' = systoken
  /\ UNCHANGED <<compositor, server, clients, system, events, batch, endpoint, page, broadcast>>

\* appd_endpoint, every ENDPOINT_CHECK_INTERVAL: the token, then the port.
ReadToken ==
  /\ system = "shown" /\ token = 0
  /\ token' = systoken
  /\ endpoint' = IF systoken = 0 THEN Unknown ELSE endpoint
  /\ UNCHANGED <<compositor, server, clients, system, events, batch, page, broadcast>>

\* deliver_endpoint, to the page if it is the system UI's.
ReadPort ==
  /\ token # 0 /\ token' = 0
  /\ endpoint' = [port |-> wsport, token |-> token]
  /\ page' \in {page, endpoint'}
  /\ UNCHANGED <<compositor, server, clients, system, events, batch, broadcast>>

\* CloseRequested, or its display is gone; a service starts the shell again.
Exits ==
  /\ system = "shown" /\ system' = "exited" /\ panel' = FALSE
  /\ events' = <<>> /\ batch' = NoBatch /\ token' = 0
  /\ endpoint' = Unknown /\ page' = Unknown
  /\ UNCHANGED <<gesture, swipe, full, server, clients, broadcast>>

Next ==
  \/ \E n \in Fingers : SwipeBegin(n)
  \/ \E by \in {-1, 1} : SwipeUpdate(by)
  \/ \E cancelled \in BOOLEAN : SwipeEnd(cancelled)
  \/ AppdStarts \/ EmptyPort \/ WritePort \/ WriteToken \/ AppdEnds
  \/ \E c \in clients : Dispatch(c) \/ Lose(c)
  \/ Resumed \/ TakeGestures \/ ForwardGestures \/ ReadToken \/ ReadPort \/ Exits

Spec == Init /\ [][Next]_systemVars

\* What is broadcast are swipes that ended as navigation gestures, each once,
\* whichever batches, restarts and connections they went through; a gesture may
\* be dropped at any step (forward_gestures_to_appd).
GesturesOnce ==
  \A i, j \in DOMAIN broadcast :
    broadcast[i] <= full /\ (broadcast[i] = broadcast[j] => i = j)

\* Whenever the two files are read between the steps of a weft-appd that
\* starts, the token of one that wrote its port is never used at the port of an
\* earlier one: at worst the endpoint is a later one's port, where the token is
\* refused, or the default.  The token of one that could not write its port may
\* go to the port an earlier one left (appd_endpoint).
EndpointPaired ==
  \A e \in {endpoint, page, batch.to} :
    e.port # 0 /\ e.token \notin unwritten => e.port >= e.token

\* The two things forwarding must not do, over restarts of either side: repeat a
\* gesture, or hand a token to an earlier weft-appd's port.
ForwardingSound == GesturesOnce /\ EndpointPaired

\* The shell finds the weft-appd that keeps serving and has written its port,
\* whatever the earlier ones left behind, and does not lose it again
\* (deliver_endpoint).
EndpointFound ==
  \A n \in Life \ {0} :
    <>[](appd = [life |-> n, step |-> "serving"] /\ n \notin unwritten /\ system = "shown")
      => <>[](endpoint = [port |-> n, token |-> n])
=============================================================================
