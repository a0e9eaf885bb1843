------------------------------ MODULE ClientFeed ------------------------------
(***************************************************************************)
(* What weft-appd's WebSocket clients learn about the sessions             *)
(* (weft-appd/src/ws.rs and the broadcast channel of main.rs): the system  *)
(* UI's taskbar (infra/shell/system-ui.html), which queries after every    *)
(* connection and then follows the notifications, and the bridge of one    *)
(* application session, which must end with it.                            *)
(*                                                                         *)
(* Each client has a receiver of bounded capacity: one that does not keep  *)
(* up loses the oldest notifications.  Receivers do not affect each other, *)
(* so a behaviour follows one client.  Connections drop, and appd restarts *)
(* with a new token, which the shell hands to the page.                    *)
(***************************************************************************)
EXTENDS Naturals, Sequences, FiniteSets

CONSTANTS
  MaxSession,   \* bound: sessions of one appd
  Bridged,      \* the session whose bridge connects
  Capacity,     \* of the broadcast channel
  Buffer,       \* bound: messages in a socket before a write waits
  MaxDrop,      \* bound: connections that break
  MaxInstance   \* bound: times appd starts

Sid == 1..MaxSession
NoSession == 0

ASSUME FeedAssumption ==
  /\ MaxSession \in Nat \ {0} /\ Bridged \in Sid
  /\ Capacity \in Nat \ {0} /\ Buffer \in Nat \ {0}
  /\ MaxDrop \in Nat /\ MaxInstance \in Nat \ {0}

VARIABLES
  client,    \* "page" or "bridge": the client that is followed
  \* appd
  inst,      \* which instance of appd ran last
  up,        \* whether it runs
  st,        \* state of each session
  ackDue,    \* launched sessions whose LaunchAck is not broadcast yet
  \* the page's connection, in appd
  srv,       \* "none", "hello" until authenticated, then "system"
  chan,      \* its receiver
  lagging,   \* whether notifications were dropped since it last received
  busy,      \* the session a launch request of the page is waiting for
  \* the socket
  toAppd, toPage,
  \* the page
  sock,      \* "closed", "connecting" or "open"
  known,     \* the endpoint the shell handed over, 0 for none
  entries,   \* taskbar entries
  \* the bridge's connection
  bridge,    \* "none", "hello", "open" or "ended"
  bchan, blagging,
  \* history
  missed,    \* the page's connection lost notifications
  bmissed,   \* the bridge's did
  late,      \* sessions whose LaunchAck was broadcast after Stopped
  drops

appdVars == <<client, inst, up, st, ackDue, late>>
srvVars == <<srv, chan, lagging, busy>>
pageVars == <<sock, known, entries, drops>>
wireVars == <<toAppd, toPage>>
bridgeVars == <<bridge, bchan, blagging, bmissed>>
feedVars == <<appdVars, srvVars, pageVars, wireVars, bridgeVars, missed>>

State == {"none", "starting", "running", "stopping", "stopped"}
Live == {s \in Sid : st[s] \in {"starting", "running", "stopping"}}
Note == [kind : {"ack", "note", "stopped"}, s : Sid]
Reply == [kind : {"list"}, all : SUBSET Sid]
Request ==
  [kind : {"hello"}, token : 0..MaxInstance] \cup [kind : {"query", "launch"}]

TypeOK ==
  /\ client \in {"page", "bridge"}
  /\ inst \in 0..MaxInstance /\ up \in BOOLEAN
  /\ st \in [Sid -> State] /\ ackDue \subseteq Sid /\ late \subseteq Sid
  /\ srv \in {"none", "hello", "system"} /\ busy \in Sid \cup {NoSession}
  /\ chan \in Seq(Note) /\ Len(chan) <= Capacity /\ lagging \in BOOLEAN
  /\ toAppd \in Seq(Request)
  /\ toPage \in Seq(Note \cup Reply) /\ Len(toPage) <= Buffer
  /\ sock \in {"closed", "connecting", "open"} /\ known \in 0..MaxInstance
  /\ entries \subseteq Sid /\ drops \in 0..MaxDrop
  /\ bridge \in {"none", "hello", "open", "ended"}
  /\ bchan \in Seq(Note) /\ Len(bchan) <= Capacity /\ blagging \in BOOLEAN
  /\ missed \in BOOLEAN /\ bmissed \in BOOLEAN

Init ==
  /\ client \in {"page", "bridge"}
  /\ inst = 0 /\ up = FALSE
  /\ st = [s \in Sid |-> "none"] /\ ackDue = {} /\ late = {}
  /\ srv = "none" /\ chan = <<>> /\ lagging = FALSE /\ busy = NoSession
  /\ toAppd = <<>> /\ toPage = <<>>
  /\ sock = "closed" /\ known = 0 /\ entries = {} /\ drops = 0
  /\ bridge = "none" /\ bchan = <<>> /\ blagging = FALSE
  /\ missed = FALSE /\ bmissed = FALSE

(***************************************************************************)
(* The broadcast channel.                                                  *)
(***************************************************************************)
\* What a receiver holds after n was sent: the oldest gives way.
Received(c, n) ==
  IF Len(c) < Capacity THEN Append(c, n) ELSE Append(Tail(c), n)

Overflows(on, c) == on /\ Len(c) = Capacity

Broadcast(kind, s) ==
  LET n == [kind |-> kind, s |-> s]
      page == srv # "none"
      app == bridge \in {"hello", "open"}
  IN  /\ chan' = IF page THEN Received(chan, n) ELSE chan
      /\ lagging' = (lagging \/ Overflows(page, chan))
      /\ missed' = (missed \/ Overflows(page, chan))
      /\ bchan' = IF app THEN Received(bchan, n) ELSE bchan
      /\ blagging' = (blagging \/ Overflows(app, bchan))
      /\ bmissed' = (bmissed \/ Overflows(app, bchan))
      /\ UNCHANGED <<srv, bridge, pageVars, client, inst, up>>

(***************************************************************************)
(* Sessions, as AppdSession supervises them.                               *)
(***************************************************************************)
CanLaunch(s) ==
  up /\ st[s] = "none" /\ \A t \in Sid : t < s => st[t] # "none"

\* Another client launches s.
Launch(s) ==
  /\ CanLaunch(s)
  /\ st' = [st EXCEPT ![s] = "starting"]
  /\ ackDue' = ackDue \cup {s}
  /\ UNCHANGED <<client, inst, up, late, srvVars, pageVars, wireVars>>
  /\ UNCHANGED <<bridgeVars, missed>>

\* dispatch broadcasts LaunchAck once the supervisor runs, which may have
\* settled the session by then.
Ack(s) ==
  /\ s \in ackDue
  /\ ackDue' = ackDue \ {s}
  /\ late' = IF st[s] = "stopped" THEN late \cup {s} ELSE late
  /\ Broadcast("ack", s)
  /\ UNCHANGED <<st, busy, wireVars>>

\* APP_READY, and the Stopping of a stop or a settling session.
Changes(s) ==
  /\ \/ st[s] = "starting" /\ st' = [st EXCEPT ![s] = "running"]
     \/ /\ st[s] \in {"starting", "running"}
        /\ st' = [st EXCEPT ![s] = "stopping"]
  /\ Broadcast("note", s)
  /\ UNCHANGED <<ackDue, late, busy, wireVars>>

Stop(s) ==
  /\ st[s] = "stopping"
  /\ st' = [st EXCEPT ![s] = "stopped"]
  /\ Broadcast("stopped", s)
  /\ UNCHANGED <<ackDue, late, busy, wireVars>>

(***************************************************************************)
(* Connections.                                                            *)
(***************************************************************************)
\* Both ends of the page's connection are gone.
Disconnected ==
  /\ sock' = "closed" /\ srv' = "none"
  /\ chan' = <<>> /\ lagging' = FALSE /\ busy' = NoSession
  /\ toAppd' = <<>> /\ toPage' = <<>> /\ missed' = FALSE

\* appdConnect and the accept in run, which subscribes.
Connect ==
  /\ client = "page" /\ sock = "closed" /\ known # 0 /\ up
  /\ sock' = "connecting" /\ srv' = "hello"
  /\ UNCHANGED <<chan, lagging, busy, wireVars, missed>>
  /\ UNCHANGED <<known, entries, drops, appdVars, bridgeVars>>

\* The entries of the last connection stay.
MutantOpenKeeps ==
  /\ sock = "connecting"
  /\ sock' = "open"
  /\ toAppd' = <<[kind |-> "hello", token |-> known], [kind |-> "query"]>>
  /\ UNCHANGED <<toPage, known, entries, drops, srvVars, appdVars>>
  /\ UNCHANGED <<bridgeVars, missed>>

\* The open event: the taskbar is emptied, and filled from a query.
Open ==
  /\ sock = "connecting"
  /\ sock' = "open" /\ entries' = {}
  /\ toAppd' = <<[kind |-> "hello", token |-> known], [kind |-> "query"]>>
  /\ UNCHANGED <<toPage, known, drops, srvVars, appdVars, bridgeVars, missed>>

\* HELLO with the present token; any other is refused and closed.
Hello ==
  /\ srv = "hello" /\ toAppd # <<>>
  /\ \/ /\ Head(toAppd).token = inst
        /\ srv' = "system" /\ toAppd' = Tail(toAppd)
        /\ UNCHANGED <<chan, lagging, busy, toPage, sock, missed>>
     \/ Head(toAppd).token # inst /\ Disconnected
  /\ UNCHANGED <<known, entries, drops, appdVars, bridgeVars>>

\* The connection's loop takes a message only between two others, and waits
\* while the client does not read.
Idle == srv = "system" /\ busy = NoSession /\ Len(toPage) < Buffer
IsNext(kind) == toAppd # <<>> /\ Head(toAppd).kind = kind

Query ==
  /\ Idle /\ IsNext("query")
  /\ toAppd' = Tail(toAppd)
  /\ toPage' = Append(toPage, [kind |-> "list", all |-> Live])
  /\ UNCHANGED <<srvVars, pageVars, appdVars, bridgeVars, missed>>

\* LAUNCH_APP of the page: dispatch is awaited, then its reply is written.
LaunchForPage(s) ==
  /\ Idle /\ IsNext("launch") /\ CanLaunch(s)
  /\ toAppd' = Tail(toAppd)
  /\ st' = [st EXCEPT ![s] = "starting"] /\ ackDue' = ackDue \cup {s}
  /\ busy' = s
  /\ UNCHANGED <<client, inst, up, late, srv, chan, lagging, toPage, pageVars>>
  /\ UNCHANGED <<bridgeVars, missed>>

ReplyToLaunch ==
  /\ busy # NoSession /\ busy \notin ackDue /\ Len(toPage) < Buffer
  /\ toPage' = Append(toPage, [kind |-> "ack", s |-> busy])
  /\ busy' = NoSession
  /\ UNCHANGED <<srv, chan, lagging, toAppd, pageVars, appdVars, bridgeVars>>
  /\ UNCHANGED missed

\* A launch that is refused.
RefuseLaunch ==
  /\ Idle /\ IsNext("launch")
  /\ toAppd' = Tail(toAppd)
  /\ UNCHANGED <<toPage, srvVars, pageVars, appdVars, bridgeVars, missed>>

\* recv: Lagged first, then what the channel still holds.
Forward ==
  /\ Idle
  /\ \/ /\ lagging
        /\ lagging' = FALSE
        /\ UNCHANGED <<chan, toPage>>
     \/ /\ ~lagging /\ chan # <<>>
        /\ toPage' = Append(toPage, Head(chan)) /\ chan' = Tail(chan)
        /\ UNCHANGED lagging
  /\ UNCHANGED <<srv, busy, toAppd, pageVars, appdVars, bridgeVars, missed>>

(***************************************************************************)
(* The page.                                                               *)
(***************************************************************************)
\* handleAppdMessage.
Shows(shown, msg) ==
  CASE msg.kind = "list" -> shown \cup msg.all
    [] msg.kind = "ack" -> shown \cup {msg.s}
    [] msg.kind = "stopped" -> shown \ {msg.s}
    [] OTHER -> shown

Read ==
  /\ sock = "open" /\ toPage # <<>>
  /\ entries' = Shows(entries, Head(toPage)) /\ toPage' = Tail(toPage)
  /\ UNCHANGED <<toAppd, sock, known, drops, srvVars, appdVars, bridgeVars>>
  /\ UNCHANGED missed

\* The user opens an application.
AskLaunch ==
  /\ sock = "open" /\ toAppd = <<>>
  /\ toAppd' = <<[kind |-> "launch"]>>
  /\ UNCHANGED <<toPage, srvVars, pageVars, appdVars, bridgeVars, missed>>

\* The page keeps its first endpoint.
MutantFirstEndpoint ==
  /\ client = "page" /\ inst # 0 /\ known = 0
  /\ known' = inst
  /\ Disconnected
  /\ UNCHANGED <<entries, drops, appdVars, bridgeVars>>

\* weftAppdEndpoint with the present endpoint: a connection made with another
\* is closed.
Endpoint ==
  /\ client = "page" /\ inst # 0 /\ known # inst
  /\ known' = inst
  /\ Disconnected
  /\ UNCHANGED <<entries, drops, appdVars, bridgeVars>>

Drop ==
  /\ sock # "closed" /\ drops < MaxDrop
  /\ drops' = drops + 1
  /\ Disconnected
  /\ UNCHANGED <<known, entries, appdVars, bridgeVars>>

(***************************************************************************)
(* appd starts and stops.                                                  *)
(***************************************************************************)
Start ==
  /\ ~up /\ inst < MaxInstance
  /\ up' = TRUE /\ inst' = inst + 1
  /\ UNCHANGED <<client, st, ackDue, late, srvVars, pageVars, wireVars>>
  /\ UNCHANGED <<bridgeVars, missed>>

AppdEnds ==
  /\ up /\ inst < MaxInstance
  /\ up' = FALSE
  /\ st' = [s \in Sid |-> "none"] /\ ackDue' = {} /\ late' = {}
  /\ Disconnected
  /\ bridge' = "none" /\ bchan' = <<>>
  /\ blagging' = FALSE /\ bmissed' = FALSE
  /\ UNCHANGED <<client, inst, known, entries, drops>>

(***************************************************************************)
(* The bridge of session Bridged.                                          *)
(***************************************************************************)
\* Accepted and subscribed; the token of a session comes with its app shell.
BridgeConnect ==
  /\ client = "bridge" /\ bridge = "none" /\ st[Bridged] # "none"
  /\ bridge' = "hello"
  /\ UNCHANGED <<bchan, blagging, bmissed>>
  /\ UNCHANGED <<appdVars, srvVars, pageVars, wireVars, missed>>

\* The token alone authorizes.
MutantAuthorizesStopped ==
  /\ bridge = "hello"
  /\ bridge' = "open"
  /\ UNCHANGED <<bchan, blagging, bmissed>>
  /\ UNCHANGED <<appdVars, srvVars, pageVars, wireVars, missed>>

\* HELLO of role app: authorize_bridge.
BridgeHello ==
  /\ bridge = "hello"
  /\ bridge' = IF Bridged \in Live THEN "open" ELSE "ended"
  /\ UNCHANGED <<bchan, blagging, bmissed>>
  /\ UNCHANGED <<appdVars, srvVars, pageVars, wireVars, missed>>

\* The Stopped of its own session ends the connection.
BridgeForward ==
  /\ bridge = "open"
  /\ \/ /\ blagging /\ blagging' = FALSE
        /\ UNCHANGED <<bridge, bchan>>
     \/ /\ ~blagging /\ bchan # <<>>
        /\ bchan' = Tail(bchan)
        /\ bridge' = IF Head(bchan) = [kind |-> "stopped", s |-> Bridged]
                     THEN "ended" ELSE bridge
        /\ UNCHANGED blagging
  /\ UNCHANGED bmissed
  /\ UNCHANGED <<appdVars, srvVars, pageVars, wireVars, missed>>

Next ==
  \/ \E s \in Sid : Launch(s) \/ Ack(s) \/ Changes(s) \/ Stop(s)
  \/ Connect \/ Open \/ Hello \/ Query \/ Forward \/ Read
  \/ \E s \in Sid : LaunchForPage(s)
  \/ ReplyToLaunch \/ RefuseLaunch \/ AskLaunch
  \/ Endpoint \/ Drop \/ Start \/ AppdEnds
  \/ BridgeConnect \/ BridgeHello \/ BridgeForward

Spec == Init /\ [][Next]_feedVars

\* Tasks that can run do, the page retries its connection, and the shell
\* rereads the endpoint every two seconds.  Nothing makes a session change,
\* a user act or a connection break.
FairSpec ==
  /\ Spec
  /\ WF_feedVars(Start) /\ WF_feedVars(\E s \in Sid : Ack(s))
  /\ WF_feedVars(Endpoint) /\ WF_feedVars(Connect) /\ WF_feedVars(Open)
  /\ WF_feedVars(Hello) /\ WF_feedVars(Read)
  /\ WF_feedVars(Query \/ ReplyToLaunch \/ RefuseLaunch)
  /\ WF_feedVars(Forward)
  /\ WF_feedVars(BridgeHello) /\ WF_feedVars(BridgeForward)

(***************************************************************************)
(* Properties.                                                             *)
(***************************************************************************)
\* What the taskbar shows once it has read msgs.
After(shown, msgs) ==
  LET after[n \in 0..Len(msgs)] ==
        IF n = 0 THEN shown ELSE Shows(after[n - 1], msgs[n])
  IN  after[Len(msgs)]

\* ... and everything that is underway.
CaughtUp == After(entries, toPage \o chan)

Answered ==
  srv = "system" /\ \A i \in DOMAIN toAppd : toAppd[i].kind # "query"

\* The taskbar catches up with the sessions that run from wherever it
\* connected, whatever was sent between its query and the reply: unless it
\* lost notifications, reading what is underway leaves an entry for every
\* session that runs, or whose LaunchAck is still to come, and none for one
\* that stopped, save one announced after it had stopped.
TaskbarCatchesUp ==
  Answered /\ ~missed =>
    /\ Live \subseteq CaughtUp \cup ackDue
    /\ CaughtUp \subseteq Live \cup late

\* "which also has to see its session stop": the bridge of a stopped session
\* has that notification before it, unless it lost some.
BridgeSeesStop ==
  bridge = "open" /\ st[Bridged] = "stopped" /\ ~bmissed =>
    \E i \in DOMAIN bchan : bchan[i] = [kind |-> "stopped", s |-> Bridged]

\* After the last drop and restart the page is connected to the appd that
\* runs, and once sessions stop changing the taskbar shows them, unless it
\* lost notifications.
TaskbarConverges ==
  client = "page" =>
    <>[](missed \/ late # {} \/ (Answered /\ entries = Live))
=============================================================================
