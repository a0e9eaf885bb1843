------------------------------ MODULE AppRelay ------------------------------
(***************************************************************************)
(* The messages between an application's page and its component: the       *)
(* bridge script of weft-app-shell (embedder.rs), its WebSocket connection *)
(* in weft-appd (ws.rs), the session's relay task (runtime.rs,             *)
(* spawn_ipc_relay) and the runtime's end of the relay's socket (ipc.rs).  *)
(*                                                                         *)
(* On that socket a message is a line, which may arrive in two pieces.     *)
(* The relay task and the component each do one thing at a time: neither   *)
(* reads while a write of its own is blocked.                              *)
(***************************************************************************)
EXTENDS Naturals, Sequences

CONSTANTS
  MaxUp, MaxDown,  \* bounds: messages the page and the component send
  Kind,            \* payloads: "plain", "break" (holding a line
                   \* break) or "cr" (ending in a carriage return)
  QueueRoom,       \* capacity of the channel to the relay task
  SocketRoom,      \* pieces the socket buffers in either direction
  TellRoom,        \* capacity of the broadcast channel
  SendRoom         \* messages the WebSocket buffers towards the page

VARIABLES
  \* the page
  unsent,       \* queue: messages sent before the connection is open
  bridge,       \* the connection: "none", "accepted", "open" or "closed"
  wsUp, wsDown, \* messages on the connection, in either direction
  \* weft-appd
  session,      \* whether the session runs
  told,         \* notifications the connection's task has not received
  held,         \* the notification it is writing, if any
  toComponent,  \* the channel to the relay task
  relay,        \* the relay task: "listening", "relaying" or "ended"
  incoming,     \* frame: the pieces read of a line
  writing,      \* the pieces of the message being written
  \* the socket
  joined,       \* whether both ends are connected
  downstream, upstream,  \* the pieces on their way to the component and from it
  \* weft-runtime
  alive,        \* whether the component runs
  received,     \* recv_buf: the pieces read and not taken
  sending,      \* the pieces of the message being sent
  \* history
  sent, got     \* the messages sent, and those received, by either side

pageVars == <<unsent, bridge>>
bridgeVars == <<pageVars, wsUp, wsDown>>
taskVars == <<session, told, held>>
relayTask == <<relay, incoming, writing>>
component == <<alive, received, sending>>
relayVars == <<pageVars, wsUp, wsDown, taskVars, toComponent, relayTask, joined,
               downstream, upstream, component, sent, got>>

Message == [from : {"page"}, n : 1 .. MaxUp, kind : Kind]
             \cup [from : {"component"}, n : 1 .. MaxDown, kind : Kind]
Piece == [of : Message, last : BOOLEAN]
Stopped == [from |-> "appd", n |-> 0, kind |-> "stopped"]
Garbled == [from |-> "appd", n |-> 0, kind |-> "garbled"]

TypeOK ==
  /\ unsent \in Seq(Message) /\ wsUp \in Seq(Message) /\ wsDown \in Seq(Message)
  /\ bridge \in {"none", "accepted", "open", "closed"}
  /\ Len(wsDown) <= SendRoom
  /\ session \in {"live", "stopped"}
  /\ told \in Seq(Message \cup {Stopped}) /\ Len(told) <= TellRoom
  /\ held \in Seq(Message) /\ Len(held) <= 1
  /\ toComponent \in Seq(Message) /\ Len(toComponent) <= QueueRoom
  /\ relay \in {"listening", "relaying", "ended"}
  /\ {incoming, writing, received, sending, downstream, upstream} \subseteq Seq(Piece)
  /\ Len(downstream) <= SocketRoom /\ Len(upstream) <= SocketRoom
  /\ joined \in BOOLEAN /\ alive \in BOOLEAN
  /\ sent \subseteq Message /\ got \subseteq Message \cup {Garbled}

Init ==
  /\ unsent = <<>> /\ bridge = "none" /\ wsUp = <<>> /\ wsDown = <<>>
  /\ session = "live" /\ told = <<>> /\ held = <<>> /\ toComponent = <<>>
  /\ relay = "listening" /\ incoming = <<>> /\ writing = <<>>
  /\ joined = FALSE /\ downstream = <<>> /\ upstream = <<>>
  /\ alive = TRUE /\ received = <<>> /\ sending = <<>>
  /\ sent = {} /\ got = {}

(***************************************************************************)
(* Lines.  A payload with a line break would read as two.                  *)
(***************************************************************************)
Pieces(m) == <<[of |-> m, last |-> m.kind = "break"], [of |-> m, last |-> TRUE]>>

\* The message a line holds, if its pieces are one message's.
Line(pieces) ==
  LET m == pieces[Len(pieces)].of
  IN  IF pieces = Pieces(m) THEN m ELSE Garbled

HasLine(s) == \E i \in DOMAIN s : s[i].last
FirstLine(s) == CHOOSE n \in DOMAIN s :
  s[n].last /\ \A i \in 1 .. n - 1 : ~s[i].last
From(s, n) == SubSeq(s, n, Len(s))
Sent(side) == {m \in sent : m.from = side}

(***************************************************************************)
(* The page and its connection (embedder.rs, bridge_script).               *)
(***************************************************************************)
PageSends(n, kind) ==
  LET m == [from |-> "page", n |-> n, kind |-> kind] IN
  /\ \A x \in Sent("page") : x.n < n
  /\ sent' = sent \cup {m}
  /\ unsent' = IF bridge \in {"none", "accepted"} THEN Append(unsent, m) ELSE unsent
  /\ wsUp' = IF bridge = "open" THEN Append(wsUp, m) ELSE wsUp
  /\ UNCHANGED <<bridge, wsDown, taskVars, toComponent, relayTask, joined,
                 downstream, upstream, component, got>>

\* weft-appd accepts the connection; what is broadcast from then on reaches it.
Accept ==
  /\ bridge = "none" /\ bridge' = "accepted"
  /\ UNCHANGED <<unsent, wsUp, wsDown, taskVars, toComponent, relayTask, joined,
                 downstream, upstream, component, sent, got>>

\* onopen: HELLO, and then what the page has sent so far.
Open ==
  /\ bridge = "accepted" /\ bridge' = "open"
  /\ wsUp' = unsent /\ unsent' = <<>>
  /\ UNCHANGED <<wsDown, taskVars, toComponent, relayTask, joined,
                 downstream, upstream, component, sent, got>>

PageReceives ==
  /\ wsDown # <<>> /\ wsDown' = Tail(wsDown)
  /\ got' = got \cup {Head(wsDown)}
  /\ UNCHANGED <<pageVars, wsUp, taskVars, toComponent, relayTask, joined,
                 downstream, upstream, component, sent>>

(***************************************************************************)
(* The connection's task in weft-appd (ws.rs, handle_ws_connection).       *)
(***************************************************************************)
\* try_send: a full channel, or one without its relay, drops the message.
Queued(m) ==
  IF relay # "ended" /\ Len(toComponent) < QueueRoom
  THEN Append(toComponent, m) ELSE toComponent

Refused(m) == m.kind = "break"

AppRequest ==
  /\ bridge = "open" /\ held = <<>> /\ wsUp # <<>>
  /\ wsUp' = Tail(wsUp)
  /\ toComponent' = IF Refused(Head(wsUp)) THEN toComponent ELSE Queued(Head(wsUp))
  /\ UNCHANGED <<pageVars, wsDown, taskVars, relayTask, joined,
                 downstream, upstream, component, sent, got>>

\* broadcast.send: a receiver that lags loses the oldest; one that has not
\* subscribed hears nothing.
Tell(m) ==
  told' = IF bridge \in {"none", "closed"} THEN told
          ELSE IF Len(told) = TellRoom THEN Append(Tail(told), m)
          ELSE Append(told, m)

\* A session that has stopped ends the connection.
Notified ==
  /\ bridge = "open" /\ held = <<>> /\ told # <<>>
  /\ told' = Tail(told)
  /\ \/ /\ Head(told) = Stopped
        /\ bridge' = "closed" /\ wsUp' = <<>> /\ UNCHANGED held
     \/ /\ Head(told) # Stopped
        /\ held' = <<Head(told)>> /\ UNCHANGED <<bridge, wsUp>>
  /\ UNCHANGED <<unsent, wsDown, session, toComponent, relayTask, joined,
                 downstream, upstream, component, sent, got>>

\* ws_write.send: the task waits while the connection has no room.
Forward ==
  /\ held # <<>> /\ Len(wsDown) < SendRoom
  /\ wsDown' = wsDown \o held /\ held' = <<>>
  /\ UNCHANGED <<pageVars, wsUp, session, told, toComponent, relayTask, joined,
                 downstream, upstream, component, sent, got>>

(***************************************************************************)
(* The relay task (runtime.rs, spawn_ipc_relay).                           *)
(***************************************************************************)
Join ==
  /\ relay = "listening" /\ alive
  /\ relay' = "relaying" /\ joined' = TRUE
  /\ UNCHANGED <<bridgeVars, taskVars, toComponent, incoming, writing,
                 downstream, upstream, component, sent, got>>

\* The select takes a message from the page.
TakeForComponent ==
  /\ relay = "relaying" /\ writing = <<>> /\ toComponent # <<>>
  /\ writing' = Pieces(Head(toComponent)) /\ toComponent' = Tail(toComponent)
  /\ UNCHANGED <<bridgeVars, taskVars, relay, incoming, joined,
                 downstream, upstream, component, sent, got>>

\* write_all and flush.
WriteDown ==
  /\ writing # <<>> /\ joined /\ Len(downstream) < SocketRoom
  /\ downstream' = Append(downstream, Head(writing)) /\ writing' = Tail(writing)
  /\ UNCHANGED <<bridgeVars, taskVars, toComponent, relay, incoming, joined,
                 upstream, component, sent, got>>

\* A mutant: the other branch of the select loses what was read of a line.
MutantSplitsFrame ==
  /\ relay = "relaying" /\ writing = <<>> /\ upstream # <<>>
  /\ upstream' = Tail(upstream)
  /\ LET line == IF toComponent = <<>> THEN Append(incoming, Head(upstream))
                 ELSE <<Head(upstream)>>
     IN  /\ incoming' = IF Head(upstream).last THEN <<>> ELSE line
         /\ IF Head(upstream).last THEN Tell(Line(line)) ELSE UNCHANGED told
  /\ UNCHANGED <<bridgeVars, session, held, toComponent, relay, writing, joined,
                 downstream, component, sent, got>>

\* read_until, which keeps what it has read of a line in frame.
ReadUp ==
  /\ relay = "relaying" /\ writing = <<>> /\ upstream # <<>>
  /\ upstream' = Tail(upstream)
  /\ LET line == Append(incoming, Head(upstream))
     IN  /\ incoming' = IF Head(upstream).last THEN <<>> ELSE line
         /\ IF Head(upstream).last THEN Tell(Line(line)) ELSE UNCHANGED told
  /\ UNCHANGED <<bridgeVars, session, held, toComponent, relay, writing, joined,
                 downstream, component, sent, got>>

\* The task drops the connection, the channel and what it had not passed on.
Drops ==
  /\ relay' = "ended" /\ joined' = FALSE
  /\ toComponent' = <<>> /\ incoming' = <<>> /\ writing' = <<>> /\ upstream' = <<>>

\* The component closed its end.
RelayEnds ==
  /\ relay = "relaying" /\ ~joined
  /\ Drops
  /\ UNCHANGED <<bridgeVars, taskVars, downstream, component, sent, got>>

(***************************************************************************)
(* The component and its runtime (weft-runtime, ipc.rs).                   *)
(***************************************************************************)
\* check_payload: no line break of either kind.  The mutant sends any payload.
MutantAnyPayload(kind) == TRUE
CheckPayload(kind) == kind = "plain"

\* The import "send": a payload that is refused goes nowhere.
ComponentSends(n, kind) ==
  LET m == [from |-> "component", n |-> n, kind |-> kind] IN
  /\ CheckPayload(kind)
  /\ alive /\ joined /\ sending = <<>>
  /\ \A x \in Sent("component") : x.n < n
  /\ sent' = sent \cup {m} /\ sending' = Pieces(m)
  /\ UNCHANGED <<bridgeVars, taskVars, toComponent, relayTask, joined,
                 downstream, upstream, alive, received, got>>

WriteUp ==
  /\ sending # <<>> /\ joined /\ Len(upstream) < SocketRoom
  /\ upstream' = Append(upstream, Head(sending)) /\ sending' = Tail(sending)
  /\ UNCHANGED <<bridgeVars, taskVars, toComponent, relayTask, joined,
                 downstream, alive, received, sent, got>>

\* A write blocked for SEND_TIMEOUT, or a failed one, ends the connection for
\* both sides.
SendFails ==
  /\ sending # <<>>
  /\ ~joined \/ Len(upstream) = SocketRoom
  /\ sending' = <<>> /\ joined' = FALSE
  /\ UNCHANGED <<bridgeVars, taskVars, toComponent, relayTask,
                 downstream, upstream, alive, received, sent, got>>

\* take_line: one carriage return before the line break goes with it.
Stripped(m) == IF m.kind = "cr" THEN [m EXCEPT !.kind = "plain"] ELSE m

\* recv: a line in the buffer, or else what can be read until there is one.
Recv ==
  /\ alive /\ relay # "listening" /\ sending = <<>>
  /\ \E n \in 0 .. Len(downstream) :
       /\ n > 0 => ~HasLine(received)
       /\ n < Len(downstream) => HasLine(received \o SubSeq(downstream, 1, n))
       /\ downstream' = From(downstream, n + 1)
       /\ LET buffer == received \o SubSeq(downstream, 1, n)
              line == FirstLine(buffer)
          IN  IF HasLine(buffer)
              THEN /\ received' = From(buffer, line + 1)
                   /\ got' = got \cup {Stripped(Line(SubSeq(buffer, 1, line)))}
              ELSE received' = buffer /\ UNCHANGED got
  /\ UNCHANGED <<bridgeVars, taskVars, toComponent, relayTask, joined,
                 upstream, alive, sending, sent>>

\* exit_on_hangup, or the component ends by itself.
ComponentExits ==
  /\ alive /\ relay # "listening"
  /\ alive' = FALSE /\ joined' = FALSE
  /\ received' = <<>> /\ sending' = <<>> /\ downstream' = <<>>
  /\ UNCHANGED <<bridgeVars, taskVars, toComponent, relayTask, upstream, sent, got>>

\* The session settles, for any reason AppdSession gives: its processes are
\* killed, its relay is dropped and its end is broadcast.
Settle ==
  /\ session = "live" /\ session' = "stopped"
  /\ alive' = FALSE /\ received' = <<>> /\ sending' = <<>> /\ downstream' = <<>>
  /\ Drops /\ Tell(Stopped)
  /\ UNCHANGED <<bridgeVars, held, sent, got>>

Next ==
  \/ \E n \in 1 .. MaxUp, kind \in Kind : PageSends(n, kind)
  \/ Accept \/ Open \/ PageReceives
  \/ AppRequest \/ Notified \/ Forward
  \/ Join \/ TakeForComponent \/ WriteDown \/ ReadUp \/ RelayEnds
  \/ \E n \in 1 .. MaxDown, kind \in Kind : ComponentSends(n, kind)
  \/ WriteUp \/ SendFails \/ Recv \/ ComponentExits \/ Settle

Spec == Init /\ [][Next]_relayVars

(***************************************************************************)
(* Properties.                                                             *)
(***************************************************************************)
\* The messages whose last piece is among these.
Whole(pieces) ==
  LET Last[n \in 0 .. Len(pieces)] ==
        IF n = 0 THEN <<>>
        ELSE IF pieces[n].last THEN Append(Last[n - 1], pieces[n].of)
        ELSE Last[n - 1]
  IN  Last[Len(pieces)]

Messages(notifications) ==
  SelectSeq(notifications, LAMBDA m : m # Stopped)

\* All messages on their way to the component, and all on their way to the
\* page, the oldest first.
Up == INSTANCE LossyFifo WITH pending <-
  Whole(received) \o Whole(downstream) \o Whole(writing) \o toComponent \o wsUp \o unsent
Down == INSTANCE LossyFifo WITH pending <-
  wsDown \o held \o Messages(told) \o Whole(upstream) \o Whole(sending)

\* In either direction, through six places and two tasks each, messages may
\* be lost but are never reordered or repeated.
OrderKept == Up!Spec /\ Down!Spec

\* What a side receives is exactly what the other sent: a payload that cannot
\* be framed as a line "is dropped rather than altered", and a message being
\* read when one is written in the other direction is not split.
Unaltered == got \subseteq sent

RelayKeepsOrder == OrderKept /\ []Unaltered
=============================================================================
