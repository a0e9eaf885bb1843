--------------------------- MODULE CompositorLink ---------------------------
(***************************************************************************)
(* The connection between weft-appd and weft-compositor: the client task   *)
(* of appd (weft-appd/src/compositor_client.rs) with the session requests  *)
(* that queue messages for it (runtime.rs), and the compositor's side      *)
(* (weft-compositor/src/appd_ipc.rs) with the Wayland clients it binds to  *)
(* sessions.                                                               *)
(*                                                                         *)
(* A frame reaches a socket in two pieces: its first bytes, which carry    *)
(* the descriptor of an AttachClient, and the rest.  The compositor reads  *)
(* a piece per step and handles a message with its last piece; the code    *)
(* reads all there is before it handles the messages in the same order,    *)
(* which appd cannot tell apart.                                           *)
(***************************************************************************)
EXTENDS Naturals, SequencesExt

CONSTANTS
  Sid,            \* session IDs, given in order; every appd starts anew
  MaxLife,        \* bound: appd processes, one after another
  MaxConn,        \* bound: connections that exist at a time
  MaxQueue,       \* capacity of the outbound channel (32)
  MaxWork,        \* bound: sessions started and requests made
  MaxFaults,      \* bound: failed writes and restarts of either side
  MaxPendingFds,  \* MAX_PENDING_FDS (16)
  MaxOut          \* MAX_FRAME_LEN in frames: the backlog for appd

ASSUME LinkAssumption ==
  /\ Sid \subseteq Nat
  /\ MaxLife \in Nat \ {0} /\ MaxConn \in Nat \ {0} /\ MaxQueue \in Nat \ {0}
  /\ MaxWork \in Nat /\ MaxFaults \in Nat /\ MaxOut \in Nat
  /\ MaxPendingFds \in Nat \ {0}

Life == 1..MaxLife

\* A session's Wayland connection: which appd made it, and for which session.
Token == [life : Life, sid : Sid]
NoToken == [life |-> 0]

Message ==
       [kind : {"attach", "destroyed"}, life : Life, sid : Sid]
  \cup [kind : {"ask"}, life : Life, n : 1..MaxWork]
NoMsg == [kind |-> "none"]

Conn == Life \X (1..MaxConn)
NoConn == <<0, 0>>

Piece == [msg : Message, part : {"head", "rest"}]

VARIABLES
  \* weft-appd
  life,       \* which appd process runs
  app,        \* what it did for each of its sessions
  ends,       \* the connections whose application still holds its end
  work,       \* sessions started and requests made so far
  queue,      \* mpsc channel
  unsent,     \* the message whose write failed, sent first next time
  writing,    \* the message of which the first piece is written
  conn,       \* its connection; `connected` is conn # NoConn
  \* the sockets
  wire,       \* what appd wrote on a connection and nobody read
  closed,     \* connections appd closed and the compositor still holds
  hungup,     \* connections the compositor closed and appd still holds
  backlog,    \* connections not accepted yet
  \* weft-compositor
  served,     \* the one connection with a read source
  partial,    \* read_buf: the message of which the first piece was read
  fds,        \* descriptors received, in arrival order
  sessions,   \* the Wayland client of each session
  clients,    \* the session clients that are connected
  reports,    \* (session, client) disconnections not handled yet
  reported,   \* sessions whose first toplevel was reported
  writeStream, outBuf, retry,   \* the way back: open, frames kept, timer
  faults

appdVars == <<life, app, ends, work, queue, unsent, writing, conn>>
outVars == <<writeStream, outBuf, retry>>
bindVars == <<sessions, clients, reports, reported>>
compVars == <<served, partial, fds, bindVars, outVars>>
sockVars == <<wire, closed, hungup, backlog>>
vars == <<appdVars, sockVars, compVars, faults>>

TypeOK ==
  /\ life \in Life
  /\ app \in [Sid -> {"idle", "checked", "open", "ended"}]
  /\ ends \subseteq Token
  /\ work \in 0..MaxWork
  /\ queue \in Seq(Message) /\ Len(queue) <= MaxQueue
  /\ unsent \in Message \cup {NoMsg}
  /\ writing \in Message \cup {NoMsg}
  /\ conn \in Conn \cup {NoConn}
  /\ wire \in [Conn -> Seq(Piece)]
  /\ closed \subseteq Conn /\ hungup \subseteq Conn
  /\ backlog \in Seq(Conn)
  /\ served \in Conn \cup {NoConn}
  /\ partial \in Message \cup {NoMsg}
  /\ fds \in Seq(Token)
  /\ sessions \in [Sid -> Token \cup {NoToken}]
  /\ clients \subseteq Token /\ reports \subseteq Token
  /\ reported \subseteq Sid
  /\ writeStream \in BOOLEAN /\ outBuf \in Nat /\ retry \in BOOLEAN
  /\ faults \in 0..MaxFaults

Init ==
  /\ life = 1
  /\ app = [s \in Sid |-> "idle"]
  /\ ends = {} /\ work = 0
  /\ queue = <<>> /\ unsent = NoMsg /\ writing = NoMsg /\ conn = NoConn
  /\ wire = [c \in Conn |-> <<>>]
  /\ closed = {} /\ hungup = {} /\ backlog = <<>>
  /\ served = NoConn /\ partial = NoMsg /\ fds = <<>>
  /\ sessions = [s \in Sid |-> NoToken]
  /\ clients = {} /\ reports = {} /\ reported = {}
  /\ writeStream = FALSE /\ outBuf = 0 /\ retry = FALSE
  /\ faults = 0

(***************************************************************************)
(* weft-appd: what the sessions queue.                                     *)
(***************************************************************************)
TheToken(s) == [life |-> life, sid |-> s]
Room == Len(queue) < MaxQueue
Enqueue(m) == queue' = Append(queue, m)
Connected == conn # NoConn

\* A session that starts finds the compositor connected ...
CheckConnected(s) ==
  /\ app[s] = "idle" /\ \A t \in Sid : app[t] = "idle" => s <= t
  /\ Connected
  /\ work < MaxWork /\ work' = work + 1
  /\ app' = [app EXCEPT ![s] = "checked"]
  /\ UNCHANGED <<life, ends, queue, unsent, writing, conn>>
  /\ UNCHANGED <<sockVars, compVars, faults>>

\* ... and queues one end of a new Wayland connection, if there is room; the
\* client task may have lost the connection since the check.
AttachClient(s) ==
  /\ app[s] = "checked"
  /\ \/ /\ Room
        /\ Enqueue([kind |-> "attach", life |-> life, sid |-> s])
        /\ app' = [app EXCEPT ![s] = "open"]
        /\ ends' = ends \cup {TheToken(s)}
     \/ /\ ~Room
        /\ app' = [app EXCEPT ![s] = "ended"]
        /\ UNCHANGED <<queue, ends>>
  /\ UNCHANGED <<life, work, unsent, writing, conn, sockVars, compVars, faults>>

\* A focus or a close request of an attached session.
Ask ==
  /\ \E s \in Sid : app[s] = "open"
  /\ work < MaxWork /\ Room
  /\ work' = work + 1
  /\ Enqueue([kind |-> "ask", life |-> life, n |-> work + 1])
  /\ UNCHANGED <<life, app, ends, unsent, writing, conn>>
  /\ UNCHANGED <<sockVars, compVars, faults>>

\* settle: the children have exited; the compositor is told, unless the
\* queue is full.
Settle(s) ==
  /\ app[s] = "open"
  /\ app' = [app EXCEPT ![s] = "ended"]
  /\ ends' = ends \ {TheToken(s)}
  /\ IF Room
     THEN Enqueue([kind |-> "destroyed", life |-> life, sid |-> s])
     ELSE UNCHANGED queue
  /\ UNCHANGED <<life, work, unsent, writing, conn, sockVars, compVars, faults>>

\* An application exits, of this appd or of one that is gone.
AppExits(t) ==
  /\ t \in ends
  /\ ends' = ends \ {t}
  /\ UNCHANGED <<life, app, work, queue, unsent, writing, conn>>
  /\ UNCHANGED <<sockVars, compVars, faults>>

(***************************************************************************)
(* weft-appd: the client task (run_client).                                *)
(***************************************************************************)
Free(c) ==
  /\ c # conn /\ c # served
  /\ \A i \in DOMAIN backlog : backlog[i] # c

\* The socket accepts a connection as soon as it has room in its backlog.
Connect ==
  /\ ~Connected
  /\ Cardinality({c \in Conn : ~Free(c)}) < MaxConn
  /\ \E k \in 1..MaxConn :
       LET c == <<life, k>> IN
         /\ Free(c) /\ \A j \in 1..(k - 1) : ~Free(<<life, j>>)
         /\ conn' = c
         /\ backlog' = Append(backlog, c)
         /\ wire' = [wire EXCEPT ![c] = <<>>]
  /\ UNCHANGED <<life, app, ends, work, queue, unsent, writing>>
  /\ UNCHANGED <<closed, hungup, compVars, faults>>

\* The compositor closed the connection or shut it down.
PeerClosed == conn \in hungup \/ (conn = served /\ ~writeStream)

\* The message that is sent next: the unsent one before the queued ones.
HasNext == unsent # NoMsg \/ queue # <<>>
NextMsg == IF unsent # NoMsg THEN unsent ELSE Head(queue)
TakeNext ==
  /\ unsent' = NoMsg
  /\ queue' = IF unsent # NoMsg THEN queue ELSE Tail(queue)

Wrote(m, part) ==
  wire' = [wire EXCEPT ![conn] = Append(@, [msg |-> m, part |-> part])]

\* The first bytes go out, with the descriptor.
WriteHead ==
  /\ Connected /\ ~PeerClosed
  /\ writing = NoMsg /\ HasNext
  /\ Wrote(NextMsg, "head")
  /\ writing' = NextMsg
  /\ TakeNext
  /\ UNCHANGED <<life, app, ends, work, conn>>
  /\ UNCHANGED <<closed, hungup, backlog, compVars, faults>>

\* The rest follows as plain data.
WriteRest ==
  /\ Connected /\ ~PeerClosed
  /\ writing # NoMsg
  /\ Wrote(writing, "rest")
  /\ writing' = NoMsg
  /\ UNCHANGED <<life, app, ends, work, queue, unsent, conn>>
  /\ UNCHANGED <<closed, hungup, backlog, compVars, faults>>

\* The loop is continued where it should be left.
MutantKeepsConnection == UNCHANGED <<conn, hungup, closed>>

\* appd drops its end of its connection.
DropConnection ==
  /\ conn' = NoConn
  /\ IF conn \in hungup
     THEN hungup' = hungup \ {conn} /\ UNCHANGED closed
     ELSE closed' = closed \cup {conn} /\ UNCHANGED hungup

\* The message that failed goes back to the end of the queue.
MutantRequeues ==
  /\ Connected /\ writing # NoMsg
  /\ faults < MaxFaults /\ faults' = faults + 1
  /\ queue' = Append(queue, writing)
  /\ writing' = NoMsg
  /\ DropConnection
  /\ UNCHANGED <<life, app, ends, work, unsent, wire, backlog, compVars>>

\* A write fails, at once when the compositor is gone; the message is kept
\* for the next connection, whatever part of it was written.
WriteFails ==
  /\ Connected
  /\ \/ PeerClosed /\ UNCHANGED faults
     \/ ~PeerClosed /\ faults < MaxFaults /\ faults' = faults + 1
  /\ \/ /\ writing # NoMsg
        /\ unsent' = writing
        /\ UNCHANGED queue
     \/ /\ writing = NoMsg /\ HasNext
        /\ unsent' = NextMsg
        /\ queue' = IF unsent # NoMsg THEN queue ELSE Tail(queue)
  /\ writing' = NoMsg
  /\ DropConnection
  /\ UNCHANGED <<life, app, ends, work, wire, backlog, compVars>>

\* The reader sees the end of the stream while no message is waiting to be
\* sent again.
ReaderEnds ==
  /\ Connected /\ PeerClosed
  /\ writing = NoMsg /\ unsent = NoMsg
  /\ DropConnection
  /\ UNCHANGED <<life, app, ends, work, queue, unsent, writing>>
  /\ UNCHANGED <<wire, backlog, compVars, faults>>

\* appd ends in any state and is started again; its applications may outlive
\* it for a while.
AppdRestarts ==
  /\ life < MaxLife /\ faults < MaxFaults
  /\ life' = life + 1 /\ faults' = faults + 1
  /\ app' = [s \in Sid |-> "idle"]
  /\ queue' = <<>> /\ unsent' = NoMsg /\ writing' = NoMsg
  /\ IF Connected THEN DropConnection ELSE UNCHANGED <<conn, closed, hungup>>
  /\ UNCHANGED <<ends, work, wire, backlog, compVars>>

(***************************************************************************)
(* weft-compositor: the way back to appd.                                  *)
(***************************************************************************)
\* flush with n frames kept: the socket takes all or some of them.  A write
\* after appd closed its end, or a backlog over the limit, shuts the
\* connection down; its read side then cleans up.
Flush(n) ==
  IF writeStream /\ n > 0
  THEN \/ /\ served \notin closed
          /\ outBuf' \in 0..(IF n <= MaxOut THEN n ELSE MaxOut)
          /\ UNCHANGED writeStream
       \/ /\ served \in closed \/ n > MaxOut
          /\ outBuf' = 0 /\ writeStream' = FALSE
  ELSE outBuf' = 0 /\ UNCHANGED writeStream

\* send: the frame is kept and flushed, and the retry timer armed for what is
\* left.
Send ==
  IF writeStream
  THEN /\ Flush(outBuf + 1)
       /\ retry' = (retry \/ outBuf' > 0)
  ELSE UNCHANGED outVars

\* schedule_flush's timer fires.
RetryFlush ==
  /\ retry
  /\ Flush(outBuf)
  /\ retry' = (outBuf' > 0)
  /\ UNCHANGED <<appdVars, sockVars, served, partial, fds, bindVars, faults>>

(***************************************************************************)
(* weft-compositor: the connection from appd.                              *)
(***************************************************************************)
\* The compositor closes its end of c.
HangUp(c) ==
  IF c \in closed
  THEN closed' = closed \ {c} /\ UNCHANGED hungup
  ELSE hungup' = hungup \cup {c} /\ UNCHANGED closed

\* A second connection takes the place of the first.
MutantAcceptReplaces ==
  /\ backlog # <<>>
  /\ backlog' = Tail(backlog)
  /\ served' = Head(backlog)
  /\ IF served # NoConn THEN HangUp(served) ELSE UNCHANGED <<closed, hungup>>
  /\ writeStream' = TRUE
  /\ partial' = NoMsg /\ fds' = <<>>
  /\ UNCHANGED <<appdVars, bindVars, wire, outBuf, retry, faults>>

\* One appd at a time: a second connection is refused while one is served.
Accept ==
  /\ backlog # <<>>
  /\ backlog' = Tail(backlog)
  /\ IF served # NoConn
     THEN /\ HangUp(Head(backlog))
          /\ wire' = [wire EXCEPT ![Head(backlog)] = <<>>]
          /\ UNCHANGED <<served, writeStream, partial, fds>>
     ELSE /\ served' = Head(backlog)
          /\ writeStream' = TRUE
          /\ partial' = NoMsg /\ fds' = <<>>
          /\ UNCHANGED <<closed, hungup, wire>>
  /\ UNCHANGED <<appdVars, bindVars, outBuf, retry, faults>>

Bound(s) == sessions[s] # NoToken

\* The client of t goes: killed, or it closed its connection.  Its
\* disconnection is reported through the event loop's channel.
Disconnected(gone) ==
  /\ clients' = clients \ gone
  /\ reports' = reports \cup (clients \cap gone)

\* The application ID is looked at before the descriptor is taken.
MutantRefusesFirst(m) ==
  \/ /\ fds # <<>> /\ ~Bound(m.sid)
     /\ fds' = Tail(fds)
     /\ sessions' = [sessions EXCEPT ![m.sid] = Head(fds)]
     /\ clients' = clients \cup {Head(fds)}
     /\ UNCHANGED <<reports, reported>>
  \/ UNCHANGED <<fds, bindVars>>

\* attach_client: the oldest descriptor is the one of this message; a client
\* is bound unless the session has one or the descriptor cannot be used.
HandleAttach(m) ==
  IF fds = <<>>
  THEN UNCHANGED <<fds, bindVars>>
  ELSE /\ fds' = Tail(fds)
       /\ \/ /\ ~Bound(m.sid)
             /\ sessions' = [sessions EXCEPT ![m.sid] = Head(fds)]
             /\ clients' = clients \cup {Head(fds)}
             /\ UNCHANGED <<reports, reported>>
          \/ UNCHANGED bindVars

HandleDestroyed(m) ==
  /\ reported' = reported \ {m.sid}
  /\ sessions' = [sessions EXCEPT ![m.sid] = NoToken]
  /\ Disconnected({sessions[m.sid]})
  /\ UNCHANGED fds

\* The first piece of a frame arrives, with the descriptor if it has one.
ReadHead ==
  /\ served # NoConn /\ wire[served] # <<>>
  /\ Head(wire[served]).part = "head"
  /\ wire' = [wire EXCEPT ![served] = Tail(@)]
  /\ LET m == Head(wire[served]).msg IN
       /\ partial' = m
       /\ fds' = IF m.kind = "attach"
                 THEN Append(fds, [life |-> m.life, sid |-> m.sid]) ELSE fds
  /\ UNCHANGED <<appdVars, closed, hungup, backlog, served, bindVars>>
  /\ UNCHANGED <<outVars, faults>>

\* The frame is complete: its message is handled, then the way back flushed.
ReadRest ==
  /\ served # NoConn /\ wire[served] # <<>>
  /\ Head(wire[served]).part = "rest"
  /\ wire' = [wire EXCEPT ![served] = Tail(@)]
  /\ partial' = NoMsg
  /\ LET m == Head(wire[served]).msg IN
       CASE m.kind = "attach"    -> HandleAttach(m)
         [] m.kind = "destroyed" -> HandleDestroyed(m)
         [] OTHER                -> UNCHANGED <<fds, bindVars>>
  /\ Flush(outBuf)
  /\ UNCHANGED <<appdVars, closed, hungup, backlog, served, retry, faults>>

\* Nothing is left to read and the stream ended, by either side, or
\* descriptors arrive without messages: the sessions are closed with the
\* connection, for they belong to that appd.
Disconnect ==
  /\ served # NoConn
  /\ \/ wire[served] = <<>> /\ (served \in closed \/ ~writeStream)
     \/ Len(fds) > MaxPendingFds
  /\ served' = NoConn
  /\ HangUp(served)
  /\ wire' = [wire EXCEPT ![served] = <<>>]
  /\ partial' = NoMsg /\ fds' = <<>>
  /\ sessions' = [s \in Sid |-> NoToken]
  /\ Disconnected({sessions[s] : s \in Sid})
  /\ reported' = {}
  /\ writeStream' = FALSE /\ outBuf' = 0
  /\ UNCHANGED <<appdVars, backlog, retry, faults>>

\* A client goes without a report.
MutantSilentEnd(t) ==
  /\ t \in clients /\ t \notin ends
  /\ clients' = clients \ {t}
  /\ UNCHANGED <<appdVars, sockVars, served, partial, fds, sessions>>
  /\ UNCHANGED <<reports, reported, outVars, faults>>

\* An application's connection is seen closed.
ClientGone(t) ==
  /\ t \in clients /\ t \notin ends
  /\ Disconnected({t})
  /\ UNCHANGED <<appdVars, sockVars, served, partial, fds, sessions>>
  /\ UNCHANGED <<reported, outVars, faults>>

\* A report ends the session whatever client it has.
MutantAnyClient(t) ==
  /\ t \in reports
  /\ reports' = reports \ {t}
  /\ sessions' = [sessions EXCEPT ![t.sid] = NoToken]
  /\ reported' = reported \ {t.sid}
  /\ Send
  /\ UNCHANGED <<appdVars, sockVars, served, partial, fds, clients, faults>>

\* A report is handled: only the session's current client ends it.
HandleReport(t) ==
  /\ t \in reports
  /\ reports' = reports \ {t}
  /\ IF sessions[t.sid] = t
     THEN /\ sessions' = [sessions EXCEPT ![t.sid] = NoToken]
          /\ reported' = reported \ {t.sid}
          /\ Send
     ELSE UNCHANGED <<sessions, reported, outVars>>
  /\ UNCHANGED <<appdVars, sockVars, served, partial, fds, clients, faults>>

\* A client maps a toplevel; the first of its session is reported.
SurfaceCreated(t) ==
  /\ t \in clients
  /\ Bound(t.sid) /\ t.sid \notin reported
  /\ reported' = reported \cup {t.sid}
  /\ Send
  /\ UNCHANGED <<appdVars, sockVars, served, partial, fds, sessions, clients>>
  /\ UNCHANGED <<reports, faults>>

\* The compositor ends and is started again: its socket, its connections and
\* every client are gone.
CompositorRestarts ==
  /\ faults < MaxFaults
  /\ faults' = faults + 1
  /\ served' = NoConn /\ backlog' = <<>>
  /\ hungup' = IF Connected THEN {conn} ELSE {}
  /\ closed' = {}
  /\ wire' = [c \in Conn |-> <<>>]
  /\ partial' = NoMsg /\ fds' = <<>>
  /\ sessions' = [s \in Sid |-> NoToken]
  /\ clients' = {} /\ reports' = {} /\ reported' = {}
  /\ writeStream' = FALSE /\ outBuf' = 0 /\ retry' = FALSE
  /\ UNCHANGED appdVars

Sessions ==
  \/ \E s \in Sid : CheckConnected(s) \/ AttachClient(s) \/ Settle(s)
  \/ \E t \in Token : AppExits(t)
  \/ Ask

\* The client task goes on by itself, also after a write that had to fail.
ClientTask ==
  Connect \/ WriteHead \/ WriteRest \/ ReaderEnds \/ (PeerClosed /\ WriteFails)

\* What the compositor's event loop finds ready besides its listener.
Sources ==
  \/ ReadHead \/ ReadRest \/ Disconnect \/ RetryFlush
  \/ \E t \in Token : ClientGone(t) \/ HandleReport(t)

Next ==
  \/ Sessions \/ ClientTask \/ Accept \/ Sources
  \/ WriteFails \/ AppdRestarts \/ CompositorRestarts
  \/ \E t \in Token : SurfaceCreated(t)

\* The event loop dispatches its listener and its other sources; nothing is
\* assumed of applications, sessions, failures and restarts.
Fairness == WF_vars(ClientTask) /\ WF_vars(Accept) /\ WF_vars(Sources)

Spec == Init /\ [][Next]_vars
FairSpec == Spec /\ Fairness

(***************************************************************************)
(* Properties.                                                             *)
(***************************************************************************)
\* Descriptors and AttachClient messages are matched by their order alone,
\* and still the descriptors held are exactly the one of the AttachClient
\* that is arriving (try_decode_frames, on_read): none is left over by a
\* frame cut short, a refused or a lost connection, and so no peer that
\* follows the protocol meets MAX_PENDING_FDS.
DescriptorsMatch ==
  fds = IF partial.kind = "attach"
        THEN <<[life |-> partial.life, sid |-> partial.sid]>> ELSE <<>>

\* The client bound to a session is the one the connected appd made for that
\* session, though IDs are used again by the next appd ("Holding the
\* connection is the session's identity").
BoundToItsOwn ==
  \A s \in Sid : Bound(s) =>
    served # NoConn /\ sessions[s] = [life |-> served[1], sid |-> s]

\* Every connected client of a session can be found by it: otherwise no end
\* of the session and no end of appd would close the client's windows (the
\* comparison of client IDs in setup, disconnect).
NoOrphanClient == \A t \in clients : sessions[t.sid] = t

\* A session and its client always find each other.
ClientsMatch == BoundToItsOwn /\ NoOrphanClient

\* Whenever sessions are bound to applications that have gone, a time comes
\* when none is, also when their AppSurfaceDestroyed found the queue full or
\* was lost (settle: "compositor queue unavailable; surface not released").
GoneBound == \E s \in Sid : Bound(s) /\ sessions[s] \notin ends
GoneIsReleased == GoneBound ~> ~GoneBound

\* A full queue gets room again: no order of refused, lost and restarted
\* connections leaves appd and the compositor waiting for each other.
QueueDrains == ~Room ~> Room

(***************************************************************************)
(* The messages on their way, from the compositor back to the queue, as    *)
(* the abstract LossyFifo.                                                 *)
(***************************************************************************)
\* The messages of which the last piece is among pieces.
Completes(piece) == IF piece.part = "rest" THEN <<piece.msg>> ELSE <<>>
Complete(pieces) == FlattenSeq([i \in DOMAIN pieces |-> Completes(pieces[i])])

\* The oldest are on the connection that is read, then on those that wait to
\* be accepted.
OnServed == IF served = NoConn THEN <<>> ELSE Complete(wire[served])
Waiting == FlattenSeq([i \in DOMAIN backlog |-> Complete(wire[backlog[i]])])

\* Then come the message being written or to be written again, and the queue.
Only(m) == IF m = NoMsg THEN <<>> ELSE <<m>>
Kept == Only(writing) \o Only(unsent) \o queue

OnTheirWay == OnServed \o Waiting \o Kept

Fifo == INSTANCE LossyFifo WITH pending <- OnTheirWay

\* A message is handled at most once and in the order it was queued: writing
\* it again after a failed write never duplicates it or lets it overtake
\* (spawn: "a message whose write failed is sent again").
OrderKept == Fifo!Spec
=============================================================================
