------------------------ MODULE CompositorLinkProofs ------------------------
(***************************************************************************)
(* Proofs about CompositorLink, for any sessions, connections, lives of    *)
(* weft-appd, sizes of the channel and numbers of faults.                  *)
(***************************************************************************)
EXTENDS CompositorLink, TLAPS, WellFoundedInduction

(***************************************************************************)
(* The inductive invariant.                                                *)
(***************************************************************************)
Typed ==
  /\ life \in Life
  /\ app \in [Sid -> {"idle", "checked", "open", "ended"}]
  /\ work \in Nat /\ queue \in Seq(Message)
  /\ unsent \in Message \cup {NoMsg} /\ writing \in Message \cup {NoMsg}
  /\ conn \in Conn \cup {NoConn}
  /\ wire \in [Conn -> Seq(Piece)]
  /\ closed \subseteq Conn /\ backlog \in Seq(Conn)
  /\ served \in Conn \cup {NoConn}
  /\ partial \in Message \cup {NoMsg}
  /\ sessions \in [Sid -> Token \cup {NoToken}]
  /\ clients \subseteq Token /\ reports \subseteq Token

\* A message belongs to the weft-appd that runs, on a connection to the one
\* that made the connection.
Lives ==
  /\ \A i \in DOMAIN queue : queue[i].life = life
  /\ unsent # NoMsg => unsent.life = life
  /\ writing # NoMsg => writing.life = life
  /\ conn # NoConn => conn[1] = life
  /\ \A c \in Conn : \A i \in DOMAIN wire[c] :
       wire[c][i].msg.life = c[1] /\ wire[c][i].msg.life <= life
  /\ partial # NoMsg => partial.life = served[1]
  /\ \A t \in clients \cup reports : t.life <= life

\* The message of which the first piece was read on a connection.
Half(c) == IF c = served THEN partial ELSE NoMsg
HeadOf(m) == [msg |-> m, part |-> "head"]

\* The pieces on a connection alternate, beginning behind what was read ...
Alternates(c) ==
  \A i \in DOMAIN wire[c] :
    /\ wire[c][i].part = "head" =>
         IF i = 1 THEN Half(c) = NoMsg ELSE wire[c][i - 1].part = "rest"
    /\ wire[c][i].part = "rest" =>
         IF i = 1 THEN Half(c) = wire[c][1].msg ELSE wire[c][i - 1] = HeadOf(wire[c][i].msg)

\* ... and, on weft-appd's, unless it is lost, ending before what it writes.
EndsWell ==
  Connected /\ ~PeerClosed =>
    IF wire[conn] = <<>> THEN Half(conn) = writing
    ELSE LET last == wire[conn][Len(wire[conn])] IN
         IF writing = NoMsg THEN last.part = "rest" ELSE last = HeadOf(writing)

Streams ==
  /\ \A c \in Conn : Alternates(c)
  /\ EndsWell
  /\ ~Connected => writing = NoMsg
  /\ writing # NoMsg => unsent = NoMsg

\* A connection weft-appd has closed is one the compositor still holds, and
\* one it has not is held too, unless the compositor has closed it.
Held(c) == c = served \/ \E i \in DOMAIN backlog : backlog[i] = c
Sockets ==
  /\ conn \notin closed
  /\ \A c \in closed : Held(c)
  /\ Connected /\ conn \notin hungup => Held(conn)

\* Without a connection nothing is bound or half read.
Unserved ==
  served = NoConn => partial = NoMsg /\ \A s \in Sid : sessions[s] = NoToken

\* What may still be handled: no AttachClient twice.
Attach(t) == [kind |-> "attach", life |-> t.life, sid |-> t.sid]
Queued == {queue[i] : i \in DOMAIN queue}
OnWire(m) ==
  \E c \in Conn : \E i \in DOMAIN wire[c] : wire[c][i].part = "rest" /\ wire[c][i].msg = m
Pending(m) == m \in Queued \/ m = unsent \/ m = writing \/ OnWire(m)

QueuedOnce == \A i, j \in DOMAIN queue : queue[i].kind = "attach" /\ queue[i] = queue[j] => i = j
Alone(m) == m.kind = "attach" => m \notin Queued /\ ~OnWire(m)
NotWired == \A m \in Queued : m.kind = "attach" => ~OnWire(m)
WiredOnce ==
  \A c, d \in Conn : \A i \in DOMAIN wire[c], j \in DOMAIN wire[d] :
    /\ wire[c][i].part = "rest" /\ wire[d][j].part = "rest"
    /\ wire[c][i].msg = wire[d][j].msg /\ wire[c][i].msg.kind = "attach"
    => c = d /\ i = j

Once == QueuedOnce /\ Alone(unsent) /\ Alone(writing) /\ NotWired /\ WiredOnce

\* What was handled, and what has not been queued, is not pending.
Handled == clients \cup reports
Apart ==
  /\ clients \cap reports = {}
  /\ \A t \in Handled : ~Pending(Attach(t))
  /\ \A s \in Sid : app[s] \in {"idle", "checked"} =>
       ~Pending(Attach(TheToken(s))) /\ TheToken(s) \notin Handled

LinkInv ==
  /\ Typed /\ Lives /\ Streams /\ Sockets /\ Unserved /\ Once /\ Apart
  /\ DescriptorsMatch /\ ClientsMatch

-----------------------------------------------------------------------------
\* What the proofs use of the constants.
LEMMA Constants == Sid \subseteq Nat /\ MaxLife \in Nat \ {0} /\ MaxConn \in Nat \ {0}
BY LinkAssumption

\* What a message, a token and a connection are.
LEMMA Messages ==
  /\ NoMsg \notin Message /\ NoMsg.kind = "none"
  /\ NoToken \notin Token /\ NoConn \notin Conn
  /\ \A t \in Token : Attach(t) \in Message /\ t.life \in Life /\ t.sid \in Sid
  /\ \A m \in Message : m.life \in Life
  /\ \A m \in Message : m.kind \in {"attach", "destroyed"} => m.sid \in Sid
  /\ \A m \in Message : m.kind = "attach" => m = Attach([life |-> m.life, sid |-> m.sid])
  /\ \A c \in Conn : c[1] \in Life
  /\ \A s \in Sid, l \in Life : [life |-> l, sid |-> s] \in Token
<1>1. NoMsg \notin Message /\ NoMsg.kind = "none"
  BY DEF NoMsg, Message
<1>2. NoToken \notin Token /\ NoConn \notin Conn
  BY DEF NoToken, Token, NoConn, Conn, Life
<1>3. \A t \in Token : Attach(t) \in Message /\ t.life \in Life /\ t.sid \in Sid
  BY DEF Token, Attach, Message
<1>4. /\ \A m \in Message : m.life \in Life
      /\ \A m \in Message : m.kind \in {"attach", "destroyed"} => m.sid \in Sid
  BY DEF Message
<1>5. \A m \in Message : m.kind = "attach" => m = Attach([life |-> m.life, sid |-> m.sid])
  BY DEF Message, Attach
<1>6. /\ \A c \in Conn : c[1] \in Life
      /\ \A s \in Sid, l \in Life : [life |-> l, sid |-> s] \in Token
  BY DEF Conn, Token
<1> QED BY <1>1, <1>2, <1>3, <1>4, <1>5, <1>6

\* Neither end has anything of the other.
LEMMA InitLink == Init => LinkInv
<1> SUFFICES ASSUME Init PROVE LinkInv
  OBVIOUS
<1>1. Typed
  BY Constants DEF Init, Typed, Life
<1>2. Lives /\ Streams
  BY Messages DEF Init, Lives, Streams, Alternates, EndsWell, Connected
<1>3. Sockets /\ Unserved /\ DescriptorsMatch /\ ClientsMatch
  BY Messages DEF Init, Sockets, Unserved, Connected, DescriptorsMatch, ClientsMatch, BoundToItsOwn,
     NoOrphanClient, Bound
<1>4. Once
  BY Messages DEF Init, Once, QueuedOnce, Alone, NotWired, WiredOnce, Queued
<1>5. Apart
  <2>1. \A m \in Message : ~Pending(m)
    BY Messages DEF Init, Pending, Queued, OnWire
  <2> QED BY <1>1, <2>1, Messages DEF Init, Apart, Handled, TheToken, Typed
<1> QED BY <1>1, <1>2, <1>3, <1>4, <1>5 DEF LinkInv

(***************************************************************************)
(* What a step leaves alone.                                               *)
(***************************************************************************)
\* The connections and what is on them stay.
LEMMA StreamsStay ==
  ASSUME Streams, UNCHANGED <<wire, served, partial, conn, writing>>,
         hungup \subseteq hungup', writeStream' => writeStream,
         writing # NoMsg => unsent' = NoMsg
  PROVE  Streams'
<1>1. Connected' = Connected /\ (PeerClosed => PeerClosed')
  BY DEF Connected, PeerClosed
<1>2. \A c : Half(c)' = Half(c)
  BY DEF Half
<1>3. \A c \in Conn : Alternates(c)'
  BY <1>2 DEF Streams, Alternates, HeadOf
<1>4. EndsWell'
  BY <1>1, <1>2 DEF Streams, EndsWell, HeadOf
<1> QED BY <1>1, <1>3, <1>4 DEF Streams

\* Nothing more is pending or handled, and nothing queued is new.
LEMMA ApartStays ==
  ASSUME Typed, Apart, life' = life,
         \A m \in Message : m.kind = "attach" /\ Pending(m)' => Pending(m),
         \A s \in Sid : app'[s] \in {"idle", "checked"} => app[s] \in {"idle", "checked"},
         Handled' \subseteq Handled, clients' \cap reports' = {}
  PROVE  Apart'
<1>1. \A t \in Token : Attach(t) \in Message /\ Attach(t).kind = "attach"
  BY Messages DEF Attach
<1>2. \A t \in Handled' : ~Pending(Attach(t))'
  <2> SUFFICES ASSUME NEW t \in Handled' PROVE ~Pending(Attach(t))'
    OBVIOUS
  <2>1. t \in Handled /\ t \in Token
    BY DEF Handled, Typed
  <2> QED BY <1>1, <2>1 DEF Apart, Attach
<1>3. ASSUME NEW s \in Sid, app'[s] \in {"idle", "checked"}
      PROVE  ~Pending(Attach(TheToken(s)))' /\ TheToken(s)' \notin Handled'
  <2>1. TheToken(s)' = TheToken(s) /\ TheToken(s) \in Token
    BY Messages DEF TheToken, Typed
  <2>2. ~Pending(Attach(TheToken(s))) /\ TheToken(s) \notin Handled
    BY <1>3 DEF Apart
  <2>3. Attach(TheToken(s))' = Attach(TheToken(s))
    BY <2>1 DEF Attach
  <2> QED BY <1>1, <2>1, <2>2, <2>3
<1> QED BY <1>2, <1>3 DEF Apart

\* What weft-appd's sessions do leaves both ends of the connection alone.
LEMMA LinkStays ==
  ASSUME LinkInv, UNCHANGED <<life, unsent, writing, conn, wire, closed, hungup, backlog, served,
                              partial, fds, sessions, clients, reports, writeStream>>
  PROVE  /\ Streams' /\ Sockets' /\ Unserved' /\ DescriptorsMatch' /\ ClientsMatch'
         /\ Handled' = Handled /\ clients' \cap reports' = {}
<1>1. Streams'
  BY StreamsStay DEF LinkInv, Streams
<1>2. Sockets' /\ Unserved' /\ DescriptorsMatch'
  BY DEF LinkInv, Sockets, Held, Connected, Unserved, DescriptorsMatch
<1>3. ClientsMatch'
  BY DEF LinkInv, ClientsMatch, BoundToItsOwn, NoOrphanClient, Bound
<1> QED BY <1>1, <1>2, <1>3 DEF LinkInv, Apart, Handled

\* A message is queued.
LEMMA Queueing ==
  ASSUME Typed, NEW m \in Message, Enqueue(m)
  PROVE  /\ queue' \in Seq(Message) /\ Queued' = Queued \cup {m}
         /\ DOMAIN queue' = 1 .. Len(queue) + 1 /\ queue'[Len(queue) + 1] = m
         /\ DOMAIN queue = 1 .. Len(queue) /\ Len(queue) \in Nat
         /\ \A i \in DOMAIN queue : queue'[i] = queue[i]
<1>1. queue \in Seq(Message) /\ queue' = Append(queue, m)
  BY DEF Typed, Enqueue
<1>2. /\ queue' \in Seq(Message)
      /\ DOMAIN queue' = 1 .. Len(queue) + 1 /\ queue'[Len(queue) + 1] = m
      /\ DOMAIN queue = 1 .. Len(queue) /\ Len(queue) \in Nat
      /\ \A i \in DOMAIN queue : queue'[i] = queue[i]
  BY <1>1
<1>3. Queued' = Queued \cup {m}
  BY <1>2 DEF Queued
<1> QED BY <1>2, <1>3

\* A session asks nothing new of a client: it starts, ends or has a request.
LEMMA SessionStep ==
  ASSUME LinkInv,
         UNCHANGED <<life, unsent, writing, conn, wire, closed, hungup, backlog, served,
                     partial, fds, sessions, clients, reports, writeStream>>,
         work' \in Nat, app' \in [Sid -> {"idle", "checked", "open", "ended"}],
         \A s \in Sid : app'[s] \in {"idle", "checked"} => app[s] \in {"idle", "checked"},
         queue' = queue \/ \E m \in Message : m.kind # "attach" /\ m.life = life /\ Enqueue(m)
  PROVE  LinkInv'
<1>1. Typed
  BY DEF LinkInv
<1>2. \/ queue' = queue
      \/ \E m \in Message :
           /\ m.kind # "attach" /\ m.life = life
           /\ queue' \in Seq(Message) /\ Queued' = Queued \cup {m}
           /\ DOMAIN queue' = 1 .. Len(queue) + 1 /\ queue'[Len(queue) + 1] = m
           /\ DOMAIN queue = 1 .. Len(queue) /\ Len(queue) \in Nat
           /\ \A i \in DOMAIN queue : queue'[i] = queue[i]
  BY <1>1, Queueing
<1>3. Typed'
  BY <1>1, <1>2 DEF Typed
<1>4. Lives'
  BY <1>2 DEF LinkInv, Lives
<1>5. Once'
  <2>1. QueuedOnce'
    BY <1>2 DEF LinkInv, Once, QueuedOnce
  <2>2. \A m : m.kind = "attach" /\ m \in Queued' => m \in Queued
    BY <1>2 DEF Queued
  <2>3. \A m : OnWire(m)' <=> OnWire(m)
    BY DEF OnWire
  <2>4. NotWired'
    BY <2>2, <2>3 DEF LinkInv, Once, NotWired
  <2>5. \A m : Alone(m) => Alone(m)'
    BY <2>2, <2>3 DEF Alone
  <2>6. Alone(unsent)' /\ Alone(writing)'
    BY <2>5 DEF LinkInv, Once, Alone
  <2>7. WiredOnce'
    BY DEF LinkInv, Once, WiredOnce
  <2> QED BY <2>1, <2>4, <2>6, <2>7 DEF Once
<1>6. Apart'
  <2>1. \A m \in Message : m.kind = "attach" /\ Pending(m)' => Pending(m)
    BY <1>2 DEF Pending, Queued, OnWire
  <2> QED BY <1>1, <2>1, LinkStays, ApartStays DEF LinkInv
<1> QED BY <1>3, <1>4, <1>5, <1>6, LinkStays DEF LinkInv
(***************************************************************************)
(* Sessions.                                                               *)
(***************************************************************************)
\* A session starts, has a request, settles; an application exits.
LEMMA SessionsKeepLink ==
  ASSUME LinkInv,
         \/ \E s \in Sid : CheckConnected(s) \/ Settle(s)
         \/ \E t \in Token : AppExits(t)
         \/ Ask
  PROVE  LinkInv'
<1>0. app \in [Sid -> {"idle", "checked", "open", "ended"}] /\ life \in Life /\ work \in Nat
  BY DEF LinkInv, Typed
<1>1. ASSUME NEW s \in Sid, CheckConnected(s) PROVE LinkInv'
  BY <1>0, <1>1, SessionStep DEF CheckConnected, sockVars, compVars, bindVars, outVars
<1>2. ASSUME NEW s \in Sid, Settle(s) PROVE LinkInv'
  <2>1. [kind |-> "destroyed", life |-> life, sid |-> s] \in Message
    BY <1>0 DEF Message
  <2>2. \A u \in Sid : app'[u] \in {"idle", "checked"} => app[u] \in {"idle", "checked"}
    BY <1>0, <1>2 DEF Settle
  <2> QED BY <1>0, <1>2, <2>1, <2>2, SessionStep DEF Settle, sockVars, compVars, bindVars, outVars
<1>3. ASSUME NEW t \in Token, AppExits(t) PROVE LinkInv'
  BY <1>0, <1>3, SessionStep DEF AppExits, sockVars, compVars, bindVars, outVars
<1>4. ASSUME Ask PROVE LinkInv'
  <2>1. work + 1 \in 1..MaxWork
    BY <1>0, <1>4, LinkAssumption DEF Ask
  <2>2. [kind |-> "ask", life |-> life, n |-> work + 1] \in Message
    BY <1>0, <2>1 DEF Message
  <2> QED BY <1>0, <1>4, <2>2, SessionStep DEF Ask, sockVars, compVars, bindVars, outVars
<1> QED BY <1>1, <1>2, <1>3, <1>4
\* A connection is made for a session, and its end queued.
LEMMA AttachKeepsLink ==
  ASSUME LinkInv, NEW s \in Sid, AttachClient(s)
  PROVE  LinkInv'
<1> DEFINE m == Attach(TheToken(s))
<1>1. /\ Typed /\ app[s] = "checked" /\ app' \in [Sid -> {"idle", "checked", "open", "ended"}]
      /\ \A u \in Sid : app'[u] \in {"idle", "checked"} => app[u] \in {"idle", "checked"} /\ u # s
      /\ UNCHANGED <<life, work, unsent, writing, conn, wire, closed, hungup, backlog, served,
                     partial, fds, sessions, clients, reports, writeStream>>
  BY DEF AttachClient, LinkInv, Typed, sockVars, compVars, bindVars, outVars
<1>2. CASE ~Room
  <2>1. queue' = queue
    BY <1>2 DEF AttachClient
  <2> QED BY <1>1, <2>1, SessionStep DEF Typed
<1>3. CASE Room
  <2>1. TheToken(s) \in Token /\ m \in Message /\ m.kind = "attach" /\ m.life = life
    BY <1>1, Messages DEF TheToken, Attach, Typed
  <2>2. Enqueue(m)
    BY <1>3 DEF AttachClient, Attach, TheToken
  <2>3. /\ queue' \in Seq(Message) /\ Queued' = Queued \cup {m}
        /\ DOMAIN queue' = 1 .. Len(queue) + 1 /\ queue'[Len(queue) + 1] = m
        /\ DOMAIN queue = 1 .. Len(queue) /\ Len(queue) \in Nat
        /\ \A i \in DOMAIN queue : queue'[i] = queue[i]
    BY <1>1, <2>1, <2>2, Queueing
  <2>4. /\ ~Pending(m) /\ TheToken(s) \notin Handled
        /\ \A t \in Handled : t # TheToken(s) /\ ~Pending(Attach(t))
    BY <1>1 DEF LinkInv, Apart
  <2>5. /\ Streams' /\ Sockets' /\ Unserved' /\ DescriptorsMatch' /\ ClientsMatch'
        /\ Handled' = Handled /\ clients' \cap reports' = {}
    BY <1>1, LinkStays
  <2>6. Typed'
    BY <1>1, <2>3 DEF Typed
  <2>7. Lives'
    BY <1>1, <2>1, <2>3 DEF LinkInv, Lives
  <2>8. \A n : OnWire(n)' <=> OnWire(n)
    BY <1>1 DEF OnWire
  <2>9. Once'
    <3>1. QueuedOnce'
      <4>1. \A i \in DOMAIN queue : queue[i] # m
        BY <2>4 DEF Pending, Queued
      <4> QED BY <2>3, <4>1 DEF LinkInv, Once, QueuedOnce
    <3>2. m # unsent /\ m # writing /\ ~OnWire(m)
      BY <2>4 DEF Pending
    <3>3. \A n : n # m /\ Alone(n) => Alone(n)'
      BY <2>3, <2>8 DEF Alone
    <3>4. Alone(unsent)' /\ Alone(writing)'
      BY <1>1, <3>2, <3>3 DEF LinkInv, Once, Alone
    <3>5. NotWired'
      BY <2>3, <2>8, <3>2 DEF LinkInv, Once, NotWired
    <3>6. WiredOnce'
      BY <1>1 DEF LinkInv, Once, WiredOnce
    <3> QED BY <3>1, <3>4, <3>5, <3>6 DEF Once
  <2>10. \A n : n # m => (Pending(n)' <=> Pending(n))
    BY <1>1, <2>3, <2>8 DEF Pending
  <2>11. \A t \in Token : t # TheToken(s) => Attach(t) # m
    BY <2>1, Messages DEF Attach, Token
  <2>12. Apart'
    <3>1. \A t \in Handled' : ~Pending(Attach(t))'
      <4> SUFFICES ASSUME NEW t \in Handled' PROVE ~Pending(Attach(t))'
        OBVIOUS
      <4>1. t \in Handled /\ t \in Token
        BY <1>1, <2>5 DEF Handled, Typed
      <4> QED BY <2>4, <2>10, <2>11, <4>1 DEF Attach
    <3>2. ASSUME NEW u \in Sid, app'[u] \in {"idle", "checked"}
          PROVE  ~Pending(Attach(TheToken(u)))' /\ TheToken(u)' \notin Handled'
      <4>1. app[u] \in {"idle", "checked"} /\ u # s
        BY <1>1, <3>2
      <4>2. TheToken(u)' = TheToken(u) /\ TheToken(u) \in Token /\ TheToken(u) # TheToken(s)
        BY <1>1, <4>1, Messages DEF TheToken, Typed
      <4>3. ~Pending(Attach(TheToken(u))) /\ TheToken(u) \notin Handled
        BY <4>1 DEF LinkInv, Apart
      <4>4. Attach(TheToken(u))' = Attach(TheToken(u)) /\ Attach(TheToken(u)) # m
        BY <2>11, <4>2 DEF Attach
      <4> QED BY <2>5, <2>10, <4>2, <4>3, <4>4
    <3> QED BY <2>5, <3>1, <3>2 DEF Apart
  <2> QED BY <2>5, <2>6, <2>7, <2>9, <2>12 DEF LinkInv
<1> QED BY <1>2, <1>3
(***************************************************************************)
(* What is read from a connection, or lost with it.                        *)
(***************************************************************************)
\* Pieces go from the front of connections only.
Shrinks ==
  /\ wire' \in [Conn -> Seq(Piece)]
  /\ \A c \in Conn : \E k \in Nat : \A i \in DOMAIN wire'[c] :
       i + k \in DOMAIN wire[c] /\ wire'[c][i] = wire[c][i + k]

LEMMA EmptiedShrinks ==
  ASSUME Typed, NEW c \in Conn, wire' = [wire EXCEPT ![c] = <<>>]
  PROVE  Shrinks
<1>1. wire' \in [Conn -> Seq(Piece)]
  BY DEF Typed
<1>2. \A d \in Conn : \A i \in DOMAIN wire'[d] :
        i + 0 \in DOMAIN wire[d] /\ wire'[d][i] = wire[d][i + 0]
  BY DEF Typed
<1> QED BY <1>1, <1>2 DEF Shrinks

LEMMA ReadShrinks ==
  ASSUME Typed, NEW c \in Conn, wire[c] # <<>>, wire' = [wire EXCEPT ![c] = Tail(@)]
  PROVE  /\ Shrinks
         /\ wire[c] \in Seq(Piece) /\ Len(wire[c]) \in Nat \ {0} /\ wire'[c] \in Seq(Piece)
         /\ DOMAIN wire[c] = 1 .. Len(wire[c]) /\ DOMAIN wire'[c] = 1 .. Len(wire[c]) - 1
         /\ Len(wire'[c]) = Len(wire[c]) - 1
         /\ \A i \in DOMAIN wire'[c] : wire'[c][i] = wire[c][i + 1]
         /\ Head(wire[c]) = wire[c][1] /\ wire[c][1] \in Piece
         /\ \A d \in Conn : d # c => wire'[d] = wire[d]
<1>1. wire[c] \in Seq(Piece) /\ wire'[c] = Tail(wire[c]) /\ wire' \in [Conn -> Seq(Piece)]
  BY DEF Typed
<1>2. /\ Len(wire[c]) \in Nat \ {0} /\ wire'[c] \in Seq(Piece)
      /\ DOMAIN wire[c] = 1 .. Len(wire[c]) /\ DOMAIN wire'[c] = 1 .. Len(wire[c]) - 1
      /\ Len(wire'[c]) = Len(wire[c]) - 1
      /\ \A i \in DOMAIN wire'[c] : wire'[c][i] = wire[c][i + 1]
      /\ Head(wire[c]) = wire[c][1] /\ wire[c][1] \in Piece
  BY <1>1
<1>3. \A d \in Conn : d # c => wire'[d] = wire[d] /\ wire[d] \in Seq(Piece)
  BY DEF Typed
<1>4. \A i \in DOMAIN wire'[c] : i + 1 \in DOMAIN wire[c] /\ wire'[c][i] = wire[c][i + 1]
  BY <1>2
<1>5. \A d \in Conn : d # c => \A i \in DOMAIN wire'[d] :
        i + 0 \in DOMAIN wire[d] /\ wire'[d][i] = wire[d][i + 0]
  BY <1>3
<1>6. Shrinks
  <2> SUFFICES ASSUME NEW d \in Conn
               PROVE  \E k \in Nat : \A i \in DOMAIN wire'[d] :
                        i + k \in DOMAIN wire[d] /\ wire'[d][i] = wire[d][i + k]
    BY <1>1 DEF Shrinks
  <2>1. CASE d = c
    BY <1>4, <2>1
  <2>2. CASE d # c
    <3>1. 0 \in Nat
      OBVIOUS
    <3> QED BY <1>5, <2>2, <3>1
  <2> QED BY <2>1, <2>2
<1> QED BY <1>1, <1>2, <1>3, <1>6

\* Nothing comes to be pending by it.
LEMMA ShrinkingKeepsOnce ==
  ASSUME Typed, Once, Shrinks, UNCHANGED <<queue, unsent, writing>>
  PROVE  /\ Once' /\ \A m : Pending(m)' => Pending(m)
         /\ \A m : OnWire(m)' => OnWire(m)
<1>1. \A m : OnWire(m)' => OnWire(m)
  BY DEF Shrinks, OnWire
<1>2. Queued' = Queued
  BY DEF Queued
<1>3. WiredOnce'
  <2> SUFFICES ASSUME NEW c \in Conn, NEW d \in Conn,
                      NEW i \in DOMAIN wire'[c], NEW j \in DOMAIN wire'[d],
                      wire'[c][i].part = "rest", wire'[d][j].part = "rest",
                      wire'[c][i].msg = wire'[d][j].msg, wire'[c][i].msg.kind = "attach"
               PROVE  c = d /\ i = j
    BY DEF WiredOnce
  <2>1. PICK k \in Nat : \A n \in DOMAIN wire'[c] :
          n + k \in DOMAIN wire[c] /\ wire'[c][n] = wire[c][n + k]
    BY DEF Shrinks
  <2>2. PICK l \in Nat : \A n \in DOMAIN wire'[d] :
          n + l \in DOMAIN wire[d] /\ wire'[d][n] = wire[d][n + l]
    BY DEF Shrinks
  <2>3. c = d /\ i + k = j + l
    BY <2>1, <2>2 DEF Once, WiredOnce
  <2>4. i + k \in DOMAIN wire[c] /\ j + k \in DOMAIN wire[c] /\ wire[c][i + k] = wire[c][j + k]
    BY <2>1, <2>2, <2>3
  <2>5. i + k = j + k
    BY <2>1, <2>4 DEF Once, WiredOnce
  <2> QED
    <3>1. i \in Nat /\ j \in Nat
      BY DEF Shrinks
    <3> QED BY <2>3, <2>5, <3>1
<1>4. QueuedOnce' /\ NotWired' /\ Alone(unsent)' /\ Alone(writing)'
  BY <1>1, <1>2 DEF Once, QueuedOnce, NotWired, Alone
<1>5. \A m : Pending(m)' => Pending(m)
  BY <1>1, <1>2 DEF Pending
<1> QED BY <1>1, <1>3, <1>4, <1>5 DEF Once

LEMMA ShrinkingKeepsLives ==
  ASSUME Typed, Lives, Shrinks, life' = life
  PROVE  \A c \in Conn : \A i \in DOMAIN wire'[c] :
           wire'[c][i].msg.life = c[1] /\ wire'[c][i].msg.life <= life'
<1> SUFFICES ASSUME NEW c \in Conn, NEW i \in DOMAIN wire'[c]
             PROVE  wire'[c][i].msg.life = c[1] /\ wire'[c][i].msg.life <= life
  OBVIOUS
<1>1. PICK k \in Nat : i + k \in DOMAIN wire[c] /\ wire'[c][i] = wire[c][i + k]
  BY DEF Shrinks
<1> QED BY <1>1 DEF Lives
(***************************************************************************)
(* The compositor's side.                                                  *)
(***************************************************************************)
\* The oldest connection that waits is taken.
LEMMA BacklogTail ==
  ASSUME Typed, backlog # <<>>, backlog' = Tail(backlog)
  PROVE  /\ Head(backlog) \in Conn /\ backlog' \in Seq(Conn)
         /\ \A c : (\E i \in DOMAIN backlog : backlog[i] = c) =>
              c = Head(backlog) \/ \E i \in DOMAIN backlog' : backlog'[i] = c
<1>1. /\ backlog \in Seq(Conn) /\ Len(backlog) \in Nat \ {0}
      /\ Head(backlog) \in Conn /\ Head(backlog) = backlog[1]
      /\ backlog' \in Seq(Conn) /\ DOMAIN backlog' = 1 .. Len(backlog) - 1
      /\ \A i \in 1 .. Len(backlog) - 1 : backlog'[i] = backlog[i + 1]
      /\ DOMAIN backlog = 1 .. Len(backlog)
  BY DEF Typed
<1>2. ASSUME NEW i \in DOMAIN backlog, i # 1
      PROVE  i - 1 \in DOMAIN backlog' /\ backlog'[i - 1] = backlog[i]
  BY <1>1, <1>2
<1> QED BY <1>1, <1>2

\* A connection is served, or refused while another is.
LEMMA AcceptKeepsLink ==
  ASSUME LinkInv, Accept
  PROVE  LinkInv'
<1> DEFINE h == Head(backlog)
<1>1. /\ Typed /\ UNCHANGED <<life, app, work, queue, unsent, writing, conn>>
      /\ UNCHANGED <<sessions, clients, reports, outBuf, retry>>
      /\ backlog # <<>> /\ backlog' = Tail(backlog)
  BY DEF Accept, LinkInv, appdVars, bindVars
<1>2. /\ h \in Conn /\ backlog' \in Seq(Conn)
      /\ \A c : (\E i \in DOMAIN backlog : backlog[i] = c) =>
           c = h \/ \E i \in DOMAIN backlog' : backlog'[i] = c
  BY <1>1, BacklogTail
<1>3. Connected' = Connected /\ conn \notin closed /\ (Connected => conn \in Conn)
  BY <1>1 DEF Connected, LinkInv, Sockets, Typed
<1>4. CASE served # NoConn
  <2>1. /\ HangUp(h) /\ wire' = [wire EXCEPT ![h] = <<>>]
        /\ UNCHANGED <<served, writeStream, partial, fds>>
    BY <1>4 DEF Accept
  <2>2. Shrinks
    BY <1>1, <1>2, <2>1, EmptiedShrinks
  <2>3. closed' \subseteq closed /\ h \notin closed' /\ hungup \subseteq hungup'
        /\ (h \notin closed => h \in hungup' /\ closed' = closed)
        /\ \A c \in closed : c # h => c \in closed'
        /\ \A d \in hungup' : d # h => d \in hungup
    BY <2>1 DEF HangUp
  <2>4. /\ wire'[h] = <<>> /\ \A c \in Conn : c # h => wire'[c] = wire[c]
    BY <1>1, <1>2, <2>1 DEF Typed
  <2>5. Typed'
    BY <1>1, <1>2, <2>1, <2>2, <2>3 DEF Typed, Shrinks
  <2>6. Lives'
    BY <1>1, <2>1, <2>2, ShrinkingKeepsLives DEF LinkInv, Lives
  <2>7. \A c : Half(c)' = Half(c)
    BY <2>1 DEF Half
  <2>8. Streams'
    <3>1. ASSUME NEW c \in Conn PROVE Alternates(c)'
      <4>1. CASE c = h
        BY <2>4, <4>1 DEF Alternates
      <4>2. CASE c # h
        BY <2>4, <2>7, <4>2 DEF LinkInv, Streams, Alternates, HeadOf
      <4> QED BY <4>1, <4>2
    <3>2. EndsWell'
      <4> SUFFICES ASSUME Connected, ~PeerClosed' PROVE EndsWell'
        BY <1>3 DEF EndsWell
      <4>1. conn # h /\ conn \in Conn /\ ~PeerClosed
        BY <1>1, <1>3, <2>1, <2>3 DEF PeerClosed
      <4> QED BY <1>1, <2>4, <2>7, <4>1 DEF LinkInv, Streams, EndsWell, HeadOf
    <3> QED BY <1>1, <1>3, <3>1, <3>2 DEF LinkInv, Streams
  <2>9. Sockets'
    <3>1. \A c : Held(c) /\ c # h => Held(c)'
      BY <1>2, <2>1 DEF Held
    <3>2. Connected /\ conn \notin hungup' => Held(conn)'
      BY <1>1, <1>3, <2>3, <3>1 DEF LinkInv, Sockets
    <3> QED BY <1>1, <1>3, <2>3, <3>1, <3>2 DEF LinkInv, Sockets
  <2>10. Once' /\ \A m : Pending(m)' => Pending(m)
    BY <1>1, <2>2, ShrinkingKeepsOnce DEF LinkInv
  <2>11. Apart'
    BY <1>1, <2>10, ApartStays DEF LinkInv, Handled, Apart
  <2>12. Unserved' /\ DescriptorsMatch' /\ ClientsMatch'
    BY <1>1, <2>1 DEF LinkInv, Unserved, DescriptorsMatch, ClientsMatch, BoundToItsOwn,
       NoOrphanClient, Bound
  <2> QED BY <2>5, <2>6, <2>8, <2>9, <2>10, <2>11, <2>12 DEF LinkInv
<1>5. CASE served = NoConn
  <2>1. /\ served' = h /\ writeStream' = TRUE /\ partial' = NoMsg /\ fds' = <<>>
        /\ UNCHANGED <<closed, hungup, wire>>
    BY <1>5 DEF Accept
  <2>2. /\ partial = NoMsg /\ \A s \in Sid : sessions[s] = NoToken
        /\ NoMsg.kind = "none" /\ h # NoConn
    BY <1>2, <1>5, Messages DEF LinkInv, Unserved
  <2>3. Typed'
    BY <1>1, <1>2, <2>1 DEF Typed
  <2>4. Lives'
    BY <1>1, <2>1 DEF LinkInv, Lives
  <2>5. \A c : Half(c)' = Half(c)
    BY <2>1, <2>2 DEF Half
  <2>6. Connected => (PeerClosed => PeerClosed')
    BY <1>1, <1>5, <2>1 DEF PeerClosed, Connected
  <2>7. Streams'
    <3>1. \A c \in Conn : Alternates(c)'
      BY <2>1, <2>5 DEF LinkInv, Streams, Alternates, HeadOf
    <3>2. EndsWell'
      BY <1>1, <1>3, <2>1, <2>5, <2>6 DEF LinkInv, Streams, EndsWell, HeadOf
    <3> QED BY <1>1, <1>3, <3>1, <3>2 DEF LinkInv, Streams
  <2>8. Sockets'
    <3>1. ASSUME NEW c, c # NoConn, Held(c) PROVE Held(c)'
      BY <1>2, <1>5, <2>1, <3>1 DEF Held
    <3>2. \A c \in closed : c # NoConn
      BY <1>1, Messages DEF Typed
    <3> QED BY <1>1, <1>3, <2>1, <3>1, <3>2 DEF LinkInv, Sockets, Connected
  <2>9. Once' /\ \A m : Pending(m)' => Pending(m)
    BY <1>1, <2>1 DEF LinkInv, Once, QueuedOnce, Alone, NotWired, WiredOnce, Pending, Queued, OnWire
  <2>10. Apart'
    BY <1>1, <2>9, ApartStays DEF LinkInv, Handled, Apart
  <2>11. Unserved' /\ DescriptorsMatch' /\ ClientsMatch'
    BY <1>1, <2>1, <2>2 DEF LinkInv, Unserved, DescriptorsMatch, ClientsMatch, BoundToItsOwn,
       NoOrphanClient, Bound
  <2> QED BY <2>3, <2>4, <2>7, <2>8, <2>9, <2>10, <2>11 DEF LinkInv
<1> QED BY <1>4, <1>5

\* A piece is read: the streams go on behind it.
LEMMA ReadKeepsStreams ==
  ASSUME Typed, Streams, served \in Conn, wire[served] # <<>>,
         wire' = [wire EXCEPT ![served] = Tail(@)],
         UNCHANGED <<conn, writing, unsent, served, hungup>>, writeStream' => writeStream,
         partial' = IF Head(wire[served]).part = "head" THEN Head(wire[served]).msg ELSE NoMsg
  PROVE  /\ Streams'
         /\ partial = IF Head(wire[served]).part = "head" THEN NoMsg ELSE Head(wire[served]).msg
         /\ Head(wire[served]).part \in {"head", "rest"} /\ Head(wire[served]).msg \in Message
<1> DEFINE p == wire[served][1]
<1>1. /\ wire[served] \in Seq(Piece) /\ Len(wire[served]) \in Nat \ {0}
      /\ wire'[served] \in Seq(Piece)
      /\ DOMAIN wire[served] = 1 .. Len(wire[served])
      /\ DOMAIN wire'[served] = 1 .. Len(wire[served]) - 1
      /\ Len(wire'[served]) = Len(wire[served]) - 1
      /\ \A i \in DOMAIN wire'[served] : wire'[served][i] = wire[served][i + 1]
      /\ Head(wire[served]) = p /\ p \in Piece
      /\ \A d \in Conn : d # served => wire'[d] = wire[d]
  BY ReadShrinks
<1>2. /\ p.part \in {"head", "rest"} /\ p.msg \in Message
      /\ \A m : p = HeadOf(m) => p.part = "head" /\ p.msg = m
      /\ p.part = "head" => p = HeadOf(p.msg)
  BY <1>1 DEF Piece, HeadOf
<1>3. partial = IF p.part = "head" THEN NoMsg ELSE p.msg
  <2>1. 1 \in DOMAIN wire[served]
    BY <1>1
  <2> QED BY <1>2, <2>1 DEF Streams, Alternates, Half
<1>4. Half(served)' = partial' /\ \A c : c # served => Half(c)' = Half(c)
  BY DEF Half
<1>5. Alternates(served)'
  <2> SUFFICES ASSUME NEW i \in DOMAIN wire'[served]
               PROVE  /\ wire'[served][i].part = "head" =>
                           IF i = 1 THEN partial' = NoMsg
                           ELSE wire'[served][i - 1].part = "rest"
                      /\ wire'[served][i].part = "rest" =>
                           IF i = 1 THEN partial' = wire'[served][1].msg
                           ELSE wire'[served][i - 1] = HeadOf(wire'[served][i].msg)
    BY <1>4 DEF Alternates, HeadOf
  <2>1. /\ i \in Nat /\ i + 1 \in DOMAIN wire[served] /\ i + 1 # 1 /\ (i + 1) - 1 = i
        /\ wire'[served][i] = wire[served][i + 1]
    BY <1>1
  <2>2. /\ wire[served][i + 1].part = "head" => wire[served][i].part = "rest"
        /\ wire[served][i + 1].part = "rest" => wire[served][i] = HeadOf(wire[served][i + 1].msg)
    BY <2>1 DEF Streams, Alternates
  <2>3. CASE i = 1
    BY <1>1, <1>2, <2>1, <2>2, <2>3
  <2>4. CASE i # 1
    <3>1. i - 1 \in DOMAIN wire'[served] /\ (i - 1) + 1 = i
      BY <1>1, <2>4
    <3>2. wire'[served][i - 1] = wire[served][(i - 1) + 1]
      BY <1>1, <3>1
    <3> QED BY <2>1, <2>2, <2>4, <3>1, <3>2
  <2> QED BY <2>3, <2>4
<1>6. \A c \in Conn : Alternates(c)'
  <2> SUFFICES ASSUME NEW c \in Conn, c # served PROVE Alternates(c)'
    BY <1>5
  <2>1. wire'[c] = wire[c] /\ Half(c)' = Half(c) /\ Alternates(c)
    BY <1>1, <1>4 DEF Streams
  <2> QED BY <2>1 DEF Alternates, HeadOf
<1>7. EndsWell'
  <2> SUFFICES ASSUME Connected, ~PeerClosed PROVE EndsWell'
    BY DEF EndsWell, Connected, PeerClosed
  <2>1. conn \in Conn /\ EndsWell
    BY DEF Connected, Typed, Streams
  <2>2. CASE conn # served
    BY <1>1, <1>4, <2>1, <2>2 DEF EndsWell, HeadOf
  <2>3. CASE conn = served
    <3> DEFINE n == Len(wire[served])
    <3>1. IF writing = NoMsg THEN wire[served][n].part = "rest"
          ELSE wire[served][n] = HeadOf(writing)
      BY <2>1, <2>3 DEF EndsWell
    <3>2. n \in Nat \ {0} /\ Len(wire'[served]) = n - 1 /\ DOMAIN wire'[served] = 1 .. n - 1
      BY <1>1
    <3> HIDE DEF n
    <3>3. CASE n = 1
      <4>1. writing = partial'
        BY <1>1, <1>2, <3>1, <3>3
      <4>2. wire'[served] = <<>>
        BY <1>1, <3>2, <3>3
      <4> QED BY <1>4, <2>3, <4>1, <4>2 DEF EndsWell
    <3>4. CASE n # 1
      <4>1. /\ Len(wire'[served]) \in DOMAIN wire'[served] /\ wire'[served] # <<>>
            /\ Len(wire'[served]) + 1 = n
        BY <3>2, <3>4
      <4>2. wire'[served][Len(wire'[served])] = wire[served][n]
        BY <1>1, <4>1
      <4> QED BY <2>3, <3>1, <4>1, <4>2 DEF EndsWell, HeadOf
    <3> QED BY <3>3, <3>4
  <2> QED BY <2>2, <2>3
<1> QED BY <1>1, <1>2, <1>3, <1>6, <1>7 DEF Streams, Connected

\* The first piece of a frame is read, with its descriptor.
LEMMA ReadHeadKeepsLink ==
  ASSUME LinkInv, ReadHead
  PROVE  LinkInv'
<1> DEFINE m == Head(wire[served]).msg
<1>1. /\ Typed /\ UNCHANGED <<life, app, work, queue, unsent, writing, conn>>
      /\ UNCHANGED <<closed, hungup, backlog, served, sessions, clients, reports, writeStream>>
      /\ wire[served] # <<>> /\ wire' = [wire EXCEPT ![served] = Tail(@)]
      /\ served \in Conn /\ Head(wire[served]).part = "head"
      /\ partial' = m
      /\ fds' = IF m.kind = "attach"
                THEN Append(fds, [life |-> m.life, sid |-> m.sid]) ELSE fds
  BY DEF ReadHead, LinkInv, Typed, appdVars, bindVars, outVars
<1>2. Shrinks /\ Head(wire[served]) = wire[served][1] /\ 1 \in DOMAIN wire[served]
  <2>1. /\ Shrinks /\ Head(wire[served]) = wire[served][1]
        /\ Len(wire[served]) \in Nat \ {0} /\ DOMAIN wire[served] = 1 .. Len(wire[served])
    BY <1>1, ReadShrinks
  <2>2. \A n \in Nat \ {0} : 1 \in 1 .. n
    OBVIOUS
  <2> QED BY <2>1, <2>2
<1>3. Streams' /\ partial = NoMsg /\ m \in Message
  BY <1>1, ReadKeepsStreams DEF LinkInv
<1>4. m # NoMsg /\ NoMsg.kind = "none" /\ m.life = served[1]
  BY <1>1, <1>2, <1>3, Messages DEF LinkInv, Lives
<1>5. DescriptorsMatch'
  BY <1>1, <1>3, <1>4 DEF LinkInv, DescriptorsMatch
<1>6. Typed'
  BY <1>1, <1>2, <1>3 DEF Typed, Shrinks
<1>7. Lives'
  BY <1>1, <1>2, <1>4, ShrinkingKeepsLives DEF LinkInv, Lives
<1>8. Sockets' /\ Unserved' /\ ClientsMatch'
  BY <1>1, Messages DEF LinkInv, Sockets, Held, Connected, Unserved, ClientsMatch, BoundToItsOwn,
     NoOrphanClient, Bound
<1>9. Once' /\ \A n : Pending(n)' => Pending(n)
  BY <1>1, <1>2, ShrinkingKeepsOnce DEF LinkInv
<1>10. Apart'
  BY <1>1, <1>9, ApartStays DEF LinkInv, Handled, Apart
<1> QED BY <1>3, <1>5, <1>6, <1>7, <1>8, <1>9, <1>10 DEF LinkInv

\* What a message does to the sessions and their clients.
Binds(m) ==
  LET t == [life |-> m.life, sid |-> m.sid] IN
    /\ m.kind = "attach" /\ sessions[m.sid] = NoToken
    /\ sessions' = [sessions EXCEPT ![m.sid] = t]
    /\ clients' = clients \cup {t}
    /\ UNCHANGED reports

Unbinds(m) ==
  /\ m.kind = "destroyed"
  /\ sessions' = [sessions EXCEPT ![m.sid] = NoToken]
  /\ Disconnected({sessions[m.sid]})

LEMMA ReadRestCases ==
  ASSUME LinkInv, ReadRest, partial = Head(wire[served]).msg
  PROVE  /\ fds' = <<>>
         /\ \/ UNCHANGED <<sessions, clients, reports>>
            \/ Binds(partial) \/ Unbinds(partial)
<1> DEFINE m == Head(wire[served]).msg
<1>1. CASE m.kind = "attach"
  <2>1. HandleAttach(m)
    BY <1>1 DEF ReadRest
  <2>2. fds = <<[life |-> m.life, sid |-> m.sid]>>
    BY <1>1 DEF LinkInv, DescriptorsMatch
  <2>3. fds # <<>> /\ Tail(fds) = <<>> /\ Head(fds) = [life |-> m.life, sid |-> m.sid]
    BY <2>2
  <2> QED BY <1>1, <2>1, <2>3 DEF HandleAttach, Binds, Bound, bindVars
<1>2. CASE m.kind = "destroyed"
  <2>1. HandleDestroyed(m)
    BY <1>2 DEF ReadRest
  <2>2. fds = <<>>
    BY <1>2 DEF LinkInv, DescriptorsMatch
  <2> QED BY <1>2, <2>1, <2>2 DEF HandleDestroyed, Unbinds
<1>3. CASE m.kind \notin {"attach", "destroyed"}
  <2>1. fds = <<>>
    BY <1>3 DEF LinkInv, DescriptorsMatch
  <2> QED BY <1>3, <2>1 DEF ReadRest, bindVars
<1> QED BY <1>1, <1>2, <1>3

\* A frame is complete: its AttachClient binds the client of its descriptor,
\* its AppSurfaceDestroyed releases the session.
LEMMA ReadRestKeepsLink ==
  ASSUME LinkInv, ReadRest
  PROVE  LinkInv'
<1>0. PICK m : m = Head(wire[served]).msg
  OBVIOUS
<1> DEFINE tok == [life |-> m.life, sid |-> m.sid]
<1>1. /\ Typed /\ UNCHANGED <<life, app, work, queue, unsent, writing, conn>>
      /\ UNCHANGED <<closed, hungup, backlog, served>>
      /\ wire[served] # <<>> /\ wire' = [wire EXCEPT ![served] = Tail(@)]
      /\ served \in Conn /\ served # NoConn /\ Head(wire[served]).part = "rest"
      /\ partial' = NoMsg
  BY DEF ReadRest, LinkInv, Typed, appdVars
<1>2. writeStream' => writeStream
  BY DEF ReadRest, Flush
<1>3. Streams' /\ partial = m /\ m \in Message
  BY <1>0, <1>1, <1>2, ReadKeepsStreams DEF LinkInv
<1>4. /\ fds' = <<>>
      /\ \/ UNCHANGED <<sessions, clients, reports>>
         \/ Binds(m) \/ Unbinds(m)
  BY <1>0, <1>3, ReadRestCases
<1>5. /\ Shrinks
      /\ wire[served][1].part = "rest" /\ wire[served][1].msg = m
      /\ 1 \in DOMAIN wire[served]
      /\ \A i \in DOMAIN wire'[served] :
           /\ i + 1 \in DOMAIN wire[served] /\ i + 1 # 1
           /\ wire'[served][i] = wire[served][i + 1]
      /\ \A d \in Conn : d # served => wire'[d] = wire[d]
  <2>1. /\ Shrinks /\ Head(wire[served]) = wire[served][1]
        /\ Len(wire[served]) \in Nat \ {0} /\ DOMAIN wire[served] = 1 .. Len(wire[served])
        /\ DOMAIN wire'[served] = 1 .. Len(wire[served]) - 1
        /\ \A i \in DOMAIN wire'[served] : wire'[served][i] = wire[served][i + 1]
        /\ \A d \in Conn : d # served => wire'[d] = wire[d]
    BY <1>1, ReadShrinks
  <2>2. \A n \in Nat \ {0} : 1 \in 1 .. n /\ \A i \in 1 .. n - 1 : i + 1 \in 1 .. n /\ i + 1 # 1
    OBVIOUS
  <2> QED BY <1>0, <1>1, <2>1, <2>2
<1>6. m # NoMsg /\ m.life = served[1] /\ m.life <= life
  BY <1>1, <1>3, <1>5, Messages DEF LinkInv, Lives
<1>7. Once' /\ \A n : Pending(n)' => Pending(n)
  BY <1>1, <1>5, ShrinkingKeepsOnce DEF LinkInv
<1>8. DescriptorsMatch' /\ Sockets' /\ Unserved'
  BY <1>1, <1>4, Messages DEF LinkInv, DescriptorsMatch, Sockets, Held, Connected, Unserved
<1>9. m.kind = "attach" => /\ tok \in Token /\ m = Attach(tok)
                           /\ tok.life = m.life /\ tok.sid = m.sid /\ tok # NoToken
  BY <1>3, Messages
<1>10. m.kind = "attach" => ~Pending(m)' /\ tok \notin Handled
                            /\ \A s \in Sid : app[s] \in {"idle", "checked"} => tok # TheToken(s)
  <2> SUFFICES ASSUME m.kind = "attach"
               PROVE  ~Pending(m)' /\ tok \notin Handled
                      /\ \A s \in Sid : app[s] \in {"idle", "checked"} => tok # TheToken(s)
    OBVIOUS
  <2>1. OnWire(m)
    BY <1>1, <1>5 DEF OnWire
  <2>2. tok \notin Handled /\ \A s \in Sid : app[s] \in {"idle", "checked"} => tok # TheToken(s)
    BY <1>9, <2>1 DEF LinkInv, Apart, Pending
  <2>3. ~OnWire(m)'
    <3> SUFFICES ASSUME NEW c \in Conn, NEW i \in DOMAIN wire'[c],
                        wire'[c][i].part = "rest", wire'[c][i].msg = m
                 PROVE  FALSE
      BY DEF OnWire
    <3>1. CASE c = served
      BY <1>1, <1>5, <3>1 DEF LinkInv, Once, WiredOnce
    <3>2. CASE c # served
      BY <1>1, <1>5, <3>2 DEF LinkInv, Once, WiredOnce
    <3> QED BY <3>1, <3>2
  <2>4. m \notin Queued /\ m # unsent /\ m # writing /\ Queued' = Queued
    BY <1>1, <2>1 DEF LinkInv, Once, Alone, NotWired, Queued
  <2> QED BY <1>1, <2>2, <2>3, <2>4 DEF Pending
<1>11. CASE UNCHANGED <<sessions, clients, reports>>
  <2>1. Typed' /\ Lives'
    BY <1>1, <1>5, <1>11, ShrinkingKeepsLives DEF LinkInv, Typed, Lives, Shrinks
  <2>2. ClientsMatch'
    BY <1>1, <1>11 DEF LinkInv, ClientsMatch, BoundToItsOwn, NoOrphanClient, Bound
  <2>3. Apart'
    BY <1>1, <1>7, <1>11, ApartStays DEF LinkInv, Handled, Apart
  <2> QED BY <1>3, <1>7, <1>8, <2>1, <2>2, <2>3 DEF LinkInv
<1>12. CASE Binds(m)
  <2>1. /\ m.kind = "attach" /\ m.sid \in Sid /\ sessions[m.sid] = NoToken
        /\ sessions' = [sessions EXCEPT ![m.sid] = tok]
        /\ clients' = clients \cup {tok} /\ reports' = reports
    BY <1>3, <1>12, Messages DEF Binds
  <2>2. Typed'
    BY <1>1, <1>5, <1>9, <2>1, Messages DEF Typed, Shrinks
  <2>3. Lives'
    BY <1>1, <1>5, <1>6, <1>9, <2>1, ShrinkingKeepsLives DEF LinkInv, Lives
  <2>4. ClientsMatch'
    <3>1. BoundToItsOwn'
      BY <1>1, <1>6, <1>9, <2>1 DEF LinkInv, Typed, ClientsMatch, BoundToItsOwn, Bound
    <3>2. ASSUME NEW t \in clients PROVE sessions'[t.sid] = t
      <4>1. sessions[t.sid] = t /\ t # NoToken
        BY <1>1, Messages DEF LinkInv, Typed, ClientsMatch, NoOrphanClient
      <4> QED BY <1>1, <2>1, <4>1 DEF Typed
    <3>3. sessions'[tok.sid] = tok
      BY <1>1, <1>9, <2>1 DEF Typed
    <3> QED BY <2>1, <3>1, <3>2, <3>3 DEF ClientsMatch, NoOrphanClient
  <2>5. Apart'
    <3>1. Handled' = Handled \cup {tok} /\ clients' \cap reports' = {}
      BY <1>10, <2>1 DEF Handled, LinkInv, Apart
    <3>2. \A t \in Handled' : ~Pending(Attach(t))'
      BY <1>7, <1>9, <1>10, <2>1, <3>1 DEF LinkInv, Apart, Attach
    <3>3. ASSUME NEW s \in Sid, app'[s] \in {"idle", "checked"}
          PROVE  ~Pending(Attach(TheToken(s)))' /\ TheToken(s)' \notin Handled'
      <4>1. TheToken(s)' = TheToken(s) /\ Attach(TheToken(s))' = Attach(TheToken(s))
        BY <1>1 DEF TheToken, Attach
      <4>2. /\ ~Pending(Attach(TheToken(s))) /\ TheToken(s) \notin Handled
            /\ tok # TheToken(s)
        BY <1>1, <1>10, <2>1, <3>3 DEF LinkInv, Apart
      <4> QED BY <1>7, <3>1, <4>1, <4>2
    <3> QED BY <3>1, <3>2, <3>3 DEF Apart
  <2> QED BY <1>3, <1>7, <1>8, <2>2, <2>3, <2>4, <2>5 DEF LinkInv
<1>13. CASE Unbinds(m)
  <2>1. /\ m.sid \in Sid
        /\ sessions' = [sessions EXCEPT ![m.sid] = NoToken]
        /\ clients' = clients \ {sessions[m.sid]}
        /\ reports' = reports \cup (clients \cap {sessions[m.sid]})
    BY <1>3, <1>13, Messages DEF Unbinds, Disconnected
  <2>2. Handled' = Handled /\ clients' \cap reports' = {}
    BY <2>1 DEF Handled, LinkInv, Apart
  <2>3. Typed'
    BY <1>1, <1>5, <2>1 DEF Typed, Shrinks
  <2>4. Lives'
    BY <1>1, <1>5, <2>2, ShrinkingKeepsLives DEF LinkInv, Lives, Handled
  <2>5. ClientsMatch'
    <3>1. BoundToItsOwn'
      BY <1>1, <2>1 DEF LinkInv, Typed, ClientsMatch, BoundToItsOwn, Bound
    <3>2. ASSUME NEW t \in clients' PROVE sessions'[t.sid] = t
      BY <1>1, <2>1 DEF LinkInv, Typed, ClientsMatch, NoOrphanClient
    <3> QED BY <3>1, <3>2 DEF ClientsMatch, NoOrphanClient
  <2>6. Apart'
    BY <1>1, <1>7, <2>2, ApartStays DEF LinkInv
  <2> QED BY <1>3, <1>7, <1>8, <2>3, <2>4, <2>5, <2>6 DEF LinkInv
<1> QED BY <1>4, <1>11, <1>12, <1>13
\* Clients and sessions go, of those that were there.
LEMMA ClientsGo ==
  ASSUME LinkInv,
         UNCHANGED <<life, app, work, queue, unsent, writing, conn, wire, closed, hungup, backlog,
                     served, partial, fds>>,
         writeStream' => writeStream,
         sessions' \in [Sid -> Token \cup {NoToken}],
         \A s \in Sid : sessions'[s] \in {sessions[s], NoToken},
         Handled' \subseteq Handled, clients' \cap reports' = {},
         \A t \in clients' : sessions'[t.sid] = t
  PROVE  LinkInv'
<1>1. Typed' /\ Lives'
  BY DEF LinkInv, Typed, Lives, Handled
<1>2. Streams'
  BY StreamsStay DEF LinkInv, Streams
<1>3. Sockets' /\ Unserved' /\ DescriptorsMatch'
  BY DEF LinkInv, Sockets, Held, Connected, Unserved, DescriptorsMatch
<1>4. ClientsMatch'
  BY DEF LinkInv, ClientsMatch, BoundToItsOwn, NoOrphanClient, Bound
<1>5. Once' /\ \A m : Pending(m)' => Pending(m)
  BY DEF LinkInv, Once, QueuedOnce, Alone, NotWired, WiredOnce, Pending, Queued, OnWire
<1>6. Apart'
  BY <1>5, ApartStays DEF LinkInv
<1> QED BY <1>1, <1>2, <1>3, <1>4, <1>5, <1>6 DEF LinkInv

LEMMA SendKeepsClosed == ASSUME Send PROVE writeStream' => writeStream
BY DEF Send, Flush, outVars

\* An application's connection ends, its report is handled, a window is
\* reported, the way back is tried again.
LEMMA ClientsKeepLink ==
  ASSUME LinkInv,
         \/ \E t \in Token : ClientGone(t) \/ HandleReport(t) \/ SurfaceCreated(t)
         \/ RetryFlush
  PROVE  LinkInv'
<1>0. /\ Typed /\ clients \cap reports = {} /\ \A t \in clients : sessions[t.sid] = t
  BY DEF LinkInv, Apart, ClientsMatch, NoOrphanClient
<1>1. ASSUME NEW t \in Token, ClientGone(t) PROVE LinkInv'
  <2>1. /\ clients' = clients \ {t} /\ reports' = reports \cup (clients \cap {t})
        /\ sessions' = sessions
    BY <1>1 DEF ClientGone, Disconnected
  <2>2. Handled' = Handled /\ clients' \cap reports' = {} /\ \A u \in clients' : sessions'[u.sid] = u
    BY <1>0, <2>1 DEF Handled
  <2> QED BY <1>0, <1>1, <2>1, <2>2, ClientsGo DEF ClientGone, appdVars, sockVars, outVars, Typed
<1>2. ASSUME NEW t \in Token, HandleReport(t) PROVE LinkInv'
  <2>1. /\ t \in reports /\ reports' = reports \ {t} /\ clients' = clients /\ t.sid \in Sid
        /\ UNCHANGED <<life, app, work, queue, unsent, writing, conn, wire, closed, hungup,
                       backlog, served, partial, fds>>
    BY <1>2, Messages DEF HandleReport, appdVars, sockVars
  <2>2. Handled' \subseteq Handled /\ clients' \cap reports' = {}
    BY <1>0, <2>1 DEF Handled
  <2>3. CASE sessions[t.sid] = t
    <3>1. sessions' = [sessions EXCEPT ![t.sid] = NoToken] /\ (writeStream' => writeStream)
      BY <1>2, <2>3, SendKeepsClosed DEF HandleReport
    <3>2. \A u \in clients' : u # t /\ sessions[u.sid] = u
      BY <1>0, <2>1
    <3>3. \A u \in clients' : u.sid # t.sid /\ sessions'[u.sid] = u
      BY <2>3, <3>1, <3>2
    <3>4. /\ sessions' \in [Sid -> Token \cup {NoToken}]
          /\ \A s \in Sid : sessions'[s] \in {sessions[s], NoToken}
      BY <1>0, <3>1 DEF Typed
    <3> QED BY <2>1, <2>2, <3>1, <3>3, <3>4, ClientsGo
  <2>4. CASE sessions[t.sid] # t
    <3>1. sessions' = sessions /\ writeStream' = writeStream
      BY <1>2, <2>4 DEF HandleReport, outVars
    <3> QED BY <1>0, <2>1, <2>2, <3>1, ClientsGo DEF Typed
  <2> QED BY <2>3, <2>4
<1>3. ASSUME NEW t \in Token, SurfaceCreated(t) PROVE LinkInv'
  <2>1. /\ UNCHANGED <<life, app, work, queue, unsent, writing, conn, wire, closed, hungup,
                       backlog, served, partial, fds, sessions, clients, reports>>
        /\ writeStream' => writeStream
    BY <1>3, SendKeepsClosed DEF SurfaceCreated, appdVars, sockVars
  <2> QED BY <1>0, <2>1, ClientsGo DEF Typed, Handled
<1>4. ASSUME RetryFlush PROVE LinkInv'
  <2>1. /\ UNCHANGED <<life, app, work, queue, unsent, writing, conn, wire, closed, hungup,
                       backlog, served, partial, fds, sessions, clients, reports>>
        /\ writeStream' => writeStream
    BY <1>4 DEF RetryFlush, Flush, appdVars, sockVars, bindVars
  <2> QED BY <1>0, <2>1, ClientsGo DEF Typed, Handled
<1> QED BY <1>1, <1>2, <1>3, <1>4

\* The connection's end closes its sessions with it.
LEMMA DisconnectKeepsLink ==
  ASSUME LinkInv, Disconnect
  PROVE  LinkInv'
<1>1. /\ Typed /\ UNCHANGED <<life, app, work, queue, unsent, writing, conn, backlog>>
      /\ served \in Conn /\ served' = NoConn /\ HangUp(served)
      /\ wire' = [wire EXCEPT ![served] = <<>>]
      /\ partial' = NoMsg /\ fds' = <<>>
      /\ sessions' = [s \in Sid |-> NoToken]
      /\ clients' = clients \ {sessions[s] : s \in Sid}
      /\ reports' = reports \cup (clients \cap {sessions[s] : s \in Sid})
  BY DEF Disconnect, Disconnected, LinkInv, Typed, appdVars
<1>2. clients' = {} /\ Handled' = Handled
  <2>1. \A t \in clients : t.sid \in Sid /\ sessions[t.sid] = t
    BY <1>1, Messages DEF LinkInv, Typed, ClientsMatch, NoOrphanClient
  <2>2. \A t \in clients : t \in {sessions[s] : s \in Sid}
    BY <2>1
  <2> QED BY <1>1, <2>2 DEF Handled
<1>3. /\ conn \notin closed /\ closed' \subseteq closed /\ served \notin closed'
      /\ hungup \subseteq hungup' /\ (served \notin closed => served \in hungup')
      /\ \A c \in hungup' : c = served \/ c \in hungup
  <2>1. conn \notin closed
    BY DEF LinkInv, Sockets
  <2> QED BY <1>1, <2>1 DEF HangUp
<1>4. Shrinks /\ wire'[served] = <<>> /\ \A c \in Conn : c # served => wire'[c] = wire[c]
  BY <1>1, EmptiedShrinks DEF Typed
<1>5. Typed'
  BY <1>1, <1>2, <1>3, <1>4 DEF Typed, Shrinks, Handled
<1>6. Lives'
  BY <1>1, <1>2, <1>4, ShrinkingKeepsLives DEF LinkInv, Lives, Handled
<1>7. Streams'
  <2>0. \A c \in Conn : Half(c)' = NoMsg /\ (c # served => Half(c) = NoMsg)
    BY <1>1 DEF Half
  <2>1. ASSUME NEW c \in Conn PROVE Alternates(c)'
    <3>1. CASE c = served
      BY <1>4, <3>1 DEF Alternates
    <3>2. CASE c # served
      <4>1. wire'[c] = wire[c] /\ Half(c)' = Half(c) /\ Alternates(c)
        BY <1>4, <2>0, <3>2 DEF LinkInv, Streams
      <4> QED BY <4>1 DEF Alternates, HeadOf
    <3> QED BY <3>1, <3>2
  <2>2. EndsWell'
    <3> SUFFICES ASSUME Connected, ~PeerClosed' PROVE EndsWell'
      BY <1>1 DEF EndsWell, Connected
    <3>1. conn # served /\ conn \in Conn /\ conn \notin hungup
      BY <1>1, <1>3 DEF PeerClosed, Connected, Typed
    <3>2. ~PeerClosed
      BY <3>1 DEF PeerClosed
    <3> QED BY <1>1, <1>4, <2>0, <3>1, <3>2 DEF LinkInv, Streams, EndsWell, HeadOf, Connected
  <2> QED BY <1>1, <2>1, <2>2 DEF LinkInv, Streams, Connected
<1>8. Sockets'
  <2>1. \A c : c # served /\ Held(c) => Held(c)'
    BY <1>1 DEF Held
  <2> QED BY <1>1, <1>3, <2>1 DEF LinkInv, Sockets, Connected
<1>9. Unserved' /\ DescriptorsMatch' /\ ClientsMatch'
  BY <1>1, <1>2, Messages DEF Unserved, DescriptorsMatch, ClientsMatch, BoundToItsOwn,
     NoOrphanClient, Bound
<1>10. Once' /\ \A m : Pending(m)' => Pending(m)
  BY <1>1, <1>4, ShrinkingKeepsOnce DEF LinkInv
<1>11. Apart'
  BY <1>1, <1>2, <1>10, ApartStays DEF LinkInv
<1> QED BY <1>5, <1>6, <1>7, <1>8, <1>9, <1>10, <1>11 DEF LinkInv

\* A compositor that starts has no connection and no client.
LEMMA CompositorKeepsLink ==
  ASSUME LinkInv, CompositorRestarts
  PROVE  LinkInv'
<1>1. /\ Typed /\ UNCHANGED <<life, app, work, queue, unsent, writing, conn>>
      /\ served' = NoConn /\ backlog' = <<>> /\ hungup' = (IF Connected THEN {conn} ELSE {})
      /\ closed' = {} /\ wire' = [c \in Conn |-> <<>>] /\ partial' = NoMsg /\ fds' = <<>>
      /\ sessions' = [s \in Sid |-> NoToken] /\ clients' = {} /\ reports' = {}
  BY DEF CompositorRestarts, LinkInv, appdVars
<1>2. Shrinks
  BY <1>1 DEF Shrinks
<1>3. Typed' /\ Handled' = {}
  BY <1>1 DEF Typed, Handled
<1>4. Lives'
  BY <1>1 DEF LinkInv, Lives
<1>5. Streams'
  BY <1>1 DEF LinkInv, Streams, Alternates, EndsWell, PeerClosed, Connected
<1>6. Sockets' /\ Unserved' /\ DescriptorsMatch' /\ ClientsMatch'
  BY <1>1, Messages DEF Sockets, Connected, Unserved, DescriptorsMatch, ClientsMatch,
     BoundToItsOwn, NoOrphanClient, Bound
<1>7. Once' /\ \A m : Pending(m)' => Pending(m)
  BY <1>1, <1>2, ShrinkingKeepsOnce DEF LinkInv
<1>8. Apart'
  BY <1>1, <1>3, <1>7, ApartStays DEF LinkInv
<1> QED BY <1>3, <1>4, <1>5, <1>6, <1>7, <1>8 DEF LinkInv
(***************************************************************************)
(* The client task of weft-appd.                                           *)
(***************************************************************************)
\* A connection is made: nothing of an earlier one is on it.
LEMMA ConnectKeepsLink ==
  ASSUME LinkInv, Connect
  PROVE  LinkInv'
<1>1. PICK k \in 1..MaxConn :
        /\ Free(<<life, k>>) /\ conn' = <<life, k>>
        /\ backlog' = Append(backlog, <<life, k>>)
        /\ wire' = [wire EXCEPT ![<<life, k>>] = <<>>]
  BY DEF Connect
<1> DEFINE c == <<life, k>>
<1>2. /\ Typed /\ UNCHANGED <<life, app, work, queue, unsent, writing, closed, hungup>>
      /\ UNCHANGED <<served, partial, fds, sessions, clients, reports, writeStream>>
      /\ conn = NoConn /\ writing = NoMsg
  BY DEF Connect, LinkInv, Streams, Connected, compVars, bindVars, outVars
<1>3. /\ c \in Conn /\ c[1] = life /\ c # served /\ \A i \in DOMAIN backlog : backlog[i] # c
  BY <1>1, <1>2 DEF Typed, Conn, Free
<1>4. Shrinks /\ wire'[c] = <<>> /\ \A d \in Conn : d # c => wire'[d] = wire[d]
  BY <1>1, <1>2, <1>3, EmptiedShrinks DEF Typed
<1>5. /\ backlog' \in Seq(Conn) /\ \A d : Held(d) => Held(d)'
      /\ Held(c)' /\ ~Held(c)
  <2>1. /\ backlog' \in Seq(Conn) /\ Len(backlog) + 1 \in DOMAIN backlog'
        /\ backlog'[Len(backlog) + 1] = c
        /\ \A i \in DOMAIN backlog : i \in DOMAIN backlog' /\ backlog'[i] = backlog[i]
    BY <1>1, <1>2, <1>3 DEF Typed
  <2>2. c' = c
    BY <1>2
  <2> QED BY <1>2, <1>3, <2>1, <2>2 DEF Held
<1>6. Typed'
  BY <1>1, <1>2, <1>3, <1>4, <1>5 DEF Typed, Shrinks
<1>7. Lives'
  BY <1>1, <1>2, <1>3, <1>4, ShrinkingKeepsLives DEF LinkInv, Lives
<1>8. Streams'
  <2>1. \A d : Half(d)' = Half(d)
    BY <1>2 DEF Half
  <2>2. ASSUME NEW d \in Conn PROVE Alternates(d)'
    <3>1. CASE d = c
      BY <1>4, <3>1 DEF Alternates
    <3>2. CASE d # c
      <4>1. wire'[d] = wire[d] /\ Half(d)' = Half(d) /\ Alternates(d)
        BY <1>4, <2>1, <3>2 DEF LinkInv, Streams
      <4> QED BY <4>1 DEF Alternates, HeadOf
    <3> QED BY <3>1, <3>2
  <2>3. EndsWell'
    <3>1. Half(conn') = NoMsg /\ Half(conn)' = Half(conn')
      BY <1>1, <1>2, <1>3 DEF Half
    <3> QED BY <1>1, <1>2, <1>4, <3>1 DEF EndsWell
  <2> QED BY <1>2, <2>2, <2>3 DEF Streams
<1>9. Sockets'
  BY <1>1, <1>2, <1>5 DEF LinkInv, Sockets
<1>10. Unserved' /\ DescriptorsMatch' /\ ClientsMatch'
  BY <1>2 DEF LinkInv, Unserved, DescriptorsMatch, ClientsMatch, BoundToItsOwn, NoOrphanClient, Bound
<1>11. Once' /\ \A m : Pending(m)' => Pending(m)
  BY <1>2, <1>4, ShrinkingKeepsOnce DEF LinkInv
<1>12. Apart'
  BY <1>2, <1>11, ApartStays DEF LinkInv, Handled, Apart
<1> QED BY <1>6, <1>7, <1>8, <1>9, <1>10, <1>11, <1>12 DEF LinkInv

\* A piece is written behind the others.
LEMMA Written ==
  ASSUME Typed, conn \in Conn, NEW p \in Piece, wire' = [wire EXCEPT ![conn] = Append(@, p)]
  PROVE  /\ wire' \in [Conn -> Seq(Piece)]
         /\ \A d \in Conn : d # conn => wire'[d] = wire[d]
         /\ wire[conn] \in Seq(Piece) /\ Len(wire[conn]) \in Nat
         /\ DOMAIN wire[conn] = 1 .. Len(wire[conn])
         /\ DOMAIN wire'[conn] = 1 .. Len(wire[conn]) + 1
         /\ Len(wire'[conn]) = Len(wire[conn]) + 1 /\ wire'[conn] # <<>>
         /\ wire'[conn][Len(wire[conn]) + 1] = p
         /\ \A i \in DOMAIN wire[conn] : i \in DOMAIN wire'[conn] /\ wire'[conn][i] = wire[conn][i]
         /\ \A i \in DOMAIN wire'[conn] :
              \/ i \in DOMAIN wire[conn] /\ wire'[conn][i] = wire[conn][i]
              \/ i = Len(wire[conn]) + 1 /\ wire'[conn][i] = p
<1>1. /\ wire[conn] \in Seq(Piece) /\ wire'[conn] = Append(wire[conn], p)
      /\ \A d \in Conn : d # conn => wire'[d] = wire[d]
  BY DEF Typed
<1>2. wire' \in [Conn -> Seq(Piece)]
  BY <1>1 DEF Typed
<1> DEFINE n == Len(wire[conn])
<1>3. /\ n \in Nat /\ DOMAIN wire[conn] = 1 .. n /\ DOMAIN wire'[conn] = 1 .. n + 1
      /\ Len(wire'[conn]) = n + 1 /\ wire'[conn] # <<>> /\ wire'[conn][n + 1] = p
      /\ \A i \in 1 .. n : wire'[conn][i] = wire[conn][i]
  BY <1>1
<1> HIDE DEF n
<1>4. \A i \in 1 .. n + 1 : i \in 1 .. n \/ i = n + 1
  BY <1>3
<1>5. \A i \in 1 .. n : i \in 1 .. n + 1
  BY <1>3
<1> QED BY <1>1, <1>2, <1>3, <1>4, <1>5 DEF n
LEMMA WriteKeepsStreams ==
  ASSUME Typed, Streams, Connected, ~PeerClosed, NEW p \in Piece,
         wire' = [wire EXCEPT ![conn] = Append(@, p)],
         UNCHANGED <<conn, served, partial, hungup, writeStream>>,
         \/ writing = NoMsg /\ writing' # NoMsg /\ unsent' = NoMsg /\ p = HeadOf(writing')
         \/ writing # NoMsg /\ writing' = NoMsg /\ p.part = "rest" /\ p.msg = writing
  PROVE  Streams'
<1> DEFINE n == Len(wire[conn])
<1>1. conn \in Conn /\ EndsWell /\ \A c \in Conn : Alternates(c)
  BY DEF Typed, Connected, Streams
<1>2. /\ \A d \in Conn : d # conn => wire'[d] = wire[d]
      /\ wire[conn] \in Seq(Piece) /\ n \in Nat
      /\ DOMAIN wire[conn] = 1 .. n /\ DOMAIN wire'[conn] = 1 .. n + 1
      /\ Len(wire'[conn]) = n + 1 /\ wire'[conn] # <<>>
      /\ wire'[conn][n + 1] = p
      /\ \A i \in DOMAIN wire[conn] : wire'[conn][i] = wire[conn][i]
  BY <1>1, Written
<1>3. n = 0 => wire[conn] = <<>>
  BY <1>2
<1>4. n # 0 => wire[conn] # <<>>
  OBVIOUS
<1>5. IF n = 0 THEN Half(conn) = writing
      ELSE IF writing = NoMsg THEN wire[conn][n].part = "rest"
      ELSE wire[conn][n] = HeadOf(writing)
  BY <1>1, <1>3, <1>4 DEF EndsWell
<1> HIDE DEF n
<1>6. \A c : Half(c)' = Half(c)
  BY DEF Half
<1>7. Alternates(conn)'
  <2> SUFFICES ASSUME NEW i \in DOMAIN wire'[conn]
               PROVE  /\ wire'[conn][i].part = "head" =>
                           IF i = 1 THEN Half(conn) = NoMsg
                           ELSE wire'[conn][i - 1].part = "rest"
                      /\ wire'[conn][i].part = "rest" =>
                           IF i = 1 THEN Half(conn) = wire'[conn][1].msg
                           ELSE wire'[conn][i - 1] = HeadOf(wire'[conn][i].msg)
    BY <1>6 DEF Alternates, HeadOf
  <2>1. CASE i \in 1 .. n
    <3>1. wire'[conn][i] = wire[conn][i] /\ i \in DOMAIN wire[conn]
      BY <1>2, <2>1
    <3>2. i # 1 => i - 1 \in DOMAIN wire[conn]
      BY <1>2, <2>1
    <3>3. i # 1 => wire'[conn][i - 1] = wire[conn][i - 1]
      BY <1>2, <3>2
    <3> QED BY <1>1, <3>1, <3>3 DEF Alternates
  <2>2. CASE i = n + 1
    <3>1. wire'[conn][i] = p /\ (n = 0 <=> i = 1)
      BY <1>2, <2>2
    <3>2. n # 0 => wire'[conn][i - 1] = wire[conn][n]
      BY <1>2, <2>2
    <3>3. p.part = "head" => writing = NoMsg
      OBVIOUS
    <3>4. p.part = "rest" => writing # NoMsg /\ p.msg = writing
      BY DEF HeadOf
    <3> QED BY <1>5, <3>1, <3>2, <3>3, <3>4
  <2> QED BY <1>2, <2>1, <2>2
<1>8. ASSUME NEW c \in Conn, c # conn PROVE Alternates(c)'
  <2>1. wire'[c] = wire[c] /\ Half(c)' = Half(c) /\ Alternates(c)
    BY <1>1, <1>2, <1>6, <1>8
  <2> QED BY <2>1 DEF Alternates, HeadOf
<1>9. EndsWell'
  BY <1>2 DEF EndsWell, HeadOf
<1> QED BY <1>1, <1>7, <1>8, <1>9 DEF Streams, Connected

\* What is written next is the oldest message that is not on the wire.
LEMMA TakenNext ==
  ASSUME Typed, Lives, HasNext, UNCHANGED life, Once,
         queue' = IF unsent # NoMsg THEN queue ELSE Tail(queue)
  PROVE  /\ NextMsg \in Message /\ NextMsg # NoMsg /\ NextMsg.life = life
         /\ NextMsg = unsent \/ NextMsg \in Queued
         /\ queue' \in Seq(Message) /\ Queued' \subseteq Queued
         /\ \A i \in DOMAIN queue' : queue'[i].life = life
         /\ QueuedOnce' /\ (NextMsg.kind = "attach" => NextMsg \notin Queued' /\ ~OnWire(NextMsg))
<1>1. CASE unsent # NoMsg
  BY <1>1 DEF NextMsg, Typed, Lives, Queued, Once, QueuedOnce, Alone
<1>2. CASE unsent = NoMsg
  <2>1. queue \in Seq(Message) /\ queue # <<>> /\ NextMsg = Head(queue) /\ queue' = Tail(queue)
    BY <1>2 DEF HasNext, NextMsg, Typed
  <2>2. /\ Len(queue) \in Nat \ {0} /\ DOMAIN queue = 1 .. Len(queue)
        /\ DOMAIN queue' = 1 .. Len(queue) - 1 /\ queue' \in Seq(Message)
        /\ \A i \in DOMAIN queue' : queue'[i] = queue[i + 1]
        /\ NextMsg = queue[1]
    BY <2>1
  <2>3. /\ 1 \in DOMAIN queue
        /\ \A i \in DOMAIN queue' : i + 1 \in DOMAIN queue /\ i + 1 # 1
        /\ \A i, j \in DOMAIN queue' : i + 1 = j + 1 => i = j
    BY <2>2
  <2>4. NextMsg \in Message /\ NextMsg.life = life /\ NextMsg \in Queued
    BY <2>1, <2>2, <2>3 DEF Lives, Queued
  <2>5. Queued' \subseteq Queued
    BY <2>2, <2>3 DEF Queued
  <2>6. \A i \in DOMAIN queue' : queue'[i].life = life
    BY <2>2, <2>3 DEF Lives
  <2>7. QueuedOnce'
    <3> SUFFICES ASSUME NEW i \in DOMAIN queue', NEW j \in DOMAIN queue',
                        queue'[i].kind = "attach", queue'[i] = queue'[j]
                 PROVE  i = j
      BY DEF QueuedOnce
    <3>1. i + 1 = j + 1
      BY <2>2, <2>3 DEF Once, QueuedOnce
    <3> QED BY <2>3, <3>1
  <2>8. ASSUME NextMsg.kind = "attach" PROVE NextMsg \notin Queued' /\ ~OnWire(NextMsg)
    <3>1. \A i \in DOMAIN queue' : queue'[i] # NextMsg
      BY <2>2, <2>3, <2>8 DEF Once, QueuedOnce
    <3> QED BY <2>4, <2>8, <3>1 DEF Once, NotWired, Queued
  <2> QED BY <2>2, <2>4, <2>5, <2>6, <2>7, <2>8, Messages
<1> QED BY <1>1, <1>2
\* What the client task leaves of the compositor and of the sockets.
LEMMA WritingLeaves ==
  ASSUME LinkInv, Connected,
         UNCHANGED <<life, conn, closed, hungup, backlog, served, partial, fds, sessions,
                     clients, reports>>
  PROVE  Sockets' /\ Unserved' /\ DescriptorsMatch' /\ ClientsMatch'
BY DEF LinkInv, Sockets, Held, Connected, Unserved, DescriptorsMatch, ClientsMatch, BoundToItsOwn,
   NoOrphanClient, Bound

\* The first bytes of a message and its descriptor are written.
LEMMA WriteHeadKeepsLink ==
  ASSUME LinkInv, WriteHead
  PROVE  LinkInv'
<1>0. PICK m : m = NextMsg
  OBVIOUS
<1> DEFINE p == HeadOf(m)
<1>1. /\ Typed /\ UNCHANGED <<life, app, work, conn, closed, hungup, backlog>>
      /\ UNCHANGED <<served, partial, fds, sessions, clients, reports, writeStream>>
      /\ Connected /\ ~PeerClosed /\ writing = NoMsg /\ HasNext
      /\ conn \in Conn /\ conn[1] = life
      /\ wire' = [wire EXCEPT ![conn] = Append(@, p)] /\ writing' = m /\ unsent' = NoMsg
      /\ queue' = IF unsent # NoMsg THEN queue ELSE Tail(queue)
  BY <1>0 DEF WriteHead, Wrote, TakeNext, HeadOf, LinkInv, Lives, Typed, Connected, compVars,
     bindVars, outVars
<1>2. /\ m \in Message /\ m # NoMsg /\ m.life = life
      /\ m = unsent \/ m \in Queued
      /\ queue' \in Seq(Message) /\ Queued' \subseteq Queued
      /\ \A i \in DOMAIN queue' : queue'[i].life = life
      /\ QueuedOnce' /\ (m.kind = "attach" => m \notin Queued' /\ ~OnWire(m))
  BY <1>0, <1>1, TakenNext DEF LinkInv
<1>3. p \in Piece /\ p.msg = m /\ p.part = "head" /\ p.part # "rest"
  BY <1>2 DEF Piece, HeadOf
<1>4. /\ wire' \in [Conn -> Seq(Piece)]
      /\ \A d \in Conn : d # conn => wire'[d] = wire[d]
      /\ \A i \in DOMAIN wire'[conn] :
           \/ i \in DOMAIN wire[conn] /\ wire'[conn][i] = wire[conn][i]
           \/ wire'[conn][i] = p
      /\ \A i \in DOMAIN wire[conn] : i \in DOMAIN wire'[conn] /\ wire'[conn][i] = wire[conn][i]
  BY <1>1, <1>3, Written
<1>5. \A c \in Conn : \A i \in DOMAIN wire'[c] :
        \/ i \in DOMAIN wire[c] /\ wire'[c][i] = wire[c][i]
        \/ c = conn /\ wire'[c][i] = p
  BY <1>4
<1>6. Streams'
  BY <1>1, <1>2, <1>3, WriteKeepsStreams DEF LinkInv
<1>7. Typed'
  BY <1>1, <1>2, <1>4 DEF Typed
<1>8. Lives'
  <2>1. \A c \in Conn : \A i \in DOMAIN wire'[c] :
          wire'[c][i].msg.life = c[1] /\ wire'[c][i].msg.life <= life
    <3>1. life <= life
      BY <1>1 DEF Typed, Life
    <3> QED BY <1>1, <1>2, <1>3, <1>5, <3>1 DEF LinkInv, Lives
  <2> QED BY <1>1, <1>2, <2>1 DEF LinkInv, Lives
<1>9. \A n : OnWire(n)' <=> OnWire(n)
  BY <1>3, <1>4, <1>5 DEF OnWire
<1>10. WiredOnce'
  BY <1>3, <1>5 DEF LinkInv, Once, WiredOnce
<1>11. Once'
  <2>1. Alone(writing)' /\ Alone(unsent)'
    BY <1>1, <1>2, <1>9, Messages DEF Alone
  <2>2. NotWired'
    BY <1>2, <1>9 DEF LinkInv, Once, NotWired
  <2> QED BY <1>2, <1>10, <2>1, <2>2 DEF Once
<1>12. \A n \in Message : Pending(n)' => Pending(n)
  BY <1>1, <1>2, <1>9, Messages DEF Pending
<1>13. Apart'
  BY <1>1, <1>12, ApartStays DEF LinkInv, Handled, Apart
<1>14. Sockets' /\ Unserved' /\ DescriptorsMatch' /\ ClientsMatch'
  BY <1>1, WritingLeaves
<1> QED BY <1>6, <1>7, <1>8, <1>11, <1>13, <1>14 DEF LinkInv

\* The rest of it.
LEMMA WriteRestKeepsLink ==
  ASSUME LinkInv, WriteRest
  PROVE  LinkInv'
<1>0. PICK m : m = writing
  OBVIOUS
<1> DEFINE p == [msg |-> m, part |-> "rest"]
<1>1. /\ Typed /\ UNCHANGED <<life, app, work, queue, unsent, conn, closed, hungup, backlog>>
      /\ UNCHANGED <<served, partial, fds, sessions, clients, reports, writeStream>>
      /\ Connected /\ ~PeerClosed /\ writing = m /\ m # NoMsg
      /\ conn \in Conn /\ conn[1] = life
      /\ wire' = [wire EXCEPT ![conn] = Append(@, p)] /\ writing' = NoMsg
  BY <1>0 DEF WriteRest, Wrote, LinkInv, Lives, Typed, Connected, compVars, bindVars, outVars
<1>2. /\ m \in Message /\ m.life = life /\ unsent = NoMsg
      /\ (m.kind = "attach" => m \notin Queued /\ ~OnWire(m))
  BY <1>1 DEF LinkInv, Typed, Lives, Streams, Once, Alone
<1>3. p \in Piece /\ p.msg = m /\ p.part = "rest"
  BY <1>2 DEF Piece
<1>4. /\ wire' \in [Conn -> Seq(Piece)]
      /\ \A d \in Conn : d # conn => wire'[d] = wire[d]
      /\ \A i \in DOMAIN wire'[conn] :
           \/ i \in DOMAIN wire[conn] /\ wire'[conn][i] = wire[conn][i]
           \/ i = Len(wire[conn]) + 1 /\ wire'[conn][i] = p
  BY <1>1, <1>3, Written
<1>5. \A c \in Conn : \A i \in DOMAIN wire'[c] :
        \/ i \in DOMAIN wire[c] /\ wire'[c][i] = wire[c][i]
        \/ c = conn /\ i = Len(wire[conn]) + 1 /\ wire'[c][i] = p
  BY <1>4
<1>6. Streams'
  BY <1>1, <1>2, <1>3, WriteKeepsStreams DEF LinkInv
<1>7. Typed'
  BY <1>1, <1>2, <1>4 DEF Typed
<1>8. Lives'
  <2>1. \A c \in Conn : \A i \in DOMAIN wire'[c] :
          wire'[c][i].msg.life = c[1] /\ wire'[c][i].msg.life <= life
    <3>1. life <= life
      BY <1>1 DEF Typed, Life
    <3> QED BY <1>1, <1>2, <1>3, <1>5, <3>1 DEF LinkInv, Lives
  <2> QED BY <1>1, <2>1 DEF LinkInv, Lives
<1>9. \A n : OnWire(n)' => OnWire(n) \/ n = m
  BY <1>3, <1>5 DEF OnWire
<1>10. WiredOnce'
  <2> SUFFICES ASSUME NEW c \in Conn, NEW d \in Conn,
                      NEW i \in DOMAIN wire'[c], NEW j \in DOMAIN wire'[d],
                      wire'[c][i].part = "rest", wire'[d][j].part = "rest",
                      wire'[c][i].msg = wire'[d][j].msg, wire'[c][i].msg.kind = "attach"
               PROVE  c = d /\ i = j
    BY DEF WiredOnce
  <2>1. m.kind = "attach" =>
          \A e \in Conn : \A k \in DOMAIN wire[e] : wire[e][k].part = "rest" => wire[e][k].msg # m
    BY <1>2 DEF OnWire
  <2> QED BY <1>3, <1>5, <2>1 DEF LinkInv, Once, WiredOnce
<1>11. Once'
  <2>0. Queued' = Queued
    BY <1>1 DEF Queued
  <2>1. Alone(writing)' /\ Alone(unsent)'
    BY <1>1, <1>2, Messages DEF Alone
  <2>2. NotWired'
    BY <1>2, <1>9, <2>0 DEF LinkInv, Once, NotWired
  <2>3. QueuedOnce'
    BY <1>1 DEF LinkInv, Once, QueuedOnce
  <2> QED BY <1>10, <2>1, <2>2, <2>3 DEF Once
<1>12. \A n \in Message : Pending(n)' => Pending(n)
  BY <1>1, <1>9, Messages DEF Pending, Queued
<1>13. Apart'
  BY <1>1, <1>12, ApartStays DEF LinkInv, Handled, Apart
<1>14. Sockets' /\ Unserved' /\ DescriptorsMatch' /\ ClientsMatch'
  BY <1>1, WritingLeaves
<1> QED BY <1>6, <1>7, <1>8, <1>11, <1>13, <1>14 DEF LinkInv
\* weft-appd has no connection any more; what it wrote stays on its way.
LEMMA Dropped ==
  ASSUME LinkInv,
         IF Connected THEN DropConnection ELSE UNCHANGED <<conn, closed, hungup>>,
         UNCHANGED <<wire, backlog, served, partial, fds, sessions, clients, reports>>,
         writing' = NoMsg
  PROVE  /\ conn' = NoConn /\ closed' \subseteq Conn
         /\ Streams' /\ Sockets' /\ Unserved' /\ DescriptorsMatch' /\ ClientsMatch'
<1>1. conn' = NoConn /\ ~Connected'
  BY DEF DropConnection, Connected
<1>2. /\ closed' \subseteq Conn
      /\ \A c \in closed' : Held(c)' 
  <2>1. \A c : Held(c)' <=> Held(c)
    BY DEF Held
  <2>2. CASE Connected
    BY <2>1, <2>2 DEF LinkInv, Sockets, DropConnection, Typed, Connected
  <2>3. CASE ~Connected
    BY <2>1, <2>3 DEF LinkInv, Sockets, Typed
  <2> QED BY <2>2, <2>3
<1>3. Sockets'
  BY <1>1, <1>2, Messages DEF Sockets
<1>4. Streams'
  <2>1. ASSUME NEW c \in Conn PROVE Alternates(c)'
    <3>1. wire'[c] = wire[c] /\ Half(c)' = Half(c) /\ Alternates(c)
      BY DEF LinkInv, Streams, Half
    <3> QED BY <3>1 DEF Alternates, HeadOf
  <2> QED BY <1>1, <2>1 DEF Streams, EndsWell
<1>5. Unserved' /\ DescriptorsMatch' /\ ClientsMatch'
  BY DEF LinkInv, Unserved, DescriptorsMatch, ClientsMatch, BoundToItsOwn, NoOrphanClient, Bound
<1> QED BY <1>1, <1>2, <1>3, <1>4, <1>5

\* A write fails and its message is kept; the stream ends.
LEMMA LosingKeepsLink ==
  ASSUME LinkInv, WriteFails \/ ReaderEnds
  PROVE  LinkInv'
<1>1. /\ Typed /\ UNCHANGED <<life, app, work, wire, backlog>>
      /\ UNCHANGED <<served, partial, fds, sessions, clients, reports, writeStream>>
      /\ Connected /\ DropConnection /\ writing' = NoMsg
  BY DEF WriteFails, ReaderEnds, LinkInv, compVars, bindVars, outVars
<1>2. /\ conn' = NoConn /\ closed' \subseteq Conn
      /\ Streams' /\ Sockets' /\ Unserved' /\ DescriptorsMatch' /\ ClientsMatch'
  BY <1>1, Dropped
<1>3. \A n : OnWire(n)' <=> OnWire(n)
  BY <1>1 DEF OnWire
<1>4. WiredOnce' /\ Alone(writing)'
  BY <1>1, Messages DEF LinkInv, Once, WiredOnce, Alone
<1>5. /\ unsent' \in Message \cup {NoMsg} /\ queue' \in Seq(Message)
      /\ unsent' # NoMsg => unsent'.life = life
      /\ \A i \in DOMAIN queue' : queue'[i].life = life
      /\ QueuedOnce' /\ NotWired' /\ Alone(unsent)'
      /\ \A n \in Message : Pending(n)' => Pending(n)
  <2>1. CASE queue' = queue /\ unsent' \in {writing, unsent} /\ (unsent' = unsent \/ writing # NoMsg)
    <3>1. Queued' = Queued
      BY <2>1 DEF Queued
    <3>2. \A n \in Message : Pending(n)' => Pending(n)
      BY <1>1, <1>3, <2>1, <3>1, Messages DEF Pending
    <3>3. Alone(unsent)'
      BY <1>3, <2>1, <3>1 DEF LinkInv, Once, Alone
    <3> QED BY <1>1, <1>3, <2>1, <3>1, <3>2, <3>3 DEF LinkInv, Typed, Lives, Once, QueuedOnce, NotWired
  <2>2. CASE /\ HasNext /\ unsent' = NextMsg
             /\ queue' = IF unsent # NoMsg THEN queue ELSE Tail(queue)
    <3>0. PICK m : m = NextMsg
      OBVIOUS
    <3>1. /\ m \in Message /\ m # NoMsg /\ m.life = life
          /\ m = unsent \/ m \in Queued
          /\ queue' \in Seq(Message) /\ Queued' \subseteq Queued
          /\ \A i \in DOMAIN queue' : queue'[i].life = life
          /\ QueuedOnce' /\ (m.kind = "attach" => m \notin Queued' /\ ~OnWire(m))
      BY <1>1, <2>2, <3>0, TakenNext DEF LinkInv
    <3>2. unsent' = m
      BY <2>2, <3>0
    <3>3. NotWired' /\ Alone(unsent)'
      BY <1>3, <3>1, <3>2 DEF LinkInv, Once, NotWired, Alone
    <3>4. \A n \in Message : Pending(n)' => Pending(n)
      BY <1>1, <1>3, <3>1, <3>2, Messages DEF Pending
    <3> QED BY <3>1, <3>2, <3>3, <3>4
  <2> QED BY <2>1, <2>2 DEF WriteFails, ReaderEnds
<1>6. Typed' /\ Lives' /\ Once'
  BY <1>1, <1>2, <1>4, <1>5 DEF LinkInv, Typed, Lives, Once
<1>7. Apart'
  BY <1>1, <1>5, ApartStays DEF LinkInv, Handled, Apart
<1> QED BY <1>2, <1>6, <1>7 DEF LinkInv

\* The next weft-appd has nothing of the last one's, which uses the same IDs.
LEMMA AppdKeepsLink ==
  ASSUME LinkInv, AppdRestarts
  PROVE  LinkInv'
<1>1. /\ Typed /\ UNCHANGED <<work, wire, backlog>>
      /\ UNCHANGED <<served, partial, fds, sessions, clients, reports, writeStream>>
      /\ queue' = <<>> /\ unsent' = NoMsg /\ writing' = NoMsg /\ app' = [s \in Sid |-> "idle"]
      /\ life' = life + 1 /\ life < MaxLife
      /\ IF Connected THEN DropConnection ELSE UNCHANGED <<conn, closed, hungup>>
  BY DEF AppdRestarts, LinkInv, compVars, bindVars, outVars
<1>2. /\ conn' = NoConn /\ closed' \subseteq Conn
      /\ Streams' /\ Sockets' /\ Unserved' /\ DescriptorsMatch' /\ ClientsMatch'
  BY <1>1, Dropped
<1>3. life \in Nat /\ life' \in Life /\ \A l \in Nat : l <= life => l <= life' /\ l # life'
  BY <1>1, Constants DEF Typed, Life
<1>4. Typed'
  BY <1>1, <1>2, <1>3 DEF Typed
<1>5. /\ \A c \in Conn : \A i \in DOMAIN wire[c] :
           wire[c][i].msg.life \in Nat /\ wire[c][i].msg.life <= life
      /\ \A t \in Handled : t.life \in Nat /\ t.life <= life
  <2>1. Life \subseteq Nat
    BY DEF Life
  <2>2. ASSUME NEW c \in Conn, NEW i \in DOMAIN wire[c]
        PROVE  wire[c][i].msg.life \in Nat /\ wire[c][i].msg.life <= life
    <3>1. wire[c][i] \in Piece
      BY <1>1 DEF Typed
    <3>2. wire[c][i].msg \in Message
      BY <3>1 DEF Piece
    <3> QED BY <2>1, <3>2, Messages DEF LinkInv, Lives
  <2>3. \A t \in Handled : t.life \in Nat /\ t.life <= life
    BY <1>1, <2>1, Messages DEF Handled, Typed, LinkInv, Lives
  <2> QED BY <2>2, <2>3
<1>6. Lives'
  BY <1>1, <1>2, <1>3, <1>5 DEF LinkInv, Lives, Handled
<1>7. \A n : OnWire(n)' <=> OnWire(n)
  BY <1>1 DEF OnWire
<1>8. Queued' = {}
  BY <1>1 DEF Queued
<1>9. Once'
  BY <1>1, <1>8, Messages DEF LinkInv, Once, QueuedOnce, NotWired, WiredOnce, Alone
<1>10. \A n \in Message : Pending(n)' => OnWire(n)
  BY <1>1, <1>7, <1>8, Messages DEF Pending
<1>11. Apart'
  <2>1. Handled' = Handled /\ clients' \cap reports' = {} /\ Handled \subseteq Token
    BY <1>1 DEF LinkInv, Apart, Handled, Typed
  <2>2. \A t \in Handled' : ~Pending(Attach(t))'
    <3> SUFFICES ASSUME NEW t \in Handled PROVE ~Pending(Attach(t))'
      BY <2>1
    <3>1. Attach(t) \in Message /\ ~Pending(Attach(t))
      BY <2>1, Messages DEF LinkInv, Apart
    <3> QED BY <1>10, <3>1 DEF Pending, Attach
  <2>3. ASSUME NEW s \in Sid
        PROVE  ~Pending(Attach(TheToken(s)))' /\ TheToken(s)' \notin Handled'
    <3>0. PICK t : t = TheToken(s)'
      OBVIOUS
    <3>1. t \in Token /\ t.life = life'
      BY <1>3, <3>0, Messages DEF TheToken
    <3>2. Attach(t) \in Message /\ Attach(t).life = life'
      BY <3>1, Messages DEF Attach
    <3>3. t \notin Handled
      BY <1>3, <1>5, <3>1
    <3>4. ~OnWire(Attach(t))
      BY <1>3, <1>5, <3>2 DEF OnWire
    <3>5. ~Pending(Attach(t))'
      BY <1>10, <3>2, <3>4 DEF Attach
    <3> QED BY <2>1, <3>0, <3>3, <3>5 DEF Attach, Pending
  <2> QED BY <2>1, <2>2, <2>3 DEF Apart
<1> QED BY <1>2, <1>4, <1>6, <1>9, <1>11 DEF LinkInv

-----------------------------------------------------------------------------
\* Every step keeps the invariant.
LEMMA StepKeepsLink == LinkInv /\ [Next]_vars => LinkInv'
<1> SUFFICES ASSUME LinkInv, [Next]_vars PROVE LinkInv'
  OBVIOUS
<1>1. CASE Sessions
  BY <1>1, SessionsKeepLink, AttachKeepsLink DEF Sessions
<1>2. CASE ClientTask \/ WriteFails
  BY <1>2, ConnectKeepsLink, WriteHeadKeepsLink, WriteRestKeepsLink, LosingKeepsLink DEF ClientTask
<1>3. CASE Accept
  BY <1>3, AcceptKeepsLink
<1>4. CASE Sources \/ \E t \in Token : SurfaceCreated(t)
  BY <1>4, ReadHeadKeepsLink, ReadRestKeepsLink, DisconnectKeepsLink, ClientsKeepLink DEF Sources
<1>5. CASE AppdRestarts \/ CompositorRestarts
  BY <1>5, AppdKeepsLink, CompositorKeepsLink
<1>6. CASE UNCHANGED vars
  <2>1. /\ Typed /\ clients \cap reports = {} /\ \A t \in clients : sessions[t.sid] = t
    BY DEF LinkInv, Apart, ClientsMatch, NoOrphanClient
  <2> QED BY <1>6, <2>1, ClientsGo
          DEF vars, appdVars, sockVars, compVars, bindVars, outVars, Typed, Handled
<1> QED BY <1>1, <1>2, <1>3, <1>4, <1>5, <1>6 DEF Next

\* LinkInv holds of every behaviour.
LEMMA LinkInvariant == Spec => []LinkInv
BY InitLink, StepKeepsLink, PTL DEF Spec

\* Matched by order alone, a descriptor held is always the one of the
\* AttachClient that is arriving, and of no other message: no number of frames
\* cut short, refused, lost or failed connections leaves one over.
THEOREM DescriptorsAlwaysMatch == Spec => []DescriptorsMatch
<1>1. LinkInv => DescriptorsMatch
  BY DEF LinkInv
<1> QED BY <1>1, LinkInvariant, PTL

\* A session's client is the one its own weft-appd made for it, and no client
\* is left without its session, though an AttachClient is sent again after a
\* failed write and weft-appd's successors use its session IDs again.
THEOREM ClientsAlwaysMatch == Spec => []ClientsMatch
<1>1. LinkInv => ClientsMatch
  BY DEF LinkInv
<1> QED BY <1>1, LinkInvariant, PTL

-----------------------------------------------------------------------------
(***************************************************************************)
(* Sequences of sequences, joined.                                         *)
(***************************************************************************)
Before == {p \in Nat \X Nat : p[1] < p[2]}

LEMMA BeforeWF == IsWellFoundedOn(Before, Nat)
  BY NatLessThanWellFounded DEF OpToRel, Before

LEMMA AllNaturals ==
  ASSUME NEW T \in SUBSET Nat, 0 \in T, \A n \in T : n + 1 \in T
  PROVE  T = Nat
<1> SUFFICES ASSUME Nat \ T # {}
             PROVE  FALSE
  OBVIOUS
<1>1. PICK n \in Nat \ T : \A k \in Nat \ T : <<k, n>> \notin Before
  BY BeforeWF, WFMin
<1>2. n # 0 /\ n - 1 \in Nat /\ n - 1 < n
  OBVIOUS
<1>3. <<n - 1, n>> \in Nat \X Nat /\ <<n - 1, n>>[1] < <<n - 1, n>>[2]
  BY <1>2
<1>4. n - 1 \in T
  BY <1>1, <1>2, <1>3 DEF Before
<1>5. (n - 1) + 1 \in T
  BY <1>4
<1> QED BY <1>2, <1>5

LEMMA JoinsInAnyOrder ==
  ASSUME NEW S, NEW q \in Seq(S), NEW r \in Seq(S), NEW t \in Seq(S)
  PROVE  /\ q \o r \in Seq(S)
         /\ (q \o r) \o t = q \o (r \o t)
         /\ q \o <<>> = q /\ <<>> \o q = q
OBVIOUS

\* f is the recursive function of FlattenSeq as far as n, and h with what
\* comes before the first.
Flattening(f, ss, n) == f = [i \in 1..n |-> IF i = 1 THEN ss[i] ELSE f[i - 1] \o ss[i]]
Joining(h, ss, n) == h[0] = <<>> /\ \A i \in 1..n : h[i] = h[i - 1] \o ss[i]

LEMMA FlatteningExists ==
  ASSUME NEW ss, NEW l \in Nat
  PROVE  \E f : Flattening(f, ss, l)
<1> DEFINE N == {n \in Nat : \E f : Flattening(f, ss, n)}
<1>1. 0 \in N
  <2> DEFINE f == [i \in 1..0 |-> ss]
  <2>1. Flattening(f, ss, 0)
    BY DEF Flattening
  <2> QED BY <2>1
<1>2. ASSUME NEW n \in N
      PROVE  n + 1 \in N
  <2>1. PICK f : Flattening(f, ss, n)
    BY <1>2
  <2>0. n \in Nat
    BY <1>2
  <2> HIDE DEF N
  <2> DEFINE v == IF n + 1 = 1 THEN ss[n + 1] ELSE f[n] \o ss[n + 1]
  <2> HIDE DEF v
  <2> DEFINE g == [i \in 1 .. n + 1 |-> IF i = n + 1 THEN v ELSE f[i]]
  <2>2. (\A i \in 1..n : g[i] = f[i]) /\ g[n + 1] = v
    BY <2>0
  <2>3. g = [i \in 1 .. n + 1 |-> g[i]]
    OBVIOUS
  <2> HIDE DEF g
  <2>4. ASSUME NEW i \in 1 .. n + 1
        PROVE  g[i] = IF i = 1 THEN ss[i] ELSE g[i - 1] \o ss[i]
    <3>1. i = n + 1 \/ i \in 1..n
      BY <2>0
    <3>2. CASE i = n + 1
      <4>1. CASE n = 0
        BY <2>2, <3>2, <4>1 DEF v
      <4>2. CASE n # 0
        <5>1. n + 1 # 1 /\ i - 1 = n /\ n \in 1..n
          BY <2>0, <3>2, <4>2
        <5> QED BY <2>2, <3>2, <5>1 DEF v
      <4> QED BY <4>1, <4>2
    <3>3. CASE i \in 1..n
      <4>1. f[i] = IF i = 1 THEN ss[i] ELSE f[i - 1] \o ss[i]
        BY <2>1, <3>3 DEF Flattening
      <4>2. i = 1 \/ i - 1 \in 1..n
        BY <2>0, <3>3
      <4> QED BY <2>2, <3>3, <4>1, <4>2
    <3> QED BY <3>1, <3>2, <3>3
  <2>5. Flattening(g, ss, n + 1)
    BY <2>3, <2>4 DEF Flattening
  <2> QED BY <2>0, <2>5 DEF N
<1>3. N = Nat
  <2> HIDE DEF N
  <2>1. N \in SUBSET Nat
    BY DEF N
  <2> QED BY <1>1, <1>2, <2>1, AllNaturals
<1> QED BY <1>3

LEMMA FlatJoins ==
  ASSUME NEW S, NEW ss \in Seq(Seq(S))
  PROVE  \E h : Joining(h, ss, Len(ss)) /\ FlattenSeq(ss) = h[Len(ss)]
<1> DEFINE l == Len(ss)
<1>1. l \in Nat
  OBVIOUS
<1>2. CASE l = 0
  <2> DEFINE h == [i \in {0} |-> <<>>]
  <2>1. FlattenSeq(ss) = <<>>
    BY <1>2 DEF FlattenSeq
  <2>2. h[0] = <<>> /\ 1..0 = {}
    OBVIOUS
  <2>3. Joining(h, ss, l)
    BY <1>2, <2>2 DEF Joining
  <2> QED BY <1>2, <2>1, <2>2, <2>3
<1>3. CASE l # 0
  <2> DEFINE f == CHOOSE g : g = [i \in 1..l |-> IF i = 1 THEN ss[i] ELSE g[i - 1] \o ss[i]]
  <2>1. \E g : g = [i \in 1..l |-> IF i = 1 THEN ss[i] ELSE g[i - 1] \o ss[i]]
    <3>1. \E g : Flattening(g, ss, l)
      BY <1>1, FlatteningExists
    <3> QED BY <3>1 DEF Flattening
  <2>2. Flattening(f, ss, l)
    BY <2>1 DEF Flattening
  <2>3. FlattenSeq(ss) = f[l]
    BY <1>3 DEF FlattenSeq
  <2> HIDE DEF f
  <2> DEFINE h == [i \in 0..l |-> IF i = 0 THEN <<>> ELSE f[i]]
  <2>4. h[0] = <<>> /\ \A i \in 1..l : h[i] = f[i]
    BY <1>1
  <2> HIDE DEF h
  <2>5. ASSUME NEW i \in 1..l
        PROVE  h[i] = h[i - 1] \o ss[i]
    <3>1. f[i] = IF i = 1 THEN ss[i] ELSE f[i - 1] \o ss[i]
      BY <2>2 DEF Flattening
    <3>2. CASE i = 1
      <4>1. ss[1] \in Seq(S)
        BY <1>1, <1>3
      <4>2. <<>> \o ss[1] = ss[1]
        BY <4>1
      <4>3. h[i] = ss[1] /\ h[i - 1] = <<>>
        BY <2>4, <3>1, <3>2
      <4> QED BY <3>2, <4>2, <4>3
    <3>3. CASE i # 1
      <4>1. i - 1 \in 1..l
        BY <1>1, <3>3
      <4> QED BY <2>4, <3>1, <3>3, <4>1
    <3> QED BY <3>2, <3>3
  <2>6. Joining(h, ss, l)
    BY <2>4, <2>5 DEF Joining
  <2>7. h[l] = FlattenSeq(ss)
    BY <1>1, <1>3, <2>3, <2>4
  <2> QED BY <2>6, <2>7
<1> QED BY <1>2, <1>3

LEMMA JoiningTypes ==
  ASSUME NEW S, NEW ss \in Seq(Seq(S)), NEW h, Joining(h, ss, Len(ss))
  PROVE  \A n \in 0..Len(ss) : h[n] \in Seq(S)
<1> DEFINE N == {n \in Nat : n <= Len(ss) => h[n] \in Seq(S)}
<1>1. 0 \in N
  <2>1. h[0] = <<>> /\ <<>> \in Seq(S)
    BY DEF Joining
  <2> QED BY <2>1
<1>2. ASSUME NEW n \in N
      PROVE  n + 1 \in N
  <2> SUFFICES ASSUME n + 1 <= Len(ss)
               PROVE  h[n + 1] \in Seq(S)
    OBVIOUS
  <2>1. n + 1 \in 1..Len(ss) /\ h[n] \in Seq(S) /\ (n + 1) - 1 = n
    OBVIOUS
  <2>2. h[n + 1] = h[(n + 1) - 1] \o ss[n + 1]
    BY <2>1 DEF Joining
  <2>3. ss[n + 1] \in Seq(S)
    BY <2>1
  <2> QED BY <2>1, <2>2, <2>3
<1>3. N = Nat
  <2> HIDE DEF N
  <2>1. N \in SUBSET Nat
    BY DEF N
  <2> QED BY <1>1, <1>2, <2>1, AllNaturals
<1> QED BY <1>3

\* What is joined after s, which k has at d.
Continuing(k, ss, d) == \A i \in 1..Len(ss) : k[i + d] = k[(i - 1) + d] \o ss[i]

LEMMA JoinedAfter ==
  ASSUME NEW S, NEW s \in Seq(S), NEW ss \in Seq(Seq(S)), NEW h, NEW k, NEW d \in Nat,
         Joining(h, ss, Len(ss)), k[d] = s,
         Continuing(k, ss, d)
  PROVE  k[Len(ss) + d] = s \o h[Len(ss)]
<1> DEFINE N == {n \in Nat : n <= Len(ss) => k[n + d] = s \o h[n]}
<1>1. 0 \in N
  <2>1. h[0] = <<>> /\ s \o <<>> = s /\ 0 + d = d
    BY DEF Joining
  <2> QED BY <2>1
<1>2. ASSUME NEW n \in N
      PROVE  n + 1 \in N
  <2> SUFFICES ASSUME n + 1 <= Len(ss)
               PROVE  k[(n + 1) + d] = s \o h[n + 1]
    OBVIOUS
  <2>1. /\ n + 1 \in 1..Len(ss) /\ n \in 0..Len(ss) /\ (n + 1) - 1 = n
        /\ k[n + d] = s \o h[n]
    OBVIOUS
  <2> HIDE DEF N
  <2>2. PICK a \in Seq(S) : a = h[n]
    BY <2>1, JoiningTypes
  <2>3. PICK b \in Seq(S) : b = ss[n + 1]
    BY <2>1
  <2>4. h[n + 1] = h[(n + 1) - 1] \o ss[n + 1]
    BY <2>1 DEF Joining
  <2>5. k[(n + 1) + d] = k[((n + 1) - 1) + d] \o ss[n + 1]
    BY <2>1 DEF Continuing
  <2>6. h[n + 1] = a \o b /\ k[(n + 1) + d] = (s \o a) \o b
    BY <2>1, <2>2, <2>3, <2>4, <2>5
  <2>7. (s \o a) \o b = s \o (a \o b)
    OBVIOUS
  <2> QED BY <2>6, <2>7
<1>3. N = Nat
  <2> HIDE DEF N
  <2>1. N \in SUBSET Nat
    BY DEF N
  <2> QED BY <1>1, <1>2, <2>1, AllNaturals
<1>4. Len(ss) \in N
  <2> HIDE DEF N
  <2>1. Len(ss) \in Nat
    OBVIOUS
  <2> QED BY <1>3, <2>1
<1> QED BY <1>4

LEMMA FlatTypes ==
  ASSUME NEW S, NEW ss \in Seq(Seq(S))
  PROVE  FlattenSeq(ss) \in Seq(S)
<1>1. PICK h : Joining(h, ss, Len(ss)) /\ FlattenSeq(ss) = h[Len(ss)]
  BY FlatJoins
<1>2. Len(ss) \in 0..Len(ss)
  OBVIOUS
<1> QED BY <1>1, <1>2, JoiningTypes

LEMMA FlatEmpty == FlattenSeq(<<>>) = <<>>
BY DEF FlattenSeq

LEMMA FlatAppended ==
  ASSUME NEW S, NEW ss \in Seq(Seq(S)), NEW s \in Seq(S)
  PROVE  FlattenSeq(Append(ss, s)) = FlattenSeq(ss) \o s
<1> DEFINE l == Len(ss)
           tt == Append(ss, s)
<1>1. /\ l \in Nat /\ tt \in Seq(Seq(S)) /\ Len(tt) = l + 1
      /\ (\A i \in 1..l : tt[i] = ss[i]) /\ tt[l + 1] = s
  OBVIOUS
<1> HIDE DEF tt
<1>2. PICK h : Joining(h, ss, l) /\ FlattenSeq(ss) = h[l]
  BY FlatJoins
<1>3. PICK k : Joining(k, tt, l + 1) /\ FlattenSeq(tt) = k[l + 1]
  BY <1>1, FlatJoins
<1>4. k[l] = h[l]
  <2>1. PICK d \in Nat : d = 0
    OBVIOUS
  <2>2. <<>> \in Seq(S) /\ k[d] = <<>>
    BY <1>3, <2>1 DEF Joining
  <2>3. ASSUME NEW i \in 1..Len(ss)
        PROVE  k[i + d] = k[(i - 1) + d] \o ss[i]
    <3>1. i + d = i /\ (i - 1) + d = i - 1 /\ i \in 1 .. l + 1 /\ tt[i] = ss[i]
      BY <1>1, <2>1
    <3>2. k[i] = k[i - 1] \o tt[i]
      BY <1>3, <3>1 DEF Joining
    <3> QED BY <3>1, <3>2
  <2>4. Joining(h, ss, Len(ss))
    BY <1>2
  <2>5. k[Len(ss) + d] = <<>> \o h[Len(ss)]
    <3>1. Continuing(k, ss, d)
      BY <2>3 DEF Continuing
    <3> QED BY <2>2, <2>4, <3>1, JoinedAfter
  <2>6. h[l] \in Seq(S)
    <3>1. l \in 0..l
      BY <1>1
    <3> QED BY <1>2, <3>1, JoiningTypes
  <2>7. <<>> \o h[l] = h[l] /\ l + d = l
    BY <1>1, <2>1, <2>6
  <2> QED BY <2>5, <2>7
<1>5. k[l + 1] = k[l] \o s
  <2>1. l + 1 \in 1 .. l + 1 /\ (l + 1) - 1 = l
    BY <1>1
  <2> QED BY <1>1, <1>3, <2>1 DEF Joining
<1> QED BY <1>2, <1>3, <1>4, <1>5 DEF tt

LEMMA FlatFirst ==
  ASSUME NEW S, NEW ss \in Seq(Seq(S)), NEW s \in Seq(S)
  PROVE  FlattenSeq(<<s>> \o ss) = s \o FlattenSeq(ss)
<1> DEFINE l == Len(ss)
           tt == <<s>> \o ss
<1>1. /\ l \in Nat /\ tt \in Seq(Seq(S)) /\ Len(tt) = l + 1
      /\ (\A i \in 1..l : tt[i + 1] = ss[i]) /\ tt[1] = s
  OBVIOUS
<1> HIDE DEF tt
<1>2. PICK h : Joining(h, ss, l) /\ FlattenSeq(ss) = h[l]
  BY FlatJoins
<1>3. PICK k : Joining(k, tt, l + 1) /\ FlattenSeq(tt) = k[l + 1]
  BY <1>1, FlatJoins
<1>4. k[1] = s
  <2>1. 1 \in 1 .. l + 1 /\ 1 - 1 = 0
    BY <1>1
  <2>2. k[1] = <<>> \o s
    BY <1>1, <1>3, <2>1 DEF Joining
  <2>3. <<>> \o s = s
    OBVIOUS
  <2> QED BY <2>2, <2>3
<1>5. PICK d \in Nat : d = 1
  OBVIOUS
<1>6. ASSUME NEW i \in 1..Len(ss)
      PROVE  k[i + d] = k[(i - 1) + d] \o ss[i]
  <2>1. i + 1 \in 1 .. l + 1 /\ (i + 1) - 1 = i /\ (i - 1) + d = i /\ i + d = i + 1
        /\ tt[i + 1] = ss[i]
    BY <1>1, <1>5
  <2>2. k[i + 1] = k[(i + 1) - 1] \o tt[i + 1]
    BY <1>3, <2>1 DEF Joining
  <2> QED BY <2>1, <2>2
<1>7. k[l + 1] = s \o h[l]
  <2>1. Joining(h, ss, Len(ss)) /\ k[d] = s
    BY <1>2, <1>4, <1>5
  <2>2. k[Len(ss) + d] = s \o h[Len(ss)]
    <3>1. Continuing(k, ss, d)
      BY <1>6 DEF Continuing
    <3> QED BY <2>1, <3>1, JoinedAfter
  <2> QED BY <1>5, <2>2
<1> QED BY <1>2, <1>3, <1>7 DEF tt

-----------------------------------------------------------------------------
(***************************************************************************)
(* The messages on their way.                                              *)
(***************************************************************************)
LEMMA CompleteTypes ==
  ASSUME NEW ps \in Seq(Piece)
  PROVE  /\ [i \in DOMAIN ps |-> Completes(ps[i])] \in Seq(Seq(Message))
         /\ Complete(ps) \in Seq(Message)
         /\ \A p \in Piece : Completes(p) \in Seq(Message)
<1>1. \A p \in Piece : Completes(p) \in Seq(Message)
  BY DEF Completes, Piece
<1>2. DOMAIN ps = 1..Len(ps) /\ Len(ps) \in Nat /\ \A i \in 1..Len(ps) : ps[i] \in Piece
  OBVIOUS
<1>3. [i \in DOMAIN ps |-> Completes(ps[i])] \in Seq(Seq(Message))
  BY <1>1, <1>2
<1>4. Complete(ps) \in Seq(Message)
  BY <1>3, FlatTypes DEF Complete
<1> QED BY <1>1, <1>3, <1>4

LEMMA CompleteEmpty == Complete(<<>>) = <<>>
<1>1. [i \in DOMAIN <<>> |-> Completes(<<>>[i])] = <<>>
  OBVIOUS
<1> QED BY <1>1, FlatEmpty DEF Complete

LEMMA CompleteAppended ==
  ASSUME NEW ps \in Seq(Piece), NEW p \in Piece
  PROVE  Complete(Append(ps, p)) = Complete(ps) \o Completes(p)
<1> DEFINE ss == [i \in DOMAIN ps |-> Completes(ps[i])]
           qs == Append(ps, p)
           tt == [i \in DOMAIN qs |-> Completes(qs[i])]
<1>1. /\ Len(ps) \in Nat /\ DOMAIN ps = 1..Len(ps) /\ DOMAIN qs = 1 .. Len(ps) + 1
      /\ (\A i \in 1..Len(ps) : qs[i] = ps[i]) /\ qs[Len(ps) + 1] = p
  OBVIOUS
<1>2. ss \in Seq(Seq(Message)) /\ Len(ss) = Len(ps) /\ Completes(p) \in Seq(Message)
  <2>1. ss \in Seq(Seq(Message)) /\ Completes(p) \in Seq(Message)
    BY CompleteTypes
  <2> QED BY <1>1, <2>1
<1>3. tt = Append(ss, Completes(p))
  <2> HIDE DEF qs
  <2>1. \A i \in 1 .. Len(ps) + 1 : i \in 1..Len(ps) \/ i = Len(ps) + 1
    BY <1>1
  <2>2. ASSUME NEW i \in 1 .. Len(ps) + 1
        PROVE  tt[i] = Append(ss, Completes(p))[i]
    <3>1. CASE i \in 1..Len(ps)
      BY <1>1, <1>2, <3>1
    <3>2. CASE i = Len(ps) + 1
      BY <1>1, <1>2, <3>2
    <3> QED BY <2>1, <3>1, <3>2
  <2>3. DOMAIN tt = 1 .. Len(ps) + 1
    BY <1>1
  <2> HIDE DEF tt, ss
  <2>4. DOMAIN Append(ss, Completes(p)) = 1 .. Len(ps) + 1
    BY <1>2
  <2>5. tt = [i \in 1 .. Len(ps) + 1 |-> tt[i]]
    BY <1>1 DEF tt
  <2>6. Append(ss, Completes(p)) = [i \in 1 .. Len(ps) + 1 |-> Append(ss, Completes(p))[i]]
    <3>1. PICK x \in Seq(Message) : x = Completes(p)
      BY <1>2
    <3>2. Append(ss, x) \in Seq(Seq(Message)) /\ Len(Append(ss, x)) = Len(ps) + 1
      BY <1>2
    <3>3. \A q \in Seq(Seq(Message)) : q = [i \in 1..Len(q) |-> q[i]]
      OBVIOUS
    <3> QED BY <3>1, <3>2, <3>3
  <2> QED BY <2>2, <2>5, <2>6
<1> HIDE DEF ss, tt
<1>4. FlattenSeq(Append(ss, Completes(p))) = FlattenSeq(ss) \o Completes(p)
  BY <1>2, FlatAppended
<1> QED BY <1>3, <1>4 DEF Complete, ss, tt

LEMMA CompleteFirst ==
  ASSUME NEW ps \in Seq(Piece), ps # <<>>
  PROVE  Complete(ps) = Completes(Head(ps)) \o Complete(Tail(ps))
<1> DEFINE p == Head(ps)
           rs == Tail(ps)
           ss == [i \in DOMAIN rs |-> Completes(rs[i])]
           tt == [i \in DOMAIN ps |-> Completes(ps[i])]
<1>1. /\ rs \in Seq(Piece) /\ p \in Piece /\ Len(ps) \in Nat /\ Len(rs) = Len(ps) - 1
      /\ Len(rs) \in Nat
      /\ DOMAIN ps = 1..Len(ps) /\ DOMAIN rs = 1..Len(rs)
      /\ (\A i \in 1..Len(rs) : rs[i] = ps[i + 1]) /\ p = ps[1]
  OBVIOUS
<1> HIDE DEF p, rs
<1>2. /\ ss \in Seq(Seq(Message)) /\ tt \in Seq(Seq(Message))
      /\ Len(ss) = Len(rs) /\ Len(tt) = Len(ps) /\ Completes(p) \in Seq(Message)
  <2>1. ss \in Seq(Seq(Message)) /\ Completes(p) \in Seq(Message)
    BY <1>1, CompleteTypes
  <2>2. tt \in Seq(Seq(Message))
    BY CompleteTypes
  <2> QED BY <1>1, <2>1, <2>2
<1>3. tt = <<Completes(p)>> \o ss
  <2>1. Len(<<Completes(p)>> \o ss) = Len(ps) /\ <<Completes(p)>> \o ss \in Seq(Seq(Message))
    BY <1>1, <1>2
  <2>2. ASSUME NEW i \in 1..Len(ps)
        PROVE  tt[i] = (<<Completes(p)>> \o ss)[i]
    <3>1. CASE i = 1
      BY <1>1, <1>2, <3>1
    <3>2. CASE i # 1
      <4>1. i - 1 \in 1..Len(rs) /\ (i - 1) + 1 = i
        BY <1>1, <3>2
      <4>2. tt[i] = Completes(ps[i]) /\ ss[i - 1] = Completes(rs[i - 1]) /\ rs[i - 1] = ps[i]
        BY <1>1, <4>1
      <4>3. (<<Completes(p)>> \o ss)[i] = ss[i - 1]
        BY <1>1, <1>2, <3>2
      <4> QED BY <4>2, <4>3
    <3> QED BY <3>1, <3>2
  <2> HIDE DEF tt, ss
  <2>3. tt = [i \in 1..Len(ps) |-> tt[i]]
    BY <1>2
  <2>4. <<Completes(p)>> \o ss = [i \in 1..Len(ps) |-> (<<Completes(p)>> \o ss)[i]]
    BY <2>1
  <2> QED BY <2>2, <2>3, <2>4
<1> HIDE DEF ss, tt
<1>4. FlattenSeq(<<Completes(p)>> \o ss) = Completes(p) \o FlattenSeq(ss)
  BY <1>2, FlatFirst
<1> QED BY <1>3, <1>4 DEF Complete, ss, tt, p, rs

\* Waiting, of other connections and other sockets.
Waits(b, w) == FlattenSeq([i \in DOMAIN b |-> Complete(w[b[i]])])

LEMMA WaitsTypes ==
  ASSUME NEW b \in Seq(Conn), NEW w \in [Conn -> Seq(Piece)]
  PROVE  /\ [i \in DOMAIN b |-> Complete(w[b[i]])] \in Seq(Seq(Message))
         /\ Waits(b, w) \in Seq(Message)
         /\ \A c \in Conn : Complete(w[c]) \in Seq(Message)
<1>1. \A c \in Conn : Complete(w[c]) \in Seq(Message)
  BY CompleteTypes
<1>2. DOMAIN b = 1..Len(b) /\ Len(b) \in Nat /\ \A i \in 1..Len(b) : b[i] \in Conn
  OBVIOUS
<1>3. [i \in DOMAIN b |-> Complete(w[b[i]])] \in Seq(Seq(Message))
  BY <1>1, <1>2
<1>4. Waits(b, w) \in Seq(Message)
  BY <1>3, FlatTypes DEF Waits
<1> QED BY <1>1, <1>3, <1>4

LEMMA WaitsSame ==
  ASSUME NEW b, NEW w, NEW v, \A i \in DOMAIN b : Complete(v[b[i]]) = Complete(w[b[i]])
  PROVE  Waits(b, v) = Waits(b, w)
<1>1. [i \in DOMAIN b |-> Complete(v[b[i]])] = [i \in DOMAIN b |-> Complete(w[b[i]])]
  OBVIOUS
<1> QED BY <1>1 DEF Waits

LEMMA WaitsEmpty == \A w : Waits(<<>>, w) = <<>>
<1>1. \A w : [i \in DOMAIN <<>> |-> Complete(w[<<>>[i]])] = <<>>
  OBVIOUS
<1> QED BY <1>1, FlatEmpty DEF Waits

LEMMA WaitsAppended ==
  ASSUME NEW b \in Seq(Conn), NEW c \in Conn, NEW w \in [Conn -> Seq(Piece)]
  PROVE  Waits(Append(b, c), w) = Waits(b, w) \o Complete(w[c])
<1> DEFINE ss == [i \in DOMAIN b |-> Complete(w[b[i]])]
           d == Append(b, c)
           tt == [i \in DOMAIN d |-> Complete(w[d[i]])]
<1>1. /\ Len(b) \in Nat /\ DOMAIN b = 1..Len(b) /\ DOMAIN d = 1 .. Len(b) + 1
      /\ (\A i \in 1..Len(b) : d[i] = b[i]) /\ d[Len(b) + 1] = c
  OBVIOUS
<1>2. ss \in Seq(Seq(Message)) /\ Len(ss) = Len(b) /\ Complete(w[c]) \in Seq(Message)
  <2>1. ss \in Seq(Seq(Message)) /\ Complete(w[c]) \in Seq(Message)
    BY WaitsTypes
  <2> QED BY <1>1, <2>1
<1>3. tt = Append(ss, Complete(w[c]))
  <2> HIDE DEF d
  <2>1. \A i \in 1 .. Len(b) + 1 : i \in 1..Len(b) \/ i = Len(b) + 1
    BY <1>1
  <2>2. ASSUME NEW i \in 1 .. Len(b) + 1
        PROVE  tt[i] = Append(ss, Complete(w[c]))[i]
    <3>1. CASE i \in 1..Len(b)
      BY <1>1, <1>2, <3>1
    <3>2. CASE i = Len(b) + 1
      BY <1>1, <1>2, <3>2
    <3> QED BY <2>1, <3>1, <3>2
  <2>3. DOMAIN tt = 1 .. Len(b) + 1
    BY <1>1
  <2>4. tt = [i \in 1 .. Len(b) + 1 |-> tt[i]]
    BY <1>1
  <2> HIDE DEF tt, ss
  <2>5. DOMAIN Append(ss, Complete(w[c])) = 1 .. Len(b) + 1
    BY <1>2
  <2>6. Append(ss, Complete(w[c])) = [i \in 1 .. Len(b) + 1 |-> Append(ss, Complete(w[c]))[i]]
    BY <1>2, <2>5
  <2> QED BY <2>2, <2>4, <2>6
<1> HIDE DEF ss, tt
<1>4. FlattenSeq(Append(ss, Complete(w[c]))) = FlattenSeq(ss) \o Complete(w[c])
  BY <1>2, FlatAppended
<1> QED BY <1>3, <1>4 DEF Waits, ss, tt

LEMMA WaitsFirst ==
  ASSUME NEW b \in Seq(Conn), b # <<>>, NEW w \in [Conn -> Seq(Piece)]
  PROVE  Waits(b, w) = Complete(w[Head(b)]) \o Waits(Tail(b), w)
<1> DEFINE c == Head(b)
           r == Tail(b)
           ss == [i \in DOMAIN r |-> Complete(w[r[i]])]
           tt == [i \in DOMAIN b |-> Complete(w[b[i]])]
<1>1. /\ r \in Seq(Conn) /\ c \in Conn /\ Len(b) \in Nat /\ Len(r) = Len(b) - 1
      /\ Len(r) \in Nat
      /\ DOMAIN b = 1..Len(b) /\ DOMAIN r = 1..Len(r)
      /\ (\A i \in 1..Len(r) : r[i] = b[i + 1]) /\ c = b[1]
  OBVIOUS
<1> HIDE DEF c, r
<1>2. /\ ss \in Seq(Seq(Message)) /\ tt \in Seq(Seq(Message))
      /\ Len(ss) = Len(r) /\ Len(tt) = Len(b) /\ Complete(w[c]) \in Seq(Message)
  <2>1. ss \in Seq(Seq(Message)) /\ Complete(w[c]) \in Seq(Message)
    BY <1>1, WaitsTypes
  <2>2. tt \in Seq(Seq(Message))
    BY WaitsTypes
  <2> QED BY <1>1, <2>1, <2>2
<1>3. tt = <<Complete(w[c])>> \o ss
  <2>1. /\ Len(<<Complete(w[c])>> \o ss) = Len(b)
        /\ <<Complete(w[c])>> \o ss \in Seq(Seq(Message))
    BY <1>1, <1>2
  <2>2. ASSUME NEW i \in 1..Len(b)
        PROVE  tt[i] = (<<Complete(w[c])>> \o ss)[i]
    <3>1. CASE i = 1
      BY <1>1, <1>2, <3>1
    <3>2. CASE i # 1
      <4>1. i - 1 \in 1..Len(r) /\ (i - 1) + 1 = i
        BY <1>1, <3>2
      <4>2. tt[i] = Complete(w[b[i]]) /\ ss[i - 1] = Complete(w[r[i - 1]]) /\ r[i - 1] = b[i]
        BY <1>1, <4>1
      <4>3. (<<Complete(w[c])>> \o ss)[i] = ss[i - 1]
        BY <1>1, <1>2, <3>2
      <4> QED BY <4>2, <4>3
    <3> QED BY <3>1, <3>2
  <2> HIDE DEF tt, ss
  <2>3. tt = [i \in 1..Len(b) |-> tt[i]]
    BY <1>2
  <2>4. <<Complete(w[c])>> \o ss = [i \in 1..Len(b) |-> (<<Complete(w[c])>> \o ss)[i]]
    BY <2>1
  <2> QED BY <2>2, <2>3, <2>4
<1> HIDE DEF ss, tt
<1>4. FlattenSeq(<<Complete(w[c])>> \o ss) = Complete(w[c]) \o FlattenSeq(ss)
  BY <1>2, FlatFirst
<1> QED BY <1>3, <1>4 DEF Waits, ss, tt, c, r

LEMMA WayTypes ==
  ASSUME Typed
  PROVE  /\ OnServed \in Seq(Message) /\ Waiting \in Seq(Message) /\ Kept \in Seq(Message)
         /\ Only(writing) \in Seq(Message) /\ Only(unsent) \in Seq(Message)
         /\ queue \in Seq(Message) /\ OnServed \o Waiting \in Seq(Message)
         /\ OnTheirWay \in Seq(Message) /\ Waiting = Waits(backlog, wire)
<1>1. OnServed \in Seq(Message)
  <2>1. served # NoConn => served \in Conn /\ wire \in [Conn -> Seq(Piece)] /\ backlog \in Seq(Conn)
    BY DEF Typed
  <2>2. served # NoConn => Complete(wire[served]) \in Seq(Message)
    BY <2>1, WaitsTypes
  <2> QED BY <2>2 DEF OnServed
<1>2. Waiting = Waits(backlog, wire) /\ Waiting \in Seq(Message)
  BY WaitsTypes DEF Waiting, Waits, Typed
<1>3. Only(writing) \in Seq(Message) /\ Only(unsent) \in Seq(Message) /\ queue \in Seq(Message)
  BY DEF Only, Typed
<1>4. Kept \in Seq(Message)
  BY <1>3 DEF Kept
<1>5. OnServed \o Waiting \in Seq(Message) /\ (OnServed \o Waiting) \o Kept \in Seq(Message)
  BY <1>1, <1>2, <1>4
<1> QED BY <1>1, <1>2, <1>3, <1>4, <1>5 DEF OnTheirWay

\* Losing a stretch of messages is a step of LossyFifo.
LEMMA Removed ==
  ASSUME NEW A \in Seq(Message), NEW B \in Seq(Message), NEW C \in Seq(Message)
  PROVE  A \o C = (A \o B) \o C \/ Fifo!Leave((A \o B) \o C, A \o C)
<1> DEFINE pre == (A \o B) \o C
           post == A \o C
           a == Len(A)
           b == Len(B)
           k == Len(C)
<1>1. /\ a \in Nat /\ b \in Nat /\ k \in Nat
      /\ Len(pre) = a + b + k /\ DOMAIN pre = 1 .. a + b + k
      /\ Len(post) = a + k /\ DOMAIN post = 1 .. a + k
  OBVIOUS
<1>2. \A i \in 1..a : pre[i] = A[i] /\ post[i] = A[i]
  OBVIOUS
<1>3. \A i \in 1..k : pre[a + b + i] = C[i] /\ post[a + i] = C[i]
  <2>1. PICK q \in Seq(Message) : q = A \o B
    <3>1. A \o B \in Seq(Message)
      OBVIOUS
    <3> QED BY <3>1
  <2>2. Len(q) = a + b
    BY <2>1
  <2>3. \A i \in 1..k : (q \o C)[Len(q) + i] = C[i]
    BY <2>2
  <2>4. \A i \in 1..k : (A \o C)[a + i] = C[i]
    OBVIOUS
  <2> QED BY <2>1, <2>2, <2>3, <2>4
<1>4. CASE b = 0
  <2>1. B = <<>>
    BY <1>4
  <2> QED BY <2>1
<1>5. CASE b # 0
  <2> HIDE DEF pre, post, a, b, k
  <2> DEFINE place == [i \in 1 .. a + k |-> IF i <= a THEN i ELSE i + b]
  <2>1. place \in [DOMAIN post -> DOMAIN pre]
    BY <1>1
  <2>2. \A i, j \in 1 .. a + k : i < j => place[i] < place[j]
    BY <1>1
  <2>3. ASSUME NEW i \in 1 .. a + k
        PROVE  post[i] = pre[place[i]]
    <3>1. CASE i <= a
      BY <1>1, <1>2, <3>1
    <3>2. CASE i > a
      <4>1. i - a \in 1..k /\ a + (i - a) = i /\ a + b + (i - a) = i + b
        BY <1>1, <3>2
      <4>2. pre[a + b + (i - a)] = C[i - a] /\ post[a + (i - a)] = C[i - a]
        BY <1>3, <4>1
      <4>3. place[i] = i + b
        BY <1>1, <3>2
      <4> QED BY <4>1, <4>2, <4>3
    <3> QED BY <1>1, <3>1, <3>2
  <2>4. Len(post) < Len(pre)
    BY <1>1, <1>5
  <2> HIDE DEF place
  <2>5. Fifo!Leave(pre, post)
    BY <1>1, <2>1, <2>2, <2>3, <2>4 DEF Fifo!Leave
  <2> QED BY <2>5 DEF pre, post
<1> QED BY <1>4, <1>5

\* weft-appd's connection is the newest, until the compositor closed it.
Newest ==
  Connected /\ conn \notin hungup =>
    IF backlog = <<>> THEN conn = served ELSE conn = backlog[Len(backlog)]
Places ==
  /\ \A i, j \in DOMAIN backlog : backlog[i] = backlog[j] => i = j
  /\ \A i \in DOMAIN backlog : backlog[i] # served
  /\ Newest

\* What was queued is told from what will be by the requests and the sessions.
Old(m) ==
  /\ m.life <= life
  /\ m.kind = "ask" => m.n <= work
  /\ m.kind = "attach" /\ m.life = life => app[m.sid] \notin {"idle", "checked"}
  /\ m.kind = "destroyed" /\ m.life = life => app[m.sid] = "ended"
AllOld == \A i \in DOMAIN OnTheirWay : Old(OnTheirWay[i])

FifoInv == Places /\ AllOld

\* What a step does to the messages on their way.
Queues == \E m \in Message : ~Old(m) /\ Old(m)' /\ OnTheirWay' = Append(OnTheirWay, m)
Outcome == OnTheirWay' = OnTheirWay \/ Fifo!Leave(OnTheirWay, OnTheirWay') \/ Queues

LEMMA Loses ==
  ASSUME NEW A \in Seq(Message), NEW B \in Seq(Message), NEW C \in Seq(Message),
         OnTheirWay = (A \o B) \o C, OnTheirWay' = A \o C
  PROVE  Outcome
<1>1. A \o C = (A \o B) \o C \/ Fifo!Leave((A \o B) \o C, A \o C)
  BY Removed
<1> QED BY <1>1 DEF Outcome

LEMMA WiredStays ==
  ASSUME UNCHANGED <<served, wire, backlog>>
  PROVE  OnServed' = OnServed /\ Waiting' = Waiting
BY DEF OnServed, Waiting

LEMMA PlacesStay ==
  ASSUME Places, UNCHANGED <<served, backlog>>,
         conn' = NoConn \/ (conn' = conn /\ hungup \subseteq hungup')
  PROVE  Places'
BY DEF Places, Newest, Connected

LEMMA RestingOrder ==
  ASSUME Places, UNCHANGED <<served, wire, backlog, writing, unsent, queue>>,
         conn' = NoConn \/ (conn' = conn /\ hungup \subseteq hungup')
  PROVE  Places' /\ Outcome
<1>1. OnServed' = OnServed /\ Waiting' = Waiting /\ Kept' = Kept
  BY WiredStays DEF Kept
<1> QED BY <1>1, PlacesStay DEF Outcome, OnTheirWay

\* A message is queued.
LEMMA QueueingOrder ==
  ASSUME Typed, Places, NEW m \in Message, ~Old(m), Old(m)', Enqueue(m),
         UNCHANGED <<served, wire, backlog, writing, unsent, conn, hungup>>
  PROVE  Places' /\ Outcome
<1> DEFINE W == OnServed \o Waiting
           x == Only(writing) \o Only(unsent)
<1>1. W \in Seq(Message) /\ x \in Seq(Message) /\ queue \in Seq(Message) /\ Kept \in Seq(Message)
      /\ Kept = x \o queue
  <2>1. Only(writing) \in Seq(Message) /\ Only(unsent) \in Seq(Message)
    BY WayTypes
  <2> QED BY <2>1, WayTypes DEF Kept
<1>2. Kept' = x \o Append(queue, m)
  BY DEF Kept, Enqueue
<1>3. OnTheirWay = W \o Kept /\ OnTheirWay' = W \o Kept'
  BY WiredStays DEF OnTheirWay
<1> HIDE DEF W, x
<1>4. x \o Append(queue, m) = Append(x \o queue, m)
  BY <1>1
<1>5. W \o Append(Kept, m) = Append(W \o Kept, m)
  BY <1>1
<1>6. OnTheirWay' = Append(OnTheirWay, m)
  BY <1>1, <1>2, <1>3, <1>4, <1>5
<1>7. Queues
  BY <1>6 DEF Queues
<1> QED BY <1>7, PlacesStay DEF Outcome

LEMMA SessionsOrder ==
  ASSUME LinkInv, Places, Sessions
  PROVE  Places' /\ Outcome
<1> USE DEF sockVars, compVars
<1>0. Typed /\ app \in [Sid -> {"idle", "checked", "open", "ended"}] /\ life \in Life
      /\ work \in Nat /\ Life \subseteq Nat
  BY DEF LinkInv, Typed, Life
<1>1. ASSUME NEW s \in Sid, CheckConnected(s)
      PROVE  Places' /\ Outcome
  BY <1>1, RestingOrder DEF CheckConnected
<1>2. ASSUME NEW s \in Sid, AttachClient(s)
      PROVE  Places' /\ Outcome
  <2>1. CASE Room
    <3>0. PICK m \in Message : m = [kind |-> "attach", life |-> life, sid |-> s]
      <4>1. [kind |-> "attach", life |-> life, sid |-> s] \in Message
        BY <1>0 DEF Message
      <4> QED BY <4>1
    <3>1. /\ Enqueue(m) /\ app[s] = "checked" /\ app' = [app EXCEPT ![s] = "open"]
          /\ UNCHANGED <<life, served, wire, backlog, writing, unsent, conn, hungup>>
      BY <1>2, <2>1, <3>0 DEF AttachClient
    <3>2. m.kind = "attach" /\ m.life = life /\ m.sid = s
      BY <3>0
    <3>3. ~Old(m) /\ Old(m)'
      <4>1. ~Old(m)
        BY <3>1, <3>2 DEF Old
      <4>2. app'[s] = "open" /\ life <= life'
        BY <1>0, <3>1
      <4>3. Old(m)'
        BY <3>1, <3>2, <4>2 DEF Old
      <4> QED BY <4>1, <4>3
    <3> QED BY <1>0, <3>1, <3>2, <3>3, QueueingOrder
  <2>2. CASE ~Room
    BY <1>2, <2>2, RestingOrder DEF AttachClient
  <2> QED BY <2>1, <2>2
<1>3. ASSUME NEW s \in Sid, Settle(s)
      PROVE  Places' /\ Outcome
  <2>1. CASE Room
    <3>0. PICK m \in Message : m = [kind |-> "destroyed", life |-> life, sid |-> s]
      <4>1. [kind |-> "destroyed", life |-> life, sid |-> s] \in Message
        BY <1>0 DEF Message
      <4> QED BY <4>1
    <3>1. /\ Enqueue(m) /\ app[s] = "open" /\ app' = [app EXCEPT ![s] = "ended"]
          /\ UNCHANGED <<life, served, wire, backlog, writing, unsent, conn, hungup>>
      BY <1>3, <2>1, <3>0 DEF Settle
    <3>2. m.kind = "destroyed" /\ m.life = life /\ m.sid = s
      BY <3>0
    <3>3. ~Old(m) /\ Old(m)'
      <4>1. ~Old(m)
        BY <3>1, <3>2 DEF Old
      <4>2. app'[s] = "ended" /\ life <= life'
        BY <1>0, <3>1
      <4>3. Old(m)'
        BY <3>1, <3>2, <4>2 DEF Old
      <4> QED BY <4>1, <4>3
    <3> QED BY <1>0, <3>1, <3>2, <3>3, QueueingOrder
  <2>2. CASE ~Room
    BY <1>3, <2>2, RestingOrder DEF Settle
  <2> QED BY <2>1, <2>2
<1>4. ASSUME NEW t \in Token, AppExits(t)
      PROVE  Places' /\ Outcome
  BY <1>4, RestingOrder DEF AppExits
<1>5. CASE Ask
  <2>0. PICK m \in Message : m = [kind |-> "ask", life |-> life, n |-> work + 1]
    <3>1. work + 1 \in 1..MaxWork
      BY <1>0, <1>5, LinkAssumption DEF Ask
    <3>2. [kind |-> "ask", life |-> life, n |-> work + 1] \in Message
      BY <1>0, <3>1 DEF Message
    <3> QED BY <3>2
  <2>1. /\ Enqueue(m) /\ work' = work + 1 /\ work < MaxWork
        /\ UNCHANGED <<life, served, wire, backlog, writing, unsent, conn, hungup>>
    BY <1>5, <2>0 DEF Ask
  <2>2. m.kind = "ask" /\ m.life = life /\ m.n = work + 1
    BY <2>0
  <2>3. ~Old(m) /\ Old(m)'
    <3>1. ~(work + 1 <= work) /\ work + 1 <= work' /\ life <= life'
      BY <1>0, <2>1
    <3>2. ~Old(m)
      BY <2>2, <3>1 DEF Old
    <3>3. Old(m)'
      BY <2>2, <3>1 DEF Old
    <3> QED BY <3>2, <3>3
  <2> QED BY <1>0, <2>1, <2>2, <2>3, QueueingOrder
<1> QED BY <1>1, <1>2, <1>3, <1>4, <1>5 DEF Sessions

LEMMA ConnectOrder ==
  ASSUME LinkInv, Places, Connect
  PROVE  Places' /\ Outcome
<1>1. PICK c \in Conn : /\ Free(c) /\ conn' = c /\ backlog' = Append(backlog, c)
                        /\ wire' = [wire EXCEPT ![c] = <<>>]
  <2>1. life \in Life
    BY DEF LinkInv, Typed
  <2>2. \A k \in 1..MaxConn : <<life, k>> \in Conn
    BY <2>1 DEF Conn
  <2> QED BY <2>2 DEF Connect
<1>2. /\ UNCHANGED <<served, writing, unsent, queue>>
      /\ backlog \in Seq(Conn) /\ wire \in [Conn -> Seq(Piece)] /\ served \in Conn \cup {NoConn}
      /\ Typed
  BY DEF Connect, compVars, LinkInv, Typed
<1>3. c # served /\ \A i \in DOMAIN backlog : backlog[i] # c
  BY <1>1 DEF Free
<1>4. wire' \in [Conn -> Seq(Piece)] /\ wire'[c] = <<>> /\ \A d \in Conn : d # c => wire'[d] = wire[d]
  BY <1>1, <1>2
<1>5. OnServed' = OnServed
  BY <1>2, <1>3, <1>4 DEF OnServed
<1>6. Waiting' = Waiting
  <2>1. Waiting' = Waits(Append(backlog, c), wire')
    BY <1>1 DEF Waiting, Waits
  <2>2. Waits(Append(backlog, c), wire') = Waits(backlog, wire') \o Complete(wire'[c])
    BY <1>2, <1>4, WaitsAppended
  <2>3. \A i \in DOMAIN backlog : wire'[backlog[i]] = wire[backlog[i]]
    <3>1. \A i \in DOMAIN backlog : backlog[i] \in Conn
      BY <1>2
    <3> QED BY <1>3, <1>4, <3>1
  <2>4. Waits(backlog, wire') = Waits(backlog, wire)
    BY <2>3, WaitsSame
  <2>5. Waits(backlog, wire) \o <<>> = Waits(backlog, wire)
    BY <1>2, WaitsTypes
  <2> QED BY <1>2, <1>4, <2>1, <2>2, <2>4, <2>5, CompleteEmpty, WayTypes
<1>7. Places'
  <2>0. Len(backlog) \in Nat /\ DOMAIN backlog = 1..Len(backlog)
    BY <1>2
  <2>1. /\ DOMAIN backlog' = 1 .. Len(backlog) + 1 /\ Len(backlog') = Len(backlog) + 1
        /\ \A i \in 1..Len(backlog) : backlog'[i] = backlog[i]
        /\ backlog'[Len(backlog) + 1] = c /\ backlog' # <<>>
    <3>0. backlog \in Seq(Conn)
      BY <1>2
    <3>1. PICK b \in Seq(Conn) : b = Append(backlog, c)
      <4>1. Append(backlog, c) \in Seq(Conn)
        BY <3>0
      <4> QED BY <4>1
    <3>2. /\ Len(b) = Len(backlog) + 1 /\ b[Len(backlog) + 1] = c
          /\ \A i \in 1..Len(backlog) : b[i] = backlog[i]
      BY <3>0, <3>1
    <3>3. DOMAIN b = 1..Len(b) /\ b # <<>>
      <4>1. Len(b) # 0
        BY <2>0, <3>2
      <4> QED BY <3>1, <4>1
    <3> QED BY <1>1, <3>1, <3>2, <3>3
  <2>2. \A i \in DOMAIN backlog' : i \in DOMAIN backlog \/ i = Len(backlog) + 1
    BY <2>0, <2>1
  <2>3. \A i, j \in DOMAIN backlog' : backlog'[i] = backlog'[j] => i = j
    BY <1>3, <2>0, <2>1, <2>2 DEF Places
  <2>4. \A i \in DOMAIN backlog' : backlog'[i] # served'
    BY <1>2, <1>3, <2>0, <2>1, <2>2 DEF Places
  <2>5. Newest'
    BY <1>1, <2>0, <2>1 DEF Newest
  <2> QED BY <2>3, <2>4, <2>5 DEF Places
<1> QED BY <1>2, <1>5, <1>6, <1>7 DEF Outcome, OnTheirWay, Kept

\* What is on the connections, after a piece more is written.
LEMMA WrittenOrder ==
  ASSUME Typed, Places, Connected, conn \notin hungup, NEW p \in Piece,
         wire' = [wire EXCEPT ![conn] = Append(@, p)], UNCHANGED <<served, backlog>>
  PROVE  OnServed' \o Waiting' = (OnServed \o Waiting) \o Completes(p)
<1>1. /\ conn \in Conn /\ wire \in [Conn -> Seq(Piece)] /\ wire' \in [Conn -> Seq(Piece)]
      /\ backlog \in Seq(Conn) /\ served \in Conn \cup {NoConn} /\ NoConn \notin Conn
  BY Messages, Written DEF Typed, Connected
<1>2. wire'[conn] = Append(wire[conn], p) /\ \A d \in Conn : d # conn => wire'[d] = wire[d]
  BY <1>1
<1>3. Complete(wire'[conn]) = Complete(wire[conn]) \o Completes(p)
  <2>1. wire[conn] \in Seq(Piece)
    BY <1>1
  <2> QED BY <1>2, <2>1, CompleteAppended
<1>4. PICK x \in Seq(Message) : x = Complete(wire[conn])
  BY <1>1, WaitsTypes
<1>5. PICK y \in Seq(Message) : y = Completes(p)
  BY CompleteTypes, <1>1
<1>6. CASE backlog = <<>>
  <2>1. conn = served /\ served # NoConn
    BY <1>6 DEF Places, Newest, Connected
  <2>2. OnServed = x /\ OnServed' = x \o y
    BY <1>3, <1>4, <1>5, <2>1 DEF OnServed
  <2>3. Waiting = Waits(<<>>, wire) /\ Waiting' = Waits(<<>>, wire')
    BY <1>6 DEF Waiting, Waits
  <2>4. Waiting = <<>> /\ Waiting' = <<>>
    BY <2>3, WaitsEmpty
  <2>5. (x \o y) \o <<>> = (x \o <<>>) \o y
    OBVIOUS
  <2> QED BY <1>5, <2>2, <2>4, <2>5
<1>7. CASE backlog # <<>>
  <2>1. Len(backlog) \in Nat \ {0} /\ DOMAIN backlog = 1..Len(backlog)
    BY <1>1, <1>7
  <2>2. conn = backlog[Len(backlog)]
    BY <1>7 DEF Places, Newest
  <2>3. conn # served
    BY <2>1, <2>2 DEF Places
  <2>4. OnServed' = OnServed
    BY <1>1, <1>2, <2>3 DEF OnServed
  <2>5. PICK f \in Seq(Conn) : /\ Len(f) = Len(backlog) - 1 /\ DOMAIN f = 1..Len(f)
                               /\ \A i \in 1..Len(f) : f[i] = backlog[i]
    <3> DEFINE f == [i \in 1 .. Len(backlog) - 1 |-> backlog[i]]
    <3>1. f \in Seq(Conn) /\ Len(f) = Len(backlog) - 1
      BY <1>1, <2>1
    <3> QED BY <3>1
  <2>6. backlog = Append(f, conn)
    <3>1. PICK b \in Seq(Conn) : b = Append(f, conn)
      <4>1. Append(f, conn) \in Seq(Conn)
        BY <1>1
      <4> QED BY <4>1
    <3>2. /\ Len(b) = Len(f) + 1 /\ b[Len(f) + 1] = conn
          /\ \A i \in 1..Len(f) : b[i] = f[i]
      BY <3>1
    <3>3. Len(b) = Len(backlog) /\ b[Len(backlog)] = backlog[Len(backlog)]
      BY <2>1, <2>2, <2>5, <3>2
    <3>4. \A i \in 1..Len(backlog) : i \in 1..Len(f) \/ i = Len(backlog)
      <4>1. PICK l \in Nat : l = Len(backlog) /\ l # 0 /\ Len(f) = l - 1
        BY <2>1, <2>5
      <4>2. \A i \in 1..l : i \in 1 .. l - 1 \/ i = l
        BY <4>1
      <4> QED BY <4>1, <4>2
    <3>5. \A i \in 1..Len(backlog) : b[i] = backlog[i]
      BY <2>5, <3>2, <3>3, <3>4
    <3>6. \A q \in Seq(Conn) : q = [i \in 1..Len(q) |-> q[i]]
      OBVIOUS
    <3>7. backlog = [i \in 1..Len(backlog) |-> backlog[i]]
      BY <1>1, <3>6
    <3>8. b = [i \in 1..Len(backlog) |-> b[i]]
      BY <3>3, <3>6
    <3> QED BY <3>1, <3>5, <3>7, <3>8
  <2>7. \A i \in DOMAIN f : Complete(wire'[f[i]]) = Complete(wire[f[i]])
    <3> SUFFICES ASSUME NEW i \in DOMAIN f
                 PROVE  wire'[f[i]] = wire[f[i]]
      OBVIOUS
    <3>1. i \in DOMAIN backlog /\ Len(backlog) \in DOMAIN backlog /\ i # Len(backlog)
      BY <2>1, <2>5
    <3>2. backlog[i] # conn
      BY <2>2, <3>1 DEF Places
    <3>3. f[i] = backlog[i] /\ f[i] \in Conn
      BY <2>5
    <3> QED BY <1>2, <3>2, <3>3
  <2>8. Waits(f, wire') = Waits(f, wire)
    BY <2>7, WaitsSame
  <2>9. PICK z \in Seq(Message) : z = Waits(f, wire)
    BY <1>1, WaitsTypes
  <2>10. Waiting = Waits(Append(f, conn), wire) /\ Waiting' = Waits(Append(f, conn), wire')
    BY <2>6 DEF Waiting, Waits
  <2>11. Waiting = z \o x
    <3>1. Waits(Append(f, conn), wire) = Waits(f, wire) \o Complete(wire[conn])
      BY <1>1, WaitsAppended
    <3> QED BY <1>4, <2>9, <2>10, <3>1
  <2>12. Waiting' = z \o (x \o y)
    <3>1. Waits(Append(f, conn), wire') = Waits(f, wire') \o Complete(wire'[conn])
      BY <1>1, WaitsAppended
    <3> QED BY <1>3, <1>4, <1>5, <2>8, <2>9, <2>10, <3>1
  <2>13. PICK u \in Seq(Message) : u = OnServed
    BY WayTypes
  <2>14. u \o (z \o (x \o y)) = (u \o (z \o x)) \o y
    <3>1. (z \o x) \o y = z \o (x \o y)
      OBVIOUS
    <3>2. PICK v \in Seq(Message) : v = z \o x
      <4>1. z \o x \in Seq(Message)
        OBVIOUS
      <4> QED BY <4>1
    <3>3. (u \o v) \o y = u \o (v \o y)
      OBVIOUS
    <3> QED BY <3>1, <3>2, <3>3
  <2> QED BY <1>5, <2>4, <2>11, <2>12, <2>13, <2>14
<1> QED BY <1>6, <1>7

\* The message that is taken is the first of what is kept.
LEMMA TakenFirst ==
  ASSUME Typed, HasNext, queue' = IF unsent # NoMsg THEN queue ELSE Tail(queue)
  PROVE  /\ NextMsg \in Message /\ queue' \in Seq(Message)
         /\ Only(unsent) \o queue = <<NextMsg>> \o queue'
<1>1. queue \in Seq(Message) /\ unsent \in Message \cup {NoMsg}
  BY DEF Typed
<1>2. CASE unsent # NoMsg
  BY <1>1, <1>2 DEF NextMsg, Only
<1>3. CASE unsent = NoMsg
  <2>1. queue # <<>> /\ NextMsg = Head(queue) /\ queue' = Tail(queue) /\ Only(unsent) = <<>>
    BY <1>3 DEF HasNext, NextMsg, Only
  <2>2. Head(queue) \in Message /\ Tail(queue) \in Seq(Message)
    BY <1>1, <2>1
  <2>3. <<>> \o queue = <<Head(queue)>> \o Tail(queue)
    BY <1>1, <2>1
  <2> QED BY <2>1, <2>2, <2>3
<1> QED BY <1>2, <1>3

LEMMA WriteOrder ==
  ASSUME LinkInv, Places, WriteHead \/ WriteRest
  PROVE  Places' /\ Outcome
<1>1. Typed /\ Connected /\ conn \notin hungup
  BY DEF LinkInv, WriteHead, WriteRest, PeerClosed
<1>2. UNCHANGED <<served, backlog, conn, hungup>>
  BY DEF WriteHead, WriteRest, compVars
<1>3. Places'
  BY <1>2, PlacesStay
<1>4. PICK W \in Seq(Message) : W = OnServed \o Waiting
  BY <1>1, WayTypes
<1>5. CASE WriteHead
  <2>1. PICK m : m = NextMsg
    OBVIOUS
  <2>2. /\ writing = NoMsg /\ writing' = m /\ HasNext /\ unsent' = NoMsg
        /\ queue' = IF unsent # NoMsg THEN queue ELSE Tail(queue)
        /\ wire' = [wire EXCEPT ![conn] = Append(@, [msg |-> m, part |-> "head"])]
    BY <1>5, <2>1 DEF WriteHead, TakeNext, Wrote
  <2>3. m \in Message /\ queue' \in Seq(Message) /\ Only(unsent) \o queue = <<m>> \o queue'
    BY <1>1, <2>1, <2>2, TakenFirst
  <2>4. PICK p \in Piece : p = [msg |-> m, part |-> "head"]
    BY <2>3 DEF Piece
  <2>5. OnServed' \o Waiting' = W \o Completes(p)
    BY <1>1, <1>2, <1>4, <2>2, <2>4, WrittenOrder
  <2>6. Completes(p) = <<>>
    BY <2>4 DEF Completes
  <2>7. OnServed' \o Waiting' = W
    BY <1>4, <2>5, <2>6
  <2>8. Kept' = Kept
    <3>1. m # NoMsg
      BY <2>3, Messages
    <3>2. Only(writing) = <<>> /\ Only(writing') = <<m>> /\ Only(unsent') = <<>>
      BY <2>2, <3>1 DEF Only
    <3>3. Kept = (<<>> \o Only(unsent)) \o queue /\ Kept' = (<<m>> \o <<>>) \o queue'
      BY <3>2 DEF Kept
    <3>4. <<>> \o Only(unsent) = Only(unsent)
      BY <1>1, WayTypes
    <3>5. <<m>> \o <<>> = <<m>>
      BY <2>3
    <3> QED BY <2>3, <3>3, <3>4, <3>5
  <2> QED BY <1>3, <1>4, <2>7, <2>8 DEF Outcome, OnTheirWay
<1>6. CASE WriteRest
  <2>1. PICK m : m = writing
    OBVIOUS
  <2>2. /\ m # NoMsg /\ writing' = NoMsg /\ UNCHANGED <<unsent, queue>>
        /\ wire' = [wire EXCEPT ![conn] = Append(@, [msg |-> m, part |-> "rest"])]
    BY <1>6, <2>1 DEF WriteRest, Wrote
  <2>3. m \in Message /\ unsent = NoMsg
    BY <2>1, <2>2 DEF LinkInv, Typed, Streams
  <2>4. PICK p \in Piece : p = [msg |-> m, part |-> "rest"]
    BY <2>3 DEF Piece
  <2>5. OnServed' \o Waiting' = W \o Completes(p)
    BY <1>1, <1>2, <1>4, <2>2, <2>4, WrittenOrder
  <2>6. Completes(p) = <<m>>
    BY <2>4 DEF Completes
  <2>7. PICK q \in Seq(Message) : q = queue
    BY <1>1, WayTypes
  <2>8. Kept = <<m>> \o q /\ Kept' = q
    <3>1. Only(writing) = <<m>> /\ Only(writing') = <<>> /\ Only(unsent) = <<>> /\ Only(unsent') = <<>>
      BY <2>1, <2>2, <2>3 DEF Only
    <3>2. Kept = (<<m>> \o <<>>) \o q /\ Kept' = (<<>> \o <<>>) \o q
      BY <2>2, <2>7, <3>1 DEF Kept
    <3>3. (<<m>> \o <<>>) \o q = <<m>> \o q /\ (<<>> \o <<>>) \o q = q
      BY <2>3
    <3> QED BY <3>2, <3>3
  <2>9. OnTheirWay = W \o (<<m>> \o q) /\ OnTheirWay' = (W \o <<m>>) \o q
    BY <1>4, <2>5, <2>6, <2>8 DEF OnTheirWay
  <2>10. W \o (<<m>> \o q) = (W \o <<m>>) \o q
    BY <2>3
  <2> QED BY <1>3, <2>9, <2>10 DEF Outcome
<1> QED BY <1>5, <1>6

\* The message whose write failed is the first that is sent again.
LEMMA FailOrder ==
  ASSUME LinkInv, Places, WriteFails
  PROVE  Places' /\ Outcome
<1>1. Typed /\ conn' = NoConn /\ UNCHANGED <<served, backlog, wire>> /\ writing' = NoMsg
  BY DEF LinkInv, WriteFails, DropConnection, compVars
<1>2. Places'
  BY <1>1, PlacesStay
<1>3. Kept' = Kept
  <2>1. CASE writing # NoMsg
    <3>1. unsent = NoMsg /\ writing \in Message
      BY <2>1 DEF LinkInv, Streams, Typed
    <3>2. unsent' = writing /\ queue' = queue
      BY <2>1 DEF WriteFails
    <3>3. /\ Only(writing) = <<writing>> /\ Only(unsent) = <<>>
          /\ Only(writing') = <<>> /\ Only(unsent') = <<writing>>
      BY <1>1, <2>1, <3>1, <3>2 DEF Only
    <3>4. <<writing>> \o <<>> = <<>> \o <<writing>>
      BY <3>1
    <3> QED BY <3>2, <3>3, <3>4 DEF Kept
  <2>2. CASE writing = NoMsg
    <3>1. PICK m : m = NextMsg
      OBVIOUS
    <3>2. HasNext /\ unsent' = m /\ queue' = IF unsent # NoMsg THEN queue ELSE Tail(queue)
      BY <2>2, <3>1 DEF WriteFails
    <3>3. m \in Message /\ queue' \in Seq(Message) /\ Only(unsent) \o queue = <<m>> \o queue'
      BY <1>1, <3>1, <3>2, TakenFirst
    <3>4. m # NoMsg
      BY <3>3, Messages
    <3>5. Only(writing) = <<>> /\ Only(writing') = <<>> /\ Only(unsent') = <<m>>
      BY <1>1, <2>2, <3>2, <3>4 DEF Only
    <3>6. Kept = (<<>> \o Only(unsent)) \o queue /\ Kept' = (<<>> \o <<m>>) \o queue'
      BY <3>5 DEF Kept
    <3>7. <<>> \o Only(unsent) = Only(unsent) /\ <<>> \o <<m>> = <<m>>
      BY <1>1, <3>3, WayTypes
    <3> QED BY <3>3, <3>6, <3>7
  <2> QED BY <2>1, <2>2
<1>4. OnServed' = OnServed /\ Waiting' = Waiting
  BY <1>1, WiredStays
<1> QED BY <1>2, <1>3, <1>4 DEF Outcome, OnTheirWay

\* weft-appd ends with all that it kept.
LEMMA RestartOrder ==
  ASSUME LinkInv, Places, AppdRestarts
  PROVE  Places' /\ Outcome
<1>1. /\ Typed /\ conn' = NoConn /\ UNCHANGED <<served, backlog, wire>>
      /\ queue' = <<>> /\ unsent' = NoMsg /\ writing' = NoMsg
  BY DEF LinkInv, AppdRestarts, DropConnection, compVars, Connected
<1>2. Places'
  BY <1>1, PlacesStay
<1>3. Kept' = <<>>
  <2>1. Only(writing') = <<>> /\ Only(unsent') = <<>> /\ queue' = <<>>
    BY <1>1 DEF Only
  <2>2. (<<>> \o <<>>) \o <<>> = <<>>
    OBVIOUS
  <2> QED BY <2>1, <2>2 DEF Kept
<1>4. PICK W \in Seq(Message) : W = OnServed \o Waiting
  BY <1>1, WayTypes
<1>5. PICK k \in Seq(Message) : k = Kept
  BY <1>1, WayTypes
<1>6. OnServed' = OnServed /\ Waiting' = Waiting
  BY <1>1, WiredStays
<1>7. PICK e \in Seq(Message) : e = <<>>
  <2>1. <<>> \in Seq(Message)
    OBVIOUS
  <2> QED BY <2>1
<1>8. OnTheirWay = W \o k /\ OnTheirWay' = W \o e
  BY <1>3, <1>4, <1>5, <1>6, <1>7 DEF OnTheirWay
<1>9. (W \o k) \o e = W \o k
  BY <1>7
<1> QED BY <1>2, <1>8, <1>9, Loses

\* What is left of the backlog without its first connection.
LEMMA TailPlaces ==
  ASSUME Typed, Places, backlog # <<>>, backlog' = Tail(backlog)
  PROVE  /\ Head(backlog) \in Conn /\ Head(backlog) # served /\ backlog' \in Seq(Conn)
         /\ \A i, j \in DOMAIN backlog' : backlog'[i] = backlog'[j] => i = j
         /\ \A i \in DOMAIN backlog' :
              backlog'[i] \in Conn /\ backlog'[i] # Head(backlog) /\ backlog'[i] # served
         /\ IF backlog' = <<>> THEN backlog[Len(backlog)] = Head(backlog)
            ELSE backlog'[Len(backlog')] = backlog[Len(backlog)]
         /\ Waiting = Complete(wire[Head(backlog)]) \o Waits(backlog', wire)
<1>0. backlog \in Seq(Conn)
  BY DEF Typed
<1>1. PICK l \in Nat : l = Len(backlog) /\ l # 0
  BY <1>0
<1>2. PICK b \in Seq(Conn) : b = Tail(backlog)
  <2>1. Tail(backlog) \in Seq(Conn)
    BY <1>0
  <2> QED BY <2>1
<1>3. /\ DOMAIN backlog = 1..l /\ DOMAIN b = 1 .. l - 1 /\ Len(b) = l - 1
      /\ \A i \in 1 .. l - 1 : b[i] = backlog[i + 1]
      /\ Head(backlog) = backlog[1] /\ Head(backlog) \in Conn
  BY <1>0, <1>1, <1>2
<1>4. \A i \in 1 .. l - 1 : i + 1 \in 1..l /\ i + 1 # 1
  BY <1>1
<1>5. 1 \in 1..l /\ \A i, j \in 1 .. l - 1 : i + 1 = j + 1 => i = j
  BY <1>1
<1>6. Head(backlog) # served
  BY <1>3, <1>5 DEF Places
<1>7. ASSUME NEW i \in DOMAIN b, NEW j \in DOMAIN b, b[i] = b[j]
      PROVE  i = j
  <2>1. backlog[i + 1] = backlog[j + 1] /\ i + 1 \in DOMAIN backlog /\ j + 1 \in DOMAIN backlog
    BY <1>3, <1>4, <1>7
  <2>2. i + 1 = j + 1
    BY <2>1 DEF Places
  <2> QED BY <1>3, <1>5, <2>2
<1>8. ASSUME NEW i \in DOMAIN b
      PROVE  b[i] \in Conn /\ b[i] # Head(backlog) /\ b[i] # served
  <2>1. b[i] = backlog[i + 1] /\ i + 1 \in DOMAIN backlog /\ 1 \in DOMAIN backlog /\ i + 1 # 1
    BY <1>3, <1>4, <1>5
  <2>2. backlog[i + 1] # backlog[1] /\ backlog[i + 1] # served
    BY <2>1 DEF Places
  <2>3. b[i] \in Conn
    BY <1>2
  <2> QED BY <1>3, <2>1, <2>2, <2>3
<1>9. IF b = <<>> THEN backlog[l] = backlog[1] ELSE b[Len(b)] = backlog[l]
  <2>1. CASE b = <<>>
    <3>1. l - 1 = 0
      BY <1>3, <2>1
    <3>2. l = 1
      <4>1. \A n \in Nat : n - 1 = 0 => n = 1
        OBVIOUS
      <4> QED BY <3>1, <4>1
    <3> QED BY <2>1, <3>2
  <2>2. CASE b # <<>>
    <3>1. l - 1 # 0
      BY <1>2, <1>3, <2>2
    <3>2. l - 1 \in 1 .. l - 1 /\ (l - 1) + 1 = l
      BY <1>1, <3>1
    <3> QED BY <1>3, <2>2, <3>2
  <2> QED BY <2>1, <2>2
<1>10. Waiting = Complete(wire[Head(backlog)]) \o Waits(b, wire)
  <2>1. Waits(backlog, wire) = Complete(wire[Head(backlog)]) \o Waits(Tail(backlog), wire)
    BY <1>0, WaitsFirst DEF Typed
  <2> QED BY <1>2, <2>1, WayTypes
<1>11. IF b = <<>> THEN backlog[Len(backlog)] = Head(backlog) ELSE b[Len(b)] = backlog[Len(backlog)]
  BY <1>1, <1>3, <1>9
<1> QED BY <1>2, <1>3, <1>6, <1>7, <1>8, <1>10, <1>11

\* weft-appd's connection is not the one the compositor closes.
LEMMA NotHungUp ==
  ASSUME Sockets, NEW c, HangUp(c), conn \notin hungup'
  PROVE  conn # c /\ conn \notin hungup
BY DEF Sockets, HangUp

LEMMA AcceptOrder ==
  ASSUME LinkInv, Places, Accept
  PROVE  Places' /\ Outcome
<1>1. /\ Typed /\ Sockets /\ backlog # <<>> /\ backlog' = Tail(backlog)
      /\ UNCHANGED <<conn, writing, unsent, queue>>
      /\ wire \in [Conn -> Seq(Piece)] /\ NoConn \notin Conn
  BY Messages DEF LinkInv, Accept, appdVars, Typed
<1>2. PICK c \in Conn : c = Head(backlog)
  BY <1>1, TailPlaces
<1>3. /\ c # served /\ backlog' \in Seq(Conn)
      /\ \A i, j \in DOMAIN backlog' : backlog'[i] = backlog'[j] => i = j
      /\ \A i \in DOMAIN backlog' : backlog'[i] \in Conn /\ backlog'[i] # c /\ backlog'[i] # served
      /\ IF backlog' = <<>> THEN backlog[Len(backlog)] = c
         ELSE backlog'[Len(backlog')] = backlog[Len(backlog)]
      /\ Waiting = Complete(wire[c]) \o Waits(backlog', wire)
  BY <1>1, <1>2, TailPlaces
<1>4. Kept' = Kept
  BY <1>1 DEF Kept
<1>5. PICK x \in Seq(Message) : x = Complete(wire[c])
  <2>1. wire[c] \in Seq(Piece)
    BY <1>1
  <2> QED BY <2>1, CompleteTypes
<1>6. PICK z \in Seq(Message) : z = Waits(backlog', wire)
  BY <1>1, <1>3, WaitsTypes
<1>7. PICK u \in Seq(Message) : u = OnServed
  BY <1>1, WayTypes
<1>8. PICK k \in Seq(Message) : k = Kept
  BY <1>1, WayTypes
<1>9. OnTheirWay = (u \o (x \o z)) \o k
  BY <1>3, <1>5, <1>6, <1>7, <1>8 DEF OnTheirWay
<1>10. CASE served # NoConn
  <2>1. served' = served /\ HangUp(c) /\ wire' = [wire EXCEPT ![c] = <<>>]
    BY <1>2, <1>10 DEF Accept
  <2>2. \A d \in Conn : d # c => wire'[d] = wire[d]
    BY <1>1, <2>1
  <2>3. served \in Conn
    BY <1>1, <1>10 DEF Typed
  <2>4. OnServed' = u
    BY <1>3, <1>7, <2>1, <2>2, <2>3 DEF OnServed
  <2>5. Waiting' = z
    <3>1. \A i \in DOMAIN backlog' : Complete(wire'[backlog'[i]]) = Complete(wire[backlog'[i]])
      BY <1>3, <2>2
    <3>2. Waits(backlog', wire') = Waits(backlog', wire)
      BY <3>1, WaitsSame
    <3> QED BY <1>6, <3>2 DEF Waiting, Waits
  <2>6. PICK y \in Seq(Message) : y = z \o k
    <3>1. z \o k \in Seq(Message)
      OBVIOUS
    <3> QED BY <3>1
  <2>7. PICK v \in Seq(Message) : v = u \o x
    <3>1. u \o x \in Seq(Message)
      OBVIOUS
    <3> QED BY <3>1
  <2>8. OnTheirWay' = u \o y
    <3>1. OnTheirWay' = (u \o z) \o k
      BY <1>4, <1>8, <2>4, <2>5 DEF OnTheirWay
    <3>2. (u \o z) \o k = u \o (z \o k)
      OBVIOUS
    <3> QED BY <2>6, <3>1, <3>2
  <2>9. OnTheirWay = (u \o x) \o y
    <3>1. u \o (x \o z) = (u \o x) \o z
      OBVIOUS
    <3>2. (v \o z) \o k = v \o (z \o k)
      OBVIOUS
    <3> QED BY <1>9, <2>6, <2>7, <3>1, <3>2
  <2>10. Outcome
    BY <2>8, <2>9, Loses
  <2>11. Newest'
    <3> SUFFICES ASSUME Connected', conn' \notin hungup'
                 PROVE  IF backlog' = <<>> THEN conn' = served' ELSE conn' = backlog'[Len(backlog')]
      BY DEF Newest
    <3>1. conn # c /\ conn \notin hungup /\ Connected
      BY <1>1, <2>1, NotHungUp DEF Connected
    <3>2. conn = backlog[Len(backlog)]
      BY <1>1, <3>1 DEF Places, Newest
    <3> QED BY <1>1, <1>3, <3>1, <3>2
  <2> QED BY <1>3, <2>1, <2>10, <2>11 DEF Places
<1>11. CASE served = NoConn
  <2>1. served' = c /\ UNCHANGED <<hungup, wire>>
    BY <1>2, <1>11 DEF Accept
  <2>2. u = <<>> /\ OnServed' = x
    BY <1>1, <1>5, <1>7, <1>11, <2>1 DEF OnServed
  <2>3. Waiting' = z
    BY <1>6, <2>1 DEF Waiting, Waits
  <2>4. OnTheirWay' = (x \o z) \o k
    BY <1>4, <1>8, <2>2, <2>3 DEF OnTheirWay
  <2>5. u \o (x \o z) = x \o z
    <3>1. \A q \in Seq(Message) : <<>> \o q = q
      OBVIOUS
    <3>2. x \o z \in Seq(Message)
      OBVIOUS
    <3> QED BY <2>2, <3>1, <3>2
  <2>6. Newest'
    <3> SUFFICES ASSUME Connected', conn' \notin hungup'
                 PROVE  IF backlog' = <<>> THEN conn' = served' ELSE conn' = backlog'[Len(backlog')]
      BY DEF Newest
    <3>1. conn = backlog[Len(backlog)]
      BY <1>1, <2>1 DEF Places, Newest, Connected
    <3> QED BY <1>1, <1>3, <2>1, <3>1
  <2>7. Places'
    BY <1>3, <2>1, <2>6 DEF Places
  <2> QED BY <1>9, <2>4, <2>5, <2>7 DEF Outcome
<1> QED BY <1>10, <1>11

\* Something else is left on the connection that is read.
LEMMA ReadWaits ==
  ASSUME Typed, Places, served # NoConn, NEW ps \in Seq(Piece),
         wire' = [wire EXCEPT ![served] = ps], UNCHANGED backlog
  PROVE  Waiting' = Waiting /\ wire'[served] = ps /\ wire[served] \in Seq(Piece)
<1>1. served \in Conn /\ wire \in [Conn -> Seq(Piece)] /\ backlog \in Seq(Conn)
  BY DEF Typed
<1>2. wire'[served] = ps /\ \A d \in Conn : d # served => wire'[d] = wire[d]
  BY <1>1
<1>3. \A i \in DOMAIN backlog : backlog[i] \in Conn /\ backlog[i] # served
  <2>1. \A i \in DOMAIN backlog : backlog[i] \in Conn
    BY <1>1
  <2> QED BY <2>1 DEF Places
<1>4. \A i \in DOMAIN backlog : Complete(wire'[backlog[i]]) = Complete(wire[backlog[i]])
  BY <1>2, <1>3
<1>5. Waits(backlog, wire') = Waits(backlog, wire)
  BY <1>4, WaitsSame
<1>6. Waiting' = Waits(backlog, wire')
  BY DEF Waiting, Waits
<1>7. Waiting = Waits(backlog, wire)
  BY WayTypes
<1> QED BY <1>1, <1>2, <1>5, <1>6, <1>7

\* A piece is read: nothing changes, or the first message is handled.
LEMMA ReadOrder ==
  ASSUME LinkInv, Places, ReadHead \/ ReadRest
  PROVE  Places' /\ Outcome
<1>1. /\ Typed /\ served # NoConn /\ wire[served] # <<>>
      /\ wire' = [wire EXCEPT ![served] = Tail(@)]
      /\ UNCHANGED <<served, backlog, conn, hungup, writing, unsent, queue>>
  BY DEF LinkInv, ReadHead, ReadRest, appdVars
<1>2. Places'
  BY <1>1, PlacesStay
<1>3. served \in Conn /\ wire \in [Conn -> Seq(Piece)]
  BY <1>1 DEF Typed
<1>4. PICK ps \in Seq(Piece) : ps = Tail(wire[served])
  <2>1. wire[served] \in Seq(Piece)
    BY <1>3
  <2>2. Tail(wire[served]) \in Seq(Piece)
    BY <1>1, <2>1
  <2> QED BY <2>2
<1>5. wire' = [wire EXCEPT ![served] = ps]
  BY <1>1, <1>4
<1>6. Waiting' = Waiting /\ wire'[served] = ps /\ wire[served] \in Seq(Piece)
  BY <1>1, <1>5, ReadWaits
<1>7. PICK x \in Seq(Message) : x = Completes(Head(wire[served]))
  <2>1. Head(wire[served]) \in Piece
    BY <1>1, <1>6
  <2> QED BY <1>6, <2>1, CompleteTypes
<1>8. PICK z \in Seq(Message) : z = Complete(ps)
  BY CompleteTypes
<1>9. OnServed = x \o z /\ OnServed' = z
  <2>1. Complete(wire[served]) = Completes(Head(wire[served])) \o Complete(Tail(wire[served]))
    BY <1>1, <1>6, CompleteFirst
  <2>2. OnServed = x \o z
    BY <1>1, <1>4, <1>7, <1>8, <2>1 DEF OnServed
  <2>3. OnServed' = z
    BY <1>1, <1>6, <1>8 DEF OnServed
  <2> QED BY <2>2, <2>3
<1>10. PICK w \in Seq(Message) : w = Waiting
  BY <1>1, WayTypes
<1>11. PICK k \in Seq(Message) : k = Kept
  BY <1>1, WayTypes
<1>12. Kept' = k
  BY <1>1, <1>11 DEF Kept
<1>13. PICK c \in Seq(Message) : c = (z \o w) \o k
  <2>1. (z \o w) \o k \in Seq(Message)
    OBVIOUS
  <2> QED BY <2>1
<1>14. OnTheirWay = ((x \o z) \o w) \o k /\ OnTheirWay' = c
  BY <1>6, <1>9, <1>10, <1>11, <1>12, <1>13 DEF OnTheirWay
<1>15. PICK e \in Seq(Message) : e = <<>>
  <2>1. <<>> \in Seq(Message)
    OBVIOUS
  <2> QED BY <2>1
<1>16. ((x \o z) \o w) \o k = x \o c
  <2>1. (x \o z) \o w = x \o (z \o w)
    OBVIOUS
  <2>2. PICK v \in Seq(Message) : v = z \o w
    <3>1. z \o w \in Seq(Message)
      OBVIOUS
    <3> QED BY <3>1
  <2>3. (x \o v) \o k = x \o (v \o k)
    OBVIOUS
  <2> QED BY <1>13, <2>1, <2>2, <2>3
<1>17. e \o x = x /\ e \o c = c
  BY <1>15
<1>18. OnTheirWay = (e \o x) \o c /\ OnTheirWay' = e \o c
  BY <1>14, <1>16, <1>17
<1> QED BY <1>2, <1>18, Loses

\* The connection that was read is closed.
LEMMA DisconnectOrder ==
  ASSUME LinkInv, Places, Disconnect
  PROVE  Places' /\ Outcome
<1>1. /\ Typed /\ Sockets /\ served # NoConn /\ served' = NoConn /\ HangUp(served)
      /\ wire' = [wire EXCEPT ![served] = <<>>]
      /\ UNCHANGED <<backlog, conn, writing, unsent, queue>>
  BY DEF LinkInv, Disconnect, appdVars
<1>2. PICK e \in Seq(Message) : e = <<>>
  <2>1. <<>> \in Seq(Message)
    OBVIOUS
  <2> QED BY <2>1
<1>3. Waiting' = Waiting
  <2>1. <<>> \in Seq(Piece)
    OBVIOUS
  <2> QED BY <1>1, <2>1, ReadWaits
<1>4. PICK u \in Seq(Message) : u = OnServed
  BY <1>1, WayTypes
<1>5. PICK w \in Seq(Message) : w = Waiting
  BY <1>1, WayTypes
<1>6. PICK k \in Seq(Message) : k = Kept
  BY <1>1, WayTypes
<1>7. Kept' = k /\ OnServed' = e
  BY <1>1, <1>2, <1>6 DEF Kept, OnServed
<1>8. PICK c \in Seq(Message) : c = w \o k
  <2>1. w \o k \in Seq(Message)
    OBVIOUS
  <2> QED BY <2>1
<1>9. (e \o u) \o c = (u \o w) \o k
  <2>1. e \o u = u /\ (u \o w) \o k = u \o (w \o k)
    BY <1>2
  <2> QED BY <1>8, <2>1
<1>10. e \o c = (e \o w) \o k
  BY <1>2, <1>8
<1>11. OnTheirWay = (e \o u) \o c /\ OnTheirWay' = e \o c
  BY <1>3, <1>4, <1>5, <1>6, <1>7, <1>9, <1>10 DEF OnTheirWay
<1>12. Outcome
  BY <1>11, Loses
<1>13. Newest'
  <2> SUFFICES ASSUME Connected', conn' \notin hungup'
               PROVE  IF backlog' = <<>> THEN conn' = served' ELSE conn' = backlog'[Len(backlog')]
    BY DEF Newest
  <2>1. conn # served /\ conn \notin hungup /\ Connected
    BY <1>1, NotHungUp DEF Connected
  <2> QED BY <1>1, <2>1 DEF Places, Newest
<1>14. \A i \in DOMAIN backlog : backlog[i] # NoConn
  BY <1>1, Messages DEF Typed
<1>15. Places'
  BY <1>1, <1>13, <1>14 DEF Places
<1> QED BY <1>12, <1>15

\* The compositor ends, and with it the connections.
LEMMA CompositorOrder ==
  ASSUME LinkInv, Places, CompositorRestarts
  PROVE  Places' /\ Outcome
<1>1. /\ Typed /\ served' = NoConn /\ backlog' = <<>>
      /\ hungup' = IF Connected THEN {conn} ELSE {}
      /\ UNCHANGED <<conn, writing, unsent, queue>>
  BY DEF LinkInv, CompositorRestarts, appdVars
<1>2. PICK e \in Seq(Message) : e = <<>>
  <2>1. <<>> \in Seq(Message)
    OBVIOUS
  <2> QED BY <2>1
<1>3. OnServed' = e /\ Waiting' = e /\ Kept' = Kept
  <2>1. Waiting' = Waits(<<>>, wire')
    BY <1>1 DEF Waiting, Waits
  <2>2. Waiting' = e
    BY <1>2, <2>1, WaitsEmpty
  <2> QED BY <1>1, <1>2, <2>2 DEF OnServed, Kept
<1>4. PICK W \in Seq(Message) : W = OnServed \o Waiting
  BY <1>1, WayTypes
<1>5. PICK k \in Seq(Message) : k = Kept
  BY <1>1, WayTypes
<1>6. e \o W = W /\ e \o e = e
  BY <1>2
<1>7. OnTheirWay = (e \o W) \o k /\ OnTheirWay' = e \o k
  BY <1>3, <1>4, <1>5, <1>6 DEF OnTheirWay
<1>8. Places'
  BY <1>1 DEF Places, Newest, Connected
<1> QED BY <1>7, <1>8, Loses

\* What touches neither the sockets nor what weft-appd keeps.
LEMMA QuietOrder ==
  ASSUME Places,
         \/ ReaderEnds \/ RetryFlush
         \/ \E t \in Token : ClientGone(t) \/ HandleReport(t) \/ SurfaceCreated(t)
         \/ UNCHANGED vars
  PROVE  Places' /\ Outcome
<1>1. UNCHANGED <<served, wire, backlog, writing, unsent, queue>>
  BY DEF ReaderEnds, RetryFlush, ClientGone, HandleReport, SurfaceCreated, vars, appdVars, sockVars,
         compVars
<1>2. conn' = NoConn \/ (conn' = conn /\ hungup \subseteq hungup')
  BY DEF ReaderEnds, RetryFlush, ClientGone, HandleReport, SurfaceCreated, vars, appdVars, sockVars,
         DropConnection
<1> QED BY <1>1, <1>2, RestingOrder

\* Every step keeps the order.
LEMMA StepOrder ==
  ASSUME LinkInv, Places, [Next]_vars
  PROVE  Places' /\ Outcome
<1>1. CASE Sessions
  BY <1>1, SessionsOrder
<1>2. CASE ClientTask \/ WriteFails
  BY <1>2, ConnectOrder, WriteOrder, FailOrder, QuietOrder DEF ClientTask
<1>3. CASE Accept
  BY <1>3, AcceptOrder
<1>4. CASE Sources \/ \E t \in Token : SurfaceCreated(t)
  BY <1>4, ReadOrder, DisconnectOrder, QuietOrder DEF Sources
<1>5. CASE AppdRestarts \/ CompositorRestarts
  BY <1>5, RestartOrder, CompositorOrder
<1>6. CASE UNCHANGED vars
  BY <1>6, QuietOrder
<1> QED BY <1>1, <1>2, <1>3, <1>4, <1>5, <1>6 DEF Next

-----------------------------------------------------------------------------
(***************************************************************************)
(* A message that is queued is not on its way already.                     *)
(***************************************************************************)
\* Requests, sessions and weft-appd's processes only go on.
LEMMA OldStays ==
  ASSUME LinkInv, [Next]_vars, NEW m \in Message, Old(m)
  PROVE  Old(m)'
<1>1. /\ life \in Nat /\ work \in Nat /\ m.life \in Nat
      /\ app \in [Sid -> {"idle", "checked", "open", "ended"}]
      /\ m.kind \in {"attach", "destroyed"} => m.sid \in Sid
      /\ m.kind = "ask" => m.n \in Nat
  <2>1. life \in Life /\ m.life \in Life /\ Life \subseteq Nat
    BY Messages DEF LinkInv, Typed, Life
  <2>2. m.kind = "ask" => m.n \in Nat
    BY DEF Message
  <2> QED BY <2>1, <2>2, Messages DEF LinkInv, Typed
<1>2. ASSUME UNCHANGED <<life, app>>, work' = work \/ work' = work + 1
      PROVE  Old(m)'
  BY <1>1, <1>2 DEF Old
<1>3. ASSUME NEW s \in Sid, CheckConnected(s)
      PROVE  Old(m)'
  <2>1. /\ app[s] = "idle" /\ app' = [app EXCEPT ![s] = "checked"] /\ UNCHANGED life
        /\ work' = work + 1
    BY <1>3 DEF CheckConnected
  <2>2. \A t \in Sid : app[t] \notin {"idle", "checked"} => app'[t] = app[t]
    BY <1>1, <2>1
  <2> QED BY <1>1, <2>1, <2>2 DEF Old
<1>4. ASSUME NEW s \in Sid, AttachClient(s) \/ Settle(s)
      PROVE  Old(m)'
  <2>1. PICK v \in {"open", "ended"} :
          app' = [app EXCEPT ![s] = v] /\ app[s] \in {"checked", "open"} /\ UNCHANGED <<life, work>>
    BY <1>4 DEF AttachClient, Settle
  <2>2. \A t \in Sid : /\ app[t] \notin {"idle", "checked"} => app'[t] \notin {"idle", "checked"}
                       /\ app[t] = "ended" => app'[t] = "ended"
    BY <1>1, <2>1
  <2> QED BY <1>1, <2>1, <2>2 DEF Old
<1>5. CASE AppdRestarts
  <2>1. life' = life + 1 /\ UNCHANGED work
    BY <1>5 DEF AppdRestarts
  <2>2. m.life <= life' /\ m.life # life'
    BY <1>1, <2>1 DEF Old
  <2> QED BY <2>1, <2>2 DEF Old
<1>6. CASE UNCHANGED appdVars
  BY <1>2, <1>6 DEF appdVars
<1>7. CASE \E t \in Token : AppExits(t)
  BY <1>2, <1>7 DEF AppExits
<1>8. CASE Ask
  BY <1>2, <1>8 DEF Ask
<1>9. CASE ClientTask \/ WriteFails
  BY <1>2, <1>9 DEF ClientTask, Connect, WriteHead, WriteRest, ReaderEnds, WriteFails
<1>10. CASE Accept \/ Sources \/ CompositorRestarts \/ UNCHANGED vars
  BY <1>6, <1>10
     DEF Accept, Sources, ReadHead, ReadRest, Disconnect, RetryFlush, ClientGone, HandleReport,
         CompositorRestarts, vars
<1>11. CASE \E t \in Token : SurfaceCreated(t)
  BY <1>6, <1>11 DEF SurfaceCreated
<1> QED BY <1>3, <1>4, <1>5, <1>7, <1>8, <1>9, <1>10, <1>11 DEF Next, Sessions

WayTyped == OnTheirWay \in Seq(Message)

LEMMA WaysAreTyped == Typed => WayTyped
BY WayTypes DEF WayTyped

LEMMA FifoStep == LinkInv /\ FifoInv /\ [Next]_vars => FifoInv' /\ [Fifo!Next]_OnTheirWay
<1> SUFFICES ASSUME LinkInv, FifoInv, [Next]_vars
             PROVE  FifoInv' /\ [Fifo!Next]_OnTheirWay
  OBVIOUS
<1>1. Places /\ AllOld /\ Places' /\ Outcome
  BY StepOrder DEF FifoInv
<1>2. PICK p \in Seq(Message) : p = OnTheirWay
  BY WayTypes DEF LinkInv
<1>3. PICK q \in Seq(Message) : q = OnTheirWay'
  <2>1. LinkInv'
    BY StepKeepsLink
  <2>2. Typed'
    BY <2>1 DEF LinkInv
  <2>3. OnTheirWay' \in Seq(Message)
    <3>1. WayTyped'
      BY <2>2, WaysAreTyped, PTL
    <3> QED BY <3>1 DEF WayTyped
  <2> QED BY <2>3
<1>4. \A i \in DOMAIN p : p[i] \in Message /\ Old(p[i])
  BY <1>1, <1>2 DEF AllOld
<1>5. \A i \in DOMAIN p : Old(p[i])'
  <2> SUFFICES ASSUME NEW i \in DOMAIN p
               PROVE  Old(p[i])'
    OBVIOUS
  <2>1. PICK m \in Message : m = p[i]
    BY <1>4
  <2>2. Old(m)'
    BY <1>4, <2>1, OldStays
  <2> QED BY <2>1, <2>2
<1>6. (\A i \in DOMAIN q : Old(q[i])') => AllOld'
  BY <1>3 DEF AllOld
<1>7. CASE q = p
  BY <1>1, <1>2, <1>3, <1>5, <1>6, <1>7 DEF FifoInv
<1>8. CASE Fifo!Leave(p, q)
  <2>1. PICK place \in [DOMAIN q -> DOMAIN p] : \A i \in DOMAIN q : q[i] = p[place[i]]
    BY <1>8 DEF Fifo!Leave
  <2>2. \A i \in DOMAIN q : Old(q[i])'
    BY <1>5, <2>1
  <2> QED BY <1>1, <1>2, <1>3, <1>6, <1>8, <2>2 DEF FifoInv, Fifo!Next
<1>9. CASE Queues
  <2>1. PICK m \in Message : ~Old(m) /\ Old(m)' /\ q = Append(p, m)
    BY <1>2, <1>3, <1>9 DEF Queues
  <2>2. /\ Len(q) = Len(p) + 1 /\ Len(p) \in Nat /\ DOMAIN p = 1..Len(p) /\ DOMAIN q = 1..Len(q)
        /\ \A i \in 1..Len(p) : q[i] = p[i]
        /\ q[Len(q)] = m
    BY <2>1
  <2>3. \A i \in 1 .. Len(p) + 1 : i \in 1..Len(p) \/ i = Len(p) + 1
    BY <2>2
  <2>4. \A i \in DOMAIN q : Old(q[i])'
    BY <1>5, <2>1, <2>2, <2>3
  <2>5. \A i \in DOMAIN p : q[i] # q[Len(q)]
    BY <1>4, <2>1, <2>2
  <2>6. Fifo!Put(p, q)
    BY <2>2, <2>5 DEF Fifo!Put
  <2> QED BY <1>1, <1>2, <1>3, <1>6, <2>4, <2>6 DEF FifoInv, Fifo!Next
<1> QED BY <1>1, <1>2, <1>3, <1>7, <1>8, <1>9 DEF Outcome

LEMMA FifoBegins == Init => FifoInv /\ Fifo!Init
<1> SUFFICES ASSUME Init
             PROVE  FifoInv /\ Fifo!Init
  OBVIOUS
<1>1. /\ queue = <<>> /\ unsent = NoMsg /\ writing = NoMsg /\ conn = NoConn /\ backlog = <<>>
      /\ served = NoConn
  BY DEF Init
<1>2. OnServed = <<>> /\ Kept = (<<>> \o <<>>) \o <<>>
  BY <1>1 DEF OnServed, Kept, Only
<1>3. Waiting = <<>>
  <2>1. Waiting = Waits(<<>>, wire)
    BY <1>1 DEF Waiting, Waits
  <2> QED BY <2>1, WaitsEmpty
<1>4. OnTheirWay = <<>>
  <2>1. (<<>> \o <<>>) \o ((<<>> \o <<>>) \o <<>>) = <<>>
    OBVIOUS
  <2> QED BY <1>2, <1>3, <2>1 DEF OnTheirWay
<1>5. Places
  BY <1>1 DEF Places, Newest, Connected
<1> QED BY <1>4, <1>5 DEF FifoInv, AllOld, Fifo!Init

\* Whatever connections are refused, lost or made again, and whichever side is
\* started again, what is queued for the compositor is handled in its order
\* and no message twice: the connection implements LossyFifo.
THEOREM OrderIsKept == Spec => OrderKept
<1>1. Init => LinkInv /\ FifoInv /\ Fifo!Init
  BY InitLink, FifoBegins
<1>2. LinkInv /\ FifoInv /\ [Next]_vars => LinkInv' /\ FifoInv' /\ [Fifo!Next]_OnTheirWay
  BY StepKeepsLink, FifoStep
<1> QED BY <1>1, <1>2, PTL DEF Spec, OrderKept, Fifo!Spec
=============================================================================
