------------------------------ MODULE AppShell ------------------------------
(***************************************************************************)
(* The event loop of weft-app-shell (embedder.rs): when it reports its     *)
(* session ready, and how a request to close its window is answered under  *)
(* the page's close policy, by weft-appd through the compositor or by the  *)
(* user.  weft-appd's supervisor waits for that answer (runtime.rs,        *)
(* close), and learns of a declined close from a line of the app shell's   *)
(* output, which another task reads.                                       *)
(*                                                                         *)
(* The compositor sends no window_closed event to an app shell, so that    *)
(* way of ending is left out.                                              *)
(***************************************************************************)
EXTENDS Naturals, Sequences

CONSTANT MaxPending  \* bound: requests and reports waiting at any one place

VARIABLES
  \* weft-appd
  supervisor,  \* where the session's supervisor is
  cancelled,   \* whether the channel of close reports holds one; it has room for one
  \* on the way
  orders,      \* requests for the compositor, the oldest first
  lost,        \* whether the compositor connection took the close request with it
  closes,      \* close events on their way to the window
  stdout,      \* lines of the app shell not read yet, the oldest first
  \* weft-app-shell
  shell,       \* "new", "shown" (it has a webview) or "exited"
  asks,        \* ask_before_close
  deadline,    \* close_deadline: "none", "set" or "due"
  answer,      \* close_answer: "pending", "close" or "cancel"
  pageClosed,  \* page_closed
  frame,       \* content, redraw and settled, the rest of FrameSignals
  presenting,  \* whether a RedrawRequested event is due
  ready,       \* ready_signalled
  stale        \* history: the latest frame was not presented

appd == <<supervisor, cancelled>>
page == <<answer, pageClosed, frame>>
app == <<shell, asks, deadline, presenting, ready, stale>>
shellVars == <<appd, orders, lost, closes, stdout, app, page>>

Order == {"close", "focus"}
Line == {"READY", "CLOSE_CANCELLED"}

TypeOK ==
  /\ supervisor \in {"starting", "running", "asking", "waiting", "settled"}
  /\ cancelled \in BOOLEAN /\ lost \in BOOLEAN
  /\ orders \in Seq(Order) /\ Len(orders) <= MaxPending
  /\ closes \in 0 .. MaxPending
  /\ stdout \in Seq(Line) /\ Len(stdout) <= MaxPending + 1
  /\ shell \in {"new", "shown", "exited"} /\ asks \in BOOLEAN
  /\ deadline \in {"none", "set", "due"}
  /\ answer \in {"pending", "close", "cancel"} /\ pageClosed \in BOOLEAN
  /\ frame \in [content : BOOLEAN, redraw : BOOLEAN, settled : BOOLEAN]
  /\ presenting \in BOOLEAN /\ ready \in BOOLEAN /\ stale \in BOOLEAN

Init ==
  /\ supervisor = "starting" /\ cancelled = FALSE
  /\ orders = <<>> /\ lost = FALSE /\ closes = 0 /\ stdout = <<>>
  /\ shell = "new" /\ asks \in BOOLEAN
  /\ deadline = "none" /\ answer = "pending" /\ pageClosed = FALSE
  /\ frame = [content |-> FALSE, redraw |-> FALSE, settled |-> FALSE]
  /\ presenting = FALSE /\ ready = FALSE /\ stale = FALSE

(***************************************************************************)
(* weft-app-shell.                                                         *)
(***************************************************************************)
\* shut_down and event_loop.exit(): nothing more is handled.
Exit == shell' = "exited" /\ deadline' = "none"

\* resumed: the window, the webview and its scripts, or no rendering context.
Resumed ==
  /\ shell = "new"
  /\ \/ shell' = "shown" /\ UNCHANGED deadline
     \/ Exit
  /\ UNCHANGED <<appd, orders, lost, closes, stdout, asks, presenting, ready, stale, page>>

\* request_close: a request made while a question is pending shares its
\* answer; without a page to ask the application closes.
RequestClose ==
  \/ deadline # "none" /\ UNCHANGED <<shell, deadline, answer>>
  \/ /\ deadline = "none" /\ ~(asks /\ shell = "shown")
     /\ Exit /\ UNCHANGED answer
  \/ /\ deadline = "none" /\ asks /\ shell = "shown"
     /\ answer' = "pending" /\ deadline' = "set"
     /\ UNCHANGED shell

CloseRequested ==
  /\ shell # "exited" /\ closes > 0
  /\ closes' = closes - 1
  /\ RequestClose
  /\ UNCHANGED <<appd, orders, lost, stdout, asks, presenting, ready, stale,
                 pageClosed, frame>>

\* A mutant: settling does not ask for a redraw, as only a new frame does.
MutantSettledUndrawn ==
  {frame,
   [frame EXCEPT !.content = TRUE, !.redraw = TRUE],
   [frame EXCEPT !.settled = TRUE]}

\* What Servo's reports while it spins leave of FrameSignals: nothing new, a
\* repaint, or the loaded document's settled rendering.
Painted == {frame,
            [frame EXCEPT !.content = TRUE, !.redraw = TRUE],
            [frame EXCEPT !.settled = TRUE, !.redraw = TRUE]}

\* spin_event_loop: the page may answer the question or close itself.
PageActs ==
  /\ answer' \in IF deadline # "none" /\ answer = "pending"
                 THEN {"pending", "close", "cancel"} ELSE {answer}
  /\ pageClosed' \in {pageClosed, TRUE}

\* user_event.
UserEvent ==
  /\ shell = "shown" /\ PageActs /\ frame' \in Painted
  /\ UNCHANGED <<appd, orders, lost, closes, stdout, app>>

\* settle_close_request, on what the page has answered.
Declined == deadline # "none" /\ answer' = "cancel"
Agreed ==
  /\ deadline # "none"
  /\ \/ answer' = "close"
     \/ answer' = "pending" /\ deadline = "due"

\* about_to_wait, after each batch of events: Servo spins; a page that closed
\* itself or agreed ends the loop, a declined close is reported, a redraw is
\* asked for.
AboutToWait ==
  /\ shell = "shown" /\ Len(stdout) < MaxPending
  /\ PageActs
  /\ \E painted \in Painted :
       /\ frame' = [painted EXCEPT !.redraw = FALSE]
       /\ presenting' = (presenting \/ painted.redraw)
  /\ \/ (pageClosed' \/ Agreed) /\ Exit /\ UNCHANGED stdout
     \/ /\ ~pageClosed' /\ Declined
        /\ stdout' = Append(stdout, "CLOSE_CANCELLED")
        /\ deadline' = "none" /\ UNCHANGED shell
     \/ ~pageClosed' /\ ~Agreed /\ ~Declined /\ UNCHANGED <<shell, deadline, stdout>>
  /\ UNCHANGED <<appd, orders, lost, closes, asks, ready, stale>>

\* render_frame, on RedrawRequested: READY follows the first frame presented
\* once the document has settled.
RenderFrame ==
  /\ shell = "shown" /\ Len(stdout) < MaxPending
  /\ presenting' = FALSE
  /\ \/ ~frame.content /\ UNCHANGED <<stdout, ready, stale>>
     \/ frame.content /\ stale' = TRUE /\ UNCHANGED <<stdout, ready>>
     \/ /\ frame.content /\ stale' = FALSE
        /\ ready' = (ready \/ frame.settled)
        /\ stdout' = IF ready' /\ ~ready THEN Append(stdout, "READY") ELSE stdout
  /\ UNCHANGED <<appd, orders, lost, closes, shell, asks, deadline, page>>

\* CLOSE_ANSWER_TIMEOUT passes; about_to_wait is run then.
AnswerDue ==
  /\ deadline = "set" /\ deadline' = "due"
  /\ UNCHANGED <<appd, orders, lost, closes, stdout, shell, asks, presenting, ready, stale, page>>

(***************************************************************************)
(* The user, the compositor and its connection.                            *)
(***************************************************************************)
\* close_focused_window.
UserCloses ==
  /\ shell = "shown" /\ closes < MaxPending
  /\ closes' = closes + 1
  /\ UNCHANGED <<appd, orders, lost, stdout, app, page>>

\* handle_message: the session's window is asked to close, or raised.
HandleOrder ==
  /\ orders # <<>> /\ closes < MaxPending
  /\ orders' = Tail(orders)
  /\ closes' = IF Head(orders) = "close" /\ shell = "shown" THEN closes + 1 ELSE closes
  /\ UNCHANGED <<appd, lost, stdout, app, page>>

\* What was written to a connection that breaks is gone (CompositorLink).
ConnectionBreaks ==
  /\ orders # <<>>
  /\ orders' = <<>>
  /\ lost' = (lost \/ \E i \in DOMAIN orders : orders[i] = "close")
  /\ UNCHANGED <<appd, closes, stdout, app, page>>

(***************************************************************************)
(* weft-appd.                                                              *)
(***************************************************************************)
\* wait_for_ready, which skips other lines, then watch_app_shell_stdout.
ReadLine ==
  /\ stdout # <<>> /\ supervisor # "settled"
  /\ stdout' = Tail(stdout)
  /\ \/ /\ supervisor = "starting" /\ Head(stdout) = "READY"
        /\ supervisor' = "running" /\ UNCHANGED cancelled
     \/ /\ supervisor # "starting" /\ Head(stdout) = "CLOSE_CANCELLED"
        /\ cancelled' = TRUE /\ UNCHANGED supervisor
     \/ /\ (supervisor = "starting") # (Head(stdout) = "READY")
        /\ UNCHANGED appd
  /\ UNCHANGED <<orders, lost, closes, app, page>>

\* A mutant: the reports are dropped once the compositor has been asked.
MutantDrainLate ==
  /\ \/ supervisor = "running" /\ supervisor' = "asking"
     \/ supervisor = "waiting" /\ UNCHANGED supervisor
  /\ cancelled' = FALSE
  /\ UNCHANGED <<orders, lost, closes, stdout, app, page>>

\* close: reports of earlier closes are dropped before the compositor is asked.
Drain ==
  /\ supervisor = "running" /\ supervisor' = "asking"
  /\ cancelled' = FALSE
  /\ UNCHANGED <<orders, lost, closes, stdout, app, page>>

\* A request that cannot be queued settles the session (Settle).
Ask ==
  /\ supervisor = "asking" /\ Len(orders) < MaxPending
  /\ supervisor' = "waiting" /\ orders' = Append(orders, "close")
  /\ lost' = FALSE
  /\ UNCHANGED <<cancelled, closes, stdout, app, page>>

\* Close::Cancelled: the session runs on, and its window comes to the front.
TakeReport ==
  /\ supervisor = "waiting" /\ cancelled
  /\ supervisor' = "running" /\ cancelled' = FALSE
  /\ orders' \in {orders} \cup
       (IF Len(orders) < MaxPending THEN {Append(orders, "focus")} ELSE {})
  /\ UNCHANGED <<lost, closes, stdout, app, page>>

\* The session ends for any reason AppdSession gives; the app shell is killed.
Settle ==
  /\ supervisor # "settled" /\ supervisor' = "settled"
  /\ Exit
  /\ UNCHANGED <<cancelled, orders, lost, closes, stdout, asks, presenting, ready, stale, page>>

Next ==
  \/ Resumed \/ CloseRequested \/ UserEvent \/ AboutToWait \/ RenderFrame \/ AnswerDue
  \/ UserCloses \/ HandleOrder \/ ConnectionBreaks
  \/ ReadLine \/ Drain \/ Ask \/ TakeReport \/ Settle

Spec == Init /\ [][Next]_shellVars

(***************************************************************************)
(* Properties.                                                             *)
(***************************************************************************)
\* While the supervisor waits for its close request to be answered, the
\* answer is still to come: the request or the close event is on its way, the
\* page is being asked, the report of its answer waits to be read, or the app
\* shell has gone.  Requests the user makes meanwhile, which share a question
\* with weft-appd's, reports of earlier closes and the report's own way
\* through a task and a channel with room for one never lose it.  Only a
\* broken compositor connection can.
CloseIsAnswered ==
  supervisor = "waiting" /\ ~lost =>
    \/ \E i \in DOMAIN orders : orders[i] = "close"
    \/ closes > 0 \/ deadline # "none"
    \/ \E i \in DOMAIN stdout : stdout[i] = "CLOSE_CANCELLED"
    \/ cancelled \/ shell = "exited"

\* A document that has painted and settled is not left without its READY: a
\* redraw is asked for or due, whichever of the two Servo reported first,
\* unless the latest frame could not be presented.
ReadyIsDue ==
  shell = "shown" /\ frame.content /\ frame.settled /\ ~ready /\ ~stale =>
    frame.redraw \/ presenting

\* weft-appd hears from the app shell whenever it waits for it.
ShellAnswers == CloseIsAnswered /\ ReadyIsDue
=============================================================================
