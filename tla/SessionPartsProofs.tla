------------------------- MODULE SessionPartsProofs -------------------------
(*****************************************************************************)
(* Proofs about the parts that sessions and shells go through: AppShell,     *)
(* SessionRestore and SystemShell.                                           *)
(*****************************************************************************)
EXTENDS Parts, FiniteSetTheorems, TLAPS

\* A step of the parts is a step of each of them, or none.
LEMMA PartSteps ==
  [Next]_vars =>
    /\ [Shell!Next]_Shell!shellVars
    /\ [Restore!Next]_Restore!restoreVars
    /\ [System!Next]_System!systemVars
BY DEF Next, vars, Others, shellVars, restoreVars, systemVars,
       Shell!shellVars, Shell!appd, Shell!app, Shell!page, Restore!restoreVars,
       System!systemVars, System!compositor, System!server, System!files, System!shellState

-----------------------------------------------------------------------------
(*****************************************************************************)
(* AppShell, for any number of requests and reports waiting.                 *)
(*****************************************************************************)

Signals == [content : BOOLEAN, redraw : BOOLEAN, settled : BOOLEAN]

ShellTyped ==
  /\ orders \in Seq(Shell!Order) /\ stdout \in Seq(Shell!Line)
  /\ closes \in Nat
  /\ shell \in {"new", "shown", "exited"}
  /\ frame \in Signals

\* An app shell that has not shown its window has painted and printed nothing,
\* and weft-appd has not heard from it.
NewIsSilent ==
  shell = "new" => supervisor = "starting" /\ stdout = <<>> /\ ~frame.content

ShellInv == ShellTyped /\ NewIsSilent /\ Shell!CloseIsAnswered /\ Shell!ReadyIsDue

-----------------------------------------------------------------------------
\* Neither waits for the other at first.
LEMMA InitShell == Shell!Init => ShellInv
BY DEF Shell!Init, ShellInv, ShellTyped, Signals, NewIsSilent, Shell!CloseIsAnswered, Shell!ReadyIsDue

\* What the page and Servo leave of FrameSignals.
LEMMA PaintedSignals ==
  ASSUME frame \in Signals, NEW painted \in Shell!Painted
  PROVE  /\ painted \in Signals
         /\ painted.content /\ painted.settled /\ ~painted.redraw =>
              frame.content /\ frame.settled /\ ~frame.redraw
BY DEF Shell!Painted, Signals

\* A window is shown, or cannot be.
LEMMA ResumedStep == ASSUME ShellInv, Shell!Resumed PROVE ShellInv'
BY DEF ShellInv, ShellTyped, NewIsSilent, Shell!CloseIsAnswered, Shell!ReadyIsDue, Shell!Resumed, Shell!Exit, Shell!appd, Shell!page

\* A close event becomes a question, shares one, or ends the application.
LEMMA CloseRequestedStep == ASSUME ShellInv, Shell!CloseRequested PROVE ShellInv'
<1>1. ShellTyped' /\ NewIsSilent' /\ Shell!ReadyIsDue'
  BY DEF ShellInv, ShellTyped, NewIsSilent, Shell!ReadyIsDue, Shell!CloseRequested, Shell!RequestClose, Shell!Exit, Shell!appd
<1>2. Shell!CloseIsAnswered'
  BY DEF ShellInv, Shell!CloseIsAnswered, Shell!CloseRequested, Shell!RequestClose, Shell!Exit, Shell!appd
<1> QED BY <1>1, <1>2 DEF ShellInv

\* The page acts while Servo spins.
LEMMA UserEventStep == ASSUME ShellInv, Shell!UserEvent PROVE ShellInv'
<1>1. /\ UNCHANGED <<Shell!appd, orders, lost, closes, stdout, Shell!app>>
      /\ frame' \in Shell!Painted /\ shell = "shown"
  BY DEF Shell!UserEvent
<1>2. ShellTyped' /\ Shell!ReadyIsDue'
  BY <1>1, PaintedSignals DEF ShellInv, ShellTyped, Shell!ReadyIsDue, Shell!app
<1>3. NewIsSilent' /\ Shell!CloseIsAnswered'
  BY <1>1 DEF ShellInv, NewIsSilent, Shell!CloseIsAnswered, Shell!appd, Shell!app
<1> QED BY <1>2, <1>3 DEF ShellInv

\* The end of a batch of events: what was asked is answered or still asked,
\* what was painted is to be drawn.
LEMMA AboutToWaitStep == ASSUME ShellInv, Shell!AboutToWait PROVE ShellInv'
<1>1. /\ shell = "shown"
      /\ UNCHANGED <<Shell!appd, orders, lost, closes, asks, ready, stale>>
  BY DEF Shell!AboutToWait
<1>2. PICK painted \in Shell!Painted :
        /\ frame' = [painted EXCEPT !.redraw = FALSE]
        /\ presenting' = (presenting \/ painted.redraw)
  BY DEF Shell!AboutToWait
<1>3. \/ shell' = "exited" /\ UNCHANGED stdout
      \/ stdout' = Append(stdout, "CLOSE_CANCELLED") /\ UNCHANGED shell
      \/ UNCHANGED <<shell, deadline, stdout>>
  BY DEF Shell!AboutToWait, Shell!Exit
<1>4. frame \in Signals /\ painted \in Signals /\ frame' \in Signals
      /\ frame'.content = painted.content /\ frame'.settled = painted.settled
  BY <1>2, PaintedSignals DEF ShellInv, ShellTyped, Signals
<1>5. stdout' \in Seq(Shell!Line) /\ shell' # "new"
  BY <1>1, <1>3 DEF ShellInv, ShellTyped, Shell!Line
<1>5a. shell' \in {"new", "shown", "exited"}
  BY <1>1, <1>3
<1>6. Shell!CloseIsAnswered'
  <2>1. CASE shell' = "exited"
    BY <2>1 DEF Shell!CloseIsAnswered
  <2>2. CASE stdout' = Append(stdout, "CLOSE_CANCELLED")
    <3>1. stdout'[Len(stdout) + 1] = "CLOSE_CANCELLED" /\ Len(stdout) + 1 \in DOMAIN stdout'
      BY <2>2 DEF ShellInv, ShellTyped
    <3> QED BY <3>1 DEF Shell!CloseIsAnswered
  <2>3. CASE UNCHANGED <<shell, deadline, stdout>>
    BY <1>1, <2>3 DEF ShellInv, Shell!CloseIsAnswered, Shell!appd
  <2> QED BY <1>3, <2>1, <2>2, <2>3
<1>7. Shell!ReadyIsDue'
  BY <1>1, <1>2, <1>4, PaintedSignals DEF ShellInv, Shell!ReadyIsDue
<1> QED BY <1>1, <1>4, <1>5, <1>5a, <1>6, <1>7 DEF ShellInv, ShellTyped, NewIsSilent

\* A frame is presented, with the READY it is the first to follow.
LEMMA RenderFrameStep == ASSUME ShellInv, Shell!RenderFrame PROVE ShellInv'
<1>1. /\ shell = "shown" /\ UNCHANGED <<Shell!appd, orders, lost, closes, shell, asks, deadline, Shell!page>>
      /\ stdout' \in {stdout, Append(stdout, "READY")}
  BY DEF Shell!RenderFrame
<1>2. ShellTyped' /\ NewIsSilent'
  BY <1>1 DEF ShellInv, ShellTyped, NewIsSilent, Shell!page, Shell!Line
<1>3. Shell!CloseIsAnswered'
  <2>1. ASSUME NEW i \in DOMAIN stdout, stdout[i] = "CLOSE_CANCELLED"
        PROVE  i \in DOMAIN stdout' /\ stdout'[i] = "CLOSE_CANCELLED"
    BY <1>1, <2>1 DEF ShellInv, ShellTyped
  <2> QED BY <1>1, <2>1 DEF ShellInv, Shell!CloseIsAnswered, Shell!appd
<1>4. Shell!ReadyIsDue'
  BY DEF Shell!RenderFrame, Shell!ReadyIsDue, Shell!page
<1> QED BY <1>2, <1>3, <1>4 DEF ShellInv

\* The page has not answered in time; the user closes the window.
LEMMA UserSteps == ASSUME ShellInv, Shell!AnswerDue \/ Shell!UserCloses PROVE ShellInv'
BY DEF ShellInv, ShellTyped, NewIsSilent, Shell!CloseIsAnswered, Shell!ReadyIsDue, Shell!AnswerDue, Shell!UserCloses,
   Shell!appd, Shell!app, Shell!page

\* A request reaches the window, which is there to take it.
LEMMA HandleOrderStep == ASSUME ShellInv, Shell!HandleOrder PROVE ShellInv'
<1>1. /\ orders # <<>> /\ orders' = Tail(orders)
      /\ closes' = IF Head(orders) = "close" /\ shell = "shown" THEN closes + 1 ELSE closes
      /\ UNCHANGED <<Shell!appd, lost, stdout, Shell!app, Shell!page>>
  BY DEF Shell!HandleOrder
<1>2. /\ orders \in Seq(Shell!Order) /\ orders' \in Seq(Shell!Order)
      /\ closes \in Nat /\ closes' \in Nat /\ closes' >= closes
  BY <1>1 DEF ShellInv, ShellTyped
<1>3. Shell!CloseIsAnswered'
  <2> SUFFICES ASSUME NEW i \in DOMAIN orders, orders[i] = "close",
                      supervisor = "waiting", shell # "exited"
               PROVE  closes' > 0 \/ \E j \in DOMAIN orders' : orders'[j] = "close"
    BY <1>1, <1>2 DEF ShellInv, Shell!CloseIsAnswered, Shell!appd, Shell!app
  <2>1. CASE i = 1
    <3>1. Head(orders) = "close"
      BY <1>2, <2>1
    <3>2. shell = "shown"
      BY DEF ShellInv, ShellTyped, NewIsSilent
    <3> QED BY <1>1, <1>2, <3>1, <3>2
  <2>2. CASE i # 1
    <3>1. i - 1 \in DOMAIN orders' /\ orders'[i - 1] = orders[i]
      BY <1>1, <1>2, <2>2
    <3> QED BY <3>1
  <2> QED BY <2>1, <2>2
<1> QED BY <1>1, <1>2, <1>3 DEF ShellInv, ShellTyped, NewIsSilent, Shell!ReadyIsDue, Shell!appd, Shell!app, Shell!page

\* What a broken connection took with it is known to be lost.
LEMMA ConnectionBreaksStep == ASSUME ShellInv, Shell!ConnectionBreaks PROVE ShellInv'
<1>1. Shell!CloseIsAnswered'
  BY DEF ShellInv, Shell!CloseIsAnswered, Shell!ConnectionBreaks, Shell!appd, Shell!app
<1>2. ShellTyped' /\ NewIsSilent' /\ Shell!ReadyIsDue'
  BY DEF ShellInv, ShellTyped, NewIsSilent, Shell!ReadyIsDue, Shell!ConnectionBreaks, Shell!appd, Shell!app, Shell!page
<1> QED BY <1>1, <1>2 DEF ShellInv

\* A line is read: a report goes to the channel, whatever is read before it.
LEMMA ReadLineStep == ASSUME ShellInv, Shell!ReadLine PROVE ShellInv'
<1>1. /\ stdout # <<>> /\ stdout' = Tail(stdout) /\ UNCHANGED <<orders, lost, closes, Shell!app, Shell!page>>
      /\ UNCHANGED cancelled \/ cancelled' = TRUE
      /\ UNCHANGED supervisor \/ (supervisor = "starting" /\ supervisor' = "running")
  BY DEF Shell!ReadLine, Shell!appd
<1>2. /\ stdout \in Seq(Shell!Line) /\ stdout' \in Seq(Shell!Line)
  BY <1>1 DEF ShellInv, ShellTyped
<1>3. supervisor = "waiting" /\ Head(stdout) = "CLOSE_CANCELLED" => cancelled'
  BY DEF Shell!ReadLine
<1>4. Shell!CloseIsAnswered'
  <2> SUFFICES ASSUME NEW i \in DOMAIN stdout, stdout[i] = "CLOSE_CANCELLED",
                      supervisor = "waiting"
               PROVE  cancelled' \/ \E j \in DOMAIN stdout' : stdout'[j] = "CLOSE_CANCELLED"
    BY <1>1 DEF ShellInv, Shell!CloseIsAnswered, Shell!app
  <2>1. CASE i = 1
    BY <1>2, <1>3, <2>1
  <2>2. CASE i # 1
    <3>1. i - 1 \in DOMAIN stdout' /\ stdout'[i - 1] = stdout[i]
      BY <1>1, <1>2, <2>2
    <3> QED BY <3>1
  <2> QED BY <2>1, <2>2
<1>5. ShellTyped' /\ NewIsSilent' /\ Shell!ReadyIsDue'
  BY <1>1, <1>2 DEF ShellInv, ShellTyped, NewIsSilent, Shell!ReadyIsDue, Shell!app, Shell!page
<1> QED BY <1>4, <1>5 DEF ShellInv

\* The supervisor asks, is answered or settles.
LEMMA SupervisorSteps ==
  ASSUME ShellInv, Shell!Drain \/ Shell!TakeReport \/ Shell!Settle
  PROVE  ShellInv'
<1>1. /\ supervisor' # "waiting" /\ (supervisor # "starting" \/ shell' = "exited")
      /\ orders' \in Seq(Shell!Order) /\ UNCHANGED <<closes, stdout, Shell!page>>
      /\ shell' = "exited" \/ UNCHANGED Shell!app
  BY SMTT(30) DEF Shell!Drain, Shell!TakeReport, Shell!Settle, Shell!Exit, ShellInv, ShellTyped, Shell!Order, Shell!app
<1> QED BY <1>1 DEF ShellInv, ShellTyped, NewIsSilent, Shell!CloseIsAnswered, Shell!ReadyIsDue, Shell!app, Shell!page

\* The request is queued.
LEMMA AskStep == ASSUME ShellInv, Shell!Ask PROVE ShellInv'
<1>1. /\ supervisor = "asking" /\ orders' = Append(orders, "close")
      /\ UNCHANGED <<closes, stdout, Shell!app, Shell!page>>
  BY DEF Shell!Ask
<1>2. orders' \in Seq(Shell!Order) /\ orders'[Len(orders) + 1] = "close"
      /\ Len(orders) + 1 \in DOMAIN orders'
  BY <1>1 DEF ShellInv, ShellTyped, Shell!Order
<1>3. Shell!CloseIsAnswered'
  BY <1>2 DEF Shell!CloseIsAnswered
<1> QED BY <1>1, <1>2, <1>3 DEF ShellInv, ShellTyped, NewIsSilent, Shell!ReadyIsDue, Shell!app, Shell!page

\* Every step keeps the invariant.
LEMMA NextShell == ShellInv /\ [Shell!Next]_Shell!shellVars => ShellInv'
<1> SUFFICES ASSUME ShellInv, [Shell!Next]_Shell!shellVars PROVE ShellInv'
  OBVIOUS
<1>1. CASE UNCHANGED Shell!shellVars
  BY <1>1 DEF Shell!shellVars, Shell!appd, Shell!app, Shell!page, ShellInv, ShellTyped, NewIsSilent, Shell!CloseIsAnswered, Shell!ReadyIsDue
<1>2. CASE Shell!Next
  BY <1>2, ResumedStep, CloseRequestedStep, UserEventStep, AboutToWaitStep, RenderFrameStep,
     UserSteps, HandleOrderStep, ConnectionBreaksStep, ReadLineStep, SupervisorSteps, AskStep
     DEF Shell!Next
<1> QED BY <1>1, <1>2

\* The user, the page, Servo and weft-appd may act in any order: an application
\* that is asked to close is never forgotten, and READY is never lost.
THEOREM ShellAlwaysAnswers == Spec => []ShellAnswers
<1>1. ShellInv => ShellAnswers
  BY DEF ShellInv, ShellAnswers, Shell!ShellAnswers
<1>2. Init => ShellInv
  BY InitShell DEF Init
<1>3. ShellInv /\ [Next]_vars => ShellInv'
  BY PartSteps, NextShell
<1> QED BY <1>1, <1>2, <1>3, PTL DEF Spec

-----------------------------------------------------------------------------
(*****************************************************************************)
(* SessionRestore, for any applications and sessions of each.                *)
(*****************************************************************************)

\* Sessions and what is still to restore stay within the bound, and the list
\* is where the phase says: in the file, taken over as saved, or open.
RestoreTyped ==
  /\ phase \in {"down", "starting", "loaded", "serving", "stopping", "saved"}
  /\ file \in Restore!List \cup {Restore!Unreadable} /\ saved \in Restore!List
  /\ {todo, running, stopping, open} \subseteq [App -> Nat]
  /\ touched \in BOOLEAN /\ gone \in BOOLEAN
  /\ \A a \in App : running[a] + stopping[a] + todo[a] <= MaxOpen
RestoreInv ==
  /\ RestoreTyped /\ Restore!RestoresWhatWasOpen
  /\ phase \in {"down", "starting"} => running = Restore!Empty /\ stopping = Restore!Empty /\ todo = Restore!Empty
  /\ Restore!Up => file = Restore!Empty
  /\ phase = "stopping" => file = Restore!Unreadable
  /\ phase = "serving" => todo = Restore!Empty
  /\ phase \in {"loaded", "stopping"} /\ ~touched => saved = open
  /\ phase \in {"loaded", "serving", "stopping"} => ~gone

LEMMA Lists ==
  ASSUME MaxOpen \in Nat
  PROVE  /\ Restore!List \subseteq [App -> Nat] /\ Restore!Empty \in Restore!List /\ Restore!Empty \in [App -> Nat]
         /\ \A l \in Restore!List : l = Restore!Unreadable => l = Restore!Empty
         /\ \A l \in [App -> Nat] : Restore!Sum(Restore!Empty, l) = l /\ Restore!Sum(l, Restore!Empty) = l
         /\ \A l, m \in [App -> Nat] : Restore!Sum(l, m) \in [App -> Nat]
         /\ \A l \in [App -> Nat], a \in App : Restore!Add(l, a) \in [App -> Nat]
         /\ \A l \in [App -> Nat], a \in App : l[a] > 0 => Restore!Less(l, a) \in [App -> Nat]
<1>1. Restore!List \subseteq [App -> Nat] /\ Restore!Empty \in Restore!List /\ Restore!Empty \in [App -> Nat]
  BY DEF Restore!List, Restore!Empty
<1>2. ASSUME NEW l \in Restore!List, l = Restore!Unreadable
      PROVE  l = Restore!Empty
  <2>1. \A a \in App : FALSE
    BY <1>2 DEF Restore!List, Restore!Unreadable
  <2> QED BY <2>1 DEF Restore!List, Restore!Empty
<1>3. \A l \in [App -> Nat] : Restore!Sum(Restore!Empty, l) = l /\ Restore!Sum(l, Restore!Empty) = l
  BY DEF Restore!Sum, Restore!Empty
<1>4. /\ \A l, m \in [App -> Nat] : Restore!Sum(l, m) \in [App -> Nat]
      /\ \A l \in [App -> Nat], a \in App : Restore!Add(l, a) \in [App -> Nat]
      /\ \A l \in [App -> Nat], a \in App : l[a] > 0 => Restore!Less(l, a) \in [App -> Nat]
  BY DEF Restore!Sum, Restore!Add, Restore!Less
<1> QED BY <1>1, <1>2, <1>3, <1>4

\* One more or less of an application on two lists.
LEMMA Sums ==
  ASSUME NEW l \in [App -> Nat], NEW m \in [App -> Nat], NEW a \in App
  PROVE  /\ Restore!Sum(Restore!Add(l, a), m) = Restore!Add(Restore!Sum(l, m), a)
         /\ m[a] > 0 => Restore!Sum(Restore!Add(l, a), Restore!Less(m, a)) = Restore!Sum(l, m)
         /\ m[a] > 0 => Restore!Sum(l, Restore!Less(m, a)) = Restore!Less(Restore!Sum(l, m), a)
         /\ l[a] > 0 => Restore!Sum(Restore!Less(l, a), m) = Restore!Less(Restore!Sum(l, m), a)
<1>1. \A b \in App : l[b] \in Nat /\ m[b] \in Nat
  OBVIOUS
<1>2. Restore!Sum(Restore!Add(l, a), m) = Restore!Add(Restore!Sum(l, m), a)
  <2>1. \A b \in App : Restore!Add(l, a)[b] + m[b] = Restore!Add(Restore!Sum(l, m), a)[b]
    BY <1>1 DEF Restore!Sum, Restore!Add
  <2>2. Restore!Add(Restore!Sum(l, m), a) = [b \in App |-> Restore!Add(Restore!Sum(l, m), a)[b]]
    BY DEF Restore!Sum, Restore!Add
  <2> QED BY <2>1, <2>2 DEF Restore!Sum
<1>3. ASSUME m[a] > 0
      PROVE  Restore!Sum(Restore!Add(l, a), Restore!Less(m, a)) = Restore!Sum(l, m) /\ Restore!Sum(l, Restore!Less(m, a)) = Restore!Less(Restore!Sum(l, m), a)
  <2>1. \A b \in App : Restore!Add(l, a)[b] + Restore!Less(m, a)[b] = l[b] + m[b]
    BY <1>1 DEF Restore!Add, Restore!Less
  <2>2. \A b \in App : l[b] + Restore!Less(m, a)[b] = Restore!Less(Restore!Sum(l, m), a)[b]
    BY <1>1 DEF Restore!Sum, Restore!Less
  <2>3. Restore!Less(Restore!Sum(l, m), a) = [b \in App |-> Restore!Less(Restore!Sum(l, m), a)[b]]
    BY DEF Restore!Sum, Restore!Less
  <2> QED BY <2>1, <2>2, <2>3 DEF Restore!Sum
<1>4. ASSUME l[a] > 0
      PROVE  Restore!Sum(Restore!Less(l, a), m) = Restore!Less(Restore!Sum(l, m), a)
  <2>1. \A b \in App : Restore!Less(l, a)[b] + m[b] = Restore!Less(Restore!Sum(l, m), a)[b]
    BY <1>1 DEF Restore!Sum, Restore!Less
  <2>2. Restore!Less(Restore!Sum(l, m), a) = [b \in App |-> Restore!Less(Restore!Sum(l, m), a)[b]]
    BY DEF Restore!Sum, Restore!Less
  <2> QED BY <2>1, <2>2 DEF Restore!Sum
<1> QED BY <1>2, <1>3, <1>4

LEMMA EmptyTyped ==
  ASSUME MaxOpen \in Nat
  PROVE  Restore!Empty \in Restore!List /\ Restore!Empty \in [App -> Nat]
BY Lists

LEMMA InitRestore == ASSUME MaxOpen \in Nat PROVE Restore!Init => RestoreInv
<1> SUFFICES ASSUME Restore!Init PROVE RestoreInv
  OBVIOUS
<1>1. /\ phase = "down" /\ file = Restore!Empty /\ touched = FALSE /\ gone = FALSE
      /\ saved = Restore!Empty /\ todo = Restore!Empty /\ running = Restore!Empty
      /\ stopping = Restore!Empty /\ open = Restore!Empty
  BY DEF Restore!Init
<1>2. Restore!Empty \in Restore!List /\ Restore!Empty \in [App -> Nat]
  BY EmptyTyped
<1>3. \A a \in App : running[a] + stopping[a] + todo[a] <= MaxOpen
  BY <1>1 DEF Restore!Empty
<1>4. RestoreTyped
  BY <1>1, <1>2, <1>3 DEF RestoreTyped
<1> QED BY <1>4 DEF Restore!Init, RestoreInv, Restore!RestoresWhatWasOpen, Restore!Readable, Restore!Up

LEMMA StepRestore == ASSUME MaxOpen \in Nat PROVE RestoreInv /\ [Restore!Next]_Restore!restoreVars => RestoreInv'
<1> SUFFICES ASSUME RestoreInv, [Restore!Next]_Restore!restoreVars PROVE RestoreInv'
  OBVIOUS
<1> USE DEF RestoreInv
<1>0. /\ todo \in [App -> Nat] /\ running \in [App -> Nat] /\ stopping \in [App -> Nat]
      /\ open \in [App -> Nat]
  BY DEF RestoreTyped
<1>11. \A b \in App : Restore!Empty[b] + Restore!Empty[b] + Restore!Empty[b] <= MaxOpen
  BY DEF Restore!Empty
<1>1. CASE Restore!AppdStarts
  BY <1>1 DEF Restore!AppdStarts, RestoreTyped, Restore!RestoresWhatWasOpen, Restore!Readable, Restore!Up
<1>2. CASE Restore!Load
  <2>1. /\ phase = "starting" /\ phase' = "loaded" /\ saved' = Restore!Readable /\ todo' = Restore!Readable
        /\ file' = Restore!Empty /\ open' = IF touched \/ gone THEN Restore!Readable ELSE open
        /\ touched' = FALSE /\ gone' = FALSE /\ running' = Restore!Empty /\ stopping' = Restore!Empty
    BY <1>2 DEF Restore!Load
  <2>2. Restore!Readable \in Restore!List
    BY Lists DEF Restore!Readable, RestoreTyped
  <2>3. open' = Restore!Readable
    BY <2>1 DEF Restore!RestoresWhatWasOpen
  <2>4. Restore!Sum(running', todo') = open' /\ Restore!Readable \in [App -> Nat] /\ Restore!Empty \in [App -> Nat]
    BY <2>1, <2>2, <2>3, Lists
  <2>5. RestoreTyped'
    <3>1. Restore!Empty \in Restore!List
      BY Lists
    <3>2. \A a \in App : running'[a] + stopping'[a] + todo'[a] <= MaxOpen
      BY <2>1, <2>2 DEF Restore!Empty, Restore!List
    <3> QED BY <2>1, <2>2, <2>3, <2>4, <3>1, <3>2 DEF RestoreTyped
  <2> QED BY <2>1, <2>3, <2>4, <2>5 DEF Restore!RestoresWhatWasOpen, Restore!Up
<1>3. CASE Restore!Restored
  BY <1>3 DEF Restore!Restored, RestoreTyped, Restore!RestoresWhatWasOpen, Restore!Up
<1>4. CASE Restore!Stop
  <2>1. /\ Restore!Up /\ phase' = "stopping" /\ file' = Restore!Unreadable
        /\ saved' = IF phase = "loaded" THEN saved ELSE running
        /\ running' = Restore!Empty /\ stopping' = Restore!Empty /\ todo' = Restore!Empty
        /\ UNCHANGED <<open, touched, gone>>
    BY <1>4 DEF Restore!Stop, Restore!ToSave, Restore!RunningAppIds
  <2>2. running \in Restore!List
    BY <1>0 DEF RestoreTyped, Restore!List
  <2>3. phase = "serving" => running = open
    BY <1>0, Lists DEF Restore!RestoresWhatWasOpen, Restore!Up
  <2>4. saved' \in Restore!List
    BY <2>1, <2>2 DEF RestoreTyped
  <2>5. RestoreTyped'
    BY <1>0, <1>11, <2>1, <2>4, EmptyTyped DEF RestoreTyped
  <2> QED BY <2>1, <2>3, <2>5 DEF Restore!RestoresWhatWasOpen, Restore!Up
<1>5. CASE Restore!Saved
  <2>1. /\ phase = "stopping" /\ phase' = "saved" /\ UNCHANGED <<saved, todo, running, stopping, open>>
        /\ \/ file' = saved /\ UNCHANGED <<touched, gone>>
           \/ file' \in {Restore!Empty, Restore!Unreadable} /\ gone' = TRUE /\ touched' = FALSE
    BY <1>5 DEF Restore!Saved
  <2>2. file' = saved => Restore!Readable' = saved
    BY Lists DEF Restore!Readable, RestoreTyped
  <2>3. file' \in {Restore!Empty, Restore!Unreadable} => Restore!Readable' = Restore!Empty
    BY DEF Restore!Readable
  <2>4. RestoreTyped'
    BY <2>1, Lists DEF RestoreTyped
  <2> QED BY <2>1, <2>2, <2>3, <2>4 DEF Restore!RestoresWhatWasOpen, Restore!Up
<1>6. CASE Restore!AppdEnds
  <2>1. /\ phase # "down" /\ phase' = "down"
        /\ saved' = Restore!Empty /\ todo' = Restore!Empty /\ running' = Restore!Empty /\ stopping' = Restore!Empty
        /\ UNCHANGED <<file, open>>
        /\ IF phase \in {"starting", "saved"} THEN UNCHANGED <<touched, gone>> ELSE gone' = TRUE /\ touched' = FALSE
    BY <1>6 DEF Restore!AppdEnds
  <2>2. RestoreTyped'
    BY <1>0, <1>11, <2>1, EmptyTyped DEF RestoreTyped
  <2>3. ~touched' => Restore!Readable' = IF gone' THEN Restore!Empty ELSE open'
    <3>1. CASE phase \in {"starting", "saved"}
      BY <2>1, <3>1 DEF Restore!RestoresWhatWasOpen, Restore!Readable
    <3>2. CASE phase \in {"loaded", "serving", "stopping"}
      <4>1. file = Restore!Empty \/ file = Restore!Unreadable
        BY <3>2 DEF Restore!Up
      <4>2. file' = file /\ gone' = TRUE
        BY <2>1, <3>2
      <4>3. Restore!Readable' = Restore!Empty
        BY <4>1, <4>2 DEF Restore!Readable
      <4> QED BY <4>2, <4>3
    <3> QED BY <2>1, <3>1, <3>2 DEF RestoreTyped
  <2> QED BY <2>1, <2>2, <2>3 DEF Restore!RestoresWhatWasOpen, Restore!Up
<1>7. ASSUME NEW a \in App, Restore!Restore(a) PROVE RestoreInv'
  <2>1. /\ phase = "loaded" /\ todo[a] > 0 /\ todo' = Restore!Less(todo, a)
        /\ UNCHANGED <<phase, file, saved, stopping, gone>>
        /\ \/ running' = Restore!Add(running, a) /\ UNCHANGED <<open, touched>>
           \/ open' = Restore!Less(open, a) /\ touched' = TRUE /\ UNCHANGED running
    BY <1>7 DEF Restore!Restore, Restore!Restoring
  <2>2. open = Restore!Sum(running, todo)
    BY <2>1 DEF Restore!RestoresWhatWasOpen, Restore!Up
  <2>3. Restore!Sum(running', todo') = open'
    BY <1>0, <2>1, <2>2, Sums
  <2>4. /\ todo' \in [App -> Nat] /\ running' \in [App -> Nat] /\ open' \in [App -> Nat]
    <3>1. todo' \in [App -> Nat] /\ running' \in [App -> Nat]
      BY <1>0, <2>1, Lists
    <3> QED BY <2>3, <3>1, Lists
  <2>5. \A b \in App : running'[b] + stopping'[b] + todo'[b] <= MaxOpen
    BY <1>0, <2>1 DEF RestoreTyped, Restore!Add, Restore!Less
  <2>6. RestoreTyped'
    BY <2>1, <2>4, <2>5 DEF RestoreTyped
  <2> QED BY <2>1, <2>3, <2>6 DEF Restore!RestoresWhatWasOpen, Restore!Up
<1>8. ASSUME NEW a \in App, Restore!Launch(a) \/ Restore!Ends(a) PROVE RestoreInv'
  <2>1. /\ Restore!Up /\ touched' = (phase = "loaded") /\ UNCHANGED <<phase, file, saved, todo, gone>>
    BY <1>8 DEF Restore!Launch, Restore!Ends
  <2>2. open = Restore!Sum(running, todo)
    BY <2>1 DEF Restore!RestoresWhatWasOpen
  <2>3. /\ running' \in [App -> Nat] /\ stopping' \in [App -> Nat]
        /\ Restore!Sum(running', todo') = open'
        /\ \A b \in App : running'[b] + stopping'[b] + todo'[b] <= MaxOpen
    <3>1. CASE Restore!Launch(a)
      <4>1. /\ running' = Restore!Add(running, a) /\ open' = Restore!Add(open, a) /\ UNCHANGED stopping
            /\ running[a] + stopping[a] + todo[a] < MaxOpen
        BY <3>1 DEF Restore!Launch
      <4>2. \A b \in App : running'[b] + stopping'[b] + todo'[b] <= MaxOpen
        BY <1>0, <2>1, <4>1 DEF RestoreTyped, Restore!Add
      <4>3. running' \in [App -> Nat] /\ stopping' \in [App -> Nat]
        BY <1>0, <4>1, Lists
      <4>4. Restore!Sum(running', todo') = open'
        BY <1>0, <2>1, <2>2, <4>1, Sums
      <4> QED BY <4>2, <4>3, <4>4
    <3>2. CASE Restore!Ends(a)
      <4>1. /\ running[a] > 0 /\ running' = Restore!Less(running, a) /\ open' = Restore!Less(open, a)
            /\ stopping' = stopping \/ stopping' = Restore!Add(stopping, a)
        BY <3>2 DEF Restore!Ends
      <4>2. \A b \in App : running'[b] + stopping'[b] + todo'[b] <= MaxOpen
        BY <1>0, <2>1, <4>1 DEF RestoreTyped, Restore!Add, Restore!Less
      <4>3. running' \in [App -> Nat] /\ stopping' \in [App -> Nat]
        BY <1>0, <4>1, Lists
      <4>4. Restore!Sum(running', todo') = open'
        BY <1>0, <2>1, <2>2, <4>1, Sums
      <4> QED BY <4>2, <4>3, <4>4
    <3> QED BY <1>8, <3>1, <3>2
  <2>4. open' \in [App -> Nat]
    BY <1>0, <2>1, <2>3, Lists
  <2>5. RestoreTyped'
    BY <1>0, <2>1, <2>3, <2>4 DEF RestoreTyped
  <2> QED BY <2>1, <2>3, <2>5 DEF Restore!RestoresWhatWasOpen, Restore!Up
<1>10. ASSUME NEW a \in App, Restore!AskClose(a) \/ Restore!Declined(a) \/ Restore!Settled(a) PROVE RestoreInv'
  <2>1. /\ Restore!Up /\ UNCHANGED <<phase, file, saved, todo, running, open, touched, gone>>
        /\ stopping' = stopping \/ (stopping[a] > 0 /\ stopping' = Restore!Less(stopping, a))
    BY <1>10 DEF Restore!AskClose, Restore!Declined, Restore!Settled
  <2>2. stopping' \in [App -> Nat] /\ \A b \in App : stopping'[b] <= stopping[b]
    <3>1. CASE stopping' = stopping
      BY <1>0, <3>1
    <3>2. CASE stopping[a] > 0 /\ stopping' = Restore!Less(stopping, a)
      BY <1>0, <3>2 DEF Restore!Less
    <3> QED BY <2>1, <3>1, <3>2
  <2>3. RestoreTyped'
    BY <1>0, <2>1, <2>2 DEF RestoreTyped
  <2> QED BY <2>1, <2>3 DEF Restore!RestoresWhatWasOpen, Restore!Up
<1>9. CASE UNCHANGED Restore!restoreVars
  BY <1>9 DEF Restore!restoreVars, RestoreTyped, Restore!RestoresWhatWasOpen, Restore!Readable, Restore!Up
<1> QED BY <1>1, <1>2, <1>3, <1>4, <1>5, <1>6, <1>7, <1>8, <1>9, <1>10 DEF Restore!Next

\* Over any launches, ends, stops, kills and failed saves: a weft-appd starts
\* with the list of what was open when the last one ended, or with nothing if
\* that one ended without having saved it, unless something was opened or ended
\* while the restore was unfinished; and what it runs and is still to restore
\* is what is open.
THEOREM OpenIsRestored == Spec => []RestoresWhatWasOpen
<1>1. Init => RestoreInv
  BY InitRestore, PartsAssumption DEF Init
<1>2. RestoreInv /\ [Next]_vars => RestoreInv'
  BY PartSteps, StepRestore, PartsAssumption
<1>3. RestoreInv => RestoresWhatWasOpen
  BY DEF RestoreInv, RestoresWhatWasOpen
<1> QED BY <1>1, <1>2, <1>3, PTL DEF Spec

-----------------------------------------------------------------------------
(*****************************************************************************)
(* SystemShell, for any swipes and lives of weft-appd.                       *)
(*****************************************************************************)

(***************************************************************************)
(* The endpoint: no token of a weft-appd that wrote its port is used at    *)
(* the port of an earlier one.                                             *)
(***************************************************************************)
\* The token of a weft-appd is read while the port file holds its port or a
\* later one's, unless it is empty or that weft-appd could not write it.
Later(t) == t # 0 /\ t \notin unwritten /\ wsport # 0 => wsport >= t
EndpointTyped ==
  /\ appd \in [life : Nat, step : {"down", "bound", "emptied", "ported", "serving"}]
  /\ wsport \in Nat /\ systoken \in Nat /\ token \in Nat
  /\ systoken <= appd.life /\ token <= appd.life
EndpointInv ==
  /\ EndpointTyped /\ System!EndpointPaired
  /\ Later(systoken) /\ Later(token)
  /\ System!At("ported") => appd.life \in unwritten \/ wsport = appd.life

LEMMA InitEndpoint == System!Init => EndpointInv
BY DEF System!Init, EndpointInv, EndpointTyped, System!EndpointPaired, Later, System!At, System!Unknown, System!NoBatch

\* What touches neither weft-appd nor the files.
LEMMA EndpointStays ==
  ASSUME EndpointInv, UNCHANGED <<appd, wsport, systoken, unwritten>>,
         token' \in {token, systoken, 0},
         \A e \in {endpoint', page', batch'.to} :
           e.port # 0 /\ e.token \notin unwritten => e.port >= e.token
  PROVE  EndpointInv'
BY DEF EndpointInv, EndpointTyped, System!EndpointPaired, Later, System!At

LEMMA StepEndpoint == EndpointInv /\ [System!Next]_System!systemVars => EndpointInv'
<1> SUFFICES ASSUME EndpointInv, [System!Next]_System!systemVars PROVE EndpointInv'
  OBVIOUS
<1> USE DEF System!compositor, System!files, System!server, System!shellState
<1>0. \A e \in {endpoint, page, batch.to} :
        e.port # 0 /\ e.token \notin unwritten => e.port >= e.token
  BY DEF EndpointInv, System!EndpointPaired
<1>1. CASE \/ \E n \in Fingers : System!SwipeBegin(n)
           \/ \E by \in {-1, 1} : System!SwipeUpdate(by)
           \/ \E undone \in BOOLEAN : System!SwipeEnd(undone)
           \/ \E c \in clients : System!Dispatch(c) \/ System!Lose(c)
           \/ System!Resumed \/ UNCHANGED System!systemVars
  <2>1. UNCHANGED <<appd, wsport, systoken, unwritten, token, endpoint, page, batch>>
    BY <1>1 DEF System!SwipeBegin, System!SwipeUpdate, System!SwipeEnd, System!Dispatch, System!Lose, System!Resumed, System!systemVars
  <2> QED BY <1>0, <2>1, EndpointStays
<1>2. CASE System!TakeGestures \/ System!ForwardGestures \/ System!Exits \/ System!ReadToken
  <2>1. /\ UNCHANGED <<appd, wsport, systoken, unwritten>>
        /\ token' \in {token, systoken, 0}
    BY <1>2 DEF System!TakeGestures, System!ForwardGestures, System!Exits, System!ReadToken
  <2>2. \A e \in {endpoint', page', batch'.to} : e \in {endpoint, page, batch.to, System!Unknown}
    BY <1>2 DEF System!TakeGestures, System!ForwardGestures, System!Exits, System!ReadToken, System!NoBatch
  <2>3. System!Unknown.port = 0
    BY DEF System!Unknown
  <2> QED BY <1>0, <2>1, <2>2, <2>3, EndpointStays
<1>3. CASE System!ReadPort
  <2>1. /\ UNCHANGED <<appd, wsport, systoken, unwritten, batch>> /\ token # 0 /\ token' = 0
        /\ endpoint' = [port |-> wsport, token |-> token] /\ page' \in {page, endpoint'}
    BY <1>3 DEF System!ReadPort
  <2>2. endpoint'.port # 0 /\ endpoint'.token \notin unwritten => endpoint'.port >= endpoint'.token
    BY <2>1 DEF EndpointInv, Later
  <2> QED BY <1>0, <2>1, <2>2, EndpointStays
<1> USE DEF EndpointInv, EndpointTyped, System!EndpointPaired, Later, System!At, System!Goto
<1>4. CASE System!AppdStarts
  BY <1>4 DEF System!AppdStarts
<1>5. CASE System!EmptyPort
  BY <1>5 DEF System!EmptyPort
<1>6. CASE System!WritePort
  BY <1>6 DEF System!WritePort
<1>7. CASE System!WriteToken
  BY <1>7 DEF System!WriteToken
<1>8. CASE System!AppdEnds
  BY <1>8 DEF System!AppdEnds
<1> QED BY <1>1, <1>2, <1>3, <1>4, <1>5, <1>6, <1>7, <1>8 DEF System!Next

(***************************************************************************)
(* The gestures: each is in one place.                                     *)
(***************************************************************************)
In(g, s) == \E i \in DOMAIN s : s[i] = g
Distinct(s) == \A i, j \in DOMAIN s : s[i] = s[j] => i = j
Disjoint(s, t) == \A g \in Nat : ~(In(g, s) /\ In(g, t))
UpTo(n, s) == s \in Seq(Nat) /\ Distinct(s) /\ \A i \in DOMAIN s : s[i] <= n

GesturesInv ==
  /\ gesture = swipe /\ full \in Nat
  /\ \A c \in clients \cup {batch} : DOMAIN c = {"to", "gestures"}
  /\ batch # System!NoBatch => batch.gestures # <<>>
  /\ UpTo(full, events) /\ UpTo(full, batch.gestures) /\ UpTo(full, broadcast)
  /\ Disjoint(events, batch.gestures) /\ Disjoint(events, broadcast)
  /\ Disjoint(batch.gestures, broadcast)
  /\ \A c \in clients :
       /\ UpTo(full, c.gestures) /\ c.gestures # <<>>
       /\ Disjoint(events, c.gestures) /\ Disjoint(batch.gestures, c.gestures)
       /\ Disjoint(broadcast, c.gestures)
  /\ \A c, d \in clients : c # d => Disjoint(c.gestures, d.gestures)

LEMMA Rest ==
  ASSUME NEW c, DOMAIN c = {"to", "gestures"}, NEW t
  PROVE  /\ DOMAIN [c EXCEPT !.gestures = t] = {"to", "gestures"}
         /\ [c EXCEPT !.gestures = t].gestures = t
OBVIOUS

LEMMA Empties ==
  /\ \A s : Disjoint(<<>>, s) /\ Disjoint(s, <<>>)
  /\ \A n : UpTo(n, <<>>)
BY DEF Disjoint, In, UpTo, Distinct

LEMMA Turned == \A s, t : Disjoint(s, t) => Disjoint(t, s)
BY DEF Disjoint

LEMMA Appended ==
  ASSUME NEW n \in Nat, NEW s \in Seq(Nat), UpTo(n, s), NEW g \in Nat, g <= n, ~In(g, s)
  PROVE  /\ UpTo(n, Append(s, g))
         /\ \A h \in Nat : In(h, Append(s, g)) => In(h, s) \/ h = g
<1> DEFINE t == Append(s, g)
<1>1. t \in Seq(Nat)
  OBVIOUS
<1>2. /\ Len(s) \in Nat /\ DOMAIN s = 1..Len(s) /\ DOMAIN t = 1 .. Len(s) + 1
      /\ t[Len(s) + 1] = g /\ \A i \in 1..Len(s) : t[i] = s[i]
  OBVIOUS
<1> HIDE DEF t
<1>3. ASSUME NEW i \in DOMAIN t
      PROVE  (i \in DOMAIN s /\ t[i] = s[i]) \/ (i = Len(s) + 1 /\ t[i] = g)
  <2>1. i \in 1 .. Len(s) \/ i = Len(s) + 1
    BY <1>2
  <2>2. CASE i \in 1 .. Len(s)
    BY <1>2, <2>2
  <2>3. CASE i = Len(s) + 1
    BY <1>2, <2>3
  <2> QED BY <2>1, <2>2, <2>3
<1>4. Distinct(t)
  BY <1>2, <1>3 DEF UpTo, Distinct, In
<1>5. \A i \in DOMAIN t : t[i] <= n
  BY <1>3 DEF UpTo
<1>6. \A h \in Nat : In(h, t) => In(h, s) \/ h = g
  BY <1>3 DEF In
<1>7. UpTo(n, t)
  BY <1>1, <1>4, <1>5 DEF UpTo
<1> QED BY <1>6, <1>7 DEF t

LEMMA FirstTaken ==
  ASSUME NEW n \in Nat, NEW s \in Seq(Nat), s # <<>>, UpTo(n, s)
  PROVE  /\ Head(s) \in Nat /\ Head(s) <= n /\ In(Head(s), s) /\ ~In(Head(s), Tail(s))
         /\ UpTo(n, Tail(s))
         /\ \A h \in Nat : In(h, Tail(s)) => In(h, s)
<1> DEFINE t == Tail(s)
<1>1. /\ t \in Seq(Nat) /\ Head(s) = s[1] /\ Head(s) \in Nat /\ 1 \in DOMAIN s
      /\ Len(s) \in Nat \ {0} /\ DOMAIN s = 1..Len(s) /\ DOMAIN t = 1 .. Len(s) - 1
      /\ \A i \in 1 .. Len(s) - 1 : t[i] = s[i + 1]
  OBVIOUS
<1> HIDE DEF t
<1>2. \A i \in DOMAIN t : i + 1 \in DOMAIN s /\ i + 1 # 1 /\ t[i] = s[i + 1]
  BY <1>1
<1>3. \A i, j \in DOMAIN t : i + 1 = j + 1 => i = j
  BY <1>1
<1>4. Distinct(t) /\ ~In(s[1], t) /\ \A i \in DOMAIN t : t[i] <= n
  BY <1>1, <1>2, <1>3 DEF UpTo, Distinct, In
<1>5. In(s[1], s) /\ s[1] <= n
  BY <1>1 DEF In, UpTo
<1>6. \A h \in Nat : In(h, t) => In(h, s)
  BY <1>2 DEF In
<1> QED BY <1>1, <1>4, <1>5, <1>6 DEF UpTo, t

LEMMA Grown ==
  ASSUME NEW n \in Nat, NEW s, UpTo(n, s)
  PROVE  UpTo(n + 1, s) /\ ~In(n + 1, s)
<1>1. \A i \in DOMAIN s : s[i] \in Nat /\ s[i] <= n
  BY DEF UpTo
<1> QED BY <1>1 DEF UpTo, In

LEMMA InitGestures == System!Init => GesturesInv
BY Empties DEF System!Init, GesturesInv, System!NoBatch, System!NoSwipe

LEMMA SwipeEndGestures ==
  ASSUME GesturesInv, NEW undone, System!SwipeEnd(undone)
  PROVE  GesturesInv'
<1>1. /\ gesture' = swipe' /\ UNCHANGED <<clients, batch, broadcast>>
      /\ full' = IF System!IsNavigation(swipe, undone) THEN full + 1 ELSE full
      /\ events' = events \/ (System!IsNavigation(swipe, undone) /\ events' = Append(events, full'))
  <2>1. gesture = swipe
    BY DEF GesturesInv
  <2>2. /\ gesture' = swipe' /\ UNCHANGED <<clients, batch, broadcast>>
        /\ full' = IF System!IsNavigation(swipe, undone) THEN full + 1 ELSE full
    BY DEF System!SwipeEnd
  <2>3. IF System!IsNavigation(swipe, undone) THEN System!SendToPanels(full') ELSE UNCHANGED events
    BY <2>1 DEF System!SwipeEnd
  <2>4. events' = events \/ (System!IsNavigation(swipe, undone) /\ events' = Append(events, full'))
    BY <2>3 DEF System!SendToPanels
  <2> QED BY <2>2, <2>4
<1>2. CASE full' = full /\ events' = events
  BY <1>1, <1>2 DEF GesturesInv
<1>3. CASE full' = full + 1 /\ events' = events
  <2>1. UpTo(full + 1, events) /\ UpTo(full + 1, batch.gestures) /\ UpTo(full + 1, broadcast)
    BY Grown DEF GesturesInv
  <2>2. \A c \in clients : UpTo(full + 1, c.gestures)
    BY Grown DEF GesturesInv
  <2> QED BY <1>1, <1>3, <2>1, <2>2 DEF GesturesInv
<1>4. CASE full' = full + 1 /\ events' = Append(events, full + 1)
  <2>1. /\ UpTo(full + 1, events) /\ UpTo(full + 1, batch.gestures) /\ UpTo(full + 1, broadcast)
        /\ ~In(full + 1, events) /\ ~In(full + 1, batch.gestures) /\ ~In(full + 1, broadcast)
    BY Grown DEF GesturesInv
  <2>2. \A c \in clients : UpTo(full + 1, c.gestures) /\ ~In(full + 1, c.gestures)
    BY Grown DEF GesturesInv
  <2>3. PICK g \in Nat : g = full + 1
    BY DEF GesturesInv
  <2>4. UpTo(g, events') /\ \A h \in Nat : In(h, events') => In(h, events) \/ h = g
    <3>1. events \in Seq(Nat) /\ g <= g
      BY <2>1 DEF UpTo
    <3> QED BY <1>4, <2>1, <2>3, <3>1, Appended
  <2>5. Disjoint(events', batch.gestures) /\ Disjoint(events', broadcast)
    BY <2>1, <2>3, <2>4 DEF GesturesInv, Disjoint
  <2>6. \A c \in clients : Disjoint(events', c.gestures)
    BY <2>2, <2>3, <2>4 DEF GesturesInv, Disjoint
  <2> QED BY <1>1, <1>4, <2>1, <2>2, <2>3, <2>4, <2>5, <2>6 DEF GesturesInv
<1> QED BY <1>1, <1>2, <1>3, <1>4

LEMMA DispatchGestures ==
  ASSUME GesturesInv, NEW c \in clients, System!Dispatch(c)
  PROVE  GesturesInv'
<1>1. UNCHANGED <<gesture, swipe, full, events, batch>>
  BY DEF System!Dispatch, System!compositor, System!server, System!shellState
<1>2. CASE broadcast' = broadcast /\ clients' = clients \ {c}
  BY <1>1, <1>2 DEF GesturesInv
<1>3. CASE /\ broadcast' = Append(broadcast, Head(c.gestures))
           /\ clients' = (clients \ {c}) \cup
                {d \in {[c EXCEPT !.gestures = Tail(@)]} : d.gestures # <<>>}
  <2>0. DOMAIN c = {"to", "gestures"} /\ \A d \in clients : DOMAIN d = {"to", "gestures"}
    BY DEF GesturesInv
  <2>1. PICK s \in Seq(Nat) : s = c.gestures
    BY DEF GesturesInv, UpTo
  <2>2. PICK n \in Nat : n = full
    BY DEF GesturesInv
  <2>3. PICK g : g = Head(s)
    OBVIOUS
  <2>4. PICK t : t = Tail(s)
    OBVIOUS
  <2>5. s # <<>> /\ UpTo(n, s)
    BY <2>1, <2>2 DEF GesturesInv
  <2>6. /\ g \in Nat /\ g <= n /\ In(g, s) /\ ~In(g, t) /\ UpTo(n, t)
        /\ \A h \in Nat : In(h, t) => In(h, s)
    BY <2>3, <2>4, <2>5, FirstTaken
  <2>7. /\ ~In(g, broadcast) /\ ~In(g, events) /\ ~In(g, batch.gestures)
        /\ \A d \in clients : d # c => ~In(g, d.gestures)
    BY <2>1, <2>6 DEF GesturesInv, Disjoint
  <2>8. UpTo(n, broadcast') /\ \A h \in Nat : In(h, broadcast') => In(h, broadcast) \/ h = g
    <3>1. broadcast' = Append(broadcast, g)
      BY <1>3, <2>1, <2>3
    <3>2. broadcast \in Seq(Nat) /\ UpTo(n, broadcast)
      BY <2>2 DEF GesturesInv, UpTo
    <3> QED BY <2>6, <2>7, <3>1, <3>2, Appended
  <2>9. ASSUME NEW d \in clients'
        PROVE  \/ d \in clients /\ d # c
               \/ d.gestures = t /\ t # <<>> /\ d = [c EXCEPT !.gestures = t]
    <3>1. CASE d \in clients \ {c}
      BY <3>1
    <3>2. CASE d = [c EXCEPT !.gestures = Tail(@)] /\ d.gestures # <<>>
      <4>1. d = [c EXCEPT !.gestures = t]
        BY <2>1, <2>4, <3>2
      <4>2. d.gestures = t
        BY <2>0, <4>1, Rest
      <4> QED BY <3>2, <4>1, <4>2
    <3> QED BY <1>3, <3>1, <3>2
  <2>10. /\ Disjoint(events, t) /\ Disjoint(batch.gestures, t) /\ Disjoint(broadcast', t)
         /\ Disjoint(events, broadcast') /\ Disjoint(batch.gestures, broadcast')
    BY <2>1, <2>6, <2>7, <2>8 DEF GesturesInv, Disjoint
  <2>11. \A d \in clients : d # c => /\ Disjoint(t, d.gestures) /\ Disjoint(d.gestures, t)
                                     /\ Disjoint(broadcast', d.gestures)
    BY <2>1, <2>6, <2>7, <2>8 DEF GesturesInv, Disjoint
  <2>12. ASSUME NEW d \in clients'
         PROVE  /\ UpTo(full, d.gestures) /\ d.gestures # <<>>
                /\ Disjoint(events, d.gestures) /\ Disjoint(batch.gestures, d.gestures)
                /\ Disjoint(broadcast', d.gestures)
    BY <2>2, <2>6, <2>9, <2>10, <2>11 DEF GesturesInv
  <2>14. \A d \in clients' : DOMAIN d = {"to", "gestures"}
    BY <2>0, <2>9, Rest
  <2>13. ASSUME NEW d \in clients', NEW e \in clients', d # e
         PROVE  Disjoint(d.gestures, e.gestures)
    BY <2>9, <2>11, <2>13 DEF GesturesInv
  <2> QED BY <1>1, <2>2, <2>8, <2>10, <2>12, <2>13, <2>14 DEF GesturesInv
<1> QED BY <1>2, <1>3 DEF System!Dispatch

LEMMA StepGestures == GesturesInv /\ [System!Next]_System!systemVars => GesturesInv'
<1> SUFFICES ASSUME GesturesInv, [System!Next]_System!systemVars PROVE GesturesInv'
  OBVIOUS
<1> USE DEF System!compositor, System!files, System!server, System!shellState
<1>1. CASE \E n \in Fingers : System!SwipeBegin(n)
  BY <1>1 DEF System!SwipeBegin, GesturesInv
<1>2. ASSUME NEW by \in {-1, 1}, System!SwipeUpdate(by) PROVE GesturesInv'
  BY <1>2 DEF System!SwipeUpdate, GesturesInv
<1>3. ASSUME NEW undone \in BOOLEAN, System!SwipeEnd(undone) PROVE GesturesInv'
  BY <1>3, SwipeEndGestures
<1>4. CASE \/ System!AppdStarts \/ System!EmptyPort \/ System!WritePort \/ System!WriteToken \/ System!AppdEnds
           \/ \E c \in clients : System!Lose(c)
           \/ System!Resumed \/ System!ReadToken \/ System!ReadPort \/ UNCHANGED System!systemVars
  <2>1. UNCHANGED <<gesture, swipe, full, events, batch, broadcast>> /\ clients' \subseteq clients
    BY <1>4 DEF System!AppdStarts, System!EmptyPort, System!WritePort, System!WriteToken, System!AppdEnds, System!Lose, System!Resumed, System!ReadToken,
                System!ReadPort, System!systemVars
  <2> QED BY <2>1 DEF GesturesInv
<1>5. ASSUME NEW c \in clients, System!Dispatch(c) PROVE GesturesInv'
  BY <1>5, DispatchGestures
<1>6. CASE System!TakeGestures
  <2>1. /\ UNCHANGED <<gesture, swipe, full, clients, broadcast>> /\ events' = <<>>
        /\ batch' = batch \/ (batch' = [to |-> endpoint, gestures |-> events] /\ events # <<>>)
    BY <1>6 DEF System!TakeGestures
  <2>2. batch'.gestures = batch.gestures \/ batch'.gestures = events
    BY <2>1
  <2> QED BY <2>1, <2>2, Empties, Turned DEF GesturesInv
<1>7. CASE System!Exits
  BY <1>7, Empties DEF System!Exits, GesturesInv, System!NoBatch
<1>8. CASE System!ForwardGestures
  <2>1. /\ UNCHANGED <<gesture, swipe, full, events, broadcast>> /\ batch # System!NoBatch
        /\ batch'.gestures = <<>> /\ clients' \in {clients, clients \cup {batch}}
    BY <1>8 DEF System!ForwardGestures, System!NoBatch
  <2>2. batch' = System!NoBatch
    BY <1>8 DEF System!ForwardGestures
  <2>3. DOMAIN batch' = {"to", "gestures"}
    BY <2>2 DEF System!NoBatch
  <2>4. batch.gestures # <<>>
    BY <2>1 DEF GesturesInv
  <2> QED BY <2>1, <2>2, <2>3, <2>4, Empties, Turned DEF GesturesInv
<1> QED BY <1>1, <1>2, <1>3, <1>4, <1>5, <1>6, <1>7, <1>8 DEF System!Next

\* Over any swipes, batches, connections and steps of any lives of weft-appd
\* between which the files are read: a gesture is broadcast once at most, and is a
\* swipe that ended as one; the token of a weft-appd that wrote its port is used at
\* its own port, a later one's or the default, never at an earlier one's.
THEOREM ForwardingStaysSound == Spec => []ForwardingSound
<1> DEFINE Inv == GesturesInv /\ EndpointInv
<1>1. Init => Inv
  BY InitGestures, InitEndpoint DEF Init
<1>2. Inv /\ [Next]_vars => Inv'
  BY PartSteps, StepGestures, StepEndpoint
<1>3. GesturesInv => System!GesturesOnce
  BY DEF GesturesInv, UpTo, Distinct, System!GesturesOnce
<1>4. Inv => ForwardingSound
  BY <1>3 DEF EndpointInv, ForwardingSound, System!ForwardingSound
<1> QED BY <1>1, <1>2, <1>4, PTL DEF Spec
=============================================================================
