--------------------------- MODULE SessionRestore ---------------------------
(***************************************************************************)
(* The list of open applications weft-appd keeps over its restarts         *)
(* (main.rs, run): saved when it is stopped, read and removed when it      *)
(* starts, and launched again one by one beside its other work.            *)
(*                                                                         *)
(* A list is a number of instances for each application: the order is not  *)
(* kept.  AppdSession has what a session goes through.                     *)
(***************************************************************************)
EXTENDS Naturals, FiniteSets

CONSTANTS
  App,     \* applications
  MaxOpen  \* bound: sessions of one application

VARIABLES
  phase,    \* weft-appd: "down", "starting", "loaded", "serving",
            \* "stopping" or "saved"
  file,     \* last-session.json
  saved,    \* the list that was loaded, or is being saved
  todo,     \* what the restore task has not dispatched yet
  running,  \* sessions that are starting or running
  stopping, \* sessions that are being stopped
  \* history
  asked,    \* running sessions asked to close, that have not answered
  open,     \* what the user has open, or had when weft-appd ended
  touched,  \* whether this changed while the restore was unfinished
  gone      \* whether weft-appd ended without having saved it

restoreVars == <<phase, file, saved, todo, running, stopping, asked, open, touched, gone>>

List == [App -> 0 .. MaxOpen]
Empty == [a \in App |-> 0]
Unreadable == [a \in App |-> MaxOpen + 1]  \* cut short by a crash
Add(list, a) == [list EXCEPT ![a] = @ + 1]
Less(list, a) == [list EXCEPT ![a] = @ - 1]
Sum(l, m) == [a \in App |-> l[a] + m[a]]

TypeOK ==
  /\ phase \in {"down", "starting", "loaded", "serving", "stopping", "saved"}
  /\ file \in List \cup {Unreadable}
  /\ {saved, todo, running, stopping, asked, open} \subseteq List
  /\ touched \in BOOLEAN /\ gone \in BOOLEAN

Init ==
  /\ phase = "down" /\ file = Empty /\ touched = FALSE /\ gone = FALSE
  /\ saved = Empty /\ todo = Empty /\ running = Empty /\ stopping = Empty
  /\ asked = Empty /\ open = Empty

\* The list the file holds.
Readable == IF file = Unreadable THEN Empty ELSE file

Restoring == phase = "loaded" /\ todo # Empty
Up == phase \in {"loaded", "serving"}

AppdStarts ==
  /\ phase = "down" /\ phase' = "starting"
  /\ UNCHANGED <<file, saved, todo, running, stopping, asked, open, touched, gone>>

\* load_session: the list is read, and then the file removed.
Load ==
  /\ phase = "starting" /\ phase' = "loaded"
  /\ saved' = Readable
  /\ todo' = saved' /\ file' = Empty
  /\ open' = IF touched \/ gone THEN saved' ELSE open
  /\ touched' = FALSE /\ gone' = FALSE
  /\ UNCHANGED <<running, stopping, asked>>

\* The restore task dispatches a launch, which may be refused.
Restore(a) ==
  /\ Restoring /\ todo[a] > 0
  /\ todo' = Less(todo, a)
  /\ \/ running' = Add(running, a) /\ UNCHANGED <<open, touched>>
     \/ open' = Less(open, a) /\ touched' = TRUE /\ UNCHANGED running
  /\ UNCHANGED <<phase, file, saved, stopping, asked, gone>>

\* The restore task is finished.
Restored ==
  /\ phase = "loaded" /\ todo = Empty
  /\ phase' = "serving" /\ touched' = FALSE
  /\ UNCHANGED <<file, saved, todo, running, stopping, asked, open, gone>>

\* The user's launches.
Launch(a) ==
  /\ Up /\ running[a] + stopping[a] + todo[a] < MaxOpen
  /\ running' = Add(running, a) /\ open' = Add(open, a)
  /\ touched' = (phase = "loaded")
  /\ UNCHANGED <<phase, file, saved, todo, stopping, asked, gone>>

\* terminate: a close asked of a running session is queued for its supervisor,
\* and the session stays running; the page may decline it.
AskClose(a) ==
  /\ Up /\ asked[a] < running[a] /\ asked' = Add(asked, a)
  /\ UNCHANGED <<phase, file, saved, todo, running, stopping, open, touched, gone>>

Declined(a) ==
  /\ Up /\ asked[a] > 0 /\ asked' = Less(asked, a)
  /\ UNCHANGED <<phase, file, saved, todo, running, stopping, open, touched, gone>>

\* A session is stopped, by force or while it starts, because it agreed to
\* close or did not answer, or because a child of it ended.
Ends(a) ==
  /\ Up /\ running[a] > 0
  /\ running' = Less(running, a) /\ open' = Less(open, a)
  /\ asked' \in {l \in {asked, Less(asked, a)} : l[a] \in 0 .. running'[a]}
  /\ stopping' \in {stopping, Add(stopping, a)}
  /\ touched' = (phase = "loaded")
  /\ UNCHANGED <<phase, file, saved, todo, gone>>

\* A session that was being stopped has stopped.
Settled(a) ==
  /\ Up /\ stopping[a] > 0 /\ stopping' = Less(stopping, a)
  /\ UNCHANGED <<phase, file, saved, todo, running, asked, open, touched, gone>>

\* A mutant: sessions being stopped count as running.
MutantAppIds == Sum(running, stopping)

\* running_app_ids.
RunningAppIds == running

\* A mutant: what runs is saved, though the restore is unfinished.
MutantSavesRunning == RunningAppIds

\* "Until it finishes, the restored list is what a shutdown saves."
ToSave == IF phase = "loaded" THEN saved ELSE RunningAppIds

\* SIGTERM: the restore task is given up.  The file is written in place.
Stop ==
  /\ Up /\ phase' = "stopping"
  /\ saved' = ToSave
  /\ file' = Unreadable
  /\ running' = Empty /\ stopping' = Empty /\ todo' = Empty
  /\ UNCHANGED <<asked, open, touched, gone>>

\* save_session is done; that it failed is not noticed.
Saved ==
  /\ phase = "stopping" /\ phase' = "saved"
  /\ \/ file' = saved /\ UNCHANGED <<touched, gone>>
     \/ file' \in {Empty, Unreadable} /\ gone' = TRUE /\ touched' = FALSE
  /\ UNCHANGED <<saved, todo, running, stopping, asked, open>>

\* weft-appd ends, or is killed, and with it every session.  Until the list
\* has been loaded, and once it has been saved, it outlives this.
AppdEnds ==
  /\ phase # "down" /\ phase' = "down"
  /\ IF phase \in {"starting", "saved"}
     THEN UNCHANGED <<touched, gone>>
     ELSE gone' = TRUE /\ touched' = FALSE
  /\ saved' = Empty /\ todo' = Empty /\ running' = Empty /\ stopping' = Empty
  /\ asked' = Empty
  /\ UNCHANGED <<file, open>>

Next ==
  \/ AppdStarts \/ Load \/ Restored \/ Stop \/ Saved \/ AppdEnds
  \/ \E a \in App :
       \/ Restore(a) \/ Launch(a)
       \/ AskClose(a) \/ Declined(a) \/ Ends(a) \/ Settled(a)

Spec == Init /\ [][Next]_restoreVars

\* weft-appd starts with the list of exactly what the user had open when it
\* ended, a session being stopped not among it, or with nothing at all if it
\* ended without having saved that: it was killed, at whatever step between the
\* removal of the old list and the end of the new one, or could not write it.
\* While it runs, all that was on the list and was not closed since is open or
\* still to be launched.  Stops and kills in the middle of an earlier restore
\* make no difference, unless the open applications changed meanwhile.
RestoresWhatWasOpen ==
  /\ phase \in {"down", "starting", "saved"} /\ ~touched =>
       Readable = IF gone THEN Empty ELSE open
  /\ Up => Sum(running, todo) = open
=============================================================================
