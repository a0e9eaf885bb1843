----------------------------- MODULE FilePortal -----------------------------
(***************************************************************************)
(* weft-file-portal (main.rs): the files of a session's granted            *)
(* directories, read and replaced over several connections, each served by *)
(* a thread of its own.                                                    *)
(*                                                                         *)
(* A content is named after the temporary file it was written to.  A       *)
(* content and a change of a directory are on disk once they are flushed.  *)
(* A name may be swapped for a link out of its directory at any time; the  *)
(* directories a file lies in stay what they are.                          *)
(***************************************************************************)
EXTENDS Naturals, Sequences, FiniteSets

CONSTANTS
  File,            \* the files, numbered from 1
  Grant,           \* the granted directories in their order: the files in each,
                   \* and whether it is writable
  Conn,            \* connections
  MaxConnections,  \* MAX_CONNECTIONS
  MaxWrites,       \* bound: writes of the first portal process, of each next one
                   \* one less
  MaxLives         \* bound: portal processes, one after another

VARIABLES
  life,      \* the portal process: its id and the time of its first write
  next,      \* NEXT, the counter temporary names are made unique by
  conn,      \* what each connection's thread does
  entry,     \* the content each name holds, and each name on disk
  onDisk,
  temporary, \* the temporary files present
  whole,     \* the contents written to their end
  flushed    \* those of them on disk

files == <<entry, onDisk, temporary, whole, flushed>>
portalVars == <<life, next, conn, files>>

Temporary == (1 .. MaxLives) \X (0 .. MaxWrites - 1)
First(f) == <<0, f>>   \* what a name holds at first
Outside == <<0, 0>>    \* what a link out of the directory leads to
Content == {First(f) : f \in File} \cup {Outside} \cup Temporary
Work == {"none", "idle", "reading", "writing", "flushed", "renamed"}
Idle == [step |-> "idle", file |-> 0, on |-> <<>>]
Closed == [Idle EXCEPT !.step = "none"]

TypeOK ==
  /\ life \in 1 .. MaxLives /\ next \in 0 .. MaxWrites
  /\ \A c \in Conn :
       /\ conn[c].step \in Work
       /\ conn[c].step \in {"reading", "writing", "flushed", "renamed"} =>
            conn[c].file \in File /\ conn[c].on \in Content
  /\ entry \in [File -> Content] /\ onDisk \in [File -> Content]
  /\ temporary \subseteq Temporary
  /\ whole \subseteq Content /\ flushed \subseteq whole

Init ==
  /\ life = 1 /\ next = 0
  /\ conn = [c \in Conn |-> Closed]
  /\ entry = [f \in File |-> First(f)] /\ onDisk = entry
  /\ temporary = {} /\ flushed = {First(f) : f \in File}
  /\ whole = flushed

Becomes(c, work) == conn' = [conn EXCEPT ![c] = work]
On(c, step) == conn[c].step = step

(***************************************************************************)
(* Connections.                                                            *)
(***************************************************************************)
\* active: a slot is held as long as its thread runs.
Served == {c \in Conn : ~On(c, "none")}

\* A connection beyond the limit is told so and dropped.
Accept(c) ==
  /\ On(c, "none") /\ Cardinality(Served) < MaxConnections
  /\ Becomes(c, Idle)
  /\ UNCHANGED <<life, next, files>>

\* The client is gone or silent: the slot is released with the thread.
Close(c) ==
  /\ On(c, "idle")
  /\ Becomes(c, Closed)
  /\ UNCHANGED <<life, next, files>>

(***************************************************************************)
(* Requests.                                                               *)
(***************************************************************************)
\* locate: the first granted directory that holds the file, of the writable
\* ones if it is to be written.
Located(f, write) ==
  \E i \in DOMAIN Grant : f \in Grant[i].files /\ (Grant[i].writable \/ ~write)

\* Someone swaps the file for a link that leads out of its directory.
SwappedForLink(f) ==
  /\ entry' = [entry EXCEPT ![f] = Outside] /\ onDisk' = [onDisk EXCEPT ![f] = Outside]
  /\ UNCHANGED <<life, next, conn, temporary, whole, flushed>>

\* A mutant: the name is opened wherever it leads.
MutantFollows(f) == TRUE
\* openat2: what is opened lies beneath the granted directory.
OpenBeneath(f) == entry[f] # Outside

\* read: what is opened stays the same content while it is read.
OpenToRead(c, f) ==
  /\ On(c, "idle") /\ Located(f, FALSE) /\ OpenBeneath(f)
  /\ Becomes(c, [step |-> "reading", file |-> f, on |-> entry[f]])
  /\ UNCHANGED <<life, next, files>>

Read(c) ==
  /\ On(c, "reading") /\ Becomes(c, Idle)
  /\ UNCHANGED <<life, next, files>>

\* The name of the temporary file of the next write.
Name == <<life, next>>

\* write: a new temporary file beside the file, which must not exist yet.
Create(c, f) ==
  /\ On(c, "idle") /\ Located(f, TRUE) /\ next + life <= MaxWrites
  /\ next' = next + 1
  /\ IF Name \in temporary
     THEN UNCHANGED <<conn, temporary>>
     ELSE /\ Becomes(c, [step |-> "writing", file |-> f, on |-> Name])
          /\ temporary' = temporary \cup {Name}
  /\ UNCHANGED <<life, entry, onDisk, whole, flushed>>

\* write_all.
Fill(c) ==
  /\ On(c, "writing") /\ whole' = whole \cup {conn[c].on}
  /\ UNCHANGED <<life, next, conn, entry, onDisk, temporary, flushed>>

\* A mutant: the data is not flushed before the rename.
MutantUnflushed(c) ==
  /\ On(c, "writing") /\ conn[c].on \in whole
  /\ Becomes(c, [conn[c] EXCEPT !.step = "flushed"])
  /\ UNCHANGED <<life, next, files>>

\* sync_all.
Flush(c) ==
  /\ On(c, "writing") /\ conn[c].on \in whole
  /\ flushed' = flushed \cup {conn[c].on}
  /\ Becomes(c, [conn[c] EXCEPT !.step = "flushed"])
  /\ UNCHANGED <<life, next, entry, onDisk, temporary, whole>>

\* renameat.
Rename(c) ==
  /\ On(c, "flushed")
  /\ entry' = [entry EXCEPT ![conn[c].file] = conn[c].on]
  /\ temporary' = temporary \ {conn[c].on}
  /\ Becomes(c, [conn[c] EXCEPT !.step = "renamed"])
  /\ UNCHANGED <<life, next, onDisk, whole, flushed>>

\* fsync of the directory, whose failure is not reported.
Finish(c) ==
  /\ On(c, "renamed")
  /\ onDisk' \in {entry, onDisk}
  /\ Becomes(c, Idle)
  /\ UNCHANGED <<life, next, entry, temporary, whole, flushed>>

\* A step of the write fails; the temporary file is removed if it can be.
Fail(c) ==
  /\ On(c, "writing") \/ On(c, "flushed")
  /\ temporary' \in {temporary, temporary \ {conn[c].on}}
  /\ Becomes(c, Idle)
  /\ UNCHANGED <<life, next, entry, onDisk, whole, flushed>>

(***************************************************************************)
(* The session ends and its portal is killed; the next one starts.  What   *)
(* was being written stays behind.                                         *)
(***************************************************************************)
Restart ==
  /\ life < MaxLives /\ life' = life + 1 /\ next' = 0
  /\ conn' = [c \in Conn |-> Closed]

Killed == Restart /\ UNCHANGED files

\* The names made so far.
Made == {name \in Temporary : name[1] < life \/ (name[1] = life /\ name[2] < next)}

\* The machine stops: a change of a directory may not have reached the disk,
\* so that a temporary name already renamed or removed may be back, and a
\* content not flushed may be cut short.
PowerLost ==
  /\ Restart
  /\ entry' \in {e \in [File -> Content] : \A f \in File : e[f] \in {entry[f], onDisk[f]}}
  /\ onDisk' = entry'
  /\ temporary' \in SUBSET Made
  /\ \E cut \in SUBSET (whole \ flushed) : whole' = whole \ cut
  /\ flushed' = whole'

Next ==
  \/ \E c \in Conn :
       \/ Accept(c) \/ Close(c)
       \/ \E f \in File : OpenToRead(c, f) \/ Create(c, f)
       \/ Read(c) \/ Fill(c) \/ Flush(c) \/ Rename(c) \/ Finish(c) \/ Fail(c)
  \/ \E f \in File : SwappedForLink(f)
  \/ Killed \/ PowerLost

Spec == Init /\ [][Next]_portalVars

\* "The file holds either the old or the new content": under its name, and in
\* what a connection reads while others replace it, always one whole content
\* of this directory, over failed steps, a portal killed, a machine stopped and
\* a name swapped for a link at any of them.  The portal changes no file in no
\* writable directory, and a temporary file left behind never stands in the
\* way of a write.
WritesAreWhole ==
  /\ \A f \in File :
       /\ entry[f] \in whole \cup {Outside}
       /\ ~Located(f, TRUE) => entry[f] \in {First(f), Outside}
  /\ \A c \in Conn : On(c, "reading") => conn[c].on \in whole
  /\ Name \notin temporary
=============================================================================
