--------------------------- MODULE FilePartsProofs --------------------------
(*****************************************************************************)
(* Proofs about the parts that keep files: FilePortal, ImageMounts and       *)
(* AppData.                                                                  *)
(*****************************************************************************)
EXTENDS Parts, FiniteSetTheorems, TLAPS

\* A step of the parts is a step of each of them, or none.
LEMMA PartSteps ==
  [Next]_vars =>
    /\ [Files!Next]_Files!portalVars
    /\ [Mounts!Next]_Mounts!mountVars
    /\ [Data!Next]_Data!dataVars
BY DEF Next, vars, Others, portalVars, mountVars, dataVars, Files!portalVars, Files!files,
       Mounts!mountVars, Data!dataVars

-----------------------------------------------------------------------------
(*****************************************************************************)
(* FilePortal, for any connections, files, directories and writes.           *)
(*****************************************************************************)

(***************************************************************************)
(* The inductive invariant.                                                *)
(***************************************************************************)
Value == {Files!First(f) : f \in File} \cup (Nat \X Nat) \cup {<<>>}

\* The contents that may stand under a name: those on disk.
Sound(f) == IF Files!Located(f, TRUE) THEN flushed \cup {Files!Outside} ELSE {Files!First(f), Files!Outside}

PortalTyped ==
  /\ life \in Nat /\ next \in Nat
  /\ conn \in [Conn -> [step : Files!Work, file : File \cup {0}, on : Value]]
  /\ flushed \subseteq whole /\ whole \subseteq Value
  /\ \A f \in File : Files!First(f) \in flushed

\* Names hold contents on disk, now and after the machine has stopped.
EntriesSound ==
  /\ entry \in [File -> Value] /\ onDisk \in [File -> Value]
  /\ \A f \in File : entry[f] \in Sound(f) /\ onDisk[f] \in Sound(f)

\* What a connection reads, and what it is about to rename, is on disk; it
\* writes only to a file of a writable directory.
WorkSound ==
  \A c \in Conn :
    /\ conn[c].step \in {"reading", "flushed", "renamed"} => conn[c].on \in flushed
    /\ conn[c].step \in {"writing", "flushed"} =>
         conn[c].file \in File /\ Files!Located(conn[c].file, TRUE)

\* The names of temporary files are used up.
NamesUsed == \A t \in temporary :
  t \in Nat \X Nat /\ (t[1] < life \/ (t[1] = life /\ t[2] < next))

PortalInv == PortalTyped /\ EntriesSound /\ WorkSound /\ NamesUsed

-----------------------------------------------------------------------------
\* A portal starts with what the directories hold.
LEMMA InitPortal == Files!Init => PortalInv
<1> SUFFICES ASSUME Files!Init PROVE PortalInv
  OBVIOUS
<1>1. PortalTyped
  BY DEF Files!Init, PortalTyped, Files!Closed, Files!Idle, Files!Work, Value, Files!First
<1>2. EntriesSound
  BY DEF Files!Init, EntriesSound, Sound, Value
<1>3. WorkSound
  BY DEF Files!Init, WorkSound, Files!Closed, Files!Idle
<1> QED BY <1>1, <1>2, <1>3 DEF Files!Init, NamesUsed, PortalInv

\* What a step of one connection must keep, when the directories stay.
LEMMA ConnStep ==
  ASSUME PortalInv, NEW c \in Conn, NEW work, Files!Becomes(c, work),
         work \in [step : Files!Work, file : File \cup {0}, on : Value],
         work.step \in {"reading", "flushed", "renamed"} => work.on \in flushed',
         work.step \in {"writing", "flushed"} =>
           work.file \in File /\ Files!Located(work.file, TRUE),
         flushed \subseteq flushed', flushed' \subseteq whole', whole' \subseteq Value,
         life' = life, next' \in Nat
  PROVE  PortalTyped' /\ WorkSound'
<1>1. PortalTyped'
  BY DEF PortalInv, PortalTyped, Files!Becomes, Files!First
<1>2. WorkSound'
  BY DEF PortalInv, PortalTyped, WorkSound, Files!Becomes, Files!Located
<1> QED BY <1>1, <1>2

\* A step that leaves the names alone leaves them sound.
LEMMA NamesStay ==
  ASSUME PortalInv, entry' = entry, onDisk' \in {entry, onDisk}, flushed \subseteq flushed'
  PROVE  EntriesSound'
BY DEF PortalInv, EntriesSound, Sound, Files!Located, Files!First, Files!Outside

\* A step that adds no temporary file leaves their names used up.
LEMMA NamesStayUsed ==
  ASSUME PortalInv, temporary' \subseteq temporary, life' = life, next' = next
  PROVE  NamesUsed'
BY DEF PortalInv, NamesUsed

\* Connections come and go.
LEMMA ConnectionSteps ==
  ASSUME PortalInv, NEW c \in Conn, Files!Accept(c) \/ Files!Close(c) \/ Files!Read(c)
  PROVE  PortalInv'
<1>1. PICK work \in {Files!Idle, Files!Closed} : Files!Becomes(c, work)
  BY DEF Files!Accept, Files!Close, Files!Read
<1>2. UNCHANGED <<life, next, Files!files>>
  BY DEF Files!Accept, Files!Close, Files!Read
<1>3. PortalTyped' /\ WorkSound'
  BY <1>1, <1>2, ConnStep DEF Files!files, Files!Idle, Files!Closed, Files!Work, Value, PortalInv, PortalTyped
<1>4. EntriesSound'
  BY <1>2, NamesStay DEF Files!files
<1> QED BY <1>2, <1>3, <1>4, NamesStayUsed DEF Files!files, PortalInv

\* What is read is what the name holds, which is no link out of the directory.
LEMMA OpenToReadStep ==
  ASSUME PortalInv, NEW c \in Conn, NEW f \in File, Files!OpenToRead(c, f)
  PROVE  PortalInv'
<1>1. entry[f] \in flushed /\ entry[f] \in Value
  BY DEF Files!OpenToRead, Files!OpenBeneath, PortalInv, EntriesSound, Sound, PortalTyped
<1>2. PortalTyped' /\ WorkSound'
  BY <1>1, ConnStep DEF Files!OpenToRead, Files!files, Files!Work, PortalInv, PortalTyped
<1>3. EntriesSound'
  BY NamesStay DEF Files!OpenToRead, Files!files
<1> QED BY <1>2, <1>3, NamesStayUsed DEF Files!OpenToRead, Files!files, PortalInv

\* A link that leads out is no content, and may stand under any name.
LEMMA SwappedStep ==
  ASSUME PortalInv, NEW f \in File, Files!SwappedForLink(f)
  PROVE  PortalInv'
<1>1. EntriesSound'
  BY DEF Files!SwappedForLink, PortalInv, EntriesSound, Sound, Files!Located, Value, Files!Outside
<1>2. PortalTyped' /\ WorkSound' /\ NamesUsed'
  BY DEF Files!SwappedForLink, PortalInv, PortalTyped, WorkSound, NamesUsed
<1> QED BY <1>1, <1>2 DEF PortalInv

\* The name of a new temporary file was not used before.
LEMMA CreateStep ==
  ASSUME PortalInv, NEW c \in Conn, NEW f \in File, Files!Create(c, f)
  PROVE  PortalInv'
<1>0. Files!Name \in Nat \X Nat /\ Files!Name \notin temporary
  BY DEF Files!Name, PortalInv, PortalTyped, NamesUsed
<1>1. UNCHANGED <<life, entry, onDisk, whole, flushed>> /\ next' = next + 1
  BY DEF Files!Create
<1>2. Files!Becomes(c, [step |-> "writing", file |-> f, on |-> Files!Name])
      /\ temporary' = temporary \cup {Files!Name}
  BY <1>0 DEF Files!Create
<1> DEFINE work == [step |-> "writing", file |-> f, on |-> Files!Name]
<1>a. work \in [step : Files!Work, file : File \cup {0}, on : Value]
  BY <1>0 DEF Files!Work, Value
<1>b. work.step = "writing" /\ work.file = f /\ Files!Located(f, TRUE)
  BY DEF Files!Create
<1>c. next' \in Nat /\ Files!Becomes(c, work)
  BY <1>1, <1>2 DEF PortalInv, PortalTyped
<1> HIDE DEF work
<1>3. PortalTyped' /\ WorkSound'
  BY <1>1, <1>a, <1>b, <1>c, ConnStep DEF PortalInv, PortalTyped
<1>4. EntriesSound'
  BY <1>1, NamesStay
<1>5. NamesUsed'
  BY <1>0, <1>1, <1>2 DEF NamesUsed, Files!Name, PortalInv, PortalTyped
<1> QED BY <1>3, <1>4, <1>5 DEF PortalInv

\* Writing the content changes nothing another step relies on.
LEMMA FillStep ==
  ASSUME PortalInv, NEW c \in Conn, Files!Fill(c)
  PROVE  PortalInv'
BY DEF Files!Fill, PortalInv, PortalTyped, EntriesSound, WorkSound, NamesUsed, Sound, Files!Located

\* A content is flushed once it is whole.
LEMMA FlushStep ==
  ASSUME PortalInv, NEW c \in Conn, Files!Flush(c)
  PROVE  PortalInv'
<1> DEFINE work == [conn[c] EXCEPT !.step = "flushed"]
<1>1. /\ conn[c].on \in whole /\ flushed' = flushed \cup {conn[c].on}
      /\ UNCHANGED <<life, next, entry, onDisk, temporary, whole>>
      /\ Files!Becomes(c, work) /\ conn[c].step = "writing"
  BY DEF Files!Flush, Files!On
<1>2. /\ work \in [step : Files!Work, file : File \cup {0}, on : Value]
      /\ work.step = "flushed" /\ work.on = conn[c].on /\ work.file = conn[c].file
      /\ conn[c].on \in Value
  BY DEF PortalInv, PortalTyped, Files!Work
<1>3. work.file \in File /\ Files!Located(work.file, TRUE)
  BY <1>1, <1>2 DEF PortalInv, WorkSound
<1> HIDE DEF work
<1>4. PortalTyped' /\ WorkSound'
  BY <1>1, <1>2, <1>3, ConnStep DEF PortalInv, PortalTyped
<1>5. EntriesSound'
  BY <1>1, NamesStay
<1> QED BY <1>1, <1>4, <1>5, NamesStayUsed DEF PortalInv

\* What is renamed is on disk.
LEMMA RenameStep ==
  ASSUME PortalInv, NEW c \in Conn, Files!Rename(c)
  PROVE  PortalInv'
<1> DEFINE work == [conn[c] EXCEPT !.step = "renamed"]
<1>1. /\ entry' = [entry EXCEPT ![conn[c].file] = conn[c].on]
      /\ temporary' \subseteq temporary
      /\ UNCHANGED <<life, next, onDisk, whole, flushed>>
      /\ Files!Becomes(c, work) /\ conn[c].step = "flushed"
  BY DEF Files!Rename, Files!On
<1>2. /\ work \in [step : Files!Work, file : File \cup {0}, on : Value]
      /\ work.step = "renamed" /\ work.on = conn[c].on
      /\ conn[c].on \in Value
  BY DEF PortalInv, PortalTyped, Files!Work
<1>3. /\ conn[c].on \in flushed
      /\ conn[c].file \in File /\ Files!Located(conn[c].file, TRUE)
  BY <1>1 DEF PortalInv, WorkSound
<1> HIDE DEF work
<1>4. PortalTyped' /\ WorkSound'
  BY <1>1, <1>2, <1>3, ConnStep DEF PortalInv, PortalTyped
<1>5. EntriesSound'
  BY <1>1, <1>2, <1>3 DEF PortalInv, EntriesSound, Sound, Files!Located
<1> QED BY <1>1, <1>4, <1>5, NamesStayUsed DEF PortalInv

\* The end of a write, and a write that fails.
LEMMA FinishSteps ==
  ASSUME PortalInv, NEW c \in Conn, Files!Finish(c) \/ Files!Fail(c)
  PROVE  PortalInv'
<1>1. /\ Files!Becomes(c, Files!Idle) /\ onDisk' \in {entry, onDisk}
      /\ temporary' \subseteq temporary
      /\ UNCHANGED <<life, next, entry, whole, flushed>>
  BY DEF Files!Finish, Files!Fail
<1>2. PortalTyped' /\ WorkSound'
  BY <1>1, ConnStep DEF Files!Idle, Files!Work, Value, PortalInv, PortalTyped
<1>3. EntriesSound'
  BY <1>1, NamesStay
<1> QED BY <1>1, <1>2, <1>3, NamesStayUsed DEF PortalInv

\* The next portal has no connection, and names of its own.
LEMMA RestartSteps ==
  ASSUME PortalInv, Files!Killed \/ Files!PowerLost
  PROVE  PortalInv'
<1>1. /\ life' = life + 1 /\ next' = 0 /\ conn' = [c \in Conn |-> Files!Closed]
      /\ temporary' = temporary \/ temporary' \subseteq Files!Made
  BY DEF Files!Killed, Files!PowerLost, Files!Restart, Files!files
<1>2. flushed \subseteq flushed' /\ flushed' \subseteq whole' /\ whole' \subseteq Value
  <2>1. CASE Files!Killed
    BY <2>1 DEF Files!Killed, Files!files, PortalInv, PortalTyped
  <2>2. CASE Files!PowerLost
    <3>1. PICK cut \in SUBSET (whole \ flushed) : whole' = whole \ cut
      BY <2>2 DEF Files!PowerLost
    <3>2. flushed' = whole' /\ flushed \subseteq whole /\ whole \subseteq Value
      BY <2>2 DEF Files!PowerLost, PortalInv, PortalTyped
    <3> QED BY <3>1, <3>2
  <2> QED BY <2>1, <2>2
<1> DEFINE work == Files!Closed
<1>a. work \in [step : Files!Work, file : File \cup {0}, on : Value] /\ work.step = "none"
  BY DEF Files!Closed, Files!Idle, Files!Work, Value
<1> HIDE DEF work
<1>b. conn' = [c \in Conn |-> work]
  BY <1>1 DEF work
<1>c. conn' \in [Conn -> [step : Files!Work, file : File \cup {0}, on : Value]]
  BY <1>a, <1>b
<1>d. \A f \in File : Files!First(f) \in flushed'
  BY <1>2 DEF PortalInv, PortalTyped, Files!First
<1>3. PortalTyped' /\ WorkSound'
  <2>1. life' \in Nat /\ next' \in Nat
    BY <1>1 DEF PortalInv, PortalTyped
  <2>2. PortalTyped'
    BY <1>2, <1>c, <1>d, <2>1 DEF PortalTyped, Files!First
  <2>3. WorkSound'
    BY <1>a, <1>b DEF WorkSound
  <2> QED BY <2>2, <2>3
<1>4. EntriesSound'
  BY <1>2 DEF Files!Killed, Files!PowerLost, Files!files, PortalInv, EntriesSound, Sound, Files!Located
<1>5. NamesUsed'
  <2>1. life \in Nat
    BY DEF PortalInv, PortalTyped
  <2> SUFFICES ASSUME NEW t \in temporary'
               PROVE  t \in Nat \X Nat /\ t[1] < life'
    BY DEF NamesUsed
  <2>2. t \in Nat \X Nat /\ t[1] \in Nat /\ (t[1] < life \/ t[1] = life)
    <3>1. CASE t \in temporary
      BY <3>1 DEF PortalInv, NamesUsed
    <3>2. CASE t \in Files!Made
      BY <3>2 DEF Files!Made, Files!Temporary
    <3> QED BY <1>1, <3>1, <3>2
  <2> QED BY <1>1, <2>1, <2>2
<1> QED BY <1>3, <1>4, <1>5 DEF PortalInv

\* Every step keeps the invariant.
LEMMA NextPortal == PortalInv /\ [Files!Next]_Files!portalVars => PortalInv'
<1> SUFFICES ASSUME PortalInv, [Files!Next]_Files!portalVars PROVE PortalInv'
  OBVIOUS
<1>1. CASE UNCHANGED Files!portalVars
  BY <1>1 DEF Files!portalVars, Files!files, PortalInv, PortalTyped, EntriesSound, WorkSound, NamesUsed,
     Sound, Files!Located
<1>2. CASE Files!Next
  BY <1>2, ConnectionSteps, OpenToReadStep, SwappedStep, CreateStep, FillStep, FlushStep,
     RenameStep, FinishSteps, RestartSteps DEF Files!Next
<1> QED BY <1>1, <1>2

\* Over any connections, directories and files, power cuts and links put in the
\* way: a file is always one whole content, one whose write was answered is on
\* the disk, and no reader sees a part.
THEOREM WritesStayWhole == Spec => []WritesAreWhole
<1>1. ASSUME PortalInv PROVE WritesAreWhole
  <2>1. ASSUME NEW f \in File
        PROVE  /\ entry[f] \in whole \cup {Files!Outside}
               /\ ~Files!Located(f, TRUE) => entry[f] \in {Files!First(f), Files!Outside}
    BY <1>1 DEF PortalInv, PortalTyped, EntriesSound, Sound
  <2>2. ASSUME NEW c \in Conn, Files!On(c, "reading") PROVE conn[c].on \in whole
    BY <1>1, <2>2 DEF PortalInv, PortalTyped, WorkSound, Files!On
  <2>3. Files!Name \notin temporary
    BY <1>1 DEF PortalInv, PortalTyped, NamesUsed, Files!Name
  <2> QED BY <2>1, <2>2, <2>3 DEF WritesAreWhole, Files!WritesAreWhole
<1>2. Init => PortalInv
  BY InitPortal DEF Init
<1>3. PortalInv /\ [Next]_vars => PortalInv'
  BY PartSteps, NextPortal
<1> QED BY <1>1, <1>2, <1>3, PTL DEF Spec

-----------------------------------------------------------------------------
(*****************************************************************************)
(* ImageMounts, for any helpers and images, any finite number of             *)
(* mountpoints and any limit of devices.                                     *)
(*****************************************************************************)
\* ImageMounts takes Cardinality from FiniteSets as this module does.
LEMMA SameCardinality == \A S : Mounts!Cardinality(S) = Cardinality(S)
BY DEF Mounts!Cardinality, Cardinality


\* What the proofs assume of the constants.
Sizes ==
  /\ IsFiniteSet(Point) /\ MaxDevices \in Nat
  /\ Mounts!Nothing \notin Point \cup Image \cup Helper

MountTyped ==
  /\ device \in [Point -> Image \cup {Mounts!Nothing}]
  /\ mounted \in [Point -> Mounts!Mounted \cup {Mounts!NotMounted}]
  /\ helper \in [Helper -> [step : Mounts!Step, point : Point \cup {Mounts!Nothing},
                            image : Image \cup {Mounts!Nothing}]]
  /\ names \in [Helper -> SUBSET Point]

\* The devices that were opened by a helper, and not for one that was killed.
Counted == Mounts!Devices \ orphaned

\* A helper with work to do has a mountpoint, and an image to mount there.
Imaged == {"checked", "locked", "fresh", "opened", "leftOpen"}
WorkNamed ==
  \A h \in Helper :
    /\ helper[h].step # "idle" => helper[h].point \in Point
    /\ helper[h].step \in Imaged => helper[h].image \in Image

Locked == {"locked", "fresh", "opened", "failed"}

\* Devices are opened by the helper that holds the lock only, but for those
\* opened for a killed one.  It has seen those there are; the one it has opened
\* is its image's, as long as it is open.
HasOpened(h) ==
  \/ device[helper[h].point] \in {helper[h].image, Mounts!Nothing}
  \/ helper[h].point \in orphaned
LockHeld ==
  \A h \in Helper :
    /\ helper[h].step \in Locked => lock = h
    /\ helper[h].step \in {"locked", "fresh"} => Counted \subseteq names[h]
    /\ helper[h].step = "opened" => HasOpened(h)

Verified(p) ==
  mounted[p].image = device[p] /\ (p \in orphaned \/ mounted[p].asked = device[p])
MountedVerified ==
  \A p \in Point : Mounts!IsMounted(p) => Verified(p)

MountInv ==
  /\ MountTyped /\ WorkNamed /\ LockHeld /\ MountedVerified
  /\ Cardinality(Counted) <= MaxDevices

-----------------------------------------------------------------------------
\* Nothing is open or mounted.
LEMMA InitMounts == ASSUME Sizes, Mounts!Init PROVE MountInv
<1>1. Counted = {}
  BY DEF Mounts!Init, Mounts!Devices, Counted
<1>2. Cardinality(Counted) <= MaxDevices
  BY <1>1, FS_EmptySet DEF Sizes
<1>3. MountTyped
  BY DEF Mounts!Init, MountTyped, Mounts!Idle, Mounts!Step, Mounts!NotMounted
<1> QED BY <1>2, <1>3 DEF MountInv, WorkNamed, Imaged, LockHeld, MountedVerified, Mounts!IsMounted, Mounts!Init, Mounts!Idle, Locked

\* Devices that are closed stay within the limit.
LEMMA FewerDevices ==
  ASSUME Sizes, Cardinality(Counted) <= MaxDevices, Counted' \subseteq Counted
  PROVE  Cardinality(Counted') <= MaxDevices
<1>1. IsFiniteSet(Counted) /\ Counted \subseteq Point
  BY FS_Subset DEF Sizes, Mounts!Devices, Counted
<1>2. Cardinality(Counted') <= Cardinality(Counted) /\ IsFiniteSet(Counted')
  BY <1>1, FS_Subset
<1>3. Cardinality(Counted) \in Nat /\ Cardinality(Counted') \in Nat
  BY <1>1, <1>2, FS_CardinalityType
<1> QED BY <1>2, <1>3 DEF Sizes

\* A device stays as it is, is closed while it is not mounted, or is opened for
\* a helper that was killed.
Settled(p) ==
  \/ device'[p] = device[p] /\ (p \in orphaned => p \in orphaned')
  \/ device'[p] = Mounts!Nothing /\ ~Mounts!IsMounted(p)
  \/ device[p] = Mounts!Nothing /\ p \in orphaned'

\* A step of one helper that opens no device of its own and mounts nothing: it may
\* close the device of its mountpoint if that is not mounted, or unmount there.
LEMMA HelperStep ==
  ASSUME Sizes, MountInv, NEW h \in Helper, NEW work,
         work \in [step : Mounts!Step, point : Point \cup {Mounts!Nothing}, image : Image \cup {Mounts!Nothing}],
         helper' = [helper EXCEPT ![h] = work],
         work.step # "idle" => work.point \in Point,
         work.step \in Imaged => work.image \in Image,
         work.step \in Locked => lock' = h,
         work.step \in {"locked", "fresh"} => Counted \subseteq names'[h],
         work.step # "opened",
         lock' = lock \/ lock \in {h, Mounts!Nothing},
         names' \in [Helper -> SUBSET Point],
         \A g \in Helper \ {h} : names'[g] = names[g],
         device' \in [Point -> Image \cup {Mounts!Nothing}],
         \A p \in Point : Settled(p),
         mounted' \in [Point -> Mounts!Mounted \cup {Mounts!NotMounted}],
         \A p \in Point : mounted'[p] \in {mounted[p], Mounts!NotMounted}
  PROVE  MountInv'
<1>1. Counted' \subseteq Counted
  BY DEF Mounts!Devices, Counted, Settled
<1>2. MountTyped'
  BY DEF MountInv, MountTyped
<1>3. \A g \in Helper : helper'[g] = IF g = h THEN work ELSE helper[g]
  BY DEF MountInv, MountTyped
<1>4. WorkNamed'
  BY <1>3 DEF MountInv, WorkNamed, Imaged
<1>5. LockHeld'
  <2> SUFFICES ASSUME NEW g \in Helper
               PROVE  /\ helper'[g].step \in Locked => lock' = g
                      /\ helper'[g].step \in {"locked", "fresh"} => Counted' \subseteq names'[g]
                      /\ helper'[g].step = "opened" => HasOpened(g)'
    BY DEF LockHeld
  <2>1. CASE g = h
    BY <1>1, <1>3, <2>1
  <2>2. CASE g # h
    <3>1. helper'[g] = helper[g] /\ names'[g] = names[g]
      BY <1>3, <2>2
    <3>2. helper[g].step \in Locked => lock' = g
      BY <2>2 DEF MountInv, LockHeld, Sizes
    <3>3. helper[g].step \in {"locked", "fresh"} => Counted' \subseteq names[g]
      BY <1>1 DEF MountInv, LockHeld
    <3>4. helper[g].step = "opened" => HasOpened(g)'
      BY <3>1 DEF MountInv, LockHeld, WorkNamed, Imaged, HasOpened, Settled
    <3> QED BY <3>1, <3>2, <3>3, <3>4
  <2> QED BY <2>1, <2>2
<1>6. MountedVerified'
  <2> SUFFICES ASSUME NEW p \in Point, mounted'[p] # Mounts!NotMounted
               PROVE  Verified(p)'
    BY DEF MountedVerified, Mounts!IsMounted
  <2>1. mounted'[p] = mounted[p] /\ mounted[p] \in Mounts!Mounted /\ Verified(p)
    BY DEF MountInv, MountTyped, MountedVerified, Mounts!IsMounted
  <2>2. device[p] # Mounts!Nothing
    BY <2>1 DEF Verified, Mounts!Mounted, Sizes
  <2>3. device'[p] = device[p] /\ (p \in orphaned => p \in orphaned')
    BY <2>1, <2>2 DEF Settled, Mounts!IsMounted
  <2> QED BY <2>1, <2>3 DEF Verified
<1> QED BY <1>1, <1>2, <1>4, <1>5, <1>6, FewerDevices DEF MountInv

\* Mountpoints come and go.
LEMMA PointSteps ==
  ASSUME MountInv, NEW p \in Point, Mounts!Create(p) \/ Mounts!Remove(p)
  PROVE  MountInv'
<1>1. UNCHANGED <<device, mounted, lock, helper, names, orphaned>>
  BY DEF Mounts!Create, Mounts!Remove
<1> QED BY <1>1 DEF MountInv, MountTyped, WorkNamed, Imaged, LockHeld, HasOpened, MountedVerified, Verified, Mounts!IsMounted, Counted, Mounts!Devices

\* A helper begins.
LEMMA BeginSteps ==
  ASSUME Sizes, MountInv, NEW h \in Helper, NEW p \in Point,
         Mounts!Inspect(h, p) \/ \E i \in Image : Mounts!Check(h, p, i)
  PROVE  MountInv'
<1>1. PICK step \in {"checked", "erofs", "bare"}, image \in Image \cup {Mounts!Nothing} :
        /\ helper' = [helper EXCEPT ![h] = [step |-> step, point |-> p, image |-> image]]
        /\ step = "checked" => image \in Image
  <2>1. CASE \E i \in Image : Mounts!Check(h, p, i)
    BY <2>1 DEF Mounts!Check
  <2>2. CASE Mounts!Inspect(h, p)
    <3> DEFINE step == IF Mounts!IsMounted(p) THEN "erofs" ELSE "bare"
    <3>1. helper' = [helper EXCEPT ![h] = [step |-> step, point |-> p, image |-> Mounts!Nothing]]
      BY <2>2 DEF Mounts!Inspect
    <3>2. step \in {"erofs", "bare"}
      OBVIOUS
    <3> QED BY <3>1, <3>2
  <2> QED BY <2>1, <2>2
<1> DEFINE work == [step |-> step, point |-> p, image |-> image]
<1>2. UNCHANGED <<device, mounted, lock, names, orphaned>>
  BY DEF Mounts!Inspect, Mounts!Check
<1>3. /\ work \in [step : Mounts!Step, point : Point \cup {Mounts!Nothing}, image : Image \cup {Mounts!Nothing}]
      /\ work.step \notin Locked /\ work.step # "idle" /\ work.point \in Point
      /\ work.step \in Imaged => work.image \in Image
  BY <1>1 DEF Mounts!Step, Locked, Imaged
<1>4. helper' = [helper EXCEPT ![h] = work]
  BY <1>1
<1> HIDE DEF work
<1> QED BY <1>2, <1>3, <1>4, HelperStep DEF MountInv, MountTyped, Locked, Imaged, Settled

\* A helper ends: its lock is released.  It may close the device of its
\* mountpoint, or have unmounted there.
LEMMA EndStep ==
  ASSUME Sizes, MountInv, NEW h \in Helper, Mounts!End(h),
         device' \in [Point -> Image \cup {Mounts!Nothing}],
         \A p \in Point : Settled(p),
         UNCHANGED mounted
  PROVE  MountInv'
<1> DEFINE work == Mounts!Idle
<1>1. work \in [step : Mounts!Step, point : Point \cup {Mounts!Nothing}, image : Image \cup {Mounts!Nothing}]
      /\ work.step = "idle"
  BY DEF Mounts!Idle, Mounts!Step
<1> HIDE DEF work
<1>2. helper' = [helper EXCEPT ![h] = work]
  BY DEF Mounts!End, Mounts!Unlock, work
<1>3. names' \in [Helper -> SUBSET Point] /\ \A g \in Helper \ {h} : names'[g] = names[g]
  BY DEF Mounts!End, Mounts!Unlock, MountInv, MountTyped
<1>4. lock' = lock \/ lock = h
  BY DEF Mounts!End, Mounts!Unlock
<1> QED BY <1>1, <1>2, <1>3, <1>4, HelperStep DEF MountInv, MountTyped, Locked, Imaged

\* The device of a mountpoint is closed, or left as it is.
LEMMA Closing ==
  ASSUME MountInv, NEW p \in Point,
         (Mounts!CanClose(p) /\ Mounts!Close(p)) \/ UNCHANGED <<device, orphaned>>
  PROVE  /\ device' \in [Point -> Image \cup {Mounts!Nothing}]
         /\ \A q \in Point : Settled(q)
BY DEF MountInv, MountTyped, Mounts!CanClose, Mounts!Close, Settled

\* The last commands of a helper, and its being killed.
LEMMA EndSteps ==
  ASSUME Sizes, MountInv, NEW h \in Helper,
         \/ Mounts!CloseFailed(h) \/ Mounts!CloseLeft(h) \/ Mounts!CloseUnmounted(h)
         \/ Mounts!Killed(h) \/ Mounts!LeftCloses(h)
  PROVE  MountInv'
<1>1. /\ Mounts!End(h) /\ UNCHANGED mounted /\ Mounts!At(h) \in Point
      /\ (Mounts!CanClose(Mounts!At(h)) /\ Mounts!Close(Mounts!At(h))) \/ UNCHANGED <<device, orphaned>>
  BY DEF Mounts!CloseFailed, Mounts!CloseLeft, Mounts!CloseUnmounted, Mounts!CloseIfFree, Mounts!Killed,
         Mounts!LeftCloses, Mounts!Is, Mounts!At, MountInv, WorkNamed
<1> QED BY <1>1, Closing, EndStep

\* The lock is taken, and the devices there are seen.
LEMMA LockStep == ASSUME Sizes, MountInv, NEW h \in Helper, Mounts!Lock(h) PROVE MountInv'
<1> DEFINE work == [helper[h] EXCEPT !.step = "locked"]
<1>1. work \in [step : Mounts!Step, point : Point \cup {Mounts!Nothing}, image : Image \cup {Mounts!Nothing}]
      /\ work.step = "locked" /\ work.point \in Point /\ work.image \in Image
  BY DEF MountInv, MountTyped, WorkNamed, Imaged, Mounts!Lock, Mounts!Is, Mounts!Step
<1>2. helper' = [helper EXCEPT ![h] = work]
  BY DEF Mounts!Lock, Mounts!Goto
<1> HIDE DEF work
<1>3. names' \in [Helper -> SUBSET Point] /\ names'[h] = Mounts!Devices
      /\ \A g \in Helper \ {h} : names'[g] = names[g]
  BY DEF Mounts!Lock, MountInv, MountTyped, Mounts!Devices
<1>4. lock = Mounts!Nothing /\ lock' = h /\ UNCHANGED <<device, mounted, orphaned>>
  BY DEF Mounts!Lock
<1> QED BY <1>1, <1>2, <1>3, <1>4, HelperStep DEF MountInv, MountTyped, Settled, Counted

\* The stale device of the mountpoint is closed.
LEMMA CloseStaleStep == ASSUME Sizes, MountInv, NEW h \in Helper, Mounts!CloseStale(h) PROVE MountInv'
<1>1. helper[h].step = "locked" /\ Mounts!At(h) \in Point /\ UNCHANGED mounted
  BY DEF Mounts!CloseStale, Mounts!Is, Mounts!At, MountInv, WorkNamed, Imaged
<1>2. CASE Mounts!End(h) /\ UNCHANGED <<device, orphaned>>
  BY <1>1, <1>2, Closing, EndStep
<1>3. CASE /\ (Mounts!CanClose(Mounts!At(h)) /\ Mounts!Close(Mounts!At(h))) \/ UNCHANGED <<device, orphaned>>
           /\ Mounts!Goto(h, "fresh") /\ UNCHANGED <<lock, names>>
  <2> DEFINE work == [helper[h] EXCEPT !.step = "fresh"]
  <2>1. work \in [step : Mounts!Step, point : Point \cup {Mounts!Nothing}, image : Image \cup {Mounts!Nothing}]
        /\ work.step = "fresh" /\ work.point \in Point /\ work.image \in Image
    BY <1>1 DEF MountInv, MountTyped, WorkNamed, Imaged, Mounts!Step
  <2>2. helper' = [helper EXCEPT ![h] = work]
    BY <1>3 DEF Mounts!Goto
  <2> HIDE DEF work
  <2>3. lock = h /\ Counted \subseteq names[h]
    BY <1>1 DEF MountInv, LockHeld, Locked
  <2>4. /\ device' \in [Point -> Image \cup {Mounts!Nothing}]
        /\ \A q \in Point : Settled(q)
    BY <1>1, <1>3, Closing
  <2> QED BY <1>1, <1>3, <2>1, <2>2, <2>3, <2>4, HelperStep DEF MountInv, MountTyped
<1> QED BY <1>2, <1>3 DEF Mounts!CloseStale

\* A file of an image is open, or the image is unmounted.
LEMMA UnmountStep == ASSUME Sizes, MountInv, NEW h \in Helper, Mounts!Unmount(h) PROVE MountInv'
<1>1. helper[h].step = "erofs" /\ helper[h].point \in Point /\ UNCHANGED <<device, orphaned>>
  BY DEF Mounts!Unmount, Mounts!Is, MountInv, WorkNamed, Imaged
<1>2. CASE Mounts!End(h) /\ UNCHANGED mounted
  BY <1>1, <1>2, Closing, EndStep
<1>3. CASE /\ mounted' = [mounted EXCEPT ![Mounts!At(h)] = Mounts!NotMounted]
           /\ Mounts!Goto(h, "unmounted") /\ UNCHANGED <<lock, names>>
  <2> DEFINE work == [helper[h] EXCEPT !.step = "unmounted"]
  <2>1. work \in [step : Mounts!Step, point : Point \cup {Mounts!Nothing}, image : Image \cup {Mounts!Nothing}]
        /\ work.step = "unmounted" /\ work.point \in Point
    BY <1>1 DEF MountInv, MountTyped, Mounts!Step
  <2>2. helper' = [helper EXCEPT ![h] = work]
    BY <1>3 DEF Mounts!Goto
  <2> HIDE DEF work
  <2>3. /\ mounted' \in [Point -> Mounts!Mounted \cup {Mounts!NotMounted}]
        /\ \A p \in Point : mounted'[p] \in {mounted[p], Mounts!NotMounted}
    BY <1>1, <1>3 DEF MountInv, MountTyped
  <2> QED BY <1>1, <1>3, <2>1, <2>2, <2>3, HelperStep DEF MountInv, MountTyped, Locked, Imaged, Settled
<1> QED BY <1>2, <1>3 DEF Mounts!Unmount

\* A device is opened within the limit, counted with those the helper has seen:
\* no other helper can have opened one since.
LEMMA OpenStep == ASSUME Sizes, MountInv, NEW h \in Helper, Mounts!Open(h) PROVE MountInv'
<1>1. /\ helper[h].step = "fresh" /\ helper[h].point \in Point /\ helper[h].image \in Image
      /\ lock = h /\ Counted \subseteq names[h] /\ UNCHANGED <<mounted, orphaned>>
  BY DEF Mounts!Open, Mounts!Is, MountInv, WorkNamed, Imaged, LockHeld, Locked
<1>2. CASE Mounts!End(h) /\ UNCHANGED <<device, orphaned>>
  BY <1>1, <1>2, Closing, EndStep
<1>3. CASE /\ Mounts!Fits(h) /\ device[Mounts!At(h)] = Mounts!Nothing
           /\ device' = [device EXCEPT ![Mounts!At(h)] = helper[h].image]
           /\ Mounts!Goto(h, "opened") /\ UNCHANGED <<lock, names>>
  <2> DEFINE p == helper[h].point
  <2>1. /\ device' \in [Point -> Image \cup {Mounts!Nothing}] /\ device'[p] = helper[h].image
        /\ \A q \in Point \ {p} : device'[q] = device[q]
        /\ device[p] = Mounts!Nothing
    BY <1>1, <1>3 DEF MountInv, MountTyped, Mounts!At
  <2>2. \A g \in Helper : helper'[g] = IF g = h THEN [helper[g] EXCEPT !.step = "opened"]
                                       ELSE helper[g]
    BY <1>3 DEF Mounts!Goto, MountInv, MountTyped
  <2>3. MountTyped'
    BY <1>1, <1>3, <2>1 DEF MountInv, MountTyped, Mounts!Goto, Mounts!Step
  <2>4. helper'[h].step = "opened" /\ helper'[h].point = p /\ helper'[h].image = helper[h].image
    BY <2>2 DEF MountInv, MountTyped
  <2>5. WorkNamed'
    BY <1>1, <2>2, <2>4 DEF MountInv, WorkNamed, Imaged
  <2>6. LockHeld'
    <3> SUFFICES ASSUME NEW g \in Helper
                 PROVE  /\ helper'[g].step \in Locked => lock' = g
                        /\ helper'[g].step \in {"locked", "fresh"} => Counted' \subseteq names'[g]
                        /\ helper'[g].step = "opened" => HasOpened(g)'
      BY DEF LockHeld
    <3>1. CASE g = h
      BY <1>1, <1>3, <2>1, <2>4, <3>1 DEF HasOpened
    <3>2. CASE g # h
      BY <1>1, <1>3, <2>2, <3>2 DEF MountInv, LockHeld, Locked
    <3> QED BY <3>1, <3>2
  <2>7. MountedVerified'
    <3>1. mounted[p] = Mounts!NotMounted
      <4>1. ASSUME mounted[p] # Mounts!NotMounted PROVE FALSE
        <5>1. mounted[p] \in Mounts!Mounted /\ mounted[p].image = Mounts!Nothing
          BY <1>1, <2>1, <4>1 DEF MountInv, MountTyped, MountedVerified, Verified, Mounts!IsMounted
        <5> QED BY <5>1 DEF Mounts!Mounted, Sizes
      <4> QED BY <4>1
    <3> QED BY <1>1, <2>1, <3>1 DEF MountInv, MountedVerified, Verified, Mounts!IsMounted
  <2>8. Cardinality(Counted') <= MaxDevices
    <3> DEFINE seen == names[h] \ {p}
    <3>1. IsFiniteSet(seen) /\ Cardinality(seen) \in Nat /\ Cardinality(seen) < MaxDevices
      BY <1>3, SameCardinality, FS_Subset, FS_CardinalityType DEF MountInv, MountTyped, Sizes, Mounts!At, Mounts!Fits
    <3>2. Counted' \subseteq seen \cup {p}
      BY <1>1, <2>1 DEF Mounts!Devices, Counted
    <3>3. IsFiniteSet(seen \cup {p}) /\ Cardinality(seen \cup {p}) = Cardinality(seen) + 1
      BY <3>1, FS_AddElement
    <3>4. IsFiniteSet(Counted') /\ Cardinality(Counted') <= Cardinality(seen) + 1
      BY <3>2, <3>3, FS_Subset
    <3>5. Cardinality(Counted') \in Nat
      BY <3>4, FS_CardinalityType
    <3> QED BY <3>1, <3>4, <3>5 DEF Sizes
  <2> QED BY <2>3, <2>5, <2>6, <2>7, <2>8 DEF MountInv
<1> QED BY <1>2, <1>3 DEF Mounts!Open

\* What is mounted is what the helper opened, if nothing has closed it.
LEMMA MountStep == ASSUME Sizes, MountInv, NEW h \in Helper, Mounts!Mount(h) PROVE MountInv'
<1>1. /\ helper[h].step = "opened" /\ helper[h].point \in Point /\ helper[h].image \in Image
      /\ lock = h /\ HasOpened(h) /\ UNCHANGED <<device, orphaned>>
  BY DEF Mounts!Mount, Mounts!Is, MountInv, WorkNamed, Imaged, LockHeld, Locked
<1>2. CASE Mounts!Goto(h, "failed") /\ UNCHANGED <<mounted, lock, names>>
  <2> DEFINE work == [helper[h] EXCEPT !.step = "failed"]
  <2>1. work \in [step : Mounts!Step, point : Point \cup {Mounts!Nothing}, image : Image \cup {Mounts!Nothing}]
        /\ work.step = "failed" /\ work.point \in Point
    BY <1>1 DEF MountInv, MountTyped, Mounts!Step
  <2>2. helper' = [helper EXCEPT ![h] = work]
    BY <1>2 DEF Mounts!Goto
  <2> HIDE DEF work
  <2> QED BY <1>1, <1>2, <2>1, <2>2, HelperStep DEF MountInv, MountTyped, Imaged, Settled
<1>3. CASE /\ device[Mounts!At(h)] # Mounts!Nothing
           /\ mounted' = [mounted EXCEPT ![Mounts!At(h)] =
                            [image |-> device[Mounts!At(h)], asked |-> helper[h].image]]
           /\ Mounts!End(h)
  <2> DEFINE p == helper[h].point
  <2>1. device[p] = helper[h].image \/ p \in orphaned
    BY <1>1, <1>3 DEF Mounts!At, HasOpened
  <2>2. mounted' = [mounted EXCEPT ![p] = [image |-> device[p], asked |-> helper[h].image]]
    BY <1>3 DEF Mounts!At
  <2>3. \A g \in Helper \ {h} : helper'[g] = helper[g] /\ names'[g] = names[g]
    BY <1>3 DEF Mounts!End, Mounts!Unlock, MountInv, MountTyped
  <2>4. helper'[h].step = "idle"
    BY <1>3 DEF Mounts!End, Mounts!Unlock, MountInv, MountTyped, Mounts!Idle
  <2>5. MountTyped'
    <3>1. mounted' \in [Point -> Mounts!Mounted \cup {Mounts!NotMounted}]
      BY <1>1, <1>3, <2>2 DEF MountInv, MountTyped, Mounts!Mounted, Mounts!At
    <3> QED BY <1>1, <1>3, <3>1 DEF MountInv, MountTyped, Mounts!End, Mounts!Unlock, Mounts!Idle, Mounts!Step
  <2>6. WorkNamed'
    BY <2>3, <2>4 DEF MountInv, WorkNamed, Imaged
  <2>7. LockHeld'
    BY <1>1, <2>3, <2>4 DEF MountInv, LockHeld, HasOpened, Locked, Counted, Mounts!Devices
  <2>8. MountedVerified'
    BY <1>1, <2>1, <2>2 DEF MountInv, MountedVerified, Verified, Mounts!IsMounted, MountTyped
  <2> QED BY <1>1, <2>5, <2>6, <2>7, <2>8 DEF MountInv, Counted, Mounts!Devices
<1> QED BY <1>2, <1>3 DEF Mounts!Mount

\* A helper is killed and its command runs on, which may open the device of its
\* mountpoint: another that is counted it is not.
LEMMA LeftSteps ==
  ASSUME Sizes, MountInv, NEW h \in Helper, Mounts!KilledWaiting(h) \/ Mounts!LeftOpens(h)
  PROVE  MountInv'
<1>1. CASE Mounts!KilledWaiting(h)
  <2>1. PICK step \in {"leftOpen", "leftClose"} :
          /\ helper' = [helper EXCEPT ![h].step = step]
          /\ helper[h].step \in {"fresh", "locked", "bare", "failed", "unmounted"}
          /\ step = "leftOpen" => helper[h].step = "fresh"
    BY <1>1 DEF Mounts!KilledWaiting, Mounts!Command, Mounts!Goto, Mounts!Is
  <2> DEFINE work == [helper[h] EXCEPT !.step = step]
  <2>2. work \in [step : Mounts!Step, point : Point \cup {Mounts!Nothing}, image : Image \cup {Mounts!Nothing}]
        /\ work.step = step /\ work.point \in Point /\ (work.step \in Imaged => work.image \in Image)
    BY <2>1 DEF MountInv, MountTyped, WorkNamed, Mounts!Step, Imaged
  <2>3. helper' = [helper EXCEPT ![h] = work]
    BY <2>1
  <2> HIDE DEF work
  <2>4. /\ names' \in [Helper -> SUBSET Point] /\ \A g \in Helper \ {h} : names'[g] = names[g]
        /\ lock' = lock \/ lock = h
        /\ UNCHANGED <<device, mounted, orphaned>>
    BY <1>1 DEF Mounts!KilledWaiting, Mounts!Unlock, MountInv, MountTyped
  <2>5. work.step \notin Locked /\ work.step \notin {"locked", "fresh", "opened"}
    BY <2>2 DEF Locked
  <2> QED BY <2>2, <2>3, <2>4, <2>5, HelperStep DEF MountInv, MountTyped, Settled
<1>2. CASE Mounts!LeftOpens(h)
  <2>1. helper[h].point \in Point /\ helper[h].image \in Image
    BY <1>2 DEF Mounts!LeftOpens, Mounts!Is, MountInv, WorkNamed, Imaged
  <2>2. /\ device' \in [Point -> Image \cup {Mounts!Nothing}]
        /\ \A p \in Point : Settled(p)
    BY <1>2, <2>1 DEF Mounts!LeftOpens, Mounts!At, MountInv, MountTyped, Settled
  <2> QED BY <1>2, <2>2, EndStep DEF Mounts!LeftOpens
<1> QED BY <1>1, <1>2

\* Every step keeps the invariant.
LEMMA NextMounts == ASSUME Sizes, MountInv, [Mounts!Next]_Mounts!mountVars PROVE MountInv'
<1>1. CASE UNCHANGED Mounts!mountVars
  BY <1>1 DEF Mounts!mountVars, MountInv, MountTyped, WorkNamed, Imaged, LockHeld, HasOpened, MountedVerified, Verified, Mounts!IsMounted, Counted, Mounts!Devices
<1>2. CASE Mounts!Next
  BY <1>2, PointSteps, BeginSteps, EndSteps, LockStep, CloseStaleStep, OpenStep, MountStep,
     UnmountStep, LeftSteps DEF Mounts!Next
<1> QED BY <1>1, <1>2

\* Whatever helpers mount, unmount and are killed, what is mounted is what was
\* asked for, over its own device, and the devices stay within the limit, but
\* for devices opened for a helper that had been killed.
THEOREM MountsStayVerified == Spec => []MountsAreVerified
<1>1. Sizes
  BY PartsAssumption DEF Sizes
<1>2. Init => MountInv
  BY <1>1, InitMounts DEF Init
<1>3. MountInv /\ [Next]_vars => MountInv'
  BY <1>1, PartSteps, NextMounts
<1>4. MountInv => MountsAreVerified
  BY SameCardinality DEF MountInv, MountedVerified, Verified, Counted, MountsAreVerified, Mounts!MountsAreVerified
<1> QED BY <1>2, <1>3, <1>4, PTL DEF Spec

-----------------------------------------------------------------------------
(*****************************************************************************)
(* AppData, for any launches under way.                                      *)
(*****************************************************************************)

\* A launch has its data where the earlier data is, and weft-pack removes a
\* package directory only without data.
LaunchStage == [step : {"idle", "found", "moving", "making", "granted"}, claims : BOOLEAN]
DataTyped ==
  /\ launch \in [Launcher -> LaunchStage]
  /\ legacy \in {"none", "old", "link"}
  /\ before.legacy \in {"none", "old", "link"}
DataIsThere(l) ==
  before.legacy = "old" /\ (Data!IsAt(l, "making") \/ Data!IsAt(l, "granted")) => target = "old"
DataInv ==
  /\ DataTyped /\ Data!DataIsWhole
  /\ packer = "kept" => legacy = "none"
  /\ legacy = "old" => before.legacy = "old"
  /\ \A l \in Launcher : DataIsThere(l)

LEMMA InitData == Data!Init => DataInv
BY DEF Data!Init, DataInv, DataTyped, DataIsThere, Data!DataIsWhole, Data!Idle, Data!IsAt, LaunchStage

\* A step of one launch that moves no data.
LEMMA LaunchStep ==
  ASSUME DataInv, NEW l \in Launcher, UNCHANGED <<legacy, packer, before>>,
         NEW r \in LaunchStage,
         launch' = [launch EXCEPT ![l] = r],
         target' \in {target, IF target = "none" THEN "fresh" ELSE target},
         target' # target => before.legacy # "old",
         before.legacy = "old" /\ r.step \in {"making", "granted"} => target = "old"
  PROVE  DataInv'
<1>1. \A k \in Launcher : launch'[k] = IF k = l THEN r ELSE launch[k]
  BY DEF DataInv, DataTyped
<1>2. DataTyped'
  BY DEF DataInv, DataTyped
<1>3. \A k \in Launcher : DataIsThere(k)'
  BY <1>1 DEF DataInv, DataIsThere, Data!IsAt
<1>4. Data!DataIsWhole'
  BY <1>1, <1>3 DEF DataInv, Data!DataIsWhole, DataTyped, DataIsThere, Data!IsAt
<1> QED BY <1>2, <1>3, <1>4 DEF DataInv

LEMMA Idles ==
  Data!Idle \in LaunchStage /\ Data!Idle.step = "idle"
BY DEF Data!Idle, LaunchStage

LEMMA StepData == DataInv /\ [Data!Next]_Data!dataVars => DataInv'
<1> SUFFICES ASSUME DataInv, [Data!Next]_Data!dataVars PROVE DataInv'
  OBVIOUS
<1>0. \A l \in Launcher : launch[l] \in LaunchStage
  BY DEF DataInv, DataTyped
<1>1. ASSUME NEW l \in Launcher, NEW claims \in BOOLEAN, Data!Prepare(l, claims) PROVE DataInv'
  <2>1. PICK r \in LaunchStage : r = [step |-> IF legacy = "old" THEN "found" ELSE "making", claims |-> claims]
    <3>1. [step |-> IF legacy = "old" THEN "found" ELSE "making", claims |-> claims] \in LaunchStage
      BY DEF LaunchStage
    <3> QED BY <3>1
  <2>2. launch' = [launch EXCEPT ![l] = r] /\ UNCHANGED <<legacy, packer, before, target>>
    BY <1>1, <2>1 DEF Data!Prepare, Data!constant
  <2>3. before.legacy = "old" /\ r.step \in {"making", "granted"} => target = "old"
    BY <2>1 DEF DataInv, Data!DataIsWhole
  <2> QED BY <2>2, <2>3, LaunchStep
<1>2. ASSUME NEW l \in Launcher, Data!CheckTarget(l) PROVE DataInv'
  <2>1. PICK r \in LaunchStage : launch' = [launch EXCEPT ![l] = r] /\ r.step \in {"moving", "idle"}
    <3>1. CASE launch' = [launch EXCEPT ![l].step = "moving"]
      <4>1. [launch[l] EXCEPT !.step = "moving"] \in LaunchStage
        BY <1>0 DEF LaunchStage
      <4>2. PICK r : r = [launch[l] EXCEPT !.step = "moving"]
        OBVIOUS
      <4>3. r \in LaunchStage /\ r.step = "moving" /\ launch' = [launch EXCEPT ![l] = r]
        BY <1>0, <3>1, <4>1, <4>2 DEF LaunchStage, DataInv, DataTyped
      <4> QED BY <4>3
    <3>2. CASE launch' = [launch EXCEPT ![l] = Data!Idle]
      BY <3>2, Idles
    <3> QED BY <1>2, <3>1, <3>2 DEF Data!CheckTarget, Data!Goto, Data!Refuse
  <2>2. UNCHANGED <<legacy, packer, before, target>>
    BY <1>2 DEF Data!CheckTarget, Data!constant
  <2> QED BY <2>1, <2>2, LaunchStep
<1>3. ASSUME NEW l \in Launcher, Data!Ends(l) PROVE DataInv'
  <2>1. PICK r \in LaunchStage : launch' = [launch EXCEPT ![l] = r] /\ r.step = "idle"
    BY <1>3, Idles DEF Data!Ends, Data!Refuse
  <2>2. UNCHANGED <<legacy, packer, before, target>>
    BY <1>3 DEF Data!Ends, Data!constant
  <2> QED BY <2>1, <2>2, LaunchStep
<1>4. ASSUME NEW l \in Launcher, Data!Make(l) PROVE DataInv'
  <2>1. PICK r \in LaunchStage : launch' = [launch EXCEPT ![l] = r] /\ r.step \in {"granted", "idle"}
    <3>1. CASE launch' = [launch EXCEPT ![l].step = "granted"]
      <4>1. [launch[l] EXCEPT !.step = "granted"] \in LaunchStage
        BY <1>0 DEF LaunchStage
      <4>2. PICK r : r = [launch[l] EXCEPT !.step = "granted"]
        OBVIOUS
      <4>3. r \in LaunchStage /\ r.step = "granted" /\ launch' = [launch EXCEPT ![l] = r]
        BY <1>0, <3>1, <4>1, <4>2 DEF LaunchStage, DataInv, DataTyped
      <4> QED BY <4>3
    <3>2. CASE launch' = [launch EXCEPT ![l] = Data!Idle]
      BY <3>2, Idles
    <3> QED BY <1>4, <3>1, <3>2 DEF Data!Make, Data!Goto, Data!Refuse
  <2>2. /\ UNCHANGED <<legacy, packer, before>>
        /\ target' \in {target, IF target = "none" THEN "fresh" ELSE target}
        /\ Data!IsAt(l, "making")
    BY <1>4 DEF Data!Make, Data!constant
  <2>3. before.legacy = "old" => target = "old"
    BY <2>2 DEF DataInv, DataIsThere
  <2> QED BY <2>1, <2>2, <2>3, LaunchStep
<1>5. ASSUME NEW l \in Launcher, Data!Move(l) PROVE DataInv'
  <2>1. CASE Data!Renames
    <3>1. /\ legacy = "old" /\ target = "none" /\ legacy' = "none" /\ target' = "old"
          /\ UNCHANGED <<packer, before>>
          /\ launch' = [launch EXCEPT ![l].step = "making"]
      BY <1>5, <2>1 DEF Data!Move, Data!Renames, Data!Rename, Data!Goto, Data!constant
    <3>2. launch' \in [Launcher -> LaunchStage]
      BY <3>1 DEF DataInv, DataTyped, LaunchStage
    <3>3. before.legacy = "old" /\ before.target # "other"
      BY <3>1 DEF DataInv, Data!DataIsWhole, DataTyped
    <3> QED BY <3>1, <3>2, <3>3 DEF DataInv, DataTyped, Data!DataIsWhole, DataIsThere
  <2>2. CASE ~Data!Renames
    <3>1. PICK r \in LaunchStage : launch' = [launch EXCEPT ![l] = r] /\ r.step = "idle"
      BY <1>5, <2>2, Idles DEF Data!Move, Data!Refuse
    <3>2. UNCHANGED <<legacy, packer, before, target>>
      BY <1>5, <2>2 DEF Data!Move, Data!constant
    <3> QED BY <3>1, <3>2, LaunchStep
  <2> QED BY <2>1, <2>2
<1>6. CASE Data!Keep \/ Data!PackerEnds
  BY <1>6 DEF Data!Keep, Data!PackerEnds, Data!constant, DataInv, DataTyped, Data!DataIsWhole, DataIsThere, Data!IsAt
<1>7. CASE Data!MoveOut
  <2>1. CASE Data!Renames
    <3>1. /\ legacy = "old" /\ target = "none" /\ legacy' = "none" /\ target' = "old"
          /\ UNCHANGED <<launch, before>>
      BY <1>7, <2>1 DEF Data!MoveOut, Data!Renames, Data!Rename, Data!constant
    <3>2. before.legacy = "old" /\ before.target # "other"
      BY <3>1 DEF DataInv, Data!DataIsWhole, DataTyped
    <3> QED BY <3>1, <3>2 DEF DataInv, DataTyped, Data!DataIsWhole, DataIsThere
  <2>2. CASE ~Data!Renames
    BY <1>7, <2>2 DEF Data!MoveOut, Data!constant, DataInv, DataTyped, Data!DataIsWhole, DataIsThere, Data!IsAt
  <2> QED BY <2>1, <2>2
<1>8. CASE Data!Replace
  <2>1. legacy = "none" /\ legacy' = "none" /\ packer' = "idle" /\ UNCHANGED <<target, launch, before>>
    BY <1>8 DEF Data!Replace, Data!constant, DataInv
  <2> QED BY <2>1 DEF DataInv, DataTyped, Data!DataIsWhole, DataIsThere, Data!IsAt
<1>9. CASE UNCHANGED Data!dataVars
  BY <1>9 DEF Data!dataVars, DataInv, DataTyped, Data!DataIsWhole, DataIsThere, Data!IsAt
<1> QED BY <1>1, <1>2, <1>3, <1>4, <1>5, <1>6, <1>7, <1>8, <1>9 DEF Data!Next

\* Whichever launches and packers move, make or keep the data, and whichever
\* moves fail: data from before an update is never lost, split or hidden.
THEOREM DataStaysWhole == Spec => []DataIsWhole
<1>1. Init => DataInv
  BY InitData DEF Init
<1>2. DataInv /\ [Next]_vars => DataInv'
  BY PartSteps, StepData
<1>3. DataInv => DataIsWhole
  BY DEF DataInv, DataIsWhole
<1> QED BY <1>1, <1>2, <1>3, PTL DEF Spec
=============================================================================
