---------------------------- MODULE ImageMounts ----------------------------
(***************************************************************************)
(* weft-mount-helper (main.rs): the verified images one user has mounted,  *)
(* and their device-mapper devices, one for each mountpoint.  weft-appd    *)
(* (mount.rs) creates a mountpoint, has the helper mount an image there,   *)
(* and has it unmounted when the session ends.                             *)
(*                                                                         *)
(* Several helpers run at once and any of them may be killed.  Its lock    *)
(* goes with it, but a veritysetup it waits for runs on.  The kernel       *)
(* closes no device that is mounted.                                       *)
(***************************************************************************)
EXTENDS Naturals, FiniteSets

CONSTANTS
  Helper,    \* helper processes that run at once
  Point,     \* the user's mountpoints
  Image,     \* package images
  MaxDevices \* MAX_DEVICES_PER_USER

VARIABLES
  present,   \* the mountpoints that exist
  device,    \* the image behind each mountpoint's device, Nothing without one
  mounted,   \* what is mounted at each mountpoint: the image its device had,
             \* and the one that was asked for
  lock,      \* the helper holding the device lock
  helper,    \* what each helper does, at which mountpoint and for which image
  names,     \* the devices each helper saw when it took the lock
  \* history
  orphaned   \* the devices opened for a helper that had been killed

mountVars == <<present, device, mounted, lock, helper, names, orphaned>>

Nothing == "nothing"
Step == {"idle", "checked", "locked", "fresh", "opened", "failed",
         "erofs", "bare", "unmounted", "leftOpen", "leftClose"}
Mounted == [image : Image, asked : Image]
NotMounted == [image |-> Nothing, asked |-> Nothing]
Idle == [step |-> "idle", point |-> Nothing, image |-> Nothing]

TypeOK ==
  /\ present \subseteq Point
  /\ device \in [Point -> Image \cup {Nothing}]
  /\ mounted \in [Point -> Mounted \cup {NotMounted}]
  /\ lock \in Helper \cup {Nothing}
  /\ helper \in [Helper -> [step : Step, point : Point \cup {Nothing},
                            image : Image \cup {Nothing}]]
  /\ names \in [Helper -> SUBSET Point]
  /\ orphaned \subseteq Point

Init ==
  /\ present = {} /\ device = [p \in Point |-> Nothing]
  /\ mounted = [p \in Point |-> NotMounted]
  /\ lock = Nothing /\ helper = [h \in Helper |-> Idle]
  /\ names = [h \in Helper |-> {}] /\ orphaned = {}

IsMounted(p) == mounted[p] # NotMounted
Devices == {p \in Point : device[p] # Nothing}
At(h) == helper[h].point
Is(h, step) == helper[h].step = step
Left(h) == Is(h, "leftOpen") \/ Is(h, "leftClose")
Goto(h, step) == helper' = [helper EXCEPT ![h].step = step]

Unlock(h) ==
  /\ names' = [names EXCEPT ![h] = {}]
  /\ lock' = IF lock = h THEN Nothing ELSE lock

\* The helper's process ends, and with it its lock.
End(h) == helper' = [helper EXCEPT ![h] = Idle] /\ Unlock(h)

\* veritysetup close.
CanClose(p) == device[p] # Nothing /\ ~IsMounted(p)
Close(p) == device' = [device EXCEPT ![p] = Nothing] /\ orphaned' = orphaned \ {p}
CloseIfFree(p) == IF CanClose(p) THEN Close(p) ELSE UNCHANGED <<device, orphaned>>

(***************************************************************************)
(* weft-appd (mount.rs): a mountpoint is made for a mount, and removed,    *)
(* empty, when no helper works on it: an orphaned command may.             *)
(***************************************************************************)
Create(p) ==
  /\ p \notin present /\ present' = present \cup {p}
  /\ UNCHANGED <<device, mounted, lock, helper, names, orphaned>>

Remove(p) ==
  /\ p \in present /\ ~IsMounted(p) /\ \A h \in Helper : At(h) = p => Left(h)
  /\ present' = present \ {p}
  /\ UNCHANGED <<device, mounted, lock, helper, names, orphaned>>

(***************************************************************************)
(* cmd_mount.                                                              *)
(***************************************************************************)
\* open_mountpoint, for a mount: nothing is mounted there.
Check(h, p, i) ==
  /\ Is(h, "idle") /\ p \in present /\ ~IsMounted(p)
  /\ helper' = [helper EXCEPT ![h] = [step |-> "checked", point |-> p, image |-> i]]
  /\ UNCHANGED <<present, device, mounted, lock, names, orphaned>>

\* A mutant: the lock is released as soon as it is taken.
MutantUnlocked(h) ==
  /\ Is(h, "checked") /\ lock = Nothing
  /\ names' = [names EXCEPT ![h] = Devices]
  /\ Goto(h, "locked")
  /\ UNCHANGED <<present, device, mounted, lock, orphaned>>

\* lock_devices and device_names.
Lock(h) ==
  /\ Is(h, "checked") /\ lock = Nothing
  /\ lock' = h /\ names' = [names EXCEPT ![h] = Devices]
  /\ Goto(h, "locked")
  /\ UNCHANGED <<present, device, mounted, orphaned>>

\* A device of the mountpoint's is left from an interrupted mount, unless an
\* image has been mounted there since the check.
CloseStale(h) ==
  /\ Is(h, "locked")
  /\ \/ /\ At(h) \notin names[h]
        /\ Goto(h, "fresh") /\ UNCHANGED <<device, orphaned, lock, names>>
     \/ /\ At(h) \in names[h] /\ CanClose(At(h))
        /\ Close(At(h)) /\ Goto(h, "fresh") /\ UNCHANGED <<lock, names>>
     \/ /\ At(h) \in names[h] /\ ~CanClose(At(h))
        /\ End(h) /\ UNCHANGED <<device, orphaned>>
  /\ UNCHANGED <<present, mounted>>

\* The user's other devices are counted, and the new one is opened.
Fits(h) == Cardinality(names[h] \ {At(h)}) < MaxDevices

Open(h) ==
  /\ Is(h, "fresh")
  /\ \/ /\ Fits(h) /\ device[At(h)] = Nothing
        /\ device' = [device EXCEPT ![At(h)] = helper[h].image]
        /\ Goto(h, "opened") /\ UNCHANGED <<lock, names>>
     \/ End(h) /\ UNCHANGED device
  /\ UNCHANGED <<present, mounted, orphaned>>

\* The mount itself; an unlocked unmount may have closed the device.
Mount(h) ==
  /\ Is(h, "opened")
  /\ \/ /\ device[At(h)] # Nothing
        /\ mounted' = [mounted EXCEPT ![At(h)] =
                         [image |-> device[At(h)], asked |-> helper[h].image]]
        /\ End(h)
     \/ Goto(h, "failed") /\ UNCHANGED <<mounted, lock, names>>
  /\ UNCHANGED <<present, device, orphaned>>

CloseFailed(h) ==
  /\ Is(h, "failed")
  /\ CloseIfFree(At(h))
  /\ End(h)
  /\ UNCHANGED <<present, mounted>>

(***************************************************************************)
(* cmd_umount, which takes no lock.                                        *)
(***************************************************************************)
Inspect(h, p) ==
  /\ Is(h, "idle") /\ p \in present
  /\ helper' = [helper EXCEPT ![h] =
       [step |-> IF IsMounted(p) THEN "erofs" ELSE "bare", point |-> p, image |-> Nothing]]
  /\ UNCHANGED <<present, device, mounted, lock, names, orphaned>>

\* An interrupted mount left the device and an empty mountpoint.
CloseLeft(h) ==
  /\ Is(h, "bare")
  /\ CloseIfFree(At(h))
  /\ End(h)
  /\ UNCHANGED <<present, mounted>>

\* umount2, which fails while a file of the image is open.
Unmount(h) ==
  /\ Is(h, "erofs")
  /\ \/ /\ IsMounted(At(h))
        /\ mounted' = [mounted EXCEPT ![At(h)] = NotMounted]
        /\ Goto(h, "unmounted") /\ UNCHANGED <<lock, names>>
     \/ End(h) /\ UNCHANGED mounted
  /\ UNCHANGED <<present, device, orphaned>>

CloseUnmounted(h) ==
  /\ Is(h, "unmounted")
  /\ CloseIfFree(At(h))
  /\ End(h)
  /\ UNCHANGED <<present, mounted>>

(***************************************************************************)
(* A helper is killed, by the user it runs for.                            *)
(***************************************************************************)
\* The veritysetup it may be waiting for.
Command(h) ==
  IF Is(h, "fresh") /\ Fits(h) THEN "leftOpen"
  ELSE IF \/ Is(h, "locked") /\ At(h) \in names[h]
          \/ Is(h, "bare") /\ device[At(h)] # Nothing
          \/ Is(h, "failed") \/ Is(h, "unmounted")
  THEN "leftClose" ELSE Nothing

Killed(h) ==
  /\ ~Is(h, "idle") /\ End(h)
  /\ UNCHANGED <<present, device, mounted, orphaned>>

\* The lock is closed on exec: the command does not hold it.
KilledWaiting(h) ==
  /\ Command(h) # Nothing /\ Goto(h, Command(h)) /\ Unlock(h)
  /\ UNCHANGED <<present, device, mounted, orphaned>>

LeftOpens(h) ==
  /\ Is(h, "leftOpen") /\ device[At(h)] = Nothing
  /\ device' = [device EXCEPT ![At(h)] = helper[h].image]
  /\ orphaned' = orphaned \cup {At(h)}
  /\ End(h)
  /\ UNCHANGED <<present, mounted>>

LeftCloses(h) ==
  /\ Is(h, "leftClose") /\ CanClose(At(h)) /\ Close(At(h))
  /\ End(h)
  /\ UNCHANGED <<present, mounted>>

Next ==
  \/ \E p \in Point : Create(p) \/ Remove(p)
  \/ \E h \in Helper :
       \/ \E p \in Point : Inspect(h, p) \/ \E i \in Image : Check(h, p, i)
       \/ Lock(h) \/ CloseStale(h) \/ Open(h) \/ Mount(h) \/ CloseFailed(h)
       \/ CloseLeft(h) \/ Unmount(h) \/ CloseUnmounted(h)
       \/ Killed(h) \/ KilledWaiting(h) \/ LeftOpens(h) \/ LeftCloses(h)

Spec == Init /\ [][Next]_mountVars

\* What is mounted at a mountpoint stays backed by its own device, and is the
\* image asked for, whichever helpers mount and unmount there at once or were
\* killed: a mountpoint found empty before the lock was taken may not be so any
\* more, and an unmount takes no lock.  The user's devices, those left behind
\* included, stay within the limit.  A device opened for a helper that had been
\* killed is outside both: it may be under a mount that asked for another
\* image, and nobody counted it.
MountsAreVerified ==
  /\ \A p \in Point : IsMounted(p) =>
       /\ mounted[p].image = device[p]
       /\ p \in orphaned \/ mounted[p].asked = device[p]
  /\ Cardinality(Devices \ orphaned) <= MaxDevices
=============================================================================
