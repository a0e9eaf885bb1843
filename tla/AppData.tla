------------------------------ MODULE AppData ------------------------------
(***************************************************************************)
(* The data of one application that an earlier weft-appd kept inside the   *)
(* package directory: weft-appd moves it to its own place when the         *)
(* application is launched (grants.rs, package.rs), weft-pack before the   *)
(* package directory is replaced or removed (main.rs).  PackageStore has   *)
(* the packages with revisions, and the owner records.                     *)
(*                                                                         *)
(* Several launches may be prepared at once, beside one weft-pack (it      *)
(* holds the owner's lock); the data's place depends on the application's  *)
(* ID alone, so a launch from another store moves it too.                  *)
(***************************************************************************)
EXTENDS Naturals

CONSTANT Launcher  \* launches under way at once

VARIABLES
  package,  \* the name in the user store: "directory" (from before revisions
            \* existed), "data" (a directory of nothing else), "revision", "none"
  legacy,   \* what its directory data is: "none", "old", or "link", no directory
  target,   \* what the app's data directory is: "none", "old", "other", "fresh"
  movable,  \* declares_app_data (or no manifest) and is_user_store
  oneDisk,  \* whether both places are on one file system
  launch,   \* how far each launch has come
  packer,   \* weft-pack: "idle", "moving" or "kept"
  \* history
  before    \* legacy and target at first

dataVars == <<package, legacy, target, movable, oneDisk, launch, packer, before>>
constant == <<movable, oneDisk, before>>

Idle == [step |-> "idle", claims |-> FALSE]

TypeOK ==
  /\ package \in {"directory", "data", "revision", "none"}
  /\ legacy \in {"none", "old", "link"}
  /\ target \in {"none", "old", "other", "fresh"}
  /\ movable \in BOOLEAN /\ oneDisk \in BOOLEAN
  /\ launch \in [Launcher -> [step : {"idle", "found", "moving", "making", "granted"},
                              claims : BOOLEAN]]
  /\ packer \in {"idle", "moving", "kept"}

Init ==
  /\ package \in {"directory", "data"}
  /\ legacy \in {"none", "old", "link"} /\ target \in {"none", "other"}
  /\ movable \in BOOLEAN /\ oneDisk \in BOOLEAN
  /\ package = "data" => legacy # "none" /\ movable
  /\ launch = [l \in Launcher |-> Idle] /\ packer = "idle"
  /\ before = [legacy |-> legacy, target |-> target]

IsAt(l, step) == launch[l].step = step
Goto(l, step) == launch' = [launch EXCEPT ![l].step = step]
Refuse(l) == launch' = [launch EXCEPT ![l] = Idle]

\* A session of the package directory, prepared or running, holds a claim.
Claimed == \E l \in Launcher : launch[l].claims

(***************************************************************************)
(* migrate_app_data.                                                       *)
(***************************************************************************)
\* rename_no_replace, which fails if the data has gone meanwhile.
Renames == oneDisk /\ legacy = "old" /\ target = "none"

\* The rename, and the removal of a directory it leaves empty.
Rename ==
  /\ legacy' = "none" /\ target' = "old"
  /\ package' = IF package = "data" THEN "none" ELSE package

(***************************************************************************)
(* weft-appd: prepare_app_data.                                            *)
(***************************************************************************)
\* Whether the earlier layout has data is looked at first.
Prepare(l, claims) ==
  /\ IsAt(l, "idle")
  /\ claims => package = "directory" /\ packer = "idle"
  /\ legacy # "link"
  /\ launch' = [launch EXCEPT ![l] =
       [step |-> IF legacy = "old" THEN "found" ELSE "making", claims |-> claims]]
  /\ UNCHANGED <<package, legacy, target, packer, constant>>

\* A conflict refuses the launch.
CheckTarget(l) ==
  /\ IsAt(l, "found")
  /\ IF target = "none" THEN Goto(l, "moving") ELSE Refuse(l)
  /\ UNCHANGED <<package, legacy, target, packer, constant>>

Move(l) ==
  /\ IsAt(l, "moving")
  /\ IF Renames THEN Rename /\ Goto(l, "making")
                ELSE Refuse(l) /\ UNCHANGED <<package, legacy, target>>
  /\ UNCHANGED <<packer, constant>>

\* The directory is made if need be, and made private, which may fail.
Make(l) ==
  /\ IsAt(l, "making")
  /\ \/ /\ target' = IF target = "none" THEN "fresh" ELSE target
        /\ Goto(l, "granted")
     \/ Refuse(l) /\ target' \in {target, IF target = "none" THEN "fresh" ELSE target}
  /\ UNCHANGED <<package, legacy, packer, constant>>

\* The session ends, or weft-appd does.
Ends(l) ==
  /\ ~IsAt(l, "idle") /\ Refuse(l)
  /\ UNCHANGED <<package, legacy, target, packer, constant>>

(***************************************************************************)
(* weft-pack: install over a package directory, and uninstall_directory.   *)
(***************************************************************************)
\* keep_legacy_data stops unless the data can be moved.
Keep ==
  /\ packer = "idle" /\ package \in {"directory", "data"} /\ ~Claimed
  /\ \/ legacy = "none" /\ packer' = "kept"
     \/ legacy = "old" /\ movable /\ target = "none" /\ packer' = "moving"
  /\ UNCHANGED <<package, legacy, target, launch, constant>>

\* A mutant: the package is removed though its data could not be moved.
MutantKeepFails ==
  /\ packer = "moving" /\ packer' = "kept"
  /\ IF Renames THEN Rename ELSE UNCHANGED <<package, legacy, target>>
  /\ UNCHANGED <<launch, constant>>

\* move_app_data_out.
MoveOut ==
  /\ packer = "moving"
  /\ IF Renames THEN Rename /\ packer' = "kept"
                ELSE packer' = "idle" /\ UNCHANGED <<package, legacy, target>>
  /\ UNCHANGED <<launch, constant>>

\* The directory is removed, or exchanged for a revision and then removed.
Replace ==
  /\ packer = "kept" /\ packer' = "idle"
  /\ package' \in {"none", "revision"} /\ legacy' = "none"
  /\ UNCHANGED <<target, launch, constant>>

\* weft-pack fails or is killed.
PackerEnds ==
  /\ packer # "idle" /\ packer' = "idle"
  /\ UNCHANGED <<package, legacy, target, launch, constant>>

Next ==
  \/ \E l \in Launcher :
       \/ \E claims \in BOOLEAN : Prepare(l, claims)
       \/ CheckTarget(l) \/ Move(l) \/ Make(l) \/ Ends(l)
  \/ Keep \/ MoveOut \/ Replace \/ PackerEnds

Spec == Init /\ [][Next]_dataVars

\* "The data is never partly in both places": earlier data stays in exactly
\* one of its two places, over launches that race each other and weft-pack and
\* an end of either at any step; a conflict of the two leaves both as they
\* were; and a session gets the data there was, never a fresh directory beside
\* it.
DataIsWhole ==
  /\ before.legacy = "old" => (legacy = "old") # (target = "old")
  /\ before.legacy = "link" => legacy = "link"
  /\ before.target = "other" => target = "other" /\ legacy = before.legacy
  /\ before.legacy = "old" => \A l \in Launcher : IsAt(l, "granted") => target = "old"
=============================================================================
