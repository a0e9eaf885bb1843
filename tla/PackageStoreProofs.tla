------------------------- MODULE PackageStoreProofs -------------------------
(***************************************************************************)
(* Theorems about PackageStore, for every set of packages, every number of *)
(* launches and every number of directories.                               *)
(***************************************************************************)
EXTENDS PackageStore, TLAPS

-----------------------------------------------------------------------------
(***************************************************************************)
(* What a session holds stays.                                             *)
(*                                                                         *)
(* HeldIntact needs to know which directory each step touches: the ones an *)
(* operation takes away are not named any more, and the one it removes     *)
(* under its name it has locked.                                           *)
(***************************************************************************)

\* A directory has one name, and what is named is there.
NamedOnce ==
  \A q, r \in Revision : name[q] = name[r] /\ name[q] # NoDir => q = r
NamedFilled == \A r \in Revision : name[r] # NoDir => body[name[r]] # None

\* Where an installation has its staged copy, or the revision it became.
Copying == {"admit", "place", "discard", "keep", "switch", "clean", "remove",
            "unclaim"}
Undoable == {"keep", "switch", "clean", "remove"}

\* What an operation knows of the directories it works on.
CopyKnown ==
  op.kind = "install" /\ op.pc \in Copying => op.dir \in Dir
StagedKnown ==
  op.pc \in {"admit", "place"} =>
    /\ op.kind = "install"
    /\ op.dir \in claimed /\ ~Named(op.dir)
    /\ body[op.dir] = op.pkg /\ op.pkg \in Package /\ op.as \in Owner
    /\ op.target = Digest[op.pkg]
CreatedKnown ==
  /\ op.created /\ op.pc \in Undoable =>
       op.kind = "install" /\ op.dir \in claimed /\ name[op.target] = op.dir
  /\ op.pc = "remove" => op.created
  /\ op.pc \in {"admit", "place", "discard"} => ~op.created
  /\ op.pc \in {"discard", "clean"} => op.kind = "install"
VictimKnown ==
  op.pc \in {"discard", "purge"} => op.victim \in claimed /\ ~Named(op.victim)
TodoKnown ==
  op.pc \in {"trash", "purge"} => \A r \in op.todo : name[r] # NoDir

\* The revision an installation or a rollback is about stays.
Activates == op.kind \in {"install", "rollback"}
TargetKnown ==
  /\ Activates /\ op.pc \notin {"idle", "admit", "place"} =>
       op.target \in Revision
  /\ Activates /\ op.pc \in {"discard", "keep", "switch", "unclaim", "collect",
                             "trash", "purge", "settle"} =>
       name[op.target] # NoDir
  /\ Activates
       /\ op.pc \in {"unclaim", "collect", "trash", "purge", "settle"} =>
       active = op.target
  /\ Activates /\ op.pc \in {"trash", "purge"} => op.target \notin op.todo
  /\ op.pc \in {"keep", "switch", "settle"} => Activates
  /\ op.pc \in {"unlink", "drop"} => ~Activates

\* A launch has resolved a revision, and opened a directory, before it goes on.
LaunchKnown ==
  \A s \in Session :
    /\ sess[s].at # "idle" => sess[s].rev \in Revision
    /\ sess[s].at \notin {"idle", "resolved"} => sess[s].dir \in Dir

\* What the steps of sessions and of weft-pack both rely on.
StoreKnown == NamedOnce /\ NamedFilled /\ HeldIntact /\ LaunchKnown

\* What weft-pack's steps rely on.
OpKnown ==
  /\ CopyKnown /\ StagedKnown /\ CreatedKnown /\ VictimKnown /\ TodoKnown
  /\ TargetKnown

StoreInv == TypeOK /\ StoreKnown /\ OpKnown

-----------------------------------------------------------------------------
(***************************************************************************)
(* Steps that leave the store and the launches alone.                      *)
(***************************************************************************)

LEMMA QuietStep ==
  ASSUME TypeOK, StoreKnown, UNCHANGED <<store, sess>>,
         claimed' \subseteq claimed
  PROVE  StoreKnown' /\ claimed' \cap Held' = {}
<1>1. Held' = Held
  BY DEF Held, Holds
<1>2. claimed' \cap Held' = {}
  BY <1>1 DEF TypeOK
<1>3. NamedOnce' /\ NamedFilled'
  BY DEF StoreKnown, store, NamedOnce, NamedFilled
<1>4. HeldIntact'
  BY DEF StoreKnown, store, HeldIntact, Holds
<1>5. LaunchKnown'
  BY DEF StoreKnown, LaunchKnown
<1> QED BY <1>2, <1>3, <1>4, <1>5 DEF StoreKnown

\* An operation that ends, or is killed, leaves nothing to know.
LEMMA IdleOp ==
  ASSUME op' = Idle
  PROVE  op' \in Op /\ OpKnown'
<1>1. Idle \in Op
  BY PackageAssumption DEF Idle, Op, OpStep, OpKind, NoLinks
<1>2. OpKnown'
  BY DEF Idle, OpKnown, CopyKnown, StagedKnown, CreatedKnown, VictimKnown,
         TodoKnown, TargetKnown, Activates, Copying, Undoable
<1> QED BY <1>1, <1>2

-----------------------------------------------------------------------------
(***************************************************************************)
(* Steps of weft-pack that only read the store, one lemma each.            *)
(***************************************************************************)

LEMMA DropRecordStep ==
  ASSUME TypeOK, StoreKnown, OpKnown, DropRecord
  PROVE  TypeOK' /\ StoreKnown' /\ OpKnown'
<1>1. StoreKnown' /\ claimed' \cap Held' = {}
  BY QuietStep DEF DropRecord, Fails
<1>2. op' \in Op /\ OpKnown'
  BY IdleOp DEF DropRecord, Fails
<1>3. TypeOK'
  BY <1>1, <1>2 DEF DropRecord, Fails, TypeOK, store, links, history
<1> QED BY <1>1, <1>2, <1>3

LEMMA SettleFailsStep ==
  ASSUME TypeOK, StoreKnown, OpKnown, SettleFails
  PROVE  TypeOK' /\ StoreKnown' /\ OpKnown'
<1>1. StoreKnown' /\ claimed' \cap Held' = {}
  BY QuietStep DEF SettleFails
<1>2. op' \in Op /\ OpKnown'
  BY IdleOp DEF SettleFails
<1>3. TypeOK'
  BY <1>1, <1>2 DEF SettleFails, TypeOK, store, links, records, CutShort
<1> QED BY <1>1, <1>2, <1>3

LEMMA UnlinkFailsStep ==
  ASSUME TypeOK, StoreKnown, OpKnown, UnlinkFails
  PROVE  TypeOK' /\ StoreKnown' /\ OpKnown'
<1>1. StoreKnown' /\ claimed' \cap Held' = {}
  BY QuietStep DEF UnlinkFails
<1>2. op' \in Op /\ OpKnown'
  BY IdleOp DEF UnlinkFails
<1>3. TypeOK'
  BY <1>1, <1>2 DEF UnlinkFails, TypeOK, store, links, records, CutShort
<1> QED BY <1>1, <1>2, <1>3

LEMMA ForgetStep ==
  ASSUME TypeOK, StoreKnown, OpKnown, Forget
  PROVE  TypeOK' /\ StoreKnown' /\ OpKnown'
<1>1. StoreKnown' /\ claimed' \cap Held' = {}
  BY QuietStep DEF Forget
<1>2. op' \in Op /\ OpKnown'
  BY IdleOp DEF Forget
<1>3. TypeOK'
  BY <1>1, <1>2 DEF Forget, TypeOK, store, links
<1> QED BY <1>1, <1>2, <1>3

LEMMA ForgetFailsStep ==
  ASSUME TypeOK, StoreKnown, OpKnown, ForgetFails
  PROVE  TypeOK' /\ StoreKnown' /\ OpKnown'
<1>1. StoreKnown' /\ claimed' \cap Held' = {}
  BY QuietStep DEF ForgetFails
<1>2. op' \in Op /\ OpKnown'
  BY IdleOp DEF ForgetFails
<1>3. TypeOK'
  BY <1>1, <1>2 DEF ForgetFails, TypeOK, store, links, records, CutShort
<1> QED BY <1>1, <1>2, <1>3

LEMMA CrashStep ==
  ASSUME TypeOK, StoreKnown, OpKnown, Crash
  PROVE  TypeOK' /\ StoreKnown' /\ OpKnown'
<1>1. StoreKnown' /\ claimed' \cap Held' = {}
  BY QuietStep DEF Crash
<1>2. op' \in Op /\ OpKnown'
  BY IdleOp DEF Crash
<1>3. TypeOK'
  BY <1>1, <1>2 DEF Crash, TypeOK, store, links, records, CutShort
<1> QED BY <1>1, <1>2, <1>3

LEMMA AdmitStep ==
  ASSUME TypeOK, StoreKnown, OpKnown, Admit
  PROVE  TypeOK' /\ StoreKnown' /\ OpKnown'
<1>1. StoreKnown' /\ claimed' \cap Held' = {}
  BY QuietStep DEF Admit, WriteOwner
<1>2. op' \in Op
  <2>1. CASE owner = None
    <3>1. op' = [op EXCEPT !.pc = "place", !.recorded = TRUE]
      BY <2>1 DEF Admit, WriteOwner
    <3> QED BY <3>1, PackageAssumption DEF TypeOK, Op, OpStep
  <2>2. CASE owner # None
    <3>1. op' = [op EXCEPT !.pc = "place", !.recorded = FALSE]
      BY <2>2 DEF Admit, WriteOwner
    <3> QED BY <3>1, PackageAssumption DEF TypeOK, Op, OpStep
  <2> QED BY <2>1, <2>2
<1>3. TypeOK'
  BY <1>1, <1>2 DEF Admit, WriteOwner, TypeOK, Op, store, links, history
<1>4. OpKnown'
  BY <1>2 DEF Admit, WriteOwner, TypeOK, Op, OpKnown, CopyKnown, StagedKnown,
     CreatedKnown, VictimKnown, TodoKnown, TargetKnown, Activates, Copying,
     Undoable, store, links, Named
<1> QED BY <1>1, <1>3, <1>4

LEMMA PlaceRefusedStep ==
  ASSUME TypeOK, StoreKnown, OpKnown, PlaceRefused
  PROVE  TypeOK' /\ StoreKnown' /\ OpKnown'
<1>1. StoreKnown' /\ claimed' \cap Held' = {}
  BY QuietStep DEF PlaceRefused
<1>2. op' \in Op
  BY PackageAssumption DEF PlaceRefused, TypeOK, Op, OpStep
<1>3. TypeOK'
  BY <1>1, <1>2 DEF PlaceRefused, TypeOK, Op, store, links, records, history
<1>4. OpKnown'
  <2>1. CopyKnown'
    BY <1>2, PackageAssumption DEF PlaceRefused, TypeOK, Op, OpKnown,
       CopyKnown, StagedKnown, Activates, Copying, Undoable, store, links,
       Named
  <2>2. StagedKnown'
    BY <1>2, PackageAssumption DEF PlaceRefused, TypeOK, Op, OpKnown,
       StagedKnown, Activates, Copying, Undoable, store, links, Named
  <2>3. CreatedKnown'
    BY <1>2, PackageAssumption DEF PlaceRefused, TypeOK, Op, OpKnown,
       CreatedKnown, StagedKnown, Activates, Copying, Undoable, store, links,
       Named
  <2>4. VictimKnown'
    BY <1>2, PackageAssumption DEF PlaceRefused, TypeOK, Op, OpKnown,
       VictimKnown, Activates, Copying, Undoable, store, links, Named
  <2>5. TodoKnown'
    BY <1>2, PackageAssumption DEF PlaceRefused, TypeOK, Op, OpKnown,
       TodoKnown, Activates, Copying, Undoable, store, links, Named
  <2>6. TargetKnown'
    BY <1>2, PackageAssumption DEF PlaceRefused, TypeOK, Op, OpKnown,
       TargetKnown, StagedKnown, Activates, Copying, Undoable, store, links,
       Named
  <2> QED BY <2>1, <2>2, <2>3, <2>4, <2>5, <2>6 DEF OpKnown
<1> QED BY <1>1, <1>3, <1>4

LEMMA KeepPreviousStep ==
  ASSUME TypeOK, StoreKnown, OpKnown, KeepPrevious
  PROVE  TypeOK' /\ StoreKnown' /\ OpKnown'
<1>1. StoreKnown' /\ claimed' \cap Held' = {}
  BY QuietStep DEF KeepPrevious
<1>2. op' \in Op
  BY PackageAssumption DEF KeepPrevious, TypeOK, Op, OpStep
<1>3. TypeOK'
  BY <1>1, <1>2 DEF KeepPrevious, TypeOK, Op, store, records, history, KeptNext
<1>4. OpKnown'
  BY <1>2 DEF KeepPrevious, TypeOK, Op, OpKnown, CopyKnown, StagedKnown,
     CreatedKnown, VictimKnown, TodoKnown, TargetKnown, Activates, Copying,
     Undoable, store, Named
<1> QED BY <1>1, <1>3, <1>4

LEMMA SwitchStep ==
  ASSUME TypeOK, StoreKnown, OpKnown, Switch
  PROVE  TypeOK' /\ StoreKnown' /\ OpKnown'
<1>1. StoreKnown' /\ claimed' \cap Held' = {}
  BY QuietStep DEF Switch
<1>2. op' \in Op
  <2>1. CASE op.kind = "install"
    <3>1. op' = [Idle EXCEPT !.pc = "unclaim", !.kind = op.kind,
                              !.dir = op.dir, !.target = op.target]
      BY <2>1 DEF Switch
    <3> QED BY <3>1, PackageAssumption, ZenonT(60) DEF TypeOK, Op, OpStep, OpKind, Idle,
       NoLinks
  <2>2. CASE op.kind # "install"
    <3>1. op' = [Idle EXCEPT !.pc = "collect", !.kind = op.kind,
                              !.dir = op.dir, !.target = op.target]
      BY <2>2 DEF Switch
    <3> QED BY <3>1, PackageAssumption, ZenonT(60) DEF TypeOK, Op, OpStep, OpKind, Idle,
       NoLinks
  <2> QED BY <2>1, <2>2
<1>3. TypeOK'
  BY <1>1, <1>2 DEF Switch, TypeOK, Op, store, records, Consenting
<1>4. OpKnown'
  BY <1>2 DEF Switch, TypeOK, Op, Idle, OpKnown, CopyKnown, StagedKnown,
     CreatedKnown, VictimKnown, TodoKnown, TargetKnown, Activates, Copying,
     Undoable, store, Named
<1> QED BY <1>1, <1>3, <1>4

LEMMA ActivateFailsStep ==
  ASSUME TypeOK, StoreKnown, OpKnown, ActivateFails
  PROVE  TypeOK' /\ StoreKnown' /\ OpKnown'
<1>1. StoreKnown' /\ claimed' \cap Held' = {}
  BY QuietStep DEF ActivateFails
<1>2. op' \in Op
  BY PackageAssumption DEF ActivateFails, TypeOK, Op, OpStep, OpKind, Idle,
     NoLinks
<1>3. TypeOK'
  BY <1>1, <1>2 DEF ActivateFails, TypeOK, Op, store, records, history,
     Reverted
<1>4. OpKnown'
  BY <1>2 DEF ActivateFails, TypeOK, Op, Idle, OpKnown, CopyKnown,
     StagedKnown, CreatedKnown, VictimKnown, TodoKnown, TargetKnown, Activates,
     Copying, Undoable, store, Named
<1> QED BY <1>1, <1>3, <1>4

LEMMA UnclaimStep ==
  ASSUME TypeOK, StoreKnown, OpKnown, Unclaim
  PROVE  TypeOK' /\ StoreKnown' /\ OpKnown'
<1>1. StoreKnown' /\ claimed' \cap Held' = {}
  BY QuietStep DEF Unclaim
<1>2. op' \in Op
  BY PackageAssumption DEF Unclaim, TypeOK, Op, OpStep
<1>3. TypeOK'
  BY <1>1, <1>2 DEF Unclaim, TypeOK, Op, store, links, records, history
<1>4. OpKnown'
  <2>1. CopyKnown'
    BY <1>2, PackageAssumption DEF Unclaim, TypeOK, Op, OpKnown, CopyKnown,
       Activates, Copying, Undoable, store, links, Named
  <2>2. StagedKnown'
    BY <1>2, PackageAssumption DEF Unclaim, TypeOK, Op, OpKnown, StagedKnown,
       Activates, Copying, Undoable, store, links, Named
  <2>3. CreatedKnown'
    BY <1>2, PackageAssumption DEF Unclaim, TypeOK, Op, OpKnown,
       CreatedKnown, Activates, Copying, Undoable, store, links, Named
  <2>4. VictimKnown'
    BY <1>2, PackageAssumption DEF Unclaim, TypeOK, Op, OpKnown, VictimKnown,
       Activates, Copying, Undoable, store, links, Named
  <2>5. TodoKnown'
    BY <1>2, PackageAssumption DEF Unclaim, TypeOK, Op, OpKnown, TodoKnown,
       Activates, Copying, Undoable, store, links, Named
  <2>6. TargetKnown'
    BY <1>2, PackageAssumption DEF Unclaim, TypeOK, Op, OpKnown, TargetKnown,
       Activates, Copying, Undoable, store, links, Named
  <2> QED BY <2>1, <2>2, <2>3, <2>4, <2>5, <2>6 DEF OpKnown
<1> QED BY <1>1, <1>3, <1>4

LEMMA EndCollectStep ==
  ASSUME TypeOK, StoreKnown, OpKnown, EndCollect
  PROVE  TypeOK' /\ StoreKnown' /\ OpKnown'
<1>1. StoreKnown' /\ claimed' \cap Held' = {}
  BY QuietStep DEF EndCollect
<1>2. op' \in Op
  BY PackageAssumption DEF EndCollect, TypeOK, Op, OpStep, AfterCollect
<1>3. TypeOK'
  BY <1>1, <1>2 DEF EndCollect, TypeOK, Op, store, links, records, history
<1>4. OpKnown'
  <2>1. CopyKnown'
    BY <1>2, PackageAssumption DEF EndCollect, TypeOK, Op, AfterCollect,
       OpKnown, CopyKnown, Activates, Copying, Undoable, store, links, Named
  <2>2. StagedKnown'
    BY <1>2, PackageAssumption DEF EndCollect, TypeOK, Op, AfterCollect,
       OpKnown, StagedKnown, Activates, Copying, Undoable, store, links, Named
  <2>3. CreatedKnown'
    BY <1>2, PackageAssumption DEF EndCollect, TypeOK, Op, AfterCollect,
       OpKnown, CreatedKnown, Activates, Copying, Undoable, store, links, Named
  <2>4. VictimKnown'
    BY <1>2, PackageAssumption DEF EndCollect, TypeOK, Op, AfterCollect,
       OpKnown, VictimKnown, Activates, Copying, Undoable, store, links, Named
  <2>5. TodoKnown'
    BY <1>2, PackageAssumption DEF EndCollect, TypeOK, Op, AfterCollect,
       OpKnown, TodoKnown, Activates, Copying, Undoable, store, links, Named
  <2>6. TargetKnown'
    BY <1>2, PackageAssumption DEF EndCollect, TypeOK, Op, AfterCollect,
       OpKnown, TargetKnown, Activates, Copying, Undoable, store, links, Named
  <2> QED BY <2>1, <2>2, <2>3, <2>4, <2>5, <2>6 DEF OpKnown
<1> QED BY <1>1, <1>3, <1>4

LEMMA SettleStep ==
  ASSUME TypeOK, StoreKnown, OpKnown, Settle
  PROVE  TypeOK' /\ StoreKnown' /\ OpKnown'
<1>1. StoreKnown' /\ claimed' \cap Held' = {}
  BY QuietStep DEF Settle
<1>2. op' \in Op
  BY PackageAssumption DEF Settle, TypeOK, Op, OpStep, OpKind, Idle, NoLinks
<1>3. TypeOK'
  <2> DEFINE declared == Declares[body[name[op.target]]]
  <2>1. body[name[op.target]] \in Package
    BY DEF Settle, TypeOK, Op, OpKnown, TargetKnown, StoreKnown, NamedFilled
  <2>2. declared \in SUBSET Capability
    BY <2>1, PackageAssumption
  <2>3. PICK approve \in {FALSE, op.kind = "install"} :
          /\ approved' = Settled(declared, approve)
          /\ Consenting(IF approve THEN declared ELSE consent)
    BY DEF Settle
  <2>4. approved' \in SUBSET Capability /\ consent' \in SUBSET Capability
    BY <2>2, <2>3 DEF TypeOK, Settled, Consenting
  <2> QED BY <1>1, <1>2, <2>4 DEF Settle, TypeOK, store, links
<1>4. OpKnown'
  BY <1>2 DEF Settle, TypeOK, Op, Idle, OpKnown, CopyKnown, StagedKnown,
     CreatedKnown, VictimKnown, TodoKnown, TargetKnown, Activates, Copying,
     Undoable, store, links, Named
<1> QED BY <1>1, <1>3, <1>4

LEMMA BeginRollbackStep ==
  ASSUME TypeOK, StoreKnown, OpKnown, BeginRollback
  PROVE  TypeOK' /\ StoreKnown' /\ OpKnown'
<1>1. StoreKnown' /\ claimed' \cap Held' = {}
  BY QuietStep DEF BeginRollback
<1>2. op' \in Op
  BY PackageAssumption, ZenonT(60) DEF BeginRollback, TypeOK, Op, OpStep, OpKind, Idle,
     NoLinks, Kept
<1>3. TypeOK'
  BY <1>1, <1>2 DEF BeginRollback, TypeOK, Op, store, links, records, history
<1>4. OpKnown'
  BY <1>2 DEF BeginRollback, TypeOK, Op, Idle, OpKnown, CopyKnown,
     StagedKnown, CreatedKnown, VictimKnown, TodoKnown, TargetKnown, Activates,
     Copying, Undoable, store, links, Named, Installed, Kept
<1> QED BY <1>1, <1>3, <1>4

LEMMA BeginUninstallStep ==
  ASSUME TypeOK, StoreKnown, OpKnown, BeginUninstall
  PROVE  TypeOK' /\ StoreKnown' /\ OpKnown'
<1>1. StoreKnown' /\ claimed' \cap Held' = {}
  BY QuietStep DEF BeginUninstall
<1>2. op' \in Op
  <2>1. CASE active = None
    <3>1. op' = [Idle EXCEPT !.pc = "collect", !.kind = "tidy"]
      BY <2>1 DEF BeginUninstall
    <3> QED BY <3>1, PackageAssumption, ZenonT(60) DEF TypeOK, Op, OpStep, OpKind, Idle,
       NoLinks
  <2>2. CASE active # None
    <3>1. op' = [Idle EXCEPT !.pc = "unlink", !.kind = "uninstall"]
      BY <2>2 DEF BeginUninstall
    <3> QED BY <3>1, PackageAssumption, ZenonT(60) DEF TypeOK, Op, OpStep, OpKind, Idle,
       NoLinks
  <2> QED BY <2>1, <2>2
<1>3. TypeOK'
  BY <1>1, <1>2 DEF BeginUninstall, TypeOK, Op, store, links, records, history
<1>4. OpKnown'
  BY <1>2 DEF BeginUninstall, TypeOK, Op, Idle, OpKnown, CopyKnown,
     StagedKnown, CreatedKnown, VictimKnown, TodoKnown, TargetKnown, Activates,
     Copying, Undoable, store, links, Named
<1> QED BY <1>1, <1>3, <1>4

LEMMA UnlinkStep ==
  ASSUME TypeOK, StoreKnown, OpKnown, Unlink
  PROVE  TypeOK' /\ StoreKnown' /\ OpKnown'
<1>1. StoreKnown' /\ claimed' \cap Held' = {}
  BY QuietStep DEF Unlink
<1>2. op' \in Op
  BY PackageAssumption DEF Unlink, TypeOK, Op, OpStep
<1>3. TypeOK'
  BY <1>1, <1>2 DEF Unlink, TypeOK, Op, store, records, Consenting
<1>4. OpKnown'
  BY <1>2 DEF Unlink, TypeOK, Op, OpKnown, CopyKnown, StagedKnown,
     CreatedKnown, VictimKnown, TodoKnown, TargetKnown, Activates, Copying,
     Undoable, store, Named
<1> QED BY <1>1, <1>3, <1>4

LEMMA DropPreviousStep ==
  ASSUME TypeOK, StoreKnown, OpKnown, DropPrevious
  PROVE  TypeOK' /\ StoreKnown' /\ OpKnown'
<1>1. StoreKnown' /\ claimed' \cap Held' = {}
  BY QuietStep DEF DropPrevious
<1>2. op' \in Op
  BY PackageAssumption DEF DropPrevious, TypeOK, Op, OpStep
<1>3. TypeOK'
  BY <1>1, <1>2 DEF DropPrevious, TypeOK, Op, store, records, history
<1>4. OpKnown'
  <2>1. CopyKnown'
    BY <1>2, PackageAssumption DEF DropPrevious, TypeOK, Op, OpKnown,
       CopyKnown, Activates, Copying, Undoable, store, Named
  <2>2. StagedKnown'
    BY <1>2, PackageAssumption DEF DropPrevious, TypeOK, Op, OpKnown,
       StagedKnown, Activates, Copying, Undoable, store, Named
  <2>3. CreatedKnown'
    BY <1>2, PackageAssumption DEF DropPrevious, TypeOK, Op, OpKnown,
       CreatedKnown, Activates, Copying, Undoable, store, Named
  <2>4. VictimKnown'
    BY <1>2, PackageAssumption DEF DropPrevious, TypeOK, Op, OpKnown,
       VictimKnown, Activates, Copying, Undoable, store, Named
  <2>5. TodoKnown'
    BY <1>2, PackageAssumption DEF DropPrevious, TypeOK, Op, OpKnown,
       TodoKnown, Activates, Copying, Undoable, store, Named
  <2>6. TargetKnown'
    BY <1>2, PackageAssumption DEF DropPrevious, TypeOK, Op, OpKnown,
       TargetKnown, Activates, Copying, Undoable, store, Named
  <2> QED BY <2>1, <2>2, <2>3, <2>4, <2>5, <2>6 DEF OpKnown
<1> QED BY <1>1, <1>3, <1>4

LEMMA ReleaseOwnerStep ==
  ASSUME TypeOK, StoreKnown, OpKnown, ReleaseOwner
  PROVE  TypeOK' /\ StoreKnown' /\ OpKnown'
<1>1. StoreKnown' /\ claimed' \cap Held' = {}
  BY QuietStep DEF ReleaseOwner
<1>2. op' \in Op
  BY PackageAssumption DEF ReleaseOwner, TypeOK, Op, OpStep, OpKind, Idle,
     NoLinks
<1>3. TypeOK'
  BY <1>1, <1>2 DEF ReleaseOwner, TypeOK, Op, store, links, history
<1>4. OpKnown'
  BY <1>2 DEF ReleaseOwner, TypeOK, Op, Idle, OpKnown, CopyKnown,
     StagedKnown, CreatedKnown, VictimKnown, TodoKnown, TargetKnown, Activates,
     Copying, Undoable, store, links, Named
<1> QED BY <1>1, <1>3, <1>4

LEMMA SkipRevisionStep ==
  ASSUME TypeOK, StoreKnown, OpKnown, NEW r \in Revision, SkipRevision(r)
  PROVE  TypeOK' /\ StoreKnown' /\ OpKnown'
<1>1. StoreKnown' /\ claimed' \cap Held' = {}
  BY QuietStep DEF SkipRevision
<1>2. op' \in Op
  BY PackageAssumption DEF SkipRevision, TypeOK, Op, OpStep
<1>3. TypeOK'
  BY <1>1, <1>2 DEF SkipRevision, TypeOK, Op, store, links, records, history
<1>4. OpKnown'
  <2>1. CopyKnown'
    BY <1>2, PackageAssumption DEF SkipRevision, TypeOK, Op, OpKnown,
       CopyKnown, Activates, Copying, Undoable, store, links, Named
  <2>2. StagedKnown'
    BY <1>2, PackageAssumption DEF SkipRevision, TypeOK, Op, OpKnown,
       StagedKnown, Activates, Copying, Undoable, store, links, Named
  <2>3. CreatedKnown'
    BY <1>2, PackageAssumption DEF SkipRevision, TypeOK, Op, OpKnown,
       CreatedKnown, Activates, Copying, Undoable, store, links, Named
  <2>4. VictimKnown'
    BY <1>2, PackageAssumption DEF SkipRevision, TypeOK, Op, OpKnown,
       VictimKnown, Activates, Copying, Undoable, store, links, Named
  <2>5. TodoKnown'
    BY <1>2, PackageAssumption DEF SkipRevision, TypeOK, Op, OpKnown,
       TodoKnown, Activates, Copying, Undoable, store, links, Named
  <2>6. TargetKnown'
    BY <1>2, PackageAssumption DEF SkipRevision, TypeOK, Op, OpKnown,
       TargetKnown, Activates, Copying, Undoable, store, links, Named
  <2> QED BY <2>1, <2>2, <2>3, <2>4, <2>5, <2>6 DEF OpKnown
<1> QED BY <1>1, <1>3, <1>4

-----------------------------------------------------------------------------
(***************************************************************************)
(* Steps that take a directory away, or put one in place.                  *)
(***************************************************************************)

\* What a session holds is what its revision names.
LEMMA HeldNamed ==
  ASSUME TypeOK, StoreKnown, NEW s \in Session, Holds(s)
  PROVE  /\ sess[s].rev \in Revision /\ sess[s].dir \in Dir
         /\ name[sess[s].rev] = sess[s].dir
         /\ Named(sess[s].dir) /\ sess[s].dir \in Held
<1>1. sess[s].at \notin {"idle", "resolved"}
  BY DEF Holds, Pinned
<1>2. sess[s].rev \in Revision /\ sess[s].dir \in Dir
  BY <1>1 DEF StoreKnown, LaunchKnown
<1>3. name[sess[s].rev] = sess[s].dir
  BY DEF StoreKnown, HeldIntact
<1> QED BY <1>2, <1>3 DEF Named, Held

\* A step that changes only what directories without a name hold.
LEMMA UnnamedStep ==
  ASSUME TypeOK, StoreKnown, UNCHANGED <<name, sess>>,
         \A d \in Dir : Named(d) => body'[d] = body[d],
         claimed' \cap Held = {}
  PROVE  StoreKnown' /\ claimed' \cap Held' = {}
<1>1. Held' = Held
  BY DEF Held, Holds
<1>2. NamedOnce'
  BY DEF StoreKnown, NamedOnce
<1>3. NamedFilled'
  <2> SUFFICES ASSUME NEW r \in Revision, name[r] # NoDir
               PROVE  body'[name[r]] # None
    BY DEF NamedFilled
  <2>1. name[r] \in Dir /\ Named(name[r])
    BY DEF TypeOK, Named
  <2> QED BY <2>1 DEF StoreKnown, NamedFilled
<1>4. HeldIntact'
  <2> SUFFICES ASSUME NEW s \in Session, Holds(s)
               PROVE  /\ name[sess[s].rev] = sess[s].dir
                      /\ sess[s].pkg # None
                      /\ body'[sess[s].dir] = sess[s].pkg
    BY DEF HeldIntact, Holds
  <2> QED BY HeldNamed DEF StoreKnown, HeldIntact
<1>5. LaunchKnown'
  BY DEF StoreKnown, LaunchKnown
<1> QED BY <1>1, <1>2, <1>3, <1>4, <1>5 DEF StoreKnown

LEMMA BeginInstallStep ==
  ASSUME TypeOK, StoreKnown, OpKnown, NEW p \in Package, NEW as \in Owner,
         BeginInstall(p, as)
  PROVE  TypeOK' /\ StoreKnown' /\ OpKnown'
<1>1. PICK d \in Dir :
        /\ Fresh(d)
        /\ body' = [body EXCEPT ![d] = p]
        /\ claimed' = claimed \cup {d}
        /\ op' = [Idle EXCEPT !.pc = "admit", !.kind = "install", !.pkg = p,
                              !.as = as, !.dir = d, !.target = Digest[p],
                              !.before = Now]
  BY DEF BeginInstall, CopyTree
<1>2. body[d] = None /\ \A s \in Session : sess[s].dir # d
  BY <1>1 DEF Fresh
<1>3. ~Named(d)
  BY <1>2, DirAssumption DEF Named, StoreKnown, NamedFilled
<1>4. claimed' \cap Held = {}
  BY <1>1, <1>2 DEF TypeOK, Held
<1>5. \A e \in Dir : Named(e) => body'[e] = body[e]
  BY <1>1, <1>3 DEF TypeOK
<1>6. UNCHANGED <<name, sess>>
  BY DEF BeginInstall, CopyTree
<1>7. StoreKnown' /\ claimed' \cap Held' = {}
  BY <1>4, <1>5, <1>6, UnnamedStep
<1>8. Now \in [active : Revision \cup {None}, previous : Revision \cup {None},
               owner : Owner \cup {None}]
  BY DEF Now, TypeOK
<1>9. op' \in Op
  BY <1>1, <1>8, PackageAssumption DEF Idle, Op, OpStep, OpKind, NoLinks
<1>10. TypeOK'
  <2>1. body' \in [Dir -> Package \cup {None}] /\ claimed' \in SUBSET Dir
    BY <1>1 DEF TypeOK
  <2> QED BY <2>1, <1>7, <1>9 DEF BeginInstall, CopyTree, TypeOK, links, records, history
<1>11. OpKnown'
  <2>1. body'[d] = p /\ d \in claimed' /\ ~Named(d)'
    BY <1>1, <1>3, <1>6 DEF TypeOK, Named
  <2>2. /\ op'.pc = "admit" /\ op'.kind = "install" /\ op'.pkg = p
        /\ op'.as = as /\ op'.dir = d /\ op'.target = Digest[p]
        /\ op'.created = FALSE
    BY <1>1 DEF Idle
  <2> QED BY <2>1, <2>2 DEF OpKnown, CopyKnown, StagedKnown, CreatedKnown,
       VictimKnown, TodoKnown, TargetKnown, Activates, Undoable
<1> QED BY <1>7, <1>10, <1>11

LEMMA AdmitRefusedStep ==
  ASSUME TypeOK, StoreKnown, OpKnown, AdmitRefused
  PROVE  TypeOK' /\ StoreKnown' /\ OpKnown'
<1>1. ~Named(op.dir)
  BY DEF AdmitRefused, OpKnown, StagedKnown
<1>2. \A e \in Dir : Named(e) => body'[e] = body[e]
  BY <1>1 DEF AdmitRefused, TypeOK
<1>3. claimed' \cap Held = {} /\ UNCHANGED <<name, sess>>
  BY DEF AdmitRefused, Fails, TypeOK
<1>4. StoreKnown' /\ claimed' \cap Held' = {}
  BY <1>2, <1>3, UnnamedStep
<1>5. op' \in Op /\ OpKnown'
  BY IdleOp DEF AdmitRefused, Fails
<1>6. TypeOK'
  BY <1>4, <1>5 DEF AdmitRefused, Fails, TypeOK, links, records, history
<1> QED BY <1>4, <1>5, <1>6

LEMMA PlaceSameStep ==
  ASSUME TypeOK, StoreKnown, OpKnown, PlaceSame
  PROVE  TypeOK' /\ StoreKnown' /\ OpKnown'
<1>1. /\ ~Named(op.dir) /\ op.kind = "install" /\ op.as \in Owner
      /\ op.target \in Revision /\ ~op.created
  BY PackageAssumption DEF PlaceSame, OpKnown, StagedKnown, CreatedKnown
<1>2. \A e \in Dir : Named(e) => body'[e] = body[e]
  BY <1>1 DEF PlaceSame, TypeOK
<1>3. claimed' \cap Held = {} /\ UNCHANGED <<name, sess>>
  BY DEF PlaceSame, TypeOK
<1>4. StoreKnown' /\ claimed' \cap Held' = {}
  BY <1>2, <1>3, UnnamedStep
<1>5. op' \in Op
  BY DEF PlaceSame, TypeOK, Op, OpStep
<1>6. TypeOK'
  BY <1>1, <1>4, <1>5 DEF PlaceSame, TypeOK, links, records, history
<1>7. OpKnown'
  BY <1>1, <1>3 DEF PlaceSame, TypeOK, Op, OpKnown, CopyKnown, StagedKnown,
     CreatedKnown, VictimKnown, TodoKnown, TargetKnown, Activates, Copying,
     Undoable
<1> QED BY <1>4, <1>6, <1>7

LEMMA DiscardStep ==
  ASSUME TypeOK, StoreKnown, OpKnown, Discard
  PROVE  TypeOK' /\ StoreKnown' /\ OpKnown'
<1>1. ~Named(op.victim) /\ ~op.created /\ op.kind = "install"
  BY DEF Discard, OpKnown, VictimKnown, CreatedKnown
<1>2. \A e \in Dir : Named(e) => body'[e] = body[e]
  BY <1>1 DEF Discard, TypeOK
<1>3. claimed' \cap Held = {} /\ UNCHANGED <<name, sess>>
  BY DEF Discard, TypeOK
<1>4. StoreKnown' /\ claimed' \cap Held' = {}
  BY <1>2, <1>3, UnnamedStep
<1>5. op' \in Op
  BY DEF Discard, TypeOK, Op, OpStep
<1>6. TypeOK'
  BY <1>4, <1>5 DEF Discard, TypeOK, links, records, history
<1>7. OpKnown'
  BY <1>1, <1>3 DEF Discard, TypeOK, Op, OpKnown, CopyKnown, StagedKnown,
     CreatedKnown, VictimKnown, TodoKnown, TargetKnown, Activates, Copying,
     Undoable
<1> QED BY <1>4, <1>6, <1>7

LEMMA PurgeRevisionStep ==
  ASSUME TypeOK, StoreKnown, OpKnown, PurgeRevision
  PROVE  TypeOK' /\ StoreKnown' /\ OpKnown'
<1>1. ~Named(op.victim)
  BY DEF PurgeRevision, OpKnown, VictimKnown
<1>2. \A e \in Dir : Named(e) => body'[e] = body[e]
  BY <1>1 DEF PurgeRevision, TypeOK
<1>3. claimed' \cap Held = {} /\ UNCHANGED <<name, sess>>
  BY DEF PurgeRevision, TypeOK
<1>4. StoreKnown' /\ claimed' \cap Held' = {}
  BY <1>2, <1>3, UnnamedStep
<1>5. op' \in Op
  BY DEF PurgeRevision, TypeOK, Op, OpStep
<1>6. TypeOK'
  BY <1>4, <1>5 DEF PurgeRevision, TypeOK, links, records, history
<1>7. OpKnown'
  BY <1>3 DEF PurgeRevision, TypeOK, Op, OpKnown, CopyKnown, StagedKnown,
     CreatedKnown, VictimKnown, TodoKnown, TargetKnown, Activates, Copying,
     Undoable, links
<1> QED BY <1>4, <1>6, <1>7

LEMMA CleanStagingStep ==
  ASSUME TypeOK, StoreKnown, OpKnown, CleanStaging
  PROVE  TypeOK' /\ StoreKnown' /\ OpKnown'
<1>1. \A e \in Dir : Named(e) => body'[e] = body[e]
  BY DEF CleanStaging, TypeOK
<1>2. claimed' \cap Held = {} /\ UNCHANGED <<name, sess>>
  BY DEF CleanStaging, TypeOK
<1>3. StoreKnown' /\ claimed' \cap Held' = {}
  BY <1>1, <1>2, UnnamedStep
<1>4. op' \in Op
  BY DEF CleanStaging, TypeOK, Op, OpStep
<1>5. op.dir \in Dir
  BY DEF CleanStaging, OpKnown, CopyKnown, CreatedKnown, Copying
<1>6. body' \in [Dir -> Package \cup {None}] /\ torn' \in SUBSET Dir
  BY <1>5 DEF CleanStaging, TypeOK
<1>7. TypeOK'
  BY <1>3, <1>4, <1>6 DEF CleanStaging, TypeOK, links, records, history
<1>8. OpKnown'
  BY <1>2 DEF CleanStaging, TypeOK, Op, OpKnown, CopyKnown, StagedKnown,
     CreatedKnown, VictimKnown, TodoKnown, TargetKnown, Activates, Copying,
     Undoable
<1> QED BY <1>3, <1>7, <1>8

LEMMA BeginCollectStep ==
  ASSUME TypeOK, StoreKnown, OpKnown, BeginCollect
  PROVE  TypeOK' /\ StoreKnown' /\ OpKnown'
<1>1. PICK old \in BOOLEAN :
        LET debris == {d \in Dir : old /\ body[d] # None /\ ~Named(d)
                                       /\ Claimable(d) /\ d \notin claimed}
        IN  /\ body' = [d \in Dir |-> IF d \in debris THEN None ELSE body[d]]
            /\ torn' = torn \ debris
  BY DEF BeginCollect
<1>2. \A e \in Dir : Named(e) => body'[e] = body[e]
  BY <1>1
<1>3. claimed' \cap Held = {} /\ UNCHANGED <<name, sess>>
  BY DEF BeginCollect, TypeOK
<1>4. StoreKnown' /\ claimed' \cap Held' = {}
  BY <1>2, <1>3, UnnamedStep
<1>5. op' \in Op
  BY DEF BeginCollect, TypeOK, Op, OpStep
<1>6. body' \in [Dir -> Package \cup {None}] /\ torn' \in SUBSET Dir
  BY <1>1 DEF TypeOK
<1>7. TypeOK'
  BY <1>4, <1>5, <1>6 DEF BeginCollect, TypeOK, records, history
<1>8. op'.todo = {r \in Revision : name[r] # NoDir} \ Keep
  BY DEF BeginCollect, TypeOK, Op
<1>9. Activates => op.target \notin op'.todo
  BY <1>8, PackageAssumption DEF BeginCollect, OpKnown, TargetKnown, Keep,
     Installed, Activates, TypeOK
<1>10. OpKnown'
  BY <1>3, <1>8, <1>9 DEF BeginCollect, TypeOK, Op, OpKnown, CopyKnown,
     StagedKnown, CreatedKnown, VictimKnown, TodoKnown, TargetKnown, Activates,
     Copying, Undoable
<1> QED BY <1>4, <1>7, <1>10

LEMMA PlaceNewStep ==
  ASSUME TypeOK, StoreKnown, OpKnown, PlaceNew
  PROVE  TypeOK' /\ StoreKnown' /\ OpKnown'
<1>1. /\ ~Named(op.dir) /\ op.kind = "install" /\ op.as \in Owner
      /\ op.dir \in claimed /\ op.dir \in Dir /\ body[op.dir] # None
      /\ op.target \in Revision /\ name[op.target] = NoDir
  BY PackageAssumption DEF PlaceNew, OpKnown, StagedKnown, CopyKnown, Copying
<1>2. name' = [name EXCEPT ![op.target] = op.dir] /\ UNCHANGED <<body, sess>>
  BY DEF PlaceNew
<1>3. op.dir # NoDir
  BY <1>1, DirAssumption
<1>4. StoreKnown'
  <2>1. NamedOnce'
    BY <1>1, <1>2 DEF TypeOK, StoreKnown, NamedOnce, Named
  <2>2. NamedFilled'
    BY <1>1, <1>2 DEF TypeOK, StoreKnown, NamedFilled
  <2>3. HeldIntact'
    <3> SUFFICES ASSUME NEW s \in Session, Holds(s)
                 PROVE  name'[sess[s].rev] = sess[s].dir
      BY <1>2 DEF HeldIntact, Holds, StoreKnown
    <3>1. sess[s].rev # op.target
      BY <1>1, HeldNamed, DirAssumption
    <3> QED BY <3>1, <1>2, HeldNamed DEF TypeOK
  <2>4. LaunchKnown'
    BY <1>2 DEF StoreKnown, LaunchKnown
  <2> QED BY <2>1, <2>2, <2>3, <2>4 DEF StoreKnown
<1>5. claimed' \cap Held' = {}
  BY <1>2 DEF PlaceNew, TypeOK, Held, Holds
<1>6. op' \in Op
  BY ZenonT(60) DEF PlaceNew, TypeOK, Op, OpStep
<1>7. TypeOK'
  BY <1>1, <1>2, <1>5, <1>6 DEF PlaceNew, TypeOK, links, records, history
<1>8. name'[op.target] = op.dir
  BY <1>1, <1>2 DEF TypeOK
<1>9. OpKnown'
  BY <1>1, <1>3, <1>8 DEF PlaceNew, TypeOK, Op, OpKnown, CopyKnown,
     StagedKnown, CreatedKnown, VictimKnown, TodoKnown, TargetKnown, Activates,
     Copying, Undoable
<1> QED BY <1>4, <1>7, <1>9

LEMMA PlaceOverStep ==
  ASSUME TypeOK, StoreKnown, OpKnown, PlaceOver
  PROVE  TypeOK' /\ StoreKnown' /\ OpKnown'
<1> DEFINE old == name[op.target]
<1>1. /\ ~Named(op.dir) /\ op.kind = "install" /\ op.as \in Owner
      /\ op.dir \in claimed /\ op.dir \in Dir /\ body[op.dir] # None
      /\ op.target \in Revision /\ ~op.created
  BY PackageAssumption DEF PlaceOver, OpKnown, StagedKnown, CreatedKnown,
     CopyKnown, Copying
<1>2. /\ name' = [name EXCEPT ![op.target] = op.dir]
      /\ UNCHANGED <<body, sess>>
      /\ claimed' = claimed \cup {old}
      /\ op' = [op EXCEPT !.pc = "discard", !.victim = old]
      /\ old # NoDir /\ old \notin Held
  BY DEF PlaceOver, Claimable
<1>3. old \in Dir /\ old # op.dir /\ op.dir # NoDir
  BY <1>1, <1>2, DirAssumption DEF TypeOK, Named
<1>4. StoreKnown'
  <2>1. NamedOnce'
    BY <1>1, <1>2 DEF TypeOK, StoreKnown, NamedOnce, Named
  <2>2. NamedFilled'
    BY <1>1, <1>2 DEF TypeOK, StoreKnown, NamedFilled
  <2>3. HeldIntact'
    <3> SUFFICES ASSUME NEW s \in Session, Holds(s)
                 PROVE  name'[sess[s].rev] = sess[s].dir
      BY <1>2 DEF HeldIntact, Holds, StoreKnown
    <3>1. sess[s].rev # op.target
      BY <1>2, HeldNamed
    <3> QED BY <3>1, <1>2, HeldNamed DEF TypeOK
  <2>4. LaunchKnown'
    BY <1>2 DEF StoreKnown, LaunchKnown
  <2> QED BY <2>1, <2>2, <2>3, <2>4 DEF StoreKnown
<1>5. claimed' \cap Held' = {}
  BY <1>2 DEF TypeOK, Held, Holds
<1>6. op' \in Op
  BY <1>2, <1>3 DEF TypeOK, Op, OpStep
<1>7. TypeOK'
  BY <1>1, <1>2, <1>3, <1>5, <1>6 DEF PlaceOver, TypeOK, links, records,
     history
<1>8. name'[op.target] = op.dir
  BY <1>1, <1>2 DEF TypeOK
<1>9. old \in claimed' /\ ~(\E r \in Revision : name'[r] = old)
  BY <1>1, <1>2, <1>3 DEF TypeOK, StoreKnown, NamedOnce
<1>10. /\ op'.pc = "discard" /\ op'.kind = "install" /\ op'.victim = old
       /\ op'.target = op.target /\ op'.dir = op.dir
       /\ op'.created = op.created
  BY <1>1, <1>2 DEF TypeOK, Op
<1>11. OpKnown'
  BY <1>1, <1>3, <1>8, <1>9, <1>10 DEF OpKnown, CopyKnown, StagedKnown,
     CreatedKnown, VictimKnown, TodoKnown, TargetKnown, Activates, Copying,
     Undoable, Named
<1> QED BY <1>4, <1>7, <1>11

LEMMA RemoveCreatedStep ==
  ASSUME TypeOK, StoreKnown, OpKnown, RemoveCreated
  PROVE  TypeOK' /\ StoreKnown' /\ OpKnown'
<1>1. /\ op.kind = "install" /\ op.dir \in claimed /\ op.dir \in Dir
      /\ op.target \in Revision /\ name[op.target] = op.dir
  BY DEF RemoveCreated, OpKnown, CreatedKnown, CopyKnown, TargetKnown,
     Activates, Copying, Undoable
<1>2. /\ name' = [name EXCEPT ![op.target] = NoDir]
      /\ body' = [body EXCEPT ![op.dir] = None]
      /\ UNCHANGED <<sess, claimed>>
  BY DEF RemoveCreated
<1>3. op.dir # NoDir /\ op.dir \notin Held
  BY <1>1, DirAssumption DEF TypeOK
<1>4. StoreKnown'
  <2>1. NamedOnce'
    BY <1>1, <1>2 DEF TypeOK, StoreKnown, NamedOnce
  <2>2. NamedFilled'
    <3> SUFFICES ASSUME NEW r \in Revision, name'[r] # NoDir
                 PROVE  body'[name'[r]] # None
      BY DEF NamedFilled
    <3>1. r # op.target /\ name'[r] = name[r] /\ name[r] # NoDir
      BY <1>1, <1>2 DEF TypeOK
    <3>2. name[r] # op.dir
      BY <1>1, <3>1 DEF StoreKnown, NamedOnce
    <3>3. name[r] \in Dir /\ body[name[r]] # None
      BY <3>1 DEF TypeOK, StoreKnown, NamedFilled
    <3> QED BY <1>2, <3>1, <3>2, <3>3 DEF TypeOK
  <2>3. HeldIntact'
    <3> SUFFICES ASSUME NEW s \in Session, Holds(s)
                 PROVE  /\ name'[sess[s].rev] = sess[s].dir
                        /\ sess[s].pkg # None
                        /\ body'[sess[s].dir] = sess[s].pkg
      BY <1>2 DEF HeldIntact, Holds
    <3>1. sess[s].rev # op.target /\ sess[s].dir # op.dir
      BY <1>1, <1>3, HeldNamed
    <3> QED BY <3>1, <1>2, HeldNamed DEF TypeOK, StoreKnown, HeldIntact
  <2>4. LaunchKnown'
    BY <1>2 DEF StoreKnown, LaunchKnown
  <2> QED BY <2>1, <2>2, <2>3, <2>4 DEF StoreKnown
<1>5. claimed' \cap Held' = {}
  BY <1>2 DEF TypeOK, Held, Holds
<1>6. op' \in Op
  BY DEF RemoveCreated, TypeOK, Op, OpStep
<1>7. TypeOK'
  BY <1>1, <1>2, <1>5, <1>6 DEF RemoveCreated, TypeOK, links, records, history
<1>8. OpKnown'
  BY <1>1 DEF RemoveCreated, TypeOK, Op, OpKnown, CopyKnown, StagedKnown,
     CreatedKnown, VictimKnown, TodoKnown, TargetKnown, Activates, Copying,
     Undoable
<1> QED BY <1>4, <1>7, <1>8

LEMMA TrashRevisionStep ==
  ASSUME TypeOK, StoreKnown, OpKnown, NEW r \in Revision, TrashRevision(r)
  PROVE  TypeOK' /\ StoreKnown' /\ OpKnown'
<1> DEFINE gone == name[r]
<1>1. /\ name' = [name EXCEPT ![r] = NoDir]
      /\ UNCHANGED <<body, sess>>
      /\ claimed' = claimed \cup {gone}
      /\ op' = [op EXCEPT !.pc = "purge", !.todo = op.todo \ {r},
                          !.victim = gone]
      /\ op.pc = "trash" /\ r \in op.todo /\ gone \notin Held
  BY DEF TrashRevision, Claimable
<1>2. gone # NoDir /\ gone \in Dir
  BY <1>1 DEF TypeOK, OpKnown, TodoKnown
<1>3. StoreKnown'
  <2>1. NamedOnce'
    BY <1>1 DEF TypeOK, StoreKnown, NamedOnce
  <2>2. NamedFilled'
    BY <1>1 DEF TypeOK, StoreKnown, NamedFilled
  <2>3. HeldIntact'
    <3> SUFFICES ASSUME NEW s \in Session, Holds(s)
                 PROVE  name'[sess[s].rev] = sess[s].dir
      BY <1>1 DEF HeldIntact, Holds, StoreKnown
    <3>1. sess[s].rev # r
      BY <1>1, HeldNamed
    <3> QED BY <3>1, <1>1, HeldNamed DEF TypeOK
  <2>4. LaunchKnown'
    BY <1>1 DEF StoreKnown, LaunchKnown
  <2> QED BY <2>1, <2>2, <2>3, <2>4 DEF StoreKnown
<1>4. claimed' \cap Held' = {}
  BY <1>1 DEF TypeOK, Held, Holds
<1>5. op' \in Op
  BY <1>1, <1>2 DEF TypeOK, Op, OpStep
<1>6. TypeOK'
  BY <1>1, <1>2, <1>4, <1>5 DEF TrashRevision, TypeOK, links, records, history
<1>7. gone \in claimed' /\ ~(\E q \in Revision : name'[q] = gone)
  BY <1>1, <1>2 DEF TypeOK, StoreKnown, NamedOnce
<1>8. \A q \in op.todo \ {r} : name'[q] # NoDir
  BY <1>1 DEF TypeOK, Op, OpKnown, TodoKnown
<1>9. Activates /\ op.target \in Revision => name'[op.target] = name[op.target]
  BY <1>1 DEF OpKnown, TargetKnown, TypeOK
<1>10. /\ op'.pc = "purge" /\ op'.kind = op.kind /\ op'.victim = gone
       /\ op'.target = op.target /\ op'.dir = op.dir
       /\ op'.todo = op.todo \ {r} /\ UNCHANGED active
  BY <1>1 DEF TrashRevision, links, TypeOK, Op
<1>11. OpKnown'
  BY <1>1, <1>7, <1>8, <1>9, <1>10 DEF OpKnown, CopyKnown, StagedKnown,
     CreatedKnown, VictimKnown, TodoKnown, TargetKnown, Activates, Copying,
     Undoable, Named
<1> QED BY <1>3, <1>6, <1>11

-----------------------------------------------------------------------------
(***************************************************************************)
(* Launches, approvals and the user's data.                                *)
(***************************************************************************)

\* A step that changes neither the store nor the operation.
LEMMA StillKnown ==
  ASSUME OpKnown, UNCHANGED <<store, links, claimed, op>>
  PROVE  OpKnown'
  BY DEF OpKnown, CopyKnown, StagedKnown, CreatedKnown, VictimKnown, TodoKnown,
     TargetKnown, Activates, Named, store, links

LEMMA ApproveStep ==
  ASSUME TypeOK, StoreKnown, OpKnown, NEW named \in SUBSET Capability,
         Approve(named)
  PROVE  TypeOK' /\ StoreKnown' /\ OpKnown'
<1> DEFINE declared == Declares[body[name[active]]]
<1>1. StoreKnown' /\ claimed' \cap Held' = {}
  BY QuietStep DEF Approve
<1>2. body[name[active]] \in Package
  BY DEF Approve, Installed, TypeOK, StoreKnown, NamedFilled
<1>3. declared \in SUBSET Capability
  BY <1>2, PackageAssumption
<1>4. /\ approved' = IF named = {} THEN declared ELSE approved \cup named
      /\ consent' = IF cut THEN {}
                    ELSE IF named = {} THEN declared ELSE consent \cup named
  BY DEF Approve, Consenting
<1>5. approved' \in SUBSET Capability /\ consent' \in SUBSET Capability
  BY <1>3, <1>4 DEF TypeOK
<1>6. TypeOK'
  BY <1>1, <1>5 DEF Approve, TypeOK, store, links
<1>7. OpKnown'
  BY StillKnown DEF Approve
<1> QED BY <1>1, <1>6, <1>7

LEMMA RemoveDataStep ==
  ASSUME TypeOK, StoreKnown, OpKnown, RemoveData
  PROVE  TypeOK' /\ StoreKnown' /\ OpKnown'
<1>1. StoreKnown' /\ claimed' \cap Held' = {}
  BY QuietStep DEF RemoveData
<1>2. TypeOK'
  BY <1>1 DEF RemoveData, TypeOK, store, links, history
<1>3. OpKnown'
  BY StillKnown DEF RemoveData
<1> QED BY <1>1, <1>2, <1>3

\* A step of a launch that leaves what it holds as it is, or lets it go.
LEMMA LaunchStepKnown ==
  ASSUME TypeOK, StoreKnown, NEW s \in Session, UNCHANGED <<store, claimed>>,
         NEW launch, sess' = [sess EXCEPT ![s] = launch],
         launch \in [at : LaunchStep, rev : Revision \cup {None},
                     dir : Dir \cup {NoDir}, pkg : Package \cup {None}],
         launch.at # "idle" => launch.rev \in Revision,
         launch.at \notin {"idle", "resolved"} => launch.dir \in Dir,
         launch.at \in Pinned =>
           /\ name[launch.rev] = launch.dir /\ launch.dir \notin claimed
           /\ launch.pkg # None /\ body[launch.dir] = launch.pkg
  PROVE  StoreKnown' /\ claimed' \cap Held' = {}
<1>1. \A t \in Session : sess'[t] = IF t = s THEN launch ELSE sess[t]
  BY DEF TypeOK
<1>2. claimed' \cap Held' = {}
  BY <1>1 DEF Held, Holds, TypeOK
<1>3. NamedOnce' /\ NamedFilled'
  BY DEF StoreKnown, NamedOnce, NamedFilled, store
<1>4. HeldIntact'
  BY <1>1 DEF StoreKnown, HeldIntact, Holds, store
<1>5. LaunchKnown'
  BY <1>1 DEF StoreKnown, LaunchKnown
<1> QED BY <1>2, <1>3, <1>4, <1>5 DEF StoreKnown

LEMMA LaunchStepSafe ==
  ASSUME TypeOK, StoreKnown, OpKnown, NEW s \in Session, Launch(s)
  PROVE  TypeOK' /\ StoreKnown' /\ OpKnown'
<1> DEFINE Launches == [at : LaunchStep, rev : Revision \cup {None},
                        dir : Dir \cup {NoDir}, pkg : Package \cup {None}]
           At(step) == [sess[s] EXCEPT !.at = step]
           Becomes(launch) == sess' = [sess EXCEPT ![s] = launch]
           Goes(step) == sess' = [sess EXCEPT ![s].at = step]
<1>1. sess[s] \in Launches /\ sess \in [Session -> Launches]
  BY DEF TypeOK
<1>2. OpKnown'
  BY StillKnown DEF Launch, Resolve, Open, Pin, Verify, RecordOwner, WriteOwner,
     CheckApproval, Prepare, End, store, links
<1> SUFFICES TypeOK' /\ StoreKnown'
  BY <1>2
<1>3. UNCHANGED <<store, links, claimed, op, history>>
  BY DEF Launch, Resolve, Open, Pin, Verify, RecordOwner, WriteOwner, CheckApproval,
     Prepare, End
<1>4. Holds(s) => /\ sess[s].rev \in Revision /\ sess[s].dir \in Dir
                  /\ name[sess[s].rev] = sess[s].dir
                  /\ sess[s].dir \notin claimed
                  /\ sess[s].pkg \in Package
                  /\ body[sess[s].dir] = sess[s].pkg
  BY <1>1, HeldNamed DEF TypeOK, StoreKnown, HeldIntact
<1>5. ASSUME NEW launch \in Launches, Becomes(launch),
             launch.at # "idle" => launch.rev \in Revision,
             launch.at \notin {"idle", "resolved"} => launch.dir \in Dir,
             launch.at \in Pinned =>
               /\ name[launch.rev] = launch.dir /\ launch.dir \notin claimed
               /\ launch.pkg # None /\ body[launch.dir] = launch.pkg,
             owner' \in Owner \cup {None}, data' \in BOOLEAN,
             approved' = approved
      PROVE  TypeOK' /\ StoreKnown'
  <2>1. StoreKnown' /\ claimed' \cap Held' = {}
    BY <1>3, <1>5, LaunchStepKnown
  <2>2. sess' \in [Session -> Launches]
    BY <1>1, <1>5
  <2> QED BY <1>3, <1>5, <2>1, <2>2 DEF TypeOK, store, links, history
\* A launch that holds its revision goes on to a step where it still does.
<1>6. ASSUME NEW step \in Pinned, Holds(s), Goes(step),
             owner' \in Owner \cup {None}, data' \in BOOLEAN,
             approved' = approved
      PROVE  TypeOK' /\ StoreKnown'
  <2>1. At(step) \in Launches /\ Becomes(At(step))
    BY <1>1, <1>6 DEF Pinned, LaunchStep
  <2>2. /\ At(step).at = step /\ At(step).rev = sess[s].rev
        /\ At(step).dir = sess[s].dir /\ At(step).pkg = sess[s].pkg
    BY <1>1
  <2>3. sess[s].pkg # None
    BY <1>4, <1>6, PackageAssumption
  <2> QED BY <1>4, <1>5, <1>6, <2>1, <2>2, <2>3
<1> HIDE DEF Launches, Becomes, Goes
<1>7. CASE Resolve(s)
  <2> DEFINE resolved == [sess[s] EXCEPT !.at = "resolved", !.rev = active]
  <2>1. active \in Revision
    BY <1>7 DEF Resolve, Installed, TypeOK
  <2>2. resolved \in Launches /\ Becomes(resolved)
    BY <1>1, <1>7, <2>1 DEF Resolve, LaunchStep, Launches, Becomes
  <2>3. resolved.at = "resolved" /\ resolved.rev = active
    BY <1>1 DEF Launches
  <2>4. /\ owner' \in Owner \cup {None} /\ data' \in BOOLEAN
        /\ approved' = approved
    BY <1>7 DEF Resolve, TypeOK, records
  <2> HIDE DEF resolved
  <2> QED BY <1>5, <2>1, <2>2, <2>3, <2>4 DEF Pinned
<1>8. CASE Open(s)
  <2> DEFINE opened == [sess[s] EXCEPT !.at = "opened",
                                       !.dir = name[sess[s].rev]]
  <2>1. sess[s].at = "resolved" /\ sess[s].rev \in Revision
    BY <1>8 DEF Open, StoreKnown, LaunchKnown
  <2>2. name[sess[s].rev] \in Dir
    BY <1>8, <2>1 DEF Open, TypeOK
  <2>3. opened \in Launches /\ Becomes(opened)
    BY <1>1, <1>8, <2>2 DEF Open, LaunchStep, Launches, Becomes
  <2>4. /\ opened.at = "opened" /\ opened.rev = sess[s].rev
        /\ opened.dir = name[sess[s].rev]
    BY <1>1 DEF Launches
  <2>5. /\ owner' \in Owner \cup {None} /\ data' \in BOOLEAN
        /\ approved' = approved
    BY <1>8 DEF Open, TypeOK, records
  <2> HIDE DEF opened
  <2> QED BY <1>5, <2>1, <2>2, <2>3, <2>4, <2>5 DEF Pinned
<1>9. CASE Pin(s)
  <2> DEFINE pinned == [sess[s] EXCEPT !.at = "pinned",
                                       !.pkg = body[sess[s].dir]]
  <2>1. /\ sess[s].at = "opened" /\ sess[s].rev \in Revision
        /\ sess[s].dir \in Dir /\ sess[s].dir \notin claimed
        /\ name[sess[s].rev] = sess[s].dir
    BY <1>9 DEF Pin, CanPin, SameFile, StoreKnown, LaunchKnown
  <2>2. body[sess[s].dir] # None /\ body[sess[s].dir] \in Package
    BY <2>1, DirAssumption DEF TypeOK, StoreKnown, NamedFilled
  <2>3. pinned \in Launches /\ Becomes(pinned)
    BY <1>1, <1>9, <2>2 DEF Pin, LaunchStep, Launches, Becomes
  <2>4. /\ pinned.at = "pinned" /\ pinned.rev = sess[s].rev
        /\ pinned.dir = sess[s].dir /\ pinned.pkg = body[sess[s].dir]
    BY <1>1 DEF Launches
  <2>5. /\ owner' \in Owner \cup {None} /\ data' \in BOOLEAN
        /\ approved' = approved
    BY <1>9 DEF Pin, TypeOK, records
  <2> HIDE DEF pinned
  <2> QED BY <1>5, <2>1, <2>2, <2>3, <2>4, <2>5
<1>10. CASE Verify(s)
  <2>1. /\ owner' \in Owner \cup {None} /\ data' \in BOOLEAN
        /\ approved' = approved
    BY <1>10 DEF Verify, TypeOK, records
  <2>2. Holds(s)
    BY <1>10 DEF Verify, Holds, Pinned
  <2>3. \E step \in Pinned : Goes(step)
    BY <1>10 DEF Verify, Pinned, Goes
  <2> QED BY <1>6, <2>1, <2>2, <2>3
<1>11. CASE RecordOwner(s)
  <2>1. Holds(s) /\ "verified" \in Pinned
    BY <1>11 DEF RecordOwner, WriteOwner, Holds, Pinned
  <2>2. owner' \in Owner \cup {None}
    BY <1>4, <1>11, <2>1, PackageAssumption DEF RecordOwner, WriteOwner
  <2>3. /\ data' \in BOOLEAN /\ approved' = approved
        /\ Goes("verified")
    BY <1>11 DEF RecordOwner, WriteOwner, TypeOK, Goes
  <2> QED BY <1>6, <2>1, <2>2, <2>3
<1>12. CASE CheckApproval(s)
  <2>1. Holds(s) /\ "approved" \in Pinned
    BY <1>12 DEF CheckApproval, Holds, Pinned
  <2>2. /\ owner' \in Owner \cup {None} /\ data' \in BOOLEAN
        /\ approved' = approved
        /\ Goes("approved")
    BY <1>12 DEF CheckApproval, TypeOK, records, Goes
  <2> QED BY <1>6, <2>1, <2>2
<1>13. CASE Prepare(s)
  <2>1. Holds(s) /\ "runs" \in Pinned
    BY <1>13 DEF Prepare, Holds, Pinned
  <2>2. /\ owner' \in Owner \cup {None} /\ approved' = approved
        /\ Goes("runs")
    BY <1>13 DEF Prepare, TypeOK, Goes
  <2>3. data' \in BOOLEAN
    BY <1>13 DEF Prepare, TypeOK
  <2> QED BY <1>6, <2>1, <2>2, <2>3
<1>14. CASE End(s)
  <2>1. NoLaunch \in Launches /\ NoLaunch.at = "idle"
    BY DEF NoLaunch, LaunchStep, Launches, Becomes
  <2>2. /\ owner' \in Owner \cup {None} /\ data' \in BOOLEAN
        /\ approved' = approved
        /\ Becomes(NoLaunch)
    BY <1>14 DEF End, TypeOK, records, Becomes
  <2> QED BY <1>5, <2>1, <2>2 DEF Pinned
<1> QED BY <1>7, <1>8, <1>9, <1>10, <1>11, <1>12, <1>13, <1>14 DEF Launch

-----------------------------------------------------------------------------
(***************************************************************************)
(* The inductive invariant and what follows from it.                       *)
(***************************************************************************)

LEMMA StoreInit == Init => StoreInv
<1> SUFFICES ASSUME Init PROVE StoreInv
  OBVIOUS
<1>1. op \in Op /\ op.pc = "idle" /\ op.kind = "none"
  BY PackageAssumption DEF Init, Idle, Op, OpStep, OpKind, NoLinks
<1>2. Held = {}
  BY DEF Init, Held, Holds, NoLaunch, Pinned
<1>3. TypeOK
  BY <1>1, <1>2 DEF Init, TypeOK, NoLaunch, LaunchStep
<1>4. StoreKnown
  BY DEF Init, StoreKnown, NamedOnce, NamedFilled, HeldIntact, LaunchKnown,
     Holds, NoLaunch, Pinned
<1>5. OpKnown
  BY <1>1 DEF OpKnown, CopyKnown, StagedKnown, CreatedKnown, VictimKnown,
     TodoKnown, TargetKnown, Activates, Undoable
<1> QED BY <1>3, <1>4, <1>5 DEF StoreInv

LEMMA StoreStep == StoreInv /\ [Next]_vars => StoreInv'
<1> SUFFICES ASSUME TypeOK, StoreKnown, OpKnown, [Next]_vars
             PROVE  TypeOK' /\ StoreKnown' /\ OpKnown'
  BY DEF StoreInv
<1>1. CASE Install
  BY <1>1, BeginInstallStep, AdmitStep, AdmitRefusedStep, PlaceNewStep,
     PlaceSameStep, PlaceOverStep, DiscardStep, PlaceRefusedStep,
     KeepPreviousStep, SwitchStep, ActivateFailsStep, CleanStagingStep,
     RemoveCreatedStep, DropRecordStep, UnclaimStep, SettleStep,
     SettleFailsStep DEF Install
<1>2. CASE Collect
  BY <1>2, BeginCollectStep, PurgeRevisionStep, EndCollectStep,
     TrashRevisionStep, SkipRevisionStep DEF Collect
<1>3. CASE Uninstall
  BY <1>3, BeginUninstallStep, UnlinkStep, UnlinkFailsStep, DropPreviousStep,
     ReleaseOwnerStep, ForgetStep, ForgetFailsStep DEF Uninstall
<1>4. CASE BeginRollback
  BY <1>4, BeginRollbackStep
<1>5. CASE Crash
  BY <1>5, CrashStep
<1>6. CASE \E named \in SUBSET Capability : Approve(named)
  BY <1>6, ApproveStep
<1>7. CASE \E s \in Session : Launch(s)
  BY <1>7, LaunchStepSafe
<1>8. CASE RemoveData
  BY <1>8, RemoveDataStep
<1>9. CASE UNCHANGED vars
  <2>1. StoreKnown' /\ claimed' \cap Held' = {}
    BY <1>9, QuietStep DEF vars, store
  <2>2. TypeOK'
    BY <1>9, <2>1 DEF vars, TypeOK
  <2>3. OpKnown'
    BY <1>9, StillKnown DEF vars, store, links
  <2> QED BY <2>1, <2>2, <2>3
<1> QED BY <1>1, <1>2, <1>3, <1>4, <1>5, <1>6, <1>7, <1>8, <1>9
     DEF Next, Pack

LEMMA StoreInvariant == Spec => []StoreInv
<1> QED BY StoreInit, StoreStep, PTL DEF Spec

\* Every variable keeps its type, and no directory is locked exclusively by a
\* package operation while a session pins it, for every set of packages,
\* publishers, launches and directories.
THEOREM TypeCorrect == Spec => []TypeOK
<1>1. StoreInv => TypeOK
  BY DEF StoreInv
<1> QED BY <1>1, StoreInvariant, PTL

\* A session runs on the bytes it pinned, whatever is installed, replaced,
\* rolled back, uninstalled or collected meanwhile, for every number of
\* launches, and after every crash of weft-pack.
THEOREM PinnedStays == Spec => []HeldIntact
<1>1. StoreInv => HeldIntact
  BY DEF StoreInv, StoreKnown
<1> QED BY <1>1, StoreInvariant, PTL

-----------------------------------------------------------------------------
(***************************************************************************)
(* The links lead to complete revisions, admitted under the owner on       *)
(* record, at every step and after every crash.  An activation writes the  *)
(* link of the kept revision first, so in between the kept revision is the *)
(* active one, and what was kept before is known to the operation only.    *)
(***************************************************************************)

\* A directory half removed is still there.
TornFilled == \A d \in torn : body[d] # None

\* A revision's name is the digest of what it holds.
ContentNamed ==
  \A r \in Revision : name[r] # NoDir => Digest[body[name[r]]] = r

Sound(r) == name[r] # NoDir /\ name[r] \notin torn

LinksSound ==
  active # None => Sound(active) /\ (previous # None => Sound(previous))

\* What an installation has copied is complete, and so is what is activated.
CopySound ==
  /\ op.kind = "install"
       /\ op.pc \in {"admit", "place", "discard", "keep", "switch", "clean"} =>
       op.dir \notin torn
  /\ op.pc \in {"discard", "keep", "switch"} => name[op.target] \notin torn

\* Between the two links.
KeptSound ==
  op.pc = "switch" =>
    /\ active = None => previous = None
    /\ active \notin {None, op.target} /\ op.kept # None => Sound(op.kept)

\* A revision that a failure will remove is none that a link names, or will
\* name again.
CreatedApart ==
  op.created /\ op.pc \in Undoable =>
    /\ op.target # active
    /\ active # None /\ op.pc # "switch" => op.target # previous
    /\ active # None /\ op.pc = "switch" => op.target # op.kept

\* A collection takes no revision that a link names.
TodoApart ==
  op.pc \in {"trash", "purge"} =>
    active \notin op.todo /\ (active # None => previous \notin op.todo)

LinksInv ==
  /\ TornFilled /\ ContentNamed /\ LinksSound
  /\ CopySound /\ KeptSound /\ CreatedApart /\ TodoApart

-----------------------------------------------------------------------------
(***************************************************************************)
(* The links: one lemma for each step of weft-pack.                        *)
(***************************************************************************)

\* An operation that ends, or is killed, leaves the links as they are.
LEMMA LinksIdle ==
  ASSUME StoreInv, LinksInv, op'.pc = "idle", op'.kind = "none",
         UNCHANGED <<store, links>>
  PROVE  LinksInv'
  BY DEF LinksInv, TornFilled, ContentNamed, LinksSound, Sound, CopySound,
     KeptSound, CreatedApart, TodoApart, Undoable, store, links

LEMMA DropRecordLinks ==
  ASSUME StoreInv, LinksInv, DropRecord
  PROVE  LinksInv'
  BY LinksIdle DEF DropRecord, Fails, Idle

LEMMA SettleFailsLinks ==
  ASSUME StoreInv, LinksInv, SettleFails
  PROVE  LinksInv'
  BY LinksIdle DEF SettleFails, Idle

LEMMA UnlinkFailsLinks ==
  ASSUME StoreInv, LinksInv, UnlinkFails
  PROVE  LinksInv'
  BY LinksIdle DEF UnlinkFails, Idle

LEMMA ForgetLinks ==
  ASSUME StoreInv, LinksInv, Forget
  PROVE  LinksInv'
  BY LinksIdle DEF Forget, Idle

LEMMA ForgetFailsLinks ==
  ASSUME StoreInv, LinksInv, ForgetFails
  PROVE  LinksInv'
  BY LinksIdle DEF ForgetFails, Idle

LEMMA CrashLinks ==
  ASSUME StoreInv, LinksInv, Crash
  PROVE  LinksInv'
  BY LinksIdle DEF Crash, Idle

LEMMA SettleLinks ==
  ASSUME StoreInv, LinksInv, Settle
  PROVE  LinksInv'
  BY LinksIdle DEF Settle, Idle

LEMMA AdmitLinks ==
  ASSUME StoreInv, LinksInv, Admit
  PROVE  LinksInv'
<1>1. TornFilled'
  BY DEF Admit, WriteOwner, store, LinksInv, TornFilled
<1>2. ContentNamed'
  BY DEF Admit, WriteOwner, store, LinksInv, ContentNamed
<1>3. LinksSound'
  BY DEF Admit, WriteOwner, store, links, LinksInv, LinksSound, Sound
<1>4. CopySound'
  BY DEF Admit, WriteOwner, store, LinksInv, CopySound
<1>5. KeptSound'
  BY DEF Admit, WriteOwner, KeptSound
<1>6. CreatedApart'
  BY DEF Admit, WriteOwner, CreatedApart, Undoable
<1>7. TodoApart'
  BY DEF Admit, WriteOwner, TodoApart
<1> QED BY <1>1, <1>2, <1>3, <1>4, <1>5, <1>6, <1>7 DEF LinksInv

LEMMA PlaceRefusedLinks ==
  ASSUME StoreInv, LinksInv, PlaceRefused
  PROVE  LinksInv'
<1>0. TypeOK /\ StoreKnown /\ OpKnown
  BY DEF StoreInv
<1>1. TornFilled'
  BY DEF PlaceRefused, store, LinksInv, TornFilled
<1>2. ContentNamed'
  BY DEF PlaceRefused, store, LinksInv, ContentNamed
<1>3. LinksSound'
  BY DEF PlaceRefused, store, links, LinksInv, LinksSound, Sound
<1>4. CopySound'
  BY DEF PlaceRefused, store, LinksInv, CopySound
<1>5. KeptSound'
  BY DEF PlaceRefused, KeptSound
<1>6. CreatedApart'
  BY <1>0 DEF PlaceRefused, SameRevision, OpKnown, CreatedApart, CreatedKnown
<1>7. TodoApart'
  BY DEF PlaceRefused, TodoApart
<1> QED BY <1>1, <1>2, <1>3, <1>4, <1>5, <1>6, <1>7 DEF LinksInv

LEMMA KeepPreviousLinks ==
  ASSUME StoreInv, LinksInv, KeepPrevious
  PROVE  LinksInv'
<1>1. TornFilled'
  BY DEF KeepPrevious, store, LinksInv, TornFilled
<1>2. ContentNamed'
  BY DEF KeepPrevious, store, LinksInv, ContentNamed
<1>3. LinksSound'
  BY DEF KeepPrevious, KeptNext, store, LinksInv, LinksSound, Sound
<1>4. CopySound'
  BY DEF KeepPrevious, store, LinksInv, CopySound
<1>5. KeptSound'
  BY DEF KeepPrevious, KeptNext, store, LinksInv, KeptSound, LinksSound,
     Sound
<1>6. CreatedApart'
  BY DEF KeepPrevious, LinksInv, CreatedApart, Undoable
<1>7. TodoApart'
  BY DEF KeepPrevious, TodoApart
<1> QED BY <1>1, <1>2, <1>3, <1>4, <1>5, <1>6, <1>7 DEF LinksInv

LEMMA SwitchLinks ==
  ASSUME StoreInv, LinksInv, Switch
  PROVE  LinksInv'
<1>0. TypeOK /\ StoreKnown /\ OpKnown
  BY DEF StoreInv
<1>1. TornFilled'
  BY DEF Switch, store, LinksInv, TornFilled
<1>2. ContentNamed'
  BY DEF Switch, store, LinksInv, ContentNamed
<1>3. LinksSound'
  BY <1>0 DEF Switch, Idle, store, OpKnown, LinksInv, LinksSound, CopySound,
     KeptSound, TargetKnown, Sound
<1>4. CopySound'
  BY DEF Switch, CopySound
<1>5. KeptSound'
  BY DEF Switch, KeptSound
<1>6. CreatedApart'
  BY DEF Switch, Idle, CreatedApart
<1>7. TodoApart'
  BY DEF Switch, TodoApart
<1> QED BY <1>1, <1>2, <1>3, <1>4, <1>5, <1>6, <1>7 DEF LinksInv

LEMMA ActivateFailsLinks ==
  ASSUME StoreInv, LinksInv, ActivateFails
  PROVE  LinksInv'
<1>1. TornFilled'
  BY DEF ActivateFails, store, LinksInv, TornFilled
<1>2. ContentNamed'
  BY DEF ActivateFails, store, LinksInv, ContentNamed
<1>3. LinksSound'
  BY DEF ActivateFails, Idle, Reverted, store, LinksInv, LinksSound,
     KeptSound, Sound
<1>4. CopySound'
  BY DEF ActivateFails, Idle, store, LinksInv, CopySound
<1>5. KeptSound'
  BY DEF ActivateFails, Idle, KeptSound
<1>6. CreatedApart'
  BY DEF ActivateFails, Idle, Reverted, LinksInv, CreatedApart, Undoable
<1>7. TodoApart'
  BY DEF ActivateFails, Idle, TodoApart
<1> QED BY <1>1, <1>2, <1>3, <1>4, <1>5, <1>6, <1>7 DEF LinksInv

LEMMA UnclaimLinks ==
  ASSUME StoreInv, LinksInv, Unclaim
  PROVE  LinksInv'
<1>1. TornFilled'
  BY DEF Unclaim, store, LinksInv, TornFilled
<1>2. ContentNamed'
  BY DEF Unclaim, store, LinksInv, ContentNamed
<1>3. LinksSound'
  BY DEF Unclaim, store, links, LinksInv, LinksSound, Sound
<1>4. CopySound'
  BY DEF Unclaim, CopySound
<1>5. KeptSound'
  BY DEF Unclaim, KeptSound
<1>6. CreatedApart'
  BY DEF Unclaim, CreatedApart, Undoable
<1>7. TodoApart'
  BY DEF Unclaim, TodoApart
<1> QED BY <1>1, <1>2, <1>3, <1>4, <1>5, <1>6, <1>7 DEF LinksInv

LEMMA EndCollectLinks ==
  ASSUME StoreInv, LinksInv, EndCollect
  PROVE  LinksInv'
<1>1. TornFilled'
  BY DEF EndCollect, store, LinksInv, TornFilled
<1>2. ContentNamed'
  BY DEF EndCollect, store, LinksInv, ContentNamed
<1>3. LinksSound'
  BY DEF EndCollect, store, links, LinksInv, LinksSound, Sound
<1>4. CopySound'
  BY DEF EndCollect, AfterCollect, CopySound
<1>5. KeptSound'
  BY DEF EndCollect, AfterCollect, KeptSound
<1>6. CreatedApart'
  BY DEF EndCollect, AfterCollect, CreatedApart, Undoable
<1>7. TodoApart'
  BY DEF EndCollect, TodoApart
<1> QED BY <1>1, <1>2, <1>3, <1>4, <1>5, <1>6, <1>7 DEF LinksInv

LEMMA BeginRollbackLinks ==
  ASSUME StoreInv, LinksInv, BeginRollback
  PROVE  LinksInv'
<1>1. TornFilled'
  BY DEF BeginRollback, store, LinksInv, TornFilled
<1>2. ContentNamed'
  BY DEF BeginRollback, store, LinksInv, ContentNamed
<1>3. LinksSound'
  BY DEF BeginRollback, store, links, LinksInv, LinksSound, Sound
<1>4. CopySound'
  BY DEF BeginRollback, Idle, Installed, Kept, store, LinksInv, CopySound,
     TornFilled, LinksSound, Sound
<1>5. KeptSound'
  BY DEF BeginRollback, KeptSound
<1>6. CreatedApart'
  BY DEF BeginRollback, Idle, CreatedApart
<1>7. TodoApart'
  BY DEF BeginRollback, TodoApart
<1> QED BY <1>1, <1>2, <1>3, <1>4, <1>5, <1>6, <1>7 DEF LinksInv

LEMMA BeginUninstallLinks ==
  ASSUME StoreInv, LinksInv, BeginUninstall
  PROVE  LinksInv'
<1>1. TornFilled'
  BY DEF BeginUninstall, store, LinksInv, TornFilled
<1>2. ContentNamed'
  BY DEF BeginUninstall, store, LinksInv, ContentNamed
<1>3. LinksSound'
  BY DEF BeginUninstall, store, links, LinksInv, LinksSound, Sound
<1>4. CopySound'
  BY DEF BeginUninstall, CopySound
<1>5. KeptSound'
  BY DEF BeginUninstall, KeptSound
<1>6. CreatedApart'
  BY DEF BeginUninstall, Idle, CreatedApart
<1>7. TodoApart'
  BY DEF BeginUninstall, TodoApart
<1> QED BY <1>1, <1>2, <1>3, <1>4, <1>5, <1>6, <1>7 DEF LinksInv

LEMMA UnlinkLinks ==
  ASSUME StoreInv, LinksInv, Unlink
  PROVE  LinksInv'
<1>1. TornFilled'
  BY DEF Unlink, store, LinksInv, TornFilled
<1>2. ContentNamed'
  BY DEF Unlink, store, LinksInv, ContentNamed
<1>3. LinksSound'
  BY DEF Unlink, LinksSound
<1>4. CopySound'
  BY DEF Unlink, CopySound
<1>5. KeptSound'
  BY DEF Unlink, KeptSound
<1>6. CreatedApart'
  BY DEF Unlink, CreatedApart, Undoable
<1>7. TodoApart'
  BY DEF Unlink, TodoApart
<1> QED BY <1>1, <1>2, <1>3, <1>4, <1>5, <1>6, <1>7 DEF LinksInv

LEMMA DropPreviousLinks ==
  ASSUME StoreInv, LinksInv, DropPrevious
  PROVE  LinksInv'
<1>1. TornFilled'
  BY DEF DropPrevious, store, LinksInv, TornFilled
<1>2. ContentNamed'
  BY DEF DropPrevious, store, LinksInv, ContentNamed
<1>3. LinksSound'
  BY DEF DropPrevious, store, LinksInv, LinksSound, Sound
<1>4. CopySound'
  BY DEF DropPrevious, CopySound
<1>5. KeptSound'
  BY DEF DropPrevious, KeptSound
<1>6. CreatedApart'
  BY DEF DropPrevious, CreatedApart, Undoable
<1>7. TodoApart'
  BY DEF DropPrevious, TodoApart
<1> QED BY <1>1, <1>2, <1>3, <1>4, <1>5, <1>6, <1>7 DEF LinksInv

LEMMA ReleaseOwnerLinks ==
  ASSUME StoreInv, LinksInv, ReleaseOwner
  PROVE  LinksInv'
<1>1. TornFilled'
  BY DEF ReleaseOwner, store, LinksInv, TornFilled
<1>2. ContentNamed'
  BY DEF ReleaseOwner, store, LinksInv, ContentNamed
<1>3. LinksSound'
  BY DEF ReleaseOwner, store, links, LinksInv, LinksSound, Sound
<1>4. CopySound'
  BY DEF ReleaseOwner, Idle, CopySound
<1>5. KeptSound'
  BY DEF ReleaseOwner, Idle, KeptSound
<1>6. CreatedApart'
  BY DEF ReleaseOwner, Idle, CreatedApart, Undoable
<1>7. TodoApart'
  BY DEF ReleaseOwner, Idle, TodoApart
<1> QED BY <1>1, <1>2, <1>3, <1>4, <1>5, <1>6, <1>7 DEF LinksInv

LEMMA BeginInstallLinks ==
  ASSUME StoreInv, LinksInv, NEW p \in Package, NEW as \in Owner,
         BeginInstall(p, as)
  PROVE  LinksInv'
<1>0. TypeOK /\ StoreKnown /\ OpKnown
  BY DEF StoreInv
<1>1. TornFilled'
  BY <1>0, PackageAssumption DEF BeginInstall, CopyTree, LinksInv, TornFilled
<1>2. ContentNamed'
  BY <1>0 DEF BeginInstall, CopyTree, Idle, Fresh, StoreKnown, NamedFilled, LinksInv,
     ContentNamed
<1>3. LinksSound'
  BY DEF BeginInstall, CopyTree, links, LinksInv, LinksSound, Sound
<1>4. CopySound'
  BY DEF BeginInstall, CopyTree, Idle, Fresh, LinksInv, CopySound, TornFilled
<1>5. KeptSound'
  BY DEF BeginInstall, CopyTree, KeptSound
<1>6. CreatedApart'
  BY DEF BeginInstall, CopyTree, Idle, CreatedApart
<1>7. TodoApart'
  BY DEF BeginInstall, CopyTree, TodoApart
<1> QED BY <1>1, <1>2, <1>3, <1>4, <1>5, <1>6, <1>7 DEF LinksInv

LEMMA AdmitRefusedLinks ==
  ASSUME StoreInv, LinksInv, AdmitRefused
  PROVE  LinksInv'
<1>0. TypeOK /\ StoreKnown /\ OpKnown
  BY DEF StoreInv
<1>1. TornFilled'
  BY <1>0 DEF AdmitRefused, Fails, Idle, OpKnown, LinksInv, TornFilled,
     CopySound, StagedKnown
<1>2. ContentNamed'
  BY <1>0 DEF AdmitRefused, Fails, Idle, OpKnown, LinksInv, ContentNamed,
     StagedKnown, Named
<1>3. LinksSound'
  BY DEF AdmitRefused, links, LinksInv, LinksSound, Sound
<1>4. CopySound'
  BY DEF AdmitRefused, Fails, Idle, CopySound
<1>5. KeptSound'
  BY DEF AdmitRefused, Fails, Idle, KeptSound
<1>6. CreatedApart'
  BY DEF AdmitRefused, Fails, Idle, CreatedApart
<1>7. TodoApart'
  BY DEF AdmitRefused, Fails, Idle, TodoApart
<1> QED BY <1>1, <1>2, <1>3, <1>4, <1>5, <1>6, <1>7 DEF LinksInv

LEMMA PlaceNewLinks ==
  ASSUME StoreInv, LinksInv, PlaceNew
  PROVE  LinksInv'
<1>0. TypeOK /\ StoreKnown /\ OpKnown
  BY DEF StoreInv
<1>1. TornFilled'
  BY DEF PlaceNew, LinksInv, TornFilled
<1>2. ContentNamed'
  BY <1>0 DEF PlaceNew, OpKnown, LinksInv, ContentNamed, StagedKnown
<1>3. LinksSound'
  BY DEF PlaceNew, links, LinksInv, LinksSound, Sound
<1>4. CopySound'
  BY <1>0, PackageAssumption DEF PlaceNew, TypeOK, OpKnown, LinksInv,
     CopySound, TornFilled, StagedKnown
<1>5. KeptSound'
  BY DEF PlaceNew, KeptSound
<1>6. CreatedApart'
  BY <1>0, PackageAssumption DEF PlaceNew, links, OpKnown, LinksInv,
     CreatedApart, LinksSound, StagedKnown, Sound
<1>7. TodoApart'
  BY DEF PlaceNew, TodoApart
<1> QED BY <1>1, <1>2, <1>3, <1>4, <1>5, <1>6, <1>7 DEF LinksInv

LEMMA PlaceSameLinks ==
  ASSUME StoreInv, LinksInv, PlaceSame
  PROVE  LinksInv'
<1>0. TypeOK /\ StoreKnown /\ OpKnown
  BY DEF StoreInv
<1>1. TornFilled'
  BY <1>0 DEF PlaceSame, SameRevision, OpKnown, LinksInv, TornFilled,
     CopySound, StagedKnown
<1>2. ContentNamed'
  BY <1>0 DEF PlaceSame, SameRevision, OpKnown, LinksInv, ContentNamed,
     StagedKnown, Named
<1>3. LinksSound'
  BY DEF PlaceSame, links, LinksInv, LinksSound, Sound
<1>4. CopySound'
  BY DEF PlaceSame, SameRevision, LinksInv, CopySound, TornFilled
<1>5. KeptSound'
  BY DEF PlaceSame, KeptSound
<1>6. CreatedApart'
  BY <1>0 DEF PlaceSame, SameRevision, OpKnown, CreatedApart, CreatedKnown
<1>7. TodoApart'
  BY DEF PlaceSame, TodoApart
<1> QED BY <1>1, <1>2, <1>3, <1>4, <1>5, <1>6, <1>7 DEF LinksInv

LEMMA PlaceOverLinks ==
  ASSUME StoreInv, LinksInv, PlaceOver
  PROVE  LinksInv'
<1>0. TypeOK /\ StoreKnown /\ OpKnown
  BY DEF StoreInv
<1>1. TornFilled'
  BY DEF PlaceOver, LinksInv, TornFilled
<1>2. ContentNamed'
  BY <1>0 DEF PlaceOver, SameRevision, OpKnown, LinksInv, ContentNamed,
     StagedKnown
<1>3. LinksSound'
  BY <1>0, DirAssumption DEF PlaceOver, SameRevision, links, OpKnown,
     LinksInv, LinksSound, CopySound, StagedKnown, CopyKnown, Sound, Copying
<1>4. CopySound'
  BY <1>0, PackageAssumption DEF PlaceOver, TypeOK, SameRevision, OpKnown,
     LinksInv, CopySound, TornFilled, StagedKnown
<1>5. KeptSound'
  BY DEF PlaceOver, KeptSound
<1>6. CreatedApart'
  BY DEF PlaceOver, CreatedApart, Undoable
<1>7. TodoApart'
  BY DEF PlaceOver, TodoApart
<1> QED BY <1>1, <1>2, <1>3, <1>4, <1>5, <1>6, <1>7 DEF LinksInv

LEMMA DiscardLinks ==
  ASSUME StoreInv, LinksInv, Discard
  PROVE  LinksInv'
<1>0. TypeOK /\ StoreKnown /\ OpKnown
  BY DEF StoreInv
<1>1. TornFilled'
  BY DEF Discard, LinksInv, TornFilled
<1>2. ContentNamed'
  BY <1>0 DEF Discard, OpKnown, LinksInv, ContentNamed, VictimKnown, Named
<1>3. LinksSound'
  BY DEF Discard, links, LinksInv, LinksSound, Sound
<1>4. CopySound'
  BY DEF Discard, LinksInv, CopySound
<1>5. KeptSound'
  BY DEF Discard, KeptSound
<1>6. CreatedApart'
  BY <1>0 DEF Discard, OpKnown, CreatedApart, CreatedKnown
<1>7. TodoApart'
  BY DEF Discard, TodoApart
<1> QED BY <1>1, <1>2, <1>3, <1>4, <1>5, <1>6, <1>7 DEF LinksInv

LEMMA CleanStagingLinks ==
  ASSUME StoreInv, LinksInv, CleanStaging
  PROVE  LinksInv'
<1>0. TypeOK /\ StoreKnown /\ OpKnown
  BY DEF StoreInv
<1>1. TornFilled'
  BY <1>0, DirAssumption DEF CleanStaging, TypeOK, StoreKnown, NamedFilled,
     OpKnown, LinksInv, TornFilled, CopySound, TargetKnown, Activates,
     CreatedKnown, Undoable
<1>2. ContentNamed'
  BY <1>0 DEF CleanStaging, TypeOK, LinksInv, ContentNamed, Named
<1>3. LinksSound'
  BY <1>0 DEF CleanStaging, TypeOK, links, StoreKnown, NamedOnce, OpKnown,
     LinksInv, LinksSound, CreatedApart, CreatedKnown, TargetKnown, Activates,
     Sound, Undoable
<1>4. CopySound'
  BY <1>0 DEF CleanStaging, TypeOK, Op, CopySound
<1>5. KeptSound'
  BY <1>0 DEF CleanStaging, TypeOK, Op, KeptSound
<1>6. CreatedApart'
  BY <1>0 DEF CleanStaging, TypeOK, Op, links, LinksInv, CreatedApart,
     Undoable
<1>7. TodoApart'
  BY <1>0 DEF CleanStaging, TypeOK, Op, TodoApart
<1> QED BY <1>1, <1>2, <1>3, <1>4, <1>5, <1>6, <1>7 DEF LinksInv

LEMMA RemoveCreatedLinks ==
  ASSUME StoreInv, LinksInv, RemoveCreated
  PROVE  LinksInv'
<1>0. TypeOK /\ StoreKnown /\ OpKnown
  BY DEF StoreInv
<1>1. TornFilled'
  BY DEF RemoveCreated, LinksInv, TornFilled
<1>2. ContentNamed'
  BY <1>0 DEF RemoveCreated, TypeOK, OpKnown, LinksInv, ContentNamed,
     CreatedKnown, TargetKnown, Activates, Undoable
<1>3. LinksSound'
  BY <1>0 DEF RemoveCreated, links, OpKnown, LinksInv, LinksSound,
     CreatedApart, CreatedKnown, Sound, Undoable
<1>4. CopySound'
  BY DEF RemoveCreated, CopySound
<1>5. KeptSound'
  BY DEF RemoveCreated, KeptSound
<1>6. CreatedApart'
  BY DEF RemoveCreated, CreatedApart, Undoable
<1>7. TodoApart'
  BY DEF RemoveCreated, TodoApart
<1> QED BY <1>1, <1>2, <1>3, <1>4, <1>5, <1>6, <1>7 DEF LinksInv

LEMMA BeginCollectLinks ==
  ASSUME StoreInv, LinksInv, BeginCollect
  PROVE  LinksInv'
<1>0. TypeOK /\ StoreKnown /\ OpKnown
  BY DEF StoreInv
<1>1. TornFilled'
  BY <1>0 DEF BeginCollect, TypeOK, LinksInv, TornFilled
<1>2. ContentNamed'
  BY <1>0 DEF BeginCollect, TypeOK, LinksInv, ContentNamed, Named
<1>3. LinksSound'
  BY DEF BeginCollect, LinksInv, LinksSound, Sound
<1>4. CopySound'
  BY DEF BeginCollect, CopySound
<1>5. KeptSound'
  BY DEF BeginCollect, KeptSound
<1>6. CreatedApart'
  BY DEF BeginCollect, CreatedApart, Undoable
<1>7. TodoApart'
  BY <1>0, PackageAssumption DEF BeginCollect, Keep, Kept, Installed,
     TodoApart
<1> QED BY <1>1, <1>2, <1>3, <1>4, <1>5, <1>6, <1>7 DEF LinksInv

LEMMA TrashRevisionLinks ==
  ASSUME StoreInv, LinksInv, NEW r \in Revision, TrashRevision(r)
  PROVE  LinksInv'
<1>1. TornFilled'
  BY DEF TrashRevision, LinksInv, TornFilled
<1>2. ContentNamed'
  BY DEF TrashRevision, LinksInv, ContentNamed
<1>3. LinksSound'
  BY DEF TrashRevision, links, LinksInv, LinksSound, TodoApart, Sound
<1>4. CopySound'
  BY DEF TrashRevision, CopySound
<1>5. KeptSound'
  BY DEF TrashRevision, KeptSound
<1>6. CreatedApart'
  BY DEF TrashRevision, CreatedApart, Undoable
<1>7. TodoApart'
  BY DEF TrashRevision, links, LinksInv, TodoApart
<1> QED BY <1>1, <1>2, <1>3, <1>4, <1>5, <1>6, <1>7 DEF LinksInv

LEMMA PurgeRevisionLinks ==
  ASSUME StoreInv, LinksInv, PurgeRevision
  PROVE  LinksInv'
<1>0. TypeOK /\ StoreKnown /\ OpKnown
  BY DEF StoreInv
<1>1. TornFilled'
  BY DEF PurgeRevision, LinksInv, TornFilled
<1>2. ContentNamed'
  BY <1>0 DEF PurgeRevision, OpKnown, LinksInv, ContentNamed, VictimKnown,
     Named
<1>3. LinksSound'
  BY DEF PurgeRevision, links, LinksInv, LinksSound, Sound
<1>4. CopySound'
  BY DEF PurgeRevision, CopySound
<1>5. KeptSound'
  BY DEF PurgeRevision, KeptSound
<1>6. CreatedApart'
  BY DEF PurgeRevision, CreatedApart, Undoable
<1>7. TodoApart'
  BY DEF PurgeRevision, links, LinksInv, TodoApart
<1> QED BY <1>1, <1>2, <1>3, <1>4, <1>5, <1>6, <1>7 DEF LinksInv

LEMMA SkipRevisionLinks ==
  ASSUME StoreInv, LinksInv, NEW r \in Revision, SkipRevision(r)
  PROVE  LinksInv'
<1>1. TornFilled'
  BY DEF SkipRevision, store, LinksInv, TornFilled
<1>2. ContentNamed'
  BY DEF SkipRevision, store, LinksInv, ContentNamed
<1>3. LinksSound'
  BY DEF SkipRevision, store, links, LinksInv, LinksSound, Sound
<1>4. CopySound'
  BY DEF SkipRevision, CopySound
<1>5. KeptSound'
  BY DEF SkipRevision, KeptSound
<1>6. CreatedApart'
  BY DEF SkipRevision, links, LinksInv, CreatedApart
<1>7. TodoApart'
  BY DEF SkipRevision, links, LinksInv, TodoApart
<1> QED BY <1>1, <1>2, <1>3, <1>4, <1>5, <1>6, <1>7 DEF LinksInv

-----------------------------------------------------------------------------
(***************************************************************************)
(* Owners.  Whatever is active or kept was admitted under the owner on     *)
(* record: the record changes only while nothing is installed.             *)
(***************************************************************************)
OwnerSound ==
  active # None =>
    /\ owner # None /\ by[active] = owner
    /\ previous # None => by[previous] = owner

\* What is about to be activated was admitted under the owner.
TargetOwned ==
  /\ op.kind = "install" /\ op.pc \in {"place", "discard", "keep", "switch"} =>
       owner = op.as
  /\ op.pc \in {"discard", "keep", "switch"} =>
       owner # None /\ by[op.target] = owner

\* Between the two links, what was kept before.
KeptOwned ==
  op.pc = "switch" /\ active \notin {None, op.target} /\ op.kept # None =>
    by[op.kept] = owner

\* A record is taken back only if it was written by an installation where
\* nothing was installed, or once nothing is any more.
OwnerFree ==
  /\ op.pc # "idle" /\ op.recorded => active = None
  /\ op.pc = "admit" => ~op.recorded
  /\ op.pc \in {"drop", "release", "forget"} => active = None
  /\ op.pc \in {"collect", "trash", "purge"} /\ ~Activates => active = None
  /\ op.pc = "unclaim" => Activates

\* What an installation remembers of how it found the links and the record.
AsBefore(rev) ==
  rev = op.before.previous \/ (active = None /\ rev = None)

UndoKnown ==
  /\ op.kind = "install"
       /\ op.pc \in {"admit", "place", "discard", "keep", "switch", "clean",
                     "remove", "unrecord"} =>
       /\ op.before.active = active
       /\ op.before.owner = IF op.recorded THEN None ELSE owner
       /\ op.pc # "switch" => AsBefore(previous)
       /\ op.pc = "switch" => IF active \in {None, op.target}
                              THEN AsBefore(previous) ELSE AsBefore(op.kept)
  /\ op.pc = "unrecord" => op.kind = "install"

OwnerInv == OwnerSound /\ TargetOwned /\ KeptOwned /\ OwnerFree /\ UndoKnown

-----------------------------------------------------------------------------
(***************************************************************************)
(* Owners and undoing: one lemma for each step of weft-pack.               *)
(***************************************************************************)

\* An operation that ends, or is killed, leaves nothing between links and
\* record.
LEMMA OwnerIdle ==
  ASSUME StoreInv, LinksInv, OwnerInv, op'.pc = "idle", op'.kind = "none",
         UNCHANGED <<store, links>>,
         active # None => owner' = owner
  PROVE  OwnerInv'
  BY DEF OwnerInv, OwnerSound, TargetOwned, KeptOwned, OwnerFree, UndoKnown,
     store, links

LEMMA DropRecordOwner ==
  ASSUME StoreInv, LinksInv, OwnerInv, DropRecord
  PROVE  OwnerInv'
  BY OwnerIdle DEF DropRecord, Fails, Idle, OwnerInv, OwnerFree

LEMMA SettleFailsOwner ==
  ASSUME StoreInv, LinksInv, OwnerInv, SettleFails
  PROVE  OwnerInv'
  BY OwnerIdle DEF SettleFails, Fails, Idle, records, OwnerInv

LEMMA UnlinkFailsOwner ==
  ASSUME StoreInv, LinksInv, OwnerInv, UnlinkFails
  PROVE  OwnerInv'
  BY OwnerIdle DEF UnlinkFails, Fails, Idle, OwnerInv, OwnerFree

LEMMA ForgetOwner ==
  ASSUME StoreInv, LinksInv, OwnerInv, Forget
  PROVE  OwnerInv'
  BY OwnerIdle DEF Forget, Idle

LEMMA ForgetFailsOwner ==
  ASSUME StoreInv, LinksInv, OwnerInv, ForgetFails
  PROVE  OwnerInv'
  BY OwnerIdle DEF ForgetFails, Fails, Idle, OwnerInv, OwnerFree

LEMMA CrashOwner ==
  ASSUME StoreInv, LinksInv, OwnerInv, Crash
  PROVE  OwnerInv'
  BY OwnerIdle DEF Crash, Fails, Idle, records, OwnerInv

LEMMA SettleOwner ==
  ASSUME StoreInv, LinksInv, OwnerInv, Settle
  PROVE  OwnerInv'
  BY OwnerIdle DEF Settle, Idle

LEMMA AdmitOwner ==
  ASSUME StoreInv, LinksInv, OwnerInv, Admit
  PROVE  OwnerInv'
<1>0. TypeOK /\ StoreKnown /\ OpKnown
  BY DEF StoreInv
<1>1. OwnerSound'
  BY DEF Admit, WriteOwner, store, links, OwnerInv, OwnerSound, MayOwn
<1>2. TargetOwned'
  BY DEF Admit, WriteOwner, OwnerInv, TargetOwned
<1>3. KeptOwned'
  BY DEF Admit, WriteOwner, OwnerInv, KeptOwned
<1>4. OwnerFree'
  BY <1>0 DEF Admit, WriteOwner, TypeOK, Op, links, OwnerInv, OwnerFree, OwnerSound,
     MayOwn
<1>5. UndoKnown'
  BY <1>0 DEF Admit, WriteOwner, TypeOK, Op, links, OwnerInv, UndoKnown, AsBefore,
     OwnerFree, MayOwn
<1> QED BY <1>1, <1>2, <1>3, <1>4, <1>5 DEF OwnerInv

LEMMA PlaceRefusedOwner ==
  ASSUME StoreInv, LinksInv, OwnerInv, PlaceRefused
  PROVE  OwnerInv'
<1>1. OwnerSound'
  BY DEF PlaceRefused, store, links, records, OwnerInv, OwnerSound
<1>2. TargetOwned'
  BY DEF PlaceRefused, OwnerInv, TargetOwned
<1>3. KeptOwned'
  BY DEF PlaceRefused, OwnerInv, KeptOwned
<1>4. OwnerFree'
  BY DEF PlaceRefused, links, OwnerInv, OwnerFree
<1>5. UndoKnown'
  BY DEF PlaceRefused, SameRevision, links, records, OwnerInv, UndoKnown,
     AsBefore
<1> QED BY <1>1, <1>2, <1>3, <1>4, <1>5 DEF OwnerInv

LEMMA KeepPreviousOwner ==
  ASSUME StoreInv, LinksInv, OwnerInv, KeepPrevious
  PROVE  OwnerInv'
<1>1. OwnerSound'
  BY DEF KeepPrevious, KeptNext, store, records, OwnerInv, OwnerSound
<1>2. TargetOwned'
  BY DEF KeepPrevious, store, records, OwnerInv, TargetOwned
<1>3. KeptOwned'
  BY DEF KeepPrevious, KeptNext, store, records, OwnerInv, KeptOwned,
     OwnerSound
<1>4. OwnerFree'
  BY DEF KeepPrevious, OwnerInv, OwnerFree
<1>5. UndoKnown'
  BY DEF KeepPrevious, KeptNext, records, OwnerInv, UndoKnown, AsBefore
<1> QED BY <1>1, <1>2, <1>3, <1>4, <1>5 DEF OwnerInv

LEMMA SwitchOwner ==
  ASSUME StoreInv, LinksInv, OwnerInv, Switch
  PROVE  OwnerInv'
<1>0. TypeOK /\ StoreKnown /\ OpKnown
  BY DEF StoreInv
<1>1. OwnerSound'
  BY DEF Switch, Idle, store, records, LinksInv, OwnerInv, OwnerSound,
     KeptSound, TargetOwned
<1>2. TargetOwned'
  BY DEF Switch, OwnerInv, TargetOwned
<1>3. KeptOwned'
  BY DEF Switch, OwnerInv, KeptOwned
<1>4. OwnerFree'
  BY <1>0 DEF Switch, Idle, OpKnown, OwnerInv, OwnerFree, TargetKnown,
     Activates
<1>5. UndoKnown'
  BY DEF Switch, OwnerInv, UndoKnown
<1> QED BY <1>1, <1>2, <1>3, <1>4, <1>5 DEF OwnerInv

LEMMA ActivateFailsOwner ==
  ASSUME StoreInv, LinksInv, OwnerInv, ActivateFails
  PROVE  OwnerInv'
<1>1. OwnerSound'
  BY DEF ActivateFails, Idle, Reverted, store, records, OwnerInv, OwnerSound,
     KeptOwned
<1>2. TargetOwned'
  BY DEF ActivateFails, Idle, OwnerInv, TargetOwned
<1>3. KeptOwned'
  BY DEF ActivateFails, Idle, OwnerInv, KeptOwned
<1>4. OwnerFree'
  BY DEF ActivateFails, Idle, OwnerInv, OwnerFree
<1>5. UndoKnown'
  BY DEF ActivateFails, Idle, Reverted, records, OwnerInv, UndoKnown,
     AsBefore
<1> QED BY <1>1, <1>2, <1>3, <1>4, <1>5 DEF OwnerInv

LEMMA UnclaimOwner ==
  ASSUME StoreInv, LinksInv, OwnerInv, Unclaim
  PROVE  OwnerInv'
<1>1. OwnerSound'
  BY DEF Unclaim, store, links, records, OwnerInv, OwnerSound
<1>2. TargetOwned'
  BY DEF Unclaim, OwnerInv, TargetOwned
<1>3. KeptOwned'
  BY DEF Unclaim, OwnerInv, KeptOwned
<1>4. OwnerFree'
  BY DEF Unclaim, links, OwnerInv, OwnerFree, Activates
<1>5. UndoKnown'
  BY DEF Unclaim, OwnerInv, UndoKnown
<1> QED BY <1>1, <1>2, <1>3, <1>4, <1>5 DEF OwnerInv

LEMMA EndCollectOwner ==
  ASSUME StoreInv, LinksInv, OwnerInv, EndCollect
  PROVE  OwnerInv'
<1>1. OwnerSound'
  BY DEF EndCollect, store, links, records, OwnerInv, OwnerSound
<1>2. TargetOwned'
  BY DEF EndCollect, AfterCollect, OwnerInv, TargetOwned
<1>3. KeptOwned'
  BY DEF EndCollect, AfterCollect, OwnerInv, KeptOwned
<1>4. OwnerFree'
  BY DEF EndCollect, AfterCollect, links, OwnerInv, OwnerFree, Activates
<1>5. UndoKnown'
  BY DEF EndCollect, AfterCollect, OwnerInv, UndoKnown
<1> QED BY <1>1, <1>2, <1>3, <1>4, <1>5 DEF OwnerInv

LEMMA BeginRollbackOwner ==
  ASSUME StoreInv, LinksInv, OwnerInv, BeginRollback
  PROVE  OwnerInv'
<1>1. OwnerSound'
  BY DEF BeginRollback, store, links, records, OwnerInv, OwnerSound
<1>2. TargetOwned'
  BY DEF BeginRollback, Idle, Installed, Kept, store, records, OwnerInv,
     TargetOwned, OwnerSound
<1>3. KeptOwned'
  BY DEF BeginRollback, OwnerInv, KeptOwned
<1>4. OwnerFree'
  BY DEF BeginRollback, Idle, OwnerInv, OwnerFree
<1>5. UndoKnown'
  BY DEF BeginRollback, OwnerInv, UndoKnown
<1> QED BY <1>1, <1>2, <1>3, <1>4, <1>5 DEF OwnerInv

LEMMA BeginUninstallOwner ==
  ASSUME StoreInv, LinksInv, OwnerInv, BeginUninstall
  PROVE  OwnerInv'
<1>1. OwnerSound'
  BY DEF BeginUninstall, store, links, records, OwnerInv, OwnerSound
<1>2. TargetOwned'
  BY DEF BeginUninstall, OwnerInv, TargetOwned
<1>3. KeptOwned'
  BY DEF BeginUninstall, OwnerInv, KeptOwned
<1>4. OwnerFree'
  BY DEF BeginUninstall, Idle, links, OwnerInv, OwnerFree
<1>5. UndoKnown'
  BY DEF BeginUninstall, OwnerInv, UndoKnown
<1> QED BY <1>1, <1>2, <1>3, <1>4, <1>5 DEF OwnerInv

LEMMA UnlinkOwner ==
  ASSUME StoreInv, LinksInv, OwnerInv, Unlink
  PROVE  OwnerInv'
<1>1. OwnerSound'
  BY DEF Unlink, OwnerInv, OwnerSound
<1>2. TargetOwned'
  BY DEF Unlink, OwnerInv, TargetOwned
<1>3. KeptOwned'
  BY DEF Unlink, OwnerInv, KeptOwned
<1>4. OwnerFree'
  BY DEF Unlink, OwnerInv, OwnerFree
<1>5. UndoKnown'
  BY DEF Unlink, OwnerInv, UndoKnown
<1> QED BY <1>1, <1>2, <1>3, <1>4, <1>5 DEF OwnerInv

LEMMA DropPreviousOwner ==
  ASSUME StoreInv, LinksInv, OwnerInv, DropPrevious
  PROVE  OwnerInv'
<1>1. OwnerSound'
  BY DEF DropPrevious, store, records, OwnerInv, OwnerSound
<1>2. TargetOwned'
  BY DEF DropPrevious, OwnerInv, TargetOwned
<1>3. KeptOwned'
  BY DEF DropPrevious, OwnerInv, KeptOwned
<1>4. OwnerFree'
  BY DEF DropPrevious, OwnerInv, OwnerFree
<1>5. UndoKnown'
  BY DEF DropPrevious, OwnerInv, UndoKnown
<1> QED BY <1>1, <1>2, <1>3, <1>4, <1>5 DEF OwnerInv

LEMMA ReleaseOwnerOwner ==
  ASSUME StoreInv, LinksInv, OwnerInv, ReleaseOwner
  PROVE  OwnerInv'
<1>1. OwnerSound'
  BY DEF ReleaseOwner, Idle, links, OwnerInv, OwnerSound, OwnerFree
<1>2. TargetOwned'
  BY DEF ReleaseOwner, Idle, OwnerInv, TargetOwned
<1>3. KeptOwned'
  BY DEF ReleaseOwner, Idle, OwnerInv, KeptOwned
<1>4. OwnerFree'
  BY DEF ReleaseOwner, Idle, links, OwnerInv, OwnerFree
<1>5. UndoKnown'
  BY DEF ReleaseOwner, Idle, OwnerInv, UndoKnown
<1> QED BY <1>1, <1>2, <1>3, <1>4, <1>5 DEF OwnerInv

LEMMA BeginInstallOwner ==
  ASSUME StoreInv, LinksInv, OwnerInv, NEW p \in Package, NEW as \in Owner,
         BeginInstall(p, as)
  PROVE  OwnerInv'
<1>1. OwnerSound'
  BY DEF BeginInstall, CopyTree, links, records, OwnerInv, OwnerSound
<1>2. TargetOwned'
  BY DEF BeginInstall, CopyTree, OwnerInv, TargetOwned
<1>3. KeptOwned'
  BY DEF BeginInstall, CopyTree, OwnerInv, KeptOwned
<1>4. OwnerFree'
  BY DEF BeginInstall, CopyTree, Idle, OwnerInv, OwnerFree
<1>5. UndoKnown'
  BY DEF BeginInstall, CopyTree, Idle, Fresh, links, records, Now, OwnerInv, UndoKnown,
     AsBefore
<1> QED BY <1>1, <1>2, <1>3, <1>4, <1>5 DEF OwnerInv

LEMMA AdmitRefusedOwner ==
  ASSUME StoreInv, LinksInv, OwnerInv, AdmitRefused
  PROVE  OwnerInv'
<1>1. OwnerSound'
  BY DEF AdmitRefused, links, records, OwnerInv, OwnerSound
<1>2. TargetOwned'
  BY DEF AdmitRefused, Fails, Idle, OwnerInv, TargetOwned
<1>3. KeptOwned'
  BY DEF AdmitRefused, Fails, Idle, OwnerInv, KeptOwned
<1>4. OwnerFree'
  BY DEF AdmitRefused, Fails, Idle, OwnerInv, OwnerFree
<1>5. UndoKnown'
  BY DEF AdmitRefused, Fails, Idle, OwnerInv, UndoKnown
<1> QED BY <1>1, <1>2, <1>3, <1>4, <1>5 DEF OwnerInv

LEMMA PlaceNewOwner ==
  ASSUME StoreInv, LinksInv, OwnerInv, PlaceNew
  PROVE  OwnerInv'
<1>0. TypeOK /\ StoreKnown /\ OpKnown
  BY DEF StoreInv
<1>1. OwnerSound'
  BY DEF PlaceNew, links, records, LinksInv, OwnerInv, OwnerSound,
     LinksSound, Sound
<1>2. TargetOwned'
  BY <1>0, PackageAssumption DEF PlaceNew, TypeOK, records, OpKnown,
     OwnerInv, TargetOwned, StagedKnown
<1>3. KeptOwned'
  BY DEF PlaceNew, OwnerInv, KeptOwned
<1>4. OwnerFree'
  BY DEF PlaceNew, links, OwnerInv, OwnerFree
<1>5. UndoKnown'
  BY DEF PlaceNew, links, records, OwnerInv, UndoKnown, AsBefore
<1> QED BY <1>1, <1>2, <1>3, <1>4, <1>5 DEF OwnerInv

LEMMA PlaceSameOwner ==
  ASSUME StoreInv, LinksInv, OwnerInv, PlaceSame
  PROVE  OwnerInv'
<1>0. TypeOK /\ StoreKnown /\ OpKnown
  BY DEF StoreInv
<1>1. OwnerSound'
  BY <1>0 DEF PlaceSame, SameRevision, links, records, OpKnown, OwnerInv,
     OwnerSound, TargetOwned, StagedKnown
<1>2. TargetOwned'
  BY <1>0, PackageAssumption DEF PlaceSame, TypeOK, SameRevision, records,
     OpKnown, OwnerInv, TargetOwned, StagedKnown
<1>3. KeptOwned'
  BY DEF PlaceSame, OwnerInv, KeptOwned
<1>4. OwnerFree'
  BY DEF PlaceSame, links, OwnerInv, OwnerFree
<1>5. UndoKnown'
  BY DEF PlaceSame, SameRevision, links, records, OwnerInv, UndoKnown,
     AsBefore
<1> QED BY <1>1, <1>2, <1>3, <1>4, <1>5 DEF OwnerInv

LEMMA PlaceOverOwner ==
  ASSUME StoreInv, LinksInv, OwnerInv, PlaceOver
  PROVE  OwnerInv'
<1>0. TypeOK /\ StoreKnown /\ OpKnown
  BY DEF StoreInv
<1>1. OwnerSound'
  BY <1>0 DEF PlaceOver, SameRevision, links, records, OpKnown, OwnerInv,
     OwnerSound, TargetOwned, StagedKnown
<1>2. TargetOwned'
  BY <1>0, PackageAssumption DEF PlaceOver, TypeOK, SameRevision, records,
     OpKnown, OwnerInv, TargetOwned, StagedKnown
<1>3. KeptOwned'
  BY DEF PlaceOver, OwnerInv, KeptOwned
<1>4. OwnerFree'
  BY DEF PlaceOver, links, OwnerInv, OwnerFree
<1>5. UndoKnown'
  BY DEF PlaceOver, SameRevision, links, records, OwnerInv, UndoKnown,
     AsBefore
<1> QED BY <1>1, <1>2, <1>3, <1>4, <1>5 DEF OwnerInv

LEMMA DiscardOwner ==
  ASSUME StoreInv, LinksInv, OwnerInv, Discard
  PROVE  OwnerInv'
<1>1. OwnerSound'
  BY DEF Discard, links, records, OwnerInv, OwnerSound
<1>2. TargetOwned'
  BY DEF Discard, records, OwnerInv, TargetOwned
<1>3. KeptOwned'
  BY DEF Discard, OwnerInv, KeptOwned
<1>4. OwnerFree'
  BY DEF Discard, links, OwnerInv, OwnerFree
<1>5. UndoKnown'
  BY DEF Discard, links, records, OwnerInv, UndoKnown, AsBefore
<1> QED BY <1>1, <1>2, <1>3, <1>4, <1>5 DEF OwnerInv

LEMMA CleanStagingOwner ==
  ASSUME StoreInv, LinksInv, OwnerInv, CleanStaging
  PROVE  OwnerInv'
<1>0. TypeOK /\ StoreKnown /\ OpKnown
  BY DEF StoreInv
<1>1. OwnerSound'
  BY DEF CleanStaging, links, records, OwnerInv, OwnerSound
<1>2. TargetOwned'
  BY <1>0 DEF CleanStaging, TypeOK, Op, OwnerInv, TargetOwned
<1>3. KeptOwned'
  BY <1>0 DEF CleanStaging, TypeOK, Op, OwnerInv, KeptOwned
<1>4. OwnerFree'
  BY <1>0 DEF CleanStaging, TypeOK, Op, links, OwnerInv, OwnerFree
<1>5. UndoKnown'
  BY <1>0 DEF CleanStaging, TypeOK, Op, links, records, OpKnown, OwnerInv,
     UndoKnown, AsBefore, CreatedKnown
<1> QED BY <1>1, <1>2, <1>3, <1>4, <1>5 DEF OwnerInv

LEMMA RemoveCreatedOwner ==
  ASSUME StoreInv, LinksInv, OwnerInv, RemoveCreated
  PROVE  OwnerInv'
<1>0. TypeOK /\ StoreKnown /\ OpKnown
  BY DEF StoreInv
<1>1. OwnerSound'
  BY <1>0 DEF RemoveCreated, links, records, OpKnown, LinksInv, OwnerInv,
     OwnerSound, CreatedKnown, CreatedApart, Undoable
<1>2. TargetOwned'
  BY DEF RemoveCreated, OwnerInv, TargetOwned
<1>3. KeptOwned'
  BY DEF RemoveCreated, OwnerInv, KeptOwned
<1>4. OwnerFree'
  BY DEF RemoveCreated, links, OwnerInv, OwnerFree
<1>5. UndoKnown'
  BY <1>0 DEF RemoveCreated, links, records, OpKnown, OwnerInv, UndoKnown,
     AsBefore, CreatedKnown, Undoable
<1> QED BY <1>1, <1>2, <1>3, <1>4, <1>5 DEF OwnerInv

LEMMA BeginCollectOwner ==
  ASSUME StoreInv, LinksInv, OwnerInv, BeginCollect
  PROVE  OwnerInv'
<1>1. OwnerSound'
  BY DEF BeginCollect, records, OwnerInv, OwnerSound
<1>2. TargetOwned'
  BY DEF BeginCollect, OwnerInv, TargetOwned
<1>3. KeptOwned'
  BY DEF BeginCollect, OwnerInv, KeptOwned
<1>4. OwnerFree'
  BY DEF BeginCollect, OwnerInv, OwnerFree, Activates
<1>5. UndoKnown'
  BY DEF BeginCollect, OwnerInv, UndoKnown
<1> QED BY <1>1, <1>2, <1>3, <1>4, <1>5 DEF OwnerInv

LEMMA TrashRevisionOwner ==
  ASSUME StoreInv, LinksInv, OwnerInv, NEW r \in Revision, TrashRevision(r)
  PROVE  OwnerInv'
<1>1. OwnerSound'
  BY DEF TrashRevision, links, records, LinksInv, OwnerInv, OwnerSound,
     TodoApart
<1>2. TargetOwned'
  BY DEF TrashRevision, OwnerInv, TargetOwned
<1>3. KeptOwned'
  BY DEF TrashRevision, OwnerInv, KeptOwned
<1>4. OwnerFree'
  BY DEF TrashRevision, links, OwnerInv, OwnerFree, Activates
<1>5. UndoKnown'
  BY DEF TrashRevision, OwnerInv, UndoKnown
<1> QED BY <1>1, <1>2, <1>3, <1>4, <1>5 DEF OwnerInv

LEMMA PurgeRevisionOwner ==
  ASSUME StoreInv, LinksInv, OwnerInv, PurgeRevision
  PROVE  OwnerInv'
<1>1. OwnerSound'
  BY DEF PurgeRevision, links, records, OwnerInv, OwnerSound
<1>2. TargetOwned'
  BY DEF PurgeRevision, OwnerInv, TargetOwned
<1>3. KeptOwned'
  BY DEF PurgeRevision, OwnerInv, KeptOwned
<1>4. OwnerFree'
  BY DEF PurgeRevision, links, OwnerInv, OwnerFree, Activates
<1>5. UndoKnown'
  BY DEF PurgeRevision, OwnerInv, UndoKnown
<1> QED BY <1>1, <1>2, <1>3, <1>4, <1>5 DEF OwnerInv

LEMMA SkipRevisionOwner ==
  ASSUME StoreInv, LinksInv, OwnerInv, NEW r \in Revision, SkipRevision(r)
  PROVE  OwnerInv'
<1>1. OwnerSound'
  BY DEF SkipRevision, store, links, records, OwnerInv, OwnerSound
<1>2. TargetOwned'
  BY DEF SkipRevision, OwnerInv, TargetOwned
<1>3. KeptOwned'
  BY DEF SkipRevision, OwnerInv, KeptOwned
<1>4. OwnerFree'
  BY DEF SkipRevision, links, OwnerInv, OwnerFree, Activates
<1>5. UndoKnown'
  BY DEF SkipRevision, OwnerInv, UndoKnown
<1> QED BY <1>1, <1>2, <1>3, <1>4, <1>5 DEF OwnerInv

-----------------------------------------------------------------------------
(***************************************************************************)
(* Launches, approvals and the user's data leave links and operation       *)
(* alone; a first launch records an owner only where nobody is.            *)
(***************************************************************************)
LEMMA ElsewhereLinks ==
  ASSUME StoreInv, LinksInv, OwnerInv, UNCHANGED <<store, links, op>>,
         owner' = owner \/ (LockFree /\ owner = None)
  PROVE  LinksInv' /\ OwnerInv'
<1>1. LinksInv'
  BY DEF LinksInv, TornFilled, ContentNamed, LinksSound, Sound, CopySound,
     KeptSound, CreatedApart, TodoApart, store, links
<1>2. OwnerInv'
  <2>1. CASE owner' = owner
    BY <2>1 DEF OwnerInv, OwnerSound, TargetOwned, KeptOwned, OwnerFree,
       UndoKnown, AsBefore, Activates, store, links
  <2>2. CASE LockFree /\ owner = None
    BY <2>2 DEF OwnerInv, OwnerSound, TargetOwned, KeptOwned, OwnerFree,
       UndoKnown, Activates, store, links, LockFree
  <2> QED BY <2>1, <2>2
<1> QED BY <1>1, <1>2

LEMMA LaunchLinks ==
  ASSUME StoreInv, LinksInv, OwnerInv, NEW s \in Session, Launch(s)
  PROVE  LinksInv' /\ OwnerInv'
<1>1. UNCHANGED <<store, links, op>>
  BY DEF Launch, Resolve, Open, Pin, Verify, RecordOwner, WriteOwner, CheckApproval,
     Prepare, End
<1>2. owner' = owner \/ (LockFree /\ owner = None)
  BY DEF Launch, Resolve, Open, Pin, Verify, RecordOwner, WriteOwner, CheckApproval,
     Prepare, End, records
<1> QED BY <1>1, <1>2, ElsewhereLinks

-----------------------------------------------------------------------------
(***************************************************************************)
(* The inductive invariant and what follows from it.                       *)
(***************************************************************************)
FullInv == StoreInv /\ LinksInv /\ OwnerInv

LEMMA FullInit == Init => FullInv
<1> SUFFICES ASSUME Init PROVE LinksInv /\ OwnerInv
  BY StoreInit DEF FullInv
<1>1. op.pc = "idle" /\ op.kind = "none"
  BY DEF Init, Idle
<1>2. LinksInv
  BY <1>1 DEF Init, LinksInv, TornFilled, ContentNamed, LinksSound, CopySound,
     KeptSound, CreatedApart, TodoApart, Undoable
<1>3. OwnerInv
  BY <1>1 DEF Init, OwnerInv, OwnerSound, TargetOwned, KeptOwned, OwnerFree,
     UndoKnown
<1> QED BY <1>2, <1>3

LEMMA FullStep == FullInv /\ [Next]_vars => FullInv'
<1> SUFFICES ASSUME StoreInv, LinksInv, OwnerInv, [Next]_vars
             PROVE  LinksInv' /\ OwnerInv'
  BY StoreStep DEF FullInv
<1>1. CASE Install
  <2>1. LinksInv'
    BY <1>1, BeginInstallLinks, AdmitLinks, AdmitRefusedLinks, PlaceNewLinks,
       PlaceSameLinks, PlaceOverLinks, DiscardLinks, PlaceRefusedLinks,
       KeepPreviousLinks, SwitchLinks, ActivateFailsLinks, CleanStagingLinks,
       RemoveCreatedLinks, DropRecordLinks, UnclaimLinks, SettleLinks,
       SettleFailsLinks DEF Install
  <2>2. OwnerInv'
    BY <1>1, BeginInstallOwner, AdmitOwner, AdmitRefusedOwner, PlaceNewOwner,
       PlaceSameOwner, PlaceOverOwner, DiscardOwner, PlaceRefusedOwner,
       KeepPreviousOwner, SwitchOwner, ActivateFailsOwner, CleanStagingOwner,
       RemoveCreatedOwner, DropRecordOwner, UnclaimOwner, SettleOwner,
       SettleFailsOwner DEF Install
  <2> QED BY <2>1, <2>2
<1>2. CASE Collect
  <2>1. LinksInv'
    BY <1>2, BeginCollectLinks, PurgeRevisionLinks, EndCollectLinks,
       TrashRevisionLinks, SkipRevisionLinks DEF Collect
  <2>2. OwnerInv'
    BY <1>2, BeginCollectOwner, PurgeRevisionOwner, EndCollectOwner,
       TrashRevisionOwner, SkipRevisionOwner DEF Collect
  <2> QED BY <2>1, <2>2
<1>3. CASE Uninstall
  <2>1. LinksInv'
    BY <1>3, BeginUninstallLinks, UnlinkLinks, UnlinkFailsLinks,
       DropPreviousLinks, ReleaseOwnerLinks, ForgetLinks, ForgetFailsLinks
       DEF Uninstall
  <2>2. OwnerInv'
    BY <1>3, BeginUninstallOwner, UnlinkOwner, UnlinkFailsOwner,
       DropPreviousOwner, ReleaseOwnerOwner, ForgetOwner, ForgetFailsOwner
       DEF Uninstall
  <2> QED BY <2>1, <2>2
<1>4. CASE BeginRollback
  BY <1>4, BeginRollbackLinks, BeginRollbackOwner
<1>5. CASE Crash
  BY <1>5, CrashLinks, CrashOwner
<1>6. CASE \E named \in SUBSET Capability : Approve(named)
  BY <1>6, ElsewhereLinks DEF Approve
<1>7. CASE \E s \in Session : Launch(s)
  BY <1>7, LaunchLinks
<1>8. CASE RemoveData
  BY <1>8, ElsewhereLinks DEF RemoveData
<1>9. CASE UNCHANGED vars
  BY <1>9, ElsewhereLinks DEF vars, store, links
<1> QED BY <1>1, <1>2, <1>3, <1>4, <1>5, <1>6, <1>7, <1>8, <1>9
     DEF Next, Pack

LEMMA FullInvariant == Spec => []FullInv
<1> QED BY FullInit, FullStep, PTL DEF Spec

\* The active link leads to a complete revision with the content its name says,
\* at every step, after every failure and after every crash.
THEOREM ActiveIsWhole == Spec => []ActiveWhole
<1>1. FullInv => ActiveWhole
  BY DEF FullInv, StoreInv, StoreKnown, TypeOK, NamedFilled, LinksInv,
     LinksSound, Sound, ContentNamed, ActiveWhole
<1> QED BY <1>1, FullInvariant, PTL

\* While something is installed, what a rollback would install is complete.
THEOREM PreviousIsWhole == Spec => []PreviousWhole
<1>1. FullInv => PreviousWhole
  BY DEF FullInv, StoreInv, StoreKnown, TypeOK, NamedFilled, LinksInv,
     LinksSound, Sound, ContentNamed, PreviousWhole
<1> QED BY <1>1, FullInvariant, PTL

\* What is installed, and what a rollback would install, was admitted under
\* the owner on record, whoever installs, launches first or uninstalls.
THEOREM OwnerIsKept == Spec => []OwnerMatches
<1>1. FullInv => OwnerMatches
  BY DEF FullInv, OwnerInv, OwnerSound, OwnerMatches, Kept
<1> QED BY <1>1, FullInvariant, PTL

\* An installation that fails leaves the links and the owner record as it
\* found them.
THEOREM FailuresUndone == Spec => FailedInstallUndone
<1>1. FullInv /\ [Next]_vars =>
        [DropRecord =>
           /\ active' = op.before.active
           /\ owner' = op.before.owner
           /\ previous' = op.before.previous
                \/ (op.before.active = None /\ previous' = None)]_vars
  BY DEF FullInv, OwnerInv, OwnerFree, UndoKnown, AsBefore, DropRecord, links
<1> QED BY <1>1, FullInvariant, PTL DEF Spec, FailedInstallUndone

-----------------------------------------------------------------------------
(***************************************************************************)
(* Approvals that nobody gave are asked for.  An activation leaves the     *)
(* record as it is until it is settled, an uninstall until it is           *)
(* forgotten: in between only what the active package declares counts.     *)
(***************************************************************************)
Settling ==
  Activates /\ op.pc \in {"unclaim", "collect", "trash", "purge", "settle"}
Removing ==
  /\ op.kind = "uninstall"
  /\ op.pc \in {"drop", "collect", "trash", "purge", "release", "forget"}

\* What the package that an activation made active declares.
Activated == Declares[body[name[op.target]]]

Consented ==
  /\ ~cut /\ ~Settling /\ ~Removing => approved \subseteq consent
  /\ ~cut /\ Settling => approved \cap Activated \subseteq consent
RemovalKnown ==
  /\ Removing => active = None
  /\ op.pc = "unlink" => op.kind = "uninstall"
  /\ op.pc = "unclaim" => Activates

ConsentInv == Consented /\ RemovalKnown

\* An operation that is cut short has no history of approvals to keep.
LEMMA CutConsent ==
  ASSUME op' = Idle, CutShort
  PROVE  ConsentInv'
  BY DEF CutShort, ConsentInv, Consented, RemovalKnown, Removing, Idle

\* A step outside those stretches that leaves the record.
LEMMA QuietConsent ==
  ASSUME ConsentInv, UNCHANGED <<approved, history>>, ~Settling, ~Removing,
         ~Settling', ~Removing', op'.pc # "unclaim",
         op'.pc = "unlink" => op'.kind = "uninstall"
  PROVE  ConsentInv'
  BY DEF ConsentInv, Consented, RemovalKnown, history

\* A step within an uninstall.
LEMMA RemovingConsent ==
  ASSUME ConsentInv, active' = active, cut' = cut, Removing, Removing',
         op'.pc \notin {"unlink", "unclaim"}
  PROVE  ConsentInv'
<1>1. ~Settling'
  BY DEF Removing, Settling, Activates
<1>2. QED
  BY <1>1 DEF ConsentInv, Consented, RemovalKnown

\* A step between an activation and the settling of the record.
LEMMA SettlingConsent ==
  ASSUME ConsentInv, UNCHANGED <<approved, history>>, Settling, Settling',
         Activated' = Activated,
         op'.pc \notin {"unlink", "unclaim"}
  PROVE  ConsentInv'
<1>1. ~Removing'
  BY DEF Removing, Settling, Activates
<1>2. QED
  BY <1>1 DEF ConsentInv, Consented, RemovalKnown, history

\* The steps up to the commit point of an activation, and its clean-up.
LEMMA InstallingConsent ==
  ASSUME ConsentInv, UNCHANGED <<approved, history>>,
         op.pc \in {"idle", "admit", "place", "discard", "keep", "switch", "clean",
                    "remove", "unrecord"},
         op'.pc \in {"idle", "admit", "place", "discard", "keep", "clean", "remove",
                     "switch", "unrecord"}
  PROVE  ConsentInv'
  BY QuietConsent DEF Settling, Removing

LEMMA SwitchConsent ==
  ASSUME StoreInv, ConsentInv, Switch
  PROVE  ConsentInv'
<1>1. /\ ~Settling /\ ~Removing /\ Activates
  BY DEF Switch, StoreInv, OpKnown, TargetKnown, Settling, Removing
<1>2. op'.target = op.target /\ op'.kind = op.kind
      /\ op'.pc \in {"unclaim", "collect"}
  BY DEF Switch, Idle
<1>3. Settling' /\ ~Removing' /\ Activates'
  BY <1>1, <1>2 DEF Settling, Removing, Activates
<1>4. Activated' = Declares[body[name[op.target]]]
  BY <1>2 DEF Switch, store, Activated
<1>5. ~cut => approved \subseteq consent
  BY <1>1 DEF ConsentInv, Consented
<1>6. cut' = cut /\ approved' = approved
      /\ (~cut => consent' = consent \cap Declares[body[name[op.target]]])
  BY DEF Switch, Consenting, records
<1>7. QED
  BY <1>2, <1>3, <1>4, <1>5, <1>6 DEF ConsentInv, Consented, RemovalKnown

LEMMA SettleConsent ==
  ASSUME StoreInv, ConsentInv, Settle
  PROVE  ConsentInv'
<1>1. Settling
  BY DEF Settle, StoreInv, OpKnown, TargetKnown, Settling
<1>2. PICK approve \in {FALSE, op.kind = "install"} :
        /\ approved' = Settled(Activated, approve)
        /\ Consenting(IF approve THEN Activated ELSE consent)
  BY DEF Settle, Activated
<1>3. ~cut => approved' \subseteq consent'
  BY <1>1, <1>2 DEF Settled, Consenting, ConsentInv, Consented
<1>4. cut' = cut /\ op' = Idle
  BY DEF Settle
<1>5. QED
  BY <1>3, <1>4 DEF ConsentInv, Consented, RemovalKnown, Removing, Settling, Idle

\* The collection belongs to an activation, to an uninstall or to neither.
LEMMA CollectConsent ==
  ASSUME StoreInv, ConsentInv, UNCHANGED <<approved, history, active>>,
         op'.kind = op.kind, op'.target = op.target,
         op.pc \in {"collect", "trash", "purge"},
         op'.pc \in {"collect", "trash", "purge"},
         Activates => body'[name'[op.target]] = body[name[op.target]]
  PROVE  ConsentInv'
<1>1. (Settling <=> Activates) /\ (Settling' <=> Activates')
  BY DEF Settling
<1>2. Activates' <=> Activates
  BY DEF Activates
<1>3. (Removing <=> op.kind = "uninstall") /\ (Removing' <=> op.kind = "uninstall")
  BY DEF Removing
<1>4. CASE Activates
  BY <1>1, <1>2, <1>4, SettlingConsent DEF Activated
<1>5. CASE ~Activates /\ op.kind = "uninstall"
  BY <1>3, <1>5, RemovingConsent DEF history
<1>6. CASE ~Activates /\ op.kind # "uninstall"
  BY <1>1, <1>2, <1>3, <1>6, QuietConsent
<1>7. QED
  BY <1>4, <1>5, <1>6

LEMMA CollectingConsent ==
  ASSUME StoreInv, ConsentInv, Collect
  PROVE  ConsentInv'
<1>1. /\ Activates /\ op.pc \in {"collect", "trash", "purge"} =>
           op.target \in Revision /\ name[op.target] # NoDir
      /\ Activates /\ op.pc \in {"trash", "purge"} => op.target \notin op.todo
  BY DEF StoreInv, OpKnown, TargetKnown
<1>2. /\ name \in [Revision -> Dir \cup {NoDir}]
      /\ body \in [Dir -> Package \cup {None}]
      /\ op \in Op
  BY DEF StoreInv, TypeOK
<1>3. CASE BeginCollect
  <2>1. PICK old \in BOOLEAN :
          body' = [d \in Dir |->
                     IF d \in {e \in Dir : old /\ body[e] # None /\ ~Named(e)
                                           /\ Claimable(e) /\ e \notin claimed}
                     THEN None ELSE body[d]]
    BY <1>3 DEF BeginCollect
  <2>2. Activates => body'[name'[op.target]] = body[name[op.target]]
    <3>1. SUFFICES ASSUME Activates
                   PROVE  body'[name'[op.target]] = body[name[op.target]]
      OBVIOUS
    <3>2. op.target \in Revision /\ name[op.target] # NoDir
      BY <1>1, <1>3, <3>1 DEF BeginCollect
    <3>3. name[op.target] \in Dir /\ Named(name[op.target])
      BY <1>2, <3>2 DEF Named
    <3>4. body'[name[op.target]] = body[name[op.target]]
      BY <2>1, <3>3
    <3>5. QED
      BY <1>3, <3>4 DEF BeginCollect
  <2>3. /\ op.pc = "collect" /\ op'.pc = "trash" /\ op'.kind = op.kind
        /\ op'.target = op.target /\ UNCHANGED <<approved, history, active>>
    BY <1>2, <1>3 DEF BeginCollect, records, history, Op
  <2>4. QED
    BY <2>2, <2>3, CollectConsent
<1>4. CASE PurgeRevision
  <2>1. Activates => body'[name'[op.target]] = body[name[op.target]]
    BY <1>1, <1>2, <1>4 DEF PurgeRevision, StoreInv, OpKnown, VictimKnown, Named
  <2>2. /\ op.pc = "purge" /\ op'.pc = "trash" /\ op'.kind = op.kind
        /\ op'.target = op.target /\ UNCHANGED <<approved, history, active>>
    BY <1>2, <1>4 DEF PurgeRevision, records, links, history, Op
  <2>3. QED
    BY <2>1, <2>2, CollectConsent
<1>5. ASSUME NEW r \in Revision, TrashRevision(r)
      PROVE  ConsentInv'
  <2>1. Activates => body'[name'[op.target]] = body[name[op.target]]
    BY <1>1, <1>2, <1>5 DEF TrashRevision
  <2>2. /\ op.pc = "trash" /\ op'.pc = "purge" /\ op'.kind = op.kind
        /\ op'.target = op.target /\ UNCHANGED <<approved, history, active>>
    BY <1>2, <1>5 DEF TrashRevision, records, links, history, Op
  <2>3. QED
    BY <2>1, <2>2, CollectConsent
<1>6. ASSUME NEW r \in Revision, SkipRevision(r)
      PROVE  ConsentInv'
  <2>1. body'[name'[op.target]] = body[name[op.target]]
    BY <1>6 DEF SkipRevision, store
  <2>2. /\ op.pc = "trash" /\ op'.pc = "trash" /\ op'.kind = op.kind
        /\ op'.target = op.target /\ UNCHANGED <<approved, history, active>>
    BY <1>2, <1>6 DEF SkipRevision, records, links, history, Op
  <2>3. QED
    BY <2>1, <2>2, CollectConsent
<1>7. CASE EndCollect
  <2>1. /\ op.pc = "trash" /\ op'.pc = AfterCollect /\ op'.kind = op.kind
        /\ op'.target = op.target
        /\ UNCHANGED <<approved, history, active, body, name>>
    BY <1>2, <1>7 DEF EndCollect, records, links, history, store, Op
  <2>2. CASE Activates
    <3>1. Settling /\ Settling' /\ Activated' = Activated /\ op'.pc \notin {"unlink", "unclaim"}
      BY <2>1, <2>2 DEF AfterCollect, Settling, Activates, Activated
    <3>2. QED
      BY <2>1, <3>1, SettlingConsent
  <2>3. CASE op.kind = "uninstall"
    <3>1. Removing /\ Removing' /\ op'.pc \notin {"unlink", "unclaim"}
      BY <2>1, <2>3 DEF AfterCollect, Removing
    <3>2. QED
      BY <2>1, <3>1, RemovingConsent DEF history
  <2>4. CASE ~Activates /\ op.kind # "uninstall"
    <3>1. op'.pc = "release"
      BY <2>1, <2>4 DEF AfterCollect, Activates
    <3>2. ~Settling /\ ~Removing /\ ~Settling' /\ ~Removing'
      BY <2>1, <2>4, <3>1 DEF Settling, Removing, Activates
    <3>3. QED
      BY <2>1, <3>1, <3>2, QuietConsent
  <2>5. QED
    BY <2>2, <2>3, <2>4
<1>8. QED
  BY <1>3, <1>4, <1>5, <1>6, <1>7 DEF Collect

LEMMA InstallConsent ==
  ASSUME StoreInv, ConsentInv, Install
  PROVE  ConsentInv'
<1>1. ASSUME NEW p \in Package, NEW as \in Owner, BeginInstall(p, as)
      PROVE  ConsentInv'
  BY <1>1, InstallingConsent DEF BeginInstall, Idle, LockFree, records, history
<1>2. CASE Admit \/ AdmitRefused
  <2>1. CASE Admit
    <3>1. op.pc = "admit" /\ UNCHANGED <<approved, history>>
      BY <2>1 DEF Admit
    <3>2. op'.pc = "place"
      BY <2>1 DEF Admit, StoreInv, TypeOK, Op
    <3>3. QED
      BY <3>1, <3>2, InstallingConsent
  <2>2. CASE AdmitRefused
    BY <2>2, InstallingConsent DEF AdmitRefused, Fails, Idle, records, history
  <2>3. QED
    BY <1>2, <2>1, <2>2
<1>3. CASE PlaceNew \/ PlaceSame \/ PlaceOver \/ Discard \/ PlaceRefused
  BY <1>3, InstallingConsent DEF PlaceNew, PlaceSame, PlaceOver, Discard, PlaceRefused,
     records, history, StoreInv, TypeOK, Op
<1>4. CASE KeepPrevious
  BY <1>4, InstallingConsent DEF KeepPrevious, records, history, StoreInv, TypeOK, Op
<1>5. CASE ActivateFails
  BY <1>5, InstallingConsent DEF ActivateFails, Idle, records, history, StoreInv, TypeOK, Op
<1>6. CASE CleanStaging \/ RemoveCreated \/ DropRecord
  BY <1>6, InstallingConsent DEF CleanStaging, RemoveCreated, DropRecord, Fails, Idle,
     records, history, StoreInv, TypeOK, Op
<1>7. CASE Unclaim
  <2>1. op' = [op EXCEPT !.pc = "collect", !.dir = NoDir] /\ op.pc = "unclaim"
    BY <1>7 DEF Unclaim
  <2>2. op'.pc = "collect" /\ op'.kind = op.kind /\ op'.target = op.target
    BY <2>1 DEF StoreInv, TypeOK, Op
  <2>3. UNCHANGED <<approved, history, body, name>>
    BY <1>7 DEF Unclaim, records, history, store
  <2>4. CASE Activates
    BY <2>1, <2>2, <2>3, <2>4, SettlingConsent DEF Settling, Activates, Activated
  <2>5. QED
    BY <2>1, <2>4 DEF ConsentInv, RemovalKnown
<1>8. CASE Switch
  BY <1>8, SwitchConsent
<1>9. CASE Settle
  BY <1>9, SettleConsent
<1>10. CASE SettleFails
  BY <1>10, CutConsent DEF SettleFails
<1>11. QED
  BY <1>1, <1>2, <1>3, <1>4, <1>5, <1>6, <1>7, <1>8, <1>9, <1>10 DEF Install

LEMMA UninstallConsent ==
  ASSUME StoreInv, ConsentInv, Uninstall
  PROVE  ConsentInv'
<1>0. op \in Op
  BY DEF StoreInv, TypeOK
<1>1. CASE BeginUninstall
  <2>1. /\ op.pc = "idle" /\ UNCHANGED <<approved, history>>
        /\ \/ op'.pc = "collect" /\ op'.kind = "tidy"
           \/ op'.pc = "unlink" /\ op'.kind = "uninstall"
    BY <1>1 DEF BeginUninstall, Idle, LockFree, records, history
  <2>2. ~Settling /\ ~Removing /\ ~Settling' /\ ~Removing'
    BY <2>1 DEF Settling, Removing, Activates
  <2>3. QED
    BY <2>1, <2>2, QuietConsent
<1>2. CASE Unlink
  <2>1. /\ op'.pc = "drop" /\ op'.kind = op.kind /\ op.pc = "unlink"
        /\ active' = None
    BY <1>0, <1>2 DEF Unlink, Op
  <2>2. Removing'
    BY <2>1 DEF ConsentInv, RemovalKnown, Removing
  <2>3. ~Settling'
    BY <2>1 DEF Settling
  <2>4. QED
    BY <2>1, <2>2, <2>3 DEF ConsentInv, Consented, RemovalKnown
<1>3. CASE UnlinkFails \/ ForgetFails
  BY <1>3, CutConsent DEF UnlinkFails, ForgetFails
<1>4. CASE DropPrevious
  <2>1. /\ op.pc = "drop" /\ op'.pc = "collect" /\ op'.kind = op.kind
        /\ UNCHANGED <<approved, history, active>>
    BY <1>0, <1>4 DEF DropPrevious, records, history, Op
  <2>2. ~Settling /\ ~Settling'
    BY <2>1 DEF StoreInv, OpKnown, TargetKnown, Settling, Activates
  <2>3. CASE op.kind = "uninstall"
    BY <2>1, <2>3, RemovingConsent DEF Removing, history
  <2>4. CASE op.kind # "uninstall"
    BY <2>1, <2>2, <2>4, QuietConsent DEF Removing
  <2>5. QED
    BY <2>3, <2>4
<1>5. CASE ReleaseOwner
  <2>1. /\ op.pc = "release" /\ UNCHANGED <<approved, history, active>>
        /\ \/ op.kind = "tidy" /\ op' = Idle
           \/ op.kind # "tidy" /\ op'.pc = "forget" /\ op'.kind = op.kind
    BY <1>0, <1>5 DEF ReleaseOwner, links, history, Op
  <2>2. ~Settling /\ ~Settling'
    BY <2>1 DEF Settling, Idle
  <2>3. CASE op.kind = "uninstall"
    BY <2>1, <2>3, RemovingConsent DEF Removing, history
  <2>4. CASE op.kind # "uninstall"
    BY <2>1, <2>2, <2>4, QuietConsent DEF Removing, Idle
  <2>5. QED
    BY <2>3, <2>4
<1>6. CASE Forget
  BY <1>6 DEF Forget, Idle, ConsentInv, Consented, RemovalKnown, Removing, Settling
<1>7. QED
  BY <1>1, <1>2, <1>3, <1>4, <1>5, <1>6 DEF Uninstall

LEMMA ApproveConsent ==
  ASSUME ConsentInv, NEW named \in SUBSET Capability, Approve(named)
  PROVE  ConsentInv'
<1>1. /\ op.pc = "idle" /\ op' = op /\ cut' = cut
  BY DEF Approve, LockFree
<1>2. /\ ~Settling /\ ~Removing /\ ~Settling' /\ ~Removing'
  BY <1>1 DEF Settling, Removing
<1>3. ~cut => approved \subseteq consent
  BY <1>2 DEF ConsentInv, Consented
<1>4. ~cut => approved' \subseteq consent'
  BY <1>3 DEF Approve, Consenting
<1>5. QED
  BY <1>1, <1>2, <1>4 DEF ConsentInv, Consented, RemovalKnown

\* Launches approve nothing.
LEMMA ElsewhereConsent ==
  ASSUME ConsentInv, UNCHANGED <<store, links, approved, op, history>>
  PROVE  ConsentInv'
<1>1. (Settling' <=> Settling) /\ (Removing' <=> Removing)
  BY DEF Settling, Removing, Activates
<1>2. Activated' = Activated
  BY DEF Activated, store
<1>3. QED
  BY <1>1, <1>2 DEF ConsentInv, Consented, RemovalKnown, Activates, links, history

LEMMA ConsentStep ==
  ASSUME StoreInv, ConsentInv, [Next]_vars
  PROVE  ConsentInv'
<1>1. CASE Install
  BY <1>1, InstallConsent
<1>2. CASE Collect
  BY <1>2, CollectingConsent
<1>3. CASE Uninstall
  BY <1>3, UninstallConsent
<1>4. CASE BeginRollback
  BY <1>4, InstallingConsent DEF BeginRollback, Idle, LockFree, records, history
<1>5. CASE Crash
  BY <1>5, CutConsent DEF Crash
<1>6. CASE \E named \in SUBSET Capability : Approve(named)
  BY <1>6, ApproveConsent
<1>7. ASSUME NEW s \in Session, Launch(s)
      PROVE  ConsentInv'
  <2>1. UNCHANGED <<store, links, approved, op, history>>
    BY <1>7 DEF Launch, Resolve, Open, Pin, Verify, RecordOwner, WriteOwner,
       CheckApproval, Prepare, End, records
  <2>2. QED
    BY <2>1, ElsewhereConsent
<1>8. CASE RemoveData
  BY <1>8, ElsewhereConsent DEF RemoveData
<1>9. CASE UNCHANGED vars
  BY <1>9, ElsewhereConsent DEF vars, store, links, history
<1>10. QED
  BY <1>1, <1>2, <1>3, <1>4, <1>5, <1>6, <1>7, <1>8, <1>9 DEF Next, Pack

\* As long as no operation is cut short, what the record approves of the
\* installed package was approved for packages that declare it: a capability
\* that an update drops, or an uninstall, is asked for again.
THEOREM ApprovalsAreAsked == Spec => []ApprovalsAskedUncut
<1>1. Init => ConsentInv
  BY DEF Init, Idle, ConsentInv, Consented, RemovalKnown, Settling, Removing
<1>2. StoreInv /\ ConsentInv /\ [Next]_vars => ConsentInv'
  BY ConsentStep
<1>3. StoreInv /\ ConsentInv => ApprovalsAskedUncut
  <2>1. SUFFICES ASSUME StoreInv, ConsentInv, ~cut, Installed
                 PROVE  approved \cap Declares[body[name[active]]] \subseteq consent
    BY DEF ApprovalsAskedUncut, ApprovalsAsked
  <2>2. ~Removing
    BY <2>1 DEF ConsentInv, RemovalKnown, Installed
  <2>3. CASE Settling
    BY <2>1, <2>3 DEF Settling, StoreInv, OpKnown, TargetKnown, ConsentInv, Consented,
       Activated
  <2>4. CASE ~Settling
    BY <2>1, <2>2, <2>4 DEF ConsentInv, Consented
  <2>5. QED
    BY <2>3, <2>4
<1>4. QED
  BY <1>1, <1>2, <1>3, StoreInvariant, PTL DEF Spec
=============================================================================
