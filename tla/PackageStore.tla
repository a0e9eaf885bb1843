---------------------------- MODULE PackageStore ----------------------------
(***************************************************************************)
(* The package store of one application, shared by weft-pack, which        *)
(* installs, rolls back, uninstalls and approves, and by weft-appd, whose  *)
(* launches pin the revision they run from.                                *)
(*                                                                         *)
(* weft-pack's operations on an application hold its owner lock, so one    *)
(* runs at a time; launches take no lock but the pin.  A step is one       *)
(* change that another process can see: a rename of a link, an exchange, a *)
(* lock taken or dropped, a record written.                                *)
(*                                                                         *)
(* The store starts empty, so the package directories of stores written    *)
(* before revisions existed do not occur.  A crash ends weft-pack at a     *)
(* step; what was written stays (the loss of unsynced data is not          *)
(* modelled).  The trust store does not change.                            *)
(***************************************************************************)

CONSTANTS
  Package,     \* the packages of the application that are ever installed
  Revision,    \* content digests, which name revisions
  Owner,       \* the publishers, and Development
  Development, \* Owner::Development
  None,        \* no package, no revision or no owner
  Digest,      \* a package's content digest, which leaves out its signature
  Signer,      \* the trusted publisher that signed a package, None without one
  Capability,  \* the capabilities that need approval
  Declares,    \* those a package's manifest declares
  UsesData,    \* the packages whose manifest declares app data
  Session,     \* launches
  Dir,         \* bound: the inodes there are for package directories; a
               \* directory keeps its identity when it is renamed
  NoDir,       \* no directory
  Faults       \* what may go wrong: "crash" of weft-pack, "error" of a step

ASSUME PackageAssumption ==
  /\ None \notin Package \cup Revision \cup Owner
  /\ Development \in Owner
  /\ Digest \in [Package -> Revision]
  /\ Signer \in [Package -> (Owner \ {Development}) \cup {None}]
  /\ Declares \in [Package -> SUBSET Capability]
  /\ UsesData \subseteq Package
  /\ \* The manifest is part of the content.
     \A p, q \in Package : Digest[p] = Digest[q] =>
        Declares[p] = Declares[q] /\ (p \in UsesData <=> q \in UsesData)
ASSUME DirAssumption == NoDir \notin Dir
ASSUME FaultAssumption == Faults \subseteq {"crash", "error"}

VARIABLES
  \* The store.
  body,      \* the package a directory holds, None when there is none
  torn,      \* directories whose removal was cut short
  name,      \* the directory .revisions/<app_id>/<digest>, NoDir without one
  by,        \* the owner under whom a revision was last admitted
  active,    \* the revision the link <store>/<app_id> names
  previous,  \* the revision the link "previous" names
  claimed,   \* directories a package operation locks exclusively
  \* The user's data home.
  owner,     \* the owner record of the application
  data,      \* whether the application has data
  approved,  \* its approval record
  \* The processes.
  op,        \* the package operation that holds the owner lock
  sess,      \* the launches
  \* History.
  cut,       \* an operation was cut short since the last full uninstall
  consent    \* capabilities approved since the installed packages declare
             \* them, as far as no operation was cut short

store == <<body, torn, name, by>>
links == <<active, previous>>
records == <<owner, data, approved>>
history == <<cut, consent>>
vars == <<body, torn, name, by, active, previous, claimed, owner, data,
          approved, op, sess, cut, consent>>

-----------------------------------------------------------------------------
OpStep == {"idle", "admit", "place", "discard", "keep", "switch", "unclaim",
           "clean", "remove", "unrecord", "collect", "trash", "purge",
           "settle", "unlink", "drop", "release", "forget"}
OpKind == {"none", "install", "rollback", "uninstall", "tidy"}

\* An operation's local variables; `before` is history, the links and the owner
\* record when an installation began.
NoLinks == [active |-> None, previous |-> None, owner |-> None]
Now == [active |-> active, previous |-> previous, owner |-> owner]

Idle == [pc |-> "idle", kind |-> "none", pkg |-> None, as |-> None,
         dir |-> NoDir, created |-> FALSE, recorded |-> FALSE,
         target |-> None, kept |-> None, todo |-> {}, victim |-> NoDir,
         before |-> NoLinks]

Op == [pc : OpStep, kind : OpKind, pkg : Package \cup {None},
       as : Owner \cup {None}, dir : Dir \cup {NoDir}, created : BOOLEAN,
       recorded : BOOLEAN, target : Revision \cup {None},
       kept : Revision \cup {None}, todo : SUBSET Revision,
       victim : Dir \cup {NoDir},
       before : [active : Revision \cup {None},
                 previous : Revision \cup {None}, owner : Owner \cup {None}]]

LaunchStep == {"idle", "resolved", "opened", "pinned", "recording",
               "verified", "approved", "runs"}
Pinned == {"pinned", "recording", "verified", "approved", "runs"}
NoLaunch == [at |-> "idle", rev |-> None, dir |-> NoDir, pkg |-> None]

\* How the history goes on.
Consenting(capabilities) == consent' = IF cut THEN {} ELSE capabilities
CutShort == cut' = TRUE /\ consent' = {}

LockFree == op.pc = "idle"
Holds(s) == sess[s].at \in Pinned
Held == {sess[s].dir : s \in {t \in Session : Holds(t)}}

\* try_claim: the exclusive lock on a directory that no session pins.  The
\* mutant does not look.
MutantClaimsHeld(d) == TRUE
Claimable(d) == d \notin Held

\* active() is an error when the link names a revision that is not there.
ActiveReadable == active # None => name[active] # NoDir
Installed == active # None /\ name[active] # NoDir

\* previous_revision: the link counts only while its revision is there.
Kept == IF previous # None /\ name[previous] # NoDir THEN {previous} ELSE {}

\* The inode a new directory gets: one that nothing names or has open.
Fresh(d) == body[d] = None /\ \A s \in Session : sess[s].dir # d

Named(d) == \E r \in Revision : name[r] = d

TypeOK ==
  /\ body \in [Dir -> Package \cup {None}]
  /\ torn \in SUBSET Dir
  /\ by \in [Revision -> Owner \cup {None}]
  /\ name \in [Revision -> Dir \cup {NoDir}]
  /\ active \in Revision \cup {None}
  /\ previous \in Revision \cup {None}
  /\ claimed \in SUBSET Dir
  /\ owner \in Owner \cup {None}
  /\ data \in BOOLEAN
  /\ approved \in SUBSET Capability
  /\ op \in Op
  /\ sess \in [Session -> [at : LaunchStep, rev : Revision \cup {None},
                           dir : Dir \cup {NoDir},
                           pkg : Package \cup {None}]]
  /\ consent \in SUBSET Capability
  /\ cut \in BOOLEAN
  /\ \* The two locks on a directory exclude each other.
     claimed \cap Held = {}

Init ==
  /\ body = [d \in Dir |-> None]
  /\ torn = {}
  /\ by = [r \in Revision |-> None]
  /\ name = [r \in Revision |-> NoDir]
  /\ active = None
  /\ previous = None
  /\ claimed = {}
  /\ owner = None
  /\ data = FALSE
  /\ approved = {}
  /\ op = Idle
  /\ sess = [s \in Session |-> NoLaunch]
  /\ consent = {}
  /\ cut = FALSE

-----------------------------------------------------------------------------
(***************************************************************************)
(* weft-pack install, up to the commit point.                              *)
(***************************************************************************)

\* copy_tree: directories and regular files only, each opened beneath its
\* directory, into a new directory.
CopyTree(p, d) == Fresh(d) /\ body' = [body EXCEPT ![d] = p]

\* install_dir: the package is copied into a staging directory, which is
\* claimed so that no collection takes it for abandoned, and the owner lock is
\* taken.  Verified mode admits a package under its signer only.
BeginInstall(p, as) ==
  /\ LockFree /\ ActiveReadable
  /\ as \in {Development, Signer[p]} \ {None}
  /\ \E d \in Dir :
       /\ CopyTree(p, d)
       /\ claimed' = claimed \cup {d}
       /\ op' = [Idle EXCEPT !.pc = "admit", !.kind = "install", !.pkg = p,
                             !.as = as, !.dir = d, !.target = Digest[p],
                             !.before = Now]
  /\ UNCHANGED <<torn, name, by, links, records, sess, history>>

\* The claim on the staged copy is dropped when install_staged returns.
Fails == op' = Idle /\ claimed' = claimed \ {op.dir}

\* admit: the record names this owner, or there is none and it is written
\* unless the application has data that nobody owns and the installation does
\* not claim it (--claim-data, which is read only here).
MayOwn(claim) == owner = None /\ (claim \/ ~data)

\* write_owner: under a temporary name first, so it is there whole or not at all.
WriteOwner(as) == owner' = as

Admit ==
  /\ op.pc = "admit"
  /\ owner = op.as \/ \E claim \in BOOLEAN : MayOwn(claim)
  /\ WriteOwner(op.as)
  /\ op' = [op EXCEPT !.pc = "place", !.recorded = (owner = None)]
  /\ UNCHANGED <<store, links, claimed, data, approved, sess, history>>

AdmitRefused ==
  /\ op.pc = "admit"
  /\ owner # op.as /\ \E claim \in BOOLEAN : ~MayOwn(claim)
  /\ body' = [body EXCEPT ![op.dir] = None]
  /\ Fails
  /\ UNCHANGED <<torn, name, by, links, records, sess, history>>

\* same_revision: the same content and the same signature file.
SameRevision(d) == body[d] = op.pkg /\ d \notin torn

\* The staged copy becomes a new revision, which a failure removes again.
PlaceNew ==
  /\ op.pc = "place"
  /\ name[op.target] = NoDir
  /\ name' = [name EXCEPT ![op.target] = op.dir]
  /\ by' = [by EXCEPT ![op.target] = op.as]
  /\ op' = [op EXCEPT !.pc = "keep", !.created = TRUE]
  /\ UNCHANGED <<body, torn, links, claimed, records, sess, history>>

PlaceSame ==
  /\ op.pc = "place"
  /\ name[op.target] # NoDir
  /\ SameRevision(name[op.target])
  /\ body' = [body EXCEPT ![op.dir] = None]
  /\ by' = [by EXCEPT ![op.target] = op.as]
  /\ claimed' = claimed \ {op.dir}
  /\ op' = [op EXCEPT !.pc = "keep"]
  /\ UNCHANGED <<torn, name, links, records, sess, history>>

\* Anything else under the name is replaced in one exchange, unless a session
\* runs from it.
PlaceOver ==
  /\ op.pc = "place"
  /\ name[op.target] # NoDir
  /\ ~SameRevision(name[op.target])
  /\ Claimable(name[op.target])
  /\ name' = [name EXCEPT ![op.target] = op.dir]
  /\ by' = [by EXCEPT ![op.target] = op.as]
  /\ claimed' = claimed \cup {name[op.target]}
  /\ op' = [op EXCEPT !.pc = "discard", !.victim = name[op.target]]
  /\ UNCHANGED <<body, torn, links, records, sess, history>>

Discard ==
  /\ op.pc = "discard"
  /\ body' = [body EXCEPT ![op.victim] = None]
  /\ torn' = torn \ {op.victim}
  /\ claimed' = claimed \ {op.victim}
  /\ op' = [op EXCEPT !.pc = "keep", !.victim = NoDir]
  /\ UNCHANGED <<name, by, links, records, sess, history>>

PlaceRefused ==
  /\ op.pc = "place"
  /\ name[op.target] # NoDir
  /\ ~SameRevision(name[op.target])
  /\ ~Claimable(name[op.target])
  /\ op' = [op EXCEPT !.pc = "clean"]
  /\ UNCHANGED <<store, links, claimed, records, sess, history>>

-----------------------------------------------------------------------------
(***************************************************************************)
(* activate: the link of the kept revision first, then the active one.     *)
(***************************************************************************)

\* The revision active before is kept; without one, a link left by an
\* interrupted uninstall is dropped.  The mutant leaves that link.
MutantKeptStale == IF active \in {None, op.target} THEN previous ELSE active
KeptNext == IF active = None THEN None
            ELSE IF active = op.target THEN previous ELSE active

KeepPrevious ==
  /\ op.pc = "keep" /\ ActiveReadable
  /\ previous' = KeptNext
  /\ op' = [op EXCEPT !.pc = "switch", !.kept = previous]
  /\ UNCHANGED <<store, active, claimed, records, sess, history>>

Switch ==
  /\ op.pc = "switch"
  /\ active' = op.target
  /\ Consenting(consent \cap Declares[body[name[op.target]]])
  /\ op' = [Idle EXCEPT !.pc = IF op.kind = "install" THEN "unclaim"
                               ELSE "collect",
                        !.kind = op.kind, !.dir = op.dir,
                        !.target = op.target]
  /\ UNCHANGED <<store, previous, claimed, records, sess, cut>>

\* A failed activation puts the link of the kept revision back.  The
\* mutant leaves it.
MutantNotReverted == previous
Reverted == IF active \in {None, op.target} THEN previous ELSE op.kept

ActivateFails ==
  /\ "error" \in Faults
  /\ op.pc \in {"keep", "switch"}
  /\ previous' = IF op.pc = "switch" THEN Reverted ELSE previous
  /\ op' = IF op.kind = "install" THEN [op EXCEPT !.pc = "clean"] ELSE Idle
  /\ UNCHANGED <<store, active, claimed, records, sess, history>>

(***************************************************************************)
(* The clean-up of place: the staging copy, a revision and an owner record *)
(* that this installation created.                                         *)
(***************************************************************************)
CleanStaging ==
  /\ op.pc = "clean"
  /\ IF op.created
     THEN /\ torn' = torn \cup {op.dir}
          /\ op' = [op EXCEPT !.pc = "remove"]
          /\ UNCHANGED body
     ELSE /\ body' = IF Named(op.dir) THEN body
                     ELSE [body EXCEPT ![op.dir] = None]
          /\ op' = [op EXCEPT !.pc = "unrecord"]
          /\ UNCHANGED torn
  /\ UNCHANGED <<name, by, links, claimed, records, sess, history>>

RemoveCreated ==
  /\ op.pc = "remove"
  /\ name' = [name EXCEPT ![op.target] = NoDir]
  /\ by' = [by EXCEPT ![op.target] = None]
  /\ body' = [body EXCEPT ![op.dir] = None]
  /\ torn' = torn \ {op.dir}
  /\ op' = [op EXCEPT !.pc = "unrecord"]
  /\ UNCHANGED <<links, claimed, records, sess, history>>

DropRecord ==
  /\ op.pc = "unrecord"
  /\ owner' = IF op.recorded THEN None ELSE owner
  /\ Fails
  /\ UNCHANGED <<store, links, data, approved, sess, history>>

-----------------------------------------------------------------------------
(***************************************************************************)
(* After the commit point: the claim on the placed copy is dropped,        *)
(* revisions nothing needs are collected, and the approval is settled.     *)
(***************************************************************************)
Unclaim ==
  /\ op.pc = "unclaim"
  /\ claimed' = claimed \ {op.dir}
  /\ op' = [op EXCEPT !.pc = "collect", !.dir = NoDir]
  /\ UNCHANGED <<store, links, records, sess, history>>

\* What collect keeps.  The mutants forget one of the two.
MutantKeepActiveOnly == IF Installed THEN {active} ELSE {}
MutantKeepPreviousOnly == Kept
Keep == (IF Installed THEN {active} ELSE {}) \cup Kept

AfterCollect == IF op.kind \in {"install", "rollback"} THEN "settle"
                ELSE "release"

\* collect reads the store once; a link to a revision that is gone is dropped.
\* What interrupted operations left outside the revisions goes once it is an
\* hour old, here: or it is younger and stays.
BeginCollect ==
  /\ op.pc = "collect"
  /\ previous' = IF Kept = {} THEN None ELSE previous
  /\ op' = [op EXCEPT !.pc = "trash",
                      !.todo = {r \in Revision : name[r] # NoDir} \ Keep]
  /\ \E old \in BOOLEAN :
       LET debris == {d \in Dir : old /\ body[d] # None /\ ~Named(d)
                                      /\ Claimable(d) /\ d \notin claimed}
       IN /\ body' = [d \in Dir |-> IF d \in debris THEN None ELSE body[d]]
          /\ torn' = torn \ debris
  /\ UNCHANGED <<name, by, active, claimed, records, sess, history>>

\* remove_claimed first renames the revision out of the way.
TrashRevision(r) ==
  /\ op.pc = "trash" /\ r \in op.todo
  /\ Claimable(name[r])
  /\ claimed' = claimed \cup {name[r]}
  /\ name' = [name EXCEPT ![r] = NoDir]
  /\ by' = [by EXCEPT ![r] = None]
  /\ op' = [op EXCEPT !.pc = "purge", !.todo = @ \ {r}, !.victim = name[r]]
  /\ UNCHANGED <<body, torn, links, records, sess, history>>

SkipRevision(r) ==
  /\ op.pc = "trash" /\ r \in op.todo
  /\ ~Claimable(name[r])
  /\ op' = [op EXCEPT !.todo = @ \ {r}]
  /\ UNCHANGED <<store, links, claimed, records, sess, history>>

PurgeRevision ==
  /\ op.pc = "purge"
  /\ body' = [body EXCEPT ![op.victim] = None]
  /\ torn' = torn \ {op.victim}
  /\ claimed' = claimed \ {op.victim}
  /\ op' = [op EXCEPT !.pc = "trash", !.victim = NoDir]
  /\ UNCHANGED <<name, by, links, records, sess, history>>

EndCollect ==
  /\ op.pc = "trash" /\ op.todo = {}
  /\ op' = [op EXCEPT !.pc = AfterCollect]
  /\ UNCHANGED <<store, links, claimed, records, sess, history>>

\* settle_approval for a package that declares `declared`.  The mutant
\* keeps approvals the package does not declare.
MutantSettledAll(declared, approve) == IF approve THEN declared ELSE approved
Settled(declared, approve) ==
  IF approve THEN declared ELSE approved \cap declared

\* --approve is read only here; a rollback approves nothing.
Settle ==
  /\ op.pc = "settle"
  /\ \E approve \in {FALSE, op.kind = "install"} :
       LET declared == Declares[body[name[op.target]]]
       IN /\ approved' = Settled(declared, approve)
          /\ Consenting(IF approve THEN declared ELSE consent)
  /\ op' = Idle
  /\ UNCHANGED <<store, links, claimed, owner, data, sess, cut>>

SettleFails ==
  /\ "error" \in Faults
  /\ op.pc = "settle"
  /\ op' = Idle
  /\ CutShort
  /\ UNCHANGED <<store, links, claimed, records, sess>>

-----------------------------------------------------------------------------
(***************************************************************************)
(* weft-pack rollback, uninstall and approve.                              *)
(***************************************************************************)

\* The kept revision must still satisfy the owner record.
BeginRollback ==
  /\ LockFree /\ Installed
  /\ Kept \ {active} # {}
  /\ \/ owner = Development
     \/ /\ owner # None
        /\ Signer[body[name[previous]]] = owner /\ name[previous] \notin torn
  /\ op' = [Idle EXCEPT !.pc = "keep", !.kind = "rollback",
                        !.target = previous]
  /\ UNCHANGED <<store, links, claimed, records, sess, history>>

BeginUninstall ==
  /\ LockFree /\ ActiveReadable
  /\ op' = IF active = None
           THEN [Idle EXCEPT !.pc = "collect", !.kind = "tidy"]
           ELSE [Idle EXCEPT !.pc = "unlink", !.kind = "uninstall"]
  /\ UNCHANGED <<store, links, claimed, records, sess, history>>

Unlink ==
  /\ op.pc = "unlink"
  /\ active' = None
  /\ Consenting({})
  /\ op' = [op EXCEPT !.pc = "drop"]
  /\ UNCHANGED <<store, previous, claimed, records, sess, cut>>

\* sync_dir of the store fails after the link is gone.
UnlinkFails ==
  /\ "error" \in Faults
  /\ op.pc = "drop"
  /\ op' = Idle
  /\ CutShort
  /\ UNCHANGED <<store, links, claimed, records, sess>>

DropPrevious ==
  /\ op.pc = "drop"
  /\ previous' = None
  /\ op' = [op EXCEPT !.pc = "collect"]
  /\ UNCHANGED <<store, active, claimed, records, sess, history>>

\* release_owner_without_data: the last step when nothing was installed.
ReleaseOwner ==
  /\ op.pc = "release"
  /\ owner' = IF data THEN owner ELSE None
  /\ op' = IF op.kind = "tidy" THEN Idle ELSE [op EXCEPT !.pc = "forget"]
  /\ UNCHANGED <<store, links, claimed, data, approved, sess, history>>

Forget ==
  /\ op.pc = "forget"
  /\ approved' = {}
  /\ cut' = FALSE
  /\ op' = Idle
  /\ UNCHANGED <<store, links, claimed, owner, data, sess, consent>>

ForgetFails ==
  /\ "error" \in Faults
  /\ op.pc = "forget"
  /\ op' = Idle
  /\ CutShort
  /\ UNCHANGED <<store, links, claimed, records, sess>>

\* Approving by name adds to the record; without names, the record becomes
\* what the package declares.
Approve(named) ==
  /\ LockFree /\ Installed
  /\ LET declared == Declares[body[name[active]]]
     IN /\ named \subseteq declared
        /\ approved' = IF named = {} THEN declared ELSE approved \cup named
        /\ Consenting(IF named = {} THEN declared ELSE consent \cup named)
  /\ UNCHANGED <<store, links, claimed, owner, data, op, sess, cut>>

\* weft-pack is killed: its locks go, what it wrote stays.
Crash ==
  /\ "crash" \in Faults
  /\ ~LockFree
  /\ op' = Idle
  /\ claimed' = {}
  /\ CutShort
  /\ UNCHANGED <<store, links, records, sess>>

-----------------------------------------------------------------------------
(***************************************************************************)
(* A launch of weft-appd: resolve the link, pin the directory, check the   *)
(* owner and the approval, prepare the data, run until the session stops.  *)
(***************************************************************************)
Resolve(s) ==
  /\ sess[s].at = "idle" /\ Installed
  /\ sess' = [sess EXCEPT ![s].at = "resolved", ![s].rev = active]
  /\ UNCHANGED <<store, links, claimed, records, op, history>>

\* pin opens the directory, tries the shared lock on what it opened, and then
\* checks that the path still names it (same_file, which the mutant leaves out).
Open(s) ==
  /\ sess[s].at = "resolved"
  /\ name[sess[s].rev] # NoDir
  /\ sess' = [sess EXCEPT ![s].at = "opened", ![s].dir = name[sess[s].rev]]
  /\ UNCHANGED <<store, links, claimed, records, op, history>>

MutantAnyFile(s) == TRUE
SameFile(s) == name[sess[s].rev] = sess[s].dir

CanPin(s) == sess[s].dir \notin claimed /\ SameFile(s)

Pin(s) ==
  /\ sess[s].at = "opened"
  /\ CanPin(s)
  /\ sess' = [sess EXCEPT ![s].at = "pinned", ![s].pkg = body[sess[s].dir]]
  /\ UNCHANGED <<store, links, claimed, records, op, history>>

\* verify_owner: development content runs unchecked; a recorded publisher must
\* have signed the content; a signer without a record is to be recorded.
Whole(s) == sess[s].dir \notin torn
VerifiedBy(s) == IF Whole(s) THEN Signer[sess[s].pkg] ELSE None

Verify(s) ==
  /\ sess[s].at = "pinned"
  /\ \/ /\ owner = Development
        /\ sess' = [sess EXCEPT ![s].at = "verified"]
     \/ /\ owner \notin {None, Development} /\ VerifiedBy(s) = owner
        /\ sess' = [sess EXCEPT ![s].at = "verified"]
     \/ /\ owner = None /\ VerifiedBy(s) # None
        /\ sess' = [sess EXCEPT ![s].at = "recording"]
  /\ UNCHANGED <<store, links, claimed, records, op, history>>

\* record_first_owner, under the owner lock.
RecordOwner(s) ==
  /\ sess[s].at = "recording" /\ LockFree
  /\ owner = Signer[sess[s].pkg] \/ (owner = None /\ ~data)
  /\ WriteOwner(Signer[sess[s].pkg])
  /\ sess' = [sess EXCEPT ![s].at = "verified"]
  /\ UNCHANGED <<store, links, claimed, data, approved, op, history>>

CheckApproval(s) ==
  /\ sess[s].at = "verified"
  /\ Declares[sess[s].pkg] \subseteq approved
  /\ sess' = [sess EXCEPT ![s].at = "approved"]
  /\ UNCHANGED <<store, links, claimed, records, op, history>>

\* derive prepares the data directory of an application that declares one.
Prepare(s) ==
  /\ sess[s].at = "approved"
  /\ data' = (data \/ sess[s].pkg \in UsesData)
  /\ sess' = [sess EXCEPT ![s].at = "runs"]
  /\ UNCHANGED <<store, links, claimed, owner, approved, op, history>>

\* The checks that end a launch, each where the step it replaces would be.  A
\* torn revision may have lost its manifest, whoever owns it.
Refused(s) ==
  \/ sess[s].at = "resolved" /\ name[sess[s].rev] = NoDir
  \/ sess[s].at = "opened" /\ ~CanPin(s)
  \/ /\ sess[s].at = "pinned"
     /\ \/ owner = None /\ VerifiedBy(s) = None
        \/ owner \notin {None, Development} /\ VerifiedBy(s) # owner
        \/ ~Whole(s)
  \/ /\ sess[s].at = "recording" /\ LockFree
     /\ owner # Signer[sess[s].pkg] /\ (owner = None => data)
  \/ sess[s].at = "verified" /\ ~(Declares[sess[s].pkg] \subseteq approved)

\* A refused launch, or a session that stops, releases the pin.
End(s) ==
  /\ Refused(s) \/ sess[s].at = "runs"
  /\ sess' = [sess EXCEPT ![s] = NoLaunch]
  /\ UNCHANGED <<store, links, claimed, records, op, history>>

\* The user removes the application's data.
RemoveData ==
  /\ data
  /\ data' = FALSE
  /\ UNCHANGED <<store, links, claimed, owner, approved, op, sess, history>>

-----------------------------------------------------------------------------
Install ==
  \/ \E p \in Package, as \in Owner : BeginInstall(p, as)
  \/ Admit \/ AdmitRefused
  \/ PlaceNew \/ PlaceSame \/ PlaceOver \/ Discard \/ PlaceRefused
  \/ KeepPrevious \/ Switch \/ ActivateFails
  \/ CleanStaging \/ RemoveCreated \/ DropRecord
  \/ Unclaim \/ Settle \/ SettleFails

Collect ==
  \/ BeginCollect \/ PurgeRevision \/ EndCollect
  \/ \E r \in Revision : TrashRevision(r) \/ SkipRevision(r)

Uninstall ==
  \/ BeginUninstall \/ Unlink \/ UnlinkFails \/ DropPrevious
  \/ ReleaseOwner \/ Forget \/ ForgetFails

Pack ==
  \/ Install \/ Collect \/ Uninstall \/ BeginRollback \/ Crash
  \/ \E named \in SUBSET Capability : Approve(named)

Launch(s) ==
  \/ Resolve(s) \/ Open(s) \/ Pin(s) \/ Verify(s) \/ RecordOwner(s)
  \/ CheckApproval(s) \/ Prepare(s) \/ End(s)

Next == Pack \/ (\E s \in Session : Launch(s)) \/ RemoveData

Spec == Init /\ [][Next]_vars

-----------------------------------------------------------------------------
(***************************************************************************)
(* Properties.                                                             *)
(***************************************************************************)

\* A session runs on the bytes it pinned: as long as it holds its revision,
\* the revision's name still leads to the directory it holds, and the
\* directory still holds the package it held then, whatever is installed,
\* rolled back, uninstalled or collected meanwhile (store.rs:11-14).
HeldIntact ==
  \A s \in Session : Holds(s) =>
    /\ name[sess[s].rev] = sess[s].dir
    /\ sess[s].pkg # None /\ body[sess[s].dir] = sess[s].pkg

\* The link always leads to a complete revision with the content its name says,
\* at every step, after every failure and after every crash (the doc comment
\* of place): a launch never finds half a package or none.
ActiveWhole ==
  active # None =>
    /\ name[active] # NoDir
    /\ name[active] \notin torn
    /\ body[name[active]] # None
    /\ Digest[body[name[active]]] = active

\* While something is installed, the kept revision is there and complete, so
\* that it can be rolled back to.
PreviousWhole ==
  active # None /\ previous # None =>
    /\ name[previous] # NoDir
    /\ name[previous] \notin torn
    /\ body[name[previous]] # None
    /\ Digest[body[name[previous]]] = previous

\* What is installed, and what a rollback would install, was admitted under the
\* owner on record: neither an interrupted uninstall nor a kept revision hands
\* the ID to somebody else.
OwnerMatches ==
  active # None =>
    /\ owner # None
    /\ by[active] = owner
    /\ \A r \in Kept : by[r] = owner

\* An installation that fails leaves the links and the owner record as they
\* were; it may only have dropped a stale link of an interrupted uninstall.
FailedInstallUndone ==
  [][DropRecord =>
       /\ active' = op.before.active
       /\ owner' = op.before.owner
       /\ previous' = op.before.previous
            \/ (op.before.active = None /\ previous' = None)]_vars

\* As long as no operation is cut short, what the record approves of the
\* installed package was approved since packages declaring it are installed: a
\* capability that was dropped or uninstalled is asked for again.
ApprovalsAsked ==
  Installed => approved \cap Declares[body[name[active]]] \subseteq consent
ApprovalsAskedUncut == ~cut => ApprovalsAsked

\* An uninstall that reports the ID released leaves no approval behind, so that
\* "a later installation asks for approval again" (weft-pack main.rs:1142).
UninstallForgets ==
  [][ReleaseOwner /\ LockFree' /\ owner' = None => approved' = {}]_vars

\* Data that exists has an owner on record (docs/security.md: the record
\* survives uninstall while the application's data remains).
RecordCoversData == LockFree /\ data => owner # None

\* What the doc comment of activate says of its two links: "an interruption
\* between the two steps keeps both revisions": a rollback that is killed there
\* would leave a link to each.
RollbackKeepsBoth ==
  [][Crash /\ op.kind = "rollback" /\ op.pc = "switch" =>
       {active, op.target} \subseteq {active', previous'}]_vars
=============================================================================
