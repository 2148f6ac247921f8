---------------------------- MODULE Transaction ----------------------------
(***************************************************************************)
(* The journalled file transaction engine of transaction.py together with   *)
(* the apply workflows that drive it (managed_apply_workflow.py and its     *)
(* Home Manager, flake.lock and adoption siblings).                         *)
(*                                                                          *)
(* A worker is one apply request.  It verifies its plan, takes the journal  *)
(* lock, backs up and stages every file, replaces the files one by one,     *)
(* releases the lock while Nix evaluates the installed files, and then      *)
(* finalizes or rolls back.  Workers, the recovery operation, an editor     *)
(* that changes the same files and crashes interleave at every write that   *)
(* reaches the disk.                                                        *)
(*                                                                          *)
(* A file is its content: digests are taken to be injective, so a digest    *)
(* comparison is an equality of contents.                                   *)
(*                                                                          *)
(* An operator whose name has an underscore is a slip that the code could   *)
(* have had in place of the definition that follows it.  None is reachable  *)
(* from Spec; they show which property stands between the code and the slip.*)
(***************************************************************************)
EXTENDS Naturals, FiniteSets

CONSTANTS
  Txn,              \* apply requests, each with a transaction of its own
  File,             \* target files; the order of a plan is the order of <
  Dir,              \* directories below the configuration root
  Content,          \* what a file can hold
  Absent,           \* the file does not exist
  Nobody,           \* nobody holds the journal lock
  Recovery,         \* the holder of the lock when a recovery runs
  RootDir,          \* the configuration root itself
  Original,         \* [File -> Content or Absent]: the configuration at first
  Scope,            \* [Txn -> SUBSET File]: the files a request may write
  Candidate,        \* [Txn -> [File -> Content]]: what it wants them to hold
  DirOf,            \* [File -> Dir]
  EditsRaceReplace, \* may an edit fall between a digest check and its write?
  Foreign,          \* bound on what an edit from outside leaves in a file
  MaxEdits,         \* bound on edits made from outside
  MaxCrashes        \* bound on crashes and on restorations that fail

ASSUME TransactionAssumption ==
  /\ File \subseteq Nat
  /\ Absent \notin Content
  /\ Nobody \notin Txn /\ Recovery \notin Txn /\ Nobody # Recovery
  /\ RootDir \in Dir
  /\ Original \in [File -> Content \cup {Absent}]
  /\ Scope \in [Txn -> SUBSET File]
  /\ Candidate \in [Txn -> [File -> Content]]
  /\ DirOf \in [File -> Dir]
  /\ EditsRaceReplace \in BOOLEAN
  /\ MaxEdits \in Nat /\ MaxCrashes \in Nat

VARIABLES
  disk,      \* what every file holds
  dirs,      \* the directories that exist
  staged,    \* [Txn -> SUBSET File]: staged candidates next to their targets
  backup,    \* [Txn -> [File -> ...]]: backups in the journal directory
  jstate,    \* manifest["state"] as last written, "none" without a manifest
  jstatus,   \* the status of every entry as last written
  jdirs,     \* manifest["createdDirectories"] as last written
  jtemp,     \* a .manifest.json.tmp survived a crash in _atomic_json
  changes,   \* the files of the plan
  previous,  \* their contents when the plan was made
  pc,        \* where every worker is
  todo,      \* the files its current loop has still to visit
  made,      \* the directories it has created
  lock,      \* who holds transaction.lock
  rtxn, rphase, rtodo, rmarked,  \* _restore_from_manifest, run under the lock
  verified,  \* history: the installed files passed the second evaluation
  touched,   \* history: the files somebody else wrote since the plan
  edits, crashes

plan == <<changes, previous>>
journal == <<jstate, jstatus, jdirs, jtemp>>
restore == <<rtxn, rphase, rtodo, rmarked>>
bounds == <<edits, crashes>>
vars == <<disk, dirs, staged, backup, journal, plan, pc, todo, made, lock,
          restore, verified, touched, bounds>>

-----------------------------------------------------------------------------
Final == {"committed", "rolled-back", "recovered"}
JournalStates ==
  Final \cup {"none", "preparing", "committing", "awaiting-verification",
              "rolling-back", "recovering", "recovery-required"}
EntryStatuses == {"planned", "prepared", "committed", "rolled-back"}
Phases == {"idle", "planned", "checked", "stage", "record", "check", "replace",
           "mark", "validate", "finalize", "seal", "rollback", "restoring",
           "done", "failed", "crashed"}
RestorePhases == {"idle", "inspect", "put", "save", "cleaned"}

Image == Content \cup {Absent}

TypeOK ==
  /\ disk \in [File -> Image]
  /\ dirs \in SUBSET Dir
  /\ staged \in [Txn -> SUBSET File]
  /\ backup \in [Txn -> [File -> Image]]
  /\ jstate \in [Txn -> JournalStates]
  /\ jstatus \in [Txn -> [File -> EntryStatuses]]
  /\ jdirs \in [Txn -> SUBSET Dir]
  /\ jtemp \in [Txn -> BOOLEAN]
  /\ changes \in [Txn -> SUBSET File]
  /\ previous \in [Txn -> [File -> Image]]
  /\ pc \in [Txn -> Phases]
  /\ todo \in [Txn -> SUBSET File]
  /\ made \in [Txn -> SUBSET Dir]
  /\ lock \in Txn \cup {Nobody, Recovery}
  /\ rtxn \in Txn \cup {Nobody}
  /\ rphase \in RestorePhases
  /\ rtodo \in SUBSET File
  /\ rmarked \in SUBSET File
  /\ verified \in [Txn -> BOOLEAN]
  /\ touched \in [Txn -> SUBSET File]
  /\ edits \in Nat
  /\ crashes \in Nat

Init ==
  /\ disk = Original
  /\ dirs = {RootDir} \cup {DirOf[f] : f \in {g \in File : Original[g] # Absent}}
  /\ staged = [t \in Txn |-> {}]
  /\ backup = [t \in Txn |-> [f \in File |-> Absent]]
  /\ jstate = [t \in Txn |-> "none"]
  /\ jstatus = [t \in Txn |-> [f \in File |-> "planned"]]
  /\ jdirs = [t \in Txn |-> {}]
  /\ jtemp = [t \in Txn |-> FALSE]
  /\ changes = [t \in Txn |-> {}]
  /\ previous = [t \in Txn |-> [f \in File |-> Absent]]
  /\ pc = [t \in Txn |-> "idle"]
  /\ todo = [t \in Txn |-> {}]
  /\ made = [t \in Txn |-> {}]
  /\ lock = Nobody
  /\ rtxn = Nobody /\ rphase = "idle" /\ rtodo = {} /\ rmarked = {}
  /\ verified = [t \in Txn |-> FALSE]
  /\ touched = [t \in Txn |-> {}]
  /\ edits = 0 /\ crashes = 0

-----------------------------------------------------------------------------
(* Helpers                                                                  *)

First(f, S) == f \in S /\ \A g \in S : f <= g
Last(f, S)  == f \in S /\ \A g \in S : g <= f

Goto(t, phase) == pc' = [pc EXCEPT ![t] = phase]

\* Everybody but t learns that f is no longer what t's plan left there.
Touch(t, f) ==
  touched' = [u \in Txn |-> IF u # t /\ pc[u] # "idle"
                            THEN touched[u] \cup {f} ELSE touched[u]]

\* The target holds what the plan saw (the test of _verify_change_precondition),
\* what the plan wants, or something that neither of them explains.
HoldsPrevious(t, f)  == disk[f] = previous[t][f]
HoldsCandidate(t, f) == ~HoldsPrevious(t, f) /\ disk[f] = Candidate[t][f]
HoldsForeign(t, f)   == ~HoldsPrevious(t, f) /\ ~HoldsCandidate(t, f)

\* The backup of a modified file reproduces what the plan saw.
BackupVerified(t, f) ==
  previous[t][f] = Absent \/ backup[t][f] = previous[t][f]

\* _verify_installed_candidates
InstalledCandidates(t) == \A f \in changes[t] : disk[f] = Candidate[t][f]

Pending(t) == jstate[t] \notin Final \cup {"none"}

\* A digest has been checked and the write that relies on it is still to come.
WindowOpen ==
  rphase = "put" \/ \E t \in Txn : pc[t] \in {"replace", "seal"}

-----------------------------------------------------------------------------
(* _apply_validated_changes                                                 *)

\* The plan records what the files hold now; the receipt and Polkit follow.
Plan(t) ==
  /\ pc[t] = "idle"
  /\ LET differing == {f \in Scope[t] : disk[f] # Candidate[t][f]}
     IN /\ differing # {}
        /\ changes' = [changes EXCEPT ![t] = differing]
  /\ previous' = [previous EXCEPT ![t] = disk]
  /\ Goto(t, "planned")
  /\ UNCHANGED <<disk, dirs, staged, backup, journal, todo, made, lock,
                 restore, verified, touched, bounds>>

\* Every precondition is verified once before the lock is taken.
Precheck(t) ==
  /\ pc[t] = "planned"
  /\ Goto(t, IF \A f \in changes[t] : HoldsPrevious(t, f)
             THEN "checked" ELSE "failed")
  /\ UNCHANGED <<disk, dirs, staged, backup, journal, plan, todo, made, lock,
                 restore, verified, touched, bounds>>

\* LOCK_EX | LOCK_NB: a held lock refuses the request instead of queueing it.
Refuse(t) ==
  /\ pc[t] = "checked"
  /\ lock # Nobody
  /\ Goto(t, "failed")
  /\ UNCHANGED <<disk, dirs, staged, backup, journal, plan, todo, made, lock,
                 restore, verified, touched, bounds>>

Start(t) ==
  /\ pc[t] = "checked"
  /\ lock = Nobody
  /\ lock' = t
  /\ jstate' = [jstate EXCEPT ![t] = "preparing"]
  /\ todo' = [todo EXCEPT ![t] = changes[t]]
  /\ Goto(t, "stage")
  /\ UNCHANGED <<disk, dirs, staged, backup, jstatus, jdirs, jtemp, plan, made,
                 restore, verified, touched, bounds>>

\* The error path: save "rolling-back" with everything the worker knows, the
\* directories it created included, and run _restore_from_manifest under the
\* lock it still holds.
Fail(t, created) ==
  /\ jstate' = [jstate EXCEPT ![t] = "rolling-back"]
  /\ jdirs' = [jdirs EXCEPT ![t] = created]
  /\ Goto(t, "restoring")
  /\ rtxn' = t /\ rphase' = "inspect" /\ rtodo' = changes[t] /\ rmarked' = {}

\* _create_parents
CreateParents(t, f) ==
  /\ dirs' = dirs \cup {DirOf[f]}
  /\ made' = [made EXCEPT ![t] = @ \cup ({DirOf[f]} \ dirs)]

\* shutil.copyfile(target, backup) of a file that the plan modifies.  It takes
\* its time: a copy that is cut short or written meanwhile may hold anything.
TakeBackup(t, f) ==
  IF previous[t][f] = Absent THEN UNCHANGED backup
  ELSE /\ disk[f] # Absent
       /\ \E copy \in Content : backup' = [backup EXCEPT ![t][f] = copy]

BackupExact_Assumed(t, f) == TRUE

BackupExact_OfTarget(t, f) ==
  previous[t][f] = Absent \/ disk[f] = previous[t][f]

\* The digest check of the copy.
BackupExact(t, f) ==
  previous[t][f] = Absent \/ backup'[t][f] = previous[t][f]

Stage(t, f) ==
  /\ pc[t] = "stage"
  /\ First(f, todo[t])
  /\ CreateParents(t, f)
  /\ TakeBackup(t, f)
  /\ BackupExact(t, f)
  /\ staged' = [staged EXCEPT ![t] = @ \cup {f}]
  /\ Goto(t, "record")
  /\ UNCHANGED <<disk, journal, plan, todo, lock, restore, verified, touched,
                 bounds>>

\* The copy is not what the plan saw, or the file has disappeared.
StageFails(t, f) ==
  /\ pc[t] = "stage"
  /\ First(f, todo[t])
  /\ CreateParents(t, f)
  /\ \/ TakeBackup(t, f) /\ ~BackupExact(t, f)
     \/ previous[t][f] # Absent /\ disk[f] = Absent /\ UNCHANGED backup
  /\ Fail(t, made[t] \cup ({DirOf[f]} \ dirs))
  /\ UNCHANGED <<disk, staged, jstatus, jtemp, plan, todo, lock, verified,
                 touched, bounds>>

Record_NoDirectories(t, f) ==
  /\ pc[t] = "record"
  /\ First(f, todo[t])
  /\ jstatus' = [jstatus EXCEPT ![t][f] = "prepared"]
  /\ todo' = [todo EXCEPT ![t] = @ \ {f}]
  /\ Goto(t, "stage")
  /\ UNCHANGED <<disk, dirs, staged, backup, jstate, jdirs, jtemp, plan, made,
                 lock, restore, verified, touched, bounds>>

\* The manifest learns of the staged entry and of the created directories.
Record(t, f) ==
  /\ pc[t] = "record"
  /\ First(f, todo[t])
  /\ jstatus' = [jstatus EXCEPT ![t][f] = "prepared"]
  /\ jdirs' = [jdirs EXCEPT ![t] = made[t]]
  /\ todo' = [todo EXCEPT ![t] = @ \ {f}]
  /\ Goto(t, "stage")
  /\ UNCHANGED <<disk, dirs, staged, backup, jstate, jtemp, plan, made, lock,
                 restore, verified, touched, bounds>>

BeginCommit(t) ==
  /\ pc[t] = "stage"
  /\ todo[t] = {}
  /\ jstate' = [jstate EXCEPT ![t] = "committing"]
  /\ todo' = [todo EXCEPT ![t] = changes[t]]
  /\ Goto(t, "check")
  /\ UNCHANGED <<disk, dirs, staged, backup, jstatus, jdirs, jtemp, plan, made,
                 lock, restore, verified, touched, bounds>>

Recheck_Skipped(t, f) == TRUE

\* The second verification, immediately before the replacement.
Recheck(t, f) == HoldsPrevious(t, f)

Check(t, f) ==
  /\ pc[t] = "check"
  /\ First(f, todo[t])
  /\ \/ /\ Recheck(t, f)
        /\ Goto(t, "replace")
        /\ UNCHANGED <<jstate, jdirs, restore>>
     \/ /\ ~Recheck(t, f)
        /\ Fail(t, made[t])
  /\ UNCHANGED <<disk, dirs, staged, backup, jstatus, jtemp, plan, todo, made,
                 lock, verified, touched, bounds>>

\* os.replace(staged, target)
Replace(t, f) ==
  /\ pc[t] = "replace"
  /\ First(f, todo[t])
  /\ disk' = [disk EXCEPT ![f] = Candidate[t][f]]
  /\ staged' = [staged EXCEPT ![t] = @ \ {f}]
  /\ Touch(t, f)
  /\ Goto(t, "mark")
  /\ UNCHANGED <<dirs, backup, journal, plan, todo, made, lock, restore,
                 verified, bounds>>

Mark_UnknownStatus(t, f) ==
  /\ pc[t] = "mark"
  /\ First(f, todo[t])
  /\ jstatus' = [jstatus EXCEPT ![t][f] = "installed"]
  /\ todo' = [todo EXCEPT ![t] = @ \ {f}]
  /\ Goto(t, "check")
  /\ UNCHANGED <<disk, dirs, staged, backup, jstate, jdirs, jtemp, plan, made,
                 lock, restore, verified, touched, bounds>>

Mark(t, f) ==
  /\ pc[t] = "mark"
  /\ First(f, todo[t])
  /\ jstatus' = [jstatus EXCEPT ![t][f] = "committed"]
  /\ todo' = [todo EXCEPT ![t] = @ \ {f}]
  /\ Goto(t, "check")
  /\ UNCHANGED <<disk, dirs, staged, backup, jstate, jdirs, jtemp, plan, made,
                 lock, restore, verified, touched, bounds>>

\* An error after a replacement (fault_after_commits injects one).
Fault(t) ==
  /\ pc[t] = "check"
  /\ \E f \in changes[t] : jstatus[t][f] = "committed"
  /\ Fail(t, made[t])
  /\ UNCHANGED <<disk, dirs, staged, backup, jstatus, jtemp, plan, todo, made,
                 lock, verified, touched, bounds>>

Publish_KeepsLock(t) ==
  /\ pc[t] = "check"
  /\ todo[t] = {}
  /\ jstate' = [jstate EXCEPT ![t] = "awaiting-verification"]
  /\ Goto(t, "validate")
  /\ UNCHANGED <<disk, dirs, staged, backup, jstatus, jdirs, jtemp, plan, todo,
                 made, lock, restore, verified, touched, bounds>>

\* The provisional commit; the lock is released while Nix evaluates.
Publish(t) ==
  /\ pc[t] = "check"
  /\ todo[t] = {}
  /\ jstate' = [jstate EXCEPT ![t] = "awaiting-verification"]
  /\ lock' = Nobody
  /\ Goto(t, "validate")
  /\ UNCHANGED <<disk, dirs, staged, backup, jstatus, jdirs, jtemp, plan, todo,
                 made, restore, verified, touched, bounds>>

-----------------------------------------------------------------------------
(* The workflow after the provisional commit                                *)

\* The evaluation passes only if the files still produce no change; it may
\* also fail, or raise, for reasons of its own.
Validate(t) ==
  /\ pc[t] = "validate"
  /\ \/ /\ InstalledCandidates(t)
        /\ verified' = [verified EXCEPT ![t] = TRUE]
        /\ Goto(t, "finalize")
     \/ /\ Goto(t, "rollback")
        /\ UNCHANGED verified
  /\ UNCHANGED <<disk, dirs, staged, backup, journal, plan, todo, made, lock,
                 restore, touched, bounds>>

MayFinalize_NoDigests(t) ==
  /\ lock = Nobody
  /\ jstate[t] = "awaiting-verification"

\* What _finalize_validated_transaction demands of the journal and the files.
MayFinalize(t) ==
  /\ lock = Nobody
  /\ jstate[t] = "awaiting-verification"
  /\ InstalledCandidates(t)

Finalize_Unlocked(t) ==
  /\ pc[t] = "finalize"
  /\ Goto(t, IF MayFinalize(t) THEN "seal" ELSE "rollback")
  /\ UNCHANGED <<disk, dirs, staged, backup, journal, plan, todo, made, lock,
                 restore, verified, touched, bounds>>

\* Any refusal is an exception, which the workflow answers with a rollback.
Finalize(t) ==
  /\ pc[t] = "finalize"
  /\ \/ /\ MayFinalize(t)
        /\ lock' = t
        /\ Goto(t, "seal")
     \/ /\ ~MayFinalize(t)
        /\ Goto(t, "rollback")
        /\ UNCHANGED lock
  /\ UNCHANGED <<disk, dirs, staged, backup, journal, plan, todo, made, restore,
                 verified, touched, bounds>>

Seal(t) ==
  /\ pc[t] = "seal"
  /\ jstate' = [jstate EXCEPT ![t] = "committed"]
  /\ lock' = Nobody
  /\ Goto(t, "done")
  /\ UNCHANGED <<disk, dirs, staged, backup, jstatus, jdirs, jtemp, plan, todo,
                 made, restore, verified, touched, bounds>>

MayRollBack_AnyState(t) == lock = Nobody

\* _rollback_transaction refuses a busy lock and a finished journal.
MayRollBack(t) == lock = Nobody /\ jstate[t] \notin Final

RollBack(t) ==
  /\ pc[t] = "rollback"
  /\ MayRollBack(t)
  /\ ~jtemp[t]
  /\ lock' = t
  /\ jstate' = [jstate EXCEPT ![t] = "rolling-back"]
  /\ Goto(t, "restoring")
  /\ rtxn' = t /\ rphase' = "inspect" /\ rtodo' = changes[t] /\ rmarked' = {}
  /\ UNCHANGED <<disk, dirs, staged, backup, jstatus, jdirs, jtemp, plan, todo,
                 made, verified, touched, bounds>>

RollBackFails_Waits(t) ==
  /\ pc[t] = "rollback"
  /\ MayRollBack(t)
  /\ jtemp[t]
  /\ jtemp' = [jtemp EXCEPT ![t] = FALSE]
  /\ Goto(t, "failed")
  /\ UNCHANGED <<disk, dirs, staged, backup, jstate, jstatus, jdirs, plan, todo,
                 made, lock, restore, verified, touched, bounds>>

\* A refused rollback raises.  A leftover temporary makes the first save fail
\* with FileExistsError, and its finally clause removes it.
RollBackFails(t) ==
  /\ pc[t] = "rollback"
  /\ \/ /\ ~MayRollBack(t)
        /\ UNCHANGED jtemp
     \/ /\ MayRollBack(t)
        /\ jtemp[t]
        /\ jtemp' = [jtemp EXCEPT ![t] = FALSE]
  /\ Goto(t, "failed")
  /\ UNCHANGED <<disk, dirs, staged, backup, jstate, jstatus, jdirs, plan, todo,
                 made, lock, restore, verified, touched, bounds>>

-----------------------------------------------------------------------------
(* _restore_from_manifest, in reverse order, by the holder of the lock       *)

\* A foreign file that the journal says was replaced, or a bad backup, stops it.
Refuses(t, f) ==
  \/ HoldsForeign(t, f) /\ jstatus[t][f] = "committed"
  \/ HoldsCandidate(t, f) /\ ~BackupVerified(t, f)

Skips_Unrecorded(t, f) ==
  HoldsPrevious(t, f) \/ jstatus[t][f] # "committed"

Skips(t, f) ==
  \/ HoldsPrevious(t, f)
  \/ HoldsForeign(t, f) /\ jstatus[t][f] # "committed"

\* Entries marked in memory reach the manifest with its next save.
SaveMarks(t, marked) ==
  jstatus' = [jstatus EXCEPT ![t] =
                [f \in File |-> IF f \in marked THEN "rolled-back" ELSE @[f]]]

\* The restoring process stops: it is a worker, or a recovery with no worker.
EndRestore(t) ==
  /\ lock' = Nobody
  /\ rtxn' = Nobody /\ rphase' = "idle" /\ rtodo' = {} /\ rmarked' = {}
  /\ pc' = IF lock = t THEN [pc EXCEPT ![t] = "failed"] ELSE pc

RestoreSkip(t, f) ==
  /\ rtxn = t /\ rphase = "inspect" /\ Last(f, rtodo)
  /\ Skips(t, f)
  /\ rtodo' = rtodo \ {f}
  /\ rmarked' = IF HoldsPrevious(t, f) THEN rmarked \cup {f} ELSE rmarked
  /\ UNCHANGED <<disk, dirs, staged, backup, journal, plan, pc, todo, made,
                 lock, rtxn, rphase, verified, touched, bounds>>

RestoreRefuse(t, f) ==
  /\ rtxn = t /\ rphase = "inspect" /\ Last(f, rtodo)
  /\ Refuses(t, f)
  /\ jstate' = [jstate EXCEPT ![t] = "recovery-required"]
  /\ SaveMarks(t, rmarked)
  /\ EndRestore(t)
  /\ UNCHANGED <<disk, dirs, staged, backup, jdirs, jtemp, plan, todo, made,
                 verified, touched, bounds>>

RestoreInspect(t, f) ==
  /\ rtxn = t /\ rphase = "inspect" /\ Last(f, rtodo)
  /\ ~Skips(t, f) /\ ~Refuses(t, f)
  /\ rphase' = "put"
  /\ UNCHANGED <<disk, dirs, staged, backup, journal, plan, pc, todo, made,
                 lock, rtxn, rtodo, rmarked, verified, touched, bounds>>

\* os.replace(restore, target) of a modified file, target.unlink() of a new one.
RestorePut(t, f) ==
  /\ rtxn = t /\ rphase = "put" /\ Last(f, rtodo)
  /\ disk' = [disk EXCEPT ![f] = IF previous[t][f] = Absent
                                 THEN Absent ELSE backup[t][f]]
  /\ Touch(t, f)
  /\ rphase' = "save"
  /\ UNCHANGED <<dirs, staged, backup, journal, plan, pc, todo, made, lock,
                 rtxn, rtodo, rmarked, verified, bounds>>

RestoreSave(t, f) ==
  /\ rtxn = t /\ rphase = "save" /\ Last(f, rtodo)
  /\ SaveMarks(t, rmarked \cup {f})
  /\ rmarked' = rmarked \cup {f}
  /\ rtodo' = rtodo \ {f}
  /\ rphase' = "inspect"
  /\ UNCHANGED <<disk, dirs, staged, backup, jstate, jdirs, jtemp, plan, pc,
                 todo, made, lock, rtxn, verified, touched, bounds>>

\* rmdir fails silently on a directory that still holds something.
Occupied(t, d) ==
  \E f \in File : /\ DirOf[f] = d
                  /\ disk[f] # Absent \/ \E u \in Txn \ {t} : f \in staged[u]

RestoreCleanup_OnlyRecorded(t) ==
  /\ rtxn = t /\ rphase = "inspect" /\ rtodo = {}
  /\ staged' = [staged EXCEPT ![t] = {f \in @ : jstatus[t][f] = "planned"}]
  /\ dirs' = {d \in dirs : d \notin jdirs[t] \/ Occupied(t, d)}
  /\ rphase' = "cleaned"
  /\ UNCHANGED <<disk, backup, journal, plan, pc, todo, made, lock, rtxn, rtodo,
                 rmarked, verified, touched, bounds>>

\* _cleanup_stages_and_directories
RestoreCleanup(t) ==
  /\ rtxn = t /\ rphase = "inspect" /\ rtodo = {}
  /\ staged' = [staged EXCEPT ![t] = {}]
  /\ dirs' = {d \in dirs : d \notin jdirs[t] \/ Occupied(t, d)}
  /\ rphase' = "cleaned"
  /\ UNCHANGED <<disk, backup, journal, plan, pc, todo, made, lock, rtxn, rtodo,
                 rmarked, verified, touched, bounds>>

RestoreFinish(t) ==
  /\ rtxn = t /\ rphase = "cleaned"
  /\ jstate' = [jstate EXCEPT ![t] =
                  IF lock = Recovery THEN "recovered" ELSE "rolled-back"]
  /\ SaveMarks(t, rmarked)
  /\ EndRestore(t)
  /\ UNCHANGED <<disk, dirs, staged, backup, jdirs, jtemp, plan, todo, made,
                 verified, touched, bounds>>

\* An input or output error ends the restoration: a file cannot be read or
\* replaced, a directory cannot be synchronised, a stage cannot be removed or
\* the journal cannot be saved.  recovery-required is the last word, if that
\* can still be saved.  (What _rollback_transaction and a recovery save after
\* the cleanup is outside of their try block.)
RestoreFails(t) ==
  /\ rtxn = t
  /\ crashes < MaxCrashes
  /\ crashes' = crashes + 1
  /\ \/ /\ rphase # "cleaned" \/ lock # Recovery
        /\ jstate' = [jstate EXCEPT ![t] = "recovery-required"]
        /\ \E marked \in {rmarked, rmarked \cup {f \in rtodo : Last(f, rtodo)}} :
             /\ marked # rmarked => rphase = "save"
             /\ SaveMarks(t, marked)
     \/ UNCHANGED <<jstate, jstatus>>
  /\ EndRestore(t)
  /\ UNCHANGED <<disk, dirs, staged, backup, jdirs, jtemp, plan, todo, made,
                 verified, touched, edits>>

RestoreStep(t) ==
  \/ \E f \in File : \/ RestoreSkip(t, f) \/ RestoreRefuse(t, f)
                     \/ RestoreInspect(t, f) \/ RestorePut(t, f)
                     \/ RestoreSave(t, f)
  \/ RestoreCleanup(t)
  \/ RestoreFinish(t)

-----------------------------------------------------------------------------
(* _recover_pending_transactions, for one journal named by the request       *)

MayRecover(t) == lock = Nobody /\ Pending(t)

Recover(t) ==
  /\ MayRecover(t)
  /\ ~jtemp[t]
  /\ lock' = Recovery
  /\ jstate' = [jstate EXCEPT ![t] = "recovering"]
  /\ rtxn' = t /\ rphase' = "inspect" /\ rtodo' = changes[t] /\ rmarked' = {}
  /\ UNCHANGED <<disk, dirs, staged, backup, jstatus, jdirs, jtemp, plan, pc,
                 todo, made, verified, touched, bounds>>

\* The leftover temporary defeats this attempt and is gone for the next one.
RecoverFails(t) ==
  /\ MayRecover(t)
  /\ jtemp[t]
  /\ jtemp' = [jtemp EXCEPT ![t] = FALSE]
  /\ UNCHANGED <<disk, dirs, staged, backup, jstate, jstatus, jdirs, plan, pc,
                 todo, made, lock, restore, verified, touched, bounds>>

-----------------------------------------------------------------------------
(* Crashes and edits from outside                                           *)

Running == {"stage", "record", "check", "replace", "mark", "validate",
            "finalize", "seal", "rollback", "restoring"}

\* The next write of t's journal may be cut between creation and rename.
CutSave(t, saving) ==
  \/ UNCHANGED jtemp
  \/ saving /\ jtemp' = [jtemp EXCEPT ![t] = TRUE]

\* A worker dies; the operating system releases its lock.  A worker whose error
\* path cannot save "rolling-back" leaves the same behind.
Crash(t) ==
  /\ pc[t] \in Running
  /\ crashes < MaxCrashes
  /\ crashes' = crashes + 1
  /\ Goto(t, "crashed")
  /\ \/ /\ lock = t
        /\ lock' = Nobody
        /\ rtxn' = Nobody /\ rphase' = "idle" /\ rtodo' = {} /\ rmarked' = {}
        /\ CutSave(t, pc[t] # "replace" /\ rphase # "put")
     \/ /\ lock # t
        /\ UNCHANGED <<lock, restore, jtemp>>
  /\ UNCHANGED <<disk, dirs, staged, backup, jstate, jstatus, jdirs, plan, todo,
                 made, verified, touched, edits>>

CrashRecovery ==
  /\ lock = Recovery
  /\ crashes < MaxCrashes
  /\ crashes' = crashes + 1
  /\ lock' = Nobody
  /\ rtxn' = Nobody /\ rphase' = "idle" /\ rtodo' = {} /\ rmarked' = {}
  /\ CutSave(rtxn, rphase # "put")
  /\ UNCHANGED <<disk, dirs, staged, backup, jstate, jstatus, jdirs, plan, pc,
                 todo, made, verified, touched, edits>>

\* An editor, or another tool, gives a file another content or removes it.
Edit(f, c) ==
  /\ edits < MaxEdits /\ c \in Foreign
  /\ EditsRaceReplace \/ ~WindowOpen
  /\ disk[f] # c
  /\ disk' = [disk EXCEPT ![f] = c]
  /\ dirs' = IF c = Absent THEN dirs ELSE dirs \cup {DirOf[f]}
  /\ touched' = [u \in Txn |-> IF pc[u] # "idle" THEN touched[u] \cup {f}
                               ELSE touched[u]]
  /\ edits' = edits + 1
  /\ UNCHANGED <<staged, backup, journal, plan, pc, todo, made, lock, restore,
                 verified, crashes>>

-----------------------------------------------------------------------------
WorkerStep(t) ==
  \/ Precheck(t) \/ Refuse(t) \/ Start(t)
  \/ \E f \in File : \/ Stage(t, f) \/ StageFails(t, f) \/ Record(t, f)
                     \/ Check(t, f) \/ Replace(t, f) \/ Mark(t, f)
  \/ BeginCommit(t) \/ Fault(t) \/ Publish(t)
  \/ Validate(t) \/ Finalize(t) \/ Seal(t)
  \/ RollBack(t) \/ RollBackFails(t)

Next ==
  \/ \E t \in Txn : \/ Plan(t) \/ WorkerStep(t)
                    \/ RestoreStep(t) \/ RestoreFails(t)
                    \/ Recover(t) \/ RecoverFails(t) \/ Crash(t)
  \/ CrashRecovery
  \/ \E f \in File, c \in Image : Edit(f, c)

Spec == Init /\ [][Next]_vars

\* A process that has not crashed keeps running; nobody is obliged to plan,
\* to ask for a recovery, to crash, to fail or to edit.
FairSpec ==
  /\ Spec
  /\ \A t \in Txn : WF_vars(WorkerStep(t)) /\ WF_vars(RestoreStep(t))

-----------------------------------------------------------------------------
(* Properties                                                               *)

\* A recorded backup reproduces the file of the plan, so no crash can leave a
\* replaced file whose original is lost: copyfile and the digest check of
\* _apply_validated_changes come before the entry is "prepared".
BackupsReproducePlan ==
  \A t \in Txn : \A f \in changes[t] :
    jstatus[t][f] \in {"prepared", "committed"} => BackupVerified(t, f)

\* At every instant, crashes included, a file of an unfinished transaction that
\* nobody else wrote holds its old content, or its new one next to a backup.
UntouchedStaysRecoverable ==
  \A t \in Txn : Pending(t) =>
    \A f \in changes[t] \ touched[t] :
      HoldsPrevious(t, f) \/ (HoldsCandidate(t, f) /\ BackupVerified(t, f))

\* A journal that says rolled-back or recovered tells the truth about every file
\* that nobody else wrote, whichever crash or retry led there.
UndoneMeansRestored ==
  \A t \in Txn : jstate[t] \in {"rolled-back", "recovered"} =>
    \A f \in changes[t] \ touched[t] : HoldsPrevious(t, f)

\* A journal says committed only after the second evaluation, and the files it
\* names keep the evaluated content until somebody else writes them.
CommittedMeansInstalled ==
  \A t \in Txn : jstate[t] = "committed" =>
    verified[t] /\ \A f \in changes[t] \ touched[t] : disk[f] = Candidate[t][f]

\* No staged file outlives its transaction: stagedPath is in the manifest before
\* the file exists.
NoStrayStages ==
  \A t \in Txn : jstate[t] \in Final => staged[t] = {}

\* A restoration refuses only a file that somebody else wrote: whatever crashed
\* or failed before, it has the backups that it needs and recognises its own
\* work.
RefusesOnlyOthers ==
  \A t \in Txn : \A f \in File :
    rtxn = t /\ f \in rtodo /\ Refuses(t, f) => f \in touched[t]

\* The directories made for t that still exist are the others' as well.
Shared(t, d) ==
  \/ \E f \in touched[t] : DirOf[f] = d
  \/ \E u \in Txn \ {t} : \E f \in changes[u] : DirOf[f] = d

OnlySharedRemain(t) == \A d \in made[t] \cap dirs : Shared(t, d)

\* A directory made by a worker that did not crash is gone with its rollback,
\* unless somebody else put a file there.
NoStrayDirectories ==
  \A t \in Txn :
    jstate[t] \in {"rolled-back", "recovered"} /\ pc[t] # "crashed" =>
      OnlySharedRemain(t)

WritesWhatWasSeen ==
  \A f \in File : disk'[f] # disk[f] /\ edits' = edits =>
    \E t \in Txn : \/ lock = t /\ rtxn = Nobody /\ HoldsPrevious(t, f)
                   \/ rtxn = t /\ HoldsCandidate(t, f)

SealSeesCandidates ==
  \A t \in Txn : jstate[t] # "committed" /\ jstate'[t] = "committed" =>
    InstalledCandidates(t)

FinalStays == \A t \in Txn : jstate[t] \in Final => jstate'[t] = jstate[t]

\* The engine overwrites a file only while it holds the content the plan saw,
\* and restores it only while it holds the candidate: "A concurrent edit aborts
\* the whole operation" (docs/apply-protocol.md).
NoLostEdit == [][WritesWhatWasSeen]_vars

\* The step that writes "committed" finds every candidate installed.
CommitSeesCandidates == [][SealSeesCandidates]_vars

\* committed, rolled-back and recovered are never left, although a recovery may
\* finish a journal while its worker is still evaluating.
FinalIsFinal == [][FinalStays]_vars

\* The journal lock is always released again, by its holder or by its death.
LockReleased == lock # Nobody ~> lock = Nobody

\* A worker that obtained the lock ends, whoever interferes in the meantime.
WorkerStops ==
  \A t \in Txn : pc[t] = "stage" ~> pc[t] \in {"done", "failed", "crashed"}

\* "the next launch restores it before any new operation"
\* (docs/apply-protocol.md): no transaction starts over a journal that a crash
\* left awaiting verification.
RestoredBeforeNewOperation ==
  [][\A t, u \in Txn :
       /\ jstate[t] = "none" /\ jstate'[t] # "none"
       /\ u # t /\ pc[u] = "crashed"
       => jstate[u] # "awaiting-verification"]_vars

-----------------------------------------------------------------------------
(* The promise that the engine implements                                    *)

OutcomeOf(t) ==
  CASE jstate[t] = "none" -> "none"
    [] jstate[t] = "committed" -> "committed"
    [] jstate[t] \in {"rolled-back", "recovered"} -> "undone"
    [] OTHER -> "open"

ViewOf(t, f) ==
  IF f \in touched[t] THEN "theirs"
  ELSE IF f \in changes[t] /\ ~HoldsPrevious(t, f) THEN "new"
  ELSE "old"

Atomic == INSTANCE AtomicApply WITH
  scope <- changes,
  outcome <- [t \in Txn |-> OutcomeOf(t)],
  view <- [t \in Txn |-> [f \in File |-> ViewOf(t, f)]]

\* Whatever crashes, recoveries, edits and other requests come between, every
\* transaction is all or nothing, and only an open one writes.
ImplementsAtomicApply == Atomic!Spec

-----------------------------------------------------------------------------
(* The inductive invariant behind the safety properties                      *)

Unstarted == {"idle", "planned", "checked"}
Critical == {"stage", "record", "check", "replace", "mark", "seal", "restoring"}

\* The journal lock excludes: a worker is in a critical phase exactly while it
\* holds transaction.lock, and a restoration belongs to the holder.
LockExcludes ==
  /\ \A t \in Txn : lock = t <=> pc[t] \in Critical
  /\ \A t \in Txn : pc[t] = "restoring" => rtxn = t
  /\ rtxn = Nobody <=> rphase = "idle"
  /\ lock = Recovery => rtxn # Nobody
  /\ rtxn # Nobody => lock = Recovery \/ (lock = rtxn /\ pc[rtxn] = "restoring")

\* The state on disk is the one its worker, or the restorer, last wrote.
JournalFollows ==
  /\ \A t \in Txn :
       /\ pc[t] \in Unstarted => jstate[t] = "none"
       /\ jstate[t] = "none" => pc[t] \in Unstarted \cup {"failed"}
       /\ pc[t] \in {"stage", "record"} => jstate[t] = "preparing"
       /\ pc[t] \in {"check", "replace", "mark"} => jstate[t] = "committing"
       /\ pc[t] = "seal" => jstate[t] = "awaiting-verification"
       /\ pc[t] \in {"finalize", "seal"} => verified[t]
  /\ rtxn # Nobody => jstate[rtxn] \in {"rolling-back", "recovering"}

\* Entries are prepared one by one, and all of them before the first replacement.
EntriesPrepared ==
  \A t \in Txn :
    /\ pc[t] \in Unstarted => \A f \in File : jstatus[t][f] = "planned"
    /\ pc[t] \in {"stage", "record"} =>
         /\ \A f \in todo[t] : jstatus[t][f] = "planned"
         /\ \A f \in changes[t] \ todo[t] : jstatus[t][f] = "prepared"
    /\ pc[t] = "record" =>
         \A f \in todo[t] : First(f, todo[t]) => BackupVerified(t, f)
    /\ pc[t] \in {"check", "replace", "mark"} =>
         \A f \in changes[t] : jstatus[t][f] \in {"prepared", "committed"}

\* Before the first replacement an untouched file is what the plan saw; while
\* the journal is sealed it is the candidate.
FilesFollow ==
  \A t \in Txn : \A f \in changes[t] \ touched[t] :
    /\ pc[t] \in {"planned", "checked", "stage", "record"} => HoldsPrevious(t, f)
    /\ pc[t] = "seal" => disk[f] = Candidate[t][f]

\* A staged file waits for its replacement.
StagesFollow ==
  \A t \in Txn :
    /\ pc[t] \in Unstarted => staged[t] = {}
    /\ pc[t] \in {"stage", "record"} => staged[t] \cup todo[t] \subseteq changes[t]
    /\ pc[t] \in {"check", "replace", "mark"} => staged[t] \subseteq todo[t]
    /\ pc[t] \in {"check", "replace", "mark"} => todo[t] \subseteq changes[t]
    /\ pc[t] = "mark" =>
         \A f \in todo[t] : First(f, todo[t]) => f \notin staged[t]
    /\ jstate[t] = "awaiting-verification" => staged[t] = {}

\* What the restoration has left behind is restored, and what it is about to
\* write comes from a verified backup.
RestoreFollows ==
  rtxn # Nobody =>
    /\ rtodo \subseteq changes[rtxn]
    /\ \A f \in changes[rtxn] \ touched[rtxn] :
         f \notin rtodo \/ (rphase = "save" /\ Last(f, rtodo))
           => HoldsPrevious(rtxn, f)
    /\ rphase = "put" => \A f \in rtodo : Last(f, rtodo) => BackupVerified(rtxn, f)
    /\ rphase = "cleaned" => rtodo = {} /\ staged[rtxn] = {}

\* Unless edits race, the content that was checked is still there.
ChecksHold ==
  ~EditsRaceReplace =>
    /\ \A t \in Txn : pc[t] = "replace" =>
         \A f \in todo[t] : First(f, todo[t]) => HoldsPrevious(t, f)
    /\ \A t \in Txn : pc[t] = "seal" =>
         \A f \in changes[t] : disk[f] = Candidate[t][f]
    /\ rphase = "put" =>
         \A f \in rtodo : Last(f, rtodo) => HoldsCandidate(rtxn, f)

Inductive ==
  /\ LockExcludes
  /\ JournalFollows
  /\ EntriesPrepared
  /\ FilesFollow
  /\ StagesFollow
  /\ RestoreFollows
  /\ ChecksHold
  /\ BackupsReproducePlan
  /\ UntouchedStaysRecoverable
  /\ UndoneMeansRestored
  /\ CommittedMeansInstalled
  /\ NoStrayStages

-----------------------------------------------------------------------------
(* The inductive invariant behind NoStrayDirectories                         *)

\* What a request has staged is there until it replaces the target.
StagesWait ==
  \A t \in Txn :
    /\ pc[t] \in {"stage", "record"} => changes[t] \ todo[t] \subseteq staged[t]
    /\ pc[t] \in {"check", "replace"} => todo[t] \subseteq staged[t]
    /\ pc[t] = "record" => \A f \in todo[t] : First(f, todo[t]) => f \in staged[t]
    /\ pc[t] = "mark" => \A f \in todo[t] : First(f, todo[t]) \/ f \in staged[t]

\* A file, a staged file and a file that is about to be put back have a
\* directory: nobody removes one that holds something of somebody else.
DirectoriesHold ==
  /\ \A f \in File : disk[f] # Absent => DirOf[f] \in dirs
  /\ \A t \in Txn : \A f \in staged[t] : f \in changes[t] /\ DirOf[f] \in dirs
  /\ rphase = "put" => \A f \in rtodo : Last(f, rtodo) => DirOf[f] \in dirs

\* What a request has made is in its journal, unless it crashed before Record;
\* the request made it because nothing was there when it was planned.
MadeFollow ==
  \A t \in Txn :
    /\ pc[t] = "idle" => changes[t] = {}
    /\ pc[t] \in Unstarted => made[t] = {}
    /\ pc[t] \notin {"record", "crashed"} => made[t] \subseteq jdirs[t]
    /\ \A f \in File : DirOf[f] \in made[t] =>
         /\ disk[f] # Absent => f \in touched[t] \cup changes[t]
         /\ f \in changes[t] \ touched[t] => previous[t][f] = Absent

\* A restoration that has cleaned up has only the journal to write.
CleanedFollow ==
  rphase = "cleaned" /\ pc[rtxn] # "crashed" => OnlySharedRemain(rtxn)

DirectoriesFollow ==
  StagesWait /\ DirectoriesHold /\ MadeFollow /\ CleanedFollow /\ NoStrayDirectories
=============================================================================
