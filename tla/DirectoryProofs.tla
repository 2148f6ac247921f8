-------------------------- MODULE DirectoryProofs --------------------------
(***************************************************************************)
(* Proofs about the directories that Transaction makes and removes, for     *)
(* every set of requests, files and directories and every bound on edits    *)
(* and crashes.                                                             *)
(*                                                                          *)
(* That no directory is left over (NoStrayDirectories) is decided when the  *)
(* restoration cleans up, and has to survive until the journal is written   *)
(* and after it (CleanedFollow).  At the cleanup a directory stays if it is *)
(* occupied.  A file in it that nobody else wrote would be one of the plan, *)
(* restored to what it was when the directory did not exist (MadeFollow),   *)
(* and no file exists without its directory (DirectoriesHold, StagesWait).  *)
(***************************************************************************)
EXTENDS TransactionProofs

-----------------------------------------------------------------------------
(* What the conjuncts of the invariant need to survive a step.              *)

\* Between Stage and Replace only a restoration of the same transaction removes a
\* staged file, and it has the lock that the loop needs.
LEMMA StagesWaitStep ==
  ASSUME TypeOK, LockExcludes, StagesWait, [Next]_vars
  PROVE  StagesWait'
  <1> USE DEF TypeOK, Goto, plan, journal, restore, bounds
  <1>1. ASSUME NEW t \in Txn, Plan(t) PROVE StagesWait'
    BY <1>1 DEF Plan, StagesWait, First, Unstarted, Critical
  <1>2. ASSUME NEW t \in Txn, Precheck(t) PROVE StagesWait'
    BY <1>2 DEF Precheck, StagesWait, First, Unstarted, Critical
  <1>3. ASSUME NEW t \in Txn, Refuse(t) PROVE StagesWait'
    BY <1>3 DEF Refuse, StagesWait, First, Unstarted, Critical
  <1>4. ASSUME NEW t \in Txn, Start(t) PROVE StagesWait'
    BY <1>4 DEF Start, StagesWait, First, Unstarted, Critical
  <1>5. ASSUME NEW t \in Txn, BeginCommit(t) PROVE StagesWait'
    BY <1>5 DEF BeginCommit, StagesWait, First, Unstarted, Critical
  <1>6. ASSUME NEW t \in Txn, Fault(t) PROVE StagesWait'
    BY <1>6 DEF Fault, Fail, StagesWait, First, Unstarted, Critical
  <1>7. ASSUME NEW t \in Txn, Publish(t) PROVE StagesWait'
    BY <1>7 DEF Publish, StagesWait, First, Unstarted, Critical
  <1>8. ASSUME NEW t \in Txn, Validate(t) PROVE StagesWait'
    BY <1>8 DEF Validate, StagesWait, First, Unstarted, Critical
  <1>9. ASSUME NEW t \in Txn, Finalize(t) PROVE StagesWait'
    BY <1>9 DEF Finalize, MayFinalize, StagesWait, First, Unstarted, Critical
  <1>10. ASSUME NEW t \in Txn, Seal(t) PROVE StagesWait'
    BY <1>10 DEF Seal, StagesWait, First, Unstarted, Critical
  <1>11. ASSUME NEW t \in Txn, RollBack(t) PROVE StagesWait'
    BY <1>11 DEF RollBack, MayRollBack, StagesWait, First, Unstarted, Critical
  <1>12. ASSUME NEW t \in Txn, RollBackFails(t) PROVE StagesWait'
    BY <1>12 DEF RollBackFails, MayRollBack, StagesWait, First, Unstarted,
         Critical
  <1>13. ASSUME NEW t \in Txn, RestoreCleanup(t) PROVE StagesWait'
    <2>1. pc[t] \notin {"stage", "record", "check", "replace", "mark"}
      BY <1>13, TransactionAssumption DEF RestoreCleanup, LockExcludes, Critical
    <2>2. /\ UNCHANGED <<pc, changes, todo>>
          /\ \A u \in Txn \ {t} : staged'[u] = staged[u]
      BY <1>13 DEF RestoreCleanup
    <2>3. QED
      BY <2>1, <2>2 DEF StagesWait, First
  <1>14. ASSUME NEW t \in Txn, RestoreFinish(t) PROVE StagesWait'
    BY <1>14 DEF RestoreFinish, SaveMarks, EndRestore, StagesWait, First,
         Unstarted, Critical
  <1>15. ASSUME NEW t \in Txn, Recover(t) PROVE StagesWait'
    BY <1>15 DEF Recover, MayRecover, Pending, StagesWait, First, Unstarted,
         Critical
  <1>16. ASSUME NEW t \in Txn, RecoverFails(t) PROVE StagesWait'
    BY <1>16 DEF RecoverFails, MayRecover, Pending, StagesWait, First,
         Unstarted, Critical
  <1>17. ASSUME NEW t \in Txn, Crash(t) PROVE StagesWait'
    BY <1>17 DEF Crash, CutSave, Running, StagesWait, First, Unstarted, Critical
  <1>18. ASSUME NEW t \in Txn, NEW f \in File, Stage(t, f) PROVE StagesWait'
    <2>1. /\ pc[t] = "stage" /\ pc' = [pc EXCEPT ![t] = "record"]
          /\ First(f, todo[t])
          /\ staged' = [staged EXCEPT ![t] = @ \cup {f}]
          /\ UNCHANGED <<changes, todo>>
      BY <1>18 DEF Stage
    <2>2. \A g \in todo[t] : First(g, todo[t]) => g = f
      BY <2>1, FirstIsUnique
    <2>3. QED
      BY <2>1, <2>2 DEF StagesWait
  <1>19. ASSUME NEW t \in Txn, NEW f \in File, StageFails(t, f)
        PROVE  StagesWait'
    <2>1. /\ \A u \in Txn : pc'[u] = pc[u] \/ pc'[u] = "restoring"
          /\ changes' = changes /\ todo' = todo /\ staged' = staged
      BY <1>19 DEF StageFails, Fail
    <2>2. QED
      BY <2>1 DEF StagesWait, First
  <1>20. ASSUME NEW t \in Txn, NEW f \in File, Record(t, f) PROVE StagesWait'
    BY <1>20 DEF Record, StagesWait, First, Unstarted, Critical
  <1>21. ASSUME NEW t \in Txn, NEW f \in File, Check(t, f) PROVE StagesWait'
    <2>1. /\ \A u \in Txn :
               \/ pc'[u] = pc[u] \/ pc'[u] = "restoring"
               \/ pc[u] = "check" /\ pc'[u] = "replace"
          /\ UNCHANGED <<changes, todo, staged>>
      BY <1>21 DEF Check, Fail
    <2>2. QED
      BY <2>1 DEF StagesWait, First
  <1>22. ASSUME NEW t \in Txn, NEW f \in File, Replace(t, f) PROVE StagesWait'
    BY <1>22 DEF Replace, Touch, StagesWait, First, Unstarted, Critical
  <1>23. ASSUME NEW t \in Txn, NEW f \in File, Mark(t, f) PROVE StagesWait'
    <2>1. /\ pc[t] = "mark" /\ pc' = [pc EXCEPT ![t] = "check"]
          /\ First(f, todo[t])
          /\ todo' = [todo EXCEPT ![t] = @ \ {f}]
          /\ UNCHANGED <<changes, staged>>
      BY <1>23 DEF Mark
    <2>2. \A g \in todo[t] : First(g, todo[t]) => g = f
      BY <2>1, FirstIsUnique
    <2>3. todo[t] \ {f} \subseteq staged[t]
      BY <2>1, <2>2 DEF StagesWait
    <2>4. QED
      BY <2>1, <2>3 DEF StagesWait
  <1>24. ASSUME NEW t \in Txn, NEW f \in File, RestoreSkip(t, f)
        PROVE  StagesWait'
    BY <1>24 DEF RestoreSkip, Skips, StagesWait, First, Unstarted, Critical
  <1>25. ASSUME NEW t \in Txn, NEW f \in File, RestoreRefuse(t, f)
        PROVE  StagesWait'
    BY <1>25 DEF RestoreRefuse, SaveMarks, EndRestore, Refuses, StagesWait,
         First, Unstarted, Critical
  <1>26. ASSUME NEW t \in Txn, RestoreFails(t)
        PROVE  StagesWait'
    <2>1. RestoreStops(t)
      BY <1>26, RestoreFailsEffect
    <2>2. QED
      BY <2>1 DEF RestoreStops, EndRestore, StagesWait, First, Unstarted,
         Critical
  <1>27. ASSUME NEW t \in Txn, NEW f \in File, RestoreInspect(t, f)
        PROVE  StagesWait'
    BY <1>27 DEF RestoreInspect, StagesWait, First, Unstarted, Critical
  <1>28. ASSUME NEW t \in Txn, NEW f \in File, RestorePut(t, f)
        PROVE  StagesWait'
    BY <1>28 DEF RestorePut, Touch, StagesWait, First, Unstarted, Critical
  <1>29. ASSUME NEW t \in Txn, NEW f \in File, RestoreSave(t, f)
        PROVE  StagesWait'
    BY <1>29 DEF RestoreSave, SaveMarks, StagesWait, First, Unstarted, Critical
  <1>30. ASSUME CrashRecovery PROVE StagesWait'
    BY <1>30 DEF CrashRecovery, CutSave, StagesWait, First, Unstarted, Critical
  <1>31. ASSUME NEW f \in File, NEW c \in Image, Edit(f, c) PROVE StagesWait'
    BY <1>31 DEF Edit, StagesWait, First, Unstarted, Critical
  <1>32. CASE UNCHANGED vars
    BY <1>32 DEF vars, StagesWait, First, Unstarted, Critical
  <1>33. QED
    BY <1>1, <1>2, <1>3, <1>4, <1>5, <1>6, <1>7, <1>8, <1>9, <1>10, <1>11,
       <1>12, <1>13, <1>14, <1>15, <1>16, <1>17, <1>18, <1>19, <1>20, <1>21,
       <1>22, <1>23, <1>24, <1>25, <1>26, <1>27, <1>28, <1>29, <1>30, <1>31,
       <1>32
    DEF Next, WorkerStep, RestoreStep

\* A directory is removed only when nothing is in it, and a file is put only where
\* one was, or was staged.
LEMMA DirectoriesHoldStep ==
  ASSUME TypeOK, LockExcludes, StagesFollow, StagesWait, DirectoriesHold,
         [Next]_vars
  PROVE  DirectoriesHold'
  <1> USE DEF TypeOK, Goto, plan, journal, restore, bounds
  <1>1. ASSUME NEW t \in Txn, Plan(t) PROVE DirectoriesHold'
    <2>1. staged[t] = {}
      BY <1>1 DEF Plan, StagesFollow, Unstarted
    <2>2. QED
      BY <1>1, <2>1 DEF Plan, DirectoriesHold
  <1>2. ASSUME NEW t \in Txn, Precheck(t) PROVE DirectoriesHold'
    BY <1>2 DEF Precheck, DirectoriesHold
  <1>3. ASSUME NEW t \in Txn, Refuse(t) PROVE DirectoriesHold'
    BY <1>3 DEF Refuse, DirectoriesHold
  <1>4. ASSUME NEW t \in Txn, Start(t) PROVE DirectoriesHold'
    BY <1>4 DEF Start, DirectoriesHold
  <1>5. ASSUME NEW t \in Txn, BeginCommit(t) PROVE DirectoriesHold'
    BY <1>5 DEF BeginCommit, DirectoriesHold
  <1>6. ASSUME NEW t \in Txn, Fault(t) PROVE DirectoriesHold'
    BY <1>6 DEF Fault, Fail, DirectoriesHold
  <1>7. ASSUME NEW t \in Txn, Publish(t) PROVE DirectoriesHold'
    BY <1>7 DEF Publish, DirectoriesHold
  <1>8. ASSUME NEW t \in Txn, Validate(t) PROVE DirectoriesHold'
    BY <1>8 DEF Validate, DirectoriesHold
  <1>9. ASSUME NEW t \in Txn, Finalize(t) PROVE DirectoriesHold'
    BY <1>9 DEF Finalize, MayFinalize, DirectoriesHold
  <1>10. ASSUME NEW t \in Txn, Seal(t) PROVE DirectoriesHold'
    BY <1>10 DEF Seal, DirectoriesHold
  <1>11. ASSUME NEW t \in Txn, RollBack(t) PROVE DirectoriesHold'
    BY <1>11 DEF RollBack, MayRollBack, DirectoriesHold
  <1>12. ASSUME NEW t \in Txn, RollBackFails(t) PROVE DirectoriesHold'
    BY <1>12 DEF RollBackFails, MayRollBack, DirectoriesHold
  <1>13. ASSUME NEW t \in Txn, RestoreCleanup(t) PROVE DirectoriesHold'
    <2>1. /\ rphase' = "cleaned" /\ UNCHANGED <<disk, changes>>
          /\ staged' = [staged EXCEPT ![t] = {}]
          /\ \A d \in dirs : Occupied(t, d) => d \in dirs'
      BY <1>13 DEF RestoreCleanup
    <2>2. \A f \in File : disk[f] # Absent => Occupied(t, DirOf[f])
      BY DEF Occupied
    <2>3. \A u \in Txn \ {t} : \A f \in staged[u] : Occupied(t, DirOf[f])
      BY DEF Occupied
    <2>4. QED
      BY <2>1, <2>2, <2>3 DEF DirectoriesHold
  <1>14. ASSUME NEW t \in Txn, RestoreFinish(t) PROVE DirectoriesHold'
    BY <1>14 DEF RestoreFinish, SaveMarks, EndRestore, DirectoriesHold
  <1>15. ASSUME NEW t \in Txn, Recover(t) PROVE DirectoriesHold'
    BY <1>15 DEF Recover, MayRecover, Pending, DirectoriesHold
  <1>16. ASSUME NEW t \in Txn, RecoverFails(t) PROVE DirectoriesHold'
    BY <1>16 DEF RecoverFails, MayRecover, Pending, DirectoriesHold
  <1>17. ASSUME NEW t \in Txn, Crash(t) PROVE DirectoriesHold'
    BY <1>17 DEF Crash, CutSave, Running, DirectoriesHold
  <1>18. ASSUME NEW t \in Txn, NEW f \in File, Stage(t, f)
        PROVE  DirectoriesHold'
    <2>1. f \in changes[t]
      BY <1>18 DEF Stage, First, StagesFollow
    <2>2. /\ staged' = [staged EXCEPT ![t] = @ \cup {f}]
          /\ dirs' = dirs \cup {DirOf[f]}
          /\ UNCHANGED <<disk, changes, rphase, rtodo>>
      BY <1>18 DEF Stage, CreateParents
    <2>3. QED
      BY <2>1, <2>2 DEF DirectoriesHold
  <1>19. ASSUME NEW t \in Txn, NEW f \in File, StageFails(t, f)
        PROVE  DirectoriesHold'
    <2>1. /\ rphase' = "inspect" /\ dirs' = dirs \cup {DirOf[f]}
          /\ UNCHANGED <<disk, staged, changes>>
      BY <1>19 DEF StageFails, CreateParents, Fail
    <2>2. QED
      BY <2>1 DEF DirectoriesHold
  <1>20. ASSUME NEW t \in Txn, NEW f \in File, Record(t, f)
        PROVE  DirectoriesHold'
    BY <1>20 DEF Record, DirectoriesHold
  <1>21. ASSUME NEW t \in Txn, NEW f \in File, Check(t, f)
        PROVE  DirectoriesHold'
    BY <1>21 DEF Check, Recheck, Fail, DirectoriesHold
  <1>22. ASSUME NEW t \in Txn, NEW f \in File, Replace(t, f)
        PROVE  DirectoriesHold'
    <2>1. f \in staged[t]
      BY <1>22 DEF Replace, First, StagesWait
    <2>2. /\ disk' = [disk EXCEPT ![f] = Candidate[t][f]]
          /\ staged' = [staged EXCEPT ![t] = @ \ {f}]
          /\ UNCHANGED <<dirs, changes, rphase, rtodo>>
      BY <1>22 DEF Replace
    <2>3. QED
      BY <2>1, <2>2 DEF DirectoriesHold
  <1>23. ASSUME NEW t \in Txn, NEW f \in File, Mark(t, f) PROVE DirectoriesHold'
    BY <1>23 DEF Mark, DirectoriesHold
  <1>24. ASSUME NEW t \in Txn, NEW f \in File, RestoreSkip(t, f)
        PROVE  DirectoriesHold'
    BY <1>24 DEF RestoreSkip, Skips, DirectoriesHold
  <1>25. ASSUME NEW t \in Txn, NEW f \in File, RestoreRefuse(t, f)
        PROVE  DirectoriesHold'
    BY <1>25 DEF RestoreRefuse, SaveMarks, EndRestore, Refuses, DirectoriesHold
  <1>26. ASSUME NEW t \in Txn, RestoreFails(t)
        PROVE  DirectoriesHold'
    <2>1. RestoreStops(t)
      BY <1>26, RestoreFailsEffect
    <2>2. QED
      BY <2>1 DEF RestoreStops, EndRestore, DirectoriesHold
  <1>27. ASSUME NEW t \in Txn, NEW f \in File, RestoreInspect(t, f)
        PROVE  DirectoriesHold'
    <2>1. HoldsCandidate(t, f)
      BY <1>27 DEF RestoreInspect, Skips, Refuses, HoldsForeign
    <2>2. disk[f] # Absent
      BY <2>1, TransactionAssumption DEF HoldsCandidate
    <2>3. /\ Last(f, rtodo)
          /\ UNCHANGED <<disk, dirs, staged, changes, rtodo>>
      BY <1>27 DEF RestoreInspect
    <2>4. \A g \in rtodo : Last(g, rtodo) => g = f
      BY <2>3, LastIsUnique
    <2>5. QED
      BY <2>2, <2>3, <2>4 DEF DirectoriesHold
  <1>28. ASSUME NEW t \in Txn, NEW f \in File, RestorePut(t, f)
        PROVE  DirectoriesHold'
    <2>1. /\ rphase = "put" /\ Last(f, rtodo) /\ rphase' = "save"
          /\ \A g \in File \ {f} : disk'[g] = disk[g]
          /\ UNCHANGED <<dirs, staged, changes>>
      BY <1>28 DEF RestorePut
    <2>2. DirOf[f] \in dirs
      BY <2>1 DEF Last, DirectoriesHold
    <2>3. QED
      BY <2>1, <2>2 DEF DirectoriesHold
  <1>29. ASSUME NEW t \in Txn, NEW f \in File, RestoreSave(t, f)
        PROVE  DirectoriesHold'
    BY <1>29 DEF RestoreSave, SaveMarks, DirectoriesHold
  <1>30. ASSUME CrashRecovery PROVE DirectoriesHold'
    BY <1>30 DEF CrashRecovery, CutSave, DirectoriesHold
  <1>31. ASSUME NEW f \in File, NEW c \in Image, Edit(f, c)
        PROVE  DirectoriesHold'
    BY <1>31 DEF Edit, DirectoriesHold
  <1>32. CASE UNCHANGED vars
    BY <1>32 DEF vars, DirectoriesHold
  <1>33. QED
    BY <1>1, <1>2, <1>3, <1>4, <1>5, <1>6, <1>7, <1>8, <1>9, <1>10, <1>11,
       <1>12, <1>13, <1>14, <1>15, <1>16, <1>17, <1>18, <1>19, <1>20, <1>21,
       <1>22, <1>23, <1>24, <1>25, <1>26, <1>27, <1>28, <1>29, <1>30, <1>31,
       <1>32
    DEF Next, WorkerStep, RestoreStep

\* Stage makes a directory where nothing is, and Record, or the error path, writes
\* it into the journal before anything else can end the request.
LEMMA MadeFollowStep ==
  ASSUME TypeOK, LockExcludes, FilesFollow, StagesFollow, RestoreFollows,
         DirectoriesHold, MadeFollow, [Next]_vars
  PROVE  MadeFollow'
  <1> USE DEF TypeOK, Goto, plan, journal, restore, bounds
  <1>1. ASSUME NEW t \in Txn, Plan(t) PROVE MadeFollow'
    BY <1>1 DEF Plan, MadeFollow, Unstarted
  <1>2. ASSUME NEW t \in Txn, Precheck(t) PROVE MadeFollow'
    BY <1>2 DEF Precheck, MadeFollow, Unstarted
  <1>3. ASSUME NEW t \in Txn, Refuse(t) PROVE MadeFollow'
    BY <1>3 DEF Refuse, MadeFollow, Unstarted
  <1>4. ASSUME NEW t \in Txn, Start(t) PROVE MadeFollow'
    BY <1>4 DEF Start, MadeFollow, Unstarted
  <1>5. ASSUME NEW t \in Txn, BeginCommit(t) PROVE MadeFollow'
    BY <1>5 DEF BeginCommit, MadeFollow, Unstarted
  <1>6. ASSUME NEW t \in Txn, Fault(t) PROVE MadeFollow'
    BY <1>6 DEF Fault, Fail, MadeFollow, Unstarted
  <1>7. ASSUME NEW t \in Txn, Publish(t) PROVE MadeFollow'
    BY <1>7 DEF Publish, MadeFollow, Unstarted
  <1>8. ASSUME NEW t \in Txn, Validate(t) PROVE MadeFollow'
    BY <1>8 DEF Validate, MadeFollow, Unstarted
  <1>9. ASSUME NEW t \in Txn, Finalize(t) PROVE MadeFollow'
    BY <1>9 DEF Finalize, MayFinalize, MadeFollow, Unstarted
  <1>10. ASSUME NEW t \in Txn, Seal(t) PROVE MadeFollow'
    BY <1>10 DEF Seal, MadeFollow, Unstarted
  <1>11. ASSUME NEW t \in Txn, RollBack(t) PROVE MadeFollow'
    BY <1>11 DEF RollBack, MayRollBack, MadeFollow, Unstarted
  <1>12. ASSUME NEW t \in Txn, RollBackFails(t) PROVE MadeFollow'
    BY <1>12 DEF RollBackFails, MayRollBack, MadeFollow, Unstarted
  <1>13. ASSUME NEW t \in Txn, RestoreCleanup(t) PROVE MadeFollow'
    BY <1>13 DEF RestoreCleanup, MadeFollow, Unstarted
  <1>14. ASSUME NEW t \in Txn, RestoreFinish(t) PROVE MadeFollow'
    <2>1. /\ UNCHANGED <<made, dirs, disk, touched, changes, previous, jdirs>>
          /\ pc' = IF lock = t THEN [pc EXCEPT ![t] = "failed"] ELSE pc
          /\ rtxn = t
      BY <1>14 DEF RestoreFinish, EndRestore
    <2>2. lock = t => pc[t] = "restoring"
      BY <2>1, TransactionAssumption DEF LockExcludes
    <2>3. QED
      BY <2>1, <2>2 DEF MadeFollow, Unstarted
  <1>15. ASSUME NEW t \in Txn, Recover(t) PROVE MadeFollow'
    BY <1>15 DEF Recover, MayRecover, Pending, MadeFollow, Unstarted
  <1>16. ASSUME NEW t \in Txn, RecoverFails(t) PROVE MadeFollow'
    BY <1>16 DEF RecoverFails, MayRecover, Pending, MadeFollow, Unstarted
  <1>17. ASSUME NEW t \in Txn, Crash(t) PROVE MadeFollow'
    BY <1>17 DEF Crash, CutSave, Running, MadeFollow, Unstarted
  <1>18. ASSUME NEW t \in Txn, NEW f \in File, Stage(t, f) PROVE MadeFollow'
    <2>1. /\ pc[t] = "stage" /\ pc' = [pc EXCEPT ![t] = "record"]
          /\ made' = [made EXCEPT ![t] = @ \cup ({DirOf[f]} \ dirs)]
          /\ UNCHANGED <<disk, touched, changes, previous, jdirs>>
      BY <1>18 DEF Stage, CreateParents
    <2>2. \A g \in File : DirOf[g] \notin dirs => disk[g] = Absent
      BY DEF DirectoriesHold
    <2>3. \A g \in changes[t] \ touched[t] :
            DirOf[g] \notin dirs => previous[t][g] = Absent
      BY <2>1, <2>2 DEF FilesFollow, HoldsPrevious
    <2>4. QED
      BY <2>1, <2>2, <2>3 DEF MadeFollow, Unstarted
  <1>19. ASSUME NEW t \in Txn, NEW f \in File, StageFails(t, f)
        PROVE  MadeFollow'
    <2>1. /\ pc[t] = "stage" /\ pc' = [pc EXCEPT ![t] = "restoring"]
          /\ made' = [made EXCEPT ![t] = @ \cup ({DirOf[f]} \ dirs)]
          /\ jdirs' = [jdirs EXCEPT ![t] = made[t] \cup ({DirOf[f]} \ dirs)]
          /\ UNCHANGED <<disk, touched, changes, previous>>
      BY <1>19 DEF StageFails, CreateParents, Fail
    <2>2. \A g \in File : DirOf[g] \notin dirs => disk[g] = Absent
      BY DEF DirectoriesHold
    <2>3. \A g \in changes[t] \ touched[t] :
            DirOf[g] \notin dirs => previous[t][g] = Absent
      BY <2>1, <2>2 DEF FilesFollow, HoldsPrevious
    <2>4. QED
      BY <2>1, <2>2, <2>3 DEF MadeFollow, Unstarted
  <1>20. ASSUME NEW t \in Txn, NEW f \in File, Record(t, f) PROVE MadeFollow'
    BY <1>20 DEF Record, MadeFollow, Unstarted
  <1>21. ASSUME NEW t \in Txn, NEW f \in File, Check(t, f) PROVE MadeFollow'
    <2>1. /\ UNCHANGED <<made, dirs, disk, touched, changes, previous>>
          /\ pc[t] = "check"
      BY <1>21 DEF Check
    <2>2. CASE Recheck(t, f)
      <3>1. UNCHANGED jdirs /\ pc' = [pc EXCEPT ![t] = "replace"]
        BY <1>21, <2>2 DEF Check
      <3>2. QED
        BY <2>1, <3>1 DEF MadeFollow, Unstarted
    <2>3. CASE ~Recheck(t, f)
      <3>1. /\ jdirs' = [jdirs EXCEPT ![t] = made[t]]
            /\ pc' = [pc EXCEPT ![t] = "restoring"]
        BY <1>21, <2>3 DEF Check, Fail
      <3>2. QED
        BY <2>1, <3>1 DEF MadeFollow, Unstarted
    <2>4. QED
      BY <2>2, <2>3
  <1>22. ASSUME NEW t \in Txn, NEW f \in File, Replace(t, f) PROVE MadeFollow'
    <2>1. f \in changes[t]
      BY <1>22, TransactionAssumption DEF Replace, First, StagesFollow
    <2>2. /\ \A g \in File \ {f} : disk'[g] = disk[g]
          /\ \A u \in Txn : touched[u] \subseteq touched'[u]
          /\ \A u \in Txn \ {t} : pc[u] # "idle" => f \in touched'[u]
          /\ UNCHANGED <<made, dirs, changes, previous, jdirs>>
      BY <1>22 DEF Replace, Touch
    <2>3. \A u \in Txn :
            pc'[u] = pc[u] \/ (pc[u] = "replace" /\ pc'[u] = "mark")
      BY <1>22 DEF Replace
    <2>4. ASSUME NEW u \in Txn, NEW g \in File, DirOf[g] \in made[u],
                 disk'[g] # Absent
          PROVE  g \in touched'[u] \cup changes[u]
      <3>1. CASE g = f
        BY <2>1, <2>2, <2>4, <3>1 DEF MadeFollow, Unstarted
      <3>2. CASE g # f
        BY <2>2, <2>4, <3>2 DEF MadeFollow
      <3>3. QED
        BY <3>1, <3>2
    <2>5. \A u \in Txn : \A g \in File :
            DirOf[g] \in made[u] /\ g \in changes[u] \ touched'[u]
              => previous[u][g] = Absent
      BY <2>2 DEF MadeFollow
    <2>6. QED
      BY <2>2, <2>3, <2>4, <2>5 DEF MadeFollow, Unstarted
  <1>23. ASSUME NEW t \in Txn, NEW f \in File, Mark(t, f) PROVE MadeFollow'
    BY <1>23 DEF Mark, MadeFollow, Unstarted
  <1>24. ASSUME NEW t \in Txn, NEW f \in File, RestoreSkip(t, f)
        PROVE  MadeFollow'
    BY <1>24 DEF RestoreSkip, Skips, MadeFollow, Unstarted
  <1>25. ASSUME NEW t \in Txn, NEW f \in File, RestoreRefuse(t, f)
        PROVE  MadeFollow'
    <2>1. /\ UNCHANGED <<made, dirs, disk, touched, changes, previous, jdirs>>
          /\ pc' = IF lock = t THEN [pc EXCEPT ![t] = "failed"] ELSE pc
          /\ rtxn = t
      BY <1>25 DEF RestoreRefuse, EndRestore
    <2>2. lock = t => pc[t] = "restoring"
      BY <2>1, TransactionAssumption DEF LockExcludes
    <2>3. QED
      BY <2>1, <2>2 DEF MadeFollow, Unstarted
  <1>26. ASSUME NEW t \in Txn, RestoreFails(t)
        PROVE  MadeFollow'
    <2>1. /\ UNCHANGED <<made, dirs, disk, touched, changes, previous, jdirs>>
          /\ pc' = IF lock = t THEN [pc EXCEPT ![t] = "failed"] ELSE pc
          /\ rtxn = t
      BY <1>26, RestoreFailsEffect DEF RestoreStops, EndRestore
    <2>2. lock = t => pc[t] = "restoring"
      BY <2>1, TransactionAssumption DEF LockExcludes
    <2>3. QED
      BY <2>1, <2>2 DEF MadeFollow, Unstarted
  <1>27. ASSUME NEW t \in Txn, NEW f \in File, RestoreInspect(t, f)
        PROVE  MadeFollow'
    BY <1>27 DEF RestoreInspect, MadeFollow, Unstarted
  <1>28. ASSUME NEW t \in Txn, NEW f \in File, RestorePut(t, f)
        PROVE  MadeFollow'
    <2>1. f \in changes[t]
      BY <1>28, TransactionAssumption DEF RestorePut, Last, RestoreFollows
    <2>2. /\ \A g \in File \ {f} : disk'[g] = disk[g]
          /\ \A u \in Txn : touched[u] \subseteq touched'[u]
          /\ \A u \in Txn \ {t} : pc[u] # "idle" => f \in touched'[u]
          /\ UNCHANGED <<made, dirs, changes, previous, jdirs>>
      BY <1>28 DEF RestorePut, Touch
    <2>3. \A u \in Txn :
            pc'[u] = pc[u] \/ (pc[u] = "replace" /\ pc'[u] = "mark")
      BY <1>28 DEF RestorePut
    <2>4. ASSUME NEW u \in Txn, NEW g \in File, DirOf[g] \in made[u],
                 disk'[g] # Absent
          PROVE  g \in touched'[u] \cup changes[u]
      <3>1. CASE g = f
        BY <2>1, <2>2, <2>4, <3>1 DEF MadeFollow, Unstarted
      <3>2. CASE g # f
        BY <2>2, <2>4, <3>2 DEF MadeFollow
      <3>3. QED
        BY <3>1, <3>2
    <2>5. \A u \in Txn : \A g \in File :
            DirOf[g] \in made[u] /\ g \in changes[u] \ touched'[u]
              => previous[u][g] = Absent
      BY <2>2 DEF MadeFollow
    <2>6. QED
      BY <2>2, <2>3, <2>4, <2>5 DEF MadeFollow, Unstarted
  <1>29. ASSUME NEW t \in Txn, NEW f \in File, RestoreSave(t, f)
        PROVE  MadeFollow'
    BY <1>29 DEF RestoreSave, SaveMarks, MadeFollow, Unstarted
  <1>30. ASSUME CrashRecovery PROVE MadeFollow'
    BY <1>30 DEF CrashRecovery, CutSave, MadeFollow, Unstarted
  <1>31. ASSUME NEW f \in File, NEW c \in Image, Edit(f, c) PROVE MadeFollow'
    BY <1>31 DEF Edit, MadeFollow, Unstarted
  <1>32. CASE UNCHANGED vars
    BY <1>32 DEF vars, MadeFollow, Unstarted
  <1>33. QED
    BY <1>1, <1>2, <1>3, <1>4, <1>5, <1>6, <1>7, <1>8, <1>9, <1>10, <1>11,
       <1>12, <1>13, <1>14, <1>15, <1>16, <1>17, <1>18, <1>19, <1>20, <1>21,
       <1>22, <1>23, <1>24, <1>25, <1>26, <1>27, <1>28, <1>29, <1>30, <1>31,
       <1>32
    DEF Next, WorkerStep, RestoreStep

-----------------------------------------------------------------------------
(* What survives the cleanup.                                               *)

\* Nobody takes back what somebody has planned or touched, and a directory that
\* is made anew is one for the file of somebody else.
SharedGrows ==
  /\ \A t \in Txn : touched[t] \subseteq touched'[t] /\ changes[t] \subseteq changes'[t]
  /\ \A t \in Txn : pc[t] # "stage" => made'[t] = made[t]
  /\ \A t \in Txn : pc[t] \notin {"idle", "stage"} =>
       \A d \in dirs' \ dirs : Shared(t, d)'

\* A restoration ends after its cleanup, and only then.
EndsAfterCleanup ==
  /\ \A t \in Txn : pc[t] = "crashed" => pc'[t] = "crashed"
  /\ rphase' = "cleaned" =>
       \/ rphase = "cleaned" /\ rtxn' = rtxn
       \/ rtxn \in Txn /\ RestoreCleanup(rtxn)
  /\ \A t \in Txn : jstate'[t] \in {"rolled-back", "recovered"} =>
       \/ jstate'[t] = jstate[t]
       \/ rphase = "cleaned" /\ rtxn = t

\* Directories appear in Stage, for a file of the plan, and with an edit.
LEMMA SharedGrowsStep ==
  ASSUME TypeOK, StagesFollow, MadeFollow, [Next]_vars
  PROVE  SharedGrows
  <1> USE DEF TypeOK, Goto, plan, journal, restore, bounds
  <1>1. ASSUME NEW t \in Txn, Plan(t) PROVE SharedGrows
    <2>1. changes[t] = {}
      BY <1>1 DEF Plan, MadeFollow
    <2>2. QED
      BY <1>1, <2>1 DEF Plan, SharedGrows
  <1>2. ASSUME NEW t \in Txn, Precheck(t) PROVE SharedGrows
    BY <1>2 DEF Precheck, SharedGrows
  <1>3. ASSUME NEW t \in Txn, Refuse(t) PROVE SharedGrows
    BY <1>3 DEF Refuse, SharedGrows
  <1>4. ASSUME NEW t \in Txn, Start(t) PROVE SharedGrows
    BY <1>4 DEF Start, SharedGrows
  <1>5. ASSUME NEW t \in Txn, BeginCommit(t) PROVE SharedGrows
    BY <1>5 DEF BeginCommit, SharedGrows
  <1>6. ASSUME NEW t \in Txn, Fault(t) PROVE SharedGrows
    BY <1>6 DEF Fault, Fail, SharedGrows
  <1>7. ASSUME NEW t \in Txn, Publish(t) PROVE SharedGrows
    BY <1>7 DEF Publish, SharedGrows
  <1>8. ASSUME NEW t \in Txn, Validate(t) PROVE SharedGrows
    BY <1>8 DEF Validate, SharedGrows
  <1>9. ASSUME NEW t \in Txn, Finalize(t) PROVE SharedGrows
    BY <1>9 DEF Finalize, MayFinalize, SharedGrows
  <1>10. ASSUME NEW t \in Txn, Seal(t) PROVE SharedGrows
    BY <1>10 DEF Seal, SharedGrows
  <1>11. ASSUME NEW t \in Txn, RollBack(t) PROVE SharedGrows
    BY <1>11 DEF RollBack, MayRollBack, SharedGrows
  <1>12. ASSUME NEW t \in Txn, RollBackFails(t) PROVE SharedGrows
    BY <1>12 DEF RollBackFails, MayRollBack, SharedGrows
  <1>13. ASSUME NEW t \in Txn, RestoreCleanup(t) PROVE SharedGrows
    BY <1>13 DEF RestoreCleanup, SharedGrows
  <1>14. ASSUME NEW t \in Txn, RestoreFinish(t) PROVE SharedGrows
    BY <1>14 DEF RestoreFinish, SaveMarks, EndRestore, SharedGrows
  <1>15. ASSUME NEW t \in Txn, Recover(t) PROVE SharedGrows
    BY <1>15 DEF Recover, MayRecover, Pending, SharedGrows
  <1>16. ASSUME NEW t \in Txn, RecoverFails(t) PROVE SharedGrows
    BY <1>16 DEF RecoverFails, MayRecover, Pending, SharedGrows
  <1>17. ASSUME NEW t \in Txn, Crash(t) PROVE SharedGrows
    BY <1>17 DEF Crash, CutSave, Running, SharedGrows
  <1>18. ASSUME NEW t \in Txn, NEW f \in File, Stage(t, f) PROVE SharedGrows
    <2>1. /\ pc[t] = "stage" /\ f \in changes[t]
          /\ dirs' = dirs \cup {DirOf[f]} /\ UNCHANGED <<changes, touched>>
          /\ \A u \in Txn \ {t} : made'[u] = made[u]
      BY <1>18 DEF Stage, CreateParents, First, StagesFollow
    <2>2. \A u \in Txn \ {t} : Shared(u, DirOf[f])'
      BY <2>1 DEF Shared
    <2>3. QED
      BY <2>1, <2>2 DEF SharedGrows
  <1>19. ASSUME NEW t \in Txn, NEW f \in File, StageFails(t, f)
        PROVE  SharedGrows
    <2>1. /\ pc[t] = "stage" /\ f \in changes[t]
          /\ dirs' = dirs \cup {DirOf[f]} /\ UNCHANGED <<changes, touched>>
          /\ \A u \in Txn \ {t} : made'[u] = made[u]
      BY <1>19 DEF StageFails, CreateParents, Fail, First, StagesFollow
    <2>2. \A u \in Txn \ {t} : Shared(u, DirOf[f])'
      BY <2>1 DEF Shared
    <2>3. QED
      BY <2>1, <2>2 DEF SharedGrows
  <1>20. ASSUME NEW t \in Txn, NEW f \in File, Record(t, f) PROVE SharedGrows
    BY <1>20 DEF Record, SharedGrows
  <1>21. ASSUME NEW t \in Txn, NEW f \in File, Check(t, f) PROVE SharedGrows
    BY <1>21 DEF Check, Recheck, Fail, SharedGrows
  <1>22. ASSUME NEW t \in Txn, NEW f \in File, Replace(t, f) PROVE SharedGrows
    BY <1>22 DEF Replace, Touch, SharedGrows
  <1>23. ASSUME NEW t \in Txn, NEW f \in File, Mark(t, f) PROVE SharedGrows
    BY <1>23 DEF Mark, SharedGrows
  <1>24. ASSUME NEW t \in Txn, NEW f \in File, RestoreSkip(t, f)
        PROVE  SharedGrows
    BY <1>24 DEF RestoreSkip, Skips, SharedGrows
  <1>25. ASSUME NEW t \in Txn, NEW f \in File, RestoreRefuse(t, f)
        PROVE  SharedGrows
    BY <1>25 DEF RestoreRefuse, SaveMarks, EndRestore, Refuses, SharedGrows
  <1>26. ASSUME NEW t \in Txn, RestoreFails(t)
        PROVE  SharedGrows
    <2>1. RestoreStops(t)
      BY <1>26, RestoreFailsEffect
    <2>2. QED
      BY <2>1 DEF RestoreStops, EndRestore, SharedGrows
  <1>27. ASSUME NEW t \in Txn, NEW f \in File, RestoreInspect(t, f)
        PROVE  SharedGrows
    BY <1>27 DEF RestoreInspect, SharedGrows
  <1>28. ASSUME NEW t \in Txn, NEW f \in File, RestorePut(t, f)
        PROVE  SharedGrows
    BY <1>28 DEF RestorePut, Touch, SharedGrows
  <1>29. ASSUME NEW t \in Txn, NEW f \in File, RestoreSave(t, f)
        PROVE  SharedGrows
    BY <1>29 DEF RestoreSave, SaveMarks, SharedGrows
  <1>30. ASSUME CrashRecovery PROVE SharedGrows
    BY <1>30 DEF CrashRecovery, CutSave, SharedGrows
  <1>31. ASSUME NEW f \in File, NEW c \in Image, Edit(f, c) PROVE SharedGrows
    <2>1. /\ dirs' \subseteq dirs \cup {DirOf[f]} /\ UNCHANGED <<changes, made>>
          /\ \A u \in Txn : touched[u] \subseteq touched'[u]
          /\ \A u \in Txn : pc[u] # "idle" => f \in touched'[u]
      BY <1>31 DEF Edit
    <2>2. \A u \in Txn : pc[u] # "idle" => Shared(u, DirOf[f])'
      BY <2>1 DEF Shared
    <2>3. QED
      BY <2>1, <2>2 DEF SharedGrows
  <1>32. CASE UNCHANGED vars
    BY <1>32 DEF vars, SharedGrows
  <1>33. QED
    BY <1>1, <1>2, <1>3, <1>4, <1>5, <1>6, <1>7, <1>8, <1>9, <1>10, <1>11,
       <1>12, <1>13, <1>14, <1>15, <1>16, <1>17, <1>18, <1>19, <1>20, <1>21,
       <1>22, <1>23, <1>24, <1>25, <1>26, <1>27, <1>28, <1>29, <1>30, <1>31,
       <1>32
    DEF Next, WorkerStep, RestoreStep

\* Only RestoreFinish writes rolled-back or recovered, and only RestoreCleanup
\* leads to it.
LEMMA EndsAfterCleanupStep ==
  ASSUME TypeOK, LockExcludes, [Next]_vars
  PROVE  EndsAfterCleanup
  <1> USE DEF TypeOK, Goto, plan, journal, restore, bounds
  <1>1. ASSUME NEW t \in Txn, Plan(t) PROVE EndsAfterCleanup
    BY <1>1 DEF Plan, EndsAfterCleanup
  <1>2. ASSUME NEW t \in Txn, Precheck(t) PROVE EndsAfterCleanup
    BY <1>2 DEF Precheck, EndsAfterCleanup
  <1>3. ASSUME NEW t \in Txn, Refuse(t) PROVE EndsAfterCleanup
    BY <1>3 DEF Refuse, EndsAfterCleanup
  <1>4. ASSUME NEW t \in Txn, Start(t) PROVE EndsAfterCleanup
    BY <1>4 DEF Start, EndsAfterCleanup
  <1>5. ASSUME NEW t \in Txn, BeginCommit(t) PROVE EndsAfterCleanup
    BY <1>5 DEF BeginCommit, EndsAfterCleanup
  <1>6. ASSUME NEW t \in Txn, Fault(t) PROVE EndsAfterCleanup
    BY <1>6 DEF Fault, Fail, EndsAfterCleanup
  <1>7. ASSUME NEW t \in Txn, Publish(t) PROVE EndsAfterCleanup
    BY <1>7 DEF Publish, EndsAfterCleanup
  <1>8. ASSUME NEW t \in Txn, Validate(t) PROVE EndsAfterCleanup
    BY <1>8 DEF Validate, EndsAfterCleanup
  <1>9. ASSUME NEW t \in Txn, Finalize(t) PROVE EndsAfterCleanup
    BY <1>9 DEF Finalize, MayFinalize, EndsAfterCleanup
  <1>10. ASSUME NEW t \in Txn, Seal(t) PROVE EndsAfterCleanup
    BY <1>10 DEF Seal, EndsAfterCleanup
  <1>11. ASSUME NEW t \in Txn, RollBack(t) PROVE EndsAfterCleanup
    BY <1>11 DEF RollBack, MayRollBack, EndsAfterCleanup
  <1>12. ASSUME NEW t \in Txn, RollBackFails(t) PROVE EndsAfterCleanup
    BY <1>12 DEF RollBackFails, MayRollBack, EndsAfterCleanup
  <1>13. ASSUME NEW t \in Txn, RestoreCleanup(t) PROVE EndsAfterCleanup
    BY <1>13 DEF RestoreCleanup, EndsAfterCleanup
  <1>14. ASSUME NEW t \in Txn, RestoreFinish(t) PROVE EndsAfterCleanup
    <2>1. /\ UNCHANGED made
          /\ pc' = IF lock = t THEN [pc EXCEPT ![t] = "failed"] ELSE pc
          /\ rphase' = "idle" /\ rtxn = t
          /\ rphase = "cleaned"
          /\ \A u \in Txn \ {t} : jstate'[u] = jstate[u]
      BY <1>14 DEF RestoreFinish, EndRestore
    <2>2. lock = t => pc[t] = "restoring"
      BY <2>1, TransactionAssumption DEF LockExcludes
    <2>3. \A u \in Txn : pc[u] = "crashed" => pc'[u] = "crashed"
      BY <2>1, <2>2
    <2>4. QED
      BY <2>1, <2>3 DEF EndsAfterCleanup
  <1>15. ASSUME NEW t \in Txn, Recover(t) PROVE EndsAfterCleanup
    BY <1>15 DEF Recover, MayRecover, Pending, EndsAfterCleanup
  <1>16. ASSUME NEW t \in Txn, RecoverFails(t) PROVE EndsAfterCleanup
    BY <1>16 DEF RecoverFails, MayRecover, Pending, EndsAfterCleanup
  <1>17. ASSUME NEW t \in Txn, Crash(t) PROVE EndsAfterCleanup
    BY <1>17 DEF Crash, CutSave, Running, EndsAfterCleanup
  <1>18. ASSUME NEW t \in Txn, NEW f \in File, Stage(t, f)
        PROVE  EndsAfterCleanup
    BY <1>18 DEF Stage, TakeBackup, BackupExact, EndsAfterCleanup
  <1>19. ASSUME NEW t \in Txn, NEW f \in File, StageFails(t, f)
        PROVE  EndsAfterCleanup
    BY <1>19 DEF StageFails, Fail, TakeBackup, BackupExact, EndsAfterCleanup
  <1>20. ASSUME NEW t \in Txn, NEW f \in File, Record(t, f)
        PROVE  EndsAfterCleanup
    BY <1>20 DEF Record, EndsAfterCleanup
  <1>21. ASSUME NEW t \in Txn, NEW f \in File, Check(t, f)
        PROVE  EndsAfterCleanup
    BY <1>21 DEF Check, Recheck, Fail, EndsAfterCleanup
  <1>22. ASSUME NEW t \in Txn, NEW f \in File, Replace(t, f)
        PROVE  EndsAfterCleanup
    BY <1>22 DEF Replace, Touch, EndsAfterCleanup
  <1>23. ASSUME NEW t \in Txn, NEW f \in File, Mark(t, f) PROVE EndsAfterCleanup
    BY <1>23 DEF Mark, EndsAfterCleanup
  <1>24. ASSUME NEW t \in Txn, NEW f \in File, RestoreSkip(t, f)
        PROVE  EndsAfterCleanup
    BY <1>24 DEF RestoreSkip, Skips, EndsAfterCleanup
  <1>25. ASSUME NEW t \in Txn, NEW f \in File, RestoreRefuse(t, f)
        PROVE  EndsAfterCleanup
    <2>1. /\ UNCHANGED made
          /\ pc' = IF lock = t THEN [pc EXCEPT ![t] = "failed"] ELSE pc
          /\ rphase' = "idle" /\ rtxn = t
          /\ jstate'[t] = "recovery-required"
          /\ \A u \in Txn \ {t} : jstate'[u] = jstate[u]
      BY <1>25 DEF RestoreRefuse, EndRestore
    <2>2. lock = t => pc[t] = "restoring"
      BY <2>1, TransactionAssumption DEF LockExcludes
    <2>3. \A u \in Txn : pc[u] = "crashed" => pc'[u] = "crashed"
      BY <2>1, <2>2
    <2>4. QED
      BY <2>1, <2>3 DEF EndsAfterCleanup
  <1>26. ASSUME NEW t \in Txn, RestoreFails(t)
        PROVE  EndsAfterCleanup
    <2>1. /\ UNCHANGED made
          /\ pc' = IF lock = t THEN [pc EXCEPT ![t] = "failed"] ELSE pc
          /\ rphase' = "idle" /\ rtxn = t
          /\ jstate'[t] \in {jstate[t], "recovery-required"}
          /\ \A u \in Txn \ {t} : jstate'[u] = jstate[u]
      BY <1>26, RestoreFailsEffect DEF RestoreStops, EndRestore
    <2>2. lock = t => pc[t] = "restoring"
      BY <2>1, TransactionAssumption DEF LockExcludes
    <2>3. \A u \in Txn : pc[u] = "crashed" => pc'[u] = "crashed"
      BY <2>1, <2>2
    <2>4. QED
      BY <2>1, <2>3 DEF EndsAfterCleanup
  <1>27. ASSUME NEW t \in Txn, NEW f \in File, RestoreInspect(t, f)
        PROVE  EndsAfterCleanup
    BY <1>27 DEF RestoreInspect, EndsAfterCleanup
  <1>28. ASSUME NEW t \in Txn, NEW f \in File, RestorePut(t, f)
        PROVE  EndsAfterCleanup
    BY <1>28 DEF RestorePut, Touch, EndsAfterCleanup
  <1>29. ASSUME NEW t \in Txn, NEW f \in File, RestoreSave(t, f)
        PROVE  EndsAfterCleanup
    BY <1>29 DEF RestoreSave, SaveMarks, EndsAfterCleanup
  <1>30. ASSUME CrashRecovery PROVE EndsAfterCleanup
    BY <1>30 DEF CrashRecovery, CutSave, EndsAfterCleanup
  <1>31. ASSUME NEW f \in File, NEW c \in Image, Edit(f, c)
        PROVE  EndsAfterCleanup
    BY <1>31 DEF Edit, EndsAfterCleanup
  <1>32. CASE UNCHANGED vars
    BY <1>32 DEF vars, EndsAfterCleanup
  <1>33. QED
    BY <1>1, <1>2, <1>3, <1>4, <1>5, <1>6, <1>7, <1>8, <1>9, <1>10, <1>11,
       <1>12, <1>13, <1>14, <1>15, <1>16, <1>17, <1>18, <1>19, <1>20, <1>21,
       <1>22, <1>23, <1>24, <1>25, <1>26, <1>27, <1>28, <1>29, <1>30, <1>31,
       <1>32
    DEF Next, WorkerStep, RestoreStep

\* No step makes a directory that t alone would have to remove.
LEMMA OnlySharedKept ==
  ASSUME TypeOK, SharedGrows, NEW t \in Txn, pc[t] \notin {"idle", "stage"},
         OnlySharedRemain(t)
  PROVE  OnlySharedRemain(t)'
  <1>1. made'[t] = made[t]
    BY DEF SharedGrows
  <1>2. SUFFICES ASSUME NEW d \in made[t], d \in dirs'
                 PROVE  Shared(t, d)'
    BY <1>1 DEF OnlySharedRemain
  <1>3. CASE d \in dirs
    <2>1. Shared(t, d)
      BY <1>3 DEF OnlySharedRemain
    <2>2. QED
      BY <2>1 DEF Shared, SharedGrows
  <1>4. CASE d \notin dirs
    BY <1>2, <1>4 DEF SharedGrows
  <1>5. QED
    BY <1>3, <1>4

\* What stays at the cleanup holds a file.  If that is one of the plan that
\* nobody else wrote, it is restored, so it did not exist before, and is gone.
LEMMA CleanupRemoves ==
  ASSUME TypeOK, JournalFollows, RestoreFollows, DirectoriesHold, MadeFollow,
         NEW t \in Txn, RestoreCleanup(t), pc[t] # "crashed"
  PROVE  OnlySharedRemain(t)'
  <1>1. /\ rtxn = t /\ rphase = "inspect" /\ rtodo = {}
        /\ dirs' = {d \in dirs : d \notin jdirs[t] \/ Occupied(t, d)}
        /\ UNCHANGED <<made, touched, changes>>
    BY DEF RestoreCleanup, plan
  <1>2. pc[t] \notin {"idle", "stage", "record"}
    BY <1>1, TransactionAssumption DEF JournalFollows, Unstarted
  <1>3. SUFFICES ASSUME NEW d \in made[t], d \in dirs'
                 PROVE  Shared(t, d)
    BY <1>1 DEF OnlySharedRemain, Shared
  <1>4. d \in jdirs[t]
    BY <1>2 DEF MadeFollow
  <1>5. PICK f \in File : /\ DirOf[f] = d
                          /\ \/ disk[f] # Absent
                             \/ \E u \in Txn \ {t} : f \in staged[u]
    BY <1>1, <1>3, <1>4 DEF Occupied
  <1>6. CASE disk[f] # Absent
    <2>1. f \in touched[t] \cup changes[t]
      BY <1>5, <1>6 DEF MadeFollow
    <2>2. ASSUME f \in changes[t] \ touched[t] PROVE FALSE
      <3>1. previous[t][f] = Absent
        BY <1>5, <2>2 DEF MadeFollow
      <3>2. HoldsPrevious(t, f)
        BY <1>1, <2>2, TransactionAssumption DEF RestoreFollows
      <3>3. QED
        BY <1>6, <3>1, <3>2 DEF HoldsPrevious
    <2>3. QED
      BY <1>5, <2>1, <2>2 DEF Shared
  <1>7. CASE \E u \in Txn \ {t} : f \in staged[u]
    BY <1>5, <1>7 DEF Shared, DirectoriesHold
  <1>8. QED
    BY <1>5, <1>6, <1>7

LEMMA CleanedFollowStep ==
  ASSUME TypeOK, LockExcludes, JournalFollows, RestoreFollows, DirectoriesHold,
         MadeFollow, CleanedFollow, SharedGrows, EndsAfterCleanup
  PROVE  CleanedFollow'
  <1>1. SUFFICES ASSUME NEW t \in Txn \cup {Nobody}, rtxn = t,
                        rphase' = "cleaned", pc'[rtxn'] # "crashed"
                 PROVE  OnlySharedRemain(rtxn)'
    BY DEF TypeOK, CleanedFollow
  <1>2. /\ t \in Txn /\ rtxn' = t
        /\ rphase = "cleaned" \/ RestoreCleanup(t)
    BY <1>1 DEF EndsAfterCleanup, LockExcludes, RestoreCleanup
  <1>3. pc[t] # "crashed"
    BY <1>1, <1>2 DEF EndsAfterCleanup
  <1>4. pc[t] \notin {"idle", "stage"}
    BY <1>1, <1>2, TransactionAssumption DEF JournalFollows, Unstarted
  <1>5. OnlySharedRemain(t)'
    <2>1. CASE rphase = "cleaned"
      BY <1>1, <1>2, <1>3, <1>4, <2>1, OnlySharedKept DEF CleanedFollow
    <2>2. CASE RestoreCleanup(t)
      BY <1>2, <1>3, <2>2, CleanupRemoves
    <2>3. QED
      BY <1>2, <2>1, <2>2
  <1>6. QED
    BY <1>2, <1>5 DEF OnlySharedRemain, Shared

LEMMA NoStrayDirectoriesStep ==
  ASSUME TypeOK, LockExcludes, JournalFollows, CleanedFollow,
         NoStrayDirectories, SharedGrows, EndsAfterCleanup
  PROVE  NoStrayDirectories'
  <1>1. SUFFICES ASSUME NEW t \in Txn, pc'[t] # "crashed",
                        jstate'[t] \in {"rolled-back", "recovered"}
                 PROVE  OnlySharedRemain(t)'
    BY DEF NoStrayDirectories
  <1>2. pc[t] # "crashed"
    BY <1>1 DEF EndsAfterCleanup
  <1>3. CASE jstate'[t] = jstate[t]
    <2>1. pc[t] \notin {"idle", "stage"}
      BY <1>1, <1>3 DEF JournalFollows, Unstarted
    <2>2. OnlySharedRemain(t)
      BY <1>1, <1>2, <1>3 DEF NoStrayDirectories
    <2>3. QED
      BY <2>1, <2>2, OnlySharedKept
  <1>4. CASE rphase = "cleaned" /\ rtxn = t
    <2>1. pc[t] \notin {"idle", "stage"}
      BY <1>4, TransactionAssumption DEF JournalFollows, Unstarted
    <2>2. OnlySharedRemain(t)
      BY <1>2, <1>4 DEF CleanedFollow
    <2>3. QED
      BY <2>1, <2>2, OnlySharedKept
  <1>5. QED
    BY <1>1, <1>3, <1>4 DEF EndsAfterCleanup

-----------------------------------------------------------------------------
(* The invariant.                                                           *)

LEMMA InitDirectories ==
  ASSUME Init
  PROVE  DirectoriesFollow
  <1>1. StagesWait
    BY DEF Init, StagesWait
  <1>2. DirectoriesHold
    BY DEF Init, DirectoriesHold
  <1>3. MadeFollow
    BY DEF Init, MadeFollow, Unstarted
  <1>4. CleanedFollow
    BY DEF Init, CleanedFollow
  <1>5. NoStrayDirectories
    BY DEF Init, NoStrayDirectories
  <1>6. QED
    BY <1>1, <1>2, <1>3, <1>4, <1>5 DEF DirectoriesFollow

LEMMA DirectoriesStep ==
  ASSUME TypeOK, Inductive, DirectoriesFollow, [Next]_vars
  PROVE  DirectoriesFollow'
  <1>1. /\ LockExcludes /\ JournalFollows /\ FilesFollow /\ StagesFollow
        /\ RestoreFollows
    BY DEF Inductive
  <1>2. /\ StagesWait /\ DirectoriesHold /\ MadeFollow /\ CleanedFollow
        /\ NoStrayDirectories
    BY DEF DirectoriesFollow
  <1>3. StagesWait'
    BY <1>1, <1>2, StagesWaitStep
  <1>4. DirectoriesHold'
    BY <1>1, <1>2, DirectoriesHoldStep
  <1>5. MadeFollow'
    BY <1>1, <1>2, MadeFollowStep
  <1>6. SharedGrows
    BY <1>1, <1>2, SharedGrowsStep
  <1>7. EndsAfterCleanup
    BY <1>1, EndsAfterCleanupStep
  <1>8. CleanedFollow'
    BY <1>1, <1>2, <1>6, <1>7, CleanedFollowStep
  <1>9. NoStrayDirectories'
    BY <1>1, <1>2, <1>6, <1>7, NoStrayDirectoriesStep
  <1>10. QED
    BY <1>3, <1>4, <1>5, <1>8, <1>9 DEF DirectoriesFollow

\* Where a directory is, what is in it and who has to remove it is known in every
\* reachable state, whichever crashes, recoveries and edits came before.
THEOREM DirectoriesInvariant == Spec => []DirectoriesFollow
  <1>1. Init => DirectoriesFollow
    BY InitDirectories
  <1>2. TypeOK /\ Inductive /\ DirectoriesFollow /\ [Next]_vars
          => DirectoriesFollow'
    BY DirectoriesStep
  <1>3. QED
    BY <1>1, <1>2, InductiveInvariant, PTL DEF Spec

\* A rolled back or recovered request leaves no directory of its own behind,
\* unless its worker crashed, perhaps before the directory was in the journal, or
\* somebody else uses the directory.
THEOREM DirectoriesAreRemoved == Spec => []NoStrayDirectories
  <1>1. DirectoriesFollow => NoStrayDirectories
    BY DEF DirectoriesFollow
  <1>2. QED
    BY <1>1, DirectoriesInvariant, PTL

============================================================================
