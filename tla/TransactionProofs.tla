------------------------- MODULE TransactionProofs -------------------------
(***************************************************************************)
(* Proofs about Transaction, for every set of requests, files, directories  *)
(* and contents and every bound on edits and crashes.                       *)
(*                                                                          *)
(* The safety properties are not inductive one by one.  That a recovered    *)
(* journal tells the truth (UndoneMeansRestored) needs to know how far the  *)
(* restoration has come (RestoreFollows), which needs the backups to be     *)
(* right (BackupsReproducePlan), which needs the order of the staging loop  *)
(* (EntriesPrepared), and everything needs the lock (LockExcludes).  So one *)
(* lemma per conjunct of Inductive says which of the others it needs to     *)
(* survive a step, with one step of the proof per action, and              *)
(* InductiveInvariant puts them together.                                   *)
(***************************************************************************)
EXTENDS Transaction, TLAPS

\* A restoration that fails changes nothing but its journal: the last state is
\* recovery-required, or the one it had, and entries are rolled-back, or what
\* they were.
RestoreStops(t) ==
  /\ rtxn = t /\ rtxn # Nobody /\ EndRestore(t)
  /\ UNCHANGED <<disk, dirs, staged, backup, jdirs, jtemp, changes, previous,
                 todo, made, verified, touched, edits>>
  /\ crashes' \in Nat
  /\ jstate' = jstate \/ jstate' = [jstate EXCEPT ![t] = "recovery-required"]
  /\ jstatus' \in [Txn -> [File -> EntryStatuses]]
  /\ \A u \in Txn : \A f \in File :
       \/ jstatus'[u][f] = jstatus[u][f]
       \/ u = t /\ jstatus'[u][f] = "rolled-back"

LEMMA RestoreFailsEffect ==
  ASSUME TypeOK, NEW t \in Txn, RestoreFails(t)
  PROVE  RestoreStops(t)
  <1> USE DEF TypeOK, plan, RestoreStops
  <1>1. /\ rtxn = t /\ rtxn # Nobody /\ EndRestore(t) /\ crashes' = crashes + 1
        /\ UNCHANGED <<disk, dirs, staged, backup, jdirs, jtemp, plan, todo,
                       made, verified, touched, edits>>
    BY TransactionAssumption DEF RestoreFails
  <1>2. CASE UNCHANGED <<jstate, jstatus>>
    BY <1>1, <1>2
  <1>3. CASE \E marked \in SUBSET File :
               /\ jstate' = [jstate EXCEPT ![t] = "recovery-required"]
               /\ SaveMarks(t, marked)
    BY <1>1, <1>3 DEF SaveMarks, EntryStatuses
  <1>4. rmarked \cup {f \in rtodo : Last(f, rtodo)} \in SUBSET File
    OBVIOUS
  <1>5. QED
    BY <1>2, <1>3, <1>4 DEF RestoreFails

\* A loop over the files of a plan has at most one next file.
LEMMA FirstIsUnique ==
  ASSUME NEW S, NEW f \in File, NEW g \in File, First(f, S), First(g, S)
  PROVE  f = g
  BY TransactionAssumption DEF First

\* So has the restoration, which runs backwards.
LEMMA LastIsUnique ==
  ASSUME NEW S, NEW f \in File, NEW g \in File, Last(f, S), Last(g, S)
  PROVE  f = g
  BY TransactionAssumption DEF Last

\* Stage and StageFails write one backup at most.
LEMMA TakeBackupEffect ==
  ASSUME TypeOK, NEW t \in Txn, NEW f \in File,
         TakeBackup(t, f) \/ UNCHANGED backup
  PROVE  /\ backup' \in [Txn -> [File -> Image]]
         /\ \A u \in Txn : \A g \in File :
              backup'[u][g] = backup[u][g] \/ (u = t /\ g = f)
         /\ previous[t][f] = Absent => backup' = backup
  <1>1. CASE UNCHANGED backup
    BY <1>1 DEF TypeOK
  <1>2. CASE TakeBackup(t, f) /\ previous[t][f] # Absent
    <2>1. PICK copy \in Content : backup' = [backup EXCEPT ![t][f] = copy]
      BY <1>2 DEF TakeBackup
    <2>2. backup \in [Txn -> [File -> Image]] /\ copy \in Image
      BY DEF TypeOK, Image
    <2>3. QED
      BY <1>2, <2>1, <2>2
  <1>3. QED
    BY <1>1, <1>2 DEF TakeBackup

\* Every step keeps every variable in its type: the file writes of Replace and
\* Edit, the journal writes, and the two crash steps that reset several at once.
LEMMA TypeOKStep ==
  ASSUME TypeOK, [Next]_vars
  PROVE  TypeOK'
  <1> USE DEF TypeOK, Goto, plan, journal, restore, bounds
  <1>1. ASSUME NEW t \in Txn, Plan(t) PROVE TypeOK'
    BY <1>1, TransactionAssumption DEF Plan, Image, JournalStates, Final,
                                   EntryStatuses, Phases, RestorePhases
  <1>2. ASSUME NEW t \in Txn, Precheck(t) PROVE TypeOK'
    BY <1>2 DEF Precheck, Image, JournalStates, Final, EntryStatuses, Phases,
            RestorePhases
  <1>3. ASSUME NEW t \in Txn, Refuse(t) PROVE TypeOK'
    BY <1>3 DEF Refuse, Image, JournalStates, Final, EntryStatuses, Phases,
            RestorePhases
  <1>4. ASSUME NEW t \in Txn, Start(t) PROVE TypeOK'
    BY <1>4 DEF Start, Image, JournalStates, Final, EntryStatuses, Phases,
            RestorePhases
  <1>5. ASSUME NEW t \in Txn, BeginCommit(t) PROVE TypeOK'
    BY <1>5 DEF BeginCommit, Image, JournalStates, Final, EntryStatuses,
            Phases, RestorePhases
  <1>6. ASSUME NEW t \in Txn, Fault(t) PROVE TypeOK'
    BY <1>6 DEF Fault, Fail, Image, JournalStates, Final, EntryStatuses,
            Phases, RestorePhases
  <1>7. ASSUME NEW t \in Txn, Publish(t) PROVE TypeOK'
    BY <1>7 DEF Publish, Image, JournalStates, Final, EntryStatuses, Phases,
            RestorePhases
  <1>8. ASSUME NEW t \in Txn, Validate(t) PROVE TypeOK'
    BY <1>8 DEF Validate, Image, JournalStates, Final, EntryStatuses, Phases,
            RestorePhases
  <1>9. ASSUME NEW t \in Txn, Finalize(t) PROVE TypeOK'
    BY <1>9 DEF Finalize, MayFinalize, Image, JournalStates, Final,
            EntryStatuses, Phases, RestorePhases
  <1>10. ASSUME NEW t \in Txn, Seal(t) PROVE TypeOK'
    BY <1>10 DEF Seal, Image, JournalStates, Final, EntryStatuses, Phases,
             RestorePhases
  <1>11. ASSUME NEW t \in Txn, RollBack(t) PROVE TypeOK'
    BY <1>11 DEF RollBack, MayRollBack, Image, JournalStates, Final,
             EntryStatuses, Phases, RestorePhases
  <1>12. ASSUME NEW t \in Txn, RollBackFails(t) PROVE TypeOK'
    BY <1>12 DEF RollBackFails, MayRollBack, Image, JournalStates, Final,
             EntryStatuses, Phases, RestorePhases
  <1>13. ASSUME NEW t \in Txn, RestoreCleanup(t) PROVE TypeOK'
    BY <1>13 DEF RestoreCleanup, Image, JournalStates, Final, EntryStatuses,
             Phases, RestorePhases
  <1>14. ASSUME NEW t \in Txn, RestoreFinish(t) PROVE TypeOK'
    BY <1>14 DEF RestoreFinish, SaveMarks, EndRestore, Image, JournalStates,
             Final, EntryStatuses, Phases, RestorePhases
  <1>15. ASSUME NEW t \in Txn, Recover(t) PROVE TypeOK'
    BY <1>15 DEF Recover, MayRecover, Pending, Image, JournalStates, Final,
             EntryStatuses, Phases, RestorePhases
  <1>16. ASSUME NEW t \in Txn, RecoverFails(t) PROVE TypeOK'
    BY <1>16 DEF RecoverFails, MayRecover, Pending, Image, JournalStates,
             Final, EntryStatuses, Phases, RestorePhases
  <1>17. ASSUME NEW t \in Txn, Crash(t) PROVE TypeOK'
    <2>1. lock' \in Txn \cup {Nobody, Recovery}
      BY <1>17 DEF Crash, TypeOK
    <2>2. jtemp' \in [Txn -> BOOLEAN]
      BY <1>17 DEF Crash, CutSave, TypeOK
    <2>3. rtxn' \in Txn \cup {Nobody} /\ rphase' \in RestorePhases
          /\ rtodo' \in SUBSET File /\ rmarked' \in SUBSET File
      BY <1>17 DEF Crash, restore, TypeOK, RestorePhases
    <2>4. pc' \in [Txn -> Phases] /\ crashes' \in Nat
      BY <1>17, TransactionAssumption DEF Crash, Goto, TypeOK, Phases
    <2>5. QED
      BY <1>17, <2>1, <2>2, <2>3, <2>4 DEF Crash, TypeOK, plan
  <1>18. ASSUME NEW t \in Txn, NEW f \in File, Stage(t, f) PROVE TypeOK'
    BY <1>18, TakeBackupEffect, TransactionAssumption
    DEF Stage, CreateParents, Image, JournalStates, Final, EntryStatuses, Phases,
        RestorePhases
  <1>19. ASSUME NEW t \in Txn, NEW f \in File, StageFails(t, f) PROVE TypeOK'
    BY <1>19, TakeBackupEffect, TransactionAssumption
    DEF StageFails, CreateParents, Fail, Image, JournalStates, Final,
        EntryStatuses, Phases, RestorePhases
  <1>20. ASSUME NEW t \in Txn, NEW f \in File, Record(t, f) PROVE TypeOK'
    BY <1>20 DEF Record, Image, JournalStates, Final, EntryStatuses, Phases,
             RestorePhases
  <1>21. ASSUME NEW t \in Txn, NEW f \in File, Check(t, f) PROVE TypeOK'
    <2>1. jstate' \in [Txn -> JournalStates]
      BY <1>21 DEF Check, Fail, TypeOK, JournalStates
    <2>2. jdirs' \in [Txn -> SUBSET Dir]
      BY <1>21 DEF Check, Fail, TypeOK
    <2>3. pc' \in [Txn -> Phases]
      BY <1>21 DEF Check, Fail, Goto, TypeOK, Phases
    <2>4. /\ rtxn' \in Txn \cup {Nobody} /\ rphase' \in RestorePhases
          /\ rtodo' \in SUBSET File /\ rmarked' \in SUBSET File
      BY <1>21 DEF Check, Fail, restore, TypeOK, RestorePhases
    <2>5. QED
      BY <1>21, <2>1, <2>2, <2>3, <2>4 DEF Check, TypeOK, plan, bounds
  <1>22. ASSUME NEW t \in Txn, NEW f \in File, Replace(t, f) PROVE TypeOK'
    <2>1. disk' \in [File -> Image]
      <3>1. Candidate[t][f] \in Image
        BY TransactionAssumption DEF Image
      <3>2. disk' = [disk EXCEPT ![f] = Candidate[t][f]]
        BY <1>22 DEF Replace
      <3>3. QED
        BY <3>1, <3>2 DEF TypeOK
    <2>2. staged' \in [Txn -> SUBSET File] /\ pc' \in [Txn -> Phases]
      BY <1>22 DEF Replace, Goto, TypeOK, Phases
    <2>3. touched' \in [Txn -> SUBSET File]
      BY <1>22 DEF Replace, Touch, TypeOK
    <2>4. QED
      BY <1>22, <2>1, <2>2, <2>3
      DEF Replace, TypeOK, plan, journal, restore, bounds
  <1>23. ASSUME NEW t \in Txn, NEW f \in File, Mark(t, f) PROVE TypeOK'
    BY <1>23 DEF Mark, Image, JournalStates, Final, EntryStatuses, Phases,
             RestorePhases
  <1>24. ASSUME NEW t \in Txn, NEW f \in File, RestoreSkip(t, f) PROVE TypeOK'
    BY <1>24 DEF RestoreSkip, Skips, Image, JournalStates, Final,
             EntryStatuses, Phases, RestorePhases
  <1>25. ASSUME NEW t \in Txn, NEW f \in File, RestoreRefuse(t, f)
        PROVE  TypeOK'
    BY <1>25 DEF RestoreRefuse, SaveMarks, EndRestore, Refuses, Image,
             JournalStates, Final, EntryStatuses, Phases, RestorePhases
  <1>26. ASSUME NEW t \in Txn, RestoreFails(t)
        PROVE  TypeOK'
    <2>1. RestoreStops(t)
      BY <1>26, RestoreFailsEffect
    <2>2. QED
      BY <2>1 DEF RestoreStops, EndRestore, Image, JournalStates, Final,
         EntryStatuses, Phases, RestorePhases
  <1>27. ASSUME NEW t \in Txn, NEW f \in File, RestoreInspect(t, f)
        PROVE  TypeOK'
    BY <1>27 DEF RestoreInspect, Image, JournalStates, Final, EntryStatuses,
             Phases, RestorePhases
  <1>28. ASSUME NEW t \in Txn, NEW f \in File, RestorePut(t, f) PROVE TypeOK'
    BY <1>28 DEF RestorePut, Touch, Image, JournalStates, Final, EntryStatuses,
             Phases, RestorePhases
  <1>29. ASSUME NEW t \in Txn, NEW f \in File, RestoreSave(t, f) PROVE TypeOK'
    BY <1>29 DEF RestoreSave, SaveMarks, Image, JournalStates, Final,
             EntryStatuses, Phases, RestorePhases
  <1>30. ASSUME CrashRecovery PROVE TypeOK'
    <2>1. lock' \in Txn \cup {Nobody, Recovery}
      BY <1>30 DEF CrashRecovery, TypeOK
    <2>2. jtemp' \in [Txn -> BOOLEAN]
      BY <1>30 DEF CrashRecovery, CutSave, TypeOK
    <2>3. rtxn' \in Txn \cup {Nobody} /\ rphase' \in RestorePhases
          /\ rtodo' \in SUBSET File /\ rmarked' \in SUBSET File
      BY <1>30 DEF CrashRecovery, restore, TypeOK, RestorePhases
    <2>4. pc' \in [Txn -> Phases] /\ crashes' \in Nat
      BY <1>30, TransactionAssumption DEF CrashRecovery, Goto, TypeOK, Phases
    <2>5. QED
      BY <1>30, <2>1, <2>2, <2>3, <2>4 DEF CrashRecovery, TypeOK, plan
  <1>31. ASSUME NEW f \in File, NEW c \in Image, Edit(f, c) PROVE TypeOK'
    <2>1. disk' \in [File -> Image] /\ edits' \in Nat
      BY <1>31 DEF Edit, TypeOK
    <2>2. DirOf[f] \in Dir
      BY TransactionAssumption
    <2>3. dirs' \in SUBSET Dir
      BY <1>31, <2>2 DEF Edit, TypeOK
    <2>4. touched' \in [Txn -> SUBSET File]
      BY <1>31 DEF Edit, TypeOK
    <2>5. QED
      BY <1>31, <2>1, <2>3, <2>4 DEF Edit, TypeOK, plan, journal, restore
  <1>32. CASE UNCHANGED vars
    BY <1>32 DEF vars, Image, JournalStates, Final, EntryStatuses, Phases,
             RestorePhases
  <1>33. QED
    BY <1>1, <1>2, <1>3, <1>4, <1>5, <1>6, <1>7, <1>8, <1>9, <1>10, <1>11,
        <1>12, <1>13, <1>14, <1>15, <1>16, <1>17, <1>18, <1>19, <1>20, <1>21,
        <1>22, <1>23, <1>24, <1>25, <1>26, <1>27, <1>28, <1>29, <1>30, <1>31,
        <1>32
    DEF Next, WorkerStep, RestoreStep

\* The lock file is never held by a worker outside its critical phases: every
\* path out of _apply_validated_changes, of the finalization and of the
\* restoration runs _release_lock, or dies.
LEMMA LockExcludesStep ==
  ASSUME TypeOK, LockExcludes, JournalFollows, [Next]_vars
  PROVE  LockExcludes'
  <1> USE DEF TypeOK, Goto, plan, journal, restore, bounds
  <1>1. ASSUME NEW t \in Txn, Plan(t) PROVE LockExcludes'
    BY <1>1, TransactionAssumption DEF Plan, LockExcludes, Critical
  <1>2. ASSUME NEW t \in Txn, Precheck(t) PROVE LockExcludes'
    BY <1>2, TransactionAssumption DEF Precheck, LockExcludes, Critical
  <1>3. ASSUME NEW t \in Txn, Refuse(t) PROVE LockExcludes'
    BY <1>3, TransactionAssumption DEF Refuse, LockExcludes, Critical
  <1>4. ASSUME NEW t \in Txn, Start(t) PROVE LockExcludes'
    BY <1>4, TransactionAssumption DEF Start, LockExcludes, Critical
  <1>5. ASSUME NEW t \in Txn, BeginCommit(t) PROVE LockExcludes'
    BY <1>5, TransactionAssumption DEF BeginCommit, LockExcludes, Critical
  <1>6. ASSUME NEW t \in Txn, Fault(t) PROVE LockExcludes'
    BY <1>6, TransactionAssumption DEF Fault, LockExcludes, Fail, Critical
  <1>7. ASSUME NEW t \in Txn, Publish(t) PROVE LockExcludes'
    BY <1>7, TransactionAssumption DEF Publish, LockExcludes, Critical
  <1>8. ASSUME NEW t \in Txn, Validate(t) PROVE LockExcludes'
    <2>1. CASE InstalledCandidates(t)
              /\ verified' = [verified EXCEPT ![t] = TRUE]
              /\ Goto(t, "finalize")
      BY <2>1, <1>8, TransactionAssumption DEF Validate, LockExcludes, Critical
    <2>2. CASE Goto(t, "rollback") /\ UNCHANGED verified
      BY <2>2, <1>8, TransactionAssumption DEF Validate, LockExcludes, Critical
    <2>3. QED
      BY <2>1, <2>2, <1>8 DEF Validate
  <1>9. ASSUME NEW t \in Txn, Finalize(t) PROVE LockExcludes'
    <2>1. CASE MayFinalize(t)
      BY <2>1, <1>9, TransactionAssumption DEF Finalize, LockExcludes,
                                         MayFinalize, Critical
    <2>2. CASE ~MayFinalize(t)
      BY <2>2, <1>9, TransactionAssumption DEF Finalize, LockExcludes,
                                         MayFinalize, Critical
    <2>3. QED
      BY <2>1, <2>2, <1>9 DEF Finalize
  <1>10. ASSUME NEW t \in Txn, Seal(t) PROVE LockExcludes'
    BY <1>10, TransactionAssumption DEF Seal, LockExcludes, Critical
  <1>11. ASSUME NEW t \in Txn, RollBack(t) PROVE LockExcludes'
    BY <1>11, TransactionAssumption DEF RollBack, LockExcludes, MayRollBack,
                                    Critical
  <1>12. ASSUME NEW t \in Txn, RollBackFails(t) PROVE LockExcludes'
    BY <1>12, TransactionAssumption DEF RollBackFails, LockExcludes,
                                    MayRollBack, Critical
  <1>13. ASSUME NEW t \in Txn, RestoreCleanup(t) PROVE LockExcludes'
    BY <1>13, TransactionAssumption DEF RestoreCleanup, LockExcludes, Critical
  <1>14. ASSUME NEW t \in Txn, RestoreFinish(t) PROVE LockExcludes'
    BY <1>14, TransactionAssumption DEF RestoreFinish, LockExcludes, SaveMarks,
                                    EndRestore, Critical
  <1>15. ASSUME NEW t \in Txn, Recover(t) PROVE LockExcludes'
    BY <1>15, TransactionAssumption DEF Recover, LockExcludes, MayRecover,
                                    Pending, Critical
  <1>16. ASSUME NEW t \in Txn, RecoverFails(t) PROVE LockExcludes'
    BY <1>16, TransactionAssumption DEF RecoverFails, LockExcludes, MayRecover,
                                    Pending, Critical
  <1>17. ASSUME NEW t \in Txn, Crash(t) PROVE LockExcludes'
    BY <1>17, TransactionAssumption DEF Crash, LockExcludes, CutSave, Running,
                                    Critical, Running
  <1>18. ASSUME NEW t \in Txn, NEW f \in File, Stage(t, f) PROVE LockExcludes'
    BY <1>18, TransactionAssumption DEF Stage, CreateParents, LockExcludes, TakeBackup,
                                    BackupExact, Critical
  <1>19. ASSUME NEW t \in Txn, NEW f \in File, StageFails(t, f)
        PROVE  LockExcludes'
    BY <1>19, TransactionAssumption DEF StageFails, CreateParents, LockExcludes, Fail,
                                    TakeBackup, BackupExact, Critical
  <1>20. ASSUME NEW t \in Txn, NEW f \in File, Record(t, f) PROVE LockExcludes'
    BY <1>20, TransactionAssumption DEF Record, LockExcludes, Critical
  <1>21. ASSUME NEW t \in Txn, NEW f \in File, Check(t, f) PROVE LockExcludes'
    <2>1. CASE Recheck(t, f)
      BY <2>1, <1>21, TransactionAssumption DEF Check, LockExcludes, Fail,
                                          Recheck, Critical
    <2>2. CASE ~Recheck(t, f)
      BY <2>2, <1>21, TransactionAssumption DEF Check, LockExcludes, Fail,
                                          Recheck, Critical
    <2>3. QED
      BY <2>1, <2>2, <1>21 DEF Check
  <1>22. ASSUME NEW t \in Txn, NEW f \in File, Replace(t, f)
        PROVE  LockExcludes'
    BY <1>22, TransactionAssumption DEF Replace, LockExcludes, Touch, Critical
  <1>23. ASSUME NEW t \in Txn, NEW f \in File, Mark(t, f) PROVE LockExcludes'
    BY <1>23, TransactionAssumption DEF Mark, LockExcludes, Critical
  <1>24. ASSUME NEW t \in Txn, NEW f \in File, RestoreSkip(t, f)
        PROVE  LockExcludes'
    BY <1>24, TransactionAssumption DEF RestoreSkip, LockExcludes, Skips,
                                    Critical
  <1>25. ASSUME NEW t \in Txn, NEW f \in File, RestoreRefuse(t, f)
        PROVE  LockExcludes'
    BY <1>25, TransactionAssumption DEF RestoreRefuse, LockExcludes, SaveMarks,
                                    EndRestore, Refuses, Critical
  <1>26. ASSUME NEW t \in Txn, RestoreFails(t)
        PROVE  LockExcludes'
    <2>1. RestoreStops(t)
      BY <1>26, RestoreFailsEffect
    <2>2. QED
      BY <2>1, TransactionAssumption DEF RestoreStops, LockExcludes,
         EndRestore, Critical
  <1>27. ASSUME NEW t \in Txn, NEW f \in File, RestoreInspect(t, f)
        PROVE  LockExcludes'
    BY <1>27, TransactionAssumption DEF RestoreInspect, LockExcludes, Critical
  <1>28. ASSUME NEW t \in Txn, NEW f \in File, RestorePut(t, f)
        PROVE  LockExcludes'
    BY <1>28, TransactionAssumption DEF RestorePut, LockExcludes, Touch,
                                    Critical
  <1>29. ASSUME NEW t \in Txn, NEW f \in File, RestoreSave(t, f)
        PROVE  LockExcludes'
    BY <1>29, TransactionAssumption DEF RestoreSave, LockExcludes, SaveMarks,
                                    Critical
  <1>30. ASSUME CrashRecovery PROVE LockExcludes'
    BY <1>30, TransactionAssumption DEF CrashRecovery, LockExcludes, CutSave,
                                    Critical
  <1>31. ASSUME NEW f \in File, NEW c \in Image, Edit(f, c) PROVE LockExcludes'
    BY <1>31, TransactionAssumption DEF Edit, LockExcludes, Critical
  <1>32. CASE UNCHANGED vars
    BY <1>32 DEF vars, LockExcludes, JournalFollows, Critical, Unstarted
  <1>33. QED
    BY <1>1, <1>2, <1>3, <1>4, <1>5, <1>6, <1>7, <1>8, <1>9, <1>10, <1>11,
        <1>12, <1>13, <1>14, <1>15, <1>16, <1>17, <1>18, <1>19, <1>20, <1>21,
        <1>22, <1>23, <1>24, <1>25, <1>26, <1>27, <1>28, <1>29, <1>30, <1>31,
        <1>32
    DEF Next, WorkerStep, RestoreStep

\* No step of another process changes the state that a worker in a critical
\* phase last wrote to its manifest.
LEMMA JournalFollowsStep ==
  ASSUME TypeOK, LockExcludes, JournalFollows, [Next]_vars
  PROVE  JournalFollows'
  <1> USE DEF TypeOK, Goto, plan, journal, restore, bounds
  <1>1. ASSUME NEW t \in Txn, Plan(t) PROVE JournalFollows'
    BY <1>1 DEF Plan, JournalFollows, Unstarted
  <1>2. ASSUME NEW t \in Txn, Precheck(t) PROVE JournalFollows'
    BY <1>2 DEF Precheck, JournalFollows, Unstarted
  <1>3. ASSUME NEW t \in Txn, Refuse(t) PROVE JournalFollows'
    BY <1>3 DEF Refuse, JournalFollows, Unstarted
  <1>4. ASSUME NEW t \in Txn, Start(t) PROVE JournalFollows'
    BY <1>4 DEF Start, JournalFollows, Unstarted
  <1>5. ASSUME NEW t \in Txn, BeginCommit(t) PROVE JournalFollows'
    BY <1>5 DEF BeginCommit, JournalFollows, Unstarted
  <1>6. ASSUME NEW t \in Txn, Fault(t) PROVE JournalFollows'
    BY <1>6 DEF Fault, JournalFollows, Fail, Unstarted
  <1>7. ASSUME NEW t \in Txn, Publish(t) PROVE JournalFollows'
    BY <1>7 DEF Publish, JournalFollows, Unstarted
  <1>8. ASSUME NEW t \in Txn, Validate(t) PROVE JournalFollows'
    <2>1. CASE InstalledCandidates(t)
              /\ verified' = [verified EXCEPT ![t] = TRUE]
              /\ Goto(t, "finalize")
      BY <2>1, <1>8 DEF Validate, JournalFollows, Unstarted
    <2>2. CASE Goto(t, "rollback") /\ UNCHANGED verified
      BY <2>2, <1>8 DEF Validate, JournalFollows, Unstarted
    <2>3. QED
      BY <2>1, <2>2, <1>8 DEF Validate
  <1>9. ASSUME NEW t \in Txn, Finalize(t) PROVE JournalFollows'
    <2>1. CASE MayFinalize(t)
      BY <2>1, <1>9, ZenonT(60)
      DEF Finalize, JournalFollows, MayFinalize, Unstarted
    <2>2. CASE ~MayFinalize(t)
      BY <2>2, <1>9, ZenonT(60)
      DEF Finalize, JournalFollows, MayFinalize, Unstarted
    <2>3. QED
      BY <2>1, <2>2, <1>9 DEF Finalize
  <1>10. ASSUME NEW t \in Txn, Seal(t) PROVE JournalFollows'
    BY <1>10 DEF Seal, JournalFollows, Unstarted
  <1>11. ASSUME NEW t \in Txn, RollBack(t) PROVE JournalFollows'
    BY <1>11 DEF RollBack, JournalFollows, MayRollBack, Unstarted, Final
  <1>12. ASSUME NEW t \in Txn, RollBackFails(t) PROVE JournalFollows'
    BY <1>12 DEF RollBackFails, JournalFollows, MayRollBack, Unstarted, Final
  <1>13. ASSUME NEW t \in Txn, RestoreCleanup(t) PROVE JournalFollows'
    BY <1>13 DEF RestoreCleanup, JournalFollows, Unstarted
  <1>14. ASSUME NEW t \in Txn, RestoreFinish(t) PROVE JournalFollows'
    BY <1>14 DEF RestoreFinish, LockExcludes, JournalFollows, SaveMarks,
             EndRestore, Critical, Unstarted
  <1>15. ASSUME NEW t \in Txn, Recover(t) PROVE JournalFollows'
    BY <1>15, TransactionAssumption
    DEF Recover, LockExcludes, JournalFollows, MayRecover, Pending, Critical,
        Unstarted, Final
  <1>16. ASSUME NEW t \in Txn, RecoverFails(t) PROVE JournalFollows'
    BY <1>16 DEF RecoverFails, JournalFollows, MayRecover, Pending, Unstarted,
             Final
  <1>17. ASSUME NEW t \in Txn, Crash(t) PROVE JournalFollows'
    BY <1>17 DEF Crash, JournalFollows, CutSave, Running, Unstarted, Running
  <1>18. ASSUME NEW t \in Txn, NEW f \in File, Stage(t, f)
        PROVE  JournalFollows'
    BY <1>18 DEF Stage, CreateParents, JournalFollows, TakeBackup, BackupExact, Unstarted
  <1>19. ASSUME NEW t \in Txn, NEW f \in File, StageFails(t, f)
        PROVE  JournalFollows'
    BY <1>19 DEF StageFails, CreateParents, JournalFollows, Fail, TakeBackup, BackupExact,
             Unstarted
  <1>20. ASSUME NEW t \in Txn, NEW f \in File, Record(t, f)
        PROVE  JournalFollows'
    BY <1>20 DEF Record, JournalFollows, Unstarted
  <1>21. ASSUME NEW t \in Txn, NEW f \in File, Check(t, f)
        PROVE  JournalFollows'
    <2>1. pc[t] = "check" /\ First(f, todo[t])
          /\ UNCHANGED <<disk, staged, backup, jstatus, changes, previous,
                         todo, touched, verified>>
      BY <1>21 DEF Check, plan
    <2>2. CASE Recheck(t, f)
      <3>1. /\ pc' = [pc EXCEPT ![t] = "replace"]
            /\ UNCHANGED <<jstate, rtxn, rphase, rtodo>>
        BY <2>2, <1>21 DEF Check, Goto, restore, Fail
      <3>2. QED
        BY <2>1, <2>2, <3>1 DEF JournalFollows, Unstarted
    <2>3. CASE ~Recheck(t, f)
      <3>1. /\ jstate' = [jstate EXCEPT ![t] = "rolling-back"]
            /\ pc' = [pc EXCEPT ![t] = "restoring"]
            /\ rtxn' = t /\ rphase' = "inspect" /\ rtodo' = changes[t]
        BY <2>3, <1>21 DEF Check, Fail, Goto
      <3>2. QED
        BY <2>1, <2>3, <3>1 DEF JournalFollows, Unstarted
    <2>4. QED
      BY <2>2, <2>3
  <1>22. ASSUME NEW t \in Txn, NEW f \in File, Replace(t, f)
        PROVE  JournalFollows'
    BY <1>22 DEF Replace, JournalFollows, Touch, Unstarted
  <1>23. ASSUME NEW t \in Txn, NEW f \in File, Mark(t, f) PROVE JournalFollows'
    BY <1>23 DEF Mark, JournalFollows, Unstarted
  <1>24. ASSUME NEW t \in Txn, NEW f \in File, RestoreSkip(t, f)
        PROVE  JournalFollows'
    BY <1>24 DEF RestoreSkip, JournalFollows, Skips, Unstarted
  <1>25. ASSUME NEW t \in Txn, NEW f \in File, RestoreRefuse(t, f)
        PROVE  JournalFollows'
    BY <1>25 DEF RestoreRefuse, LockExcludes, JournalFollows, SaveMarks,
             EndRestore, Refuses, Critical, Unstarted
  <1>26. ASSUME NEW t \in Txn, RestoreFails(t)
        PROVE  JournalFollows'
    <2>1. RestoreStops(t)
      BY <1>26, RestoreFailsEffect
    <2>2. /\ jstate[t] \in {"rolling-back", "recovering"} /\ UNCHANGED verified
          /\ jstate' = jstate \/ jstate' = [jstate EXCEPT ![t] = "recovery-required"]
          /\ pc' = [pc EXCEPT ![t] = "failed"] \/ pc' = pc
          /\ rtxn' = Nobody
      BY <2>1 DEF RestoreStops, EndRestore, JournalFollows
    <2>3. QED
      BY <2>2 DEF JournalFollows, Unstarted
  <1>27. ASSUME NEW t \in Txn, NEW f \in File, RestoreInspect(t, f)
        PROVE  JournalFollows'
    BY <1>27 DEF RestoreInspect, JournalFollows, Unstarted
  <1>28. ASSUME NEW t \in Txn, NEW f \in File, RestorePut(t, f)
        PROVE  JournalFollows'
    BY <1>28 DEF RestorePut, JournalFollows, Touch, Unstarted
  <1>29. ASSUME NEW t \in Txn, NEW f \in File, RestoreSave(t, f)
        PROVE  JournalFollows'
    BY <1>29 DEF RestoreSave, JournalFollows, SaveMarks, Unstarted
  <1>30. ASSUME CrashRecovery PROVE JournalFollows'
    BY <1>30 DEF CrashRecovery, JournalFollows, CutSave, Unstarted
  <1>31. ASSUME NEW f \in File, NEW c \in Image, Edit(f, c)
        PROVE  JournalFollows'
    BY <1>31 DEF Edit, JournalFollows, Unstarted
  <1>32. CASE UNCHANGED vars
    BY <1>32 DEF vars, LockExcludes, JournalFollows, Critical, Unstarted
  <1>33. QED
    BY <1>1, <1>2, <1>3, <1>4, <1>5, <1>6, <1>7, <1>8, <1>9, <1>10, <1>11,
        <1>12, <1>13, <1>14, <1>15, <1>16, <1>17, <1>18, <1>19, <1>20, <1>21,
        <1>22, <1>23, <1>24, <1>25, <1>26, <1>27, <1>28, <1>29, <1>30, <1>31,
        <1>32
    DEF Next, WorkerStep, RestoreStep

\* An entry is prepared only after its backup was verified, and no replacement
\* starts before every entry is prepared.
LEMMA EntriesPreparedStep ==
  ASSUME TypeOK, LockExcludes, JournalFollows, EntriesPrepared, [Next]_vars
  PROVE  EntriesPrepared'
  <1> USE DEF TypeOK, Goto, plan, journal, restore, bounds
  <1>1. ASSUME NEW t \in Txn, Plan(t) PROVE EntriesPrepared'
    BY <1>1 DEF Plan, EntriesPrepared, Unstarted, First, BackupVerified
  <1>2. ASSUME NEW t \in Txn, Precheck(t) PROVE EntriesPrepared'
    BY <1>2 DEF Precheck, EntriesPrepared, Unstarted, First, BackupVerified
  <1>3. ASSUME NEW t \in Txn, Refuse(t) PROVE EntriesPrepared'
    BY <1>3 DEF Refuse, EntriesPrepared, Unstarted, First, BackupVerified
  <1>4. ASSUME NEW t \in Txn, Start(t) PROVE EntriesPrepared'
    BY <1>4 DEF Start, EntriesPrepared, Unstarted, First, BackupVerified
  <1>5. ASSUME NEW t \in Txn, BeginCommit(t) PROVE EntriesPrepared'
    BY <1>5 DEF BeginCommit, EntriesPrepared, Unstarted, First, BackupVerified
  <1>6. ASSUME NEW t \in Txn, Fault(t) PROVE EntriesPrepared'
    BY <1>6 DEF Fault, EntriesPrepared, Fail, Unstarted, First, BackupVerified
  <1>7. ASSUME NEW t \in Txn, Publish(t) PROVE EntriesPrepared'
    BY <1>7 DEF Publish, EntriesPrepared, Unstarted, First, BackupVerified
  <1>8. ASSUME NEW t \in Txn, Validate(t) PROVE EntriesPrepared'
    <2>1. CASE InstalledCandidates(t)
              /\ verified' = [verified EXCEPT ![t] = TRUE]
              /\ Goto(t, "finalize")
      BY <2>1, <1>8 DEF Validate, EntriesPrepared, Unstarted, First,
                  BackupVerified
    <2>2. CASE Goto(t, "rollback") /\ UNCHANGED verified
      BY <2>2, <1>8 DEF Validate, EntriesPrepared, Unstarted, First,
                  BackupVerified
    <2>3. QED
      BY <2>1, <2>2, <1>8 DEF Validate
  <1>9. ASSUME NEW t \in Txn, Finalize(t) PROVE EntriesPrepared'
    <2>1. /\ pc[t] = "finalize"
          /\ pc' = [pc EXCEPT ![t] = pc'[t]]
          /\ pc'[t] \in {"seal", "rollback"}
      BY <1>9 DEF Finalize, Goto, TypeOK
    <2>2. UNCHANGED <<jstatus, todo, changes, previous, backup>>
      BY <1>9 DEF Finalize, plan, journal, restore
    <2>3. QED
      BY <2>1, <2>2 DEF EntriesPrepared, BackupVerified, First, Unstarted
  <1>10. ASSUME NEW t \in Txn, Seal(t) PROVE EntriesPrepared'
    BY <1>10 DEF Seal, EntriesPrepared, Unstarted, First, BackupVerified
  <1>11. ASSUME NEW t \in Txn, RollBack(t) PROVE EntriesPrepared'
    BY <1>11 DEF RollBack, EntriesPrepared, MayRollBack, Unstarted, First,
             BackupVerified, Final
  <1>12. ASSUME NEW t \in Txn, RollBackFails(t) PROVE EntriesPrepared'
    BY <1>12 DEF RollBackFails, EntriesPrepared, MayRollBack, Unstarted, First,
             BackupVerified, Final
  <1>13. ASSUME NEW t \in Txn, RestoreCleanup(t) PROVE EntriesPrepared'
    BY <1>13 DEF RestoreCleanup, EntriesPrepared, Unstarted, First,
             BackupVerified
  <1>14. ASSUME NEW t \in Txn, RestoreFinish(t) PROVE EntriesPrepared'
    BY <1>14 DEF RestoreFinish, LockExcludes, JournalFollows, EntriesPrepared,
             SaveMarks, EndRestore, Critical, Unstarted, First, BackupVerified
  <1>15. ASSUME NEW t \in Txn, Recover(t) PROVE EntriesPrepared'
    BY <1>15 DEF Recover, EntriesPrepared, MayRecover, Pending, Unstarted,
             First, BackupVerified, Final
  <1>16. ASSUME NEW t \in Txn, RecoverFails(t) PROVE EntriesPrepared'
    BY <1>16 DEF RecoverFails, EntriesPrepared, MayRecover, Pending, Unstarted,
             First, BackupVerified, Final
  <1>17. ASSUME NEW t \in Txn, Crash(t) PROVE EntriesPrepared'
    BY <1>17 DEF Crash, EntriesPrepared, CutSave, Running, Unstarted, Running,
             First, BackupVerified
  <1>18. ASSUME NEW t \in Txn, NEW f \in File, Stage(t, f)
        PROVE  EntriesPrepared'
    <2>1. /\ pc[t] = "stage" /\ First(f, todo[t])
          /\ pc' = [pc EXCEPT ![t] = "record"]
          /\ UNCHANGED <<jstatus, todo, changes, previous>>
          /\ \A u \in Txn : \A g \in File :
               u # t => backup'[u][g] = backup[u][g]
      BY <1>18 DEF Stage, CreateParents, TakeBackup, Goto, plan, journal, TypeOK
    <2>2. BackupVerified(t, f)'
      BY <1>18 DEF Stage, CreateParents, TakeBackup, BackupExact, BackupVerified, plan, TypeOK
    <2>3. \A g \in todo[t] : First(g, todo[t]) => g = f
      BY <2>1, FirstIsUnique
    <2>4. \A g \in todo'[t] : First(g, todo'[t]) => BackupVerified(t, g)'
      BY <2>1, <2>2, <2>3
    <2>5. \A u \in Txn, g \in File :
            u # t => (BackupVerified(u, g)' <=> BackupVerified(u, g))
      BY <2>1 DEF BackupVerified
    <2>6. \A u \in Txn : pc'[u] = "record" =>
            \A g \in todo'[u] : First(g, todo'[u]) => BackupVerified(u, g)'
      <3>1. TAKE u \in Txn
      <3>2. CASE u = t
        BY <2>4, <3>2
      <3>3. CASE u # t
        BY <2>1, <2>5, <3>3 DEF TypeOK, EntriesPrepared
      <3>4. QED
        BY <3>2, <3>3
    <2>7. QED
      BY <2>1, <2>6 DEF TypeOK, EntriesPrepared, Unstarted
  <1>19. ASSUME NEW t \in Txn, NEW f \in File, StageFails(t, f)
        PROVE  EntriesPrepared'
    <2>1. /\ \A u \in Txn \ {t} : \A g \in File : backup'[u][g] = backup[u][g]
          /\ pc' = [pc EXCEPT ![t] = "restoring"]
          /\ UNCHANGED <<jstatus, changes, previous, todo>>
      BY <1>19, TakeBackupEffect DEF StageFails, Fail
    <2>2. QED
      BY <2>1 DEF EntriesPrepared, Unstarted, First, BackupVerified
  <1>20. ASSUME NEW t \in Txn, NEW f \in File, Record(t, f)
        PROVE  EntriesPrepared'
    BY <1>20 DEF Record, EntriesPrepared, Unstarted, First, BackupVerified
  <1>21. ASSUME NEW t \in Txn, NEW f \in File, Check(t, f)
        PROVE  EntriesPrepared'
    <2>1. /\ pc[t] = "check"
          /\ pc' = [pc EXCEPT ![t] = pc'[t]]
          /\ pc'[t] \in {"replace", "restoring"}
      BY <1>21 DEF Check, Goto, TypeOK, Fail
    <2>2. UNCHANGED <<jstatus, todo, changes, previous, backup>>
      BY <1>21 DEF Check, plan, journal, restore, Fail
    <2>3. QED
      BY <2>1, <2>2 DEF EntriesPrepared, BackupVerified, First, Unstarted
  <1>22. ASSUME NEW t \in Txn, NEW f \in File, Replace(t, f)
        PROVE  EntriesPrepared'
    BY <1>22 DEF Replace, EntriesPrepared, Touch, Unstarted, First,
             BackupVerified
  <1>23. ASSUME NEW t \in Txn, NEW f \in File, Mark(t, f)
        PROVE  EntriesPrepared'
    BY <1>23 DEF Mark, EntriesPrepared, Unstarted, First, BackupVerified
  <1>24. ASSUME NEW t \in Txn, NEW f \in File, RestoreSkip(t, f)
        PROVE  EntriesPrepared'
    BY <1>24 DEF RestoreSkip, EntriesPrepared, Skips, Unstarted, First,
             BackupVerified
  <1>25. ASSUME NEW t \in Txn, NEW f \in File, RestoreRefuse(t, f)
        PROVE  EntriesPrepared'
    BY <1>25
    DEF RestoreRefuse, LockExcludes, JournalFollows, EntriesPrepared,
        SaveMarks, EndRestore, Refuses, Critical, Unstarted, First,
        BackupVerified
  <1>26. ASSUME NEW t \in Txn, RestoreFails(t)
        PROVE  EntriesPrepared'
    <2>1. RestoreStops(t)
      BY <1>26, RestoreFailsEffect
    <2>2. /\ UNCHANGED <<backup, changes, previous, todo>>
          /\ \A u \in Txn \ {t} : jstatus'[u] = jstatus[u]
          /\ pc' = [pc EXCEPT ![t] = "failed"] \/ pc' = pc
          /\ jstate[t] \in {"rolling-back", "recovering"}
      BY <2>1 DEF RestoreStops, EndRestore, JournalFollows
    <2>3. pc[t] \notin Unstarted \cup {"stage", "record", "check", "replace", "mark"}
      BY <2>2 DEF JournalFollows, Unstarted
    <2>4. /\ pc'[t] = pc[t] \/ pc'[t] = "failed"
          /\ \A u \in Txn \ {t} : pc'[u] = pc[u]
      BY <2>2 DEF TypeOK
    <2>5. pc'[t] \notin Unstarted \cup {"stage", "record", "check", "replace", "mark"}
      BY <2>3, <2>4 DEF Unstarted
    <2>6. QED
      BY <2>2, <2>4, <2>5 DEF EntriesPrepared, First, BackupVerified
  <1>27. ASSUME NEW t \in Txn, NEW f \in File, RestoreInspect(t, f)
        PROVE  EntriesPrepared'
    BY <1>27 DEF RestoreInspect, EntriesPrepared, Unstarted, First,
             BackupVerified
  <1>28. ASSUME NEW t \in Txn, NEW f \in File, RestorePut(t, f)
        PROVE  EntriesPrepared'
    BY <1>28 DEF RestorePut, EntriesPrepared, Touch, Unstarted, First,
             BackupVerified
  <1>29. ASSUME NEW t \in Txn, NEW f \in File, RestoreSave(t, f)
        PROVE  EntriesPrepared'
    BY <1>29 DEF RestoreSave, LockExcludes, JournalFollows, EntriesPrepared,
             SaveMarks, Critical, Unstarted, First, BackupVerified
  <1>30. ASSUME CrashRecovery PROVE EntriesPrepared'
    BY <1>30 DEF CrashRecovery, EntriesPrepared, CutSave, Unstarted, First,
             BackupVerified
  <1>31. ASSUME NEW f \in File, NEW c \in Image, Edit(f, c)
        PROVE  EntriesPrepared'
    BY <1>31 DEF Edit, EntriesPrepared, Unstarted, First, BackupVerified
  <1>32. CASE UNCHANGED vars
    BY <1>32 DEF vars, LockExcludes, JournalFollows, EntriesPrepared, Critical,
             Unstarted, First, BackupVerified
  <1>33. QED
    BY <1>1, <1>2, <1>3, <1>4, <1>5, <1>6, <1>7, <1>8, <1>9, <1>10, <1>11,
        <1>12, <1>13, <1>14, <1>15, <1>16, <1>17, <1>18, <1>19, <1>20, <1>21,
        <1>22, <1>23, <1>24, <1>25, <1>26, <1>27, <1>28, <1>29, <1>30, <1>31,
        <1>32
    DEF Next, WorkerStep, RestoreStep

\* While a request is planned, staged or sealed, no engine step of another
\* request changes one of its files unnoticed.
LEMMA FilesFollowStep ==
  ASSUME TypeOK, LockExcludes, JournalFollows, FilesFollow, [Next]_vars
  PROVE  FilesFollow'
  <1> USE DEF TypeOK, Goto, plan, journal, restore, bounds
  <1>1. ASSUME NEW t \in Txn, Plan(t) PROVE FilesFollow'
    BY <1>1 DEF Plan, FilesFollow, HoldsPrevious
  <1>2. ASSUME NEW t \in Txn, Precheck(t) PROVE FilesFollow'
    BY <1>2 DEF Precheck, FilesFollow, HoldsPrevious
  <1>3. ASSUME NEW t \in Txn, Refuse(t) PROVE FilesFollow'
    BY <1>3 DEF Refuse, FilesFollow, HoldsPrevious
  <1>4. ASSUME NEW t \in Txn, Start(t) PROVE FilesFollow'
    BY <1>4 DEF Start, FilesFollow, HoldsPrevious
  <1>5. ASSUME NEW t \in Txn, BeginCommit(t) PROVE FilesFollow'
    BY <1>5 DEF BeginCommit, FilesFollow, HoldsPrevious
  <1>6. ASSUME NEW t \in Txn, Fault(t) PROVE FilesFollow'
    <2>1. /\ pc[t] = "check"
          /\ jstate' = [jstate EXCEPT ![t] = "rolling-back"]
          /\ pc' = [pc EXCEPT ![t] = "restoring"]
          /\ rtxn' = t /\ rphase' = "inspect" /\ rtodo' = changes[t]
          /\ UNCHANGED <<disk, staged, backup, jstatus, changes, previous,
                         touched, verified, todo>>
      BY <1>6 DEF Fault, Fail, Goto, plan
    <2>2. QED
      BY <2>1 DEF FilesFollow, HoldsPrevious
  <1>7. ASSUME NEW t \in Txn, Publish(t) PROVE FilesFollow'
    BY <1>7 DEF Publish, FilesFollow, HoldsPrevious
  <1>8. ASSUME NEW t \in Txn, Validate(t) PROVE FilesFollow'
    <2>1. CASE InstalledCandidates(t)
              /\ verified' = [verified EXCEPT ![t] = TRUE]
              /\ Goto(t, "finalize")
      BY <2>1, <1>8 DEF Validate, FilesFollow, HoldsPrevious,
                  InstalledCandidates
    <2>2. CASE Goto(t, "rollback") /\ UNCHANGED verified
      BY <2>2, <1>8 DEF Validate, FilesFollow, HoldsPrevious,
                  InstalledCandidates
    <2>3. QED
      BY <2>1, <2>2, <1>8 DEF Validate
  <1>9. ASSUME NEW t \in Txn, Finalize(t) PROVE FilesFollow'
    <2>1. CASE MayFinalize(t)
      BY <2>1, <1>9 DEF Finalize, FilesFollow, MayFinalize, HoldsPrevious,
                  InstalledCandidates
    <2>2. CASE ~MayFinalize(t)
      BY <2>2, <1>9 DEF Finalize, FilesFollow, MayFinalize, HoldsPrevious,
                  InstalledCandidates
    <2>3. QED
      BY <2>1, <2>2, <1>9 DEF Finalize
  <1>10. ASSUME NEW t \in Txn, Seal(t) PROVE FilesFollow'
    BY <1>10 DEF Seal, FilesFollow, HoldsPrevious
  <1>11. ASSUME NEW t \in Txn, RollBack(t) PROVE FilesFollow'
    BY <1>11 DEF RollBack, FilesFollow, MayRollBack, HoldsPrevious
  <1>12. ASSUME NEW t \in Txn, RollBackFails(t) PROVE FilesFollow'
    BY <1>12 DEF RollBackFails, FilesFollow, MayRollBack, HoldsPrevious
  <1>13. ASSUME NEW t \in Txn, RestoreCleanup(t) PROVE FilesFollow'
    BY <1>13 DEF RestoreCleanup, FilesFollow, HoldsPrevious
  <1>14. ASSUME NEW t \in Txn, RestoreFinish(t) PROVE FilesFollow'
    BY <1>14 DEF RestoreFinish, FilesFollow, SaveMarks, EndRestore,
             HoldsPrevious
  <1>15. ASSUME NEW t \in Txn, Recover(t) PROVE FilesFollow'
    BY <1>15 DEF Recover, FilesFollow, MayRecover, Pending, HoldsPrevious
  <1>16. ASSUME NEW t \in Txn, RecoverFails(t) PROVE FilesFollow'
    BY <1>16 DEF RecoverFails, FilesFollow, MayRecover, Pending, HoldsPrevious
  <1>17. ASSUME NEW t \in Txn, Crash(t) PROVE FilesFollow'
    BY <1>17 DEF Crash, FilesFollow, CutSave, Running, Running, HoldsPrevious
  <1>18. ASSUME NEW t \in Txn, NEW f \in File, Stage(t, f) PROVE FilesFollow'
    BY <1>18 DEF Stage, CreateParents, FilesFollow, TakeBackup, BackupExact, HoldsPrevious
  <1>19. ASSUME NEW t \in Txn, NEW f \in File, StageFails(t, f)
        PROVE  FilesFollow'
    BY <1>19 DEF StageFails, CreateParents, FilesFollow, Fail, TakeBackup, BackupExact,
             HoldsPrevious
  <1>20. ASSUME NEW t \in Txn, NEW f \in File, Record(t, f) PROVE FilesFollow'
    BY <1>20 DEF Record, FilesFollow, HoldsPrevious
  <1>21. ASSUME NEW t \in Txn, NEW f \in File, Check(t, f) PROVE FilesFollow'
    <2>1. CASE Recheck(t, f)
      BY <2>1, <1>21 DEF Check, FilesFollow, Fail, Recheck, HoldsPrevious
    <2>2. CASE ~Recheck(t, f)
      BY <2>2, <1>21 DEF Check, FilesFollow, Fail, Recheck, HoldsPrevious
    <2>3. QED
      BY <2>1, <2>2, <1>21 DEF Check
  <1>22. ASSUME NEW t \in Txn, NEW f \in File, Replace(t, f) PROVE FilesFollow'
    BY <1>22 DEF Replace, FilesFollow, Touch, HoldsPrevious
  <1>23. ASSUME NEW t \in Txn, NEW f \in File, Mark(t, f) PROVE FilesFollow'
    BY <1>23 DEF Mark, FilesFollow, HoldsPrevious
  <1>24. ASSUME NEW t \in Txn, NEW f \in File, RestoreSkip(t, f)
        PROVE  FilesFollow'
    BY <1>24 DEF RestoreSkip, FilesFollow, Skips, HoldsPrevious
  <1>25. ASSUME NEW t \in Txn, NEW f \in File, RestoreRefuse(t, f)
        PROVE  FilesFollow'
    BY <1>25 DEF RestoreRefuse, FilesFollow, SaveMarks, EndRestore, Refuses,
             HoldsPrevious
  <1>26. ASSUME NEW t \in Txn, RestoreFails(t)
        PROVE  FilesFollow'
    <2>1. RestoreStops(t)
      BY <1>26, RestoreFailsEffect
    <2>2. QED
      BY <2>1 DEF RestoreStops, FilesFollow, EndRestore, HoldsPrevious
  <1>27. ASSUME NEW t \in Txn, NEW f \in File, RestoreInspect(t, f)
        PROVE  FilesFollow'
    BY <1>27 DEF RestoreInspect, FilesFollow, HoldsPrevious
  <1>28. ASSUME NEW t \in Txn, NEW f \in File, RestorePut(t, f)
        PROVE  FilesFollow'
    BY <1>28 DEF RestorePut, LockExcludes, JournalFollows, FilesFollow, Touch,
             Critical, Unstarted, HoldsPrevious
  <1>29. ASSUME NEW t \in Txn, NEW f \in File, RestoreSave(t, f)
        PROVE  FilesFollow'
    BY <1>29 DEF RestoreSave, FilesFollow, SaveMarks, HoldsPrevious
  <1>30. ASSUME CrashRecovery PROVE FilesFollow'
    BY <1>30 DEF CrashRecovery, FilesFollow, CutSave, HoldsPrevious
  <1>31. ASSUME NEW f \in File, NEW c \in Image, Edit(f, c) PROVE FilesFollow'
    BY <1>31 DEF Edit, FilesFollow, HoldsPrevious
  <1>32. CASE UNCHANGED vars
    BY <1>32 DEF vars, LockExcludes, JournalFollows, FilesFollow, Critical,
             Unstarted, HoldsPrevious
  <1>33. QED
    BY <1>1, <1>2, <1>3, <1>4, <1>5, <1>6, <1>7, <1>8, <1>9, <1>10, <1>11,
        <1>12, <1>13, <1>14, <1>15, <1>16, <1>17, <1>18, <1>19, <1>20, <1>21,
        <1>22, <1>23, <1>24, <1>25, <1>26, <1>27, <1>28, <1>29, <1>30, <1>31,
        <1>32
    DEF Next, WorkerStep, RestoreStep

\* Every staged file is named by the manifest and waits for its replacement.
LEMMA StagesFollowStep ==
  ASSUME TypeOK, LockExcludes, JournalFollows, StagesFollow, [Next]_vars
  PROVE  StagesFollow'
  <1> USE DEF TypeOK, Goto, plan, journal, restore, bounds
  <1>1. ASSUME NEW t \in Txn, Plan(t) PROVE StagesFollow'
    BY <1>1 DEF Plan, StagesFollow, Unstarted, First
  <1>2. ASSUME NEW t \in Txn, Precheck(t) PROVE StagesFollow'
    BY <1>2 DEF Precheck, StagesFollow, Unstarted, First
  <1>3. ASSUME NEW t \in Txn, Refuse(t) PROVE StagesFollow'
    BY <1>3 DEF Refuse, StagesFollow, Unstarted, First
  <1>4. ASSUME NEW t \in Txn, Start(t) PROVE StagesFollow'
    BY <1>4 DEF Start, StagesFollow, Unstarted, First
  <1>5. ASSUME NEW t \in Txn, BeginCommit(t) PROVE StagesFollow'
    BY <1>5 DEF BeginCommit, StagesFollow, Unstarted, First
  <1>6. ASSUME NEW t \in Txn, Fault(t) PROVE StagesFollow'
    <2>1. /\ pc[t] = "check"
          /\ jstate' = [jstate EXCEPT ![t] = "rolling-back"]
          /\ pc' = [pc EXCEPT ![t] = "restoring"]
          /\ rtxn' = t /\ rphase' = "inspect" /\ rtodo' = changes[t]
          /\ UNCHANGED <<disk, staged, backup, jstatus, changes, previous,
                         touched, verified, todo>>
      BY <1>6 DEF Fault, Fail, Goto, plan
    <2>2. QED
      BY <2>1 DEF StagesFollow, Unstarted, First
  <1>7. ASSUME NEW t \in Txn, Publish(t) PROVE StagesFollow'
    BY <1>7 DEF Publish, StagesFollow, Unstarted, First
  <1>8. ASSUME NEW t \in Txn, Validate(t) PROVE StagesFollow'
    <2>1. CASE InstalledCandidates(t)
              /\ verified' = [verified EXCEPT ![t] = TRUE]
              /\ Goto(t, "finalize")
      BY <2>1, <1>8 DEF Validate, StagesFollow, Unstarted, First
    <2>2. CASE Goto(t, "rollback") /\ UNCHANGED verified
      BY <2>2, <1>8 DEF Validate, StagesFollow, Unstarted, First
    <2>3. QED
      BY <2>1, <2>2, <1>8 DEF Validate
  <1>9. ASSUME NEW t \in Txn, Finalize(t) PROVE StagesFollow'
    <2>1. /\ pc[t] = "finalize"
          /\ pc' = [pc EXCEPT ![t] = pc'[t]]
          /\ pc'[t] \in {"seal", "rollback"}
      BY <1>9 DEF Finalize, Goto, TypeOK
    <2>2. UNCHANGED <<staged, todo, changes, jstate>>
      BY <1>9 DEF Finalize, plan, journal, restore
    <2>3. QED
      BY <2>1, <2>2 DEF StagesFollow, First, Unstarted
  <1>10. ASSUME NEW t \in Txn, Seal(t) PROVE StagesFollow'
    BY <1>10 DEF Seal, StagesFollow, Unstarted, First
  <1>11. ASSUME NEW t \in Txn, RollBack(t) PROVE StagesFollow'
    BY <1>11 DEF RollBack, StagesFollow, MayRollBack, Unstarted, First, Final
  <1>12. ASSUME NEW t \in Txn, RollBackFails(t) PROVE StagesFollow'
    BY <1>12 DEF RollBackFails, StagesFollow, MayRollBack, Unstarted, First,
             Final
  <1>13. ASSUME NEW t \in Txn, RestoreCleanup(t) PROVE StagesFollow'
    BY <1>13 DEF RestoreCleanup, StagesFollow, Unstarted, First
  <1>14. ASSUME NEW t \in Txn, RestoreFinish(t) PROVE StagesFollow'
    BY <1>14 DEF RestoreFinish, StagesFollow, SaveMarks, EndRestore, Unstarted,
             First
  <1>15. ASSUME NEW t \in Txn, Recover(t) PROVE StagesFollow'
    BY <1>15 DEF Recover, StagesFollow, MayRecover, Pending, Unstarted, First,
             Final
  <1>16. ASSUME NEW t \in Txn, RecoverFails(t) PROVE StagesFollow'
    BY <1>16 DEF RecoverFails, StagesFollow, MayRecover, Pending, Unstarted,
             First, Final
  <1>17. ASSUME NEW t \in Txn, Crash(t) PROVE StagesFollow'
    BY <1>17 DEF Crash, StagesFollow, CutSave, Running, Unstarted, Running,
             First
  <1>18. ASSUME NEW t \in Txn, NEW f \in File, Stage(t, f) PROVE StagesFollow'
    BY <1>18 DEF Stage, CreateParents, LockExcludes, JournalFollows, StagesFollow, TakeBackup,
             BackupExact, Critical, Unstarted, First
  <1>19. ASSUME NEW t \in Txn, NEW f \in File, StageFails(t, f)
        PROVE  StagesFollow'
    BY <1>19 DEF StageFails, CreateParents, StagesFollow, Fail, TakeBackup, BackupExact,
             Unstarted, First
  <1>20. ASSUME NEW t \in Txn, NEW f \in File, Record(t, f) PROVE StagesFollow'
    BY <1>20 DEF Record, StagesFollow, Unstarted, First
  <1>21. ASSUME NEW t \in Txn, NEW f \in File, Check(t, f) PROVE StagesFollow'
    <2>1. pc[t] = "check" /\ First(f, todo[t])
          /\ UNCHANGED <<disk, staged, backup, jstatus, changes, previous,
                         todo, touched, verified>>
      BY <1>21 DEF Check, plan
    <2>2. CASE Recheck(t, f)
      <3>1. /\ pc' = [pc EXCEPT ![t] = "replace"]
            /\ UNCHANGED <<jstate, rtxn, rphase, rtodo>>
        BY <2>2, <1>21 DEF Check, Goto, restore, Fail
      <3>2. QED
        BY <2>1, <2>2, <3>1 DEF StagesFollow, Unstarted, First
    <2>3. CASE ~Recheck(t, f)
      <3>1. /\ jstate' = [jstate EXCEPT ![t] = "rolling-back"]
            /\ pc' = [pc EXCEPT ![t] = "restoring"]
            /\ rtxn' = t /\ rphase' = "inspect" /\ rtodo' = changes[t]
        BY <2>3, <1>21 DEF Check, Fail, Goto
      <3>2. QED
        BY <2>1, <2>3, <3>1 DEF StagesFollow, Unstarted, First
    <2>4. QED
      BY <2>2, <2>3
  <1>22. ASSUME NEW t \in Txn, NEW f \in File, Replace(t, f)
        PROVE  StagesFollow'
    BY <1>22, TransactionAssumption DEF Replace, StagesFollow, Touch,
                                    Unstarted, First
  <1>23. ASSUME NEW t \in Txn, NEW f \in File, Mark(t, f) PROVE StagesFollow'
    BY <1>23 DEF Mark, StagesFollow, Unstarted, First
  <1>24. ASSUME NEW t \in Txn, NEW f \in File, RestoreSkip(t, f)
        PROVE  StagesFollow'
    BY <1>24 DEF RestoreSkip, StagesFollow, Skips, Unstarted, First
  <1>25. ASSUME NEW t \in Txn, NEW f \in File, RestoreRefuse(t, f)
        PROVE  StagesFollow'
    BY <1>25 DEF RestoreRefuse, StagesFollow, SaveMarks, EndRestore, Refuses,
             Unstarted, First
  <1>26. ASSUME NEW t \in Txn, RestoreFails(t)
        PROVE  StagesFollow'
    <2>1. RestoreStops(t)
      BY <1>26, RestoreFailsEffect
    <2>2. QED
      BY <2>1 DEF RestoreStops, StagesFollow, EndRestore, Unstarted, First
  <1>27. ASSUME NEW t \in Txn, NEW f \in File, RestoreInspect(t, f)
        PROVE  StagesFollow'
    BY <1>27 DEF RestoreInspect, StagesFollow, Unstarted, First
  <1>28. ASSUME NEW t \in Txn, NEW f \in File, RestorePut(t, f)
        PROVE  StagesFollow'
    BY <1>28 DEF RestorePut, StagesFollow, Touch, Unstarted, First
  <1>29. ASSUME NEW t \in Txn, NEW f \in File, RestoreSave(t, f)
        PROVE  StagesFollow'
    BY <1>29 DEF RestoreSave, StagesFollow, SaveMarks, Unstarted, First
  <1>30. ASSUME CrashRecovery PROVE StagesFollow'
    BY <1>30 DEF CrashRecovery, StagesFollow, CutSave, Unstarted, First
  <1>31. ASSUME NEW f \in File, NEW c \in Image, Edit(f, c) PROVE StagesFollow'
    BY <1>31 DEF Edit, StagesFollow, Unstarted, First
  <1>32. CASE UNCHANGED vars
    BY <1>32 DEF vars, LockExcludes, JournalFollows, StagesFollow, Critical,
             Unstarted, First
  <1>33. QED
    BY <1>1, <1>2, <1>3, <1>4, <1>5, <1>6, <1>7, <1>8, <1>9, <1>10, <1>11,
        <1>12, <1>13, <1>14, <1>15, <1>16, <1>17, <1>18, <1>19, <1>20, <1>21,
        <1>22, <1>23, <1>24, <1>25, <1>26, <1>27, <1>28, <1>29, <1>30, <1>31,
        <1>32
    DEF Next, WorkerStep, RestoreStep

\* The copy of a file, once its entry is prepared, is never overwritten: only
\* Stage and StageFails write backups, and only of entries still planned.
LEMMA BackupsReproducePlanStep ==
  ASSUME TypeOK, LockExcludes, JournalFollows, EntriesPrepared,
         BackupsReproducePlan, [Next]_vars
  PROVE  BackupsReproducePlan'
  <1> USE DEF TypeOK, Goto, plan, journal, restore, bounds
  <1>1. ASSUME NEW t \in Txn, Plan(t) PROVE BackupsReproducePlan'
    <2>1. /\ pc[t] = "idle"
          /\ \A u \in Txn \ {t} : /\ changes'[u] = changes[u]
                                   /\ previous'[u] = previous[u]
          /\ changes'[t] \subseteq File
          /\ UNCHANGED <<backup, jstatus>>
      BY <1>1, TransactionAssumption DEF Plan, journal, TypeOK
    <2>2. \A g \in File : jstatus'[t][g] = "planned"
      BY <2>1 DEF EntriesPrepared, Unstarted
    <2> HIDE DEF TypeOK
    <2>3. QED
      BY <2>1, <2>2 DEF BackupsReproducePlan, BackupVerified
  <1>2. ASSUME NEW t \in Txn, Precheck(t) PROVE BackupsReproducePlan'
    BY <1>2 DEF Precheck, BackupsReproducePlan, BackupVerified
  <1>3. ASSUME NEW t \in Txn, Refuse(t) PROVE BackupsReproducePlan'
    BY <1>3 DEF Refuse, BackupsReproducePlan, BackupVerified
  <1>4. ASSUME NEW t \in Txn, Start(t) PROVE BackupsReproducePlan'
    BY <1>4 DEF Start, BackupsReproducePlan, BackupVerified
  <1>5. ASSUME NEW t \in Txn, BeginCommit(t) PROVE BackupsReproducePlan'
    BY <1>5 DEF BeginCommit, BackupsReproducePlan, BackupVerified
  <1>6. ASSUME NEW t \in Txn, Fault(t) PROVE BackupsReproducePlan'
    <2>1. /\ pc[t] = "check"
          /\ jstate' = [jstate EXCEPT ![t] = "rolling-back"]
          /\ pc' = [pc EXCEPT ![t] = "restoring"]
          /\ rtxn' = t /\ rphase' = "inspect" /\ rtodo' = changes[t]
          /\ UNCHANGED <<disk, staged, backup, jstatus, changes, previous,
                         touched, verified, todo>>
      BY <1>6 DEF Fault, Fail, Goto, plan
    <2>2. QED
      BY <2>1 DEF BackupsReproducePlan, BackupVerified
  <1>7. ASSUME NEW t \in Txn, Publish(t) PROVE BackupsReproducePlan'
    BY <1>7 DEF Publish, BackupsReproducePlan, BackupVerified
  <1>8. ASSUME NEW t \in Txn, Validate(t) PROVE BackupsReproducePlan'
    <2>1. CASE InstalledCandidates(t)
              /\ verified' = [verified EXCEPT ![t] = TRUE]
              /\ Goto(t, "finalize")
      BY <2>1, <1>8 DEF Validate, BackupsReproducePlan, BackupVerified
    <2>2. CASE Goto(t, "rollback") /\ UNCHANGED verified
      BY <2>2, <1>8 DEF Validate, BackupsReproducePlan, BackupVerified
    <2>3. QED
      BY <2>1, <2>2, <1>8 DEF Validate
  <1>9. ASSUME NEW t \in Txn, Finalize(t) PROVE BackupsReproducePlan'
    <2>1. CASE MayFinalize(t)
      BY <2>1, <1>9 DEF Finalize, BackupsReproducePlan, MayFinalize,
                  BackupVerified
    <2>2. CASE ~MayFinalize(t)
      BY <2>2, <1>9 DEF Finalize, BackupsReproducePlan, MayFinalize,
                  BackupVerified
    <2>3. QED
      BY <2>1, <2>2, <1>9 DEF Finalize
  <1>10. ASSUME NEW t \in Txn, Seal(t) PROVE BackupsReproducePlan'
    BY <1>10 DEF Seal, BackupsReproducePlan, BackupVerified
  <1>11. ASSUME NEW t \in Txn, RollBack(t) PROVE BackupsReproducePlan'
    BY <1>11 DEF RollBack, BackupsReproducePlan, MayRollBack, BackupVerified
  <1>12. ASSUME NEW t \in Txn, RollBackFails(t) PROVE BackupsReproducePlan'
    BY <1>12 DEF RollBackFails, BackupsReproducePlan, MayRollBack,
             BackupVerified
  <1>13. ASSUME NEW t \in Txn, RestoreCleanup(t) PROVE BackupsReproducePlan'
    BY <1>13 DEF RestoreCleanup, BackupsReproducePlan, BackupVerified
  <1>14. ASSUME NEW t \in Txn, RestoreFinish(t) PROVE BackupsReproducePlan'
    BY <1>14 DEF RestoreFinish, BackupsReproducePlan, SaveMarks, EndRestore,
             BackupVerified
  <1>15. ASSUME NEW t \in Txn, Recover(t) PROVE BackupsReproducePlan'
    BY <1>15 DEF Recover, BackupsReproducePlan, MayRecover, Pending,
             BackupVerified
  <1>16. ASSUME NEW t \in Txn, RecoverFails(t) PROVE BackupsReproducePlan'
    BY <1>16 DEF RecoverFails, BackupsReproducePlan, MayRecover, Pending,
             BackupVerified
  <1>17. ASSUME NEW t \in Txn, Crash(t) PROVE BackupsReproducePlan'
    BY <1>17 DEF Crash, BackupsReproducePlan, CutSave, Running, Running,
             BackupVerified
  <1>18. ASSUME NEW t \in Txn, NEW f \in File, Stage(t, f)
        PROVE  BackupsReproducePlan'
    <2>1. /\ \A u \in Txn : \A g \in File :
               backup'[u][g] = backup[u][g] \/ (u = t /\ g = f)
          /\ UNCHANGED <<jstatus, changes, previous>>
          /\ BackupExact(t, f)
      BY <1>18, TakeBackupEffect DEF Stage
    <2>2. QED
      BY <2>1 DEF BackupsReproducePlan, BackupExact, BackupVerified
  <1>19. ASSUME NEW t \in Txn, NEW f \in File, StageFails(t, f)
        PROVE  BackupsReproducePlan'
    <2>1. /\ pc[t] = "stage" /\ First(f, todo[t])
          /\ UNCHANGED <<jstatus, changes, previous>>
          /\ \A u \in Txn, g \in File :
               u # t \/ g # f => backup'[u][g] = backup[u][g]
      BY <1>19 DEF StageFails, CreateParents, TakeBackup, plan, TypeOK
    <2>2. jstatus[t][f] = "planned"
      BY <2>1 DEF EntriesPrepared, First
    <2>3. QED
      BY <2>1, <2>2 DEF BackupsReproducePlan, BackupVerified, TypeOK
  <1>20. ASSUME NEW t \in Txn, NEW f \in File, Record(t, f)
        PROVE  BackupsReproducePlan'
    BY <1>20 DEF Record, LockExcludes, JournalFollows, EntriesPrepared,
             BackupsReproducePlan, Critical, Unstarted, BackupVerified
  <1>21. ASSUME NEW t \in Txn, NEW f \in File, Check(t, f)
        PROVE  BackupsReproducePlan'
    <2>1. CASE Recheck(t, f)
      BY <2>1, <1>21 DEF Check, BackupsReproducePlan, Fail, Recheck,
                   BackupVerified
    <2>2. CASE ~Recheck(t, f)
      BY <2>2, <1>21 DEF Check, BackupsReproducePlan, Fail, Recheck,
                   BackupVerified
    <2>3. QED
      BY <2>1, <2>2, <1>21 DEF Check
  <1>22. ASSUME NEW t \in Txn, NEW f \in File, Replace(t, f)
        PROVE  BackupsReproducePlan'
    BY <1>22 DEF Replace, BackupsReproducePlan, Touch, BackupVerified
  <1>23. ASSUME NEW t \in Txn, NEW f \in File, Mark(t, f)
        PROVE  BackupsReproducePlan'
    BY <1>23 DEF Mark, LockExcludes, JournalFollows, EntriesPrepared,
             BackupsReproducePlan, Critical, Unstarted, BackupVerified
  <1>24. ASSUME NEW t \in Txn, NEW f \in File, RestoreSkip(t, f)
        PROVE  BackupsReproducePlan'
    BY <1>24 DEF RestoreSkip, BackupsReproducePlan, Skips, BackupVerified
  <1>25. ASSUME NEW t \in Txn, NEW f \in File, RestoreRefuse(t, f)
        PROVE  BackupsReproducePlan'
    BY <1>25 DEF RestoreRefuse, BackupsReproducePlan, SaveMarks, EndRestore,
             Refuses, BackupVerified
  <1>26. ASSUME NEW t \in Txn, RestoreFails(t)
        PROVE  BackupsReproducePlan'
    <2>1. RestoreStops(t)
      BY <1>26, RestoreFailsEffect
    <2>2. /\ UNCHANGED <<backup, changes, previous>>
          /\ \A u \in Txn : \A f \in changes[u] :
               jstatus'[u][f] \in {jstatus[u][f], "rolled-back"}
      BY <2>1 DEF RestoreStops
    <2>3. QED
      BY <2>2 DEF BackupsReproducePlan, BackupVerified
  <1>27. ASSUME NEW t \in Txn, NEW f \in File, RestoreInspect(t, f)
        PROVE  BackupsReproducePlan'
    BY <1>27 DEF RestoreInspect, BackupsReproducePlan, BackupVerified
  <1>28. ASSUME NEW t \in Txn, NEW f \in File, RestorePut(t, f)
        PROVE  BackupsReproducePlan'
    BY <1>28 DEF RestorePut, BackupsReproducePlan, Touch, BackupVerified
  <1>29. ASSUME NEW t \in Txn, NEW f \in File, RestoreSave(t, f)
        PROVE  BackupsReproducePlan'
    BY <1>29 DEF RestoreSave, BackupsReproducePlan, SaveMarks, BackupVerified
  <1>30. ASSUME CrashRecovery PROVE BackupsReproducePlan'
    BY <1>30 DEF CrashRecovery, BackupsReproducePlan, CutSave, BackupVerified
  <1>31. ASSUME NEW f \in File, NEW c \in Image, Edit(f, c)
        PROVE  BackupsReproducePlan'
    BY <1>31 DEF Edit, BackupsReproducePlan, BackupVerified
  <1>32. CASE UNCHANGED vars
    BY <1>32 DEF vars, LockExcludes, JournalFollows, EntriesPrepared,
             BackupsReproducePlan, Critical, Unstarted, BackupVerified
  <1>33. QED
    BY <1>1, <1>2, <1>3, <1>4, <1>5, <1>6, <1>7, <1>8, <1>9, <1>10, <1>11,
        <1>12, <1>13, <1>14, <1>15, <1>16, <1>17, <1>18, <1>19, <1>20, <1>21,
        <1>22, <1>23, <1>24, <1>25, <1>26, <1>27, <1>28, <1>29, <1>30, <1>31,
        <1>32
    DEF Next, WorkerStep, RestoreStep

\* The content that a recovery needs survives every step: the replacement of a
\* file, its restoration, another request's writes, edits and crashes.
LEMMA UntouchedStaysRecoverableStep ==
  ASSUME TypeOK, LockExcludes, JournalFollows, EntriesPrepared, FilesFollow,
         RestoreFollows, BackupsReproducePlan, UntouchedStaysRecoverable,
         [Next]_vars
  PROVE  UntouchedStaysRecoverable'
  <1> USE DEF TypeOK, Goto, plan, journal, restore, bounds
  <1>1. ASSUME NEW t \in Txn, Plan(t) PROVE UntouchedStaysRecoverable'
    BY <1>1 DEF Plan, UntouchedStaysRecoverable, BackupVerified, HoldsPrevious,
            HoldsCandidate, Pending, Final
  <1>2. ASSUME NEW t \in Txn, Precheck(t) PROVE UntouchedStaysRecoverable'
    BY <1>2 DEF Precheck, UntouchedStaysRecoverable, BackupVerified,
            HoldsPrevious, HoldsCandidate, Pending, Final
  <1>3. ASSUME NEW t \in Txn, Refuse(t) PROVE UntouchedStaysRecoverable'
    BY <1>3 DEF Refuse, UntouchedStaysRecoverable, BackupVerified,
            HoldsPrevious, HoldsCandidate, Pending, Final
  <1>4. ASSUME NEW t \in Txn, Start(t) PROVE UntouchedStaysRecoverable'
    BY <1>4
    DEF Start, LockExcludes, JournalFollows, EntriesPrepared, FilesFollow,
        RestoreFollows, BackupsReproducePlan, UntouchedStaysRecoverable,
        Critical, Unstarted, BackupVerified, HoldsPrevious, HoldsCandidate,
        Pending, Final
  <1>5. ASSUME NEW t \in Txn, BeginCommit(t) PROVE UntouchedStaysRecoverable'
    BY <1>5
    DEF BeginCommit, LockExcludes, JournalFollows, EntriesPrepared,
        FilesFollow, RestoreFollows, BackupsReproducePlan,
        UntouchedStaysRecoverable, Critical, Unstarted, BackupVerified,
        HoldsPrevious, HoldsCandidate, Pending, Final
  <1>6. ASSUME NEW t \in Txn, Fault(t) PROVE UntouchedStaysRecoverable'
    <2>1. /\ pc[t] = "check"
          /\ jstate' = [jstate EXCEPT ![t] = "rolling-back"]
          /\ pc' = [pc EXCEPT ![t] = "restoring"]
          /\ rtxn' = t /\ rphase' = "inspect" /\ rtodo' = changes[t]
          /\ UNCHANGED <<disk, staged, backup, jstatus, changes, previous,
                         touched, verified, todo>>
      BY <1>6 DEF Fault, Fail, Goto, plan
    <2>2. QED
      BY <2>1
      DEF UntouchedStaysRecoverable, FilesFollow, HoldsPrevious,
          HoldsCandidate, BackupVerified, Pending, Final, JournalFollows
  <1>7. ASSUME NEW t \in Txn, Publish(t) PROVE UntouchedStaysRecoverable'
    BY <1>7
    DEF Publish, LockExcludes, JournalFollows, EntriesPrepared, FilesFollow,
        RestoreFollows, BackupsReproducePlan, UntouchedStaysRecoverable,
        Critical, Unstarted, BackupVerified, HoldsPrevious, HoldsCandidate,
        Pending, Final
  <1>8. ASSUME NEW t \in Txn, Validate(t) PROVE UntouchedStaysRecoverable'
    <2>1. CASE InstalledCandidates(t)
              /\ verified' = [verified EXCEPT ![t] = TRUE]
              /\ Goto(t, "finalize")
      BY <2>1, <1>8 DEF Validate, UntouchedStaysRecoverable, BackupVerified,
                  HoldsPrevious, HoldsCandidate, Pending, Final
    <2>2. CASE Goto(t, "rollback") /\ UNCHANGED verified
      BY <2>2, <1>8 DEF Validate, UntouchedStaysRecoverable, BackupVerified,
                  HoldsPrevious, HoldsCandidate, Pending, Final
    <2>3. QED
      BY <2>1, <2>2, <1>8 DEF Validate
  <1>9. ASSUME NEW t \in Txn, Finalize(t) PROVE UntouchedStaysRecoverable'
    <2>1. CASE MayFinalize(t)
      BY <2>1, <1>9 DEF Finalize, UntouchedStaysRecoverable, MayFinalize,
                  BackupVerified, HoldsPrevious, HoldsCandidate, Pending, Final
    <2>2. CASE ~MayFinalize(t)
      BY <2>2, <1>9 DEF Finalize, UntouchedStaysRecoverable, MayFinalize,
                  BackupVerified, HoldsPrevious, HoldsCandidate, Pending, Final
    <2>3. QED
      BY <2>1, <2>2, <1>9 DEF Finalize
  <1>10. ASSUME NEW t \in Txn, Seal(t) PROVE UntouchedStaysRecoverable'
    BY <1>10 DEF Seal, UntouchedStaysRecoverable, BackupVerified,
             HoldsPrevious, HoldsCandidate, Pending, Final
  <1>11. ASSUME NEW t \in Txn, RollBack(t) PROVE UntouchedStaysRecoverable'
    <2>1. /\ Pending(t)
          /\ \A u \in Txn \ {t} : jstate'[u] = jstate[u]
          /\ UNCHANGED <<disk, backup, changes, previous, touched>>
      BY <1>11
      DEF RollBack, MayRollBack, Pending, plan, TypeOK, JournalFollows,
                  Unstarted
    <2>2. \A u \in Txn : Pending(u)' => Pending(u)
      BY <2>1 DEF Pending, Final
    <2>3. QED
      BY <2>1, <2>2 DEF UntouchedStaysRecoverable, HoldsPrevious,
                        HoldsCandidate, BackupVerified
  <1>12. ASSUME NEW t \in Txn, RollBackFails(t)
        PROVE  UntouchedStaysRecoverable'
    BY <1>12 DEF RollBackFails, UntouchedStaysRecoverable, MayRollBack,
             BackupVerified, HoldsPrevious, HoldsCandidate, Pending, Final
  <1>13. ASSUME NEW t \in Txn, RestoreCleanup(t)
        PROVE  UntouchedStaysRecoverable'
    BY <1>13 DEF RestoreCleanup, UntouchedStaysRecoverable, BackupVerified,
             HoldsPrevious, HoldsCandidate, Pending, Final
  <1>14. ASSUME NEW t \in Txn, RestoreFinish(t)
        PROVE  UntouchedStaysRecoverable'
    BY <1>14
    DEF RestoreFinish, UntouchedStaysRecoverable, SaveMarks, EndRestore,
        BackupVerified, HoldsPrevious, HoldsCandidate, Pending, Final
  <1>15. ASSUME NEW t \in Txn, Recover(t) PROVE UntouchedStaysRecoverable'
    BY <1>15 DEF Recover, UntouchedStaysRecoverable, MayRecover, Pending,
             BackupVerified, HoldsPrevious, HoldsCandidate, Pending, Final
  <1>16. ASSUME NEW t \in Txn, RecoverFails(t) PROVE UntouchedStaysRecoverable'
    BY <1>16 DEF RecoverFails, UntouchedStaysRecoverable, MayRecover, Pending,
             BackupVerified, HoldsPrevious, HoldsCandidate, Pending, Final
  <1>17. ASSUME NEW t \in Txn, Crash(t) PROVE UntouchedStaysRecoverable'
    BY <1>17 DEF Crash, UntouchedStaysRecoverable, CutSave, Running, Running,
             BackupVerified, HoldsPrevious, HoldsCandidate, Pending, Final
  <1>18. ASSUME NEW t \in Txn, NEW f \in File, Stage(t, f)
        PROVE  UntouchedStaysRecoverable'
    <2>1. /\ \A u \in Txn : \A g \in File :
               backup'[u][g] = backup[u][g] \/ (u = t /\ g = f)
          /\ UNCHANGED <<disk, jstate, changes, previous, touched>>
          /\ BackupExact(t, f)
      BY <1>18, TakeBackupEffect DEF Stage
    <2>2. QED
      BY <2>1 DEF UntouchedStaysRecoverable, BackupExact, BackupVerified,
         HoldsPrevious, HoldsCandidate, Pending, Final
  <1>19. ASSUME NEW t \in Txn, NEW f \in File, StageFails(t, f)
        PROVE  UntouchedStaysRecoverable'
    BY <1>19
    DEF StageFails, CreateParents, LockExcludes, JournalFollows, EntriesPrepared, FilesFollow,
        RestoreFollows, BackupsReproducePlan, UntouchedStaysRecoverable, Fail,
        TakeBackup, BackupExact, Critical, Unstarted, BackupVerified,
        HoldsPrevious, HoldsCandidate, Pending, Final
  <1>20. ASSUME NEW t \in Txn, NEW f \in File, Record(t, f)
        PROVE  UntouchedStaysRecoverable'
    BY <1>20 DEF Record, UntouchedStaysRecoverable, BackupVerified,
             HoldsPrevious, HoldsCandidate, Pending, Final
  <1>21. ASSUME NEW t \in Txn, NEW f \in File, Check(t, f)
        PROVE  UntouchedStaysRecoverable'
    <2>1. pc[t] = "check" /\ First(f, todo[t])
          /\ UNCHANGED <<disk, staged, backup, jstatus, changes, previous,
                         todo, touched, verified>>
      BY <1>21 DEF Check, plan
    <2>2. CASE Recheck(t, f)
      <3>1. /\ pc' = [pc EXCEPT ![t] = "replace"]
            /\ UNCHANGED <<jstate, rtxn, rphase, rtodo>>
        BY <2>2, <1>21 DEF Check, Goto, restore, Fail
      <3>2. QED
        BY <2>1, <2>2, <3>1
        DEF UntouchedStaysRecoverable, FilesFollow, HoldsPrevious,
            HoldsCandidate, BackupVerified, Pending, Final, JournalFollows
    <2>3. CASE ~Recheck(t, f)
      <3>1. /\ jstate' = [jstate EXCEPT ![t] = "rolling-back"]
            /\ pc' = [pc EXCEPT ![t] = "restoring"]
            /\ rtxn' = t /\ rphase' = "inspect" /\ rtodo' = changes[t]
        BY <2>3, <1>21 DEF Check, Fail, Goto
      <3>2. QED
        BY <2>1, <2>3, <3>1
        DEF UntouchedStaysRecoverable, FilesFollow, HoldsPrevious,
            HoldsCandidate, BackupVerified, Pending, Final, JournalFollows
    <2>4. QED
      BY <2>2, <2>3
  <1>22. ASSUME NEW t \in Txn, NEW f \in File, Replace(t, f)
        PROVE  UntouchedStaysRecoverable'
    BY <1>22
    DEF Replace, LockExcludes, JournalFollows, EntriesPrepared, FilesFollow,
        RestoreFollows, BackupsReproducePlan, UntouchedStaysRecoverable, Touch,
        Critical, Unstarted, BackupVerified, HoldsPrevious, HoldsCandidate,
        Pending, Final
  <1>23. ASSUME NEW t \in Txn, NEW f \in File, Mark(t, f)
        PROVE  UntouchedStaysRecoverable'
    BY <1>23 DEF Mark, UntouchedStaysRecoverable, BackupVerified,
             HoldsPrevious, HoldsCandidate, Pending, Final
  <1>24. ASSUME NEW t \in Txn, NEW f \in File, RestoreSkip(t, f)
        PROVE  UntouchedStaysRecoverable'
    BY <1>24 DEF RestoreSkip, UntouchedStaysRecoverable, Skips, BackupVerified,
             HoldsPrevious, HoldsCandidate, Pending, Final
  <1>25. ASSUME NEW t \in Txn, NEW f \in File, RestoreRefuse(t, f)
        PROVE  UntouchedStaysRecoverable'
    BY <1>25
    DEF RestoreRefuse, LockExcludes, JournalFollows, EntriesPrepared,
        FilesFollow, RestoreFollows, BackupsReproducePlan,
        UntouchedStaysRecoverable, SaveMarks, EndRestore, Refuses, Critical,
        Unstarted, BackupVerified, HoldsPrevious, HoldsCandidate, Pending,
        Final
  <1>26. ASSUME NEW t \in Txn, RestoreFails(t)
        PROVE  UntouchedStaysRecoverable'
    <2>1. RestoreStops(t)
      BY <1>26, RestoreFailsEffect
    <2>2. /\ UNCHANGED <<disk, backup, changes, previous, touched>>
          /\ \A u \in Txn : Pending(u)' => Pending(u)
      BY <2>1 DEF RestoreStops, JournalFollows, Pending, Final
    <2>3. QED
      BY <2>2 DEF UntouchedStaysRecoverable, BackupVerified, HoldsPrevious,
         HoldsCandidate
  <1>27. ASSUME NEW t \in Txn, NEW f \in File, RestoreInspect(t, f)
        PROVE  UntouchedStaysRecoverable'
    BY <1>27 DEF RestoreInspect, UntouchedStaysRecoverable, BackupVerified,
             HoldsPrevious, HoldsCandidate, Pending, Final
  <1>28. ASSUME NEW t \in Txn, NEW f \in File, RestorePut(t, f)
        PROVE  UntouchedStaysRecoverable'
    <2>1. /\ rtxn = t /\ rphase = "put" /\ Last(f, rtodo)
          /\ disk' = [disk EXCEPT ![f] = IF previous[t][f] = Absent
                                         THEN Absent ELSE backup[t][f]]
          /\ \A u \in Txn \ {t} : pc[u] # "idle" => f \in touched'[u]
          /\ \A u \in Txn : touched[u] \subseteq touched'[u]
          /\ UNCHANGED <<backup, jstate, changes, previous>>
      BY <1>28 DEF RestorePut, Touch, plan, journal, TypeOK
    <2>2. f \in File /\ BackupVerified(t, f)
      BY <2>1, TransactionAssumption DEF RestoreFollows, Last, TypeOK
    <2>3. disk' = [disk EXCEPT ![f] = previous[t][f]]
      BY <2>1, <2>2 DEF BackupVerified
    <2>4. SUFFICES ASSUME NEW u \in Txn, Pending(u)',
                          NEW g \in changes'[u] \ touched'[u]
                   PROVE  HoldsPrevious(u, g)'
                            \/ (HoldsCandidate(u, g) /\ BackupVerified(u, g))'
      BY DEF UntouchedStaysRecoverable
    <2>5. /\ Pending(u) /\ g \in changes[u] \ touched[u] /\ g \in File
          /\ pc[u] # "idle"
      BY <2>1, <2>4 DEF Pending, TypeOK, JournalFollows, Unstarted
    <2>6. CASE g = f
      BY <2>1, <2>3, <2>4, <2>5, <2>6 DEF HoldsPrevious, TypeOK
    <2>7. CASE g # f
      <3>1. disk'[g] = disk[g]
        BY <2>3, <2>7 DEF TypeOK
      <3>2. QED
        BY <3>1, <2>1, <2>5
        DEF UntouchedStaysRecoverable, HoldsPrevious, HoldsCandidate,
            BackupVerified
    <2>8. QED
      BY <2>6, <2>7
  <1>29. ASSUME NEW t \in Txn, NEW f \in File, RestoreSave(t, f)
        PROVE  UntouchedStaysRecoverable'
    BY <1>29 DEF RestoreSave, UntouchedStaysRecoverable, SaveMarks,
             BackupVerified, HoldsPrevious, HoldsCandidate, Pending, Final
  <1>30. ASSUME CrashRecovery PROVE UntouchedStaysRecoverable'
    BY <1>30 DEF CrashRecovery, UntouchedStaysRecoverable, CutSave,
             BackupVerified, HoldsPrevious, HoldsCandidate, Pending, Final
  <1>31. ASSUME NEW f \in File, NEW c \in Image, Edit(f, c)
        PROVE  UntouchedStaysRecoverable'
    BY <1>31
    DEF Edit, LockExcludes, JournalFollows, EntriesPrepared, FilesFollow,
        RestoreFollows, BackupsReproducePlan, UntouchedStaysRecoverable,
        Critical, Unstarted, BackupVerified, HoldsPrevious, HoldsCandidate,
        Pending, Final
  <1>32. CASE UNCHANGED vars
    BY <1>32
    DEF vars, LockExcludes, JournalFollows, EntriesPrepared, FilesFollow,
        RestoreFollows, BackupsReproducePlan, UntouchedStaysRecoverable,
        Critical, Unstarted, BackupVerified, HoldsPrevious, HoldsCandidate,
        Pending, Final
  <1>33. QED
    BY <1>1, <1>2, <1>3, <1>4, <1>5, <1>6, <1>7, <1>8, <1>9, <1>10, <1>11,
        <1>12, <1>13, <1>14, <1>15, <1>16, <1>17, <1>18, <1>19, <1>20, <1>21,
        <1>22, <1>23, <1>24, <1>25, <1>26, <1>27, <1>28, <1>29, <1>30, <1>31,
        <1>32
    DEF Next, WorkerStep, RestoreStep

\* A restoration that ends has left every untouched file as the plan saw it.
LEMMA UndoneMeansRestoredStep ==
  ASSUME TypeOK, LockExcludes, JournalFollows, RestoreFollows,
         UndoneMeansRestored, [Next]_vars
  PROVE  UndoneMeansRestored'
  <1> USE DEF TypeOK, Goto, plan, journal, restore, bounds
  <1>1. ASSUME NEW t \in Txn, Plan(t) PROVE UndoneMeansRestored'
    BY <1>1 DEF Plan, UndoneMeansRestored, HoldsPrevious
  <1>2. ASSUME NEW t \in Txn, Precheck(t) PROVE UndoneMeansRestored'
    BY <1>2 DEF Precheck, UndoneMeansRestored, HoldsPrevious
  <1>3. ASSUME NEW t \in Txn, Refuse(t) PROVE UndoneMeansRestored'
    BY <1>3 DEF Refuse, UndoneMeansRestored, HoldsPrevious
  <1>4. ASSUME NEW t \in Txn, Start(t) PROVE UndoneMeansRestored'
    BY <1>4 DEF Start, UndoneMeansRestored, HoldsPrevious
  <1>5. ASSUME NEW t \in Txn, BeginCommit(t) PROVE UndoneMeansRestored'
    BY <1>5 DEF BeginCommit, UndoneMeansRestored, HoldsPrevious
  <1>6. ASSUME NEW t \in Txn, Fault(t) PROVE UndoneMeansRestored'
    <2>1. /\ pc[t] = "check"
          /\ jstate' = [jstate EXCEPT ![t] = "rolling-back"]
          /\ pc' = [pc EXCEPT ![t] = "restoring"]
          /\ rtxn' = t /\ rphase' = "inspect" /\ rtodo' = changes[t]
          /\ UNCHANGED <<disk, staged, backup, jstatus, changes, previous,
                         touched, verified, todo>>
      BY <1>6 DEF Fault, Fail, Goto, plan
    <2>2. QED
      BY <2>1 DEF UndoneMeansRestored, HoldsPrevious
  <1>7. ASSUME NEW t \in Txn, Publish(t) PROVE UndoneMeansRestored'
    BY <1>7 DEF Publish, UndoneMeansRestored, HoldsPrevious
  <1>8. ASSUME NEW t \in Txn, Validate(t) PROVE UndoneMeansRestored'
    <2>1. CASE InstalledCandidates(t)
              /\ verified' = [verified EXCEPT ![t] = TRUE]
              /\ Goto(t, "finalize")
      BY <2>1, <1>8 DEF Validate, UndoneMeansRestored, HoldsPrevious
    <2>2. CASE Goto(t, "rollback") /\ UNCHANGED verified
      BY <2>2, <1>8 DEF Validate, UndoneMeansRestored, HoldsPrevious
    <2>3. QED
      BY <2>1, <2>2, <1>8 DEF Validate
  <1>9. ASSUME NEW t \in Txn, Finalize(t) PROVE UndoneMeansRestored'
    <2>1. CASE MayFinalize(t)
      BY <2>1, <1>9 DEF Finalize, UndoneMeansRestored, MayFinalize,
                  HoldsPrevious
    <2>2. CASE ~MayFinalize(t)
      BY <2>2, <1>9 DEF Finalize, UndoneMeansRestored, MayFinalize,
                  HoldsPrevious
    <2>3. QED
      BY <2>1, <2>2, <1>9 DEF Finalize
  <1>10. ASSUME NEW t \in Txn, Seal(t) PROVE UndoneMeansRestored'
    BY <1>10 DEF Seal, UndoneMeansRestored, HoldsPrevious
  <1>11. ASSUME NEW t \in Txn, RollBack(t) PROVE UndoneMeansRestored'
    BY <1>11 DEF RollBack, UndoneMeansRestored, MayRollBack, HoldsPrevious
  <1>12. ASSUME NEW t \in Txn, RollBackFails(t) PROVE UndoneMeansRestored'
    BY <1>12 DEF RollBackFails, UndoneMeansRestored, MayRollBack, HoldsPrevious
  <1>13. ASSUME NEW t \in Txn, RestoreCleanup(t) PROVE UndoneMeansRestored'
    BY <1>13 DEF RestoreCleanup, UndoneMeansRestored, HoldsPrevious
  <1>14. ASSUME NEW t \in Txn, RestoreFinish(t) PROVE UndoneMeansRestored'
    BY <1>14, TransactionAssumption
    DEF RestoreFinish, LockExcludes, JournalFollows, RestoreFollows,
        UndoneMeansRestored, SaveMarks, EndRestore, Critical, Unstarted,
        HoldsPrevious
  <1>15. ASSUME NEW t \in Txn, Recover(t) PROVE UndoneMeansRestored'
    BY <1>15 DEF Recover, UndoneMeansRestored, MayRecover, Pending,
             HoldsPrevious
  <1>16. ASSUME NEW t \in Txn, RecoverFails(t) PROVE UndoneMeansRestored'
    BY <1>16 DEF RecoverFails, UndoneMeansRestored, MayRecover, Pending,
             HoldsPrevious
  <1>17. ASSUME NEW t \in Txn, Crash(t) PROVE UndoneMeansRestored'
    BY <1>17 DEF Crash, UndoneMeansRestored, CutSave, Running, Running,
             HoldsPrevious
  <1>18. ASSUME NEW t \in Txn, NEW f \in File, Stage(t, f)
        PROVE  UndoneMeansRestored'
    BY <1>18 DEF Stage, CreateParents, UndoneMeansRestored, TakeBackup, BackupExact,
             HoldsPrevious
  <1>19. ASSUME NEW t \in Txn, NEW f \in File, StageFails(t, f)
        PROVE  UndoneMeansRestored'
    BY <1>19 DEF StageFails, CreateParents, UndoneMeansRestored, Fail, TakeBackup,
             BackupExact, HoldsPrevious
  <1>20. ASSUME NEW t \in Txn, NEW f \in File, Record(t, f)
        PROVE  UndoneMeansRestored'
    BY <1>20 DEF Record, UndoneMeansRestored, HoldsPrevious
  <1>21. ASSUME NEW t \in Txn, NEW f \in File, Check(t, f)
        PROVE  UndoneMeansRestored'
    <2>1. pc[t] = "check" /\ First(f, todo[t])
          /\ UNCHANGED <<disk, staged, backup, jstatus, changes, previous,
                         todo, touched, verified>>
      BY <1>21 DEF Check, plan
    <2>2. CASE Recheck(t, f)
      <3>1. /\ pc' = [pc EXCEPT ![t] = "replace"]
            /\ UNCHANGED <<jstate, rtxn, rphase, rtodo>>
        BY <2>2, <1>21 DEF Check, Goto, restore, Fail
      <3>2. QED
        BY <2>1, <2>2, <3>1 DEF UndoneMeansRestored, HoldsPrevious
    <2>3. CASE ~Recheck(t, f)
      <3>1. /\ jstate' = [jstate EXCEPT ![t] = "rolling-back"]
            /\ pc' = [pc EXCEPT ![t] = "restoring"]
            /\ rtxn' = t /\ rphase' = "inspect" /\ rtodo' = changes[t]
        BY <2>3, <1>21 DEF Check, Fail, Goto
      <3>2. QED
        BY <2>1, <2>3, <3>1 DEF UndoneMeansRestored, HoldsPrevious
    <2>4. QED
      BY <2>2, <2>3
  <1>22. ASSUME NEW t \in Txn, NEW f \in File, Replace(t, f)
        PROVE  UndoneMeansRestored'
    BY <1>22 DEF Replace, LockExcludes, JournalFollows, RestoreFollows,
             UndoneMeansRestored, Touch, Critical, Unstarted, HoldsPrevious
  <1>23. ASSUME NEW t \in Txn, NEW f \in File, Mark(t, f)
        PROVE  UndoneMeansRestored'
    BY <1>23 DEF Mark, UndoneMeansRestored, HoldsPrevious
  <1>24. ASSUME NEW t \in Txn, NEW f \in File, RestoreSkip(t, f)
        PROVE  UndoneMeansRestored'
    BY <1>24 DEF RestoreSkip, UndoneMeansRestored, Skips, HoldsPrevious
  <1>25. ASSUME NEW t \in Txn, NEW f \in File, RestoreRefuse(t, f)
        PROVE  UndoneMeansRestored'
    BY <1>25 DEF RestoreRefuse, UndoneMeansRestored, SaveMarks, EndRestore,
             Refuses, HoldsPrevious
  <1>26. ASSUME NEW t \in Txn, RestoreFails(t)
        PROVE  UndoneMeansRestored'
    <2>1. RestoreStops(t)
      BY <1>26, RestoreFailsEffect
    <2>2. QED
      BY <2>1 DEF RestoreStops, UndoneMeansRestored, EndRestore, HoldsPrevious
  <1>27. ASSUME NEW t \in Txn, NEW f \in File, RestoreInspect(t, f)
        PROVE  UndoneMeansRestored'
    BY <1>27 DEF RestoreInspect, UndoneMeansRestored, HoldsPrevious
  <1>28. ASSUME NEW t \in Txn, NEW f \in File, RestorePut(t, f)
        PROVE  UndoneMeansRestored'
    BY <1>28 DEF RestorePut, LockExcludes, JournalFollows, RestoreFollows,
             UndoneMeansRestored, Touch, Critical, Unstarted, HoldsPrevious
  <1>29. ASSUME NEW t \in Txn, NEW f \in File, RestoreSave(t, f)
        PROVE  UndoneMeansRestored'
    BY <1>29 DEF RestoreSave, UndoneMeansRestored, SaveMarks, HoldsPrevious
  <1>30. ASSUME CrashRecovery PROVE UndoneMeansRestored'
    BY <1>30 DEF CrashRecovery, UndoneMeansRestored, CutSave, HoldsPrevious
  <1>31. ASSUME NEW f \in File, NEW c \in Image, Edit(f, c)
        PROVE  UndoneMeansRestored'
    BY <1>31 DEF Edit, LockExcludes, JournalFollows, RestoreFollows,
             UndoneMeansRestored, Critical, Unstarted, HoldsPrevious
  <1>32. CASE UNCHANGED vars
    BY <1>32 DEF vars, LockExcludes, JournalFollows, RestoreFollows,
             UndoneMeansRestored, Critical, Unstarted, HoldsPrevious
  <1>33. QED
    BY <1>1, <1>2, <1>3, <1>4, <1>5, <1>6, <1>7, <1>8, <1>9, <1>10, <1>11,
        <1>12, <1>13, <1>14, <1>15, <1>16, <1>17, <1>18, <1>19, <1>20, <1>21,
        <1>22, <1>23, <1>24, <1>25, <1>26, <1>27, <1>28, <1>29, <1>30, <1>31,
        <1>32
    DEF Next, WorkerStep, RestoreStep

\* Seal finds the evaluated content, and whatever replaces it later is a write
\* of somebody else.
LEMMA CommittedMeansInstalledStep ==
  ASSUME TypeOK, LockExcludes, JournalFollows, FilesFollow,
         CommittedMeansInstalled, [Next]_vars
  PROVE  CommittedMeansInstalled'
  <1> USE DEF TypeOK, Goto, plan, journal, restore, bounds
  <1>1. ASSUME NEW t \in Txn, Plan(t) PROVE CommittedMeansInstalled'
    BY <1>1 DEF Plan, LockExcludes, JournalFollows, FilesFollow,
            CommittedMeansInstalled, Critical, Unstarted
  <1>2. ASSUME NEW t \in Txn, Precheck(t) PROVE CommittedMeansInstalled'
    BY <1>2 DEF Precheck, CommittedMeansInstalled
  <1>3. ASSUME NEW t \in Txn, Refuse(t) PROVE CommittedMeansInstalled'
    BY <1>3 DEF Refuse, CommittedMeansInstalled
  <1>4. ASSUME NEW t \in Txn, Start(t) PROVE CommittedMeansInstalled'
    BY <1>4 DEF Start, CommittedMeansInstalled
  <1>5. ASSUME NEW t \in Txn, BeginCommit(t) PROVE CommittedMeansInstalled'
    BY <1>5 DEF BeginCommit, CommittedMeansInstalled
  <1>6. ASSUME NEW t \in Txn, Fault(t) PROVE CommittedMeansInstalled'
    BY <1>6 DEF Fault, CommittedMeansInstalled, Fail
  <1>7. ASSUME NEW t \in Txn, Publish(t) PROVE CommittedMeansInstalled'
    BY <1>7 DEF Publish, CommittedMeansInstalled
  <1>8. ASSUME NEW t \in Txn, Validate(t) PROVE CommittedMeansInstalled'
    <2>1. CASE InstalledCandidates(t)
              /\ verified' = [verified EXCEPT ![t] = TRUE]
              /\ Goto(t, "finalize")
      BY <2>1, <1>8 DEF Validate, CommittedMeansInstalled
    <2>2. CASE Goto(t, "rollback") /\ UNCHANGED verified
      BY <2>2, <1>8 DEF Validate, CommittedMeansInstalled
    <2>3. QED
      BY <2>1, <2>2, <1>8 DEF Validate
  <1>9. ASSUME NEW t \in Txn, Finalize(t) PROVE CommittedMeansInstalled'
    <2>1. CASE MayFinalize(t)
      BY <2>1, <1>9 DEF Finalize, CommittedMeansInstalled, MayFinalize
    <2>2. CASE ~MayFinalize(t)
      BY <2>2, <1>9 DEF Finalize, CommittedMeansInstalled, MayFinalize
    <2>3. QED
      BY <2>1, <2>2, <1>9 DEF Finalize
  <1>10. ASSUME NEW t \in Txn, Seal(t) PROVE CommittedMeansInstalled'
    BY <1>10 DEF Seal, LockExcludes, JournalFollows, FilesFollow,
             CommittedMeansInstalled, Critical, Unstarted
  <1>11. ASSUME NEW t \in Txn, RollBack(t) PROVE CommittedMeansInstalled'
    BY <1>11 DEF RollBack, CommittedMeansInstalled, MayRollBack
  <1>12. ASSUME NEW t \in Txn, RollBackFails(t) PROVE CommittedMeansInstalled'
    BY <1>12 DEF RollBackFails, CommittedMeansInstalled, MayRollBack
  <1>13. ASSUME NEW t \in Txn, RestoreCleanup(t) PROVE CommittedMeansInstalled'
    BY <1>13 DEF RestoreCleanup, CommittedMeansInstalled
  <1>14. ASSUME NEW t \in Txn, RestoreFinish(t) PROVE CommittedMeansInstalled'
    BY <1>14 DEF RestoreFinish, CommittedMeansInstalled, SaveMarks, EndRestore
  <1>15. ASSUME NEW t \in Txn, Recover(t) PROVE CommittedMeansInstalled'
    BY <1>15 DEF Recover, CommittedMeansInstalled, MayRecover, Pending
  <1>16. ASSUME NEW t \in Txn, RecoverFails(t) PROVE CommittedMeansInstalled'
    BY <1>16 DEF RecoverFails, CommittedMeansInstalled, MayRecover, Pending
  <1>17. ASSUME NEW t \in Txn, Crash(t) PROVE CommittedMeansInstalled'
    BY <1>17 DEF Crash, CommittedMeansInstalled, CutSave, Running, Running
  <1>18. ASSUME NEW t \in Txn, NEW f \in File, Stage(t, f)
        PROVE  CommittedMeansInstalled'
    BY <1>18 DEF Stage, CreateParents, CommittedMeansInstalled, TakeBackup, BackupExact
  <1>19. ASSUME NEW t \in Txn, NEW f \in File, StageFails(t, f)
        PROVE  CommittedMeansInstalled'
    BY <1>19 DEF StageFails, CreateParents, CommittedMeansInstalled, Fail, TakeBackup,
             BackupExact
  <1>20. ASSUME NEW t \in Txn, NEW f \in File, Record(t, f)
        PROVE  CommittedMeansInstalled'
    BY <1>20 DEF Record, CommittedMeansInstalled
  <1>21. ASSUME NEW t \in Txn, NEW f \in File, Check(t, f)
        PROVE  CommittedMeansInstalled'
    <2>1. CASE Recheck(t, f)
      BY <2>1, <1>21 DEF Check, CommittedMeansInstalled, Fail, Recheck
    <2>2. CASE ~Recheck(t, f)
      BY <2>2, <1>21 DEF Check, CommittedMeansInstalled, Fail, Recheck
    <2>3. QED
      BY <2>1, <2>2, <1>21 DEF Check
  <1>22. ASSUME NEW t \in Txn, NEW f \in File, Replace(t, f)
        PROVE  CommittedMeansInstalled'
    BY <1>22 DEF Replace, LockExcludes, JournalFollows, FilesFollow,
             CommittedMeansInstalled, Touch, Critical, Unstarted
  <1>23. ASSUME NEW t \in Txn, NEW f \in File, Mark(t, f)
        PROVE  CommittedMeansInstalled'
    BY <1>23 DEF Mark, CommittedMeansInstalled
  <1>24. ASSUME NEW t \in Txn, NEW f \in File, RestoreSkip(t, f)
        PROVE  CommittedMeansInstalled'
    BY <1>24 DEF RestoreSkip, CommittedMeansInstalled, Skips
  <1>25. ASSUME NEW t \in Txn, NEW f \in File, RestoreRefuse(t, f)
        PROVE  CommittedMeansInstalled'
    BY <1>25 DEF RestoreRefuse, CommittedMeansInstalled, SaveMarks, EndRestore,
             Refuses
  <1>26. ASSUME NEW t \in Txn, RestoreFails(t)
        PROVE  CommittedMeansInstalled'
    <2>1. RestoreStops(t)
      BY <1>26, RestoreFailsEffect
    <2>2. QED
      BY <2>1 DEF RestoreStops, CommittedMeansInstalled, EndRestore
  <1>27. ASSUME NEW t \in Txn, NEW f \in File, RestoreInspect(t, f)
        PROVE  CommittedMeansInstalled'
    BY <1>27 DEF RestoreInspect, CommittedMeansInstalled
  <1>28. ASSUME NEW t \in Txn, NEW f \in File, RestorePut(t, f)
        PROVE  CommittedMeansInstalled'
    BY <1>28 DEF RestorePut, LockExcludes, JournalFollows, FilesFollow,
             CommittedMeansInstalled, Touch, Critical, Unstarted
  <1>29. ASSUME NEW t \in Txn, NEW f \in File, RestoreSave(t, f)
        PROVE  CommittedMeansInstalled'
    BY <1>29 DEF RestoreSave, CommittedMeansInstalled, SaveMarks
  <1>30. ASSUME CrashRecovery PROVE CommittedMeansInstalled'
    BY <1>30 DEF CrashRecovery, CommittedMeansInstalled, CutSave
  <1>31. ASSUME NEW f \in File, NEW c \in Image, Edit(f, c)
        PROVE  CommittedMeansInstalled'
    BY <1>31 DEF Edit, LockExcludes, JournalFollows, FilesFollow,
             CommittedMeansInstalled, Critical, Unstarted
  <1>32. CASE UNCHANGED vars
    BY <1>32 DEF vars, LockExcludes, JournalFollows, FilesFollow,
             CommittedMeansInstalled, Critical, Unstarted
  <1>33. QED
    BY <1>1, <1>2, <1>3, <1>4, <1>5, <1>6, <1>7, <1>8, <1>9, <1>10, <1>11,
        <1>12, <1>13, <1>14, <1>15, <1>16, <1>17, <1>18, <1>19, <1>20, <1>21,
        <1>22, <1>23, <1>24, <1>25, <1>26, <1>27, <1>28, <1>29, <1>30, <1>31,
        <1>32
    DEF Next, WorkerStep, RestoreStep

\* A journal becomes final only after its staged files are replaced or removed.
LEMMA NoStrayStagesStep ==
  ASSUME TypeOK, LockExcludes, JournalFollows, StagesFollow, RestoreFollows,
         NoStrayStages, [Next]_vars
  PROVE  NoStrayStages'
  <1> USE DEF TypeOK, Goto, plan, journal, restore, bounds
  <1>1. ASSUME NEW t \in Txn, Plan(t) PROVE NoStrayStages'
    BY <1>1 DEF Plan, NoStrayStages, Final
  <1>2. ASSUME NEW t \in Txn, Precheck(t) PROVE NoStrayStages'
    BY <1>2 DEF Precheck, NoStrayStages, Final
  <1>3. ASSUME NEW t \in Txn, Refuse(t) PROVE NoStrayStages'
    BY <1>3 DEF Refuse, NoStrayStages, Final
  <1>4. ASSUME NEW t \in Txn, Start(t) PROVE NoStrayStages'
    BY <1>4 DEF Start, NoStrayStages, Final
  <1>5. ASSUME NEW t \in Txn, BeginCommit(t) PROVE NoStrayStages'
    BY <1>5 DEF BeginCommit, NoStrayStages, Final
  <1>6. ASSUME NEW t \in Txn, Fault(t) PROVE NoStrayStages'
    BY <1>6 DEF Fault, NoStrayStages, Fail, Final
  <1>7. ASSUME NEW t \in Txn, Publish(t) PROVE NoStrayStages'
    BY <1>7 DEF Publish, NoStrayStages, Final
  <1>8. ASSUME NEW t \in Txn, Validate(t) PROVE NoStrayStages'
    <2>1. CASE InstalledCandidates(t)
              /\ verified' = [verified EXCEPT ![t] = TRUE]
              /\ Goto(t, "finalize")
      BY <2>1, <1>8 DEF Validate, NoStrayStages, Final
    <2>2. CASE Goto(t, "rollback") /\ UNCHANGED verified
      BY <2>2, <1>8 DEF Validate, NoStrayStages, Final
    <2>3. QED
      BY <2>1, <2>2, <1>8 DEF Validate
  <1>9. ASSUME NEW t \in Txn, Finalize(t) PROVE NoStrayStages'
    <2>1. CASE MayFinalize(t)
      BY <2>1, <1>9 DEF Finalize, NoStrayStages, MayFinalize, Final
    <2>2. CASE ~MayFinalize(t)
      BY <2>2, <1>9 DEF Finalize, NoStrayStages, MayFinalize, Final
    <2>3. QED
      BY <2>1, <2>2, <1>9 DEF Finalize
  <1>10. ASSUME NEW t \in Txn, Seal(t) PROVE NoStrayStages'
    BY <1>10 DEF Seal, LockExcludes, JournalFollows, StagesFollow,
             RestoreFollows, NoStrayStages, Critical, Unstarted, Final
  <1>11. ASSUME NEW t \in Txn, RollBack(t) PROVE NoStrayStages'
    BY <1>11 DEF RollBack, NoStrayStages, MayRollBack, Final
  <1>12. ASSUME NEW t \in Txn, RollBackFails(t) PROVE NoStrayStages'
    BY <1>12 DEF RollBackFails, NoStrayStages, MayRollBack, Final
  <1>13. ASSUME NEW t \in Txn, RestoreCleanup(t) PROVE NoStrayStages'
    BY <1>13 DEF RestoreCleanup, NoStrayStages, Final
  <1>14. ASSUME NEW t \in Txn, RestoreFinish(t) PROVE NoStrayStages'
    BY <1>14
    DEF RestoreFinish, LockExcludes, JournalFollows, StagesFollow,
        RestoreFollows, NoStrayStages, SaveMarks, EndRestore, Critical,
        Unstarted, Final
  <1>15. ASSUME NEW t \in Txn, Recover(t) PROVE NoStrayStages'
    BY <1>15 DEF Recover, NoStrayStages, MayRecover, Pending, Final
  <1>16. ASSUME NEW t \in Txn, RecoverFails(t) PROVE NoStrayStages'
    BY <1>16 DEF RecoverFails, NoStrayStages, MayRecover, Pending, Final
  <1>17. ASSUME NEW t \in Txn, Crash(t) PROVE NoStrayStages'
    BY <1>17 DEF Crash, NoStrayStages, CutSave, Running, Running, Final
  <1>18. ASSUME NEW t \in Txn, NEW f \in File, Stage(t, f) PROVE NoStrayStages'
    BY <1>18
    DEF Stage, CreateParents, LockExcludes, JournalFollows, StagesFollow, RestoreFollows,
        NoStrayStages, TakeBackup, BackupExact, Critical, Unstarted, Final
  <1>19. ASSUME NEW t \in Txn, NEW f \in File, StageFails(t, f)
        PROVE  NoStrayStages'
    BY <1>19 DEF StageFails, CreateParents, NoStrayStages, Fail, TakeBackup, BackupExact,
             Final
  <1>20. ASSUME NEW t \in Txn, NEW f \in File, Record(t, f)
        PROVE  NoStrayStages'
    BY <1>20 DEF Record, NoStrayStages, Final
  <1>21. ASSUME NEW t \in Txn, NEW f \in File, Check(t, f) PROVE NoStrayStages'
    <2>1. CASE Recheck(t, f)
      BY <2>1, <1>21 DEF Check, NoStrayStages, Fail, Recheck, Final
    <2>2. CASE ~Recheck(t, f)
      BY <2>2, <1>21 DEF Check, NoStrayStages, Fail, Recheck, Final
    <2>3. QED
      BY <2>1, <2>2, <1>21 DEF Check
  <1>22. ASSUME NEW t \in Txn, NEW f \in File, Replace(t, f)
        PROVE  NoStrayStages'
    BY <1>22 DEF Replace, NoStrayStages, Touch, Final
  <1>23. ASSUME NEW t \in Txn, NEW f \in File, Mark(t, f) PROVE NoStrayStages'
    BY <1>23 DEF Mark, NoStrayStages, Final
  <1>24. ASSUME NEW t \in Txn, NEW f \in File, RestoreSkip(t, f)
        PROVE  NoStrayStages'
    BY <1>24 DEF RestoreSkip, NoStrayStages, Skips, Final
  <1>25. ASSUME NEW t \in Txn, NEW f \in File, RestoreRefuse(t, f)
        PROVE  NoStrayStages'
    BY <1>25 DEF RestoreRefuse, NoStrayStages, SaveMarks, EndRestore, Refuses,
             Final
  <1>26. ASSUME NEW t \in Txn, RestoreFails(t)
        PROVE  NoStrayStages'
    <2>1. RestoreStops(t)
      BY <1>26, RestoreFailsEffect
    <2>2. QED
      BY <2>1 DEF RestoreStops, NoStrayStages, EndRestore, Final
  <1>27. ASSUME NEW t \in Txn, NEW f \in File, RestoreInspect(t, f)
        PROVE  NoStrayStages'
    BY <1>27 DEF RestoreInspect, NoStrayStages, Final
  <1>28. ASSUME NEW t \in Txn, NEW f \in File, RestorePut(t, f)
        PROVE  NoStrayStages'
    BY <1>28 DEF RestorePut, NoStrayStages, Touch, Final
  <1>29. ASSUME NEW t \in Txn, NEW f \in File, RestoreSave(t, f)
        PROVE  NoStrayStages'
    BY <1>29 DEF RestoreSave, NoStrayStages, SaveMarks, Final
  <1>30. ASSUME CrashRecovery PROVE NoStrayStages'
    BY <1>30 DEF CrashRecovery, NoStrayStages, CutSave, Final
  <1>31. ASSUME NEW f \in File, NEW c \in Image, Edit(f, c)
        PROVE  NoStrayStages'
    BY <1>31 DEF Edit, NoStrayStages, Final
  <1>32. CASE UNCHANGED vars
    BY <1>32 DEF vars, LockExcludes, JournalFollows, StagesFollow,
             RestoreFollows, NoStrayStages, Critical, Unstarted, Final
  <1>33. QED
    BY <1>1, <1>2, <1>3, <1>4, <1>5, <1>6, <1>7, <1>8, <1>9, <1>10, <1>11,
        <1>12, <1>13, <1>14, <1>15, <1>16, <1>17, <1>18, <1>19, <1>20, <1>21,
        <1>22, <1>23, <1>24, <1>25, <1>26, <1>27, <1>28, <1>29, <1>30, <1>31,
        <1>32
    DEF Next, WorkerStep, RestoreStep

\* The loop of _restore_from_manifest, run backwards over the entries, keeps
\* what it has passed restored and writes only verified backups.
LEMMA RestoreFollowsStep ==
  ASSUME TypeOK, LockExcludes, JournalFollows, UntouchedStaysRecoverable,
         RestoreFollows, [Next]_vars
  PROVE  RestoreFollows'
  <1> USE DEF TypeOK, Goto, plan, journal, restore, bounds
  <1>1. ASSUME NEW t \in Txn, Plan(t) PROVE RestoreFollows'
    BY <1>1
    DEF Plan, LockExcludes, JournalFollows, UntouchedStaysRecoverable,
        RestoreFollows, Critical, Unstarted, BackupVerified, HoldsPrevious,
        HoldsCandidate, Pending, Final, Last
  <1>2. ASSUME NEW t \in Txn, Precheck(t) PROVE RestoreFollows'
    BY <1>2 DEF Precheck, RestoreFollows, BackupVerified, HoldsPrevious, Last
  <1>3. ASSUME NEW t \in Txn, Refuse(t) PROVE RestoreFollows'
    BY <1>3 DEF Refuse, RestoreFollows, BackupVerified, HoldsPrevious, Last
  <1>4. ASSUME NEW t \in Txn, Start(t) PROVE RestoreFollows'
    BY <1>4 DEF Start, RestoreFollows, BackupVerified, HoldsPrevious, Last
  <1>5. ASSUME NEW t \in Txn, BeginCommit(t) PROVE RestoreFollows'
    BY <1>5 DEF BeginCommit, RestoreFollows, BackupVerified, HoldsPrevious,
            Last
  <1>6. ASSUME NEW t \in Txn, Fault(t) PROVE RestoreFollows'
    BY <1>6 DEF Fault, RestoreFollows, Fail, BackupVerified, HoldsPrevious,
            Last
  <1>7. ASSUME NEW t \in Txn, Publish(t) PROVE RestoreFollows'
    BY <1>7 DEF Publish, RestoreFollows, BackupVerified, HoldsPrevious, Last
  <1>8. ASSUME NEW t \in Txn, Validate(t) PROVE RestoreFollows'
    <2>1. CASE InstalledCandidates(t)
              /\ verified' = [verified EXCEPT ![t] = TRUE]
              /\ Goto(t, "finalize")
      BY <2>1, <1>8 DEF Validate, RestoreFollows, BackupVerified,
                  HoldsPrevious, Last
    <2>2. CASE Goto(t, "rollback") /\ UNCHANGED verified
      BY <2>2, <1>8 DEF Validate, RestoreFollows, BackupVerified,
                  HoldsPrevious, Last
    <2>3. QED
      BY <2>1, <2>2, <1>8 DEF Validate
  <1>9. ASSUME NEW t \in Txn, Finalize(t) PROVE RestoreFollows'
    <2>1. CASE MayFinalize(t)
      BY <2>1, <1>9 DEF Finalize, RestoreFollows, MayFinalize, BackupVerified,
                  HoldsPrevious, Last
    <2>2. CASE ~MayFinalize(t)
      BY <2>2, <1>9 DEF Finalize, RestoreFollows, MayFinalize, BackupVerified,
                  HoldsPrevious, Last
    <2>3. QED
      BY <2>1, <2>2, <1>9 DEF Finalize
  <1>10. ASSUME NEW t \in Txn, Seal(t) PROVE RestoreFollows'
    BY <1>10 DEF Seal, RestoreFollows, BackupVerified, HoldsPrevious, Last
  <1>11. ASSUME NEW t \in Txn, RollBack(t) PROVE RestoreFollows'
    BY <1>11 DEF RollBack, RestoreFollows, MayRollBack, BackupVerified,
             HoldsPrevious, Final, Last
  <1>12. ASSUME NEW t \in Txn, RollBackFails(t) PROVE RestoreFollows'
    BY <1>12 DEF RollBackFails, RestoreFollows, MayRollBack, BackupVerified,
             HoldsPrevious, Final, Last
  <1>13. ASSUME NEW t \in Txn, RestoreCleanup(t) PROVE RestoreFollows'
    BY <1>13 DEF RestoreCleanup, RestoreFollows, BackupVerified, HoldsPrevious,
             Last
  <1>14. ASSUME NEW t \in Txn, RestoreFinish(t) PROVE RestoreFollows'
    BY <1>14 DEF RestoreFinish, RestoreFollows, SaveMarks, EndRestore,
             BackupVerified, HoldsPrevious, Last
  <1>15. ASSUME NEW t \in Txn, Recover(t) PROVE RestoreFollows'
    BY <1>15 DEF Recover, RestoreFollows, MayRecover, Pending, BackupVerified,
             HoldsPrevious, Pending, Final, Last
  <1>16. ASSUME NEW t \in Txn, RecoverFails(t) PROVE RestoreFollows'
    BY <1>16 DEF RecoverFails, RestoreFollows, MayRecover, Pending,
             BackupVerified, HoldsPrevious, Pending, Final, Last
  <1>17. ASSUME NEW t \in Txn, Crash(t) PROVE RestoreFollows'
    <2>1. /\ rtxn' = Nobody \/ UNCHANGED restore
          /\ UNCHANGED <<disk, staged, backup, changes, previous, touched>>
      BY <1>17 DEF Crash, plan, restore
    <2>2. QED
      BY <2>1 DEF RestoreFollows, HoldsPrevious, BackupVerified, Last, restore
  <1>18. ASSUME NEW t \in Txn, NEW f \in File, Stage(t, f)
        PROVE  RestoreFollows'
    BY <1>18
    DEF Stage, CreateParents, LockExcludes, JournalFollows, UntouchedStaysRecoverable,
        RestoreFollows, TakeBackup, BackupExact, Critical, Unstarted,
        BackupVerified, HoldsPrevious, HoldsCandidate, Pending, Final, Last
  <1>19. ASSUME NEW t \in Txn, NEW f \in File, StageFails(t, f)
        PROVE  RestoreFollows'
    BY <1>19 DEF StageFails, CreateParents, RestoreFollows, Fail, TakeBackup, BackupExact,
             BackupVerified, HoldsPrevious, Last
  <1>20. ASSUME NEW t \in Txn, NEW f \in File, Record(t, f)
        PROVE  RestoreFollows'
    BY <1>20 DEF Record, RestoreFollows, BackupVerified, HoldsPrevious, Last
  <1>21. ASSUME NEW t \in Txn, NEW f \in File, Check(t, f)
        PROVE  RestoreFollows'
    <2>1. CASE Recheck(t, f)
      BY <2>1, <1>21 DEF Check, RestoreFollows, Fail, Recheck, BackupVerified,
                   HoldsPrevious, Last
    <2>2. CASE ~Recheck(t, f)
      BY <2>2, <1>21 DEF Check, RestoreFollows, Fail, Recheck, BackupVerified,
                   HoldsPrevious, Last
    <2>3. QED
      BY <2>1, <2>2, <1>21 DEF Check
  <1>22. ASSUME NEW t \in Txn, NEW f \in File, Replace(t, f)
        PROVE  RestoreFollows'
    BY <1>22, ZenonT(90)
    DEF Replace, LockExcludes, JournalFollows, UntouchedStaysRecoverable,
        RestoreFollows, Touch, Critical, Unstarted, BackupVerified,
        HoldsPrevious, HoldsCandidate, Pending, Final, Last
  <1>23. ASSUME NEW t \in Txn, NEW f \in File, Mark(t, f) PROVE RestoreFollows'
    BY <1>23 DEF Mark, RestoreFollows, BackupVerified, HoldsPrevious, Last
  <1>24. ASSUME NEW t \in Txn, NEW f \in File, RestoreSkip(t, f)
        PROVE  RestoreFollows'
    <2>1. /\ rtxn = t /\ rphase = "inspect" /\ Last(f, rtodo) /\ Skips(t, f)
          /\ rtodo' = rtodo \ {f}
          /\ UNCHANGED <<disk, staged, backup, jstate, jstatus, changes,
                         previous, rtxn, rphase, touched>>
      BY <1>24 DEF RestoreSkip, plan, journal
    <2>2. f \in touched[t] \/ HoldsPrevious(t, f)
      BY <2>1, TransactionAssumption
      DEF Skips, HoldsForeign, HoldsCandidate, HoldsPrevious, Last,
                  UntouchedStaysRecoverable, RestoreFollows, JournalFollows,
                  Pending, Final
    <2>3. QED
      BY <2>1, <2>2 DEF RestoreFollows, HoldsPrevious
  <1>25. ASSUME NEW t \in Txn, NEW f \in File, RestoreRefuse(t, f)
        PROVE  RestoreFollows'
    BY <1>25
    DEF RestoreRefuse, RestoreFollows, SaveMarks, EndRestore, Refuses,
        BackupVerified, HoldsPrevious, HoldsCandidate, HoldsForeign, Last,
        Refuses
  <1>26. ASSUME NEW t \in Txn, RestoreFails(t)
        PROVE  RestoreFollows'
    <2>1. RestoreStops(t)
      BY <1>26, RestoreFailsEffect
    <2>2. QED
      BY <2>1 DEF RestoreStops, RestoreFollows, EndRestore, BackupVerified,
         HoldsPrevious, HoldsCandidate, HoldsForeign, Last
  <1>27. ASSUME NEW t \in Txn, NEW f \in File, RestoreInspect(t, f)
        PROVE  RestoreFollows'
    <2>1. /\ rtxn = t /\ rphase = "inspect" /\ Last(f, rtodo)
          /\ ~Skips(t, f) /\ ~Refuses(t, f)
          /\ rphase' = "put"
          /\ UNCHANGED <<disk, staged, backup, changes, previous, rtxn, rtodo,
                         touched>>
      BY <1>27 DEF RestoreInspect, plan
    <2>2. BackupVerified(t, f)
      BY <2>1 DEF Skips, Refuses, HoldsForeign, HoldsCandidate, HoldsPrevious
    <2>3. \A g \in rtodo : Last(g, rtodo) => g = f
      BY <2>1, LastIsUnique
    <2>4. \A g \in rtodo' : Last(g, rtodo') => BackupVerified(t, g)'
      BY <2>1, <2>2, <2>3 DEF BackupVerified
    <2>5. QED
      BY <2>1, <2>4 DEF RestoreFollows, HoldsPrevious
  <1>28. ASSUME NEW t \in Txn, NEW f \in File, RestorePut(t, f)
        PROVE  RestoreFollows'
    <2>1. /\ rtxn = t /\ rphase = "put" /\ Last(f, rtodo)
          /\ disk' = [disk EXCEPT ![f] = IF previous[t][f] = Absent
                                         THEN Absent ELSE backup[t][f]]
          /\ rphase' = "save"
          /\ \A u \in Txn : touched[u] \subseteq touched'[u]
          /\ UNCHANGED <<staged, backup, changes, previous, rtxn, rtodo>>
      BY <1>28 DEF RestorePut, Touch, plan, TypeOK
    <2>2. f \in File /\ BackupVerified(t, f)
      BY <2>1, TransactionAssumption DEF RestoreFollows, Last, TypeOK
    <2>3. disk' = [disk EXCEPT ![f] = previous[t][f]]
      BY <2>1, <2>2 DEF BackupVerified
    <2>4. \A g \in rtodo : Last(g, rtodo) => g = f
      BY <2>1, LastIsUnique
    <2>5. HoldsPrevious(t, f)'
      BY <2>1, <2>2, <2>3 DEF HoldsPrevious, TypeOK
    <2>6. \A g \in File : g \notin rtodo =>
            (HoldsPrevious(t, g) => HoldsPrevious(t, g)')
      BY <2>1, <2>3 DEF HoldsPrevious, TypeOK, Last
    <2>7. \A g \in changes'[t] \ touched'[t] :
            g \notin rtodo' \/ (rphase' = "save" /\ Last(g, rtodo'))
              => HoldsPrevious(t, g)'
      BY <2>1, <2>4, <2>5, <2>6, TransactionAssumption DEF RestoreFollows
    <2>8. QED
      BY <2>1, <2>7 DEF RestoreFollows
  <1>29. ASSUME NEW t \in Txn, NEW f \in File, RestoreSave(t, f)
        PROVE  RestoreFollows'
    BY <1>29 DEF RestoreSave, RestoreFollows, SaveMarks, BackupVerified,
             HoldsPrevious, Last
  <1>30. ASSUME CrashRecovery PROVE RestoreFollows'
    BY <1>30 DEF CrashRecovery, RestoreFollows, CutSave, BackupVerified,
             HoldsPrevious, Last
  <1>31. ASSUME NEW f \in File, NEW c \in Image, Edit(f, c)
        PROVE  RestoreFollows'
    <2>1. /\ \A g \in File : g # f => disk'[g] = disk[g]
          /\ \A u \in Txn : touched[u] \subseteq touched'[u]
          /\ \A u \in Txn : pc[u] # "idle" => f \in touched'[u]
          /\ UNCHANGED <<staged, backup, jstate, changes, previous, rtxn,
                         rphase, rtodo>>
      BY <1>31 DEF Edit, TypeOK, plan, journal, restore
    <2>2. rtxn # Nobody => rtxn \in Txn /\ pc[rtxn] # "idle"
      BY DEF JournalFollows, Unstarted, TypeOK
    <2>3. rtxn # Nobody =>
            \A g \in changes'[rtxn] \ touched'[rtxn] :
              /\ g \in changes[rtxn] \ touched[rtxn]
              /\ HoldsPrevious(rtxn, g) => HoldsPrevious(rtxn, g)'
      BY <2>1, <2>2 DEF TypeOK, HoldsPrevious
    <2>4. \A g \in File : BackupVerified(rtxn, g)' <=> BackupVerified(rtxn, g)
      BY <2>1 DEF BackupVerified
    <2>5. rtxn # Nobody =>
            \A g \in changes'[rtxn] \ touched'[rtxn] :
              g \notin rtodo' \/ (rphase' = "save" /\ Last(g, rtodo'))
                => HoldsPrevious(rtxn, g)'
      BY <2>1, <2>3 DEF RestoreFollows, Last
    <2>6. rtxn # Nobody /\ rphase' = "put" =>
            \A g \in rtodo' : Last(g, rtodo') => BackupVerified(rtxn, g)'
      BY <2>1, <2>4 DEF RestoreFollows, TypeOK
    <2>7. QED
      BY <2>1, <2>5, <2>6 DEF RestoreFollows
  <1>32. CASE UNCHANGED vars
    BY <1>32
    DEF vars, LockExcludes, JournalFollows, UntouchedStaysRecoverable,
        RestoreFollows, Critical, Unstarted, BackupVerified, HoldsPrevious,
        HoldsCandidate, Pending, Final, Last
  <1>33. QED
    BY <1>1, <1>2, <1>3, <1>4, <1>5, <1>6, <1>7, <1>8, <1>9, <1>10, <1>11,
        <1>12, <1>13, <1>14, <1>15, <1>16, <1>17, <1>18, <1>19, <1>20, <1>21,
        <1>22, <1>23, <1>24, <1>25, <1>26, <1>27, <1>28, <1>29, <1>30, <1>31,
        <1>32
    DEF Next, WorkerStep, RestoreStep

\* When edits do not race, the digest that was checked still holds at the write.
LEMMA ChecksHoldStep ==
  ASSUME TypeOK, LockExcludes, JournalFollows, ChecksHold, [Next]_vars
  PROVE  ChecksHold'
  <1> USE DEF TypeOK, Goto, plan, journal, restore, bounds
  <1>1. ASSUME NEW t \in Txn, Plan(t) PROVE ChecksHold'
    BY <1>1 DEF Plan, LockExcludes, JournalFollows, ChecksHold, Critical,
            Unstarted, HoldsPrevious, HoldsCandidate, First, Last
  <1>2. ASSUME NEW t \in Txn, Precheck(t) PROVE ChecksHold'
    BY <1>2 DEF Precheck, ChecksHold, HoldsPrevious, HoldsCandidate, First,
            Last
  <1>3. ASSUME NEW t \in Txn, Refuse(t) PROVE ChecksHold'
    BY <1>3 DEF Refuse, ChecksHold, HoldsPrevious, HoldsCandidate, First, Last
  <1>4. ASSUME NEW t \in Txn, Start(t) PROVE ChecksHold'
    BY <1>4 DEF Start, ChecksHold, HoldsPrevious, HoldsCandidate, First, Last
  <1>5. ASSUME NEW t \in Txn, BeginCommit(t) PROVE ChecksHold'
    BY <1>5 DEF BeginCommit, ChecksHold, HoldsPrevious, HoldsCandidate, First,
            Last
  <1>6. ASSUME NEW t \in Txn, Fault(t) PROVE ChecksHold'
    BY <1>6 DEF Fault, ChecksHold, Fail, HoldsPrevious, HoldsCandidate, First,
            Last
  <1>7. ASSUME NEW t \in Txn, Publish(t) PROVE ChecksHold'
    BY <1>7 DEF Publish, ChecksHold, HoldsPrevious, HoldsCandidate, First, Last
  <1>8. ASSUME NEW t \in Txn, Validate(t) PROVE ChecksHold'
    <2>1. CASE InstalledCandidates(t)
              /\ verified' = [verified EXCEPT ![t] = TRUE]
              /\ Goto(t, "finalize")
      BY <2>1, <1>8 DEF Validate, ChecksHold, HoldsPrevious, HoldsCandidate,
                  First, Last, InstalledCandidates
    <2>2. CASE Goto(t, "rollback") /\ UNCHANGED verified
      BY <2>2, <1>8 DEF Validate, ChecksHold, HoldsPrevious, HoldsCandidate,
                  First, Last, InstalledCandidates
    <2>3. QED
      BY <2>1, <2>2, <1>8 DEF Validate
  <1>9. ASSUME NEW t \in Txn, Finalize(t) PROVE ChecksHold'
    <2>1. /\ pc[t] = "finalize"
          /\ pc' = [pc EXCEPT ![t] = pc'[t]]
          /\ pc'[t] \in {"seal", "rollback"}
          /\ pc'[t] = "seal" => InstalledCandidates(t)
          /\ UNCHANGED <<disk, changes, previous, todo, rtxn, rphase, rtodo>>
      BY <1>9 DEF Finalize, MayFinalize, Goto, plan, restore, TypeOK
    <2>2. \A u \in Txn : pc'[u] = "replace" => pc[u] = "replace"
      BY <2>1 DEF TypeOK
    <2>3. \A u \in Txn :
            pc'[u] = "seal" => pc[u] = "seal" \/ InstalledCandidates(u)
      BY <2>1 DEF TypeOK
    <2>4. ~EditsRaceReplace => \A u \in Txn : pc'[u] = "replace" =>
            \A f \in todo'[u] : First(f, todo'[u]) => HoldsPrevious(u, f)'
      BY <2>1, <2>2 DEF ChecksHold, HoldsPrevious
    <2>5. ~EditsRaceReplace => \A u \in Txn : pc'[u] = "seal" =>
            \A f \in changes'[u] : disk'[f] = Candidate[u][f]
      BY <2>1, <2>3 DEF ChecksHold, InstalledCandidates
    <2>6. ~EditsRaceReplace /\ rphase' = "put" =>
            \A f \in rtodo' : Last(f, rtodo') => HoldsCandidate(rtxn, f)'
      BY <2>1 DEF ChecksHold, HoldsPrevious, HoldsCandidate
    <2>7. QED
      BY <2>4, <2>5, <2>6 DEF ChecksHold
  <1>10. ASSUME NEW t \in Txn, Seal(t) PROVE ChecksHold'
    BY <1>10 DEF Seal, ChecksHold, HoldsPrevious, HoldsCandidate, First, Last
  <1>11. ASSUME NEW t \in Txn, RollBack(t) PROVE ChecksHold'
    BY <1>11 DEF RollBack, ChecksHold, MayRollBack, HoldsPrevious,
             HoldsCandidate, First, Last
  <1>12. ASSUME NEW t \in Txn, RollBackFails(t) PROVE ChecksHold'
    BY <1>12 DEF RollBackFails, ChecksHold, MayRollBack, HoldsPrevious,
             HoldsCandidate, First, Last
  <1>13. ASSUME NEW t \in Txn, RestoreCleanup(t) PROVE ChecksHold'
    BY <1>13 DEF RestoreCleanup, ChecksHold, HoldsPrevious, HoldsCandidate,
             First, Last
  <1>14. ASSUME NEW t \in Txn, RestoreFinish(t) PROVE ChecksHold'
    BY <1>14 DEF RestoreFinish, ChecksHold, SaveMarks, EndRestore,
             HoldsPrevious, HoldsCandidate, First, Last
  <1>15. ASSUME NEW t \in Txn, Recover(t) PROVE ChecksHold'
    BY <1>15 DEF Recover, ChecksHold, MayRecover, Pending, HoldsPrevious,
             HoldsCandidate, First, Last
  <1>16. ASSUME NEW t \in Txn, RecoverFails(t) PROVE ChecksHold'
    BY <1>16 DEF RecoverFails, ChecksHold, MayRecover, Pending, HoldsPrevious,
             HoldsCandidate, First, Last
  <1>17. ASSUME NEW t \in Txn, Crash(t) PROVE ChecksHold'
    <2>1. /\ \A u \in Txn : pc'[u] \in {pc[u], "crashed"}
          /\ rphase' = "put" => rphase = "put" /\ UNCHANGED <<rtxn, rtodo>>
          /\ UNCHANGED <<disk, changes, previous, todo>>
      BY <1>17 DEF Crash, Goto, plan, restore, TypeOK
    <2>2. \A u \in Txn : /\ pc'[u] = "replace" => pc[u] = "replace"
                        /\ pc'[u] = "seal" => pc[u] = "seal"
      BY <2>1
    <2>3. ~EditsRaceReplace => \A u \in Txn : pc'[u] = "replace" =>
            \A f \in todo'[u] : First(f, todo'[u]) => HoldsPrevious(u, f)'
      BY <2>1, <2>2, ZenonT(60) DEF ChecksHold, HoldsPrevious
    <2>4. ~EditsRaceReplace => \A u \in Txn : pc'[u] = "seal" =>
            \A f \in changes'[u] : disk'[f] = Candidate[u][f]
      BY <2>1, <2>2 DEF ChecksHold
    <2>5. ~EditsRaceReplace /\ rphase' = "put" =>
            \A f \in rtodo' : Last(f, rtodo') => HoldsCandidate(rtxn, f)'
      BY <2>1 DEF ChecksHold, HoldsPrevious, HoldsCandidate
    <2>6. QED
      BY <2>3, <2>4, <2>5 DEF ChecksHold
  <1>18. ASSUME NEW t \in Txn, NEW f \in File, Stage(t, f) PROVE ChecksHold'
    BY <1>18 DEF Stage, CreateParents, ChecksHold, TakeBackup, BackupExact, HoldsPrevious,
             HoldsCandidate, First, Last
  <1>19. ASSUME NEW t \in Txn, NEW f \in File, StageFails(t, f)
        PROVE  ChecksHold'
    BY <1>19 DEF StageFails, CreateParents, ChecksHold, Fail, TakeBackup, BackupExact,
             HoldsPrevious, HoldsCandidate, First, Last
  <1>20. ASSUME NEW t \in Txn, NEW f \in File, Record(t, f) PROVE ChecksHold'
    BY <1>20 DEF Record, ChecksHold, HoldsPrevious, HoldsCandidate, First, Last
  <1>21. ASSUME NEW t \in Txn, NEW f \in File, Check(t, f) PROVE ChecksHold'
    <2>1. /\ pc[t] = "check" /\ First(f, todo[t])
          /\ pc' = [pc EXCEPT ![t] = pc'[t]]
          /\ pc'[t] \in {"replace", "restoring"}
          /\ pc'[t] = "replace" => HoldsPrevious(t, f)
          /\ rphase' \in {rphase, "inspect"}
          /\ rphase' = "put" => UNCHANGED <<rtxn, rtodo>>
          /\ UNCHANGED <<disk, changes, previous, todo>>
      BY <1>21 DEF Check, Fail, Recheck, Goto, plan, restore, TypeOK
    <2>2. \A g \in todo[t] : First(g, todo[t]) => g = f
      BY <2>1, FirstIsUnique
    <2>3. pc'[t] = "replace" =>
            \A g \in todo'[t] : First(g, todo'[t]) => HoldsPrevious(t, g)'
      BY <2>1, <2>2 DEF HoldsPrevious
    <2>4. ~EditsRaceReplace => \A u \in Txn : pc'[u] = "replace" =>
            \A g \in todo'[u] : First(g, todo'[u]) => HoldsPrevious(u, g)'
      <3>1. HAVE ~EditsRaceReplace
      <3>2. TAKE u \in Txn
      <3>3. CASE u = t
        BY <2>3, <3>3
      <3>4. CASE u # t
        BY <2>1, <3>1, <3>4 DEF ChecksHold, HoldsPrevious, TypeOK
      <3>5. QED
        BY <3>3, <3>4
    <2>5. ~EditsRaceReplace /\ rphase' = "put" =>
            \A g \in rtodo' : Last(g, rtodo') => HoldsCandidate(rtxn, g)'
      BY <2>1 DEF ChecksHold, HoldsPrevious, HoldsCandidate
    <2>6. QED
      BY <2>1, <2>4, <2>5 DEF ChecksHold, TypeOK
  <1>22. ASSUME NEW t \in Txn, NEW f \in File, Replace(t, f) PROVE ChecksHold'
    BY <1>22, TransactionAssumption
    DEF Replace, LockExcludes, JournalFollows, ChecksHold, Touch, Critical,
        Unstarted, HoldsPrevious, HoldsCandidate, First, Last
  <1>23. ASSUME NEW t \in Txn, NEW f \in File, Mark(t, f) PROVE ChecksHold'
    BY <1>23 DEF Mark, ChecksHold, HoldsPrevious, HoldsCandidate, First, Last
  <1>24. ASSUME NEW t \in Txn, NEW f \in File, RestoreSkip(t, f)
        PROVE  ChecksHold'
    BY <1>24 DEF RestoreSkip, ChecksHold, Skips, HoldsPrevious, HoldsCandidate,
             HoldsForeign, First, Last, Skips
  <1>25. ASSUME NEW t \in Txn, NEW f \in File, RestoreRefuse(t, f)
        PROVE  ChecksHold'
    BY <1>25 DEF RestoreRefuse, ChecksHold, SaveMarks, EndRestore, Refuses,
             HoldsPrevious, HoldsCandidate, HoldsForeign, First, Last, Refuses
  <1>26. ASSUME NEW t \in Txn, RestoreFails(t)
        PROVE  ChecksHold'
    <2>1. RestoreStops(t)
      BY <1>26, RestoreFailsEffect
    <2>2. QED
      BY <2>1 DEF RestoreStops, ChecksHold, EndRestore, HoldsPrevious,
         HoldsCandidate, HoldsForeign, First, Last
  <1>27. ASSUME NEW t \in Txn, NEW f \in File, RestoreInspect(t, f)
        PROVE  ChecksHold'
    <2>1. /\ rtxn = t /\ rphase = "inspect" /\ Last(f, rtodo)
          /\ ~Skips(t, f) /\ ~Refuses(t, f)
          /\ UNCHANGED <<disk, jstatus, changes, previous, pc, todo, rtxn,
                         rtodo>>
      BY <1>27 DEF RestoreInspect, plan, journal
    <2>2. HoldsCandidate(t, f)
      BY <2>1 DEF Skips, HoldsForeign, Refuses
    <2>3. \A g \in rtodo : Last(g, rtodo) => g = f
      BY <2>1, LastIsUnique
    <2>4. \A g \in rtodo' : Last(g, rtodo') => HoldsCandidate(rtxn, g)'
      BY <2>1, <2>2, <2>3 DEF HoldsCandidate, HoldsPrevious
    <2>5. QED
      BY <2>1, <2>4 DEF ChecksHold, HoldsPrevious
  <1>28. ASSUME NEW t \in Txn, NEW f \in File, RestorePut(t, f)
        PROVE  ChecksHold'
    BY <1>28, TransactionAssumption
    DEF RestorePut, LockExcludes, JournalFollows, ChecksHold, Touch, Critical,
        Unstarted, HoldsPrevious, HoldsCandidate, First, Last
  <1>29. ASSUME NEW t \in Txn, NEW f \in File, RestoreSave(t, f)
        PROVE  ChecksHold'
    BY <1>29 DEF RestoreSave, ChecksHold, SaveMarks, HoldsPrevious,
             HoldsCandidate, First, Last
  <1>30. ASSUME CrashRecovery PROVE ChecksHold'
    BY <1>30 DEF CrashRecovery, ChecksHold, CutSave, HoldsPrevious,
             HoldsCandidate, First, Last
  <1>31. ASSUME NEW f \in File, NEW c \in Image, Edit(f, c) PROVE ChecksHold'
    BY <1>31 DEF Edit, ChecksHold, HoldsPrevious, HoldsCandidate, First, Last,
             WindowOpen
  <1>32. CASE UNCHANGED vars
    BY <1>32 DEF vars, LockExcludes, JournalFollows, ChecksHold, Critical,
             Unstarted, HoldsPrevious, HoldsCandidate, First, Last
  <1>33. QED
    BY <1>1, <1>2, <1>3, <1>4, <1>5, <1>6, <1>7, <1>8, <1>9, <1>10, <1>11,
        <1>12, <1>13, <1>14, <1>15, <1>16, <1>17, <1>18, <1>19, <1>20, <1>21,
        <1>22, <1>23, <1>24, <1>25, <1>26, <1>27, <1>28, <1>29, <1>30, <1>31,
        <1>32
    DEF Next, WorkerStep, RestoreStep

-----------------------------------------------------------------------------

\* A configuration that nobody has planned to change satisfies the invariant.
LEMMA InitInductive ==
  ASSUME Init
  PROVE  TypeOK /\ Inductive
  <1>1. TypeOK
    BY TransactionAssumption
   
    DEF Init, TypeOK, Image, JournalStates, EntryStatuses, Phases,
        RestorePhases
  <1>2. LockExcludes /\ JournalFollows
    BY TransactionAssumption
    DEF Init, LockExcludes, JournalFollows, Critical, Unstarted
  <1>3. EntriesPrepared /\ FilesFollow /\ StagesFollow
    BY DEF Init, EntriesPrepared, FilesFollow, StagesFollow, Unstarted
  <1>4. RestoreFollows /\ ChecksHold
    BY DEF Init, RestoreFollows, ChecksHold
  <1>5. BackupsReproducePlan /\ UntouchedStaysRecoverable
    BY DEF Init, BackupsReproducePlan, UntouchedStaysRecoverable
  <1>6. UndoneMeansRestored /\ CommittedMeansInstalled /\ NoStrayStages
    BY DEF Init, UndoneMeansRestored, CommittedMeansInstalled, NoStrayStages
  <1>7. QED
    BY <1>1, <1>2, <1>3, <1>4, <1>5, <1>6 DEF Inductive

\* TypeOK and Inductive hold in every reachable state of the engine.
THEOREM InductiveInvariant == Spec => [](TypeOK /\ Inductive)
  <1>1. Init => TypeOK /\ Inductive
    BY InitInductive
  <1>2. TypeOK /\ Inductive /\ [Next]_vars => (TypeOK /\ Inductive)'
    <2>1. SUFFICES ASSUME TypeOK, Inductive, [Next]_vars
                   PROVE  TypeOK' /\ Inductive'
      OBVIOUS
    <2>2. TypeOK'
      BY <2>1, TypeOKStep
    <2>3. LockExcludes' /\ JournalFollows' /\ EntriesPrepared'
      BY <2>1, LockExcludesStep, JournalFollowsStep, EntriesPreparedStep
      DEF Inductive
    <2>4. FilesFollow' /\ StagesFollow' /\ BackupsReproducePlan'
      BY <2>1, FilesFollowStep, StagesFollowStep, BackupsReproducePlanStep
      DEF Inductive
    <2>5. UntouchedStaysRecoverable' /\ UndoneMeansRestored'
      BY <2>1, UntouchedStaysRecoverableStep, UndoneMeansRestoredStep
      DEF Inductive
    <2>6. CommittedMeansInstalled' /\ NoStrayStages'
      BY <2>1, CommittedMeansInstalledStep, NoStrayStagesStep DEF Inductive
    <2>7. RestoreFollows' /\ ChecksHold'
      BY <2>1, RestoreFollowsStep, ChecksHoldStep DEF Inductive
    <2>8. QED
      BY <2>2, <2>3, <2>4, <2>5, <2>6, <2>7 DEF Inductive
  <1>3. QED
    BY <1>1, <1>2, PTL DEF Spec

\* Type correctness of the engine.
THEOREM TypeCorrect == Spec => []TypeOK
  BY InductiveInvariant, PTL

\* The journal lock really excludes: at most one worker is between the taking
\* and the release of transaction.lock, and none while a recovery runs.
THEOREM LockIsExclusive == Spec => []LockExcludes
  <1>1. Inductive => LockExcludes
    BY DEF Inductive
  <1>2. QED
    BY <1>1, InductiveInvariant, PTL

\* The backup of a prepared or replaced file is the file of the plan.
THEOREM BackupsAreExact == Spec => []BackupsReproducePlan
  <1>1. Inductive => BackupsReproducePlan
    BY DEF Inductive
  <1>2. QED
    BY <1>1, InductiveInvariant, PTL

\* Wherever a crash falls, an unfinished transaction can be undone on every file
\* that nobody else wrote: _apply_validated_changes loses no content.
THEOREM AlwaysRecoverable == Spec => []UntouchedStaysRecoverable
  <1>1. Inductive => UntouchedStaysRecoverable
    BY DEF Inductive
  <1>2. QED
    BY <1>1, InductiveInvariant, PTL

\* rolled-back and recovered mean that the untouched files are what they were.
THEOREM UndoIsComplete == Spec => []UndoneMeansRestored
  <1>1. Inductive => UndoneMeansRestored
    BY DEF Inductive
  <1>2. QED
    BY <1>1, InductiveInvariant, PTL

\* committed means evaluated and installed.
THEOREM CommitIsVerified == Spec => []CommittedMeansInstalled
  <1>1. Inductive => CommittedMeansInstalled
    BY DEF Inductive
  <1>2. QED
    BY <1>1, InductiveInvariant, PTL

\* A finished transaction leaves no staged file in the configuration.
THEOREM StagesAreRemoved == Spec => []NoStrayStages
  <1>1. Inductive => NoStrayStages
    BY DEF Inductive
  <1>2. QED
    BY <1>1, InductiveInvariant, PTL

-----------------------------------------------------------------------------
\* No step writes the state of a journal that is final: the two refusals of
\* _rollback_transaction and _recover_pending_transactions, and the states in
\* which everything else writes.
LEMMA FinalStaysStep ==
  ASSUME TypeOK, LockExcludes, JournalFollows, [Next]_vars
  PROVE  FinalStays
  <1> USE DEF FinalStays, Goto, plan, journal, restore, bounds
  <1>1. ASSUME NEW t \in Txn, Plan(t) PROVE FinalStays
    BY <1>1 DEF Plan
  <1>2. ASSUME NEW t \in Txn, Precheck(t) PROVE FinalStays
    BY <1>2 DEF Precheck
  <1>3. ASSUME NEW t \in Txn, Refuse(t) PROVE FinalStays
    BY <1>3 DEF Refuse
  <1>4. ASSUME NEW t \in Txn, Start(t) PROVE FinalStays
    BY <1>4 DEF Start, TypeOK, LockExcludes, JournalFollows, Critical,
            Unstarted, Final
  <1>5. ASSUME NEW t \in Txn, BeginCommit(t) PROVE FinalStays
    BY <1>5 DEF BeginCommit, TypeOK, LockExcludes, JournalFollows, Critical,
            Unstarted, Final
  <1>6. ASSUME NEW t \in Txn, Fault(t) PROVE FinalStays
    BY <1>6 DEF Fault, TypeOK, LockExcludes, JournalFollows, Fail, Critical,
            Unstarted, Final
  <1>7. ASSUME NEW t \in Txn, Publish(t) PROVE FinalStays
    BY <1>7 DEF Publish, TypeOK, LockExcludes, JournalFollows, Critical,
            Unstarted, Final
  <1>8. ASSUME NEW t \in Txn, Validate(t) PROVE FinalStays
    BY <1>8 DEF Validate
  <1>9. ASSUME NEW t \in Txn, Finalize(t) PROVE FinalStays
    BY <1>9 DEF Finalize
  <1>10. ASSUME NEW t \in Txn, Seal(t) PROVE FinalStays
    BY <1>10 DEF Seal, TypeOK, LockExcludes, JournalFollows, Critical,
             Unstarted, Final
  <1>11. ASSUME NEW t \in Txn, RollBack(t) PROVE FinalStays
    BY <1>11 DEF RollBack, TypeOK, LockExcludes, JournalFollows, MayRollBack,
             Critical, Unstarted, Final
  <1>12. ASSUME NEW t \in Txn, RollBackFails(t) PROVE FinalStays
    BY <1>12 DEF RollBackFails
  <1>13. ASSUME NEW t \in Txn, RestoreCleanup(t) PROVE FinalStays
    BY <1>13 DEF RestoreCleanup
  <1>14. ASSUME NEW t \in Txn, RestoreFinish(t) PROVE FinalStays
    BY <1>14 DEF RestoreFinish, TypeOK, LockExcludes, JournalFollows,
             SaveMarks, EndRestore, Critical, Unstarted, Final
  <1>15. ASSUME NEW t \in Txn, Recover(t) PROVE FinalStays
    BY <1>15 DEF Recover, TypeOK, LockExcludes, JournalFollows, MayRecover,
             Pending, Critical, Unstarted, Final
  <1>16. ASSUME NEW t \in Txn, RecoverFails(t) PROVE FinalStays
    BY <1>16 DEF RecoverFails
  <1>17. ASSUME NEW t \in Txn, Crash(t) PROVE FinalStays
    BY <1>17 DEF Crash
  <1>18. ASSUME NEW t \in Txn, NEW f \in File, Stage(t, f) PROVE FinalStays
    BY <1>18 DEF Stage, CreateParents
  <1>19. ASSUME NEW t \in Txn, NEW f \in File, StageFails(t, f)
        PROVE  FinalStays
    BY <1>19 DEF StageFails, CreateParents, TypeOK, LockExcludes, JournalFollows, Fail,
             TakeBackup, BackupExact, Critical, Unstarted, Final
  <1>20. ASSUME NEW t \in Txn, NEW f \in File, Record(t, f) PROVE FinalStays
    BY <1>20 DEF Record
  <1>21. ASSUME NEW t \in Txn, NEW f \in File, Check(t, f) PROVE FinalStays
    BY <1>21 DEF Check, TypeOK, LockExcludes, JournalFollows, Fail, Recheck,
             Critical, Unstarted, Final
  <1>22. ASSUME NEW t \in Txn, NEW f \in File, Replace(t, f) PROVE FinalStays
    BY <1>22 DEF Replace
  <1>23. ASSUME NEW t \in Txn, NEW f \in File, Mark(t, f) PROVE FinalStays
    BY <1>23 DEF Mark
  <1>24. ASSUME NEW t \in Txn, NEW f \in File, RestoreSkip(t, f)
        PROVE  FinalStays
    BY <1>24 DEF RestoreSkip
  <1>25. ASSUME NEW t \in Txn, NEW f \in File, RestoreRefuse(t, f)
        PROVE  FinalStays
    BY <1>25 DEF RestoreRefuse, TypeOK, LockExcludes, JournalFollows,
             SaveMarks, EndRestore, Refuses, Critical, Unstarted, Final
  <1>26. ASSUME NEW t \in Txn, RestoreFails(t)
        PROVE  FinalStays
    <2>1. RestoreStops(t)
      BY <1>26, RestoreFailsEffect
    <2>2. /\ jstate[t] \in {"rolling-back", "recovering"}
          /\ \A u \in Txn \ {t} : jstate'[u] = jstate[u]
      BY <2>1 DEF RestoreStops, JournalFollows, TypeOK
    <2>3. QED
      BY <2>2 DEF FinalStays, Final
  <1>27. ASSUME NEW t \in Txn, NEW f \in File, RestoreInspect(t, f)
        PROVE  FinalStays
    BY <1>27 DEF RestoreInspect
  <1>28. ASSUME NEW t \in Txn, NEW f \in File, RestorePut(t, f)
        PROVE  FinalStays
    BY <1>28 DEF RestorePut
  <1>29. ASSUME NEW t \in Txn, NEW f \in File, RestoreSave(t, f)
        PROVE  FinalStays
    BY <1>29 DEF RestoreSave
  <1>30. ASSUME CrashRecovery PROVE FinalStays
    BY <1>30 DEF CrashRecovery
  <1>31. ASSUME NEW f \in File, NEW c \in Image, Edit(f, c) PROVE FinalStays
    BY <1>31 DEF Edit
  <1>32. CASE UNCHANGED vars
    BY <1>32 DEF vars
  <1>33. QED
    BY <1>1, <1>2, <1>3, <1>4, <1>5, <1>6, <1>7, <1>8, <1>9, <1>10, <1>11,
        <1>12, <1>13, <1>14, <1>15, <1>16, <1>17, <1>18, <1>19, <1>20, <1>21,
        <1>22, <1>23, <1>24, <1>25, <1>26, <1>27, <1>28, <1>29, <1>30, <1>31,
        <1>32
    DEF Next, WorkerStep, RestoreStep

\* Only Seal writes committed, and what MayFinalize compared is still installed.
LEMMA SealSeesStep ==
  ASSUME TypeOK, LockExcludes, JournalFollows, ChecksHold, ~EditsRaceReplace,
         [Next]_vars
  PROVE  SealSeesCandidates
  <1> USE DEF SealSeesCandidates, Goto, plan, journal, restore, bounds
  <1>1. ASSUME NEW t \in Txn, Plan(t) PROVE SealSeesCandidates
    BY <1>1 DEF Plan
  <1>2. ASSUME NEW t \in Txn, Precheck(t) PROVE SealSeesCandidates
    BY <1>2 DEF Precheck
  <1>3. ASSUME NEW t \in Txn, Refuse(t) PROVE SealSeesCandidates
    BY <1>3 DEF Refuse
  <1>4. ASSUME NEW t \in Txn, Start(t) PROVE SealSeesCandidates
    BY <1>4 DEF Start, TypeOK, LockExcludes, JournalFollows, ChecksHold,
            Critical, Unstarted, InstalledCandidates
  <1>5. ASSUME NEW t \in Txn, BeginCommit(t) PROVE SealSeesCandidates
    BY <1>5 DEF BeginCommit, TypeOK, LockExcludes, JournalFollows, ChecksHold,
            Critical, Unstarted, InstalledCandidates
  <1>6. ASSUME NEW t \in Txn, Fault(t) PROVE SealSeesCandidates
    BY <1>6 DEF Fault, TypeOK, LockExcludes, JournalFollows, ChecksHold, Fail,
            Critical, Unstarted, InstalledCandidates
  <1>7. ASSUME NEW t \in Txn, Publish(t) PROVE SealSeesCandidates
    BY <1>7 DEF Publish, TypeOK, LockExcludes, JournalFollows, ChecksHold,
            Critical, Unstarted, InstalledCandidates
  <1>8. ASSUME NEW t \in Txn, Validate(t) PROVE SealSeesCandidates
    BY <1>8 DEF Validate
  <1>9. ASSUME NEW t \in Txn, Finalize(t) PROVE SealSeesCandidates
    BY <1>9 DEF Finalize
  <1>10. ASSUME NEW t \in Txn, Seal(t) PROVE SealSeesCandidates
    BY <1>10 DEF Seal, TypeOK, LockExcludes, JournalFollows, ChecksHold,
             Critical, Unstarted, InstalledCandidates
  <1>11. ASSUME NEW t \in Txn, RollBack(t) PROVE SealSeesCandidates
    BY <1>11 DEF RollBack, TypeOK, LockExcludes, JournalFollows, ChecksHold,
             MayRollBack, Critical, Unstarted, InstalledCandidates
  <1>12. ASSUME NEW t \in Txn, RollBackFails(t) PROVE SealSeesCandidates
    BY <1>12 DEF RollBackFails
  <1>13. ASSUME NEW t \in Txn, RestoreCleanup(t) PROVE SealSeesCandidates
    BY <1>13 DEF RestoreCleanup
  <1>14. ASSUME NEW t \in Txn, RestoreFinish(t) PROVE SealSeesCandidates
    BY <1>14
    DEF RestoreFinish, TypeOK, LockExcludes, JournalFollows, ChecksHold,
        SaveMarks, EndRestore, Critical, Unstarted, InstalledCandidates
  <1>15. ASSUME NEW t \in Txn, Recover(t) PROVE SealSeesCandidates
    BY <1>15 DEF Recover, TypeOK, LockExcludes, JournalFollows, ChecksHold,
             MayRecover, Pending, Critical, Unstarted, InstalledCandidates
  <1>16. ASSUME NEW t \in Txn, RecoverFails(t) PROVE SealSeesCandidates
    BY <1>16 DEF RecoverFails
  <1>17. ASSUME NEW t \in Txn, Crash(t) PROVE SealSeesCandidates
    BY <1>17 DEF Crash
  <1>18. ASSUME NEW t \in Txn, NEW f \in File, Stage(t, f)
        PROVE  SealSeesCandidates
    BY <1>18 DEF Stage, CreateParents
  <1>19. ASSUME NEW t \in Txn, NEW f \in File, StageFails(t, f)
        PROVE  SealSeesCandidates
    BY <1>19
    DEF StageFails, CreateParents, TypeOK, LockExcludes, JournalFollows, ChecksHold, Fail,
        TakeBackup, BackupExact, Critical, Unstarted, InstalledCandidates
  <1>20. ASSUME NEW t \in Txn, NEW f \in File, Record(t, f)
        PROVE  SealSeesCandidates
    BY <1>20 DEF Record
  <1>21. ASSUME NEW t \in Txn, NEW f \in File, Check(t, f)
        PROVE  SealSeesCandidates
    BY <1>21 DEF Check, TypeOK, LockExcludes, JournalFollows, ChecksHold, Fail,
             Recheck, Critical, Unstarted, InstalledCandidates
  <1>22. ASSUME NEW t \in Txn, NEW f \in File, Replace(t, f)
        PROVE  SealSeesCandidates
    BY <1>22 DEF Replace
  <1>23. ASSUME NEW t \in Txn, NEW f \in File, Mark(t, f)
        PROVE  SealSeesCandidates
    BY <1>23 DEF Mark
  <1>24. ASSUME NEW t \in Txn, NEW f \in File, RestoreSkip(t, f)
        PROVE  SealSeesCandidates
    BY <1>24 DEF RestoreSkip
  <1>25. ASSUME NEW t \in Txn, NEW f \in File, RestoreRefuse(t, f)
        PROVE  SealSeesCandidates
    BY <1>25
    DEF RestoreRefuse, TypeOK, LockExcludes, JournalFollows, ChecksHold,
        SaveMarks, EndRestore, Refuses, Critical, Unstarted,
        InstalledCandidates
  <1>26. ASSUME NEW t \in Txn, RestoreFails(t)
        PROVE  SealSeesCandidates
    <2>1. RestoreStops(t)
      BY <1>26, RestoreFailsEffect
    <2>2. QED
      BY <2>1 DEF RestoreStops, TypeOK, LockExcludes, JournalFollows,
         ChecksHold, EndRestore, Critical, Unstarted, InstalledCandidates
  <1>27. ASSUME NEW t \in Txn, NEW f \in File, RestoreInspect(t, f)
        PROVE  SealSeesCandidates
    BY <1>27 DEF RestoreInspect
  <1>28. ASSUME NEW t \in Txn, NEW f \in File, RestorePut(t, f)
        PROVE  SealSeesCandidates
    BY <1>28 DEF RestorePut
  <1>29. ASSUME NEW t \in Txn, NEW f \in File, RestoreSave(t, f)
        PROVE  SealSeesCandidates
    BY <1>29 DEF RestoreSave
  <1>30. ASSUME CrashRecovery PROVE SealSeesCandidates
    BY <1>30 DEF CrashRecovery
  <1>31. ASSUME NEW f \in File, NEW c \in Image, Edit(f, c)
        PROVE  SealSeesCandidates
    BY <1>31 DEF Edit
  <1>32. CASE UNCHANGED vars
    BY <1>32 DEF vars, InstalledCandidates
  <1>33. QED
    BY <1>1, <1>2, <1>3, <1>4, <1>5, <1>6, <1>7, <1>8, <1>9, <1>10, <1>11,
        <1>12, <1>13, <1>14, <1>15, <1>16, <1>17, <1>18, <1>19, <1>20, <1>21,
        <1>22, <1>23, <1>24, <1>25, <1>26, <1>27, <1>28, <1>29, <1>30, <1>31,
        <1>32
    DEF Next, WorkerStep, RestoreStep

\* Only Replace and RestorePut write files for the engine, both under the lock
\* and after a digest check that still holds.
LEMMA WritesStep ==
  ASSUME TypeOK, LockExcludes, JournalFollows, ChecksHold, ~EditsRaceReplace,
         [Next]_vars
  PROVE  WritesWhatWasSeen
  <1> USE DEF WritesWhatWasSeen, Goto, plan, journal, restore, bounds
  <1>1. ASSUME NEW t \in Txn, Plan(t) PROVE WritesWhatWasSeen
    BY <1>1 DEF Plan
  <1>2. ASSUME NEW t \in Txn, Precheck(t) PROVE WritesWhatWasSeen
    BY <1>2 DEF Precheck
  <1>3. ASSUME NEW t \in Txn, Refuse(t) PROVE WritesWhatWasSeen
    BY <1>3 DEF Refuse
  <1>4. ASSUME NEW t \in Txn, Start(t) PROVE WritesWhatWasSeen
    BY <1>4 DEF Start
  <1>5. ASSUME NEW t \in Txn, BeginCommit(t) PROVE WritesWhatWasSeen
    BY <1>5 DEF BeginCommit
  <1>6. ASSUME NEW t \in Txn, Fault(t) PROVE WritesWhatWasSeen
    BY <1>6 DEF Fault
  <1>7. ASSUME NEW t \in Txn, Publish(t) PROVE WritesWhatWasSeen
    BY <1>7 DEF Publish
  <1>8. ASSUME NEW t \in Txn, Validate(t) PROVE WritesWhatWasSeen
    BY <1>8 DEF Validate
  <1>9. ASSUME NEW t \in Txn, Finalize(t) PROVE WritesWhatWasSeen
    BY <1>9 DEF Finalize
  <1>10. ASSUME NEW t \in Txn, Seal(t) PROVE WritesWhatWasSeen
    BY <1>10 DEF Seal
  <1>11. ASSUME NEW t \in Txn, RollBack(t) PROVE WritesWhatWasSeen
    BY <1>11 DEF RollBack
  <1>12. ASSUME NEW t \in Txn, RollBackFails(t) PROVE WritesWhatWasSeen
    BY <1>12 DEF RollBackFails
  <1>13. ASSUME NEW t \in Txn, RestoreCleanup(t) PROVE WritesWhatWasSeen
    BY <1>13 DEF RestoreCleanup
  <1>14. ASSUME NEW t \in Txn, RestoreFinish(t) PROVE WritesWhatWasSeen
    BY <1>14 DEF RestoreFinish
  <1>15. ASSUME NEW t \in Txn, Recover(t) PROVE WritesWhatWasSeen
    BY <1>15 DEF Recover
  <1>16. ASSUME NEW t \in Txn, RecoverFails(t) PROVE WritesWhatWasSeen
    BY <1>16 DEF RecoverFails
  <1>17. ASSUME NEW t \in Txn, Crash(t) PROVE WritesWhatWasSeen
    BY <1>17 DEF Crash
  <1>18. ASSUME NEW t \in Txn, NEW f \in File, Stage(t, f)
        PROVE  WritesWhatWasSeen
    BY <1>18 DEF Stage, CreateParents
  <1>19. ASSUME NEW t \in Txn, NEW f \in File, StageFails(t, f)
        PROVE  WritesWhatWasSeen
    BY <1>19 DEF StageFails, CreateParents
  <1>20. ASSUME NEW t \in Txn, NEW f \in File, Record(t, f)
        PROVE  WritesWhatWasSeen
    BY <1>20 DEF Record
  <1>21. ASSUME NEW t \in Txn, NEW f \in File, Check(t, f)
        PROVE  WritesWhatWasSeen
    BY <1>21 DEF Check
  <1>22. ASSUME NEW t \in Txn, NEW f \in File, Replace(t, f)
        PROVE  WritesWhatWasSeen
    <2>1. lock = t /\ rtxn = Nobody
      BY <1>22, TransactionAssumption
      DEF Replace, TypeOK, LockExcludes, Critical
    <2>2. HoldsPrevious(t, f)
      BY <1>22 DEF Replace, ChecksHold, First
    <2>3. \A g \in File : g # f => disk'[g] = disk[g]
      BY <1>22 DEF Replace, TypeOK
    <2>4. QED
      BY <2>1, <2>2, <2>3
  <1>23. ASSUME NEW t \in Txn, NEW f \in File, Mark(t, f)
        PROVE  WritesWhatWasSeen
    BY <1>23 DEF Mark
  <1>24. ASSUME NEW t \in Txn, NEW f \in File, RestoreSkip(t, f)
        PROVE  WritesWhatWasSeen
    BY <1>24 DEF RestoreSkip
  <1>25. ASSUME NEW t \in Txn, NEW f \in File, RestoreRefuse(t, f)
        PROVE  WritesWhatWasSeen
    BY <1>25 DEF RestoreRefuse
  <1>26. ASSUME NEW t \in Txn, RestoreFails(t)
        PROVE  WritesWhatWasSeen
    <2>1. RestoreStops(t)
      BY <1>26, RestoreFailsEffect
    <2>2. QED
      BY <2>1 DEF RestoreStops
  <1>27. ASSUME NEW t \in Txn, NEW f \in File, RestoreInspect(t, f)
        PROVE  WritesWhatWasSeen
    BY <1>27 DEF RestoreInspect
  <1>28. ASSUME NEW t \in Txn, NEW f \in File, RestorePut(t, f)
        PROVE  WritesWhatWasSeen
    BY <1>28 DEF RestorePut, TypeOK, LockExcludes, JournalFollows, ChecksHold,
             Touch, Critical, First, Last
  <1>29. ASSUME NEW t \in Txn, NEW f \in File, RestoreSave(t, f)
        PROVE  WritesWhatWasSeen
    BY <1>29 DEF RestoreSave
  <1>30. ASSUME CrashRecovery PROVE WritesWhatWasSeen
    BY <1>30 DEF CrashRecovery
  <1>31. ASSUME NEW f \in File, NEW c \in Image, Edit(f, c)
        PROVE  WritesWhatWasSeen
    BY <1>31 DEF Edit, TypeOK, LockExcludes, JournalFollows, ChecksHold,
             Critical, First, Last
  <1>32. CASE UNCHANGED vars
    BY <1>32 DEF vars
  <1>33. QED
    BY <1>1, <1>2, <1>3, <1>4, <1>5, <1>6, <1>7, <1>8, <1>9, <1>10, <1>11,
        <1>12, <1>13, <1>14, <1>15, <1>16, <1>17, <1>18, <1>19, <1>20, <1>21,
        <1>22, <1>23, <1>24, <1>25, <1>26, <1>27, <1>28, <1>29, <1>30, <1>31,
        <1>32
    DEF Next, WorkerStep, RestoreStep

\* A final state is never left: neither the workflow that still evaluates, nor
\* a recovery that runs beside it, nor a second recovery reopens a journal.
THEOREM FinalityHolds == Spec => FinalIsFinal
  <1>1. TypeOK /\ Inductive /\ [Next]_vars => [FinalStays]_vars
    <2>1. SUFFICES ASSUME TypeOK, Inductive, [Next]_vars
                   PROVE  FinalStays
      OBVIOUS
    <2>2. QED
      BY <2>1, FinalStaysStep DEF Inductive
  <1>2. QED
    BY <1>1, InductiveInvariant, PTL DEF Spec, FinalIsFinal

\* When no edit falls between a digest check and the write that relies on it,
\* the engine never overwrites a content that it has not seen.  The assumption
\* is needed: the window is open in the code.
THEOREM NoEditIsLost ==
  ASSUME ~EditsRaceReplace
  PROVE  Spec => NoLostEdit
  <1>1. TypeOK /\ Inductive /\ [Next]_vars => [WritesWhatWasSeen]_vars
    <2>1. SUFFICES ASSUME TypeOK, Inductive, [Next]_vars
                   PROVE  WritesWhatWasSeen
      OBVIOUS
    <2>2. QED
      BY <2>1, WritesStep DEF Inductive
  <1>2. QED
    BY <1>1, InductiveInvariant, PTL DEF Spec, NoLostEdit

\* Under the same assumption the file contents behind a "committed" journal are
\* the candidates at the moment it is written.
THEOREM CommitIsSeen ==
  ASSUME ~EditsRaceReplace
  PROVE  Spec => CommitSeesCandidates
  <1>1. TypeOK /\ Inductive /\ [Next]_vars => [SealSeesCandidates]_vars
    <2>1. SUFFICES ASSUME TypeOK, Inductive, [Next]_vars
                   PROVE  SealSeesCandidates
      OBVIOUS
    <2>2. QED
      BY <2>1, SealSeesStep DEF Inductive
  <1>2. QED
    BY <1>1, InductiveInvariant, PTL DEF Spec, CommitSeesCandidates

\* A restoration never refuses its own work: an untouched file holds what the plan
\* saw, or the candidate next to a good backup, whichever crash or error came
\* before.
THEOREM RefusesOnlyEdits == Spec => []RefusesOnlyOthers
  <1>1. TypeOK /\ Inductive => RefusesOnlyOthers
    <2>1. SUFFICES ASSUME TypeOK, Inductive, NEW t \in Txn, NEW f \in rtodo,
                          rtxn = t, Refuses(t, f)
                   PROVE  f \in touched[t]
      BY DEF RefusesOnlyOthers
    <2>2. f \in changes[t]
      BY <2>1, TransactionAssumption DEF Inductive, RestoreFollows
    <2>3. Pending(t)
      BY <2>1, TransactionAssumption
      DEF Inductive, JournalFollows, Pending, Final
    <2>4. QED
      BY <2>1, <2>2, <2>3 DEF Inductive, UntouchedStaysRecoverable, Refuses,
         HoldsForeign, HoldsCandidate
  <1>2. QED
    BY <1>1, InductiveInvariant, PTL
=============================================================================
