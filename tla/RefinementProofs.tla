-------------------------- MODULE RefinementProofs --------------------------
(***************************************************************************)
(* Transaction implements AtomicApply, for every set of requests and files,  *)
(* with edits at any moment, the ones between a digest check and its write   *)
(* included.                                                                 *)
(*                                                                          *)
(* Most steps of the engine are invisible from outside: they touch a lock, a *)
(* stage, a backup or an entry of the manifest (InvisibleStep), or move an   *)
(* open journal to another open state (OpenStaysOpen).  What is visible is   *)
(* the plan, the begin, the writes of Replace and RestorePut (WriteMaps), an *)
(* edit, and the two ends, which are right because of the inductive          *)
(* invariant: at Seal every file of the plan is new (FilesFollow), at        *)
(* RestoreFinish none is (UndoneMeansRestored).                              *)
(***************************************************************************)
EXTENDS TransactionProofs

\* A worker without a plan has no files, and a plan holds only files that it
\* changes: _validate_managed_plan refuses an empty difference.
PlanFollows ==
  \A t \in Txn :
    /\ pc[t] = "idle" => changes[t] = {}
    /\ \A f \in changes[t] : previous[t][f] # Candidate[t][f]

Ended == Final \cup {"none"}

\* A step that writes no file, no plan and no journal state cannot be seen.
LEMMA InvisibleStep ==
  ASSUME UNCHANGED <<disk, changes, previous, touched, jstate>>
  PROVE  UNCHANGED Atomic!vars
  BY DEF Atomic!vars, OutcomeOf, ViewOf, HoldsPrevious

\* A step that writes one journal state and no file changes one outcome at most.
LEMMA OutcomeChanges ==
  ASSUME TypeOK, NEW t \in Txn, NEW s \in JournalStates,
         jstate' = [jstate EXCEPT ![t] = s],
         UNCHANGED <<disk, changes, previous, touched>>
  PROVE  /\ jstate'[t] = s
         /\ [u \in Txn |-> OutcomeOf(u)]' =
              [[u \in Txn |-> OutcomeOf(u)] EXCEPT ![t] = OutcomeOf(t)']
         /\ UNCHANGED [u \in Txn |-> [f \in File |-> ViewOf(u, f)]]
  <1>1. jstate'[t] = s
    BY DEF TypeOK
  <1>2. \A u \in Txn : u # t => OutcomeOf(u)' = OutcomeOf(u)
    BY DEF OutcomeOf, TypeOK
  <1>3. \A u \in Txn, f \in File : ViewOf(u, f)' = ViewOf(u, f)
    BY DEF ViewOf, HoldsPrevious
  <1>4. QED
    BY <1>1, <1>2, <1>3

\* Nor can a step that moves an unfinished journal to another unfinished state.
LEMMA OpenStaysOpen ==
  ASSUME TypeOK, NEW t \in Txn, NEW s \in JournalStates, Pending(t),
         s \notin Ended, jstate' = [jstate EXCEPT ![t] = s],
         UNCHANGED <<disk, changes, previous, touched>>
  PROVE  UNCHANGED Atomic!vars
  <1>1. \A u \in Txn : OutcomeOf(u)' = OutcomeOf(u)
    BY DEF OutcomeOf, TypeOK, Pending, Ended, Final, JournalStates
  <1>2. \A u \in Txn, f \in File : ViewOf(u, f)' = ViewOf(u, f)
    BY DEF ViewOf, HoldsPrevious
  <1>3. QED
    BY <1>1, <1>2 DEF Atomic!vars

\* os.replace under the journal lock is the write of an open transaction: it
\* takes the file from every other plan, and its own view follows the disk.
LEMMA WriteMaps ==
  ASSUME TypeOK, PlanFollows, NEW t \in Txn, NEW f \in File, NEW c \in Image,
         f \in changes[t], Pending(t), Touch(t, f),
         disk' = [disk EXCEPT ![f] = c],
         UNCHANGED <<changes, previous, jstate>>
  PROVE  Atomic!Write(t, f)
  <1> DEFINE others == {u \in Txn \ {t} : pc[u] # "idle"}
             new == IF disk'[f] # previous[t][f] THEN "new" ELSE "old"
             view == [u \in Txn |-> [g \in File |-> ViewOf(u, g)]]
             taken == [u \in Txn |-> IF u \in others
                                     THEN [view[u] EXCEPT ![f] = "theirs"]
                                     ELSE view[u]]
             after == [taken EXCEPT ![t][f] = IF @ = "theirs" THEN @ ELSE new]
  <1>1. OutcomeOf(t) = "open"
    BY DEF OutcomeOf, Pending, Final
  <1>2. \A u \in Txn : OutcomeOf(u)' = OutcomeOf(u)
    BY DEF OutcomeOf
  <1>3. \A g \in File : g # f => disk'[g] = disk[g]
    BY DEF TypeOK
  <1>4. \A u \in Txn : touched'[u] = IF u \in others THEN touched[u] \cup {f}
                                     ELSE touched[u]
    BY DEF Touch
  <1>5. \A u \in Txn, g \in File :
          after[u][g] = IF g # f THEN ViewOf(u, g)
                        ELSE IF u \in others THEN "theirs"
                        ELSE IF u = t /\ ViewOf(u, g) # "theirs" THEN new
                        ELSE ViewOf(u, g)
    OBVIOUS
  <1>6. after = [u \in Txn |-> [g \in File |-> after[u][g]]]
    OBVIOUS
  <1> HIDE DEF after, taken
  <1>7. \A u \in Txn, g \in File : ViewOf(u, g)' = after[u][g]
    <2>1. TAKE u \in Txn, g \in File
    <2>2. CASE u = t /\ g = f
      BY <2>2, <1>4, <1>5 DEF ViewOf, HoldsPrevious
    <2>3. CASE u \in others /\ g = f
      <3>1. f \in touched'[u]
        BY <2>3, <1>4
      <3>2. after[u][f] = "theirs"
        BY <2>3, <1>5
      <3>3. QED
        BY <2>3, <3>1, <3>2 DEF ViewOf
    <2>4. CASE u # t /\ u \notin others /\ g = f
      <3>1. changes[u] = {} /\ changes'[u] = {}
        BY <2>4 DEF PlanFollows
      <3>2. g \in touched'[u] <=> g \in touched[u]
        BY <2>4, <1>4
      <3>3. after[u][g] = ViewOf(u, g)
        BY <2>4, <1>5
      <3>4. QED
        BY <3>1, <3>2, <3>3 DEF ViewOf
    <2>5. CASE g # f
      <3>1. HoldsPrevious(u, g)' <=> HoldsPrevious(u, g)
        BY <2>5, <1>3 DEF HoldsPrevious
      <3>2. g \in touched'[u] <=> g \in touched[u]
        BY <2>5, <1>4
      <3>3. QED
        BY <2>5, <1>5, <3>1, <3>2 DEF ViewOf
    <2>6. QED
      BY <2>2, <2>3, <2>4, <2>5
  <1>8. view' = after
    BY <1>6, <1>7
  <1>9. others \in SUBSET (Txn \ {t}) /\ new \in {"old", "new"}
    OBVIOUS
  <1>10. QED
    BY <1>1, <1>2, <1>8, <1>9 DEF after, taken, Atomic!Write, Atomic!TakenFrom

\* An edit takes the file from every plan that has been made.
LEMMA EditMaps ==
  ASSUME TypeOK, PlanFollows, NEW f \in File, NEW c \in Image, Edit(f, c)
  PROVE  Atomic!Outside(f)
  <1> USE DEF plan, journal
  <1> DEFINE others == {u \in Txn : pc[u] # "idle"}
             view == [u \in Txn |-> [g \in File |-> ViewOf(u, g)]]
             after == [u \in Txn |-> IF u \in others
                                     THEN [view[u] EXCEPT ![f] = "theirs"]
                                     ELSE view[u]]
  <1>1. UNCHANGED <<changes, previous, jstate>>
    BY DEF Edit
  <1>2. \A u \in Txn : OutcomeOf(u)' = OutcomeOf(u)
    BY <1>1 DEF OutcomeOf
  <1>3. \A g \in File : g # f => disk'[g] = disk[g]
    BY DEF TypeOK, Edit
  <1>4. \A u \in Txn : touched'[u] = IF u \in others THEN touched[u] \cup {f}
                                     ELSE touched[u]
    BY DEF Edit
  <1>5. \A u \in Txn, g \in File :
          after[u][g] = IF g = f /\ u \in others THEN "theirs"
                        ELSE ViewOf(u, g)
    OBVIOUS
  <1>6. after = [u \in Txn |-> [g \in File |-> after[u][g]]]
    OBVIOUS
  <1> HIDE DEF after
  <1>7. \A u \in Txn, g \in File : ViewOf(u, g)' = after[u][g]
    <2>1. TAKE u \in Txn, g \in File
    <2>2. CASE u \in others /\ g = f
      <3>1. f \in touched'[u]
        BY <2>2, <1>4
      <3>2. after[u][f] = "theirs"
        BY <2>2, <1>5
      <3>3. QED
        BY <2>2, <3>1, <3>2 DEF ViewOf
    <2>3. CASE u \notin others /\ g = f
      <3>1. changes[u] = {} /\ changes'[u] = {}
        BY <2>3, <1>1 DEF PlanFollows
      <3>2. g \in touched'[u] <=> g \in touched[u]
        BY <2>3, <1>4
      <3>3. after[u][g] = ViewOf(u, g)
        BY <2>3, <1>5
      <3>4. QED
        BY <3>1, <3>2, <3>3 DEF ViewOf
    <2>4. CASE g # f
      <3>1. HoldsPrevious(u, g)' <=> HoldsPrevious(u, g)
        BY <2>4, <1>1, <1>3 DEF HoldsPrevious
      <3>2. g \in touched'[u] <=> g \in touched[u]
        BY <2>4, <1>4
      <3>3. QED
        BY <2>4, <1>1, <1>5, <3>1, <3>2 DEF ViewOf
    <2>5. QED
      BY <2>2, <2>3, <2>4
  <1>8. view' = after
    BY <1>6, <1>7
  <1>9. others \in SUBSET Txn
    OBVIOUS
  <1>10. QED
    BY <1>1, <1>2, <1>8, <1>9 DEF after, Atomic!Outside, Atomic!TakenFrom

\* Planning is what gives a worker files, and no worker becomes idle again.
LEMMA PlanFollowsStep ==
  ASSUME TypeOK, PlanFollows, [Next]_vars
  PROVE  PlanFollows'
  <1> USE DEF TypeOK, Goto, plan
  <1>1. ASSUME NEW t \in Txn, Plan(t) PROVE PlanFollows'
    BY <1>1 DEF Plan, PlanFollows
  <1>2. ASSUME NEW t \in Txn, Precheck(t) PROVE PlanFollows'
    BY <1>2 DEF Precheck, PlanFollows
  <1>3. ASSUME NEW t \in Txn, Refuse(t) PROVE PlanFollows'
    BY <1>3 DEF Refuse, PlanFollows
  <1>4. ASSUME NEW t \in Txn, Start(t) PROVE PlanFollows'
    BY <1>4 DEF Start, PlanFollows
  <1>5. ASSUME NEW t \in Txn, BeginCommit(t) PROVE PlanFollows'
    BY <1>5 DEF BeginCommit, PlanFollows
  <1>6. ASSUME NEW t \in Txn, Fault(t) PROVE PlanFollows'
    BY <1>6 DEF Fault, Fail, PlanFollows
  <1>7. ASSUME NEW t \in Txn, Publish(t) PROVE PlanFollows'
    BY <1>7 DEF Publish, PlanFollows
  <1>8. ASSUME NEW t \in Txn, Validate(t) PROVE PlanFollows'
    BY <1>8 DEF Validate, PlanFollows
  <1>9. ASSUME NEW t \in Txn, Finalize(t) PROVE PlanFollows'
    BY <1>9 DEF Finalize, PlanFollows
  <1>10. ASSUME NEW t \in Txn, Seal(t) PROVE PlanFollows'
    BY <1>10 DEF Seal, PlanFollows
  <1>11. ASSUME NEW t \in Txn, RollBack(t) PROVE PlanFollows'
    BY <1>11 DEF RollBack, PlanFollows
  <1>12. ASSUME NEW t \in Txn, RollBackFails(t) PROVE PlanFollows'
    BY <1>12 DEF RollBackFails, PlanFollows
  <1>13. ASSUME NEW t \in Txn, RestoreCleanup(t) PROVE PlanFollows'
    BY <1>13 DEF RestoreCleanup, PlanFollows
  <1>14. ASSUME NEW t \in Txn, RestoreFinish(t) PROVE PlanFollows'
    BY <1>14 DEF RestoreFinish, EndRestore, PlanFollows
  <1>15. ASSUME NEW t \in Txn, Recover(t) PROVE PlanFollows'
    BY <1>15 DEF Recover, PlanFollows
  <1>16. ASSUME NEW t \in Txn, RecoverFails(t) PROVE PlanFollows'
    BY <1>16 DEF RecoverFails, PlanFollows
  <1>17. ASSUME NEW t \in Txn, Crash(t) PROVE PlanFollows'
    BY <1>17 DEF Crash, PlanFollows
  <1>18. ASSUME NEW t \in Txn, NEW f \in File, Stage(t, f) PROVE PlanFollows'
    BY <1>18 DEF Stage, PlanFollows
  <1>19. ASSUME NEW t \in Txn, NEW f \in File, StageFails(t, f)
        PROVE  PlanFollows'
    BY <1>19 DEF StageFails, Fail, PlanFollows
  <1>20. ASSUME NEW t \in Txn, NEW f \in File, Record(t, f) PROVE PlanFollows'
    BY <1>20 DEF Record, PlanFollows
  <1>21. ASSUME NEW t \in Txn, NEW f \in File, Check(t, f) PROVE PlanFollows'
    BY <1>21 DEF Check, Fail, PlanFollows
  <1>22. ASSUME NEW t \in Txn, NEW f \in File, Replace(t, f) PROVE PlanFollows'
    BY <1>22 DEF Replace, PlanFollows
  <1>23. ASSUME NEW t \in Txn, NEW f \in File, Mark(t, f) PROVE PlanFollows'
    BY <1>23 DEF Mark, PlanFollows
  <1>24. ASSUME NEW t \in Txn, NEW f \in File, RestoreSkip(t, f)
        PROVE  PlanFollows'
    BY <1>24 DEF RestoreSkip, PlanFollows
  <1>25. ASSUME NEW t \in Txn, NEW f \in File, RestoreRefuse(t, f)
        PROVE  PlanFollows'
    BY <1>25 DEF RestoreRefuse, EndRestore, PlanFollows
  <1>26. ASSUME NEW t \in Txn, RestoreFails(t)
        PROVE  PlanFollows'
    <2>1. RestoreStops(t)
      BY <1>26, RestoreFailsEffect
    <2>2. QED
      BY <2>1 DEF RestoreStops, EndRestore, PlanFollows
  <1>27. ASSUME NEW t \in Txn, NEW f \in File, RestoreInspect(t, f)
        PROVE  PlanFollows'
    BY <1>27 DEF RestoreInspect, PlanFollows
  <1>28. ASSUME NEW t \in Txn, NEW f \in File, RestorePut(t, f)
        PROVE  PlanFollows'
    BY <1>28 DEF RestorePut, PlanFollows
  <1>29. ASSUME NEW t \in Txn, NEW f \in File, RestoreSave(t, f)
        PROVE  PlanFollows'
    BY <1>29 DEF RestoreSave, PlanFollows
  <1>30. ASSUME CrashRecovery PROVE PlanFollows'
    BY <1>30 DEF CrashRecovery, PlanFollows
  <1>31. ASSUME NEW f \in File, NEW c \in Image, Edit(f, c) PROVE PlanFollows'
    BY <1>31 DEF Edit, PlanFollows
  <1>32. CASE UNCHANGED vars
    BY <1>32 DEF vars, PlanFollows
  <1>33. QED
    BY <1>1, <1>2, <1>3, <1>4, <1>5, <1>6, <1>7, <1>8, <1>9, <1>10, <1>11,
        <1>12, <1>13, <1>14, <1>15, <1>16, <1>17, <1>18, <1>19, <1>20, <1>21,
        <1>22, <1>23, <1>24, <1>25, <1>26, <1>27, <1>28, <1>29, <1>30, <1>31,
        <1>32
    DEF Next, WorkerStep, RestoreStep

\* Every step of the engine is a step of AtomicApply, or cannot be seen.
LEMMA StepMaps ==
  ASSUME TypeOK, Inductive, PlanFollows, [Next]_vars
  PROVE  [Atomic!Next]_(Atomic!vars)
  <1> USE DEF plan, journal
  <1>1. ASSUME NEW t \in Txn, Plan(t) PROVE [Atomic!Next]_(Atomic!vars)
    <2>1. UNCHANGED <<disk, touched, jstate>> /\ pc[t] = "idle"
      BY <1>1 DEF Plan
    <2>2. OutcomeOf(t) = "none" /\ changes[t] = {}
      BY <2>1 DEF Inductive, JournalFollows, Unstarted, OutcomeOf, PlanFollows
    <2>3. \A u \in Txn : OutcomeOf(u)' = OutcomeOf(u)
      BY <2>1 DEF OutcomeOf
    <2>4. \A u \in Txn, g \in File : ViewOf(u, g)' = ViewOf(u, g)
      <3>1. TAKE u \in Txn, g \in File
      <3>2. CASE u = t
        BY <1>1, <2>1, <2>2, <3>2 DEF Plan, ViewOf, HoldsPrevious, TypeOK
      <3>3. CASE u # t
        BY <1>1, <2>1, <3>3 DEF Plan, ViewOf, HoldsPrevious, TypeOK
      <3>4. QED
        BY <3>2, <3>3
    <2>5. \E S \in SUBSET File : changes' = [changes EXCEPT ![t] = S]
      BY <1>1, TransactionAssumption DEF Plan
    <2>6. Atomic!Plan(t)
      BY <2>2, <2>3, <2>4, <2>5 DEF Atomic!Plan
    <2>7. QED
      BY <2>6 DEF Atomic!Next
  <1>2. ASSUME NEW t \in Txn, Precheck(t) PROVE [Atomic!Next]_(Atomic!vars)
    BY <1>2, InvisibleStep DEF Precheck
  <1>3. ASSUME NEW t \in Txn, Refuse(t) PROVE [Atomic!Next]_(Atomic!vars)
    BY <1>3, InvisibleStep DEF Refuse
  <1>4. ASSUME NEW t \in Txn, Start(t) PROVE [Atomic!Next]_(Atomic!vars)
    <2>1. /\ UNCHANGED <<disk, changes, previous, touched>>
          /\ jstate' = [jstate EXCEPT ![t] = "preparing"] /\ pc[t] = "checked"
      BY <1>4 DEF Start
    <2>2. OutcomeOf(t) = "none"
      BY <2>1 DEF Inductive, JournalFollows, Unstarted, OutcomeOf
    <2>3. \A f \in changes[t] : ViewOf(t, f) # "new"
      BY <2>1 DEF Inductive, FilesFollow, ViewOf
    <2>4. "preparing" \in JournalStates
      BY DEF JournalStates
    <2>5. OutcomeOf(t)' = "open"
      BY <2>1, <2>4, OutcomeChanges DEF OutcomeOf
    <2>6. /\ [u \in Txn |-> OutcomeOf(u)]' =
               [[u \in Txn |-> OutcomeOf(u)] EXCEPT ![t] = OutcomeOf(t)']
          /\ UNCHANGED [u \in Txn |-> [f \in File |-> ViewOf(u, f)]]
      BY <2>1, <2>4, OutcomeChanges
    <2>7. Atomic!Begin(t)
      BY <2>1, <2>2, <2>3, <2>5, <2>6 DEF Atomic!Begin, TypeOK
    <2>8. QED
      BY <2>7 DEF Atomic!Next
  <1>5. ASSUME NEW t \in Txn, BeginCommit(t) PROVE [Atomic!Next]_(Atomic!vars)
    <2>1. /\ UNCHANGED <<disk, changes, previous, touched>>
          /\ jstate' = [jstate EXCEPT ![t] = "committing"]
      BY <1>5 DEF BeginCommit
    <2>2. Pending(t)
      BY <1>5 DEF BeginCommit, Inductive, JournalFollows, Pending, Final
    <2>3. "committing" \in JournalStates \ Ended
      BY DEF JournalStates, Ended, Final
    <2>4. QED
      BY <2>1, <2>2, <2>3, OpenStaysOpen
  <1>6. ASSUME NEW t \in Txn, Fault(t) PROVE [Atomic!Next]_(Atomic!vars)
    <2>1. /\ UNCHANGED <<disk, changes, previous, touched>>
          /\ jstate' = [jstate EXCEPT ![t] = "rolling-back"]
      BY <1>6 DEF Fault, Fail
    <2>2. Pending(t)
      BY <1>6 DEF Fault, Inductive, JournalFollows, Pending, Final
    <2>3. "rolling-back" \in JournalStates \ Ended
      BY DEF JournalStates, Ended, Final
    <2>4. QED
      BY <2>1, <2>2, <2>3, OpenStaysOpen
  <1>7. ASSUME NEW t \in Txn, Publish(t) PROVE [Atomic!Next]_(Atomic!vars)
    <2>1. /\ UNCHANGED <<disk, changes, previous, touched>>
          /\ jstate' = [jstate EXCEPT ![t] = "awaiting-verification"]
      BY <1>7 DEF Publish
    <2>2. Pending(t)
      BY <1>7 DEF Publish, Inductive, JournalFollows, Pending, Final
    <2>3. "awaiting-verification" \in JournalStates \ Ended
      BY DEF JournalStates, Ended, Final
    <2>4. QED
      BY <2>1, <2>2, <2>3, OpenStaysOpen
  <1>8. ASSUME NEW t \in Txn, Validate(t) PROVE [Atomic!Next]_(Atomic!vars)
    BY <1>8, InvisibleStep DEF Validate
  <1>9. ASSUME NEW t \in Txn, Finalize(t) PROVE [Atomic!Next]_(Atomic!vars)
    BY <1>9, InvisibleStep DEF Finalize
  <1>10. ASSUME NEW t \in Txn, Seal(t) PROVE [Atomic!Next]_(Atomic!vars)
    <2>1. /\ UNCHANGED <<disk, changes, previous, touched>>
          /\ jstate' = [jstate EXCEPT ![t] = "committed"] /\ pc[t] = "seal"
      BY <1>10 DEF Seal
    <2>2. OutcomeOf(t) = "open"
      BY <2>1 DEF Inductive, JournalFollows, OutcomeOf
    <2>3. \A f \in changes[t] : ViewOf(t, f) # "old"
      BY <2>1 DEF Inductive, FilesFollow, PlanFollows, ViewOf, HoldsPrevious
    <2>4. "committed" \in JournalStates
      BY DEF JournalStates, Final
    <2>5. OutcomeOf(t)' = "committed"
      BY <2>1, <2>4, OutcomeChanges DEF OutcomeOf
    <2>6. /\ [u \in Txn |-> OutcomeOf(u)]' =
               [[u \in Txn |-> OutcomeOf(u)] EXCEPT ![t] = OutcomeOf(t)']
          /\ UNCHANGED [u \in Txn |-> [f \in File |-> ViewOf(u, f)]]
      BY <2>1, <2>4, OutcomeChanges
    <2>7. Atomic!Commit(t)
      BY <2>1, <2>2, <2>3, <2>5, <2>6 DEF Atomic!Commit, TypeOK
    <2>8. QED
      BY <2>7 DEF Atomic!Next
  <1>11. ASSUME NEW t \in Txn, RollBack(t) PROVE [Atomic!Next]_(Atomic!vars)
    <2>1. /\ UNCHANGED <<disk, changes, previous, touched>>
          /\ jstate' = [jstate EXCEPT ![t] = "rolling-back"]
      BY <1>11 DEF RollBack
    <2>2. Pending(t)
      BY <1>11
      DEF RollBack, MayRollBack, Unstarted, Inductive, JournalFollows, Pending,
          Final
    <2>3. "rolling-back" \in JournalStates \ Ended
      BY DEF JournalStates, Ended, Final
    <2>4. QED
      BY <2>1, <2>2, <2>3, OpenStaysOpen
  <1>12. ASSUME NEW t \in Txn, RollBackFails(t)
        PROVE  [Atomic!Next]_(Atomic!vars)
    BY <1>12, InvisibleStep DEF RollBackFails
  <1>13. ASSUME NEW t \in Txn, RestoreCleanup(t)
        PROVE  [Atomic!Next]_(Atomic!vars)
    BY <1>13, InvisibleStep DEF RestoreCleanup
  <1>14. ASSUME NEW t \in Txn, RestoreFinish(t)
        PROVE  [Atomic!Next]_(Atomic!vars)
    <2> DEFINE s == IF lock = Recovery THEN "recovered" ELSE "rolled-back"
    <2>1. /\ UNCHANGED <<disk, changes, previous, touched>>
          /\ jstate' = [jstate EXCEPT ![t] = s]
          /\ rtxn = t /\ rphase = "cleaned"
      BY <1>14 DEF RestoreFinish
    <2>2. OutcomeOf(t) = "open"
      BY <2>1, TransactionAssumption DEF Inductive, JournalFollows, OutcomeOf
    <2>3. \A f \in changes[t] : ViewOf(t, f) # "new"
      BY <2>1, TransactionAssumption DEF Inductive, RestoreFollows, ViewOf
    <2>4. s \in JournalStates /\ s \in {"recovered", "rolled-back"}
      BY DEF JournalStates, Final
    <2> HIDE DEF s
    <2>5. OutcomeOf(t)' = "undone"
      BY <2>1, <2>4, OutcomeChanges DEF OutcomeOf
    <2>6. /\ [u \in Txn |-> OutcomeOf(u)]' =
               [[u \in Txn |-> OutcomeOf(u)] EXCEPT ![t] = OutcomeOf(t)']
          /\ UNCHANGED [u \in Txn |-> [f \in File |-> ViewOf(u, f)]]
      BY <2>1, <2>4, OutcomeChanges
    <2>7. Atomic!Undo(t)
      BY <2>1, <2>2, <2>3, <2>5, <2>6 DEF Atomic!Undo, TypeOK
    <2>8. QED
      BY <2>7 DEF Atomic!Next
  <1>15. ASSUME NEW t \in Txn, Recover(t) PROVE [Atomic!Next]_(Atomic!vars)
    <2>1. /\ UNCHANGED <<disk, changes, previous, touched>>
          /\ jstate' = [jstate EXCEPT ![t] = "recovering"]
      BY <1>15 DEF Recover
    <2>2. Pending(t)
      BY <1>15 DEF Recover, MayRecover
    <2>3. "recovering" \in JournalStates \ Ended
      BY DEF JournalStates, Ended, Final
    <2>4. QED
      BY <2>1, <2>2, <2>3, OpenStaysOpen
  <1>16. ASSUME NEW t \in Txn, RecoverFails(t) PROVE [Atomic!Next]_(Atomic!vars)
    BY <1>16, InvisibleStep DEF RecoverFails
  <1>17. ASSUME NEW t \in Txn, Crash(t) PROVE [Atomic!Next]_(Atomic!vars)
    BY <1>17, InvisibleStep DEF Crash
  <1>18. ASSUME NEW t \in Txn, NEW f \in File, Stage(t, f)
        PROVE  [Atomic!Next]_(Atomic!vars)
    BY <1>18, InvisibleStep DEF Stage
  <1>19. ASSUME NEW t \in Txn, NEW f \in File, StageFails(t, f)
        PROVE  [Atomic!Next]_(Atomic!vars)
    <2>1. /\ UNCHANGED <<disk, changes, previous, touched>>
          /\ jstate' = [jstate EXCEPT ![t] = "rolling-back"]
      BY <1>19 DEF StageFails, Fail
    <2>2. Pending(t)
      BY <1>19 DEF StageFails, Inductive, JournalFollows, Pending, Final
    <2>3. "rolling-back" \in JournalStates \ Ended
      BY DEF JournalStates, Ended, Final
    <2>4. QED
      BY <2>1, <2>2, <2>3, OpenStaysOpen
  <1>20. ASSUME NEW t \in Txn, NEW f \in File, Record(t, f)
        PROVE  [Atomic!Next]_(Atomic!vars)
    BY <1>20, InvisibleStep DEF Record
  <1>21. ASSUME NEW t \in Txn, NEW f \in File, Check(t, f)
        PROVE  [Atomic!Next]_(Atomic!vars)
    <2>1. CASE UNCHANGED jstate
      BY <2>1, <1>21, InvisibleStep DEF Check
    <2>2. CASE Fail(t, made[t])
      <3>1. /\ UNCHANGED <<disk, changes, previous, touched>>
            /\ jstate' = [jstate EXCEPT ![t] = "rolling-back"]
        BY <2>2, <1>21 DEF Check, Fail
      <3>2. Pending(t)
        BY <1>21 DEF Check, Inductive, JournalFollows, Pending, Final
      <3>3. "rolling-back" \in JournalStates \ Ended
        BY DEF JournalStates, Ended, Final
      <3>4. QED
        BY <3>1, <3>2, <3>3, OpenStaysOpen
    <2>3. QED
      BY <2>1, <2>2, <1>21 DEF Check
  <1>22. ASSUME NEW t \in Txn, NEW f \in File, Replace(t, f)
        PROVE  [Atomic!Next]_(Atomic!vars)
    <2>1. f \in changes[t]
      BY <1>22 DEF Replace, First, Inductive, StagesFollow
    <2>2. Pending(t)
      BY <1>22 DEF Replace, Inductive, JournalFollows, Pending, Final
    <2>3. Candidate[t][f] \in Image
      BY TransactionAssumption DEF Image
    <2>4. Atomic!Write(t, f)
      BY <1>22, <2>1, <2>2, <2>3, WriteMaps DEF Replace
    <2>5. QED
      BY <2>4 DEF Atomic!Next
  <1>23. ASSUME NEW t \in Txn, NEW f \in File, Mark(t, f)
        PROVE  [Atomic!Next]_(Atomic!vars)
    BY <1>23, InvisibleStep DEF Mark
  <1>24. ASSUME NEW t \in Txn, NEW f \in File, RestoreSkip(t, f)
        PROVE  [Atomic!Next]_(Atomic!vars)
    BY <1>24, InvisibleStep DEF RestoreSkip
  <1>25. ASSUME NEW t \in Txn, NEW f \in File, RestoreRefuse(t, f)
        PROVE  [Atomic!Next]_(Atomic!vars)
    <2>1. /\ UNCHANGED <<disk, changes, previous, touched>>
          /\ jstate' = [jstate EXCEPT ![t] = "recovery-required"]
      BY <1>25 DEF RestoreRefuse
    <2>2. Pending(t)
      BY <1>25, TransactionAssumption
      DEF RestoreRefuse, Inductive, JournalFollows, Pending, Final
    <2>3. "recovery-required" \in JournalStates \ Ended
      BY DEF JournalStates, Ended, Final
    <2>4. QED
      BY <2>1, <2>2, <2>3, OpenStaysOpen
  <1>26. ASSUME NEW t \in Txn, RestoreFails(t)
        PROVE  [Atomic!Next]_(Atomic!vars)
    <2>1. /\ UNCHANGED <<disk, changes, previous, touched>>
          /\ \/ UNCHANGED jstate
             \/ jstate' = [jstate EXCEPT ![t] = "recovery-required"]
          /\ rtxn = t
      BY <1>26, RestoreFailsEffect DEF RestoreStops
    <2>2. CASE UNCHANGED jstate
      BY <2>1, <2>2, InvisibleStep
    <2>3. CASE jstate' = [jstate EXCEPT ![t] = "recovery-required"]
      <3>1. Pending(t)
        BY <2>1, TransactionAssumption
        DEF Inductive, JournalFollows, Pending, Final
      <3>2. "recovery-required" \in JournalStates \ Ended
        BY DEF JournalStates, Ended, Final
      <3>3. UNCHANGED <<disk, changes, previous, touched>>
        BY <2>1
      <3>4. QED
        BY <2>3, <3>1, <3>2, <3>3, OpenStaysOpen
    <2>4. QED
      BY <2>1, <2>2, <2>3
  <1>27. ASSUME NEW t \in Txn, NEW f \in File, RestoreInspect(t, f)
        PROVE  [Atomic!Next]_(Atomic!vars)
    BY <1>27, InvisibleStep DEF RestoreInspect
  <1>28. ASSUME NEW t \in Txn, NEW f \in File, RestorePut(t, f)
        PROVE  [Atomic!Next]_(Atomic!vars)
    <2> DEFINE c == IF previous[t][f] = Absent THEN Absent ELSE backup[t][f]
    <2>1. f \in changes[t]
      BY <1>28, TransactionAssumption
      DEF RestorePut, Last, Inductive, RestoreFollows
    <2>2. Pending(t)
      BY <1>28, TransactionAssumption
      DEF RestorePut, Inductive, JournalFollows, Pending, Final
    <2>3. c \in Image
      BY DEF TypeOK, Image
    <2>4. disk' = [disk EXCEPT ![f] = c] /\ Touch(t, f)
          /\ UNCHANGED <<changes, previous, jstate>>
      BY <1>28 DEF RestorePut
    <2> HIDE DEF c
    <2>5. Atomic!Write(t, f)
      BY <2>1, <2>2, <2>3, <2>4, WriteMaps
    <2>6. QED
      BY <2>5 DEF Atomic!Next
  <1>29. ASSUME NEW t \in Txn, NEW f \in File, RestoreSave(t, f)
        PROVE  [Atomic!Next]_(Atomic!vars)
    BY <1>29, InvisibleStep DEF RestoreSave
  <1>30. ASSUME CrashRecovery PROVE [Atomic!Next]_(Atomic!vars)
    BY <1>30, InvisibleStep DEF CrashRecovery
  <1>31. ASSUME NEW f \in File, NEW c \in Image, Edit(f, c)
        PROVE  [Atomic!Next]_(Atomic!vars)
    <2>1. Atomic!Outside(f)
      BY <1>31, EditMaps
    <2>2. QED
      BY <2>1 DEF Atomic!Next
  <1>32. CASE UNCHANGED vars
    BY <1>32, InvisibleStep DEF vars
  <1>33. QED
    BY <1>1, <1>2, <1>3, <1>4, <1>5, <1>6, <1>7, <1>8, <1>9, <1>10, <1>11,
        <1>12, <1>13, <1>14, <1>15, <1>16, <1>17, <1>18, <1>19, <1>20, <1>21,
        <1>22, <1>23, <1>24, <1>25, <1>26, <1>27, <1>28, <1>29, <1>30, <1>31,
        <1>32
    DEF Next, WorkerStep, RestoreStep

\* Every request has a plan it holds on to: PlanFollows, which AtomicApply needs
\* and the safety properties of the engine do not.
THEOREM PlansHold == Spec => []PlanFollows
  <1>1. Init => PlanFollows
    BY DEF Init, PlanFollows
  <1>2. TypeOK /\ PlanFollows /\ [Next]_vars => PlanFollows'
    BY PlanFollowsStep
  <1>3. QED
    BY <1>1, <1>2, TypeCorrect, PTL DEF Spec

\* Whatever crashes, recoveries, edits and other requests come between, every
\* transaction of transaction.py is all or nothing, and only an open one writes.
THEOREM EngineIsAtomic == Spec => ImplementsAtomicApply
  <1>1. Init => Atomic!Init
    BY DEF Init, Atomic!Init, OutcomeOf, ViewOf
  <1>2. TypeOK /\ Inductive /\ PlanFollows /\ [Next]_vars
          => [Atomic!Next]_(Atomic!vars)
    BY StepMaps
  <1>3. QED
    BY <1>1, <1>2, InductiveInvariant, PlansHold, PTL
    DEF Spec, ImplementsAtomicApply, Atomic!Spec
=============================================================================
