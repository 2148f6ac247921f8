---------------------------- MODULE QuietProofs ----------------------------
(***************************************************************************)
(* Proofs about Activation when a recovery, a commit or a rollback does not *)
(* begin while another operation is under way (Overlaps is FALSE), for any  *)
(* number of sessions and closures, with closures and tools that disappear, *)
(* commands that fail before or after they took effect, and any number of   *)
(* reboots and deaths of the helper.                                        *)
(*                                                                          *)
(* A session that failed or was left behind stays unfinished and a rollback *)
(* looks only at its own, so several sessions may be unfinished at a time.  *)
(* What holds is that at most one operation is under way (OneOperation),    *)
(* that whoever is about to write a session finds it in the state in which  *)
(* it left it (HelperFollows, TestFollows, TransitionFollows,               *)
(* RecoveryFollows), and that the links part only on behalf of a session    *)
(* that is not finished (QuietMeansConsistent).  The lock of the journal is *)
(* held for single reads and writes, so none of this holds with Overlaps:   *)
(* the run act_truth shows how.                                             *)
(***************************************************************************)
EXTENDS ActivationProofs

\* An operation begins only when none is under way: a request of a test finds no
\* session unfinished, and every test and transition belongs to one that is.
LEMMA OneOperationStep ==
  ASSUME ~Overlaps, TypeOK, OneOperation, TestFollows, TransitionFollows,
         [Next]_vars
  PROVE  OneOperation'
  <1> USE DEF links, recovery, helper, transition, Proceed, Return, Write, Step,
              Apart, Serves, TypeOK, HelperPhases, Modes, RecoveryPhases,
              States, TransitionPhases, Units, Finished, Recoverable, Expected,
              Underway, Unfinished, Requests, OneOperation, TestFollows,
              TransitionFollows
  <1>1. ASSUME NEW s \in Session, TestBegins(s) PROVE OneOperation'
    BY <1>1 DEF TestBegins
  <1>2. ASSUME NEW s \in Session, Commit(s) PROVE OneOperation'
    BY <1>2 DEF Commit, MayCommit, AtRest
  <1>3. ASSUME NEW s \in Session, RollBack(s) PROVE OneOperation'
    BY <1>3 DEF RollBack, AtRest
  <1>4. ASSUME NEW s \in Session, RecoverNow(s) PROVE OneOperation'
    BY <1>4 DEF RecoverNow
  <1>5. ASSUME NEW s \in Session, Create(s) PROVE OneOperation'
    BY <1>5 DEF Create, Blocked
  <1>6. ASSUME NEW s \in Session, ScheduleTimer(s) PROVE OneOperation'
    BY <1>6 DEF ScheduleTimer
  <1>7. ASSUME NEW s \in Session, Unschedule(s) PROVE OneOperation'
    BY <1>7 DEF Unschedule
  <1>8. ASSUME NEW s \in Session, BeginTest(s) PROVE OneOperation'
    BY <1>8 DEF BeginTest
  <1>9. ASSUME NEW s \in Session, StartTest(s) PROVE OneOperation'
    BY <1>9 DEF StartTest
  <1>10. ASSUME NEW s \in Session, AwaitTest(s) PROVE OneOperation'
    BY <1>10 DEF AwaitTest, Passed
  <1>11. ASSUME NEW s \in Session, EndTest(s) PROVE OneOperation'
    BY <1>11 DEF EndTest
  <1>12. ASSUME NEW s \in Session, ScheduleTransition(s) PROVE OneOperation'
    BY <1>12 DEF ScheduleTransition
  <1>13. ASSUME NEW s \in Session, Revert(s) PROVE OneOperation'
    BY <1>13 DEF Revert
  <1>14. ASSUME NEW s \in Session, TestRuns(s) PROVE OneOperation'
    BY <1>14 DEF TestRuns, Switch
  <1>15. ASSUME NEW s \in Session, TimerElapses(s) PROVE OneOperation'
    BY <1>15 DEF TimerElapses
  <1>16. ASSUME NEW s \in Session, RecoverProfile(s) PROVE OneOperation'
    BY <1>16 DEF RecoverProfile, EndRecovery, Recovers, SetProfile,
       SetProfileFails
  <1>17. ASSUME NEW s \in Session, RecoverSwitch(s) PROVE OneOperation'
    BY <1>17 DEF RecoverSwitch, EndRecovery, Recovers, Switch
  <1>18. ASSUME NEW s \in Session, RecoverJudge(s) PROVE OneOperation'
    BY <1>18 DEF RecoverJudge, Recovers
  <1>19. ASSUME NEW s \in Session, RecoverWrite(s) PROVE OneOperation'
    BY <1>19 DEF RecoverWrite, EndRecovery, Recovers
  <1>20. ASSUME NEW s \in Session, TransitionLoads(s) PROVE OneOperation'
    BY <1>20 DEF TransitionLoads
  <1>21. ASSUME NEW s \in Session, TransitionChecks(s) PROVE OneOperation'
    BY <1>21 DEF TransitionChecks
  <1>22. ASSUME NEW s \in Session, StopTimer(s) PROVE OneOperation'
    BY <1>22 DEF StopTimer
  <1>23. ASSUME NEW s \in Session, TransitionRefuses(s) PROVE OneOperation'
    BY <1>23 DEF TransitionRefuses
  <1>24. ASSUME NEW s \in Session, TransitionBegins(s) PROVE OneOperation'
    BY <1>24 DEF TransitionBegins
  <1>25. ASSUME NEW s \in Session, TransitionSets(s) PROVE OneOperation'
    BY <1>25 DEF TransitionSets, SetProfile, SetProfileFails
  <1>26. ASSUME NEW s \in Session, TransitionSwitches(s) PROVE OneOperation'
    BY <1>26 DEF TransitionSwitches, Switch
  <1>27. ASSUME NEW s \in Session, TransitionVerifies(s) PROVE OneOperation'
    BY <1>27 DEF TransitionVerifies
  <1>28. ASSUME NEW s \in Session, TransitionUndoes(s) PROVE OneOperation'
    BY <1>28 DEF TransitionUndoes, SetProfile, SetProfileFails
  <1>29. ASSUME NEW s \in Session, TransitionReswitches(s) PROVE OneOperation'
    BY <1>29 DEF TransitionReswitches, Switch
  <1>30. ASSUME NEW s \in Session, TransitionJudges(s) PROVE OneOperation'
    BY <1>30 DEF TransitionJudges
  <1>31. ASSUME NEW s \in Session, TransitionEnds(s) PROVE OneOperation'
    BY <1>31 DEF TransitionEnds
  <1>32. ASSUME NEW s \in Session, NEW k \in {"timer", "now"}, RecoveryEnds(s, k)
        PROVE  OneOperation'
    BY <1>32 DEF RecoveryEnds, MayRecover
  <1>33. ASSUME NEW s \in Session, NEW k \in {"timer", "now"}, RecoveryBegins(s, k)
        PROVE  OneOperation'
    BY <1>33 DEF RecoveryBegins, MayRecover, AtRest
  <1>34. ASSUME HelperDies PROVE OneOperation'
    BY <1>34 DEF HelperDies
  <1>35. ASSUME Reboot PROVE OneOperation'
    BY <1>35 DEF Reboot
  <1>36. CASE UNCHANGED vars
    BY <1>36 DEF vars
  <1>37. QED
    <2> HIDE DEF TypeOK, OneOperation, TestFollows, TransitionFollows
    <2>1. QED
      BY <1>1, <1>2, <1>3, <1>4, <1>5, <1>6, <1>7, <1>8, <1>9, <1>10, <1>11,
         <1>12, <1>13, <1>14, <1>15, <1>16, <1>17, <1>18, <1>19, <1>20, <1>21,
         <1>22, <1>23, <1>24, <1>25, <1>26, <1>27, <1>28, <1>29, <1>30, <1>31,
         <1>32, <1>33, <1>34, <1>35, <1>36
      DEF Next, HelperStep, RecoveryStep, TransitionStep

\* While the helper is in a request, no transition and no recovery is under way,
\* so nobody else writes the journal.
LEMMA HelperFollowsStep ==
  ASSUME ~Overlaps, TypeOK, OneOperation, HelperFollows, TransitionFollows,
         RecoveryFollows, QuietMeansConsistent, [Next]_vars
  PROVE  HelperFollows'
  <1> USE DEF links, recovery, helper, transition, Proceed, Return, Write, Step,
              Apart, Serves, TypeOK, HelperPhases, Modes, RecoveryPhases,
              States, TransitionPhases, Units, Finished, Recoverable, Expected,
              Underway, Unfinished, Requests, LinksAt, OneOperation,
              HelperFollows, TransitionFollows, RecoveryFollows,
              QuietMeansConsistent
  <1>1. ASSUME NEW s \in Session, TestBegins(s) PROVE HelperFollows'
    BY <1>1 DEF TestBegins
  <1>2. ASSUME NEW s \in Session, Commit(s) PROVE HelperFollows'
    BY <1>2 DEF Commit, MayCommit, AtRest
  <1>3. ASSUME NEW s \in Session, RollBack(s) PROVE HelperFollows'
    BY <1>3 DEF RollBack, AtRest
  <1>4. ASSUME NEW s \in Session, RecoverNow(s) PROVE HelperFollows'
    BY <1>4 DEF RecoverNow
  <1>5. ASSUME NEW s \in Session, Create(s) PROVE HelperFollows'
    BY <1>5 DEF Create, Blocked
  <1>6. ASSUME NEW s \in Session, ScheduleTimer(s) PROVE HelperFollows'
    BY <1>6 DEF ScheduleTimer
  <1>7. ASSUME NEW s \in Session, Unschedule(s) PROVE HelperFollows'
    BY <1>7 DEF Unschedule
  <1>8. ASSUME NEW s \in Session, BeginTest(s) PROVE HelperFollows'
    BY <1>8 DEF BeginTest
  <1>9. ASSUME NEW s \in Session, StartTest(s) PROVE HelperFollows'
    BY <1>9 DEF StartTest
  <1>10. ASSUME NEW s \in Session, AwaitTest(s) PROVE HelperFollows'
    BY <1>10 DEF AwaitTest, Passed
  <1>11. ASSUME NEW s \in Session, EndTest(s) PROVE HelperFollows'
    BY <1>11 DEF EndTest
  <1>12. ASSUME NEW s \in Session, ScheduleTransition(s) PROVE HelperFollows'
    BY <1>12 DEF ScheduleTransition
  <1>13. ASSUME NEW s \in Session, Revert(s) PROVE HelperFollows'
    BY <1>13 DEF Revert
  <1>14. ASSUME NEW s \in Session, TestRuns(s) PROVE HelperFollows'
    BY <1>14 DEF TestRuns, Switch
  <1>15. ASSUME NEW s \in Session, TimerElapses(s) PROVE HelperFollows'
    BY <1>15 DEF TimerElapses
  <1>16. ASSUME NEW s \in Session, RecoverProfile(s) PROVE HelperFollows'
    <2>1. \E k \in {"timer", "now"} : lock = <<s, k>>
      BY <1>16 DEF RecoverProfile, Recovers
    <2>2. lock # Free
      BY <2>1, ActivationAssumption
    <2>3. hpc \in {"idle", "create"} /\ journal[s] = "recovering"
      BY <2>1, <2>2
    <2>4. QED
      BY <1>16, <2>1, <2>3 DEF RecoverProfile, EndRecovery, Recovers,
         SetProfile,
         SetProfileFails
  <1>17. ASSUME NEW s \in Session, RecoverSwitch(s) PROVE HelperFollows'
    <2>1. \E k \in {"timer", "now"} : lock = <<s, k>>
      BY <1>17 DEF RecoverSwitch, Recovers
    <2>2. lock # Free
      BY <2>1, ActivationAssumption
    <2>3. hpc \in {"idle", "create"} /\ journal[s] = "recovering"
      BY <2>1, <2>2
    <2>4. QED
      BY <1>17, <2>1, <2>3 DEF RecoverSwitch, EndRecovery, Recovers, Switch
  <1>18. ASSUME NEW s \in Session, RecoverJudge(s) PROVE HelperFollows'
    BY <1>18 DEF RecoverJudge, Recovers
  <1>19. ASSUME NEW s \in Session, RecoverWrite(s) PROVE HelperFollows'
    BY <1>19 DEF RecoverWrite, EndRecovery, Recovers
  <1>20. ASSUME NEW s \in Session, TransitionLoads(s) PROVE HelperFollows'
    BY <1>20 DEF TransitionLoads
  <1>21. ASSUME NEW s \in Session, TransitionChecks(s) PROVE HelperFollows'
    BY <1>21 DEF TransitionChecks
  <1>22. ASSUME NEW s \in Session, StopTimer(s) PROVE HelperFollows'
    BY <1>22 DEF StopTimer
  <1>23. ASSUME NEW s \in Session, TransitionRefuses(s) PROVE HelperFollows'
    BY <1>23 DEF TransitionRefuses
  <1>24. ASSUME NEW s \in Session, TransitionBegins(s) PROVE HelperFollows'
    BY <1>24 DEF TransitionBegins
  <1>25. ASSUME NEW s \in Session, TransitionSets(s) PROVE HelperFollows'
    BY <1>25 DEF TransitionSets, SetProfile, SetProfileFails
  <1>26. ASSUME NEW s \in Session, TransitionSwitches(s) PROVE HelperFollows'
    BY <1>26 DEF TransitionSwitches, Switch
  <1>27. ASSUME NEW s \in Session, TransitionVerifies(s) PROVE HelperFollows'
    BY <1>27 DEF TransitionVerifies
  <1>28. ASSUME NEW s \in Session, TransitionUndoes(s) PROVE HelperFollows'
    BY <1>28 DEF TransitionUndoes, SetProfile, SetProfileFails
  <1>29. ASSUME NEW s \in Session, TransitionReswitches(s) PROVE HelperFollows'
    BY <1>29 DEF TransitionReswitches, Switch
  <1>30. ASSUME NEW s \in Session, TransitionJudges(s) PROVE HelperFollows'
    BY <1>30 DEF TransitionJudges
  <1>31. ASSUME NEW s \in Session, TransitionEnds(s) PROVE HelperFollows'
    BY <1>31 DEF TransitionEnds
  <1>32. ASSUME NEW s \in Session, NEW k \in {"timer", "now"}, RecoveryEnds(s, k)
        PROVE  HelperFollows'
    BY <1>32 DEF RecoveryEnds, MayRecover
  <1>33. ASSUME NEW s \in Session, NEW k \in {"timer", "now"}, RecoveryBegins(s, k)
        PROVE  HelperFollows'
    BY <1>33 DEF RecoveryBegins, MayRecover, AtRest
  <1>34. ASSUME HelperDies PROVE HelperFollows'
    BY <1>34 DEF HelperDies
  <1>35. ASSUME Reboot PROVE HelperFollows'
    BY <1>35 DEF Reboot
  <1>36. CASE UNCHANGED vars
    BY <1>36 DEF vars
  <1>37. QED
    <2> HIDE DEF TypeOK, OneOperation, HelperFollows, TransitionFollows,
                 RecoveryFollows, QuietMeansConsistent
    <2>1. QED
      BY <1>1, <1>2, <1>3, <1>4, <1>5, <1>6, <1>7, <1>8, <1>9, <1>10, <1>11,
         <1>12, <1>13, <1>14, <1>15, <1>16, <1>17, <1>18, <1>19, <1>20, <1>21,
         <1>22, <1>23, <1>24, <1>25, <1>26, <1>27, <1>28, <1>29, <1>30, <1>31,
         <1>32, <1>33, <1>34, <1>35, <1>36
      DEF Next, HelperStep, RecoveryStep, TransitionStep

\* A candidate runs from the request that began it until it ends: nothing
\* recovers or commits its session before.
LEMMA TestFollowsStep ==
  ASSUME ~Overlaps, TypeOK, ConfirmedFirst, OneOperation, HelperFollows,
         TestFollows, TransitionFollows, RecoveryFollows, [Next]_vars
  PROVE  TestFollows'
  <1> USE DEF links, recovery, helper, transition, Proceed, Return, Write, Step,
              Apart, Serves, TypeOK, HelperPhases, Modes, RecoveryPhases,
              States, TransitionPhases, Units, Finished, Recoverable, Expected,
              Underway, Requests, Succeeded, Compensated, Unsettled,
              ConfirmedFirst, OneOperation, HelperFollows, TestFollows,
              TransitionFollows, RecoveryFollows
  <1>1. ASSUME NEW s \in Session, TestBegins(s) PROVE TestFollows'
    BY <1>1 DEF TestBegins
  <1>2. ASSUME NEW s \in Session, Commit(s) PROVE TestFollows'
    BY <1>2 DEF Commit, MayCommit, AtRest
  <1>3. ASSUME NEW s \in Session, RollBack(s) PROVE TestFollows'
    BY <1>3 DEF RollBack, AtRest
  <1>4. ASSUME NEW s \in Session, RecoverNow(s) PROVE TestFollows'
    BY <1>4 DEF RecoverNow
  <1>5. ASSUME NEW s \in Session, Create(s) PROVE TestFollows'
    BY <1>5 DEF Create, Blocked
  <1>6. ASSUME NEW s \in Session, ScheduleTimer(s) PROVE TestFollows'
    BY <1>6 DEF ScheduleTimer
  <1>7. ASSUME NEW s \in Session, Unschedule(s) PROVE TestFollows'
    BY <1>7 DEF Unschedule
  <1>8. ASSUME NEW s \in Session, BeginTest(s) PROVE TestFollows'
    BY <1>8 DEF BeginTest
  <1>9. ASSUME NEW s \in Session, StartTest(s) PROVE TestFollows'
    BY <1>9 DEF StartTest
  <1>10. ASSUME NEW s \in Session, AwaitTest(s) PROVE TestFollows'
    BY <1>10 DEF AwaitTest, Passed
  <1>11. ASSUME NEW s \in Session, EndTest(s) PROVE TestFollows'
    BY <1>11 DEF EndTest
  <1>12. ASSUME NEW s \in Session, ScheduleTransition(s) PROVE TestFollows'
    BY <1>12 DEF ScheduleTransition
  <1>13. ASSUME NEW s \in Session, Revert(s) PROVE TestFollows'
    BY <1>13 DEF Revert
  <1>14. ASSUME NEW s \in Session, TestRuns(s) PROVE TestFollows'
    BY <1>14 DEF TestRuns, Switch
  <1>15. ASSUME NEW s \in Session, TimerElapses(s) PROVE TestFollows'
    BY <1>15 DEF TimerElapses
  <1>16. ASSUME NEW s \in Session, RecoverProfile(s) PROVE TestFollows'
    BY <1>16 DEF RecoverProfile, EndRecovery, Recovers, SetProfile,
       SetProfileFails
  <1>17. ASSUME NEW s \in Session, RecoverSwitch(s) PROVE TestFollows'
    BY <1>17 DEF RecoverSwitch, EndRecovery, Recovers, Switch
  <1>18. ASSUME NEW s \in Session, RecoverJudge(s) PROVE TestFollows'
    BY <1>18 DEF RecoverJudge, Recovers
  <1>19. ASSUME NEW s \in Session, RecoverWrite(s) PROVE TestFollows'
    BY <1>19 DEF RecoverWrite, EndRecovery, Recovers
  <1>20. ASSUME NEW s \in Session, TransitionLoads(s) PROVE TestFollows'
    BY <1>20 DEF TransitionLoads
  <1>21. ASSUME NEW s \in Session, TransitionChecks(s) PROVE TestFollows'
    BY <1>21 DEF TransitionChecks
  <1>22. ASSUME NEW s \in Session, StopTimer(s) PROVE TestFollows'
    BY <1>22 DEF StopTimer
  <1>23. ASSUME NEW s \in Session, TransitionRefuses(s) PROVE TestFollows'
    BY <1>23 DEF TransitionRefuses
  <1>24. ASSUME NEW s \in Session, TransitionBegins(s) PROVE TestFollows'
    BY <1>24 DEF TransitionBegins
  <1>25. ASSUME NEW s \in Session, TransitionSets(s) PROVE TestFollows'
    BY <1>25 DEF TransitionSets, SetProfile, SetProfileFails
  <1>26. ASSUME NEW s \in Session, TransitionSwitches(s) PROVE TestFollows'
    BY <1>26 DEF TransitionSwitches, Switch
  <1>27. ASSUME NEW s \in Session, TransitionVerifies(s) PROVE TestFollows'
    BY <1>27 DEF TransitionVerifies
  <1>28. ASSUME NEW s \in Session, TransitionUndoes(s) PROVE TestFollows'
    BY <1>28 DEF TransitionUndoes, SetProfile, SetProfileFails
  <1>29. ASSUME NEW s \in Session, TransitionReswitches(s) PROVE TestFollows'
    BY <1>29 DEF TransitionReswitches, Switch
  <1>30. ASSUME NEW s \in Session, TransitionJudges(s) PROVE TestFollows'
    BY <1>30 DEF TransitionJudges
  <1>31. ASSUME NEW s \in Session, TransitionEnds(s) PROVE TestFollows'
    BY <1>31 DEF TransitionEnds
  <1>32. ASSUME NEW s \in Session, NEW k \in {"timer", "now"}, RecoveryEnds(s, k)
        PROVE  TestFollows'
    BY <1>32 DEF RecoveryEnds, MayRecover
  <1>33. ASSUME NEW s \in Session, NEW k \in {"timer", "now"}, RecoveryBegins(s, k)
        PROVE  TestFollows'
    BY <1>33 DEF RecoveryBegins, MayRecover, AtRest
  <1>34. ASSUME HelperDies PROVE TestFollows'
    BY <1>34 DEF HelperDies
  <1>35. ASSUME Reboot PROVE TestFollows'
    BY <1>35 DEF Reboot
  <1>36. CASE UNCHANGED vars
    BY <1>36 DEF vars
  <1>37. QED
    <2> HIDE DEF TypeOK, ConfirmedFirst, OneOperation, HelperFollows,
                 TestFollows, TransitionFollows, RecoveryFollows
    <2>1. QED
      BY <1>1, <1>2, <1>3, <1>4, <1>5, <1>6, <1>7, <1>8, <1>9, <1>10, <1>11,
         <1>12, <1>13, <1>14, <1>15, <1>16, <1>17, <1>18, <1>19, <1>20, <1>21,
         <1>22, <1>23, <1>24, <1>25, <1>26, <1>27, <1>28, <1>29, <1>30, <1>31,
         <1>32, <1>33, <1>34, <1>35, <1>36
      DEF Next, HelperStep, RecoveryStep, TransitionStep

\* A transition finds the journal as the request or its own last step left it,
\* and nobody else moves the links between its verification and its last write.
LEMMA TransitionFollowsStep ==
  ASSUME ~Overlaps, TypeOK, ConfirmedFirst, OneOperation, HelperFollows,
         TestFollows, TransitionFollows, RecoveryFollows, [Next]_vars
  PROVE  TransitionFollows'
  <1> USE DEF links, recovery, helper, transition, Proceed, Return, Write, Step,
              Apart, Serves, TypeOK, HelperPhases, Modes, RecoveryPhases,
              States, TransitionPhases, Units, Finished, Recoverable, Expected,
              Underway, Succeeded, Compensated, Unsettled, Destination, Source,
              LinksAt, Requests, ConfirmedFirst, OneOperation, HelperFollows,
              TestFollows, TransitionFollows, RecoveryFollows
  <1>1. ASSUME NEW s \in Session, TestBegins(s) PROVE TransitionFollows'
    BY <1>1 DEF TestBegins
  <1>2. ASSUME NEW s \in Session, Commit(s) PROVE TransitionFollows'
    BY <1>2 DEF Commit, MayCommit, AtRest
  <1>3. ASSUME NEW s \in Session, RollBack(s) PROVE TransitionFollows'
    BY <1>3 DEF RollBack, AtRest
  <1>4. ASSUME NEW s \in Session, RecoverNow(s) PROVE TransitionFollows'
    BY <1>4 DEF RecoverNow
  <1>5. ASSUME NEW s \in Session, Create(s) PROVE TransitionFollows'
    BY <1>5 DEF Create, Blocked
  <1>6. ASSUME NEW s \in Session, ScheduleTimer(s) PROVE TransitionFollows'
    BY <1>6 DEF ScheduleTimer
  <1>7. ASSUME NEW s \in Session, Unschedule(s) PROVE TransitionFollows'
    BY <1>7 DEF Unschedule
  <1>8. ASSUME NEW s \in Session, BeginTest(s) PROVE TransitionFollows'
    BY <1>8 DEF BeginTest
  <1>9. ASSUME NEW s \in Session, StartTest(s) PROVE TransitionFollows'
    BY <1>9 DEF StartTest
  <1>10. ASSUME NEW s \in Session, AwaitTest(s) PROVE TransitionFollows'
    BY <1>10 DEF AwaitTest, Passed
  <1>11. ASSUME NEW s \in Session, EndTest(s) PROVE TransitionFollows'
    BY <1>11 DEF EndTest
  <1>12. ASSUME NEW s \in Session, ScheduleTransition(s)
         PROVE  TransitionFollows'
    BY <1>12 DEF ScheduleTransition
  <1>13. ASSUME NEW s \in Session, Revert(s) PROVE TransitionFollows'
    BY <1>13 DEF Revert
  <1>14. ASSUME NEW s \in Session, TestRuns(s) PROVE TransitionFollows'
    BY <1>14 DEF TestRuns, Switch
  <1>15. ASSUME NEW s \in Session, TimerElapses(s) PROVE TransitionFollows'
    BY <1>15 DEF TimerElapses
  <1>16. ASSUME NEW s \in Session, RecoverProfile(s) PROVE TransitionFollows'
    <2>1. \E k \in {"timer", "now"} : lock = <<s, k>>
      BY <1>16 DEF RecoverProfile, Recovers
    <2>2. lock # Free
      BY <2>1, ActivationAssumption
    <2>3. journal[s] = "recovering" /\ \A t \in Session : tpc[t] = "idle"
      BY <2>1, <2>2
    <2>4. QED
      BY <1>16, <2>1, <2>3 DEF RecoverProfile, EndRecovery, Recovers,
         SetProfile,
         SetProfileFails
  <1>17. ASSUME NEW s \in Session, RecoverSwitch(s) PROVE TransitionFollows'
    <2>1. \E k \in {"timer", "now"} : lock = <<s, k>>
      BY <1>17 DEF RecoverSwitch, Recovers
    <2>2. lock # Free
      BY <2>1, ActivationAssumption
    <2>3. journal[s] = "recovering" /\ \A t \in Session : tpc[t] = "idle"
      BY <2>1, <2>2
    <2>4. QED
      BY <1>17, <2>1, <2>3 DEF RecoverSwitch, EndRecovery, Recovers, Switch
  <1>18. ASSUME NEW s \in Session, RecoverJudge(s) PROVE TransitionFollows'
    BY <1>18 DEF RecoverJudge, Recovers
  <1>19. ASSUME NEW s \in Session, RecoverWrite(s) PROVE TransitionFollows'
    BY <1>19 DEF RecoverWrite, EndRecovery, Recovers
  <1>20. ASSUME NEW s \in Session, TransitionLoads(s) PROVE TransitionFollows'
    BY <1>20 DEF TransitionLoads
  <1>21. ASSUME NEW s \in Session, TransitionChecks(s) PROVE TransitionFollows'
    BY <1>21 DEF TransitionChecks
  <1>22. ASSUME NEW s \in Session, StopTimer(s) PROVE TransitionFollows'
    BY <1>22 DEF StopTimer
  <1>23. ASSUME NEW s \in Session, TransitionRefuses(s) PROVE TransitionFollows'
    BY <1>23 DEF TransitionRefuses
  <1>24. ASSUME NEW s \in Session, TransitionBegins(s) PROVE TransitionFollows'
    BY <1>24 DEF TransitionBegins
  <1>25. ASSUME NEW s \in Session, TransitionSets(s) PROVE TransitionFollows'
    BY <1>25 DEF TransitionSets, SetProfile, SetProfileFails
  <1>26. ASSUME NEW s \in Session, TransitionSwitches(s)
         PROVE  TransitionFollows'
    BY <1>26 DEF TransitionSwitches, Switch
  <1>27. ASSUME NEW s \in Session, TransitionVerifies(s)
         PROVE  TransitionFollows'
    BY <1>27 DEF TransitionVerifies
  <1>28. ASSUME NEW s \in Session, TransitionUndoes(s) PROVE TransitionFollows'
    BY <1>28 DEF TransitionUndoes, SetProfile, SetProfileFails
  <1>29. ASSUME NEW s \in Session, TransitionReswitches(s)
         PROVE  TransitionFollows'
    BY <1>29 DEF TransitionReswitches, Switch
  <1>30. ASSUME NEW s \in Session, TransitionJudges(s) PROVE TransitionFollows'
    BY <1>30 DEF TransitionJudges
  <1>31. ASSUME NEW s \in Session, TransitionEnds(s) PROVE TransitionFollows'
    BY <1>31 DEF TransitionEnds
  <1>32. ASSUME NEW s \in Session, NEW k \in {"timer", "now"}, RecoveryEnds(s, k)
        PROVE  TransitionFollows'
    BY <1>32 DEF RecoveryEnds, MayRecover
  <1>33. ASSUME NEW s \in Session, NEW k \in {"timer", "now"}, RecoveryBegins(s, k)
        PROVE  TransitionFollows'
    BY <1>33 DEF RecoveryBegins, MayRecover, AtRest
  <1>34. ASSUME HelperDies PROVE TransitionFollows'
    BY <1>34 DEF HelperDies
  <1>35. ASSUME Reboot PROVE TransitionFollows'
    BY <1>35 DEF Reboot
  <1>36. CASE UNCHANGED vars
    BY <1>36 DEF vars
  <1>37. QED
    <2> HIDE DEF TypeOK, ConfirmedFirst, OneOperation, HelperFollows,
                 TestFollows, TransitionFollows, RecoveryFollows
    <2>1. QED
      BY <1>1, <1>2, <1>3, <1>4, <1>5, <1>6, <1>7, <1>8, <1>9, <1>10, <1>11,
         <1>12, <1>13, <1>14, <1>15, <1>16, <1>17, <1>18, <1>19, <1>20, <1>21,
         <1>22, <1>23, <1>24, <1>25, <1>26, <1>27, <1>28, <1>29, <1>30, <1>31,
         <1>32, <1>33, <1>34, <1>35, <1>36
      DEF Next, HelperStep, RecoveryStep, TransitionStep

\* A recovery keeps the lock, and nothing runs that could still move the links
\* that it has restored.
LEMMA RecoveryFollowsStep ==
  ASSUME ~Overlaps, TypeOK, OneOperation, HelperFollows, TestFollows,
         TransitionFollows, RecoveryFollows, [Next]_vars
  PROVE  RecoveryFollows'
  <1> USE DEF links, recovery, helper, transition, Proceed, Return, Write, Step,
              Apart, Serves, TypeOK, HelperPhases, Modes, RecoveryPhases,
              States, TransitionPhases, Units, Finished, Recoverable, Expected,
              Underway, Restored, Requests, OneOperation, HelperFollows,
              TestFollows, TransitionFollows, RecoveryFollows
  <1>1. ASSUME NEW s \in Session, TestBegins(s) PROVE RecoveryFollows'
    BY <1>1 DEF TestBegins
  <1>2. ASSUME NEW s \in Session, Commit(s) PROVE RecoveryFollows'
    BY <1>2 DEF Commit, MayCommit, AtRest
  <1>3. ASSUME NEW s \in Session, RollBack(s) PROVE RecoveryFollows'
    BY <1>3 DEF RollBack, AtRest
  <1>4. ASSUME NEW s \in Session, RecoverNow(s) PROVE RecoveryFollows'
    BY <1>4 DEF RecoverNow
  <1>5. ASSUME NEW s \in Session, Create(s) PROVE RecoveryFollows'
    BY <1>5 DEF Create, Blocked
  <1>6. ASSUME NEW s \in Session, ScheduleTimer(s) PROVE RecoveryFollows'
    BY <1>6 DEF ScheduleTimer
  <1>7. ASSUME NEW s \in Session, Unschedule(s) PROVE RecoveryFollows'
    BY <1>7 DEF Unschedule
  <1>8. ASSUME NEW s \in Session, BeginTest(s) PROVE RecoveryFollows'
    BY <1>8 DEF BeginTest
  <1>9. ASSUME NEW s \in Session, StartTest(s) PROVE RecoveryFollows'
    BY <1>9 DEF StartTest
  <1>10. ASSUME NEW s \in Session, AwaitTest(s) PROVE RecoveryFollows'
    BY <1>10 DEF AwaitTest, Passed
  <1>11. ASSUME NEW s \in Session, EndTest(s) PROVE RecoveryFollows'
    BY <1>11 DEF EndTest
  <1>12. ASSUME NEW s \in Session, ScheduleTransition(s) PROVE RecoveryFollows'
    BY <1>12 DEF ScheduleTransition
  <1>13. ASSUME NEW s \in Session, Revert(s) PROVE RecoveryFollows'
    BY <1>13 DEF Revert
  <1>14. ASSUME NEW s \in Session, TestRuns(s) PROVE RecoveryFollows'
    <2>1. lock = Free /\ UNCHANGED lock
      BY <1>14 DEF TestRuns, Switch
    <2>2. QED
      BY <2>1, ActivationAssumption
  <1>15. ASSUME NEW s \in Session, TimerElapses(s) PROVE RecoveryFollows'
    BY <1>15 DEF TimerElapses
  <1>16. ASSUME NEW s \in Session, RecoverProfile(s) PROVE RecoveryFollows'
    BY <1>16, ActivationAssumption DEF RecoverProfile, EndRecovery, Recovers,
       SetProfile,
       SetProfileFails
  <1>17. ASSUME NEW s \in Session, RecoverSwitch(s) PROVE RecoveryFollows'
    BY <1>17, ActivationAssumption DEF RecoverSwitch, EndRecovery, Recovers,
       Switch
  <1>18. ASSUME NEW s \in Session, RecoverJudge(s) PROVE RecoveryFollows'
    BY <1>18 DEF RecoverJudge, Recovers
  <1>19. ASSUME NEW s \in Session, RecoverWrite(s) PROVE RecoveryFollows'
    BY <1>19, ActivationAssumption DEF RecoverWrite, EndRecovery, Recovers
  <1>20. ASSUME NEW s \in Session, TransitionLoads(s) PROVE RecoveryFollows'
    BY <1>20 DEF TransitionLoads
  <1>21. ASSUME NEW s \in Session, TransitionChecks(s) PROVE RecoveryFollows'
    BY <1>21 DEF TransitionChecks
  <1>22. ASSUME NEW s \in Session, StopTimer(s) PROVE RecoveryFollows'
    BY <1>22 DEF StopTimer
  <1>23. ASSUME NEW s \in Session, TransitionRefuses(s) PROVE RecoveryFollows'
    BY <1>23 DEF TransitionRefuses
  <1>24. ASSUME NEW s \in Session, TransitionBegins(s) PROVE RecoveryFollows'
    BY <1>24 DEF TransitionBegins
  <1>25. ASSUME NEW s \in Session, TransitionSets(s) PROVE RecoveryFollows'
    <2>1. lock = Free /\ UNCHANGED lock
      BY <1>25 DEF TransitionSets, SetProfile, SetProfileFails
    <2>2. QED
      BY <2>1, ActivationAssumption
  <1>26. ASSUME NEW s \in Session, TransitionSwitches(s) PROVE RecoveryFollows'
    <2>1. lock = Free /\ UNCHANGED lock
      BY <1>26 DEF TransitionSwitches, Switch
    <2>2. QED
      BY <2>1, ActivationAssumption
  <1>27. ASSUME NEW s \in Session, TransitionVerifies(s) PROVE RecoveryFollows'
    BY <1>27 DEF TransitionVerifies
  <1>28. ASSUME NEW s \in Session, TransitionUndoes(s) PROVE RecoveryFollows'
    <2>1. lock = Free /\ UNCHANGED lock
      BY <1>28 DEF TransitionUndoes, SetProfile, SetProfileFails
    <2>2. QED
      BY <2>1, ActivationAssumption
  <1>29. ASSUME NEW s \in Session, TransitionReswitches(s)
         PROVE  RecoveryFollows'
    <2>1. lock = Free /\ UNCHANGED lock
      BY <1>29 DEF TransitionReswitches, Switch
    <2>2. QED
      BY <2>1, ActivationAssumption
  <1>30. ASSUME NEW s \in Session, TransitionJudges(s) PROVE RecoveryFollows'
    BY <1>30 DEF TransitionJudges
  <1>31. ASSUME NEW s \in Session, TransitionEnds(s) PROVE RecoveryFollows'
    BY <1>31 DEF TransitionEnds
  <1>32. ASSUME NEW s \in Session, NEW k \in {"timer", "now"}, RecoveryEnds(s, k)
        PROVE  RecoveryFollows'
    BY <1>32 DEF RecoveryEnds, MayRecover
  <1>33. ASSUME NEW s \in Session, NEW k \in {"timer", "now"}, RecoveryBegins(s, k)
        PROVE  RecoveryFollows'
    BY <1>33 DEF RecoveryBegins, MayRecover, AtRest
  <1>34. ASSUME HelperDies PROVE RecoveryFollows'
    BY <1>34 DEF HelperDies
  <1>35. ASSUME Reboot PROVE RecoveryFollows'
    BY <1>35, ActivationAssumption DEF Reboot
  <1>36. CASE UNCHANGED vars
    BY <1>36 DEF vars
  <1>37. QED
    <2> HIDE DEF TypeOK, OneOperation, HelperFollows, TestFollows,
                 TransitionFollows, RecoveryFollows
    <2>1. QED
      BY <1>1, <1>2, <1>3, <1>4, <1>5, <1>6, <1>7, <1>8, <1>9, <1>10, <1>11,
         <1>12, <1>13, <1>14, <1>15, <1>16, <1>17, <1>18, <1>19, <1>20, <1>21,
         <1>22, <1>23, <1>24, <1>25, <1>26, <1>27, <1>28, <1>29, <1>30, <1>31,
         <1>32, <1>33, <1>34, <1>35, <1>36
      DEF Next, HelperStep, RecoveryStep, TransitionStep

\* Whoever finishes a session finds that the links agree, and whoever parts them
\* works for a session that is not finished.
LEMMA QuietMeansConsistentStep ==
  ASSUME ~Overlaps, TypeOK, OneOperation, HelperFollows, TestFollows,
         TransitionFollows, RecoveryFollows, QuietMeansConsistent, [Next]_vars
  PROVE  QuietMeansConsistent'
  <1> USE DEF links, recovery, helper, transition, Proceed, Return, Write, Step,
              Apart, Serves, TypeOK, HelperPhases, Modes, RecoveryPhases,
              States, TransitionPhases, Units, Finished, Recoverable, Expected,
              Underway, Succeeded, Compensated, Unsettled, Destination, Source,
              LinksAt, Restored, Unfinished, Requests, OneOperation,
              HelperFollows, TestFollows, TransitionFollows, RecoveryFollows,
              QuietMeansConsistent
  <1>1. ASSUME NEW s \in Session, TestBegins(s) PROVE QuietMeansConsistent'
    BY <1>1 DEF TestBegins
  <1>2. ASSUME NEW s \in Session, Commit(s) PROVE QuietMeansConsistent'
    BY <1>2 DEF Commit, MayCommit, AtRest
  <1>3. ASSUME NEW s \in Session, RollBack(s) PROVE QuietMeansConsistent'
    BY <1>3 DEF RollBack, AtRest
  <1>4. ASSUME NEW s \in Session, RecoverNow(s) PROVE QuietMeansConsistent'
    BY <1>4 DEF RecoverNow
  <1>5. ASSUME NEW s \in Session, Create(s) PROVE QuietMeansConsistent'
    BY <1>5 DEF Create, Blocked
  <1>6. ASSUME NEW s \in Session, ScheduleTimer(s) PROVE QuietMeansConsistent'
    BY <1>6 DEF ScheduleTimer
  <1>7. ASSUME NEW s \in Session, Unschedule(s) PROVE QuietMeansConsistent'
    BY <1>7 DEF Unschedule
  <1>8. ASSUME NEW s \in Session, BeginTest(s) PROVE QuietMeansConsistent'
    BY <1>8 DEF BeginTest
  <1>9. ASSUME NEW s \in Session, StartTest(s) PROVE QuietMeansConsistent'
    BY <1>9 DEF StartTest
  <1>10. ASSUME NEW s \in Session, AwaitTest(s) PROVE QuietMeansConsistent'
    BY <1>10 DEF AwaitTest, Passed
  <1>11. ASSUME NEW s \in Session, EndTest(s) PROVE QuietMeansConsistent'
    BY <1>11 DEF EndTest
  <1>12. ASSUME NEW s \in Session, ScheduleTransition(s)
         PROVE  QuietMeansConsistent'
    BY <1>12 DEF ScheduleTransition
  <1>13. ASSUME NEW s \in Session, Revert(s) PROVE QuietMeansConsistent'
    BY <1>13 DEF Revert
  <1>14. ASSUME NEW s \in Session, TestRuns(s) PROVE QuietMeansConsistent'
    BY <1>14 DEF TestRuns, Switch
  <1>15. ASSUME NEW s \in Session, TimerElapses(s) PROVE QuietMeansConsistent'
    BY <1>15 DEF TimerElapses
  <1>16. ASSUME NEW s \in Session, RecoverProfile(s) PROVE QuietMeansConsistent'
    BY <1>16 DEF RecoverProfile, EndRecovery, Recovers, SetProfile,
       SetProfileFails
  <1>17. ASSUME NEW s \in Session, RecoverSwitch(s) PROVE QuietMeansConsistent'
    BY <1>17 DEF RecoverSwitch, EndRecovery, Recovers, Switch
  <1>18. ASSUME NEW s \in Session, RecoverJudge(s) PROVE QuietMeansConsistent'
    BY <1>18 DEF RecoverJudge, Recovers
  <1>19. ASSUME NEW s \in Session, RecoverWrite(s) PROVE QuietMeansConsistent'
    BY <1>19 DEF RecoverWrite, EndRecovery, Recovers
  <1>20. ASSUME NEW s \in Session, TransitionLoads(s)
         PROVE  QuietMeansConsistent'
    BY <1>20 DEF TransitionLoads
  <1>21. ASSUME NEW s \in Session, TransitionChecks(s)
         PROVE  QuietMeansConsistent'
    BY <1>21 DEF TransitionChecks
  <1>22. ASSUME NEW s \in Session, StopTimer(s) PROVE QuietMeansConsistent'
    BY <1>22 DEF StopTimer
  <1>23. ASSUME NEW s \in Session, TransitionRefuses(s)
         PROVE  QuietMeansConsistent'
    BY <1>23 DEF TransitionRefuses
  <1>24. ASSUME NEW s \in Session, TransitionBegins(s)
         PROVE  QuietMeansConsistent'
    BY <1>24 DEF TransitionBegins
  <1>25. ASSUME NEW s \in Session, TransitionSets(s) PROVE QuietMeansConsistent'
    BY <1>25 DEF TransitionSets, SetProfile, SetProfileFails
  <1>26. ASSUME NEW s \in Session, TransitionSwitches(s)
         PROVE  QuietMeansConsistent'
    BY <1>26 DEF TransitionSwitches, Switch
  <1>27. ASSUME NEW s \in Session, TransitionVerifies(s)
         PROVE  QuietMeansConsistent'
    BY <1>27 DEF TransitionVerifies
  <1>28. ASSUME NEW s \in Session, TransitionUndoes(s)
         PROVE  QuietMeansConsistent'
    BY <1>28 DEF TransitionUndoes, SetProfile, SetProfileFails
  <1>29. ASSUME NEW s \in Session, TransitionReswitches(s)
         PROVE  QuietMeansConsistent'
    BY <1>29 DEF TransitionReswitches, Switch
  <1>30. ASSUME NEW s \in Session, TransitionJudges(s)
         PROVE  QuietMeansConsistent'
    BY <1>30 DEF TransitionJudges
  <1>31. ASSUME NEW s \in Session, TransitionEnds(s) PROVE QuietMeansConsistent'
    <2>1. /\ UNCHANGED links /\ tpc[s] = "write"
          /\ journal' = [journal EXCEPT ![s] = tend[s]]
      BY <1>31 DEF TransitionEnds
    <2>2. tend[s] \in Finished \cup {"none"} => current = profile
      BY <2>1
    <2>3. tend[s] \notin Finished \cup {"none"} => s \in Unfinished'
      BY <2>1
    <2>4. QED
      BY <2>1, <2>2, <2>3
  <1>32. ASSUME NEW s \in Session, NEW k \in {"timer", "now"}, RecoveryEnds(s, k)
        PROVE  QuietMeansConsistent'
    BY <1>32 DEF RecoveryEnds, MayRecover
  <1>33. ASSUME NEW s \in Session, NEW k \in {"timer", "now"}, RecoveryBegins(s, k)
        PROVE  QuietMeansConsistent'
    BY <1>33 DEF RecoveryBegins, MayRecover, AtRest
  <1>34. ASSUME HelperDies PROVE QuietMeansConsistent'
    BY <1>34 DEF HelperDies
  <1>35. ASSUME Reboot PROVE QuietMeansConsistent'
    BY <1>35 DEF Reboot
  <1>36. CASE UNCHANGED vars
    BY <1>36 DEF vars
  <1>37. QED
    <2> HIDE DEF TypeOK, OneOperation, HelperFollows, TestFollows,
                 TransitionFollows, RecoveryFollows, QuietMeansConsistent
    <2>1. QED
      BY <1>1, <1>2, <1>3, <1>4, <1>5, <1>6, <1>7, <1>8, <1>9, <1>10, <1>11,
         <1>12, <1>13, <1>14, <1>15, <1>16, <1>17, <1>18, <1>19, <1>20, <1>21,
         <1>22, <1>23, <1>24, <1>25, <1>26, <1>27, <1>28, <1>29, <1>30, <1>31,
         <1>32, <1>33, <1>34, <1>35, <1>36
      DEF Next, HelperStep, RecoveryStep, TransitionStep

\* committed is written after a verification, or by a request taken back before
\* anything changed; recovered and rolled-back after a comparison of the links,
\* or when nothing was activated.
LEMMA EndsTrueStep ==
  ASSUME ~Overlaps, TypeOK, HelperFollows, TransitionFollows, RecoveryFollows,
         [Next]_vars
  PROVE  EndsTrue
  <1> USE DEF EndsTrue, links, recovery, helper, transition, Proceed, Return,
              Write, Step, Apart, Serves, TypeOK, HelperPhases, Modes,
              RecoveryPhases, States, TransitionPhases, Units, Finished,
              Recoverable, Expected, Underway, Succeeded, Compensated,
              Unsettled, Destination, Source, LinksAt, Restored, HelperFollows,
              TransitionFollows, RecoveryFollows
  <1>1. ASSUME NEW s \in Session, TestBegins(s) PROVE EndsTrue
    BY <1>1 DEF TestBegins
  <1>2. ASSUME NEW s \in Session, Commit(s) PROVE EndsTrue
    BY <1>2 DEF Commit, MayCommit, AtRest
  <1>3. ASSUME NEW s \in Session, RollBack(s) PROVE EndsTrue
    BY <1>3 DEF RollBack, AtRest
  <1>4. ASSUME NEW s \in Session, RecoverNow(s) PROVE EndsTrue
    BY <1>4 DEF RecoverNow
  <1>5. ASSUME NEW s \in Session, Create(s) PROVE EndsTrue
    BY <1>5 DEF Create, Blocked
  <1>6. ASSUME NEW s \in Session, ScheduleTimer(s) PROVE EndsTrue
    BY <1>6 DEF ScheduleTimer
  <1>7. ASSUME NEW s \in Session, Unschedule(s) PROVE EndsTrue
    BY <1>7 DEF Unschedule
  <1>8. ASSUME NEW s \in Session, BeginTest(s) PROVE EndsTrue
    BY <1>8 DEF BeginTest
  <1>9. ASSUME NEW s \in Session, StartTest(s) PROVE EndsTrue
    BY <1>9 DEF StartTest
  <1>10. ASSUME NEW s \in Session, AwaitTest(s) PROVE EndsTrue
    BY <1>10 DEF AwaitTest, Passed
  <1>11. ASSUME NEW s \in Session, EndTest(s) PROVE EndsTrue
    BY <1>11 DEF EndTest
  <1>12. ASSUME NEW s \in Session, ScheduleTransition(s) PROVE EndsTrue
    BY <1>12 DEF ScheduleTransition
  <1>13. ASSUME NEW s \in Session, Revert(s) PROVE EndsTrue
    BY <1>13 DEF Revert
  <1>14. ASSUME NEW s \in Session, TestRuns(s) PROVE EndsTrue
    BY <1>14 DEF TestRuns, Switch
  <1>15. ASSUME NEW s \in Session, TimerElapses(s) PROVE EndsTrue
    BY <1>15 DEF TimerElapses
  <1>16. ASSUME NEW s \in Session, RecoverProfile(s) PROVE EndsTrue
    BY <1>16 DEF RecoverProfile, EndRecovery, Recovers, SetProfile,
       SetProfileFails
  <1>17. ASSUME NEW s \in Session, RecoverSwitch(s) PROVE EndsTrue
    BY <1>17 DEF RecoverSwitch, EndRecovery, Recovers, Switch
  <1>18. ASSUME NEW s \in Session, RecoverJudge(s) PROVE EndsTrue
    BY <1>18 DEF RecoverJudge, Recovers
  <1>19. ASSUME NEW s \in Session, RecoverWrite(s) PROVE EndsTrue
    BY <1>19 DEF RecoverWrite, EndRecovery, Recovers
  <1>20. ASSUME NEW s \in Session, TransitionLoads(s) PROVE EndsTrue
    BY <1>20 DEF TransitionLoads
  <1>21. ASSUME NEW s \in Session, TransitionChecks(s) PROVE EndsTrue
    BY <1>21 DEF TransitionChecks
  <1>22. ASSUME NEW s \in Session, StopTimer(s) PROVE EndsTrue
    BY <1>22 DEF StopTimer
  <1>23. ASSUME NEW s \in Session, TransitionRefuses(s) PROVE EndsTrue
    BY <1>23 DEF TransitionRefuses
  <1>24. ASSUME NEW s \in Session, TransitionBegins(s) PROVE EndsTrue
    BY <1>24 DEF TransitionBegins
  <1>25. ASSUME NEW s \in Session, TransitionSets(s) PROVE EndsTrue
    BY <1>25 DEF TransitionSets, SetProfile, SetProfileFails
  <1>26. ASSUME NEW s \in Session, TransitionSwitches(s) PROVE EndsTrue
    BY <1>26 DEF TransitionSwitches, Switch
  <1>27. ASSUME NEW s \in Session, TransitionVerifies(s) PROVE EndsTrue
    BY <1>27 DEF TransitionVerifies
  <1>28. ASSUME NEW s \in Session, TransitionUndoes(s) PROVE EndsTrue
    BY <1>28 DEF TransitionUndoes, SetProfile, SetProfileFails
  <1>29. ASSUME NEW s \in Session, TransitionReswitches(s) PROVE EndsTrue
    BY <1>29 DEF TransitionReswitches, Switch
  <1>30. ASSUME NEW s \in Session, TransitionJudges(s) PROVE EndsTrue
    BY <1>30 DEF TransitionJudges
  <1>31. ASSUME NEW s \in Session, TransitionEnds(s) PROVE EndsTrue
    BY <1>31 DEF TransitionEnds
  <1>32. ASSUME NEW s \in Session, NEW k \in {"timer", "now"}, RecoveryEnds(s, k)
        PROVE  EndsTrue
    BY <1>32 DEF RecoveryEnds, MayRecover
  <1>33. ASSUME NEW s \in Session, NEW k \in {"timer", "now"}, RecoveryBegins(s, k)
        PROVE  EndsTrue
    BY <1>33 DEF RecoveryBegins, MayRecover, AtRest
  <1>34. ASSUME HelperDies PROVE EndsTrue
    BY <1>34 DEF HelperDies
  <1>35. ASSUME Reboot PROVE EndsTrue
    BY <1>35 DEF Reboot
  <1>36. CASE UNCHANGED vars
    BY <1>36 DEF vars
  <1>37. QED
    <2> HIDE DEF TypeOK, HelperFollows, TransitionFollows, RecoveryFollows,
                 EndsTrue
    <2>1. QED
      BY <1>1, <1>2, <1>3, <1>4, <1>5, <1>6, <1>7, <1>8, <1>9, <1>10, <1>11,
         <1>12, <1>13, <1>14, <1>15, <1>16, <1>17, <1>18, <1>19, <1>20, <1>21,
         <1>22, <1>23, <1>24, <1>25, <1>26, <1>27, <1>28, <1>29, <1>30, <1>31,
         <1>32, <1>33, <1>34, <1>35, <1>36
      DEF Next, HelperStep, RecoveryStep, TransitionStep

\* Everybody who writes a session found it unfinished, or committed.
LEMMA FinishedKeptStep ==
  ASSUME ~Overlaps, TypeOK, HelperFollows, TransitionFollows, RecoveryFollows,
         [Next]_vars
  PROVE  FinishedKept
  <1> USE DEF FinishedKept, links, recovery, helper, transition, Proceed,
              Return, Write, Step, Apart, Serves, TypeOK, HelperPhases, Modes,
              RecoveryPhases, States, TransitionPhases, Units, Finished,
              Recoverable, Expected, Underway, Restored, HelperFollows,
              TransitionFollows, RecoveryFollows
  <1>1. ASSUME NEW s \in Session, TestBegins(s) PROVE FinishedKept
    BY <1>1 DEF TestBegins
  <1>2. ASSUME NEW s \in Session, Commit(s) PROVE FinishedKept
    BY <1>2 DEF Commit, MayCommit, AtRest
  <1>3. ASSUME NEW s \in Session, RollBack(s) PROVE FinishedKept
    BY <1>3 DEF RollBack, AtRest
  <1>4. ASSUME NEW s \in Session, RecoverNow(s) PROVE FinishedKept
    BY <1>4 DEF RecoverNow
  <1>5. ASSUME NEW s \in Session, Create(s) PROVE FinishedKept
    BY <1>5 DEF Create, Blocked
  <1>6. ASSUME NEW s \in Session, ScheduleTimer(s) PROVE FinishedKept
    BY <1>6 DEF ScheduleTimer
  <1>7. ASSUME NEW s \in Session, Unschedule(s) PROVE FinishedKept
    BY <1>7 DEF Unschedule
  <1>8. ASSUME NEW s \in Session, BeginTest(s) PROVE FinishedKept
    BY <1>8 DEF BeginTest
  <1>9. ASSUME NEW s \in Session, StartTest(s) PROVE FinishedKept
    BY <1>9 DEF StartTest
  <1>10. ASSUME NEW s \in Session, AwaitTest(s) PROVE FinishedKept
    BY <1>10 DEF AwaitTest, Passed
  <1>11. ASSUME NEW s \in Session, EndTest(s) PROVE FinishedKept
    BY <1>11 DEF EndTest
  <1>12. ASSUME NEW s \in Session, ScheduleTransition(s) PROVE FinishedKept
    BY <1>12 DEF ScheduleTransition
  <1>13. ASSUME NEW s \in Session, Revert(s) PROVE FinishedKept
    BY <1>13 DEF Revert
  <1>14. ASSUME NEW s \in Session, TestRuns(s) PROVE FinishedKept
    BY <1>14 DEF TestRuns, Switch
  <1>15. ASSUME NEW s \in Session, TimerElapses(s) PROVE FinishedKept
    BY <1>15 DEF TimerElapses
  <1>16. ASSUME NEW s \in Session, RecoverProfile(s) PROVE FinishedKept
    BY <1>16 DEF RecoverProfile, EndRecovery, Recovers, SetProfile,
       SetProfileFails
  <1>17. ASSUME NEW s \in Session, RecoverSwitch(s) PROVE FinishedKept
    BY <1>17 DEF RecoverSwitch, EndRecovery, Recovers, Switch
  <1>18. ASSUME NEW s \in Session, RecoverJudge(s) PROVE FinishedKept
    BY <1>18 DEF RecoverJudge, Recovers
  <1>19. ASSUME NEW s \in Session, RecoverWrite(s) PROVE FinishedKept
    BY <1>19 DEF RecoverWrite, EndRecovery, Recovers
  <1>20. ASSUME NEW s \in Session, TransitionLoads(s) PROVE FinishedKept
    BY <1>20 DEF TransitionLoads
  <1>21. ASSUME NEW s \in Session, TransitionChecks(s) PROVE FinishedKept
    BY <1>21 DEF TransitionChecks
  <1>22. ASSUME NEW s \in Session, StopTimer(s) PROVE FinishedKept
    BY <1>22 DEF StopTimer
  <1>23. ASSUME NEW s \in Session, TransitionRefuses(s) PROVE FinishedKept
    BY <1>23 DEF TransitionRefuses
  <1>24. ASSUME NEW s \in Session, TransitionBegins(s) PROVE FinishedKept
    BY <1>24 DEF TransitionBegins
  <1>25. ASSUME NEW s \in Session, TransitionSets(s) PROVE FinishedKept
    BY <1>25 DEF TransitionSets, SetProfile, SetProfileFails
  <1>26. ASSUME NEW s \in Session, TransitionSwitches(s) PROVE FinishedKept
    BY <1>26 DEF TransitionSwitches, Switch
  <1>27. ASSUME NEW s \in Session, TransitionVerifies(s) PROVE FinishedKept
    BY <1>27 DEF TransitionVerifies
  <1>28. ASSUME NEW s \in Session, TransitionUndoes(s) PROVE FinishedKept
    BY <1>28 DEF TransitionUndoes, SetProfile, SetProfileFails
  <1>29. ASSUME NEW s \in Session, TransitionReswitches(s) PROVE FinishedKept
    BY <1>29 DEF TransitionReswitches, Switch
  <1>30. ASSUME NEW s \in Session, TransitionJudges(s) PROVE FinishedKept
    BY <1>30 DEF TransitionJudges
  <1>31. ASSUME NEW s \in Session, TransitionEnds(s) PROVE FinishedKept
    BY <1>31 DEF TransitionEnds
  <1>32. ASSUME NEW s \in Session, NEW k \in {"timer", "now"}, RecoveryEnds(s, k)
        PROVE  FinishedKept
    BY <1>32 DEF RecoveryEnds, MayRecover
  <1>33. ASSUME NEW s \in Session, NEW k \in {"timer", "now"}, RecoveryBegins(s, k)
        PROVE  FinishedKept
    BY <1>33 DEF RecoveryBegins, MayRecover, AtRest
  <1>34. ASSUME HelperDies PROVE FinishedKept
    BY <1>34 DEF HelperDies
  <1>35. ASSUME Reboot PROVE FinishedKept
    BY <1>35 DEF Reboot
  <1>36. CASE UNCHANGED vars
    BY <1>36 DEF vars
  <1>37. QED
    <2> HIDE DEF TypeOK, HelperFollows, TransitionFollows, RecoveryFollows,
                 FinishedKept
    <2>1. QED
      BY <1>1, <1>2, <1>3, <1>4, <1>5, <1>6, <1>7, <1>8, <1>9, <1>10, <1>11,
         <1>12, <1>13, <1>14, <1>15, <1>16, <1>17, <1>18, <1>19, <1>20, <1>21,
         <1>22, <1>23, <1>24, <1>25, <1>26, <1>27, <1>28, <1>29, <1>30, <1>31,
         <1>32, <1>33, <1>34, <1>35, <1>36
      DEF Next, HelperStep, RecoveryStep, TransitionStep

\* Only the helper starts a candidate, and it has kept every other session
\* finished since it created the session of that candidate.
LEMMA StartsAloneStep ==
  ASSUME ~Overlaps, TypeOK, HelperFollows, [Next]_vars
  PROVE  StartsAlone
  <1> USE DEF StartsAlone, links, recovery, helper, transition, Proceed, Return,
              Write, Step, Apart, Serves, TypeOK, HelperPhases, Modes,
              RecoveryPhases, States, TransitionPhases, Units, Finished,
              Recoverable, HelperFollows
  <1>1. ASSUME NEW s \in Session, TestBegins(s) PROVE StartsAlone
    BY <1>1 DEF TestBegins
  <1>2. ASSUME NEW s \in Session, Commit(s) PROVE StartsAlone
    BY <1>2 DEF Commit, MayCommit, AtRest
  <1>3. ASSUME NEW s \in Session, RollBack(s) PROVE StartsAlone
    BY <1>3 DEF RollBack, AtRest
  <1>4. ASSUME NEW s \in Session, RecoverNow(s) PROVE StartsAlone
    BY <1>4 DEF RecoverNow
  <1>5. ASSUME NEW s \in Session, Create(s) PROVE StartsAlone
    BY <1>5 DEF Create, Blocked
  <1>6. ASSUME NEW s \in Session, ScheduleTimer(s) PROVE StartsAlone
    BY <1>6 DEF ScheduleTimer
  <1>7. ASSUME NEW s \in Session, Unschedule(s) PROVE StartsAlone
    BY <1>7 DEF Unschedule
  <1>8. ASSUME NEW s \in Session, BeginTest(s) PROVE StartsAlone
    BY <1>8 DEF BeginTest
  <1>9. ASSUME NEW s \in Session, StartTest(s) PROVE StartsAlone
    BY <1>9 DEF StartTest
  <1>10. ASSUME NEW s \in Session, AwaitTest(s) PROVE StartsAlone
    BY <1>10 DEF AwaitTest, Passed
  <1>11. ASSUME NEW s \in Session, EndTest(s) PROVE StartsAlone
    BY <1>11 DEF EndTest
  <1>12. ASSUME NEW s \in Session, ScheduleTransition(s) PROVE StartsAlone
    BY <1>12 DEF ScheduleTransition
  <1>13. ASSUME NEW s \in Session, Revert(s) PROVE StartsAlone
    BY <1>13 DEF Revert
  <1>14. ASSUME NEW s \in Session, TestRuns(s) PROVE StartsAlone
    BY <1>14 DEF TestRuns, Switch
  <1>15. ASSUME NEW s \in Session, TimerElapses(s) PROVE StartsAlone
    BY <1>15 DEF TimerElapses
  <1>16. ASSUME NEW s \in Session, RecoverProfile(s) PROVE StartsAlone
    BY <1>16 DEF RecoverProfile, EndRecovery, Recovers, SetProfile,
       SetProfileFails
  <1>17. ASSUME NEW s \in Session, RecoverSwitch(s) PROVE StartsAlone
    BY <1>17 DEF RecoverSwitch, EndRecovery, Recovers, Switch
  <1>18. ASSUME NEW s \in Session, RecoverJudge(s) PROVE StartsAlone
    BY <1>18 DEF RecoverJudge, Recovers
  <1>19. ASSUME NEW s \in Session, RecoverWrite(s) PROVE StartsAlone
    BY <1>19 DEF RecoverWrite, EndRecovery, Recovers
  <1>20. ASSUME NEW s \in Session, TransitionLoads(s) PROVE StartsAlone
    BY <1>20 DEF TransitionLoads
  <1>21. ASSUME NEW s \in Session, TransitionChecks(s) PROVE StartsAlone
    BY <1>21 DEF TransitionChecks
  <1>22. ASSUME NEW s \in Session, StopTimer(s) PROVE StartsAlone
    BY <1>22 DEF StopTimer
  <1>23. ASSUME NEW s \in Session, TransitionRefuses(s) PROVE StartsAlone
    BY <1>23 DEF TransitionRefuses
  <1>24. ASSUME NEW s \in Session, TransitionBegins(s) PROVE StartsAlone
    BY <1>24 DEF TransitionBegins
  <1>25. ASSUME NEW s \in Session, TransitionSets(s) PROVE StartsAlone
    BY <1>25 DEF TransitionSets, SetProfile, SetProfileFails
  <1>26. ASSUME NEW s \in Session, TransitionSwitches(s) PROVE StartsAlone
    BY <1>26 DEF TransitionSwitches, Switch
  <1>27. ASSUME NEW s \in Session, TransitionVerifies(s) PROVE StartsAlone
    BY <1>27 DEF TransitionVerifies
  <1>28. ASSUME NEW s \in Session, TransitionUndoes(s) PROVE StartsAlone
    BY <1>28 DEF TransitionUndoes, SetProfile, SetProfileFails
  <1>29. ASSUME NEW s \in Session, TransitionReswitches(s) PROVE StartsAlone
    BY <1>29 DEF TransitionReswitches, Switch
  <1>30. ASSUME NEW s \in Session, TransitionJudges(s) PROVE StartsAlone
    BY <1>30 DEF TransitionJudges
  <1>31. ASSUME NEW s \in Session, TransitionEnds(s) PROVE StartsAlone
    BY <1>31 DEF TransitionEnds
  <1>32. ASSUME NEW s \in Session, NEW k \in {"timer", "now"}, RecoveryEnds(s, k)
        PROVE  StartsAlone
    BY <1>32 DEF RecoveryEnds, MayRecover
  <1>33. ASSUME NEW s \in Session, NEW k \in {"timer", "now"}, RecoveryBegins(s, k)
        PROVE  StartsAlone
    BY <1>33 DEF RecoveryBegins, MayRecover, AtRest
  <1>34. ASSUME HelperDies PROVE StartsAlone
    BY <1>34 DEF HelperDies
  <1>35. ASSUME Reboot PROVE StartsAlone
    BY <1>35 DEF Reboot
  <1>36. CASE UNCHANGED vars
    BY <1>36 DEF vars
  <1>37. QED
    <2> HIDE DEF TypeOK, HelperFollows, StartsAlone
    <2>1. QED
      BY <1>1, <1>2, <1>3, <1>4, <1>5, <1>6, <1>7, <1>8, <1>9, <1>10, <1>11,
         <1>12, <1>13, <1>14, <1>15, <1>16, <1>17, <1>18, <1>19, <1>20, <1>21,
         <1>22, <1>23, <1>24, <1>25, <1>26, <1>27, <1>28, <1>29, <1>30, <1>31,
         <1>32, <1>33, <1>34, <1>35, <1>36
      DEF Next, HelperStep, RecoveryStep, TransitionStep

-----------------------------------------------------------------------------
(* The theorems                                                             *)

LEMMA InitOrderly == Init => Orderly
  <1>1. SUFFICES ASSUME Init PROVE Orderly
    OBVIOUS
  <1>2. Unfinished = {} /\ \A s \in Session : tpc[s] = "idle"
    BY <1>1 DEF Init, Unfinished
  <1>3. OneOperation /\ QuietMeansConsistent
    BY <1>1, <1>2 DEF Init, OneOperation, QuietMeansConsistent
  <1>4. HelperFollows /\ TestFollows /\ TransitionFollows
    BY <1>1, <1>2 DEF Init, HelperFollows, TestFollows, TransitionFollows
  <1>5. RecoveryFollows
    BY <1>1, ActivationAssumption DEF Init, RecoveryFollows
  <1>6. QED
    BY <1>3, <1>4, <1>5 DEF Orderly

\* Nobody overtakes anybody.
THEOREM OrderlyInvariant == ASSUME ~Overlaps PROVE Spec => []Orderly
  <1>1. TypeOK /\ Inductive /\ Orderly /\ [Next]_vars => Orderly'
    <2>1. SUFFICES ASSUME TypeOK, ConfirmedFirst, Orderly, [Next]_vars
                   PROVE  Orderly'
      BY DEF Inductive
    <2>2. OneOperation' /\ HelperFollows' /\ TestFollows'
      BY <2>1, OneOperationStep, HelperFollowsStep, TestFollowsStep DEF Orderly
    <2>3. TransitionFollows' /\ RecoveryFollows' /\ QuietMeansConsistent'
      BY <2>1, TransitionFollowsStep, RecoveryFollowsStep,
         QuietMeansConsistentStep
      DEF Orderly
    <2>4. QED
      BY <2>2, <2>3 DEF Orderly
  <1>2. QED
    BY <1>1, InitOrderly, InductiveInvariant, PTL DEF Spec

\* A candidate is started only while every other session is finished.
THEOREM TestsStartAlone == ASSUME ~Overlaps PROVE Spec => TestsBlockEachOther
  <1>1. TypeOK /\ Orderly /\ [Next]_vars => [StartsAlone]_vars
    <2>1. SUFFICES ASSUME TypeOK, Orderly, [Next]_vars
                   PROVE  StartsAlone
      OBVIOUS
    <2>2. QED
      BY <2>1, StartsAloneStep DEF Orderly
  <1>2. QED
    BY <1>1, TypeCorrect, OrderlyInvariant, PTL DEF Spec, TestsBlockEachOther

\* When every session is finished the machine runs what it will boot.
THEOREM QuietIsConsistent == ASSUME ~Overlaps PROVE Spec => []QuietMeansConsistent
  <1>1. Orderly => QuietMeansConsistent
    BY DEF Orderly
  <1>2. QED
    BY <1>1, OrderlyInvariant, PTL

\* A session ends as committed, recovered or rolled-back only when the links say
\* the same.
THEOREM EndsAreTruthful == ASSUME ~Overlaps PROVE Spec => EndsTellTheTruth
  <1>1. TypeOK /\ Orderly /\ [Next]_vars => [EndsTrue]_vars
    <2>1. SUFFICES ASSUME TypeOK, Orderly, [Next]_vars
                   PROVE  EndsTrue
      OBVIOUS
    <2>2. QED
      BY <2>1, EndsTrueStep DEF Orderly
  <1>2. QED
    BY <1>1, TypeCorrect, OrderlyInvariant, PTL DEF Spec, EndsTellTheTruth

\* A session that was recovered or rolled back is never written again.
THEOREM FinishedIsFinal == ASSUME ~Overlaps PROVE Spec => FinishedStays
  <1>1. TypeOK /\ Orderly /\ [Next]_vars => [FinishedKept]_vars
    <2>1. SUFFICES ASSUME TypeOK, Orderly, [Next]_vars
                   PROVE  FinishedKept
      OBVIOUS
    <2>2. QED
      BY <2>1, FinishedKeptStep DEF Orderly
  <1>2. QED
    BY <1>1, TypeCorrect, OrderlyInvariant, PTL DEF Spec, FinishedStays
=============================================================================
