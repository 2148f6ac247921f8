-------------------------- MODULE ActivationProofs --------------------------
(***************************************************************************)
(* Proofs about Activation, for any number of sessions and closures, with   *)
(* closures and tools that disappear, recoveries and rollbacks that overlap *)
(* with anything, and any number of reboots and deaths of the helper.       *)
(*                                                                          *)
(* That the machine boots only what was tested (BootsOnlyTested) is not     *)
(* inductive: a recovery or a compensation sets the profile to what a       *)
(* session remembers, so everything that is remembered has to be trusted    *)
(* (LinksTrusted); a transition sets it to its candidate, so whoever        *)
(* transitions has to be confirmed and a confirmed session to have passed   *)
(* its test (ConfirmedFirst); and a passed test must stay the last word on  *)
(* its session, so no session is tested twice (TestedOnce).                 *)
(***************************************************************************)
EXTENDS Activation, TLAPS

\* Every step keeps every variable in its type: the links only ever hold
\* closures of the session that writes them, the journal only states of its type.
LEMMA TypeOKStep ==
  ASSUME TypeOK, [Next]_vars
  PROVE  TypeOK'
  <1> USE DEF links, recovery, helper, transition, Proceed, Return, Write,
              Step, Apart, Serves, TypeOK, HelperPhases, Modes, RecoveryPhases,
              States, TransitionPhases, Units, Finished, Recoverable
  <1>1. ASSUME NEW s \in Session, TestBegins(s) PROVE TypeOK'
    BY <1>1 DEF TestBegins
  <1>2. ASSUME NEW s \in Session, Commit(s) PROVE TypeOK'
    BY <1>2 DEF Commit, MayCommit
  <1>3. ASSUME NEW s \in Session, RollBack(s) PROVE TypeOK'
    BY <1>3 DEF RollBack, Unfinished
  <1>4. ASSUME NEW s \in Session, RecoverNow(s) PROVE TypeOK'
    BY <1>4 DEF RecoverNow
  <1>5. ASSUME NEW s \in Session, Create(s) PROVE TypeOK'
    BY <1>5 DEF Create, Blocked, Unfinished
  <1>6. ASSUME NEW s \in Session, ScheduleTimer(s) PROVE TypeOK'
    BY <1>6 DEF ScheduleTimer
  <1>7. ASSUME NEW s \in Session, Unschedule(s) PROVE TypeOK'
    BY <1>7 DEF Unschedule
  <1>8. ASSUME NEW s \in Session, BeginTest(s) PROVE TypeOK'
    BY <1>8 DEF BeginTest
  <1>9. ASSUME NEW s \in Session, StartTest(s) PROVE TypeOK'
    BY <1>9 DEF StartTest
  <1>10. ASSUME NEW s \in Session, AwaitTest(s) PROVE TypeOK'
    BY <1>10 DEF AwaitTest, Passed
  <1>11. ASSUME NEW s \in Session, EndTest(s) PROVE TypeOK'
    BY <1>11 DEF EndTest
  <1>12. ASSUME NEW s \in Session, ScheduleTransition(s) PROVE TypeOK'
    BY <1>12 DEF ScheduleTransition
  <1>13. ASSUME NEW s \in Session, Revert(s) PROVE TypeOK'
    BY <1>13 DEF Revert
  <1>14. ASSUME NEW s \in Session, TestRuns(s) PROVE TypeOK'
    BY <1>14, ActivationAssumption DEF TestRuns, Switch
  <1>15. ASSUME NEW s \in Session, TimerElapses(s) PROVE TypeOK'
    BY <1>15 DEF TimerElapses
  <1>16. ASSUME NEW s \in Session, RecoverProfile(s) PROVE TypeOK'
    BY <1>16, ActivationAssumption
    DEF RecoverProfile, EndRecovery, Recovers, SetProfile, SetProfileFails
  <1>17. ASSUME NEW s \in Session, RecoverSwitch(s) PROVE TypeOK'
    BY <1>17, ActivationAssumption
    DEF RecoverSwitch, EndRecovery, Recovers, Switch
  <1>18. ASSUME NEW s \in Session, RecoverJudge(s) PROVE TypeOK'
    BY <1>18 DEF RecoverJudge, Recovers, Restored
  <1>19. ASSUME NEW s \in Session, RecoverWrite(s) PROVE TypeOK'
    BY <1>19 DEF RecoverWrite, EndRecovery, Recovers
  <1>20. ASSUME NEW s \in Session, TransitionLoads(s) PROVE TypeOK'
    BY <1>20 DEF TransitionLoads, Expected
  <1>21. ASSUME NEW s \in Session, TransitionChecks(s) PROVE TypeOK'
    BY <1>21 DEF TransitionChecks, Source
  <1>22. ASSUME NEW s \in Session, StopTimer(s) PROVE TypeOK'
    BY <1>22 DEF StopTimer
  <1>23. ASSUME NEW s \in Session, TransitionRefuses(s) PROVE TypeOK'
    BY <1>23 DEF TransitionRefuses, Unsettled
  <1>24. ASSUME NEW s \in Session, TransitionBegins(s) PROVE TypeOK'
    BY <1>24 DEF TransitionBegins, Expected, Underway
  <1>25. ASSUME NEW s \in Session, TransitionSets(s) PROVE TypeOK'
    BY <1>25, ActivationAssumption
    DEF TransitionSets, Destination, SetProfile, SetProfileFails
  <1>26. ASSUME NEW s \in Session, TransitionSwitches(s) PROVE TypeOK'
    BY <1>26, ActivationAssumption DEF TransitionSwitches, Destination, Switch
  <1>27. ASSUME NEW s \in Session, TransitionVerifies(s) PROVE TypeOK'
    BY <1>27 DEF TransitionVerifies, Destination, Succeeded
  <1>28. ASSUME NEW s \in Session, TransitionUndoes(s) PROVE TypeOK'
    BY <1>28, ActivationAssumption
    DEF TransitionUndoes, SetProfile, SetProfileFails, Source, Unsettled
  <1>29. ASSUME NEW s \in Session, TransitionReswitches(s) PROVE TypeOK'
    BY <1>29, ActivationAssumption
    DEF TransitionReswitches, Source, Switch, Unsettled
  <1>30. ASSUME NEW s \in Session, TransitionJudges(s) PROVE TypeOK'
    BY <1>30 DEF TransitionJudges, Compensated, Source, Unsettled
  <1>31. ASSUME NEW s \in Session, TransitionEnds(s) PROVE TypeOK'
    BY <1>31 DEF TransitionEnds
  <1>32. ASSUME NEW s \in Session, NEW k \in {"timer", "now"},
         RecoveryEnds(s, k)
        PROVE  TypeOK'
    BY <1>32 DEF RecoveryEnds, MayRecover
  <1>33. ASSUME NEW s \in Session, NEW k \in {"timer", "now"},
         RecoveryBegins(s, k)
        PROVE  TypeOK'
    BY <1>33 DEF RecoveryBegins, MayRecover
  <1>34. ASSUME HelperDies PROVE TypeOK'
    BY <1>34 DEF HelperDies
  <1>35. ASSUME Reboot PROVE TypeOK'
    BY <1>35, ActivationAssumption DEF Reboot
  <1>36. CASE UNCHANGED vars
    BY <1>36 DEF vars
  <1>37. QED
    BY <1>1, <1>2, <1>3, <1>4, <1>5, <1>6, <1>7, <1>8, <1>9, <1>10, <1>11,
       <1>12, <1>13, <1>14, <1>15, <1>16, <1>17, <1>18, <1>19, <1>20, <1>21,
       <1>22, <1>23, <1>24, <1>25, <1>26, <1>27, <1>28, <1>29, <1>30, <1>31,
       <1>32, <1>33, <1>34, <1>35, <1>36
    DEF Next, HelperStep, RecoveryStep, TransitionStep

\* No step sets the profile to, or remembers as the closure to go back to,
\* anything but what was installed and what was confirmed: recoveries go back to
\* what was trusted, transitions work for confirmed sessions.
LEMMA LinksTrustedStep ==
  ASSUME TypeOK, LinksTrusted, ConfirmedFirst, [Next]_vars
  PROVE  LinksTrusted'
  <1> USE DEF links, recovery, helper, transition, Proceed, Return, Write,
              Step, Apart, TypeOK, LinksTrusted, ConfirmedFirst, HelperPhases,
              Modes, RecoveryPhases, States, TransitionPhases, Units, Trusted,
              Serves, Finished, Recoverable
  <1>1. ASSUME NEW s \in Session, TestBegins(s) PROVE LinksTrusted'
    BY <1>1 DEF TestBegins
  <1>2. ASSUME NEW s \in Session, Commit(s) PROVE LinksTrusted'
    BY <1>2 DEF Commit, MayCommit
  <1>3. ASSUME NEW s \in Session, RollBack(s) PROVE LinksTrusted'
    BY <1>3 DEF RollBack, Unfinished
  <1>4. ASSUME NEW s \in Session, RecoverNow(s) PROVE LinksTrusted'
    BY <1>4 DEF RecoverNow
  <1>5. ASSUME NEW s \in Session, Create(s) PROVE LinksTrusted'
    BY <1>5 DEF Create, Blocked, Unfinished
  <1>6. ASSUME NEW s \in Session, ScheduleTimer(s) PROVE LinksTrusted'
    BY <1>6 DEF ScheduleTimer
  <1>7. ASSUME NEW s \in Session, Unschedule(s) PROVE LinksTrusted'
    BY <1>7 DEF Unschedule
  <1>8. ASSUME NEW s \in Session, BeginTest(s) PROVE LinksTrusted'
    BY <1>8 DEF BeginTest
  <1>9. ASSUME NEW s \in Session, StartTest(s) PROVE LinksTrusted'
    BY <1>9 DEF StartTest
  <1>10. ASSUME NEW s \in Session, AwaitTest(s) PROVE LinksTrusted'
    BY <1>10 DEF AwaitTest, Passed
  <1>11. ASSUME NEW s \in Session, EndTest(s) PROVE LinksTrusted'
    BY <1>11 DEF EndTest
  <1>12. ASSUME NEW s \in Session, ScheduleTransition(s) PROVE LinksTrusted'
    BY <1>12 DEF ScheduleTransition
  <1>13. ASSUME NEW s \in Session, Revert(s) PROVE LinksTrusted'
    BY <1>13 DEF Revert
  <1>14. ASSUME NEW s \in Session, TestRuns(s) PROVE LinksTrusted'
    BY <1>14 DEF TestRuns, Switch
  <1>15. ASSUME NEW s \in Session, TimerElapses(s) PROVE LinksTrusted'
    BY <1>15 DEF TimerElapses
  <1>16. ASSUME NEW s \in Session, RecoverProfile(s) PROVE LinksTrusted'
    BY <1>16
    DEF RecoverProfile, EndRecovery, Recovers, SetProfile, SetProfileFails
  <1>17. ASSUME NEW s \in Session, RecoverSwitch(s) PROVE LinksTrusted'
    BY <1>17 DEF RecoverSwitch, EndRecovery, Recovers, Switch
  <1>18. ASSUME NEW s \in Session, RecoverJudge(s) PROVE LinksTrusted'
    BY <1>18 DEF RecoverJudge, Recovers, Restored
  <1>19. ASSUME NEW s \in Session, RecoverWrite(s) PROVE LinksTrusted'
    BY <1>19 DEF RecoverWrite, EndRecovery, Recovers
  <1>20. ASSUME NEW s \in Session, TransitionLoads(s) PROVE LinksTrusted'
    BY <1>20 DEF TransitionLoads, Expected
  <1>21. ASSUME NEW s \in Session, TransitionChecks(s) PROVE LinksTrusted'
    BY <1>21 DEF TransitionChecks, Source
  <1>22. ASSUME NEW s \in Session, StopTimer(s) PROVE LinksTrusted'
    BY <1>22 DEF StopTimer
  <1>23. ASSUME NEW s \in Session, TransitionRefuses(s) PROVE LinksTrusted'
    BY <1>23 DEF TransitionRefuses, Unsettled
  <1>24. ASSUME NEW s \in Session, TransitionBegins(s) PROVE LinksTrusted'
    BY <1>24 DEF TransitionBegins, Expected, Underway
  <1>25. ASSUME NEW s \in Session, TransitionSets(s) PROVE LinksTrusted'
    BY <1>25 DEF TransitionSets, Destination, SetProfile, SetProfileFails
  <1>26. ASSUME NEW s \in Session, TransitionSwitches(s) PROVE LinksTrusted'
    BY <1>26 DEF TransitionSwitches, Destination, Switch
  <1>27. ASSUME NEW s \in Session, TransitionVerifies(s) PROVE LinksTrusted'
    BY <1>27 DEF TransitionVerifies, Destination, Succeeded
  <1>28. ASSUME NEW s \in Session, TransitionUndoes(s) PROVE LinksTrusted'
    BY <1>28
    DEF TransitionUndoes, SetProfile, SetProfileFails, Source, Unsettled
  <1>29. ASSUME NEW s \in Session, TransitionReswitches(s) PROVE LinksTrusted'
    BY <1>29 DEF TransitionReswitches, Source, Switch, Unsettled
  <1>30. ASSUME NEW s \in Session, TransitionJudges(s) PROVE LinksTrusted'
    BY <1>30 DEF TransitionJudges, Compensated, Source, Unsettled
  <1>31. ASSUME NEW s \in Session, TransitionEnds(s) PROVE LinksTrusted'
    BY <1>31 DEF TransitionEnds
  <1>32. ASSUME NEW s \in Session, NEW k \in {"timer", "now"},
         RecoveryEnds(s, k)
        PROVE  LinksTrusted'
    BY <1>32 DEF RecoveryEnds, MayRecover
  <1>33. ASSUME NEW s \in Session, NEW k \in {"timer", "now"},
         RecoveryBegins(s, k)
        PROVE  LinksTrusted'
    BY <1>33 DEF RecoveryBegins, MayRecover
  <1>34. ASSUME HelperDies PROVE LinksTrusted'
    BY <1>34 DEF HelperDies
  <1>35. ASSUME Reboot PROVE LinksTrusted'
    BY <1>35 DEF Reboot
  <1>36. CASE UNCHANGED vars
    BY <1>36 DEF vars
  <1>37. QED
    BY <1>1, <1>2, <1>3, <1>4, <1>5, <1>6, <1>7, <1>8, <1>9, <1>10, <1>11,
       <1>12, <1>13, <1>14, <1>15, <1>16, <1>17, <1>18, <1>19, <1>20, <1>21,
       <1>22, <1>23, <1>24, <1>25, <1>26, <1>27, <1>28, <1>29, <1>30, <1>31,
       <1>32, <1>33, <1>34, <1>35, <1>36
    DEF Next, HelperStep, RecoveryStep, TransitionStep

\* No step, of a recovery that began meanwhile or of a transition, makes a
\* session look new again, and no test is started twice.
LEMMA TestedOnceStep ==
  ASSUME TypeOK, TestedOnce, ConfirmedFirst, [Next]_vars
  PROVE  TestedOnce'
  <1> USE DEF links, recovery, helper, transition, Proceed, Return, Write,
              Step, Apart, TypeOK, TestedOnce, ConfirmedFirst, HelperPhases,
              Modes, RecoveryPhases, States, TransitionPhases, Units, Serves,
              Finished, Recoverable
  <1>1. ASSUME NEW s \in Session, TestBegins(s) PROVE TestedOnce'
    BY <1>1 DEF TestBegins
  <1>2. ASSUME NEW s \in Session, Commit(s) PROVE TestedOnce'
    BY <1>2 DEF Commit, MayCommit
  <1>3. ASSUME NEW s \in Session, RollBack(s) PROVE TestedOnce'
    BY <1>3 DEF RollBack, Unfinished
  <1>4. ASSUME NEW s \in Session, RecoverNow(s) PROVE TestedOnce'
    BY <1>4 DEF RecoverNow
  <1>5. ASSUME NEW s \in Session, Create(s) PROVE TestedOnce'
    BY <1>5 DEF Create, Blocked, Unfinished
  <1>6. ASSUME NEW s \in Session, ScheduleTimer(s) PROVE TestedOnce'
    BY <1>6 DEF ScheduleTimer
  <1>7. ASSUME NEW s \in Session, Unschedule(s) PROVE TestedOnce'
    BY <1>7 DEF Unschedule
  <1>8. ASSUME NEW s \in Session, BeginTest(s) PROVE TestedOnce'
    BY <1>8 DEF BeginTest
  <1>9. ASSUME NEW s \in Session, StartTest(s) PROVE TestedOnce'
    BY <1>9 DEF StartTest
  <1>10. ASSUME NEW s \in Session, AwaitTest(s) PROVE TestedOnce'
    BY <1>10 DEF AwaitTest, Passed
  <1>11. ASSUME NEW s \in Session, EndTest(s) PROVE TestedOnce'
    BY <1>11 DEF EndTest
  <1>12. ASSUME NEW s \in Session, ScheduleTransition(s) PROVE TestedOnce'
    BY <1>12 DEF ScheduleTransition
  <1>13. ASSUME NEW s \in Session, Revert(s) PROVE TestedOnce'
    BY <1>13 DEF Revert
  <1>14. ASSUME NEW s \in Session, TestRuns(s) PROVE TestedOnce'
    BY <1>14 DEF TestRuns, Switch
  <1>15. ASSUME NEW s \in Session, TimerElapses(s) PROVE TestedOnce'
    BY <1>15 DEF TimerElapses
  <1>16. ASSUME NEW s \in Session, RecoverProfile(s) PROVE TestedOnce'
    BY <1>16, ActivationAssumption
    DEF RecoverProfile, EndRecovery, Recovers, SetProfile, SetProfileFails
  <1>17. ASSUME NEW s \in Session, RecoverSwitch(s) PROVE TestedOnce'
    BY <1>17, ActivationAssumption
    DEF RecoverSwitch, EndRecovery, Recovers, Switch
  <1>18. ASSUME NEW s \in Session, RecoverJudge(s) PROVE TestedOnce'
    BY <1>18 DEF RecoverJudge, Recovers, Restored
  <1>19. ASSUME NEW s \in Session, RecoverWrite(s) PROVE TestedOnce'
    BY <1>19, ActivationAssumption DEF RecoverWrite, EndRecovery, Recovers
  <1>20. ASSUME NEW s \in Session, TransitionLoads(s) PROVE TestedOnce'
    BY <1>20 DEF TransitionLoads, Expected
  <1>21. ASSUME NEW s \in Session, TransitionChecks(s) PROVE TestedOnce'
    BY <1>21 DEF TransitionChecks, Source
  <1>22. ASSUME NEW s \in Session, StopTimer(s) PROVE TestedOnce'
    BY <1>22 DEF StopTimer
  <1>23. ASSUME NEW s \in Session, TransitionRefuses(s) PROVE TestedOnce'
    BY <1>23 DEF TransitionRefuses, Unsettled
  <1>24. ASSUME NEW s \in Session, TransitionBegins(s) PROVE TestedOnce'
    BY <1>24 DEF TransitionBegins, Expected, Underway
  <1>25. ASSUME NEW s \in Session, TransitionSets(s) PROVE TestedOnce'
    BY <1>25 DEF TransitionSets, Destination, SetProfile, SetProfileFails
  <1>26. ASSUME NEW s \in Session, TransitionSwitches(s) PROVE TestedOnce'
    BY <1>26 DEF TransitionSwitches, Destination, Switch
  <1>27. ASSUME NEW s \in Session, TransitionVerifies(s) PROVE TestedOnce'
    BY <1>27 DEF TransitionVerifies, Destination, Succeeded
  <1>28. ASSUME NEW s \in Session, TransitionUndoes(s) PROVE TestedOnce'
    BY <1>28
    DEF TransitionUndoes, SetProfile, SetProfileFails, Source, Unsettled
  <1>29. ASSUME NEW s \in Session, TransitionReswitches(s) PROVE TestedOnce'
    BY <1>29 DEF TransitionReswitches, Source, Switch, Unsettled
  <1>30. ASSUME NEW s \in Session, TransitionJudges(s) PROVE TestedOnce'
    BY <1>30 DEF TransitionJudges, Compensated, Source, Unsettled
  <1>31. ASSUME NEW s \in Session, TransitionEnds(s) PROVE TestedOnce'
    BY <1>31 DEF TransitionEnds
  <1>32. ASSUME NEW s \in Session, NEW k \in {"timer", "now"},
         RecoveryEnds(s, k)
        PROVE  TestedOnce'
    BY <1>32, ActivationAssumption DEF RecoveryEnds, MayRecover
  <1>33. ASSUME NEW s \in Session, NEW k \in {"timer", "now"},
         RecoveryBegins(s, k)
        PROVE  TestedOnce'
    BY <1>33, ActivationAssumption DEF RecoveryBegins, MayRecover
  <1>34. ASSUME HelperDies PROVE TestedOnce'
    BY <1>34 DEF HelperDies
  <1>35. ASSUME Reboot PROVE TestedOnce'
    BY <1>35, ActivationAssumption DEF Reboot
  <1>36. CASE UNCHANGED vars
    BY <1>36 DEF vars
  <1>37. QED
    BY <1>1, <1>2, <1>3, <1>4, <1>5, <1>6, <1>7, <1>8, <1>9, <1>10, <1>11,
       <1>12, <1>13, <1>14, <1>15, <1>16, <1>17, <1>18, <1>19, <1>20, <1>21,
       <1>22, <1>23, <1>24, <1>25, <1>26, <1>27, <1>28, <1>29, <1>30, <1>31,
       <1>32, <1>33, <1>34, <1>35, <1>36
    DEF Next, HelperStep, RecoveryStep, TransitionStep

\* A state from which a transition may follow is reached only through a passed
\* test and an accepted commit, also after the request is taken back.
LEMMA ConfirmedFirstStep ==
  ASSUME TypeOK, TestedOnce, ConfirmedFirst, [Next]_vars
  PROVE  ConfirmedFirst'
  <1> USE DEF links, recovery, helper, transition, Proceed, Return, Write,
              Step, Apart, TypeOK, TestedOnce, ConfirmedFirst, HelperPhases,
              Modes, RecoveryPhases, States, TransitionPhases, Units, Serves,
              Finished, Recoverable
  <1>1. ASSUME NEW s \in Session, TestBegins(s) PROVE ConfirmedFirst'
    BY <1>1 DEF TestBegins
  <1>2. ASSUME NEW s \in Session, Commit(s) PROVE ConfirmedFirst'
    BY <1>2 DEF Commit, MayCommit
  <1>3. ASSUME NEW s \in Session, RollBack(s) PROVE ConfirmedFirst'
    BY <1>3 DEF RollBack, Unfinished
  <1>4. ASSUME NEW s \in Session, RecoverNow(s) PROVE ConfirmedFirst'
    BY <1>4 DEF RecoverNow
  <1>5. ASSUME NEW s \in Session, Create(s) PROVE ConfirmedFirst'
    BY <1>5 DEF Create, Blocked, Unfinished
  <1>6. ASSUME NEW s \in Session, ScheduleTimer(s) PROVE ConfirmedFirst'
    BY <1>6 DEF ScheduleTimer
  <1>7. ASSUME NEW s \in Session, Unschedule(s) PROVE ConfirmedFirst'
    BY <1>7 DEF Unschedule
  <1>8. ASSUME NEW s \in Session, BeginTest(s) PROVE ConfirmedFirst'
    BY <1>8 DEF BeginTest
  <1>9. ASSUME NEW s \in Session, StartTest(s) PROVE ConfirmedFirst'
    BY <1>9 DEF StartTest
  <1>10. ASSUME NEW s \in Session, AwaitTest(s) PROVE ConfirmedFirst'
    BY <1>10 DEF AwaitTest, Passed
  <1>11. ASSUME NEW s \in Session, EndTest(s) PROVE ConfirmedFirst'
    BY <1>11 DEF EndTest
  <1>12. ASSUME NEW s \in Session, ScheduleTransition(s) PROVE ConfirmedFirst'
    BY <1>12 DEF ScheduleTransition
  <1>13. ASSUME NEW s \in Session, Revert(s) PROVE ConfirmedFirst'
    BY <1>13 DEF Revert
  <1>14. ASSUME NEW s \in Session, TestRuns(s) PROVE ConfirmedFirst'
    BY <1>14 DEF TestRuns, Switch
  <1>15. ASSUME NEW s \in Session, TimerElapses(s) PROVE ConfirmedFirst'
    BY <1>15 DEF TimerElapses
  <1>16. ASSUME NEW s \in Session, RecoverProfile(s) PROVE ConfirmedFirst'
    BY <1>16
    DEF RecoverProfile, EndRecovery, Recovers, SetProfile, SetProfileFails
  <1>17. ASSUME NEW s \in Session, RecoverSwitch(s) PROVE ConfirmedFirst'
    BY <1>17 DEF RecoverSwitch, EndRecovery, Recovers, Switch
  <1>18. ASSUME NEW s \in Session, RecoverJudge(s) PROVE ConfirmedFirst'
    BY <1>18 DEF RecoverJudge, Recovers, Restored
  <1>19. ASSUME NEW s \in Session, RecoverWrite(s) PROVE ConfirmedFirst'
    BY <1>19 DEF RecoverWrite, EndRecovery, Recovers
  <1>20. ASSUME NEW s \in Session, TransitionLoads(s) PROVE ConfirmedFirst'
    BY <1>20 DEF TransitionLoads, Expected
  <1>21. ASSUME NEW s \in Session, TransitionChecks(s) PROVE ConfirmedFirst'
    BY <1>21 DEF TransitionChecks, Source
  <1>22. ASSUME NEW s \in Session, StopTimer(s) PROVE ConfirmedFirst'
    BY <1>22 DEF StopTimer
  <1>23. ASSUME NEW s \in Session, TransitionRefuses(s) PROVE ConfirmedFirst'
    BY <1>23 DEF TransitionRefuses, Unsettled
  <1>24. ASSUME NEW s \in Session, TransitionBegins(s) PROVE ConfirmedFirst'
    BY <1>24 DEF TransitionBegins, Expected, Underway
  <1>25. ASSUME NEW s \in Session, TransitionSets(s) PROVE ConfirmedFirst'
    BY <1>25 DEF TransitionSets, Destination, SetProfile, SetProfileFails
  <1>26. ASSUME NEW s \in Session, TransitionSwitches(s) PROVE ConfirmedFirst'
    BY <1>26 DEF TransitionSwitches, Destination, Switch
  <1>27. ASSUME NEW s \in Session, TransitionVerifies(s) PROVE ConfirmedFirst'
    BY <1>27 DEF TransitionVerifies, Destination, Succeeded
  <1>28. ASSUME NEW s \in Session, TransitionUndoes(s) PROVE ConfirmedFirst'
    BY <1>28
    DEF TransitionUndoes, SetProfile, SetProfileFails, Source, Unsettled
  <1>29. ASSUME NEW s \in Session, TransitionReswitches(s)
        PROVE  ConfirmedFirst'
    BY <1>29 DEF TransitionReswitches, Source, Switch, Unsettled
  <1>30. ASSUME NEW s \in Session, TransitionJudges(s) PROVE ConfirmedFirst'
    BY <1>30 DEF TransitionJudges, Compensated, Source, Unsettled
  <1>31. ASSUME NEW s \in Session, TransitionEnds(s) PROVE ConfirmedFirst'
    BY <1>31 DEF TransitionEnds
  <1>32. ASSUME NEW s \in Session, NEW k \in {"timer", "now"},
         RecoveryEnds(s, k)
        PROVE  ConfirmedFirst'
    BY <1>32 DEF RecoveryEnds, MayRecover
  <1>33. ASSUME NEW s \in Session, NEW k \in {"timer", "now"},
         RecoveryBegins(s, k)
        PROVE  ConfirmedFirst'
    BY <1>33 DEF RecoveryBegins, MayRecover
  <1>34. ASSUME HelperDies PROVE ConfirmedFirst'
    BY <1>34 DEF HelperDies
  <1>35. ASSUME Reboot PROVE ConfirmedFirst'
    BY <1>35 DEF Reboot
  <1>36. CASE UNCHANGED vars
    BY <1>36 DEF vars
  <1>37. QED
    BY <1>1, <1>2, <1>3, <1>4, <1>5, <1>6, <1>7, <1>8, <1>9, <1>10, <1>11,
       <1>12, <1>13, <1>14, <1>15, <1>16, <1>17, <1>18, <1>19, <1>20, <1>21,
       <1>22, <1>23, <1>24, <1>25, <1>26, <1>27, <1>28, <1>29, <1>30, <1>31,
       <1>32, <1>33, <1>34, <1>35, <1>36
    DEF Next, HelperStep, RecoveryStep, TransitionStep

\* The request does not come to the activation before the timer was armed, and a
\* timer that was armed is never unknown again.
LEMMA TimerFirstStep ==
  ASSUME TypeOK, TimerFirst, [Next]_vars
  PROVE  TimerFirst'
  <1> USE DEF links, recovery, helper, transition, Proceed, Return, Write,
              Step, Apart, Serves, TypeOK, TimerFirst, HelperPhases, Modes,
              RecoveryPhases, States, TransitionPhases, Units, Finished,
              Recoverable
  <1>1. ASSUME NEW s \in Session, TestBegins(s) PROVE TimerFirst'
    BY <1>1 DEF TestBegins
  <1>2. ASSUME NEW s \in Session, Commit(s) PROVE TimerFirst'
    BY <1>2 DEF Commit, MayCommit
  <1>3. ASSUME NEW s \in Session, RollBack(s) PROVE TimerFirst'
    BY <1>3 DEF RollBack, Unfinished
  <1>4. ASSUME NEW s \in Session, RecoverNow(s) PROVE TimerFirst'
    BY <1>4 DEF RecoverNow
  <1>5. ASSUME NEW s \in Session, Create(s) PROVE TimerFirst'
    BY <1>5 DEF Create, Blocked, Unfinished
  <1>6. ASSUME NEW s \in Session, ScheduleTimer(s) PROVE TimerFirst'
    BY <1>6 DEF ScheduleTimer
  <1>7. ASSUME NEW s \in Session, Unschedule(s) PROVE TimerFirst'
    BY <1>7 DEF Unschedule
  <1>8. ASSUME NEW s \in Session, BeginTest(s) PROVE TimerFirst'
    BY <1>8 DEF BeginTest
  <1>9. ASSUME NEW s \in Session, StartTest(s) PROVE TimerFirst'
    BY <1>9 DEF StartTest
  <1>10. ASSUME NEW s \in Session, AwaitTest(s) PROVE TimerFirst'
    BY <1>10 DEF AwaitTest, Passed
  <1>11. ASSUME NEW s \in Session, EndTest(s) PROVE TimerFirst'
    BY <1>11 DEF EndTest
  <1>12. ASSUME NEW s \in Session, ScheduleTransition(s) PROVE TimerFirst'
    BY <1>12 DEF ScheduleTransition
  <1>13. ASSUME NEW s \in Session, Revert(s) PROVE TimerFirst'
    BY <1>13 DEF Revert
  <1>14. ASSUME NEW s \in Session, TestRuns(s) PROVE TimerFirst'
    BY <1>14 DEF TestRuns, Switch
  <1>15. ASSUME NEW s \in Session, TimerElapses(s) PROVE TimerFirst'
    BY <1>15 DEF TimerElapses
  <1>16. ASSUME NEW s \in Session, RecoverProfile(s) PROVE TimerFirst'
    BY <1>16
    DEF RecoverProfile, EndRecovery, Recovers, SetProfile, SetProfileFails
  <1>17. ASSUME NEW s \in Session, RecoverSwitch(s) PROVE TimerFirst'
    BY <1>17 DEF RecoverSwitch, EndRecovery, Recovers, Switch
  <1>18. ASSUME NEW s \in Session, RecoverJudge(s) PROVE TimerFirst'
    BY <1>18 DEF RecoverJudge, Recovers, Restored
  <1>19. ASSUME NEW s \in Session, RecoverWrite(s) PROVE TimerFirst'
    BY <1>19 DEF RecoverWrite, EndRecovery, Recovers
  <1>20. ASSUME NEW s \in Session, TransitionLoads(s) PROVE TimerFirst'
    BY <1>20 DEF TransitionLoads, Expected
  <1>21. ASSUME NEW s \in Session, TransitionChecks(s) PROVE TimerFirst'
    BY <1>21 DEF TransitionChecks, Source
  <1>22. ASSUME NEW s \in Session, StopTimer(s) PROVE TimerFirst'
    BY <1>22 DEF StopTimer
  <1>23. ASSUME NEW s \in Session, TransitionRefuses(s) PROVE TimerFirst'
    BY <1>23 DEF TransitionRefuses, Unsettled
  <1>24. ASSUME NEW s \in Session, TransitionBegins(s) PROVE TimerFirst'
    BY <1>24 DEF TransitionBegins, Expected, Underway
  <1>25. ASSUME NEW s \in Session, TransitionSets(s) PROVE TimerFirst'
    BY <1>25 DEF TransitionSets, Destination, SetProfile, SetProfileFails
  <1>26. ASSUME NEW s \in Session, TransitionSwitches(s) PROVE TimerFirst'
    BY <1>26 DEF TransitionSwitches, Destination, Switch
  <1>27. ASSUME NEW s \in Session, TransitionVerifies(s) PROVE TimerFirst'
    BY <1>27 DEF TransitionVerifies, Destination, Succeeded
  <1>28. ASSUME NEW s \in Session, TransitionUndoes(s) PROVE TimerFirst'
    BY <1>28
    DEF TransitionUndoes, SetProfile, SetProfileFails, Source, Unsettled
  <1>29. ASSUME NEW s \in Session, TransitionReswitches(s) PROVE TimerFirst'
    BY <1>29 DEF TransitionReswitches, Source, Switch, Unsettled
  <1>30. ASSUME NEW s \in Session, TransitionJudges(s) PROVE TimerFirst'
    BY <1>30 DEF TransitionJudges, Compensated, Source, Unsettled
  <1>31. ASSUME NEW s \in Session, TransitionEnds(s) PROVE TimerFirst'
    BY <1>31 DEF TransitionEnds
  <1>32. ASSUME NEW s \in Session, NEW k \in {"timer", "now"},
         RecoveryEnds(s, k)
        PROVE  TimerFirst'
    BY <1>32 DEF RecoveryEnds, MayRecover
  <1>33. ASSUME NEW s \in Session, NEW k \in {"timer", "now"},
         RecoveryBegins(s, k)
        PROVE  TimerFirst'
    BY <1>33 DEF RecoveryBegins, MayRecover
  <1>34. ASSUME HelperDies PROVE TimerFirst'
    BY <1>34 DEF HelperDies
  <1>35. ASSUME Reboot PROVE TimerFirst'
    BY <1>35 DEF Reboot
  <1>36. CASE UNCHANGED vars
    BY <1>36 DEF vars
  <1>37. QED
    BY <1>1, <1>2, <1>3, <1>4, <1>5, <1>6, <1>7, <1>8, <1>9, <1>10, <1>11,
       <1>12, <1>13, <1>14, <1>15, <1>16, <1>17, <1>18, <1>19, <1>20, <1>21,
       <1>22, <1>23, <1>24, <1>25, <1>26, <1>27, <1>28, <1>29, <1>30, <1>31,
       <1>32, <1>33, <1>34, <1>35, <1>36
    DEF Next, HelperStep, RecoveryStep, TransitionStep

\* Only the activation of the request starts a test, and only its own end, a
\* transition of a confirmed session or a reboot ends a timer.
LEMMA TimerCoversStep ==
  ASSUME TypeOK, TimerFirst, ConfirmedFirst, [Next]_vars
  PROVE  TimerCovers
  <1> USE DEF TimerCovers, links, recovery, helper, transition, Proceed,
              Return, Write, Step, Apart, TypeOK, TimerFirst, ConfirmedFirst,
              HelperPhases, Modes, RecoveryPhases, States, TransitionPhases,
              Units, Serves, Finished, Recoverable
  <1>1. ASSUME NEW s \in Session, TestBegins(s) PROVE TimerCovers
    BY <1>1 DEF TestBegins
  <1>2. ASSUME NEW s \in Session, Commit(s) PROVE TimerCovers
    BY <1>2 DEF Commit, MayCommit
  <1>3. ASSUME NEW s \in Session, RollBack(s) PROVE TimerCovers
    BY <1>3 DEF RollBack, Unfinished
  <1>4. ASSUME NEW s \in Session, RecoverNow(s) PROVE TimerCovers
    BY <1>4 DEF RecoverNow
  <1>5. ASSUME NEW s \in Session, Create(s) PROVE TimerCovers
    BY <1>5 DEF Create, Blocked, Unfinished
  <1>6. ASSUME NEW s \in Session, ScheduleTimer(s) PROVE TimerCovers
    BY <1>6 DEF ScheduleTimer
  <1>7. ASSUME NEW s \in Session, Unschedule(s) PROVE TimerCovers
    BY <1>7 DEF Unschedule
  <1>8. ASSUME NEW s \in Session, BeginTest(s) PROVE TimerCovers
    BY <1>8 DEF BeginTest
  <1>9. ASSUME NEW s \in Session, StartTest(s) PROVE TimerCovers
    BY <1>9 DEF StartTest
  <1>10. ASSUME NEW s \in Session, AwaitTest(s) PROVE TimerCovers
    BY <1>10 DEF AwaitTest, Passed
  <1>11. ASSUME NEW s \in Session, EndTest(s) PROVE TimerCovers
    BY <1>11 DEF EndTest
  <1>12. ASSUME NEW s \in Session, ScheduleTransition(s) PROVE TimerCovers
    BY <1>12 DEF ScheduleTransition
  <1>13. ASSUME NEW s \in Session, Revert(s) PROVE TimerCovers
    BY <1>13 DEF Revert
  <1>14. ASSUME NEW s \in Session, TestRuns(s) PROVE TimerCovers
    BY <1>14 DEF TestRuns, Switch
  <1>15. ASSUME NEW s \in Session, TimerElapses(s) PROVE TimerCovers
    BY <1>15 DEF TimerElapses
  <1>16. ASSUME NEW s \in Session, RecoverProfile(s) PROVE TimerCovers
    BY <1>16
    DEF RecoverProfile, EndRecovery, Recovers, SetProfile, SetProfileFails
  <1>17. ASSUME NEW s \in Session, RecoverSwitch(s) PROVE TimerCovers
    BY <1>17 DEF RecoverSwitch, EndRecovery, Recovers, Switch
  <1>18. ASSUME NEW s \in Session, RecoverJudge(s) PROVE TimerCovers
    BY <1>18 DEF RecoverJudge, Recovers, Restored
  <1>19. ASSUME NEW s \in Session, RecoverWrite(s) PROVE TimerCovers
    BY <1>19 DEF RecoverWrite, EndRecovery, Recovers
  <1>20. ASSUME NEW s \in Session, TransitionLoads(s) PROVE TimerCovers
    BY <1>20 DEF TransitionLoads, Expected
  <1>21. ASSUME NEW s \in Session, TransitionChecks(s) PROVE TimerCovers
    BY <1>21 DEF TransitionChecks, Source
  <1>22. ASSUME NEW s \in Session, StopTimer(s) PROVE TimerCovers
    BY <1>22 DEF StopTimer
  <1>23. ASSUME NEW s \in Session, TransitionRefuses(s) PROVE TimerCovers
    BY <1>23 DEF TransitionRefuses, Unsettled
  <1>24. ASSUME NEW s \in Session, TransitionBegins(s) PROVE TimerCovers
    BY <1>24 DEF TransitionBegins, Expected, Underway
  <1>25. ASSUME NEW s \in Session, TransitionSets(s) PROVE TimerCovers
    BY <1>25 DEF TransitionSets, Destination, SetProfile, SetProfileFails
  <1>26. ASSUME NEW s \in Session, TransitionSwitches(s) PROVE TimerCovers
    BY <1>26 DEF TransitionSwitches, Destination, Switch
  <1>27. ASSUME NEW s \in Session, TransitionVerifies(s) PROVE TimerCovers
    BY <1>27 DEF TransitionVerifies, Destination, Succeeded
  <1>28. ASSUME NEW s \in Session, TransitionUndoes(s) PROVE TimerCovers
    BY <1>28
    DEF TransitionUndoes, SetProfile, SetProfileFails, Source, Unsettled
  <1>29. ASSUME NEW s \in Session, TransitionReswitches(s) PROVE TimerCovers
    BY <1>29 DEF TransitionReswitches, Source, Switch, Unsettled
  <1>30. ASSUME NEW s \in Session, TransitionJudges(s) PROVE TimerCovers
    BY <1>30 DEF TransitionJudges, Compensated, Source, Unsettled
  <1>31. ASSUME NEW s \in Session, TransitionEnds(s) PROVE TimerCovers
    BY <1>31 DEF TransitionEnds
  <1>32. ASSUME NEW s \in Session, NEW k \in {"timer", "now"},
         RecoveryEnds(s, k)
        PROVE  TimerCovers
    BY <1>32 DEF RecoveryEnds, MayRecover
  <1>33. ASSUME NEW s \in Session, NEW k \in {"timer", "now"},
         RecoveryBegins(s, k)
        PROVE  TimerCovers
    BY <1>33 DEF RecoveryBegins, MayRecover
  <1>34. ASSUME HelperDies PROVE TimerCovers
    BY <1>34 DEF HelperDies
  <1>35. ASSUME Reboot PROVE TimerCovers
    BY <1>35 DEF Reboot
  <1>36. CASE UNCHANGED vars
    BY <1>36 DEF vars
  <1>37. QED
    <2> HIDE DEF TypeOK, TimerFirst, ConfirmedFirst, TimerCovers
    <2>1. QED
      BY <1>1, <1>2, <1>3, <1>4, <1>5, <1>6, <1>7, <1>8, <1>9, <1>10, <1>11,
         <1>12, <1>13, <1>14, <1>15, <1>16, <1>17, <1>18, <1>19, <1>20, <1>21,
         <1>22, <1>23, <1>24, <1>25, <1>26, <1>27, <1>28, <1>29, <1>30, <1>31,
         <1>32, <1>33, <1>34, <1>35, <1>36
      DEF Next, HelperStep, RecoveryStep, TransitionStep

\* At first nothing was created, tested or confirmed, and the links agree.
LEMMA InitInductive == Init => TypeOK /\ Inductive
  <1>1. SUFFICES ASSUME Init PROVE TypeOK /\ Inductive
    OBVIOUS
  <1>2. TypeOK
    BY <1>1, ActivationAssumption
    DEF Init, TypeOK, States, Finished, Recoverable, HelperPhases,
        RecoveryPhases, TransitionPhases, Modes, Units
  <1>3. LinksTrusted
    BY <1>1 DEF Init, LinksTrusted, Trusted
  <1>4. TestedOnce
    <2>1. \A s \in Session, k \in {"timer", "now"} : lock # <<s, k>>
      BY <1>1, ActivationAssumption DEF Init
    <2>2. hpc = "idle" /\ \A s \in Session : test[s] = "none"
      BY <1>1 DEF Init
    <2>3. QED
      BY <2>1, <2>2 DEF TestedOnce, Serves
  <1>5. ConfirmedFirst
    BY <1>1 DEF Init, ConfirmedFirst, Serves
  <1>6. TimerFirst
    BY <1>1 DEF Init, TimerFirst
  <1>7. QED
    BY <1>2, <1>3, <1>4, <1>5, <1>6 DEF Inductive

\* The types and the inductive invariant hold for ever, however tests,
\* recoveries, transitions, timeouts and crashes interleave.
THEOREM InductiveInvariant == Spec => [](TypeOK /\ Inductive)
  <1>1. TypeOK /\ Inductive /\ [Next]_vars => (TypeOK /\ Inductive)'
    <2>1. SUFFICES ASSUME TypeOK, Inductive, [Next]_vars
                   PROVE  TypeOK' /\ Inductive'
      OBVIOUS
    <2>2. TypeOK'
      BY <2>1, TypeOKStep
    <2>3. LinksTrusted' /\ TestedOnce'
      BY <2>1, LinksTrustedStep, TestedOnceStep DEF Inductive
    <2>4. ConfirmedFirst' /\ TimerFirst'
      BY <2>1, ConfirmedFirstStep, TimerFirstStep DEF Inductive
    <2>5. QED
      BY <2>2, <2>3, <2>4 DEF Inductive
  <1>2. QED
    BY <1>1, InitInductive, PTL DEF Spec

\* Every variable keeps its type: no interleaving writes a state that the
\* journal's reader would refuse.
THEOREM TypeCorrect == Spec => []TypeOK
  BY InductiveInvariant, PTL

\* Whatever the profile holds was installed at first, or is the candidate of a
\* session whose test passed and whose commit was accepted.
THEOREM OnlyTestedIsBooted == Spec => []BootsOnlyTested
  <1>1. TypeOK /\ Inductive => BootsOnlyTested
    <2>1. SUFFICES ASSUME TypeOK, Inductive, profile # Installed
                   PROVE  \E s \in confirmed :
                            profile = Candidate[s] /\ test[s] = "passed"
      BY DEF BootsOnlyTested
    <2>2. PICK s \in confirmed : profile = Candidate[s]
      BY <2>1 DEF Inductive, LinksTrusted, Trusted
    <2>3. QED
      BY <2>1, <2>2 DEF TypeOK, Inductive, ConfirmedFirst
  <1>2. QED
    BY <1>1, InductiveInvariant, PTL

\* No candidate is started before its recovery timer was armed, and the timer is
\* stopped by nobody but the commit that a user confirmed.
THEOREM TimerIsArmed == Spec => TimerBeforeTest
  <1>1. TypeOK /\ Inductive /\ [Next]_vars => [TimerCovers]_vars
    <2>1. SUFFICES ASSUME TypeOK, Inductive, [Next]_vars
                   PROVE  TimerCovers
      OBVIOUS
    <2>2. QED
      BY <2>1, TimerCoversStep DEF Inductive
  <1>2. QED
    BY <1>1, InductiveInvariant, PTL DEF Spec, TimerBeforeTest
=============================================================================
