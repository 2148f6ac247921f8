----------------------------- MODULE Activation -----------------------------
(***************************************************************************)
(* Test activations and their recovery, commit and rollback:                *)
(* activation_session.py and live_read_only_backend.py.                     *)
(*                                                                          *)
(* The helper daemon serves one request at a time.  Everything slow runs in *)
(* transient systemd units that it starts and that outlive it: the unit     *)
(* that activates the candidate, the timer that recovers it, the unit of    *)
(* "Recover now" and the unit that commits or rolls back.  They share the   *)
(* session journal, whose lock is held for single reads and writes by all   *)
(* of them but the recovery, which keeps it throughout, and the two links   *)
(* /run/current-system and /nix/var/nix/profiles/system, which nothing      *)
(* locks.  Commands may fail before or after they took effect.              *)
(*                                                                          *)
(* An operator whose name has an underscore is a slip that the code could   *)
(* have had in place of the definition that follows it.  None is reachable  *)
(* from Spec.                                                               *)
(***************************************************************************)
EXTENDS Naturals, FiniteSets

CONSTANTS
  Session,      \* activation sessions, created in the order of <
  Closure,      \* system closures in the Nix store
  Candidate,    \* [Session -> Closure]: the closure a session tests
  Installed,    \* the closure that runs, and boots, at first
  Free,         \* nobody holds the journal lock
  Collectable,  \* may a closure or a tool be missing when it is needed?
  Overlaps,     \* may a recovery, a commit or a rollback begin while another
                \* operation is under way, and may systemd's answer be lost?
  MaxWaiting,   \* bound on recovery units that wait when one more is asked for
  MaxFailures   \* bound on reboots and deaths of the helper

ASSUME ActivationAssumption ==
  /\ Session \subseteq Nat
  /\ Candidate \in [Session -> Closure]
  /\ Installed \in Closure
  /\ Free \notin Session \X {"timer", "now"}
  /\ Collectable \in BOOLEAN
  /\ Overlaps \in BOOLEAN
  /\ MaxWaiting \in Nat /\ MaxFailures \in Nat

VARIABLES
  journal,     \* the state of every session as last written
  previous,    \* its previous_system_path
  current,     \* /run/current-system
  profile,     \* /nix/var/nix/profiles/system
  lock,        \* the unit whose recovery holds the journal lock, or Free
  hpc,         \* where the helper is in the request it serves
  hsession,    \* the session of that request
  hseen,       \* the profile it read before it created the session
  test,        \* the unit that runs the candidate's switch-to-configuration
  timer,       \* the recovery timer
  called,      \* recovery units that were started and have not begun
  rphase,      \* where the recovery that holds the lock is
  tpc, tmode, tend,  \* where a transition is, what it does, what it will write
  confirmed,   \* history: sessions whose commit was accepted
  failures

helper == <<hpc, hsession, hseen>>
links == <<current, profile>>
recovery == <<lock, called, rphase>>
transition == <<tpc, tmode, tend>>
vars == <<journal, previous, links, recovery, helper, test, timer, transition,
          confirmed, failures>>

-----------------------------------------------------------------------------
Finished == {"recovered", "committed", "rolled-back"}
Recoverable == {"prepared", "activating", "active", "activation-failed",
                "recovery-required", "recovering", "commit-prepared",
                "committing", "commit-failed"}
States == Finished \cup Recoverable \cup
            {"none", "rollback-prepared", "rolling-back", "rollback-required"}
Units == Session \X {"timer", "now"}
HelperPhases == {"idle", "create", "schedule", "unschedule", "begin", "start",
                 "wait", "active", "activation-failed", "transition", "revert"}
RecoveryPhases == {"idle", "profile", "switch", "judge", "recovered",
                   "recovery-required"}
TransitionPhases == {"idle", "load", "check", "stop", "refuse", "begin", "set",
                     "switch", "verify", "undo", "reswitch", "judge", "write"}
Modes == {"commit", "rollback"}

TypeOK ==
  /\ journal \in [Session -> States]
  /\ previous \in [Session -> Closure]
  /\ current \in Closure
  /\ profile \in Closure
  /\ lock \in Units \cup {Free}
  /\ hpc \in HelperPhases
  /\ hsession \in Session
  /\ hseen \in Closure
  /\ test \in [Session -> {"none", "running", "passed", "failed"}]
  /\ timer \in [Session -> {"none", "armed", "gone"}]
  /\ called \in SUBSET Units
  /\ rphase \in RecoveryPhases
  /\ tpc \in [Session -> TransitionPhases]
  /\ tmode \in [Session -> Modes]
  /\ tend \in [Session -> States]
  /\ confirmed \in SUBSET Session
  /\ failures \in Nat

Init ==
  /\ journal = [s \in Session |-> "none"]
  /\ previous = [s \in Session |-> Installed]
  /\ current = Installed /\ profile = Installed
  /\ lock = Free /\ called = {} /\ rphase = "idle"
  /\ hpc = "idle" /\ hsession \in Session /\ hseen = Installed
  /\ test = [s \in Session |-> "none"]
  /\ timer = [s \in Session |-> "none"]
  /\ tpc = [s \in Session |-> "idle"]
  /\ tmode = [s \in Session |-> "commit"]
  /\ tend = [s \in Session |-> "none"]
  /\ confirmed = {}
  /\ failures = 0

-----------------------------------------------------------------------------
(* Helpers                                                                  *)

Unfinished == {s \in Session : journal[s] \notin Finished \cup {"none"}}

Write(s, state) == journal' = [journal EXCEPT ![s] = state]

\* The helper is idle, or at a step of the request about s.
Serves(s, phase) == hpc = phase /\ hsession = s
Return == hpc' = "idle" /\ UNCHANGED <<hsession, hseen>>
Proceed(phase) == hpc' = phase /\ UNCHANGED <<hsession, hseen>>

\* No request and no unit is under way, a recovery (the lock) aside.
AtRest ==
  /\ hpc = "idle"
  /\ \A s \in Session : test[s] # "running" /\ tpc[s] = "idle"

\* nix-env --profile ... --set: a failure may come after the link changed.
SetProfile(closure)      == profile' = closure
SetProfileFails(closure) == profile' \in {profile, closure}

\* switch-to-configuration: even a success is only claimed.
Switch(closure) == current' \in {current, closure}

-----------------------------------------------------------------------------
(* test_activation                                                          *)

\* The verified candidate; the profile is read before the lock is taken.
TestBegins(s) ==
  /\ hpc = "idle"
  /\ journal[s] = "none"
  /\ \A u \in Session : u < s => journal[u] # "none"
  /\ hpc' = "create" /\ hsession' = s /\ hseen' = profile
  /\ UNCHANGED <<journal, previous, links, recovery, test, timer, transition,
                 confirmed, failures>>

Blocked_ByActiveOnly == \E s \in Session : journal[s] = "active"

\* store.unfinished()
Blocked == Unfinished # {}

Create(s) ==
  /\ Serves(s, "create")
  /\ lock = Free
  /\ \/ /\ Blocked
        /\ Return
        /\ UNCHANGED <<journal, previous>>
     \/ /\ ~Blocked
        /\ Write(s, "prepared")
        /\ previous' = [previous EXCEPT ![s] = hseen]
        /\ Proceed("schedule")
  /\ UNCHANGED <<links, recovery, test, timer, transition, confirmed, failures>>

ScheduleTimer_Ignored(s) ==
  /\ Serves(s, "schedule")
  /\ Proceed("begin")
  /\ timer' \in {timer, [timer EXCEPT ![s] = "armed"]}
  /\ UNCHANGED <<journal, previous, links, recovery, test, transition, confirmed,
                 failures>>

\* systemd-run --on-active: armed; refused; or no answer, armed or not.
ScheduleTimer(s) ==
  /\ Serves(s, "schedule")
  /\ \/ /\ Proceed("begin")
        /\ timer' = [timer EXCEPT ![s] = "armed"]
     \/ /\ Proceed("unschedule")
        /\ UNCHANGED timer
     \/ /\ Return
        /\ timer' \in {timer, [timer EXCEPT ![s] = "armed"]}
  /\ UNCHANGED <<journal, previous, links, recovery, test, transition, confirmed,
                 failures>>

\* Nothing was activated, so the session counts as recovered.
Unschedule(s) ==
  /\ Serves(s, "unschedule")
  /\ lock = Free
  /\ Write(s, "recovered")
  /\ Return
  /\ UNCHANGED <<previous, links, recovery, test, timer, transition, confirmed,
                 failures>>

\* The session is written as the helper remembers it, whatever it holds now.
BeginTest(s) ==
  /\ Serves(s, "begin")
  /\ lock = Free
  /\ Write(s, "activating")
  /\ Proceed("start")
  /\ UNCHANGED <<previous, links, recovery, test, timer, transition, confirmed,
                 failures>>

\* systemd-run --wait switch-to-configuration test; it may not start at all.
StartTest(s) ==
  /\ Serves(s, "start")
  /\ \/ /\ test' = [test EXCEPT ![s] = "running"]
        /\ Proceed("wait")
     \/ /\ test' = [test EXCEPT ![s] = "failed"]
        /\ Proceed("activation-failed")
  /\ UNCHANGED <<journal, previous, links, recovery, timer, transition,
                 confirmed, failures>>

TestRuns(s) ==
  /\ test[s] = "running"
  /\ Switch(Candidate[s])
  /\ test' \in {[test EXCEPT ![s] = outcome] : outcome \in {"passed", "failed"}}
  /\ UNCHANGED <<journal, previous, profile, recovery, helper, timer, transition,
                 confirmed, failures>>

Passed(s) == test[s] = "passed" /\ current = Candidate[s]

\* The helper hears of the end, or gives up after its timeout; the unit does not.
AwaitTest(s) ==
  /\ Serves(s, "wait")
  /\ Proceed(IF Passed(s) THEN "active" ELSE "activation-failed")
  /\ UNCHANGED <<journal, previous, links, recovery, test, timer, transition,
                 confirmed, failures>>

EndTest(s) ==
  /\ Serves(s, "active") \/ Serves(s, "activation-failed")
  /\ lock = Free
  /\ Write(s, hpc)
  /\ Return
  /\ UNCHANGED <<previous, links, recovery, test, timer, transition, confirmed,
                 failures>>

-----------------------------------------------------------------------------
(* recover_activation_session, run by the timer or by "Recover now"          *)

TimerElapses(s) ==
  /\ timer[s] = "armed"
  /\ timer' = [timer EXCEPT ![s] = "gone"]
  /\ called' = called \cup {<<s, "timer">>}
  /\ UNCHANGED <<journal, previous, links, lock, rphase, helper, test,
                 transition, confirmed, failures>>

\* recover_test_activation; the unit may outlive the helper's patience.
RecoverNow(s) ==
  /\ hpc = "idle"
  /\ lock = Free
  /\ journal[s] \notin {"none", "recovered"}
  /\ <<s, "now">> \notin called /\ Cardinality(called) <= MaxWaiting
  /\ called' = called \cup {<<s, "now">>}
  /\ UNCHANGED <<journal, previous, links, lock, rphase, helper, test, timer,
                 transition, confirmed, failures>>

MayRecover_FinishedTests(s) ==
  journal[s] \in Recoverable \ {"prepared", "activating"}

MayRecover_RolledBack(s) == journal[s] \notin {"none", "recovered", "committed"}

MayRecover(s) == journal[s] \in Recoverable

\* A finished session, or an unavailable closure, ends the unit at once.
RecoveryEnds(s, k) ==
  /\ <<s, k>> \in called
  /\ lock = Free
  /\ ~MayRecover(s) \/ Collectable
  /\ called' = called \ {<<s, k>>}
  /\ UNCHANGED <<journal, previous, links, lock, rphase, helper, test, timer,
                 transition, confirmed, failures>>

RecoveryBegins(s, k) ==
  /\ <<s, k>> \in called
  /\ lock = Free
  /\ MayRecover(s)
  /\ Overlaps \/ AtRest
  /\ lock' = <<s, k>>
  /\ called' = called \ {<<s, k>>}
  /\ Write(s, "recovering")
  /\ rphase' = "profile"
  /\ UNCHANGED <<previous, links, helper, test, timer, transition, confirmed,
                 failures>>

\* The end of a recovery: its last write, and the release of the lock.
EndRecovery(s, state) ==
  /\ Write(s, state)
  /\ lock' = Free
  /\ rphase' = "idle"
  /\ UNCHANGED called

\* The step of the recovery of s that holds the lock.
Recovers(s, phase) == rphase = phase /\ \E k \in {"timer", "now"} : lock = <<s, k>>

\* The profile is set only if it is not the previous closure already.
RecoverProfile(s) ==
  /\ Recovers(s, "profile")
  /\ \/ /\ SetProfile(previous[s])
        /\ rphase' = "switch"
        /\ UNCHANGED <<journal, lock, called>>
     \/ /\ profile # previous[s]
        /\ SetProfileFails(previous[s])
        /\ EndRecovery(s, "recovery-required")
  /\ UNCHANGED <<previous, current, helper, test, timer, transition, confirmed,
                 failures>>

\* switch-to-configuration of the previous closure
RecoverSwitch(s) ==
  /\ Recovers(s, "switch")
  /\ Switch(previous[s])
  /\ \/ /\ rphase' = "judge"
        /\ UNCHANGED <<journal, lock, called>>
     \/ EndRecovery(s, "recovery-required")
  /\ UNCHANGED <<previous, profile, helper, test, timer, transition, confirmed,
                 failures>>

Restored_ProfileOnly(s) == profile = previous[s]

Restored(s) == current = previous[s] /\ profile = previous[s]

RecoverJudge(s) ==
  /\ Recovers(s, "judge")
  /\ rphase' = IF Restored(s) THEN "recovered" ELSE "recovery-required"
  /\ UNCHANGED <<journal, previous, links, lock, called, helper, test, timer,
                 transition, confirmed, failures>>

RecoverWrite(s) ==
  /\ Recovers(s, "recovered") \/ Recovers(s, "recovery-required")
  /\ EndRecovery(s, rphase)
  /\ UNCHANGED <<previous, links, helper, test, timer, transition, confirmed,
                 failures>>

RecoveryStep(s) ==
  \/ \E k \in {"timer", "now"} : RecoveryEnds(s, k) \/ RecoveryBegins(s, k)
  \/ RecoverProfile(s) \/ RecoverSwitch(s) \/ RecoverJudge(s) \/ RecoverWrite(s)

-----------------------------------------------------------------------------
(* commit_tested_system and rollback_committed_system                        *)

MayCommit_FailedTest(s) ==
  /\ journal[s] \in {"active", "activation-failed"}
  /\ current = Candidate[s]
  /\ profile = previous[s]

\* Only the active session, while the links are as its test left them.
MayCommit(s) ==
  /\ journal[s] = "active"
  /\ current = Candidate[s]
  /\ profile = previous[s]

Commit(s) ==
  /\ hpc = "idle"
  /\ lock = Free
  /\ MayCommit(s)
  /\ Overlaps \/ AtRest
  /\ Write(s, "commit-prepared")
  /\ hpc' = "transition" /\ hsession' = s /\ UNCHANGED hseen
  /\ tmode' = [tmode EXCEPT ![s] = "commit"]
  /\ confirmed' = confirmed \cup {s}
  /\ UNCHANGED <<previous, links, recovery, test, timer, tpc, tend, failures>>

\* Only this session is looked at, whatever the journal says of the others.
RollBack(s) ==
  /\ hpc = "idle"
  /\ lock = Free
  /\ journal[s] = "committed"
  /\ current = Candidate[s] /\ profile = Candidate[s]
  /\ Overlaps \/ AtRest
  /\ Write(s, "rollback-prepared")
  /\ hpc' = "transition" /\ hsession' = s /\ UNCHANGED hseen
  /\ tmode' = [tmode EXCEPT ![s] = "rollback"]
  /\ UNCHANGED <<previous, links, recovery, test, timer, tpc, tend, confirmed,
                 failures>>

\* systemd-run --no-block: started; refused, as it is while a unit of the name
\* exists; or no answer in time, although it was started.
ScheduleTransition(s) ==
  /\ Serves(s, "transition")
  /\ \/ /\ tpc[s] = "idle"
        /\ tpc' = [tpc EXCEPT ![s] = "load"]
        /\ Return \/ (Overlaps /\ Proceed("revert"))
     \/ /\ Proceed("revert")
        /\ UNCHANGED tpc
  /\ UNCHANGED <<journal, previous, links, recovery, test, timer, tmode, tend,
                 confirmed, failures>>

\* The request is taken back, unless the journal has moved on.
Revert(s) ==
  /\ Serves(s, "revert")
  /\ lock = Free
  /\ journal' = [journal EXCEPT ![s] =
                   CASE @ = "commit-prepared" /\ tmode[s] = "commit" -> "active"
                     [] @ = "rollback-prepared" /\ tmode[s] = "rollback"
                          -> "committed"
                     [] OTHER -> @]
  /\ Return
  /\ UNCHANGED <<previous, links, recovery, test, timer, transition, confirmed,
                 failures>>

-----------------------------------------------------------------------------
(* transition_activation_session                                            *)

Expected(s) == IF tmode[s] = "commit" THEN "commit-prepared" ELSE "rollback-prepared"
Underway(s) == IF tmode[s] = "commit" THEN "committing" ELSE "rolling-back"
Succeeded(s) == IF tmode[s] = "commit" THEN "committed" ELSE "rolled-back"
Compensated(s) == IF tmode[s] = "commit" THEN "recovered" ELSE "committed"
Unsettled_UnknownState(s) ==
  IF tmode[s] = "commit" THEN "recovery-required" ELSE "rollback-failed"
Unsettled(s) == IF tmode[s] = "commit" THEN "recovery-required"
                ELSE "rollback-required"
Destination(s) == IF tmode[s] = "commit" THEN Candidate[s] ELSE previous[s]
Source(s) == IF tmode[s] = "commit" THEN previous[s] ELSE Candidate[s]

Step(s, from, to) == tpc[s] = from /\ tpc' = [tpc EXCEPT ![s] = to]

\* What a step of the transition of s leaves alone, its own variables aside.
Apart == UNCHANGED <<previous, recovery, helper, test, tmode, confirmed, failures>>

TransitionLoads(s) ==
  /\ lock = Free
  /\ \/ journal[s] = Expected(s) /\ Step(s, "load", "check")
     \/ journal[s] # Expected(s) /\ Step(s, "load", "idle")
  /\ Apart /\ UNCHANGED <<journal, links, timer, tend>>

\* The closure, the tools or the links may not be what the transition needs.
TransitionChecks(s) ==
  /\ \/ /\ current = Candidate[s] /\ profile = Source(s)
        /\ Step(s, "check", IF tmode[s] = "commit" THEN "stop" ELSE "begin")
     \/ /\ Collectable \/ current # Candidate[s] \/ profile # Source(s)
        /\ Step(s, "check", "refuse")
  /\ Apart /\ UNCHANGED <<journal, links, timer, tend>>

\* systemctl stop fails on a timer that is unloaded: one that has elapsed is loaded
\* until the recovery that it started has ended.
StopTimer(s) ==
  /\ \/ /\ \/ timer[s] = "armed"
           \/ <<s, "timer">> \in called \cup {lock}
        /\ timer' = [timer EXCEPT ![s] = "gone"]
        /\ Step(s, "stop", "begin")
     \/ /\ timer' \in {timer, [timer EXCEPT ![s] = "gone"]}
        /\ Step(s, "stop", "refuse")
  /\ Apart /\ UNCHANGED <<journal, links, tend>>

\* The failure of a check is written over whatever the journal holds now.
TransitionRefuses(s) ==
  /\ lock = Free
  /\ Step(s, "refuse", "idle")
  /\ Write(s, Unsettled(s))
  /\ Apart /\ UNCHANGED <<links, timer, tend>>

TransitionBegins(s) ==
  /\ lock = Free
  /\ \/ /\ journal[s] = Expected(s)
        /\ Step(s, "begin", "set") /\ Write(s, Underway(s))
     \/ /\ journal[s] # Expected(s)
        /\ Step(s, "begin", "idle") /\ UNCHANGED journal
  /\ Apart /\ UNCHANGED <<links, timer, tend>>

TransitionSets(s) ==
  /\ \/ SetProfile(Destination(s)) /\ Step(s, "set", "switch")
     \/ SetProfileFails(Destination(s)) /\ Step(s, "set", "undo")
  /\ Apart /\ UNCHANGED <<journal, current, timer, tend>>

TransitionSwitches(s) ==
  /\ Switch(Destination(s))
  /\ Step(s, "switch", "verify") \/ Step(s, "switch", "undo")
  /\ Apart /\ UNCHANGED <<journal, profile, timer, tend>>

TransitionVerifies_ProfileOnly(s) ==
  /\ \/ /\ profile = Destination(s)
        /\ Step(s, "verify", "write")
        /\ tend' = [tend EXCEPT ![s] = Succeeded(s)]
     \/ /\ profile # Destination(s)
        /\ Step(s, "verify", "undo") /\ UNCHANGED tend
  /\ Apart /\ UNCHANGED <<journal, links, timer>>

TransitionVerifies(s) ==
  /\ \/ /\ current = Destination(s) /\ profile = Destination(s)
        /\ Step(s, "verify", "write")
        /\ tend' = [tend EXCEPT ![s] = Succeeded(s)]
     \/ /\ current # Destination(s) \/ profile # Destination(s)
        /\ Step(s, "verify", "undo") /\ UNCHANGED tend
  /\ Apart /\ UNCHANGED <<journal, links, timer>>

\* The compensation goes back to where the transition came from.
TransitionUndoes(s) ==
  /\ \/ /\ SetProfile(Source(s))
        /\ Step(s, "undo", "reswitch") /\ UNCHANGED tend
     \/ /\ SetProfileFails(Source(s))
        /\ Step(s, "undo", "write")
        /\ tend' = [tend EXCEPT ![s] = Unsettled(s)]
  /\ Apart /\ UNCHANGED <<journal, current, timer>>

TransitionReswitches(s) ==
  /\ Switch(Source(s))
  /\ \/ Step(s, "reswitch", "judge") /\ UNCHANGED tend
     \/ /\ Step(s, "reswitch", "write")
        /\ tend' = [tend EXCEPT ![s] = Unsettled(s)]
  /\ Apart /\ UNCHANGED <<journal, profile, timer>>

TransitionJudges(s) ==
  /\ Step(s, "judge", "write")
  /\ tend' = [tend EXCEPT ![s] =
                IF current = Source(s) /\ profile = Source(s)
                THEN Compensated(s) ELSE Unsettled(s)]
  /\ Apart /\ UNCHANGED <<journal, links, timer>>

\* The final state, too, is written without another look at the journal.
TransitionEnds(s) ==
  /\ lock = Free
  /\ Step(s, "write", "idle")
  /\ Write(s, tend[s])
  /\ tend' = [tend EXCEPT ![s] = "none"]
  /\ Apart /\ UNCHANGED <<links, timer>>

TransitionStep(s) ==
  \/ TransitionLoads(s) \/ TransitionChecks(s) \/ StopTimer(s)
  \/ TransitionRefuses(s) \/ TransitionBegins(s)
  \/ TransitionSets(s) \/ TransitionSwitches(s) \/ TransitionVerifies(s)
  \/ TransitionUndoes(s) \/ TransitionReswitches(s) \/ TransitionJudges(s)
  \/ TransitionEnds(s)

-----------------------------------------------------------------------------
(* Failures                                                                 *)

\* The daemon dies in the middle of a request; the units go on.
HelperDies ==
  /\ hpc # "idle"
  /\ failures < MaxFailures
  /\ failures' = failures + 1
  /\ Return
  /\ UNCHANGED <<journal, previous, links, recovery, test, timer, transition,
                 confirmed>>

\* The machine boots its profile; every process and every unit is gone.
Reboot ==
  /\ failures < MaxFailures
  /\ failures' = failures + 1
  /\ current' = profile
  /\ lock' = Free /\ called' = {} /\ rphase' = "idle"
  /\ Return
  /\ test' = [s \in Session |-> IF test[s] = "running" THEN "failed" ELSE test[s]]
  /\ timer' = [s \in Session |-> IF timer[s] = "armed" THEN "gone" ELSE timer[s]]
  /\ tpc' = [s \in Session |-> "idle"]
  /\ tend' = [s \in Session |-> "none"]
  /\ UNCHANGED <<journal, previous, profile, tmode, confirmed>>

-----------------------------------------------------------------------------
HelperStep(s) ==
  \/ Create(s) \/ ScheduleTimer(s) \/ Unschedule(s) \/ BeginTest(s)
  \/ StartTest(s) \/ AwaitTest(s) \/ EndTest(s)
  \/ ScheduleTransition(s) \/ Revert(s)

Next ==
  \/ \E s \in Session : \/ TestBegins(s) \/ Commit(s) \/ RollBack(s)
                        \/ RecoverNow(s) \/ HelperStep(s) \/ TestRuns(s)
                        \/ TimerElapses(s) \/ RecoveryStep(s) \/ TransitionStep(s)
  \/ HelperDies
  \/ Reboot

Spec == Init /\ [][Next]_vars

\* What has been started goes on: the helper with its request, systemd with its
\* timers and units.  Nobody has to press a button.
FairSpec ==
  /\ Spec
  /\ \A s \in Session :
       /\ WF_vars(HelperStep(s))
       /\ WF_vars(TestRuns(s))
       /\ WF_vars(TimerElapses(s))
       /\ SF_vars(RecoveryStep(s))
       /\ WF_vars(TransitionStep(s))

-----------------------------------------------------------------------------
(* Properties                                                               *)

\* The machine only ever boots what was installed, or a candidate whose test
\* passed and whose commit a user confirmed, however tests, recoveries,
\* compensations and crashes race.
BootsOnlyTested ==
  \/ profile = Installed
  \/ \E s \in confirmed : profile = Candidate[s] /\ test[s] = "passed"

\* "Unfinished sessions block another activation" (docs/helper-protocol.md): a
\* candidate is started only while every other session is finished.
StartsAlone ==
  \A s \in Session :
    test[s] # "running" /\ test'[s] = "running" => Unfinished = {s}

TestsBlockEachOther == [][StartsAlone]_vars

\* A finished journal is never a lie about the links: once nothing is unfinished
\* and nothing runs, the machine runs what it will boot.
QuietMeansConsistent ==
  Unfinished = {} => current = profile

EndsTrue ==
  \A s \in Session : journal'[s] # journal[s] =>
    /\ journal'[s] = "committed" => current = Candidate[s] /\ profile = Candidate[s]
    /\ journal'[s] \in {"recovered", "rolled-back"} =>
         journal[s] = "prepared" \/ (current = previous[s] /\ profile = previous[s])

\* What is written as the end of a session is what the links say, unless the
\* session ends before its candidate was started.
EndsTellTheTruth == [][EndsTrue]_vars

FinishedKept ==
  \A s \in Session :
    journal[s] \in {"recovered", "rolled-back"} => journal'[s] = journal[s]

\* recovered and rolled-back are final.
FinishedStays == [][FinishedKept]_vars

\* A test "does not [...] update /nix/var/nix/profiles/system"
\* (docs/live-test-recovery.md), and neither does its recovery.
TestKeepsProfile ==
  [][\A s \in Session :
       s \notin confirmed /\ Recovers(s, "profile") => profile' = profile]_vars

TimerCovers ==
  \A s \in Session :
    /\ test[s] = "none" /\ test'[s] = "running" => timer[s] # "none"
    /\ timer[s] = "armed" /\ timer'[s] # "armed" =>
         s \in confirmed \/ <<s, "timer">> \in called' \/ failures' # failures

\* The timer is armed before the candidate runs, and nothing stops it but the
\* confirmed commit of that very session.
TimerBeforeTest == [][TimerCovers]_vars

\* A candidate that is not the boot profile does not stay, unless the journal
\* says that it needs attention.
TestsEnd ==
  current # profile ~>
    \/ current = profile
    \/ \E s \in Session : journal[s] \in {"recovery-required", "rollback-required"}
-----------------------------------------------------------------------------
(* The inductive invariant behind BootsOnlyTested and TimerBeforeTest         *)

\* What may be booted: every closure that a profile is ever set to comes from it.
Trusted == {Installed} \cup {Candidate[s] : s \in confirmed}

\* The profile, and every closure that a session or the helper remembers as the
\* one to go back to.
LinksTrusted ==
  /\ profile \in Trusted
  /\ hseen \in Trusted
  /\ \A s \in Session : previous[s] \in Trusted

\* A session is tested once, by the request that created it, and the requests,
\* units and recoveries that write it later never take it for a new one.
TestedOnce ==
  \A s \in Session :
    /\ journal[s] = "none" => test[s] = "none"
    /\ Serves(s, "create") => journal[s] = "none"
    /\ hsession = s /\ hpc \in {"schedule", "begin", "start"} => journal[s] # "none"
    /\ \A k \in {"timer", "now"} : lock = <<s, k>> => journal[s] # "none"
    /\ hsession = s /\ hpc \in {"create", "schedule", "begin", "start"} =>
         test[s] = "none"

\* Whoever commits, rolls back or compensates works for a confirmed session, and
\* a confirmed session has passed its test.
ConfirmedFirst ==
  \A s \in Session :
    /\ s \in confirmed \/ journal[s] = "active" \/ Serves(s, "active") =>
         test[s] = "passed"
    /\ \/ journal[s] \in {"commit-prepared", "committed", "rollback-prepared"}
       \/ tpc[s] # "idle"
       \/ Serves(s, "transition")
       => s \in confirmed
    /\ tpc[s] = "write" => tend[s] # "none"

\* A candidate is started only after systemd-run has said that the timer is armed.
TimerFirst ==
  \A s \in Session :
    hsession = s /\ hpc \in {"begin", "start"} => timer[s] # "none"

Inductive == LinksTrusted /\ TestedOnce /\ ConfirmedFirst /\ TimerFirst

-----------------------------------------------------------------------------
(* The inductive invariant behind the properties of recoveries, commits and   *)
(* rollbacks that do not begin while another operation is under way (Overlaps *)
(* is FALSE)                                                                  *)

LinksAt(closure) == current = closure /\ profile = closure

\* The helper in a request that has read or written the journal.
Requests == hpc \notin {"idle", "create"}

\* One operation at a time: a request, a test, a recovery or a transition.
OneOperation ==
  /\ \A s \in Session :
       tpc[s] # "idle" =>
         /\ ~Requests /\ lock = Free
         /\ \A t \in Session : test[t] # "running" /\ (t # s => tpc[t] = "idle")
  /\ lock # Free => ~Requests /\ \A t \in Session : test[t] # "running"
  /\ \A s \in Session :
       test[s] = "running" =>
         /\ Requests => hsession = s
         /\ hpc \in {"idle", "create", "wait", "active", "activation-failed"}
         /\ \A t \in Session : test[t] = "running" => t = s

\* Nobody writes a session between two writes of the request that it is about,
\* and until its candidate is started no other session is unfinished.
HelperFollows ==
  /\ hpc = "create" => journal[hsession] = "none"
  /\ hpc \in {"schedule", "unschedule", "begin"} =>
       /\ journal[hsession] = "prepared"
       /\ current = profile
  /\ hpc \in {"schedule", "unschedule", "begin", "start"} =>
       Unfinished = {hsession}
  /\ hpc \in {"start", "wait", "active", "activation-failed"} =>
       journal[hsession] = "activating"
  /\ hpc \in {"transition", "revert"} =>
       /\ journal[hsession] = Expected(hsession)
       /\ tmode[hsession] = "rollback" => LinksAt(Candidate[hsession])

\* A unit that runs a candidate belongs to a session that says so.
TestFollows ==
  \A s \in Session :
    /\ journal[s] \in {"none", "prepared"} => test[s] = "none"
    /\ test[s] = "running" => journal[s] \in {"activating", "activation-failed"}

\* So does a transition; at its last write it knows what the links are.
TransitionFollows ==
  \A s \in Session :
    /\ tpc[s] \in {"load", "check", "stop", "refuse", "begin"} =>
         journal[s] = Expected(s)
    /\ tpc[s] \in {"set", "switch", "verify", "undo", "reswitch", "judge", "write"} =>
         journal[s] = Underway(s)
    /\ tpc[s] = "write" =>
         \/ tend[s] = Succeeded(s) /\ LinksAt(Destination(s))
         \/ tend[s] = Compensated(s) /\ LinksAt(Source(s))
         \/ tend[s] = Unsettled(s)

\* And so does a recovery.
RecoveryFollows ==
  \A s \in Session, k \in {"timer", "now"} :
    lock = <<s, k>> =>
      journal[s] = "recovering" /\ (rphase = "recovered" => Restored(s))

\* Whoever parts the links, lastly, works for a session that is not finished.
Orderly == /\ OneOperation /\ HelperFollows /\ TestFollows
           /\ TransitionFollows /\ RecoveryFollows /\ QuietMeansConsistent
=============================================================================
