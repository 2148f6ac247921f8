------------------------------- MODULE Builds -------------------------------
(***************************************************************************)
(* CandidateBuildManager (candidate_build.py): disposable builds of the      *)
(* candidate system.  A build is worth something only for the epoch of the   *)
(* source it was started in: invalidate() begins a new one.  The worker      *)
(* thread of a build goes on meanwhile, and writes over the status that      *)
(* invalidate() left.                                                       *)
(*                                                                          *)
(* Left out: the log of a job, the closure diff, how a candidate is made     *)
(* (a build remembers the version of the source it copied), and the reasons  *)
(* why a build is refused.                                                  *)
(*                                                                          *)
(* An operator whose name has an underscore is a slip that the code could    *)
(* have had in place of the definition that follows it.  None is reachable   *)
(* from a specification.                                                    *)
(***************************************************************************)
EXTENDS Jobs

VARIABLES
  builds,        \* the jobs, in the order of their start
  epoch,         \* _source_epoch
  buildsClosed

buildVars == <<builds, epoch, buildsClosed>>

BuildsInit == builds = <<>> /\ epoch = 0 /\ buildsClosed = FALSE

Outputs == {"none", "one"}   \* store paths: one, or not one

NewBuild ==
  [status |-> "queued", at |-> "queued", cancel |-> FALSE, timedOut |-> FALSE,
   epoch |-> epoch, built |-> 0, rc |-> FALSE, found |-> "none",
   outputs |-> "none", verdict |-> "failed"]

\* A build is running as far as start() can see.
\* Slip: a build that is being prepared or cleaned up does not count.
BuildRunning_OnlyRunning ==
  builds # <<>> /\ builds[Len(builds)].status \in {"queued", "running"}

BuildRunning == builds # <<>> /\ builds[Len(builds)].status \in Active

StartBuild ==
  /\ ~buildsClosed /\ ~BuildRunning
  /\ builds' = Append(builds, NewBuild)
  /\ UNCHANGED <<epoch, buildsClosed>>

CancelBuild(i) ==
  /\ i \in Kept(builds)
  /\ builds' = Put(builds, i, CancelOf(builds[i]))
  /\ UNCHANGED <<epoch, buildsClosed>>

CloseBuilds ==
  /\ ~buildsClosed /\ buildsClosed' = TRUE
  /\ builds' = IF builds = <<>> THEN builds
               ELSE Put(builds, Len(builds), CancelOf(builds[Len(builds)]))
  /\ UNCHANGED epoch

Revoked(job) ==
  [job EXCEPT !.cancel = @ \/ job.status \in Active,
              !.status = "stale", !.outputs = "none"]

\* Slip: what is running is cancelled, what has passed is left.
Invalidate_Running ==
  /\ epoch' = epoch + 1
  /\ builds' = [i \in DOMAIN builds |->
                  IF i \in Kept(builds) /\ builds[i].status \in Active
                  THEN Revoked(builds[i]) ELSE builds[i]]
  /\ UNCHANGED buildsClosed

Invalidate ==
  /\ epoch' = epoch + 1
  /\ builds' = [i \in DOMAIN builds |->
                  IF i \in Kept(builds) THEN Revoked(builds[i]) ELSE builds[i]]
  /\ UNCHANGED buildsClosed

-----------------------------------------------------------------------------
(* The worker thread.                                                       *)
Become(i, job) ==
  /\ builds' = Put(builds, i, job)
  /\ UNCHANGED <<epoch, buildsClosed>>

PrepareBuild(i) ==
  /\ builds[i].at = "queued"
  /\ Become(i, [builds[i] EXCEPT !.at = "preparing", !.status = "preparing"])

\* Run as root, no safe plan, no target, no Nix, or an exception on the way.
RefuseBuild(i) ==
  /\ builds[i].at = "preparing"
  /\ \E s \in {"blocked", "unavailable", "failed"} :
       Become(i, FailOf(builds[i], s))

PlanBuild(i) ==
  /\ builds[i].at = "preparing"
  /\ Become(i, IF builds[i].cancel THEN FailOf(builds[i], "cancelled")
               ELSE [builds[i] EXCEPT !.at = "planned"])

\* Copy the source and start the executor and the timer.
CopyBuild(i) ==
  /\ builds[i].at = "planned"
  /\ Become(i, [builds[i] EXCEPT !.at = "building", !.status = "running",
                                 !.built = source])

\* Only one directory of a successful build is compared with the system.
Comparable(job) == job.rc /\ ~job.cancel /\ job.found = "one"

RunBuild(i) ==
  /\ builds[i].at = "building"
  /\ \E rc \in BOOLEAN, found \in Outputs :
       LET job == [builds[i] EXCEPT !.rc = rc, !.found = found]
       IN  \/ Become(i, [job EXCEPT !.at = "built"])
           \/ Comparable(job) /\ Become(i, [job EXCEPT !.at = "linked"])

\* cancelEvent was looked at outside the lock.
StartAnalysis(i) ==
  /\ builds[i].at = "linked"
  /\ Become(i, [builds[i] EXCEPT !.at = "analyzing", !.status = "analyzing"])

EndAnalysis(i) ==
  /\ builds[i].at = "analyzing"
  /\ Become(i, [builds[i] EXCEPT !.at = "built"])

\* Slip: a comparison of closures may take as long as it likes.
TimeOutBuild_OnlyRunning(i) ==
  /\ builds[i].at \in {"building", "linked", "analyzing", "built"}
  /\ builds[i].status = "running"
  /\ Become(i, TimeOutOf(builds[i]))

TimeOutBuild(i) ==
  /\ builds[i].at \in {"building", "linked", "analyzing", "built"}
  /\ builds[i].status \in {"running", "analyzing"}
  /\ Become(i, TimeOutOf(builds[i]))

\* Slip: the exit status of the build decides first.
Verdict_ExitFirst(job) ==
  IF job.rc THEN (IF job.cancel /\ ~job.timedOut THEN "cancelled" ELSE "passed")
  ELSE IF job.cancel THEN "cancelled" ELSE "failed"

\* Slip: that the job was cancelled meanwhile is not looked at.
Verdict_IgnoresCancel(job) ==
  IF job.timedOut \/ ~job.rc THEN "failed" ELSE "passed"

Verdict(job) ==
  IF job.timedOut THEN "failed"
  ELSE IF job.cancel THEN "cancelled"
  ELSE IF job.rc THEN "passed" ELSE "failed"

ConcludeBuild(i) ==
  /\ builds[i].at = "built"
  /\ Become(i, [builds[i] EXCEPT !.at = "cleaning", !.status = "cleaning",
                                 !.outputs = builds[i].found,
                                 !.verdict = Verdict(builds[i]),
                                 !.rc = FALSE, !.found = "none"])

\* The working copy is gone.
SettleBuild(i) ==
  /\ builds[i].at = "cleaning"
  /\ Become(i, [FailOf(builds[i], builds[i].verdict) EXCEPT !.verdict = "failed"])

BreakBuild(i) ==
  /\ builds[i].at \in {"planned", "building", "linked", "analyzing", "cleaning"}
  /\ \E s \in {"blocked", "failed"} : Become(i, FailOf(builds[i], s))

FinishBuild(i) ==
  /\ builds[i].at = "ending"
  /\ Become(i, IF builds[i].epoch = epoch THEN EndOf(builds[i])
               ELSE [builds[i] EXCEPT !.at = "done", !.status = "stale",
                                      !.outputs = "none"])

BuildFault(i) == RefuseBuild(i) \/ BreakBuild(i)

BuildStep(i) ==
  \/ PrepareBuild(i) \/ PlanBuild(i) \/ CopyBuild(i)
  \/ RunBuild(i) \/ StartAnalysis(i) \/ EndAnalysis(i) \/ TimeOutBuild(i)
  \/ ConcludeBuild(i) \/ SettleBuild(i) \/ FinishBuild(i)

\* What is bound to happen: the executor kills what is cancelled, and for the
\* rest the timer comes.  That Nix ends of itself is not assumed.
BuildProgress(i) ==
  \/ PrepareBuild(i) \/ PlanBuild(i) \/ CopyBuild(i)
  \/ builds[i].cancel /\ (RunBuild(i) \/ EndAnalysis(i))
  \/ StartAnalysis(i) \/ TimeOutBuild(i)
  \/ ConcludeBuild(i) \/ SettleBuild(i) \/ FinishBuild(i)

\* What a dry activation, a test and a commit ask of the newest build.
Ready(job) == job.status = "passed" /\ job.outputs = "one"
=============================================================================
