----------------------------- MODULE HomeBuilds -----------------------------
(***************************************************************************)
(* HomeManagerBuildManager (candidate_build.py): disposable builds of a      *)
(* Home Manager activation package.  The worker validates the candidate      *)
(* first, and builds it only if its fingerprint is the one displayed.  No    *)
(* write revokes these builds: they have no epoch and nothing is activated   *)
(* from them.                                                               *)
(***************************************************************************)
EXTENDS Jobs

VARIABLES homes, homesClosed

homeVars == <<homes, homesClosed>>

HomesInit == homes = <<>> /\ homesClosed = FALSE

NewHome ==
  [status |-> "queued", at |-> "queued", cancel |-> FALSE, timedOut |-> FALSE,
   verdict |-> "failed"]

HomeRunning == homes # <<>> /\ homes[Len(homes)].status \in Active

StartHome ==
  /\ ~homesClosed /\ ~HomeRunning
  /\ homes' = Append(homes, NewHome)
  /\ UNCHANGED homesClosed

CancelHome(i) ==
  /\ i \in Kept(homes)
  /\ homes' = Put(homes, i, CancelOf(homes[i]))
  /\ UNCHANGED homesClosed

CloseHomes ==
  /\ ~homesClosed /\ homesClosed' = TRUE
  /\ homes' = IF homes = <<>> THEN homes
              ELSE Put(homes, Len(homes), CancelOf(homes[Len(homes)]))

-----------------------------------------------------------------------------
(* The worker thread.                                                       *)
Turn(i, job) == homes' = Put(homes, i, job) /\ UNCHANGED homesClosed

PrepareHome(i) ==
  /\ homes[i].at = "queued"
  /\ Turn(i, [homes[i] EXCEPT !.at = "preparing", !.status = "preparing"])

\* Not safe, not the displayed plan, validation failed, or no flake to build.
RefuseHome(i) ==
  /\ homes[i].at = "preparing"
  /\ \E s \in {"blocked", "unavailable", "failed"} : Turn(i, FailOf(homes[i], s))

\* cancelEvent is looked at after the validation and before the copy.
PlanHome(i) ==
  /\ homes[i].at = "preparing"
  /\ Turn(i, IF homes[i].cancel THEN FailOf(homes[i], "cancelled")
             ELSE [homes[i] EXCEPT !.at = "planned"])

CopyHome(i) ==
  /\ homes[i].at = "planned"
  /\ Turn(i, [homes[i] EXCEPT !.at = "building", !.status = "running"])

TimeOutHome(i) ==
  /\ homes[i].at = "building" /\ homes[i].status = "running"
  /\ Turn(i, TimeOutOf(homes[i]))

\* The executor ends; built says whether with one store directory.
RunHome(i) ==
  /\ homes[i].at = "building"
  /\ \E built \in BOOLEAN :
       Turn(i, [homes[i] EXCEPT !.at = "cleaning", !.status = "cleaning",
                  !.verdict = IF homes[i].timedOut THEN "failed"
                              ELSE IF homes[i].cancel THEN "cancelled"
                              ELSE IF built THEN "passed" ELSE "failed"])

SettleHome(i) ==
  /\ homes[i].at = "cleaning"
  /\ Turn(i, FailOf(homes[i], homes[i].verdict))

BreakHome(i) ==
  /\ homes[i].at \in {"planned", "building", "cleaning"}
  /\ \E s \in {"blocked", "failed"} : Turn(i, FailOf(homes[i], s))

FinishHome(i) == homes[i].at = "ending" /\ Turn(i, EndOf(homes[i]))

HomeFault(i) == RefuseHome(i) \/ BreakHome(i)

HomeStep(i) ==
  \/ PrepareHome(i) \/ PlanHome(i) \/ CopyHome(i)
  \/ TimeOutHome(i) \/ RunHome(i) \/ SettleHome(i)
  \/ FinishHome(i)

\* What is bound to happen (see BuildProgress).
HomeProgress(i) ==
  \/ PrepareHome(i) \/ PlanHome(i) \/ CopyHome(i)
  \/ TimeOutHome(i)
  \/ homes[i].cancel /\ RunHome(i)
  \/ SettleHome(i) \/ FinishHome(i)
=============================================================================
