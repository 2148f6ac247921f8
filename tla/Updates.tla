------------------------------ MODULE Updates -------------------------------
(***************************************************************************)
(* FlakeUpdatePreviewManager (flake_update_preview.py): previews of the       *)
(* update of one flake input.  A preview copies the source, lets Nix resolve  *)
(* the input in the copy and keeps the lock file that comes of it for an      *)
(* apply; it is worth something as long as the source is what it was.         *)
(*                                                                          *)
(* Left out: the input and its changed nodes, and the contents of the lock:   *)
(* a candidate stands for the job that made it.                              *)
(***************************************************************************)
EXTENDS Jobs

VARIABLES previews, previewsClosed

previewVars == <<previews, previewsClosed>>

UpdatesInit == previews = <<>> /\ previewsClosed = FALSE

NewPreview ==
  [status |-> "queued", at |-> "queued", cancel |-> FALSE, timedOut |-> FALSE,
   seen |-> 0, unchanged |-> FALSE, candidate |-> FALSE, applied |-> FALSE,
   verdict |-> "failed"]

\* start() also waits for finishedAt.
PreviewRunning == previews # <<>> /\ previews[Len(previews)].at # "done"

StartPreview ==
  /\ ~previewsClosed /\ ~PreviewRunning
  /\ previews' = Append(previews, NewPreview)
  /\ UNCHANGED previewsClosed

CancelPreview(i) ==
  /\ i \in Kept(previews)
  /\ previews' = Put(previews, i, CancelOf(previews[i]))
  /\ UNCHANGED previewsClosed

ClosePreviews ==
  /\ ~previewsClosed /\ previewsClosed' = TRUE
  /\ previews' = IF previews = <<>> THEN previews
                 ELSE Put(previews, Len(previews), CancelOf(previews[Len(previews)]))

\* candidate_for_apply: the displayed candidate, of the source as it is now.
Applicable(i) ==
  /\ i \in Kept(previews)
  /\ previews[i].status = "passed"
  /\ previews[i].unchanged /\ previews[i].candidate /\ ~previews[i].applied
  /\ previews[i].seen = source

\* mark_applied finds the job and its plan.
Markable(i) == i \in Kept(previews)

MarkApplied(i) ==
  /\ previews' = Put(previews, i, [previews[i] EXCEPT !.applied = TRUE,
                                                     !.candidate = FALSE])
  /\ UNCHANGED previewsClosed

-----------------------------------------------------------------------------
(* The worker thread.                                                       *)
Move(i, job) == previews' = Put(previews, i, job) /\ UNCHANGED previewsClosed

PreparePreview(i) ==
  /\ previews[i].at = "queued"
  /\ Move(i, [previews[i] EXCEPT !.at = "preparing", !.status = "preparing"])

\* Run as root, no regular lock, not a direct input that Nix can update, ...
RefusePreview(i) ==
  /\ previews[i].at = "preparing"
  /\ \E s \in {"blocked", "unavailable", "failed"} :
       Move(i, FailOf(previews[i], s))

\* A cancelled preview gets its status in the finally clause.
ReadSource(i) ==
  /\ previews[i].at = "preparing"
  /\ Move(i, IF previews[i].cancel THEN [previews[i] EXCEPT !.at = "ending"]
             ELSE [previews[i] EXCEPT !.at = "copying", !.seen = source])

\* A copy of anything but the source that was read is dropped.
CopySource(i) ==
  /\ previews[i].at = "copying"
  /\ Move(i, IF previews[i].seen # source THEN FailOf(previews[i], "blocked")
             ELSE [previews[i] EXCEPT !.at = "updating", !.status = "running"])

\* The timer is cancelled when Nix has ended, but a callback that then waits
\* for the lock goes on, and takes the status "analyzing" as well.
TimeOutPreview(i) ==
  /\ previews[i].at \in {"updating", "ran", "updated", "analyzing", "compared"}
  /\ previews[i].status \in {"running", "analyzing"}
  /\ ~previews[i].timedOut
  /\ Move(i, TimeOutOf(previews[i]))

\* Nix ends, or is killed; timedOut is looked at outside the lock, ...
RunUpdate(i) ==
  /\ previews[i].at = "updating"
  /\ Move(i, IF previews[i].timedOut THEN FailOf(previews[i], "failed")
             ELSE [previews[i] EXCEPT !.at = "ran"])

\* ... then the request to cancel and the exit status, ...
JudgeUpdate(i) ==
  /\ previews[i].at = "ran"
  /\ \/ Move(i, IF previews[i].cancel THEN [previews[i] EXCEPT !.at = "ending"]
                ELSE FailOf(previews[i], "failed"))
     \/ /\ ~previews[i].cancel
        /\ Move(i, [previews[i] EXCEPT !.at = "updated"])

\* ... and what has come meanwhile is written over.
AnalyzeUpdate(i) ==
  /\ previews[i].at = "updated"
  /\ Move(i, [previews[i] EXCEPT !.at = "analyzing", !.status = "analyzing"])

\* The source is read again, the candidate is examined.
Compare(i) ==
  /\ previews[i].at = "analyzing"
  /\ LET job == [previews[i] EXCEPT !.unchanged = (source = previews[i].seen)]
     IN  \/ Move(i, FailOf(job, "failed"))
         \/ job.unchanged /\ Move(i, [job EXCEPT !.at = "compared"])

\* Neither a request to cancel nor a late timer keeps the result from being
\* reported.  A lock file over the size limit is not kept for an apply.
Report(i) ==
  /\ previews[i].at = "compared"
  /\ \E s \in {"passed", "no-change"}, kept \in BOOLEAN :
       Move(i, [previews[i] EXCEPT !.at = "cleaning", !.status = "cleaning",
                                   !.verdict = s,
                                   !.candidate = (s = "passed" /\ kept)])

SettlePreview(i) ==
  /\ previews[i].at = "cleaning"
  /\ Move(i, FailOf(previews[i], previews[i].verdict))

BreakPreview(i) ==
  /\ previews[i].at \in {"copying", "updating", "analyzing", "compared", "cleaning"}
  /\ \E s \in {"blocked", "failed"} : Move(i, FailOf(previews[i], s))

FinishPreview(i) ==
  /\ previews[i].at = "ending"
  /\ Move(i, [EndOf(previews[i]) EXCEPT !.unchanged = (source = previews[i].seen)])

PreviewFault(i) == RefusePreview(i) \/ BreakPreview(i)

PreviewStep(i) ==
  \/ PreparePreview(i) \/ ReadSource(i) \/ CopySource(i)
  \/ TimeOutPreview(i) \/ RunUpdate(i) \/ JudgeUpdate(i) \/ AnalyzeUpdate(i)
  \/ Compare(i) \/ Report(i) \/ SettlePreview(i) \/ FinishPreview(i)

\* What is bound to happen (see BuildProgress): a timer that comes too late is
\* not.
PreviewProgress(i) ==
  \/ PreparePreview(i) \/ ReadSource(i) \/ CopySource(i)
  \/ previews[i].at = "updating" /\ TimeOutPreview(i)
  \/ previews[i].cancel /\ RunUpdate(i)
  \/ JudgeUpdate(i) \/ AnalyzeUpdate(i)
  \/ Compare(i) \/ Report(i) \/ SettlePreview(i) \/ FinishPreview(i)
=============================================================================
