-------------------------------- MODULE Jobs --------------------------------
(***************************************************************************)
(* What the three job managers of the local server have in common           *)
(* (candidate_build.py twice, flake_update_preview.py): a job is a record    *)
(* that its worker thread, a timer and the requests of the server change,    *)
(* each under the lock of the manager, and each one lock at a time.          *)
(*                                                                          *)
(* status is what the code stores and everybody may overwrite; at is where   *)
(* the worker stands.  The managers differ in the steps of their workers     *)
(* and are modules of their own.                                            *)
(*                                                                          *)
(* An operator whose name has an underscore is a slip that the code could    *)
(* have had in place of the definition that follows it.  None is reachable   *)
(* from a specification.                                                    *)
(***************************************************************************)
EXTENDS Naturals, Sequences

CONSTANT Retained   \* how many jobs a manager remembers (the code: 8)

ASSUME RetainedAssumption == Retained \in Nat \ {0, 1}

VARIABLE source     \* the version of the configuration source on disk

Active == {"queued", "preparing", "running", "analyzing", "cancelling",
           "cleaning"}

Terminal == {"passed", "failed", "cancelled", "blocked", "unavailable", "stale",
             "no-change"}

\* The worker has left the try block, or its thread has ended.
Over == {"ending", "done"}

\* The jobs in the table of a manager; the newest is the one it calls active.
Kept(jobs) == {i \in DOMAIN jobs : i + Retained > Len(jobs)}

\* A request to cancel, or the server's end.
CancelOf(job) ==
  IF job.status \in Active
  THEN [job EXCEPT !.cancel = TRUE, !.status = "cancelling"]
  ELSE job

\* The timer of a job goes off.
TimeOutOf(job) ==
  [job EXCEPT !.timedOut = TRUE, !.cancel = TRUE, !.status = "cancelling"]

\* _fail, followed by the end of the try block.
FailOf(job, status) == [job EXCEPT !.status = status, !.at = "ending"]

\* The finally clause of a job that nobody gave a final status.
\* Slip: a cancelled worker that just returns is forgotten.
EndOf_LeavesCancelled(job) ==
  [job EXCEPT !.at = "done",
              !.status = IF @ \notin Active \/ job.cancel THEN @ ELSE "failed"]

EndOf(job) ==
  [job EXCEPT !.at = "done",
              !.status = IF @ \notin Active THEN @
                         ELSE IF job.cancel THEN "cancelled" ELSE "failed"]

\* Replace one job.
Put(jobs, i, job) == [jobs EXCEPT ![i] = job]
=============================================================================
