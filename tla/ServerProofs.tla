---------------------------- MODULE ServerProofs ----------------------------
(***************************************************************************)
(* Proofs about Server, for every number of jobs, threads, confirmations     *)
(* and versions of the source, and every size of the tables.                 *)
(*                                                                          *)
(* What a job manager does to its table is one of four things: nothing, a    *)
(* new job, a change of one job, and, for the builds of the system,          *)
(* invalidate().  What the changes of one job have in common is stated once   *)
(* for each manager (BuildChanges, HomeChanges, PreviewChanges); everything   *)
(* else is about tables.                                                    *)
(***************************************************************************)
EXTENDS Server, SequenceTheorems, TLAPS

-----------------------------------------------------------------------------
(* Tables of jobs.                                                          *)

LEMMA PutProperties ==
  ASSUME NEW S, NEW s \in Seq(S), NEW i \in DOMAIN s, NEW x \in S
  PROVE  /\ Put(s, i, x) \in Seq(S) /\ Len(Put(s, i, x)) = Len(s)
         /\ DOMAIN Put(s, i, x) = DOMAIN s
         /\ Put(s, i, x)[i] = x
         /\ \A j \in DOMAIN s : j # i => Put(s, i, x)[j] = s[j]
  <1>1. i \in 1 .. Len(s) /\ DOMAIN s = 1 .. Len(s)
    BY LenProperties
  <1>2. QED
    BY <1>1, ExceptSeq DEF Put

LEMMA MapProperties ==
  ASSUME NEW S, NEW s \in Seq(S), NEW f, f = [i \in DOMAIN s |-> f[i]],
         \A i \in DOMAIN s : f[i] \in S
  PROVE  f \in Seq(S) /\ Len(f) = Len(s) /\ DOMAIN f = DOMAIN s
  <1>1. Len(s) \in Nat /\ DOMAIN s = 1 .. Len(s)
    BY LenProperties
  <1>2. f \in [1 .. Len(s) -> S]
    BY <1>1
  <1>3. f \in Seq(S)
    BY <1>1, <1>2, SeqDef
  <1>4. QED
    BY <1>1, <1>2, <1>3, LenProperties

-----------------------------------------------------------------------------
(* One build.                                                               *)

BuildJob ==
  [status : Active \cup Terminal,
   at : {"queued", "preparing", "planned", "building", "linked", "analyzing",
         "built", "cleaning", "ending", "done"},
   cancel : BOOLEAN, timedOut : BOOLEAN, epoch : Nat, built : Nat, rc : BOOLEAN,
   found : Outputs, outputs : Outputs,
   verdict : {"passed", "failed", "cancelled"}]

Good == {"passed", "no-change"}

\* What a build of any epoch is; e is the present one.
BuildFits(job, e) ==
  /\ job.timedOut =>
       /\ job.cancel /\ job.status \notin Good
       /\ job.at = "cleaning" => job.verdict # "passed"
  /\ job.at \notin Over =>
       \/ job.status \in Active
       \/ job.status = "stale" /\ job.cancel /\ job.epoch # e
  /\ job.at = "done" => job.status \in Terminal

\* A revoked build does not become a good one: it is cancelled, or its outputs
\* are gone and it will not get any.
Spoilt(job) ==
  /\ job.at \notin Over \cup {"cleaning"} => job.cancel
  /\ job.at = "cleaning" => job.outputs = "none" \/ job.verdict # "passed"
  /\ job.at \in Over => job.outputs = "none" \/ job.status # "passed"

\* A build was copied after the last write of the lock, the version "lock" of the
\* source, or has nothing to offer.
Recent(job, lock) ==
  \/ job.built >= lock
  \/ job.at \in {"queued", "preparing", "planned"}
  \/ job.at \in Over /\ job.status # "passed"

\* What a step of a worker, a timer or a request does to one build.
BuildChanges(old, new) ==
  /\ new \in BuildJob /\ new.epoch = old.epoch
  /\ BuildFits(old, epoch) => BuildFits(new, epoch)
  /\ BuildFits(old, epoch) /\ Spoilt(old) => Spoilt(new)
  /\ BuildFits(old, epoch) /\ Recent(old, lockAt) => Recent(new, lockAt)
  /\ new.at \notin Over => old.at \notin Over
  /\ new.built \in {old.built, source}

\* The status that the finally clause leaves.
EndStatus(job) ==
  IF job.status \notin Active THEN job.status
  ELSE IF job.cancel THEN "cancelled" ELSE "failed"

LEMMA EndIsTerminal ==
  ASSUME NEW job, job.status \in Active \cup Terminal
  PROVE  /\ EndStatus(job) \in Terminal
         /\ EndStatus(job) \in Good => job.status = EndStatus(job)
  BY DEF EndStatus, Active, Terminal, Good

LEMMA CancelChanges ==
  ASSUME NEW old \in BuildJob
  PROVE  BuildChanges(old, CancelOf(old))
  <1>1. CASE old.status \in Active
    <2> DEFINE job == [old EXCEPT !.cancel = TRUE, !.status = "cancelling"]
    <2>1. /\ job \in BuildJob /\ job.status = "cancelling" /\ job.cancel
          /\ job.at = old.at /\ job.epoch = old.epoch /\ job.built = old.built
          /\ job.verdict = old.verdict /\ job.outputs = old.outputs
          /\ job.timedOut = old.timedOut
      BY DEF BuildJob, Active
    <2> HIDE DEF job
    <2>2. BuildChanges(old, job)
      BY <1>1, <2>1 DEF BuildChanges, BuildFits, Spoilt, Recent, Active,
           Terminal, Over, Good
    <2>3. QED
      BY <1>1, <2>2 DEF CancelOf, job
  <1>2. CASE old.status \notin Active
    BY <1>2 DEF CancelOf, BuildChanges
  <1>3. QED
    BY <1>1, <1>2

LEMMA WorkerChanges ==
  ASSUME builds \in Seq(BuildJob), source \in Nat, lockAt \in 0 .. source,
         NEW i \in DOMAIN builds, BuildStep(i) \/ BuildFault(i)
  PROVE  /\ BuildChanges(builds[i], builds'[i])
         /\ builds' = Put(builds, i, builds'[i]) /\ UNCHANGED <<epoch, buildsClosed>>
  <1> DEFINE old == builds[i]
  <1>1. old \in BuildJob
    BY ElementOfSeq, LenProperties
  <1>2. ASSUME NEW job, Become(i, job), BuildChanges(old, job)
        PROVE  /\ BuildChanges(old, builds'[i])
               /\ builds' = Put(builds, i, builds'[i])
               /\ UNCHANGED <<epoch, buildsClosed>>
    <2>1. builds' = Put(builds, i, job) /\ job \in BuildJob
      BY <1>2 DEF Become, BuildChanges
    <2>2. builds'[i] = job
      BY <2>1, PutProperties
    <2>3. QED
      BY <1>2, <2>1, <2>2 DEF Become
  <1> HIDE DEF old
  <1>3. CASE PrepareBuild(i)
    <2> DEFINE job == [old EXCEPT !.at = "preparing", !.status = "preparing"]
    <2>1. Become(i, job) /\ old.at = "queued"
      BY <1>3, <1>1 DEF PrepareBuild, old
    <2>2. BuildChanges(old, job)
      <3>1. /\ job \in BuildJob /\ job.epoch = old.epoch
            /\ job.at = "preparing" /\ job.status = "preparing"
            /\ job.built = old.built
            /\ job.cancel = old.cancel /\ job.timedOut = old.timedOut
        BY <1>1, <2>1 DEF BuildJob, Active, Terminal, Outputs
      <3> HIDE DEF job
      <3>2. QED
        BY <1>1, <2>1, <3>1 DEF BuildChanges, BuildFits, Spoilt, Recent,
           BuildJob, Active, Terminal, Over, Good, Outputs
    <2> HIDE DEF job
    <2>3. QED
      BY <1>2, <2>1, <2>2 DEF old
  <1>4. CASE RefuseBuild(i)
    <2>1. PICK s \in {"blocked", "unavailable", "failed"} :
            /\ Become(i, FailOf(old, s))
            /\ old.at = "preparing"
      BY <1>4, <1>1 DEF RefuseBuild, old
    <2> DEFINE job == FailOf(old, s)
    <2>2. BuildChanges(old, job)
      <3>1. /\ job \in BuildJob /\ job.epoch = old.epoch
            /\ job.at = "ending" /\ job.status = s
            /\ job.built = old.built
            /\ job.cancel = old.cancel /\ job.timedOut = old.timedOut
        BY <1>1, <2>1 DEF FailOf, BuildJob, Active, Terminal, Outputs
      <3> HIDE DEF job
      <3>2. QED
        BY <1>1, <2>1, <3>1 DEF BuildChanges, BuildFits, Spoilt, Recent,
           BuildJob, Active, Terminal, Over, Good, Outputs
    <2>3. Become(i, job)
      BY <2>1
    <2> HIDE DEF job
    <2>4. QED
      BY <1>2, <2>2, <2>3 DEF old
  <1>5. CASE PlanBuild(i)
    <2> DEFINE job == IF old.cancel THEN FailOf(old, "cancelled")
                      ELSE [old EXCEPT !.at = "planned"]
    <2>1. Become(i, job) /\ old.at = "preparing"
      BY <1>5, <1>1 DEF PlanBuild, old
    <2>2. BuildChanges(old, job)
      <3>1. /\ job \in BuildJob /\ job.epoch = old.epoch
            /\ \/ job.at = "ending" /\ job.status = "cancelled"
               \/ job.at = "planned" /\ job.status = old.status
            /\ job.built = old.built
            /\ job.cancel = old.cancel /\ job.timedOut = old.timedOut
        BY <1>1, <2>1 DEF FailOf, BuildJob, Active, Terminal, Outputs
      <3> HIDE DEF job
      <3>2. QED
        BY <1>1, <2>1, <3>1 DEF BuildChanges, BuildFits, Spoilt, Recent,
           BuildJob, Active, Terminal, Over, Good, Outputs
    <2> HIDE DEF job
    <2>3. QED
      BY <1>2, <2>1, <2>2 DEF old
  <1>6. CASE CopyBuild(i)
    <2> DEFINE job == [old EXCEPT !.at = "building", !.status = "running",
                                  !.built = source]
    <2>1. Become(i, job) /\ old.at = "planned"
      BY <1>6, <1>1 DEF CopyBuild, old
    <2>2. BuildChanges(old, job)
      <3>1. /\ job \in BuildJob /\ job.epoch = old.epoch
            /\ job.at = "building" /\ job.status = "running"
            /\ job.built = source
            /\ job.cancel = old.cancel /\ job.timedOut = old.timedOut
        BY <1>1, <2>1 DEF BuildJob, Active, Terminal, Outputs
      <3> HIDE DEF job
      <3>2. QED
        BY <1>1, <2>1, <3>1 DEF BuildChanges, BuildFits, Spoilt, Recent,
           BuildJob, Active, Terminal, Over, Good, Outputs
    <2> HIDE DEF job
    <2>3. QED
      BY <1>2, <2>1, <2>2 DEF old
  <1>7. CASE RunBuild(i)
    <2>1. PICK rc \in BOOLEAN, found \in Outputs, at \in {"built", "linked"} :
            /\ Become(i, [old EXCEPT !.rc = rc, !.found = found, !.at = at])
            /\ old.at = "building"
      BY <1>7, <1>1 DEF RunBuild, old
    <2> DEFINE job == [old EXCEPT !.rc = rc, !.found = found, !.at = at]
    <2>2. BuildChanges(old, job)
      <3>1. /\ job \in BuildJob /\ job.epoch = old.epoch
            /\ job.at = at /\ job.status = old.status
            /\ job.built = old.built
            /\ job.cancel = old.cancel /\ job.timedOut = old.timedOut
        BY <1>1, <2>1 DEF BuildJob, Active, Terminal, Outputs
      <3> HIDE DEF job
      <3>2. QED
        BY <1>1, <2>1, <3>1 DEF BuildChanges, BuildFits, Spoilt, Recent,
           BuildJob, Active, Terminal, Over, Good, Outputs
    <2>3. Become(i, job)
      BY <2>1
    <2> HIDE DEF job
    <2>4. QED
      BY <1>2, <2>2, <2>3 DEF old
  <1>8. CASE StartAnalysis(i)
    <2> DEFINE job == [old EXCEPT !.at = "analyzing", !.status = "analyzing"]
    <2>1. Become(i, job) /\ old.at = "linked"
      BY <1>8, <1>1 DEF StartAnalysis, old
    <2>2. BuildChanges(old, job)
      <3>1. /\ job \in BuildJob /\ job.epoch = old.epoch
            /\ job.at = "analyzing" /\ job.status = "analyzing"
            /\ job.built = old.built
            /\ job.cancel = old.cancel /\ job.timedOut = old.timedOut
        BY <1>1, <2>1 DEF BuildJob, Active, Terminal, Outputs
      <3> HIDE DEF job
      <3>2. QED
        BY <1>1, <2>1, <3>1 DEF BuildChanges, BuildFits, Spoilt, Recent,
           BuildJob, Active, Terminal, Over, Good, Outputs
    <2> HIDE DEF job
    <2>3. QED
      BY <1>2, <2>1, <2>2 DEF old
  <1>9. CASE EndAnalysis(i)
    <2> DEFINE job == [old EXCEPT !.at = "built"]
    <2>1. Become(i, job) /\ old.at = "analyzing"
      BY <1>9, <1>1 DEF EndAnalysis, old
    <2>2. BuildChanges(old, job)
      <3>1. /\ job \in BuildJob /\ job.epoch = old.epoch
            /\ job.at = "built" /\ job.status = old.status
            /\ job.built = old.built
            /\ job.cancel = old.cancel /\ job.timedOut = old.timedOut
        BY <1>1, <2>1 DEF BuildJob, Active, Terminal, Outputs
      <3> HIDE DEF job
      <3>2. QED
        BY <1>1, <2>1, <3>1 DEF BuildChanges, BuildFits, Spoilt, Recent,
           BuildJob, Active, Terminal, Over, Good, Outputs
    <2> HIDE DEF job
    <2>3. QED
      BY <1>2, <2>1, <2>2 DEF old
  <1>10. CASE TimeOutBuild(i)
    <2> DEFINE job == TimeOutOf(old)
    <2>1. Become(i, job) /\ old.at \in {"building", "linked", "analyzing", "built"}
      BY <1>10, <1>1 DEF TimeOutBuild, old
    <2>2. BuildChanges(old, job)
      <3>1. /\ job \in BuildJob /\ job.epoch = old.epoch
            /\ job.at = old.at /\ job.status = "cancelling"
            /\ job.cancel /\ job.built = old.built
        BY <1>1, <2>1 DEF TimeOutOf, BuildJob, Active, Terminal, Outputs
      <3> HIDE DEF job
      <3>2. QED
        BY <1>1, <2>1, <3>1 DEF BuildChanges, BuildFits, Spoilt, Recent,
           BuildJob, Active, Terminal, Over, Good, Outputs
    <2> HIDE DEF job
    <2>3. QED
      BY <1>2, <2>1, <2>2 DEF old
  <1>11. CASE ConcludeBuild(i)
    <2> DEFINE verdict == Verdict(old)
               job == [old EXCEPT !.at = "cleaning", !.status = "cleaning",
                                  !.outputs = old.found, !.verdict = verdict,
                                  !.rc = FALSE, !.found = "none"]
    <2>1. Become(i, job) /\ old.at = "built"
      BY <1>11 DEF ConcludeBuild, old
    <2>2. /\ verdict \in {"passed", "failed", "cancelled"}
          /\ old.cancel \/ old.timedOut => verdict # "passed"
      BY DEF Verdict
    <2> HIDE DEF verdict
    <2>3. BuildChanges(old, job)
      <3>1. /\ job \in BuildJob /\ job.epoch = old.epoch
            /\ job.at = "cleaning" /\ job.status = "cleaning"
            /\ job.verdict = verdict /\ job.built = old.built
            /\ job.cancel = old.cancel /\ job.timedOut = old.timedOut
        BY <1>1, <2>1, <2>2 DEF BuildJob, Active, Outputs
      <3> HIDE DEF job
      <3>2. QED
        BY <1>1, <2>1, <2>2, <3>1 DEF BuildChanges, BuildFits, Spoilt, Recent,
           BuildJob, Active, Terminal, Over, Good, Outputs
    <2> HIDE DEF job
    <2>4. QED
      BY <1>2, <2>1, <2>3 DEF old
  <1>12. CASE SettleBuild(i)
    <2> DEFINE job == [FailOf(old, old.verdict) EXCEPT !.verdict = "failed"]
    <2>1. Become(i, job) /\ old.at = "cleaning"
      BY <1>12, <1>1 DEF SettleBuild, old
    <2>2. BuildChanges(old, job)
      <3>1. /\ job \in BuildJob /\ job.epoch = old.epoch
            /\ job.at = "ending" /\ job.status = old.verdict
            /\ job.outputs = old.outputs
            /\ job.built = old.built
            /\ job.cancel = old.cancel /\ job.timedOut = old.timedOut
        BY <1>1, <2>1 DEF FailOf, BuildJob, Active, Terminal, Outputs
      <3> HIDE DEF job
      <3>2. QED
        BY <1>1, <2>1, <3>1 DEF BuildChanges, BuildFits, Spoilt, Recent,
           BuildJob, Active, Terminal, Over, Good, Outputs
    <2> HIDE DEF job
    <2>3. QED
      BY <1>2, <2>1, <2>2 DEF old
  <1>13. CASE BreakBuild(i)
    <2>1. PICK s \in {"blocked", "failed"} :
            /\ Become(i, FailOf(old, s))
            /\ old.at \notin Over \cup {"queued", "preparing"}
      BY <1>13, <1>1 DEF BreakBuild, old, Over
    <2> DEFINE job == FailOf(old, s)
    <2>2. BuildChanges(old, job)
      <3>1. /\ job \in BuildJob /\ job.epoch = old.epoch
            /\ job.at = "ending" /\ job.status = s
            /\ job.built = old.built
            /\ job.cancel = old.cancel /\ job.timedOut = old.timedOut
        BY <1>1, <2>1 DEF FailOf, BuildJob, Active, Terminal, Outputs
      <3> HIDE DEF job
      <3>2. QED
        BY <1>1, <2>1, <3>1 DEF BuildChanges, BuildFits, Spoilt, Recent,
           BuildJob, Active, Terminal, Over, Good, Outputs
    <2>3. Become(i, job)
      BY <2>1
    <2> HIDE DEF job
    <2>4. QED
      BY <1>2, <2>2, <2>3 DEF old
  <1>14. CASE FinishBuild(i)
    <2> DEFINE status == EndStatus(old)
               ended == [old EXCEPT !.at = "done", !.status = status]
               stale == [old EXCEPT !.at = "done", !.status = "stale",
                                    !.outputs = "none"]
    <2>1. /\ Become(i, ended) \/ Become(i, stale)
          /\ old.at = "ending"
      BY <1>14 DEF FinishBuild, EndOf, EndStatus, old
    <2>2. status \in Terminal /\ (status \in Good => old.status = status)
      BY <1>1, EndIsTerminal DEF BuildJob
    <2> HIDE DEF status
    <2>3. BuildChanges(old, ended)
      <3>1. /\ ended \in BuildJob /\ ended.epoch = old.epoch
            /\ ended.at = "done" /\ ended.status = status
            /\ ended.built = old.built /\ ended.outputs = old.outputs
            /\ ended.cancel = old.cancel /\ ended.timedOut = old.timedOut
        BY <1>1, <2>1, <2>2 DEF BuildJob
      <3> HIDE DEF ended
      <3>2. QED
        BY <1>1, <2>1, <2>2, <3>1 DEF BuildChanges, BuildFits, Spoilt, Recent,
           BuildJob, Over, Good
    <2>4. BuildChanges(old, stale)
      <3>1. /\ stale \in BuildJob /\ stale.epoch = old.epoch
            /\ stale.at = "done" /\ stale.status = "stale"
            /\ stale.built = old.built
            /\ stale.cancel = old.cancel /\ stale.timedOut = old.timedOut
        BY <1>1, <2>1 DEF BuildJob, Terminal, Outputs
      <3> HIDE DEF stale
      <3>2. QED
        BY <1>1, <2>1, <3>1 DEF BuildChanges, BuildFits, Spoilt, Recent,
           BuildJob, Over, Good, Terminal
    <2> HIDE DEF ended, stale
    <2>5. QED
      BY <1>2, <2>1, <2>3, <2>4 DEF old
  <1>15. QED
    BY <1>3, <1>4, <1>5, <1>6, <1>7, <1>8, <1>9, <1>10, <1>11, <1>12, <1>13,
       <1>14 DEF BuildStep, BuildFault

-----------------------------------------------------------------------------
(* One build of a home, and one preview of an update.                        *)

HomeJob ==
  [status : Active \cup Terminal,
   at : {"queued", "preparing", "planned", "building", "cleaning", "ending",
         "done"},
   cancel : BOOLEAN, timedOut : BOOLEAN,
   verdict : {"passed", "failed", "cancelled"}]

HomeFits(job) ==
  /\ job.timedOut =>
       /\ job.status \notin Good
       /\ job.at = "cleaning" => job.verdict # "passed"
  /\ job.at \notin Over => job.status \in Active
  /\ job.at = "done" => job.status \in Terminal

HomeChanges(old, new) ==
  /\ new \in HomeJob
  /\ HomeFits(old) => HomeFits(new)
  /\ new.at \notin Over => old.at \notin Over

LEMMA CancelHomeChanges ==
  ASSUME NEW old \in HomeJob
  PROVE  HomeChanges(old, CancelOf(old))
  <1>1. CASE old.status \in Active
    BY <1>1 DEF CancelOf, HomeChanges, HomeJob, HomeFits, Active, Terminal, Over,
                Good
  <1>2. CASE old.status \notin Active
    BY <1>2 DEF CancelOf, HomeChanges
  <1>3. QED
    BY <1>1, <1>2

LEMMA HomeWorkerChanges ==
  ASSUME homes \in Seq(HomeJob), NEW i \in DOMAIN homes,
         HomeStep(i) \/ HomeFault(i)
  PROVE  /\ HomeChanges(homes[i], homes'[i])
         /\ homes' = Put(homes, i, homes'[i]) /\ UNCHANGED homesClosed
  <1> DEFINE old == homes[i]
  <1>1. old \in HomeJob
    BY ElementOfSeq, LenProperties
  <1>2. ASSUME NEW job, Turn(i, job), HomeChanges(old, job)
        PROVE  /\ HomeChanges(old, homes'[i])
               /\ homes' = Put(homes, i, homes'[i]) /\ UNCHANGED homesClosed
    <2>1. homes' = Put(homes, i, job) /\ job \in HomeJob
      BY <1>2 DEF Turn, HomeChanges
    <2>2. homes'[i] = job
      BY <2>1, PutProperties
    <2>3. QED
      BY <1>2, <2>1, <2>2 DEF Turn
  <1> HIDE DEF old
  <1>3. CASE PrepareHome(i)
    <2> DEFINE job == [old EXCEPT !.at = "preparing", !.status = "preparing"]
    <2>1. Turn(i, job) /\ old.at = "queued"
      BY <1>3, <1>1 DEF PrepareHome, old
    <2>2. HomeChanges(old, job)
      BY <1>1, <2>1 DEF HomeChanges, HomeJob, HomeFits, Active, Terminal,
           Over, Good
    <2> HIDE DEF job
    <2>3. QED
      BY <1>2, <2>1, <2>2 DEF old
  <1>4. CASE RefuseHome(i)
    <2>1. PICK s \in {"blocked", "unavailable", "failed"} :
            Turn(i, FailOf(old, s)) /\ old.at = "preparing"
      BY <1>4, <1>1 DEF RefuseHome, old
    <2> DEFINE job == FailOf(old, s)
    <2>2. HomeChanges(old, job)
      BY <1>1, <2>1 DEF FailOf, HomeChanges, HomeJob, HomeFits, Active, Terminal,
           Over, Good
    <2>3. Turn(i, job)
      BY <2>1
    <2> HIDE DEF job
    <2>4. QED
      BY <1>2, <2>2, <2>3 DEF old
  <1>5. CASE PlanHome(i)
    <2> DEFINE job == IF old.cancel THEN FailOf(old, "cancelled")
                      ELSE [old EXCEPT !.at = "planned"]
    <2>1. Turn(i, job) /\ old.at = "preparing"
      BY <1>5, <1>1 DEF PlanHome, old
    <2>2. HomeChanges(old, job)
      BY <1>1, <2>1 DEF FailOf, HomeChanges, HomeJob, HomeFits, Active, Terminal,
           Over, Good
    <2> HIDE DEF job
    <2>3. QED
      BY <1>2, <2>1, <2>2 DEF old
  <1>6. CASE CopyHome(i)
    <2> DEFINE job == [old EXCEPT !.at = "building", !.status = "running"]
    <2>1. Turn(i, job) /\ old.at = "planned"
      BY <1>6, <1>1 DEF CopyHome, old
    <2>2. HomeChanges(old, job)
      BY <1>1, <2>1 DEF HomeChanges, HomeJob, HomeFits, Active, Terminal,
           Over, Good
    <2> HIDE DEF job
    <2>3. QED
      BY <1>2, <2>1, <2>2 DEF old
  <1>7. CASE TimeOutHome(i)
    <2> DEFINE job == TimeOutOf(old)
    <2>1. Turn(i, job) /\ old.at = "building"
      BY <1>7, <1>1 DEF TimeOutHome, old
    <2>2. HomeChanges(old, job)
      BY <1>1, <2>1 DEF TimeOutOf, HomeChanges, HomeJob, HomeFits, Active, Terminal,
           Over, Good
    <2> HIDE DEF job
    <2>3. QED
      BY <1>2, <2>1, <2>2 DEF old
  <1>8. CASE RunHome(i)
    <2>1. PICK built \in BOOLEAN :
            /\ Turn(i, [old EXCEPT !.at = "cleaning", !.status = "cleaning",
                          !.verdict = IF old.timedOut THEN "failed"
                                      ELSE IF old.cancel THEN "cancelled"
                                      ELSE IF built THEN "passed" ELSE "failed"])
            /\ old.at = "building"
      BY <1>8 DEF RunHome, old
    <2> DEFINE verdict == IF old.timedOut THEN "failed"
                          ELSE IF old.cancel THEN "cancelled"
                          ELSE IF built THEN "passed" ELSE "failed"
               job == [old EXCEPT !.at = "cleaning", !.status = "cleaning",
                                  !.verdict = verdict]
    <2>2. HomeChanges(old, job)
      BY <1>1, <2>1 DEF HomeChanges, HomeJob, HomeFits, Active, Terminal,
           Over, Good
    <2>3. Turn(i, job)
      BY <2>1
    <2> HIDE DEF job
    <2>4. QED
      BY <1>2, <2>2, <2>3 DEF old
  <1>9. CASE SettleHome(i)
    <2> DEFINE job == FailOf(old, old.verdict)
    <2>1. Turn(i, job) /\ old.at = "cleaning"
      BY <1>9, <1>1 DEF SettleHome, old
    <2>2. HomeChanges(old, job)
      BY <1>1, <2>1 DEF FailOf, HomeChanges, HomeJob, HomeFits, Active, Terminal,
           Over, Good
    <2> HIDE DEF job
    <2>3. QED
      BY <1>2, <2>1, <2>2 DEF old
  <1>10. CASE BreakHome(i)
    <2>1. PICK s \in {"blocked", "failed"} :
            Turn(i, FailOf(old, s)) /\ old.at \notin Over
      BY <1>10, <1>1 DEF BreakHome, old, Over
    <2> DEFINE job == FailOf(old, s)
    <2>2. HomeChanges(old, job)
      BY <1>1, <2>1 DEF FailOf, HomeChanges, HomeJob, HomeFits, Active, Terminal,
           Over, Good
    <2>3. Turn(i, job)
      BY <2>1
    <2> HIDE DEF job
    <2>4. QED
      BY <1>2, <2>2, <2>3 DEF old
  <1>11. CASE FinishHome(i)
    <2> DEFINE job == EndOf(old)
    <2>1. Turn(i, job) /\ old.at = "ending"
      BY <1>11, <1>1 DEF FinishHome, old
    <2>2. HomeChanges(old, job)
      BY <1>1, <2>1 DEF EndOf, HomeChanges, HomeJob, HomeFits, Active, Terminal,
           Over, Good
    <2> HIDE DEF job
    <2>3. QED
      BY <1>2, <2>1, <2>2 DEF old
  <1>12. QED
    BY <1>3, <1>4, <1>5, <1>6, <1>7, <1>8, <1>9, <1>10, <1>11 DEF HomeStep,
       HomeFault

PreviewJob ==
  [status : Active \cup Terminal,
   at : {"queued", "preparing", "copying", "updating", "ran", "updated",
         "analyzing", "compared", "cleaning", "ending", "done"},
   cancel : BOOLEAN, timedOut : BOOLEAN, seen : Nat, unchanged : BOOLEAN,
   candidate : BOOLEAN, applied : BOOLEAN,
   verdict : {"passed", "no-change", "failed"}]

PreviewFits(job) == job.at = "done" => job.status \in Terminal

PreviewChanges(old, new) ==
  /\ new \in PreviewJob
  /\ PreviewFits(old) => PreviewFits(new)
  /\ new.at # "done" => old.at # "done"
  /\ new.seen \in {old.seen, source}

LEMMA CancelPreviewChanges ==
  ASSUME NEW old \in PreviewJob
  PROVE  PreviewChanges(old, CancelOf(old))
  <1>1. CASE old.status \in Active
    BY <1>1 DEF CancelOf, PreviewChanges, PreviewJob, PreviewFits, Active,
                Terminal, Good
  <1>2. CASE old.status \notin Active
    BY <1>2 DEF CancelOf, PreviewChanges
  <1>3. QED
    BY <1>1, <1>2

LEMMA PreviewWorkerChanges ==
  ASSUME previews \in Seq(PreviewJob), source \in Nat, NEW i \in DOMAIN previews,
         PreviewStep(i) \/ PreviewFault(i)
  PROVE  /\ PreviewChanges(previews[i], previews'[i])
         /\ previews' = Put(previews, i, previews'[i]) /\ UNCHANGED previewsClosed
  <1> DEFINE old == previews[i]
  <1>1. old \in PreviewJob
    BY ElementOfSeq, LenProperties
  <1>2. ASSUME NEW job, Move(i, job), PreviewChanges(old, job)
        PROVE  /\ PreviewChanges(old, previews'[i])
               /\ previews' = Put(previews, i, previews'[i])
               /\ UNCHANGED previewsClosed
    <2>1. previews' = Put(previews, i, job) /\ job \in PreviewJob
      BY <1>2 DEF Move, PreviewChanges
    <2>2. previews'[i] = job
      BY <2>1, PutProperties
    <2>3. QED
      BY <1>2, <2>1, <2>2 DEF Move
  <1> HIDE DEF old
  <1>3. CASE PreparePreview(i)
    <2> DEFINE job == [old EXCEPT !.at = "preparing", !.status = "preparing"]
    <2>1. Move(i, job) /\ old.at = "queued"
      BY <1>3, <1>1 DEF PreparePreview, old
    <2>2. PreviewChanges(old, job)
      BY <1>1, <2>1 DEF PreviewChanges, PreviewJob, PreviewFits, Active,
           Terminal, Over, Good
    <2> HIDE DEF job
    <2>3. QED
      BY <1>2, <2>1, <2>2 DEF old
  <1>4. CASE RefusePreview(i)
    <2>1. PICK s \in {"blocked", "unavailable", "failed"} :
            Move(i, FailOf(old, s)) /\ old.at = "preparing"
      BY <1>4, <1>1 DEF RefusePreview, old
    <2> DEFINE job == FailOf(old, s)
    <2>2. PreviewChanges(old, job)
      BY <1>1, <2>1 DEF FailOf, PreviewChanges, PreviewJob, PreviewFits, Active,
           Terminal, Over, Good
    <2>3. Move(i, job)
      BY <2>1
    <2> HIDE DEF job
    <2>4. QED
      BY <1>2, <2>2, <2>3 DEF old
  <1>5. CASE ReadSource(i)
    <2> DEFINE job == IF old.cancel THEN [old EXCEPT !.at = "ending"]
                      ELSE [old EXCEPT !.at = "copying", !.seen = source]
    <2>1. Move(i, job) /\ old.at = "preparing"
      BY <1>5, <1>1 DEF ReadSource, old
    <2>2. PreviewChanges(old, job)
      BY <1>1, <2>1 DEF PreviewChanges, PreviewJob, PreviewFits, Active,
           Terminal, Over, Good
    <2> HIDE DEF job
    <2>3. QED
      BY <1>2, <2>1, <2>2 DEF old
  <1>6. CASE CopySource(i)
    <2> DEFINE job == IF old.seen # source THEN FailOf(old, "blocked")
                      ELSE [old EXCEPT !.at = "updating", !.status = "running"]
    <2>1. Move(i, job) /\ old.at = "copying"
      BY <1>6, <1>1 DEF CopySource, old
    <2>2. PreviewChanges(old, job)
      BY <1>1, <2>1 DEF FailOf, PreviewChanges, PreviewJob, PreviewFits, Active,
           Terminal, Over, Good
    <2> HIDE DEF job
    <2>3. QED
      BY <1>2, <2>1, <2>2 DEF old
  <1>7. CASE TimeOutPreview(i)
    <2> DEFINE job == TimeOutOf(old)
    <2>1. Move(i, job) /\ old.at \notin Over
      BY <1>7, <1>1 DEF TimeOutPreview, old, Over
    <2>2. PreviewChanges(old, job)
      BY <1>1, <2>1 DEF TimeOutOf, PreviewChanges, PreviewJob, PreviewFits, Active,
           Terminal, Over, Good
    <2> HIDE DEF job
    <2>3. QED
      BY <1>2, <2>1, <2>2 DEF old
  <1>8. CASE RunUpdate(i)
    <2> DEFINE failed == FailOf(old, "failed")
               goes == [old EXCEPT !.at = "ran"]
    <2>1. old.at = "updating" /\ (Move(i, failed) \/ Move(i, goes))
      BY <1>8 DEF RunUpdate, old
    <2>2. PreviewChanges(old, failed)
      BY <1>1, <2>1 DEF FailOf, PreviewChanges, PreviewJob, PreviewFits, Active,
           Terminal, Over, Good
    <2>3. PreviewChanges(old, goes)
      BY <1>1, <2>1 DEF PreviewChanges, PreviewJob, PreviewFits
    <2> HIDE DEF failed, goes
    <2>4. QED
      BY <1>2, <2>1, <2>2, <2>3 DEF old
  <1>9. CASE JudgeUpdate(i)
    <2> DEFINE failed == FailOf(old, "failed")
               ended == [old EXCEPT !.at = "ending"]
               goes == [old EXCEPT !.at = "updated"]
    <2>1. /\ old.at = "ran"
          /\ Move(i, failed) \/ Move(i, ended) \/ Move(i, goes)
      BY <1>9 DEF JudgeUpdate, old
    <2>2. PreviewChanges(old, failed)
      BY <1>1, <2>1 DEF FailOf, PreviewChanges, PreviewJob, PreviewFits, Active,
           Terminal, Over, Good
    <2>3. PreviewChanges(old, ended) /\ PreviewChanges(old, goes)
      BY <1>1, <2>1 DEF PreviewChanges, PreviewJob, PreviewFits
    <2> HIDE DEF failed, ended, goes
    <2>4. QED
      BY <1>2, <2>1, <2>2, <2>3 DEF old
  <1>10. CASE AnalyzeUpdate(i)
    <2> DEFINE job == [old EXCEPT !.at = "analyzing", !.status = "analyzing"]
    <2>1. Move(i, job) /\ old.at = "updated"
      BY <1>10, <1>1 DEF AnalyzeUpdate, old
    <2>2. PreviewChanges(old, job)
      BY <1>1, <2>1 DEF PreviewChanges, PreviewJob, PreviewFits, Active
    <2> HIDE DEF job
    <2>3. QED
      BY <1>2, <2>1, <2>2 DEF old
  <1>11. CASE Compare(i)
    <2> DEFINE job == [old EXCEPT !.unchanged = (source = old.seen)]
               failed == FailOf(job, "failed")
               goes == [job EXCEPT !.at = "compared"]
    <2>1. old.at = "analyzing" /\ (Move(i, failed) \/ Move(i, goes))
      BY <1>11 DEF Compare, old
    <2>2. PreviewChanges(old, failed)
      BY <1>1, <2>1 DEF FailOf, PreviewChanges, PreviewJob, PreviewFits, Active,
           Terminal, Over, Good
    <2>3. PreviewChanges(old, goes)
      BY <1>1, <2>1 DEF PreviewChanges, PreviewJob, PreviewFits, Active,
           Terminal, Over, Good
    <2> HIDE DEF failed, goes
    <2>4. QED
      BY <1>2, <2>1, <2>2, <2>3 DEF old
  <1>12. CASE Report(i)
    <2>1. PICK s \in {"passed", "no-change"}, kept \in BOOLEAN :
            Move(i, [old EXCEPT !.at = "cleaning", !.status = "cleaning",
                           !.verdict = s, !.candidate = (s = "passed" /\ kept)])
         /\ old.at = "compared"
      BY <1>12, <1>1 DEF Report, old
    <2> DEFINE job == [old EXCEPT !.at = "cleaning", !.status = "cleaning",
                           !.verdict = s, !.candidate = (s = "passed" /\ kept)]
    <2>2. PreviewChanges(old, job)
      BY <1>1, <2>1 DEF PreviewChanges, PreviewJob, PreviewFits, Active,
           Terminal, Over, Good
    <2>3. Move(i, job)
      BY <2>1
    <2> HIDE DEF job
    <2>4. QED
      BY <1>2, <2>2, <2>3 DEF old
  <1>13. CASE SettlePreview(i)
    <2> DEFINE job == FailOf(old, old.verdict)
    <2>1. Move(i, job) /\ old.at = "cleaning"
      BY <1>13, <1>1 DEF SettlePreview, old
    <2>2. PreviewChanges(old, job)
      BY <1>1, <2>1 DEF FailOf, PreviewChanges, PreviewJob, PreviewFits, Active,
           Terminal, Over, Good
    <2> HIDE DEF job
    <2>3. QED
      BY <1>2, <2>1, <2>2 DEF old
  <1>14. CASE BreakPreview(i)
    <2>1. PICK s \in {"blocked", "failed"} :
            Move(i, FailOf(old, s)) /\ old.at \notin Over
      BY <1>14, <1>1 DEF BreakPreview, old, Over
    <2> DEFINE job == FailOf(old, s)
    <2>2. PreviewChanges(old, job)
      BY <1>1, <2>1 DEF FailOf, PreviewChanges, PreviewJob, PreviewFits, Active,
           Terminal, Over, Good
    <2>3. Move(i, job)
      BY <2>1
    <2> HIDE DEF job
    <2>4. QED
      BY <1>2, <2>2, <2>3 DEF old
  <1>15. CASE FinishPreview(i)
    <2> DEFINE status == EndStatus(old)
               unchanged == source = old.seen
               job == [old EXCEPT !.at = "done", !.status = status,
                                  !.unchanged = unchanged]
    <2>1. Move(i, job) /\ old.at = "ending"
      BY <1>15 DEF FinishPreview, EndOf, EndStatus, old
    <2>2. /\ status \in Terminal /\ (status \in Good => old.status = status)
          /\ unchanged \in BOOLEAN
      BY <1>1, EndIsTerminal DEF PreviewJob
    <2> HIDE DEF status, unchanged
    <2>3. PreviewChanges(old, job)
      BY <1>1, <2>1, <2>2 DEF PreviewChanges, PreviewJob, PreviewFits, Over, Good
    <2> HIDE DEF job
    <2>4. QED
      BY <1>2, <2>1, <2>3 DEF old
  <1>16. QED
    BY <1>3, <1>4, <1>5, <1>6, <1>7, <1>8, <1>9, <1>10, <1>11, <1>12, <1>13,
       <1>14, <1>15
       DEF PreviewStep, PreviewFault

-----------------------------------------------------------------------------
(* The three tables.                                                        *)

JobsTyped ==
  /\ builds \in Seq(BuildJob) /\ epoch \in Nat
  /\ homes \in Seq(HomeJob) /\ previews \in Seq(PreviewJob)

SourceFits ==
  quota \in Quotas /\ source \in 1 .. quota.versions /\ lockAt \in 0 .. source

\* The steps of the jobs, and of the requests that one call of a manager answers.
JobStep ==
  Workers \/ PostBuild \/ PostHomeBuild \/ PostPreview \/ PostCancel \/ Close

LEMMA Steps ==
  ASSUME Next
  PROVE  \/ JobStep
         \/ \E t \in quota.threads :
              UpdateWritten(t) \/ UpdateMark(t) \/ UpdateInvalidate(t)
         \/ /\ UNCHANGED <<buildVars, homeVars, previewVars, quota, lockAt, owed>>
            /\ \/ UNCHANGED source
               \/ source' = source + 1 /\ source < quota.versions
  <1> DEFINE Away ==
        /\ UNCHANGED <<buildVars, homeVars, previewVars, quota, lockAt, owed>>
        /\ \/ UNCHANGED source
           \/ source' = source + 1 /\ source < quota.versions
  <1>1. CASE Expire \/ TestEnds \/ Edit
    BY <1>1 DEF Expire, TestEnds, Edit, requestVars, activationVars, Confirmations
  <1>2. ASSUME NEW t \in quota.threads, NEW r, To(t, r), Quiet,
               UNCHANGED <<lockAt, owed>>
        PROVE  Away
    BY <1>2 DEF To, Quiet
  <1>3. ASSUME NEW t \in quota.threads, NEW i \in DOMAIN previews,
               UpdateValidate(t, i)
        PROVE  Away
    BY <1>2, <1>3 DEF UpdateValidate, Confirmations
  <1>4. ASSUME NEW t \in quota.threads, ManagedValidate(t) \/ HomeValidate(t)
        PROVE  Away
    BY <1>2, <1>4 DEF ManagedValidate, HomeValidate, Confirmations
  <1>5. ASSUME NEW t \in quota.threads,
               UpdateValidated(t) \/ ManagedValidated(t) \/ HomeValidated(t)
        PROVE  Away
    BY <1>2, <1>5 DEF UpdateValidated, ManagedValidated, HomeValidated, Validated,
                      Reply
  <1>6. ASSUME NEW t \in quota.threads, NEW i \in DOMAIN previews,
               NEW n \in DOMAIN intents, UpdateApply(t, i, n)
        PROVE  Away
    BY <1>2, <1>6 DEF UpdateApply, Confirmations
  <1>7. ASSUME NEW t \in quota.threads, UpdateConsume(t)
        PROVE  Away
    BY <1>2, <1>7 DEF UpdateConsume, Consume
  <1>8. ASSUME NEW t \in quota.threads, NEW n \in DOMAIN intents,
               ManagedApply(t, n) \/ HomeApply(t, n)
        PROVE  Away
    BY <1>2, <1>8 DEF ManagedApply, HomeApply, Consume
  <1>9. ASSUME NEW t \in quota.threads, ManagedWritten(t) \/ HomeWritten(t)
        PROVE  Away
    BY <1>9 DEF ManagedWritten, HomeWritten, Written, Reply, To
  <1>10. ASSUME NEW t \in quota.threads, WriteRefused(t) \/ ActivationRefused(t)
         PROVE  Away
    BY <1>2, <1>10 DEF WriteRefused, ActivationRefused, Reply, Confirmations
  <1>11. ASSUME NEW t \in quota.threads,
                PostActivationPreview(t) \/ PostTest(t) \/ PostCommit(t)
         PROVE  Away
    BY <1>2, <1>11 DEF PostActivationPreview, PostTest, PostCommit, Offer,
                       Confirmations
  <1>12. ASSUME NEW t \in quota.threads,
                \/ PreviewRuns(t) \/ TestRuns(t)
                \/ CommitVerified(t) \/ CommitRuns(t)
         PROVE  Away
    BY <1>2, <1>12 DEF PreviewRuns, TestRuns, CommitVerified, CommitRuns, Reply,
                       Confirmations
  <1>13. QED
    BY <1>1, <1>3, <1>4, <1>5, <1>6, <1>7, <1>8, <1>9, <1>10, <1>11, <1>12
       DEF Next, Requests, JobStep

\* What a step does to the builds, to what invalidates them and to the source.
BuildMove ==
  \/ UNCHANGED <<builds, epoch, lockAt, owed>>
  \/ /\ \E i \in DOMAIN builds : /\ BuildChanges(builds[i], builds'[i])
                                 /\ builds' = Put(builds, i, builds'[i])
     /\ UNCHANGED <<epoch, lockAt, owed>>
  \/ StartBuild /\ UNCHANGED <<lockAt, owed>>
  \/ UNCHANGED <<builds, epoch>> /\ owed' = TRUE
  \/ Invalidate /\ owed' = FALSE /\ UNCHANGED lockAt

LEMMA BuildMoves ==
  ASSUME JobsTyped, SourceFits, [Next]_vars
  PROVE  BuildMove
  <1>1. source \in Nat /\ lockAt \in 0 .. source
    BY ServerAssumption DEF SourceFits, Quota
  <1>2. CASE JobStep
    <2>1. CASE Workers
      <3>1. CASE \E i \in DOMAIN builds : BuildStep(i) \/ BuildFault(i)
        <4>1. UNCHANGED <<lockAt, owed>>
          BY <2>1, <3>1 DEF Workers, requestVars
        <4>2. QED
          BY <1>1, <3>1, <4>1, WorkerChanges DEF JobsTyped, BuildMove
      <3>2. CASE UNCHANGED <<buildVars, requestVars>>
        BY <3>2 DEF BuildMove, buildVars, requestVars
      <3>3. QED
        BY <2>1, <3>1, <3>2 DEF Workers
    <2>2. CASE PostBuild
      BY <2>2 DEF PostBuild, BuildMove, requestVars
    <2>3. CASE PostHomeBuild \/ PostPreview
      BY <2>3 DEF PostHomeBuild, PostPreview, BuildMove, buildVars, requestVars
    <2>4. ASSUME NEW i \in DOMAIN builds,
                 builds' = Put(builds, i, CancelOf(builds[i])),
                 UNCHANGED <<epoch, lockAt, owed>>
          PROVE  BuildMove
      <3>1. builds[i] \in BuildJob
        BY ElementOfSeq, LenProperties DEF JobsTyped
      <3>2. BuildChanges(builds[i], CancelOf(builds[i]))
        BY <3>1, CancelChanges
      <3>3. builds'[i] = CancelOf(builds[i])
        BY <2>4, <3>2, PutProperties DEF BuildChanges, JobsTyped
      <3>4. QED
        BY <2>4, <3>2, <3>3 DEF BuildMove
    <2>5. CASE PostCancel
      BY <2>4, <2>5 DEF PostCancel, CancelBuild, Kept, BuildMove, buildVars,
                        requestVars
    <2>6. CASE Close
      <3>1. builds # <<>> => Len(builds) \in DOMAIN builds
        BY LenProperties, EmptySeq DEF JobsTyped
      <3>2. QED
        BY <2>4, <2>6, <3>1 DEF Close, CloseBuilds, BuildMove, buildVars,
                                requestVars
    <2>7. QED
      BY <1>2, <2>1, <2>2, <2>3, <2>5, <2>6 DEF JobStep
  <1>3. ASSUME NEW t \in quota.threads,
               UpdateWritten(t) \/ UpdateMark(t) \/ UpdateInvalidate(t)
        PROVE  BuildMove
    BY <1>3 DEF UpdateWritten, Written, UpdateMark, UpdateInvalidate, BuildMove,
                buildVars, Confirmations
  <1>4. CASE UNCHANGED <<buildVars, lockAt, owed>>
    BY <1>4 DEF BuildMove, buildVars
  <1>5. QED
    BY <1>2, <1>3, <1>4, Steps DEF vars, requestVars

HomeMove ==
  \/ UNCHANGED homes
  \/ \E i \in DOMAIN homes : /\ HomeChanges(homes[i], homes'[i])
                             /\ homes' = Put(homes, i, homes'[i])
  \/ StartHome

LEMMA HomeMoves ==
  ASSUME JobsTyped, [Next]_vars
  PROVE  HomeMove
  <1>1. CASE JobStep
    <2>1. CASE Workers
      <3>1. CASE \E i \in DOMAIN homes : HomeStep(i) \/ HomeFault(i)
        BY <3>1, HomeWorkerChanges DEF JobsTyped, HomeMove
      <3>2. CASE UNCHANGED homeVars
        BY <3>2 DEF HomeMove, homeVars
      <3>3. QED
        BY <2>1, <3>1, <3>2 DEF Workers
    <2>2. CASE PostBuild \/ PostHomeBuild \/ PostPreview
      BY <2>2 DEF PostBuild, PostHomeBuild, PostPreview, HomeMove, homeVars
    <2>3. ASSUME NEW i \in DOMAIN homes,
                 homes' = Put(homes, i, CancelOf(homes[i]))
          PROVE  HomeMove
      <3>1. homes[i] \in HomeJob
        BY ElementOfSeq, LenProperties DEF JobsTyped
      <3>2. HomeChanges(homes[i], CancelOf(homes[i]))
        BY <3>1, CancelHomeChanges
      <3>3. homes'[i] = CancelOf(homes[i])
        BY <2>3, <3>2, PutProperties DEF HomeChanges, JobsTyped
      <3>4. QED
        BY <2>3, <3>2, <3>3 DEF HomeMove
    <2>4. CASE PostCancel
      BY <2>3, <2>4 DEF PostCancel, CancelHome, Kept, HomeMove, homeVars
    <2>5. CASE Close
      <3>1. homes # <<>> => Len(homes) \in DOMAIN homes
        BY LenProperties, EmptySeq DEF JobsTyped
      <3>2. QED
        BY <2>3, <2>5, <3>1 DEF Close, CloseHomes, HomeMove, homeVars
    <2>6. QED
      BY <1>1, <2>1, <2>2, <2>4, <2>5 DEF JobStep
  <1>2. ASSUME NEW t \in quota.threads,
               UpdateWritten(t) \/ UpdateMark(t) \/ UpdateInvalidate(t)
        PROVE  HomeMove
    BY <1>2 DEF UpdateWritten, Written, UpdateMark, UpdateInvalidate, HomeMove,
                homeVars
  <1>3. CASE UNCHANGED homeVars
    BY <1>3 DEF HomeMove, homeVars
  <1>4. QED
    BY <1>1, <1>2, <1>3, Steps DEF vars

PreviewMove ==
  \/ UNCHANGED previews
  \/ \E i \in DOMAIN previews : /\ PreviewChanges(previews[i], previews'[i])
                                /\ previews' = Put(previews, i, previews'[i])
  \/ StartPreview

LEMMA PreviewMoves ==
  ASSUME JobsTyped, SourceFits, [Next]_vars
  PROVE  PreviewMove
  <1>1. source \in Nat
    BY ServerAssumption DEF SourceFits, Quota
  <1>2. ASSUME NEW i \in DOMAIN previews, NEW job,
               PreviewChanges(previews[i], job), previews' = Put(previews, i, job)
        PROVE  PreviewMove
    <2>1. previews'[i] = job
      BY <1>2, PutProperties DEF PreviewChanges, JobsTyped
    <2>2. QED
      BY <1>2, <2>1 DEF PreviewMove
  <1>3. \A i \in DOMAIN previews : previews[i] \in PreviewJob
    BY ElementOfSeq, LenProperties DEF JobsTyped
  <1>4. CASE JobStep
    <2>1. CASE Workers
      <3>1. CASE \E i \in DOMAIN previews : PreviewStep(i) \/ PreviewFault(i)
        BY <1>1, <3>1, PreviewWorkerChanges DEF JobsTyped, PreviewMove
      <3>2. CASE UNCHANGED previewVars
        BY <3>2 DEF PreviewMove, previewVars
      <3>3. QED
        BY <2>1, <3>1, <3>2 DEF Workers
    <2>2. CASE PostBuild \/ PostHomeBuild \/ PostPreview
      BY <2>2 DEF PostBuild, PostHomeBuild, PostPreview, PreviewMove, previewVars
    <2>3. CASE PostCancel
      BY <1>2, <1>3, <2>3, CancelPreviewChanges
         DEF PostCancel, CancelPreview, Kept, PreviewMove, previewVars
    <2>4. CASE Close
      <3>1. previews # <<>> => Len(previews) \in DOMAIN previews
        BY LenProperties, EmptySeq DEF JobsTyped
      <3>2. QED
        BY <1>2, <1>3, <2>4, <3>1, CancelPreviewChanges
           DEF Close, ClosePreviews, PreviewMove, previewVars
    <2>5. QED
      BY <1>4, <2>1, <2>2, <2>3, <2>4 DEF JobStep
  <1>5. ASSUME NEW t \in quota.threads, UpdateMark(t)
        PROVE  PreviewMove
    <2> DEFINE n == request[t].job
               job == [previews[n] EXCEPT !.applied = TRUE, !.candidate = FALSE]
    <2>1. CASE Markable(n) /\ MarkApplied(n)
      <3>1. n \in DOMAIN previews /\ previews' = Put(previews, n, job)
        BY <2>1 DEF Markable, MarkApplied, Kept
      <3>2. previews[n] \in PreviewJob
        BY <1>3, <3>1
      <3> HIDE DEF n
      <3>3. PreviewChanges(previews[n], job)
        BY <3>2 DEF PreviewChanges, PreviewJob, PreviewFits
      <3> HIDE DEF job
      <3>4. QED
        BY <1>2, <3>1, <3>3
    <2>2. QED
      BY <1>5, <2>1 DEF UpdateMark, PreviewMove, previewVars
  <1>6. ASSUME NEW t \in quota.threads, UpdateWritten(t) \/ UpdateInvalidate(t)
        PROVE  PreviewMove
    BY <1>6 DEF UpdateWritten, Written, UpdateInvalidate, PreviewMove, previewVars
  <1>7. CASE UNCHANGED previewVars
    BY <1>7 DEF PreviewMove, previewVars
  <1>8. QED
    BY <1>4, <1>5, <1>6, <1>7, Steps DEF vars

\* The source goes on by one version at a time, and the lock is the latest one
\* when it is written.
LEMMA SourceFitsStep ==
  ASSUME SourceFits, [Next]_vars
  PROVE  SourceFits' /\ source <= source' /\ UNCHANGED quota
  <1>1. source \in Nat /\ quota.versions \in Nat
    BY ServerAssumption DEF SourceFits, Quota
  <1>2. CASE JobStep
    <2>1. UNCHANGED <<source, requestVars>>
      BY <1>2 DEF JobStep, Workers, PostBuild, PostHomeBuild, PostPreview,
                  PostCancel, Close
    <2>2. QED
      BY <1>1, <2>1 DEF requestVars, SourceFits
  <1>3. ASSUME NEW t \in quota.threads,
               UpdateWritten(t) \/ UpdateMark(t) \/ UpdateInvalidate(t)
        PROVE  SourceFits' /\ source <= source' /\ UNCHANGED quota
    BY <1>1, <1>3 DEF UpdateWritten, Written, UpdateMark, UpdateInvalidate, To,
                      Reply, Confirmations, SourceFits
  <1>4. CASE /\ UNCHANGED <<quota, lockAt>>
             /\ \/ UNCHANGED source
                \/ source' = source + 1 /\ source < quota.versions
    BY <1>1, <1>4 DEF SourceFits
  <1>5. QED
    BY <1>2, <1>3, <1>4, Steps DEF vars, requestVars

-----------------------------------------------------------------------------
(* What holds of the tables.                                                *)

BuildsFit ==
  \A i \in DOMAIN builds :
    /\ BuildFits(builds[i], epoch)
    /\ builds[i].epoch <= epoch /\ builds[i].built <= source

HomesFit == \A i \in DOMAIN homes : HomeFits(homes[i])

PreviewsFit ==
  \A i \in DOMAIN previews : PreviewFits(previews[i]) /\ previews[i].seen <= source

\* Only the newest job of a manager can be under way, and of earlier epochs one
\* build each.
OnlyNewestRuns ==
  /\ \A i \in DOMAIN builds :
       builds[i].at \notin Over /\ builds[i].epoch = epoch => i = Len(builds)
  /\ \A i, j \in DOMAIN builds :
       builds[i].at \notin Over /\ builds[j].at \notin Over /\ i # j
         => builds[i].epoch # builds[j].epoch
  /\ \A i \in DOMAIN homes : homes[i].at \notin Over => i = Len(homes)
  /\ \A i \in DOMAIN previews : previews[i].at # "done" => i = Len(previews)

\* A build of an earlier epoch is spoilt, and one of this epoch is newer than
\* the lock unless invalidate() is still to come.
KeptFit ==
  \A i \in Kept(builds) :
    /\ builds[i].epoch # epoch => Spoilt(builds[i])
    /\ builds[i].epoch = epoch /\ owed # TRUE => Recent(builds[i], lockAt)

JobsFit == BuildsFit /\ HomesFit /\ PreviewsFit

Tables == JobsTyped /\ SourceFits /\ JobsFit /\ OnlyNewestRuns /\ KeptFit

\* A table of jobs does not shrink; a new job is the last one.
LEMMA AppendJob ==
  ASSUME NEW S, NEW s \in Seq(S), NEW x \in S
  PROVE  /\ Append(s, x) \in Seq(S) /\ Len(Append(s, x)) = Len(s) + 1
         /\ Len(s) \in Nat /\ DOMAIN s = 1 .. Len(s)
         /\ DOMAIN Append(s, x) = 1 .. Len(s) + 1
         /\ Append(s, x)[Len(s) + 1] = x
         /\ \A i \in DOMAIN s : Append(s, x)[i] = s[i]
  BY AppendProperties, LenProperties

\* invalidate() revokes the builds that are kept and leaves the others alone.
LEMMA InvalidateProperties ==
  ASSUME JobsTyped, Invalidate
  PROVE  /\ builds' \in Seq(BuildJob) /\ Len(builds') = Len(builds)
         /\ DOMAIN builds' = DOMAIN builds
         /\ \A i \in DOMAIN builds :
              builds'[i] = IF i \in Kept(builds) THEN Revoked(builds[i])
                           ELSE builds[i]
         /\ epoch' = epoch + 1
  <1>1. \A i \in DOMAIN builds : builds[i] \in BuildJob
    BY ElementOfSeq, LenProperties DEF JobsTyped
  <1>2. ASSUME NEW job \in BuildJob
        PROVE  Revoked(job) \in BuildJob
    <2> DEFINE cancel == job.cancel \/ job.status \in Active
    <2>1. cancel \in BOOLEAN
      OBVIOUS
    <2>2. Revoked(job) = [job EXCEPT !.cancel = cancel, !.status = "stale",
                                     !.outputs = "none"]
      BY DEF Revoked
    <2> HIDE DEF cancel
    <2>3. QED
      BY <2>1, <2>2 DEF BuildJob, Terminal, Outputs
  <1>3. /\ builds' = [i \in DOMAIN builds |-> builds'[i]]
        /\ \A i \in DOMAIN builds :
             builds'[i] = IF i \in Kept(builds) THEN Revoked(builds[i])
                          ELSE builds[i]
        /\ epoch' = epoch + 1
    BY DEF Invalidate
  <1>4. \A i \in DOMAIN builds : builds'[i] \in BuildJob
    BY <1>1, <1>2, <1>3
  <1>5. builds' \in Seq(BuildJob) /\ Len(builds') = Len(builds)
        /\ DOMAIN builds' = DOMAIN builds
    BY <1>3, <1>4, MapProperties DEF JobsTyped
  <1>6. QED
    BY <1>3, <1>5

\* A revoked build is a build, and spoilt.
LEMMA RevokedIsSpoilt ==
  ASSUME NEW old \in BuildJob, BuildFits(old, epoch), old.epoch <= epoch,
         epoch \in Nat, epoch' = epoch + 1
  PROVE  /\ Revoked(old) \in BuildJob
         /\ BuildFits(old, epoch') /\ BuildFits(Revoked(old), epoch')
         /\ Spoilt(Revoked(old))
         /\ Revoked(old).epoch = old.epoch /\ Revoked(old).at = old.at
         /\ Revoked(old).built = old.built
  <1> DEFINE new == Revoked(old)
  <1>1. /\ new \in BuildJob /\ new.status = "stale" /\ new.outputs = "none"
        /\ new.at = old.at /\ new.epoch = old.epoch /\ new.built = old.built
        /\ new.timedOut = old.timedOut /\ new.verdict = old.verdict
        /\ new.cancel = (old.cancel \/ old.status \in Active)
    BY DEF Revoked, BuildJob, Terminal, Outputs
  <1>2. old.epoch # epoch' /\ old.cancel \in BOOLEAN /\ new.cancel \in BOOLEAN
    BY <1>1 DEF BuildJob
  <1> HIDE DEF new
  <1>3. BuildFits(new, epoch')
    BY <1>1, <1>2 DEF BuildFits, Over, Good, Terminal
  <1>4. Spoilt(new)
    BY <1>1, <1>2 DEF BuildFits, Spoilt, Over
  <1>5. BuildFits(old, epoch')
    BY <1>2 DEF BuildFits
  <1>6. QED
    BY <1>1, <1>3, <1>4, <1>5 DEF new

LEMMA NewBuildFits ==
  ASSUME epoch \in Nat
  PROVE  /\ NewBuild \in BuildJob /\ BuildFits(NewBuild, epoch)
         /\ Recent(NewBuild, lockAt)
         /\ NewBuild.epoch = epoch /\ NewBuild.built = 0
  BY DEF NewBuild, BuildJob, BuildFits, Recent, Active, Over, Good, Outputs,
         Terminal

LEMMA NewHomeFits == NewHome \in HomeJob /\ HomeFits(NewHome)
  BY DEF NewHome, HomeJob, HomeFits, Active, Over, Good

LEMMA NewPreviewFits ==
  /\ NewPreview \in PreviewJob /\ PreviewFits(NewPreview) /\ NewPreview.seen = 0
  BY DEF NewPreview, PreviewJob, PreviewFits, Active, Good

\* The four moves of the builds keep what is said of them.
LEMMA BuildsStep ==
  ASSUME Tables, [Next]_vars
  PROVE  /\ builds' \in Seq(BuildJob) /\ epoch' \in Nat /\ BuildsFit'
         /\ \A i \in DOMAIN builds' :
              builds'[i].at \notin Over /\ builds'[i].epoch = epoch'
                => i = Len(builds')
         /\ \A i, j \in DOMAIN builds' :
              builds'[i].at \notin Over /\ builds'[j].at \notin Over /\ i # j
                => builds'[i].epoch # builds'[j].epoch
         /\ KeptFit'
  <1> USE DEF Tables, JobsFit
  <1>1. /\ SourceFits' /\ source <= source' /\ source \in Nat /\ source' \in Nat
        /\ Retained \in Nat
    BY SourceFitsStep, ServerAssumption, RetainedAssumption DEF SourceFits, Quota
  <1>2. /\ builds \in Seq(BuildJob) /\ epoch \in Nat
        /\ Len(builds) \in Nat /\ DOMAIN builds = 1 .. Len(builds)
        /\ \A i \in DOMAIN builds : /\ builds[i] \in BuildJob
                                    /\ builds[i].epoch \in Nat
                                    /\ builds[i].built \in Nat
    <2>1. \A i \in DOMAIN builds : builds[i] \in BuildJob
      BY ElementOfSeq, LenProperties DEF JobsTyped
    <2>2. \A job \in BuildJob : job.epoch \in Nat /\ job.built \in Nat
      BY DEF BuildJob
    <2>3. QED
      BY <2>1, <2>2, LenProperties DEF JobsTyped
  <1>3. CASE /\ UNCHANGED <<builds, epoch>>
             /\ UNCHANGED <<lockAt, owed>> \/ owed' = TRUE
    <2>1. BuildsFit'
      BY <1>1, <1>2, <1>3 DEF BuildsFit, BuildFits
    <2>2. KeptFit'
      BY <1>3 DEF KeptFit, Kept, Spoilt, Recent
    <2>3. QED
      BY <1>2, <1>3, <2>1, <2>2 DEF OnlyNewestRuns
  <1>4. ASSUME NEW i \in DOMAIN builds, BuildChanges(builds[i], builds'[i]),
               builds' = Put(builds, i, builds'[i]),
               UNCHANGED <<epoch, lockAt, owed>>
        PROVE  /\ builds' \in Seq(BuildJob) /\ epoch' \in Nat /\ BuildsFit'
               /\ \A k \in DOMAIN builds' :
                    builds'[k].at \notin Over /\ builds'[k].epoch = epoch'
                      => k = Len(builds')
               /\ \A k, j \in DOMAIN builds' :
                    builds'[k].at \notin Over /\ builds'[j].at \notin Over /\ k # j
                      => builds'[k].epoch # builds'[j].epoch
               /\ KeptFit'
    <2> DEFINE new == builds'[i]
    <2>1. /\ new \in BuildJob /\ new.epoch = builds[i].epoch
          /\ new.at \notin Over => builds[i].at \notin Over
          /\ BuildFits(builds[i], epoch') /\ BuildFits(new, epoch')
          /\ new.built \in {builds[i].built, source}
          /\ Spoilt(builds[i]) => Spoilt(new)
          /\ Recent(builds[i], lockAt) => Recent(new, lockAt)
      BY <1>4 DEF BuildChanges, BuildsFit, BuildFits
    <2>2. /\ builds' \in Seq(BuildJob) /\ Len(builds') = Len(builds)
          /\ DOMAIN builds' = DOMAIN builds
          /\ \A j \in DOMAIN builds : j # i => builds'[j] = builds[j]
      <3>1. ASSUME NEW x \in BuildJob
            PROVE  /\ Put(builds, i, x) \in Seq(BuildJob)
                   /\ Len(Put(builds, i, x)) = Len(builds)
                   /\ DOMAIN Put(builds, i, x) = DOMAIN builds
                   /\ \A j \in DOMAIN builds :
                        j # i => Put(builds, i, x)[j] = builds[j]
        BY PutProperties DEF JobsTyped
      <3> HIDE DEF new
      <3>2. builds' = Put(builds, i, new)
        BY <1>4 DEF new
      <3>3. QED
        BY <2>1, <3>1, <3>2
    <2> HIDE DEF new
    <2>3. BuildsFit'
      <3>1. ASSUME NEW j \in DOMAIN builds
            PROVE  /\ BuildFits(builds'[j], epoch') /\ builds'[j].epoch <= epoch
                   /\ builds'[j].built <= source'
        <4>1. CASE j = i
          BY <1>1, <1>2, <2>1, <4>1 DEF BuildsFit, new
        <4>2. CASE j # i
          BY <1>1, <1>2, <1>4, <2>2, <4>2 DEF BuildsFit, BuildFits
        <4>3. QED
          BY <4>1, <4>2
      <3>2. QED
        BY <1>4, <2>2, <3>1 DEF BuildsFit, BuildFits
    <2>4. Kept(builds') = Kept(builds)
      BY <2>2 DEF Kept
    <2>5. KeptFit'
      <3>1. ASSUME NEW j \in Kept(builds)
            PROVE  /\ builds'[j].epoch # epoch => Spoilt(builds'[j])
                   /\ builds'[j].epoch = epoch /\ owed # TRUE
                        => Recent(builds'[j], lockAt)
        <4>1. CASE j = i
          BY <2>1, <4>1 DEF KeptFit, new
        <4>2. CASE j # i
          BY <2>2, <4>2 DEF KeptFit, Kept
        <4>3. QED
          BY <4>1, <4>2
      <3>2. QED
        BY <1>4, <2>4, <3>1 DEF KeptFit, Recent
    <2>6. \A j \in DOMAIN builds :
            /\ builds'[j].epoch = builds[j].epoch
            /\ builds'[j].at \notin Over => builds[j].at \notin Over
      BY <2>1, <2>2 DEF new
    <2>7. QED
      BY <1>2, <1>4, <2>2, <2>3, <2>5, <2>6 DEF OnlyNewestRuns
  <1>5. CASE StartBuild /\ UNCHANGED <<lockAt, owed>>
    <2> DEFINE n == Len(builds) + 1
    <2>1. /\ builds' = Append(builds, NewBuild) /\ UNCHANGED epoch /\ ~BuildRunning
      BY <1>5 DEF StartBuild
    <2>2. /\ builds' \in Seq(BuildJob) /\ Len(builds') = n
          /\ DOMAIN builds' = 1 .. n /\ builds'[n] = NewBuild
          /\ \A j \in DOMAIN builds : builds'[j] = builds[j]
      BY <1>2, <2>1, NewBuildFits, AppendJob
    <2>3. \A j \in DOMAIN builds : builds[j].epoch = epoch => builds[j].at \in Over
      <3>1. \A j \in DOMAIN builds :
              builds[j].epoch = epoch /\ builds[j].at \notin Over
                => j = Len(builds) /\ builds[j].status \in Active
        BY DEF OnlyNewestRuns, BuildsFit, BuildFits
      <3>2. builds # <<>> => builds[Len(builds)].status \notin Active
        BY <2>1 DEF BuildRunning
      <3>3. DOMAIN builds # {} => builds # <<>>
        BY <1>2, EmptySeq
      <3>4. QED
        BY <3>1, <3>2, <3>3
    <2>4. BuildsFit'
      <3>1. \A j \in 1 .. Len(builds) :
              /\ BuildFits(builds'[j], epoch') /\ builds'[j].epoch <= epoch'
              /\ builds'[j].built <= source'
        BY <1>1, <1>2, <2>1, <2>2 DEF BuildsFit, BuildFits
      <3>2. /\ BuildFits(builds'[n], epoch') /\ builds'[n].epoch <= epoch'
            /\ builds'[n].built <= source'
        BY <1>1, <1>2, <2>1, <2>2, NewBuildFits DEF BuildFits
      <3>3. \A j \in DOMAIN builds' : j \in 1 .. Len(builds) \/ j = n
        BY <1>2, <2>2
      <3>4. QED
        BY <3>1, <3>2, <3>3 DEF BuildsFit, BuildFits
    <2>5. \A j \in Kept(builds') : j = n \/ j \in Kept(builds)
      BY <1>1, <1>2, <2>2 DEF Kept
    <2>6. KeptFit'
      <3>1. /\ builds'[n].epoch = epoch' /\ Recent(builds'[n], lockAt')
        BY <1>2, <1>5, <2>1, <2>2, NewBuildFits DEF Recent
      <3>2. \A j \in Kept(builds) :
              /\ builds'[j].epoch # epoch' => Spoilt(builds'[j])
              /\ builds'[j].epoch = epoch' /\ owed' # TRUE =>
                   Recent(builds'[j], lockAt')
        BY <1>5, <2>1, <2>2 DEF KeptFit, Kept, Recent
      <3>3. QED
        BY <2>5, <3>1, <3>2 DEF KeptFit, Spoilt, Recent
    <2>7. QED
      BY <1>2, <2>1, <2>2, <2>3, <2>4, <2>6, NewBuildFits DEF OnlyNewestRuns
  <1>6. CASE Invalidate /\ owed' = FALSE /\ UNCHANGED lockAt
    <2>1. /\ builds' \in Seq(BuildJob) /\ Len(builds') = Len(builds)
          /\ DOMAIN builds' = DOMAIN builds
          /\ \A i \in DOMAIN builds :
               builds'[i] = IF i \in Kept(builds) THEN Revoked(builds[i])
                            ELSE builds[i]
          /\ epoch' = epoch + 1
      BY <1>6, InvalidateProperties
    <2>2. ASSUME NEW i \in DOMAIN builds
          PROVE  /\ BuildFits(builds'[i], epoch')
                 /\ builds'[i].epoch = builds[i].epoch
                 /\ builds'[i].built = builds[i].built
                 /\ builds'[i].at = builds[i].at
                 /\ builds'[i].epoch <= epoch
                 /\ i \in Kept(builds) => Spoilt(builds'[i])
      <3>1. /\ BuildFits(builds[i], epoch) /\ builds[i].epoch <= epoch
            /\ builds[i] \in BuildJob
        BY <1>2 DEF BuildsFit
      <3>2. /\ BuildFits(builds[i], epoch') /\ BuildFits(Revoked(builds[i]), epoch')
            /\ Spoilt(Revoked(builds[i]))
            /\ Revoked(builds[i]).epoch = builds[i].epoch
            /\ Revoked(builds[i]).at = builds[i].at
            /\ Revoked(builds[i]).built = builds[i].built
        BY <1>2, <2>1, <3>1, RevokedIsSpoilt
      <3>3. QED
        BY <2>1, <3>1, <3>2 DEF BuildFits
    <2>3. BuildsFit'
      BY <1>1, <1>2, <2>1, <2>2 DEF BuildsFit, BuildFits
    <2>4. Kept(builds') = Kept(builds)
      BY <2>1 DEF Kept
    <2>5. \A i \in DOMAIN builds : builds'[i].epoch # epoch'
      BY <1>2, <2>1, <2>2
    <2>6. KeptFit'
      BY <2>1, <2>2, <2>4, <2>5 DEF KeptFit, Kept, Spoilt
    <2>7. QED
      BY <1>2, <2>1, <2>2, <2>3, <2>5, <2>6 DEF OnlyNewestRuns
  <1>7. QED
    BY <1>3, <1>4, <1>5, <1>6, BuildMoves DEF BuildMove

\* Builds of a home: nothing ever revokes them.
LEMMA HomesStep ==
  ASSUME Tables, [Next]_vars
  PROVE  /\ homes' \in Seq(HomeJob) /\ HomesFit'
         /\ \A i \in DOMAIN homes' : homes'[i].at \notin Over => i = Len(homes')
  <1> USE DEF Tables, JobsFit
  <1>1. /\ homes \in Seq(HomeJob) /\ Len(homes) \in Nat
        /\ DOMAIN homes = 1 .. Len(homes)
    BY LenProperties DEF JobsTyped
  <1>2. CASE UNCHANGED homes
    BY <1>1, <1>2 DEF HomesFit, OnlyNewestRuns
  <1>3. ASSUME NEW i \in DOMAIN homes, NEW new,
               HomeChanges(homes[i], new), homes' = Put(homes, i, new)
        PROVE  /\ homes' \in Seq(HomeJob) /\ HomesFit'
               /\ \A j \in DOMAIN homes' :
                    homes'[j].at \notin Over => j = Len(homes')
    <2>1. /\ new \in HomeJob /\ HomeFits(new)
          /\ new.at \notin Over => homes[i].at \notin Over
      BY <1>3 DEF HomeChanges, HomesFit
    <2>2. /\ homes' \in Seq(HomeJob) /\ Len(homes') = Len(homes)
          /\ DOMAIN homes' = DOMAIN homes /\ homes'[i] = new
          /\ \A j \in DOMAIN homes : j # i => homes'[j] = homes[j]
      BY <1>3, <2>1, PutProperties DEF JobsTyped
    <2>3. QED
      BY <2>1, <2>2 DEF HomesFit, OnlyNewestRuns
  <1>4. CASE StartHome
    <2> DEFINE n == Len(homes) + 1
    <2>1. /\ homes' \in Seq(HomeJob) /\ Len(homes') = n
          /\ DOMAIN homes' = 1 .. n /\ homes'[n] = NewHome
          /\ \A j \in DOMAIN homes : homes'[j] = homes[j]
      BY <1>1, <1>4, NewHomeFits, AppendJob DEF StartHome
    <2>2. \A j \in DOMAIN homes : homes[j].at \in Over
      <3>1. \A j \in DOMAIN homes :
              homes[j].at \notin Over => /\ j = Len(homes)
                                         /\ homes[j].status \in Active
        BY DEF OnlyNewestRuns, HomesFit, HomeFits
      <3>2. homes # <<>> => homes[Len(homes)].status \notin Active
        BY <1>4 DEF StartHome, HomeRunning
      <3>3. DOMAIN homes # {} => homes # <<>>
        BY <1>1, EmptySeq
      <3>4. QED
        BY <3>1, <3>2, <3>3
    <2>3. \A j \in DOMAIN homes' : j \in DOMAIN homes \/ j = n
      BY <1>1, <2>1
    <2>4. QED
      BY <2>1, <2>2, <2>3, NewHomeFits DEF HomesFit
  <1>5. QED
    BY <1>2, <1>3, <1>4, HomeMoves DEF HomeMove

\* Previews: the next one waits until the worker of the last one has ended.
LEMMA PreviewsStep ==
  ASSUME Tables, [Next]_vars
  PROVE  /\ previews' \in Seq(PreviewJob) /\ PreviewsFit'
         /\ \A i \in DOMAIN previews' :
              previews'[i].at # "done" => i = Len(previews')
  <1> USE DEF Tables, JobsFit
  <1>1. /\ previews \in Seq(PreviewJob) /\ Len(previews) \in Nat
        /\ DOMAIN previews = 1 .. Len(previews)
        /\ \A i \in DOMAIN previews : previews[i].seen \in Nat
    <2>1. \A i \in DOMAIN previews : previews[i] \in PreviewJob
      BY ElementOfSeq, LenProperties DEF JobsTyped
    <2>2. \A job \in PreviewJob : job.seen \in Nat
      BY DEF PreviewJob
    <2>3. QED
      BY <2>1, <2>2, LenProperties DEF JobsTyped
  <1>2. source <= source' /\ source \in Nat /\ source' \in Nat
    BY SourceFitsStep, ServerAssumption DEF SourceFits, Quota
  <1>3. CASE UNCHANGED previews
    BY <1>1, <1>2, <1>3 DEF PreviewsFit, OnlyNewestRuns
  <1>4. ASSUME NEW i \in DOMAIN previews, NEW new,
               PreviewChanges(previews[i], new), previews' = Put(previews, i, new)
        PROVE  /\ previews' \in Seq(PreviewJob) /\ PreviewsFit'
               /\ \A j \in DOMAIN previews' :
                    previews'[j].at # "done" => j = Len(previews')
    <2>1. /\ new \in PreviewJob /\ PreviewFits(new)
          /\ new.at # "done" => previews[i].at # "done"
          /\ new.seen <= source'
      BY <1>1, <1>2, <1>4 DEF PreviewChanges, PreviewsFit
    <2>2. /\ previews' \in Seq(PreviewJob) /\ Len(previews') = Len(previews)
          /\ DOMAIN previews' = DOMAIN previews /\ previews'[i] = new
          /\ \A j \in DOMAIN previews : j # i => previews'[j] = previews[j]
      BY <1>4, <2>1, PutProperties DEF JobsTyped
    <2>3. ASSUME NEW j \in DOMAIN previews
          PROVE  PreviewFits(previews'[j]) /\ previews'[j].seen <= source'
      <3>1. CASE j = i
        BY <2>1, <2>2, <3>1
      <3>2. CASE j # i
        BY <1>1, <1>2, <2>2, <3>2 DEF PreviewsFit
      <3>3. QED
        BY <3>1, <3>2
    <2>4. QED
      BY <2>1, <2>2, <2>3 DEF PreviewsFit, OnlyNewestRuns
  <1>5. CASE StartPreview
    <2> DEFINE n == Len(previews) + 1
    <2>1. /\ previews' \in Seq(PreviewJob) /\ Len(previews') = n
          /\ DOMAIN previews' = 1 .. n /\ previews'[n] = NewPreview
          /\ \A j \in DOMAIN previews : previews'[j] = previews[j]
      BY <1>1, <1>5, NewPreviewFits, AppendJob DEF StartPreview
    <2>2. \A j \in DOMAIN previews : previews[j].at = "done"
      <3>1. previews # <<>> => previews[Len(previews)].at = "done"
        BY <1>5 DEF StartPreview, PreviewRunning
      <3>2. DOMAIN previews # {} => previews # <<>>
        BY <1>1, EmptySeq
      <3>3. QED
        BY <3>1, <3>2 DEF OnlyNewestRuns
    <2>3. \A j \in DOMAIN previews' : j \in DOMAIN previews \/ j = n
      BY <1>1, <2>1
    <2>4. PreviewsFit'
      BY <1>1, <1>2, <2>1, <2>3, NewPreviewFits DEF PreviewsFit
    <2>5. QED
      BY <2>1, <2>2, <2>3, <2>4
  <1>6. QED
    BY <1>3, <1>4, <1>5, PreviewMoves DEF PreviewMove

LEMMA TablesInit == Init => Tables
  <1> SUFFICES ASSUME Init
               PROVE  Tables
    OBVIOUS
  <1>1. /\ builds = <<>> /\ homes = <<>> /\ previews = <<>>
        /\ epoch = 0 /\ source = 1 /\ lockAt = 0
        /\ DOMAIN builds = {} /\ DOMAIN homes = {} /\ DOMAIN previews = {}
    BY DEF Init, BuildsInit, HomesInit, UpdatesInit
  <1>2. JobsTyped
    BY <1>1, EmptySeq DEF JobsTyped
  <1>3. SourceFits
    BY <1>1, ServerAssumption DEF Init, SourceFits, Quota
  <1>4. QED
    BY <1>1, <1>2, <1>3 DEF Tables, JobsFit, BuildsFit, HomesFit, PreviewsFit,
       OnlyNewestRuns, KeptFit, Kept

LEMMA TablesStep == Tables /\ [Next]_vars => Tables'
  BY BuildsStep, HomesStep, PreviewsStep, SourceFitsStep
     DEF Tables, JobsTyped, JobsFit, OnlyNewestRuns

-----------------------------------------------------------------------------
(* The requests.                                                            *)

Applies == {"update-apply", "managed-apply", "home-apply"}

Request ==
  [op : Applies \cup {"none", "update-validate", "managed-validate",
                      "home-validate", "preview", "test", "commit"},
   at : {"idle", "helper", "consume", "mark", "invalidate", "verify", "commit"},
   job : Nat, intent : Nat, plan : Nat]

Intent == [kind : Kinds, job : Nat, plan : Nat]

\* A commit knows what the source was when it was requested, and once its
\* candidate is verified that this was the source at some time since.
RequestFits(r) ==
  /\ r \in Request /\ r.intent \in DOMAIN intents \cup {0}
  /\ r.op \notin Applies => r.intent = 0
  /\ r.op = "commit" =>
       /\ r.plan <= source
       /\ r.at = "commit" => r.job \in r.plan .. source

\* The request has used its confirmation up.
Past(r) == r.op \in Applies /\ r.at # "consume"

RequestsFit ==
  /\ request \in [Thread -> Request]
  /\ intents \in Seq(Intent) /\ Len(intents) <= quota.intents
  /\ open \subseteq DOMAIN intents
  /\ \A t \in Thread :
       /\ RequestFits(request[t])
       /\ Past(request[t]) =>
            request[t].intent # 0 /\ request[t].intent \notin open
  /\ \A t, u \in Thread :
       t # u /\ Past(request[t]) /\ Past(request[u])
         => request[t].intent # request[u].intent

\* What a step does to requests and confirmations: some expire, a request goes
\* on, or it is answered with a new confirmation.
RequestMove ==
  \/ UNCHANGED <<request, intents>> /\ open' \subseteq open
  \/ /\ UNCHANGED intents /\ open' \subseteq open
     /\ \E t \in Thread, r \in Request :
          /\ request' = [request EXCEPT ![t] = r] /\ RequestFits(r)
          /\ Past(r) => \/ Past(request[t]) /\ r.intent = request[t].intent
                        \/ r.intent \in open \ open'
  \/ /\ \E t \in Thread : request' = [request EXCEPT ![t] = Idle]
     /\ Len(intents) < quota.intents
     /\ \E intent \in Intent : intents' = Append(intents, intent)
     /\ open' \subseteq open \cup {Len(intents) + 1}

LEMMA IdleFits == Idle \in Request /\ RequestFits(Idle) /\ ~Past(Idle)
  BY DEF Idle, Request, RequestFits, Past, Applies

LEMMA RequestMoves ==
  ASSUME Tables, RequestsFit, [Next]_vars
  PROVE  RequestMove
  <1>1. /\ quota.threads \subseteq Thread /\ source \in Nat
        /\ \A t \in Thread : request[t] \in Request /\ RequestFits(request[t])
        /\ \A r \in Request : r.job \in Nat /\ r.plan \in Nat /\ r.intent \in Nat
        /\ DOMAIN intents \subseteq Nat
    BY ServerAssumption, LenProperties
       DEF Tables, SourceFits, Quota, RequestsFit, Request
  <1>2. /\ \A i \in DOMAIN previews : i \in Nat /\ previews[i].seen \in Nat
        /\ \A i \in DOMAIN builds : builds[i].built \in Nat
        /\ builds # <<>> => Len(builds) \in DOMAIN builds
    <2>1. /\ \A i \in DOMAIN previews : previews[i] \in PreviewJob
          /\ \A i \in DOMAIN builds : builds[i] \in BuildJob
      BY ElementOfSeq, LenProperties DEF Tables, JobsTyped
    <2>2. /\ \A job \in PreviewJob : job.seen \in Nat
          /\ \A job \in BuildJob : job.built \in Nat
      BY DEF PreviewJob, BuildJob
    <2>3. /\ \A i \in DOMAIN previews : i \in Nat
          /\ builds # <<>> => Len(builds) \in DOMAIN builds
      BY LenProperties, EmptySeq DEF Tables, JobsTyped
    <2>4. QED
      BY <2>1, <2>2, <2>3
  <1>3. ASSUME NEW t \in quota.threads, NEW r, To(t, r), UNCHANGED <<intents, open>>,
               RequestFits(r), ~Past(r)
        PROVE  RequestMove
    BY <1>1, <1>3 DEF To, RequestMove, RequestFits
  <1>4. ASSUME NEW t \in quota.threads, Reply(t), UNCHANGED <<intents, open>>
        PROVE  RequestMove
    BY <1>3, <1>4, IdleFits DEF Reply
  <1>5. CASE JobStep
    BY <1>5 DEF JobStep, Workers, PostBuild, PostHomeBuild, PostPreview,
                PostCancel, Close, requestVars, RequestMove
  <1>6. CASE Expire \/ TestEnds \/ Edit
    BY <1>6 DEF Expire, TestEnds, Edit, Confirmations, requestVars, RequestMove
  <1>7. ASSUME NEW t \in quota.threads, NEW i \in DOMAIN previews,
               UpdateValidate(t, i)
        PROVE  RequestMove
    <2> DEFINE r == [op |-> "update-validate", at |-> "helper", job |-> i,
                     intent |-> 0, plan |-> previews[i].seen]
    <2>1. To(t, r) /\ UNCHANGED <<intents, open>>
      BY <1>7 DEF UpdateValidate, Confirmations
    <2>2. RequestFits(r) /\ ~Past(r)
      BY <1>2 DEF RequestFits, Past, Request, Applies
    <2> HIDE DEF r
    <2>3. QED
      BY <1>3, <2>1, <2>2
  <1>8. ASSUME NEW t \in quota.threads, ManagedValidate(t) \/ HomeValidate(t)
        PROVE  RequestMove
    <2>1. PICK op \in {"managed-validate", "home-validate"} :
            /\ To(t, [Idle EXCEPT !.op = op, !.at = "helper", !.plan = source])
            /\ UNCHANGED <<intents, open>>
      BY <1>8 DEF ManagedValidate, HomeValidate, Confirmations
    <2> DEFINE r == [Idle EXCEPT !.op = op, !.at = "helper", !.plan = source]
    <2>2. RequestFits(r) /\ ~Past(r)
      BY <1>1 DEF RequestFits, Past, Request, Applies, Idle
    <2>3. To(t, r)
      BY <2>1
    <2> HIDE DEF r
    <2>4. QED
      BY <1>3, <2>1, <2>2, <2>3
  <1>9. ASSUME NEW t \in quota.threads,
               UpdateValidated(t) \/ ManagedValidated(t) \/ HomeValidated(t)
        PROVE  RequestMove
    <2>1. PICK kind \in Kinds :
            /\ Reply(t)
            /\ UNCHANGED <<intents, open>> \/ Confirmation(kind, request[t])
      BY <1>9 DEF UpdateValidated, ManagedValidated, HomeValidated, Validated, Kinds
    <2>2. CASE Confirmation(kind, request[t])
      <3>1. [kind |-> kind, job |-> request[t].job, plan |-> request[t].plan]
              \in Intent
        BY <1>1 DEF Intent
      <3>2. QED
        BY <1>1, <2>1, <2>2, <3>1 DEF Confirmation, Reply, To, RequestMove
    <2>3. QED
      BY <1>4, <2>1, <2>2
  <1>10. ASSUME NEW t \in quota.threads, NEW i \in DOMAIN previews,
                NEW n \in DOMAIN intents, UpdateApply(t, i, n)
         PROVE  RequestMove
    <2> DEFINE r == [op |-> "update-apply", at |-> "consume", job |-> i,
                     intent |-> n, plan |-> previews[i].seen]
    <2>1. To(t, r) /\ UNCHANGED <<intents, open>>
      BY <1>10 DEF UpdateApply, Confirmations
    <2>2. RequestFits(r) /\ ~Past(r)
      BY <1>1, <1>2 DEF RequestFits, Past, Request, Applies
    <2> HIDE DEF r
    <2>3. QED
      BY <1>3, <2>1, <2>2
  \* Only a confirmation that is open lets its request pass, and it is gone then.
  <1>11. ASSUME NEW t \in quota.threads, NEW kind, NEW r \in Request,
                Consume(t, kind, r), r.op \in Applies, RequestFits(r),
                UNCHANGED intents
         PROVE  RequestMove
    <2>1. CASE Fits(r.intent, kind, r)
      <3> DEFINE next == [r EXCEPT !.at = "helper"]
      <3>1. /\ request' = [request EXCEPT ![t] = next]
            /\ open' = open \ (OpenOf(kind) \cap {r.intent})
            /\ r.intent \in OpenOf(kind)
        BY <1>11, <2>1 DEF Consume, Fits, To
      <3>4. open' = open \ {r.intent} /\ r.intent \in open
        BY <3>1 DEF OpenOf
      <3>2. next \in Request /\ RequestFits(next) /\ next.intent = r.intent
        BY <1>11 DEF RequestFits, Request, Applies
      <3> HIDE DEF next
      <3>3. QED
        BY <1>1, <1>11, <3>1, <3>2, <3>4 DEF RequestMove
    <2>2. CASE ~Fits(r.intent, kind, r)
      BY <1>1, <1>11, <2>2, IdleFits DEF Consume, To, RequestMove
    <2>3. QED
      BY <2>1, <2>2
  <1>12. ASSUME NEW t \in quota.threads, UpdateConsume(t)
         PROVE  RequestMove
    BY <1>1, <1>11, <1>12 DEF UpdateConsume, At, Applies
  <1>13. ASSUME NEW t \in quota.threads, NEW n \in DOMAIN intents,
                ManagedApply(t, n) \/ HomeApply(t, n)
         PROVE  RequestMove
    <2>1. PICK op \in {"managed-apply", "home-apply"}, kind \in Kinds,
               p \in 1 .. source :
            /\ Consume(t, kind, [op |-> op, at |-> "consume", job |-> 0,
                                 intent |-> n, plan |-> p])
            /\ UNCHANGED intents
      BY <1>13 DEF ManagedApply, HomeApply, Kinds
    <2> DEFINE r == [op |-> op, at |-> "consume", job |-> 0, intent |-> n,
                     plan |-> p]
    <2>2. r \in Request /\ r.op \in Applies /\ RequestFits(r)
      BY <1>1 DEF Request, RequestFits, Applies
    <2>3. Consume(t, kind, r)
      BY <2>1
    <2> HIDE DEF r
    <2>4. QED
      BY <1>11, <2>1, <2>2, <2>3
  \* The request for an update goes on with what it has.
  <1>14. ASSUME NEW t \in quota.threads, NEW at \in {"mark", "invalidate"},
                At(t, "update-apply", "helper") \/ At(t, "update-apply", "mark"),
                To(t, [request[t] EXCEPT !.at = at]), UNCHANGED <<intents, open>>
         PROVE  RequestMove
    <2> DEFINE r == [request[t] EXCEPT !.at = at]
    <2>1. /\ r \in Request /\ RequestFits(r) /\ r.intent = request[t].intent
          /\ Past(request[t])
      BY <1>1, <1>14 DEF At, Request, RequestFits, Past, Applies
    <2>2. request' = [request EXCEPT ![t] = r]
      BY <1>14 DEF To
    <2> HIDE DEF r
    <2>3. QED
      BY <1>1, <1>14, <2>1, <2>2 DEF RequestMove
  <1>15. ASSUME NEW t \in quota.threads,
                UpdateWritten(t) \/ UpdateMark(t) \/ UpdateInvalidate(t)
         PROVE  RequestMove
    BY <1>4, <1>14, <1>15 DEF UpdateWritten, Written, UpdateMark, UpdateInvalidate,
                              Confirmations
  <1>16. ASSUME NEW t \in quota.threads,
                \/ ManagedWritten(t) \/ HomeWritten(t)
                \/ WriteRefused(t) \/ ActivationRefused(t)
                \/ PreviewRuns(t) \/ TestRuns(t) \/ CommitRuns(t)
         PROVE  RequestMove
    BY <1>4, <1>16 DEF ManagedWritten, HomeWritten, Written, WriteRefused,
       ActivationRefused, PreviewRuns, TestRuns, CommitRuns, Confirmations
  <1>17. ASSUME NEW t \in quota.threads,
                PostActivationPreview(t) \/ PostTest(t) \/ PostCommit(t)
         PROVE  RequestMove
    <2>1. PICK op \in {"preview", "test", "commit"} : Offer(t, op)
      BY <1>17 DEF PostActivationPreview, PostTest, PostCommit
    <2> DEFINE r == [op |-> op, at |-> "verify", job |-> Newest.built, intent |-> 0,
                     plan |-> source]
    <2>2. To(t, r) /\ UNCHANGED <<intents, open>>
      BY <2>1 DEF Offer, Confirmations
    <2>3. Newest.built \in Nat
      BY <1>2, <2>1 DEF Offer, Newest
    <2>4. RequestFits(r) /\ ~Past(r)
      BY <1>1, <2>3 DEF RequestFits, Past, Request, Applies
    <2> HIDE DEF r
    <2>5. QED
      BY <1>3, <2>2, <2>4
  <1>18. ASSUME NEW t \in quota.threads, CommitVerified(t)
         PROVE  RequestMove
    <2> DEFINE r == [request[t] EXCEPT !.at = "commit"]
    <2>1. /\ To(t, r) /\ UNCHANGED <<intents, open>>
          /\ request[t].op = "commit" /\ request[t].job = source
      BY <1>18 DEF CommitVerified, VerifiedCandidate, At, Confirmations
    <2>2. RequestFits(r) /\ ~Past(r)
      BY <1>1, <2>1 DEF RequestFits, Past, Request, Applies
    <2> HIDE DEF r
    <2>3. QED
      BY <1>3, <2>1, <2>2
  <1>19. CASE UNCHANGED vars
    BY <1>19 DEF vars, requestVars, RequestMove
  <1>20. QED
    BY <1>5, <1>6, <1>7, <1>8, <1>9, <1>10, <1>12, <1>13, <1>15, <1>16, <1>17,
       <1>18, <1>19 DEF Next, Requests, JobStep

LEMMA RequestsFitStep ==
  ASSUME Tables, RequestsFit, [Next]_vars
  PROVE  RequestsFit'
  <1>1. /\ source <= source' /\ source \in Nat /\ source' \in Nat
        /\ UNCHANGED quota /\ quota.intents \in Nat
    BY SourceFitsStep, ServerAssumption DEF Tables, SourceFits, Quota
  <1>2. /\ intents \in Seq(Intent) /\ Len(intents) \in Nat
        /\ DOMAIN intents = 1 .. Len(intents)
    BY LenProperties DEF RequestsFit
  <1>3. ASSUME NEW r, RequestFits(r), DOMAIN intents \subseteq DOMAIN intents'
        PROVE  RequestFits(r)'
    BY <1>1, <1>3 DEF RequestFits, Request
  <1>4. CASE UNCHANGED <<request, intents>> /\ open' \subseteq open
    BY <1>1, <1>3, <1>4 DEF RequestsFit
  <1>5. ASSUME UNCHANGED intents, open' \subseteq open,
               NEW t \in Thread, NEW r \in Request,
               request' = [request EXCEPT ![t] = r], RequestFits(r),
               Past(r) => \/ Past(request[t]) /\ r.intent = request[t].intent
                          \/ r.intent \in open \ open'
        PROVE  RequestsFit'
    <2>1. /\ request' \in [Thread -> Request] /\ request'[t] = r
          /\ \A u \in Thread \ {t} : request'[u] = request[u]
      BY <1>5 DEF RequestsFit
    <2>2. \A u \in Thread : RequestFits(request'[u])
      BY <1>5, <2>1 DEF RequestsFit
    <2>3. Past(r) => r.intent # 0 /\ r.intent \notin open'
      BY <1>2, <1>5 DEF RequestsFit
    <2>4. \A u \in Thread \ {t} :
            Past(request[u]) /\ Past(r) => request[u].intent # r.intent
      BY <1>5 DEF RequestsFit
    <2>5. QED
      BY <1>1, <1>2, <1>3, <1>5, <2>1, <2>2, <2>3, <2>4 DEF RequestsFit
  <1>6. ASSUME NEW t \in Thread, NEW intent \in Intent,
               request' = [request EXCEPT ![t] = Idle],
               Len(intents) < quota.intents, intents' = Append(intents, intent),
               open' \subseteq open \cup {Len(intents) + 1}
        PROVE  RequestsFit'
    <2>1. /\ intents' \in Seq(Intent) /\ Len(intents') = Len(intents) + 1
          /\ DOMAIN intents' = 1 .. Len(intents) + 1
      BY <1>2, <1>6, AppendJob
    <2>2. /\ request' \in [Thread -> Request] /\ request'[t] = Idle
          /\ \A u \in Thread \ {t} : request'[u] = request[u]
      BY <1>6, IdleFits DEF RequestsFit
    <2>3. \A u \in Thread : RequestFits(request'[u])
      BY <2>2, IdleFits DEF RequestsFit
    <2>4. \A u \in Thread \ {t} : Past(request[u]) => request[u].intent \notin open'
      BY <1>2, <1>6 DEF RequestsFit, RequestFits
    <2>5. QED
      BY <1>1, <1>2, <1>3, <1>6, <2>1, <2>2, <2>3, <2>4, IdleFits DEF RequestsFit
  <1>7. QED
    BY <1>4, <1>5, <1>6, RequestMoves DEF RequestMove

-----------------------------------------------------------------------------
(* The theorems.                                                            *)

Inductive == Tables /\ RequestsFit

\* Jobs, confirmations and requests fit together in every reachable state of the
\* server.
THEOREM ServerFits == Spec => []Inductive
  <1>1. Init => Inductive
    <2>1. Init => RequestsFit
      <3> SUFFICES ASSUME Init
                   PROVE  RequestsFit
        OBVIOUS
      <3>1. /\ request = [t \in Thread |-> Idle] /\ intents = <<>> /\ open = {}
            /\ quota.intents \in Nat
        BY ServerAssumption DEF Init, Quota
      <3>2. \A t \in Thread : request[t] = Idle
        BY <3>1
      <3>3. intents \in Seq(Intent) /\ Len(intents) = 0
        BY <3>1, EmptySeq
      <3>4. QED
        BY <3>1, <3>2, <3>3, IdleFits DEF RequestsFit
    <2>2. QED
      BY <2>1, TablesInit DEF Inductive
  <1>2. Inductive /\ [Next]_vars => Inductive'
    BY TablesStep, RequestsFitStep DEF Inductive
  <1>3. QED
    BY <1>1, <1>2, PTL DEF Spec

\* Whatever a worker writes after invalidate(), it does not make a build of an
\* earlier epoch look like a good one.
THEOREM StaleStaysStale == Spec => []StaleIsNeverReady
  <1>1. Inductive => StaleIsNeverReady
    <2> SUFFICES ASSUME Inductive, NEW i \in Kept(builds), Ready(builds[i]),
                        builds[i].epoch # epoch
                 PROVE  FALSE
      BY DEF StaleIsNeverReady
    <2>1. BuildFits(builds[i], epoch) /\ Spoilt(builds[i])
      BY DEF Inductive, Tables, JobsFit, BuildsFit, KeptFit, Kept
    <2>2. QED
      BY <2>1 DEF BuildFits, Spoilt, Ready, Active, Over
  <1>2. QED
    BY <1>1, ServerFits, PTL

\* A build of the source before a lock update is ready only while the
\* invalidate() for that update is owed.
THEOREM OldLocksAreRevoked == Spec => []OldLockNotReady
  <1>1. Inductive => OldLockNotReady
    <2> SUFFICES ASSUME Inductive, NEW i \in Kept(builds), Ready(builds[i]),
                        builds[i].built < lockAt, owed # TRUE
                 PROVE  FALSE
      BY DEF OldLockNotReady
    <2>1. /\ BuildFits(builds[i], epoch) /\ builds[i] \in BuildJob
          /\ builds[i].epoch # epoch => Spoilt(builds[i])
          /\ builds[i].epoch = epoch => Recent(builds[i], lockAt)
          /\ source \in Nat /\ lockAt \in 0 .. source
      <3>1. builds[i] \in BuildJob
        BY ElementOfSeq, LenProperties DEF Inductive, Tables, JobsTyped, Kept
      <3>2. source \in Nat /\ lockAt \in 0 .. source
        BY ServerAssumption DEF Inductive, Tables, SourceFits, Quota
      <3>3. QED
        BY <3>1, <3>2 DEF Inductive, Tables, JobsFit, BuildsFit, KeptFit, Kept
    <2>2. CASE builds[i].epoch # epoch
      BY <2>1, <2>2 DEF BuildFits, Spoilt, Ready, Active, Over
    <2>3. CASE builds[i].epoch = epoch
      <3>1. builds[i].built \in Nat
        BY <2>1 DEF BuildJob
      <3>2. ~(builds[i].built >= lockAt)
        BY <2>1, <3>1
      <3>3. builds[i].at \notin Over
        BY <2>1, <2>3, <3>2 DEF Recent, Ready, Over
      <3>4. QED
        BY <2>1, <3>3 DEF BuildFits, Ready, Active
    <2>4. QED
      BY <2>2, <2>3
  <1>2. QED
    BY <1>1, ServerFits, PTL

\* Two builds of one epoch, two builds of homes and two previews are never under
\* way together, whoever wrote over the status that start() looks at.
THEOREM JobsExclude == Spec => []OneJobAtATime
  <1>1. Inductive => OneJobAtATime
    BY DEF Inductive, Tables, OnlyNewestRuns, OneJobAtATime
  <1>2. QED
    BY <1>1, ServerFits, PTL

\* A build whose time is up ends with another status than that of a success.
THEOREM TimeOutsFail == Spec => []TimedOutFails
  <1>1. Inductive => TimedOutFails
    BY DEF Inductive, Tables, JobsFit, BuildsFit, HomesFit, BuildFits, HomeFits,
           Good, TimedOutFails
  <1>2. QED
    BY <1>1, ServerFits, PTL

\* Of the requests with one confirmation one gets through.
THEOREM ConfirmationsAreSpent == Spec => []ConfirmedOnce
  <1>1. Inductive => ConfirmedOnce
    <2> SUFFICES ASSUME Inductive, NEW t \in Thread, Past(request[t])
                 PROVE  /\ request[t].intent \notin open
                        /\ \A u \in Thread \ {t} :
                             request[u].intent = request[t].intent
                               => request[u].at = "consume"
      BY DEF ConfirmedOnce, Past, Applies
    <2>1. /\ request[t].intent # 0 /\ request[t].intent \notin open
          /\ \A u \in Thread \ {t} :
               /\ request[u].op \notin Applies => request[u].intent = 0
               /\ Past(request[u]) => request[t].intent # request[u].intent
      BY DEF Inductive, RequestsFit, RequestFits
    <2>2. QED
      BY <2>1 DEF Past
  <1>2. QED
    BY <1>1, ServerFits, PTL

\* A commit is of what the source evaluated to at some time since its request.
THEOREM CommitsAreCurrent == Spec => CommitsCurrentSource
  <1> DEFINE Current ==
        committed' # committed =>
          committed'.version \in committed'.asked .. source
  <1>1. ASSUME Inductive, Next
        PROVE  Current
    <2>1. CASE JobStep
      BY <2>1 DEF JobStep, Workers, PostBuild, PostHomeBuild, PostPreview,
                  PostCancel, Close, requestVars, activationVars
    <2>2. CASE Expire \/ TestEnds \/ Edit
      BY <2>2 DEF Expire, TestEnds, Edit, requestVars, activationVars
    <2>3. ASSUME NEW t \in quota.threads,
                 \/ \E i \in DOMAIN previews : UpdateValidate(t, i)
                 \/ ManagedValidate(t) \/ HomeValidate(t)
                 \/ UpdateValidated(t) \/ ManagedValidated(t) \/ HomeValidated(t)
                 \/ \E i \in DOMAIN previews, n \in DOMAIN intents :
                      UpdateApply(t, i, n)
                 \/ UpdateConsume(t) \/ UpdateWritten(t) \/ UpdateMark(t)
                 \/ UpdateInvalidate(t)
                 \/ \E n \in DOMAIN intents : ManagedApply(t, n) \/ HomeApply(t, n)
                 \/ ManagedWritten(t) \/ HomeWritten(t) \/ WriteRefused(t)
          PROVE  Current
      BY <2>3 DEF UpdateValidate, ManagedValidate, HomeValidate, UpdateValidated,
         ManagedValidated, HomeValidated, Validated, UpdateApply, UpdateConsume,
         UpdateWritten, UpdateMark, UpdateInvalidate, ManagedApply, HomeApply,
         ManagedWritten, HomeWritten, WriteRefused, activationVars
    <2>4. ASSUME NEW t \in quota.threads,
                 \/ PostActivationPreview(t) \/ PreviewRuns(t)
                 \/ PostTest(t) \/ TestRuns(t)
                 \/ PostCommit(t) \/ CommitVerified(t) \/ ActivationRefused(t)
          PROVE  Current
      BY <2>4 DEF PostActivationPreview, PreviewRuns, PostTest, TestRuns,
         PostCommit, Offer, CommitVerified, ActivationRefused, activationVars
    <2>5. ASSUME NEW t \in quota.threads, CommitRuns(t)
          PROVE  Current
      <3>1. t \in Thread
        BY <1>1, ServerAssumption DEF Inductive, Tables, SourceFits, Quota
      <3>2. RequestFits(request[t])
        BY <1>1, <3>1 DEF Inductive, RequestsFit
      <3>3. /\ committed'.version = request[t].job
            /\ committed'.asked = request[t].plan
            /\ request[t].op = "commit" /\ request[t].at = "commit"
        BY <2>5 DEF CommitRuns, At
      <3>4. QED
        BY <3>2, <3>3 DEF RequestFits
    <2>6. QED
      BY <1>1, <2>1, <2>2, <2>3, <2>4, <2>5 DEF Next, Requests, JobStep
  <1>2. Inductive /\ [Next]_vars => [Current]_vars
    BY <1>1
  <1>3. QED
    BY <1>2, ServerFits, PTL DEF Spec, CommitsCurrentSource

\* Every variable of the server keeps its type.
THEOREM TypeCorrect == Spec => []TypeOK
  <1>1. Inductive => TypeOK
    <2> SUFFICES ASSUME Inductive
                 PROVE  TypeOK
      OBVIOUS
    <2>1. /\ quota \in Quotas /\ source \in 1 .. quota.versions
          /\ lockAt \in 0 .. source /\ source \in Nat /\ epoch \in Nat
      BY ServerAssumption DEF Inductive, Tables, SourceFits, JobsTyped, Quota
    <2>2. ASSUME NEW i \in DOMAIN builds
          PROVE  /\ builds[i].status \in Active \cup Terminal
                 /\ builds[i].verdict \in {"passed", "failed", "cancelled"}
                 /\ builds[i].epoch \in 0 .. epoch /\ builds[i].built \in 0 .. source
                 /\ builds[i].at = "done" => builds[i].status \in Terminal
      <3>1. builds[i] \in BuildJob
        BY ElementOfSeq, LenProperties DEF Inductive, Tables, JobsTyped
      <3>2. /\ BuildFits(builds[i], epoch)
            /\ builds[i].epoch <= epoch /\ builds[i].built <= source
        BY DEF Inductive, Tables, JobsFit, BuildsFit
      <3>3. QED
        BY <2>1, <3>1, <3>2 DEF BuildJob, BuildFits
    <2>3. ASSUME NEW i \in DOMAIN homes
          PROVE  /\ homes[i].status \in Active \cup Terminal
                 /\ homes[i].at = "done" => homes[i].status \in Terminal
      <3>1. homes[i] \in HomeJob
        BY ElementOfSeq, LenProperties DEF Inductive, Tables, JobsTyped
      <3>2. QED
        BY <3>1 DEF HomeJob, Inductive, Tables, JobsFit, HomesFit, HomeFits
    <2>4. ASSUME NEW i \in DOMAIN previews
          PROVE  /\ previews[i].status \in Active \cup Terminal
                 /\ previews[i].at = "done" => previews[i].status \in Terminal
                 /\ previews[i].seen \in 0 .. source
      <3>1. previews[i] \in PreviewJob
        BY ElementOfSeq, LenProperties DEF Inductive, Tables, JobsTyped
      <3>2. PreviewFits(previews[i]) /\ previews[i].seen <= source
        BY DEF Inductive, Tables, JobsFit, PreviewsFit
      <3>3. QED
        BY <2>1, <3>1, <3>2 DEF PreviewJob, PreviewFits
    <2>5. /\ open \subseteq DOMAIN intents /\ Len(intents) <= quota.intents
          /\ \A t \in Thread : request[t].intent \in DOMAIN intents \cup {0}
      BY DEF Inductive, RequestsFit, RequestFits
    <2>6. QED
      BY <2>1, <2>2, <2>3, <2>4, <2>5 DEF TypeOK
  <1>2. QED
    BY <1>1, ServerFits, PTL
=============================================================================
