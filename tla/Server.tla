------------------------------- MODULE Server -------------------------------
(***************************************************************************)
(* The local server (server.py) and the three job managers it owns: every    *)
(* request is answered by a thread of its own, jobs have worker threads, and  *)
(* they meet at the locks of the managers and of the tables of confirmations. *)
(*                                                                          *)
(* A write takes two requests.  The first validates a plan with the helper    *)
(* and keeps the helper's receipt behind a confirmation ("intent"); the       *)
(* second uses the confirmation up and has the helper apply the plan.  Only   *)
(* the update of the lock file revokes the builds made so far.                *)
(*                                                                          *)
(* A system is activated in three requests: a dry activation of the newest    *)
(* build, a test for which that gave a receipt, and the commit of the tested  *)
(* system.                                                                  *)
(*                                                                          *)
(* The helper is modelled by what its answers say (ui_helper.py): it          *)
(* validates and writes nothing but the source that it finds on disk          *)
(* (modules Helper and Transaction), and its answer may be lost.  One version *)
(* number stands for the source of the system and of the home, which the      *)
(* system's may contain.                                                    *)
(*                                                                          *)
(* An operator whose name has an underscore is a slip that the code could     *)
(* have had in place of the definition that follows it.  None is reachable    *)
(* from Spec.                                                               *)
(***************************************************************************)
EXTENDS Builds, HomeBuilds, Updates, FiniteSets

CONSTANTS
  Thread,      \* request threads at one time
  Capacity,    \* confirmations kept for managed and Home Manager plans (64)
  Quotas       \* bounds: how much of everything there is in one behaviour

\* The workflows that ask for confirmations, and the one that activates.
Kinds == {"update", "managed", "home", "activation"}

Quota == [builds : Nat, homes : Nat, previews : Nat, intents : Nat,
          versions : Nat \ {0}, threads : SUBSET Thread, kinds : SUBSET Kinds,
          faults : BOOLEAN, cancel : BOOLEAN, close : BOOLEAN]

ASSUME ServerAssumption == Capacity \in Nat \ {0} /\ Quotas \subseteq Quota

VARIABLES
  quota,     \* the bounds of this behaviour, one of Quotas
  request,   \* what each thread is doing
  intents,   \* history: what each confirmation was given for
  open,      \* the confirmations that can still be used
  lockAt,    \* history: the version that the last lock update wrote
  owed,      \* history: that update was not followed by an invalidate()
  dryRun,    \* versions for which the helper has a test receipt
  session,   \* the version under test, 0 if none
  committed  \* history: the last commit, and the version at its request

activationVars == <<dryRun, session, committed>>
requestVars == <<quota, request, intents, open, lockAt, owed, activationVars>>
vars == <<source, buildVars, homeVars, previewVars, requestVars>>

Idle == [op |-> "none", at |-> "idle", job |-> 0, intent |-> 0, plan |-> 0]

Init ==
  /\ quota \in Quotas
  /\ source = 1
  /\ BuildsInit /\ HomesInit /\ UpdatesInit
  /\ request = [t \in Thread |-> Idle]
  /\ intents = <<>> /\ open = {}
  /\ lockAt = 0 /\ owed = FALSE
  /\ dryRun = {} /\ session = 0 /\ committed = [version |-> 0, asked |-> 0]

-----------------------------------------------------------------------------
(* Requests that one call of a manager answers.                             *)
PostBuild ==
  /\ Len(builds) < quota.builds /\ StartBuild
  /\ UNCHANGED <<source, homeVars, previewVars, requestVars>>

PostHomeBuild ==
  /\ Len(homes) < quota.homes /\ StartHome
  /\ UNCHANGED <<source, buildVars, previewVars, requestVars>>

PostPreview ==
  /\ Len(previews) < quota.previews /\ StartPreview
  /\ UNCHANGED <<source, buildVars, homeVars, requestVars>>

PostCancel ==
  /\ quota.cancel
  /\ \/ /\ \E i \in DOMAIN builds : CancelBuild(i)
        /\ UNCHANGED <<source, homeVars, previewVars, requestVars>>
     \/ /\ \E i \in DOMAIN homes : CancelHome(i)
        /\ UNCHANGED <<source, buildVars, previewVars, requestVars>>
     \/ /\ \E i \in DOMAIN previews : CancelPreview(i)
        /\ UNCHANGED <<source, buildVars, homeVars, requestVars>>

\* server_close: the managers one after the other, while threads go on.
Close ==
  /\ quota.close
  /\ \/ CloseBuilds /\ UNCHANGED <<source, homeVars, previewVars, requestVars>>
     \/ /\ buildsClosed /\ CloseHomes
        /\ UNCHANGED <<source, buildVars, previewVars, requestVars>>
     \/ /\ homesClosed /\ ClosePreviews
        /\ UNCHANGED <<source, buildVars, homeVars, requestVars>>

-----------------------------------------------------------------------------
(* Confirmations.                                                           *)
OpenOf(kind) == {i \in open : intents[i].kind = kind}

\* The table of a workflow is full; the one for lock updates has no limit.
Full(kind) == kind # "update" /\ Cardinality(OpenOf(kind)) >= Capacity

\* From a full table the confirmation goes that expires first.  Each lives as
\* long as the helper's answer said: that may be any of them.
Confirmation(kind, r) ==
  /\ Len(intents) < quota.intents
  /\ intents' = Append(intents, [kind |-> kind, job |-> r.job, plan |-> r.plan])
  /\ \E evicted \in IF Full(kind) THEN {{i} : i \in OpenOf(kind)} ELSE {{}} :
       open' = (open \ evicted) \cup {Len(intents) + 1}

Expire ==
  \E i \in open : /\ open' = open \ {i}
                  /\ UNCHANGED <<source, buildVars, homeVars, previewVars,
                                 quota, request, intents, lockAt, owed,
                                 activationVars>>

Fits(n, kind, r) ==
  n \in OpenOf(kind) /\ intents[n].job = r.job /\ intents[n].plan = r.plan

-----------------------------------------------------------------------------
(* Requests that take several steps.                                        *)
To(t, r) == request' = [request EXCEPT ![t] = r] /\ UNCHANGED quota

Reply(t) == To(t, Idle)

At(t, op, at) == request[t].op = op /\ request[t].at = at

Quiet == UNCHANGED <<source, buildVars, homeVars, previewVars>>

Confirmations == <<intents, open, lockAt, owed>>

\* /api/flakes/update-validate
UpdateValidate(t, i) ==
  /\ request[t] = Idle /\ "update" \in quota.kinds /\ Applicable(i)
  /\ To(t, [op |-> "update-validate", at |-> "helper", job |-> i, intent |-> 0,
            plan |-> previews[i].seen])
  /\ Quiet /\ UNCHANGED <<Confirmations, activationVars>>

\* /api/helper/managed/validate and /api/helper/home-manager/validate
ManagedValidate(t) ==
  /\ request[t] = Idle /\ "managed" \in quota.kinds
  /\ To(t, [Idle EXCEPT !.op = "managed-validate", !.at = "helper",
                        !.plan = source])
  /\ Quiet /\ UNCHANGED <<Confirmations, activationVars>>

HomeValidate(t) ==
  /\ request[t] = Idle /\ "home" \in quota.kinds
  /\ To(t, [Idle EXCEPT !.op = "home-validate", !.at = "helper",
                        !.plan = source])
  /\ Quiet /\ UNCHANGED <<Confirmations, activationVars>>

\* The helper validates the plan of the source that it finds, or says no.
Validated(t, op, kind) ==
  /\ At(t, op, "helper")
  /\ \/ UNCHANGED <<intents, open>>
     \/ /\ request[t].plan = source
        /\ Confirmation(kind, request[t])
  /\ Reply(t)
  /\ Quiet /\ UNCHANGED <<lockAt, owed, activationVars>>

UpdateValidated(t) == Validated(t, "update-validate", "update")

ManagedValidated(t) == Validated(t, "managed-validate", "managed")

HomeValidated(t) == Validated(t, "home-validate", "home")

\* Slip: the confirmation is looked up, and removed after the apply.
Consume_Keeps(t, kind, r) ==
  /\ To(t, IF Fits(r.intent, kind, r) THEN [r EXCEPT !.at = "helper"] ELSE Idle)
  /\ open' = open

\* A confirmation is used up even by a request that it does not fit, of the
\* same workflow: each has a table of its own.
Consume(t, kind, r) ==
  /\ To(t, IF Fits(r.intent, kind, r) THEN [r EXCEPT !.at = "helper"] ELSE Idle)
  /\ open' = open \ (OpenOf(kind) \cap {r.intent})

\* /api/flakes/update-apply: the preview is looked at again, ...
UpdateApply(t, i, n) ==
  /\ request[t] = Idle /\ "update" \in quota.kinds /\ Applicable(i)
  /\ To(t, [op |-> "update-apply", at |-> "consume", job |-> i, intent |-> n,
            plan |-> previews[i].seen])
  /\ Quiet /\ UNCHANGED <<Confirmations, activationVars>>

\* ... the confirmation is used up, ...
UpdateConsume(t) ==
  /\ At(t, "update-apply", "consume")
  /\ Consume(t, "update", request[t])
  /\ Quiet /\ UNCHANGED <<intents, lockAt, owed, activationVars>>

\* The helper writes what was validated, if the source is still the same.
Written(t) ==
  /\ source = request[t].plan /\ source < quota.versions
  /\ source' = source + 1
  /\ UNCHANGED <<buildVars, homeVars, previewVars, intents, open>>

\* ... the helper writes the lock, or refuses; its answer may not come, ...
UpdateWritten(t) ==
  /\ At(t, "update-apply", "helper")
  /\ Written(t)
  /\ lockAt' = source' /\ owed' = TRUE /\ UNCHANGED activationVars
  /\ \/ To(t, [request[t] EXCEPT !.at = "mark"])
     \/ Reply(t)

WriteRefused(t) ==
  /\ request[t].at = "helper"
  /\ request[t].op \in {"update-apply", "managed-apply", "home-apply"}
  /\ Reply(t)
  /\ Quiet /\ UNCHANGED <<Confirmations, activationVars>>

\* ... the preview is marked, unless it is no longer known, ...
UpdateMark(t) ==
  /\ At(t, "update-apply", "mark")
  /\ \/ /\ Markable(request[t].job) /\ MarkApplied(request[t].job)
        /\ To(t, [request[t] EXCEPT !.at = "invalidate"])
     \/ /\ ~Markable(request[t].job)
        /\ Reply(t)
        /\ UNCHANGED previewVars
  /\ UNCHANGED <<source, buildVars, homeVars, Confirmations, activationVars>>

\* ... and the builds made so far are revoked.
UpdateInvalidate(t) ==
  /\ At(t, "update-apply", "invalidate")
  /\ Invalidate
  /\ owed' = FALSE
  /\ Reply(t)
  /\ UNCHANGED <<source, homeVars, previewVars, intents, open, lockAt,
                 activationVars>>

\* /api/helper/managed/apply and /api/helper/home-manager/apply; the request
\* says which confirmation it has, and for which plan.
ManagedApply(t, n) ==
  /\ request[t] = Idle /\ "managed" \in quota.kinds
  /\ \E p \in 1..source :
       Consume(t, "managed", [op |-> "managed-apply", at |-> "consume", job |-> 0,
                              intent |-> n, plan |-> p])
  /\ Quiet /\ UNCHANGED <<intents, lockAt, owed, activationVars>>

HomeApply(t, n) ==
  /\ request[t] = Idle /\ "home" \in quota.kinds
  /\ \E p \in 1..source :
       Consume(t, "home", [op |-> "home-apply", at |-> "consume", job |-> 0,
                           intent |-> n, plan |-> p])
  /\ Quiet /\ UNCHANGED <<intents, lockAt, owed, activationVars>>

\* No build is revoked.
ManagedWritten(t) ==
  /\ At(t, "managed-apply", "helper")
  /\ Written(t)
  /\ Reply(t)
  /\ UNCHANGED <<lockAt, owed, activationVars>>

HomeWritten(t) ==
  /\ At(t, "home-apply", "helper")
  /\ Written(t)
  /\ Reply(t)
  /\ UNCHANGED <<lockAt, owed, activationVars>>

-----------------------------------------------------------------------------
(* Activation.  Each request takes the newest build, if it is ready.         *)
Newest == builds[Len(builds)]

Offer(t, op) ==
  /\ request[t] = Idle /\ "activation" \in quota.kinds
  /\ builds # <<>> /\ Ready(Newest)
  /\ To(t, [op |-> op, at |-> "verify", job |-> Newest.built, intent |-> 0,
            plan |-> source])
  /\ Quiet /\ UNCHANGED <<Confirmations, activationVars>>

\* /api/helper/activation-preview, test-activation, commit-tested-system
PostActivationPreview(t) == Offer(t, "preview")

PostTest(t) == Offer(t, "test")

PostCommit(t) == Offer(t, "commit")

\* _verified_candidate: what the source evaluates to now is what was built.
\* Slip: the path is taken from the request.
VerifiedCandidate_Trusted(v) == v \in 1..source

VerifiedCandidate(v) == v = source

PreviewRuns(t) ==
  /\ At(t, "preview", "verify")
  /\ VerifiedCandidate(request[t].job)
  /\ dryRun' = dryRun \cup {request[t].job}
  /\ Reply(t)
  /\ Quiet /\ UNCHANGED <<Confirmations, session, committed>>

\* The receipt is used up, whatever comes of the test.  No test starts when
\* the source evaluates to something else by now, or another session is open.
TestRuns(t) ==
  /\ At(t, "test", "verify")
  /\ request[t].job \in dryRun
  /\ dryRun' = dryRun \ {request[t].job}
  /\ session' \in IF session = 0 /\ VerifiedCandidate(request[t].job)
                  THEN {0, request[t].job} ELSE {session}
  /\ Reply(t)
  /\ Quiet /\ UNCHANGED <<Confirmations, committed>>

CommitVerified(t) ==
  /\ At(t, "commit", "verify")
  /\ VerifiedCandidate(request[t].job)
  /\ To(t, [request[t] EXCEPT !.at = "commit"])
  /\ Quiet /\ UNCHANGED <<Confirmations, activationVars>>

\* The session is looked at after the evaluation, which takes its time.
CommitRuns(t) ==
  /\ At(t, "commit", "commit")
  /\ session = request[t].job
  /\ session' = 0
  /\ committed' = [version |-> request[t].job, asked |-> request[t].plan]
  /\ Reply(t)
  /\ Quiet /\ UNCHANGED <<Confirmations, dryRun>>

ActivationRefused(t) ==
  /\ request[t].at \in {"verify", "commit"}
  /\ Reply(t)
  /\ Quiet /\ UNCHANGED <<Confirmations, activationVars>>

\* A session is recovered, a receipt expires.
TestEnds ==
  /\ \/ session # 0 /\ session' = 0 /\ UNCHANGED dryRun
     \/ dryRun # {} /\ dryRun' = {} /\ UNCHANGED session
  /\ UNCHANGED <<source, buildVars, homeVars, previewVars, quota, request,
                 Confirmations, committed>>

\* Somebody edits the source.
Edit ==
  /\ source < quota.versions
  /\ source' = source + 1
  /\ UNCHANGED <<buildVars, homeVars, previewVars, requestVars>>

-----------------------------------------------------------------------------
Workers ==
  \/ /\ \E i \in DOMAIN builds :
          BuildStep(i) \/ (quota.faults /\ BuildFault(i))
     /\ UNCHANGED <<source, homeVars, previewVars, requestVars>>
  \/ /\ \E i \in DOMAIN homes :
          HomeStep(i) \/ (quota.faults /\ HomeFault(i))
     /\ UNCHANGED <<source, buildVars, previewVars, requestVars>>
  \/ /\ \E i \in DOMAIN previews :
          PreviewStep(i) \/ (quota.faults /\ PreviewFault(i))
     /\ UNCHANGED <<source, buildVars, homeVars, requestVars>>

Requests ==
  \/ PostBuild \/ PostHomeBuild \/ PostPreview \/ PostCancel
  \/ \E t \in quota.threads :
       \/ \E i \in DOMAIN previews : UpdateValidate(t, i)
       \/ ManagedValidate(t) \/ HomeValidate(t)
       \/ UpdateValidated(t) \/ ManagedValidated(t) \/ HomeValidated(t)
       \/ \E i \in DOMAIN previews, n \in DOMAIN intents : UpdateApply(t, i, n)
       \/ UpdateConsume(t) \/ UpdateWritten(t) \/ UpdateMark(t)
       \/ UpdateInvalidate(t)
       \/ \E n \in DOMAIN intents : ManagedApply(t, n) \/ HomeApply(t, n)
       \/ ManagedWritten(t) \/ HomeWritten(t) \/ WriteRefused(t)
       \/ PostActivationPreview(t) \/ PreviewRuns(t)
       \/ PostTest(t) \/ TestRuns(t)
       \/ PostCommit(t) \/ CommitVerified(t) \/ CommitRuns(t)
       \/ ActivationRefused(t)

Next == Workers \/ Requests \/ Expire \/ TestEnds \/ Edit \/ Close

Spec == Init /\ [][Next]_vars

\* Some worker thread or timer goes on, as long as there is one that can.
Progress ==
  \/ /\ \E i \in DOMAIN builds : BuildProgress(i)
     /\ UNCHANGED <<source, homeVars, previewVars, requestVars>>
  \/ /\ \E i \in DOMAIN homes : HomeProgress(i)
     /\ UNCHANGED <<source, buildVars, previewVars, requestVars>>
  \/ /\ \E i \in DOMAIN previews : PreviewProgress(i)
     /\ UNCHANGED <<source, buildVars, homeVars, requestVars>>

FairSpec == Spec /\ WF_vars(Progress)

-----------------------------------------------------------------------------
(* Properties.                                                              *)
\* The types of the variables.
TypeOK ==
  /\ quota \in Quotas
  /\ source \in 1..quota.versions /\ lockAt \in 0..source
  /\ \A i \in DOMAIN builds :
       /\ builds[i].status \in Active \cup Terminal
       /\ builds[i].verdict \in {"passed", "failed", "cancelled"}
       /\ builds[i].epoch \in 0..epoch /\ builds[i].built \in 0..source
       /\ builds[i].at = "done" => builds[i].status \in Terminal
  /\ \A i \in DOMAIN homes :
       /\ homes[i].status \in Active \cup Terminal
       /\ homes[i].at = "done" => homes[i].status \in Terminal
  /\ \A i \in DOMAIN previews :
       /\ previews[i].status \in Active \cup Terminal
       /\ previews[i].at = "done" => previews[i].status \in Terminal
       /\ previews[i].seen \in 0..source
  /\ open \subseteq DOMAIN intents /\ Len(intents) <= quota.intents
  /\ \A t \in Thread : request[t].intent \in DOMAIN intents \cup {0}

\* A build that is offered for a dry activation, a test or a commit belongs to
\* the current epoch: although its worker writes its status and its outputs
\* after invalidate() did, and looks at the epoch only when it ends, at no
\* instant do they together make a revoked build look like a good one.
StaleIsNeverReady ==
  \A i \in Kept(builds) : Ready(builds[i]) => builds[i].epoch = epoch

\* A build of a source that had another lock file is ready only until the
\* request that had the lock written has come to its invalidate(): or for good,
\* if the helper's answer did not reach it ("A committed lock write marks every
\* older build stale", README.md, is true only of writes that are known).
OldLockNotReady ==
  \A i \in Kept(builds) :
    Ready(builds[i]) /\ builds[i].built < lockAt => owed

\* No two builds of one epoch are under way ("Own one unprivileged, disposable
\* NixOS candidate build at a time"): a second one can be started only when
\* invalidate() has called the first one stale, although everybody writes over
\* the status that start() looks at.  Of the other jobs there is one at all.
OneJobAtATime ==
  /\ \A i, j \in DOMAIN builds :
       builds[i].at \notin Over /\ builds[j].at \notin Over /\ i # j
         => builds[i].epoch # builds[j].epoch
  /\ \A i, j \in DOMAIN homes :
       homes[i].at \notin Over /\ homes[j].at \notin Over => i = j
  /\ \A i, j \in DOMAIN previews :
       previews[i].at # "done" /\ previews[j].at # "done" => i = j

\* A build that has exceeded its time does not pass, even if its process ends
\* well at the last moment or the timer comes while its closure is compared.
\* It cannot be said of previews: a timer that waits for the lock when Nix ends
\* may mark a preview as timed out that then passes (AnalyzeUpdate).
TimedOutFails ==
  /\ \A i \in DOMAIN builds :
       builds[i].timedOut => builds[i].status \notin {"passed", "no-change"}
  /\ \A i \in DOMAIN homes : homes[i].timedOut => homes[i].status # "passed"

\* A confirmation is used once, also when two requests bring it at one time:
\* whoever is past it, nobody else is, and it is gone.
ConfirmedOnce ==
  \A t \in Thread :
    /\ request[t].op \in {"update-apply", "managed-apply", "home-apply"}
    /\ request[t].at # "consume"
    => /\ request[t].intent \notin open
       /\ \A u \in Thread \ {t} :
            request[u].intent = request[t].intent => request[u].at = "consume"

\* What is committed is what the source evaluated to at some time since the
\* commit was requested: the source may have been replaced while the test ran,
\* and neither the newest build nor the session knows; the commit of such a
\* test is refused.
CommitsCurrentSource ==
  [][committed' # committed => committed'.version \in committed'.asked .. source]_vars

\* Every job ends, also when Nix does not: its timer comes, and what has been
\* cancelled, for whatever reason, is killed.  (There are finitely many jobs.)
JobsEnd ==
  []<>(/\ \A i \in DOMAIN builds : builds[i].at = "done"
       /\ \A i \in DOMAIN homes : homes[i].at = "done"
       /\ \A i \in DOMAIN previews : previews[i].at = "done")
=============================================================================
