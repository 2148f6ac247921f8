# NixOS Control Manager: specifications and proofs

TLA+ models of the parts of NixOS Control Manager (NCM) that change a machine:
the journalled file transactions that write `/etc/nixos` and the Home Manager
sources, the activation sessions that test, recover, commit and roll back
system closures, the privileged helper with its targets, receipts and
authorization, and the local server with its build and preview jobs and its
confirmations. TLC checks the models on small instances; TLAPS proves the
central invariants for every value of the constants.

## 1. The system

NCM is a Python program of three processes and a browser:

| Process | Source | State it keeps |
|---|---|---|
| browser | `web/*.js` | what it displays |
| local server, unprivileged, threads | `server.py`, `ui_helper.py`, `candidate_build.py`, `flake_update_preview.py` | build jobs, preview jobs, apply intents |
| helper daemon, root, one request at a time | `helper_daemon.py`, `helper_transport.py`, `helper_service.py`, the backends | receipts, prepared plans |
| transient systemd units | `activation_session.py` (`recovery_main`, `transition_main`), `switch-to-configuration` | the session journal, the system links |

On disk: the configuration files; one journal directory per transaction with
`manifest.json`, backups and a `transaction.lock`; one JSON file per activation
session with a lock file; `/run/current-system` and
`/nix/var/nix/profiles/system`.

### Inventory

| Component | State | Operations | Hard because | Must hold | Here |
|---|---|---|---|---|---|
| Transaction engine, `transaction.py` | files, directories, stages, backups, manifest, lock | apply, finalize, roll back, recover | crash between any two writes; edits from outside; lock released while Nix evaluates | originals recoverable at every instant; final states true and final; no edit overwritten | `Transaction`, `TransactionProofs`, `RefinementProofs`, `DirectoryProofs` |
| Apply workflows, `*_apply_workflow.py`, `flake_lock_helper_backend.py` | phase of one request | apply, evaluate, finalize or roll back | a recovery or another request in the meantime | a request ends; commit only after the second evaluation | `Transaction` |
| Activation sessions, `activation_session.py` | session journal, links | recover, commit, roll back, compensate | commands that fail after they took effect; late units; reboots; links that nothing locks | only tested closures are booted; final states agree with the links | `Activation`, `ActivationProofs`, `QuietProofs` |
| Live backend, `live_read_only_backend.py` | request phase, timer | test, recover now, schedule transition | blind writes of remembered sessions; lost answers | a candidate starts alone; timer armed before the candidate runs | `Activation` |
| Dispatcher and receipts, `helper_service.py` | five receipt tables | validate, apply, preview, test, recover, commit, status | receipts and prepared plans live in different objects; expiry while Polkit asks; restart | privileged work is what this request was granted; a receipt is used once, for its own plan | `Gates`, `Helper`, `HelperProofs` |
| Plan backends, `*_helper_backend.py` | prepared plans | validate, apply, discard | one entry for equal plans, two layers of routing | a live receipt has its plan, no plan outlives its receipts | `Helper` (writes: `Transaction`) |
| Authorizer, `polkit_authorizer.py` | none | authorize | four lists of actions in four places | who is denied was asked about | `Helper` |
| Transport, `helper_transport.py`, `helper_protocol.py` | one connection | accept, read, answer | the caller gives up, the request goes on; a silent peer | the daemon goes on serving | `Helper` |
| Target configuration, `helper_daemon.py`, `HelperTarget` | none | load, seven schemas | loaders that chain into each other, a dozen flags | the mode decides what may be written; journals lie apart | `Targets`, `Gates`, `TargetsProofs` |
| Build managers, `candidate_build.py` | jobs, active job, source epoch | start, cancel, invalidate, close | worker thread, timer and HTTP threads write one status; a job made stale while its worker runs | a stale build is never offered; every job ends | `Jobs`, `Builds`, `HomeBuilds`, `Server`, `ServerProofs` |
| Flake update preview, `flake_update_preview.py` | jobs | start, cancel, candidate, mark applied | the source changes while a copy is updated | only a candidate of the present source is applied, once | `Jobs`, `Updates`, `Server`, `ServerProofs` |
| Lock comparison, `flake_lock_update.py`, `flake_inspector.py` | none | compare two lock documents | | | an outcome of `Updates` and `Helper` |
| Local server, `server.py`, `ui_helper.py` | three tables of confirmations | validate, confirm, preview, test, commit | apply, mark and invalidate are three steps with failures in between | confirmations are used once; what is committed is current | `Server`, `ServerProofs` |
| Planning and adoption, `managed_plan.py`, `adoption.py`, `home_manager_adoption.py`, `candidate.py` | none | text transformations | | | a plan is a constant of `Transaction`, a value of `Helper` |
| Model and generators, `model.py`, `dependencies.py`, `migration.py`, `nix_generator.py`, ... | none | pure functions | | | not modelled |
| Inspectors, CLI, doctor, web, packaging | none | reading and printing | | | not modelled |

`PROJECT.json` lists the hazards line by line, with the properties that cover
them.

### How the parts interact

The server sends framed JSON over a Unix socket. The dispatcher validates a
plan with a backend, which keeps the prepared plan, and hands out a receipt; the
apply request names the receipt, Polkit asks the user, and the backend runs the
workflow. The workflow is the *worker* of `Transaction`: it applies the files
provisionally, lets Nix evaluate what is now installed, and finalizes or rolls
back. Independently a tested closure goes through an activation session: the
daemon creates the session, arms a recovery timer, starts the candidate's
`switch-to-configuration test` in a unit, and later schedules the commit or
rollback in another unit. These units outlive the request, the timeout of the
daemon and the daemon itself.

Above the helper, each HTTP request of the server is a thread. Builds and
previews are jobs with a worker thread and a timer; a write takes a validation,
which leaves a confirmation, and a confirmed apply; an activation takes a dry
run, a test and a commit of the newest build.

### Modules

`AtomicApply` is the abstract specification that `Transaction` implements.
`Jobs` is extended by `Builds`, `HomeBuilds` and `Updates`, the three job
managers, and `Server` composes the three with the request threads. `Gates`
holds what a target's flags allow, and both `Targets`, which loads the flags, and
`Helper`, which acts on them, extend it. `Transaction`, `Activation`, `Helper`
and `Server` are specifications of their own: the helper sees a transaction or a
session call as one step with an outcome, and the server sees the helper as
answers that say what the helper's module guarantees and that may be lost.

The `MC` modules hold the instances that TLC checks, the `Proofs` modules the
theorems that TLAPS proves; neither adds behaviour.

## 2. Transaction

### State and code

| Variable | In the code |
|---|---|
| `disk`, `dirs` | the target files and the directories around them |
| `staged[t]`, `backup[t]` | `.<name>.ncm-<id>-<n>.tmp` files next to the targets, backups in the journal directory |
| `jstate`, `jstatus`, `jdirs` | `state`, the entries' `status` and `createdDirectories` of `manifest.json` *as last saved* |
| `jtemp` | a `.manifest.json.tmp` left by a crash inside `_atomic_json` |
| `changes`, `previous` | the plan: files that differ and the digests it saw |
| `pc`, `todo`, `made` | the worker: position in `_apply_validated_changes` and the workflow, its loop, the directories it knows it created |
| `lock` | the `flock` on `transaction.lock` |
| `rtxn`, `rphase`, `rtodo`, `rmarked` | `_restore_from_manifest`, which only the lock's holder runs; `rmarked` are entries marked in memory and not yet saved |
| `verified`, `touched` | history: passed the second evaluation; files that somebody else wrote |

A file is its content, which takes digests to be injective. One action is one
write that a crash can separate from the next one: backup, check of its digest
and stage (`Stage`), save of the entry (`Record`), digest check (`Check`),
`os.replace` (`Replace`), save (`Mark`), and so on through `Publish`, `Validate`,
`Finalize`, `Seal` or `RollBack` and the `Restore*` steps. Copying takes its
time, so a backup may hold anything (`TakeBackup`); what the code hashes is the
copy, and a copy that is not what the plan saw ends the request (`StageFails`).
`Fail` is the `except` clause, which also names the directories that the failing
step has made, and `Fault` the injected error after a replacement.

`RestoreFails` is an input or output error of a restoration, at any of its
writes: it ends in `recovery-required`, if that can still be saved, or raises
with the journal as it was. Errors of the `except` clause's own save are among
them. Each counts as a crash does.

`Crash` loses the worker's memory and its lock and keeps the disk; `CutSave` lets
it also fall inside `_atomic_json`. `Recover` is the explicit recovery request
for one journal. `Edit` is an editor, at any time; with `EditsRaceReplace =
FALSE` it does not fall between a digest check and the write that relies on it.
The code cannot exclude that window: the constant separates what the engine
guarantees from what only the environment can.

In the deployed system the single-threaded daemon serialises requests, and the
managed, Home Manager and `flake.lock` journals have roots of their own. The
engine does not rely on it: it has a lock, and the model lets several processes
compete for it.

### Properties

* `UntouchedStaysRecoverable`: at every instant of an unfinished transaction a
  file that nobody else wrote is the old one, or the new one next to a good backup.
* `UndoneMeansRestored`, `CommittedMeansInstalled`: the final states tell the truth.
* `NoStrayStages`, `NoStrayDirectories`: nothing is left behind. The second one is
  stated for workers that did not crash: a crash between `mkdir` and the save
  that names the directory leaves an empty directory that no journal knows.
* `NoLostEdit`, `CommitSeesCandidates`, `FinalIsFinal`: what a step may never do.
* `BackupsReproducePlan`: an entry counts as prepared only with a good backup,
  although a copy may hold anything; and `LockReleased` and `WorkerStops` under fairness.

### Refinement

`AtomicApply` says what `docs/apply-protocol.md` promises without journals,
locks, backups, stages or crashes: the files of a plan are written one by one
while the transaction is open; it ends `committed` with all of them new or
`undone` with all of them old, files excepted that somebody else has written;
afterwards it writes nothing. The refinement mapping reads the journal:
`OutcomeOf` is `none` without a manifest, then `open` until the saved state is
final; `ViewOf` says of each file whether it is the one the plan saw, the
candidate, or somebody else's. A crash, a lock, a backup or a stage is a stutter.
`ImplementsAtomicApply` is checked in `tx_single`, with two crashes and with
edits inside the windows, and proved for any number of both.

### Runs

| Run | Instance | Shows |
|---|---|---|
| `tx_quiet` | a request for two files (one exists, one is new in a new directory) and one for the second of them, 1 crash or failed restoration, 1 edit outside the windows | the safety and action properties |
| `tx_single` | one request, 2 crashes or failed restorations, 2 edits at any instant, weak fairness of worker and restorer | the refinement of `AtomicApply`, recoverability with racing edits; lock and worker end |
| `tx_lost_edit` | one request, 1 racing edit | `NoLostEdit` fails: the check and `os.replace` are two system calls |
| `tx_pending` | two requests, 1 crash | `RestoredBeforeNewOperation` fails: nothing restores a waiting journal before a new transaction |

Two files are the least with an order, a partly done loop and both kinds of
change; two requests the least that compete; the contents are the old one and the
candidates, of which each is foreign to somebody. `Foreign` bounds what an edit
leaves: anything in `tx_single`; in `tx_quiet`, which has two requests, a content
that the first one does not want, or no file. A second crash is needed for a crash in the
recovery of a crash, a second edit for one before and one after a check.
`CHECK_DEADLOCK FALSE` because all requests end. Fairness is weak, per worker and
restorer: a process that has not crashed keeps running. Nobody has to plan,
recover, crash or edit.

### What is proved

`TransactionProofs` proves for every set of requests, files, contents and
directories, any number of crashes, failed restorations and edits: `TypeOK`, `LockExcludes`,
`BackupsReproducePlan`, `UntouchedStaysRecoverable`, `UndoneMeansRestored`,
`CommittedMeansInstalled`, `NoStrayStages`, `FinalIsFinal`, and, assuming
`~EditsRaceReplace`, `NoLostEdit` and `CommitSeesCandidates`. The only
assumption is `TransactionAssumption`. `RefusesOnlyOthers`, which no run lists,
follows from them: a restoration refuses only a file that somebody else wrote,
whatever crashed or failed before, because it has every backup it needs and
recognises what it or an earlier restoration has put back. It says nothing of
`recovery-required` as such, which an input or output error also leaves.

The invariant is `TypeOK /\ Inductive`. None of its safety parts is inductive
alone. `UndoneMeansRestored` needs to know what a restoration in progress has
left behind (`RestoreFollows`), which needs the backups of entries that may be
replaced (`BackupsReproducePlan`), which need the order of the two loops
(`EntriesPrepared`) and that a file nobody touched is still what the plan saw
while it is backed up (`FilesFollow`). All of them need that two processes are
never inside at once (`LockExcludes`) and that the manifest says where its writer
is (`JournalFollows`). `StagesFollow` carries `NoStrayStages`; `ChecksHold` is
the window between check and write, and holds only without racing edits. One
lemma per conjunct goes through the actions.

`RefinementProofs` proves `ImplementsAtomicApply` from the same assumption, with
edits inside the windows. Most actions cannot be seen (`InvisibleStep`). Visible
are the plan, the begin, the writes of a file (`Replace`, `RestorePut`, `Edit`)
and the two ends, which are the point: the invariant says that at `Seal` every
untouched file of the plan is new and that at the end of a restoration none is.
`PlanFollows` is what this needs beyond it: a plan is not replaced by another,
and holds only files that it changes.

`DirectoryProofs` proves `NoStrayDirectories`, for any assignment of files to
directories, on top of the first invariant. The directories are flat: a file has
the one it lies in, and the chain of missing parents that `_create_parents` makes
and the cleanup removes from the inside is left out. Whether a directory stays is
decided when the restoration cleans up, by what is in it at that moment; the
property is about what was made long before and about what comes after. `MadeFollow` says of a
directory that a request made that it is in the journal, but between `Stage` and
`Record` and after a crash, and that the files in it are the others' or were
absent when the request was planned: so at the cleanup, when every untouched file
is what the plan saw, none of the request's own can be there. `DirectoriesHold`
and `StagesWait` say that a file or a staged file always has its directory, which
is what makes the first of these true of a directory that comes and goes.
`CleanedFollow` carries the result over a crash of the recovery to the write of
the final state, and `SharedGrows` beyond it: a later request that puts the
directory back has a file there.

## 3. Activation

### State and code

| Variable | In the code |
|---|---|
| `journal`, `previous` | `state` and `previous_system_path` of every session file |
| `current`, `profile` | the two links, which nothing locks |
| `lock` | the store lock while a recovery holds it; every other use is one read or one write inside an action |
| `hpc`, `hsession`, `hseen` | the request that the daemon serves, and the profile it read first |
| `test`, `timer`, `called` | the activation unit, the recovery timer, recovery units started and not begun |
| `rphase` | position in `recover_activation_session` |
| `tpc`, `tmode`, `tend` | position in `transition_activation_session`, its mode, the state it is about to write |
| `confirmed` | history: a commit of this session was accepted |

`TestBegins` to `EndTest` are `test_activation`; `RecoverNow`, `Commit`,
`RollBack`, `ScheduleTransition` and `Revert` the other requests; `Recovery*`
and `Recover*` the recovery unit; `Transition*` and `StopTimer` the commit or
rollback unit with its compensation. `SetProfile` and `Switch` are `nix-env
--set` and `switch-to-configuration`: they may fail before or after the link
changed, and a success of the second is only claimed, which is why the code
compares the links afterwards. `Reboot` boots the profile and loses every
process and unit; `HelperDies` loses the request.

Two constants separate the environment: `Collectable` lets closures and tools be
missing, `Overlaps` lets a recovery, a commit or a rollback begin over an
operation that is still under way and lets the answer of `systemd-run` be lost.
Under way is a request of the helper, an activation unit or a transition
(`AtRest`). A session that is merely unfinished, because its test failed or its
recovery gave up, is not: `rollback_committed_system` looks only at the session
it rolls back, and so does `RollBack`.

### Properties

* `BootsOnlyTested`: the boot profile is the installed closure or a candidate
  that passed its test and whose commit was confirmed, whatever overlaps.
* `TimerBeforeTest`: no candidate runs before its timer is armed, and only the
  confirmed commit of its own session stops the timer.
* `TestsBlockEachOther`: a candidate is started only while every other session is
  finished. It cannot be said that never two are unfinished: when a session is
  committed, the test of the next one fails without a switch, and the first is
  then rolled back, there are two, without any overlap.
* `QuietMeansConsistent`: once nothing is unfinished the machine runs what it will
  boot. `EndsTellTheTruth`: a final state is what the links say when it is
  written. `FinishedStays` and, under fairness, `TestsEnd`.

The last five need that nothing overlaps.

### Runs

| Run | Instance | Shows |
|---|---|---|
| `act_races` | two sessions, everything may overlap or be missing, no reboot or death | `TypeOK`, `BootsOnlyTested`, `TimerBeforeTest` |
| `act_quiet` | two sessions, no overlaps, 2 reboots or deaths, fairness | the other five |
| `act_profile` | two sessions, no overlaps; a test is requested while the other session commits | `TestKeepsProfile` fails: a recovery takes back the commit of another session |
| `act_truth` | two sessions, overlaps | `EndsTellTheTruth` fails: the activation unit lands after `recovered` |

Two sessions with candidates of their own are the least in which one session can
disturb another; two failures are enough for one during the operation and one
during what follows the first. `act_races` (1.1 million states) has room for
neither reboots and deaths nor more than one recovery asked for while another
waits (`MaxWaiting`; a recovery that runs, and the timers, come on top):
`ActivationProofs`, where both are unbounded, has them. Fairness: helper,
timers, units and transitions go on (weak); the recovery waits for a file lock
that others take and release, and `flock` wakes it, hence strong fairness of
`RecoveryStep`. No button has to be pressed. Sessions end, hence
`CHECK_DEADLOCK FALSE`.

### What is proved

`ActivationProofs` proves for any sessions and closures, from
`ActivationAssumption`: `TypeOK`, `BootsOnlyTested` and `TimerBeforeTest`. The
invariant is `TypeOK /\ Inductive`. `LinksTrusted` says that every closure that a
profile is set to, through a session's `previous` or the helper's `hseen`, is
trusted; `ConfirmedFirst` that whoever commits, rolls back or compensates works
for a confirmed session, and that a confirmed session passed its test;
`TestedOnce` that a test result is never overwritten by a second test;
`TimerFirst` that the helper starts the candidate only after its timer is armed.

`QuietProofs` proves the properties of `act_quiet` but `TestsEnd` under `~Overlaps`
(`act_truth` shows one of them fail without it), and under nothing else: any
number of sessions, reboots and deaths, closures that go missing, commands that
fail before or after they took effect. The store lock covers single reads and
writes, so nothing in the code excludes two writers by itself; `Orderly`, the
invariant, says why there never are two. At most one operation is under way
(`OneOperation`), however many sessions are unfinished, and each of the four that
write sessions finds its own in the state in which it left it: the request
(`HelperFollows`, which also says that until the candidate is started no other
session is unfinished: `TestsBlockEachOther`), the activation unit
(`TestFollows`), the transition (`TransitionFollows`) and the recovery
(`RecoveryFollows`). Hence what a transition or a recovery learnt of the links is
still so when it writes `committed`, `rolled-back` or `recovered` (the last
conjuncts of these two), which is `EndsTellTheTruth`; a finished session has no
writer left, which is `FinishedStays`. `QuietMeansConsistent` is a conjunct
itself: whoever parts the links works for a session that is not finished, and
whoever finishes the last one has compared them. No conjunct is inductive without
the others.

## 4. Targets and gates

`Targets` is a pure computation: the configuration is read once, when the daemon
starts. A raw target is a record whose absent fields have the value `Absent`, a
path an abstract value, and `Below` the relation `is_relative_to`. `TargetV1` to
`TargetV7` are the loaders, with the chain from each into the one before it,
`PostInit` the constraints of `HelperTarget.__post_init__`, in the conditions
of the code. `Gates` holds the seven decisions that the dispatcher takes on the
loaded flags; `FlagsFit` is the part of `PostInit` that is about flags, which
`Helper` assumes of its targets.

Run `targets` enumerates 792,000 raw targets and results over ten paths: each
field takes null, a path inside the root, a path inside another tree and several
that are apart; every version gets exactly the fields it has, so that a field
too many or too few arises where a loader hands its argument on. Enough
journals to be pairwise equal and different exist (`a`, `b`, `c`).

* `ModeDecides`: a target that starts may write exactly what
  `docs/helper-protocol.md` says of its mode, in every version.
* `JournalsApart`: no journal lies in a root of its own target, and the three
  journals are three.
* `NewerSchemaAgrees`: the same target with the new fields null means the same in
  the next version.

`TargetsProofs` proves the three for any paths, any relation between them and
any raw targets, from `TargetsAssumption` and `RawsAssumption` (a raw target has
a value or `Absent` for every field, and what the next version fills in is not
`Absent`). For each loader there is a lemma that says what comes out of it:
a target of one mode, with the flags of that mode and no other (`FlagsFollow`),
that has passed `__post_init__` and the comparisons that only loaders make
(`Apart`). The loaders that hand their argument on are then composed, as in the
code (`V3Outcome` to `V6Outcome`, `LoadOutcome`), and the three properties read off. For
`NewerSchemaAgrees` each pair of versions has a lemma: the field that the newer
loader takes out again is the one that the rewriting put in.

Two targets of one configuration are not compared with each other by the code:
nothing keeps them from sharing a journal, or one from having its journal in the
root of another. No document excludes it, so no property does.

## 5. Helper

### State and code

| Variable | In the code |
|---|---|
| `queue`, `serving` | the listening socket, which systemd keeps, and the accepted connection; `open` and `sent` are the client's side |
| `phase`, `request`, `asked`, `answer` | where the one thread is: `handle_once`, `pkcheck`, a backend, the answer |
| `receipts` | history: what each receipt was issued for; a receipt is its place |
| `pending`, `late` | the five `_pending*` tables, and which of their entries are past `expires_at` |
| `prepared` | `_prepared*` of the four backends, under their keys |

`Read` takes a frame and does what `handle` does up to the call of `pkcheck` or the
answer: prune, gate, receipt. `Authorize` refuses at once an unknown action and a
process that is gone, and asks `pkcheck` otherwise; while it asks, receipts grow
old, the client may leave, the daemon may die. `Grant` and `Deny` are the ends
of `pkcheck`; the `Write*` and `Run*` actions the backend; `Reply` the answer,
which a client that left does not get. Nothing else happens between the prune
and `pkcheck` because the daemon has one thread. `Die` empties the tables and
keeps the queue. The requests that are enumerated are all those a client can
write, for every operation and target, with any receipt of this daemon or an
unknown one.

### Properties

* `OwnRequestGranted`: what runs with root's power is what Polkit was asked about
  for this very request, and a plan was validated for the same user, target and
  contents by the same workflow.
* `SpentStaysSpent`: a receipt is redeemed once, whatever becomes of the apply.
* `PreparedHaveReceipts`, `MissingMeansTwin`: receipts and plans, which expire and
  are spent at different places, go together. The code files a plan under its
  fingerprint, so that a user who validates one plan twice has two receipts for one
  plan, and whichever is used or expires first takes it from the other: an apply
  with a valid receipt then fails with `validated-plan-missing`. That is the only
  way to get this answer.
* `FreshWhenAsked`: an expired receipt never gets as far as Polkit. One that expires
  while Polkit asks is honoured.
* `Served`: a client that has sent its request is answered or goes away.

### Runs

`helper` (378,000 states): two users with a process each, a fixture target and a
live-control target, which between them pass every gate; one plan, for which two
receipts may be issued; one connection waits while one is served (the code: 8).
Two receipts are what a twin needs, two users what a stolen receipt needs; a
receipt for another plan differs from its request as one for another target does.
`Answerable` is a constant: the `helper` run gives the authorizer every action
of the protocol, so that all operations are explored; `helper_denied` gives it
the actions of `polkit_authorizer.py` and finds the defect of section 7.

Fairness: the daemon goes on (weak, for its steps together), `pkcheck` ends
because it is run with a timeout, and a client that connected sends its request
or goes away. The last is an assumption about the environment and is needed:
`_read_frame` has no timeout, and a silent local peer holds up the daemon for as
long as it stays. Clients that wait for an answer may wait or leave, and the
daemon may die any number of times: a request in the socket is still there for
the next one. No deadlock is possible and none is excepted.

### What is proved

`HelperProofs` proves for any users, targets, plans and authorizer, any number of
receipts, clients and deaths of the daemon, from `HelperAssumption` and
`NoneAssumption` (the value of an empty place is no connection and no request):
`TypeOK`, `OwnRequestGranted`, `PreparedHaveReceipts`, `MissingMeansTwin`,
`SpentStaysSpent` and `FreshWhenAsked`. Whichever of the nineteen operations it
is, a request is refused, gets a receipt, or waits for `pkcheck`
(`DispatchOutcomes`), and whichever backend runs, a plan is taken, a receipt is
issued, or nothing is left behind (`BackendOutcomes`). The invariant `Inductive`
says that a receipt is redeemed between `pkcheck` and the backend call, for the
request that names it (`RequestFits`), that it then is in no table, and that of
two receipts with one key one explains what the other lacks (`TwinExplains`):
the plan under a key goes only with a receipt that is spent or expired.

## 6. Server and jobs

### State and code

| Variable | In the code |
|---|---|
| `builds`, `homes`, `previews` | the job dictionaries of the three managers; `status` is what the job says and everybody overwrites, `at` where its worker thread stands |
| `epoch` | `_source_epoch` of the build manager |
| `*Closed` | `_closed` |
| `source` | the version of the configuration on disk, which stands for its fingerprint |
| `intents`, `open` | history of the confirmations, and those in the three tables |
| `request` | what each request thread is doing, between two locks |
| `dryRun`, `session` | what the helper answers: versions it has a test receipt for, the version under test |
| `lockAt`, `owed`, `committed` | history: the last lock write, whether its `invalidate` is still to come, the last commit |

A job action is what a worker does under one hold of the manager's lock, or
between two of them; a timer and a request may come between any two. `Builds`
has the three that matter: the worker sets `analyzing` after it looked at
`cancelEvent` outside the lock; it writes `cleaning`, the outputs and the final
status over whatever is there; and only the last step looks at the epoch.
`Updates` reads the source three times (before the copy, after it, and at the
end), and `Applicable` a fourth time. It looks at `timedOut` (`RunUpdate`) and at
`cancelEvent` (`JudgeUpdate`) outside the lock and writes `analyzing` later
(`AnalyzeUpdate`); its timer is cancelled when Nix ends, but a callback that
already waits for the lock still runs (`TimeOutPreview`).

Each workflow has a table of confirmations, and a request removes what it names
from its own table only. A confirmation lives as long as the helper's answer
said, so any may expire, and a full table may evict any of its own; the table of
lock updates has no limit.

A request of several steps is an operation with a place: the update of the lock
is check, consume, helper, mark and invalidate, each of which may fail or be
followed by a lost answer. `Validated` and `Written` are the helper, which
validates and writes only the source it finds on disk; `VerifiedCandidate` is
its evaluation of that source before a dry run, a test and a commit.

### Properties

* `StaleIsNeverReady`: at no instant does a remembered build of an old epoch look good
  (`status = "passed"` with one output), although its worker writes both after
  `invalidate` did.
* `OldLockNotReady`: a build from before a lock update is ready only until the
  request that had the lock written comes to its `invalidate`.
* `OneJobAtATime`: two builds overlap only if `invalidate` called the first one
  stale meanwhile; home builds and previews never do.
* `TimedOutFails`: a build or home build whose time is up does not pass. Of
  previews it cannot be said (section 7).
* `ConfirmedOnce`: of several requests with one confirmation one gets through.
* `CommitsCurrentSource`: what is committed is what the source evaluated to at
  some time since the commit was requested. The test evaluates the source, too,
  but the source may change after it: neither the build, nor the session, nor the
  receipt knows of an edit, so the evaluation in the commit is what finds it.
* `JobsEnd`: whatever Nix does, every job ends.

### Run

`server` (1,072,000 states) checks eleven mixes, one `Quota` each, because all
at once would be out of reach: a lock update next to two builds; the same with
failures and cancellation; two threads with the confirmations of lock updates,
and of managed and Home Manager plans; previews of a source that goes on changing,
and three of them where two are remembered (`mark_applied` does not find its job);
activations with two builds and one thread and with one build and two threads;
two builds, two home builds, and one job of each kind with failures,
cancellation and the end of the server. Two jobs of a kind are the least where
one can be mistaken for the other, two threads the least that compete, two
versions the least where something is stale (three, where a write and an edit
meet). `Retained` is 2 instead of 8 and `Capacity` 1 instead of 64, so that jobs
are forgotten and confirmations evicted. A behaviour ends when its quota is used
up, hence `CHECK_DEADLOCK FALSE`.

Fairness is weak and only of `Progress`: worker threads and timers go on, and the
executor kills what is cancelled. That Nix ends of itself is not assumed, and no
request has to be made or to go on.

### What is proved

`ServerProofs` proves every safety property above and `TypeOK`, for any number
of jobs, threads, confirmations and versions of the source and any size of the
tables, from `RetainedAssumption` and `ServerAssumption`. A step does one of four
things to the table of a manager: nothing, a new job, a change of one job, or
`invalidate`, which revokes all the builds the manager still remembers
(`BuildMoves`, `HomeMoves`, `PreviewMoves`); what workers, timers and requests
may do to one job is said once for each manager, by `BuildChanges` and its
like.

None of the properties is inductive. That a revoked build does not look good
later needs `Spoilt`: it was cancelled, so its worker will find no success, or
it is past the last look at `cancelEvent` and has lost its outputs or its
verdict. `Recent` says that a build of the present epoch was copied after the
last write of the lock, or has nothing to offer, unless `owed`. Both are about
`Kept`, the builds that the manager remembers: one that is forgotten can be
offered by nobody, and `invalidate` does not reach it. `OnlyNewestRuns` says that
of one epoch only the newest job has a worker, which is why a start that sees no
running job starts the only one. Of the requests, `RequestsFit` says that past
`Consume` a confirmation is spent and no other request has it, and `RequestFits`
that a commit past its verification has a version between the one it was
requested at and the present one.

## 7. Findings

The five violation runs are disagreements between documents and code. Each is
listed in `PROJECT.json` with the sentence it contradicts: a new transaction does
not restore waiting journals first (`tx_pending`); a concurrent edit does not
always abort (`tx_lost_edit`); a test recovery may set the profile
(`act_profile`); a recovery may report success and be overtaken (`act_truth`);
and the authorizer does not know the two actions of the `flake.lock` domain and
denies them without asking (`helper_denied`).

Further disagreements met while modelling, which have no run of their own; the
properties named are the strongest form that does hold:

* `README.md:471-473` and `docs/updating.md:14` say that a committed lock write
  marks every older build stale. It does if the server gets the helper's answer
  and `mark_applied` finds the preview; otherwise the builds stay ready
  (`owed` in `OldLockNotReady`). The commit of such a build is still refused
  (`CommitsCurrentSource`).
* `candidate_build.py:139` promises one build at a time. After `invalidate` the
  next one may start while the old worker still runs (`OneJobAtATime`).
* Managed and Home Manager writes do not revoke builds at all.
* A preview that is cancelled while it is analysed or cleaned up ends `passed`.
* So does one whose timer went off just as Nix ended: the callback that waits for
  the lock marks it `timedOut` and logs the timeout (flake_update_preview.py:476),
  after the worker has looked at `timedOut` (line 500) and before or while it
  analyses (line 524). Builds look again at the end (`TimedOutFails`).
* A rollback does not look at other sessions, although a test does: over the
  failed test of another session, which rests in `activation-failed`, it leaves
  two unfinished sessions, and the recovery of that test later sets the profile
  back to what was committed when it was requested (`TestsBlockEachOther`).
* The capabilities report no dry activation for a live-managed target
  (`dryActivatePreviewEnabled`), and the dispatcher accepts one.
* The preview of a lock update may pass with the direct input unchanged or with
  changed transitive nodes, and the helper then refuses or accepts by rules of
  its own; both are outcomes of the model.

## 8. Only model-checked, and not modelled

Every invariant and every action property of a passing run is proved, and so is
the refinement. Liveness (`LockReleased`, `WorkerStops`, `TestsEnd`, `Served`,
`JobsEnd`) is out of the prover's reach, because fairness speaks of `ENABLED`, and
stays with TLC. So do the five violation runs, which are counterexamples.

The theorems hold under the named assumptions about constants, and some under one
more, which the theorem states: `~EditsRaceReplace` for `NoLostEdit` and
`CommitSeesCandidates`, and `~Overlaps` for the four of `QuietProofs`. Each of the
two excludes interleavings that the code cannot exclude; `tx_lost_edit` and
`act_truth` show what happens then.

Not modelled: the contents of files, digests and identifiers; file modes and
ownership; `fsync` (a completed write survives a crash); the leftover of a
`.restore` file; chains of missing parent directories, and a chain of which only
a part is made or removed (transaction.py:388-401, 413-424); candidate evaluation
and the comparison of closures and lock documents beyond their outcome; the syntax of payloads; HTTP headers, cookies
and read-only endpoints; the logs of jobs; the planning, adoption and generator
modules, which are text transformations without state (a plan is what they
return); inspectors, command line, web interface and packaging.

A rollback session that a crash leaves in `rollback-prepared`, `rolling-back` or
`rollback-required` blocks every further test, and no operation leaves these
states. No document promises a way out, so this is recorded as a hazard
without a property.

## 9. Plan

Done: `Transaction`, `Activation` and their proofs; `AtomicApply`; `Gates`,
`Targets`; `Helper`; `Jobs`, `Builds`, `HomeBuilds`, `Updates`, `Server`.

Proved: the safety and action properties of all five specifications, and the
refinement of `AtomicApply`.

To prove next, facts that no run names yet: in `Helper`, that nothing a daemon
knew before its death can be redeemed after it; in `Server`, that a preview is
applied at most once as long as the manager remembers it; in `Transaction`, that
a recovery finds something to undo only where its worker, or an earlier recovery,
has left it.
