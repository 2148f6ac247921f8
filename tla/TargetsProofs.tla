--------------------------- MODULE TargetsProofs ---------------------------
(***************************************************************************)
(* Proofs about Targets, for every layout of paths and every raw mapping in *)
(* each version of the schema.                                              *)
(***************************************************************************)
EXTENDS Targets, TLAPS

\* The flags of a target but the last, in the order of Plain.
Opens(t, fixture, apply, test, home, managed, switch) ==
  /\ t.fixture_only = fixture /\ t.apply_enabled = apply
  /\ t.test_activation_enabled = test /\ t.home_manager_apply_enabled = home
  /\ t.managed_write_enabled = managed /\ t.permanent_switch_enabled = switch

\* What they are in each mode.
FlagsFollow(t, mode) ==
  \/ mode = "fixture" /\ Opens(t, TRUE, TRUE, FALSE, FALSE, FALSE, FALSE)
  \/ mode = "live-read-only" /\ Opens(t, FALSE, FALSE, FALSE, FALSE, FALSE, FALSE)
  \/ mode = "live-test" /\ Opens(t, FALSE, FALSE, TRUE, FALSE, FALSE, FALSE)
  \/ mode = "live-home-manager" /\ Opens(t, FALSE, FALSE, FALSE, TRUE, FALSE, FALSE)
  \/ mode = "live-managed" /\ Opens(t, FALSE, FALSE, FALSE, FALSE, TRUE, FALSE)
  \/ mode = "live-control" /\ Opens(t, FALSE, FALSE, TRUE, FALSE, TRUE, TRUE)

\* What the loaders compare and __post_init__ does not.
Apart(t) ==
  /\ \A journal \in {t.journal_root, t.test_journal_root} \ {Null} :
       ~Within(journal, t.configuration_root)
  /\ t.test_journal_root # Null => t.test_journal_root # t.managed_journal_root

\* A target of some mode.
Outcome(t, mode) ==
  /\ DOMAIN t = DOMAIN Plain
  /\ FlagsFollow(t, mode)
  /\ PostInit(t) /\ Apart(t)

Unlocked(t, mode) == Outcome(t, mode) /\ t.flake_lock_write_enabled = FALSE
Locked(t, mode) == Outcome(t, mode) /\ t.flake_lock_write_enabled = TRUE

-----------------------------------------------------------------------------
(* What each loader makes of the fields it reads.                           *)

LEMMA FixtureOutcome ==
  ASSUME NEW r, FixtureOf(r) # Rejected
  PROVE  Unlocked(FixtureOf(r), "fixture")
  <1> DEFINE t == [Plain EXCEPT !.configuration_root = r.configurationRoot,
                       !.journal_root = r.journalRoot,
                       !.allowed_relative_paths = r.allowedRelativePaths,
                       !.flake_target = r.flakeTarget]
  <1>1. /\ FixtureOf(r) = t /\ PostInit(t)
        /\ r.journalRoot \in Path /\ ~Within(r.journalRoot, r.configurationRoot)
    BY DEF FixtureOf, HelperTarget
  <1>2. /\ DOMAIN t = DOMAIN Plain
        /\ t.configuration_root = r.configurationRoot
        /\ t.journal_root = r.journalRoot /\ t.test_journal_root = Null
    BY DEF Plain
  <1>3. /\ Opens(t, TRUE, TRUE, FALSE, FALSE, FALSE, FALSE)
        /\ t.flake_lock_write_enabled = FALSE
    BY DEF Plain, Opens
  <1>4. Apart(t)
    BY <1>1, <1>2 DEF Apart
  <1> HIDE DEF t
  <1>5. QED
    BY <1>1, <1>2, <1>3, <1>4 DEF Unlocked, Outcome, FlagsFollow

\* LiveOf sets no flag and no journal.
LEMMA LiveFields ==
  ASSUME NEW r
  PROVE  /\ DOMAIN LiveOf(r) = DOMAIN Plain
         /\ Opens(LiveOf(r), FALSE, FALSE, FALSE, FALSE, FALSE, FALSE)
         /\ LiveOf(r).flake_lock_write_enabled = FALSE
         /\ LiveOf(r).configuration_root = r.configurationRoot
         /\ LiveOf(r).journal_root = Null /\ LiveOf(r).test_journal_root = Null
         /\ LiveOf(r).managed_journal_root = Null
  BY DEF LiveOf, Live, Plain, Opens

LEMMA ReadOnlyOutcome ==
  ASSUME NEW r, HelperTarget(LiveOf(r)) # Rejected
  PROVE  Unlocked(HelperTarget(LiveOf(r)), "live-read-only")
  <1>1. HelperTarget(LiveOf(r)) = LiveOf(r) /\ PostInit(LiveOf(r))
    BY DEF HelperTarget
  <1>2. QED
    BY <1>1, LiveFields DEF Unlocked, Outcome, Apart, FlagsFollow

\* The schemas since the third also read a timeout.
LEMMA TimedOutcome ==
  ASSUME NEW r, NEW t, NEW mode, TimeoutFits(r), Timed(t, r) # Rejected,
         t # Rejected => Unlocked(t, mode)
  PROVE  Unlocked(Timed(t, r), mode)
  <1> DEFINE u == [t EXCEPT !.test_timeout_seconds = r.testTimeoutSeconds]
  <1>1. Timed(t, r) = u /\ Unlocked(t, mode)
    BY DEF Timed
  <1>2. DOMAIN t = DOMAIN Plain
    BY <1>1 DEF Unlocked, Outcome
  <1>3. /\ DOMAIN u = DOMAIN t
        /\ \A f \in DOMAIN Plain \ {"test_timeout_seconds"} : u[f] = t[f]
        /\ u.test_timeout_seconds = r.testTimeoutSeconds
    BY <1>2 DEF Plain
  <1>4. /\ u.fixture_only = t.fixture_only /\ u.apply_enabled = t.apply_enabled
        /\ u.test_activation_enabled = t.test_activation_enabled
        /\ u.home_manager_apply_enabled = t.home_manager_apply_enabled
        /\ u.managed_write_enabled = t.managed_write_enabled
        /\ u.permanent_switch_enabled = t.permanent_switch_enabled
        /\ u.flake_lock_write_enabled = t.flake_lock_write_enabled
        /\ u.configuration_root = t.configuration_root
        /\ u.allowed_relative_paths = t.allowed_relative_paths
        /\ u.flake_target = t.flake_target
        /\ u.journal_root = t.journal_root
        /\ u.test_journal_root = t.test_journal_root
        /\ u.home_manager_root = t.home_manager_root
        /\ u.home_manager_journal_root = t.home_manager_journal_root
        /\ u.managed_journal_root = t.managed_journal_root
        /\ u.flake_lock_journal_root = t.flake_lock_journal_root
    BY <1>3 DEF Plain
  <1> HIDE DEF u
  <1>5. FlagsFollow(u, mode)
    BY <1>1, <1>4 DEF Unlocked, Outcome, FlagsFollow, Opens
  <1>6. PostInit(u)
    BY <1>1, <1>3, <1>4 DEF Unlocked, Outcome, PostInit, HomeManagerFits, ManagedFits,
       FlakeLockFits, TimeoutFits
  <1>7. Apart(u)
    BY <1>1, <1>4 DEF Unlocked, Outcome, Apart
  <1>8. QED
    BY <1>1, <1>2, <1>3, <1>4, <1>5, <1>6, <1>7 DEF Unlocked, Outcome

\* A timed live target as the four loaders extend it.
LEMMA TimedLiveFields ==
  ASSUME NEW r
  PROVE  /\ DOMAIN TimedLive(r) = DOMAIN Plain
         /\ Opens(TimedLive(r), FALSE, FALSE, FALSE, FALSE, FALSE, FALSE)
         /\ TimedLive(r).flake_lock_write_enabled = FALSE
         /\ TimedLive(r).configuration_root = r.configurationRoot
         /\ TimedLive(r).journal_root = Null
         /\ TimedLive(r).test_journal_root = Null
         /\ TimedLive(r).managed_journal_root = Null
  BY DEF TimedLive, LiveOf, Live, Plain, Opens

LEMMA TestOutcome ==
  ASSUME NEW r, r.testJournalRoot \in Path,
         ~Within(r.testJournalRoot, r.configurationRoot)
  PROVE  LET t == [TimedLive(r) EXCEPT !.test_activation_enabled = TRUE,
                                       !.test_journal_root = r.testJournalRoot]
         IN  HelperTarget(t) # Rejected => Unlocked(HelperTarget(t), "live-test")
  <1> DEFINE t == [TimedLive(r) EXCEPT !.test_activation_enabled = TRUE,
                                       !.test_journal_root = r.testJournalRoot]
  <1>1. SUFFICES ASSUME PostInit(t)
                 PROVE  Unlocked(t, "live-test")
    BY DEF HelperTarget
  <1>2. /\ DOMAIN t = DOMAIN Plain
        /\ Opens(t, FALSE, FALSE, TRUE, FALSE, FALSE, FALSE)
        /\ t.flake_lock_write_enabled = FALSE
        /\ t.configuration_root = r.configurationRoot
        /\ t.journal_root = Null /\ t.test_journal_root = r.testJournalRoot
        /\ t.managed_journal_root = Null
    BY TimedLiveFields DEF Plain, Opens
  <1> HIDE DEF t
  <1>3. QED
    BY <1>1, <1>2, TargetsAssumption DEF Unlocked, Outcome, Apart, FlagsFollow

LEMMA HomeManagerOutcome ==
  ASSUME NEW r, HomeManagerOf(r) # Rejected
  PROVE  Unlocked(HomeManagerOf(r), "live-home-manager")
  <1> DEFINE t == [TimedLive(r) EXCEPT
                     !.home_manager_apply_enabled = TRUE,
                     !.home_manager_root = r.homeManagerRoot,
                     !.home_manager_journal_root = r.homeManagerJournalRoot]
  <1>1. HomeManagerOf(r) = t /\ PostInit(t)
    BY DEF HomeManagerOf, HelperTarget
  <1>2. /\ DOMAIN t = DOMAIN Plain
        /\ Opens(t, FALSE, FALSE, FALSE, TRUE, FALSE, FALSE)
        /\ t.flake_lock_write_enabled = FALSE
        /\ t.journal_root = Null /\ t.test_journal_root = Null
    BY TimedLiveFields DEF Plain, Opens
  <1> HIDE DEF t
  <1>3. QED
    BY <1>1, <1>2 DEF Unlocked, Outcome, Apart, FlagsFollow

LEMMA ManagedOutcome ==
  ASSUME NEW r, ManagedOf(r) # Rejected
  PROVE  Unlocked(ManagedOf(r), "live-managed")
  <1> DEFINE t == [TimedLive(r) EXCEPT
                     !.managed_write_enabled = TRUE,
                     !.managed_journal_root = r.managedJournalRoot]
  <1>1. ManagedOf(r) = t /\ PostInit(t)
    BY DEF ManagedOf, HelperTarget
  <1>2. /\ DOMAIN t = DOMAIN Plain
        /\ Opens(t, FALSE, FALSE, FALSE, FALSE, TRUE, FALSE)
        /\ t.flake_lock_write_enabled = FALSE
        /\ t.journal_root = Null /\ t.test_journal_root = Null
    BY TimedLiveFields DEF Plain, Opens
  <1> HIDE DEF t
  <1>3. QED
    BY <1>1, <1>2 DEF Unlocked, Outcome, Apart, FlagsFollow

LEMMA ControlOutcome ==
  ASSUME NEW r, ControlFits(r), ControlOf(r) # Rejected
  PROVE  Unlocked(ControlOf(r), "live-control")
  <1> DEFINE t == [TimedLive(r) EXCEPT
                     !.test_activation_enabled = TRUE,
                     !.test_journal_root = r.testJournalRoot,
                     !.managed_write_enabled = TRUE,
                     !.managed_journal_root = r.managedJournalRoot,
                     !.permanent_switch_enabled = TRUE]
  <1>1. ControlOf(r) = t /\ PostInit(t)
    BY DEF ControlOf, HelperTarget
  <1>2. /\ DOMAIN t = DOMAIN Plain
        /\ Opens(t, FALSE, FALSE, TRUE, FALSE, TRUE, TRUE)
        /\ t.flake_lock_write_enabled = FALSE
        /\ t.configuration_root = r.configurationRoot
        /\ t.journal_root = Null /\ t.test_journal_root = r.testJournalRoot
        /\ t.managed_journal_root = r.managedJournalRoot
    BY TimedLiveFields DEF Plain, Opens
  <1> HIDE DEF t
  <1>3. QED
    BY <1>1, <1>2 DEF Unlocked, Outcome, Apart, FlagsFollow, ControlFits

\* The seventh schema adds the lock file to a control target.
LEMMA LockOutcome ==
  ASSUME NEW base, NEW journal, Unlocked(base, "live-control"),
         NEW t, t = [base EXCEPT !.flake_lock_write_enabled = TRUE,
                                 !.flake_lock_journal_root = journal],
         HelperTarget(t) # Rejected
  PROVE  Locked(HelperTarget(t), "live-control")
  <1>1. HelperTarget(t) = t /\ PostInit(t)
    BY DEF HelperTarget
  <1>2. /\ DOMAIN t = DOMAIN Plain
        /\ Opens(t, FALSE, FALSE, TRUE, FALSE, TRUE, TRUE)
        /\ t.flake_lock_write_enabled = TRUE
        /\ t.configuration_root = base.configuration_root
        /\ t.journal_root = base.journal_root
        /\ t.test_journal_root = base.test_journal_root
        /\ t.managed_journal_root = base.managed_journal_root
    BY DEF Plain, Opens, Unlocked, Outcome, FlagsFollow
  <1>3. QED
    BY <1>1, <1>2 DEF Unlocked, Locked, Outcome, Apart, FlagsFollow

-----------------------------------------------------------------------------
(* What each version of the schema comes to.                                *)

Fields == V1Fields \cup V7Fields

Mapping(r) == r = [f \in Fields |-> r[f]]

\* A loader that takes a field out leaves the others, the mode among them.
LEMMA WithoutField ==
  ASSUME NEW r, Mapping(r), NEW f \in Fields
  PROVE  /\ Mapping(Without(r, f))
         /\ Without(r, f)[f] = Absent
         /\ \A g \in Fields \ {f} : Without(r, f)[g] = r[g]
  BY DEF Mapping, Without

LEMMA RawsMapped ==
  ASSUME NEW v \in 1 .. 7, NEW r \in Raws[v]
  PROVE  Mapping(r)
  BY RawsAssumption DEF Mapping, Fields

LEMMA V3Outcome ==
  ASSUME NEW r, TargetV3(r) # Rejected
  PROVE  Unlocked(TargetV3(r), r.mode)
  <1>1. TimeoutFits(r)
    BY DEF TargetV3
  <1>2. CASE r.mode = "fixture" /\ r.testJournalRoot = Null
    <2>1. TargetV3(r) = Timed(FixtureOf(r), r)
      BY <1>2 DEF TargetV3
    <2>2. QED
      BY <1>1, <1>2, <2>1, FixtureOutcome, TimedOutcome
  <1>3. CASE /\ r.mode = "live-read-only"
             /\ {r.journalRoot, r.testJournalRoot} = {Null}
    <2>1. TargetV3(r) = Timed(HelperTarget(LiveOf(r)), r)
      BY <1>3 DEF TargetV3
    <2>2. QED
      BY <1>1, <1>3, <2>1, ReadOnlyOutcome, TimedOutcome
  <1>4. CASE /\ r.mode = "live-test" /\ r.journalRoot = Null
             /\ r.testJournalRoot \in Path
             /\ ~Within(r.testJournalRoot, r.configurationRoot)
    BY <1>4, TestOutcome DEF TargetV3
  <1>5. QED
    BY <1>2, <1>3, <1>4 DEF TargetV3

LEMMA V4Outcome ==
  ASSUME NEW r, Mapping(r), TargetV4(r) # Rejected
  PROVE  Unlocked(TargetV4(r), r.mode)
  <1>1. CASE r.mode = "live-home-manager"
    BY <1>1, HomeManagerOutcome DEF TargetV4
  <1>2. CASE r.mode # "live-home-manager"
    <2> DEFINE q == Without(Without(r, "homeManagerRoot"), "homeManagerJournalRoot")
    <2>1. TargetV4(r) = TargetV3(q)
      BY <1>2 DEF TargetV4
    <2>2. q.mode = r.mode
      BY WithoutField DEF Fields, V1Fields, V2Fields, V3Fields, V4Fields,
         V5Fields, V7Fields
    <2>3. QED
      BY <2>1, <2>2, V3Outcome
  <1>3. QED
    BY <1>1, <1>2

LEMMA V5Outcome ==
  ASSUME NEW r, Mapping(r), TargetV5(r) # Rejected
  PROVE  Unlocked(TargetV5(r), r.mode)
  <1>1. CASE r.mode = "live-managed"
    BY <1>1, ManagedOutcome DEF TargetV5
  <1>2. CASE r.mode # "live-managed"
    <2> DEFINE q == Without(r, "managedJournalRoot")
    <2>1. TargetV5(r) = TargetV4(q)
      BY <1>2 DEF TargetV5
    <2>2. q.mode = r.mode /\ Mapping(q)
      BY WithoutField DEF Fields, V1Fields, V2Fields, V3Fields, V4Fields,
         V5Fields, V7Fields
    <2>3. QED
      BY <2>1, <2>2, V4Outcome
  <1>3. QED
    BY <1>1, <1>2

LEMMA V6Outcome ==
  ASSUME NEW r, Mapping(r), TargetV6(r) # Rejected
  PROVE  Unlocked(TargetV6(r), r.mode)
  BY V5Outcome, ControlOutcome DEF TargetV6

\* A target that loads is one of its mode, and writes flake.lock only as a
\* control target of version 7 that names a journal for it.
Mode(v, r) == IF v = 1 THEN "fixture" ELSE r.mode

Locks(v, r) ==
  Mode(v, r) = "live-control" /\ v = 7 /\ r.flakeLockJournalRoot # Null

LEMMA LoadOutcome ==
  ASSUME NEW v \in 1 .. 7, NEW r \in Raws[v], Load(v, r) # Rejected
  PROVE  IF Locks(v, r) THEN Locked(Load(v, r), Mode(v, r))
         ELSE Unlocked(Load(v, r), Mode(v, r))
  <1>0. Mapping(r)
    BY RawsMapped
  <1>1. CASE v = 1
    <2>1. Load(v, r) = FixtureOf(r)
      BY <1>1 DEF Load, TargetV1
    <2>2. QED
      BY <1>1, <2>1, FixtureOutcome DEF Mode, Locks
  <1>2. CASE v = 2
    <2>1. Load(v, r) = TargetV2(r)
      BY <1>2 DEF Load
    <2>2. Unlocked(TargetV2(r), r.mode)
      BY <2>1, FixtureOutcome, ReadOnlyOutcome DEF TargetV2
    <2>3. QED
      BY <1>2, <2>1, <2>2 DEF Mode, Locks
  <1>3. CASE v \in {3, 4, 5, 6}
    <2>1. \/ v = 3 /\ Load(v, r) = TargetV3(r)
          \/ v = 4 /\ Load(v, r) = TargetV4(r)
          \/ v = 5 /\ Load(v, r) = TargetV5(r)
          \/ v = 6 /\ Load(v, r) = TargetV6(r)
      BY <1>3 DEF Load
    <2>2. Unlocked(Load(v, r), r.mode)
      BY <1>0, <2>1, V3Outcome, V4Outcome, V5Outcome, V6Outcome
    <2>3. QED
      BY <1>3, <2>2 DEF Mode, Locks
  <1>4. CASE v = 7
    <2> DEFINE base == TargetV6(Without(r, "flakeLockJournalRoot"))
    <2>1. Load(v, r) = TargetV7(r)
      BY <1>4 DEF Load
    <2>2. /\ Mapping(Without(r, "flakeLockJournalRoot"))
          /\ Without(r, "flakeLockJournalRoot").mode = r.mode
      BY <1>0, WithoutField DEF Fields, V1Fields, V2Fields, V3Fields, V4Fields,
         V5Fields, V7Fields
    <2>3. base # Rejected /\ Unlocked(base, r.mode)
      BY <2>1, <2>2, V6Outcome DEF TargetV7
    <2>4. CASE r.flakeLockJournalRoot = Null
      BY <1>4, <2>1, <2>3, <2>4 DEF TargetV7, Mode, Locks
    <2>5. CASE r.flakeLockJournalRoot # Null
      <3> DEFINE t == [base EXCEPT
                         !.flake_lock_write_enabled = TRUE,
                         !.flake_lock_journal_root = r.flakeLockJournalRoot]
      <3>1. r.mode = "live-control" /\ Load(v, r) = HelperTarget(t)
        BY <2>1, <2>3, <2>5 DEF TargetV7
      <3>2. Locked(HelperTarget(t), "live-control")
        BY <2>3, <3>1, LockOutcome
      <3>3. QED
        BY <1>4, <2>5, <3>1, <3>2 DEF Mode, Locks
    <2>6. QED
      BY <2>4, <2>5
  <1>5. QED
    BY <1>1, <1>2, <1>3, <1>4

-----------------------------------------------------------------------------
(* The two properties of one target.                                        *)

\* A target's flags permit what its mode allows, and the lock file if it is on.
LEMMA PermittedOf ==
  ASSUME NEW t, NEW mode, Outcome(t, mode), t.flake_lock_write_enabled \in BOOLEAN
  PROVE  Permitted(t) = Domain[mode] \cup
                          (IF t.flake_lock_write_enabled THEN {"flake-lock"} ELSE {})
  <1> USE DEF Outcome, FlagsFollow, Opens, Permitted, Domain, AppliesPlans,
          AppliesHomeManager, WritesManaged, WritesFlakeLock, Tests, Switches
  <1>1. CASE mode = "fixture"
    BY <1>1
  <1>2. CASE mode = "live-read-only"
    BY <1>2
  <1>3. CASE mode = "live-test"
    BY <1>3
  <1>4. CASE mode = "live-home-manager"
    BY <1>4
  <1>5. CASE mode = "live-managed"
    BY <1>5
  <1>6. CASE mode = "live-control"
    BY <1>6
  <1>7. QED
    BY <1>1, <1>2, <1>3, <1>4, <1>5, <1>6

\* Journals that are no journals are null; the others are compared.
LEMMA JournalsOf ==
  ASSUME NEW t, NEW mode, Outcome(t, mode), t.flake_lock_write_enabled \in BOOLEAN
  PROVE  /\ \A journal \in {t.journal_root, t.test_journal_root,
                            t.managed_journal_root,
                            t.flake_lock_journal_root} \ {Null} :
              ~Within(journal, t.configuration_root)
         /\ t.home_manager_journal_root # Null =>
              ~Within(t.home_manager_journal_root, t.home_manager_root)
         /\ t.test_journal_root # Null =>
              t.test_journal_root \notin {t.managed_journal_root,
                                          t.flake_lock_journal_root}
         /\ t.managed_journal_root # Null =>
              t.managed_journal_root \notin {t.test_journal_root,
                                             t.flake_lock_journal_root}
         /\ t.flake_lock_journal_root # Null =>
              t.flake_lock_journal_root \notin {t.test_journal_root,
                                                t.managed_journal_root}
  <1>1. /\ HomeManagerFits(t) /\ ManagedFits(t) /\ FlakeLockFits(t)
        /\ Apart(t)
    BY DEF Outcome, PostInit
  <1>2. /\ t.managed_journal_root # Null =>
             ~Within(t.managed_journal_root, t.configuration_root)
        /\ t.flake_lock_journal_root # Null =>
             ~Within(t.flake_lock_journal_root, t.configuration_root)
        /\ t.home_manager_journal_root # Null =>
             ~Within(t.home_manager_journal_root, t.home_manager_root)
        /\ t.flake_lock_journal_root # Null =>
             /\ t.flake_lock_journal_root # t.managed_journal_root
             /\ t.flake_lock_journal_root # t.test_journal_root
    BY <1>1 DEF HomeManagerFits, ManagedFits, FlakeLockFits
  <1>3. QED
    BY <1>1, <1>2 DEF Apart

-----------------------------------------------------------------------------
(* The daemon.                                                              *)

\* It starts with the target that its configuration describes.
Started ==
  /\ version \in 1 .. 7 /\ raw \in Raws[version]
  /\ target \in {Null, Load(version, raw)}

LEMMA StartsWithLoaded == Spec => []Started
  <1>1. Init => Started
    BY DEF Init, Started
  <1>2. Started /\ [Next]_vars => Started'
    <2>1. SUFFICES ASSUME Started, [Next]_vars
                   PROVE  Started'
      OBVIOUS
    <2>2. UNCHANGED <<version, raw>> /\ target' \in {target, Load(version, raw)}
      BY <2>1 DEF Next, Start, vars
    <2>3. Load(version', raw') = Load(version, raw)
      BY <2>2
    <2>4. QED
      BY <2>1, <2>2, <2>3 DEF Started
  <1>3. QED
    BY <1>1, <1>2, PTL DEF Spec

\* A target that starts has come through its loader.
LEMMA LoadedOutcome ==
  ASSUME Started, Loaded
  PROVE  /\ Outcome(target, Mode(version, raw))
         /\ target.flake_lock_write_enabled \in BOOLEAN
         /\ target.flake_lock_write_enabled <=> Locks(version, raw)
  <1>1. target = Load(version, raw) /\ target # Rejected
    BY DEF Started, Loaded
  <1>2. CASE Locks(version, raw)
    <2>1. Locked(target, Mode(version, raw))
      BY <1>1, <1>2, LoadOutcome DEF Started
    <2>2. QED
      BY <1>2, <2>1 DEF Locked
  <1>3. CASE ~Locks(version, raw)
    <2>1. Unlocked(target, Mode(version, raw))
      BY <1>1, <1>3, LoadOutcome DEF Started
    <2>2. QED
      BY <1>3, <2>1 DEF Unlocked
  <1>4. QED
    BY <1>2, <1>3

\* Whatever is in the configuration, in whatever version, a target that starts
\* may write what its mode allows and nothing else.
THEOREM ModesDecide == Spec => []ModeDecides
  <1>1. Started => ModeDecides
    <2>1. SUFFICES ASSUME Started, Loaded
                   PROVE  Permitted(target) = Domain[Mode(version, raw)] \cup
                            (IF Locks(version, raw) THEN {"flake-lock"} ELSE {})
      BY DEF ModeDecides, Mode, Locks
    <2>2. QED
      BY <2>1, LoadedOutcome, PermittedOf
  <1>2. QED
    BY <1>1, StartsWithLoaded, PTL

\* No journal of a target that starts lies in the tree that it is about, and no
\* two of its journals are one directory.
THEOREM JournalsLieApart == Spec => []JournalsApart
  <1>1. Started => JournalsApart
    <2>1. SUFFICES ASSUME Started, Loaded
                   PROVE  JournalsApart
      BY DEF JournalsApart
    <2>2. QED
      BY <2>1, LoadedOutcome, JournalsOf DEF JournalsApart
  <1>2. QED
    BY <1>1, StartsWithLoaded, PTL

-----------------------------------------------------------------------------
(* One version of the schema and the next.                                  *)

\* Two mappings with the same values are one.
LEMMA MappingsAgree ==
  ASSUME NEW r, NEW q, Mapping(r), Mapping(q), \A f \in Fields : r[f] = q[f]
  PROVE  r = q
  BY DEF Mapping

\* A field that the next version knows gets a value.
With(r, f, value) == [r EXCEPT ![f] = value]

\* To give a field that a mapping does not have, and to take it out again.
LEMMA GivenAndTaken ==
  ASSUME NEW r, Mapping(r), NEW f \in Fields, r[f] = Absent, NEW value
  PROVE  Without(With(r, f, value), f) = r
  <1>1. /\ Mapping(Without(With(r, f, value), f))
        /\ \A g \in Fields : Without(With(r, f, value), f)[g] = r[g]
    BY DEF Mapping, Without, With
  <1>2. QED
    BY <1>1, MappingsAgree

LEMMA FieldNames ==
  {"fixtureOnly", "mode", "configurationRoot", "journalRoot",
   "allowedRelativePaths", "flakeTarget", "testJournalRoot", "testTimeoutSeconds",
   "homeManagerRoot", "homeManagerJournalRoot", "managedJournalRoot",
   "flakeLockJournalRoot"} \subseteq Fields
  BY DEF Fields, V1Fields, V2Fields, V3Fields, V4Fields, V5Fields, V7Fields

\* What each version does not have.
LEMMA FieldsMissing ==
  /\ Fields = {"fixtureOnly", "mode", "configurationRoot", "journalRoot",
               "allowedRelativePaths", "flakeTarget", "testJournalRoot",
               "testTimeoutSeconds", "homeManagerRoot", "homeManagerJournalRoot",
               "managedJournalRoot", "flakeLockJournalRoot"}
  /\ V2Fields = Fields \ {"fixtureOnly", "testJournalRoot", "testTimeoutSeconds",
                          "homeManagerRoot", "homeManagerJournalRoot",
                          "managedJournalRoot", "flakeLockJournalRoot"}
  /\ V3Fields = Fields \ {"fixtureOnly", "homeManagerRoot", "homeManagerJournalRoot",
                          "managedJournalRoot", "flakeLockJournalRoot"}
  /\ V4Fields = Fields \ {"fixtureOnly", "managedJournalRoot", "flakeLockJournalRoot"}
  /\ V5Fields = Fields \ {"fixtureOnly", "flakeLockJournalRoot"}
  /\ V7Fields = Fields \ {"fixtureOnly"}
  BY DEF Fields, V1Fields, V2Fields, V3Fields, V4Fields, V5Fields, V7Fields

\* Two fields at once, and one after the other.
LEMMA GivenBoth ==
  ASSUME NEW r, Mapping(r)
  PROVE  /\ [r EXCEPT !.testJournalRoot = Null, !.testTimeoutSeconds = 300]
              = With(With(r, "testJournalRoot", Null), "testTimeoutSeconds", 300)
         /\ [r EXCEPT !.homeManagerRoot = Null, !.homeManagerJournalRoot = Null]
              = With(With(r, "homeManagerRoot", Null), "homeManagerJournalRoot", Null)
  BY FieldNames DEF Mapping, With

\* With it the mapping has exactly the fields of the next version.
LEMMA KeysGiven ==
  ASSUME NEW r, Mapping(r), NEW fields, ExactKeys(r, fields),
         NEW f \in Fields, NEW value, value # Absent
  PROVE  ExactKeys(With(r, f, value), fields \cup {f})
  BY DEF Mapping, ExactKeys, With

\* The others stay as they are.
LEMMA WithField ==
  ASSUME NEW r, Mapping(r), NEW f \in Fields, NEW value
  PROVE  /\ Mapping(With(r, f, value))
         /\ With(r, f, value)[f] = value
         /\ \A g \in Fields : g # f => With(r, f, value)[g] = r[g]
  BY DEF Mapping, With

\* The modes that each version knows.
LEMMA ModesKnown ==
  ASSUME NEW r, Mapping(r)
  PROVE  /\ TargetV3(r) # Rejected =>
              r.mode \in {"fixture", "live-read-only", "live-test"}
         /\ TargetV4(r) # Rejected =>
              r.mode \in {"fixture", "live-read-only", "live-test",
                         "live-home-manager"}
         /\ TargetV5(r) # Rejected =>
              r.mode \in {"fixture", "live-read-only", "live-test",
                         "live-home-manager", "live-managed"}
  <1>1. ASSUME NEW q, TargetV3(q) # Rejected
        PROVE  q.mode \in {"fixture", "live-read-only", "live-test"}
    BY <1>1 DEF TargetV3
  <1>2. ASSUME NEW q, Mapping(q), TargetV4(q) # Rejected
        PROVE  q.mode \in {"fixture", "live-read-only", "live-test",
                          "live-home-manager"}
    <2> DEFINE p == Without(Without(q, "homeManagerRoot"), "homeManagerJournalRoot")
    <2>1. p.mode = q.mode
      <3>1. /\ Mapping(Without(q, "homeManagerRoot"))
            /\ Without(q, "homeManagerRoot").mode = q.mode
        BY <1>2, WithoutField, FieldNames
      <3>2. QED
        BY <3>1, WithoutField, FieldNames
    <2>2. q.mode = "live-home-manager" \/ TargetV3(p) # Rejected
      BY <1>2 DEF TargetV4
    <2>3. QED
      BY <1>1, <2>1, <2>2
  <1>3. ASSUME NEW q, Mapping(q), TargetV5(q) # Rejected
        PROVE  q.mode \in {"fixture", "live-read-only", "live-test",
                          "live-home-manager", "live-managed"}
    <2> DEFINE p == Without(q, "managedJournalRoot")
    <2>1. p.mode = q.mode /\ Mapping(p)
      BY <1>3, WithoutField, FieldNames
    <2>2. q.mode = "live-managed" \/ TargetV4(p) # Rejected
      BY <1>3 DEF TargetV5
    <2>3. QED
      BY <1>2, <2>1, <2>2
  <1>4. QED
    BY <1>1, <1>2, <1>3

\* FixtureOf and LiveOf read four fields.
LEMMA FieldsRead ==
  ASSUME NEW r, NEW q,
         q.configurationRoot = r.configurationRoot, q.journalRoot = r.journalRoot,
         q.allowedRelativePaths = r.allowedRelativePaths,
         q.flakeTarget = r.flakeTarget
  PROVE  FixtureOf(q) = FixtureOf(r) /\ LiveOf(q) = LiveOf(r)
  BY DEF FixtureOf, LiveOf

\* The timeout of a target of the second version is 300 seconds already.
LEMMA TimedAlready ==
  ASSUME NEW r, r.testTimeoutSeconds = 300
  PROVE  /\ \A q : Timed(FixtureOf(q), r) = FixtureOf(q)
         /\ \A q : Timed(HelperTarget(LiveOf(q)), r) = HelperTarget(LiveOf(q))
  <1>1. ASSUME NEW q PROVE Timed(FixtureOf(q), r) = FixtureOf(q)
    <2> DEFINE t == [Plain EXCEPT !.configuration_root = q.configurationRoot,
                         !.journal_root = q.journalRoot,
                         !.allowed_relative_paths = q.allowedRelativePaths,
                         !.flake_target = q.flakeTarget]
    <2>1. FixtureOf(q) \in {t, Rejected}
      BY DEF FixtureOf, HelperTarget
    <2>2. [t EXCEPT !.test_timeout_seconds = 300] = t
      <3>1. t = [f \in DOMAIN t |-> t[f]]
        OBVIOUS
      <3>2. t.test_timeout_seconds = 300
        BY DEF Plain
      <3> HIDE DEF t
      <3>3. QED
        BY <3>1, <3>2
    <2> HIDE DEF t
    <2>3. QED
      BY <2>1, <2>2 DEF Timed
  <1>2. ASSUME NEW q
        PROVE  Timed(HelperTarget(LiveOf(q)), r) = HelperTarget(LiveOf(q))
    <2>1. HelperTarget(LiveOf(q)) \in {LiveOf(q), Rejected}
      BY DEF HelperTarget
    <2>2. [LiveOf(q) EXCEPT !.test_timeout_seconds = 300] = LiveOf(q)
      <3>1. LiveOf(q) = [f \in DOMAIN LiveOf(q) |-> LiveOf(q)[f]]
        BY DEF LiveOf
      <3>2. LiveOf(q).test_timeout_seconds = 300
        BY DEF LiveOf, Live, Plain
      <3>3. QED
        BY <3>1, <3>2
    <2>3. QED
      BY <2>1, <2>2 DEF Timed
  <1>3. QED
    BY <1>1, <1>2

LEMMA SecondAgrees ==
  ASSUME NEW r \in Raws[1], Load(1, r) # Rejected
  PROVE  Load(2, Lift(1, r)) = Load(1, r)
  <1> DEFINE q == Lift(1, r)
  <1>1. Mapping(r)
    BY RawsMapped
  <1>2. Load(1, r) = FixtureOf(r) /\ ExactKeys(r, V1Fields)
    BY DEF Load, TargetV1
  <1>3. q = [Without(r, "fixtureOnly") EXCEPT !.mode = "fixture"]
    BY DEF Lift
  <1>4. /\ DOMAIN q = Fields /\ q.mode = "fixture" /\ q.fixtureOnly = Absent
        /\ \A f \in Fields \ {"fixtureOnly", "mode"} : q[f] = r[f]
    BY <1>1, <1>3, FieldNames DEF Mapping, Without
  <1> HIDE DEF q
  <1>5. ExactKeys(q, V2Fields)
    BY <1>1, <1>2, <1>4, FieldNames, FieldsMissing, RawsAssumption DEF ExactKeys, Mapping, V1Fields
  <1>6. FixtureOf(q) = FixtureOf(r)
    BY <1>4, FieldsRead, FieldNames
  <1>7. QED
    BY <1>2, <1>4, <1>5, <1>6 DEF q, Load, TargetV2

LEMMA ThirdAgrees ==
  ASSUME NEW r \in Raws[2], Load(2, r) # Rejected
  PROVE  Load(3, Lift(2, r)) = Load(2, r)
  <1> DEFINE p == With(r, "testJournalRoot", Null)
             q == With(p, "testTimeoutSeconds", 300)
  <1>1. Mapping(r)
    BY RawsMapped
  <1>2. Load(2, r) = TargetV2(r) /\ ExactKeys(r, V2Fields)
    BY DEF Load, TargetV2
  <1>3. Lift(2, r) = q
    <2>1. Lift(2, r) = [r EXCEPT !.testJournalRoot = Null,
                                 !.testTimeoutSeconds = 300]
      BY DEF Lift
    <2>2. QED
      BY <1>1, <2>1, GivenBoth
  <1>4. /\ Mapping(p) /\ ExactKeys(p, V2Fields \cup {"testJournalRoot"})
        /\ \A g \in Fields \ {"testJournalRoot"} : p[g] = r[g]
        /\ p.testJournalRoot = Null
    BY <1>1, <1>2, KeysGiven, WithField, FieldNames, TargetsAssumption
  <1> HIDE DEF p
  <1>5. /\ ExactKeys(q, V2Fields \cup {"testJournalRoot"} \cup {"testTimeoutSeconds"})
        /\ \A g \in Fields \ {"testTimeoutSeconds"} : q[g] = p[g]
        /\ q.testTimeoutSeconds = 300
    BY <1>4, KeysGiven, WithField, FieldNames, RawsAssumption
  <1> HIDE DEF q
  <1>6. ExactKeys(q, V3Fields) /\ TimeoutFits(q)
    <2>1. V3Fields = V2Fields \cup {"testJournalRoot"} \cup {"testTimeoutSeconds"}
      BY DEF V3Fields
    <2>2. QED
      BY <1>5, <2>1 DEF TimeoutFits
  <1>7. /\ q.mode = r.mode /\ q.journalRoot = r.journalRoot
        /\ q.testJournalRoot = Null
        /\ FixtureOf(q) = FixtureOf(r) /\ LiveOf(q) = LiveOf(r)
    BY <1>4, <1>5, FieldsRead, FieldNames
  <1>8. CASE r.mode = "fixture"
    <2>1. TargetV2(r) = FixtureOf(r)
      BY <1>2, <1>8 DEF TargetV2
    <2>2. TargetV3(q) = Timed(FixtureOf(q), q)
      BY <1>6, <1>7, <1>8 DEF TargetV3
    <2>3. QED
      BY <1>2, <1>3, <1>5, <1>7, <2>1, <2>2, TimedAlready DEF Load
  <1>9. CASE r.mode = "live-read-only" /\ r.journalRoot = Null
    <2>1. TargetV2(r) = HelperTarget(LiveOf(r))
      BY <1>2, <1>9 DEF TargetV2
    <2>2. TargetV3(q) = Timed(HelperTarget(LiveOf(q)), q)
      BY <1>6, <1>7, <1>9 DEF TargetV3
    <2>3. QED
      BY <1>2, <1>3, <1>5, <1>7, <2>1, <2>2, TimedAlready DEF Load
  <1>10. QED
    BY <1>2, <1>8, <1>9 DEF TargetV2

LEMMA FourthAgrees ==
  ASSUME NEW r \in Raws[3], Load(3, r) # Rejected
  PROVE  Load(4, Lift(3, r)) = Load(3, r)
  <1> DEFINE p == With(r, "homeManagerRoot", Null)
             q == With(p, "homeManagerJournalRoot", Null)
             taken == Without(Without(q, "homeManagerRoot"), "homeManagerJournalRoot")
  <1>1. Mapping(r)
    BY RawsMapped
  <1>2. Load(3, r) = TargetV3(r) /\ ExactKeys(r, V3Fields)
    BY DEF Load, TargetV3
  <1>3. Lift(3, r) = q
    <2>1. Lift(3, r) = [r EXCEPT !.homeManagerRoot = Null,
                                 !.homeManagerJournalRoot = Null]
      BY DEF Lift
    <2>2. QED
      BY <1>1, <2>1, GivenBoth
  <1>4. /\ Mapping(p) /\ ExactKeys(p, V3Fields \cup {"homeManagerRoot"})
        /\ \A g \in Fields \ {"homeManagerRoot"} : p[g] = r[g]
        /\ p.homeManagerRoot = Null
    BY <1>1, <1>2, KeysGiven, WithField, FieldNames, TargetsAssumption
  <1> HIDE DEF p
  <1>5. /\ Mapping(q)
        /\ ExactKeys(q, V3Fields \cup {"homeManagerRoot"} \cup {"homeManagerJournalRoot"})
        /\ \A g \in Fields \ {"homeManagerJournalRoot"} : q[g] = p[g]
        /\ q.homeManagerJournalRoot = Null
    BY <1>4, KeysGiven, WithField, FieldNames, TargetsAssumption
  <1> HIDE DEF q
  <1>6. ExactKeys(q, V4Fields)
    <2>1. V4Fields = V3Fields \cup {"homeManagerRoot"} \cup {"homeManagerJournalRoot"}
      BY DEF V4Fields
    <2>2. QED
      BY <1>5, <2>1
  <1>7. /\ q.mode = r.mode /\ r.mode # "live-home-manager"
        /\ {q.homeManagerRoot, q.homeManagerJournalRoot} = {Null}
    BY <1>1, <1>2, <1>4, <1>5, ModesKnown, FieldNames
  <1>8. taken = r
    <2>1. r.homeManagerRoot = Absent /\ r.homeManagerJournalRoot = Absent
      BY <1>1, <1>2, FieldNames, FieldsMissing DEF ExactKeys, Mapping
    <2>2. Mapping(taken) /\ \A g \in Fields : taken[g] = r[g]
      <3> DEFINE first == Without(q, "homeManagerRoot")
      <3>1. /\ Mapping(first) /\ first.homeManagerRoot = Absent
            /\ \A g \in Fields \ {"homeManagerRoot"} : first[g] = q[g]
        BY <1>5, WithoutField, FieldNames
      <3>2. /\ Mapping(taken) /\ taken.homeManagerJournalRoot = Absent
            /\ \A g \in Fields \ {"homeManagerJournalRoot"} : taken[g] = first[g]
        BY <3>1, WithoutField, FieldNames
      <3> HIDE DEF first, taken
      <3>3. QED
        BY <1>4, <1>5, <2>1, <3>1, <3>2
    <2>3. QED
      BY <1>1, <2>2, MappingsAgree
  <1>9. TargetV4(q) = TargetV3(r)
    BY <1>6, <1>7, <1>8 DEF TargetV4
  <1>10. QED
    BY <1>2, <1>3, <1>9 DEF Load

LEMMA FifthAgrees ==
  ASSUME NEW r \in Raws[4], Load(4, r) # Rejected
  PROVE  Load(5, Lift(4, r)) = Load(4, r)
  <1> DEFINE q == With(r, "managedJournalRoot", Null)
  <1>1. Mapping(r)
    BY RawsMapped
  <1>2. Load(4, r) = TargetV4(r) /\ ExactKeys(r, V4Fields)
    BY DEF Load, TargetV4
  <1>3. Lift(4, r) = q
    BY DEF Lift, With
  <1>4. /\ ExactKeys(q, V4Fields \cup {"managedJournalRoot"})
        /\ q.mode = r.mode /\ q.managedJournalRoot = Null
    BY <1>1, <1>2, KeysGiven, WithField, FieldNames, TargetsAssumption
  <1>5. Without(q, "managedJournalRoot") = r
    <2>1. r.managedJournalRoot = Absent
      BY <1>1, <1>2, FieldNames, FieldsMissing DEF ExactKeys, Mapping
    <2>2. QED
      BY <1>1, <2>1, GivenAndTaken, FieldNames
  <1>6. r.mode # "live-managed"
    BY <1>1, <1>2, ModesKnown
  <1> HIDE DEF q
  <1>7. TargetV5(q) = TargetV4(r)
    BY <1>4, <1>5, <1>6 DEF TargetV5, V5Fields
  <1>8. QED
    BY <1>2, <1>3, <1>7 DEF Load

LEMMA SixthAgrees ==
  ASSUME NEW r \in Raws[5], Load(5, r) # Rejected
  PROVE  Load(6, Lift(5, r)) = Load(5, r)
  <1>1. Mapping(r)
    BY RawsMapped
  <1>2. Load(5, r) = TargetV5(r) /\ Lift(5, r) = r /\ Load(6, r) = TargetV6(r)
    BY DEF Load, Lift
  <1>3. r.mode # "live-control"
    BY <1>1, <1>2, ModesKnown
  <1>4. QED
    BY <1>2, <1>3 DEF TargetV6

LEMMA SeventhAgrees ==
  ASSUME NEW r \in Raws[6], Load(6, r) # Rejected
  PROVE  Load(7, Lift(6, r)) = Load(6, r)
  <1> DEFINE q == With(r, "flakeLockJournalRoot", Null)
  <1>1. Mapping(r)
    BY RawsMapped
  <1>2. Load(6, r) = TargetV6(r) /\ Lift(6, r) = q
    BY DEF Load, Lift, With
  <1>3. ExactKeys(r, V5Fields)
    BY <1>2 DEF TargetV6, TargetV5, ControlFits
  <1>4. /\ ExactKeys(q, V5Fields \cup {"flakeLockJournalRoot"})
        /\ q.flakeLockJournalRoot = Null
    BY <1>1, <1>3, KeysGiven, WithField, FieldNames, TargetsAssumption
  <1>5. Without(q, "flakeLockJournalRoot") = r
    <2>1. r.flakeLockJournalRoot = Absent
      BY <1>1, <1>3, FieldNames, FieldsMissing DEF ExactKeys, Mapping
    <2>2. QED
      BY <1>1, <2>1, GivenAndTaken, FieldNames
  <1> HIDE DEF q
  <1>6. TargetV7(q) = TargetV6(r)
    BY <1>2, <1>4, <1>5 DEF TargetV7, V7Fields
  <1>7. QED
    BY <1>2, <1>6 DEF Load

\* A configuration that starts keeps its meaning in the next version, whatever
\* its paths and its mode.
THEOREM SchemasAgree == Spec => []NewerSchemaAgrees
  <1>1. Started => NewerSchemaAgrees
    <2>1. SUFFICES ASSUME Started, Loaded, version < 7
                   PROVE  Load(version + 1, Lift(version, raw)) = target
      BY DEF NewerSchemaAgrees
    <2>2. /\ target = Load(version, raw) /\ Load(version, raw) # Rejected
          /\ raw \in Raws[version] /\ version \in 1 .. 6
      BY <2>1 DEF Started, Loaded
    <2>3. CASE version = 1
      BY <2>2, <2>3, SecondAgrees
    <2>4. CASE version = 2
      BY <2>2, <2>4, ThirdAgrees
    <2>5. CASE version = 3
      BY <2>2, <2>5, FourthAgrees
    <2>6. CASE version = 4
      BY <2>2, <2>6, FifthAgrees
    <2>7. CASE version = 5
      BY <2>2, <2>7, SixthAgrees
    <2>8. CASE version = 6
      BY <2>2, <2>8, SeventhAgrees
    <2>9. QED
      BY <2>2, <2>3, <2>4, <2>5, <2>6, <2>7, <2>8
  <1>2. QED
    BY <1>1, StartsWithLoaded, PTL
=============================================================================
