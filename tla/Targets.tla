------------------------------ MODULE Targets ------------------------------
(***************************************************************************)
(* The configuration of the helper daemon: the seven versions of its target *)
(* schema (helper_daemon.py), the constraints every target meets whoever    *)
(* builds it (HelperTarget.__post_init__).                                  *)
(*                                                                          *)
(* A path is an abstract value; Below says which path lies in which tree.   *)
(* A target is a record with the fields of HelperTarget but for its         *)
(* identifier, whose syntax is left out.                                    *)
(*                                                                          *)
(* An operator whose name has an underscore is a slip that the code could   *)
(* have had in place of the definition that follows it.  None is reachable  *)
(* from Spec.                                                               *)
(***************************************************************************)
EXTENDS Naturals, Gates

CONSTANTS
  Path,      \* resolved absolute paths
  Below,     \* <<p, q>>: p lies strictly inside the tree of q
  Fixture,   \* the roots that carry the fixture marker
  EtcNixos,  \* the paths that end in /etc/nixos
  Unsafe,    \* "/" and what lies in /nix/store
  Null,      \* JSON null
  Absent,    \* the value of a field the raw mapping does not have
  Rejected,  \* HelperConfigurationError
  Raws       \* [version -> the raw mappings given to it]

ASSUME TargetsAssumption ==
  /\ Below \subseteq Path \X Path
  /\ \A p \in Path : <<p, p>> \notin Below
  /\ Fixture \subseteq Path /\ EtcNixos \subseteq Path /\ Unsafe \subseteq Path
  /\ Null \notin Path /\ Absent \notin Path \cup {Null}
  /\ DOMAIN Raws = 1 .. 7

\* journal == root or journal.is_relative_to(root)
Within(p, q) == p = q \/ <<p, q>> \in Below

Owned == {"ncm/state.json", "ncm/packages.nix"}

-----------------------------------------------------------------------------
(* HelperTarget and its constraints.                                        *)
Plain == [fixture_only |-> TRUE, apply_enabled |-> TRUE,
          configuration_root |-> Null, allowed_relative_paths |-> {},
          journal_root |-> Null, flake_target |-> Null,
          test_activation_enabled |-> FALSE, test_journal_root |-> Null,
          test_timeout_seconds |-> 300,
          home_manager_apply_enabled |-> FALSE, home_manager_root |-> Null,
          home_manager_journal_root |-> Null,
          managed_write_enabled |-> FALSE, managed_journal_root |-> Null,
          permanent_switch_enabled |-> FALSE,
          flake_lock_write_enabled |-> FALSE, flake_lock_journal_root |-> Null]

Live == [Plain EXCEPT !.fixture_only = FALSE, !.apply_enabled = FALSE]

HomeManagerFits(t) ==
  IF t.home_manager_apply_enabled
  THEN /\ ~t.fixture_only /\ ~t.apply_enabled /\ ~t.test_activation_enabled
       /\ Null \notin {t.home_manager_root, t.home_manager_journal_root}
       /\ ~Within(t.home_manager_journal_root, t.home_manager_root)
  ELSE {t.home_manager_root, t.home_manager_journal_root} = {Null}

ManagedFits(t) ==
  IF t.managed_write_enabled
  THEN /\ ~t.fixture_only /\ ~t.apply_enabled /\ ~t.home_manager_apply_enabled
       /\ t.managed_journal_root # Null
       /\ t.allowed_relative_paths = Owned
       /\ ~Within(t.managed_journal_root, t.configuration_root)
  ELSE t.managed_journal_root = Null

\* Slip: the third journal is compared with one of the others only.
FlakeLockFits_OneJournal(t) ==
  IF t.flake_lock_write_enabled
  THEN /\ t.permanent_switch_enabled
       /\ Null \notin {t.flake_target, t.flake_lock_journal_root}
       /\ t.flake_lock_journal_root # t.managed_journal_root
       /\ ~Within(t.flake_lock_journal_root, t.configuration_root)
  ELSE t.flake_lock_journal_root = Null

FlakeLockFits(t) ==
  IF t.flake_lock_write_enabled
  THEN /\ t.permanent_switch_enabled
       /\ Null \notin {t.flake_target, t.flake_lock_journal_root}
       /\ t.flake_lock_journal_root
            \notin {t.managed_journal_root, t.test_journal_root}
       /\ t.managed_journal_root # t.test_journal_root
       /\ ~Within(t.flake_lock_journal_root, t.configuration_root)
  ELSE t.flake_lock_journal_root = Null

PostInit(t) ==
  /\ t.allowed_relative_paths # {}
  /\ t.apply_enabled => t.fixture_only
  /\ t.test_activation_enabled => ~t.fixture_only /\ ~t.apply_enabled
  /\ t.test_activation_enabled <=> t.test_journal_root # Null
  /\ HomeManagerFits(t)
  /\ ManagedFits(t)
  /\ t.permanent_switch_enabled =>
       /\ ~t.fixture_only /\ ~t.apply_enabled
       /\ t.test_activation_enabled /\ t.managed_write_enabled
  /\ FlakeLockFits(t)
  /\ t.test_timeout_seconds \in 30 .. 1800

HelperTarget(t) == IF PostInit(t) THEN t ELSE Rejected

-----------------------------------------------------------------------------
(* The loaders.  A field of a later schema makes _exact_keys refuse.        *)
V1Fields == {"fixtureOnly", "configurationRoot", "journalRoot",
             "allowedRelativePaths", "flakeTarget"}
V2Fields == (V1Fields \ {"fixtureOnly"}) \cup {"mode"}
V3Fields == V2Fields \cup {"testJournalRoot", "testTimeoutSeconds"}
V4Fields == V3Fields \cup {"homeManagerRoot", "homeManagerJournalRoot"}
V5Fields == V4Fields \cup {"managedJournalRoot"}
V7Fields == V5Fields \cup {"flakeLockJournalRoot"}

\* A raw mapping has a value, or Absent, for every field of any version, and the
\* values that the next version starts with are values.
ASSUME RawsAssumption ==
  /\ \A v \in 1 .. 7 : \A r \in Raws[v] :
       r = [f \in V1Fields \cup V7Fields |-> r[f]]
  /\ Absent \notin {"fixture", 300}

ExactKeys(raw, fields) == \A f \in DOMAIN raw : raw[f] # Absent <=> f \in fields

\* _absolute_path refuses null: a field read by it holds a path.
TimeoutFits(raw) == raw.testTimeoutSeconds \in 30 .. 1800

FixtureOf(raw) ==
  IF /\ raw.journalRoot \in Path
     /\ ~Within(raw.journalRoot, raw.configurationRoot)
     /\ raw.configurationRoot \in Fixture
  THEN HelperTarget(
         [Plain EXCEPT !.configuration_root = raw.configurationRoot,
                       !.journal_root = raw.journalRoot,
                       !.allowed_relative_paths = raw.allowedRelativePaths,
                       !.flake_target = raw.flakeTarget])
  ELSE Rejected

LiveOf(raw) ==
  [Live EXCEPT !.configuration_root = raw.configurationRoot,
               !.allowed_relative_paths = raw.allowedRelativePaths,
               !.flake_target = raw.flakeTarget]

Timed(t, raw) ==
  IF t = Rejected THEN t
  ELSE [t EXCEPT !.test_timeout_seconds = raw.testTimeoutSeconds]

TimedLive(raw) ==
  [LiveOf(raw) EXCEPT !.test_timeout_seconds = raw.testTimeoutSeconds]

TargetV1(raw) ==
  IF ExactKeys(raw, V1Fields) /\ raw.fixtureOnly = TRUE
  THEN FixtureOf(raw)
  ELSE Rejected

TargetV2(raw) ==
  IF ~ExactKeys(raw, V2Fields)
  THEN Rejected
  ELSE CASE raw.mode = "fixture" -> FixtureOf(raw)
        [] raw.mode = "live-read-only" /\ raw.journalRoot = Null ->
             HelperTarget(LiveOf(raw))
        [] OTHER -> Rejected

TargetV3(raw) ==
  IF ~ExactKeys(raw, V3Fields) \/ ~TimeoutFits(raw)
  THEN Rejected
  ELSE CASE raw.mode = "fixture" /\ raw.testJournalRoot = Null ->
             Timed(FixtureOf(raw), raw)
        [] /\ raw.mode = "live-read-only"
           /\ {raw.journalRoot, raw.testJournalRoot} = {Null} ->
             Timed(HelperTarget(LiveOf(raw)), raw)
        [] /\ raw.mode = "live-test" /\ raw.journalRoot = Null
           /\ raw.testJournalRoot \in Path
           /\ ~Within(raw.testJournalRoot, raw.configurationRoot) ->
             HelperTarget([TimedLive(raw) EXCEPT
                             !.test_activation_enabled = TRUE,
                             !.test_journal_root = raw.testJournalRoot])
        [] OTHER -> Rejected

Without(raw, f) == [raw EXCEPT ![f] = Absent]

HomeManagerOf(raw) ==
  IF /\ {raw.journalRoot, raw.testJournalRoot} = {Null}
     /\ TimeoutFits(raw)
     /\ {raw.homeManagerRoot, raw.homeManagerJournalRoot} \subseteq Path
     /\ raw.homeManagerRoot \notin Unsafe
     /\ ~Within(raw.homeManagerJournalRoot, raw.homeManagerRoot)
  THEN HelperTarget([TimedLive(raw) EXCEPT
                       !.home_manager_apply_enabled = TRUE,
                       !.home_manager_root = raw.homeManagerRoot,
                       !.home_manager_journal_root = raw.homeManagerJournalRoot])
  ELSE Rejected

TargetV4(raw) ==
  IF ~ExactKeys(raw, V4Fields) THEN Rejected
  ELSE CASE raw.mode = "live-home-manager" -> HomeManagerOf(raw)
         [] OTHER -> IF {raw.homeManagerRoot, raw.homeManagerJournalRoot} = {Null}
                     THEN TargetV3(Without(Without(raw, "homeManagerRoot"),
                                           "homeManagerJournalRoot"))
                     ELSE Rejected

ManagedOf(raw) ==
  IF /\ {raw.journalRoot, raw.testJournalRoot, raw.homeManagerRoot,
         raw.homeManagerJournalRoot} = {Null}
     /\ raw.configurationRoot \in EtcNixos
     /\ raw.managedJournalRoot \in Path
     /\ ~Within(raw.managedJournalRoot, raw.configurationRoot)
     /\ raw.allowedRelativePaths = Owned
     /\ TimeoutFits(raw)
  THEN HelperTarget([TimedLive(raw) EXCEPT
                       !.managed_write_enabled = TRUE,
                       !.managed_journal_root = raw.managedJournalRoot])
  ELSE Rejected

\* Slip: the new field is not taken out before the older loader reads the rest.
TargetV5_KeepsField(raw) ==
  IF ~ExactKeys(raw, V5Fields) THEN Rejected
  ELSE CASE raw.mode = "live-managed" -> ManagedOf(raw)
         [] OTHER -> IF raw.managedJournalRoot = Null
                     THEN TargetV4(raw)
                     ELSE Rejected

TargetV5(raw) ==
  IF ~ExactKeys(raw, V5Fields) THEN Rejected
  ELSE CASE raw.mode = "live-managed" -> ManagedOf(raw)
         [] OTHER -> IF raw.managedJournalRoot = Null
                     THEN TargetV4(Without(raw, "managedJournalRoot"))
                     ELSE Rejected

ControlFits(raw) ==
  /\ ExactKeys(raw, V5Fields)
  /\ {raw.journalRoot, raw.homeManagerRoot, raw.homeManagerJournalRoot} = {Null}
  /\ raw.configurationRoot \in EtcNixos
  /\ \A journal \in {raw.testJournalRoot, raw.managedJournalRoot} :
       journal \in Path /\ ~Within(journal, raw.configurationRoot)
  /\ raw.testJournalRoot # raw.managedJournalRoot
  /\ raw.allowedRelativePaths = Owned
  /\ TimeoutFits(raw)

ControlOf(raw) ==
  HelperTarget([TimedLive(raw) EXCEPT
                  !.test_activation_enabled = TRUE,
                  !.test_journal_root = raw.testJournalRoot,
                  !.managed_write_enabled = TRUE,
                  !.managed_journal_root = raw.managedJournalRoot,
                  !.permanent_switch_enabled = TRUE])

TargetV6(raw) ==
  CASE raw.mode # "live-control" -> TargetV5(raw)
    [] raw.mode = "live-control" /\ ControlFits(raw) -> ControlOf(raw)
    [] OTHER -> Rejected

\* Slip: replace() is called for any mode that loads.
TargetV7_AnyMode(raw) ==
  LET base == TargetV6(Without(raw, "flakeLockJournalRoot"))
  IN  IF ~ExactKeys(raw, V7Fields) \/ base = Rejected THEN Rejected
      ELSE IF raw.flakeLockJournalRoot = Null THEN base
      ELSE [base EXCEPT !.flake_lock_write_enabled = TRUE,
                        !.flake_lock_journal_root = raw.flakeLockJournalRoot]

TargetV7(raw) ==
  LET base == TargetV6(Without(raw, "flakeLockJournalRoot"))
  IN  IF ~ExactKeys(raw, V7Fields) \/ base = Rejected THEN Rejected
      ELSE IF raw.flakeLockJournalRoot = Null THEN base
      ELSE IF raw.mode # "live-control" THEN Rejected
      ELSE HelperTarget([base EXCEPT
                           !.flake_lock_write_enabled = TRUE,
                           !.flake_lock_journal_root = raw.flakeLockJournalRoot])

Load(v, raw) ==
  CASE v = 1 -> TargetV1(raw) [] v = 2 -> TargetV2(raw) [] v = 3 -> TargetV3(raw)
    [] v = 4 -> TargetV4(raw) [] v = 5 -> TargetV5(raw) [] v = 6 -> TargetV6(raw)
    [] v = 7 -> TargetV7(raw)

-----------------------------------------------------------------------------
(* The daemon reads its configuration once, when it starts.                 *)
VARIABLES version, raw, target
vars == <<version, raw, target>>

Init ==
  /\ version \in 1 .. 7
  /\ raw \in Raws[version]
  /\ target = Null

Start ==
  /\ target = Null
  /\ target' = Load(version, raw)
  /\ UNCHANGED <<version, raw>>

Next == Start

Spec == Init /\ [][Next]_vars

-----------------------------------------------------------------------------
(* Properties of what starts.                                               *)
Loaded == target \notin {Null, Rejected}

\* What is left of a version's schema in the next one: the same target with
\* the new fields set to null.
Lift(v, r) ==
  CASE v = 1 -> [Without(r, "fixtureOnly") EXCEPT !.mode = "fixture"]
    [] v = 2 -> [r EXCEPT !.testJournalRoot = Null, !.testTimeoutSeconds = 300]
    [] v = 3 -> [r EXCEPT !.homeManagerRoot = Null,
                          !.homeManagerJournalRoot = Null]
    [] v = 4 -> [r EXCEPT !.managedJournalRoot = Null]
    [] v = 5 -> r
    [] v = 6 -> [r EXCEPT !.flakeLockJournalRoot = Null]

\* The writing operations docs/helper-protocol.md gives each mode.  A target
\* of version 1 has no mode and is a fixture.
Domain ==
  [mode \in {"fixture", "live-read-only", "live-test", "live-home-manager",
            "live-managed", "live-control"} |->
     CASE mode = "fixture" -> {"plan", "home-manager"}
       [] mode = "live-read-only" -> {}
       [] mode = "live-test" -> {"test"}
       [] mode = "live-home-manager" -> {"home-manager"}
       [] mode = "live-managed" -> {"managed"}
       [] mode = "live-control" -> {"managed", "test", "switch"}]

Permitted(t) ==
  {op \in {"plan", "home-manager", "managed", "flake-lock", "test", "switch"} :
     CASE op = "plan" -> AppliesPlans(t)
       [] op = "home-manager" -> AppliesHomeManager(t)
       [] op = "managed" -> WritesManaged(t)
       [] op = "flake-lock" -> WritesFlakeLock(t)
       [] op = "test" -> Tests(t)
       [] op = "switch" -> Switches(t)}

\* Whatever the version of the schema, a target that starts may write exactly
\* what its mode allows, and flake.lock exactly when it names a journal for it:
\* no combination of fields opens a second domain ("a separate capability
\* domain", docs/helper-protocol.md; the loaders of helper_daemon.py chain
\* into each other and HelperTarget has a dozen interacting flags).
ModeDecides ==
  Loaded =>
    LET mode == IF version = 1 THEN "fixture" ELSE raw.mode
        lock == IF /\ mode = "live-control" /\ version = 7
                   /\ raw.flakeLockJournalRoot # Null
                THEN {"flake-lock"} ELSE {}
    IN  Permitted(target) = Domain[mode] \cup lock

\* No journal of a target that starts lies in the tree whose transactions it
\* records, and the three journals of one target are three directories: a
\* journal inside its root would be part of the plan it journals.
JournalsApart ==
  Loaded =>
    /\ \A journal \in {target.journal_root, target.test_journal_root,
                       target.managed_journal_root,
                       target.flake_lock_journal_root} \ {Null} :
         ~Within(journal, target.configuration_root)
    /\ target.home_manager_journal_root # Null =>
         ~Within(target.home_manager_journal_root, target.home_manager_root)
    /\ \A f, g \in {"test_journal_root", "managed_journal_root",
                    "flake_lock_journal_root"} :
         f # g /\ target[f] # Null => target[f] # target[g]

\* A configuration that starts keeps its meaning when it is rewritten for the
\* next version of the schema with the new fields null: upgrading the module
\* never widens or narrows what the helper may do.
NewerSchemaAgrees ==
  Loaded /\ version < 7 => Load(version + 1, Lift(version, raw)) = target
=============================================================================
