------------------------------- MODULE Gates -------------------------------
(***************************************************************************)
(* What may be asked of a helper target, decided by the dispatcher from the *)
(* target's flags alone.  A target is a record with the fields of           *)
(* HelperTarget (helper_service.py); only the flags are read here.          *)
(***************************************************************************)

AppliesPlans(t) == t.apply_enabled

AppliesHomeManager(t) ==
  (t.fixture_only /\ t.apply_enabled) \/ t.home_manager_apply_enabled

WritesManaged(t) == t.managed_write_enabled

WritesFlakeLock(t) == t.flake_lock_write_enabled

Previews(t) ==
  ~t.fixture_only /\ ~t.apply_enabled /\ ~t.home_manager_apply_enabled

Tests(t) == t.test_activation_enabled

Switches(t) == t.permanent_switch_enabled

\* The part of HelperTarget.__post_init__ that is about the flags.
FlagsFit(t) ==
  /\ t.apply_enabled => t.fixture_only
  /\ t.test_activation_enabled => ~t.fixture_only
  /\ t.home_manager_apply_enabled =>
       ~t.fixture_only /\ ~t.test_activation_enabled
  /\ t.managed_write_enabled =>
       ~t.fixture_only /\ ~t.home_manager_apply_enabled
  /\ t.permanent_switch_enabled =>
       t.test_activation_enabled /\ t.managed_write_enabled
  /\ t.flake_lock_write_enabled => t.permanent_switch_enabled
=============================================================================
