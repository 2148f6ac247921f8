----------------------------- MODULE MCHelper -----------------------------
(* Small instances of Helper for TLC.  The targets are those that the modes  *)
(* fixture, live-home-manager and live-control of a configuration load to.   *)
EXTENDS Helper

Off == [fixture_only |-> FALSE, apply_enabled |-> FALSE,
        test_activation_enabled |-> FALSE, home_manager_apply_enabled |-> FALSE,
        managed_write_enabled |-> FALSE, permanent_switch_enabled |-> FALSE,
        flake_lock_write_enabled |-> FALSE]

MCFlags ==
  [t \in Target |->
     CASE t = "fixture" ->
            [Off EXCEPT !.fixture_only = TRUE, !.apply_enabled = TRUE]
       [] t = "home" -> [Off EXCEPT !.home_manager_apply_enabled = TRUE]
       [] t = "control" ->
            [Off EXCEPT !.test_activation_enabled = TRUE,
                        !.managed_write_enabled = TRUE,
                        !.permanent_switch_enabled = TRUE,
                        !.flake_lock_write_enabled = TRUE]]

MCUidOf == [c \in Client |-> IF c = "ann's" THEN "ann" ELSE "bob"]

\* An authorizer that knows every action of the protocol.
AllActions == ApplyOps \cup RecoverOps \cup {"preview-activation"}
=============================================================================
