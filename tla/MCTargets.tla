----------------------------- MODULE MCTargets -----------------------------
(* Every raw target over a handful of paths, for each version of the schema. *)
EXTENDS Targets

MCPath == {"etc", "in-etc", "fixture", "in-fixture", "home", "in-home", "store",
           "a", "b", "c"}
MCBelow == {<<"in-etc", "etc">>, <<"in-fixture", "fixture">>,
            <<"in-home", "home">>}
MCFixture == {"fixture"}
MCEtcNixos == {"etc"}
MCUnsafe == {"store"}

Roots == {"etc", "fixture"}
Modes == DOMAIN Domain \cup {"live"}
Timeouts == {29, 300, 1801}

Since(first, v, values) == IF v >= first THEN values ELSE {Absent}

MCRaws ==
  [v \in 1 .. 7 |->
    [fixtureOnly : IF v = 1 THEN BOOLEAN ELSE {Absent},
     mode : Since(2, v, Modes),
     configurationRoot : Roots,
     journalRoot : {Null, "in-fixture", "a"},
     allowedRelativePaths : {Owned, {"configuration.nix"}},
     flakeTarget : {Null, "host"},
     testJournalRoot : Since(3, v, {Null, "in-etc", "a"}),
     testTimeoutSeconds : Since(3, v, Timeouts),
     homeManagerRoot : Since(4, v, {Null, "home", "store"}),
     homeManagerJournalRoot : Since(4, v, {Null, "in-home", "a"}),
     managedJournalRoot : Since(5, v, {Null, "in-etc", "a", "b"}),
     flakeLockJournalRoot : Since(7, v, {Null, "in-etc", "a", "b", "c"})]]
=============================================================================
