------------------------------ MODULE MCServer ------------------------------
(* Small instances of Server for TLC, one for each question.                 *)
EXTENDS Server

CONSTANTS t1, t2

None == [builds |-> 0, homes |-> 0, previews |-> 0, intents |-> 0, versions |-> 1,
         threads |-> {}, kinds |-> {}, faults |-> FALSE, cancel |-> FALSE, close |-> FALSE]

MCQuotas ==
  { \* a lock update revokes a build, and the next build is started
    [None EXCEPT !.builds = 2, !.previews = 1, !.intents = 1, !.versions = 2,
                 !.threads = {t1}, !.kinds = {"update"}],
    \* the same with one build, failures and requests to cancel
    [None EXCEPT !.builds = 1, !.previews = 1, !.intents = 1, !.versions = 2,
                 !.threads = {t1}, !.kinds = {"update"},
                 !.faults = TRUE, !.cancel = TRUE],
    \* two requests compete for confirmations
    [None EXCEPT !.previews = 1, !.intents = 2, !.versions = 3,
                 !.threads = {t1, t2}, !.kinds = {"update"}, !.cancel = TRUE],
    [None EXCEPT !.intents = 2, !.versions = 3, !.threads = {t1, t2},
                 !.kinds = {"managed", "home"}],
    \* previews of a source that goes on changing, one of them forgotten
    [None EXCEPT !.previews = 2, !.intents = 1, !.versions = 3,
                 !.threads = {t1}, !.kinds = {"update"}, !.cancel = TRUE],
    [None EXCEPT !.previews = 3, !.intents = 1, !.versions = 2,
                 !.threads = {t1}, !.kinds = {"update"}],
    \* a system is activated while the source changes
    [None EXCEPT !.builds = 2, !.versions = 2, !.threads = {t1},
                 !.kinds = {"activation"}],
    [None EXCEPT !.builds = 1, !.versions = 2, !.threads = {t1, t2},
                 !.kinds = {"activation"}],
    \* jobs that fail and are cancelled, and a server that is closed
    [None EXCEPT !.builds = 2, !.faults = TRUE, !.cancel = TRUE, !.close = TRUE],
    [None EXCEPT !.homes = 2, !.faults = TRUE, !.cancel = TRUE, !.close = TRUE],
    [None EXCEPT !.builds = 1, !.homes = 1, !.previews = 1, !.close = TRUE] }
=============================================================================
