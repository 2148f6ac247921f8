----------------------------- MODULE AtomicApply -----------------------------
(***************************************************************************)
(* What a journalled transaction promises (docs/apply-protocol.md), without  *)
(* a word about journals, locks, backups, stages or crashes: the files of a   *)
(* plan are written one by one while the transaction is open; it ends         *)
(* committed with all of them new, or undone with all of them old; files that *)
(* somebody else has written meanwhile are theirs and excepted.  A            *)
(* transaction that has ended writes nothing any more.                       *)
(***************************************************************************)
CONSTANTS Txn, File

VARIABLES
  scope,    \* [Txn -> SUBSET File]: the files of its plan, {} without a plan
  outcome,  \* [Txn -> {"none", "open", "committed", "undone"}]
  view      \* [Txn -> [File -> {"old", "new", "theirs"}]]

vars == <<scope, outcome, view>>

Init ==
  /\ scope = [t \in Txn |-> {}]
  /\ outcome = [t \in Txn |-> "none"]
  /\ view = [t \in Txn |-> [f \in File |-> "old"]]

Plan(t) ==
  /\ outcome[t] = "none" /\ scope[t] = {}
  /\ \E S \in SUBSET File : scope' = [scope EXCEPT ![t] = S]
  /\ UNCHANGED <<outcome, view>>

Begin(t) ==
  /\ outcome[t] = "none" /\ \A f \in scope[t] : view[t][f] # "new"
  /\ outcome' = [outcome EXCEPT ![t] = "open"]
  /\ UNCHANGED <<scope, view>>

\* Whoever writes a file takes it away from others.
TakenFrom(others, f) ==
  [u \in Txn |-> IF u \in others THEN [view[u] EXCEPT ![f] = "theirs"] ELSE view[u]]

\* The one transaction that writes installs a file or puts it back.
Write(t, f) ==
  /\ outcome[t] = "open" /\ f \in scope[t]
  /\ \E others \in SUBSET (Txn \ {t}), new \in {"old", "new"} :
       view' = [TakenFrom(others, f) EXCEPT
                  ![t][f] = IF @ = "theirs" THEN @ ELSE new]
  /\ UNCHANGED <<scope, outcome>>

Outside(f) ==
  /\ \E others \in SUBSET Txn : view' = TakenFrom(others, f)
  /\ UNCHANGED <<scope, outcome>>

Commit(t) ==
  /\ outcome[t] = "open" /\ \A f \in scope[t] : view[t][f] # "old"
  /\ outcome' = [outcome EXCEPT ![t] = "committed"]
  /\ UNCHANGED <<scope, view>>

Undo(t) ==
  /\ outcome[t] = "open" /\ \A f \in scope[t] : view[t][f] # "new"
  /\ outcome' = [outcome EXCEPT ![t] = "undone"]
  /\ UNCHANGED <<scope, view>>

Next ==
  \/ \E t \in Txn : \/ Plan(t) \/ Begin(t) \/ Commit(t) \/ Undo(t)
                    \/ \E f \in File : Write(t, f)
  \/ \E f \in File : Outside(f)

Spec == Init /\ [][Next]_vars
=============================================================================
