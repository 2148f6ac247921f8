-------------------------- MODULE MCTransaction --------------------------
(* Small instances of Transaction for TLC.                                  *)
EXTENDS Transaction

CONSTANTS t1, t2

\* One existing file in the root and one that is still to be created below a
\* directory that does not exist, as ncm/state.json in a fresh configuration.
MCFile == {1, 2}
MCDir == {"root", "ncm"}
MCDirOf == [f \in MCFile |-> IF f = 1 THEN "root" ELSE "ncm"]
MCOriginal == [f \in MCFile |-> IF f = 1 THEN "old" ELSE Absent]

\* The requests share the second file and its directory.
MCScope == [t \in {t1, t2} |-> IF t = t1 THEN MCFile ELSE {2}]
MCCandidate ==
  [t \in {t1, t2} |-> [f \in MCFile |-> IF t = t1 THEN "new" ELSE "other"]]
MCContent == {"old", "new", "other"}

\* An editor gives a file another content or removes it, ...
MCForeign == {"other", Absent}

\* ... or it writes what somebody else has written, too.
AllForeign == MCContent \cup {Absent}

\* A single request.
OneScope == [t \in {t1} |-> MCFile]
OneCandidate == [t \in {t1} |-> [f \in MCFile |-> "new"]]
=============================================================================
