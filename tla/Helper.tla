------------------------------- MODULE Helper -------------------------------
(***************************************************************************)
(* The privileged helper daemon: its socket (helper_transport.py), the      *)
(* dispatcher with its validation receipts (helper_service.py), the         *)
(* authorizer (polkit_authorizer.py) and the plans that the backends keep   *)
(* between a validation and the apply it allows (fixture_helper_backend.py, *)
(* managed_helper_backend.py, flake_lock_helper_backend.py, routed by       *)
(* live_read_only_backend.py).                                              *)
(*                                                                          *)
(* The daemon has one thread.  It accepts one connection, waits for a frame *)
(* as long as the connection stays open, answers it and takes the next.     *)
(* Meanwhile receipts grow old, clients give up without the daemon knowing, *)
(* and systemd restarts a daemon that died: the receipts and plans are lost *)
(* with it, the connections that wait in the socket are not.                *)
(*                                                                          *)
(* Left out: the contents of plans (a plan stands for its fingerprint, its  *)
(* files and its system path: the backends accept no two payloads with one  *)
(* fingerprint), what an apply does to the files (module Transaction) and a *)
(* session call to the system (module Activation).                          *)
(*                                                                          *)
(* An operator whose name has an underscore is a slip that the code could   *)
(* have had in place of the definition that follows it.  None is reachable  *)
(* from Spec.                                                               *)
(***************************************************************************)
EXTENDS Naturals, Sequences, Gates

CONSTANTS
  Client,       \* processes that talk to the helper
  Uid,
  UidOf,        \* [Client -> Uid]: the peer credentials of each
  Target,       \* the targets of the configuration
  Flags,        \* [Target -> the flags of HelperTarget]
  Plan,
  Answerable,   \* the Polkit actions the authorizer knows
  None,
  MaxReceipts,  \* bound on the receipts one daemon issues
  MaxQueue      \* bound on the connections that wait to be accepted (the code: 8)

ASSUME HelperAssumption ==
  /\ UidOf \in [Client -> Uid]
  /\ DOMAIN Flags = Target
  /\ \A t \in Target : FlagsFit(Flags[t])
  /\ MaxReceipts \in Nat /\ MaxQueue \in Nat \ {0}

VARIABLES
  queue,     \* connections not yet accepted, in their order
  serving,   \* the connection being served, or None
  phase,     \* where the daemon is: "accept", "pkcheck", "act", "reply"
  request,   \* the request that waits for pkcheck or a backend, or None
  asked,     \* the action pkcheck was asked about for it, or None
  answer,    \* the status of its answer, or None
  receipts,  \* history: what each receipt was issued for, in order of issue
  pending,   \* the five tables of pending receipts
  late,      \* the pending receipts whose expires_at has passed
  prepared   \* the plans the backends keep

socket == <<queue, serving>>
handling == <<phase, request, asked, answer>>
tables == <<receipts, pending, late, prepared>>
vars == <<socket, handling, tables>>

-----------------------------------------------------------------------------
(* Requests.                                                                *)
ApplyOps == {"apply-validated-plan", "apply-validated-home-manager-plan",
             "apply-validated-managed-plan", "apply-validated-flake-lock-update",
             "test-activation"}

RecoverOps == {"recover-transaction", "recover-home-manager-transaction",
               "recover-managed-transaction", "recover-flake-lock-transaction",
               "recover-test-activation", "commit-tested-system",
               "rollback-committed-system"}

ValidateOps == {"validate-plan", "validate-home-manager-plan",
                "validate-managed-plan", "validate-flake-lock-update"}

OtherOps == {"capabilities", "activation-session-status"}

ValidateRequests(uid) ==
  [op : ValidateOps \cup {"preview-activation"}, target : Target, plan : Plan,
   receipt : {0}, uid : {uid}]

\* The receipt of a request may be any that this daemon issued, to whomever,
\* or one that it does not know: 0.
ApplyRequests(uid) ==
  [op : ApplyOps, target : Target, plan : Plan,
   receipt : {0} \cup DOMAIN receipts, uid : {uid}]

RecoverRequests(uid) ==
  [op : RecoverOps \cup OtherOps, target : Target, plan : {None},
   receipt : {0}, uid : {uid}]

Requests(uid) ==
  ValidateRequests(uid) \cup ApplyRequests(uid) \cup RecoverRequests(uid)

KindOf == [op \in ApplyOps |->
             CASE op = "apply-validated-plan" -> "plan"
               [] op = "apply-validated-home-manager-plan" -> "home-manager"
               [] op = "apply-validated-managed-plan" -> "managed"
               [] op = "apply-validated-flake-lock-update" -> "flake-lock"
               [] op = "test-activation" -> "test"]

TargetOf(r) == Flags[r.target]

-----------------------------------------------------------------------------
(* Connections.                                                             *)
Conn == [from : Client, sent : BOOLEAN, open : BOOLEAN]

\* None is neither a connection nor a request.
ASSUME NoneAssumption ==
  /\ None \notin Conn
  /\ None \notin [op : ValidateOps \cup ApplyOps \cup RecoverOps \cup OtherOps
                          \cup {"preview-activation"},
                  target : Target, plan : Plan \cup {None}, receipt : Nat,
                  uid : Uid]

Init ==
  /\ queue = <<>> /\ serving = None
  /\ phase = "accept" /\ request = None /\ asked = None /\ answer = None
  /\ receipts = <<>> /\ pending = {} /\ late = {} /\ prepared = {}

Conns == {queue[i] : i \in DOMAIN queue} \cup ({serving} \ {None})

\* A client that still waits on its connection.
Busy(c) == \E conn \in Conns : conn.from = c /\ conn.open

Waits(c) == \E conn \in Conns : conn.from = c /\ conn.open /\ conn.sent

Connect(c) ==
  /\ ~Busy(c)
  /\ Len(queue) < MaxQueue
  /\ queue' = Append(queue, [from |-> c, sent |-> FALSE, open |-> TRUE])
  /\ UNCHANGED <<serving, handling, tables>>

\* A connection when its client c has sent its frame, or has gone away.
Sent(c, conn) ==
  IF conn.from = c /\ conn.open THEN [conn EXCEPT !.sent = TRUE] ELSE conn

Left(c, conn) ==
  IF conn.from = c /\ conn.open THEN [conn EXCEPT !.open = FALSE] ELSE conn

Send(c) ==
  /\ Busy(c) /\ ~Waits(c)
  /\ queue' = [i \in DOMAIN queue |-> Sent(c, queue[i])]
  /\ serving' = IF serving = None THEN None ELSE Sent(c, serving)
  /\ UNCHANGED <<handling, tables>>

\* The client's timeout, or its end.
Leave(c) ==
  /\ Busy(c)
  /\ queue' = [i \in DOMAIN queue |-> Left(c, queue[i])]
  /\ serving' = IF serving = None THEN None ELSE Left(c, serving)
  /\ UNCHANGED <<handling, tables>>

-----------------------------------------------------------------------------
(* Receipts and the plans behind them.                                      *)
PlanBackend(t) == IF t.fixture_only THEN "fixture" ELSE "live"

HomeManagerBackend(t) ==
  IF t.fixture_only \/ t.home_manager_apply_enabled THEN "fixture" ELSE "live"

Route(kind, t) ==
  CASE kind = "plan" -> PlanBackend(t)
    [] kind = "home-manager" -> HomeManagerBackend(t)
    [] kind = "managed" -> "managed"
    [] kind = "flake-lock" -> "flake-lock"
    [] kind = "test" -> "live"

\* Where a backend keeps the plan of a receipt, or would for a request.
Key(r) == [backend |-> Route(r.kind, Flags[r.target]), kind |-> r.kind,
           target |-> r.target, plan |-> r.plan, uid |-> r.uid]

\* What a receipt of some workflow says that is issued for a request.
Grants(kind, r) == [kind |-> kind, target |-> r.target, plan |-> r.plan,
                    uid |-> r.uid]

\* Every request begins by pruning the receipts: these stay.
\* Slip: one of the five tables is not looked at.
Unexpired_NoTests == pending \ {i \in late : receipts[i].kind # "test"}

Unexpired == pending \ late

\* The discard of an expired receipt goes to the backend that has its plan.
\* Slip: managed plans are discarded like adoption plans.
Discarded_WrongRoute ==
  {[Key(receipts[i]) EXCEPT !.backend =
      IF receipts[i].kind = "managed"
      THEN PlanBackend(Flags[receipts[i].target]) ELSE @] : i \in late}

\* Slip: the plan goes for every user who validated it.
Discarded_EveryUid ==
  {k \in prepared : \E i \in late : k = [Key(receipts[i]) EXCEPT !.uid = k.uid]}

Discarded == {Key(receipts[i]) : i \in late}

Kept == prepared \ Discarded

Prune ==
  /\ pending' = Unexpired
  /\ late' = late \cap Unexpired
  /\ prepared' = Kept
  /\ UNCHANGED receipts

\* Slip: a receipt that nobody issued is not told from one that fits.
Matches_Unknown(kind, r) ==
  r.receipt \in Unexpired => receipts[r.receipt] = Grants(kind, r)

\* Slip: whoever holds a receipt may use it.
Matches_AnyUid(kind, r) ==
  /\ r.receipt \in Unexpired
  /\ receipts[r.receipt] = [Grants(kind, r) EXCEPT !.uid = receipts[r.receipt].uid]

Matches(kind, r) ==
  /\ r.receipt \in Unexpired
  /\ receipts[r.receipt] = Grants(kind, r)

\* All receipts live equally long: they expire in the order of their issue.
Expire ==
  \E r \in pending \ late :
    /\ \A q \in pending \ late : r <= q
    /\ late' = late \cup {r}
    /\ UNCHANGED <<socket, handling, receipts, pending, prepared>>

-----------------------------------------------------------------------------
(* Answering and authorizing.                                               *)
Answer(status) ==
  /\ phase' = "reply" /\ answer' = status
  /\ request' = None /\ asked' = None

Refuse(status) == Answer(status) /\ Prune

PolkitActions == {"apply-validated-plan", "commit-tested-system",
                  "apply-validated-home-manager-plan",
                  "recover-home-manager-transaction",
                  "apply-validated-managed-plan", "recover-managed-transaction",
                  "preview-activation", "recover-transaction",
                  "test-activation", "recover-test-activation",
                  "rollback-committed-system"}

\* The authorizer refuses at once an action that it does not know and a peer
\* that is gone; it asks pkcheck about the rest.
Authorize(action, r) ==
  \/ /\ action \notin Answerable \/ ~serving.open
     /\ Refuse("denied")
  \/ /\ action \in Answerable
     /\ phase' = "pkcheck" /\ asked' = action /\ request' = r
     /\ Prune
     /\ UNCHANGED answer

\* pkcheck says no, cannot be run or is not answered in time.
Deny ==
  /\ phase = "pkcheck"
  /\ Answer("denied")
  /\ UNCHANGED <<socket, tables>>

\* Slip: the receipt is only taken out of its table once the apply succeeded.
Grant_KeepsReceipt ==
  /\ phase = "pkcheck" /\ request.op \notin RecoverOps
  /\ phase' = "act"
  /\ UNCHANGED <<socket, request, asked, answer, tables>>

\* A receipt leaves its table as soon as its use is granted.
Grant ==
  /\ phase = "pkcheck" /\ request.op \notin RecoverOps
  /\ phase' = "act"
  /\ pending' = pending \ {request.receipt}
  /\ late' = late \ {request.receipt}
  /\ UNCHANGED <<socket, request, asked, answer, receipts, prepared>>

-----------------------------------------------------------------------------
(* Validations.  A backend that validates a plan keeps it for the apply.    *)
Issue(kind, r, before) ==
  /\ Len(receipts) < MaxReceipts
  /\ receipts' = Append(receipts, Grants(kind, r))
  /\ pending' = before \cup {Len(receipts) + 1}
  /\ late' = late \cap before

Receipt(kind, r) ==
  /\ prepared' = Kept \cup {Key(Grants(kind, r))}
  /\ Issue(kind, r, Unexpired)
  /\ Answer("ok")

PreparePlan(r) ==
  PlanBackend(TargetOf(r)) = "fixture" /\ Receipt("plan", r)

ReadOnlyPlan(r) == PlanBackend(TargetOf(r)) = "live" /\ Refuse("ok")

ValidatePlan(r) ==
  /\ r.op = "validate-plan"
  /\ \/ Refuse("error")
     \/ AppliesPlans(TargetOf(r)) /\ PreparePlan(r)
     \/ ~AppliesPlans(TargetOf(r)) /\ ReadOnlyPlan(r)

PrepareHomeManager(r) ==
  HomeManagerBackend(TargetOf(r)) = "fixture" /\ Receipt("home-manager", r)

ValidateHomeManager(r) ==
  /\ r.op = "validate-home-manager-plan"
  /\ \/ Refuse("error")
     \/ AppliesHomeManager(TargetOf(r)) /\ PrepareHomeManager(r)

PrepareManaged(r) == Receipt("managed", r)

ValidateManaged(r) ==
  /\ r.op = "validate-managed-plan"
  /\ \/ Refuse("error")
     \/ WritesManaged(TargetOf(r)) /\ PrepareManaged(r)

PrepareFlakeLock(r) == Receipt("flake-lock", r)

ValidateFlakeLock(r) ==
  /\ r.op = "validate-flake-lock-update"
  /\ \/ Refuse("error")
     \/ WritesFlakeLock(TargetOf(r)) /\ PrepareFlakeLock(r)

-----------------------------------------------------------------------------
(* Applies: gate, receipt, authorization; then the backend.                 *)
Redeem(permitted, kind, action, r) ==
  \/ ~permitted /\ Refuse("error")
  \/ permitted /\ ~Matches(kind, r) /\ Refuse("error")
  \/ permitted /\ Matches(kind, r) /\ Authorize(action, r)

ApplyPlan(r) ==
  /\ r.op = "apply-validated-plan"
  /\ Redeem(AppliesPlans(TargetOf(r)), "plan", "apply-validated-plan", r)

ApplyHomeManager(r) ==
  /\ r.op = "apply-validated-home-manager-plan"
  /\ Redeem(AppliesHomeManager(TargetOf(r)), "home-manager",
            "apply-validated-home-manager-plan", r)

ApplyManaged(r) ==
  /\ r.op = "apply-validated-managed-plan"
  /\ Redeem(WritesManaged(TargetOf(r)), "managed",
            "apply-validated-managed-plan", r)

ApplyFlakeLock(r) ==
  /\ r.op = "apply-validated-flake-lock-update"
  /\ Redeem(WritesFlakeLock(TargetOf(r)), "flake-lock",
            "apply-validated-flake-lock-update", r)

TestActivation(r) ==
  /\ r.op = "test-activation"
  /\ Redeem(Tests(TargetOf(r)), "test", "test-activation", r)

Acts(op) == phase = "act" /\ request.op = op

\* A backend answers "validated-plan-missing" when it has no plan; if it has one
\* it takes it out of its table whatever comes of the apply.
Take(kind) ==
  LET key == Key(Grants(kind, request))
  IN  /\ \/ Answer("error")
         \/ key \in prepared /\ Answer("ok")
      /\ prepared' = prepared \ {key}
      /\ UNCHANGED <<receipts, pending, late>>

WritePlan == Acts("apply-validated-plan") /\ Take("plan")

WriteHomeManager ==
  Acts("apply-validated-home-manager-plan") /\ Take("home-manager")

WriteManaged == Acts("apply-validated-managed-plan") /\ Take("managed")

WriteFlakeLock ==
  Acts("apply-validated-flake-lock-update") /\ Take("flake-lock")

Ends == (\E status \in {"ok", "error"} : Answer(status)) /\ UNCHANGED tables

RunTest == Acts("test-activation") /\ Ends

-----------------------------------------------------------------------------
(* Dry activation: authorized first, and a receipt for a test afterwards.   *)
PreviewActivation(r) ==
  /\ r.op = "preview-activation"
  /\ \/ Refuse("error")
     \/ Previews(TargetOf(r)) /\ Authorize("preview-activation", r)

RunPreview ==
  /\ Acts("preview-activation")
  /\ \/ Answer("error") /\ UNCHANGED tables
     \/ ~Tests(TargetOf(request)) /\ Answer("ok") /\ UNCHANGED tables
     \/ /\ Tests(TargetOf(request))
        /\ Issue("test", request, pending)
        /\ Answer("ok")
        /\ UNCHANGED prepared

-----------------------------------------------------------------------------
(* Recoveries and sessions: gate and authorization, no receipt.             *)
Privileged(permitted, action, r) ==
  \/ Refuse("error")
  \/ permitted /\ Authorize(action, r)

Recover(r) ==
  /\ r.op = "recover-transaction"
  /\ Privileged(AppliesPlans(TargetOf(r)), "recover-transaction", r)

RecoverHomeManager(r) ==
  /\ r.op = "recover-home-manager-transaction"
  /\ Privileged(AppliesHomeManager(TargetOf(r)),
                "recover-home-manager-transaction", r)

RecoverManaged(r) ==
  /\ r.op = "recover-managed-transaction"
  /\ Privileged(WritesManaged(TargetOf(r)), "recover-managed-transaction", r)

RecoverFlakeLock(r) ==
  /\ r.op = "recover-flake-lock-transaction"
  /\ Privileged(WritesFlakeLock(TargetOf(r)), "recover-flake-lock-transaction", r)

RecoverTest(r) ==
  /\ r.op = "recover-test-activation"
  /\ Privileged(Tests(TargetOf(r)), "recover-test-activation", r)

CommitTested(r) ==
  /\ r.op = "commit-tested-system"
  /\ Privileged(Switches(TargetOf(r)), "commit-tested-system", r)

RollbackCommitted(r) ==
  /\ r.op = "rollback-committed-system"
  /\ Privileged(Switches(TargetOf(r)), "rollback-committed-system", r)

\* Granted, the recovery or session call runs and changes nothing here.
RunRecovery == phase = "pkcheck" /\ request.op \in RecoverOps /\ Ends

Status(r) ==
  /\ r.op = "activation-session-status"
  /\ \/ Refuse("error")
     \/ Switches(TargetOf(r)) /\ Refuse("ok")

Capabilities(r) == r.op = "capabilities" /\ Refuse("ok")

-----------------------------------------------------------------------------
(* Requests come in and answers go out.                                     *)
Accept ==
  /\ phase = "accept" /\ serving = None /\ queue # <<>>
  /\ serving' = Head(queue)
  /\ queue' = Tail(queue)
  /\ UNCHANGED <<handling, tables>>

\* An empty frame, or one that is no request: nothing is pruned.
ReadRubbish ==
  /\ phase = "accept" /\ serving # None
  /\ serving.sent \/ ~serving.open
  /\ Answer("error")
  /\ UNCHANGED <<socket, tables>>

Dispatch(r) ==
  \/ ValidatePlan(r) \/ ValidateHomeManager(r) \/ ValidateManaged(r)
  \/ ValidateFlakeLock(r)
  \/ ApplyPlan(r) \/ ApplyHomeManager(r) \/ ApplyManaged(r) \/ ApplyFlakeLock(r)
  \/ TestActivation(r) \/ PreviewActivation(r)
  \/ Recover(r) \/ RecoverHomeManager(r) \/ RecoverManaged(r)
  \/ RecoverFlakeLock(r) \/ RecoverTest(r) \/ CommitTested(r)
  \/ RollbackCommitted(r) \/ Status(r) \/ Capabilities(r)

Read ==
  /\ phase = "accept" /\ serving # None /\ serving.sent
  /\ \E r \in Requests(UidOf[serving.from]) : Dispatch(r)
  /\ UNCHANGED socket

Backend ==
  /\ \/ WritePlan \/ WriteHomeManager \/ WriteManaged \/ WriteFlakeLock
     \/ RunTest \/ RunPreview \/ RunRecovery
  /\ UNCHANGED socket

\* Slip: an answer that cannot be sent stops the daemon.
Reply_NeedsPeer ==
  /\ phase = "reply" /\ serving.open
  /\ phase' = "accept" /\ serving' = None /\ answer' = None
  /\ UNCHANGED <<queue, request, asked, tables>>

Reply ==
  /\ phase = "reply"
  /\ phase' = "accept" /\ serving' = None /\ answer' = None
  /\ UNCHANGED <<queue, request, asked, tables>>

\* systemd keeps the listening socket and starts the helper again, with empty
\* tables: whatever was issued before is unknown to it.
Die ==
  /\ phase' = "accept"
  /\ serving' = None /\ request' = None /\ asked' = None /\ answer' = None
  /\ receipts' = <<>> /\ pending' = {} /\ late' = {} /\ prepared' = {}
  /\ UNCHANGED queue

Daemon ==
  Accept \/ Read \/ ReadRubbish \/ Backend \/ Deny \/ Grant \/ Reply

Next ==
  \/ Daemon
  \/ Expire
  \/ Die
  \/ \E c \in Client : Connect(c) \/ Send(c) \/ Leave(c)

Spec == Init /\ [][Next]_vars

\* What is bound to happen where the daemon stands: a frame that can be read may
\* be rubbish and pkcheck may say no, and then whatever else Read and Grant do
\* instead is a step on the way to a reply.
DaemonProgress == Accept \/ ReadRubbish \/ Deny \/ Backend \/ Reply

\* The daemon goes on, pkcheck ends (it is run with a timeout), and a client
\* that connected sends its request or goes away.  Nothing is assumed of
\* clients that wait for an answer, and the daemon may die any number of times.
Fairness ==
  /\ WF_vars(DaemonProgress)
  /\ \A c \in Client : WF_vars(Busy(c) /\ ~Waits(c) /\ (Send(c) \/ Leave(c)))

FairSpec == Spec /\ Fairness

-----------------------------------------------------------------------------
(* Properties.                                                              *)
Kinds == {"plan", "home-manager", "managed", "flake-lock", "test"}

Redeeming == phase = "act" /\ request.op \in ApplyOps

Keys == [backend : {"fixture", "live", "managed", "flake-lock"}, kind : Kinds,
         target : Target, plan : Plan, uid : Uid]

\* The types of the variables, and which of them are set in which phase.
TypeOK ==
  /\ queue \in Seq(Conn) /\ Len(queue) <= MaxQueue
  /\ serving \in Conn \cup {None}
  /\ phase \in {"accept", "pkcheck", "act", "reply"}
  /\ phase # "accept" => serving # None
  /\ phase \in {"pkcheck", "act"} <=> request # None
  /\ request # None => /\ request \in Requests(request.uid)
                       /\ request.op \in ApplyOps => request.receipt # 0
  /\ asked \in RecoverOps \cup ApplyOps \cup {"preview-activation", None}
  /\ answer \in {"ok", "error", "denied", None}
  /\ receipts \in Seq([kind : Kinds, target : Target, plan : Plan, uid : Uid])
  /\ Len(receipts) <= MaxReceipts
  /\ late \subseteq pending /\ pending \subseteq DOMAIN receipts
  /\ prepared \subseteq Keys

\* A receipt is out of its table before the backend runs and never comes back:
\* whether the apply succeeds or fails, and however often its request is
\* repeated, it is not redeemed twice ("It is consumed before the apply backend
\* is invoked and cannot be replayed", docs/helper-protocol.md).
SpentStaysSpent ==
  [][(Redeeming => request.receipt \notin pending)
       /\ pending' \cap DOMAIN receipts \subseteq pending]_vars

\* What the daemon does with root's power it was asked for by this very
\* request: pkcheck is asked about the action of the operation, and a plan or a test
\* that is applied was validated for the same user, target and contents by the
\* same workflow.
OwnRequestGranted ==
  phase \in {"pkcheck", "act"} =>
    /\ asked = request.op
    /\ request.uid = UidOf[serving.from]
    /\ request.op \in ApplyOps =>
         receipts[request.receipt] = Grants(KindOf[request.op], request)

\* A backend keeps a plan only as long as somebody holds a receipt for it, or
\* it is just being applied: what a receipt leaves behind when it expires or
\* is spent is nothing ("It retains that prepared plan only for the receipt
\* owner", docs/helper-protocol.md; the receipts and the plans are tables of
\* different objects, and the plan is dropped through two layers of routing).
PreparedHaveReceipts ==
  \A k \in prepared :
    \/ \E r \in pending : Key(receipts[r]) = k
    \/ Redeeming /\ Key(receipts[request.receipt]) = k

\* A granted apply finds no plan ("validated-plan-missing") only for a user who
\* validated the same plan twice: the plan, filed under its fingerprint, went
\* with the other receipt when that was used or expired.  A receipt that has no
\* such twin always finds its plan.
MissingMeansTwin ==
  Redeeming /\ request.op # "test-activation"
            /\ Key(receipts[request.receipt]) \notin prepared =>
    \E r \in DOMAIN receipts \ {request.receipt} :
      receipts[r] = receipts[request.receipt] /\ r \notin pending

\* No receipt that has expired when its request arrives gets as far as the
\* authorization, in any of the five tables (only _prune_receipts looks at
\* expires_at; one that expires while pkcheck waits is still honoured).
FreshWhenAsked ==
  [][phase' = "pkcheck" /\ phase = "accept" /\ request'.op \in ApplyOps
       => request'.receipt \notin late]_vars

\* A client that is still there is denied only what pkcheck was asked about:
\* docs/helper-protocol.md lists an action for every privileged operation and
\* the policy file declares it.
DeniedOnlyByPkcheck ==
  [][answer' = "denied" /\ answer # "denied" /\ serving.open
       => phase = "pkcheck"]_vars

\* A client that sent its request does not wait for ever, although the daemon
\* serves one connection at a time without a timeout, dies, and has other
\* clients that stay silent or go away.
Served == \A c \in Client : Waits(c) ~> ~Waits(c)
=============================================================================
