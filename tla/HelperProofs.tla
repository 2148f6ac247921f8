---------------------------- MODULE HelperProofs ----------------------------
(***************************************************************************)
(* Proofs about Helper, for every set of clients, users, targets and plans,  *)
(* every authorizer and every bound on receipts and connections.             *)
(*                                                                          *)
(* The nineteen operations come to four things that can happen to a request  *)
(* (DispatchOutcomes) and the seven backend calls to four ends               *)
(* (BackendOutcomes): every other lemma argues about those.                  *)
(***************************************************************************)
EXTENDS Helper, SequenceTheorems, TLAPS

ReceiptSet == [kind : Kinds, target : Target, plan : Plan, uid : Uid]

\* The request waits for pkcheck about its own operation.
Asks(r) ==
  /\ phase' = "pkcheck" /\ asked' = r.op /\ request' = r /\ UNCHANGED answer
  /\ Prune

Statuses == {"ok", "error", "denied"}

\* Whatever its operation, a request is answered without a receipt, or with one,
\* or waits for pkcheck; and one that redeems a receipt waits only if it fits.
LEMMA DispatchOutcomes ==
  ASSUME NEW uid, NEW r \in Requests(uid), Dispatch(r)
  PROVE  \/ \E status \in Statuses : Refuse(status)
         \/ \E kind \in Kinds \ {"test"} :
              Receipt(kind, r) /\ r.op \in ValidateOps
         \/ r.op \in ApplyOps /\ Matches(KindOf[r.op], r) /\ Asks(r)
         \/ /\ r.op \in RecoverOps \cup {"preview-activation"} /\ r.op \notin ApplyOps
            /\ Asks(r)
  <1> USE DEF Authorize, Asks, Statuses
  <1>1. CASE ValidatePlan(r)
    BY <1>1 DEF ValidatePlan, PreparePlan, ReadOnlyPlan, Kinds, ValidateOps
  <1>2. CASE ValidateHomeManager(r)
    BY <1>2 DEF ValidateHomeManager, PrepareHomeManager, Kinds, ValidateOps
  <1>3. CASE ValidateManaged(r)
    BY <1>3 DEF ValidateManaged, PrepareManaged, Kinds, ValidateOps
  <1>4. CASE ValidateFlakeLock(r)
    BY <1>4 DEF ValidateFlakeLock, PrepareFlakeLock, Kinds, ValidateOps
  <1>5. CASE ApplyPlan(r)
    BY <1>5 DEF ApplyPlan, Redeem, ApplyOps, KindOf
  <1>6. CASE ApplyHomeManager(r)
    BY <1>6 DEF ApplyHomeManager, Redeem, ApplyOps, KindOf
  <1>7. CASE ApplyManaged(r)
    BY <1>7 DEF ApplyManaged, Redeem, ApplyOps, KindOf
  <1>8. CASE ApplyFlakeLock(r)
    BY <1>8 DEF ApplyFlakeLock, Redeem, ApplyOps, KindOf
  <1>9. CASE TestActivation(r)
    BY <1>9 DEF TestActivation, Redeem, ApplyOps, KindOf
  <1>10. CASE PreviewActivation(r)
    BY <1>10 DEF PreviewActivation, ApplyOps
  <1>11. CASE \/ Recover(r) \/ RecoverHomeManager(r) \/ RecoverManaged(r)
              \/ RecoverFlakeLock(r) \/ RecoverTest(r) \/ CommitTested(r)
              \/ RollbackCommitted(r)
    BY <1>11 DEF Recover, RecoverHomeManager, RecoverManaged, RecoverFlakeLock,
             RecoverTest, CommitTested, RollbackCommitted, Privileged, ApplyOps,
             RecoverOps
  <1>12. CASE Status(r) \/ Capabilities(r)
    BY <1>12 DEF Status, Capabilities
  <1>13. QED
    BY <1>1, <1>2, <1>3, <1>4, <1>5, <1>6, <1>7, <1>8, <1>9, <1>10, <1>11,
       <1>12 DEF Dispatch

\* A backend call is an apply, a test, a recovery or a preview; all of them end
\* with an answer.
LEMMA BackendOutcomes ==
  ASSUME Backend
  PROVE  /\ phase' = "reply" /\ UNCHANGED socket /\ phase \in {"pkcheck", "act"}
         /\ \E status \in Statuses : Answer(status)
         /\ \/ /\ phase = "act" /\ request.op \in ApplyOps \ {"test-activation"}
               /\ Take(KindOf[request.op])
            \/ /\ phase = "act" /\ request.op = "test-activation"
               /\ UNCHANGED tables
            \/ UNCHANGED tables /\ ~Redeeming
            \/ /\ phase = "act" /\ request.op = "preview-activation"
               /\ Issue("test", request, pending) /\ UNCHANGED prepared
  <1> USE DEF Acts, Answer, Ends, Statuses
  <1>1. CASE WritePlan
    BY <1>1 DEF Backend, WritePlan, Take, ApplyOps, KindOf
  <1>2. CASE WriteHomeManager
    BY <1>2 DEF Backend, WriteHomeManager, Take, ApplyOps, KindOf
  <1>3. CASE WriteManaged
    BY <1>3 DEF Backend, WriteManaged, Take, ApplyOps, KindOf
  <1>4. CASE WriteFlakeLock
    BY <1>4 DEF Backend, WriteFlakeLock, Take, ApplyOps, KindOf
  <1>5. CASE RunTest
    BY <1>5 DEF Backend, RunTest
  <1>6. CASE RunPreview
    BY <1>6 DEF Backend, RunPreview, Redeeming, ApplyOps
  <1>7. CASE RunRecovery
    BY <1>7 DEF Backend, RunRecovery, Redeeming
  <1>8. QED
    BY <1>1, <1>2, <1>3, <1>4, <1>5, <1>6, <1>7 DEF Backend

-----------------------------------------------------------------------------
(* The inductive invariant.                                                 *)

SocketFits == queue \in Seq(Conn) /\ serving \in Conn \cup {None}

\* The tables hold receipts that this daemon issued.
ReceiptsFit ==
  /\ receipts \in Seq(ReceiptSet)
  /\ late \subseteq pending /\ pending \subseteq DOMAIN receipts

\* The request that was read is the one that runs; its receipt is still there
\* while pkcheck is asked and is gone when the backend is called.
RequestFits ==
  phase \in {"pkcheck", "act"} =>
    /\ asked = request.op
    /\ request.uid = UidOf[serving.from] /\ request.uid \in Uid
    /\ request.target \in Target
    /\ request.op = "preview-activation" => request.plan \in Plan
    /\ request.op \notin ApplyOps => request.receipt = 0
    /\ request.op \in ApplyOps =>
         /\ request.receipt \in DOMAIN receipts
         /\ receipts[request.receipt] = Grants(KindOf[request.op], request)
         /\ request.receipt \in pending <=> phase = "pkcheck"

\* A test leaves no plan with a backend.
PlansFit == PreparedHaveReceipts /\ \A k \in prepared : k.kind # "test"

\* The receipts that can still lead to an apply.
Live == pending \cup (IF Redeeming THEN {request.receipt} ELSE {})

\* A live receipt without its plan has a twin that is spent or expired.
TwinExplains ==
  \A i \in Live :
    receipts[i].kind # "test" /\ Key(receipts[i]) \notin prepared =>
      \E j \in DOMAIN receipts \ {i} :
        receipts[j] = receipts[i] /\ j \notin pending

Inductive ==
  SocketFits /\ ReceiptsFit /\ RequestFits /\ PlansFit /\ TwinExplains

\* The name under which a backend files a plan tells everything that its receipt
\* says.
LEMMA KeyIsInjective ==
  ASSUME NEW a \in ReceiptSet, NEW b \in ReceiptSet, Key(a) = Key(b)
  PROVE  a = b
  <1>1. /\ a.kind = b.kind /\ a.target = b.target
        /\ a.plan = b.plan /\ a.uid = b.uid
    BY DEF Key
  <1>2. QED
    BY <1>1 DEF ReceiptSet

\* A new receipt gets the next number and leaves the others alone.
LEMMA IssueAppends ==
  ASSUME ReceiptsFit, NEW kind, NEW r, NEW before \in SUBSET pending,
         Grants(kind, r) \in ReceiptSet, Issue(kind, r, before)
  PROVE  LET n == Len(receipts) + 1
         IN  /\ DOMAIN receipts' = DOMAIN receipts \cup {n}
             /\ n \notin DOMAIN receipts
             /\ receipts'[n] = Grants(kind, r)
             /\ \A i \in DOMAIN receipts : receipts'[i] = receipts[i]
             /\ pending' = before \cup {n}
             /\ ReceiptsFit'
  <1> DEFINE n == Len(receipts) + 1
  <1>1. receipts' = Append(receipts, Grants(kind, r))
    BY DEF Issue
  <1>2. /\ receipts' \in Seq(ReceiptSet) /\ Len(receipts') = n
        /\ \A i \in 1 .. Len(receipts) : receipts'[i] = receipts[i]
        /\ receipts'[n] = Grants(kind, r)
    BY <1>1, AppendProperties DEF ReceiptsFit
  <1>3. /\ Len(receipts) \in Nat /\ DOMAIN receipts = 1 .. Len(receipts)
        /\ DOMAIN receipts' = 1 .. n
    BY <1>2, LenProperties DEF ReceiptsFit
  <1>4. n \notin DOMAIN receipts /\ DOMAIN receipts' = DOMAIN receipts \cup {n}
    BY <1>3
  <1>5. pending' = before \cup {n} /\ late' = late \cap before
    BY DEF Issue
  <1>6. ReceiptsFit'
    BY <1>2, <1>4, <1>5 DEF ReceiptsFit
  <1>7. QED
    BY <1>2, <1>3, <1>4, <1>5, <1>6

\* The request that is read carries the identity of its peer.
LEMMA RequestsAreTyped ==
  ASSUME NEW uid, NEW r \in Requests(uid)
  PROVE  /\ r.uid = uid /\ r.target \in Target
         /\ r.op \in ValidateOps \cup {"preview-activation"} => r.plan \in Plan
         /\ r.op \notin ApplyOps => r.receipt = 0
  BY DEF Requests, ValidateRequests, ApplyRequests, RecoverRequests, ApplyOps,
         ValidateOps, RecoverOps, OtherOps

\* Who talks to the helper is known from the connection on which the request
\* comes, whatever the other clients do meanwhile.
LEMMA SocketFitsStep ==
  ASSUME SocketFits, [Next]_vars
  PROVE  SocketFits'
  <1> USE DEF SocketFits, socket, handling, tables
  <1>1. CASE Accept
    BY <1>1, HeadTailProperties DEF Accept
  <1>2. CASE Read \/ ReadRubbish \/ Backend \/ Deny \/ Grant \/ Expire
    BY <1>2 DEF Read, ReadRubbish, Backend, Deny, Grant, Expire
  <1>3. CASE Reply
    BY <1>3 DEF Reply
  <1>4. CASE Die
    BY <1>4 DEF Die
  <1>5. ASSUME NEW c \in Client, Connect(c) PROVE SocketFits'
    <2>1. [from |-> c, sent |-> FALSE, open |-> TRUE] \in Conn
      BY DEF Conn
    <2>2. QED
      BY <1>5, <2>1, AppendProperties DEF Connect
  <1>6. ASSUME NEW c \in Client, Send(c) PROVE SocketFits'
    <2>1. \A conn \in Conn : Sent(c, conn) \in Conn
      BY DEF Sent, Conn
    <2>2. queue \in [1 .. Len(queue) -> Conn] /\ Len(queue) \in Nat
      BY LenProperties
    <2>3. queue' \in [1 .. Len(queue) -> Conn]
      BY <1>6, <2>1, <2>2 DEF Send
    <2>4. queue' \in Seq(Conn)
      BY <2>2, <2>3, SeqDef
    <2>5. QED
      BY <1>6, <2>1, <2>4 DEF Send
  <1>7. ASSUME NEW c \in Client, Leave(c) PROVE SocketFits'
    <2>1. \A conn \in Conn : Left(c, conn) \in Conn
      BY DEF Left, Conn
    <2>2. queue \in [1 .. Len(queue) -> Conn] /\ Len(queue) \in Nat
      BY LenProperties
    <2>3. queue' \in [1 .. Len(queue) -> Conn]
      BY <1>7, <2>1, <2>2 DEF Leave
    <2>4. queue' \in Seq(Conn)
      BY <2>2, <2>3, SeqDef
    <2>5. QED
      BY <1>7, <2>1, <2>4 DEF Leave
  <1>8. CASE UNCHANGED vars
    BY <1>8 DEF vars
  <1>9. QED
    BY <1>1, <1>2, <1>3, <1>4, <1>5, <1>6, <1>7, <1>8 DEF Next, Daemon

\* A validated plan is a receipt for the peer's own plan.
LEMMA GrantsAreReceipts ==
  ASSUME NEW uid \in Uid, NEW r \in Requests(uid), NEW kind \in Kinds,
         r.op \in ValidateOps \cup {"preview-activation"}
  PROVE  Grants(kind, r) \in ReceiptSet
  BY RequestsAreTyped DEF Grants, ReceiptSet

\* What RunPreview issues is such a receipt, too.
LEMMA PreviewGrants ==
  ASSUME RequestFits, phase = "act", request.op = "preview-activation"
  PROVE  Grants("test", request) \in ReceiptSet
  BY DEF RequestFits, Grants, ReceiptSet, Kinds

LEMMA PeerIsUser ==
  ASSUME SocketFits, serving # None
  PROVE  UidOf[serving.from] \in Uid
  BY HelperAssumption DEF SocketFits, Conn

\* Receipts enter the tables only by Issue and never change.
LEMMA ReceiptsFitStep ==
  ASSUME SocketFits, ReceiptsFit, RequestFits, [Next]_vars
  PROVE  ReceiptsFit'
  <1> USE DEF socket, handling, tables
  <1>1. CASE Read
    <2>1. PICK r \in Requests(UidOf[serving.from]) : Dispatch(r)
      BY <1>1 DEF Read
    <2>2. UidOf[serving.from] \in Uid
      BY <1>1, PeerIsUser DEF Read
    <2>3. CASE Prune
      BY <2>3 DEF Prune, ReceiptsFit, Unexpired
    <2>4. ASSUME NEW kind \in Kinds, Receipt(kind, r), r.op \in ValidateOps
          PROVE  ReceiptsFit'
      <3>1. Unexpired \in SUBSET pending
        BY DEF Unexpired
      <3>2. QED
        BY <2>2, <2>4, <3>1, GrantsAreReceipts, IssueAppends DEF Receipt
    <2>5. QED
      BY <2>1, <2>3, <2>4, DispatchOutcomes DEF Asks, Refuse
  <1>2. CASE Backend
    <2>1. CASE Take(KindOf[request.op]) \/ UNCHANGED tables
      BY <2>1 DEF Take, ReceiptsFit
    <2>2. CASE /\ phase = "act" /\ request.op = "preview-activation"
               /\ Issue("test", request, pending)
      BY <2>2, PreviewGrants, IssueAppends
    <2>3. QED
      BY <1>2, <2>1, <2>2, BackendOutcomes
  <1>3. CASE Grant
    BY <1>3 DEF Grant, ReceiptsFit
  <1>4. CASE Expire
    BY <1>4 DEF Expire, ReceiptsFit
  <1>5. CASE Die
    <2>1. receipts' \in Seq(ReceiptSet) /\ pending' = {} /\ late' = {}
      BY <1>5, EmptySeq DEF Die
    <2>2. QED
      BY <2>1 DEF ReceiptsFit
  <1>6. CASE Accept \/ ReadRubbish \/ Deny \/ Reply
    BY <1>6 DEF Accept, ReadRubbish, Deny, Reply, ReceiptsFit
  <1>7. ASSUME NEW c \in Client, Connect(c) \/ Send(c) \/ Leave(c)
        PROVE  ReceiptsFit'
    BY <1>7 DEF Connect, Send, Leave, ReceiptsFit
  <1>8. CASE UNCHANGED vars
    BY <1>8 DEF vars, ReceiptsFit
  <1>9. QED
    BY <1>1, <1>2, <1>3, <1>4, <1>5, <1>6, <1>7, <1>8 DEF Next, Daemon

\* The request in hand stays the one that was read, for the peer that sent it,
\* and its receipt leaves the table between pkcheck and the backend.
LEMMA RequestFitsStep ==
  ASSUME SocketFits, ReceiptsFit, RequestFits, [Next]_vars
  PROVE  RequestFits'
  <1> USE DEF socket, handling, tables
  <1>1. CASE Read
    <2>1. PICK r \in Requests(UidOf[serving.from]) : Dispatch(r)
      BY <1>1 DEF Read
    <2>2. UidOf[serving.from] \in Uid /\ UNCHANGED serving
      BY <1>1, PeerIsUser DEF Read
    <2>3. CASE phase' = "reply"
      BY <2>3 DEF RequestFits
    <2>4. CASE r.op \in ApplyOps /\ Matches(KindOf[r.op], r) /\ Asks(r)
      <3>1. /\ phase' = "pkcheck" /\ asked' = r.op /\ request' = r
            /\ UNCHANGED receipts /\ pending' = Unexpired
        BY <2>4 DEF Asks, Prune
      <3>2. /\ r.receipt \in Unexpired /\ r.receipt \in DOMAIN receipts
            /\ receipts[r.receipt] = Grants(KindOf[r.op], r)
        BY <2>4 DEF Matches, ReceiptsFit, Unexpired
      <3>3. r.uid = UidOf[serving.from] /\ r.target \in Target
        BY RequestsAreTyped
      <3>4. Grants(KindOf[r.op], r)' = Grants(KindOf[r.op], r)
        BY DEF Grants
      <3>5. r.op # "preview-activation"
        BY <2>4 DEF ApplyOps
      <3>6. QED
        BY <2>2, <2>4, <3>1, <3>2, <3>3, <3>5 DEF RequestFits, Grants
    <2>5. CASE r.op \notin ApplyOps /\ Asks(r)
      <3>1. phase' = "pkcheck" /\ asked' = r.op /\ request' = r
        BY <2>5 DEF Asks
      <3>2. QED
        BY <2>2, <2>5, <3>1, RequestsAreTyped DEF RequestFits
    <2>6. QED
      BY <2>1, <2>3, <2>4, <2>5, DispatchOutcomes DEF Refuse, Receipt, Answer
  <1>2. CASE Backend \/ Deny
    BY <1>2, BackendOutcomes DEF Deny, Answer, RequestFits
  <1>3. CASE Grant
    BY <1>3 DEF Grant, RequestFits, Grants
  <1>4. CASE Expire
    BY <1>4 DEF Expire, RequestFits, Grants
  <1>5. CASE Accept \/ ReadRubbish \/ Reply \/ Die
    BY <1>5 DEF Accept, ReadRubbish, Answer, Reply, Die, RequestFits
  <1>6. ASSUME NEW c \in Client, Connect(c) \/ Send(c) \/ Leave(c)
        PROVE  RequestFits'
    <2>1. UidOf[serving.from]' = UidOf[serving.from]
      BY <1>6 DEF Connect, Send, Leave, Sent, Left, SocketFits, Conn
    <2>2. UNCHANGED <<handling, tables>>
      BY <1>6 DEF Connect, Send, Leave
    <2>3. QED
      BY <2>1, <2>2 DEF RequestFits, Grants
  <1>7. CASE UNCHANGED vars
    BY <1>7 DEF vars, RequestFits, Grants
  <1>8. QED
    BY <1>1, <1>2, <1>3, <1>4, <1>5, <1>6, <1>7 DEF Next, Daemon

\* The five tables of receipts and the tables of the backends are kept in step:
\* a plan is filed with its receipt, discarded with it, and taken by its apply.
LEMMA PlansFitStep ==
  ASSUME SocketFits, ReceiptsFit, RequestFits, PlansFit, [Next]_vars
  PROVE  PlansFit'
  <1> USE DEF socket, handling, tables, PlansFit, PreparedHaveReceipts
  <1>1. CASE Read
    <2>1. PICK r \in Requests(UidOf[serving.from]) : Dispatch(r)
      BY <1>1 DEF Read
    <2>2. UidOf[serving.from] \in Uid /\ ~Redeeming
      BY <1>1, PeerIsUser DEF Read, Redeeming
    <2>3. \A k \in Kept : \E i \in Unexpired : Key(receipts[i]) = k
      BY <2>2 DEF Kept, Discarded, Unexpired
    <2>4. CASE Prune
      BY <2>3, <2>4 DEF Prune, Kept, Key
    <2>5. ASSUME NEW kind \in Kinds \ {"test"}, Receipt(kind, r),
                 r.op \in ValidateOps
          PROVE  PlansFit'
      <3> DEFINE n == Len(receipts) + 1
      <3>1. Unexpired \in SUBSET pending
        BY DEF Unexpired
      <3>2. /\ receipts'[n] = Grants(kind, r) /\ pending' = Unexpired \cup {n}
            /\ \A i \in DOMAIN receipts : receipts'[i] = receipts[i]
        BY <2>2, <2>5, <3>1, GrantsAreReceipts, IssueAppends DEF Receipt
      <3>3. prepared' = Kept \cup {Key(Grants(kind, r))}
        BY <2>5 DEF Receipt
      <3> HIDE DEF n
      <3>4. ASSUME NEW k \in Kept
            PROVE  \E i \in pending' : Key(receipts[i])' = k
        <4>1. PICK i \in Unexpired : Key(receipts[i]) = k
          BY <2>3
        <4>2. i \in pending' /\ receipts'[i] = receipts[i]
          BY <3>1, <3>2 DEF ReceiptsFit
        <4>3. QED
          BY <4>1, <4>2 DEF Key
      <3>5. Key(receipts'[n]) = Key(Grants(kind, r))
        BY <3>2
      <3>6. Key(Grants(kind, r)).kind # "test"
        BY DEF Key, Grants
      <3>7. \A k \in prepared' : k.kind # "test"
        BY <3>3, <3>6 DEF Kept
      <3>8. \A k \in prepared' : \E i \in pending' : Key(receipts[i])' = k
        BY <3>2, <3>3, <3>4, <3>5 DEF Key
      <3>9. QED
        BY <3>7, <3>8
    <2>6. QED
      BY <2>1, <2>4, <2>5, DispatchOutcomes DEF Asks, Refuse
  <1>2. CASE Backend
    <2>1. phase' = "reply"
      BY <1>2, BackendOutcomes
    <2>2. CASE /\ phase = "act" /\ request.op \in ApplyOps \ {"test-activation"}
               /\ Take(KindOf[request.op])
      <3>1. /\ prepared' = prepared \ {Key(receipts[request.receipt])}
            /\ UNCHANGED <<receipts, pending>>
        BY <2>2 DEF Take, RequestFits
      <3>2. QED
        BY <3>1 DEF Key
    <2>3. CASE /\ phase = "act" /\ request.op = "test-activation"
               /\ UNCHANGED tables
      <3>1. Key(receipts[request.receipt]).kind = "test"
        BY <2>3 DEF RequestFits, Key, Grants, ApplyOps, KindOf
      <3>2. QED
        BY <2>3, <3>1 DEF Key
    <2>4. CASE UNCHANGED tables /\ ~Redeeming
      BY <2>4 DEF Key
    <2>5. CASE /\ phase = "act" /\ request.op = "preview-activation"
               /\ Issue("test", request, pending) /\ UNCHANGED prepared
      <3>1. ~Redeeming
        BY <2>5 DEF Redeeming, ApplyOps
      <3>2. /\ pending \subseteq pending'
            /\ \A i \in DOMAIN receipts : receipts'[i] = receipts[i]
        BY <2>5, PreviewGrants, IssueAppends
      <3>3. QED
        BY <2>5, <3>1, <3>2 DEF Key, ReceiptsFit
    <2>6. QED
      BY <1>2, <2>2, <2>3, <2>4, <2>5, BackendOutcomes
  <1>3. CASE Grant
    <2>1. /\ ~Redeeming /\ phase' = "act"
          /\ UNCHANGED <<request, receipts, prepared>>
          /\ pending' = pending \ {request.receipt}
      BY <1>3 DEF Grant, Redeeming
    <2>2. CASE request.op \in ApplyOps
      BY <2>1, <2>2 DEF Redeeming, Key
    <2>3. CASE request.op \notin ApplyOps
      <3>1. request.receipt = 0
        BY <1>3, <2>3 DEF Grant, RequestFits
      <3>2. 0 \notin pending
        BY LenProperties DEF ReceiptsFit
      <3>3. QED
        BY <2>1, <3>1, <3>2 DEF Key
    <2>4. QED
      BY <2>2, <2>3
  <1>4. CASE Deny
    BY <1>4 DEF Deny, Redeeming, Key
  <1>5. CASE Expire
    BY <1>5 DEF Expire, Redeeming, Key
  <1>6. CASE Accept \/ ReadRubbish \/ Reply
    BY <1>6 DEF Accept, ReadRubbish, Reply, Redeeming, Key
  <1>7. CASE Die
    BY <1>7 DEF Die
  <1>8. ASSUME NEW c \in Client, Connect(c) \/ Send(c) \/ Leave(c)
        PROVE  PlansFit'
    BY <1>8 DEF Connect, Send, Leave, Redeeming, Key
  <1>9. CASE UNCHANGED vars
    BY <1>9 DEF vars, Redeeming, Key
  <1>10. QED
    BY <1>1, <1>2, <1>3, <1>4, <1>5, <1>6, <1>7, <1>8, <1>9 DEF Next, Daemon

\* Only the discard and the use of a receipt take a plan away, and both leave
\* that receipt behind as the twin of every live one that names the same plan.
LEMMA TwinExplainsStep ==
  ASSUME SocketFits, ReceiptsFit, RequestFits, TwinExplains, [Next]_vars
  PROVE  TwinExplains'
  <1> USE DEF socket, handling, tables
  <1>1. \A i \in DOMAIN receipts : receipts[i] \in ReceiptSet
    BY ElementOfSeq, LenProperties DEF ReceiptsFit
  <1>2. Live \subseteq DOMAIN receipts
    BY DEF Live, Redeeming, RequestFits, ReceiptsFit
  <1>3. CASE Read
    <2>1. PICK r \in Requests(UidOf[serving.from]) : Dispatch(r)
      BY <1>3 DEF Read
    <2>2. UidOf[serving.from] \in Uid /\ Live = pending
      BY <1>3, PeerIsUser DEF Read, Redeeming, Live
    <2>3. \A i \in Unexpired :
            receipts[i].kind # "test" /\ Key(receipts[i]) \notin Kept =>
              \E j \in DOMAIN receipts \ {i} :
                receipts[j] = receipts[i] /\ j \notin Unexpired
      <3>1. SUFFICES ASSUME NEW i \in Unexpired, receipts[i].kind # "test",
                            Key(receipts[i]) \notin Kept
                     PROVE  \E j \in DOMAIN receipts \ {i} :
                              receipts[j] = receipts[i] /\ j \notin Unexpired
        OBVIOUS
      <3>2. CASE Key(receipts[i]) \notin prepared
        BY <2>2, <3>1, <3>2 DEF TwinExplains, Unexpired
      <3>3. CASE Key(receipts[i]) \in prepared
        <4>1. PICK j \in late : Key(receipts[j]) = Key(receipts[i])
          BY <3>1, <3>3 DEF Kept, Discarded
        <4>2. j \in DOMAIN receipts /\ i \in DOMAIN receipts /\ j # i
          BY <3>1 DEF ReceiptsFit, Unexpired
        <4>3. receipts[j] = receipts[i]
          BY <1>1, <4>1, <4>2, KeyIsInjective
        <4>4. QED
          BY <4>2, <4>3 DEF Unexpired
      <3>4. QED
        BY <3>2, <3>3
    <2>4. CASE Prune /\ phase' # "act"
      <3>1. Live' = Unexpired
        BY <2>4 DEF Live, Redeeming, Prune
      <3>2. QED
        BY <2>3, <2>4, <3>1 DEF TwinExplains, Prune, Key
    <2>5. ASSUME NEW kind \in Kinds \ {"test"}, Receipt(kind, r),
                 r.op \in ValidateOps
          PROVE  TwinExplains'
      <3>1. Unexpired \in SUBSET pending /\ Unexpired \subseteq DOMAIN receipts
        BY DEF Unexpired, ReceiptsFit
      <3>2. PICK n :
            /\ DOMAIN receipts' = DOMAIN receipts \cup {n}
            /\ n \notin DOMAIN receipts /\ pending' = Unexpired \cup {n}
            /\ receipts'[n] = Grants(kind, r)
            /\ \A i \in DOMAIN receipts : receipts'[i] = receipts[i]
        BY <2>2, <2>5, <3>1, GrantsAreReceipts, IssueAppends DEF Receipt
      <3>3. /\ prepared' = Kept \cup {Key(Grants(kind, r))}
            /\ phase' = "reply"
        BY <2>5 DEF Receipt, Answer
      <3>4. Live' = Unexpired \cup {n}
        BY <3>2, <3>3 DEF Live, Redeeming
      <3>5. Key(receipts[n])' \in prepared'
        BY <3>2, <3>3 DEF Key
      <3>6. ASSUME NEW i \in Unexpired, receipts'[i].kind # "test",
                   Key(receipts[i])' \notin prepared'
            PROVE  \E j \in DOMAIN receipts' \ {i} :
                     receipts'[j] = receipts'[i] /\ j \notin pending'
        <4>1. receipts'[i] = receipts[i] /\ Key(receipts[i])' = Key(receipts[i])
          BY <3>1, <3>2 DEF Key
        <4>2. PICK j \in DOMAIN receipts \ {i} :
                receipts[j] = receipts[i] /\ j \notin Unexpired
          BY <2>3, <3>3, <3>6, <4>1
        <4>3. QED
          BY <3>2, <4>1, <4>2
      <3>7. QED
        BY <3>4, <3>5, <3>6 DEF TwinExplains
    <2>6. QED
      BY <1>3, <2>1, <2>4, <2>5, DispatchOutcomes DEF Asks, Refuse, Answer
  <1>4. CASE Backend
    <2>1. phase' = "reply" /\ Live' = pending'
      BY <1>4, BackendOutcomes DEF Live, Redeeming
    <2>2. CASE /\ phase = "act" /\ request.op \in ApplyOps \ {"test-activation"}
               /\ Take(KindOf[request.op])
      <3> DEFINE s == request.receipt
      <3>1. /\ prepared' = prepared \ {Key(receipts[s])}
            /\ UNCHANGED <<receipts, pending>>
            /\ s \in DOMAIN receipts /\ s \notin pending
        BY <2>2 DEF Take, RequestFits
      <3>2. ASSUME NEW i \in pending, receipts[i].kind # "test",
                   Key(receipts[i]) \notin prepared'
            PROVE  \E j \in DOMAIN receipts \ {i} :
                     receipts[j] = receipts[i] /\ j \notin pending
        <4>1. CASE Key(receipts[i]) \notin prepared
          BY <3>2, <4>1 DEF TwinExplains, Live
        <4>2. CASE Key(receipts[i]) = Key(receipts[s])
          BY <1>1, <3>1, <3>2, <4>2, KeyIsInjective DEF ReceiptsFit
        <4>3. QED
          BY <3>1, <3>2, <4>1, <4>2
      <3>3. QED
        BY <2>1, <3>1, <3>2 DEF TwinExplains, Key
    <2>3. CASE UNCHANGED tables
      BY <2>1, <2>3 DEF TwinExplains, Live, Key
    <2>4. CASE /\ phase = "act" /\ request.op = "preview-activation"
               /\ Issue("test", request, pending) /\ UNCHANGED prepared
      <3> DEFINE n == Len(receipts) + 1
      <3>1. /\ DOMAIN receipts' = DOMAIN receipts \cup {n}
            /\ n \notin DOMAIN receipts /\ pending' = pending \cup {n}
            /\ receipts'[n] = Grants("test", request)
            /\ \A i \in DOMAIN receipts : receipts'[i] = receipts[i]
        BY <2>4, PreviewGrants, IssueAppends
      <3> HIDE DEF n
      <3>2. receipts'[n].kind = "test"
        BY <3>1 DEF Grants
      <3>3. ASSUME NEW i \in pending, receipts'[i].kind # "test",
                   Key(receipts[i])' \notin prepared'
            PROVE  \E j \in DOMAIN receipts' \ {i} :
                     receipts'[j] = receipts'[i] /\ j \notin pending'
        <4>1. receipts'[i] = receipts[i] /\ Key(receipts[i])' = Key(receipts[i])
          BY <3>1 DEF ReceiptsFit, Key
        <4>2. PICK j \in DOMAIN receipts \ {i} :
                receipts[j] = receipts[i] /\ j \notin pending
          BY <2>4, <3>3, <4>1 DEF TwinExplains, Live
        <4>3. QED
          BY <3>1, <4>1, <4>2
      <3>4. QED
        BY <2>1, <3>1, <3>2, <3>3 DEF TwinExplains
    <2>5. QED
      BY <1>4, <2>2, <2>3, <2>4, BackendOutcomes
  <1>5. CASE Grant
    <2>1. /\ UNCHANGED <<receipts, prepared>> /\ pending' \subseteq pending
          /\ ~Redeeming
      BY <1>5 DEF Grant, Redeeming
    <2>2. Live' \subseteq pending
      BY <1>5, <2>1 DEF Grant, Live, Redeeming, RequestFits
    <2>3. QED
      BY <2>1, <2>2 DEF TwinExplains, Live, Key
  <1>6. CASE Expire
    BY <1>6 DEF Expire, TwinExplains, Live, Redeeming, Key
  <1>7. CASE Accept \/ ReadRubbish \/ Deny \/ Reply
    <2>1. UNCHANGED tables /\ ~Redeeming'
      BY <1>7 DEF Accept, ReadRubbish, Deny, Reply, Answer, Redeeming
    <2>2. QED
      BY <2>1 DEF TwinExplains, Live, Key
  <1>8. CASE Die
    BY <1>8 DEF Die, TwinExplains, Live, Redeeming
  <1>9. ASSUME NEW c \in Client, Connect(c) \/ Send(c) \/ Leave(c)
        PROVE  TwinExplains'
    BY <1>9 DEF Connect, Send, Leave, TwinExplains, Live, Redeeming, Key
  <1>10. CASE UNCHANGED vars
    BY <1>10 DEF vars, TwinExplains, Live, Redeeming, Key
  <1>11. QED
    BY <1>3, <1>4, <1>5, <1>6, <1>7, <1>8, <1>9, <1>10 DEF Next, Daemon

LEMMA InitInductive ==
  ASSUME Init
  PROVE  Inductive
  <1>1. SocketFits
    BY EmptySeq DEF Init, SocketFits
  <1>2. ReceiptsFit
    BY EmptySeq DEF Init, ReceiptsFit
  <1>3. RequestFits /\ PlansFit
    BY DEF Init, RequestFits, PlansFit, PreparedHaveReceipts
  <1>4. TwinExplains
    BY DEF Init, TwinExplains, Live, Redeeming
  <1>5. QED
    BY <1>1, <1>2, <1>3, <1>4 DEF Inductive

-----------------------------------------------------------------------------
(* The theorems.                                                            *)

\* Sockets, tables, the request in hand and the plans of the backends fit
\* together in every reachable state of the helper.
THEOREM TablesFit == Spec => []Inductive
  <1>1. Init => Inductive
    BY InitInductive
  <1>2. Inductive /\ [Next]_vars => Inductive'
    BY SocketFitsStep, ReceiptsFitStep, RequestFitsStep, PlansFitStep,
       TwinExplainsStep DEF Inductive
  <1>3. QED
    BY <1>1, <1>2, PTL DEF Spec

\* pkcheck is asked about the operation that runs, for the peer that sent it,
\* and what is applied was validated for the same user, target and plan.
THEOREM OnlyOwnRequests == Spec => []OwnRequestGranted
  <1>1. Inductive => OwnRequestGranted
    BY DEF Inductive, RequestFits, OwnRequestGranted
  <1>2. QED
    BY <1>1, TablesFit, PTL

\* What the phases, the request in hand and the limits of the tables have to do
\* with each other.
HandlingFits ==
  /\ phase \in {"accept", "pkcheck", "act", "reply"}
  /\ phase # "accept" => serving # None
  /\ phase \in {"pkcheck", "act"} <=> request # None
  /\ request # None => /\ request \in Requests(request.uid)
                       /\ request.op \in ApplyOps => request.receipt # 0
  /\ asked \in RecoverOps \cup ApplyOps \cup {"preview-activation", None}
  /\ answer \in Statuses \cup {None}

LimitsFit ==
  /\ Len(queue) <= MaxQueue
  /\ Len(receipts) <= MaxReceipts
  /\ prepared \subseteq Keys

\* No request is None.
LEMMA RequestIsSomething ==
  ASSUME ReceiptsFit, NEW uid \in Uid, NEW r \in Requests(uid)
  PROVE  r # None
  <1>1. DOMAIN receipts \subseteq Nat
    BY LenProperties DEF ReceiptsFit
  <1>2. QED
    BY <1>1, NoneAssumption DEF Requests, ValidateRequests, ApplyRequests,
       RecoverRequests

\* The request in hand is one that its peer could send.
LEMMA HandlingFitsStep ==
  ASSUME SocketFits, ReceiptsFit, RequestFits, HandlingFits, [Next]_vars
  PROVE  HandlingFits'
  <1> USE DEF socket, handling, tables, HandlingFits
  <1>1. CASE Read
    <2>1. PICK r \in Requests(UidOf[serving.from]) : Dispatch(r)
      BY <1>1 DEF Read
    <2>2. UidOf[serving.from] \in Uid /\ UNCHANGED serving /\ serving # None
      BY <1>1, PeerIsUser DEF Read
    <2>3. CASE \E status \in Statuses : Answer(status)
      BY <2>2, <2>3 DEF Answer, Statuses
    <2>4. CASE /\ r.op \in ApplyOps \cup RecoverOps \cup {"preview-activation"}
               /\ r.op \in ApplyOps => r.receipt \in Unexpired
               /\ Asks(r)
      <3>1. /\ phase' = "pkcheck" /\ asked' = r.op /\ request' = r
            /\ UNCHANGED <<receipts, answer>>
        BY <2>4 DEF Asks, Prune
      <3>2. r # None /\ r.uid = UidOf[serving.from]
        BY <2>2, RequestIsSomething, RequestsAreTyped
      <3>3. r \in Requests(r.uid)'
        BY <3>1, <3>2 DEF Requests, ValidateRequests, ApplyRequests,
           RecoverRequests
      <3>4. 0 \notin Unexpired
        BY LenProperties DEF Unexpired, ReceiptsFit
      <3>5. QED
        BY <2>2, <2>4, <3>1, <3>2, <3>3, <3>4
    <2>5. QED
      BY <2>1, <2>3, <2>4, DispatchOutcomes
      DEF Refuse, Receipt, Statuses, Matches
  <1>2. CASE Backend
    BY <1>2, BackendOutcomes DEF Answer, Statuses
  <1>3. CASE Deny \/ ReadRubbish
    BY <1>3 DEF Deny, ReadRubbish, Answer, Statuses
  <1>4. CASE Grant \/ Expire
    BY <1>4 DEF Grant, Expire, Requests, ValidateRequests, ApplyRequests,
           RecoverRequests
  <1>5. CASE Accept \/ Reply \/ Die
    BY <1>5 DEF Accept, Reply, Die
  <1>6. ASSUME NEW c \in Client, Connect(c) \/ Send(c) \/ Leave(c)
        PROVE  HandlingFits'
    <2>1. serving # None => serving' # None
      BY <1>6, NoneAssumption DEF Connect, Send, Leave, Sent, Left, SocketFits, Conn
    <2>2. UNCHANGED <<handling, tables>>
      BY <1>6 DEF Connect, Send, Leave
    <2>3. QED
      BY <2>1, <2>2 DEF Requests, ValidateRequests, ApplyRequests, RecoverRequests
  <1>7. CASE UNCHANGED vars
    BY <1>7 DEF vars, Requests, ValidateRequests, ApplyRequests, RecoverRequests
  <1>8. QED
    BY <1>1, <1>2, <1>3, <1>4, <1>5, <1>6, <1>7 DEF Next, Daemon

\* A receipt names a key under which some backend files its plan.
LEMMA KeyIsKey ==
  ASSUME NEW a \in ReceiptSet
  PROVE  Key(a) \in Keys
  BY DEF Key, Keys, ReceiptSet, Kinds, Route, PlanBackend, HomeManagerBackend

\* The tables stay within their limits.
LEMMA LimitsFitStep ==
  ASSUME SocketFits, ReceiptsFit, RequestFits, LimitsFit, [Next]_vars
  PROVE  LimitsFit'
  <1> USE DEF socket, handling, tables, LimitsFit
  <1> Len(receipts) \in Nat /\ Len(queue) \in Nat
    BY LenProperties DEF SocketFits, ReceiptsFit
  <1>1. CASE Read
    <2>1. PICK r \in Requests(UidOf[serving.from]) : Dispatch(r)
      BY <1>1 DEF Read
    <2>2. UidOf[serving.from] \in Uid /\ UNCHANGED queue
      BY <1>1, PeerIsUser DEF Read
    <2>3. CASE Prune
      BY <2>2, <2>3 DEF Prune, Kept
    <2>4. ASSUME NEW kind \in Kinds, Receipt(kind, r), r.op \in ValidateOps
          PROVE  LimitsFit'
      <3>1. Grants(kind, r) \in ReceiptSet
        BY <2>2, <2>4, GrantsAreReceipts
      <3>2. Len(receipts') = Len(receipts) + 1 /\ Len(receipts) < MaxReceipts
        BY <2>4, <3>1, AppendProperties DEF Receipt, Issue, ReceiptsFit
      <3>3. prepared' \subseteq Keys
        BY <2>4, <3>1, KeyIsKey DEF Receipt, Kept
      <3>4. QED
        BY <2>2, <3>2, <3>3, HelperAssumption
    <2>5. QED
      BY <2>1, <2>3, <2>4, DispatchOutcomes DEF Asks, Refuse
  <1>2. CASE Backend
    <2>1. CASE Take(KindOf[request.op]) \/ UNCHANGED tables
      BY <1>2, <2>1, BackendOutcomes DEF Take
    <2>2. CASE /\ phase = "act" /\ request.op = "preview-activation"
               /\ Issue("test", request, pending) /\ UNCHANGED prepared
      <3>1. Len(receipts') = Len(receipts) + 1 /\ Len(receipts) < MaxReceipts
        BY <2>2, PreviewGrants, AppendProperties DEF Issue, ReceiptsFit
      <3>2. QED
        BY <1>2, <2>2, <3>1, BackendOutcomes, HelperAssumption
    <2>3. QED
      BY <1>2, <2>1, <2>2, BackendOutcomes
  <1>3. CASE Accept
    BY <1>3, HeadTailProperties, HelperAssumption DEF Accept, SocketFits
  <1>4. CASE Die
    BY <1>4, EmptySeq, HelperAssumption DEF Die
  <1>5. CASE ReadRubbish \/ Deny \/ Grant \/ Reply \/ Expire
    BY <1>5 DEF ReadRubbish, Deny, Grant, Reply, Expire
  <1>6. ASSUME NEW c \in Client, Connect(c)
        PROVE  LimitsFit'
    <2>1. [from |-> c, sent |-> FALSE, open |-> TRUE] \in Conn
      BY DEF Conn
    <2>2. Len(queue') = Len(queue) + 1 /\ Len(queue) < MaxQueue
      BY <1>6, <2>1, AppendProperties DEF Connect, SocketFits
    <2>3. QED
      BY <1>6, <2>2, HelperAssumption DEF Connect
  <1>7. ASSUME NEW c \in Client, Send(c) \/ Leave(c)
        PROVE  LimitsFit'
    <2>1. DOMAIN queue' = DOMAIN queue /\ UNCHANGED tables
      BY <1>7 DEF Send, Leave
    <2>2. queue' \in Seq(Conn)
      BY SocketFitsStep DEF SocketFits
    <2>3. Len(queue') = Len(queue)
      BY <2>1, <2>2, LenProperties DEF SocketFits
    <2>4. QED
      BY <2>1, <2>3
  <1>8. CASE UNCHANGED vars
    BY <1>8 DEF vars
  <1>9. QED
    BY <1>1, <1>2, <1>3, <1>4, <1>5, <1>6, <1>7, <1>8 DEF Next, Daemon

\* The variables have their types, and which of them are set is a matter of the
\* phase: there is a request in hand exactly while pkcheck or a backend runs, and
\* one that redeems a receipt names one that was issued.
THEOREM TypeCorrect == Spec => []TypeOK
  <1> DEFINE Fits == HandlingFits /\ LimitsFit
  <1>1. Init => Fits
    BY EmptySeq, HelperAssumption DEF Init, HandlingFits, LimitsFit
  <1>2. Inductive /\ Fits /\ [Next]_vars => Fits'
    BY HandlingFitsStep, LimitsFitStep DEF Inductive
  <1>3. Inductive /\ Fits => TypeOK
    BY DEF Inductive, HandlingFits, LimitsFit, SocketFits, ReceiptsFit,
       ReceiptSet, TypeOK, Statuses
  <1>4. QED
    BY <1>1, <1>2, <1>3, TablesFit, PTL DEF Spec

\* No prepared plan outlives the last receipt for it.
THEOREM NoOrphanPlans == Spec => []PreparedHaveReceipts
  <1>1. Inductive => PreparedHaveReceipts
    BY DEF Inductive, PlansFit
  <1>2. QED
    BY <1>1, TablesFit, PTL

\* A plan is missing at its apply only if its user validated it twice.
THEOREM OnlyTwinsMiss == Spec => []MissingMeansTwin
  <1>1. Inductive => MissingMeansTwin
    <2>1. SUFFICES ASSUME Inductive, Redeeming,
                          request.op # "test-activation",
                          Key(receipts[request.receipt]) \notin prepared
                   PROVE  \E r \in DOMAIN receipts \ {request.receipt} :
                            /\ receipts[r] = receipts[request.receipt]
                            /\ r \notin pending
      BY DEF MissingMeansTwin
    <2>2. request.receipt \in Live
      BY <2>1 DEF Live
    <2>3. receipts[request.receipt].kind # "test"
      BY <2>1 DEF Inductive, RequestFits, Redeeming, Grants, KindOf, ApplyOps
    <2>4. QED
      BY <2>1, <2>2, <2>3 DEF Inductive, TwinExplains
  <1>2. QED
    BY <1>1, TablesFit, PTL

\* A receipt is redeemed once: when its backend runs it is gone, and no step of
\* the helper brings a receipt back.
THEOREM NoReplay == Spec => SpentStaysSpent
  <1> DEFINE Spends == /\ Redeeming => request.receipt \notin pending
                       /\ pending' \cap DOMAIN receipts \subseteq pending
  <1>1. Inductive /\ [Next]_vars => Spends
    <2> USE DEF socket, handling, tables
    <2>1. SUFFICES ASSUME Inductive, [Next]_vars
                   PROVE  Spends
      OBVIOUS
    <2>2. Redeeming => request.receipt \notin pending
      BY <2>1 DEF Inductive, RequestFits, Redeeming
    <2>3. SUFFICES pending' \cap DOMAIN receipts \subseteq pending
      BY <2>2
    <2>4. CASE Read
      <3>1. PICK r \in Requests(UidOf[serving.from]) : Dispatch(r)
        BY <2>4 DEF Read
      <3>2. UidOf[serving.from] \in Uid
        BY <2>1, <2>4, PeerIsUser DEF Read, Inductive
      <3>3. CASE Prune
        BY <3>3 DEF Prune, Unexpired
      <3>4. ASSUME NEW kind \in Kinds, Receipt(kind, r), r.op \in ValidateOps
            PROVE  pending' \cap DOMAIN receipts \subseteq pending
        <4>1. Unexpired \in SUBSET pending
          BY DEF Unexpired
        <4>2. QED
          BY <2>1, <3>2, <3>4, <4>1, GrantsAreReceipts, IssueAppends
          DEF Receipt, Inductive
      <3>5. QED
        BY <3>1, <3>3, <3>4, DispatchOutcomes DEF Asks, Refuse
    <2>5. CASE Backend
      <3>1. CASE Take(KindOf[request.op]) \/ UNCHANGED tables
        BY <3>1 DEF Take
      <3>2. CASE /\ phase = "act" /\ request.op = "preview-activation"
                 /\ Issue("test", request, pending)
        BY <2>1, <3>2, PreviewGrants, IssueAppends DEF Inductive
      <3>3. QED
        BY <2>5, <3>1, <3>2, BackendOutcomes
    <2>6. CASE Grant \/ Expire \/ Die
      BY <2>6 DEF Grant, Expire, Die
    <2>7. CASE Accept \/ ReadRubbish \/ Deny \/ Reply
      BY <2>7 DEF Accept, ReadRubbish, Deny, Reply
    <2>8. ASSUME NEW c \in Client, Connect(c) \/ Send(c) \/ Leave(c)
          PROVE  pending' \cap DOMAIN receipts \subseteq pending
      BY <2>8 DEF Connect, Send, Leave
    <2>9. CASE UNCHANGED vars
      BY <2>9 DEF vars
    <2>10. QED
      BY <2>1, <2>4, <2>5, <2>6, <2>7, <2>8, <2>9 DEF Next, Daemon
  <1>2. QED
    BY <1>1, TablesFit, PTL DEF Spec, SpentStaysSpent

\* A request whose receipt has expired before it is read does not get as far as
\* pkcheck, in any of the five workflows.
THEOREM ExpiredIsRefused == Spec => FreshWhenAsked
  <1> DEFINE Fresh ==
        phase' = "pkcheck" /\ phase = "accept" /\ request'.op \in ApplyOps
          => request'.receipt \notin late
  <1>1. [Next]_vars => Fresh
    <2>1. SUFFICES ASSUME [Next]_vars, phase = "accept", phase' = "pkcheck",
                          request'.op \in ApplyOps
                   PROVE  request'.receipt \notin late
      OBVIOUS
    <2>2. Read
      BY <2>1 DEF Next, Daemon, Accept, ReadRubbish, Backend, Deny, Grant,
           Reply, Expire, Die, Connect, Send, Leave, vars, socket, handling,
           tables, Answer, WritePlan, WriteHomeManager, WriteManaged,
           WriteFlakeLock, RunTest, RunPreview, RunRecovery, Acts
    <2>3. PICK r \in Requests(UidOf[serving.from]) : Dispatch(r)
      BY <2>2 DEF Read
    <2>4. Matches(KindOf[r.op], r) /\ request' = r
      BY <2>1, <2>3, DispatchOutcomes DEF Asks, Refuse, Receipt, Answer
    <2>5. QED
      BY <2>4 DEF Matches, Unexpired
  <1>2. QED
    BY <1>1, PTL DEF Spec, FreshWhenAsked
=============================================================================
