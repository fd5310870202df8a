--------------------------- MODULE ExecutorProofs ---------------------------
(***************************************************************************)
(* Theorems about Executor for every set of processes, intents and signals *)
(* and every configuration: types and nonces, the dedup set of a run, the  *)
(* store that only grows, what needs a human in any mode, and in manual    *)
(* mode every audit trail there can be and the life cycle behind them.     *)
(***************************************************************************)
EXTENDS Executor, SequenceTheorems, TLAPS

-----------------------------------------------------------------------------
(* Type correctness. *)

LEMMA FormedRowType ==
    ASSUME NEW s \in Signals, NEW n \in Nat, NEW t \in Nat
    PROVE  FormedRow(s, n, t) \in Row
BY ExecutorAssumption DEF FormedRow, Row, SettingsType

LEMMA RowOfType ==
    ASSUME TypeOK, NEW w \in Workers, pc[w] # "idle",
           tx[w].kind = "propose" \/ Committed(tx[w].id)
    PROVE  RowOf(w) \in Row
<1>1. tx[w] \in Tx  BY DEF TypeOK
<1>2. CASE tx[w].kind = "propose"
    BY <1>1, <1>2, FormedRowType DEF RowOf, Tx
<1>3. CASE tx[w].kind # "propose"
    BY <1>1, <1>3 DEF RowOf, Tx, TypeOK, Committed
<1> QED  BY <1>2, <1>3

LEMMA RollbackType ==
    ASSUME TypeOK, NEW w \in Workers, Rollback(w)
    PROVE  TypeOK'
BY DEF TypeOK, Rollback, ReleaseNonce, HoldsNonce, store, PCs, Workers

LEMMA AdvanceType ==
    ASSUME TypeOK, NEW w \in Workers, pc[w] # "idle",
           NEW es \in Seq(Events), NEW p \in PCs, Advance(w, es, p)
    PROVE  TypeOK'
<1>1. tx[w] \in Tx  BY DEF TypeOK
<1>2. tx[w].events \o es \in Seq(Events)  BY <1>1 DEF Tx
<1>3. [tx[w] EXCEPT !.events = @ \o es] \in Tx  BY <1>1, <1>2 DEF Tx
<1>4. tx' = [tx EXCEPT ![w] = [tx[w] EXCEPT !.events = @ \o es]]
    BY DEF Advance, TypeOK
<1> QED
    BY <1>3, <1>4 DEF TypeOK, Advance, queue, store

(* A transaction that starts as the given record. *)
LEMMA BeginType ==
    ASSUME TypeOK, NEW w \in Workers, NEW t \in Tx, NEW p \in PCs,
           tx' = [tx EXCEPT ![w] = t], pc' = [pc EXCEPT ![w] = p]
    PROVE  /\ pc' \in [Workers -> PCs]
           /\ tx' \in [Workers -> Tx \cup {NoTx}]
           /\ \A v \in Workers : pc'[v] # "idle" => tx'[v] \in Tx
BY DEF TypeOK

LEMMA BeginProposeType ==
    ASSUME TypeOK, NEW w \in Workers, NEW s \in Signals, NEW i \in IntentIds,
           BeginPropose(w, s, i)
    PROVE  /\ pc' \in [Workers -> PCs]
           /\ tx' \in [Workers -> Tx \cup {NoTx}]
           /\ \A v \in Workers : pc'[v] # "idle" => tx'[v] \in Tx
<1> DEFINE t == [kind |-> "propose", id |-> i, signal |-> s,
                 now |-> clock, nonce |-> 0, events |-> <<>>]
<1>1. t \in Tx  BY DEF TypeOK, Tx
<1> QED  BY <1>1, BeginType DEF BeginPropose, PCs

LEMMA CommitType ==
    ASSUME TypeOK, NEW w \in Workers, Commit(w),
           tx[w].kind = "approve" => Committed(tx[w].id)
    PROVE  TypeOK'
<1>1. tx[w] \in Tx /\ pc[w] # "idle"  BY DEF TypeOK, Commit
<1>2. RowOf(w) \in Row  BY <1>1, RowOfType DEF Tx
<1>3. trail' \in [IntentIds -> Seq(Events)]
  <2>1. trail[tx[w].id] \o tx[w].events \in Seq(Events)
      BY <1>1 DEF TypeOK, Tx
  <2> QED  BY <1>1, <2>1 DEF TypeOK, Tx, Commit
<1>4. /\ DOMAIN intents' \subseteq IntentIds
      /\ intents' \in [DOMAIN intents' -> Row]
      /\ nextNonce' \in Nat
      /\ approvals' \subseteq IntentIds
  <2>1. CASE CommitProposal(w)
    <3>1. DOMAIN intents' = DOMAIN intents \cup {tx[w].id}
        BY <2>1 DEF CommitProposal
    <3>2. \A j \in DOMAIN intents' :
             intents'[j] = IF j = tx[w].id THEN RowOf(w) ELSE intents[j]
        BY <2>1 DEF CommitProposal
    <3>3. \A j \in DOMAIN intents' : intents'[j] \in Row
        BY <1>2, <3>1, <3>2 DEF TypeOK
    <3>4. intents' \in [DOMAIN intents' -> Row]
        BY <2>1, <3>1, <3>3 DEF CommitProposal
    <3>5. tx[w].id \in IntentIds /\ tx[w].nonce \in Nat
        BY <1>1 DEF Tx
    <3>6. DOMAIN intents' \subseteq IntentIds
        BY <3>1, <3>5 DEF TypeOK
    <3>7. nextNonce' \in Nat /\ approvals' \subseteq IntentIds
        BY <2>1, <3>5 DEF CommitProposal, TypeOK
    <3> QED  BY <3>4, <3>6, <3>7
  <2>2. CASE CommitApproval(w)
      BY <1>1, <2>2 DEF CommitApproval, TypeOK, Tx
  <2> QED  BY <2>1, <2>2 DEF Commit
<1>5. seen' \in [Consumers -> SUBSET Signals] /\ made' \in [Consumers -> SUBSET IntentIds]
    BY <1>1 DEF TypeOK, Tx, Commit
<1> QED
    BY <1>3, <1>4, <1>5 DEF TypeOK, Commit, ReleaseNonce, HoldsNonce, PCs

LEMMA ConsumeType ==
    ASSUME TypeOK, NEW c \in Consumers, Consume(c)
    PROVE  TypeOK'
<1> DEFINE m == Head(inbox[c])
<1>1. c \in Workers  BY DEF Workers
<1>2. /\ m \in Signals \cup {Malformed}
      /\ Tail(inbox[c]) \in Seq(Signals \cup {Malformed})
    BY DEF TypeOK, Consume
<1>3. inbox' \in [Consumers -> Seq(Signals \cup {Malformed})]
    BY <1>2 DEF TypeOK, Consume
<1>4. CASE Skipped(c, m) /\ UNCHANGED <<pc, tx>>
    BY <1>3, <1>4 DEF TypeOK, Consume, store
<1>5. CASE ~Skipped(c, m) /\ \E i \in IntentIds : BeginPropose(c, m, i)
  <2>1. m \in Signals  BY <1>2, <1>5 DEF Skipped
  <2> QED
      BY <1>1, <1>3, <1>5, <2>1, BeginProposeType DEF TypeOK, Consume, store
<1> QED  BY <1>4, <1>5 DEF Consume

LEMMA BeginApproveType ==
    ASSUME TypeOK, NEW h \in Handlers, NEW i \in IntentIds, BeginApprove(h, i)
    PROVE  TypeOK'
<1> DEFINE t == [kind |-> "approve", id |-> i, signal |-> intents[i].signal,
                 now |-> clock, nonce |-> intents[i].nonce, events |-> <<>>]
<1>1. intents[i] \in Row  BY DEF TypeOK, BeginApprove, Committed
<1>2. t \in Tx  BY <1>1 DEF TypeOK, Tx, Row
<1>3. h \in Workers  BY DEF Workers
<1> QED
    BY <1>2, <1>3, BeginType DEF BeginApprove, TypeOK, PCs, queue, store

LEMMA AllocateNonceType ==
    ASSUME TypeOK, NEW w \in Workers, AllocateNonce(w)
    PROVE  TypeOK'
<1>1. tx[w] \in Tx  BY DEF TypeOK, AllocateNonce
<1>2. [tx[w] EXCEPT !.nonce = nextNonce] \in Tx  BY <1>1 DEF TypeOK, Tx
<1>3. tx' = [tx EXCEPT ![w] = [tx[w] EXCEPT !.nonce = nextNonce]]
    BY DEF AllocateNonce, TypeOK
<1> QED
    BY <1>2, <1>3, BeginType DEF AllocateNonce, TypeOK, PCs, queue, store

(* Any step but the commit of a transaction that is not of the kind it     *)
(* claims preserves the types; IdInv supplies what the commit needs.       *)
LEMMA NextType ==
    ASSUME TypeOK, IdInv, [Next]_vars
    PROVE  TypeOK'
<1>1. CASE UNCHANGED vars
    BY <1>1 DEF vars, queue, store, TypeOK
<1>2. CASE Tick
    BY <1>2 DEF Tick, queue, store, TypeOK
<1>3. ASSUME NEW m \in Signals \cup {Malformed}, Publish(m)
      PROVE  TypeOK'
  <2>1. inbox' \in [Consumers -> Seq(Signals \cup {Malformed})]
      BY <1>3 DEF Publish, TypeOK
  <2> QED  BY <1>3, <2>1 DEF Publish, store, TypeOK
<1>4. ASSUME NEW c \in Consumers, Restart(c)
      PROVE  TypeOK'
    BY <1>4 DEF Restart, store, TypeOK
<1>5. ASSUME NEW c \in Consumers, Consume(c)
      PROVE  TypeOK'
    BY <1>5, ConsumeType
<1>6. ASSUME NEW h \in Handlers, NEW s \in Signals, RunCli(h, s)
      PROVE  TypeOK'
    BY <1>6, BeginProposeType DEF RunCli, TypeOK, store, Workers
<1>7. ASSUME NEW h \in Handlers, NEW i \in IntentIds, BeginApprove(h, i)
      PROVE  TypeOK'
    BY <1>7, BeginApproveType
<1>8. ASSUME NEW h \in Handlers, InsertApproval(h)
      PROVE  TypeOK'
  <2>1. h \in Workers /\ pc[h] # "idle"  BY <1>8 DEF Workers, InsertApproval
  <2>2. <<"approved">> \in Seq(Events) /\ "sign" \in PCs  BY DEF Events, PCs
  <2> QED  BY <1>8, <2>1, <2>2, RollbackType, AdvanceType DEF InsertApproval
<1>9. ASSUME NEW w \in Workers, Step(w)
      PROVE  TypeOK'
  <2>1. CASE AllocateNonce(w)  BY <2>1, AllocateNonceType
  <2>2. CASE FormIntent(w)
    <3>1. /\ <<"formed", "breaker_rejected">> \in Seq(Events)
          /\ <<"formed", "pending_approval">> \in Seq(Events)
          /\ <<"formed">> \in Seq(Events)
          /\ "commit" \in PCs /\ "sign" \in PCs
        BY DEF Events, PCs
    <3> QED  BY <2>2, <3>1, RollbackType, AdvanceType DEF FormIntent
  <2>3. CASE Sign(w)
    <3>1. /\ <<"signed">> \in Seq(Events) /\ <<"signer_rejected">> \in Seq(Events)
          /\ "submit" \in PCs /\ "commit" \in PCs
        BY DEF Events, PCs
    <3> QED  BY <2>3, <3>1, RollbackType, AdvanceType DEF Sign
  <2>4. CASE Submit(w)
    <3>1. <<"submitted">> \in Seq(Events) /\ "commit" \in PCs  BY DEF Events, PCs
    <3> QED  BY <2>4, <3>1, RollbackType, AdvanceType DEF Submit
  <2>5. CASE Commit(w)
    <3>1. tx[w].kind = "approve" => Committed(tx[w].id)
        BY <2>5 DEF Commit, IdInv
    <3> QED  BY <2>5, <3>1, CommitType
  <2>6. CASE Crash(w)  BY <2>6, RollbackType DEF Crash
  <2> QED  BY <1>9, <2>1, <2>2, <2>3, <2>4, <2>5, <2>6 DEF Step
<1> QED
    BY <1>1, <1>2, <1>3, <1>4, <1>5, <1>6, <1>7, <1>8, <1>9 DEF Next
-----------------------------------------------------------------------------
(* The nonce invariant: who holds the counter row, and what it protects.   *)

CoreInv == KindInv /\ LockInv /\ IdInv /\ NoncesDense

LEMMA FrameCore ==
    ASSUME CoreInv, UNCHANGED <<pc, tx, nonceLock, nextNonce, intents>>
    PROVE  CoreInv'
BY DEF CoreInv, KindInv, LockInv, IdInv, NoncesDense, Committed

(* A transaction that moves on keeps its kind, its id and its nonce. *)
LEMMA AdvanceKeeps ==
    ASSUME TypeOK, NEW w \in Workers, pc[w] # "idle",
           NEW es \in Seq(Events), NEW p \in PCs, Advance(w, es, p)
    PROVE  /\ \A v \in Workers : /\ tx'[v].kind = tx[v].kind
                                 /\ tx'[v].id = tx[v].id
                                 /\ tx'[v].nonce = tx[v].nonce
           /\ pc' = [pc EXCEPT ![w] = p]
           /\ UNCHANGED <<nonceLock, nextNonce, intents>>
<1>1. tx[w] \in Tx  BY DEF TypeOK
<1>2. /\ tx'[w].kind = tx[w].kind
      /\ tx'[w].id = tx[w].id
      /\ tx'[w].nonce = tx[w].nonce
    BY <1>1 DEF Advance, TypeOK, Tx
<1>3. \A v \in Workers : v # w => tx'[v] = tx[v]
    BY DEF Advance, TypeOK
<1> QED  BY <1>2, <1>3 DEF Advance, store

LEMMA AdvanceCore ==
    ASSUME TypeOK, CoreInv, NEW w \in Workers,
           pc[w] \in {"form", "approval", "sign", "submit"},
           NEW es \in Seq(Events), NEW p \in {"sign", "submit", "commit"},
           Advance(w, es, p)
    PROVE  CoreInv'
<1>0. p \in PCs /\ pc[w] # "idle"  BY DEF PCs
<1>1. \A v \in Workers : /\ tx'[v].kind = tx[v].kind
                         /\ tx'[v].id = tx[v].id
                         /\ tx'[v].nonce = tx[v].nonce
    BY <1>0, AdvanceKeeps
<1>2. /\ pc' = [pc EXCEPT ![w] = p]
      /\ UNCHANGED <<nonceLock, nextNonce, intents>>
    BY <1>0, AdvanceKeeps
<1>3. pc'[w] = p /\ \A v \in Workers : v # w => pc'[v] = pc[v]
    BY <1>2 DEF TypeOK
<1>4. KindInv'  BY <1>1, <1>3 DEF CoreInv, KindInv
<1>5. LockInv'
    BY <1>1, <1>2, <1>3 DEF CoreInv, KindInv, LockInv
<1>6. IdInv'
    BY <1>0, <1>1, <1>2, <1>3 DEF CoreInv, IdInv, Committed
<1>7. NoncesDense'  BY <1>2 DEF CoreInv, NoncesDense
<1> QED  BY <1>4, <1>5, <1>6, <1>7 DEF CoreInv

LEMMA RollbackCore ==
    ASSUME TypeOK, CoreInv, NEW w \in Workers, Rollback(w)
    PROVE  CoreInv'
<1>1. /\ pc'[w] = "idle"
      /\ \A v \in Workers : v # w => pc'[v] = pc[v] /\ tx'[v] = tx[v]
      /\ UNCHANGED <<nextNonce, intents>>
    BY DEF Rollback, TypeOK, store
<1>2. KindInv'  BY <1>1 DEF CoreInv, KindInv
<1>3. LockInv'
    BY <1>1, ExecutorAssumption DEF CoreInv, LockInv, Rollback, ReleaseNonce, HoldsNonce
<1>4. IdInv'  BY <1>1 DEF CoreInv, IdInv, Committed
<1>5. NoncesDense'  BY <1>1 DEF CoreInv, NoncesDense
<1> QED  BY <1>2, <1>3, <1>4, <1>5 DEF CoreInv

LEMMA BeginProposeCore ==
    ASSUME TypeOK, CoreInv, NEW w \in Workers, pc[w] = "idle",
           NEW s \in Signals, NEW i \in IntentIds, BeginPropose(w, s, i),
           UNCHANGED <<nonceLock, nextNonce, intents>>
    PROVE  CoreInv'
<1>1. /\ pc'[w] = "nonce" /\ tx'[w].kind = "propose" /\ tx'[w].id = i
      /\ \A v \in Workers : v # w => pc'[v] = pc[v] /\ tx'[v] = tx[v]
    BY DEF BeginPropose, TypeOK
<1>2. /\ ~Committed(i)
      /\ \A v \in Workers : pc[v] # "idle" => tx[v].id # i
    BY DEF BeginPropose, FreshId
<1>3. KindInv'  BY <1>1 DEF CoreInv, KindInv
<1>4. LockInv'  BY <1>1 DEF CoreInv, LockInv
<1>5. IdInv'  BY <1>1, <1>2 DEF CoreInv, IdInv, Committed
<1>6. NoncesDense'  BY DEF CoreInv, NoncesDense
<1> QED  BY <1>3, <1>4, <1>5, <1>6 DEF CoreInv

LEMMA BeginApproveCore ==
    ASSUME TypeOK, CoreInv, NEW h \in Handlers, NEW i \in IntentIds, BeginApprove(h, i)
    PROVE  CoreInv'
<1>0. h \in Workers  BY DEF Workers
<1>1. /\ pc'[h] = "approval" /\ tx'[h].kind = "approve" /\ tx'[h].id = i
      /\ \A v \in Workers : v # h => pc'[v] = pc[v] /\ tx'[v] = tx[v]
      /\ pc[h] = "idle" /\ Committed(i)
      /\ UNCHANGED <<nonceLock, nextNonce, intents>>
    BY <1>0 DEF BeginApprove, TypeOK, store
<1>2. KindInv'  BY <1>1 DEF CoreInv, KindInv
<1>3. LockInv'  BY <1>1 DEF CoreInv, LockInv
<1>4. IdInv'  BY <1>1 DEF CoreInv, IdInv, Committed
<1>5. NoncesDense'  BY <1>1 DEF CoreInv, NoncesDense
<1> QED  BY <1>2, <1>3, <1>4, <1>5 DEF CoreInv

LEMMA AllocateNonceCore ==
    ASSUME TypeOK, CoreInv, NEW w \in Workers, AllocateNonce(w)
    PROVE  CoreInv'
<1>0. tx[w] \in Tx  BY DEF TypeOK, AllocateNonce
<1>1. /\ pc[w] = "nonce" /\ pc'[w] = "form"
      /\ \A v \in Workers : v # w => pc'[v] = pc[v] /\ tx'[v] = tx[v]
      /\ nonceLock = NoOne /\ nonceLock' = w
      /\ UNCHANGED <<nextNonce, intents>>
    BY DEF AllocateNonce, TypeOK, store
<1>2. tx'[w].kind = tx[w].kind /\ tx'[w].id = tx[w].id /\ tx'[w].nonce = nextNonce
    BY <1>0 DEF AllocateNonce, TypeOK, Tx
<1>3. KindInv'  BY <1>1, <1>2 DEF CoreInv, KindInv
<1>4. LockInv'
    BY <1>1, <1>2, ExecutorAssumption DEF CoreInv, KindInv, LockInv
<1>5. IdInv'  BY <1>1, <1>2 DEF CoreInv, IdInv, Committed
<1>6. NoncesDense'  BY <1>1 DEF CoreInv, NoncesDense
<1> QED  BY <1>3, <1>4, <1>5, <1>6 DEF CoreInv

(* The commit of a proposal is the only step that gives a nonce away: it   *)
(* gives the counter's value, because it holds the counter's row.          *)
LEMMA CommitCore ==
    ASSUME TypeOK, CoreInv, NEW w \in Workers, Commit(w)
    PROVE  CoreInv'
<1>1. /\ pc[w] = "commit" /\ pc'[w] = "idle"
      /\ \A v \in Workers : v # w => pc'[v] = pc[v] /\ tx'[v] = tx[v]
    BY DEF Commit, TypeOK
<1>2. tx[w] \in Tx  BY <1>1 DEF TypeOK
<1>3. KindInv'  BY <1>1 DEF CoreInv, KindInv
<1>4. CASE tx[w].kind = "approve"
  <2>1. UNCHANGED <<nextNonce, intents>>
      BY <1>4 DEF Commit, CommitApproval
  <2>2. nonceLock # w  BY <1>4 DEF CoreInv, LockInv
  <2>3. nonceLock' = nonceLock  BY <2>2 DEF Commit, ReleaseNonce, HoldsNonce
  <2>4. LockInv'  BY <1>1, <2>1, <2>2, <2>3 DEF CoreInv, LockInv
  <2>5. IdInv'  BY <1>1, <2>1 DEF CoreInv, IdInv, Committed
  <2>6. NoncesDense'  BY <2>1 DEF CoreInv, NoncesDense
  <2> QED  BY <1>3, <2>4, <2>5, <2>6 DEF CoreInv
<1>5. CASE tx[w].kind = "propose"
  <2> DEFINE i == tx[w].id
  <2>1. nonceLock = w /\ tx[w].nonce = nextNonce
      BY <1>1, <1>5 DEF CoreInv, LockInv
  <2>2. nonceLock' = NoOne  BY <2>1 DEF Commit, ReleaseNonce, HoldsNonce
  <2>3. /\ nextNonce' = nextNonce + 1
        /\ DOMAIN intents' = DOMAIN intents \cup {i}
        /\ intents'[i] = RowOf(w)
        /\ \A j \in DOMAIN intents : j # i => intents'[j] = intents[j]
      BY <1>5, <2>1 DEF Commit, CommitProposal
  <2>4. intents'[i].nonce = nextNonce
      BY <1>5, <2>1, <2>3 DEF RowOf, FormedRow
  <2>5. i \notin DOMAIN intents  BY <1>1, <1>5 DEF CoreInv, IdInv, Committed
  <2>6. LockInv'
      BY <1>1, <2>1, <2>2, ExecutorAssumption DEF CoreInv, LockInv
  <2>7. IdInv'
    <3>1. \A v \in Workers : v # w /\ pc[v] # "idle" /\ tx[v].kind = "propose"
                                => tx[v].id # i
        BY <1>1, <1>5 DEF CoreInv, IdInv
    <3>2. ASSUME NEW v \in Workers, pc'[v] # "idle"
          PROVE  tx'[v].kind = "approve" <=> tx'[v].id \in DOMAIN intents'
      <4>1. v # w /\ tx'[v] = tx[v] /\ pc[v] # "idle"  BY <1>1, <3>2
      <4>2. tx[v] \in Tx  BY <4>1 DEF TypeOK
      <4>3. tx[v].kind = "approve" <=> tx[v].id \in DOMAIN intents
          BY <4>1 DEF CoreInv, IdInv, Committed
      <4>4. tx[v].kind \in {"propose", "approve"}  BY <4>2 DEF Tx
      <4> QED  BY <2>3, <3>1, <4>1, <4>3, <4>4
    <3>3. ASSUME NEW u \in Workers, NEW v \in Workers,
                 u # v, pc'[u] # "idle", pc'[v] # "idle",
                 tx'[u].kind = "propose", tx'[v].kind = "propose"
          PROVE  tx'[u].id # tx'[v].id
        BY <1>1, <3>3 DEF CoreInv, IdInv
    <3> QED  BY <3>2, <3>3 DEF IdInv, Committed
  <2>8. NoncesDense'
    <3>1. \A j \in DOMAIN intents : intents'[j].nonce = intents[j].nonce
        BY <2>3, <2>5
    <3>2. {intents[j].nonce : j \in DOMAIN intents} = 0 .. nextNonce - 1
        BY DEF CoreInv, NoncesDense
    <3>3. \A j \in DOMAIN intents : intents'[j].nonce # nextNonce
      <4>1. \A j \in DOMAIN intents : intents[j].nonce \in 0 .. nextNonce - 1
          BY <3>2
      <4>2. nextNonce \in Nat  BY DEF TypeOK
      <4> QED  BY <3>1, <4>1, <4>2
    <3>4. \A j, k \in DOMAIN intents' :
             intents'[j].nonce = intents'[k].nonce => j = k
        BY <2>3, <2>4, <3>1, <3>3 DEF CoreInv, NoncesDense
    <3>5. {intents'[j].nonce : j \in DOMAIN intents'}
             = {intents[j].nonce : j \in DOMAIN intents} \cup {nextNonce}
        BY <2>3, <2>4, <2>5, <3>1
    <3>6. 0 .. nextNonce' - 1 = (0 .. nextNonce - 1) \cup {nextNonce}
        BY <2>3 DEF TypeOK
    <3> QED  BY <3>2, <3>4, <3>5, <3>6 DEF NoncesDense
  <2> QED  BY <1>3, <2>6, <2>7, <2>8 DEF CoreInv
<1> QED  BY <1>2, <1>4, <1>5 DEF Tx

LEMMA NextCore ==
    ASSUME TypeOK, CoreInv, [Next]_vars
    PROVE  CoreInv'
<1>1. CASE UNCHANGED vars
    BY <1>1, FrameCore DEF vars, store
<1>2. CASE Tick
    BY <1>2, FrameCore DEF Tick, store
<1>3. ASSUME NEW m \in Signals \cup {Malformed}, Publish(m)
      PROVE  CoreInv'
    BY <1>3, FrameCore DEF Publish, store
<1>4. ASSUME NEW c \in Consumers, Restart(c)
      PROVE  CoreInv'
    BY <1>4, FrameCore DEF Restart, store
<1>5. ASSUME NEW c \in Consumers, Consume(c)
      PROVE  CoreInv'
  <2>1. CASE UNCHANGED <<pc, tx>>
      BY <1>5, <2>1, FrameCore DEF Consume, store
  <2>2. ASSUME NEW i \in IntentIds, ~Skipped(c, Head(inbox[c])),
               BeginPropose(c, Head(inbox[c]), i)
        PROVE  CoreInv'
    <3>1. c \in Workers  BY DEF Workers
    <3>2. Head(inbox[c]) \in Signals
        BY <1>5, <2>2 DEF Consume, TypeOK, Skipped
    <3> QED  BY <1>5, <2>2, <3>1, <3>2, BeginProposeCore DEF Consume, store
  <2> QED  BY <1>5, <2>1, <2>2 DEF Consume
<1>6. ASSUME NEW h \in Handlers, NEW s \in Signals, RunCli(h, s)
      PROVE  CoreInv'
  <2>1. h \in Workers  BY DEF Workers
  <2> QED  BY <1>6, <2>1, BeginProposeCore DEF RunCli, store
<1>7. ASSUME NEW h \in Handlers, NEW i \in IntentIds, BeginApprove(h, i)
      PROVE  CoreInv'
    BY <1>7, BeginApproveCore
<1>8. ASSUME NEW h \in Handlers, InsertApproval(h)
      PROVE  CoreInv'
  <2>1. h \in Workers /\ pc[h] = "approval"  BY <1>8 DEF Workers, InsertApproval
  <2>2. <<"approved">> \in Seq(Events)  BY DEF Events
  <2> QED  BY <1>8, <2>1, <2>2, RollbackCore, AdvanceCore DEF InsertApproval
<1>9. ASSUME NEW w \in Workers, Step(w)
      PROVE  CoreInv'
  <2>1. CASE AllocateNonce(w)  BY <2>1, AllocateNonceCore
  <2>2. CASE FormIntent(w)
    <3>1. /\ <<"formed", "breaker_rejected">> \in Seq(Events)
          /\ <<"formed", "pending_approval">> \in Seq(Events)
          /\ <<"formed">> \in Seq(Events)
        BY DEF Events
    <3> QED  BY <2>2, <3>1, RollbackCore, AdvanceCore DEF FormIntent
  <2>3. CASE Sign(w)
    <3>1. <<"signed">> \in Seq(Events) /\ <<"signer_rejected">> \in Seq(Events)
        BY DEF Events
    <3> QED  BY <2>3, <3>1, AdvanceCore DEF Sign
  <2>4. CASE Submit(w)
    <3>1. <<"submitted">> \in Seq(Events)  BY DEF Events
    <3> QED  BY <2>4, <3>1, RollbackCore, AdvanceCore DEF Submit
  <2>5. CASE Commit(w)  BY <2>5, CommitCore
  <2>6. CASE Crash(w)  BY <2>6, RollbackCore DEF Crash
  <2> QED  BY <1>9, <2>1, <2>2, <2>3, <2>4, <2>5, <2>6 DEF Step
<1> QED
    BY <1>1, <1>2, <1>3, <1>4, <1>5, <1>6, <1>7, <1>8, <1>9 DEF Next

LEMMA InitNonceInv == Init => NonceInv
<1> SUFFICES ASSUME Init  PROVE NonceInv
    OBVIOUS
<1>1. TypeOK  BY DEF Init, TypeOK, PCs, Row
<1>2. KindInv /\ LockInv /\ IdInv
    BY ExecutorAssumption DEF Init, KindInv, LockInv, IdInv
<1>3. NoncesDense
  <2>1. DOMAIN intents = {} /\ nextNonce = 0  BY DEF Init
  <2> QED  BY <2>1 DEF NoncesDense
<1> QED  BY <1>1, <1>2, <1>3 DEF NonceInv

LEMMA NextNonceInv == NonceInv /\ [Next]_vars => NonceInv'
BY NextType, NextCore DEF NonceInv, CoreInv

LEMMA NonceInvariant == Spec => []NonceInv
BY InitNonceInv, NextNonceInv, PTL DEF Spec

(* Every variable keeps its type whatever transactions race or fail. *)
THEOREM TypeCorrect == Spec => []TypeOK
<1>1. NonceInv => TypeOK  BY DEF NonceInv
<1> QED  BY <1>1, NonceInvariant, PTL

(* store.allocate_nonce: for any number of consumers and handlers, with    *)
(* crashes anywhere, the committed intents carry the nonces below the      *)
(* counter, each exactly once.                                             *)
THEOREM NoncesAreDense == Spec => []NoncesDense
<1>1. NonceInv => NoncesDense  BY DEF NonceInv
<1> QED  BY <1>1, NonceInvariant, PTL
-----------------------------------------------------------------------------
(* The dedup set of a consumer's run, and what the run has made.           *)

OnceInv == DedupInv /\ OneIntentPerSignalPerRun

LEMMA FrameOnce ==
    ASSUME OnceInv, UNCHANGED <<pc, tx, seen, made, intents>>
    PROVE  OnceInv'
BY DEF OnceInv, DedupInv, OneIntentPerSignalPerRun, Committed

LEMMA AdvanceOnce ==
    ASSUME TypeOK, OnceInv, NEW w \in Workers, pc[w] # "idle",
           NEW es \in Seq(Events), NEW p \in PCs, Advance(w, es, p)
    PROVE  OnceInv'
<1>1. tx[w] \in Tx  BY DEF TypeOK
<1>2. tx'[w].kind = tx[w].kind /\ tx'[w].signal = tx[w].signal
    BY <1>1 DEF Advance, TypeOK, Tx
<1>3. \A v \in Workers : v # w => tx'[v] = tx[v] /\ pc'[v] = pc[v]
    BY DEF Advance, TypeOK
<1>4. UNCHANGED <<seen, made, intents>>  BY DEF Advance, queue, store
<1> QED
    BY <1>2, <1>3, <1>4
    DEF OnceInv, DedupInv, OneIntentPerSignalPerRun, Committed, Workers

LEMMA RollbackOnce ==
    ASSUME TypeOK, OnceInv, NEW w \in Workers, Rollback(w)
    PROVE  OnceInv'
<1>1. /\ pc'[w] = "idle"
      /\ \A v \in Workers : v # w => tx'[v] = tx[v] /\ pc'[v] = pc[v]
    BY DEF Rollback, TypeOK
<1>2. /\ \A c \in Consumers : c # w => seen'[c] = seen[c] /\ made'[c] = made[c]
      /\ w \in Consumers => made'[w] = {}
      /\ UNCHANGED intents
    BY DEF Rollback, store
<1> QED
    BY <1>1, <1>2 DEF OnceInv, DedupInv, OneIntentPerSignalPerRun, Committed, Workers

LEMMA ConsumeOnce ==
    ASSUME TypeOK, OnceInv, NEW c \in Consumers, Consume(c)
    PROVE  OnceInv'
<1>1. UNCHANGED <<seen, made, intents>>  BY DEF Consume, store
<1>2. CASE UNCHANGED <<pc, tx>>  BY <1>1, <1>2, FrameOnce
<1>3. ASSUME NEW i \in IntentIds, ~Skipped(c, Head(inbox[c])),
             BeginPropose(c, Head(inbox[c]), i)
      PROVE  OnceInv'
  <2>1. Head(inbox[c]) \notin seen[c]  BY <1>3 DEF Skipped
  <2>2. c \in Workers  BY DEF Workers
  <2>3. /\ tx'[c].kind = "propose" /\ tx'[c].signal = Head(inbox[c])
        /\ \A v \in Workers : v # c => tx'[v] = tx[v] /\ pc'[v] = pc[v]
      BY <1>3, <2>2 DEF BeginPropose, TypeOK
  <2> QED
      BY <1>1, <2>1, <2>3
      DEF OnceInv, DedupInv, OneIntentPerSignalPerRun, Committed, Workers
<1> QED  BY <1>2, <1>3 DEF Consume

(* What a handler begins is no consumer's. *)
LEMMA HandlerOnce ==
    ASSUME TypeOK, OnceInv, NEW h \in Handlers, UNCHANGED <<seen, made, intents>>,
           \A v \in Workers : v # h => tx'[v] = tx[v] /\ pc'[v] = pc[v]
    PROVE  OnceInv'
BY ExecutorAssumption
   DEF OnceInv, DedupInv, OneIntentPerSignalPerRun, Committed, Workers

(* A consumer's commit makes a new intent, of a signal it had not seen. *)
LEMMA CommitOnce ==
    ASSUME TypeOK, CoreInv, OnceInv, NEW w \in Workers, Commit(w)
    PROVE  OnceInv'
<1> DEFINE i == tx[w].id
<1>1. /\ pc[w] = "commit" /\ pc'[w] = "idle"
      /\ \A v \in Workers : v # w => pc'[v] = pc[v] /\ tx'[v] = tx[v]
    BY DEF Commit, TypeOK
<1>2. /\ \A c \in Consumers : c # w => seen'[c] = seen[c] /\ made'[c] = made[c]
      /\ w \in Consumers => /\ seen'[w] = seen[w] \cup {tx[w].signal}
                            /\ made'[w] = made[w] \cup {i}
    BY DEF Commit
<1>3. CASE tx[w].kind = "approve"
  <2>1. w \notin Consumers  BY <1>1, <1>3 DEF OnceInv, DedupInv
  <2>2. UNCHANGED intents  BY <1>3 DEF Commit, CommitApproval
  <2> QED
      BY <1>1, <1>2, <2>1, <2>2
      DEF OnceInv, DedupInv, OneIntentPerSignalPerRun, Committed, Workers
<1>4. CASE tx[w].kind = "propose"
  <2>1. i \notin DOMAIN intents  BY <1>1, <1>4 DEF CoreInv, IdInv, Committed
  <2>2. /\ DOMAIN intents' = DOMAIN intents \cup {i}
        /\ intents'[i].signal = tx[w].signal
        /\ \A j \in DOMAIN intents : intents'[j] = intents[j]
      BY <1>4, <2>1 DEF Commit, CommitProposal, RowOf, FormedRow
  <2>3. ASSUME NEW c \in Consumers
        PROVE  /\ \A j \in made'[c] : /\ j \in DOMAIN intents'
                                      /\ intents'[j].signal \in seen'[c]
               /\ pc'[c] # "idle" => tx'[c].kind = "propose" /\ tx'[c].signal \notin seen'[c]
    <3>1. \A j \in made[c] : j \in DOMAIN intents /\ intents[j].signal \in seen[c]
        BY DEF OnceInv, DedupInv, Committed
    <3>2. CASE c = w  BY <1>1, <1>2, <2>2, <3>1, <3>2
    <3>3. CASE c # w
        BY <1>1, <1>2, <2>2, <3>1, <3>3 DEF OnceInv, DedupInv, Workers
    <3> QED  BY <3>2, <3>3
  <2>4. ASSUME NEW c \in Consumers, NEW j \in made'[c], NEW k \in made'[c],
               intents'[j].signal = intents'[k].signal
        PROVE  j = k
    <3>1. \A l \in made[c] : /\ l \in DOMAIN intents /\ intents'[l] = intents[l]
                             /\ intents[l].signal \in seen[c]
        BY <2>2 DEF OnceInv, DedupInv, Committed
    <3>2. \A l, n \in made[c] : intents[l].signal = intents[n].signal => l = n
        BY DEF OnceInv, OneIntentPerSignalPerRun
    <3>3. CASE c # w  BY <1>2, <2>4, <3>1, <3>2, <3>3
    <3>4. CASE c = w
      <4>1. tx[w].signal \notin seen[w]  BY <1>1, <3>4 DEF OnceInv, DedupInv
      <4> QED  BY <1>2, <2>2, <2>4, <3>1, <3>2, <3>4, <4>1
    <3> QED  BY <3>3, <3>4
  <2> QED  BY <2>3, <2>4 DEF OnceInv, DedupInv, OneIntentPerSignalPerRun, Committed
<1>5. tx[w] \in Tx  BY <1>1 DEF TypeOK
<1> QED  BY <1>3, <1>4, <1>5 DEF Tx

LEMMA NextOnce ==
    ASSUME TypeOK, CoreInv, OnceInv, [Next]_vars
    PROVE  OnceInv'
<1>1. CASE UNCHANGED vars
    BY <1>1, FrameOnce DEF vars, queue, store
<1>2. CASE Tick
    BY <1>2, FrameOnce DEF Tick, queue, store
<1>3. ASSUME NEW m \in Signals \cup {Malformed}, Publish(m)
      PROVE  OnceInv'
    BY <1>3, FrameOnce DEF Publish, store
<1>4. ASSUME NEW c \in Consumers, Restart(c)
      PROVE  OnceInv'
    BY <1>4, FrameOnce DEF Restart, store
<1>5. ASSUME NEW c \in Consumers, Consume(c)
      PROVE  OnceInv'
    BY <1>5, ConsumeOnce
<1>6. ASSUME NEW h \in Handlers, NEW s \in Signals, RunCli(h, s)
      PROVE  OnceInv'
    BY <1>6, HandlerOnce DEF RunCli, BeginPropose, store, TypeOK
<1>7. ASSUME NEW h \in Handlers, NEW i \in IntentIds, BeginApprove(h, i)
      PROVE  OnceInv'
    BY <1>7, HandlerOnce DEF BeginApprove, queue, store, TypeOK
<1>8. ASSUME NEW h \in Handlers, InsertApproval(h)
      PROVE  OnceInv'
  <2>1. h \in Workers /\ pc[h] # "idle"  BY <1>8 DEF Workers, InsertApproval
  <2>2. <<"approved">> \in Seq(Events) /\ "sign" \in PCs  BY DEF Events, PCs
  <2> QED  BY <1>8, <2>1, <2>2, RollbackOnce, AdvanceOnce DEF InsertApproval
<1>9. ASSUME NEW w \in Workers, Step(w)
      PROVE  OnceInv'
  <2>1. CASE AllocateNonce(w)
    <3>1. tx[w] \in Tx  BY <2>1 DEF TypeOK, AllocateNonce
    <3>2. /\ tx'[w].kind = tx[w].kind /\ tx'[w].signal = tx[w].signal
          /\ \A v \in Workers : v # w => tx'[v] = tx[v] /\ pc'[v] = pc[v]
          /\ pc[w] # "idle"
          /\ UNCHANGED <<seen, made, intents>>
        BY <2>1, <3>1 DEF AllocateNonce, TypeOK, Tx, queue, store
    <3> QED
        BY <3>2 DEF OnceInv, DedupInv, OneIntentPerSignalPerRun, Committed, Workers
  <2>2. CASE FormIntent(w)
    <3>1. /\ <<"formed", "breaker_rejected">> \in Seq(Events)
          /\ <<"formed", "pending_approval">> \in Seq(Events)
          /\ <<"formed">> \in Seq(Events)
          /\ "commit" \in PCs /\ "sign" \in PCs
        BY DEF Events, PCs
    <3> QED  BY <2>2, <3>1, RollbackOnce, AdvanceOnce DEF FormIntent
  <2>3. CASE Sign(w)
    <3>1. /\ <<"signed">> \in Seq(Events) /\ <<"signer_rejected">> \in Seq(Events)
          /\ "submit" \in PCs /\ "commit" \in PCs
        BY DEF Events, PCs
    <3> QED  BY <2>3, <3>1, AdvanceOnce DEF Sign
  <2>4. CASE Submit(w)
    <3>1. <<"submitted">> \in Seq(Events) /\ "commit" \in PCs  BY DEF Events, PCs
    <3> QED  BY <2>4, <3>1, RollbackOnce, AdvanceOnce DEF Submit
  <2>5. CASE Commit(w)  BY <2>5, CommitOnce
  <2>6. CASE Crash(w)  BY <2>6, RollbackOnce DEF Crash
  <2> QED  BY <1>9, <2>1, <2>2, <2>3, <2>4, <2>5, <2>6 DEF Step
<1> QED
    BY <1>1, <1>2, <1>3, <1>4, <1>5, <1>6, <1>7, <1>8, <1>9 DEF Next

(* consumer.process_message: in one run a consumer forms at most one       *)
(* intent of a signal, however often it is published, and whatever failed. *)
THEOREM OneIntentPerRun == Spec => []OneIntentPerSignalPerRun
<1>1. Init => OnceInv
    BY ExecutorAssumption DEF Init, OnceInv, DedupInv, OneIntentPerSignalPerRun, Workers
<1>2. NonceInv /\ OnceInv /\ [Next]_vars => OnceInv'
    BY NextOnce DEF NonceInv, CoreInv
<1>3. OnceInv => OneIntentPerSignalPerRun  BY DEF OnceInv
<1> QED  BY <1>1, <1>2, <1>3, NonceInvariant, PTL DEF Spec
-----------------------------------------------------------------------------
(* The store: only commits write to it, and they only add. *)

(* What an append leaves of what was there. *)
LEMMA AppendKeeps ==
    ASSUME NEW S, NEW s \in Seq(S), NEW t \in Seq(S)
    PROVE  Len(s) <= Len(s \o t) /\ SubSeq(s \o t, 1, Len(s)) = s
<1> DEFINE u == s \o t
           p == SubSeq(u, 1, Len(s))
<1>1. /\ u \in Seq(S) /\ Len(u) = Len(s) + Len(t)
      /\ \A k \in 1 .. Len(s) : u[k] = s[k]
    BY ConcatProperties
<1>2. Len(s) \in Nat /\ Len(t) \in Nat /\ Len(s) <= Len(u)
    BY <1>1
<1>3. p \in Seq(S) /\ Len(p) = Len(s)
    BY <1>1, <1>2, SubSeqProperties
<1>4. \A k \in 1 .. Len(s) : p[k] = s[k]
    BY <1>1, <1>2, <1>3, SubSeqProperties
<1> HIDE DEF p, u
<1>5. p = s
    BY <1>3, <1>4, SeqEqual
<1> QED
    BY <1>2, <1>5 DEF p, u

LEMMA StaysSame ==
    ASSUME NEW S, NEW s \in Seq(S)
    PROVE  SubSeq(s, 1, Len(s)) = s
<1> DEFINE p == SubSeq(s, 1, Len(s))
<1>1. p \in Seq(S) /\ Len(p) = Len(s) /\ \A k \in 1 .. Len(s) : p[k] = s[k]
    BY SubSeqProperties
<1> HIDE DEF p
<1>2. p = s  BY <1>1, SeqEqual
<1> QED  BY <1>2 DEF p

(* The store grows, or stays, by one commit. *)
Grows ==
    /\ nextNonce' >= nextNonce
    /\ \A i \in DOMAIN intents : i \in DOMAIN intents' /\ intents'[i] = intents[i]
    /\ approvals \subseteq approvals'
    /\ \A i \in IntentIds :
          /\ Len(trail[i]) <= Len(trail'[i])
          /\ SubSeq(trail'[i], 1, Len(trail[i])) = trail[i]

(* Only a commit writes to the store. *)
LEMMA OnlyCommitStores ==
    ASSUME [Next]_vars
    PROVE  UNCHANGED store \/ \E w \in Workers : Commit(w)
BY DEF Next, Step, vars, Tick, Publish, Restart, Consume, RunCli, BeginApprove,
       InsertApproval, AllocateNonce, FormIntent, Sign, Submit, Crash, Rollback, Advance

LEMMA CommitGrows ==
    ASSUME NonceInv, NEW w \in Workers, Commit(w)
    PROVE  Grows
<1> DEFINE i == tx[w].id
<1>1. pc[w] = "commit" /\ tx[w] \in Tx  BY DEF NonceInv, TypeOK, Commit
<1>2. i \in IntentIds /\ tx[w].events \in Seq(Events)  BY <1>1 DEF Tx
<1>3. trail \in [IntentIds -> Seq(Events)] /\ nextNonce \in Nat  BY DEF NonceInv, TypeOK
<1>4. ASSUME NEW j \in IntentIds
      PROVE  /\ Len(trail[j]) <= Len(trail'[j])
             /\ SubSeq(trail'[j], 1, Len(trail[j])) = trail[j]
  <2>1. CASE j = i
    <3>1. trail'[j] = trail[j] \o tx[w].events  BY <1>3, <2>1 DEF Commit
    <3> QED  BY <1>2, <1>3, <3>1, AppendKeeps
  <2>2. CASE j # i
    <3>1. trail'[j] = trail[j]  BY <1>3, <2>2 DEF Commit
    <3> QED  BY <1>3, <3>1, StaysSame
  <2> QED  BY <2>1, <2>2
<1>5. CASE tx[w].kind = "approve"
  <2>1. UNCHANGED <<nextNonce, intents>> /\ approvals \subseteq approvals'
      BY <1>5 DEF Commit, CommitApproval
  <2> QED  BY <1>3, <1>4, <2>1 DEF Grows
<1>6. CASE tx[w].kind = "propose"
  <2>1. i \notin DOMAIN intents  BY <1>1, <1>6 DEF NonceInv, IdInv, Committed
  <2>2. tx[w].nonce = nextNonce  BY <1>1, <1>6 DEF NonceInv, LockInv
  <2>3. /\ nextNonce' = nextNonce + 1 /\ UNCHANGED approvals
        /\ DOMAIN intents' = DOMAIN intents \cup {i}
        /\ \A j \in DOMAIN intents : intents'[j] = intents[j]
      BY <1>6, <2>1, <2>2 DEF Commit, CommitProposal
  <2> QED  BY <1>3, <1>4, <2>3 DEF Grows
<1> QED  BY <1>1, <1>5, <1>6 DEF Tx

(* store.py: whatever transactions race, fail or are retried, no committed *)
(* intent, approval or audit row is ever changed or lost, and the nonce    *)
(* counter never goes back.                                                *)
THEOREM StoreGrows == Spec => StoreOnlyGrows
<1>1. ASSUME NonceInv, [Next]_vars
      PROVE  [Grows]_vars
  <2>1. CASE UNCHANGED store
    <3>1. trail \in [IntentIds -> Seq(Events)] /\ nextNonce \in Nat
        BY <1>1 DEF NonceInv, TypeOK
    <3>2. \A j \in IntentIds : SubSeq(trail[j], 1, Len(trail[j])) = trail[j]
        BY <3>1, StaysSame
    <3> QED  BY <2>1, <3>1, <3>2 DEF store, Grows
  <2>2. CASE \E w \in Workers : Commit(w)
      BY <1>1, <2>2, CommitGrows
  <2> QED  BY <1>1, <2>1, <2>2, OnlyCommitStores
<1> QED  BY <1>1, NonceInvariant, PTL DEF Spec, StoreOnlyGrows, Grows

-----------------------------------------------------------------------------
(* Manual mode (Settings.requireApproval): what every audit trail can look *)
(* like, and from it that nothing is submitted twice and that the pending  *)
(* list is exact.                                                          *)

ManualCore == KeyInv /\ EventsInv /\ TrailInv

-----------------------------------------------------------------------------
(* What the gates decide. *)

(* A proposal carries no token, so in manual mode it stops for a human. *)
LEMMA ProposalStops ==
    ASSUME Settings.requireApproval, NEW w \in Workers, tx[w].kind = "propose"
    PROVE  StopsForApproval(w)
BY DEF StopsForApproval, TokenOf, VerifyToken

(* The signer's own per-trade cap holds of whatever it signs. *)
LEMMA SignedIsWithinCap ==
    ASSUME NEW w \in Workers, tx[w].kind = "approve", SignerSigns(w)
    PROVE  WithinTradeCap(tx[w].id)
BY DEF SignerSigns, Signs, PolicyAllows, Seal, OrderIntent, Policy, RowOf, WithinTradeCap

LEMMA VerdictIsEvent ==
    ASSUME NEW row
    PROVE  /\ Verdict(row) \in {"pending_approval", "breaker_rejected"}
           /\ Verdict(row) = "pending_approval" <=> PassesBreakers(row)
BY DEF Verdict

-----------------------------------------------------------------------------
(* One lemma for each way a step touches a transaction. *)

LEMMA FrameManual ==
    ASSUME ManualCore, UNCHANGED <<pc, tx, intents, approvals, trail>>
    PROVE  ManualCore'
<1>1. KeyInv'  BY DEF ManualCore, KeyInv, HoldsApproval
<1>2. EventsInv'
    BY DEF ManualCore, EventsInv, Wrote, RowOf, WithinTradeCap, FormedRow
<1>3. TrailInv'  BY DEF ManualCore, TrailInv, Committed, WithinTradeCap
<1> QED  BY <1>1, <1>2, <1>3 DEF ManualCore

(* A transaction starts or ends without touching the store. *)
LEMMA LocalManual ==
    ASSUME TypeOK, ManualCore, NEW w \in Workers,
           \A v \in Workers : v # w => pc'[v] = pc[v] /\ tx'[v] = tx[v],
           \/ pc'[w] = "idle"
           \/ /\ pc'[w] \in {"nonce", "form", "approval"}
              /\ tx'[w].events = <<>>,
           UNCHANGED <<intents, approvals, trail>>
    PROVE  ManualCore'
<1>1. KeyInv'  BY DEF ManualCore, KeyInv, HoldsApproval
<1>2. EventsInv'
  <2> SUFFICES ASSUME NEW v \in Workers  PROVE Wrote(v)'
      BY DEF EventsInv
  <2>1. CASE v = w  BY <2>1 DEF Wrote
  <2>2. CASE v # w
      BY <2>2 DEF ManualCore, EventsInv, Wrote, RowOf, FormedRow, WithinTradeCap
  <2> QED  BY <2>1, <2>2
<1>3. TrailInv'  BY DEF ManualCore, TrailInv, Committed, WithinTradeCap
<1> QED  BY <1>1, <1>2, <1>3 DEF ManualCore

(* A transaction moves on; what it has written stays in order. *)
LEMMA AdvanceManual ==
    ASSUME TypeOK, CoreInv, ManualCore, NEW w \in Workers, pc[w] # "idle",
           NEW es \in Seq(Events), NEW p \in {"sign", "submit", "commit"},
           Advance(w, es, p),
           pc[w] = "approval" => /\ \A v \in Workers : ~HoldsApproval(v, tx[w].id)
                                 /\ tx[w].id \notin approvals,
           pc[w] \in {"approval", "sign", "submit"} \/ tx[w].kind = "propose",
           Wrote(w)'
    PROVE  ManualCore'
<1>0. p \in PCs  BY DEF PCs
<1>1. \A v \in Workers : tx'[v].kind = tx[v].kind /\ tx'[v].id = tx[v].id
    BY <1>0, AdvanceKeeps
<1>2. /\ pc'[w] = p
      /\ \A v \in Workers : v # w => pc'[v] = pc[v] /\ tx'[v] = tx[v]
      /\ UNCHANGED <<intents, approvals, trail>>
    BY DEF Advance, TypeOK, store
<1>3. KeyInv'
    BY <1>1, <1>2 DEF ManualCore, KeyInv, HoldsApproval
<1>4. EventsInv'
  <2> SUFFICES ASSUME NEW v \in Workers, v # w  PROVE Wrote(v)'
      BY DEF EventsInv
  <2> QED
      BY <1>2 DEF ManualCore, EventsInv, Wrote, RowOf, FormedRow, WithinTradeCap
<1>5. TrailInv'  BY <1>2 DEF ManualCore, TrailInv, Committed, WithinTradeCap
<1> QED  BY <1>3, <1>4, <1>5 DEF ManualCore

(* What an approval adds to the trail of an intent that waits. *)
LEMMA AppendDecision ==
    ASSUME NEW v \in {"pending_approval", "breaker_rejected"}
    PROVE  /\ <<"formed", v>> \o <<"approved", "signed", "submitted">>
                = <<"formed", v, "approved", "signed", "submitted">>
           /\ <<"formed", v>> \o <<"approved", "signer_rejected">>
                = <<"formed", v, "approved", "signer_rejected">>
<1>1. /\ <<"formed", v>> \in Seq(Events)
      /\ <<"approved", "signed", "submitted">> \in Seq(Events)
      /\ <<"approved", "signer_rejected">> \in Seq(Events)
    BY DEF Events
<1> DEFINE head == <<"formed", v>>
           yes  == <<"approved", "signed", "submitted">>
           no   == <<"approved", "signer_rejected">>
<1>2. \A t \in Seq(Events) :
         /\ Len(head \o t) = 2 + Len(t)
         /\ \A k \in 1 .. 2 + Len(t) :
               (head \o t)[k] = IF k <= 2 THEN head[k] ELSE t[k - 2]
    BY <1>1
<1>3. head \o yes = <<"formed", v, "approved", "signed", "submitted">>
  <2>1. Len(head \o yes) = 5  BY <1>1, <1>2
  <2>2. /\ (head \o yes)[1] = "formed"
        /\ (head \o yes)[2] = v
        /\ (head \o yes)[3] = "approved"
        /\ (head \o yes)[4] = "signed"
        /\ (head \o yes)[5] = "submitted"
      BY <1>1, <1>2
  <2>3. head \o yes \in Seq(Events)  BY <1>1
  <2>4. <<"formed", v, "approved", "signed", "submitted">> \in Seq(Events)  BY DEF Events
  <2>5. \A k \in 1 .. 5 : (head \o yes)[k]
                           = <<"formed", v, "approved", "signed", "submitted">>[k]
      BY <2>2
  <2> QED  BY <2>1, <2>3, <2>4, <2>5, SeqEqual
<1>4. head \o no = <<"formed", v, "approved", "signer_rejected">>
  <2>1. Len(head \o no) = 4  BY <1>1, <1>2
  <2>2. /\ (head \o no)[1] = "formed"
        /\ (head \o no)[2] = v
        /\ (head \o no)[3] = "approved"
        /\ (head \o no)[4] = "signer_rejected"
      BY <1>1, <1>2
  <2>3. head \o no \in Seq(Events)  BY <1>1
  <2>4. <<"formed", v, "approved", "signer_rejected">> \in Seq(Events)  BY DEF Events
  <2>5. \A k \in 1 .. 4 : (head \o no)[k]
                           = <<"formed", v, "approved", "signer_rejected">>[k]
      BY <2>2
  <2> QED  BY <2>1, <2>3, <2>4, <2>5, SeqEqual
<1> QED  BY <1>3, <1>4

LEMMA CommitManual ==
    ASSUME TypeOK, CoreInv, ManualCore, NEW w \in Workers, Commit(w)
    PROVE  ManualCore'
<1> DEFINE i == tx[w].id
<1>1. /\ pc[w] = "commit" /\ pc'[w] = "idle"
      /\ \A v \in Workers : v # w => pc'[v] = pc[v] /\ tx'[v] = tx[v]
    BY DEF Commit, TypeOK
<1>2. tx[w] \in Tx  BY <1>1 DEF TypeOK
<1>3. i \in IntentIds  BY <1>2 DEF Tx
<1>4. /\ trail'[i] = trail[i] \o tx[w].events
      /\ \A j \in IntentIds : j # i => trail'[j] = trail[j]
    BY <1>3 DEF Commit, TypeOK
<1>5. CASE tx[w].kind = "propose"
  <2>1. /\ UNCHANGED approvals
        /\ DOMAIN intents' = DOMAIN intents \cup {i}
        /\ intents'[i] = RowOf(w)
        /\ \A j \in DOMAIN intents : j # i => intents'[j] = intents[j]
      BY <1>5 DEF Commit, CommitProposal
  <2>2. ~Committed(i)  BY <1>1, <1>5 DEF CoreInv, IdInv
  <2>3. i \notin approvals /\ trail[i] = <<>>
      BY <1>3, <2>2 DEF ManualCore, TrailInv
  <2>4. tx[w].events = <<"formed", Verdict(RowOf(w))>>
      BY <1>1, <1>5 DEF ManualCore, EventsInv, Wrote
  <2>5. trail'[i] = <<"formed", Verdict(intents'[i])>>
      BY <1>2, <1>4, <2>1, <2>3, <2>4 DEF Tx
  <2>6. KeyInv'  BY <1>1, <1>5, <2>1 DEF ManualCore, KeyInv, HoldsApproval
  <2>7. EventsInv'
    <3> SUFFICES ASSUME NEW v \in Workers  PROVE Wrote(v)'
        BY DEF EventsInv
    <3>1. CASE v = w  BY <1>1, <3>1 DEF Wrote
    <3>2. CASE v # w /\ pc[v] = "idle"  BY <1>1, <3>2 DEF Wrote
    <3>3. CASE v # w /\ pc[v] # "idle" /\ tx[v].kind = "propose"
        BY <1>1, <3>3 DEF ManualCore, EventsInv, Wrote, RowOf, FormedRow
    <3>4. CASE v # w /\ pc[v] # "idle" /\ tx[v].kind # "propose"
      <4>1. tx[v].kind = "approve"  BY <3>4 DEF TypeOK, Tx
      <4>2. Committed(tx[v].id)  BY <3>4, <4>1 DEF CoreInv, IdInv
      <4>3. intents'[tx[v].id] = intents[tx[v].id]
          BY <2>1, <2>2, <4>2 DEF Committed
      <4> QED
          BY <1>1, <3>4, <4>1, <4>3 DEF ManualCore, EventsInv, Wrote, WithinTradeCap
    <3> QED  BY <3>1, <3>2, <3>3, <3>4
  <2>8. TrailInv'
    <3> SUFFICES ASSUME NEW j \in IntentIds
                 PROVE  (/\ ~Committed(j) => j \notin approvals /\ trail[j] = <<>>
                         /\ Committed(j) /\ j \notin approvals =>
                               trail[j] = <<"formed", Verdict(intents[j])>>
                         /\ Committed(j) /\ j \in approvals =>
                               \/ /\ trail[j] = <<"formed", Verdict(intents[j]), "approved",
                                                  "signed", "submitted">>
                                  /\ WithinTradeCap(j) /\ Settings.dryRun
                               \/ trail[j] = <<"formed", Verdict(intents[j]), "approved",
                                               "signer_rejected">>)'
        BY DEF TrailInv
    <3>1. CASE j = i  BY <2>1, <2>3, <2>5, <3>1 DEF Committed
    <3>2. CASE j # i
        BY <1>4, <2>1, <3>2 DEF ManualCore, TrailInv, Committed, WithinTradeCap
    <3> QED  BY <3>1, <3>2
  <2> QED  BY <2>6, <2>7, <2>8 DEF ManualCore
<1>6. CASE tx[w].kind = "approve"
  <2>1. approvals' = approvals \cup {i} /\ UNCHANGED intents
      BY <1>6 DEF Commit, CommitApproval
  <2>2. Committed(i)  BY <1>1, <1>6 DEF CoreInv, IdInv
  <2>3. HoldsApproval(w, i)  BY <1>1, <1>6 DEF HoldsApproval
  <2>4. i \notin approvals /\ \A v \in Workers : HoldsApproval(v, i) => v = w
      BY <1>3, <2>3 DEF ManualCore, KeyInv
  <2>5. trail[i] = <<"formed", Verdict(intents[i])>>
      BY <1>3, <2>2, <2>4 DEF ManualCore, TrailInv
  <2>6. \/ /\ tx[w].events = <<"approved", "signed", "submitted">>
           /\ WithinTradeCap(i) /\ Settings.dryRun
        \/ tx[w].events = <<"approved", "signer_rejected">>
      BY <1>1, <1>6 DEF ManualCore, EventsInv, Wrote
  <2>7. \/ /\ trail'[i] = <<"formed", Verdict(intents[i]), "approved", "signed", "submitted">>
           /\ WithinTradeCap(i) /\ Settings.dryRun
        \/ trail'[i] = <<"formed", Verdict(intents[i]), "approved", "signer_rejected">>
    <3>1. Verdict(intents[i]) \in {"pending_approval", "breaker_rejected"}
        BY VerdictIsEvent
    <3>2. /\ trail[i] \o <<"approved", "signed", "submitted">>
               = <<"formed", Verdict(intents[i]), "approved", "signed", "submitted">>
          /\ trail[i] \o <<"approved", "signer_rejected">>
               = <<"formed", Verdict(intents[i]), "approved", "signer_rejected">>
        BY <2>5, <3>1, AppendDecision
    <3> QED  BY <1>4, <2>6, <3>2
  <2>8. KeyInv'  BY <1>1, <2>1, <2>4 DEF ManualCore, KeyInv, HoldsApproval
  <2>9. EventsInv'
    <3> SUFFICES ASSUME NEW v \in Workers  PROVE Wrote(v)'
        BY DEF EventsInv
    <3>1. CASE v = w  BY <1>1, <3>1 DEF Wrote
    <3>2. CASE v # w
        BY <1>1, <2>1, <3>2
           DEF ManualCore, EventsInv, Wrote, RowOf, FormedRow, WithinTradeCap
    <3> QED  BY <3>1, <3>2
  <2>10. TrailInv'
    <3>1. \A j \in IntentIds : j # i => (j \in approvals' <=> j \in approvals)
        BY <2>1
    <3> QED
        BY <1>4, <2>1, <2>2, <2>7, <3>1
           DEF ManualCore, TrailInv, Committed, WithinTradeCap
  <2> QED  BY <2>8, <2>9, <2>10 DEF ManualCore
<1> QED  BY <1>2, <1>5, <1>6 DEF Tx


LEMMA AppendOne ==
    ASSUME NEW a \in Events, NEW b \in Events, NEW c \in Events
    PROVE  <<a>> \o <<b>> = <<a, b>> /\ <<a, b>> \o <<c>> = <<a, b, c>>
<1>1. <<a>> \o <<b>> = <<a, b>>
  <2>1. <<a>> \o <<b>> \in Seq(Events) /\ <<a, b>> \in Seq(Events)
      OBVIOUS
  <2>2. Len(<<a>> \o <<b>>) = 2 /\ \A k \in 1 .. 2 : (<<a>> \o <<b>>)[k] = <<a, b>>[k]
      OBVIOUS
  <2> QED  BY <2>1, <2>2, SeqEqual
<1>2. <<a, b>> \o <<c>> = <<a, b, c>>
  <2>1. <<a, b>> \o <<c>> \in Seq(Events) /\ <<a, b, c>> \in Seq(Events)
      OBVIOUS
  <2>2. Len(<<a, b>> \o <<c>>) = 3
      OBVIOUS
  <2>3. \A k \in 1 .. 3 : (<<a, b>> \o <<c>>)[k] = <<a, b, c>>[k]
      OBVIOUS
  <2> QED  BY <2>1, <2>2, <2>3, SeqEqual
<1> QED  BY <1>1, <1>2

(* What Advance does to the transaction itself. *)
LEMMA AdvanceWrites ==
    ASSUME TypeOK, NEW w \in Workers, pc[w] # "idle",
           NEW es \in Seq(Events), NEW p \in PCs, Advance(w, es, p)
    PROVE  /\ tx'[w].events = tx[w].events \o es
           /\ tx[w].events = <<>> => tx'[w].events = es
           /\ pc'[w] = p
           /\ tx'[w].kind = tx[w].kind /\ tx'[w].id = tx[w].id
           /\ tx'[w].signal = tx[w].signal /\ tx'[w].now = tx[w].now
           /\ tx'[w].nonce = tx[w].nonce
           /\ UNCHANGED <<intents, approvals, trail>>
<1>1. tx[w] \in Tx  BY DEF TypeOK
<1>2. tx' = [tx EXCEPT ![w] = [tx[w] EXCEPT !.events = @ \o es]] /\ pc' = [pc EXCEPT ![w] = p]
    BY DEF Advance
<1>3. tx'[w] = [tx[w] EXCEPT !.events = @ \o es] /\ pc'[w] = p
    BY <1>2 DEF TypeOK
<1>4. tx'[w].events = tx[w].events \o es  BY <1>1, <1>3 DEF Tx
<1>5. tx[w].events = <<>> => tx'[w].events = es  BY <1>4, ConcatEmptySeq
<1> QED  BY <1>1, <1>3, <1>4, <1>5 DEF Tx, Advance, store

LEMMA FormIntentManual ==
    ASSUME Settings.requireApproval, TypeOK, CoreInv, ManualCore,
           NEW w \in Workers, FormIntent(w)
    PROVE  ManualCore'
<1>1. pc[w] = "form" /\ tx[w].kind = "propose" /\ tx[w].events = <<>>
    BY DEF FormIntent, CoreInv, KindInv, ManualCore, EventsInv, Wrote
<1>2. /\ <<"formed", "breaker_rejected">> \in Seq(Events)
      /\ <<"formed", "pending_approval">> \in Seq(Events)
      /\ "commit" \in PCs
    BY DEF Events, PCs
<1>3. CASE Rollback(w)
    BY <1>3, LocalManual DEF Rollback, TypeOK, store
<1>4. ASSUME NEW verdict \in {"breaker_rejected", "pending_approval"},
             Advance(w, <<"formed", verdict>>, "commit"),
             verdict = Verdict(RowOf(w))
      PROVE  ManualCore'
  <2>1. /\ tx'[w].events = <<"formed", verdict>>
        /\ pc'[w] = "commit" /\ tx'[w].kind = "propose"
        /\ RowOf(w)' = RowOf(w)
      BY <1>1, <1>2, <1>4, AdvanceWrites DEF RowOf, FormedRow
  <2>2. Wrote(w)'  BY <1>4, <2>1 DEF Wrote
  <2> QED  BY <1>1, <1>2, <1>4, <2>2, AdvanceManual
<1>5. StopsForApproval(w)  BY <1>1, ProposalStops
<1> QED  BY <1>3, <1>4, <1>5 DEF FormIntent, Verdict

LEMMA InsertApprovalManual ==
    ASSUME TypeOK, CoreInv, ManualCore, NEW h \in Handlers, InsertApproval(h)
    PROVE  ManualCore'
<1>1. h \in Workers /\ pc[h] = "approval"  BY DEF Workers, InsertApproval
<1>2. tx[h].kind = "approve" /\ tx[h].events = <<>>
    BY <1>1 DEF CoreInv, KindInv, ManualCore, EventsInv, Wrote
<1>3. <<"approved">> \in Seq(Events) /\ "sign" \in PCs  BY DEF Events, PCs
<1>4. CASE Rollback(h)
    BY <1>1, <1>4, LocalManual DEF Rollback, TypeOK, store
<1>5. CASE tx[h].id \notin approvals /\ Advance(h, <<"approved">>, "sign")
  <2>1. /\ tx'[h].events = <<"approved">> /\ pc'[h] = "sign"
        /\ tx'[h].kind = "approve"
      BY <1>1, <1>2, <1>3, <1>5, AdvanceWrites
  <2>2. Wrote(h)'  BY <2>1 DEF Wrote
  <2> QED
      BY <1>1, <1>2, <1>3, <1>5, <2>2, AdvanceManual DEF InsertApproval
<1> QED  BY <1>4, <1>5 DEF InsertApproval

LEMMA SignManual ==
    ASSUME TypeOK, CoreInv, ManualCore, NEW w \in Workers, Sign(w)
    PROVE  ManualCore'
<1>1. pc[w] = "sign"  BY DEF Sign
<1>2. tx[w] \in Tx  BY <1>1 DEF TypeOK
<1>3. tx[w].kind = "approve" /\ tx[w].events = <<"approved">>
    BY <1>1, <1>2 DEF ManualCore, EventsInv, Wrote, Tx
<1>4. /\ <<"signed">> \in Seq(Events) /\ <<"signer_rejected">> \in Seq(Events)
      /\ "submit" \in PCs /\ "commit" \in PCs
      /\ {"approved", "signed", "signer_rejected"} \subseteq Events
    BY DEF Events, PCs
<1>5. CASE SignerSigns(w) /\ Advance(w, <<"signed">>, "submit")
  <2>1. /\ tx'[w].events = <<"approved", "signed">> /\ pc'[w] = "submit"
        /\ tx'[w].kind = "approve" /\ tx'[w].id = tx[w].id
        /\ UNCHANGED intents
    <3>1. <<"approved">> \o <<"signed">> = <<"approved", "signed">>
        BY <1>4, AppendOne
    <3> QED  BY <1>1, <1>3, <1>4, <1>5, <3>1, AdvanceWrites
  <2>2. WithinTradeCap(tx[w].id)  BY <1>3, <1>5, SignedIsWithinCap
  <2>3. Wrote(w)'  BY <2>1, <2>2 DEF Wrote, WithinTradeCap
  <2> QED  BY <1>1, <1>4, <1>5, <2>3, AdvanceManual
<1>6. CASE ~SignerSigns(w) /\ Advance(w, <<"signer_rejected">>, "commit")
  <2>1. /\ tx'[w].events = <<"approved", "signer_rejected">> /\ pc'[w] = "commit"
        /\ tx'[w].kind = "approve"
    <3>1. <<"approved">> \o <<"signer_rejected">> = <<"approved", "signer_rejected">>
        BY <1>4, AppendOne
    <3> QED  BY <1>1, <1>3, <1>4, <1>6, <3>1, AdvanceWrites
  <2>2. Wrote(w)'  BY <2>1 DEF Wrote
  <2> QED  BY <1>1, <1>4, <1>6, <2>2, AdvanceManual
<1> QED  BY <1>5, <1>6 DEF Sign

LEMMA SubmitManual ==
    ASSUME TypeOK, CoreInv, ManualCore, NEW w \in Workers, Submit(w)
    PROVE  ManualCore'
<1>1. pc[w] = "submit"  BY DEF Submit
<1>2. tx[w] \in Tx  BY <1>1 DEF TypeOK
<1>3. /\ tx[w].kind = "approve" /\ tx[w].events = <<"approved", "signed">>
      /\ WithinTradeCap(tx[w].id)
    BY <1>1, <1>2 DEF ManualCore, EventsInv, Wrote, Tx
<1>4. /\ <<"submitted">> \in Seq(Events) /\ "commit" \in PCs
      /\ {"approved", "signed", "submitted"} \subseteq Events
    BY DEF Events, PCs
<1>5. CASE Rollback(w)
    BY <1>5, LocalManual DEF Rollback, TypeOK, store
<1>6. CASE Settings.dryRun /\ Advance(w, <<"submitted">>, "commit")
  <2>1. /\ tx'[w].events = <<"approved", "signed", "submitted">> /\ pc'[w] = "commit"
        /\ tx'[w].kind = "approve" /\ tx'[w].id = tx[w].id
        /\ UNCHANGED intents
    <3>1. <<"approved", "signed">> \o <<"submitted">>
             = <<"approved", "signed", "submitted">>
        BY <1>4, AppendOne
    <3> QED  BY <1>1, <1>3, <1>4, <1>6, <3>1, AdvanceWrites
  <2>2. Wrote(w)'  BY <1>3, <1>6, <2>1 DEF Wrote, WithinTradeCap
  <2> QED  BY <1>1, <1>4, <1>6, <2>2, AdvanceManual
<1> QED  BY <1>5, <1>6 DEF Submit

-----------------------------------------------------------------------------
(* Every step. *)

LEMMA NextManual ==
    ASSUME Settings.requireApproval, TypeOK, CoreInv, ManualCore, [Next]_vars
    PROVE  ManualCore'
<1>1. CASE UNCHANGED vars
    BY <1>1, FrameManual DEF vars, store
<1>2. CASE Tick
    BY <1>2, FrameManual DEF Tick, store
<1>3. ASSUME NEW m \in Signals \cup {Malformed}, Publish(m)
      PROVE  ManualCore'
    BY <1>3, FrameManual DEF Publish, store
<1>4. ASSUME NEW c \in Consumers, Restart(c)
      PROVE  ManualCore'
    BY <1>4, FrameManual DEF Restart, store
<1>5. ASSUME NEW c \in Consumers, Consume(c)
      PROVE  ManualCore'
  <2>1. CASE UNCHANGED <<pc, tx>>
      BY <1>5, <2>1, FrameManual DEF Consume, store
  <2>2. ASSUME NEW i \in IntentIds, BeginPropose(c, Head(inbox[c]), i)
        PROVE  ManualCore'
    <3>1. c \in Workers  BY DEF Workers
    <3> QED
        BY <1>5, <2>2, <3>1, LocalManual DEF Consume, BeginPropose, TypeOK, store
  <2> QED  BY <1>5, <2>1, <2>2 DEF Consume
<1>6. ASSUME NEW h \in Handlers, NEW s \in Signals, RunCli(h, s)
      PROVE  ManualCore'
  <2>1. h \in Workers  BY DEF Workers
  <2> QED
      BY <1>6, <2>1, LocalManual DEF RunCli, BeginPropose, TypeOK, store
<1>7. ASSUME NEW h \in Handlers, NEW i \in IntentIds, BeginApprove(h, i)
      PROVE  ManualCore'
  <2>1. h \in Workers  BY DEF Workers
  <2> QED  BY <1>7, <2>1, LocalManual DEF BeginApprove, TypeOK, store
<1>8. ASSUME NEW h \in Handlers, InsertApproval(h)
      PROVE  ManualCore'
    BY <1>8, InsertApprovalManual
<1>9. ASSUME NEW w \in Workers, Step(w)
      PROVE  ManualCore'
  <2>1. CASE AllocateNonce(w)
    <3>1. tx[w] \in Tx /\ tx[w].events = <<>>
        BY <2>1 DEF AllocateNonce, TypeOK, ManualCore, EventsInv, Wrote
    <3>2. tx'[w].events = <<>> /\ pc'[w] = "form"
        BY <2>1, <3>1 DEF AllocateNonce, TypeOK, Tx
    <3> QED  BY <2>1, <3>2, LocalManual DEF AllocateNonce, TypeOK, store
  <2>2. CASE FormIntent(w)  BY <2>2, FormIntentManual
  <2>3. CASE Sign(w)  BY <2>3, SignManual
  <2>4. CASE Submit(w)  BY <2>4, SubmitManual
  <2>5. CASE Commit(w)  BY <2>5, CommitManual
  <2>6. CASE Crash(w)
      BY <2>6, LocalManual DEF Crash, Rollback, TypeOK, store
  <2> QED  BY <1>9, <2>1, <2>2, <2>3, <2>4, <2>5, <2>6 DEF Step
<1> QED
    BY <1>1, <1>2, <1>3, <1>4, <1>5, <1>6, <1>7, <1>8, <1>9 DEF Next

LEMMA InitManual == Init => ManualCore
<1> SUFFICES ASSUME Init  PROVE ManualCore
    OBVIOUS
<1>1. KeyInv  BY DEF Init, KeyInv, HoldsApproval
<1>2. EventsInv  BY DEF Init, EventsInv, Wrote
<1>3. TrailInv  BY DEF Init, TrailInv, Committed
<1> QED  BY <1>1, <1>2, <1>3 DEF ManualCore

LEMMA NextManualInv == ManualInv /\ [Next]_vars => ManualInv'
<1>1. NonceInv /\ [Next]_vars => NonceInv'  BY NextNonceInv
<1>2. NonceInv => TypeOK /\ CoreInv  BY DEF NonceInv, CoreInv
<1>3. Settings.requireApproval /\ NonceInv /\ ManualCore /\ [Next]_vars => ManualCore'
    BY <1>2, NextManual
<1> QED  BY <1>1, <1>3 DEF ManualInv, ManualCore

LEMMA ManualInvariant == Spec => []ManualInv
<1>1. Init => ManualInv  BY InitNonceInv, InitManual DEF ManualInv, ManualCore
<1> QED  BY <1>1, NextManualInv, PTL DEF Spec
-----------------------------------------------------------------------------
(* What the trails show. *)

LEMMA TrailCases ==
    ASSUME Settings.requireApproval, ManualInv, NEW i \in IntentIds
    PROVE  \/ /\ ~Committed(i) /\ i \notin approvals /\ trail[i] = <<>>
           \/ /\ Committed(i) /\ i \notin approvals
              /\ trail[i] = <<"formed", Verdict(intents[i])>>
           \/ /\ Committed(i) /\ i \in approvals
              /\ \/ trail[i] = <<"formed", Verdict(intents[i]), "approved",
                                 "signed", "submitted">>
                 \/ trail[i] = <<"formed", Verdict(intents[i]), "approved",
                                 "signer_rejected">>
BY DEF ManualInv, TrailInv

(* A submission is the fifth event of a trail, after its approval. *)
LEMMA SubmissionIsFifth ==
    ASSUME Settings.requireApproval, ManualInv, NEW i \in IntentIds,
           NEW k \in DOMAIN trail[i], trail[i][k] = "submitted"
    PROVE  /\ k = 5 /\ i \in approvals
           /\ trail[i][3] = "approved" /\ trail[i][4] = "signed"
<1> DEFINE v == Verdict(intents[i])
<1>0. v # "submitted"  BY VerdictIsEvent
<1>1. trail[i] # <<>>  OBVIOUS
<1>2. trail[i] # <<"formed", v>>  BY <1>0
<1>3. trail[i] # <<"formed", v, "approved", "signer_rejected">>  BY <1>0
<1>4. trail[i] = <<"formed", v, "approved", "signed", "submitted">> /\ i \in approvals
    BY <1>1, <1>2, <1>3, TrailCases
<1>5. k \in 1 .. 5  BY <1>4
<1> QED  BY <1>0, <1>4, <1>5

(* Whatever approvals race, retry or fail half-way, in manual mode an      *)
(* intent's audit trail shows one submission at most (exec_approvals'      *)
(* primary key, held from the insert to the end of the transaction).       *)
THEOREM SubmittedAtMostOnce == Spec => []AtMostOneSubmission
<1>1. ASSUME ManualInv, Settings.requireApproval,
             NEW i \in IntentIds, NEW j \in DOMAIN trail[i], NEW k \in DOMAIN trail[i],
             trail[i][j] = "submitted", trail[i][k] = "submitted"
      PROVE  j = k
  <2>1. j = 5  BY <1>1, SubmissionIsFifth
  <2>2. k = 5  BY <1>1, SubmissionIsFifth
  <2> QED  BY <2>1, <2>2
<1>2. ManualInv => AtMostOneSubmission  BY <1>1 DEF AtMostOneSubmission
<1> QED  BY <1>2, ManualInvariant, PTL

(* No bet is made twice, in any mode by the dedup set of a run and in the  *)
(* manual mode by the key of exec_approvals.                               *)
THEOREM NoBetTwice == Spec => []NothingTwice
<1>1. OneIntentPerSignalPerRun /\ AtMostOneSubmission => NothingTwice  BY DEF NothingTwice
<1> QED  BY <1>1, OneIntentPerRun, SubmittedAtMostOnce, PTL

(* In manual mode the pending list shows an intent exactly as long as it   *)
(* has passed the breakers and nobody has approved it.                     *)
THEOREM PendingIsExact == Spec => []PendingExact
<1>1. ASSUME ManualInv, Settings.requireApproval, NEW i \in IntentIds
      PROVE  Pending(i) <=> /\ Committed(i)
                            /\ i \notin approvals
                            /\ PassesBreakers(intents[i])
  <2> DEFINE v == Verdict(intents[i])
  <2>1. CASE ~Committed(i)  BY <2>1 DEF Pending
  <2>2. CASE Committed(i) /\ i \notin approvals /\ trail[i] = <<"formed", v>>
    <3>1. Pending(i) <=> v = "pending_approval"  BY <2>2 DEF Pending
    <3> QED  BY <2>2, <3>1, VerdictIsEvent
  <2>3. CASE i \in approvals /\ trail[i] = <<"formed", v, "approved", "signed", "submitted">>
      BY <2>3 DEF Pending
  <2>4. CASE i \in approvals /\ trail[i] = <<"formed", v, "approved", "signer_rejected">>
      BY <2>4 DEF Pending
  <2> QED  BY <1>1, <2>1, <2>2, <2>3, <2>4, TrailCases
<1>2. ManualInv => PendingExact  BY <1>1 DEF PendingExact
<1> QED  BY <1>2, ManualInvariant, PTL

-----------------------------------------------------------------------------
(* Every mode: what a transaction has written, whoever it waits for.       *)

Automatic(row) == ~NeedsHuman(row)

WroteInAnyMode(w) ==
    /\ pc[w] \in {"nonce", "form", "approval"} => tx[w].events = <<>>
    /\ pc[w] # "idle" /\ tx[w].kind = "propose" =>
          /\ pc[w] = "sign" => tx[w].events = <<"formed">> /\ ~Settings.requireApproval
          /\ pc[w] = "submit" => tx[w].events = <<"formed", "signed">> /\ Automatic(RowOf(w))
          /\ pc[w] = "commit" =>
                \/ tx[w].events \in {<<"formed", "breaker_rejected">>, <<"formed", "pending_approval">>,
                                     <<"formed", "signer_rejected">>}
                \/ tx[w].events = <<"formed", "signed", "submitted">> /\ Automatic(RowOf(w))
    /\ pc[w] # "idle" /\ tx[w].kind = "approve" =>
          /\ pc[w] = "sign" => tx[w].events = <<"approved">>
          /\ pc[w] = "submit" => tx[w].events = <<"approved", "signed">>
          /\ pc[w] = "commit" => tx[w].events \in {<<"approved", "signed", "submitted">>,
                                                   <<"approved", "signer_rejected">>}

(* A submission that needed a human comes right after an approval. *)
Approved(i, k) ==
    /\ i \in approvals
    /\ k > 2 /\ trail[i][k - 1] = "signed" /\ trail[i][k - 2] = "approved"

TellsOfApproval(events) == \E k \in DOMAIN events : events[k] = "approved"

HumanTrails ==
    \A i \in IntentIds :
        /\ ~Committed(i) => trail[i] = <<>>
        /\ NothingHalfDone(trail[i])
        /\ i \in approvals <=> TellsOfApproval(trail[i])
        /\ Committed(i) /\ NeedsHuman(intents[i]) =>
              \A k \in DOMAIN trail[i] : trail[i][k] = "submitted" => Approved(i, k)

HumanInv == (\A w \in Workers : WroteInAnyMode(w)) /\ HumanTrails

(* Without a token the signer's threshold is final. *)
LEMMA ProposalBelowThreshold ==
    ASSUME NEW w \in Workers, tx[w].kind = "propose", SignerSigns(w)
    PROVE  ~(RowOf(w).notional > Settings.threshold)
<1> DEFINE o == OrderIntent(RowOf(w))
<1>1. ~VerifyToken(TokenOf(w), o, Settings.secret, tx[w].now)
    BY DEF TokenOf, VerifyToken
<1>2. o.notional > Settings.threshold
        => Settings.secret # "" /\ VerifyToken(TokenOf(w), o, Settings.secret, tx[w].now)
    BY DEF SignerSigns, Signs, PolicyAllows, Seal, Policy
<1>3. o.notional = RowOf(w).notional  BY DEF OrderIntent
<1> QED  BY <1>1, <1>2, <1>3

LEMMA FrameHuman ==
    ASSUME HumanInv, UNCHANGED <<pc, tx, intents, approvals, trail>>
    PROVE  HumanInv'
BY DEF HumanInv, WroteInAnyMode, HumanTrails, Approved, Committed, RowOf, FormedRow, Automatic,
       NeedsHuman

(* A transaction starts, moves on or ends; the store stays. *)
LEMMA LocalHuman ==
    ASSUME HumanInv, NEW w \in Workers, WroteInAnyMode(w)',
           \A v \in Workers : v # w => pc'[v] = pc[v] /\ tx'[v] = tx[v],
           UNCHANGED <<intents, approvals, trail>>
    PROVE  HumanInv'
<1>1. HumanTrails'
    BY DEF HumanInv, HumanTrails, Approved, Committed, NeedsHuman
<1>2. ASSUME NEW v \in Workers, v # w  PROVE WroteInAnyMode(v)'
    BY <1>2 DEF HumanInv, WroteInAnyMode, RowOf, FormedRow, Automatic, NeedsHuman
<1> QED  BY <1>1, <1>2 DEF HumanInv

LEMMA BeginHuman ==
    ASSUME HumanInv, NEW w \in Workers,
           \/ pc'[w] = "idle"
           \/ pc'[w] \in {"nonce", "form", "approval"} /\ tx'[w].events = <<>>,
           \A v \in Workers : v # w => pc'[v] = pc[v] /\ tx'[v] = tx[v],
           UNCHANGED <<intents, approvals, trail>>
    PROVE  HumanInv'
<1>1. WroteInAnyMode(w)'  BY DEF WroteInAnyMode
<1> QED  BY <1>1, LocalHuman

(* The transaction w goes on to p, having written es more. *)
LEMMA AdvanceHuman ==
    ASSUME TypeOK, HumanInv, NEW w \in Workers, pc[w] # "idle",
           NEW es \in Seq(Events), NEW p \in PCs, Advance(w, es, p),
           WroteInAnyMode(w)'
    PROVE  HumanInv'
<1>1. /\ \A v \in Workers : v # w => pc'[v] = pc[v] /\ tx'[v] = tx[v]
      /\ UNCHANGED <<intents, approvals, trail>>
    BY DEF Advance, TypeOK, store
<1> QED  BY <1>1, LocalHuman

LEMMA FormIntentHuman ==
    ASSUME TypeOK, CoreInv, HumanInv, NEW w \in Workers, FormIntent(w)
    PROVE  HumanInv'
<1>1. pc[w] = "form" /\ tx[w].kind = "propose" /\ tx[w].events = <<>>
    BY DEF FormIntent, CoreInv, KindInv, HumanInv, WroteInAnyMode
<1>2. /\ <<"formed", "breaker_rejected">> \in Seq(Events)
      /\ <<"formed", "pending_approval">> \in Seq(Events)
      /\ <<"formed">> \in Seq(Events)
      /\ "commit" \in PCs /\ "sign" \in PCs
    BY DEF Events, PCs
<1>3. CASE Rollback(w)
    BY <1>3, BeginHuman DEF Rollback, TypeOK, store
<1>4. ASSUME NEW es \in {<<"formed", "breaker_rejected">>, <<"formed", "pending_approval">>},
             Advance(w, es, "commit")
      PROVE  HumanInv'
  <2>1. tx'[w].events = es /\ pc'[w] = "commit" /\ tx'[w].kind = "propose"
      BY <1>1, <1>2, <1>4, AdvanceWrites
  <2>2. WroteInAnyMode(w)'  BY <2>1 DEF WroteInAnyMode
  <2> QED  BY <1>1, <1>2, <1>4, <2>2, AdvanceHuman
<1>5. CASE ~StopsForApproval(w) /\ Advance(w, <<"formed">>, "sign")
  <2>1. ~Settings.requireApproval  BY <1>1, <1>5, ProposalStops
  <2>2. tx'[w].events = <<"formed">> /\ pc'[w] = "sign" /\ tx'[w].kind = "propose"
      BY <1>1, <1>2, <1>5, AdvanceWrites
  <2>3. WroteInAnyMode(w)'  BY <2>1, <2>2 DEF WroteInAnyMode
  <2> QED  BY <1>1, <1>2, <1>5, <2>3, AdvanceHuman
<1> QED  BY <1>3, <1>4, <1>5 DEF FormIntent

LEMMA InsertApprovalHuman ==
    ASSUME TypeOK, CoreInv, HumanInv, NEW h \in Handlers, InsertApproval(h)
    PROVE  HumanInv'
<1>1. h \in Workers /\ pc[h] = "approval"  BY DEF Workers, InsertApproval
<1>2. tx[h].kind = "approve" /\ tx[h].events = <<>>
    BY <1>1 DEF CoreInv, KindInv, HumanInv, WroteInAnyMode
<1>3. <<"approved">> \in Seq(Events) /\ "sign" \in PCs  BY DEF Events, PCs
<1>4. CASE Rollback(h)
    BY <1>1, <1>4, BeginHuman DEF Rollback, TypeOK, store
<1>5. CASE Advance(h, <<"approved">>, "sign")
  <2>1. tx'[h].events = <<"approved">> /\ pc'[h] = "sign" /\ tx'[h].kind = "approve"
      BY <1>1, <1>2, <1>3, <1>5, AdvanceWrites
  <2>2. WroteInAnyMode(h)'  BY <2>1 DEF WroteInAnyMode
  <2> QED  BY <1>1, <1>3, <1>5, <2>2, AdvanceHuman
<1> QED  BY <1>4, <1>5 DEF InsertApproval

LEMMA SignHuman ==
    ASSUME TypeOK, HumanInv, NEW w \in Workers, Sign(w)
    PROVE  HumanInv'
<1>1. pc[w] = "sign"  BY DEF Sign
<1>2. tx[w] \in Tx  BY <1>1 DEF TypeOK
<1>3. /\ <<"signed">> \in Seq(Events) /\ <<"signer_rejected">> \in Seq(Events)
      /\ "submit" \in PCs /\ "commit" \in PCs
      /\ {"approved", "formed", "signed", "signer_rejected"} \subseteq Events
    BY DEF Events, PCs
<1>4. PICK first \in {"approved", "formed"} :
         /\ tx[w].events = <<first>>
         /\ first = "approved" <=> tx[w].kind = "approve"
         /\ tx[w].kind = "propose" => ~Settings.requireApproval
  <2>1. CASE tx[w].kind = "propose"
      BY <1>1, <2>1 DEF HumanInv, WroteInAnyMode
  <2>2. CASE tx[w].kind = "approve"
      BY <1>1, <2>2 DEF HumanInv, WroteInAnyMode
  <2> QED  BY <1>2, <2>1, <2>2 DEF Tx
<1>5. /\ <<first>> \o <<"signed">> = <<first, "signed">>
      /\ <<first>> \o <<"signer_rejected">> = <<first, "signer_rejected">>
    BY <1>3, AppendOne
<1>6. CASE SignerSigns(w) /\ Advance(w, <<"signed">>, "submit")
  <2>1. /\ tx'[w].events = <<first, "signed">> /\ pc'[w] = "submit"
        /\ tx'[w].kind = tx[w].kind /\ RowOf(w)' = RowOf(w)
    <3>1. /\ tx'[w].events = tx[w].events \o <<"signed">> /\ pc'[w] = "submit"
          /\ tx'[w].kind = tx[w].kind /\ RowOf(w)' = RowOf(w)
        BY <1>1, <1>3, <1>6, AdvanceWrites DEF RowOf, FormedRow
    <3> QED  BY <1>4, <1>5, <3>1
  <2>2. tx[w].kind = "propose" => Automatic(RowOf(w))
      BY <1>4, <1>6, ProposalBelowThreshold DEF Automatic, NeedsHuman
  <2>3. WroteInAnyMode(w)'
      BY <1>2, <1>4, <2>1, <2>2 DEF WroteInAnyMode, Automatic, NeedsHuman, Tx
  <2> QED  BY <1>1, <1>3, <1>6, <2>3, AdvanceHuman
<1>7. CASE Advance(w, <<"signer_rejected">>, "commit")
  <2>1. /\ tx'[w].events = <<first, "signer_rejected">> /\ pc'[w] = "commit"
        /\ tx'[w].kind = tx[w].kind
    <3>1. /\ tx'[w].events = tx[w].events \o <<"signer_rejected">> /\ pc'[w] = "commit"
          /\ tx'[w].kind = tx[w].kind
        BY <1>1, <1>3, <1>7, AdvanceWrites
    <3> QED  BY <1>4, <1>5, <3>1
  <2>2. WroteInAnyMode(w)'  BY <1>2, <1>4, <2>1 DEF WroteInAnyMode, Tx
  <2> QED  BY <1>1, <1>3, <1>7, <2>2, AdvanceHuman
<1> QED  BY <1>6, <1>7 DEF Sign

LEMMA SubmitHuman ==
    ASSUME TypeOK, HumanInv, NEW w \in Workers, Submit(w)
    PROVE  HumanInv'
<1>1. pc[w] = "submit"  BY DEF Submit
<1>2. tx[w] \in Tx  BY <1>1 DEF TypeOK
<1>3. /\ <<"submitted">> \in Seq(Events) /\ "commit" \in PCs
      /\ {"approved", "formed", "signed", "submitted"} \subseteq Events
    BY DEF Events, PCs
<1>4. PICK first \in {"approved", "formed"} :
         /\ tx[w].events = <<first, "signed">>
         /\ first = "approved" <=> tx[w].kind = "approve"
         /\ tx[w].kind = "propose" => Automatic(RowOf(w))
  <2>1. CASE tx[w].kind = "propose"
      BY <1>1, <2>1 DEF HumanInv, WroteInAnyMode
  <2>2. CASE tx[w].kind = "approve"
      BY <1>1, <2>2 DEF HumanInv, WroteInAnyMode
  <2> QED  BY <1>2, <2>1, <2>2 DEF Tx
<1>5. <<first, "signed">> \o <<"submitted">> = <<first, "signed", "submitted">>
    BY <1>3, AppendOne
<1>6. CASE Rollback(w)
    BY <1>6, BeginHuman DEF Rollback, TypeOK, store
<1>7. CASE Advance(w, <<"submitted">>, "commit")
  <2>1. /\ tx'[w].events = <<first, "signed", "submitted">> /\ pc'[w] = "commit"
        /\ tx'[w].kind = tx[w].kind /\ RowOf(w)' = RowOf(w)
      BY <1>1, <1>3, <1>4, <1>5, <1>7, AdvanceWrites DEF RowOf, FormedRow
  <2>2. WroteInAnyMode(w)'
      BY <1>2, <1>4, <2>1 DEF WroteInAnyMode, Automatic, NeedsHuman, Tx
  <2> QED  BY <1>1, <1>3, <1>7, <2>2, AdvanceHuman
<1> QED  BY <1>6, <1>7 DEF Submit

(* What an approval's commit adds to a trail. *)
LEMMA AppendPlaces ==
    ASSUME NEW s \in Seq(Events), NEW t \in Seq(Events)
    PROVE  /\ DOMAIN (s \o t) = 1 .. Len(s) + Len(t)
           /\ \A k \in 1 .. Len(s) : (s \o t)[k] = s[k]
           /\ \A k \in 1 .. Len(t) : (s \o t)[Len(s) + k] = t[k]
<1>1. Len(s) \in Nat /\ Len(t) \in Nat  OBVIOUS
<1>2. s \o t \in Seq(Events) /\ Len(s \o t) = Len(s) + Len(t)  BY ConcatProperties
<1>3. \A k \in 1 .. Len(s) + Len(t) : (s \o t)[k] = IF k <= Len(s) THEN s[k] ELSE t[k - Len(s)]
    BY ConcatProperties
<1>4. ASSUME NEW k \in 1 .. Len(t)  PROVE (s \o t)[Len(s) + k] = t[k]
  <2>1. Len(s) + k \in 1 .. Len(s) + Len(t) /\ ~(Len(s) + k <= Len(s)) /\ (Len(s) + k) - Len(s) = k
      BY <1>1
  <2> QED  BY <1>3, <2>1
<1> QED  BY <1>1, <1>2, <1>3, <1>4

LEMMA AppendApproval ==
    ASSUME NEW s \in Seq(Events), NEW t \in Seq(Events),
           t \in {<<"approved", "signed", "submitted">>, <<"approved", "signer_rejected">>},
           NEW k \in DOMAIN (s \o t), (s \o t)[k] = "submitted"
    PROVE  \/ /\ k \in DOMAIN s /\ s[k] = "submitted"
              /\ \A l \in 1 .. k : (s \o t)[l] = s[l]
           \/ /\ k \in Nat /\ k > 2
              /\ (s \o t)[k - 1] = "signed" /\ (s \o t)[k - 2] = "approved"
<1> DEFINE n == Len(s)
<1>1. n \in Nat /\ Len(t) \in Nat /\ DOMAIN s = 1 .. n /\ k \in 1 .. n + Len(t)
    BY AppendPlaces
<1>2. CASE k <= n
  <2>1. k \in 1 .. n /\ \A l \in 1 .. k : l \in 1 .. n  BY <1>1, <1>2
  <2> QED  BY <1>1, <2>1, AppendPlaces
<1>3. CASE k > n
  <2> PICK m \in 1 .. Len(t) : k = n + m
    <3>1. k - n \in 1 .. Len(t) /\ k = n + (k - n)  BY <1>1, <1>3
    <3> QED  BY <3>1
  <2>1. t[m] = "submitted"  BY AppendPlaces
  <2>2. t = <<"approved", "signed", "submitted">>
    <3>1. t # <<"approved", "signer_rejected">>  BY <2>1
    <3> QED  BY <3>1
  <2>3. Len(t) = 3 /\ t[1] = "approved" /\ t[2] = "signed"  BY <2>2
  <2>4. m = 3
    <3>1. m \in {1, 2, 3}  BY <2>3
    <3> QED  BY <2>1, <2>3, <3>1
  <2>5. (s \o t)[n + 2] = "signed" /\ (s \o t)[n + 1] = "approved"
      BY <2>3, AppendPlaces
  <2>6. k \in Nat /\ k > 2 /\ k - 1 = n + 2 /\ k - 2 = n + 1  BY <1>1, <2>4
  <2> QED  BY <2>5, <2>6
<1> QED  BY <1>1, <1>2, <1>3

(* What one transaction commits, whole: with the events of an approval, or *)
(* without any.                                                            *)
ProposalWrites == {<<"formed", "breaker_rejected">>, <<"formed", "pending_approval">>,
                   <<"formed", "signer_rejected">>, <<"formed", "signed", "submitted">>}

ApprovalWrites == {<<"approved", "signed", "submitted">>, <<"approved", "signer_rejected">>}

LEMMA WritesAreWhole ==
    /\ \A t \in ProposalWrites : NothingHalfDone(t) /\ ~TellsOfApproval(t)
    /\ \A t \in ApprovalWrites : NothingHalfDone(t) /\ t[1] = "approved" /\ 1 \in 1 .. Len(t)
<1>1. ASSUME NEW t \in ProposalWrites  PROVE NothingHalfDone(t) /\ ~TellsOfApproval(t)
  <2>1. CASE t = <<"formed", "signed", "submitted">>
      BY <2>1 DEF NothingHalfDone, TellsOfApproval
  <2>2. CASE t # <<"formed", "signed", "submitted">>
    <3>1. Len(t) = 2 /\ DOMAIN t = 1 .. 2 /\ t[1] = "formed"
          /\ t[2] \in {"breaker_rejected", "pending_approval", "signer_rejected"}
        BY <1>1, <2>2 DEF ProposalWrites
    <3> QED  BY <3>1 DEF NothingHalfDone, TellsOfApproval
  <2> QED  BY <2>1, <2>2
<1>2. ASSUME NEW t \in ApprovalWrites
      PROVE  NothingHalfDone(t) /\ t[1] = "approved" /\ 1 \in 1 .. Len(t)
  <2>1. CASE t = <<"approved", "signed", "submitted">>
      BY <2>1 DEF NothingHalfDone
  <2>2. CASE t = <<"approved", "signer_rejected">>
      BY <2>2 DEF NothingHalfDone
  <2> QED  BY <1>2, <2>1, <2>2 DEF ApprovalWrites
<1> QED  BY <1>1, <1>2

LEMMA AppendWhole ==
    ASSUME NEW s \in Seq(Events), NEW t \in Seq(Events),
           NothingHalfDone(s), NothingHalfDone(t)
    PROVE  NothingHalfDone(s \o t)
<1> DEFINE n == Len(s)
           u == s \o t
<1>1. n \in Nat /\ Len(t) \in Nat /\ Len(u) = n + Len(t) /\ DOMAIN u = 1 .. n + Len(t)
    BY AppendPlaces, ConcatProperties
<1>2. SUFFICES ASSUME NEW k \in 1 .. n + Len(t)
               PROVE  /\ u[k] = "approved" =>
                            k < n + Len(t) /\ u[k + 1] \in {"signed", "signer_rejected"}
                      /\ u[k] = "signed" => k < n + Len(t) /\ u[k + 1] = "submitted"
    BY <1>1 DEF NothingHalfDone
<1>3. CASE k <= n
  <2>1. k \in 1 .. n /\ u[k] = s[k]  BY <1>1, <1>3, AppendPlaces
  <2>2. k < n => u[k + 1] = s[k + 1]
    <3>1. k < n => k + 1 \in 1 .. n  BY <1>1, <2>1
    <3> QED  BY <3>1, AppendPlaces
  <2>3. k < n => k < n + Len(t)  BY <1>1
  <2>4. /\ s[k] = "approved" => k < n /\ s[k + 1] \in {"signed", "signer_rejected"}
        /\ s[k] = "signed" => k < n /\ s[k + 1] = "submitted"
    <3>1. k \in DOMAIN s  BY <2>1
    <3> QED  BY <3>1 DEF NothingHalfDone
  <2> QED  BY <2>1, <2>2, <2>3, <2>4
<1>4. CASE ~(k <= n)
  <2> PICK m \in 1 .. Len(t) : k = n + m
    <3>1. k - n \in 1 .. Len(t) /\ k = n + (k - n)  BY <1>1, <1>4
    <3> QED  BY <3>1
  <2>1. u[k] = t[m]  BY AppendPlaces
  <2>2. m < Len(t) => k < n + Len(t) /\ u[k + 1] = t[m + 1]
    <3>1. ASSUME m < Len(t)  PROVE m + 1 \in 1 .. Len(t) /\ k + 1 = n + (m + 1) /\ k < n + Len(t)
        BY <1>1, <3>1
    <3> QED  BY <3>1, AppendPlaces
  <2>3. /\ t[m] = "approved" => m < Len(t) /\ t[m + 1] \in {"signed", "signer_rejected"}
        /\ t[m] = "signed" => m < Len(t) /\ t[m + 1] = "submitted"
    <3>1. m \in DOMAIN t  BY <1>1
    <3> QED  BY <3>1 DEF NothingHalfDone
  <2> QED  BY <2>1, <2>2, <2>3
<1> QED  BY <1>3, <1>4

LEMMA CommitHuman ==
    ASSUME TypeOK, CoreInv, HumanInv, NEW w \in Workers, Commit(w)
    PROVE  HumanInv'
<1>1. /\ pc[w] = "commit" /\ pc'[w] = "idle" /\ tx[w] \in Tx
      /\ \A v \in Workers : v # w => pc'[v] = pc[v] /\ tx'[v] = tx[v]
    BY DEF Commit, TypeOK
<1>2. PICK i \in IntentIds : i = tx[w].id  BY <1>1 DEF Tx
<1>3. /\ trail'[i] = trail[i] \o tx[w].events
      /\ \A j \in IntentIds : j # i => trail'[j] = trail[j]
      /\ trail[i] \in Seq(Events) /\ tx[w].events \in Seq(Events)
    BY <1>1, <1>2 DEF Commit, TypeOK, Tx
<1>4. CASE tx[w].kind = "propose"
  <2>1. i \notin DOMAIN intents  BY <1>1, <1>2, <1>4 DEF CoreInv, IdInv, Committed
  <2>2. /\ DOMAIN intents' = DOMAIN intents \cup {i} /\ UNCHANGED approvals
        /\ intents'[i] = RowOf(w)
        /\ \A j \in DOMAIN intents : intents'[j] = intents[j]
      BY <1>2, <1>4, <2>1 DEF Commit, CommitProposal
  <2>3. trail'[i] = tx[w].events
      BY <1>2, <1>3, <2>1, ConcatEmptySeq DEF HumanInv, HumanTrails, Committed
  <2>4. ASSUME NEW v \in Workers  PROVE WroteInAnyMode(v)'
    <3>1. CASE v = w  BY <1>1, <3>1 DEF WroteInAnyMode
    <3>2. CASE v # w /\ tx[v].kind = "propose"
        BY <1>1, <3>2 DEF HumanInv, WroteInAnyMode, RowOf, FormedRow, Automatic, NeedsHuman
    <3>3. CASE v # w /\ tx[v].kind # "propose"
        BY <1>1, <3>3 DEF HumanInv, WroteInAnyMode
    <3> QED  BY <3>1, <3>2, <3>3
  <2>5. ~NeedsHuman(intents'[i]) \/ \A k \in DOMAIN trail'[i] : trail'[i][k] # "submitted"
    <3>1. CASE tx[w].events = <<"formed", "signed", "submitted">> /\ Automatic(RowOf(w))
        BY <2>2, <3>1 DEF Automatic
    <3>2. CASE tx[w].events \in {<<"formed", "breaker_rejected">>,
                                 <<"formed", "pending_approval">>,
                                 <<"formed", "signer_rejected">>}
        BY <2>3, <3>2
    <3> QED  BY <1>1, <1>4, <3>1, <3>2 DEF HumanInv, WroteInAnyMode
  <2>7. NothingHalfDone(trail'[i]) /\ ~TellsOfApproval(trail'[i])
    <3>1. tx[w].events \in ProposalWrites
        BY <1>1, <1>4 DEF HumanInv, WroteInAnyMode, ProposalWrites
    <3> QED  BY <2>3, <3>1, WritesAreWhole
  <2>8. i \notin approvals'
    <3>1. trail[i] = <<>>  BY <2>1 DEF HumanInv, HumanTrails, Committed
    <3> QED  BY <2>2, <3>1 DEF HumanInv, HumanTrails, TellsOfApproval
  <2>6. HumanTrails'
    <3> SUFFICES ASSUME NEW j \in IntentIds
                 PROVE  /\ j \notin DOMAIN intents' => trail'[j] = <<>>
                        /\ NothingHalfDone(trail'[j])
                        /\ j \in approvals' <=> TellsOfApproval(trail'[j])
                        /\ j \in DOMAIN intents' /\ NeedsHuman(intents'[j]) =>
                              \A k \in DOMAIN trail'[j] :
                                 trail'[j][k] = "submitted" => Approved(j, k)'
        BY DEF HumanTrails, Committed, NeedsHuman
    <3>1. CASE j = i  BY <2>2, <2>5, <2>7, <2>8, <3>1
    <3>2. CASE j # i
      <4>1. trail'[j] = trail[j]  BY <1>3, <3>2
      <4>2. j \in DOMAIN intents' => j \in DOMAIN intents /\ intents'[j] = intents[j]
          BY <2>2, <3>2
      <4>3. j \notin DOMAIN intents' => j \notin DOMAIN intents  BY <2>2
      <4>4. \A k : Approved(j, k) => Approved(j, k)'  BY <2>2, <4>1 DEF Approved
      <4>5. j \in approvals' <=> j \in approvals  BY <2>2
      <4> QED  BY <4>1, <4>2, <4>3, <4>4, <4>5 DEF HumanInv, HumanTrails, Committed
    <3> QED  BY <3>1, <3>2
  <2> QED  BY <2>4, <2>6 DEF HumanInv
<1>5. CASE tx[w].kind = "approve"
  <2>1. approvals' = approvals \cup {i} /\ UNCHANGED intents
      BY <1>2, <1>5 DEF Commit, CommitApproval
  <2>2. Committed(i)  BY <1>1, <1>2, <1>5 DEF CoreInv, IdInv
  <2>3. ASSUME NEW v \in Workers  PROVE WroteInAnyMode(v)'
    <3>1. CASE v = w  BY <1>1, <3>1 DEF WroteInAnyMode
    <3>2. CASE v # w
        BY <1>1, <2>1, <3>2 DEF HumanInv, WroteInAnyMode, RowOf, FormedRow, Automatic, NeedsHuman
    <3> QED  BY <3>1, <3>2
  <2>4. ASSUME NEW k \in DOMAIN trail'[i], trail'[i][k] = "submitted", NeedsHuman(intents[i])
        PROVE  Approved(i, k)'
    <3>1. tx[w].events \in {<<"approved", "signed", "submitted">>,
                             <<"approved", "signer_rejected">>}
        BY <1>1, <1>5 DEF HumanInv, WroteInAnyMode
    <3>2. CASE /\ k \in DOMAIN trail[i] /\ trail[i][k] = "submitted"
               /\ \A l \in 1 .. k : trail'[i][l] = trail[i][l]
      <4>1. Approved(i, k)  BY <2>2, <2>4, <3>2 DEF HumanInv, HumanTrails
      <4>2. k \in Nat  BY <1>3, <3>2
      <4>3. k - 1 \in 1 .. k /\ k - 2 \in 1 .. k  BY <4>1, <4>2 DEF Approved
      <4> QED  BY <2>1, <3>2, <4>1, <4>3 DEF Approved
    <3>3. CASE k > 2 /\ trail'[i][k - 1] = "signed" /\ trail'[i][k - 2] = "approved"
        BY <2>1, <3>3 DEF Approved
    <3>4. PICK s \in Seq(Events), t \in Seq(Events) :
             s = trail[i] /\ t = tx[w].events /\ trail'[i] = s \o t
        BY <1>3
    <3>5. /\ t \in {<<"approved", "signed", "submitted">>, <<"approved", "signer_rejected">>}
          /\ k \in DOMAIN (s \o t) /\ (s \o t)[k] = "submitted"
        BY <2>4, <3>1, <3>4
    <3>6. \/ k \in DOMAIN s /\ s[k] = "submitted" /\ \A l \in 1 .. k : (s \o t)[l] = s[l]
          \/ k > 2 /\ (s \o t)[k - 1] = "signed" /\ (s \o t)[k - 2] = "approved"
        BY <3>5, AppendApproval
    <3> QED  BY <3>2, <3>3, <3>4, <3>6
  <2>6. NothingHalfDone(trail'[i]) /\ TellsOfApproval(trail'[i])
    <3>1. PICK s \in Seq(Events), t \in Seq(Events) :
             s = trail[i] /\ t = tx[w].events /\ trail'[i] = s \o t
        BY <1>3
    <3>2. t \in ApprovalWrites
        BY <1>1, <1>5, <3>1 DEF HumanInv, WroteInAnyMode, ApprovalWrites
    <3>3. NothingHalfDone(s)  BY <3>1 DEF HumanInv, HumanTrails
    <3>4. NothingHalfDone(t) /\ t[1] = "approved" /\ 1 \in 1 .. Len(t)
        BY <3>2, WritesAreWhole
    <3>5. NothingHalfDone(s \o t)  BY <3>3, <3>4, AppendWhole
    <3>6. Len(s) + 1 \in DOMAIN (s \o t) /\ (s \o t)[Len(s) + 1] = "approved"
        BY <3>4, AppendPlaces
    <3>7. TellsOfApproval(s \o t)  BY <3>6 DEF TellsOfApproval
    <3> QED  BY <3>1, <3>5, <3>7
  <2>5. HumanTrails'
    <3> SUFFICES ASSUME NEW j \in IntentIds
                 PROVE  /\ ~Committed(j)' => trail'[j] = <<>>
                        /\ NothingHalfDone(trail'[j])
                        /\ j \in approvals' <=> TellsOfApproval(trail'[j])
                        /\ Committed(j)' /\ NeedsHuman(intents[j]) =>
                              \A k \in DOMAIN trail'[j] :
                                 trail'[j][k] = "submitted" => Approved(j, k)'
        BY <2>1 DEF HumanTrails, NeedsHuman
    <3>1. CASE j = i  BY <2>1, <2>2, <2>4, <2>6, <3>1 DEF Committed
    <3>2. CASE j # i
      <4>1. trail'[j] = trail[j] /\ (j \in approvals' <=> j \in approvals)
            /\ (Committed(j)' <=> Committed(j))
          BY <1>3, <2>1, <3>2 DEF Committed
      <4>2. \A k : Approved(j, k) => Approved(j, k)'  BY <4>1 DEF Approved
      <4> QED  BY <4>1, <4>2 DEF HumanInv, HumanTrails
    <3> QED  BY <3>1, <3>2
  <2> QED  BY <2>3, <2>5 DEF HumanInv
<1> QED  BY <1>1, <1>4, <1>5 DEF Tx

LEMMA NextHuman ==
    ASSUME TypeOK, CoreInv, HumanInv, [Next]_vars
    PROVE  HumanInv'
<1>1. CASE UNCHANGED vars
    BY <1>1, FrameHuman DEF vars, store
<1>2. CASE Tick
    BY <1>2, FrameHuman DEF Tick, store
<1>3. ASSUME NEW m \in Signals \cup {Malformed}, Publish(m)
      PROVE  HumanInv'
    BY <1>3, FrameHuman DEF Publish, store
<1>4. ASSUME NEW c \in Consumers, Restart(c)
      PROVE  HumanInv'
    BY <1>4, FrameHuman DEF Restart, store
<1>5. ASSUME NEW c \in Consumers, Consume(c)
      PROVE  HumanInv'
  <2>1. CASE UNCHANGED <<pc, tx>>
      BY <1>5, <2>1, FrameHuman DEF Consume, store
  <2>2. ASSUME NEW i \in IntentIds, BeginPropose(c, Head(inbox[c]), i)
        PROVE  HumanInv'
    <3>1. c \in Workers  BY DEF Workers
    <3> QED
        BY <1>5, <2>2, <3>1, BeginHuman DEF Consume, BeginPropose, TypeOK, store
  <2> QED  BY <1>5, <2>1, <2>2 DEF Consume
<1>6. ASSUME NEW h \in Handlers, NEW s \in Signals, RunCli(h, s)
      PROVE  HumanInv'
  <2>1. h \in Workers  BY DEF Workers
  <2> QED
      BY <1>6, <2>1, BeginHuman DEF RunCli, BeginPropose, TypeOK, store
<1>7. ASSUME NEW h \in Handlers, NEW i \in IntentIds, BeginApprove(h, i)
      PROVE  HumanInv'
  <2>1. h \in Workers  BY DEF Workers
  <2> QED  BY <1>7, <2>1, BeginHuman DEF BeginApprove, TypeOK, store
<1>8. ASSUME NEW h \in Handlers, InsertApproval(h)
      PROVE  HumanInv'
    BY <1>8, InsertApprovalHuman
<1>9. ASSUME NEW w \in Workers, Step(w)
      PROVE  HumanInv'
  <2>1. CASE AllocateNonce(w)
    <3>1. tx[w] \in Tx /\ tx[w].events = <<>>
        BY <2>1 DEF AllocateNonce, TypeOK, HumanInv, WroteInAnyMode
    <3>2. tx'[w].events = <<>> /\ pc'[w] = "form"
        BY <2>1, <3>1 DEF AllocateNonce, TypeOK, Tx
    <3> QED  BY <2>1, <3>2, BeginHuman DEF AllocateNonce, TypeOK, store
  <2>2. CASE FormIntent(w)  BY <2>2, FormIntentHuman
  <2>3. CASE Sign(w)  BY <2>3, SignHuman
  <2>4. CASE Submit(w)  BY <2>4, SubmitHuman
  <2>5. CASE Commit(w)  BY <2>5, CommitHuman
  <2>6. CASE Crash(w)
      BY <2>6, BeginHuman DEF Crash, Rollback, TypeOK, store
  <2> QED  BY <1>9, <2>1, <2>2, <2>3, <2>4, <2>5, <2>6 DEF Step
<1> QED
    BY <1>1, <1>2, <1>3, <1>4, <1>5, <1>6, <1>7, <1>8, <1>9 DEF Next

(* In every mode: where a human is asked for, the signer's key is used     *)
(* only in a transaction that recorded the human's approval, and a stored  *)
(* submission has its approval and its signature right before it; in any   *)
(* trail nothing is half done, and approval rows and trails agree.         *)
THEOREM SignedOnlyIfApproved == Spec => []OnlyApprovedIsSigned
<1>1. Init => HumanInv
  <2>1. NothingHalfDone(<<>>) /\ ~TellsOfApproval(<<>>)
      BY DEF NothingHalfDone, TellsOfApproval
  <2> QED
      BY <2>1 DEF Init, HumanInv, WroteInAnyMode, HumanTrails, Committed
<1>2. NonceInv /\ HumanInv /\ [Next]_vars => HumanInv'
    BY NextHuman DEF NonceInv, CoreInv
<1>3. NonceInv /\ HumanInv => OnlyApprovedIsSigned
  <2> SUFFICES ASSUME NonceInv, HumanInv  PROVE OnlyApprovedIsSigned
      OBVIOUS
  <2>1. ASSUME NEW w \in Workers, pc[w] = "submit", NeedsHuman(RowOf(w))
        PROVE  tx[w].events = <<"approved", "signed">>
    <3>1. tx[w] \in Tx  BY <2>1 DEF NonceInv, TypeOK
    <3> QED  BY <2>1, <3>1 DEF HumanInv, WroteInAnyMode, Automatic, Tx
  <2>2. ASSUME NEW i \in DOMAIN intents, NEW k \in DOMAIN trail[i],
               trail[i][k] = "submitted", NeedsHuman(intents[i])
        PROVE  Approved(i, k)
    <3>1. i \in IntentIds  BY DEF NonceInv, TypeOK
    <3> QED  BY <2>2, <3>1 DEF HumanInv, HumanTrails, Committed
  <2>3. ASSUME NEW i \in IntentIds
        PROVE  /\ NothingHalfDone(trail[i])
               /\ i \in approvals <=> \E k \in DOMAIN trail[i] : trail[i][k] = "approved"
      BY DEF HumanInv, HumanTrails, TellsOfApproval
  <2> QED  BY <2>1, <2>2, <2>3 DEF OnlyApprovedIsSigned, Approved
<1> QED  BY <1>1, <1>2, <1>3, NonceInvariant, PTL DEF Spec

-----------------------------------------------------------------------------
(* Refinement. *)

(* The configurations in which the per-trade cap is the one that stops a   *)
(* trade: whatever the signer would sign, the breakers let through.        *)
TradeCapDecides ==
    /\ Settings.requireApproval
    /\ Settings.perTradeCap <= Settings.hotCap
    /\ Settings.perTradeCap <= Settings.rateNotional
    /\ 1 <= Settings.rateCount

LEMMA SendablePasses ==
    ASSUME TradeCapDecides, Settings.dryRun, NEW i \in IntentIds, intents[i] \in Row,
           WithinTradeCap(i)
    PROVE  PassesBreakers(intents[i])
<1>1. /\ Settings.perTradeCap \in Nat /\ Settings.hotCap \in Nat
      /\ Settings.rateNotional \in Nat /\ Settings.rateCount \in Nat
      /\ Settings.maxSlippage \in Nat
      /\ intents[i].notional \in Nat
    BY ExecutorAssumption DEF SettingsType, Row
<1> DEFINE o == OrderIntent(intents[i])
<1>2. /\ o.notional = intents[i].notional /\ o.slippage = Settings.maxSlippage
      /\ o.to = Exchange /\ o.action = "clob_order"
    BY DEF OrderIntent
<1>3. /\ intents[i].notional <= Settings.perTradeCap
      /\ intents[i].notional <= Settings.hotCap
      /\ 0 + intents[i].notional <= Settings.rateNotional
      /\ 0 + 1 <= Settings.rateCount
      /\ Settings.maxSlippage <= Settings.maxSlippage
    BY <1>1 DEF TradeCapDecides, WithinTradeCap
<1> HIDE DEF o
<1>4. BreakersClear(o, BreakerState, Limits(Settings.enabled \/ Settings.dryRun))
    BY <1>2, <1>3 DEF BreakersClear, BreakerState, Limits
<1> QED  BY <1>4 DEF PassesBreakers, o

(* What a status says of the store. *)
StatusIs ==
    \A i \in IntentIds :
       StatusOf(i) = IF ~Committed(i) THEN "none"
                     ELSE IF ~PassesBreakers(intents[i]) THEN "rejected"
                     ELSE IF i \notin approvals THEN "pending"
                     ELSE IF trail[i] = <<"formed", "pending_approval", "approved",
                                          "signed", "submitted">>
                     THEN "submitted"
                     ELSE "denied"

LEMMA StatusCases ==
    ASSUME TradeCapDecides
    PROVE  ManualInv => StatusIs
<1> SUFFICES ASSUME ManualInv, NEW i \in IntentIds, Committed(i)
             PROVE  StatusOf(i) = IF ~PassesBreakers(intents[i]) THEN "rejected"
                                  ELSE IF i \notin approvals THEN "pending"
                                  ELSE IF trail[i] = <<"formed", "pending_approval", "approved",
                                                       "signed", "submitted">>
                                  THEN "submitted"
                                  ELSE "denied"
    BY DEF StatusIs, StatusOf
<1> DEFINE v == Verdict(intents[i])
<1>1. /\ v \in {"pending_approval", "breaker_rejected"}
      /\ v = "pending_approval" <=> PassesBreakers(intents[i])
    BY VerdictIsEvent
<1>2. Settings.requireApproval  BY DEF TradeCapDecides
<1>3. CASE i \notin approvals /\ trail[i] = <<"formed", v>>
  <2>1. /\ ~Happened(i, "submitted") /\ ~Happened(i, "signer_rejected")
        /\ Happened(i, "breaker_rejected") <=> v = "breaker_rejected"
      BY <1>1, <1>3 DEF Happened
  <2> QED  BY <1>1, <1>3, <2>1 DEF StatusOf
<1>4. CASE /\ i \in approvals
           /\ trail[i] = <<"formed", v, "approved", "signed", "submitted">>
           /\ WithinTradeCap(i) /\ Settings.dryRun
  <2>1. intents[i] \in Row  BY DEF ManualInv, NonceInv, TypeOK, Committed
  <2>2. PassesBreakers(intents[i])  BY <1>4, <2>1, SendablePasses
  <2>3. Happened(i, "submitted")  BY <1>4 DEF Happened
  <2>4. trail[i] = <<"formed", "pending_approval", "approved", "signed", "submitted">>
      BY <1>1, <1>4, <2>2
  <2> QED  BY <1>4, <2>2, <2>3, <2>4 DEF StatusOf
<1>5. CASE /\ i \in approvals
           /\ trail[i] = <<"formed", v, "approved", "signer_rejected">>
  <2>1. /\ ~Happened(i, "submitted") /\ Happened(i, "signer_rejected")
        /\ Happened(i, "breaker_rejected") <=> v = "breaker_rejected"
      BY <1>1, <1>5 DEF Happened
  <2>2. trail[i] # <<"formed", "pending_approval", "approved", "signed", "submitted">>
      BY <1>5
  <2> QED  BY <1>1, <1>5, <2>1, <2>2 DEF StatusOf
<1> QED  BY <1>2, <1>3, <1>4, <1>5 DEF ManualInv, TrailInv

AbstractStatus == [i \in IntentIds |-> StatusOf(i)]
AbstractNonce == [i \in IntentIds |-> IF Committed(i) THEN intents[i].nonce ELSE 0]

(* A proposal's commit, read as the life cycle's own step. *)
LEMMA ProposalRefines ==
    ASSUME ManualInv, StatusIs, StatusIs', ManualInv', NEW w \in Workers, Commit(w),
           Settings.requireApproval, tx[w].kind = "propose"
    PROVE  Lifecycle!Next
<1>1. pc[w] = "commit" /\ tx[w] \in Tx  BY DEF ManualInv, NonceInv, TypeOK, Commit
<1>2. PICK i \in IntentIds : i = tx[w].id  BY <1>1 DEF Tx
<1>3. ~Committed(i) /\ tx[w].nonce = nextNonce /\ nextNonce \in Nat
    BY <1>1, <1>2 DEF ManualInv, NonceInv, IdInv, LockInv, TypeOK
<1>4. /\ nextNonce' = nextNonce + 1 /\ UNCHANGED approvals
      /\ DOMAIN intents' = DOMAIN intents \cup {i}
      /\ intents'[i] = RowOf(w)
      /\ \A j \in DOMAIN intents : intents'[j] = intents[j]
    BY <1>2, <1>3 DEF Commit, CommitProposal, Committed
<1>5. intents'[i].nonce = nextNonce  BY <1>3, <1>4 DEF RowOf, FormedRow
<1>6. \A j \in IntentIds : j # i => trail'[j] = trail[j]
    BY <1>2 DEF Commit, ManualInv, NonceInv, TypeOK
<1>7. i \notin approvals'  BY <1>2, <1>3, <1>4 DEF ManualInv, TrailInv
<1>8. StatusOf(i) = "none" /\ StatusOf(i)' \in {"rejected", "pending"}
    BY <1>2, <1>3, <1>4, <1>7 DEF StatusIs, Committed
<1>9. \A j \in IntentIds : j # i => StatusOf(j)' = StatusOf(j)
    BY <1>4, <1>6 DEF StatusIs, Committed
<1>10. AbstractStatus' = [AbstractStatus EXCEPT ![i] = StatusOf(i)']
    BY <1>2, <1>9 DEF AbstractStatus
<1>11. AbstractNonce' = [AbstractNonce EXCEPT ![i] = nextNonce]
    BY <1>2, <1>4, <1>5 DEF AbstractNonce, Committed
<1>12. AbstractStatus[i] = "none"  BY <1>2, <1>8 DEF AbstractStatus
<1> QED
    BY <1>2, <1>4, <1>8, <1>10, <1>11, <1>12
    DEF Lifecycle!Next, Lifecycle!Propose, AbstractStatus, AbstractNonce

(* An approval's commit decides a pending intent; of one that the breakers *)
(* rejected it changes nothing that the life cycle sees.                   *)
LEMMA ApprovalRefines ==
    ASSUME ManualInv, StatusIs, StatusIs', NEW w \in Workers, Commit(w),
           Settings.requireApproval, tx[w].kind = "approve"
    PROVE  Lifecycle!Next \/ UNCHANGED <<nextNonce, AbstractStatus, AbstractNonce>>
<1>1. pc[w] = "commit" /\ tx[w] \in Tx  BY DEF ManualInv, NonceInv, TypeOK, Commit
<1>2. PICK i \in IntentIds : i = tx[w].id  BY <1>1 DEF Tx
<1>3. Committed(i)  BY <1>1, <1>2 DEF ManualInv, NonceInv, IdInv
<1>4. HoldsApproval(w, i)  BY <1>1, <1>2 DEF HoldsApproval
<1>5. i \notin approvals  BY <1>4 DEF ManualInv, KeyInv
<1>6. approvals' = approvals \cup {i} /\ UNCHANGED <<nextNonce, intents>>
    BY <1>2 DEF Commit, CommitApproval
<1>7. \A j \in IntentIds : j # i => trail'[j] = trail[j]
    BY <1>2 DEF Commit, ManualInv, NonceInv, TypeOK
<1>8. \A j \in IntentIds : j # i => StatusOf(j)' = StatusOf(j)
    BY <1>6, <1>7 DEF StatusIs, Committed
<1>9. AbstractStatus' = [AbstractStatus EXCEPT ![i] = StatusOf(i)']
    BY <1>8 DEF AbstractStatus
<1>10. AbstractNonce' = AbstractNonce  BY <1>6 DEF AbstractNonce, Committed
<1>11. CASE PassesBreakers(intents[i])
  <2>1. StatusOf(i) = "pending" /\ StatusOf(i)' \in {"denied", "submitted"}
      BY <1>3, <1>5, <1>6, <1>11 DEF StatusIs, Committed
  <2>2. AbstractStatus[i] = "pending"  BY <2>1 DEF AbstractStatus
  <2> QED
      BY <1>6, <1>9, <1>10, <2>1, <2>2
      DEF Lifecycle!Next, Lifecycle!Approve, AbstractStatus, AbstractNonce
<1>12. CASE ~PassesBreakers(intents[i])
  <2>1. StatusOf(i) = "rejected" /\ StatusOf(i)' = "rejected"
      BY <1>3, <1>6, <1>12 DEF StatusIs, Committed
  <2>2. AbstractStatus' = AbstractStatus  BY <1>9, <2>1 DEF AbstractStatus
  <2> QED  BY <1>6, <1>10, <2>2
<1> QED  BY <1>11, <1>12

(* In manual mode, where the per-trade cap is the limit that stops a       *)
(* trade, the concurrent executor with its transactions, locks, failures   *)
(* and restarts implements the life cycle of an intent.                    *)
THEOREM LifecycleIsImplemented ==
    ASSUME TradeCapDecides
    PROVE  Spec => ImplementsLifecycle
<1>1. Init => Lifecycle!Init
    BY DEF Init, Lifecycle!Init, StatusOf, Committed
<1>2. ManualInv => StatusIs  BY StatusCases
<1>3. ManualInv' => StatusIs'  BY <1>2, PTL
<1>4. ASSUME ManualInv, ManualInv', [Next]_vars
      PROVE  [Lifecycle!Next]_(Lifecycle!lifecycleVars)
  <2>1. StatusIs /\ StatusIs' /\ Settings.requireApproval
      BY <1>2, <1>3, <1>4 DEF TradeCapDecides
  <2>2. CASE UNCHANGED store
      BY <2>2 DEF store, Lifecycle!lifecycleVars, StatusOf, Committed, Happened
  <2>3. ASSUME NEW w \in Workers, Commit(w)
        PROVE  [Lifecycle!Next]_(Lifecycle!lifecycleVars)
    <3>1. tx[w].kind \in {"propose", "approve"}  BY <2>3 DEF Commit
    <3> QED
        BY <1>4, <2>1, <2>3, <3>1, ProposalRefines, ApprovalRefines
        DEF Lifecycle!lifecycleVars, AbstractStatus, AbstractNonce
  <2> QED  BY <1>4, <2>2, <2>3, OnlyCommitStores
<1> QED
    BY <1>1, <1>4, ManualInvariant, PTL DEF Spec, ImplementsLifecycle, Lifecycle!Spec
=============================================================================
