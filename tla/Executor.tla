------------------------------ MODULE Executor ------------------------------
(***************************************************************************)
(* The semi-automatic execution module (executor/app): processes propose   *)
(* intents from advisor signals and humans approve them, each inside one   *)
(* database transaction over a shared PostgreSQL store.                    *)
(*                                                                         *)
(*   Consumers  runs of orchestrator.consume: a Redis subscription, an     *)
(*              in-memory dedup set, one transaction per message;          *)
(*   Handlers   one-shot work: a control-API request, the approve CLI or   *)
(*              the run CLI.                                               *)
(*                                                                         *)
(* A transaction's writes stay in tx[w] until Commit applies them at once; *)
(* a failure at any point before drops them.  What a transaction does take *)
(* from others before it commits are locks: the nonce counter row          *)
(* (FOR UPDATE) and the exec_approvals primary key it inserted.            *)
(***************************************************************************)
EXTENDS Gates, Sequences, FiniteSets

CONSTANTS
    Consumers, Handlers,
    IntentIds,          \* uuids; one is drawn fresh for every proposal
    Signals,            \* AdvisedSignalView ids
    Directional,        \* the signals with a directional kind and a gate
    Stake,              \* recommended_size_usd of each signal
    Malformed,          \* a payload AdvisedSignalView cannot parse
    Settings,           \* EDGE_EXEC_* configuration, see SettingsType
    NoOne,              \* no transaction holds the nonce row
    MaxTime,            \* bound: last value of the clock
    MaxOffers           \* bound: messages published plus runs of the run CLI

Workers == Consumers \cup Handlers

SettingsType ==
    [enabled : BOOLEAN, dryRun : BOOLEAN, requireApproval : BOOLEAN,
     hotCap : Nat, perTradeCap : Nat, threshold : Nat,
     rateCount : Nat, rateNotional : Nat, maxSlippage : Nat,
     chain : Nat, secret : STRING, tokenTTL : Nat, intentTTL : Nat]

ASSUME ExecutorAssumption ==
    /\ Consumers \cap Handlers = {}
    /\ NoOne \notin Workers
    /\ Directional \subseteq Signals
    /\ Malformed \notin Signals
    /\ Stake \in [Signals -> Nat]
    /\ Settings \in SettingsType
    /\ MaxTime \in Nat
    /\ MaxOffers \in Nat

VARIABLES
    clock,       \* wall clock of the host
    offers,      \* how much of MaxOffers is used up
    up,          \* up[c]: the consumer process runs and is subscribed
    inbox,       \* inbox[c]: messages delivered to its subscription
    seen,        \* seen[c]: signal ids its current run has proposed
    made,        \* history: intents its current run has committed
    pc,          \* pc[w]: the statement w's transaction is at
    tx,          \* tx[w]: the transaction's own, uncommitted state
    nonceLock,   \* the transaction that holds the exec_nonces row
    nextNonce,   \* exec_nonces.next_nonce, committed
    intents,     \* exec_intents: intent id -> row, committed
    approvals,   \* exec_approvals: its primary keys, committed
    trail        \* exec_audit: events of each intent, oldest first, committed

store == <<nextNonce, intents, approvals, trail>>
queue == <<offers, up, inbox, seen, made>>
vars  == <<clock, queue, pc, tx, nonceLock, store>>

-----------------------------------------------------------------------------
(* Rows and transactions. *)

Events == {"formed", "breaker_rejected", "pending_approval", "approved",
           "signer_rejected", "signed", "submitted"}

Row == [signal : Signals, notional : Nat, nonce : Nat, expiry : Nat]

PCs == {"idle", "nonce", "form", "approval", "sign", "submit", "commit"}

NoTx == [kind |-> "none"]
Tx   == [kind : {"propose", "approve"}, id : IntentIds, signal : Signals,
         now : Nat, nonce : Nat, events : Seq(Events)]

Committed(i) == i \in DOMAIN intents

(* intent_from_signal: the row a proposal of signal s forms. *)
FormedRow(s, nonce, now) ==
    [signal |-> s, notional |-> Stake[s], nonce |-> nonce,
     expiry |-> now + Settings.intentTTL]

(* The intent a transaction works on: formed by it, or loaded. *)
RowOf(w) == IF tx[w].kind = "propose"
            THEN FormedRow(tx[w].signal, tx[w].nonce, tx[w].now)
            ELSE intents[tx[w].id]

(* The row with the fields that every intent of this slice shares:         *)
(* chain 137 and the allowlisted CLOB Exchange as target.                  *)
IntentChain == 137
Exchange    == "clob_exchange"
OrderIntent(row) ==
    [action |-> "clob_order", chain |-> IntentChain, to |-> Exchange,
     notional |-> row.notional, slippage |-> Settings.maxSlippage,
     spender |-> "", allowance |-> 0, nonce |-> row.nonce, expiry |-> row.expiry]

(* orchestrator/deps.py and config.py: limits, breaker inputs and policy.  *)
(* The window counters always start empty and the hot float is at its cap. *)
Limits(enabled) ==
    [enabled |-> enabled, perTradeCap |-> Settings.perTradeCap,
     maxSlippage |-> Settings.maxSlippage, rateCount |-> Settings.rateCount,
     rateNotional |-> Settings.rateNotional, hotCap |-> Settings.hotCap]

BreakerState ==
    [hotBalance |-> Settings.hotCap, windowCount |-> 0, windowNotional |-> 0,
     contracts |-> {Exchange}, spenders |-> {}]

Policy ==
    [chain |-> Settings.chain,
     actions |-> {"clob_order", "ctf_split", "ctf_merge", "ctf_redeem", "erc20_approve"},
     contracts |-> {Exchange}, spenders |-> {},
     maxNotional |-> Settings.perTradeCap, maxSlippage |-> Settings.maxSlippage,
     threshold |-> Settings.threshold]

(* Dry-run is exempt from the master switch. *)
PassesBreakers(row) ==
    BreakersClear(OrderIntent(row), BreakerState,
                  Limits(Settings.enabled \/ Settings.dryRun))

(* The token an approval mints; a proposal carries none. *)
TokenOf(w) == IF tx[w].kind = "approve"
              THEN MintToken(OrderIntent(RowOf(w)), tx[w].now + Settings.tokenTTL,
                             Settings.secret)
              ELSE NoToken

(* The semi-auto gate of execute_signal. *)
StopsForApproval(w) ==
    /\ Settings.requireApproval
    /\ ~(/\ Settings.secret # ""
         /\ VerifyToken(TokenOf(w), OrderIntent(RowOf(w)), Settings.secret, tx[w].now))

SignerSigns(w) == Signs(Seal(OrderIntent(RowOf(w))), Policy, TokenOf(w),
                        Settings.secret, tx[w].now)

-----------------------------------------------------------------------------
(* Reads of the audit log. *)

Happened(i, e) == \E k \in DOMAIN trail[i] : trail[i][k] = e

(* Defect: any pending_approval row counts, not only the newest. *)
EverPending(i) == Committed(i) /\ Happened(i, "pending_approval")

(* load_pending_intents: the intents whose newest event is pending_approval. *)
Pending(i) == /\ Committed(i)
              /\ trail[i] # <<>>
              /\ trail[i][Len(trail[i])] = "pending_approval"

-----------------------------------------------------------------------------
Init ==
    /\ clock = 0
    /\ offers = 0
    /\ up = [c \in Consumers |-> TRUE]
    /\ inbox = [c \in Consumers |-> <<>>]
    /\ seen = [c \in Consumers |-> {}]
    /\ made = [c \in Consumers |-> {}]
    /\ pc = [w \in Workers |-> "idle"]
    /\ tx = [w \in Workers |-> NoTx]
    /\ nonceLock = NoOne
    /\ nextNonce = 0
    /\ intents = [i \in {} |-> 0]
    /\ approvals = {}
    /\ trail = [i \in IntentIds |-> <<>>]

Tick == /\ clock < MaxTime
        /\ clock' = clock + 1
        /\ UNCHANGED <<queue, pc, tx, nonceLock, store>>

-----------------------------------------------------------------------------
(* The advisor's edge:signals channel and the consumer process.            *)

(* Redis pub/sub hands a message to whoever is subscribed at that moment   *)
(* and keeps no copy; the advisor may publish the same signal again.       *)
Publish(m) ==
    /\ offers < MaxOffers
    /\ offers' = offers + 1
    /\ inbox' = [c \in Consumers |-> IF up[c] THEN Append(inbox[c], m) ELSE inbox[c]]
    /\ UNCHANGED <<clock, up, seen, made, pc, tx, nonceLock, store>>

(* A process that starts subscribes afresh, with an empty dedup set. *)
Restart(c) ==
    /\ ~up[c]
    /\ up' = [up EXCEPT ![c] = TRUE]
    /\ UNCHANGED <<clock, offers, inbox, seen, made, pc, tx, nonceLock, store>>

Actionable(s) == s \in Directional /\ Stake[s] > 0

(* Defect: a payload that does not parse is not answered "invalid". *)
SkippedUnparsed(c, m) == m # Malformed /\ (~Actionable(m) \/ m \in seen[c])

Skipped(c, m) == IF m = Malformed THEN TRUE ELSE ~Actionable(m) \/ m \in seen[c]

FreshId(i) == /\ ~Committed(i)
              /\ \A w \in Workers : pc[w] # "idle" => tx[w].id # i

(* A proposal starts: the clock is read and a uuid drawn before the first  *)
(* statement, the insert-or-lock of the nonce row.                         *)
BeginPropose(w, s, i) ==
    /\ FreshId(i)
    /\ pc' = [pc EXCEPT ![w] = "nonce"]
    /\ tx' = [tx EXCEPT ![w] = [kind |-> "propose", id |-> i, signal |-> s,
                                now |-> clock, nonce |-> 0, events |-> <<>>]]

(* process_message, up to the call of propose_signal. *)
Consume(c) ==
    /\ up[c]
    /\ pc[c] = "idle"
    /\ inbox[c] # <<>>
    /\ inbox' = [inbox EXCEPT ![c] = Tail(@)]
    /\ \/ Skipped(c, Head(inbox[c])) /\ UNCHANGED <<pc, tx>>
       \/ ~Skipped(c, Head(inbox[c]))
          /\ \E i \in IntentIds : BeginPropose(c, Head(inbox[c]), i)
    /\ UNCHANGED <<clock, offers, up, seen, made, nonceLock, store>>

(* orchestrator/run.py: no actionable check, no dedup. *)
RunCli(h, s) ==
    /\ pc[h] = "idle"
    /\ offers < MaxOffers
    /\ offers' = offers + 1
    /\ \E i \in IntentIds : BeginPropose(h, s, i)
    /\ UNCHANGED <<clock, up, inbox, seen, made, nonceLock, store>>

-----------------------------------------------------------------------------
(* Ends of a transaction.                                                  *)

HoldsNonce(w) == nonceLock = w

(* Defect: a failed transaction keeps the row locked. *)
ReleaseOnCommit(w) ==
    nonceLock' = IF HoldsNonce(w) /\ pc[w] = "commit" THEN NoOne ELSE nonceLock

ReleaseNonce(w) == nonceLock' = IF HoldsNonce(w) THEN NoOne ELSE nonceLock

(* Defect: the dead consumer's subscription still takes messages. *)
RollbackKeepsInbox(w) ==
    /\ pc' = [pc EXCEPT ![w] = "idle"]
    /\ tx' = [tx EXCEPT ![w] = NoTx]
    /\ ReleaseNonce(w)
    /\ up'    = [c \in Consumers |-> up[c] /\ c # w]
    /\ seen'  = [c \in Consumers |-> IF c = w THEN {} ELSE seen[c]]
    /\ made'  = [c \in Consumers |-> IF c = w THEN {} ELSE made[c]]
    /\ UNCHANGED <<clock, offers, inbox, store>>

(* An exception, a lost connection or a killed process: the server rolls   *)
(* the transaction back.  Nothing in run_consumer catches, so a consumer   *)
(* goes down with it and forgets its subscription and its dedup set; a     *)
(* handler's caller gets an error.                                         *)
Rollback(w) ==
    /\ pc' = [pc EXCEPT ![w] = "idle"]
    /\ tx' = [tx EXCEPT ![w] = NoTx]
    /\ ReleaseNonce(w)
    /\ up'    = [c \in Consumers |-> up[c] /\ c # w]
    /\ inbox' = [c \in Consumers |-> IF c = w THEN <<>> ELSE inbox[c]]
    /\ seen'  = [c \in Consumers |-> IF c = w THEN {} ELSE seen[c]]
    /\ made'  = [c \in Consumers |-> IF c = w THEN {} ELSE made[c]]
    /\ UNCHANGED <<clock, offers, store>>

Crash(w) ==
    /\ pc[w] # "idle" \/ (w \in Consumers /\ up[w])
    /\ Rollback(w)

(* What a proposal leaves in the store when it commits. *)
CommitProposal(w) ==
    /\ nextNonce' = tx[w].nonce + 1
    /\ intents' = [j \in DOMAIN intents \cup {tx[w].id} |->
                     IF j = tx[w].id THEN RowOf(w) ELSE intents[j]]
    /\ UNCHANGED approvals

(* Defect: the approval forms the intent again, with a new nonce. *)
CommitApprovalReforms(w) ==
    /\ approvals' = approvals \cup {tx[w].id}
    /\ nextNonce' = nextNonce + 1
    /\ intents' = [intents EXCEPT ![tx[w].id].nonce = nextNonce]

CommitApproval(w) ==
    /\ approvals' = approvals \cup {tx[w].id}
    /\ UNCHANGED <<nextNonce, intents>>

(* The caller's commit.  A consumer adds the signal to seen just before.   *)
Commit(w) ==
    /\ pc[w] = "commit"
    /\ \/ tx[w].kind = "propose" /\ CommitProposal(w)
       \/ tx[w].kind = "approve" /\ CommitApproval(w)
    /\ trail' = [trail EXCEPT ![tx[w].id] = @ \o tx[w].events]
    /\ ReleaseNonce(w)
    /\ seen' = [c \in Consumers |-> IF c = w THEN seen[c] \cup {tx[w].signal} ELSE seen[c]]
    /\ made' = [c \in Consumers |-> IF c = w THEN made[c] \cup {tx[w].id} ELSE made[c]]
    /\ pc' = [pc EXCEPT ![w] = "idle"]
    /\ tx' = [tx EXCEPT ![w] = NoTx]
    /\ UNCHANGED <<clock, offers, up, inbox>>

-----------------------------------------------------------------------------
(* The statements of execute_signal and approve_and_sign.                  *)

Advance(w, events, next) ==
    /\ tx' = [tx EXCEPT ![w].events = @ \o events]
    /\ pc' = [pc EXCEPT ![w] = next]
    /\ UNCHANGED <<clock, queue, nonceLock, store>>

(* Defect: the counter is read without FOR UPDATE. *)
AllocateUnlocked(w) ==
    /\ pc[w] = "nonce"
    /\ tx' = [tx EXCEPT ![w].nonce = nextNonce]
    /\ pc' = [pc EXCEPT ![w] = "form"]
    /\ UNCHANGED <<clock, queue, nonceLock, store>>

(* allocate_nonce: waits for the row; reads it and increments it. *)
AllocateNonce(w) ==
    /\ pc[w] = "nonce"
    /\ nonceLock = NoOne
    /\ nonceLock' = w
    /\ tx' = [tx EXCEPT ![w].nonce = nextNonce]
    /\ pc' = [pc EXCEPT ![w] = "form"]
    /\ UNCHANGED <<clock, queue, store>>

(* insert_intent, the "formed" row, the breakers and the approval gate.    *)
(* intent_from_signal raises for a signal that is not directional.         *)
FormIntent(w) ==
    /\ pc[w] = "form"
    /\ \/ tx[w].signal \notin Directional /\ Rollback(w)
       \/ /\ tx[w].signal \in Directional
          /\ \/ ~PassesBreakers(RowOf(w))
                /\ Advance(w, <<"formed", "breaker_rejected">>, "commit")
             \/ PassesBreakers(RowOf(w)) /\ StopsForApproval(w)
                /\ Advance(w, <<"formed", "pending_approval">>, "commit")
             \/ PassesBreakers(RowOf(w)) /\ ~StopsForApproval(w)
                /\ Advance(w, <<"formed">>, "sign")

(* approve_and_sign reads the clock and loads the row; the id is any.      *)
(* An unknown id is answered not_found and changes nothing.  Both callers  *)
(* refuse when no approval secret is configured.                           *)
BeginApprove(h, i) ==
    /\ Settings.secret # ""
    /\ pc[h] = "idle"
    /\ Committed(i)
    /\ pc' = [pc EXCEPT ![h] = "approval"]
    /\ tx' = [tx EXCEPT ![h] = [kind |-> "approve", id |-> i,
                                signal |-> intents[i].signal, now |-> clock,
                                nonce |-> intents[i].nonce, events |-> <<>>]]
    /\ UNCHANGED <<clock, queue, nonceLock, store>>

(* Defect: no unique key, so nobody waits. *)
HoldsNoKey(w, i) == FALSE

(* The key of i is in an uncommitted insert of w. *)
HoldsApproval(w, i) ==
    /\ pc[w] \in {"sign", "submit", "commit"}
    /\ tx[w].kind = "approve"
    /\ tx[w].id = i

(* insert_approval: a second insert of a key waits for the first; it fails *)
(* with IntegrityError if that one commits.                                *)
InsertApproval(h) ==
    /\ pc[h] = "approval"
    /\ \A w \in Workers : ~HoldsApproval(w, tx[h].id)
    /\ \/ tx[h].id \in approvals /\ Rollback(h)
       \/ tx[h].id \notin approvals /\ Advance(h, <<"approved">>, "sign")

(* sign_intent with the clock the transaction read at its start. *)
Sign(w) ==
    /\ pc[w] = "sign"
    /\ \/ SignerSigns(w) /\ Advance(w, <<"signed">>, "submit")
       \/ ~SignerSigns(w) /\ Advance(w, <<"signer_rejected">>, "commit")

(* Defect: the failure of a live submission is caught, and what the        *)
(* transaction has written so far is committed.                            *)
SubmitKeeping(w) ==
    /\ pc[w] = "submit"
    /\ \/ Settings.dryRun /\ Advance(w, <<"submitted">>, "commit")
       \/ ~Settings.dryRun /\ Advance(w, <<>>, "commit")

(* relay.submit records a dry run and raises on a live one. *)
Submit(w) ==
    /\ pc[w] = "submit"
    /\ \/ Settings.dryRun /\ Advance(w, <<"submitted">>, "commit")
       \/ ~Settings.dryRun /\ Rollback(w)

-----------------------------------------------------------------------------
Step(w) == \/ AllocateNonce(w)
           \/ FormIntent(w)
           \/ Sign(w)
           \/ Submit(w)
           \/ Commit(w)
           \/ Crash(w)

Next == \/ Tick
        \/ \E m \in Signals \cup {Malformed} : Publish(m)
        \/ \E c \in Consumers : Restart(c) \/ Consume(c)
        \/ \E h \in Handlers :
              \/ \E s \in Signals : RunCli(h, s)
              \/ \E i \in IntentIds : BeginApprove(h, i)
              \/ InsertApproval(h)
        \/ \E w \in Workers : Step(w)

Spec == Init /\ [][Next]_vars

(* The event loop and the server run every statement that can run.  Waits  *)
(* on a row or key are granted in turn (PostgreSQL's lock queue), hence    *)
(* strong fairness there.  Nothing makes a signal, an approval, a crash or *)
(* a restart happen.                                                       *)
Fairness ==
    /\ \A c \in Consumers : WF_vars(Consume(c))
    /\ \A w \in Workers :
          /\ SF_vars(AllocateNonce(w))
          /\ WF_vars(FormIntent(w))
          /\ WF_vars(Sign(w))
          /\ WF_vars(Submit(w))
          /\ WF_vars(Commit(w))
    /\ \A h \in Handlers : SF_vars(InsertApproval(h))

FairSpec == Spec /\ Fairness

-----------------------------------------------------------------------------
(* Types of every variable. *)
TypeOK ==
    /\ clock \in Nat
    /\ offers \in Nat
    /\ up \in [Consumers -> BOOLEAN]
    /\ inbox \in [Consumers -> Seq(Signals \cup {Malformed})]
    /\ seen \in [Consumers -> SUBSET Signals]
    /\ made \in [Consumers -> SUBSET IntentIds]
    /\ pc \in [Workers -> PCs]
    /\ tx \in [Workers -> Tx \cup {NoTx}]
    /\ \A w \in Workers : pc[w] # "idle" => tx[w] \in Tx
    /\ nonceLock \in Workers \cup {NoOne}
    /\ nextNonce \in Nat
    /\ DOMAIN intents \subseteq IntentIds
    /\ intents \in [DOMAIN intents -> Row]
    /\ approvals \subseteq IntentIds
    /\ trail \in [IntentIds -> Seq(Events)]

(* Nonces are neither reused nor burnt: the stored intents carry exactly   *)
(* the numbers below the committed counter, each once, whatever failed in  *)
(* between (store.allocate_nonce in the caller's transaction).             *)
NoncesDense ==
    /\ \A i, j \in DOMAIN intents : intents[i].nonce = intents[j].nonce => i = j
    /\ {intents[i].nonce : i \in DOMAIN intents} = 0 .. nextNonce - 1

(* In manual mode no intent is submitted twice, however many approvals of  *)
(* it race, are retried or fail half-way (exec_approvals' primary key).    *)
AtMostOneSubmission ==
    Settings.requireApproval =>
      \A i \in IntentIds : \A j, k \in DOMAIN trail[i] :
          trail[i][j] = "submitted" /\ trail[i][k] = "submitted" => j = k

NeedsHuman(row) == Settings.requireApproval \/ row.notional > Settings.threshold

(* A trail has no approval without the signer's answer to it, and no       *)
(* signature without its submission.                                       *)
NothingHalfDone(events) ==
    \A k \in DOMAIN events :
        /\ events[k] = "approved" =>
              k < Len(events) /\ events[k + 1] \in {"signed", "signer_rejected"}
        /\ events[k] = "signed" =>
              k < Len(events) /\ events[k + 1] = "submitted"

(* In manual mode, and above the threshold in any mode, a signature exists *)
(* only in a transaction that recorded a human approval before it, and a   *)
(* stored submission has approval and signature right before it in its     *)
(* audit trail (pipeline, workflow and the signer's own threshold check).  *)
(* In any mode what one transaction wrote stays or goes together: a failed *)
(* submission leaves neither an approval nor a signature behind, and an    *)
(* approval row exists exactly if the trail tells of it (relay.submit      *)
(* raising under session_scope).                                           *)
OnlyApprovedIsSigned ==
    /\ \A w \in Workers :
          pc[w] = "submit" /\ NeedsHuman(RowOf(w)) => tx[w].events = <<"approved", "signed">>
    /\ \A i \in DOMAIN intents : \A k \in DOMAIN trail[i] :
          trail[i][k] = "submitted" /\ NeedsHuman(intents[i]) =>
            /\ i \in approvals
            /\ k > 2
            /\ trail[i][k - 1] = "signed"
            /\ trail[i][k - 2] = "approved"
    /\ \A i \in IntentIds :
          /\ NothingHalfDone(trail[i])
          /\ i \in approvals <=> \E k \in DOMAIN trail[i] : trail[i][k] = "approved"

(* In manual mode the pending list shows a stored intent exactly if it     *)
(* passed the breakers and nobody has approved it (load_pending_intents).  *)
PendingExact ==
    Settings.requireApproval =>
      \A i \in IntentIds :
          Pending(i) <=> /\ Committed(i)
                         /\ i \notin approvals
                         /\ PassesBreakers(intents[i])

(* Within one run a consumer forms at most one intent of a signal, however *)
(* often the advisor publishes it (consumer.process_message's seen).       *)
OneIntentPerSignalPerRun ==
    \A c \in Consumers : \A i, j \in made[c] :
        intents[i].signal = intents[j].signal => i = j

(* No bet is made twice: neither by forming it again of a message that     *)
(* comes again, nor by submitting it again.                                *)
NothingTwice == OneIntentPerSignalPerRun /\ AtMostOneSubmission

(* The store only grows: an intent is never formed again or changed, the   *)
(* counter never goes back, the audit log is insert-only.                  *)
StoreOnlyGrows ==
    [][/\ nextNonce' >= nextNonce
       /\ \A i \in DOMAIN intents : i \in DOMAIN intents' /\ intents'[i] = intents[i]
       /\ approvals \subseteq approvals'
       /\ \A i \in IntentIds :
             /\ Len(trail[i]) <= Len(trail'[i])
             /\ SubSeq(trail'[i], 1, Len(trail[i])) = trail[i]]_vars

(* Every transaction ends: no wait on the nonce row or on an approval key  *)
(* lasts forever, and no failure leaves a lock behind.                     *)
EveryTransactionEnds ==
    \A w \in Workers : pc[w] # "idle" ~> pc[w] = "idle"

(* A consumer gets through what was delivered to it, or goes down.         *)
EveryMessageHandled ==
    \A c \in Consumers : inbox[c] # <<>> ~> inbox[c] = <<>>

-----------------------------------------------------------------------------
(* The inductive invariant behind these.                                   *)

(* A transaction is of the kind its statement belongs to. *)
KindInv ==
    \A w \in Workers :
        /\ pc[w] \in {"nonce", "form"} => tx[w].kind = "propose"
        /\ pc[w] = "approval" => tx[w].kind = "approve"

(* The nonce row is locked by the one proposal past its allocation, which  *)
(* holds the committed counter's value.                                    *)
LockInv ==
    \A w \in Workers :
        /\ nonceLock = w <=> /\ pc[w] \in {"form", "sign", "submit", "commit"}
                             /\ tx[w].kind = "propose"
        /\ nonceLock = w => tx[w].nonce = nextNonce

(* Proposals under way own distinct fresh ids; approvals have a stored id. *)
IdInv ==
    /\ \A w \in Workers : pc[w] # "idle" =>
          (tx[w].kind = "approve" <=> Committed(tx[w].id))
    /\ \A v, w \in Workers :
          /\ v # w /\ pc[v] # "idle" /\ pc[w] # "idle"
          /\ tx[v].kind = "propose" /\ tx[w].kind = "propose"
          => tx[v].id # tx[w].id

NonceInv == TypeOK /\ KindInv /\ LockInv /\ IdInv /\ NoncesDense

(* A consumer has seen the signals of what it committed, and is at work on *)
(* one that it has not.                                                    *)
DedupInv ==
    \A c \in Consumers :
        /\ \A i \in made[c] : Committed(i) /\ intents[i].signal \in seen[c]
        /\ pc[c] # "idle" => tx[c].kind = "propose" /\ tx[c].signal \notin seen[c]

(* An approval past its insert owns the key of an intent not yet approved. *)
KeyInv ==
    \A w \in Workers : \A i \in IntentIds : HoldsApproval(w, i) =>
        /\ i \notin approvals
        /\ \A v \in Workers : HoldsApproval(v, i) => v = w

Verdict(row) == IF PassesBreakers(row) THEN "pending_approval" ELSE "breaker_rejected"

WithinTradeCap(i) == intents[i].notional <= Settings.perTradeCap

(* What a transaction has written to the audit log so far, in manual mode. *)
Wrote(w) ==
    /\ pc[w] \in {"nonce", "form", "approval"} => tx[w].events = <<>>
    /\ pc[w] # "idle" /\ tx[w].kind = "propose" =>
          /\ pc[w] \notin {"sign", "submit"}
          /\ pc[w] = "commit" => tx[w].events = <<"formed", Verdict(RowOf(w))>>
    /\ pc[w] # "idle" /\ tx[w].kind = "approve" =>
          /\ pc[w] = "sign" => tx[w].events = <<"approved">>
          /\ pc[w] = "submit" => /\ tx[w].events = <<"approved", "signed">>
                                 /\ WithinTradeCap(tx[w].id)
          /\ pc[w] = "commit" =>
                \/ /\ tx[w].events = <<"approved", "signed", "submitted">>
                   /\ WithinTradeCap(tx[w].id) /\ Settings.dryRun
                \/ tx[w].events = <<"approved", "signer_rejected">>

EventsInv == \A w \in Workers : Wrote(w)

(* Every audit trail a committed intent can have in manual mode. *)
TrailInv ==
    \A i \in IntentIds :
        /\ ~Committed(i) => i \notin approvals /\ trail[i] = <<>>
        /\ Committed(i) /\ i \notin approvals =>
              trail[i] = <<"formed", Verdict(intents[i])>>
        /\ Committed(i) /\ i \in approvals =>
              \/ /\ trail[i] = <<"formed", Verdict(intents[i]), "approved", "signed", "submitted">>
                 /\ WithinTradeCap(i) /\ Settings.dryRun
              \/ trail[i] = <<"formed", Verdict(intents[i]), "approved", "signer_rejected">>

ManualInv == NonceInv /\ (Settings.requireApproval => KeyInv /\ EventsInv /\ TrailInv)

-----------------------------------------------------------------------------
(* Refinement: the committed store, read as IntentLifecycle's state.       *)

StatusOf(i) ==
    IF ~Committed(i) THEN "none"
    ELSE IF Happened(i, "submitted") THEN "submitted"
    ELSE IF Happened(i, "breaker_rejected") THEN "rejected"
    ELSE IF Happened(i, "signer_rejected") THEN "denied"
    ELSE "pending"

Lifecycle == INSTANCE IntentLifecycle WITH
    issued  <- nextNonce,
    status  <- [i \in IntentIds |-> StatusOf(i)],
    nonceOf <- [i \in IntentIds |-> IF Committed(i) THEN intents[i].nonce ELSE 0]

(* In manual mode, with a hot-wallet cap and a rate limit that stop no     *)
(* more than the per-trade cap does, the concurrent executor implements    *)
(* the intent life cycle.                                                  *)
ImplementsLifecycle == Lifecycle!Spec

-----------------------------------------------------------------------------
(* Statements of the documentation that the code does not keep.            *)

(* pipeline.py: breaker_rejected, signer_rejected and submitted are        *)
(* terminal states of an intent.                                           *)
TerminalIsFinal ==
    [][\A i \in IntentIds :
          (\E e \in {"breaker_rejected", "signer_rejected", "submitted"} : Happened(i, e))
             => trail'[i] = trail[i]]_vars

(* models/intent.py: the expiry is a hard deadline, nothing is signed once *)
(* it is past.                                                             *)
SignedBeforeDeadline ==
    [][\A w \in Workers :
          pc[w] = "sign" /\ pc'[w] = "submit" => clock < RowOf(w).expiry]_vars
=============================================================================
