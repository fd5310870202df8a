-------------------------------- MODULE Gates --------------------------------
(***************************************************************************)
(* The executor's two independent admission gates and the approval token,  *)
(* as pure operators: executor/app/breakers/checks.py,                     *)
(* executor/app/signer/policy.py, signer/approval.py, signer/service.py.   *)
(*                                                                         *)
(* Money, slippage and time are naturals.  A reason string stands for      *)
(* nothing but its presence, so each gate is its conjunction of "clear"    *)
(* conditions: evaluate() approves iff no predicate returns a reason.      *)
(* SHA-256 is injective on intents: an intent is its own hash.  An HMAC    *)
(* is the pair it binds together with the secret it was made under, so a   *)
(* token made without the signer's secret never verifies.                  *)
(***************************************************************************)
EXTENDS Naturals

NoToken == [exp |-> 0]

(***************************************************************************)
(* breakers/checks.py: all six predicates clear.  Caps are inclusive; the  *)
(* rate limit looks at count + 1 and at cumulative notional.               *)
(***************************************************************************)
BreakersClear(intent, state, limits) ==
    /\ limits.enabled
    /\ intent.notional <= limits.perTradeCap
    /\ intent.slippage <= limits.maxSlippage
    /\ intent.to \in state.contracts
    /\ intent.action = "erc20_approve" => intent.spender \in state.spenders
    /\ state.windowCount + 1 <= limits.rateCount
    /\ state.windowNotional + intent.notional <= limits.rateNotional
    /\ intent.notional <= limits.hotCap
    /\ intent.notional <= state.hotBalance

-----------------------------------------------------------------------------
(* models/intent.py and signer/approval.py: seal, mint, verify. *)

Seal(intent) == [intent |-> intent, hash |-> intent]

MintToken(hash, exp, secret) ==
    [exp |-> exp, mac |-> [hash |-> hash, exp |-> exp, secret |-> secret]]

VerifyToken(token, hash, secret, now) ==
    /\ token # NoToken
    /\ now <= token.exp
    /\ token.mac = [hash |-> hash, exp |-> token.exp, secret |-> secret]

-----------------------------------------------------------------------------
(* signer/policy.py: default deny, with every deny path a conjunct. *)

AllowanceOK(intent, policy) ==
    /\ intent.spender \in policy.spenders
    /\ intent.allowance > 0         \* 0 also stands for a missing amount
    /\ intent.allowance <= policy.maxNotional

PolicyAllows(envelope, policy, now, approvalValid) ==
    LET intent == envelope.intent IN
    /\ envelope.hash = intent
    /\ intent.chain = policy.chain
    /\ now < intent.expiry
    /\ intent.action \in policy.actions
    /\ intent.to \in policy.contracts
    /\ intent.notional <= policy.maxNotional
    /\ intent.slippage <= policy.maxSlippage
    /\ intent.action = "erc20_approve" => AllowanceOK(intent, policy)
    /\ intent.notional > policy.threshold => approvalValid

(* signer/service.py sign_intent: the signer verifies the token itself,    *)
(* then signs iff its own policy allows.  secret "" disables approval.     *)
Signs(envelope, policy, token, secret, now) ==
    PolicyAllows(envelope, policy, now,
                 secret # "" /\ VerifyToken(token, envelope.hash, secret, now))
==============================================================================
