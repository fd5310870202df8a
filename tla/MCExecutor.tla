----------------------------- MODULE MCExecutor -----------------------------
(***************************************************************************)
(* Instances of Executor for TLC.                                          *)
(***************************************************************************)
EXTENDS Executor, TLC

CONSTANTS
    small, mid, large, odd,                    \* the signals there are
    Enabled, DryRun, RequireApproval, HotCap   \* the settings the runs vary

\* small is within the approval threshold, mid above it, large above the
\* trade cap of both gates; odd has no directional kind.
MCDirectional == Signals \ {odd}
MCStake == [s \in Signals |-> CASE s = mid -> 2 [] s = large -> 3 [] OTHER -> 1]

MCSettings ==
    [enabled |-> Enabled, dryRun |-> DryRun, requireApproval |-> RequireApproval,
     hotCap |-> HotCap, perTradeCap |-> 2, threshold |-> 1,
     rateCount |-> 1, rateNotional |-> 3, maxSlippage |-> 1,
     chain |-> 137, secret |-> "secret", tokenTTL |-> 1, intentTTL |-> 1]

Symmetry == Permutations(Handlers) \cup Permutations(IntentIds)
=============================================================================
