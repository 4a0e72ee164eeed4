--------------------------- MODULE RewardHistory ----------------------------
(***************************************************************************)
(* StakingProtocol with the books an auditor of the rewards would keep.    *)
(* The contract remembers one amount and one time per staker; what the     *)
(* staker earned second by second, and what it was paid over its whole     *)
(* life, is in no storage item.  All of it follows the stored state: a     *)
(* transaction counts when its last message has run.                       *)
(***************************************************************************)
EXTENDS StakingProtocol

VARIABLES
    accrued,    \* sum over all seconds of the stake times the apr in force
    paid,       \* sum of the rewards minted
    served,     \* seconds with an entry in STAKES
    peak,       \* largest stake ever
    payouts,    \* payouts of a window of at least a second
    uneven,     \* has the stake grown, or the apr changed, in a running window
    lastIn      \* second of the latest deposit of a positive amount

auditVars == <<accrued, paid, served, peak, payouts, uneven, lastIn>>

Zero == [u \in Users |-> 0]

AuditInit ==
    /\ Init
    /\ accrued = Zero /\ paid = Zero /\ served = Zero
    /\ peak = Zero /\ payouts = Zero /\ lastIn = Zero
    /\ uneven = [u \in Users |-> FALSE]

-----------------------------------------------------------------------------
\* Every stake earns for the second that ends.
AuditBlock ==
    /\ Block
    /\ LET second == Seconds(now + 1) - Seconds(now)
       IN  /\ accrued' = [u \in Users |-> accrued[u] + Product(staked[u], second, apr)]
           /\ served' = [u \in Users |-> served[u] + IF HasStake(u) THEN second ELSE 0]
    /\ UNCHANGED <<paid, peak, payouts, uneven, lastIn>>

Commits == ~ Idle /\ Len(outbox) = 1

\* Comparisons of the stored state before and after the committing step.
Grew(u) == staked[u] > committed.staked[u]

WasOpen(u) == committed.stakeTime[u] # NoEntry

PaidOut(u) ==
    /\ WasOpen(u)
    /\ stakeTime[u] # committed.stakeTime[u]
    /\ Seconds(now) > Seconds(committed.stakeTime[u])

AuditDispatch ==
    /\ Dispatch
    /\ IF Commits
       THEN /\ paid' = [paid EXCEPT ![Head(outbox).user] =
                            @ + totalSupply' - committed.totalSupply]
            /\ peak' = [u \in Users |-> IF Grew(u) /\ staked[u] > peak[u] THEN staked[u] ELSE peak[u]]
            /\ payouts' = [u \in Users |-> payouts[u] + IF PaidOut(u) THEN 1 ELSE 0]
            /\ uneven' = [u \in Users |-> uneven[u] \/ (Grew(u) /\ WasOpen(u))]
            /\ lastIn' = [u \in Users |-> IF Grew(u) THEN Seconds(now) ELSE lastIn[u]]
       ELSE UNCHANGED <<paid, peak, payouts, uneven, lastIn>>
    /\ UNCHANGED <<accrued, served>>

AuditGovernance ==
    /\ GovernanceTx
    /\ uneven' = [u \in Users |-> uneven[u] \/ (apr' # apr /\ HasStake(u))]
    /\ UNCHANGED <<accrued, paid, served, peak, payouts, lastIn>>

AuditNext ==
    \/ AuditBlock
    \/ AuditDispatch
    \/ AuditGovernance
    \/ (TokenTx \/ StakingTx \/ Revert) /\ UNCHANGED auditVars

AuditSpec == AuditInit /\ [][AuditNext]_<<vars, auditVars>>

-----------------------------------------------------------------------------
Unit == BasisPoints * Year

OpenWindow(u) ==
    IF HasStake(u) THEN Product(staked[u], StakedSeconds(u), apr) ELSE 0

(***************************************************************************)
(* Rewards settle exactly what was earned.  For a staker whose deposit was *)
(* not topped up and whose apr did not change while it was running, in any *)
(* order of claims, partial withdrawals and new deposits: what was paid    *)
(* and what the running window is worth never exceed what the stake earned *)
(* second by second, and fall short of it by less than one token for each  *)
(* payout (the truncation of calculate_reward_apr).                        *)
(***************************************************************************)
PaidIsEarned ==
    \A u \in Users : Idle /\ ~ uneven[u] =>
        LET settled == paid[u] * Unit + OpenWindow(u)
        IN  /\ settled <= accrued[u]
            /\ accrued[u] <= settled + payouts[u] * (Unit - 1)

(***************************************************************************)
(* No second is paid twice and no gap is paid, whatever the top-ups and    *)
(* changes of terms: over its life a staker gets at most its largest stake *)
(* at the highest apr for the seconds it had a stake.                      *)
(***************************************************************************)
PaidWithinPeak ==
    \A u \in Users : \E top \in Rates :
        paid[u] * Unit <= Product(peak[u], served[u], top)

(***************************************************************************)
(* What the test of Unstake computes (tests/integration.rs:322-329, reward *)
(* = stake * apr * time / 10_000 / year, with the time the stake was held) *)
(* and the apr's comment says ("1% = 100", state.rs:8): with one apr, a    *)
(* staker is paid no more than its stake earned at that yearly rate.       *)
(***************************************************************************)
PaidAtTheRate == \A u \in Users : paid[u] * Unit <= accrued[u]

(***************************************************************************)
(* What the error "Lockup period not expired" says (error.rs:16): tokens   *)
(* that were deposited less than a lock-up period ago are not paid out.    *)
(* lastIn is the latest deposit; emptying the stake takes that one out.    *)
(***************************************************************************)
DepositIsLockedUp ==
    [][\A u \in Users :
          committed.staked[u] > 0 /\ committed'.staked[u] = 0 =>
              Seconds(now) - lastIn[u] >= lockup
      ]_<<vars, auditVars>>

=============================================================================
