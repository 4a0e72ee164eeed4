---------------------------- MODULE LiveProtocol ----------------------------
(***************************************************************************)
(* StakingProtocol with the fairness its scheduling justifies: the chain   *)
(* runs a transaction it has begun to its end (one wasm call after the     *)
(* other, in the same block), and a staker who wants out keeps sending     *)
(* Unstake.  Other transactions may come before the staker's own each      *)
(* time, which is why that fairness is strong.  Nothing else is fair: no   *)
(* claim, no new block, no minter's or owner's message has to come.        *)
(***************************************************************************)
EXTENDS StakingProtocol

CONSTANT MintCap    \* bound on the supply the minter may create by hand

ASSUME MintCapAssumption == MintCap \in Nat

\* Rewards are minted while a transaction runs, and are not capped.
WithinCap == Idle => totalSupply' <= totalSupply \/ totalSupply' <= MintCap

LiveNext == Next /\ WithinCap

Withdraw(u) ==
    /\ Idle
    /\ \E n \in Amounts : n > 0 /\ Unstake(u, n)
    /\ UNCHANGED <<tokenVars, committed>>

LiveSpec ==
    /\ Init
    /\ [][LiveNext]_vars
    /\ WF_vars(Dispatch \/ Revert)
    /\ \A u \in Users : SF_vars(Withdraw(u))

-----------------------------------------------------------------------------
(***************************************************************************)
(* A staker whose lock-up has expired, with the staking contract as the    *)
(* minter, eventually gets out or is paid: no order of other accounts'     *)
(* transactions, refused ones included, holds it back for ever.  Without   *)
(* the minter's role this fails: the Mint of the reward is refused and     *)
(* takes the withdrawal of the principal back with it.                     *)
(***************************************************************************)
MaturedStakeIsServed ==
    \A u \in Users :
        (Idle /\ Matured(u) /\ minter = StakingAddr) ~> (Idle /\ ~ Matured(u))

Owed(u) == HasStake(u) /\ Accrued(u) > 0

(***************************************************************************)
(* A staker who is owed no reward yet gets out whoever the minter is, or   *)
(* at least stays in no longer than it takes a reward to accrue: Unstake   *)
(* leaves the Mint message out when there is nothing to mint.              *)
(***************************************************************************)
NoRewardNeedsNoMinter ==
    \A u \in Users :
        (Idle /\ Matured(u) /\ ~ Owed(u)) ~> (Idle /\ (~ Matured(u) \/ Owed(u)))

=============================================================================
