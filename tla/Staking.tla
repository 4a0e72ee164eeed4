------------------------------ MODULE Staking -------------------------------
(***************************************************************************)
(* The staking contract: staking_protocol/contracts/staking/src/contract.rs*)
(*                                                                         *)
(* One action per execute handler, with the sender of the message first.   *)
(* A handler writes its own storage and returns messages for the token;    *)
(* they are left in outbox, and StakingProtocol says how the chain         *)
(* delivers them.  The map STAKES of StakeInfo records is kept as the two  *)
(* functions staked and stakeTime; an address without an entry has amount  *)
(* 0 and time NoEntry, and an entry may hold amount 0.                     *)
(***************************************************************************)
EXTENDS Ownable, RewardMath, Sequences

CONSTANTS
    StakingAddr,    \* env.contract.address
    Rates,          \* the values of apr the owner chooses from
    Lockups         \* the values of lockup_period, in seconds

ASSUME StakingAssumption ==
    /\ StakingAddr \in Addr
    /\ Rates \subseteq Nat
    /\ Lockups \subseteq Nat

Users == Addr \ {StakingAddr}

NoEntry == MaxTime + 1

VARIABLES
    apr,            \* CONFIG.apr
    lockup,         \* CONFIG.lockup_period
    staked,         \* STAKES[u].amount
    stakeTime,      \* STAKES[u].stake_time
    totalStaked,    \* TOTAL_STAKED
    outbox          \* messages of the response not yet executed

config == <<apr, lockup>>

stakingVars ==
    <<now, ownership, config, staked, stakeTime, totalStaked, outbox>>

\* A WasmMsg::Execute for the token, about one user.
Message == [kind : {"transfer_from", "mint", "transfer"}, user : Users, amount : Uint]

Msg(kind, u, n) == [kind |-> kind, user |-> u, amount |-> n]

StakingTypeOK ==
    /\ OwnableTypeOK
    /\ apr \in Rates
    /\ lockup \in Lockups
    /\ staked \in [Users -> Uint]
    /\ stakeTime \in [Users -> Time \cup {NoEntry}]
    /\ totalStaked \in Uint
    /\ outbox \in Seq(Message)
    /\ \A u \in Users : stakeTime[u] = NoEntry => staked[u] = 0

StakingInit ==
    /\ now = 0
    /\ \E first \in Addr : InitOwner(first)
    /\ apr \in Rates
    /\ lockup \in Lockups
    /\ staked = [u \in Users |-> 0]
    /\ stakeTime = [u \in Users |-> NoEntry]
    /\ totalStaked = 0
    /\ outbox = <<>>

-----------------------------------------------------------------------------
HasStake(u) == stakeTime[u] # NoEntry

\* Both times are cut to whole seconds before they are subtracted.
StakedSeconds(u) == Seconds(now) - Seconds(stakeTime[u])

Matured(u) == HasStake(u) /\ StakedSeconds(u) >= lockup

Accrued(u) == Reward(staked[u], StakedSeconds(u), apr)

AccruedPanics(u) == RewardPanics(staked[u], StakedSeconds(u), apr)

\* Mutant: the two unchecked additions wrap or widen instead of panicking.
StakeAlwaysOk(u, n) == TRUE

StakeOk(u, n) == Fits(staked[u] + n) /\ Fits(totalStaked + n)

\* Mutant: a top-up is not added to TOTAL_STAKED.
DepositedOutsideTotal(u, n) ==
    /\ staked' = Credit(staked, u, n)
    /\ stakeTime' = IF HasStake(u) THEN stakeTime ELSE [stakeTime EXCEPT ![u] = now]
    /\ totalStaked' = IF HasStake(u) THEN totalStaked ELSE totalStaked + n

\* Mutant: the entry holds the time the lock-up ends.
DepositedUntil(u, n) ==
    /\ staked' = Credit(staked, u, n)
    /\ stakeTime' = [stakeTime EXCEPT ![u] = IF HasStake(u) THEN @ ELSE now + lockup * TicksPerSec]
    /\ totalStaked' = totalStaked + n

\* Mutant: every deposit restarts the clock of the stake.
DepositedRestarting(u, n) ==
    /\ staked' = Credit(staked, u, n)
    /\ stakeTime' = [stakeTime EXCEPT ![u] = now]
    /\ totalStaked' = totalStaked + n

\* A top-up adds to the amount and keeps the time of the first deposit.
Deposited(u, n) ==
    /\ staked' = Credit(staked, u, n)
    /\ stakeTime' = IF HasStake(u) THEN stakeTime ELSE [stakeTime EXCEPT ![u] = now]
    /\ totalStaked' = totalStaked + n

Stake(u, n) ==
    /\ StakeOk(u, n)
    /\ Deposited(u, n)
    /\ outbox' = <<Msg("transfer_from", u, n)>>
    /\ UNCHANGED <<now, ownership, config>>

\* Mutant: the lock-up ends a second too late.
UnstakeOkLate(u, n) ==
    /\ Matured(u) /\ StakedSeconds(u) # lockup
    /\ n <= staked[u]
    /\ ~ AccruedPanics(u)
    /\ n <= totalStaked

UnstakeOk(u, n) ==
    /\ Matured(u)
    /\ n <= staked[u]
    /\ ~ AccruedPanics(u)
    /\ n <= totalStaked

\* Mutant: the reward is taken out of the pool together with the stake.
PayoutFromPool(u, n) == <<Msg("transfer", u, n + Accrued(u))>>

\* Mutant: the message for the reward replaces the one for the stake.
PayoutRewardOnly(u, n) ==
    IF Accrued(u) = 0
    THEN <<Msg("transfer", u, n)>>
    ELSE <<Msg("mint", u, Accrued(u))>>

\* Mutant: a reward of zero is minted, too.
PayoutMintingZero(u, n) == <<Msg("mint", u, Accrued(u)), Msg("transfer", u, n)>>

\* The reward on the whole stake, if there is one, and the part asked for.
Payout(u, n) ==
    IF Accrued(u) = 0
    THEN <<Msg("transfer", u, n)>>
    ELSE <<Msg("mint", u, Accrued(u)), Msg("transfer", u, n)>>

\* Mutant: the entry is removed after a partial withdrawal, too.
WithdrawnWhole(u, n) ==
    /\ staked' = [staked EXCEPT ![u] = 0]
    /\ stakeTime' = [stakeTime EXCEPT ![u] = NoEntry]
    /\ totalStaked' = totalStaked - n

\* Mutant: TOTAL_STAKED is forgotten.
WithdrawnKeepingTotal(u, n) ==
    /\ staked' = Debit(staked, u, n)
    /\ stakeTime' = [stakeTime EXCEPT ![u] = IF n = staked[u] THEN NoEntry ELSE now]
    /\ UNCHANGED totalStaked

\* Mutant: what remains keeps the time its reward was already paid for.
WithdrawnKeepingClock(u, n) ==
    /\ staked' = Debit(staked, u, n)
    /\ stakeTime' = [stakeTime EXCEPT ![u] = IF n = staked[u] THEN NoEntry ELSE @]
    /\ totalStaked' = totalStaked - n

\* The entry of an emptied stake is removed; otherwise its clock restarts.
Withdrawn(u, n) ==
    /\ staked' = Debit(staked, u, n)
    /\ stakeTime' = [stakeTime EXCEPT ![u] = IF n = staked[u] THEN NoEntry ELSE now]
    /\ totalStaked' = totalStaked - n

Unstake(u, n) ==
    /\ UnstakeOk(u, n)
    /\ outbox' = Payout(u, n)
    /\ Withdrawn(u, n)
    /\ UNCHANGED <<now, ownership, config>>

\* Mutant: the reward is taken out of the pool.
ClaimFromPool(u) ==
    /\ Matured(u)
    /\ ~ AccruedPanics(u)
    /\ Accrued(u) # 0
    /\ stakeTime' = [stakeTime EXCEPT ![u] = now]
    /\ outbox' = <<Msg("transfer", u, Accrued(u))>>
    /\ UNCHANGED <<now, ownership, config, staked, totalStaked>>

\* Mutant: the clock of the stake is not reset.
ClaimKeepingClock(u) ==
    /\ Matured(u)
    /\ ~ AccruedPanics(u)
    /\ Accrued(u) # 0
    /\ outbox' = <<Msg("mint", u, Accrued(u))>>
    /\ UNCHANGED <<now, ownership, config, staked, stakeTime, totalStaked>>

ClaimRewards(u) ==
    /\ Matured(u)
    /\ ~ AccruedPanics(u)
    /\ Accrued(u) # 0
    /\ stakeTime' = [stakeTime EXCEPT ![u] = now]
    /\ outbox' = <<Msg("mint", u, Accrued(u))>>
    /\ UNCHANGED <<now, ownership, config, staked, totalStaked>>

\* Mutant: assert_owner is forgotten.
ChangeConfigByAnyone(sender, newApr, newLockup) ==
    /\ apr' = newApr
    /\ lockup' = newLockup
    /\ UNCHANGED <<now, ownership, staked, stakeTime, totalStaked, outbox>>

\* The new terms apply to the time already staked as well.
ChangeConfig(sender, newApr, newLockup) ==
    /\ IsOwner(sender)
    /\ apr' = newApr
    /\ lockup' = newLockup
    /\ UNCHANGED <<now, ownership, staked, stakeTime, totalStaked, outbox>>

StakingUpdateOwnership(sender) ==
    /\ UpdateOwnership(sender)
    /\ UNCHANGED <<now, config, staked, stakeTime, totalStaked, outbox>>

-----------------------------------------------------------------------------
\* The messages that call the token, and those that do not.
StakingExecute(u) ==
    \/ \E n \in Amounts : Stake(u, n)
    \/ \E n \in Amounts : Unstake(u, n)
    \/ ClaimRewards(u)

GovernanceExecute(u) ==
    \/ \E r \in Rates, l \in Lockups : ChangeConfig(u, r, l)
    \/ StakingUpdateOwnership(u)

NextBlock ==
    /\ Tick
    /\ UNCHANGED <<ownership, config, staked, stakeTime, totalStaked, outbox>>

=============================================================================
