-------------------------- MODULE StakingProtocol ---------------------------
(***************************************************************************)
(* The token and the staking contract on one chain.  A message to the      *)
(* token is one step.  A message to the staking contract that returns      *)
(* messages for the token is a transaction of several steps: the handler,  *)
(* then each message with the staking contract as its sender.  The         *)
(* variables of the two contracts are the transaction's working copy;      *)
(* committed is what the chain has stored, and returns to when a message   *)
(* of the transaction fails.  Nothing else runs before the transaction     *)
(* ends.                                                                   *)
(***************************************************************************)
EXTENDS Cw20Token, Staking

VARIABLE committed

vars == <<tokenVars, stakingVars, committed>>

\* What a transaction of the staking contract may write.
Store ==
    [balances |-> balances, allowances |-> allowances, totalSupply |-> totalSupply,
     staked |-> staked, stakeTime |-> stakeTime, totalStaked |-> totalStaked]

Stores ==
    [balances : Book, allowances : [Addr -> Book], totalSupply : Uint,
     staked : [Users -> Uint], stakeTime : [Users -> Time \cup {NoEntry}],
     totalStaked : Uint]

\* No message of a transaction is outstanding.
Idle == outbox = <<>>

TypeOK ==
    /\ TokenTypeOK
    /\ StakingTypeOK
    /\ committed \in Stores

Init ==
    /\ TokenInit
    /\ StakingInit
    /\ committed = Store

-----------------------------------------------------------------------------
\* A user's message to the token.
TokenTx ==
    /\ Idle
    /\ \E u \in Users : TokenExecute(u)
    /\ UNCHANGED stakingVars
    /\ committed' = Store'

\* A message to the staking contract that writes its own storage only.
GovernanceTx ==
    /\ Idle
    /\ \E u \in Users : GovernanceExecute(u)
    /\ UNCHANGED <<tokenVars, committed>>

Block ==
    /\ Idle
    /\ NextBlock
    /\ UNCHANGED <<tokenVars, committed>>

\* The handler's part of a transaction whose messages are still to run.
StakingTx ==
    /\ Idle
    /\ \E u \in Users : StakingExecute(u)
    /\ UNCHANGED <<tokenVars, committed>>

\* The token's answer to a message of the staking contract.
Accepts(m) ==
    \/ m.kind = "transfer_from" /\ TransferFromOk(StakingAddr, m.user, StakingAddr, m.amount)
    \/ m.kind = "mint" /\ MintOk(StakingAddr, m.user, m.amount)
    \/ m.kind = "transfer" /\ TransferOk(StakingAddr, m.user, m.amount)

Executes(m) ==
    \/ m.kind = "transfer_from" /\ TransferFrom(StakingAddr, m.user, StakingAddr, m.amount)
    \/ m.kind = "mint" /\ Mint(StakingAddr, m.user, m.amount)
    \/ m.kind = "transfer" /\ Transfer(StakingAddr, m.user, m.amount)

\* The next message succeeds; after the last one the transaction is stored.
Dispatch ==
    /\ ~ Idle
    /\ Executes(Head(outbox))
    /\ outbox' = Tail(outbox)
    /\ UNCHANGED <<now, ownership, config, staked, stakeTime, totalStaked>>
    /\ committed' = IF Tail(outbox) = <<>> THEN Store' ELSE committed

\* A message fails, and with it all the transaction has done so far.
Revert ==
    /\ ~ Idle
    /\ ~ Accepts(Head(outbox))
    /\ balances' = committed.balances
    /\ allowances' = committed.allowances
    /\ totalSupply' = committed.totalSupply
    /\ staked' = committed.staked
    /\ stakeTime' = committed.stakeTime
    /\ totalStaked' = committed.totalStaked
    /\ outbox' = <<>>
    /\ UNCHANGED <<minter, now, ownership, config, committed>>

Next ==
    \/ TokenTx
    \/ GovernanceTx
    \/ Block
    \/ StakingTx
    \/ Dispatch
    \/ Revert

Spec == Init /\ [][Next]_vars

-----------------------------------------------------------------------------
(***************************************************************************)
(* TOTAL_STAKED, which the contract maintains next to STAKES, is the sum   *)
(* of the stakes, also between a handler and its messages and after a      *)
(* transaction was taken back.                                             *)
(***************************************************************************)
TotalStakedIsSumOfStakes == totalStaked = Total(staked)

(***************************************************************************)
(* Every stored state of the chain can pay all stakers their principal at  *)
(* once: the staking contract owns at least TOTAL_STAKED tokens.  The      *)
(* handlers book a deposit before the token has moved, and a withdrawal    *)
(* likewise, so the working copy satisfies this only when no message is    *)
(* outstanding.                                                            *)
(***************************************************************************)
Solvent == committed.balances[StakingAddr] >= committed.totalStaked

(***************************************************************************)
(* The same account during a transaction.  The handlers return one of four *)
(* lists of messages, and what the contract owns covers what it owes once  *)
(* the deposit that is still to come in and the withdrawal that is still   *)
(* to go out are counted; no list asks for more than one of either.        *)
(***************************************************************************)
Backed ==
    \/ /\ outbox = <<>>
       /\ balances[StakingAddr] >= totalStaked
    \/ \E u \in Users, n \in Uint :
           /\ outbox = <<Msg("transfer_from", u, n)>>
           /\ balances[StakingAddr] + n >= totalStaked
    \/ \E u \in Users, r \in Uint :
           /\ outbox = <<Msg("mint", u, r)>>
           /\ balances[StakingAddr] >= totalStaked
    \/ \E u \in Users, n \in Uint :
           /\ outbox = <<Msg("transfer", u, n)>>
           /\ balances[StakingAddr] >= totalStaked + n
    \/ \E u \in Users, r, n \in Uint :
           /\ outbox = <<Msg("mint", u, r), Msg("transfer", u, n)>>
           /\ balances[StakingAddr] >= totalStaked + n

(***************************************************************************)
(* The last message of an Unstake, the Transfer of the principal, is never *)
(* refused: what can fail in a withdrawal is the Mint of its reward.       *)
(***************************************************************************)
PayoutNeverBounces ==
    \A i \in DOMAIN outbox : outbox[i].kind = "transfer" =>
        balances[StakingAddr] >= outbox[i].amount

(***************************************************************************)
(* The subtraction from TOTAL_STAKED in Unstake never fails for a stake    *)
(* that was found large enough, so a staker is never locked in by it.      *)
(***************************************************************************)
TotalCoversEachStake == \A u \in Users : staked[u] <= totalStaked

(***************************************************************************)
(* Nobody can spend the contract's tokens with TransferFrom: the staking   *)
(* contract never sends an Approve, on any path.                           *)
(***************************************************************************)
PoolIsNeverApproved == \A a \in Addr : allowances[StakingAddr][a] = 0

(***************************************************************************)
(* No stake starts in the future, so the subtraction of seconds in Unstake,*)
(* ClaimRewards and the Reward query never goes below zero.                *)
(***************************************************************************)
EntriesArePast == \A u \in Users : HasStake(u) => stakeTime[u] <= now

\* What a staker owns, in the token and as principal in the staking contract.
Wealth(u) == committed.balances[u] + committed.staked[u]

(***************************************************************************)
(* A transaction of the staking contract moves tokens between a staker's   *)
(* balance and stake and loses none, whatever of it fails and wherever it  *)
(* stops: the handlers write STAKES before any token has moved, and what   *)
(* they book must be what their messages then do.  No other staker is      *)
(* touched, and the only gain is the reward, which is newly minted and     *)
(* not taken from the principal of others.                                 *)
(***************************************************************************)
WealthIsKept ==
    [][~ Idle => \A u \in Users :
          Wealth(u)' = Wealth(u) + IF u = outbox[1].user
                                   THEN committed'.totalSupply - committed.totalSupply ELSE 0
      ]_vars

(***************************************************************************)
(* Handing the minter role to the staking contract is final, since the     *)
(* contract never sends UpdateMinter: from then on, each minted token is   *)
(* the reward of a staker.                                                 *)
(***************************************************************************)
MinterIsAbsorbed ==
    [][minter = StakingAddr =>
          /\ minter' = StakingAddr
          /\ totalSupply' > totalSupply =>
                \E u \in Users : outbox # <<>> /\ Head(outbox) = Msg("mint", u, totalSupply' - totalSupply)
      ]_vars

StoredMatured(u) ==
    /\ committed.stakeTime[u] # NoEntry
    /\ Seconds(now) - Seconds(committed.stakeTime[u]) >= lockup

(***************************************************************************)
(* A stake whose lock-up has expired stays free: only its own staker's     *)
(* message closes it again, or an owner who raises the lock-up period, as  *)
(* ChangeConfig may do for time already served.  Time passing, other       *)
(* stakers and failed transactions never do.                               *)
(***************************************************************************)
MaturityIsKept ==
    [][\A u \in Users : StoredMatured(u) /\ ~ StoredMatured(u)' =>
          \/ outbox # <<>> /\ outbox[1].user = u
          \/ owner \in Users /\ lockup' > lockup
      ]_vars

StoredPanics(u) ==
    /\ committed.stakeTime[u] # NoEntry
    /\ RewardPanics(committed.staked[u], Seconds(now) - Seconds(committed.stakeTime[u]), apr)

(***************************************************************************)
(* A stake whose reward has left u128 can be neither withdrawn nor claimed *)
(* (the unwrap of calculate_reward_apr), and nothing its staker does, no   *)
(* top-up and no waiting, frees it: only an owner who lowers the apr.      *)
(***************************************************************************)
StuckUntilRateFalls ==
    [][\A u \in Users : StoredPanics(u) /\ ~ StoredPanics(u)' =>
          owner \in Users /\ apr' < apr
      ]_vars

(***************************************************************************)
(* Once the owner has renounced, the terms of all stakes are fixed, a      *)
(* pending offer is void and no owner comes back.                          *)
(***************************************************************************)
RenouncedTermsAreFinal ==
    [][owner = None => owner' = None /\ UNCHANGED config]_vars

=============================================================================
