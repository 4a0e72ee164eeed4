----------------------- MODULE StakingProtocolProofs ------------------------
(***************************************************************************)
(* The staking protocol's invariants for any accounts, amounts, rates,     *)
(* lock-ups and width of Uint128.                                          *)
(*                                                                         *)
(* Solvent speaks of the stored state only and is not inductive: a         *)
(* transaction is half done when its handler has run.  The inductive       *)
(* invariant adds what holds in between (Backed), that the stored state to *)
(* fall back to is sound (StoreSound), and that the pool has approved      *)
(* nobody, without which a TransferFrom could empty it.                    *)
(***************************************************************************)
EXTENDS StakingProtocol, Cw20TokenProofs, SequenceTheorems

\* A stored state that satisfies what the working copy does between transactions.
StoreSound(s) ==
    /\ s \in Stores
    /\ s.totalSupply = Total(s.balances)
    /\ s.totalStaked = Total(s.staked)
    /\ s.totalStaked <= s.balances[StakingAddr]
    /\ \A a \in Addr : s.allowances[StakingAddr][a] = 0
    /\ \A u \in Users : s.stakeTime[u] = NoEntry => s.staked[u] = 0
    /\ \A u \in Users : s.stakeTime[u] # NoEntry => s.stakeTime[u] <= now

\* The part of the invariant about the staking contract's own storage.
StakesSound ==
    /\ StakingTypeOK
    /\ TotalStakedIsSumOfStakes
    /\ EntriesArePast

IInv ==
    /\ TokenInv
    /\ StakesSound
    /\ PoolIsNeverApproved
    /\ Backed
    /\ StoreSound(committed)

-----------------------------------------------------------------------------
(* Facts about the constants.                                               *)

LEMMA UintIsNat == Uint \subseteq Nat /\ 0 \in Uint /\ MaxUint \in Nat
BY UintAssumption DEF Uint

LEMMA UsersFinite == IsFiniteSet(Users) /\ Users \subseteq Addr /\ StakingAddr \notin Users
<1>1. Users \in SUBSET Addr /\ StakingAddr \notin Users
  BY DEF Users
<1> QED BY <1>1, AddrAssumption, FS_Subset

LEMMA TimeIsNat ==
    Time \subseteq Nat /\ MaxTime \in Nat /\ NoEntry \in Nat /\ NoEntry \notin Time
BY TimeAssumption DEF Time, NoEntry

\* Whole seconds never run backwards.
LEMMA SecondsMonotonic ==
    ASSUME NEW s \in Nat, NEW t \in Nat, s <= t
    PROVE  /\ Seconds(s) \in Nat
           /\ Seconds(t) \in Nat
           /\ Seconds(s) <= Seconds(t)
BY TimeAssumption DEF Seconds

\* The lists of messages the handlers return.
LEMMA ShortLists ==
    ASSUME NEW S
    PROVE  /\ <<>> \in Seq(S)
           /\ \A m \in S : <<m>> \in Seq(S)
           /\ \A m1, m2 \in S : <<m1, m2>> \in Seq(S)
OBVIOUS

LEMMA MsgType ==
    ASSUME NEW u \in Users, NEW n \in Uint,
           NEW kind \in {"transfer_from", "mint", "transfer"}
    PROVE  Msg(kind, u, n) \in Message
BY DEF Msg, Message

-----------------------------------------------------------------------------
(* Rewards.                                                                 *)

\* A reward that does not panic is an amount.
LEMMA RewardIsUint ==
    ASSUME NEW amount \in Nat, NEW seconds \in Nat, NEW rate \in Nat,
           ~ RewardPanics(amount, seconds, rate)
    PROVE  Reward(amount, seconds, rate) \in Uint
<1> DEFINE p == Product(amount, seconds, rate)
           q == p \div BasisPoints
<1>1. p \in Nat
  BY DEF Product
<1>2. p <= MaxUint
  BY DEF RewardPanics, Fits
<1> HIDE DEF p
<1>3. q \in Nat /\ q <= p
  BY <1>1, RewardAssumption
<1> HIDE DEF q
<1>4. q \div Year \in Nat /\ q \div Year <= q
  BY <1>3, RewardAssumption
<1>5. q \div Year \in Uint
  BY <1>1, <1>2, <1>3, <1>4, UintAssumption DEF Uint
<1> QED BY <1>5 DEF Reward, p, q

\* What Unstake and ClaimRewards ask the token to mint.
LEMMA AccruedIsUint ==
    ASSUME StakesSound, NEW u \in Users, Matured(u), ~ AccruedPanics(u)
    PROVE  Accrued(u) \in Uint
<1>1. staked[u] \in Nat /\ now \in Nat /\ stakeTime[u] \in Nat /\ stakeTime[u] <= now /\ apr \in Nat
  BY UintIsNat, TimeIsNat, StakingAssumption
     DEF StakesSound, StakingTypeOK, OwnableTypeOK, EntriesArePast, Matured, HasStake
<1>2. StakedSeconds(u) \in Nat
  BY <1>1, SecondsMonotonic DEF StakedSeconds
<1> QED BY <1>1, <1>2, RewardIsUint DEF Accrued, AccruedPanics

-----------------------------------------------------------------------------
(* The users' messages to the token.                                        *)

\* No user can take from the pool, or become somebody it has approved.
LEMMA UserMessageKeepsPool ==
    ASSUME TokenInv, PoolIsNeverApproved, NEW u \in Users, TokenExecute(u)
    PROVE  /\ PoolIsNeverApproved'
           /\ balances'[StakingAddr] >= balances[StakingAddr]
<1> DEFINE Keeps == /\ PoolIsNeverApproved'
                    /\ balances'[StakingAddr] >= balances[StakingAddr]
<1>1. /\ u \in Addr /\ u # StakingAddr /\ StakingAddr \in Addr
      /\ balances \in [Addr -> Nat]
      /\ allowances \in [Addr -> Book]
      /\ \A n \in Amounts : n \in Nat
  BY UsersFinite, StakingAssumption, BookIsNat, UintAssumption, UintIsNat
     DEF TokenInv, TokenTypeOK
<1>2. ASSUME NEW r \in Addr, NEW n \in Amounts, Transfer(u, r, n) PROVE Keeps
  BY <1>1, <1>2 DEF Transfer, Moved, Credit, Debit, PoolIsNeverApproved
<1>3. ASSUME NEW n \in Amounts, Burn(u, n) PROVE Keeps
  BY <1>1, <1>3 DEF Burn, Debit, PoolIsNeverApproved
<1>4. ASSUME NEW r \in Addr, NEW n \in Amounts, Mint(u, r, n) PROVE Keeps
  BY <1>1, <1>4 DEF Mint, Credit, PoolIsNeverApproved
<1>5. ASSUME NEW sp \in Spenders, NEW n \in Amounts, Approve(u, sp, n) PROVE Keeps
  BY <1>1, <1>5 DEF Approve, PoolIsNeverApproved
<1>6. ASSUME NEW o \in Addr, NEW r \in Addr, NEW n \in Amounts, TransferFrom(u, o, r, n)
      PROVE  Keeps
  <2>1. n \in Nat /\ n <= allowances[o][u] /\ n <= balances[o]
    BY <1>1, <1>6 DEF TransferFrom, TransferFromOk, MoveOk
  <2>2. o = StakingAddr => n = 0
    BY <1>1, <2>1 DEF PoolIsNeverApproved
  <2>3. balances'[StakingAddr] >= balances[StakingAddr]
    BY <1>1, <1>6, <2>1, <2>2 DEF TransferFrom, Moved, Credit, Debit
  <2>4. PoolIsNeverApproved'
    BY <1>1, <1>6, <2>2 DEF TransferFrom, PoolIsNeverApproved, Book
  <2> QED BY <2>3, <2>4
<1>7. ASSUME NEW m \in Addr \cup {None}, UpdateMinter(u, m) PROVE Keeps
  BY <1>1, <1>7 DEF UpdateMinter, PoolIsNeverApproved
<1> QED BY <1>2, <1>3, <1>4, <1>5, <1>6, <1>7 DEF TokenExecute

-----------------------------------------------------------------------------
\* A working copy with no message outstanding may be stored.
LEMMA StoreIsSound ==
    ASSUME TokenInv, StakesSound, PoolIsNeverApproved,
           totalStaked <= balances[StakingAddr]
    PROVE  StoreSound(Store)
BY DEF TokenInv, TokenTypeOK, SupplyIsSumOfBalances, StakesSound, StakingTypeOK,
       TotalStakedIsSumOfStakes, EntriesArePast, HasStake, PoolIsNeverApproved,
       StoreSound, Store, Stores

\* The chain starts in a sound state.
LEMMA InitIInv == Init => IInv
<1> SUFFICES ASSUME Init PROVE IInv
  OBVIOUS
<1> USE DEF Init
<1>1. TokenInv
  BY TokenInitInv
<1>2. StakesSound
  <2>1. StakingTypeOK
    BY UintIsNat, TimeIsNat, TimeAssumption
       DEF StakingInit, StakingTypeOK, OwnableTypeOK, InitOwner, Time, NoDeadline
  <2>2. TotalStakedIsSumOfStakes
    BY TotalZero DEF StakingInit, TotalStakedIsSumOfStakes
  <2>3. EntriesArePast
    BY DEF StakingInit, EntriesArePast, HasStake
  <2> QED BY <2>1, <2>2, <2>3 DEF StakesSound
<1>3. balances[StakingAddr] = 0 /\ totalStaked = 0 /\ outbox = <<>>
  BY StakingAssumption DEF TokenInit, StakingInit
<1>4. PoolIsNeverApproved
  BY StakingAssumption DEF TokenInit, PoolIsNeverApproved
<1>5. Backed
  BY <1>3 DEF Backed
<1>6. StoreSound(committed)
  BY <1>1, <1>2, <1>3, <1>4, StoreIsSound
<1> QED BY <1>1, <1>2, <1>4, <1>5, <1>6 DEF IInv

\* Between transactions the contract owns at least what it owes.
LEMMA IdleIsBacked ==
    ASSUME IInv, Idle
    PROVE  balances[StakingAddr] >= totalStaked
<1>1. Len(outbox) = 0
  BY DEF Idle
<1>2. /\ \A m : Len(<<m>>) = 1
      /\ \A m1, m2 : Len(<<m1, m2>>) = 2
  OBVIOUS
<1> QED BY <1>1, <1>2 DEF IInv, Backed

-----------------------------------------------------------------------------
(* One lemma per action of the composed system.                             *)

LEMMA TokenTxInv ==
    ASSUME IInv, TokenTx
    PROVE  IInv'
<1>1. PICK u \in Users : TokenExecute(u)
  BY DEF TokenTx
<1>2. u \in Addr /\ TokenInv /\ PoolIsNeverApproved
  BY UsersFinite DEF IInv
<1>3. TokenInv'
  BY <1>1, <1>2, TokenExecuteInv
<1>4. PoolIsNeverApproved' /\ balances'[StakingAddr] >= balances[StakingAddr]
  BY <1>1, <1>2, UserMessageKeepsPool
<1>5. StakesSound'
  BY DEF TokenTx, stakingVars, config, ownership, IInv, StakesSound, StakingTypeOK,
         OwnableTypeOK, TotalStakedIsSumOfStakes, EntriesArePast, HasStake
<1>6. totalStaked' <= balances'[StakingAddr] /\ outbox' = <<>>
  <2>1. totalStaked <= balances[StakingAddr]
    BY IdleIsBacked DEF TokenTx
  <2>2. balances[StakingAddr] \in Nat /\ totalStaked \in Nat
    BY UintIsNat, StakingAssumption
       DEF IInv, StakesSound, StakingTypeOK, TokenInv, TokenTypeOK, Book
  <2>3. balances'[StakingAddr] \in Nat
    BY <1>3, UintIsNat, StakingAssumption DEF TokenInv, TokenTypeOK, Book
  <2> QED BY <1>4, <2>1, <2>2, <2>3 DEF TokenTx, stakingVars, Idle
<1>7. Backed'
  BY <1>6 DEF Backed
<1>8. StoreSound(Store)'
  BY <1>3, <1>4, <1>5, <1>6
     DEF TokenInv, TokenTypeOK, SupplyIsSumOfBalances, StakesSound, StakingTypeOK,
         TotalStakedIsSumOfStakes, EntriesArePast, HasStake, PoolIsNeverApproved,
         StoreSound, Store, Stores
<1>9. StoreSound(committed)'
  BY <1>8 DEF TokenTx
<1> QED BY <1>3, <1>4, <1>5, <1>7, <1>9 DEF IInv

LEMMA GovernanceTxInv ==
    ASSUME IInv, GovernanceTx
    PROVE  IInv'
<1>1. /\ UNCHANGED <<tokenVars, committed, now, staked, stakeTime, totalStaked, outbox>>
      /\ apr' \in Rates /\ lockup' \in Lockups
      /\ owner' \in Addr \cup {None} /\ pendingOwner' \in Addr \cup {None}
      /\ pendingExpiry' \in Time \cup {NoDeadline}
  <2>1. PICK u \in Users : GovernanceExecute(u)
    BY DEF GovernanceTx
  <2>2. CASE \E r \in Rates, l \in Lockups : ChangeConfig(u, r, l)
    BY <2>2 DEF GovernanceTx, ChangeConfig, ownership, IInv, StakesSound,
                StakingTypeOK, OwnableTypeOK
  <2>3. CASE StakingUpdateOwnership(u)
    BY <2>3, UsersFinite, OfferAssumption
       DEF GovernanceTx, StakingUpdateOwnership, UpdateOwnership, TransferOwnership,
           AcceptOwnership, RenounceOwnership, config, IInv, StakesSound,
           StakingTypeOK, OwnableTypeOK
  <2> QED BY <2>1, <2>2, <2>3 DEF GovernanceExecute
<1>2. TokenInv' /\ PoolIsNeverApproved'
  BY <1>1, TokenStutterInv DEF IInv, PoolIsNeverApproved, tokenVars
<1>3. StakesSound'
  BY <1>1 DEF IInv, StakesSound, StakingTypeOK, OwnableTypeOK,
              TotalStakedIsSumOfStakes, EntriesArePast, HasStake
<1>4. Backed' /\ StoreSound(committed)'
  BY <1>1 DEF IInv, Backed, StoreSound, tokenVars
<1> QED BY <1>2, <1>3, <1>4 DEF IInv

LEMMA BlockInv ==
    ASSUME IInv, Block
    PROVE  IInv'
<1>1. /\ UNCHANGED <<tokenVars, committed, ownership, config, staked, stakeTime, totalStaked, outbox>>
      /\ now \in Nat /\ now' = now + 1 /\ now' \in Time
  BY TimeAssumption
     DEF Block, NextBlock, Tick, IInv, StakesSound, StakingTypeOK, OwnableTypeOK, Time
<1>2. TokenInv' /\ PoolIsNeverApproved'
  BY <1>1, TokenStutterInv DEF IInv, PoolIsNeverApproved, tokenVars
<1>3. StakesSound'
  <2>1. EntriesArePast'
    <3> SUFFICES ASSUME NEW u \in Users, stakeTime'[u] # NoEntry
                 PROVE  stakeTime'[u] <= now'
      BY DEF EntriesArePast, HasStake
    <3>1. stakeTime[u] \in Nat
      BY TimeIsNat DEF IInv, StakesSound, StakingTypeOK
    <3>2. stakeTime[u] <= now
      BY <1>1 DEF IInv, StakesSound, EntriesArePast, HasStake
    <3> QED BY <1>1, <3>1, <3>2
  <2> QED BY <1>1, <2>1 DEF IInv, StakesSound, StakingTypeOK, OwnableTypeOK,
                            TotalStakedIsSumOfStakes, ownership, config
<1>4. Backed'
  BY <1>1 DEF IInv, Backed, tokenVars
<1>5. StoreSound(committed)'
  <2>1. ASSUME NEW u \in Users, committed.stakeTime[u] # NoEntry
        PROVE  committed.stakeTime[u] <= now'
    <3>1. committed.stakeTime[u] \in Nat
      BY TimeIsNat DEF IInv, StoreSound, Stores
    <3>2. committed.stakeTime[u] <= now
      BY <2>1 DEF IInv, StoreSound
    <3> QED BY <1>1, <3>1, <3>2
  <2> QED BY <1>1, <2>1 DEF IInv, StoreSound
<1> QED BY <1>2, <1>3, <1>4, <1>5 DEF IInv

\* The handlers of the staking contract, up to their first message.
LEMMA StakeStep ==
    ASSUME IInv, Idle, NEW u \in Users, NEW n \in Uint, Stake(u, n)
    PROVE  StakesSound' /\ (UNCHANGED tokenVars => Backed')
<1>1. /\ staked \in [Users -> Nat] /\ staked \in [Users -> Uint]
      /\ totalStaked \in Nat /\ n \in Nat
      /\ now \in Time /\ now \in Nat /\ now # NoEntry
  BY UintIsNat, TimeIsNat DEF IInv, StakesSound, StakingTypeOK, OwnableTypeOK
<1>2. Total(staked') = Total(staked) + n
  BY <1>1, UsersFinite, CreditBook DEF Stake, Deposited
<1>3. staked[u] + n \in Uint /\ totalStaked + n \in Uint
  BY <1>1, UintAssumption DEF Stake, StakeOk, Fits, Uint
<1>4. staked' \in [Users -> Uint]
  BY <1>1, <1>3 DEF Stake, Deposited, Credit
<1>5. stakeTime' \in [Users -> Time \cup {NoEntry}]
  BY <1>1 DEF Stake, Deposited, IInv, StakesSound, StakingTypeOK
<1>6. outbox' = <<Msg("transfer_from", u, n)>> /\ outbox' \in Seq(Message)
  BY DEF Stake, Msg, Message
<1>7. \A v \in Users : stakeTime'[v] = NoEntry => staked'[v] = 0
  BY <1>1 DEF Stake, Deposited, Credit, HasStake, IInv, StakesSound, StakingTypeOK
<1>8. EntriesArePast'
  BY <1>1 DEF Stake, Deposited, HasStake, IInv, StakesSound, StakingTypeOK, EntriesArePast
<1>9. StakesSound'
  BY <1>2, <1>3, <1>4, <1>5, <1>6, <1>7, <1>8
     DEF Stake, Deposited, StakesSound, StakingTypeOK, OwnableTypeOK, TotalStakedIsSumOfStakes,
         IInv, ownership, config
<1>10. ASSUME UNCHANGED tokenVars PROVE Backed'
  <2>1. balances[StakingAddr] >= totalStaked /\ balances[StakingAddr] \in Nat
    BY IdleIsBacked, UintIsNat, StakingAssumption DEF IInv, TokenInv, TokenTypeOK, Book
  <2>2. balances'[StakingAddr] + n >= totalStaked'
    BY <1>1, <1>10, <2>1 DEF Stake, Deposited, tokenVars
  <2> QED BY <1>6, <2>2 DEF Backed
<1> QED BY <1>9, <1>10

LEMMA UnstakeStep ==
    ASSUME IInv, Idle, NEW u \in Users, NEW n \in Uint, Unstake(u, n)
    PROVE  StakesSound' /\ (UNCHANGED tokenVars => Backed')
<1>1. /\ staked \in [Users -> Nat] /\ staked \in [Users -> Uint]
      /\ totalStaked \in Nat /\ n \in Nat /\ n <= staked[u] /\ n <= totalStaked
      /\ now \in Time /\ now \in Nat /\ now # NoEntry
  BY UintIsNat, TimeIsNat DEF IInv, StakesSound, StakingTypeOK, OwnableTypeOK, Unstake, UnstakeOk
<1>2. Total(staked') = Total(staked) - n
  BY <1>1, UsersFinite, DebitBook DEF Unstake, Withdrawn
<1>3. staked[u] - n \in Uint /\ totalStaked - n \in Uint
  BY <1>1, UintAssumption DEF IInv, StakesSound, StakingTypeOK, Uint
<1>4. staked' \in [Users -> Uint]
  BY <1>1, <1>3 DEF Unstake, Withdrawn, Debit
<1>5. stakeTime' \in [Users -> Time \cup {NoEntry}]
  BY <1>1 DEF Unstake, Withdrawn, IInv, StakesSound, StakingTypeOK
<1>6. Accrued(u) \in Uint
  BY AccruedIsUint DEF Unstake, UnstakeOk, IInv
<1>7. /\ \/ outbox' = <<Msg("transfer", u, n)>>
         \/ outbox' = <<Msg("mint", u, Accrued(u)), Msg("transfer", u, n)>>
      /\ outbox' \in Seq(Message)
  <2>1. /\ Msg("mint", u, Accrued(u)) \in Message
        /\ Msg("transfer", u, n) \in Message
    BY <1>6, MsgType
  <2>2. \/ outbox' = <<Msg("transfer", u, n)>>
        \/ outbox' = <<Msg("mint", u, Accrued(u)), Msg("transfer", u, n)>>
    BY DEF Unstake, Payout
  <2>3. outbox' \in Seq(Message)
    BY <2>1, <2>2, ShortLists
  <2> QED BY <2>2, <2>3
<1>8. \A v \in Users : stakeTime'[v] = NoEntry => staked'[v] = 0
  BY <1>1 DEF Unstake, Withdrawn, Debit, IInv, StakesSound, StakingTypeOK
<1>9. EntriesArePast'
  BY <1>1 DEF Unstake, Withdrawn, HasStake, IInv, StakesSound, StakingTypeOK, EntriesArePast
<1>10. StakesSound'
  BY <1>2, <1>3, <1>4, <1>5, <1>7, <1>8, <1>9
     DEF Unstake, Withdrawn, StakesSound, StakingTypeOK, OwnableTypeOK, TotalStakedIsSumOfStakes,
         IInv, ownership, config
<1>11. ASSUME UNCHANGED tokenVars PROVE Backed'
  <2>1. balances[StakingAddr] >= totalStaked /\ balances[StakingAddr] \in Nat
    BY IdleIsBacked, UintIsNat, StakingAssumption DEF IInv, TokenInv, TokenTypeOK, Book
  <2>2. balances'[StakingAddr] >= totalStaked' + n
    BY <1>1, <1>11, <2>1 DEF Unstake, Withdrawn, tokenVars
  <2> QED BY <1>6, <1>7, <2>2 DEF Backed
<1> QED BY <1>10, <1>11

LEMMA ClaimRewardsStep ==
    ASSUME IInv, Idle, NEW u \in Users, ClaimRewards(u)
    PROVE  StakesSound' /\ (UNCHANGED tokenVars => Backed')
<1>1. now \in Time /\ now \in Nat /\ now # NoEntry
  BY TimeIsNat DEF IInv, StakesSound, StakingTypeOK, OwnableTypeOK
<1>2. stakeTime' \in [Users -> Time \cup {NoEntry}]
  BY <1>1 DEF ClaimRewards, IInv, StakesSound, StakingTypeOK
<1>3. Accrued(u) \in Uint
  BY AccruedIsUint DEF ClaimRewards, IInv
<1>4. outbox' = <<Msg("mint", u, Accrued(u))>> /\ outbox' \in Seq(Message)
  BY <1>3 DEF ClaimRewards, Msg, Message
<1>5. \A v \in Users : stakeTime'[v] = NoEntry => staked'[v] = 0
  BY <1>1 DEF ClaimRewards, IInv, StakesSound, StakingTypeOK
<1>6. EntriesArePast'
  BY <1>1 DEF ClaimRewards, HasStake, IInv, StakesSound, StakingTypeOK, EntriesArePast
<1>7. StakesSound'
  BY <1>2, <1>4, <1>5, <1>6
     DEF ClaimRewards, StakesSound, StakingTypeOK, OwnableTypeOK,
         TotalStakedIsSumOfStakes, IInv, ownership, config
<1>8. ASSUME UNCHANGED tokenVars PROVE Backed'
  BY <1>3, <1>4, <1>8, IdleIsBacked DEF ClaimRewards, Backed, tokenVars
<1> QED BY <1>7, <1>8

LEMMA StakingTxInv ==
    ASSUME IInv, StakingTx
    PROVE  IInv'
<1>1. Idle /\ UNCHANGED tokenVars /\ UNCHANGED committed
  BY DEF StakingTx
<1>2. PICK u \in Users : StakingExecute(u)
  BY DEF StakingTx
<1>3. now' = now
  BY <1>2 DEF StakingExecute, Stake, Unstake, ClaimRewards
<1>4. StakesSound' /\ Backed'
  <2>1. CASE \E n \in Amounts : Stake(u, n)
    BY <1>1, <2>1, UintAssumption, StakeStep
  <2>2. CASE \E n \in Amounts : Unstake(u, n)
    BY <1>1, <2>2, UintAssumption, UnstakeStep
  <2>3. CASE ClaimRewards(u)
    BY <1>1, <2>3, ClaimRewardsStep
  <2> QED BY <1>2, <2>1, <2>2, <2>3 DEF StakingExecute
<1>5. TokenInv' /\ PoolIsNeverApproved'
  BY <1>1, TokenStutterInv DEF IInv, PoolIsNeverApproved, tokenVars
<1>6. StoreSound(committed)'
  BY <1>1, <1>3 DEF IInv, StoreSound
<1> QED BY <1>4, <1>5, <1>6 DEF IInv

-----------------------------------------------------------------------------
(* The messages of a transaction.                                           *)

\* What each of the three messages does to the token, and to the pool.
LEMMA ExecutesDeposit ==
    ASSUME IInv, NEW u \in Users, NEW n \in Uint,
           Executes(Msg("transfer_from", u, n))
    PROVE  /\ TokenInv' /\ PoolIsNeverApproved'
           /\ balances'[StakingAddr] = balances[StakingAddr] + n
<1>1. TransferFrom(StakingAddr, u, StakingAddr, n)
  BY DEF Executes, Msg
<1>2. /\ u \in Addr /\ u # StakingAddr /\ StakingAddr \in Addr /\ n \in Nat
      /\ balances \in [Addr -> Nat] /\ allowances \in [Addr -> Book]
  BY UsersFinite, UintIsNat, StakingAssumption, BookIsNat DEF IInv, TokenInv, TokenTypeOK
<1>3. TokenInv'
  BY <1>1, <1>2, TransferFromInv DEF IInv
<1>4. PoolIsNeverApproved'
  BY <1>1, <1>2 DEF TransferFrom, IInv, PoolIsNeverApproved
<1>5. balances'[StakingAddr] = balances[StakingAddr] + n
  BY <1>1, <1>2 DEF TransferFrom, Moved, Credit, Debit
<1> QED BY <1>3, <1>4, <1>5

LEMMA ExecutesReward ==
    ASSUME IInv, NEW u \in Users, NEW n \in Uint, Executes(Msg("mint", u, n))
    PROVE  /\ TokenInv' /\ PoolIsNeverApproved'
           /\ balances'[StakingAddr] = balances[StakingAddr]
<1>1. Mint(StakingAddr, u, n)
  BY DEF Executes, Msg
<1>2. /\ u \in Addr /\ u # StakingAddr /\ StakingAddr \in Addr /\ n \in Nat
      /\ balances \in [Addr -> Nat]
  BY UsersFinite, UintIsNat, StakingAssumption, BookIsNat DEF IInv, TokenInv, TokenTypeOK
<1>3. TokenInv'
  BY <1>1, <1>2, MintInv DEF IInv
<1>4. PoolIsNeverApproved' /\ balances'[StakingAddr] = balances[StakingAddr]
  BY <1>1, <1>2 DEF Mint, Credit, IInv, PoolIsNeverApproved
<1> QED BY <1>3, <1>4

LEMMA ExecutesPayout ==
    ASSUME IInv, NEW u \in Users, NEW n \in Uint, Executes(Msg("transfer", u, n))
    PROVE  /\ TokenInv' /\ PoolIsNeverApproved'
           /\ balances'[StakingAddr] = balances[StakingAddr] - n
<1>1. Transfer(StakingAddr, u, n)
  BY DEF Executes, Msg
<1>2. /\ u \in Addr /\ u # StakingAddr /\ StakingAddr \in Addr /\ n \in Nat
      /\ balances \in [Addr -> Nat]
  BY UsersFinite, UintIsNat, StakingAssumption, BookIsNat DEF IInv, TokenInv, TokenTypeOK
<1>3. TokenInv'
  BY <1>1, <1>2, TransferInv DEF IInv
<1>4. PoolIsNeverApproved'
  BY <1>1 DEF Transfer, IInv, PoolIsNeverApproved
<1>5. balances'[StakingAddr] = balances[StakingAddr] - n
  BY <1>1, <1>2 DEF Transfer, Moved, Credit, Debit
<1> QED BY <1>3, <1>4, <1>5

LEMMA DispatchInv ==
    ASSUME IInv, Dispatch
    PROVE  IInv'
<1> DEFINE pool == balances[StakingAddr]
           Rest == /\ TokenInv' /\ PoolIsNeverApproved' /\ Backed'
                   /\ outbox' = <<>> => totalStaked' <= balances'[StakingAddr]
                   /\ outbox' \in Seq(Message)
<1>1. /\ UNCHANGED <<now, ownership, config, staked, stakeTime, totalStaked>>
      /\ outbox # <<>> /\ Executes(Head(outbox)) /\ outbox' = Tail(outbox)
      /\ committed' = IF outbox' = <<>> THEN Store' ELSE committed
  BY DEF Dispatch, Idle
<1>2. pool \in Nat /\ totalStaked \in Nat
  BY UintIsNat, StakingAssumption
     DEF IInv, StakesSound, StakingTypeOK, TokenInv, TokenTypeOK, Book
<1>3. ASSUME NEW u \in Users, NEW n \in Uint,
             outbox = <<Msg("transfer_from", u, n)>>, pool + n >= totalStaked
      PROVE  Rest
  <2>1. Head(outbox) = Msg("transfer_from", u, n) /\ outbox' = <<>>
    BY <1>1, <1>3
  <2>2. TokenInv' /\ PoolIsNeverApproved' /\ balances'[StakingAddr] = pool + n
    BY <1>1, <2>1, ExecutesDeposit
  <2>3. balances'[StakingAddr] >= totalStaked'
    BY <1>1, <1>3, <2>2
  <2>4. Backed' /\ outbox' \in Seq(Message)
    BY <2>1, <2>3, ShortLists DEF Backed
  <2> QED BY <2>2, <2>3, <2>4
<1>4. ASSUME NEW u \in Users, NEW r \in Uint,
             outbox = <<Msg("mint", u, r)>>, pool >= totalStaked
      PROVE  Rest
  <2>1. Head(outbox) = Msg("mint", u, r) /\ outbox' = <<>>
    BY <1>1, <1>4
  <2>2. TokenInv' /\ PoolIsNeverApproved' /\ balances'[StakingAddr] = pool
    BY <1>1, <2>1, ExecutesReward
  <2>3. balances'[StakingAddr] >= totalStaked'
    BY <1>1, <1>4, <2>2
  <2>4. Backed' /\ outbox' \in Seq(Message)
    BY <2>1, <2>3, ShortLists DEF Backed
  <2> QED BY <2>2, <2>3, <2>4
<1>5. ASSUME NEW u \in Users, NEW n \in Uint,
             outbox = <<Msg("transfer", u, n)>>, pool >= totalStaked + n
      PROVE  Rest
  <2>1. Head(outbox) = Msg("transfer", u, n) /\ outbox' = <<>>
    BY <1>1, <1>5
  <2>2. TokenInv' /\ PoolIsNeverApproved' /\ balances'[StakingAddr] = pool - n
    BY <1>1, <2>1, ExecutesPayout
  <2>3. n \in Nat
    BY UintIsNat
  <2>4. balances'[StakingAddr] >= totalStaked'
    BY <1>1, <1>2, <1>5, <2>2, <2>3
  <2>5. Backed' /\ outbox' \in Seq(Message)
    BY <2>1, <2>4, ShortLists DEF Backed
  <2> QED BY <2>2, <2>4, <2>5
<1>6. ASSUME NEW u \in Users, NEW r \in Uint, NEW n \in Uint,
             outbox = <<Msg("mint", u, r), Msg("transfer", u, n)>>,
             pool >= totalStaked + n
      PROVE  Rest
  <2>1. Head(outbox) = Msg("mint", u, r) /\ outbox' = <<Msg("transfer", u, n)>>
    BY <1>1, <1>6
  <2>2. TokenInv' /\ PoolIsNeverApproved' /\ balances'[StakingAddr] = pool
    BY <1>1, <2>1, ExecutesReward
  <2>3. balances'[StakingAddr] >= totalStaked' + n
    BY <1>1, <1>6, <2>2
  <2>4. Backed'
    BY <2>1, <2>3 DEF Backed
  <2>5. outbox' # <<>> /\ outbox' \in Seq(Message)
    BY <2>1, MsgType, ShortLists
  <2> QED BY <2>2, <2>4, <2>5
<1>7. Rest
  BY <1>1, <1>3, <1>4, <1>5, <1>6 DEF IInv, Backed
<1>8. StakesSound'
  BY <1>1, <1>7 DEF IInv, StakesSound, StakingTypeOK, OwnableTypeOK, ownership, config,
                    TotalStakedIsSumOfStakes, EntriesArePast, HasStake
<1>9. StoreSound(committed)'
  <2>1. CASE outbox' = <<>>
    <3>1. StoreSound(Store)'
      BY <1>7, <1>8, <2>1
         DEF TokenInv, TokenTypeOK, SupplyIsSumOfBalances, StakesSound, StakingTypeOK,
             TotalStakedIsSumOfStakes, EntriesArePast, HasStake, PoolIsNeverApproved,
             StoreSound, Store, Stores
    <3> QED BY <1>1, <2>1, <3>1
  <2>2. CASE outbox' # <<>>
    BY <1>1, <2>2 DEF IInv, StoreSound
  <2> QED BY <2>1, <2>2
<1> QED BY <1>7, <1>8, <1>9 DEF IInv

LEMMA RevertInv ==
    ASSUME IInv, Revert
    PROVE  IInv'
<1>1. /\ UNCHANGED <<minter, now, ownership, config, committed>>
      /\ balances' = committed.balances /\ allowances' = committed.allowances
      /\ totalSupply' = committed.totalSupply /\ staked' = committed.staked
      /\ stakeTime' = committed.stakeTime /\ totalStaked' = committed.totalStaked
      /\ outbox' = <<>>
  BY DEF Revert
<1>2. StoreSound(committed)
  BY DEF IInv
<1>3. TokenInv'
  BY <1>1, <1>2 DEF StoreSound, Stores, IInv, TokenInv, TokenTypeOK, SupplyIsSumOfBalances
<1>4. StakesSound'
  BY <1>1, <1>2 DEF StoreSound, Stores, IInv, StakesSound, StakingTypeOK, OwnableTypeOK,
                    ownership, config, TotalStakedIsSumOfStakes, EntriesArePast, HasStake
<1>5. PoolIsNeverApproved'
  BY <1>1, <1>2 DEF StoreSound, PoolIsNeverApproved
<1>6. balances'[StakingAddr] >= totalStaked'
  <2>1. balances'[StakingAddr] \in Nat /\ totalStaked' \in Nat
    BY <1>3, <1>4, UintIsNat, StakingAssumption
       DEF TokenInv, TokenTypeOK, Book, StakesSound, StakingTypeOK
  <2> QED BY <1>1, <1>2, <2>1 DEF StoreSound
<1>7. Backed'
  BY <1>1, <1>6 DEF Backed
<1>8. StoreSound(committed)'
  BY <1>1, <1>2 DEF StoreSound
<1> QED BY <1>3, <1>4, <1>5, <1>7, <1>8 DEF IInv

LEMMA StutterInv ==
    ASSUME IInv, UNCHANGED vars
    PROVE  IInv'
<1>1. UNCHANGED <<tokenVars, now, owner, pendingOwner, pendingExpiry, apr, lockup,
                  staked, stakeTime, totalStaked, outbox, committed>>
  BY DEF vars, stakingVars, ownership, config
<1>2. TokenInv' /\ PoolIsNeverApproved'
  BY <1>1, TokenStutterInv DEF IInv, PoolIsNeverApproved, tokenVars
<1>3. StakesSound'
  BY <1>1 DEF IInv, StakesSound, StakingTypeOK, OwnableTypeOK,
              TotalStakedIsSumOfStakes, EntriesArePast, HasStake
<1>4. Backed' /\ StoreSound(committed)'
  BY <1>1 DEF IInv, Backed, StoreSound, tokenVars
<1> QED BY <1>2, <1>3, <1>4 DEF IInv

(***************************************************************************)
(* The inductive invariant of the staking protocol.                        *)
(***************************************************************************)
THEOREM ProtocolInvariance == Spec => []IInv
<1>1. IInv /\ [Next]_vars => IInv'
  <2> SUFFICES ASSUME IInv, [Next]_vars PROVE IInv'
    OBVIOUS
  <2>1. CASE TokenTx BY <2>1, TokenTxInv
  <2>2. CASE GovernanceTx BY <2>2, GovernanceTxInv
  <2>3. CASE Block BY <2>3, BlockInv
  <2>4. CASE StakingTx BY <2>4, StakingTxInv
  <2>5. CASE Dispatch BY <2>5, DispatchInv
  <2>6. CASE Revert BY <2>6, RevertInv
  <2>7. CASE UNCHANGED vars BY <2>7, StutterInv
  <2> QED BY <2>1, <2>2, <2>3, <2>4, <2>5, <2>6, <2>7 DEF Next
<1> QED BY <1>1, InitIInv, PTL DEF Spec

(***************************************************************************)
(* Type correctness of both contracts and of the stored state.             *)
(***************************************************************************)
THEOREM TypeCorrect == Spec => []TypeOK
<1>1. IInv => TypeOK
  BY DEF IInv, TokenInv, StakesSound, StoreSound, TypeOK
<1> QED BY <1>1, ProtocolInvariance, PTL

(***************************************************************************)
(* The supply is the sum of the balances also while the staking contract   *)
(* mints rewards and transactions are taken back.                          *)
(***************************************************************************)
THEOREM ProtocolConservesSupply == Spec => []SupplyIsSumOfBalances
<1>1. IInv => SupplyIsSumOfBalances
  BY DEF IInv, TokenInv
<1> QED BY <1>1, ProtocolInvariance, PTL

(***************************************************************************)
(* TOTAL_STAKED is the sum of STAKES in every state.                       *)
(***************************************************************************)
THEOREM TotalStakedCorrect == Spec => []TotalStakedIsSumOfStakes
<1>1. IInv => TotalStakedIsSumOfStakes
  BY DEF IInv, StakesSound
<1> QED BY <1>1, ProtocolInvariance, PTL

(***************************************************************************)
(* Every stored state can pay all stakers their principal.                 *)
(***************************************************************************)
THEOREM Solvency == Spec => []Solvent
<1>1. IInv => Solvent
  <2> SUFFICES ASSUME IInv PROVE Solvent
    OBVIOUS
  <2>1. StoreSound(committed)
    BY DEF IInv
  <2>2. committed.totalStaked \in Nat /\ committed.balances[StakingAddr] \in Nat
    BY <2>1, UintIsNat, StakingAssumption DEF StoreSound, Stores, Book
  <2> QED BY <2>1, <2>2 DEF StoreSound, Solvent
<1> QED BY <1>1, ProtocolInvariance, PTL

(***************************************************************************)
(* During a transaction the pool covers what is still to go out.           *)
(***************************************************************************)
THEOREM TransactionsAreBacked == Spec => []Backed
<1>1. IInv => Backed
  BY DEF IInv
<1> QED BY <1>1, ProtocolInvariance, PTL

(***************************************************************************)
(* The Transfer of the principal is never refused for lack of funds.       *)
(***************************************************************************)
THEOREM PayoutsNeverBounce == Spec => []PayoutNeverBounces
<1>1. IInv => PayoutNeverBounces
  <2> SUFFICES ASSUME IInv, NEW i \in DOMAIN outbox, outbox[i].kind = "transfer"
               PROVE  balances[StakingAddr] >= outbox[i].amount
    BY DEF PayoutNeverBounces
  <2>1. balances[StakingAddr] \in Nat /\ totalStaked \in Nat
    BY UintIsNat, StakingAssumption
       DEF IInv, StakesSound, StakingTypeOK, TokenInv, TokenTypeOK, Book
  <2>2. ASSUME NEW u \in Users, NEW n \in Uint, outbox = <<Msg("transfer", u, n)>>,
               balances[StakingAddr] >= totalStaked + n
        PROVE  balances[StakingAddr] >= outbox[i].amount
    <3>1. i = 1 /\ n \in Nat
      BY <2>2, UintIsNat
    <3> QED BY <2>1, <2>2, <3>1 DEF Msg
  <2>3. ASSUME NEW u \in Users, NEW r \in Uint, NEW n \in Uint,
               outbox = <<Msg("mint", u, r), Msg("transfer", u, n)>>,
               balances[StakingAddr] >= totalStaked + n
        PROVE  balances[StakingAddr] >= outbox[i].amount
    <3>1. i \in {1, 2} /\ n \in Nat /\ outbox[1].kind = "mint" /\ outbox[2].amount = n
      BY <2>3, UintIsNat DEF Msg
    <3>2. i = 2
      BY <3>1
    <3> QED BY <2>1, <2>3, <3>1, <3>2
  <2>4. ASSUME NEW u \in Users, NEW n \in Uint,
               \/ outbox = <<Msg("transfer_from", u, n)>>
               \/ outbox = <<Msg("mint", u, n)>>
        PROVE  FALSE
    <3>1. i = 1 /\ outbox[1].kind # "transfer"
      BY <2>4 DEF Msg
    <3> QED BY <3>1
  <2>5. outbox # <<>>
    OBVIOUS
  <2> QED BY <2>2, <2>3, <2>4, <2>5 DEF IInv, Backed
<1> QED BY <1>1, ProtocolInvariance, PTL

(***************************************************************************)
(* No single stake exceeds TOTAL_STAKED: its checked_sub never fails.      *)
(***************************************************************************)
THEOREM EachStakeIsCovered == Spec => []TotalCoversEachStake
<1>1. IInv => TotalCoversEachStake
  <2> SUFFICES ASSUME IInv, NEW u \in Users PROVE staked[u] <= totalStaked
    BY DEF TotalCoversEachStake
  <2>1. staked \in [Users -> Nat] /\ totalStaked = Total(staked)
    BY UintIsNat DEF IInv, StakesSound, StakingTypeOK, TotalStakedIsSumOfStakes
  <2> QED BY <2>1, UsersFinite, EntryWithinTotal
<1> QED BY <1>1, ProtocolInvariance, PTL

(***************************************************************************)
(* The pool never approves a spender.                                      *)
(***************************************************************************)
THEOREM PoolStaysUnapproved == Spec => []PoolIsNeverApproved
<1>1. IInv => PoolIsNeverApproved
  BY DEF IInv
<1> QED BY <1>1, ProtocolInvariance, PTL

(***************************************************************************)
(* Elapsed times are never negative.                                       *)
(***************************************************************************)
THEOREM EntriesStayPast == Spec => []EntriesArePast
<1>1. IInv => EntriesArePast
  BY DEF IInv, StakesSound
<1> QED BY <1>1, ProtocolInvariance, PTL

-----------------------------------------------------------------------------
(* Why a transaction of the staking contract fails.                         *)

\* A deposit its staker has not approved or cannot pay; a reward the contract
\* may not mint, or that the supply has no room for.
RefusalCause(m) ==
    \/ /\ m.kind = "transfer_from"
       /\ m.amount > allowances[m.user][StakingAddr] \/ m.amount > balances[m.user]
    \/ /\ m.kind = "mint"
       /\ minter # StakingAddr \/ totalSupply + m.amount > MaxUint

LEMMA LedgerTypes ==
    ASSUME IInv
    PROVE  /\ TokenInv /\ balances \in [Addr -> Nat] /\ totalSupply \in Nat
           /\ \A a \in Addr : balances[a] <= totalSupply
           /\ totalStaked \in Nat /\ MaxUint \in Nat
           /\ \A a \in Addr : allowances[a][StakingAddr] \in Nat
           /\ StakingAddr \in Addr /\ Users \subseteq Addr
<1>1. TokenInv /\ balances \in Book
  BY DEF IInv, TokenInv, TokenTypeOK
<1>2. balances \in [Addr -> Nat] /\ totalSupply = Total(balances)
  BY <1>1, BookIsNat DEF TokenInv, SupplyIsSumOfBalances
<1>3. \A a \in Addr : balances[a] <= totalSupply
  BY <1>2, AddrAssumption, EntryWithinTotal
<1>4. totalSupply \in Nat /\ totalStaked \in Nat /\ MaxUint \in Nat
  BY UintIsNat DEF IInv, TokenInv, TokenTypeOK, StakesSound, StakingTypeOK
<1>5. StakingAddr \in Addr /\ Users \subseteq Addr
  BY StakingAssumption, UsersFinite
<1>6. \A a \in Addr : allowances[a][StakingAddr] \in Nat
  BY <1>1, <1>5, UintIsNat DEF TokenInv, TokenTypeOK, Book
<1> QED BY <1>1, <1>2, <1>3, <1>4, <1>5, <1>6

LEMMA DepositRefused ==
    ASSUME IInv, NEW u \in Users, NEW n \in Nat, ~ Accepts(Msg("transfer_from", u, n))
    PROVE  RefusalCause(Msg("transfer_from", u, n))
<1>1. ~ TransferFromOk(StakingAddr, u, StakingAddr, n)
  BY DEF Accepts, Msg
<1>2. n <= balances[u] => MoveOk(u, StakingAddr, n)
  BY LedgerTypes, AffordableFits
<1>3. n > allowances[u][StakingAddr] \/ n > balances[u]
  BY <1>1, <1>2, LedgerTypes DEF TransferFromOk
<1> QED BY <1>3 DEF RefusalCause, Msg

LEMMA RewardRefused ==
    ASSUME IInv, NEW u \in Users, NEW n \in Nat, ~ Accepts(Msg("mint", u, n))
    PROVE  RefusalCause(Msg("mint", u, n))
<1>1. ~ MintOk(StakingAddr, u, n)
  BY DEF Accepts, Msg
<1>2. minter # StakingAddr \/ totalSupply + n > MaxUint
  BY <1>1, LedgerTypes DEF MintOk, Fits
<1> QED BY <1>2 DEF RefusalCause, Msg

LEMMA PayoutAccepted ==
    ASSUME IInv, NEW u \in Users, NEW n \in Nat, balances[StakingAddr] >= totalStaked + n
    PROVE  Accepts(Msg("transfer", u, n))
<1>1. n \in 0..balances[StakingAddr]
  BY LedgerTypes
<1>2. MoveOk(StakingAddr, u, n)
  BY <1>1, LedgerTypes, AffordableFits
<1> QED BY <1>2 DEF Accepts, TransferOk, Msg

(***************************************************************************)
(* A transaction of the staking contract is taken back for four reasons    *)
(* and no other: the staker has not approved the deposit, or does not have *)
(* it; the contract is not the minter, or the supply has no room for the   *)
(* reward.  The transfer of a principal is never refused, nor does any     *)
(* credit panic, whatever happened before (the SubMsgs of execute_stake,   *)
(* execute_unstake and execute_claim_rewards).                             *)
(***************************************************************************)
THEOREM RefusalsHaveCauses ==
    Spec => [](~ Idle /\ ~ Accepts(Head(outbox)) => RefusalCause(Head(outbox)))
<1>1. ASSUME IInv, ~ Idle, ~ Accepts(Head(outbox))
      PROVE  RefusalCause(Head(outbox))
  <2>1. ASSUME NEW u \in Users, NEW n \in Uint, outbox = <<Msg("transfer_from", u, n)>>
        PROVE  RefusalCause(Head(outbox))
    <3>1. Head(outbox) = Msg("transfer_from", u, n) /\ n \in Nat
      BY <2>1, UintIsNat
    <3> QED BY <1>1, <3>1, DepositRefused
  <2>2. ASSUME NEW u \in Users, NEW r \in Uint, Head(outbox) = Msg("mint", u, r)
        PROVE  RefusalCause(Head(outbox))
    <3>1. r \in Nat
      BY UintIsNat
    <3> QED BY <1>1, <2>2, <3>1, RewardRefused
  <2>3. ASSUME NEW u \in Users, NEW n \in Uint, outbox = <<Msg("transfer", u, n)>>,
               balances[StakingAddr] >= totalStaked + n
        PROVE  FALSE
    <3>1. Head(outbox) = Msg("transfer", u, n) /\ n \in Nat
      BY <2>3, UintIsNat
    <3> QED BY <1>1, <2>3, <3>1, PayoutAccepted
  <2>4. Backed
    BY <1>1 DEF IInv
  <2>5. \A u \in Users, r, n \in Uint :
            /\ Head(<<Msg("mint", u, r)>>) = Msg("mint", u, r)
            /\ Head(<<Msg("mint", u, r), Msg("transfer", u, n)>>) = Msg("mint", u, r)
    OBVIOUS
  <2> QED BY <1>1, <2>1, <2>2, <2>3, <2>4, <2>5 DEF Backed, Idle
<1> QED BY <1>1, ProtocolInvariance, PTL

(***************************************************************************)
(* No order of messages locks a staker in: once the lock-up period is over *)
(* the handler admits an Unstake of any part of the stake, unless the      *)
(* reward has left u128.  The subtraction from TOTAL_STAKED never refuses  *)
(* it (execute_unstake).                                                   *)
(***************************************************************************)
THEOREM MaturedStakesAreAdmitted ==
    Spec => [](\A u \in Users : Matured(u) /\ ~ AccruedPanics(u) =>
                   \A n \in 0..staked[u] : UnstakeOk(u, n))
<1>1. ASSUME IInv, TotalCoversEachStake
      PROVE  \A u \in Users : Matured(u) /\ ~ AccruedPanics(u) =>
                 \A n \in 0..staked[u] : UnstakeOk(u, n)
  <2> SUFFICES ASSUME NEW u \in Users, Matured(u), ~ AccruedPanics(u), NEW n \in 0..staked[u]
               PROVE  UnstakeOk(u, n)
    OBVIOUS
  <2>1. staked[u] \in Nat /\ totalStaked \in Nat
    BY <1>1, UintIsNat DEF IInv, StakesSound, StakingTypeOK
  <2>2. staked[u] <= totalStaked
    BY <1>1 DEF TotalCoversEachStake
  <2>3. n <= staked[u] /\ n <= totalStaked
    BY <2>1, <2>2
  <2> QED BY <2>3, Zenon DEF UnstakeOk
<1> QED BY <1>1, ProtocolInvariance, EachStakeIsCovered, PTL

=============================================================================
