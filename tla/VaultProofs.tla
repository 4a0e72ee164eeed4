----------------------------- MODULE VaultProofs -----------------------------
(***************************************************************************)
(* Every step of StakingProtocol is a step of Vault or none, and the       *)
(* action properties of StakingProtocol, for all values of the constants.  *)
(*                                                                         *)
(* IInv says that each state is sound.  What is needed here is where in    *)
(* its transaction a state is: Underway lists, for each list of messages,  *)
(* how the working copy differs from what is stored.  With it, the message *)
(* that ends a transaction turns into one operation on the stored state.   *)
(***************************************************************************)
EXTENDS VaultRefinement, StakingProtocolProofs

StoredDue(u) ==
    Reward(committed.staked[u], SecondsBetween(committed.stakeTime[u], now), apr)

\* A Stake whose tokens have not moved yet.
Depositing(u, n) ==
    /\ outbox = <<Msg("transfer_from", u, n)>>
    /\ balances = committed.balances
    /\ totalSupply = committed.totalSupply
    /\ staked = Credit(committed.staked, u, n)
    /\ stakeTime = [committed.stakeTime EXCEPT ![u] = IF @ = NoEntry THEN now ELSE @]

\* A ClaimRewards whose reward has not been minted yet.
Claiming(u) ==
    /\ outbox = <<Msg("mint", u, StoredDue(u))>>
    /\ StoredMatured(u) /\ ~ StoredPanics(u) /\ StoredDue(u) # 0
    /\ balances = committed.balances
    /\ totalSupply = committed.totalSupply
    /\ staked = committed.staked
    /\ stakeTime = [committed.stakeTime EXCEPT ![u] = now]

\* An Unstake before the reward was minted, and after.
Leaving(u, n) ==
    /\ \/ /\ outbox = <<Msg("mint", u, StoredDue(u)), Msg("transfer", u, n)>>
          /\ balances = committed.balances
          /\ totalSupply = committed.totalSupply
       \/ /\ outbox = <<Msg("transfer", u, n)>>
          /\ balances = Credit(committed.balances, u, StoredDue(u))
          /\ totalSupply = committed.totalSupply + StoredDue(u)
    /\ StoredMatured(u) /\ ~ StoredPanics(u) /\ n <= committed.staked[u]
    /\ staked = Debit(committed.staked, u, n)
    /\ stakeTime = [committed.stakeTime EXCEPT ![u] =
                        IF n = committed.staked[u] THEN NoEntry ELSE now]

Underway ==
    \/ Idle /\ committed = Store
    \/ \E u \in Users, n \in Amounts : Depositing(u, n)
    \/ \E u \in Users : Claiming(u)
    \/ \E u \in Users, n \in Amounts : Leaving(u, n)

-----------------------------------------------------------------------------
(* The handlers begin, and the messages end, what Underway lists.           *)

\* An idle protocol works on what is stored.
LEMMA IdleWorksOnStored ==
    ASSUME Underway, Idle
    PROVE  committed = Store
<1>1. Len(outbox) = 0
  BY DEF Idle
<1>2. \A m1, m2 : Len(<<m1>>) = 1 /\ Len(<<m1, m2>>) = 2
  OBVIOUS
<1> QED BY <1>1, <1>2 DEF Underway, Depositing, Claiming, Leaving

\* The types of what is stored.
LEMMA StoredTypes ==
    ASSUME IInv
    PROVE  /\ committed.balances \in [Addr -> Nat] /\ committed.balances \in Book
           /\ committed.staked \in [Users -> Nat]
           /\ committed.stakeTime \in [Users -> Nat]
           /\ committed.totalSupply \in Nat
           /\ now \in Nat /\ apr \in Nat /\ lockup \in Nat
           /\ now # NoEntry
           /\ \A u \in Users : committed.stakeTime[u] # NoEntry => committed.stakeTime[u] <= now
<1>1. StoreSound(committed)
  BY DEF IInv
<1>2. committed \in Stores
  BY <1>1 DEF StoreSound
<1>3. /\ committed.balances \in [Addr -> Nat] /\ committed.balances \in Book
      /\ committed.staked \in [Users -> Nat]
      /\ committed.stakeTime \in [Users -> Nat]
      /\ committed.totalSupply \in Nat
  BY <1>2, UintIsNat, TimeIsNat, BookIsNat DEF Stores, Book
<1>4. now \in Nat /\ apr \in Nat /\ lockup \in Nat /\ now # NoEntry
  BY TimeIsNat, StakingAssumption DEF IInv, StakesSound, StakingTypeOK, OwnableTypeOK
<1> QED BY <1>1, <1>3, <1>4 DEF StoreSound

LEMMA StoredDueIsUint ==
    ASSUME IInv, NEW u \in Users, StoredMatured(u), ~ StoredPanics(u)
    PROVE  StoredDue(u) \in Uint
<1>1. /\ committed.staked[u] \in Nat /\ committed.stakeTime[u] \in Nat
      /\ now \in Nat /\ apr \in Nat /\ committed.stakeTime[u] <= now
  BY StoredTypes DEF StoredMatured
<1>2. Seconds(now) - Seconds(committed.stakeTime[u]) \in Nat
  BY <1>1, SecondsMonotonic
<1>3. ~ RewardPanics(committed.staked[u], Seconds(now) - Seconds(committed.stakeTime[u]), apr)
  BY DEF StoredPanics, StoredMatured
<1> QED BY <1>1, <1>2, <1>3, RewardIsUint DEF StoredDue, SecondsBetween

\* The handlers, from what is stored.
LEMMA HandlerBegins ==
    ASSUME IInv, Underway, StakingTx
    PROVE  /\ UNCHANGED <<committed, now, apr, lockup>>
           /\ \/ \E u \in Users, n \in Amounts : Depositing(u, n)'
              \/ \E u \in Users : Claiming(u)'
              \/ \E u \in Users, n \in Amounts : Leaving(u, n)'
<1>1. PICK u \in Users : StakingExecute(u)
  BY DEF StakingTx
<1>2. UNCHANGED <<committed, balances, allowances, totalSupply, minter>> /\ Idle
  BY DEF StakingTx, tokenVars
<1>3. UNCHANGED <<now, apr, lockup>>
  BY <1>1 DEF StakingExecute, Stake, Unstake, ClaimRewards, config
<1>4. /\ committed.balances = balances /\ committed.totalSupply = totalSupply
      /\ committed.staked = staked /\ committed.stakeTime = stakeTime
  BY <1>2, IdleWorksOnStored DEF Store
<1>5. /\ balances \in [Addr -> Nat] /\ totalSupply \in Nat /\ staked \in [Users -> Nat]
      /\ stakeTime \in [Users -> Nat] /\ u \in Addr
  BY <1>4, StoredTypes, UsersFinite
<1>6. /\ Matured(u) => StoredMatured(u)'
      /\ ~ AccruedPanics(u) => ~ StoredPanics(u)'
      /\ Accrued(u) = StoredDue(u)'
  BY <1>2, <1>3, <1>4
     DEF Matured, StoredMatured, HasStake, StakedSeconds, AccruedPanics, StoredPanics,
         Accrued, StoredDue, SecondsBetween
<1>7. ASSUME NEW n \in Amounts, Stake(u, n) PROVE Depositing(u, n)'
  BY <1>2, <1>3, <1>4, <1>5, <1>7 DEF Stake, Deposited, Depositing, HasStake, Msg
<1>8. ASSUME NEW n \in Amounts, Unstake(u, n) PROVE Leaving(u, n)'
  <2>1. /\ StoredMatured(u)' /\ ~ StoredPanics(u)' /\ n <= committed'.staked[u]
        /\ staked' = Debit(committed'.staked, u, n)
        /\ stakeTime' = [committed'.stakeTime EXCEPT ![u] =
                            IF n = committed'.staked[u] THEN NoEntry ELSE now']
    BY <1>2, <1>3, <1>4, <1>6, <1>8 DEF Unstake, UnstakeOk, Withdrawn
  <2>2. CASE Accrued(u) = 0
    <3>1. outbox' = <<Msg("transfer", u, n)>>
      BY <1>8, <2>2 DEF Unstake, Payout
    <3>2. Credit(balances, u, 0) = balances
      BY <1>5 DEF Credit
    <3>3. balances' = Credit(committed'.balances, u, StoredDue(u)')
      BY <1>2, <1>4, <1>6, <2>2, <3>2
    <3>4. totalSupply' = committed'.totalSupply + StoredDue(u)'
      BY <1>2, <1>4, <1>5, <1>6, <2>2
    <3> QED BY <2>1, <3>1, <3>3, <3>4 DEF Leaving, Msg
  <2>3. CASE Accrued(u) # 0
    <3>1. outbox' = <<Msg("mint", u, StoredDue(u)'), Msg("transfer", u, n)>>
      BY <1>6, <1>8, <2>3 DEF Unstake, Payout
    <3> QED BY <1>2, <1>4, <2>1, <3>1 DEF Leaving, Msg
  <2> QED BY <2>2, <2>3
<1>9. ASSUME ClaimRewards(u) PROVE Claiming(u)'
  BY <1>2, <1>3, <1>4, <1>6, <1>9 DEF ClaimRewards, Claiming, Msg
<1> QED BY <1>1, <1>2, <1>3, <1>7, <1>8, <1>9 DEF StakingExecute

-----------------------------------------------------------------------------
(* The message that ends a transaction is an operation of the vault.        *)

VaultOperation == V!VaultNext \/ UNCHANGED V!vaultVars

\* The stored state after the last message.
LEMMA LastMessageStores ==
    ASSUME Dispatch, NEW m, outbox = <<m>>
    PROVE  /\ outbox' = <<>> /\ committed' = Store' /\ Idle' /\ Executes(m)
           /\ committed'.balances = balances' /\ committed'.staked = staked
           /\ committed'.stakeTime = stakeTime
           /\ UNCHANGED <<now, apr, lockup>>
BY DEF Dispatch, Idle, Store, config

LEMMA DepositEnds ==
    ASSUME IInv, NEW u \in Users, NEW n \in Amounts, Depositing(u, n), Dispatch
    PROVE  Underway' /\ V!Enter(u, n)
<1>1. /\ outbox' = <<>> /\ committed' = Store' /\ Idle'
      /\ Executes(Msg("transfer_from", u, n))
      /\ committed'.balances = balances' /\ committed'.staked = staked
      /\ committed'.stakeTime = stakeTime
      /\ UNCHANGED <<now, apr, lockup>>
  BY LastMessageStores DEF Depositing
<1>2. TransferFrom(StakingAddr, u, StakingAddr, n)
  BY <1>1 DEF Executes, Msg
<1>3. n <= balances[u] /\ balances' = Credit(Debit(balances, u, n), StakingAddr, n)
  BY <1>2 DEF TransferFrom, TransferFromOk, MoveOk, Moved
<1>4. V!Enter(u, n)
  BY <1>1, <1>3 DEF Depositing, V!Enter, V!Credit, V!Debit, Credit, Debit, V!terms
<1> QED BY <1>1, <1>4 DEF Underway

LEMMA ClaimEnds ==
    ASSUME IInv, NEW u \in Users, Claiming(u), Dispatch
    PROVE  Underway' /\ V!Harvest(u)
<1>1. /\ outbox' = <<>> /\ committed' = Store' /\ Idle'
      /\ Executes(Msg("mint", u, StoredDue(u)))
      /\ committed'.balances = balances' /\ committed'.staked = staked
      /\ committed'.stakeTime = stakeTime
      /\ UNCHANGED <<now, apr, lockup>>
  BY LastMessageStores DEF Claiming
<1>2. Mint(StakingAddr, u, StoredDue(u))
  BY <1>1 DEF Executes, Msg
<1>3. balances' = Credit(balances, u, StoredDue(u))
  BY <1>2 DEF Mint
<1>4. StoredDue(u) \in Nat /\ StoredDue(u) > 0
  <2>1. StoredDue(u) \in Uint /\ StoredDue(u) # 0
    BY StoredDueIsUint DEF Claiming
  <2>2. \A d \in Uint : d \in Nat
    BY UintIsNat
  <2> QED BY <2>1, <2>2
<1>5. V!Due(u) = StoredDue(u)
  BY DEF V!Due, StoredDue
<1>6. V!Free(u)
  BY DEF Claiming, StoredMatured, V!Free, SecondsBetween
<1>7. V!Harvest(u)
  BY <1>1, <1>3, <1>4, <1>5, <1>6 DEF Claiming, V!Harvest, V!Credit, Credit, V!terms
<1> QED BY <1>1, <1>7 DEF Underway

LEMMA LeaveEnds ==
    ASSUME IInv, NEW u \in Users, NEW n \in Amounts, Leaving(u, n), Dispatch
    PROVE  Underway' /\ (V!Leave(u, n) \/ UNCHANGED V!vaultVars)
<1>1. StoredDue(u) \in Nat /\ n \in Nat /\ u \in Addr /\ StakingAddr \in Addr /\ u # StakingAddr
  BY StoredDueIsUint, UintIsNat, UintAssumption, UsersFinite, StakingAssumption DEF Leaving
<1>2. CASE outbox = <<Msg("mint", u, StoredDue(u)), Msg("transfer", u, n)>>
  <2>1. /\ Head(outbox) = Msg("mint", u, StoredDue(u))
        /\ outbox' = <<Msg("transfer", u, n)>> /\ Tail(outbox) # <<>>
        /\ UNCHANGED <<committed, now, apr, lockup, staked, stakeTime>>
    BY <1>2 DEF Dispatch, config
  <2>2. Mint(StakingAddr, u, StoredDue(u))
    BY <2>1 DEF Dispatch, Executes, Msg
  <2>3. balances = committed.balances /\ totalSupply = committed.totalSupply
    <3>1. outbox # <<Msg("transfer", u, n)>>
      BY <1>2
    <3> QED BY <3>1 DEF Leaving
  <2>4. StoredDue(u)' = StoredDue(u)
    BY <2>1 DEF StoredDue
  <2>5. totalSupply' = committed'.totalSupply + StoredDue(u)'
    BY <2>1, <2>2, <2>3, <2>4 DEF Mint
  <2>6. balances' = Credit(committed'.balances, u, StoredDue(u)')
    BY <2>1, <2>2, <2>3, <2>4 DEF Mint
  <2>7. StoredMatured(u)' /\ ~ StoredPanics(u)'
    BY <2>1 DEF Leaving, StoredMatured, StoredPanics
  <2>8. Leaving(u, n)'
    BY <2>1, <2>5, <2>6, <2>7 DEF Leaving, Msg
  <2>9. UNCHANGED V!vaultVars
    BY <2>1 DEF V!vaultVars
  <2> QED BY <2>8, <2>9 DEF Underway
<1>3. CASE outbox = <<Msg("transfer", u, n)>>
  <2>1. /\ outbox' = <<>> /\ committed' = Store' /\ Idle'
        /\ Executes(Msg("transfer", u, n))
        /\ committed'.balances = balances' /\ committed'.staked = staked
        /\ committed'.stakeTime = stakeTime
        /\ UNCHANGED <<now, apr, lockup>>
    BY <1>3, LastMessageStores
  <2>2. Transfer(StakingAddr, u, n)
    BY <2>1 DEF Executes, Msg
  <2>3. balances = Credit(committed.balances, u, StoredDue(u))
    <3>1. outbox # <<Msg("mint", u, StoredDue(u)), Msg("transfer", u, n)>>
      BY <1>3
    <3> QED BY <3>1 DEF Leaving
  <2>4. committed.balances \in [Addr -> Nat]
    BY StoredTypes
  <2>5. n <= committed.balances[StakingAddr]
    BY <1>1, <2>2, <2>3, <2>4 DEF Transfer, TransferOk, MoveOk, Credit
  <2>6. balances' = Credit(Debit(committed.balances, StakingAddr, n), u, n + StoredDue(u))
    BY <1>1, <2>2, <2>3, <2>4 DEF Transfer, Moved, Credit, Debit
  <2>7. V!Due(u) = StoredDue(u)
    BY DEF V!Due, StoredDue
  <2>8. V!Free(u)
    BY DEF Leaving, StoredMatured, V!Free, SecondsBetween
  <2>9. V!Leave(u, n)
    BY <2>1, <2>5, <2>6, <2>7, <2>8
       DEF Leaving, V!Leave, V!Credit, V!Debit, Credit, Debit, V!terms
  <2> QED BY <2>1, <2>9 DEF Underway
<1> QED BY <1>2, <1>3 DEF Leaving

-----------------------------------------------------------------------------
(* One step of the protocol, and one step of the vault.                     *)

\* What the users' messages to the token may do to the vault.
LEMMA TokenTxTrades ==
    ASSUME IInv, Underway, TokenTx
    PROVE  Underway' /\ V!Trade
<1>1. PICK u \in Users : TokenExecute(u)
  BY DEF TokenTx
<1>2. committed = Store /\ committed' = Store' /\ UNCHANGED stakingVars /\ Idle /\ Idle'
  BY IdleWorksOnStored DEF TokenTx, stakingVars, Idle
<1>3. balances'[StakingAddr] >= balances[StakingAddr]
  BY <1>1, UserMessageKeepsPool DEF IInv
<1>4. balances' \in Book
  BY TokenTxInv DEF IInv, TokenInv, TokenTypeOK
<1>5. V!Trade
  BY <1>2, <1>3, <1>4 DEF V!Trade, V!Book, Book, V!Uint, Uint, V!terms, Store, stakingVars, config
<1> QED BY <1>2, <1>5 DEF Underway

\* Terms and time change only between transactions.
LEMMA BetweenTransactions ==
    ASSUME IInv, Underway, GovernanceTx \/ Block
    PROVE  Underway' /\ (V!NewTerms \/ V!Advance)
<1>1. /\ committed = Store /\ Idle
      /\ UNCHANGED <<tokenVars, committed, staked, stakeTime, totalStaked, outbox>>
  BY IdleWorksOnStored
     DEF GovernanceTx, GovernanceExecute, ChangeConfig, StakingUpdateOwnership, Block, NextBlock
<1>2. Underway'
  BY <1>1 DEF Underway, Idle, Store, tokenVars
<1>3. CASE GovernanceTx
  <2>1. apr' \in Rates /\ lockup' \in Lockups
    BY <1>3, GovernanceTxInv DEF IInv, StakesSound, StakingTypeOK
  <2>2. now' = now
    BY <1>3 DEF GovernanceTx, GovernanceExecute, ChangeConfig, StakingUpdateOwnership
  <2> QED BY <1>1, <1>2, <2>1, <2>2 DEF V!NewTerms
<1>4. CASE Block
  BY <1>1, <1>2, <1>4 DEF Block, NextBlock, Tick, config, V!Advance, V!terms
<1> QED BY <1>3, <1>4

LEMMA RevertForgets ==
    ASSUME IInv, Revert
    PROVE  Underway' /\ UNCHANGED V!vaultVars
<1>1. committed \in Stores
  BY DEF IInv, StoreSound
<1>2. Idle' /\ committed' = Store'
  BY <1>1 DEF Revert, Idle, Store, Stores
<1>3. UNCHANGED V!vaultVars
  BY DEF Revert, config, V!vaultVars
<1> QED BY <1>2, <1>3 DEF Underway

LEMMA InitUnderway == Init => Underway /\ V!VaultInit
<1> SUFFICES ASSUME Init PROVE Underway /\ V!VaultInit
  OBVIOUS
<1>1. Underway
  BY DEF Init, StakingInit, Idle, Underway
<1>2. V!VaultInit
  BY DEF Init, TokenInit, StakingInit, Store, V!VaultInit
<1> QED BY <1>1, <1>2

LEMMA StepRefines ==
    ASSUME IInv, Underway, [Next]_vars
    PROVE  Underway' /\ VaultOperation
<1>1. CASE TokenTx
  BY <1>1, TokenTxTrades DEF VaultOperation, V!VaultNext
<1>2. CASE GovernanceTx \/ Block
  BY <1>2, BetweenTransactions DEF VaultOperation, V!VaultNext
<1>3. CASE StakingTx
  <2>1. UNCHANGED V!vaultVars
    BY <1>3, HandlerBegins DEF V!vaultVars
  <2>2. Underway'
    BY <1>3, HandlerBegins DEF Underway
  <2> QED BY <2>1, <2>2 DEF VaultOperation
<1>4. CASE Dispatch
  <2>1. ~ Idle
    BY <1>4 DEF Dispatch
  <2>2. ASSUME NEW u \in Users, NEW n \in Amounts, Depositing(u, n)
        PROVE  Underway' /\ VaultOperation
    BY <1>4, <2>2, DepositEnds DEF VaultOperation, V!VaultNext
  <2>3. ASSUME NEW u \in Users, Claiming(u)
        PROVE  Underway' /\ VaultOperation
    BY <1>4, <2>3, ClaimEnds DEF VaultOperation, V!VaultNext
  <2>4. ASSUME NEW u \in Users, NEW n \in Amounts, Leaving(u, n)
        PROVE  Underway' /\ VaultOperation
    BY <1>4, <2>4, LeaveEnds DEF VaultOperation, V!VaultNext
  <2> QED BY <2>1, <2>2, <2>3, <2>4 DEF Underway
<1>5. CASE Revert
  BY <1>5, RevertForgets DEF VaultOperation
<1>6. CASE UNCHANGED vars
  <2>1. UNCHANGED <<balances, allowances, totalSupply, staked, stakeTime, totalStaked, outbox,
                    committed, now, apr, lockup>>
    BY <1>6 DEF vars, tokenVars, stakingVars, config
  <2>2. UNCHANGED V!vaultVars
    BY <2>1 DEF V!vaultVars
  <2>3. Underway'
    BY <2>1 DEF Underway, Idle, Store, Depositing, Claiming, Leaving,
                StoredDue, StoredMatured, StoredPanics
  <2> QED BY <2>2, <2>3 DEF VaultOperation
<1> QED BY <1>1, <1>2, <1>3, <1>4, <1>5, <1>6 DEF Next

(***************************************************************************)
(* Where a transaction is, for every reachable state.                      *)
(***************************************************************************)
THEOREM UnderwayInvariance == Spec => []Underway
<1>1. Init => Underway
  BY InitUnderway
<1>2. IInv /\ Underway /\ [Next]_vars => Underway'
  BY StepRefines
<1> QED BY <1>1, <1>2, ProtocolInvariance, PTL DEF Spec

(***************************************************************************)
(* The two contracts and their transactions of several messages, any of    *)
(* which may fail, implement the vault, whose operations are indivisible   *)
(* and do not fail half-way.                                               *)
(***************************************************************************)
THEOREM ProtocolImplementsVault == Spec => ImplementsVault
<1>1. Init => V!VaultInit
  BY InitUnderway
<1>2. IInv /\ Underway /\ [Next]_vars => [V!VaultNext]_(V!vaultVars)
  BY StepRefines DEF VaultOperation
<1> QED BY <1>1, <1>2, ProtocolInvariance, UnderwayInvariance, PTL
        DEF Spec, ImplementsVault, V!VaultSpec

-----------------------------------------------------------------------------
(* What a step may never do.                                                *)

\* What WealthIsKept says of one step and one account.
Keeps(v) ==
    Wealth(v)' = Wealth(v) + IF v = outbox[1].user
                             THEN committed'.totalSupply - committed.totalSupply ELSE 0

\* A step that stores nothing.
LEMMA UnstoredKeepsWealth ==
    ASSUME IInv, UNCHANGED committed, NEW v \in Users
    PROVE  Keeps(v)
<1>1. /\ committed.balances \in [Addr -> Nat] /\ committed.staked \in [Users -> Nat]
      /\ committed.totalSupply \in Nat /\ v \in Addr
  BY StoredTypes, UsersFinite
<1>2. Wealth(v) \in Nat /\ Wealth(v)' = Wealth(v)
  BY <1>1 DEF Wealth
<1> QED BY <1>1, <1>2 DEF Keeps

LEMMA DepositKeepsWealth ==
    ASSUME IInv, NEW u \in Users, NEW n \in Amounts, Depositing(u, n), Dispatch, NEW v \in Users
    PROVE  Keeps(v)
<1>1. /\ Executes(Msg("transfer_from", u, n))
      /\ committed'.balances = balances' /\ committed'.staked = staked
      /\ committed'.totalSupply = totalSupply'
  BY LastMessageStores DEF Depositing, Store
<1>2. TransferFrom(StakingAddr, u, StakingAddr, n)
  BY <1>1 DEF Executes, Msg
<1>3. /\ n <= balances[u] /\ balances' = Credit(Debit(balances, u, n), StakingAddr, n)
      /\ totalSupply' = totalSupply
  BY <1>2 DEF TransferFrom, TransferFromOk, MoveOk, Moved
<1>4. /\ committed.balances \in [Addr -> Nat] /\ committed.staked \in [Users -> Nat]
      /\ committed.totalSupply \in Nat /\ n \in Nat
      /\ u \in Addr /\ v \in Addr /\ StakingAddr \in Addr
      /\ u # StakingAddr /\ v # StakingAddr
  BY StoredTypes, UsersFinite, UintIsNat, UintAssumption, StakingAssumption
<1>5. committed'.balances[v] = committed.balances[v] - IF v = u THEN n ELSE 0
  BY <1>1, <1>3, <1>4 DEF Depositing, Credit, Debit
<1>6. committed'.staked[v] = committed.staked[v] + IF v = u THEN n ELSE 0
  BY <1>1, <1>4 DEF Depositing, Credit
<1>7. committed'.totalSupply = committed.totalSupply
  BY <1>1, <1>3 DEF Depositing
<1> QED BY <1>4, <1>5, <1>6, <1>7 DEF Keeps, Wealth

LEMMA ClaimKeepsWealth ==
    ASSUME IInv, NEW u \in Users, Claiming(u), Dispatch, NEW v \in Users
    PROVE  Keeps(v)
<1>1. /\ Executes(Msg("mint", u, StoredDue(u))) /\ outbox[1] = Msg("mint", u, StoredDue(u))
      /\ committed'.balances = balances' /\ committed'.staked = staked
      /\ committed'.totalSupply = totalSupply'
  BY LastMessageStores DEF Claiming, Store
<1>2. Mint(StakingAddr, u, StoredDue(u))
  BY <1>1 DEF Executes, Msg
<1>3. /\ committed.balances \in [Addr -> Nat] /\ committed.staked \in [Users -> Nat]
      /\ committed.totalSupply \in Nat /\ StoredDue(u) \in Nat /\ u \in Addr /\ v \in Addr
  BY StoredTypes, StoredDueIsUint, UsersFinite, UintIsNat DEF Claiming
<1>4. committed'.balances[v] = committed.balances[v] + IF v = u THEN StoredDue(u) ELSE 0
  BY <1>1, <1>2, <1>3 DEF Claiming, Mint, Credit
<1>5. committed'.staked[v] = committed.staked[v]
  BY <1>1 DEF Claiming
<1>6. committed'.totalSupply = committed.totalSupply + StoredDue(u)
  BY <1>1, <1>2 DEF Claiming, Mint
<1>7. outbox[1].user = u
  BY <1>1 DEF Msg
<1> QED BY <1>3, <1>4, <1>5, <1>6, <1>7 DEF Keeps, Wealth

LEMMA LeaveKeepsWealth ==
    ASSUME IInv, NEW u \in Users, NEW n \in Amounts, Leaving(u, n), Dispatch, NEW v \in Users
    PROVE  Keeps(v)
<1>1. /\ committed.balances \in [Addr -> Nat] /\ committed.staked \in [Users -> Nat]
      /\ committed.totalSupply \in Nat /\ StoredDue(u) \in Nat /\ n \in Nat
      /\ u \in Addr /\ v \in Addr /\ StakingAddr \in Addr
      /\ u # StakingAddr /\ v # StakingAddr
  BY StoredTypes, StoredDueIsUint, UsersFinite, UintIsNat, UintAssumption, StakingAssumption
     DEF Leaving
<1>2. CASE outbox = <<Msg("mint", u, StoredDue(u)), Msg("transfer", u, n)>>
  <2>1. Tail(outbox) # <<>>
    BY <1>2
  <2>2. UNCHANGED committed
    BY <2>1 DEF Dispatch
  <2> QED BY <2>2, UnstoredKeepsWealth
<1>3. CASE outbox = <<Msg("transfer", u, n)>>
  <2>1. /\ Executes(Msg("transfer", u, n)) /\ outbox[1] = Msg("transfer", u, n)
        /\ committed'.balances = balances' /\ committed'.staked = staked
        /\ committed'.totalSupply = totalSupply'
    BY <1>3, LastMessageStores DEF Store
  <2>2. Transfer(StakingAddr, u, n)
    BY <2>1 DEF Executes, Msg
  <2>3. /\ balances = Credit(committed.balances, u, StoredDue(u))
        /\ totalSupply = committed.totalSupply + StoredDue(u)
    <3>1. outbox # <<Msg("mint", u, StoredDue(u)), Msg("transfer", u, n)>>
      BY <1>3
    <3> QED BY <3>1 DEF Leaving
  <2>4. committed'.balances[v] = committed.balances[v] + IF v = u THEN n + StoredDue(u) ELSE 0
    BY <1>1, <2>1, <2>2, <2>3 DEF Transfer, Moved, Credit, Debit
  <2>5. committed'.staked[v] = committed.staked[v] - IF v = u THEN n ELSE 0
    BY <1>1, <2>1 DEF Leaving, Debit
  <2>6. committed'.totalSupply = committed.totalSupply + StoredDue(u)
    BY <2>1, <2>2, <2>3 DEF Transfer
  <2>7. outbox[1].user = u
    BY <2>1 DEF Msg
  <2> QED BY <1>1, <2>4, <2>5, <2>6, <2>7 DEF Keeps, Wealth
<1> QED BY <1>2, <1>3 DEF Leaving

(***************************************************************************)
(* A transaction of the staking contract loses no staker's tokens and      *)
(* touches nobody else's, and what its staker gains was minted for it.     *)
(***************************************************************************)
THEOREM WealthStaysWhole == Spec => WealthIsKept
<1>1. ASSUME IInv, Underway, [Next]_vars, ~ Idle, NEW v \in Users PROVE Keeps(v)
  <2>1. CASE Dispatch
    <3>1. ASSUME NEW u \in Users, NEW n \in Amounts, Depositing(u, n) PROVE Keeps(v)
      BY <1>1, <2>1, <3>1, DepositKeepsWealth
    <3>2. ASSUME NEW u \in Users, Claiming(u) PROVE Keeps(v)
      BY <1>1, <2>1, <3>2, ClaimKeepsWealth
    <3>3. ASSUME NEW u \in Users, NEW n \in Amounts, Leaving(u, n) PROVE Keeps(v)
      BY <1>1, <2>1, <3>3, LeaveKeepsWealth
    <3> QED BY <1>1, <3>1, <3>2, <3>3 DEF Underway
  <2>2. CASE Revert \/ UNCHANGED vars
    <3>1. UNCHANGED committed
      BY <2>2 DEF Revert, vars
    <3> QED BY <1>1, <3>1, UnstoredKeepsWealth
  <2> QED BY <1>1, <2>1, <2>2 DEF Next, TokenTx, GovernanceTx, Block, StakingTx
<1>2. IInv /\ Underway /\ [Next]_vars => (~ Idle => \A v \in Users : Keeps(v))
  BY <1>1
<1>3. IInv /\ Underway /\ [Next]_vars => [~ Idle => \A u \in Users :
          Wealth(u)' = Wealth(u) + IF u = outbox[1].user
                                   THEN committed'.totalSupply - committed.totalSupply ELSE 0
      ]_vars
  BY <1>2 DEF Keeps
<1> QED BY <1>3, ProtocolInvariance, UnderwayInvariance, PTL DEF Spec, WealthIsKept

\* During a transaction the supply does not shrink, so a revert cannot raise it.
LEMMA SupplyOnlyGrowsInside ==
    ASSUME IInv, Underway
    PROVE  committed.totalSupply <= totalSupply
<1>1. totalSupply \in Nat /\ committed.totalSupply \in Nat
  BY StoredTypes, UintIsNat DEF IInv, TokenInv, TokenTypeOK
<1>2. CASE Idle /\ committed = Store
  BY <1>1, <1>2 DEF Store
<1>3. CASE \E u \in Users, n \in Amounts : Depositing(u, n)
  BY <1>1, <1>3 DEF Depositing
<1>4. CASE \E u \in Users : Claiming(u)
  BY <1>1, <1>4 DEF Claiming
<1>5. CASE \E u \in Users, n \in Amounts : Leaving(u, n)
  <2>1. PICK u \in Users, n \in Amounts : Leaving(u, n)
    BY <1>5
  <2>2. StoredDue(u) \in Nat
    BY <2>1, StoredDueIsUint, UintIsNat DEF Leaving
  <2> QED BY <1>1, <2>1, <2>2 DEF Leaving
<1> QED BY <1>2, <1>3, <1>4, <1>5 DEF Underway

\* The first of the messages Underway lists.
LEMMA FirstMessage ==
    ASSUME IInv, ~ Idle
    PROVE  \E u \in Users, n \in Uint, kind \in {"transfer_from", "mint", "transfer"} :
               Head(outbox) = Msg(kind, u, n)
BY DEF IInv, Backed, Idle

(***************************************************************************)
(* Once it is the minter, the staking contract stays so, and mints nothing *)
(* but the reward that heads the messages of a running transaction.        *)
(***************************************************************************)
THEOREM MinterStaysAbsorbed == Spec => MinterIsAbsorbed
<1> DEFINE Rewarded ==
              \E u \in Users :
                  outbox # <<>> /\ Head(outbox) = Msg("mint", u, totalSupply' - totalSupply)
           Kept == minter' = StakingAddr /\ (totalSupply' > totalSupply => Rewarded)
<1>1. ASSUME IInv, Underway, [Next]_vars, minter = StakingAddr PROVE Kept
  <2>1. totalSupply \in Nat /\ committed.totalSupply <= totalSupply /\ committed.totalSupply \in Nat
    BY <1>1, SupplyOnlyGrowsInside, StoredTypes, UintIsNat DEF IInv, TokenInv, TokenTypeOK
  <2>2. CASE TokenTx
    <3>1. PICK u \in Users : TokenExecute(u)
      BY <2>2 DEF TokenTx
    <3>2. u # StakingAddr /\ \A n \in Amounts : n \in Nat
      BY UsersFinite, UintIsNat, UintAssumption
    <3> QED BY <1>1, <2>1, <3>1, <3>2
            DEF TokenExecute, Transfer, Burn, Mint, MintOk, Approve, TransferFrom, UpdateMinter
  <2>3. CASE Dispatch
    <3>1. PICK u \in Users, n \in Uint, kind \in {"transfer_from", "mint", "transfer"} :
              Head(outbox) = Msg(kind, u, n)
      BY <1>1, <2>3, FirstMessage DEF Dispatch
    <3>2. outbox # <<>> /\ n \in Nat
      BY <2>3, UintIsNat DEF Dispatch, Idle
    <3>3. Executes(Msg(kind, u, n))
      BY <2>3, <3>1 DEF Dispatch
    <3>4. CASE kind = "mint"
      <4>1. Mint(StakingAddr, u, n)
        BY <3>3, <3>4 DEF Executes, Msg
      <4>2. minter' = minter /\ totalSupply' - totalSupply = n
        BY <2>1, <3>2, <4>1 DEF Mint
      <4> QED BY <1>1, <3>1, <3>2, <3>4, <4>2
    <3>5. CASE kind # "mint"
      BY <1>1, <2>1, <3>3, <3>5 DEF Executes, Msg, TransferFrom, Transfer
    <3> QED BY <3>4, <3>5
  <2>4. CASE Revert
    BY <1>1, <2>1, <2>4 DEF Revert
  <2>5. CASE GovernanceTx \/ Block \/ StakingTx \/ UNCHANGED vars
    BY <1>1, <2>1, <2>5 DEF GovernanceTx, Block, StakingTx, tokenVars, vars
  <2> QED BY <1>1, <2>2, <2>3, <2>4, <2>5 DEF Next
<1>2. IInv /\ Underway /\ [Next]_vars => [minter = StakingAddr => Kept]_vars
  BY <1>1
<1> QED BY <1>2, ProtocolInvariance, UnderwayInvariance, PTL DEF Spec, MinterIsAbsorbed

\* Without an owner there is no heir either.
NoHeir == owner = None => pendingOwner = None

LEMMA OwnershipStep ==
    ASSUME [Next]_vars
    PROVE  \/ UNCHANGED <<owner, pendingOwner, apr, lockup>>
           \/ owner \in Users /\ UNCHANGED ownership
           \/ \E u \in Users : UpdateOwnership(u) /\ UNCHANGED config
<1>1. CASE GovernanceTx
  BY <1>1 DEF GovernanceTx, GovernanceExecute, ChangeConfig, StakingUpdateOwnership, IsOwner
<1>2. CASE TokenTx \/ UNCHANGED vars
  BY <1>2 DEF TokenTx, vars, stakingVars, ownership, config
<1>3. CASE Block
  BY <1>3 DEF Block, NextBlock, ownership, config
<1>4. CASE StakingTx
  BY <1>4 DEF StakingTx, StakingExecute, Stake, Unstake, ClaimRewards, ownership, config
<1>5. CASE Dispatch \/ Revert
  BY <1>5 DEF Dispatch, Revert, ownership, config
<1> QED BY <1>1, <1>2, <1>3, <1>4, <1>5 DEF Next

LEMMA NoHeirStep ==
    ASSUME NoHeir, [Next]_vars
    PROVE  NoHeir' /\ (owner = None => owner' = None /\ UNCHANGED config)
<1>1. \A u \in Users : u # None
  BY UsersFinite, AddrAssumption
<1> QED BY <1>1, OwnershipStep
        DEF NoHeir, UpdateOwnership, TransferOwnership, AcceptOwnership, RenounceOwnership,
            IsOwner, ownership, config

(***************************************************************************)
(* Renounced terms stay as they are, because renouncing voids the offer    *)
(* that was pending.                                                       *)
(***************************************************************************)
THEOREM RenouncingIsFinal == Spec => RenouncedTermsAreFinal
<1>1. Init => NoHeir
  BY DEF Init, StakingInit, InitOwner, NoHeir
<1>2. NoHeir /\ [Next]_vars => NoHeir'
  BY NoHeirStep
<1>3. NoHeir /\ [Next]_vars => [owner = None => owner' = None /\ UNCHANGED config]_vars
  BY NoHeirStep
<1> QED BY <1>1, <1>2, <1>3, PTL DEF Spec, RenouncedTermsAreFinal

-----------------------------------------------------------------------------
(* What may close a stake that was free, or free one that was stuck.        *)

(***************************************************************************)
(* What a step does to the stored stake of one staker: nothing, while time *)
(* may pass; nothing, while its owner sets new terms; or it ends a         *)
(* transaction of this very staker.                                        *)
(***************************************************************************)
LEMMA StoredStakeStep ==
    ASSUME IInv, Underway, [Next]_vars, NEW u \in Users
    PROVE  \/ /\ committed'.staked[u] = committed.staked[u]
              /\ committed'.stakeTime[u] = committed.stakeTime[u]
              /\ now' \in {now, now + 1} /\ UNCHANGED config
           \/ /\ owner \in Users /\ UNCHANGED <<committed, now>>
              /\ apr' \in Nat /\ lockup' \in Nat
           \/ /\ \/ \E n \in Amounts : Depositing(u, n)
                 \/ Claiming(u)
                 \/ \E n \in Amounts : Leaving(u, n)
              /\ committed'.staked = staked /\ committed'.stakeTime = stakeTime
              /\ now' = now /\ UNCHANGED config
<1>1. CASE TokenTx
  BY <1>1, IdleWorksOnStored DEF TokenTx, stakingVars, config, Store
<1>2. CASE GovernanceTx
  BY <1>2, StakingAssumption
     DEF GovernanceTx, GovernanceExecute, ChangeConfig, StakingUpdateOwnership, IsOwner
<1>3. CASE Block
  BY <1>3 DEF Block, NextBlock, Tick
<1>4. CASE StakingTx
  BY <1>4, HandlerBegins DEF config
<1>5. CASE Dispatch
  <2>1. now' = now /\ UNCHANGED config
    BY <1>5 DEF Dispatch, config
  <2>2. CASE Tail(outbox) # <<>>
    BY <1>5, <2>1, <2>2 DEF Dispatch
  <2>3. CASE Tail(outbox) = <<>>
    <3>1. committed'.staked = staked /\ committed'.stakeTime = stakeTime /\ ~ Idle
      BY <1>5, <2>3 DEF Dispatch, Store
    <3>2. /\ committed.staked \in [Users -> Nat] /\ committed.stakeTime \in [Users -> Nat]
      BY StoredTypes
    <3>3. ASSUME NEW v \in Users, v # u,
                 (\E n \in Amounts : Depositing(v, n)) \/ Claiming(v)
                    \/ (\E n \in Amounts : Leaving(v, n))
          PROVE  staked[u] = committed.staked[u] /\ stakeTime[u] = committed.stakeTime[u]
      BY <3>2, <3>3 DEF Depositing, Claiming, Leaving, Credit, Debit
    <3> QED BY <2>1, <3>1, <3>3 DEF Underway
  <2> QED BY <2>2, <2>3
<1>6. CASE Revert \/ UNCHANGED vars
  BY <1>6 DEF Revert, vars, stakingVars, config
<1> QED BY <1>1, <1>2, <1>3, <1>4, <1>5, <1>6 DEF Next

\* A later block is not an earlier second.
LEMMA NextSecond ==
    ASSUME IInv, now' \in {now, now + 1}
    PROVE  now' \in Nat /\ Seconds(now) <= Seconds(now') /\ Seconds(now) \in Nat
                        /\ Seconds(now') \in Nat
<1>1. now \in Nat /\ now' \in Nat /\ now <= now'
  BY StoredTypes
<1> QED BY <1>1, SecondsMonotonic, TimeAssumption DEF Seconds

(***************************************************************************)
(* A free stake is closed only by its staker, or by an owner who raises    *)
(* the lock-up.                                                            *)
(***************************************************************************)
THEOREM FreeStakesStayFree == Spec => MaturityIsKept
<1> DEFINE Kept == \A u \in Users : StoredMatured(u) /\ ~ StoredMatured(u)' =>
                       \/ outbox # <<>> /\ outbox[1].user = u
                       \/ owner \in Users /\ lockup' > lockup
<1>1. ASSUME IInv, Underway, [Next]_vars PROVE Kept
  <2> SUFFICES ASSUME NEW u \in Users, StoredMatured(u), ~ StoredMatured(u)'
               PROVE  \/ outbox # <<>> /\ outbox[1].user = u
                      \/ owner \in Users /\ lockup' > lockup
    OBVIOUS
  <2>1. /\ committed.stakeTime[u] \in Nat /\ lockup \in Nat
        /\ Seconds(committed.stakeTime[u]) \in Nat /\ Seconds(now) \in Nat
    BY <1>1, StoredTypes, TimeAssumption DEF Seconds
  <2>2. CASE /\ committed'.stakeTime[u] = committed.stakeTime[u]
             /\ now' \in {now, now + 1} /\ UNCHANGED config
    BY <1>1, <2>1, <2>2, NextSecond DEF StoredMatured, config
  <2>3. CASE owner \in Users /\ UNCHANGED <<committed, now>> /\ lockup' \in Nat
    BY <2>1, <2>3 DEF StoredMatured
  <2>4. CASE \/ \E n \in Amounts : Depositing(u, n)
             \/ Claiming(u)
             \/ \E n \in Amounts : Leaving(u, n)
    BY <2>4 DEF Depositing, Claiming, Leaving, Msg
  <2> QED BY <1>1, <2>2, <2>3, <2>4, StoredStakeStep
<1>2. IInv /\ Underway /\ [Next]_vars => [Kept]_vars
  BY <1>1
<1> QED BY <1>2, ProtocolInvariance, UnderwayInvariance, PTL DEF Spec, MaturityIsKept

-----------------------------------------------------------------------------
\* A product of naturals grows with each factor.
LEMMA FactorGrows ==
    ASSUME NEW x \in Nat, NEW y \in Nat, NEW z \in Nat, x <= y
    PROVE  x * z <= y * z /\ x * z \in Nat /\ y * z \in Nat
<1> DEFINE d == y - x
<1>1. d \in Nat /\ y = x + d
  OBVIOUS
<1> HIDE DEF d
<1>2. (x + d) * z = x * z + d * z /\ d * z \in Nat /\ x * z \in Nat
  BY <1>1
<1> QED BY <1>1, <1>2

\* A reward that panics also does so for more tokens, seconds or percents.
LEMMA PanicsGrow ==
    ASSUME NEW a \in Nat, NEW b \in Nat, NEW s \in Nat, NEW t \in Nat,
           NEW q \in Nat, NEW r \in Nat, a <= b, s <= t, q <= r,
           RewardPanics(a, s, q)
    PROVE  RewardPanics(b, t, r)
<1>1. a * q <= b * q /\ a * q \in Nat /\ b * q \in Nat
  BY FactorGrows
<1>2. q * b <= r * b /\ r * b \in Nat /\ q * b = b * q /\ r * b = b * r
  BY FactorGrows
<1>3. a * q <= b * r /\ b * r \in Nat
  BY <1>1, <1>2
<1> DEFINE x == a * q
           y == b * r
<1> HIDE DEF x, y
<1>4. x \in Nat /\ y \in Nat /\ x <= y
  BY <1>1, <1>3 DEF x, y
<1>5. x * s <= y * s /\ x * s \in Nat /\ y * s \in Nat
  BY <1>4, FactorGrows
<1>6. s * y <= t * y /\ t * y \in Nat /\ s * y = y * s /\ t * y = y * t
  BY <1>4, FactorGrows
<1>7. x * s <= y * t /\ x * s \in Nat /\ y * t \in Nat
  BY <1>5, <1>6
<1>8. ~ (x * s <= MaxUint)
  BY DEF RewardPanics, Fits, Product, x
<1>9. ~ (y * t <= MaxUint)
  BY <1>7, <1>8, UintAssumption
<1> QED BY <1>9 DEF RewardPanics, Fits, Product, y

(***************************************************************************)
(* A stake whose reward has left u128 is freed only by an owner who lowers *)
(* the apr.                                                                *)
(***************************************************************************)
THEOREM StuckStakesStayStuck == Spec => StuckUntilRateFalls
<1> DEFINE Kept == \A u \in Users : StoredPanics(u) /\ ~ StoredPanics(u)' =>
                       owner \in Users /\ apr' < apr
<1>1. ASSUME IInv, Underway, [Next]_vars PROVE Kept
  <2> SUFFICES ASSUME NEW u \in Users, StoredPanics(u), ~ StoredPanics(u)'
               PROVE  owner \in Users /\ apr' < apr
    OBVIOUS
  <2> DEFINE seconds == Seconds(now) - Seconds(committed.stakeTime[u])
  <2>1. /\ committed.stakeTime[u] \in Nat /\ committed.staked[u] \in Nat
        /\ committed.stakeTime[u] # NoEntry
        /\ apr \in Nat /\ now \in Nat /\ seconds \in Nat
        /\ RewardPanics(committed.staked[u], seconds, apr)
    <3>1. /\ committed.stakeTime[u] \in Nat /\ committed.staked[u] \in Nat
          /\ committed.stakeTime[u] # NoEntry /\ committed.stakeTime[u] <= now
          /\ apr \in Nat /\ now \in Nat
      BY <1>1, StoredTypes DEF StoredPanics
    <3>2. seconds \in Nat
      BY <3>1, SecondsMonotonic
    <3> QED BY <3>1, <3>2 DEF StoredPanics
  <2>2. CASE /\ committed'.staked[u] = committed.staked[u]
             /\ committed'.stakeTime[u] = committed.stakeTime[u]
             /\ now' \in {now, now + 1} /\ UNCHANGED config
    <3>1. /\ Seconds(now') - Seconds(committed.stakeTime[u]) \in Nat
          /\ seconds <= Seconds(now') - Seconds(committed.stakeTime[u])
      <4>1. Seconds(committed.stakeTime[u]) \in Nat
        BY <2>1, TimeAssumption DEF Seconds
      <4> QED BY <1>1, <2>1, <2>2, <4>1, NextSecond
    <3>2. RewardPanics(committed.staked[u], Seconds(now') - Seconds(committed.stakeTime[u]), apr)
      BY <2>1, <3>1, PanicsGrow
    <3> QED BY <2>1, <2>2, <3>2 DEF StoredPanics, config
  <2>3. CASE owner \in Users /\ UNCHANGED <<committed, now>> /\ apr' \in Nat
    <3>1. apr <= apr' => RewardPanics(committed.staked[u], seconds, apr')
      BY <2>1, <2>3, PanicsGrow
    <3> QED BY <2>1, <2>3, <3>1 DEF StoredPanics
  <2>4. CASE /\ \E n \in Amounts : Depositing(u, n)
             /\ committed'.staked = staked /\ committed'.stakeTime = stakeTime
             /\ now' = now /\ UNCHANGED config
    <3>1. PICK n \in Amounts : Depositing(u, n)
      BY <2>4
    <3>2. n \in Nat /\ committed.staked \in [Users -> Nat] /\ committed.stakeTime \in [Users -> Nat]
      BY <1>1, StoredTypes, UintIsNat, UintAssumption
    <3>3. staked[u] = committed.staked[u] + n /\ stakeTime[u] = committed.stakeTime[u]
      BY <2>1, <3>1, <3>2 DEF Depositing, Credit
    <3>4. staked[u] \in Nat /\ committed.staked[u] <= staked[u]
      BY <2>1, <3>2, <3>3
    <3>5. RewardPanics(staked[u], seconds, apr)
      BY <2>1, <3>4, PanicsGrow
    <3> QED BY <2>1, <2>4, <3>3, <3>5 DEF StoredPanics, config
  <2>5. CASE Claiming(u) \/ \E n \in Amounts : Leaving(u, n)
    BY <2>5 DEF Claiming, Leaving
  <2> QED BY <1>1, <2>2, <2>3, <2>4, <2>5, StoredStakeStep
<1>2. IInv /\ Underway /\ [Next]_vars => [Kept]_vars
  BY <1>1
<1> QED BY <1>2, ProtocolInvariance, UnderwayInvariance, PTL DEF Spec, StuckUntilRateFalls

=============================================================================
