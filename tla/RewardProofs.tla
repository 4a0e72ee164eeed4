---------------------------- MODULE RewardProofs ----------------------------
(***************************************************************************)
(* Rewards against what was earned, for any number of stakers, any amounts,*)
(* rates, lock-ups and times, and every sequence of messages.              *)
(*                                                                         *)
(* The auditor's books follow the stored state, so the invariant speaks of *)
(* the stored stake of each staker: what was paid, plus what the window    *)
(* that is open is worth, against what accrued second by second.           *)
(***************************************************************************)
EXTENDS RewardHistory, VaultProofs

\* The seconds the open window of a stored stake has lasted, and its worth.
Window(u) ==
    IF committed.stakeTime[u] = NoEntry THEN 0
    ELSE Seconds(now) - Seconds(committed.stakeTime[u])

Worth(u) == Product(committed.staked[u], Window(u), apr)

BooksTyped ==
    /\ accrued \in [Users -> Nat] /\ paid \in [Users -> Nat] /\ served \in [Users -> Nat]
    /\ peak \in [Users -> Nat] /\ payouts \in [Users -> Nat] /\ uneven \in [Users -> BOOLEAN]

Settled(u) ==
    ~ uneven[u] =>
        /\ paid[u] * Unit + Worth(u) <= accrued[u]
        /\ accrued[u] <= paid[u] * Unit + Worth(u) + payouts[u] * (Unit - 1)

\* The window that is open is among the seconds served, and not yet paid.
Peaked(u) ==
    /\ committed.staked[u] <= peak[u]
    /\ Window(u) <= served[u]
    /\ \E top \in Rates :
          apr <= top /\ paid[u] * Unit <= Product(peak[u], served[u] - Window(u), top)

AuditInv == BooksTyped /\ \A u \in Users : Settled(u) /\ Peaked(u)

-----------------------------------------------------------------------------
(* Arithmetic.                                                              *)

\* The two divisions lose less than one token.
LEMMA DivisionsLose ==
    ASSUME NEW p \in Nat
    PROVE  LET d == (p \div BasisPoints) \div Year
           IN  /\ d \in Nat
               /\ d * Unit <= p /\ p <= d * Unit + (Unit - 1)
               /\ Unit \in Nat /\ Unit - 1 \in Nat
<1> DEFINE q == p \div BasisPoints
           r == p % BasisPoints
           d == q \div Year
           e == q % Year
<1>1. BasisPoints \in Nat /\ Year \in Nat /\ BasisPoints > 0 /\ Year > 0
  BY RewardAssumption
<1>2. p = BasisPoints * q + r /\ q \in Nat /\ r \in Nat /\ r <= BasisPoints - 1
  BY <1>1
<1>3. q = Year * d + e /\ d \in Nat /\ e \in Nat /\ e <= Year - 1
  BY <1>1, <1>2
<1> HIDE DEF q, r, d, e
<1>4. BasisPoints * q = BasisPoints * (Year * d) + BasisPoints * e
  BY <1>1, <1>3
<1>5. BasisPoints * (Year * d) = d * (BasisPoints * Year)
  BY <1>1, <1>3
<1>6. e * BasisPoints <= (Year - 1) * BasisPoints /\ e * BasisPoints \in Nat
  <2>1. Year - 1 \in Nat
    BY <1>1
  <2> QED BY <1>1, <1>3, <2>1, FactorGrows
<1>7. (Year - 1) * BasisPoints = BasisPoints * Year - BasisPoints
      /\ e * BasisPoints = BasisPoints * e
  BY <1>1, <1>3
<1>8. BasisPoints * Year \in Nat /\ BasisPoints * Year >= BasisPoints
  <2>1. 1 * BasisPoints <= Year * BasisPoints
    BY <1>1, FactorGrows
  <2> QED BY <1>1, <2>1
<1>9. d * (BasisPoints * Year) \in Nat
  BY <1>3, <1>8
<1> DEFINE U == BasisPoints * Year
           x == d * U
           y == BasisPoints * e
<1>10. /\ p = x + y + r /\ x \in Nat /\ y \in Nat /\ U \in Nat /\ U >= BasisPoints
       /\ y <= U - BasisPoints
  BY <1>1, <1>2, <1>4, <1>5, <1>6, <1>7, <1>8, <1>9
<1> HIDE DEF x, y, U
<1>11. x <= p /\ p <= x + (U - 1) /\ U - 1 \in Nat
  BY <1>1, <1>2, <1>10
<1> QED BY <1>3, <1>10, <1>11 DEF q, d, U, x, Unit

\* A product of naturals is monotone, and additive in its seconds.
LEMMA ProductGrows ==
    ASSUME NEW a \in Nat, NEW b \in Nat, NEW s \in Nat, NEW t \in Nat,
           NEW q \in Nat, NEW r \in Nat, a <= b, s <= t, q <= r
    PROVE  /\ Product(a, s, q) \in Nat /\ Product(b, t, r) \in Nat
           /\ Product(a, s, q) <= Product(b, t, r)
<1>1. a * q <= b * q /\ a * q \in Nat /\ b * q \in Nat
  BY FactorGrows
<1>2. q * b <= r * b /\ q * b = b * q /\ r * b = b * r /\ r * b \in Nat
  BY FactorGrows
<1> DEFINE x == a * q
           y == b * r
<1>3. x \in Nat /\ y \in Nat /\ x <= y
  BY <1>1, <1>2
<1> HIDE DEF x, y
<1>4. x * s <= y * s /\ x * s \in Nat /\ y * s \in Nat
  BY <1>3, FactorGrows
<1>5. s * y <= t * y /\ s * y = y * s /\ t * y = y * t /\ t * y \in Nat
  BY <1>3, FactorGrows
<1>6. x * s \in Nat /\ y * t \in Nat /\ x * s <= y * t
  BY <1>4, <1>5
<1> QED BY <1>6 DEF Product, x, y

LEMMA ProductSplits ==
    ASSUME NEW a \in Nat, NEW q \in Nat
    PROVE  /\ Product(a, 0, q) = 0
           /\ \A s, t \in Nat : /\ Product(a, s, q) \in Nat
                                /\ Product(a, s + t, q) = Product(a, s, q) + Product(a, t, q)
<1> DEFINE x == a * q
<1>1. x \in Nat
  OBVIOUS
<1> HIDE DEF x
<1>2. /\ x * 0 = 0
      /\ \A s, t \in Nat : x * s \in Nat /\ x * (s + t) = x * s + x * t
  BY <1>1
<1> QED BY <1>2 DEF Product, x

-----------------------------------------------------------------------------
(* What a step does to one staker's stored stake and to its books.          *)

SameBooks(u) ==
    /\ accrued'[u] = accrued[u] /\ paid'[u] = paid[u] /\ served'[u] = served[u]
    /\ peak'[u] = peak[u] /\ payouts'[u] = payouts[u] /\ uneven'[u] = uneven[u]

SameStake(u) ==
    /\ committed'.staked[u] = committed.staked[u]
    /\ committed'.stakeTime[u] = committed.stakeTime[u]

Rests(u) == SameBooks(u) /\ SameStake(u) /\ UNCHANGED <<now, apr>>

Earns(u) ==
    LET second == Seconds(now + 1) - Seconds(now)
    IN  /\ accrued'[u] = accrued[u] + Product(committed.staked[u], second, apr)
        /\ served'[u] = served[u] + IF committed.stakeTime[u] # NoEntry THEN second ELSE 0
        /\ paid'[u] = paid[u] /\ peak'[u] = peak[u]
        /\ payouts'[u] = payouts[u] /\ uneven'[u] = uneven[u]
        /\ SameStake(u) /\ now' = now + 1 /\ apr' = apr

Reterms(u) ==
    /\ accrued'[u] = accrued[u] /\ paid'[u] = paid[u] /\ served'[u] = served[u]
    /\ peak'[u] = peak[u] /\ payouts'[u] = payouts[u]
    /\ uneven'[u] = (uneven[u] \/ (apr' # apr /\ committed.stakeTime[u] # NoEntry))
    /\ SameStake(u) /\ now' = now /\ apr' \in Rates

Deposits(u, n) ==
    /\ committed'.staked[u] = committed.staked[u] + n
    /\ committed'.stakeTime[u] =
            IF committed.stakeTime[u] = NoEntry THEN now ELSE committed.stakeTime[u]
    /\ accrued'[u] = accrued[u] /\ paid'[u] = paid[u] /\ served'[u] = served[u]
    /\ payouts'[u] = payouts[u]
    /\ peak'[u] = IF n > 0 /\ committed.staked[u] + n > peak[u]
                  THEN committed.staked[u] + n ELSE peak[u]
    /\ uneven'[u] = (uneven[u] \/ (n > 0 /\ committed.stakeTime[u] # NoEntry))
    /\ UNCHANGED <<now, apr>>

PaysOut(u) ==
    /\ committed.stakeTime[u] # NoEntry
    /\ committed'.staked[u] \in Nat /\ committed'.staked[u] <= committed.staked[u]
    /\ committed'.stakeTime[u] \in {now, NoEntry}
    /\ paid'[u] = paid[u] + StoredDue(u)
    /\ payouts'[u] = payouts[u] + IF Window(u) > 0 THEN 1 ELSE 0
    /\ accrued'[u] = accrued[u] /\ served'[u] = served[u]
    /\ peak'[u] = peak[u] /\ uneven'[u] = uneven[u]
    /\ UNCHANGED <<now, apr>>

\* A committing message about one staker is no other staker's.
LEMMA OthersRest ==
    ASSUME IInv, BooksTyped, AuditDispatch, NEW u \in Users, NEW m, outbox = <<m>>, m.user # u,
           staked[u] = committed.staked[u], stakeTime[u] = committed.stakeTime[u]
    PROVE  Rests(u)
<1>1. /\ committed.staked[u] \in Nat /\ now' = now /\ apr' = apr
      /\ committed'.staked = staked /\ committed'.stakeTime = stakeTime
  BY StoredTypes, LastMessageStores DEF AuditDispatch
<1>2. ~ Grew(u) /\ ~ PaidOut(u)
  BY <1>1 DEF Grew, PaidOut
<1>3. Commits /\ Head(outbox).user # u
  BY DEF Commits, Idle
<1>4. peak'[u] = peak[u] /\ payouts'[u] = payouts[u] /\ uneven'[u] = uneven[u]
  <2>1. payouts'[u] = payouts[u] + 0 /\ payouts[u] \in Nat
    BY <1>2, <1>3 DEF AuditDispatch, BooksTyped
  <2>2. uneven'[u] = (uneven[u] \/ (Grew(u) /\ WasOpen(u))) /\ uneven[u] \in BOOLEAN
    BY <1>3 DEF AuditDispatch, BooksTyped
  <2>3. peak'[u] = IF Grew(u) /\ staked[u] > peak[u] THEN staked[u] ELSE peak[u]
    BY <1>3 DEF AuditDispatch
  <2> QED BY <1>2, <2>1, <2>2, <2>3
<1>5. paid'[u] = paid[u] /\ accrued' = accrued /\ served' = served
  BY <1>3 DEF AuditDispatch, BooksTyped
<1> QED BY <1>1, <1>4, <1>5 DEF Rests, SameBooks, SameStake

\* The message that ends a transaction, for the staker it is about.
LEMMA DepositCounts ==
    ASSUME IInv, BooksTyped, AuditDispatch, NEW u \in Users, NEW n \in Amounts, Depositing(u, n)
    PROVE  Deposits(u, n)
<1>1. /\ committed'.staked = staked /\ committed'.stakeTime = stakeTime
      /\ UNCHANGED <<now, apr>> /\ Executes(Msg("transfer_from", u, n))
  BY LastMessageStores DEF AuditDispatch, Depositing
<1>2. n \in Nat /\ now # NoEntry /\ committed.staked[u] \in Nat
      /\ committed.staked \in [Users -> Nat] /\ committed.stakeTime \in [Users -> Nat]
      /\ committed.totalSupply \in Nat
  BY StoredTypes, UintIsNat, UintAssumption
<1>3. /\ staked[u] = committed.staked[u] + n
      /\ stakeTime[u] = IF committed.stakeTime[u] = NoEntry THEN now ELSE committed.stakeTime[u]
  BY <1>2 DEF Depositing, Credit
<1>4. /\ Grew(u) <=> n > 0
      /\ ~ PaidOut(u)
  BY <1>2, <1>3 DEF Grew, PaidOut, WasOpen
<1>5. totalSupply' = committed.totalSupply
  BY <1>1 DEF Depositing, Executes, Msg, TransferFrom
<1>6. Commits /\ Head(outbox).user = u
  BY DEF Depositing, Commits, Idle, Msg
<1>7. paid'[u] = paid[u] /\ accrued' = accrued /\ served' = served
  BY <1>2, <1>5, <1>6 DEF AuditDispatch, BooksTyped
<1>8. payouts'[u] = payouts[u] /\ uneven'[u] = (uneven[u] \/ (Grew(u) /\ WasOpen(u)))
  <2>1. payouts'[u] = payouts[u] + 0 /\ payouts[u] \in Nat
    BY <1>4, <1>6 DEF AuditDispatch, BooksTyped
  <2>2. uneven'[u] = (uneven[u] \/ (Grew(u) /\ WasOpen(u)))
    BY <1>6 DEF AuditDispatch
  <2> QED BY <2>1, <2>2
<1>9. peak'[u] = IF Grew(u) /\ staked[u] > peak[u] THEN staked[u] ELSE peak[u]
  BY <1>6 DEF AuditDispatch
<1> QED BY <1>1, <1>3, <1>4, <1>7, <1>8, <1>9 DEF Deposits, WasOpen

LEMMA PayoutCounts ==
    ASSUME IInv, BooksTyped, AuditDispatch, Commits, NEW u \in Users,
           Claiming(u) \/ \E n \in Amounts : Leaving(u, n)
    PROVE  PaysOut(u)
<1>1. /\ committed.staked[u] \in Nat /\ committed.staked \in [Users -> Nat]
      /\ committed.stakeTime \in [Users -> Nat] /\ committed.totalSupply \in Nat
      /\ committed.stakeTime[u] # NoEntry /\ now # NoEntry /\ now \in Nat
      /\ committed.stakeTime[u] <= now
  BY StoredTypes DEF Claiming, Leaving, StoredMatured
<1>2. StoredDue(u) \in Nat /\ \A n \in Amounts : n \in Nat
  BY StoredDueIsUint, UintIsNat, UintAssumption DEF Claiming, Leaving
<1>3. /\ committed'.staked = staked /\ committed'.stakeTime = stakeTime
      /\ UNCHANGED <<now, apr>> /\ totalSupply' = committed.totalSupply + StoredDue(u)
      /\ Head(outbox).user = u
      /\ staked[u] \in Nat /\ staked[u] <= committed.staked[u]
      /\ stakeTime[u] \in {now, NoEntry}
  <2>1. CASE Claiming(u)
    <3>1. /\ committed'.staked = staked /\ committed'.stakeTime = stakeTime
          /\ UNCHANGED <<now, apr>> /\ Executes(Msg("mint", u, StoredDue(u)))
      BY <2>1, LastMessageStores DEF AuditDispatch, Claiming
    <3>2. totalSupply' = totalSupply + StoredDue(u)
      BY <3>1 DEF Executes, Msg, Mint
    <3> QED BY <1>1, <2>1, <3>1, <3>2 DEF Claiming, Msg
  <2>2. CASE \E n \in Amounts : Leaving(u, n)
    <3>1. PICK n \in Amounts : Leaving(u, n)
      BY <2>2
    <3>2. /\ outbox = <<Msg("transfer", u, n)>>
          /\ totalSupply = committed.totalSupply + StoredDue(u)
      <4>1. Len(outbox) = 1 /\ \A m1, m2 : Len(<<m1, m2>>) = 2
        BY DEF Commits
      <4> QED BY <3>1, <4>1 DEF Leaving
    <3>3. /\ committed'.staked = staked /\ committed'.stakeTime = stakeTime
          /\ UNCHANGED <<now, apr>> /\ Executes(Msg("transfer", u, n))
      BY <3>2, LastMessageStores DEF AuditDispatch
    <3>4. totalSupply' = totalSupply
      BY <3>3 DEF Executes, Msg, Transfer
    <3>5. staked[u] = committed.staked[u] - n /\ n <= committed.staked[u] /\ n \in Nat
      BY <1>1, <1>2, <3>1 DEF Leaving, Debit
    <3>6. stakeTime[u] \in {now, NoEntry}
      BY <1>1, <3>1 DEF Leaving
    <3> QED BY <1>1, <3>2, <3>3, <3>4, <3>5, <3>6 DEF Msg
  <2> QED BY <2>1, <2>2
<1>4. Seconds(now) \in Nat /\ Seconds(committed.stakeTime[u]) \in Nat
      /\ Seconds(committed.stakeTime[u]) <= Seconds(now)
  BY <1>1, SecondsMonotonic
<1>5. ~ Grew(u) /\ (PaidOut(u) <=> Window(u) > 0)
  BY <1>1, <1>3, <1>4 DEF Grew, PaidOut, WasOpen, Window
<1>6. paid'[u] = paid[u] + StoredDue(u)
  <2>1. paid'[u] = paid[u] + totalSupply' - committed.totalSupply
    BY <1>3 DEF AuditDispatch, BooksTyped
  <2> QED BY <1>1, <1>2, <1>3, <2>1 DEF BooksTyped
<1>7. /\ payouts'[u] = payouts[u] + IF PaidOut(u) THEN 1 ELSE 0
      /\ uneven'[u] = (uneven[u] \/ (Grew(u) /\ WasOpen(u)))
      /\ accrued' = accrued /\ served' = served
  BY DEF AuditDispatch
<1>8. peak'[u] = IF Grew(u) /\ staked[u] > peak[u] THEN staked[u] ELSE peak[u]
  BY DEF AuditDispatch
<1>9. uneven'[u] = uneven[u] /\ peak'[u] = peak[u]
  BY <1>5, <1>7, <1>8 DEF BooksTyped
<1> QED BY <1>1, <1>3, <1>5, <1>6, <1>7, <1>9 DEF PaysOut

\* A message that is not the last one stores nothing.
LEMMA UnfinishedRests ==
    ASSUME Underway, AuditDispatch, ~ Commits
    PROVE  committed' = committed /\ UNCHANGED <<now, apr>>
<1>1. ~ Idle /\ Len(outbox) # 1 /\ \A m1 : Len(<<m1>>) = 1
  BY DEF AuditDispatch, Dispatch, Commits
<1>2. Tail(outbox) # <<>>
  <2>1. \E m1, m2 : outbox = <<m1, m2>>
    BY <1>1 DEF Underway, Depositing, Claiming, Leaving
  <2> QED BY <2>1
<1> QED BY <1>2 DEF AuditDispatch, Dispatch, config

LEMMA DispatchCounts ==
    ASSUME IInv, Underway, BooksTyped, AuditDispatch, NEW u \in Users
    PROVE  Rests(u) \/ (\E n \in Nat : Deposits(u, n)) \/ PaysOut(u)
<1>1. CASE ~ Commits
  BY <1>1, UnfinishedRests DEF AuditDispatch, Rests, SameBooks, SameStake
<1>2. CASE Commits
  <2>1. /\ committed.staked \in [Users -> Nat] /\ committed.stakeTime \in [Users -> Nat]
        /\ \A n \in Amounts : n \in Nat
    BY StoredTypes, UintIsNat, UintAssumption
  <2>2. PICK v \in Users :
            (\E n \in Amounts : Depositing(v, n)) \/ Claiming(v)
               \/ (\E n \in Amounts : Leaving(v, n))
    BY <1>2 DEF Commits, Underway
  <2>3. CASE u = v
    BY <1>2, <2>1, <2>2, <2>3, DepositCounts, PayoutCounts
  <2>4. CASE u # v
    <3>1. staked[u] = committed.staked[u] /\ stakeTime[u] = committed.stakeTime[u]
      BY <2>1, <2>2, <2>4 DEF Depositing, Claiming, Leaving, Credit, Debit
    <3>2. \E m : outbox = <<m>> /\ m.user = v
      <4>1. Len(outbox) = 1 /\ \A m1, m2 : Len(<<m1, m2>>) = 2
        BY <1>2 DEF Commits
      <4> QED BY <2>2, <4>1 DEF Depositing, Claiming, Leaving, Msg
    <3> QED BY <2>4, <3>1, <3>2, OthersRest
  <2> QED BY <2>3, <2>4
<1> QED BY <1>1, <1>2

\* Every step, for one staker.
LEMMA BooksStep ==
    ASSUME IInv, Underway, BooksTyped, [AuditNext]_<<vars, auditVars>>, NEW u \in Users
    PROVE  \/ Rests(u) \/ Earns(u) \/ Reterms(u)
           \/ (\E n \in Nat : Deposits(u, n)) \/ PaysOut(u)
<1>1. CASE AuditBlock
  <2>1. committed = Store /\ committed' = committed /\ now' = now + 1 /\ apr' = apr
    BY <1>1, IdleWorksOnStored DEF AuditBlock, Block, NextBlock, Tick, config
  <2>2. staked[u] = committed.staked[u] /\ stakeTime[u] = committed.stakeTime[u]
    BY <2>1 DEF Store
  <2> QED BY <1>1, <2>1, <2>2 DEF AuditBlock, Earns, SameStake, HasStake
<1>2. CASE AuditGovernance
  <2>1. committed = Store /\ committed' = committed
    BY <1>2, IdleWorksOnStored DEF AuditGovernance, GovernanceTx
  <2>2. now' = now /\ apr' \in Rates
    BY <1>2 DEF AuditGovernance, GovernanceTx, GovernanceExecute, ChangeConfig,
                StakingUpdateOwnership, config, IInv, StakesSound, StakingTypeOK
  <2>3. stakeTime[u] = committed.stakeTime[u]
    BY <2>1 DEF Store
  <2> QED BY <1>2, <2>1, <2>2, <2>3 DEF AuditGovernance, Reterms, SameStake, HasStake
<1>3. CASE AuditDispatch
  BY <1>3, DispatchCounts
<1>4. CASE TokenTx /\ UNCHANGED auditVars
  <2>1. /\ committed'.staked = committed.staked /\ committed'.stakeTime = committed.stakeTime
        /\ UNCHANGED <<now, apr>>
    BY <1>4, IdleWorksOnStored DEF TokenTx, stakingVars, config, Store
  <2> QED BY <1>4, <2>1 DEF auditVars, Rests, SameBooks, SameStake
<1>5. CASE (StakingTx \/ Revert \/ UNCHANGED vars) /\ UNCHANGED auditVars
  <2>1. UNCHANGED <<committed, now, apr>>
    BY <1>5, HandlerBegins DEF Revert, config, vars, stakingVars
  <2> QED BY <1>5, <2>1 DEF auditVars, Rests, SameBooks, SameStake
<1> QED BY <1>1, <1>2, <1>3, <1>4, <1>5 DEF AuditNext

-----------------------------------------------------------------------------
(* Each kind of step keeps one staker's accounts straight.                  *)

\* The facts about numbers the steps below need.
LEMMA WindowTyped ==
    ASSUME IInv, BooksTyped, NEW u \in Users
    PROVE  /\ Window(u) \in Nat /\ committed.staked[u] \in Nat
           /\ apr \in Nat /\ Rates \subseteq Nat
           /\ Worth(u) \in Nat /\ Product(committed.staked[u], 0, apr) = 0
           /\ committed.stakeTime[u] = NoEntry =>
                  Window(u) = 0 /\ Worth(u) = 0 /\ committed.staked[u] = 0
           /\ accrued[u] \in Nat /\ paid[u] \in Nat /\ served[u] \in Nat
           /\ peak[u] \in Nat /\ payouts[u] \in Nat /\ uneven[u] \in BOOLEAN
           /\ Unit \in Nat /\ Unit - 1 \in Nat
<1>1. /\ committed.staked[u] \in Nat /\ committed.stakeTime[u] \in Nat
      /\ apr \in Nat /\ now \in Nat
      /\ committed.stakeTime[u] # NoEntry => committed.stakeTime[u] <= now
  BY StoredTypes
<1>2. Window(u) \in Nat
  BY <1>1, SecondsMonotonic DEF Window
<1>3. Worth(u) \in Nat /\ Product(committed.staked[u], 0, apr) = 0
  BY <1>1, <1>2, ProductSplits DEF Worth
<1>4. committed.stakeTime[u] = NoEntry => Window(u) = 0 /\ committed.staked[u] = 0
  BY DEF Window, IInv, StoreSound
<1>5. Window(u) = 0 => Worth(u) = 0
  BY <1>3 DEF Worth
<1>6. Unit \in Nat /\ Unit - 1 \in Nat
  BY DivisionsLose
<1> QED BY <1>1, <1>2, <1>3, <1>4, <1>5, <1>6, StakingAssumption DEF BooksTyped

LEMMA RestsKeeps ==
    ASSUME IInv, BooksTyped, NEW u \in Users, Settled(u), Peaked(u), Rests(u)
    PROVE  Settled(u)' /\ Peaked(u)'
<1>1. Window(u)' = Window(u)
  BY DEF Rests, SameStake, Window
<1>2. Worth(u)' = Worth(u)
  BY <1>1 DEF Rests, SameStake, Worth
<1> QED BY <1>1, <1>2 DEF Rests, SameBooks, SameStake, Settled, Peaked

\* A second that ends is worth what it adds to the open window.
LEMMA EarnsKeeps ==
    ASSUME IInv, BooksTyped, NEW u \in Users, Settled(u), Peaked(u), Earns(u)
    PROVE  /\ Settled(u)' /\ Peaked(u)'
           /\ accrued'[u] \in Nat /\ served'[u] \in Nat
<1> DEFINE second == Seconds(now + 1) - Seconds(now)
           earned == Product(committed.staked[u], second, apr)
           open == committed.stakeTime[u] # NoEntry
<1>1. now \in Nat /\ Seconds(now) \in Nat /\ second \in Nat /\ Seconds(now + 1) \in Nat
  <2>1. now \in Nat /\ now + 1 \in Nat /\ now <= now + 1
    BY StoredTypes
  <2> QED BY <2>1, SecondsMonotonic
<1> HIDE DEF second
<1>2. /\ accrued'[u] = accrued[u] + earned
      /\ served'[u] = served[u] + IF open THEN second ELSE 0
      /\ paid'[u] = paid[u] /\ peak'[u] = peak[u]
      /\ payouts'[u] = payouts[u] /\ uneven'[u] = uneven[u]
      /\ SameStake(u) /\ now' = now + 1 /\ apr' = apr
  BY DEF Earns, second
<1>3. Window(u)' = Window(u) + IF open THEN second ELSE 0
  <2>1. CASE open
    <3>1. Seconds(committed.stakeTime[u]) \in Nat
      BY StoredTypes, TimeAssumption DEF Seconds
    <3> QED BY <1>1, <1>2, <2>1, <3>1 DEF SameStake, Window, second
  <2>2. CASE ~ open
    BY <1>2, <2>2 DEF SameStake, Window
  <2> QED BY <2>1, <2>2
<1>4. Worth(u)' = Worth(u) + earned /\ earned \in Nat
  <2>1. /\ Product(committed.staked[u], Window(u) + second, apr)
             = Product(committed.staked[u], Window(u), apr) + earned
        /\ earned \in Nat
    <3>1. committed.staked[u] \in Nat /\ Window(u) \in Nat /\ apr \in Nat
      BY WindowTyped
    <3>2. \A s, t \in Nat :
              /\ Product(committed.staked[u], s, apr) \in Nat
              /\ Product(committed.staked[u], s + t, apr)
                     = Product(committed.staked[u], s, apr) + Product(committed.staked[u], t, apr)
      BY <3>1, ProductSplits
    <3> QED BY <1>1, <3>1, <3>2, Zenon
  <2>2. CASE open
    BY <1>2, <1>3, <2>1, <2>2 DEF SameStake, Worth
  <2>3. CASE ~ open
    <3>1. Product(committed.staked[u], second, apr) = 0
      <4>1. committed.staked[u] = 0 /\ apr \in Nat
        BY <2>3, WindowTyped
      <4>2. 0 * apr * second = 0
        BY <1>1, <4>1
      <4> QED BY <4>1, <4>2 DEF Product
    <3>2. Window(u)' = Window(u)
      BY <1>3, <2>3, WindowTyped
    <3> QED BY <1>2, <2>1, <3>1, <3>2, WindowTyped DEF SameStake, Worth
  <2> QED BY <2>2, <2>3
<1> HIDE DEF earned
<1>5. served'[u] - Window(u)' = served[u] - Window(u) /\ Window(u)' <= served'[u]
      /\ served'[u] \in Nat
  BY <1>1, <1>2, <1>3, WindowTyped DEF Peaked
<1>6. Peaked(u)'
  BY <1>2, <1>5 DEF Peaked, SameStake
<1>7. Settled(u)'
  <2> DEFINE x == paid[u] * Unit
             y == payouts[u] * (Unit - 1)
  <2>1. x \in Nat /\ y \in Nat
    BY WindowTyped
  <2>2. ~ uneven[u] => x + Worth(u) <= accrued[u] /\ accrued[u] <= x + Worth(u) + y
    BY DEF Settled
  <2> HIDE DEF x, y
  <2>3. ~ uneven'[u] => x + Worth(u)' <= accrued'[u] /\ accrued'[u] <= x + Worth(u)' + y
    BY <1>2, <1>4, <2>1, <2>2, WindowTyped
  <2> QED BY <1>2, <2>3 DEF Settled, x, y
<1> QED BY <1>2, <1>4, <1>5, <1>6, <1>7, WindowTyped

\* New terms leave the window of an even stake alone.
LEMMA RetermsKeeps ==
    ASSUME IInv, BooksTyped, NEW u \in Users, Settled(u), Peaked(u), Reterms(u)
    PROVE  Settled(u)' /\ Peaked(u)'
<1>1. Window(u)' = Window(u)
  BY DEF Reterms, SameStake, Window
<1>2. Settled(u)'
  <2>1. SUFFICES ASSUME ~ uneven'[u] PROVE Settled(u)'
    BY DEF Settled
  <2>2. ~ uneven[u] /\ (apr' = apr \/ committed.stakeTime[u] = NoEntry)
    BY <2>1 DEF Reterms
  <2>3. Worth(u)' = Worth(u)
    <3>1. CASE apr' = apr
      BY <1>1, <3>1 DEF Reterms, SameStake, Worth
    <3>2. CASE committed.stakeTime[u] = NoEntry
      <4>1. apr' \in Nat /\ Window(u) = 0 /\ Worth(u) = 0 /\ committed.staked[u] \in Nat
        BY <3>2, WindowTyped DEF Reterms
      <4>2. Product(committed.staked[u], 0, apr') = 0
        BY <4>1, ProductSplits
      <4> QED BY <1>1, <4>1, <4>2 DEF Reterms, SameStake, Worth
    <3> QED BY <2>2, <3>1, <3>2
  <2> QED BY <2>2, <2>3 DEF Settled, Reterms
<1>3. Peaked(u)'
  <2>1. PICK top \in Rates :
            apr <= top /\ paid[u] * Unit <= Product(peak[u], served[u] - Window(u), top)
    BY DEF Peaked
  <2>2. PICK higher \in Rates : apr' <= higher /\ top <= higher
    BY <2>1, WindowTyped DEF Reterms
  <2>3. served[u] - Window(u) \in Nat
    BY WindowTyped DEF Peaked
  <2>4. /\ Product(peak[u], served[u] - Window(u), top)
             <= Product(peak[u], served[u] - Window(u), higher)
        /\ Product(peak[u], served[u] - Window(u), top) \in Nat
        /\ Product(peak[u], served[u] - Window(u), higher) \in Nat
    <3>1. /\ top \in Nat /\ higher \in Nat /\ top <= higher
          /\ peak[u] \in Nat /\ peak[u] <= peak[u]
          /\ served[u] - Window(u) <= served[u] - Window(u)
      BY <2>1, <2>2, <2>3, WindowTyped
    <3> DEFINE s == served[u] - Window(u)
    <3> HIDE DEF s
    <3>2. Product(peak[u], s, top) <= Product(peak[u], s, higher)
          /\ Product(peak[u], s, top) \in Nat /\ Product(peak[u], s, higher) \in Nat
      <4>1. s \in Nat /\ s <= s
        BY <2>3, <3>1 DEF s
      <4> QED BY <3>1, <4>1, ProductGrows
    <3> QED BY <3>2 DEF s
  <2>5. paid[u] * Unit \in Nat
    BY WindowTyped
  <2>6. paid[u] * Unit <= Product(peak[u], served[u] - Window(u), higher)
    BY <2>1, <2>4, <2>5
  <2> QED BY <1>1, <2>2, <2>6 DEF Peaked, Reterms, SameStake
<1> QED BY <1>2, <1>3

\* A deposit opens an empty window, or makes a running one uneven.
LEMMA DepositsKeeps ==
    ASSUME IInv, BooksTyped, NEW u \in Users, Settled(u), Peaked(u), NEW n \in Nat, Deposits(u, n)
    PROVE  Settled(u)' /\ Peaked(u)' /\ peak'[u] \in Nat
<1>1. Window(u)' = Window(u)
  <2>1. CASE committed.stakeTime[u] = NoEntry
    <3>1. now # NoEntry /\ Seconds(now) \in Nat
      BY StoredTypes, TimeAssumption DEF Seconds
    <3> QED BY <2>1, <3>1 DEF Deposits, Window
  <2>2. CASE committed.stakeTime[u] # NoEntry
    BY <2>2 DEF Deposits, Window
  <2> QED BY <2>1, <2>2
<1>2. Settled(u)'
  <2>1. SUFFICES ASSUME ~ uneven'[u] PROVE Settled(u)'
    BY DEF Settled
  <2>2. ~ uneven[u] /\ (n = 0 \/ committed.stakeTime[u] = NoEntry)
    <3>1. ~ uneven[u] /\ ~ (n > 0 /\ committed.stakeTime[u] # NoEntry)
      BY <2>1 DEF Deposits
    <3> QED BY <3>1
  <2>3. Worth(u)' = Worth(u)
    <3>1. CASE n = 0
      BY <1>1, <3>1, WindowTyped DEF Deposits, Worth
    <3>2. CASE committed.stakeTime[u] = NoEntry
      <4>1. /\ Window(u) = 0 /\ Worth(u) = 0 /\ apr \in Nat
            /\ committed.staked[u] + n \in Nat
        BY <3>2, WindowTyped
      <4>2. Product(committed.staked[u] + n, 0, apr) = 0
        BY <4>1, ProductSplits
      <4> QED BY <1>1, <4>1, <4>2 DEF Deposits, Worth
    <3> QED BY <2>2, <3>1, <3>2
  <2> QED BY <2>2, <2>3 DEF Settled, Deposits
<1>3. /\ peak'[u] \in Nat /\ peak[u] <= peak'[u]
      /\ committed'.staked[u] <= peak'[u]
  BY WindowTyped DEF Deposits, Peaked
<1>4. Peaked(u)'
  <2>1. PICK top \in Rates :
            apr <= top /\ paid[u] * Unit <= Product(peak[u], served[u] - Window(u), top)
    BY DEF Peaked
  <2>2. served[u] - Window(u) \in Nat /\ top \in Nat /\ paid[u] * Unit \in Nat
    BY WindowTyped DEF Peaked
  <2>3. /\ Product(peak[u], served[u] - Window(u), top)
             <= Product(peak'[u], served[u] - Window(u), top)
        /\ Product(peak[u], served[u] - Window(u), top) \in Nat
        /\ Product(peak'[u], served[u] - Window(u), top) \in Nat
    <3> DEFINE s == served[u] - Window(u)
    <3>1. /\ top \in Nat /\ top <= top /\ s \in Nat /\ s <= s
          /\ peak[u] \in Nat /\ peak'[u] \in Nat /\ peak[u] <= peak'[u]
      BY <1>3, <2>2, WindowTyped
    <3> HIDE DEF s
    <3>2. /\ Product(peak[u], s, top) <= Product(peak'[u], s, top)
          /\ Product(peak[u], s, top) \in Nat /\ Product(peak'[u], s, top) \in Nat
      BY <3>1, ProductGrows
    <3> QED BY <3>2 DEF s
  <2>4. paid[u] * Unit <= Product(peak'[u], served[u] - Window(u), top)
    BY <2>1, <2>2, <2>3
  <2> QED BY <1>1, <1>3, <2>1, <2>4 DEF Peaked, Deposits
<1> QED BY <1>2, <1>3, <1>4

\* A payout closes the window for its worth, less the truncation.
LEMMA PaysOutKeeps ==
    ASSUME IInv, BooksTyped, NEW u \in Users, Settled(u), Peaked(u), PaysOut(u)
    PROVE  /\ Settled(u)' /\ Peaked(u)'
           /\ paid'[u] \in Nat /\ payouts'[u] \in Nat
<1> DEFINE due == StoredDue(u)
           x == paid[u] * Unit
           y == payouts[u] * (Unit - 1)
           d == due * Unit
<1>1. Window(u)' = 0
  <2>1. Seconds(now) \in Nat
    BY StoredTypes, TimeAssumption DEF Seconds
  <2> QED BY <2>1 DEF PaysOut, Window
<1>2. Worth(u)' = 0
  <2>1. committed'.staked[u] \in Nat /\ apr' = apr
    BY DEF PaysOut
  <2>2. Product(committed'.staked[u], 0, apr) = 0
    BY <2>1, WindowTyped, ProductSplits
  <2> QED BY <1>1, <2>1, <2>2 DEF Worth
<1>3. /\ due \in Nat /\ d <= Worth(u) /\ Worth(u) <= d + (Unit - 1)
  <2>1. StoredDue(u) = (Worth(u) \div BasisPoints) \div Year
    BY DEF PaysOut, StoredDue, SecondsBetween, Reward, Worth, Window
  <2> QED BY <2>1, WindowTyped, DivisionsLose
<1>4. paid'[u] = paid[u] + due /\ paid'[u] \in Nat
  BY <1>3, WindowTyped DEF PaysOut
<1> HIDE DEF due
<1>5. paid'[u] * Unit = x + d /\ x \in Nat /\ d \in Nat
  BY <1>3, <1>4, WindowTyped
<1>6. payouts'[u] = payouts[u] + (IF Window(u) > 0 THEN 1 ELSE 0) /\ payouts'[u] \in Nat
  BY WindowTyped DEF PaysOut
<1>7. payouts'[u] * (Unit - 1) = y + (IF Window(u) > 0 THEN Unit - 1 ELSE 0) /\ y \in Nat
  <2>1. (payouts[u] + 1) * (Unit - 1) = y + (Unit - 1) /\ y \in Nat
    BY WindowTyped
  <2>2. (payouts[u] + 0) * (Unit - 1) = y + 0
    BY WindowTyped
  <2> QED BY <1>6, <2>1, <2>2
<1>8. Settled(u)'
  <2>1. SUFFICES ASSUME ~ uneven'[u] PROVE Settled(u)'
    BY DEF Settled
  <2>2. x + Worth(u) <= accrued[u] /\ accrued[u] <= x + Worth(u) + y
    BY <2>1 DEF PaysOut, Settled
  <2>3. Window(u) = 0 => Worth(u) = 0
    BY WindowTyped DEF Worth
  <2> HIDE DEF x, y, d
  <2>4. /\ x + d + 0 <= accrued[u]
        /\ accrued[u] <= x + d + 0 + (y + (IF Window(u) > 0 THEN Unit - 1 ELSE 0))
    BY <1>3, <1>5, <1>7, <2>2, <2>3, WindowTyped
  <2> QED BY <1>2, <1>5, <1>7, <2>4 DEF Settled, PaysOut
<1>9. Peaked(u)'
  <2>1. PICK top \in Rates :
            apr <= top /\ paid[u] * Unit <= Product(peak[u], served[u] - Window(u), top)
    BY DEF Peaked
  <2>2. /\ served[u] - Window(u) \in Nat /\ Window(u) \in Nat /\ top \in Nat
        /\ peak[u] \in Nat /\ committed.staked[u] <= peak[u] /\ committed.staked[u] \in Nat
        /\ apr \in Nat /\ served[u] \in Nat
    BY WindowTyped DEF Peaked
  <2>3. /\ Worth(u) <= Product(peak[u], Window(u), top)
        /\ Product(peak[u], Window(u), top) \in Nat
    <3>1. Window(u) <= Window(u) /\ apr <= top
      BY <2>1, <2>2
    <3> QED BY <2>2, <3>1, ProductGrows DEF Worth
  <2>4. /\ Product(peak[u], (served[u] - Window(u)) + Window(u), top)
             = Product(peak[u], served[u] - Window(u), top) + Product(peak[u], Window(u), top)
        /\ Product(peak[u], served[u] - Window(u), top) \in Nat
    <3> DEFINE s == served[u] - Window(u)
    <3>1. s \in Nat
      BY <2>2
    <3> HIDE DEF s
    <3>2. \A r, t \in Nat :
              /\ Product(peak[u], r, top) \in Nat
              /\ Product(peak[u], r + t, top) = Product(peak[u], r, top) + Product(peak[u], t, top)
      BY <2>2, ProductSplits
    <3>3. /\ Product(peak[u], s + Window(u), top)
               = Product(peak[u], s, top) + Product(peak[u], Window(u), top)
          /\ Product(peak[u], s, top) \in Nat
      BY <2>2, <3>1, <3>2, Zenon
    <3> QED BY <3>3 DEF s
  <2>5. (served[u] - Window(u)) + Window(u) = served[u] - 0
    BY <2>2
  <2>6. x <= Product(peak[u], served[u] - Window(u), top)
    BY <2>1
  <2> HIDE DEF x, d
  <2>7. x + d <= Product(peak[u], served[u] - 0, top)
    BY <1>3, <1>5, <2>3, <2>4, <2>5, <2>6, WindowTyped
  <2>8. committed'.staked[u] <= peak[u] /\ 0 <= served[u]
    BY <2>2 DEF PaysOut
  <2> QED BY <1>1, <1>5, <2>1, <2>7, <2>8 DEF Peaked, PaysOut
<1> QED BY <1>4, <1>6, <1>8, <1>9

-----------------------------------------------------------------------------
(* The accounts of all stakers.                                             *)

\* The books stay functions on the stakers.
LEMMA BooksShape ==
    ASSUME BooksTyped, [AuditNext]_<<vars, auditVars>>
    PROVE  /\ accrued' = [u \in Users |-> accrued'[u]] /\ paid' = [u \in Users |-> paid'[u]]
           /\ served' = [u \in Users |-> served'[u]] /\ peak' = [u \in Users |-> peak'[u]]
           /\ payouts' = [u \in Users |-> payouts'[u]] /\ uneven' = [u \in Users |-> uneven'[u]]
<1>1. CASE AuditBlock
  BY <1>1 DEF AuditBlock, BooksTyped
<1>2. CASE AuditGovernance
  BY <1>2 DEF AuditGovernance, BooksTyped
<1>3. CASE AuditDispatch /\ Commits
  BY <1>3 DEF AuditDispatch, BooksTyped
<1>4. CASE AuditDispatch /\ ~ Commits
  BY <1>4 DEF AuditDispatch, BooksTyped
<1>5. CASE UNCHANGED auditVars
  BY <1>5 DEF auditVars, BooksTyped
<1> QED BY <1>1, <1>2, <1>3, <1>4, <1>5 DEF AuditNext

LEMMA AccountStep ==
    ASSUME IInv, Underway, AuditInv, [AuditNext]_<<vars, auditVars>>, NEW u \in Users
    PROVE  /\ Settled(u)' /\ Peaked(u)'
           /\ accrued'[u] \in Nat /\ paid'[u] \in Nat /\ served'[u] \in Nat
           /\ peak'[u] \in Nat /\ payouts'[u] \in Nat /\ uneven'[u] \in BOOLEAN
<1>1. BooksTyped /\ Settled(u) /\ Peaked(u)
  BY DEF AuditInv
<1>2. /\ accrued[u] \in Nat /\ paid[u] \in Nat /\ served[u] \in Nat
      /\ peak[u] \in Nat /\ payouts[u] \in Nat /\ uneven[u] \in BOOLEAN
  BY <1>1 DEF BooksTyped
<1>3. CASE Rests(u)
  BY <1>1, <1>2, <1>3, RestsKeeps DEF Rests, SameBooks
<1>4. CASE Earns(u)
  <2>1. /\ paid'[u] = paid[u] /\ peak'[u] = peak[u]
        /\ payouts'[u] = payouts[u] /\ uneven'[u] = uneven[u]
    BY <1>4 DEF Earns
  <2> QED BY <1>1, <1>2, <1>4, <2>1, EarnsKeeps
<1>5. CASE Reterms(u)
  BY <1>1, <1>2, <1>5, RetermsKeeps DEF Reterms
<1>6. ASSUME NEW n \in Nat, Deposits(u, n)
      PROVE  /\ Settled(u)' /\ Peaked(u)'
             /\ accrued'[u] \in Nat /\ paid'[u] \in Nat /\ served'[u] \in Nat
             /\ peak'[u] \in Nat /\ payouts'[u] \in Nat /\ uneven'[u] \in BOOLEAN
  <2>1. /\ accrued'[u] = accrued[u] /\ paid'[u] = paid[u] /\ served'[u] = served[u]
        /\ payouts'[u] = payouts[u]
        /\ uneven'[u] = (uneven[u] \/ (n > 0 /\ committed.stakeTime[u] # NoEntry))
    BY <1>6 DEF Deposits
  <2>2. uneven'[u] \in BOOLEAN
    BY <2>1
  <2> QED BY <1>1, <1>2, <1>6, <2>1, <2>2, DepositsKeeps
<1>7. CASE PaysOut(u)
  <2>1. /\ accrued'[u] = accrued[u] /\ served'[u] = served[u]
        /\ peak'[u] = peak[u] /\ uneven'[u] = uneven[u]
    BY <1>7 DEF PaysOut
  <2> QED BY <1>1, <1>2, <1>7, <2>1, PaysOutKeeps
<1> QED BY <1>1, <1>3, <1>4, <1>5, <1>6, <1>7, BooksStep

LEMMA AuditStep ==
    ASSUME IInv, Underway, AuditInv, [AuditNext]_<<vars, auditVars>>
    PROVE  AuditInv'
<1>1. \A u \in Users : Settled(u)' /\ Peaked(u)'
  BY AccountStep
<1>2. \A u \in Users :
          /\ accrued'[u] \in Nat /\ paid'[u] \in Nat /\ served'[u] \in Nat
          /\ peak'[u] \in Nat /\ payouts'[u] \in Nat /\ uneven'[u] \in BOOLEAN
  BY AccountStep
<1>3. BooksTyped
  BY DEF AuditInv
<1>4. /\ accrued' = [u \in Users |-> accrued'[u]] /\ paid' = [u \in Users |-> paid'[u]]
      /\ served' = [u \in Users |-> served'[u]] /\ peak' = [u \in Users |-> peak'[u]]
      /\ payouts' = [u \in Users |-> payouts'[u]] /\ uneven' = [u \in Users |-> uneven'[u]]
  BY <1>3, BooksShape
<1>5. BooksTyped'
  <2>1. accrued' \in [Users -> Nat] /\ paid' \in [Users -> Nat]
    BY <1>2, <1>4
  <2>2. served' \in [Users -> Nat] /\ peak' \in [Users -> Nat]
    BY <1>2, <1>4
  <2>3. payouts' \in [Users -> Nat] /\ uneven' \in [Users -> BOOLEAN]
    BY <1>2, <1>4
  <2> QED BY <2>1, <2>2, <2>3 DEF BooksTyped
<1> QED BY <1>1, <1>5 DEF AuditInv

LEMMA InitAudit == AuditInit => AuditInv
<1> SUFFICES ASSUME AuditInit PROVE AuditInv
  OBVIOUS
<1>1. BooksTyped
  BY DEF AuditInit, Zero, BooksTyped
<1>2. ASSUME NEW u \in Users PROVE Settled(u) /\ Peaked(u)
  <2>1. /\ committed.staked[u] = 0 /\ committed.stakeTime[u] = NoEntry /\ apr \in Rates
    BY DEF AuditInit, Init, StakingInit, Store
  <2>2. apr \in Nat /\ Rates \subseteq Nat /\ Unit \in Nat /\ Unit - 1 \in Nat
    BY <2>1, StakingAssumption, DivisionsLose
  <2>3. Window(u) = 0
    BY <2>1 DEF Window
  <2>4. Product(0, 0, apr) = 0
    BY <2>2, ProductSplits
  <2>5. Worth(u) = 0
    BY <2>1, <2>3, <2>4 DEF Worth
  <2>6. 0 * Unit = 0 /\ 0 * (Unit - 1) = 0
    BY <2>2
  <2>7. /\ paid[u] = 0 /\ accrued[u] = 0 /\ payouts[u] = 0
        /\ peak[u] = 0 /\ served[u] = 0
    BY DEF AuditInit, Zero
  <2>8. Settled(u)
    BY <2>5, <2>6, <2>7 DEF Settled
  <2>9. Peaked(u)
    <3>1. apr <= apr /\ 0 * Unit <= Product(0, 0 - 0, apr)
      BY <2>2, <2>4, <2>6
    <3> QED BY <2>1, <2>3, <2>7, <3>1 DEF Peaked
  <2> QED BY <2>8, <2>9
<1> QED BY <1>1, <1>2 DEF AuditInv

(***************************************************************************)
(* The auditor only watches: with its books, the protocol behaves as       *)
(* without them, and its accounts stay straight.                           *)
(***************************************************************************)
THEOREM AuditInvariance == AuditSpec => [](IInv /\ Underway /\ AuditInv)
<1>1. AuditInit => Init
  BY DEF AuditInit
<1>2. [AuditNext]_<<vars, auditVars>> => [Next]_vars
  BY DEF AuditNext, AuditBlock, AuditDispatch, AuditGovernance, Next
<1>3. AuditSpec => Spec
  BY <1>1, <1>2, PTL DEF AuditSpec, Spec
<1>4. IInv /\ Underway /\ AuditInv /\ [AuditNext]_<<vars, auditVars>> => AuditInv'
  BY AuditStep
<1> QED BY <1>3, <1>4, InitAudit, ProtocolInvariance, UnderwayInvariance, PTL DEF AuditSpec

(***************************************************************************)
(* Rewards settle what was earned: over any sequence of messages, an even  *)
(* stake is paid what it accrued second by second, less than a token per   *)
(* payout apart.                                                           *)
(***************************************************************************)
THEOREM RewardsAreEarned == AuditSpec => []PaidIsEarned
<1>1. IInv /\ Underway /\ AuditInv => PaidIsEarned
  <2> SUFFICES ASSUME IInv, Underway, AuditInv, NEW u \in Users, Idle, ~ uneven[u]
               PROVE  LET settled == paid[u] * Unit + OpenWindow(u)
                      IN  /\ settled <= accrued[u]
                          /\ accrued[u] <= settled + payouts[u] * (Unit - 1)
    BY DEF PaidIsEarned
  <2>1. committed.staked = staked /\ committed.stakeTime = stakeTime
    BY IdleWorksOnStored DEF Store
  <2>2. OpenWindow(u) = Worth(u)
    <3>1. CASE HasStake(u)
      BY <2>1, <3>1 DEF OpenWindow, HasStake, StakedSeconds, Worth, Window
    <3>2. CASE ~ HasStake(u)
      BY <2>1, <3>2, WindowTyped DEF OpenWindow, HasStake, AuditInv
    <3> QED BY <3>1, <3>2
  <2>3. Settled(u)
    BY DEF AuditInv
  <2> QED BY <2>2, <2>3 DEF Settled
<1> QED BY <1>1, AuditInvariance, PTL

(***************************************************************************)
(* No second is paid twice, whatever the top-ups and changes of terms.     *)
(***************************************************************************)
THEOREM NoSecondIsPaidTwice == AuditSpec => []PaidWithinPeak
<1>1. IInv /\ AuditInv => PaidWithinPeak
  <2> SUFFICES ASSUME IInv, AuditInv, NEW u \in Users
               PROVE  \E top \in Rates : paid[u] * Unit <= Product(peak[u], served[u], top)
    BY DEF PaidWithinPeak
  <2>1. BooksTyped /\ Peaked(u)
    BY DEF AuditInv
  <2>2. PICK top \in Rates : paid[u] * Unit <= Product(peak[u], served[u] - Window(u), top)
    BY <2>1 DEF Peaked
  <2> DEFINE s == served[u] - Window(u)
  <2>3. /\ s \in Nat /\ s <= served[u] /\ served[u] \in Nat /\ top \in Nat /\ top <= top
        /\ peak[u] \in Nat /\ peak[u] <= peak[u] /\ paid[u] * Unit \in Nat
    BY <2>1, WindowTyped DEF Peaked
  <2>4. paid[u] * Unit <= Product(peak[u], s, top)
    BY <2>2
  <2> HIDE DEF s
  <2>5. /\ Product(peak[u], s, top) <= Product(peak[u], served[u], top)
        /\ Product(peak[u], s, top) \in Nat /\ Product(peak[u], served[u], top) \in Nat
    BY <2>3, ProductGrows
  <2> QED BY <2>3, <2>4, <2>5
<1> QED BY <1>1, AuditInvariance, PTL

-----------------------------------------------------------------------------
(* The claims of the documentation that hold of even stakes.                *)

(***************************************************************************)
(* The yearly rate the tests compute (tests/integration.rs:322-329, "1% =  *)
(* 100" in state.rs:8) is not kept by the code in general, see             *)
(* PaidAtTheRate.  It is kept for every staker who never topped up a       *)
(* running stake and whose apr never changed while it ran, over any        *)
(* sequence of claims, partial withdrawals and new stakes.                 *)
(***************************************************************************)
THEOREM EvenStakesKeepTheRate ==
    AuditSpec => [](\A u \in Users : ~ uneven[u] => paid[u] * Unit <= accrued[u])
<1>1. IInv /\ AuditInv => \A u \in Users : ~ uneven[u] => paid[u] * Unit <= accrued[u]
  <2> SUFFICES ASSUME IInv, AuditInv, NEW u \in Users, ~ uneven[u]
               PROVE  paid[u] * Unit <= accrued[u]
    OBVIOUS
  <2>1. BooksTyped /\ paid[u] * Unit + Worth(u) <= accrued[u]
    BY DEF AuditInv, Settled
  <2>2. Worth(u) \in Nat /\ paid[u] * Unit \in Nat /\ accrued[u] \in Nat
    BY <2>1, WindowTyped
  <2> QED BY <2>1, <2>2
<1> QED BY <1>1, AuditInvariance, PTL

\* The clock of an even stake was started by its latest deposit, or after it.
LastInBefore(u) ==
    /\ lastIn[u] \in Nat
    /\ ~ uneven[u] /\ committed.staked[u] > 0 =>
           /\ committed.stakeTime[u] # NoEntry
           /\ lastIn[u] <= Seconds(committed.stakeTime[u])

\* What a step does to lastIn: it follows the stored stake.
LEMMA LastInStep ==
    ASSUME IInv, Underway, [AuditNext]_<<vars, auditVars>>, NEW u \in Users
    PROVE  \/ lastIn'[u] = lastIn[u] /\ committed'.staked[u] <= committed.staked[u]
           \/ lastIn'[u] = Seconds(now) /\ committed'.staked[u] > committed.staked[u]
<1>1. committed.staked[u] \in Nat /\ staked[u] \in Nat
  <2>1. staked[u] \in Uint
    BY DEF IInv, StakesSound, StakingTypeOK
  <2> QED BY <2>1, StoredTypes, UintIsNat
<1>2. CASE AuditDispatch /\ Commits
  <2>1. committed'.staked = staked
    <3>1. \E m : outbox = <<m>>
      <4>1. Len(outbox) = 1 /\ \A m1, m2 : Len(<<m1, m2>>) = 2
        BY <1>2 DEF Commits
      <4>2. outbox # <<>>
        BY <1>2 DEF Commits, Idle
      <4> QED BY <4>1, <4>2 DEF Underway, Depositing, Claiming, Leaving, Idle
    <3> QED BY <1>2, <3>1, LastMessageStores DEF AuditDispatch
  <2>2. lastIn'[u] = IF Grew(u) THEN Seconds(now) ELSE lastIn[u]
    BY <1>2 DEF AuditDispatch
  <2> QED BY <1>1, <2>1, <2>2 DEF Grew
<1>3. CASE lastIn' = lastIn /\ committed'.staked = committed.staked
  BY <1>1, <1>3
<1>4. CASE AuditDispatch /\ ~ Commits
  BY <1>3, <1>4, UnfinishedRests DEF AuditDispatch
<1>5. CASE AuditBlock \/ AuditGovernance
  BY <1>3, <1>5 DEF AuditBlock, Block, AuditGovernance, GovernanceTx
<1>6. CASE TokenTx /\ UNCHANGED auditVars
  BY <1>3, <1>6, IdleWorksOnStored DEF auditVars, TokenTx, stakingVars, config, Store
<1>7. CASE StakingTx /\ UNCHANGED auditVars
  BY <1>3, <1>7 DEF auditVars, StakingTx
<1>8. CASE (Revert \/ UNCHANGED vars) /\ UNCHANGED auditVars
  BY <1>3, <1>8 DEF auditVars, Revert, vars
<1> QED BY <1>2, <1>4, <1>5, <1>6, <1>7, <1>8 DEF AuditNext

LEMMA LastInKept ==
    ASSUME IInv, IInv', Underway, AuditInv, [AuditNext]_<<vars, auditVars>>,
           NEW u \in Users, LastInBefore(u)
    PROVE  LastInBefore(u)'
<1>1. BooksTyped
  BY DEF AuditInv
<1>2. /\ committed.staked[u] \in Nat /\ committed.stakeTime[u] \in Nat
      /\ now \in Nat /\ now # NoEntry
      /\ committed.stakeTime[u] # NoEntry => committed.stakeTime[u] <= now
  BY StoredTypes
<1>3. Seconds(now) \in Nat
  BY <1>2, SecondsMonotonic
<1>4. committed'.stakeTime[u] = NoEntry => committed'.staked[u] = 0
  BY DEF IInv, StoreSound
<1>5. lastIn'[u] \in Nat
  BY <1>3, LastInStep DEF LastInBefore
<1>6. uneven[u] \in BOOLEAN
  BY <1>1 DEF BooksTyped
<1>7. ASSUME ~ uneven'[u], committed'.staked[u] > 0
      PROVE  /\ committed'.stakeTime[u] # NoEntry
             /\ lastIn'[u] <= Seconds(committed'.stakeTime[u])
  <2>1. committed'.stakeTime[u] # NoEntry
    BY <1>4, <1>7
  <2>2. CASE SameStake(u) /\ (uneven[u] => uneven'[u])
    BY <1>2, <1>7, <2>1, <2>2, LastInStep DEF SameStake, LastInBefore
  <2>3. CASE PaysOut(u)
    <3>1. /\ committed'.staked[u] \in Nat /\ committed'.staked[u] <= committed.staked[u]
          /\ committed'.stakeTime[u] = now /\ ~ uneven[u]
      BY <1>7, <2>1, <2>3 DEF PaysOut
    <3>2. lastIn'[u] = lastIn[u]
      BY <1>2, <3>1, LastInStep
    <3>3. committed.stakeTime[u] # NoEntry /\ lastIn[u] <= Seconds(committed.stakeTime[u])
      BY <1>2, <1>7, <3>1 DEF LastInBefore
    <3>4. Seconds(committed.stakeTime[u]) \in Nat
          /\ Seconds(committed.stakeTime[u]) <= Seconds(now)
      BY <1>2, <3>3, SecondsMonotonic
    <3> QED BY <1>3, <2>1, <3>1, <3>2, <3>3, <3>4 DEF LastInBefore
  <2>4. ASSUME NEW n \in Nat, Deposits(u, n)
        PROVE  lastIn'[u] <= Seconds(committed'.stakeTime[u])
    <3>1. /\ committed'.staked[u] = committed.staked[u] + n
          /\ committed'.stakeTime[u] =
                 IF committed.stakeTime[u] = NoEntry THEN now ELSE committed.stakeTime[u]
          /\ uneven'[u] = (uneven[u] \/ (n > 0 /\ committed.stakeTime[u] # NoEntry))
      BY <2>4 DEF Deposits
    <3>2. ~ uneven[u] /\ ~ (n > 0 /\ committed.stakeTime[u] # NoEntry)
      BY <1>6, <1>7, <3>1
    <3>3. CASE n = 0
      <4>1. committed'.staked[u] = committed.staked[u] /\ lastIn'[u] = lastIn[u]
        BY <1>2, <3>1, <3>3, LastInStep
      <4> QED BY <1>7, <3>1, <3>2, <4>1 DEF LastInBefore
    <3>4. CASE n > 0
      <4>1. committed'.stakeTime[u] = now
        BY <3>1, <3>2, <3>4
      <4>2. lastIn'[u] = Seconds(now)
        BY <1>2, <3>1, <3>4, LastInStep
      <4> QED BY <1>3, <4>1, <4>2
    <3> QED BY <3>3, <3>4
  <2>5. Rests(u) \/ Earns(u) \/ Reterms(u) => SameStake(u) /\ (uneven[u] => uneven'[u])
    BY DEF Rests, SameBooks, Earns, Reterms
  <2> QED BY <1>1, <2>1, <2>2, <2>3, <2>4, <2>5, BooksStep
<1> QED BY <1>5, <1>7 DEF LastInBefore

(***************************************************************************)
(* The error "Lockup period not expired" (error.rs:16) says that tokens    *)
(* are not paid out before their lock-up is over; a top-up escapes it, see *)
(* DepositIsLockedUp.  It is true of the stakes that were not topped up    *)
(* while they ran: emptying one comes a whole lock-up period after its     *)
(* latest deposit, whatever claims, withdrawals, retries and changes of    *)
(* terms came between.                                                     *)
(***************************************************************************)
THEOREM EvenDepositsAreLockedUp ==
    AuditSpec =>
        [][\A u \in Users :
              ~ uneven[u] /\ committed.staked[u] > 0 /\ committed'.staked[u] = 0 =>
                  Seconds(now) - lastIn[u] >= lockup
          ]_<<vars, auditVars>>
<1> DEFINE AllBefore == \A u \in Users : LastInBefore(u)
           Locked == \A u \in Users :
              ~ uneven[u] /\ committed.staked[u] > 0 /\ committed'.staked[u] = 0 =>
                  Seconds(now) - lastIn[u] >= lockup
<1>1. AuditInit => AllBefore
  BY DEF AuditInit, Zero, Init, StakingInit, Store, LastInBefore
<1>2. IInv /\ IInv' /\ Underway /\ AuditInv /\ AllBefore /\ [AuditNext]_<<vars, auditVars>>
        => AllBefore'
  BY LastInKept
<1>3. ASSUME IInv, Underway, AllBefore, [AuditNext]_<<vars, auditVars>>
      PROVE  Locked
  <2> SUFFICES ASSUME NEW u \in Users, ~ uneven[u],
                      committed.staked[u] > 0, committed'.staked[u] = 0
               PROVE  Seconds(now) - lastIn[u] >= lockup
    OBVIOUS
  <2>1. /\ committed.staked[u] \in Nat /\ committed.stakeTime[u] \in Nat
        /\ committed.staked \in [Users -> Nat] /\ now \in Nat /\ lockup \in Nat
        /\ \A n \in Amounts : n \in Nat
    BY <1>3, StoredTypes, UintIsNat, UintAssumption
  <2>2. [Next]_vars
    BY <1>3 DEF AuditNext, AuditBlock, AuditDispatch, AuditGovernance, Next
  <2>3. committed'.staked = staked /\ \E n \in Amounts : Leaving(u, n)
    <3>1. ASSUME NEW n \in Amounts, Depositing(u, n), committed'.staked = staked
          PROVE  FALSE
      BY <2>1, <3>1 DEF Depositing, Credit
    <3>2. ASSUME Claiming(u), committed'.staked = staked
          PROVE  FALSE
      BY <2>1, <3>2 DEF Claiming
    <3> QED BY <1>3, <2>1, <2>2, <3>1, <3>2, StoredStakeStep
  <2>4. Seconds(now) - Seconds(committed.stakeTime[u]) >= lockup
    BY <2>3 DEF Leaving, StoredMatured
  <2>5. /\ lastIn[u] \in Nat /\ lastIn[u] <= Seconds(committed.stakeTime[u])
        /\ Seconds(committed.stakeTime[u]) \in Nat /\ Seconds(now) \in Nat
    BY <1>3, <2>1, SecondsMonotonic DEF LastInBefore
  <2> QED BY <2>1, <2>4, <2>5
<1>4. IInv /\ Underway /\ AllBefore /\ [AuditNext]_<<vars, auditVars>>
        => [Locked]_<<vars, auditVars>>
  BY <1>3
<1> HIDE DEF AllBefore, Locked
<1>5. AuditSpec => [][Locked]_<<vars, auditVars>>
  BY <1>1, <1>2, <1>4, AuditInvariance, PTL DEF AuditSpec
<1> QED BY <1>5 DEF Locked

(***************************************************************************)
(* Nothing is gained by claiming often, and at most one token is lost with *)
(* each claim: the reward for two periods of a stake is at least the sum   *)
(* of the rewards for each, and at most one more (the two truncating       *)
(* divisions of calculate_reward_apr).                                     *)
(***************************************************************************)
THEOREM ClaimingOftenNeverPays ==
    ASSUME NEW a \in Nat, NEW q \in Nat, NEW s \in Nat, NEW t \in Nat
    PROVE  /\ Reward(a, s, q) + Reward(a, t, q) <= Reward(a, s + t, q)
           /\ Reward(a, s + t, q) <= Reward(a, s, q) + Reward(a, t, q) + 1
<1> DEFINE p1 == Product(a, s, q)
           p2 == Product(a, t, q)
           p3 == Product(a, s + t, q)
           d1 == (p1 \div BasisPoints) \div Year
           d2 == (p2 \div BasisPoints) \div Year
           d3 == (p3 \div BasisPoints) \div Year
<1>1. p1 \in Nat /\ p2 \in Nat /\ p3 \in Nat /\ p3 = p1 + p2
  <2>1. s + t \in Nat
    OBVIOUS
  <2> QED BY <2>1, ProductSplits
<1>2. Reward(a, s, q) = d1 /\ Reward(a, t, q) = d2 /\ Reward(a, s + t, q) = d3
  BY DEF Reward
<1> HIDE DEF p1, p2, p3
<1>3. /\ d1 \in Nat /\ d1 * Unit <= p1 /\ p1 <= d1 * Unit + (Unit - 1)
      /\ d2 \in Nat /\ d2 * Unit <= p2 /\ p2 <= d2 * Unit + (Unit - 1)
      /\ d3 \in Nat /\ d3 * Unit <= p3 /\ p3 <= d3 * Unit + (Unit - 1)
      /\ Unit \in Nat /\ Unit - 1 \in Nat
  BY <1>1, DivisionsLose
<1> HIDE DEF d1, d2, d3
<1>4. /\ d1 * Unit \in Nat /\ d2 * Unit \in Nat /\ d3 * Unit \in Nat
      /\ (d1 + d2) * Unit = d1 * Unit + d2 * Unit
      /\ (d1 + d2 + 2) * Unit = d1 * Unit + d2 * Unit + Unit + Unit
      /\ (d3 + 1) * Unit = d3 * Unit + Unit
  BY <1>3
<1>5. ASSUME d1 + d2 > d3 PROVE FALSE
  <2>1. d3 + 1 \in Nat /\ d1 + d2 \in Nat /\ d3 + 1 <= d1 + d2
    BY <1>3, <1>5
  <2>2. (d3 + 1) * Unit <= (d1 + d2) * Unit
    BY <1>3, <2>1, FactorGrows
  <2> QED BY <1>1, <1>3, <1>4, <2>2
<1>6. ASSUME d3 > d1 + d2 + 1 PROVE FALSE
  <2>1. d1 + d2 + 2 \in Nat /\ d1 + d2 + 2 <= d3
    BY <1>3, <1>6
  <2>2. (d1 + d2 + 2) * Unit <= d3 * Unit
    BY <1>3, <2>1, FactorGrows
  <2> QED BY <1>1, <1>3, <1>4, <2>2
<1> QED BY <1>2, <1>3, <1>5, <1>6

=============================================================================
