-------------------------- MODULE Cw20TokenProofs ---------------------------
(***************************************************************************)
(* The token's type correctness and conservation of supply, for any number *)
(* of accounts and any width of Uint128.  First, how the sum of a book     *)
(* changes with its entries: TotalUpdate says what one write does to it,   *)
(* and the lemmas after it say it of credits and debits.                   *)
(***************************************************************************)
EXTENDS Cw20Token, FiniteSetTheorems, TLAPS

\* A pair is a unit exactly when its account has that many units.
LEMMA UnitsMember ==
    ASSUME NEW S, NEW f \in [S -> Nat], NEW p
    PROVE  p \in Units(f) <=> \E a \in S : p \in {a} \X (1..f[a])
BY DEF Units

\* A book over finitely many accounts has finitely many units.
LEMMA UnitsFinite ==
    ASSUME NEW S, IsFiniteSet(S), NEW f \in [S -> Nat]
    PROVE  IsFiniteSet(Units(f))
<1> DEFINE Rows == {{a} \X (1..f[a]) : a \in S}
           g == [a \in S |-> {a} \X (1..f[a])]
<1>1. IsFiniteSet(Rows)
  <2>1. g \in Surjection(S, Rows)
    <3>1. g \in [S -> Rows]
      OBVIOUS
    <3>2. \A r \in Rows : \E a \in S : g[a] = r
      OBVIOUS
    <3> HIDE DEF g, Rows
    <3> QED BY <3>1, <3>2 DEF Surjection
  <2> HIDE DEF g, Rows
  <2> QED BY <2>1, FS_Surjection
<1>2. \A r \in Rows : IsFiniteSet(r)
  <2> SUFFICES ASSUME NEW a \in S
               PROVE  IsFiniteSet({a} \X (1..f[a]))
    OBVIOUS
  <2>1. IsFiniteSet({a})
    BY FS_Singleton
  <2>2. IsFiniteSet(1..f[a])
    BY FS_Interval
  <2> QED BY <2>1, <2>2, FS_Product
<1>3. Units(f) = UNION Rows
  BY DEF Units
<1> HIDE DEF Rows
<1> QED BY <1>1, <1>2, <1>3, FS_UNION

\* A sum is a natural number.
LEMMA TotalType ==
    ASSUME NEW S, IsFiniteSet(S), NEW f \in [S -> Nat]
    PROVE  Total(f) \in Nat
BY UnitsFinite, FS_CardinalityType DEF Total

\* A book of zeros sums to zero.
LEMMA TotalZero ==
    ASSUME NEW S
    PROVE  Total([a \in S |-> 0]) = 0
<1>1. Units([a \in S |-> 0]) = {}
  BY DEF Units
<1> QED BY <1>1, FS_EmptySet DEF Total

\* An entry can be taken out of the sum.
LEMMA TotalSplit ==
    ASSUME NEW S, IsFiniteSet(S), NEW f \in [S -> Nat], NEW a \in S
    PROVE  Total(f) = Total([f EXCEPT ![a] = 0]) + f[a]
<1> DEFINE rest == [f EXCEPT ![a] = 0]
           row == {a} \X (1..f[a])
<1>1. rest \in [S -> Nat]
  OBVIOUS
<1>2. Units(f) = Units(rest) \cup row
  <2>1. ASSUME NEW p PROVE p \in Units(f) <=> p \in Units(rest) \cup row
    <3>1. p \in Units(f) <=> \E b \in S : p \in {b} \X (1..f[b])
      BY UnitsMember
    <3>2. p \in Units(rest) <=> \E b \in S : p \in {b} \X (1..rest[b])
      BY <1>1, UnitsMember
    <3>3. \A b \in S : b # a => rest[b] = f[b]
      OBVIOUS
    <3>4. rest[a] = 0 /\ {a} \X (1..0) = {}
      OBVIOUS
    <3> HIDE DEF rest
    <3> QED BY <3>1, <3>2, <3>3, <3>4
  <2> HIDE DEF rest, row
  <2> QED BY <2>1
<1>3. Units(rest) \cap row = {}
  <2>1. ASSUME NEW p \in Units(rest), p \in row PROVE FALSE
    <3>1. PICK b \in S : p \in {b} \X (1..rest[b])
      BY <1>1, UnitsMember
    <3>2. b = a
      BY <2>1, <3>1
    <3> QED BY <3>1, <3>2
  <2> HIDE DEF rest, row
  <2> QED BY <2>1
<1>4. IsFiniteSet(row) /\ Cardinality(row) = f[a]
  <2>1. IsFiniteSet({a}) /\ Cardinality({a}) = 1
    BY FS_Singleton
  <2>2. IsFiniteSet(1..f[a]) /\ Cardinality(1..f[a]) = f[a]
    BY FS_Interval
  <2>3. IsFiniteSet(row) /\ Cardinality(row) = Cardinality({a}) * Cardinality(1..f[a])
    BY <2>1, <2>2, FS_Product
  <2> HIDE DEF row
  <2> QED BY <2>1, <2>2, <2>3
<1>5. IsFiniteSet(Units(rest))
  BY <1>1, UnitsFinite
<1> HIDE DEF rest, row
<1>6. Cardinality(Units(rest) \cup row)
        = Cardinality(Units(rest)) + Cardinality(row) - Cardinality({})
  BY <1>3, <1>4, <1>5, FS_Union
<1>7. Cardinality(Units(rest)) \in Nat
  BY <1>5, FS_CardinalityType
<1>8. Total(f) = Total(rest) + f[a]
  BY <1>2, <1>4, <1>6, <1>7, FS_EmptySet DEF Total
<1> QED BY <1>8 DEF rest

\* What writing one entry does to the sum.
LEMMA TotalUpdate ==
    ASSUME NEW S, IsFiniteSet(S), NEW f \in [S -> Nat], NEW a \in S, NEW v \in Nat
    PROVE  Total([f EXCEPT ![a] = v]) = Total(f) - f[a] + v
<1> DEFINE g == [f EXCEPT ![a] = v]
<1>1. g \in [S -> Nat] /\ g[a] = v
  OBVIOUS
<1>2. [g EXCEPT ![a] = 0] = [f EXCEPT ![a] = 0]
  OBVIOUS
<1>3. Total(f) = Total([f EXCEPT ![a] = 0]) + f[a]
  BY TotalSplit
<1> HIDE DEF g
<1>4. Total(g) = Total([g EXCEPT ![a] = 0]) + g[a]
  BY <1>1, TotalSplit
<1>5. [f EXCEPT ![a] = 0] \in [S -> Nat]
  OBVIOUS
<1>6. Total([f EXCEPT ![a] = 0]) \in Nat
  BY <1>5, TotalType
<1>7. Total(g) = Total(f) - f[a] + v
  BY <1>1, <1>2, <1>3, <1>4, <1>6
<1> QED BY <1>7 DEF g

\* No entry exceeds the sum.
LEMMA EntryWithinTotal ==
    ASSUME NEW S, IsFiniteSet(S), NEW f \in [S -> Nat], NEW a \in S
    PROVE  f[a] <= Total(f)
<1>1. [f EXCEPT ![a] = 0] \in [S -> Nat]
  OBVIOUS
<1>2. Total([f EXCEPT ![a] = 0]) \in Nat
  BY <1>1, TotalType
<1>3. Total(f) = Total([f EXCEPT ![a] = 0]) + f[a]
  BY TotalSplit
<1> QED BY <1>2, <1>3

-----------------------------------------------------------------------------
\* The entries of a book after a credit and after a debit.
LEMMA CreditBook ==
    ASSUME NEW S, IsFiniteSet(S), NEW f \in [S -> Nat], NEW a \in S, NEW n \in Nat
    PROVE  /\ Credit(f, a, n) \in [S -> Nat]
           /\ Total(Credit(f, a, n)) = Total(f) + n
<1> DEFINE v == f[a] + n
<1>1. v \in Nat
  OBVIOUS
<1>2. Credit(f, a, n) = [f EXCEPT ![a] = v]
  BY DEF Credit
<1>3. Total(f) \in Nat /\ f[a] \in Nat
  BY TotalType
<1>4. [f EXCEPT ![a] = v] \in [S -> Nat]
  BY <1>1
<1> HIDE DEF v
<1>5. Total([f EXCEPT ![a] = v]) = Total(f) - f[a] + v
  BY <1>1, TotalUpdate
<1>6. Total(f) - f[a] + v = Total(f) + n
  BY <1>3 DEF v
<1> QED BY <1>2, <1>4, <1>5, <1>6

LEMMA DebitBook ==
    ASSUME NEW S, IsFiniteSet(S), NEW f \in [S -> Nat], NEW a \in S,
           NEW n \in Nat, n <= f[a]
    PROVE  /\ Debit(f, a, n) \in [S -> Nat]
           /\ Total(Debit(f, a, n)) = Total(f) - n
<1> DEFINE v == f[a] - n
<1>1. v \in Nat
  OBVIOUS
<1>2. Debit(f, a, n) = [f EXCEPT ![a] = v]
  BY DEF Debit
<1>3. Total(f) \in Nat /\ f[a] \in Nat
  BY TotalType
<1>4. [f EXCEPT ![a] = v] \in [S -> Nat]
  BY <1>1
<1> HIDE DEF v
<1>5. Total([f EXCEPT ![a] = v]) = Total(f) - f[a] + v
  BY <1>1, TotalUpdate
<1>6. Total(f) - f[a] + v = Total(f) - n
  BY <1>3 DEF v
<1> QED BY <1>2, <1>4, <1>5, <1>6

-----------------------------------------------------------------------------
(* The token.                                                               *)

\* The token's inductive invariant.
TokenInv == TokenTypeOK /\ SupplyIsSumOfBalances

\* A book within the width is a book of naturals, and has a natural sum.
LEMMA BookIsNat ==
    ASSUME NEW book \in Book
    PROVE  /\ book \in [Addr -> Nat]
           /\ Total(book) \in Nat
<1>1. Uint \subseteq Nat
  BY UintAssumption DEF Uint
<1>2. book \in [Addr -> Nat]
  BY <1>1 DEF Book
<1> QED BY <1>2, AddrAssumption, TotalType

(***************************************************************************)
(* A movement keeps the sum: the debit takes from it what the credit adds. *)
(***************************************************************************)
LEMMA MovedKeepsTotal ==
    ASSUME balances \in Book,
           NEW from \in Addr, NEW to \in Addr, NEW n \in Nat,
           MoveOk(from, to, n)
    PROVE  /\ Moved(from, to, n) \in Book
           /\ Total(Moved(from, to, n)) = Total(balances)
<1> DEFINE debited == Debit(balances, from, n)
<1>1. balances \in [Addr -> Nat] /\ n <= balances[from] /\ Total(balances) \in Nat
  BY BookIsNat DEF MoveOk
<1>2. debited \in [Addr -> Nat] /\ Total(debited) = Total(balances) - n
  BY <1>1, AddrAssumption, DebitBook
<1>3. \A a \in Addr : debited[a] \in Uint
  BY <1>1, UintAssumption DEF Debit, Book, Uint
<1>4. debited[to] + n \in Uint
  BY <1>2, UintAssumption DEF MoveOk, Fits, Uint
<1>5. Moved(from, to, n) = Credit(debited, to, n)
  BY DEF Moved
<1> HIDE DEF debited
<1>6. /\ Credit(debited, to, n) \in [Addr -> Nat]
      /\ Total(Credit(debited, to, n)) = Total(debited) + n
  BY <1>2, AddrAssumption, CreditBook
<1>7. Credit(debited, to, n) \in Book
  BY <1>2, <1>3, <1>4 DEF Credit, Book
<1> QED BY <1>1, <1>2, <1>5, <1>6, <1>7

\* Initially nothing is minted and nobody owns anything.
LEMMA TokenInitInv == TokenInit => TokenInv
<1> SUFFICES ASSUME TokenInit PROVE TokenInv
  OBVIOUS
<1>1. 0 \in Uint
  BY UintAssumption DEF Uint
<1>2. TokenTypeOK
  BY <1>1 DEF TokenInit, TokenTypeOK, Book
<1>3. SupplyIsSumOfBalances
  BY TotalZero DEF TokenInit, SupplyIsSumOfBalances
<1> QED BY <1>2, <1>3 DEF TokenInv

-----------------------------------------------------------------------------
(* One lemma per handler: a message that succeeds keeps the invariant.      *)

LEMMA TransferInv ==
    ASSUME TokenInv, NEW s \in Addr, NEW r \in Addr, NEW n \in Nat,
           Transfer(s, r, n)
    PROVE  TokenInv'
<1>1. balances \in Book /\ MoveOk(s, r, n)
  BY DEF TokenInv, TokenTypeOK, Transfer, TransferOk
<1>2. Moved(s, r, n) \in Book /\ Total(Moved(s, r, n)) = Total(balances)
  BY <1>1, MovedKeepsTotal
<1> QED BY <1>2 DEF TokenInv, TokenTypeOK, SupplyIsSumOfBalances, Transfer

LEMMA BurnInv ==
    ASSUME TokenInv, NEW s \in Addr, NEW n \in Nat, Burn(s, n)
    PROVE  TokenInv'
<1>1. balances \in Book /\ n <= balances[s] /\ n <= totalSupply /\ totalSupply \in Uint
  BY DEF TokenInv, TokenTypeOK, Burn
<1>2. balances \in [Addr -> Nat]
  BY <1>1, BookIsNat
<1>3. Total(Debit(balances, s, n)) = Total(balances) - n
  BY <1>1, <1>2, AddrAssumption, DebitBook
<1>4. Debit(balances, s, n) \in Book
  BY <1>1, UintAssumption DEF Debit, Book, Uint
<1>5. totalSupply - n \in Uint
  BY <1>1, UintAssumption DEF Uint
<1> QED BY <1>3, <1>4, <1>5
        DEF TokenInv, TokenTypeOK, SupplyIsSumOfBalances, Burn

LEMMA MintInv ==
    ASSUME TokenInv, NEW s \in Addr, NEW r \in Addr, NEW n \in Nat, Mint(s, r, n)
    PROVE  TokenInv'
<1>1. balances \in Book /\ Fits(balances[r] + n) /\ Fits(totalSupply + n) /\ totalSupply \in Uint
  BY DEF TokenInv, TokenTypeOK, Mint, MintOk
<1>2. balances \in [Addr -> Nat]
  BY <1>1, BookIsNat
<1>3. Total(Credit(balances, r, n)) = Total(balances) + n
  BY <1>2, AddrAssumption, CreditBook
<1>4. Credit(balances, r, n) \in Book
  BY <1>1, UintAssumption DEF Credit, Book, Uint, Fits
<1>5. totalSupply + n \in Uint
  BY <1>1, UintAssumption DEF Uint, Fits
<1> QED BY <1>3, <1>4, <1>5
        DEF TokenInv, TokenTypeOK, SupplyIsSumOfBalances, Mint

LEMMA ApproveInv ==
    ASSUME TokenInv, NEW s \in Addr, NEW sp \in Addr, NEW n \in Uint, Approve(s, sp, n)
    PROVE  TokenInv'
BY DEF TokenInv, TokenTypeOK, SupplyIsSumOfBalances, Approve, Book

LEMMA TransferFromInv ==
    ASSUME TokenInv, NEW s \in Addr, NEW o \in Addr, NEW r \in Addr, NEW n \in Nat,
           TransferFrom(s, o, r, n)
    PROVE  TokenInv'
<1>1. balances \in Book /\ MoveOk(o, r, n) /\ n <= allowances[o][s]
  BY DEF TokenInv, TokenTypeOK, TransferFrom, TransferFromOk
<1>2. Moved(o, r, n) \in Book /\ Total(Moved(o, r, n)) = Total(balances)
  BY <1>1, MovedKeepsTotal
<1>3. allowances[o][s] \in Uint /\ allowances[o][s] - n \in Uint
  BY <1>1, UintAssumption DEF TokenInv, TokenTypeOK, Book, Uint
<1>4. allowances' \in [Addr -> Book]
  BY <1>3 DEF TokenInv, TokenTypeOK, TransferFrom, Book
<1> QED BY <1>2, <1>4 DEF TokenInv, TokenTypeOK, SupplyIsSumOfBalances, TransferFrom

LEMMA UpdateMinterInv ==
    ASSUME TokenInv, NEW s \in Addr, NEW m \in Addr \cup {None}, UpdateMinter(s, m)
    PROVE  TokenInv'
BY DEF TokenInv, TokenTypeOK, SupplyIsSumOfBalances, UpdateMinter

\* Whatever an account sends to the token.
LEMMA TokenExecuteInv ==
    ASSUME TokenInv, NEW s \in Addr, TokenExecute(s)
    PROVE  TokenInv'
<1>1. \A n \in Amounts : n \in Nat /\ n \in Uint
  BY UintAssumption DEF Uint
<1>2. CASE \E r \in Addr, n \in Amounts : Transfer(s, r, n)
  BY <1>1, <1>2, TransferInv
<1>3. CASE \E n \in Amounts : Burn(s, n)
  BY <1>1, <1>3, BurnInv
<1>4. CASE \E r \in Addr, n \in Amounts : Mint(s, r, n)
  BY <1>1, <1>4, MintInv
<1>5. CASE \E sp \in Spenders, n \in Amounts : Approve(s, sp, n)
  BY <1>1, <1>5, SpendersAssumption, ApproveInv
<1>6. CASE \E o, r \in Addr, n \in Amounts : TransferFrom(s, o, r, n)
  BY <1>1, <1>6, TransferFromInv
<1>7. CASE \E m \in Addr \cup {None} : UpdateMinter(s, m)
  BY <1>7, UpdateMinterInv
<1> QED BY <1>2, <1>3, <1>4, <1>5, <1>6, <1>7 DEF TokenExecute

\* A step that leaves the token alone.
LEMMA TokenStutterInv ==
    ASSUME TokenInv, UNCHANGED tokenVars
    PROVE  TokenInv'
BY DEF TokenInv, TokenTypeOK, SupplyIsSumOfBalances, tokenVars

(***************************************************************************)
(* The inductive invariant of the token.                                   *)
(***************************************************************************)
THEOREM TokenInvariance == TokenSpec => []TokenInv
<1>1. TokenInv /\ [TokenNext]_tokenVars => TokenInv'
  <2> SUFFICES ASSUME TokenInv, [TokenNext]_tokenVars PROVE TokenInv'
    OBVIOUS
  <2>1. CASE TokenNext
    BY <2>1, TokenExecuteInv DEF TokenNext
  <2>2. CASE UNCHANGED tokenVars
    BY <2>2, TokenStutterInv
  <2> QED BY <2>1, <2>2
<1> QED BY <1>1, TokenInitInv, PTL DEF TokenSpec

(***************************************************************************)
(* Type correctness of the token, in particular that no amount ever leaves *)
(* Uint128.                                                                *)
(***************************************************************************)
THEOREM TokenTypeCorrect == TokenSpec => []TokenTypeOK
<1>1. TokenInv => TokenTypeOK
  BY DEF TokenInv
<1> QED BY <1>1, TokenInvariance, PTL

(***************************************************************************)
(* total_supply is the sum of the balances in every state.                 *)
(***************************************************************************)
THEOREM SupplyConservation == TokenSpec => []SupplyIsSumOfBalances
<1>1. TokenInv => SupplyIsSumOfBalances
  BY DEF TokenInv
<1> QED BY <1>1, TokenInvariance, PTL

\* What a payer can afford fits the recipient's balance.
LEMMA AffordableFits ==
    ASSUME TokenInv, NEW from \in Addr, NEW to \in Addr, NEW n \in 0..balances[from]
    PROVE  MoveOk(from, to, n)
<1>1. balances \in [Addr -> Nat] /\ totalSupply = Total(balances) /\ totalSupply <= MaxUint
  BY BookIsNat, UintAssumption DEF TokenInv, TokenTypeOK, SupplyIsSumOfBalances, Uint
<1>2. n \in Nat /\ n <= balances[from]
  BY <1>1
<1> DEFINE debited == Debit(balances, from, n)
<1>3. debited \in [Addr -> Nat] /\ Total(debited) = Total(balances) - n
  BY <1>1, <1>2, AddrAssumption, DebitBook
<1> HIDE DEF debited
<1>4. debited[to] <= Total(debited)
  BY <1>3, AddrAssumption, EntryWithinTotal
<1>5. Total(balances) \in Nat /\ Total(debited) \in Nat
  BY <1>1, <1>3, AddrAssumption, TotalType
<1>6. debited[to] + n <= MaxUint
  BY <1>1, <1>2, <1>3, <1>4, <1>5, UintAssumption
<1> QED BY <1>2, <1>6 DEF MoveOk, Fits, debited

(***************************************************************************)
(* The credit of a transfer never panics: payer and recipient together     *)
(* hold no more than the supply.                                           *)
(***************************************************************************)
THEOREM TransferNeverPanics == TokenSpec => []CreditNeverPanics
<1>1. TokenInv => CreditNeverPanics
  BY AffordableFits DEF CreditNeverPanics
<1> QED BY <1>1, TokenInvariance, PTL

(***************************************************************************)
(* Burn's second subtraction never fails after its first.                  *)
(***************************************************************************)
THEOREM BurnNeverFailsHalfway == TokenSpec => []BurnNeverUnderflows
<1>1. TokenInv => BurnNeverUnderflows
  BY BookIsNat, AddrAssumption, EntryWithinTotal
     DEF TokenInv, TokenTypeOK, SupplyIsSumOfBalances, BurnNeverUnderflows
<1> QED BY <1>1, TokenInvariance, PTL

(***************************************************************************)
(* Without a minter the supply never grows and no minter comes back.       *)
(***************************************************************************)
THEOREM MinterlessIsFinal == TokenSpec => NoMinterIsFinal
<1>1. TokenInv /\ [TokenNext]_tokenVars
        => [minter = None => minter' = None /\ totalSupply' <= totalSupply]_tokenVars
  <2> SUFFICES ASSUME TokenInv, NEW s \in Addr, TokenExecute(s), minter = None
               PROVE  minter' = None /\ totalSupply' <= totalSupply
    BY DEF TokenNext
  <2>1. s # None /\ totalSupply \in Nat
    BY AddrAssumption, UintAssumption DEF TokenInv, TokenTypeOK, Uint
  <2>2. ASSUME NEW n \in Amounts, Burn(s, n)
        PROVE  minter' = None /\ totalSupply' <= totalSupply
    <3>1. n \in Nat
      BY UintAssumption DEF Uint
    <3> QED BY <2>1, <2>2, <3>1 DEF Burn
  <2>3. \/ minter' = None /\ totalSupply' = totalSupply
        \/ \E n \in Amounts : Burn(s, n)
    BY <2>1 DEF TokenExecute, Transfer, Mint, MintOk, Approve, TransferFrom, UpdateMinter
  <2> QED BY <2>1, <2>2, <2>3
<1> QED BY <1>1, TokenInvariance, PTL DEF TokenSpec, NoMinterIsFinal

=============================================================================
