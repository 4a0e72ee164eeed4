-------------------------- MODULE Cw20OwnableProofs -------------------------
(***************************************************************************)
(* The stand-alone token implements the protocol's token, for any accounts *)
(* and any width of Uint128, and so inherits what is proved of that one.   *)
(***************************************************************************)
EXTENDS Cw20Ownable, TLAPS

\* Without an owner there is no heir either.
NoHeir == owner = None => pendingOwner = None

TokenTyped == TypeOK /\ NoHeir

LEMMA AmountIsUint == 0 \in Uint /\ \A n \in Amounts : n \in Nat /\ n \in Uint
  BY UintAssumption DEF Uint

LEMMA InitTyped == Init => TokenTyped
<1> SUFFICES ASSUME Init PROVE TokenTyped
  OBVIOUS
<1>1. OwnableTypeOK /\ NoHeir
  BY TimeAssumption DEF Init, InitOwner, OwnableTypeOK, NoHeir, Time, NoDeadline
<1>2. balances \in Book /\ allowances \in [Addr -> Book] /\ totalSupply \in Uint
  BY AmountIsUint DEF Init, Book
<1> QED BY <1>1, <1>2 DEF TokenTyped, TypeOK

\* Offers, acceptance and renunciation keep the types; renouncing voids the offer.
LEMMA OwnershipKeepsTypes ==
    ASSUME OwnableTypeOK, NoHeir, NEW sender \in Addr, UpdateOwnership(sender), now' = now
    PROVE  OwnableTypeOK' /\ NoHeir' /\ (owner = None => owner' = None)
<1>1. sender # None /\ None \notin Addr
  BY AddrAssumption
<1>2. CASE \E heir \in Heirs, expiry \in Deadlines : TransferOwnership(sender, heir, expiry)
  BY <1>1, <1>2, OfferAssumption DEF TransferOwnership, IsOwner, OwnableTypeOK, NoHeir
<1>3. CASE AcceptOwnership(sender) \/ RenounceOwnership(sender)
  BY <1>1, <1>3 DEF AcceptOwnership, RenounceOwnership, IsOwner, OwnableTypeOK, NoHeir, NoDeadline
<1> QED BY <1>2, <1>3 DEF UpdateOwnership

\* A movement that the payer can afford and the recipient can hold.
LEMMA MoveKeepsTypes ==
    ASSUME balances \in Book, totalSupply \in Uint, NEW from \in Addr, NEW to \in Addr,
           NEW n \in Amounts, Move(from, to, n)
    PROVE  balances' \in Book /\ totalSupply' \in Uint
<1> DEFINE debited == Debit(balances, from, n)
<1>1. n \in Nat /\ n <= balances[from] /\ Fits(debited[to] + n)
  BY AmountIsUint DEF Move, Movable
<1>2. debited \in Book
  BY <1>1, UintAssumption DEF Debit, Book, Uint
<1>3. debited[to] + n \in Uint
  BY <1>1, <1>2, UintAssumption DEF Fits, Book, Uint
<1>4. balances' = Credit(debited, to, n) /\ totalSupply' = totalSupply
  BY DEF Move
<1> HIDE DEF debited
<1> QED BY <1>2, <1>3, <1>4 DEF Credit, Book

\* The messages of the token keep the types of its books.
LEMMA BooksKeepTypes ==
    ASSUME TokenTyped, NEW sender \in Addr, Execute(sender)
    PROVE  balances' \in Book /\ allowances' \in [Addr -> Book] /\ totalSupply' \in Uint
<1>1. balances \in Book /\ allowances \in [Addr -> Book] /\ totalSupply \in Uint
  BY DEF TokenTyped, TypeOK
<1>2. CASE \E rcpt \in Addr, n \in Amounts : Transfer(sender, rcpt, n)
  BY <1>1, <1>2, MoveKeepsTypes DEF Transfer
<1>3. ASSUME NEW n \in Amounts, Burn(sender, n)
      PROVE  balances' \in Book /\ allowances' \in [Addr -> Book] /\ totalSupply' \in Uint
  <2>1. n \in Nat
    BY AmountIsUint
  <2>2. Debit(balances, sender, n) \in Book /\ totalSupply - n \in Uint
    BY <1>1, <1>3, <2>1, UintAssumption DEF Burn, Debit, Book, Uint
  <2> QED BY <1>1, <1>3, <2>2 DEF Burn
<1>4. ASSUME NEW rcpt \in Addr, NEW n \in Amounts, Mint(sender, rcpt, n)
      PROVE  balances' \in Book /\ allowances' \in [Addr -> Book] /\ totalSupply' \in Uint
  <2>1. n \in Nat
    BY AmountIsUint
  <2>2. Credit(balances, rcpt, n) \in Book /\ totalSupply + n \in Uint
    BY <1>1, <1>4, <2>1, UintAssumption DEF Mint, Fits, Credit, Book, Uint
  <2> QED BY <1>1, <1>4, <2>2 DEF Mint
<1>5. CASE \E spender \in Spenders, n \in Amounts : Approve(sender, spender, n)
  BY <1>1, <1>5, AmountIsUint, SpendersAssumption DEF Approve, Book
<1>6. ASSUME NEW own \in Addr, NEW rcpt \in Addr, NEW n \in Amounts,
             TransferFrom(sender, own, rcpt, n)
      PROVE  balances' \in Book /\ allowances' \in [Addr -> Book] /\ totalSupply' \in Uint
  <2>1. allowances[own][sender] - n \in Uint
    BY <1>1, <1>6, AmountIsUint, UintAssumption DEF TransferFrom, Book, Uint
  <2>2. allowances' \in [Addr -> Book]
    BY <1>1, <1>6, <2>1 DEF TransferFrom, Book
  <2> QED BY <1>1, <1>6, <2>2, MoveKeepsTypes DEF TransferFrom
<1>7. CASE UpdateOwnership(sender) /\ UNCHANGED books
  BY <1>1, <1>7 DEF books
<1> QED BY <1>2, <1>3, <1>4, <1>5, <1>6, <1>7 DEF Execute

LEMMA NextTyped ==
    ASSUME TokenTyped, [Next]_vars
    PROVE  TokenTyped'
<1>1. ASSUME NEW sender \in Addr, Execute(sender), UNCHANGED now
      PROVE  TokenTyped'
  <2>1. balances' \in Book /\ allowances' \in [Addr -> Book] /\ totalSupply' \in Uint
    BY <1>1, BooksKeepTypes
  <2>2. CASE UNCHANGED ownership
    BY <1>1, <2>1, <2>2 DEF ownership, TokenTyped, TypeOK, OwnableTypeOK, NoHeir
  <2>3. CASE UpdateOwnership(sender)
    BY <1>1, <2>1, <2>3, OwnershipKeepsTypes DEF TokenTyped, TypeOK
  <2> QED BY <1>1, <2>2, <2>3 DEF Execute
<1>2. CASE Tick /\ UNCHANGED <<books, ownership>>
  BY <1>2, TimeAssumption
     DEF Tick, Time, books, ownership, TokenTyped, TypeOK, OwnableTypeOK, NoHeir
<1>3. CASE UNCHANGED vars
  BY <1>3 DEF vars, books, ownership, TokenTyped, TypeOK, OwnableTypeOK, NoHeir
<1> QED BY <1>1, <1>2, <1>3 DEF Next

LEMMA TypedInvariance == Spec => []TokenTyped
<1> QED BY InitTyped, NextTyped, PTL DEF Spec

(***************************************************************************)
(* Type correctness of the stand-alone token: no amount ever leaves        *)
(* Uint128, although the additions of its handlers are unchecked.          *)
(***************************************************************************)
THEOREM TypeCorrect == Spec => []TypeOK
<1>1. TokenTyped => TypeOK
  BY DEF TokenTyped
<1> QED BY <1>1, TypedInvariance, PTL

-----------------------------------------------------------------------------
\* The abstract token's ledger is the same ledger.
LEMMA SameMoves ==
    ASSUME NEW from, NEW to, NEW n
    PROVE  /\ Token!MoveOk(from, to, n) <=> Movable(from, to, n)
           /\ Token!Moved(from, to, n) = Credit(Debit(balances, from, n), to, n)
BY DEF Token!MoveOk, Token!Moved, Token!Fits, Token!Debit, Token!Credit,
       Movable, Fits, Debit, Credit

LEMMA InitImplements == Init => Token!TokenInit
BY DEF Init, InitOwner, Token!TokenInit

\* Each message on the books is the abstract token's message of the same name.
LEMMA BookMessageImplements ==
    ASSUME NEW sender \in Addr, Execute(sender), UNCHANGED ownership
    PROVE  Token!TokenNext \/ UNCHANGED Token!tokenVars
<1> USE DEF ownership
<1>1. ASSUME NEW rcpt \in Addr, NEW n \in Amounts, Transfer(sender, rcpt, n)
      PROVE  Token!Transfer(sender, rcpt, n)
  BY <1>1, SameMoves DEF Transfer, Move, Token!Transfer, Token!TransferOk
<1>2. ASSUME NEW n \in Amounts, Burn(sender, n)
      PROVE  Token!Burn(sender, n)
  BY <1>2 DEF Burn, Debit, Token!Burn, Token!Debit
<1>3. ASSUME NEW rcpt \in Addr, NEW n \in Amounts, Mint(sender, rcpt, n)
      PROVE  Token!Mint(sender, rcpt, n)
  BY <1>3 DEF Mint, IsOwner, Fits, Credit, Token!Mint, Token!MintOk, Token!Fits, Token!Credit
<1>4. ASSUME NEW spender \in Spenders, NEW n \in Amounts, Approve(sender, spender, n)
      PROVE  Token!Approve(sender, spender, n)
  BY <1>4 DEF Approve, Token!Approve
<1>5. ASSUME NEW own \in Addr, NEW rcpt \in Addr, NEW n \in Amounts,
             TransferFrom(sender, own, rcpt, n)
      PROVE  Token!TransferFrom(sender, own, rcpt, n)
  BY <1>5, SameMoves DEF TransferFrom, Move, Token!TransferFrom, Token!TransferFromOk
<1>6. CASE UNCHANGED books
  BY <1>6 DEF books, Token!tokenVars
<1> QED BY <1>1, <1>2, <1>3, <1>4, <1>5, <1>6 DEF Execute, Token!TokenNext, Token!TokenExecute

(***************************************************************************)
(* An acceptance is the old owner's UpdateMinter to the new one, although  *)
(* the new one sends it: without an owner there is no offer to accept.     *)
(***************************************************************************)
LEMMA OwnershipImplements ==
    ASSUME TokenTyped, NEW sender \in Addr, UpdateOwnership(sender), UNCHANGED books
    PROVE  Token!TokenNext \/ UNCHANGED Token!tokenVars
<1>1. CASE owner' = owner
  BY <1>1 DEF books, Token!tokenVars
<1>2. CASE owner' # owner
  <2>1. owner \in Addr /\ owner' \in Addr \cup {None}
    BY <1>2, AddrAssumption
       DEF UpdateOwnership, TransferOwnership, AcceptOwnership, RenounceOwnership, IsOwner,
           TokenTyped, TypeOK, OwnableTypeOK, NoHeir
  <2>2. Token!UpdateMinter(owner, owner')
    BY DEF books, Token!UpdateMinter
  <2> QED BY <2>1, <2>2 DEF Token!TokenNext, Token!TokenExecute
<1> QED BY <1>1, <1>2

LEMMA StepImplements ==
    ASSUME TokenTyped, [Next]_vars
    PROVE  [Token!TokenNext]_Token!tokenVars
<1>1. ASSUME NEW sender \in Addr, Execute(sender)
      PROVE  [Token!TokenNext]_Token!tokenVars
  BY <1>1, BookMessageImplements, OwnershipImplements DEF Execute
<1>2. CASE UNCHANGED <<books, ownership>>
  BY <1>2 DEF books, ownership, Token!tokenVars
<1> QED BY <1>1, <1>2 DEF Next, vars

(***************************************************************************)
(* The two tokens keep the same promise, the owner in the place of the     *)
(* minter; what Cw20TokenProofs shows of the protocol's token carries over *)
(* (see the end of this module).                                           *)
(***************************************************************************)
THEOREM StandAloneImplementsToken == Spec => ImplementsToken
<1> QED BY InitImplements, StepImplements, TypedInvariance, PTL
        DEF Spec, ImplementsToken, Token!TokenSpec

-----------------------------------------------------------------------------
LEMMA RenouncedStep ==
    ASSUME TokenTyped, [Next]_vars, owner = None
    PROVE  owner' = None /\ totalSupply' <= totalSupply
<1>1. None \notin Addr /\ totalSupply \in Nat
  BY AddrAssumption, UintAssumption DEF TokenTyped, TypeOK, Uint
<1>2. ASSUME NEW sender \in Addr, Execute(sender), UNCHANGED now
      PROVE  owner' = None /\ totalSupply' <= totalSupply
  <2>1. CASE UpdateOwnership(sender) /\ UNCHANGED books
    BY <1>1, <1>2, <2>1, OwnershipKeepsTypes DEF books, TokenTyped, TypeOK
  <2>2. CASE (\E n \in Amounts : Burn(sender, n)) /\ UNCHANGED ownership
    BY <1>1, <2>2, AmountIsUint DEF Burn, ownership
  <2>3. CASE totalSupply' = totalSupply /\ UNCHANGED ownership
    BY <1>1, <2>3 DEF ownership
  <2> QED BY <1>1, <1>2, <2>1, <2>2, <2>3
          DEF Execute, Transfer, Mint, IsOwner, Approve, TransferFrom, Move
<1>3. CASE UNCHANGED <<books, ownership>>
  BY <1>1, <1>3 DEF books, ownership
<1> QED BY <1>2, <1>3 DEF Next, vars

(***************************************************************************)
(* Renouncing ends minting for good.                                       *)
(***************************************************************************)
THEOREM RenouncingEndsMinting == Spec => RenouncedSupplyNeverGrows
<1>1. TokenTyped /\ [Next]_vars
        => [owner = None => owner' = None /\ totalSupply' <= totalSupply]_vars
  BY RenouncedStep
<1> QED BY <1>1, TypedInvariance, PTL DEF Spec, RenouncedSupplyNeverGrows

-----------------------------------------------------------------------------
(* What is proved of the protocol's token is true of the stand-alone one.   *)

TokenProofs == INSTANCE Cw20TokenProofs WITH minter <- owner

LEMMA SameAssumptions ==
    /\ \A S : TokenProofs!IsFiniteSet(S) <=> IsFiniteSet(S)
    /\ \A S : TokenProofs!Cardinality(S) = Cardinality(S)
    /\ TokenProofs!Uint = Uint
<1>1. \A S : TokenProofs!IsFiniteSet(S) <=> IsFiniteSet(S)
  BY DEF TokenProofs!IsFiniteSet, IsFiniteSet
<1>2. \A S : TokenProofs!Cardinality(S) = Cardinality(S)
  BY DEF TokenProofs!Cardinality, Cardinality
<1> QED BY <1>1, <1>2 DEF TokenProofs!Uint, Uint

\* The token of those proofs is the token this one was shown to implement.
LEMMA SameToken ==
    /\ Token!TokenInit => TokenProofs!TokenInit
    /\ [Token!TokenNext]_Token!tokenVars => [TokenProofs!TokenNext]_TokenProofs!tokenVars
BY DEF Token!TokenInit, Token!TokenNext, Token!tokenVars, Token!TokenExecute,
       Token!Transfer, Token!TransferOk, Token!MoveOk, Token!Moved, Token!Burn,
       Token!Mint, Token!MintOk, Token!Approve, Token!TransferFrom, Token!TransferFromOk,
       Token!UpdateMinter, Token!Fits, Token!Credit, Token!Debit,
       TokenProofs!TokenInit, TokenProofs!TokenNext, TokenProofs!tokenVars,
       TokenProofs!TokenExecute, TokenProofs!Transfer, TokenProofs!TransferOk,
       TokenProofs!MoveOk, TokenProofs!Moved, TokenProofs!Burn, TokenProofs!Mint,
       TokenProofs!MintOk, TokenProofs!Approve, TokenProofs!TransferFrom,
       TokenProofs!TransferFromOk, TokenProofs!UpdateMinter, TokenProofs!Fits,
       TokenProofs!Credit, TokenProofs!Debit

LEMMA TokenBehaves == Spec => TokenProofs!TokenSpec
<1> QED BY StandAloneImplementsToken, SameToken, PTL
        DEF ImplementsToken, Token!TokenSpec, TokenProofs!TokenSpec

(***************************************************************************)
(* The supply of the stand-alone token is the sum of its balances, whoever *)
(* owned it, offered it, accepted it or renounced it in between.           *)
(***************************************************************************)
THEOREM StandAloneConservesSupply == Spec => [](totalSupply = Total(balances))
<1>1. TokenProofs!IsFiniteSet(Addr) /\ MaxUint \in Nat /\ Amounts \subseteq TokenProofs!Uint
  BY SameAssumptions, AddrAssumption, UintAssumption
<1>2. TokenProofs!TokenSpec => []TokenProofs!SupplyIsSumOfBalances
  BY <1>1, AddrAssumption, SpendersAssumption, TokenProofs!SupplyConservation
<1>3. TokenProofs!SupplyIsSumOfBalances => totalSupply = Total(balances)
  BY SameAssumptions DEF TokenProofs!SupplyIsSumOfBalances, TokenProofs!Total, Total,
                         TokenProofs!Units, Units
<1> QED BY <1>2, <1>3, TokenBehaves, PTL

(***************************************************************************)
(* Neither the unchecked additions of the transfers nor the second         *)
(* subtraction of a Burn of the stand-alone token ever fail: a movement    *)
(* its payer can afford goes through (cw20/src/contract.rs, execute).      *)
(***************************************************************************)
THEOREM StandAloneNeverPanics ==
    Spec => [](/\ \A from, to \in Addr : \A n \in 0..balances[from] : Movable(from, to, n)
               /\ \A a \in Addr : balances[a] <= totalSupply)
<1>1. TokenProofs!IsFiniteSet(Addr) /\ MaxUint \in Nat /\ Amounts \subseteq TokenProofs!Uint
  BY SameAssumptions, AddrAssumption, UintAssumption
<1>2. TokenProofs!TokenSpec => []TokenProofs!CreditNeverPanics
  BY <1>1, AddrAssumption, SpendersAssumption, TokenProofs!TransferNeverPanics
<1>3. TokenProofs!TokenSpec => []TokenProofs!BurnNeverUnderflows
  BY <1>1, AddrAssumption, SpendersAssumption, TokenProofs!BurnNeverFailsHalfway
<1>4. TokenProofs!CreditNeverPanics =>
          \A from, to \in Addr : \A n \in 0..balances[from] : Movable(from, to, n)
  BY DEF TokenProofs!CreditNeverPanics, TokenProofs!MoveOk, TokenProofs!Fits,
         TokenProofs!Debit, Movable, Fits, Debit
<1>5. TokenProofs!BurnNeverUnderflows => \A a \in Addr : balances[a] <= totalSupply
  BY DEF TokenProofs!BurnNeverUnderflows
<1> QED BY <1>2, <1>3, <1>4, <1>5, TokenBehaves, PTL

=============================================================================
