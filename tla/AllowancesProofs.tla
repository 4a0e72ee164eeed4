-------------------------- MODULE AllowancesProofs --------------------------
(***************************************************************************)
(* What an owner risks with an approval, for any accounts, any amounts and *)
(* any sum of grants.                                                      *)
(***************************************************************************)
EXTENDS Allowances, Cw20TokenProofs

\* The inductive invariant: the bound on draws needs the types of the books.
GrantsInv == TokenInv /\ AllowancesTypeOK /\ DrawnWithinGrants

\* Messages carry naturals.
LEMMA AmountIsNat == \A n \in Amounts : n \in Nat /\ n \in Uint
  BY UintAssumption DEF Uint

LEMMA InitGrants == AllowancesInit => GrantsInv
<1> SUFFICES ASSUME AllowancesInit PROVE GrantsInv
  OBVIOUS
<1>1. TokenInv
  BY TokenInitInv DEF AllowancesInit
<1>2. AllowancesTypeOK
  BY <1>1, GrantAssumption DEF AllowancesInit, AllowancesTypeOK, TokenInv
<1>3. DrawnWithinGrants
  BY DEF AllowancesInit, TokenInit, DrawnWithinGrants
<1> QED BY <1>1, <1>2, <1>3 DEF GrantsInv

-----------------------------------------------------------------------------
(* One lemma per kind of step.                                             *)

\* An approval adds to the grants at least what it makes drawable.
LEMMA GrantInv ==
    ASSUME GrantsInv, NEW s \in Addr, NEW sp \in Spenders, NEW n \in Amounts,
           Grant(s, sp, n), by' = s
    PROVE  GrantsInv'
<1>1. n \in Nat /\ n \in Uint /\ sp \in Addr
  BY AmountIsNat, SpendersAssumption
<1>2. TokenInv'
  BY <1>1, ApproveInv DEF GrantsInv, Grant
<1>3. granted[s][sp] \in Nat /\ granted[s][sp] + n \in 0..MaxGranted
  BY <1>1, GrantAssumption DEF GrantsInv, AllowancesTypeOK, Grant
<1>4. AllowancesTypeOK'
  BY <1>1, <1>2, <1>3 DEF GrantsInv, AllowancesTypeOK, TokenInv, Grant
<1>5. ASSUME NEW o \in Addr, NEW x \in Addr
      PROVE  drawn'[o][x] + allowances'[o][x] <= granted'[o][x]
  <2>1. /\ drawn[o][x] + allowances[o][x] <= granted[o][x]
        /\ drawn[o][x] \in Nat /\ allowances[o][x] \in Nat /\ granted[o][x] \in Nat
    BY UintAssumption
       DEF GrantsInv, AllowancesTypeOK, TokenTypeOK, DrawnWithinGrants, Book, Uint
  <2>2. drawn' = drawn
    BY DEF Grant
  <2>3. CASE o = s /\ x = sp
    <3>1. allowances'[o][x] = n /\ granted'[o][x] = granted[o][x] + n
      BY <1>1, <2>3 DEF GrantsInv, AllowancesTypeOK, TokenTypeOK, Book, Grant, Approve
    <3> QED BY <1>1, <2>1, <2>2, <3>1
  <2>4. CASE ~(o = s /\ x = sp)
    <3>1. allowances'[o][x] = allowances[o][x] /\ granted'[o][x] = granted[o][x]
      BY <1>1, <2>4 DEF GrantsInv, AllowancesTypeOK, TokenTypeOK, Book, Grant, Approve
    <3> QED BY <2>1, <2>2, <3>1
  <2> QED BY <2>3, <2>4
<1> QED BY <1>2, <1>4, <1>5 DEF GrantsInv, DrawnWithinGrants

\* A draw moves an amount from what is drawable to what is drawn.
LEMMA DrawInv ==
    ASSUME GrantsInv, NEW s \in Addr, NEW own \in Addr, NEW r \in Addr,
           NEW n \in Amounts, Draw(s, own, r, n), by' = s
    PROVE  GrantsInv'
<1>1. n \in Nat
  BY AmountIsNat
<1>2. TokenInv'
  BY <1>1, TransferFromInv DEF GrantsInv, Draw
<1>3. AllowancesTypeOK'
  BY <1>1, <1>2 DEF GrantsInv, AllowancesTypeOK, TokenInv, Draw
<1>4. ASSUME NEW o \in Addr, NEW x \in Addr
      PROVE  drawn'[o][x] + allowances'[o][x] <= granted'[o][x]
  <2>1. /\ drawn[o][x] + allowances[o][x] <= granted[o][x]
        /\ drawn[o][x] \in Nat /\ allowances[o][x] \in Nat /\ granted[o][x] \in Nat
    BY UintAssumption
       DEF GrantsInv, AllowancesTypeOK, TokenTypeOK, DrawnWithinGrants, Book, Uint
  <2>2. granted' = granted
    BY DEF Draw
  <2>3. CASE o = own /\ x = s
    <3>1. allowances'[o][x] = allowances[o][x] - n /\ drawn'[o][x] = drawn[o][x] + n
      BY <2>3 DEF GrantsInv, AllowancesTypeOK, TokenTypeOK, Book, Draw, TransferFrom
    <3> QED BY <1>1, <2>1, <2>2, <3>1
  <2>4. CASE ~(o = own /\ x = s)
    <3>1. allowances'[o][x] = allowances[o][x] /\ drawn'[o][x] = drawn[o][x]
      BY <2>4 DEF GrantsInv, AllowancesTypeOK, TokenTypeOK, Book, Draw, TransferFrom
    <3> QED BY <2>1, <2>2, <3>1
  <2> QED BY <2>3, <2>4
<1> QED BY <1>2, <1>3, <1>4 DEF GrantsInv, DrawnWithinGrants

\* No other message changes an allowance.
LEMMA UngrantedInv ==
    ASSUME GrantsInv, NEW s \in Addr, Ungranted(s), by' = s
    PROVE  GrantsInv'
<1>1. TokenExecute(s)
  BY DEF Ungranted, TokenExecute
<1>2. TokenInv'
  BY <1>1, TokenExecuteInv DEF GrantsInv
<1>3. allowances' = allowances /\ granted' = granted /\ drawn' = drawn
  BY DEF Ungranted, Transfer, Burn, Mint, UpdateMinter
<1> QED BY <1>2, <1>3 DEF GrantsInv, AllowancesTypeOK, TokenInv, DrawnWithinGrants

LEMMA NextGrants ==
    ASSUME GrantsInv, [AllowancesNext]_allowanceVars
    PROVE  GrantsInv'
<1>1. CASE AllowancesNext
  BY <1>1, GrantInv, DrawInv, UngrantedInv DEF AllowancesNext
<1>2. CASE UNCHANGED allowanceVars
  <2>1. TokenInv'
    BY <1>2, TokenStutterInv DEF GrantsInv, allowanceVars
  <2> QED BY <1>2, <2>1
          DEF allowanceVars, tokenVars, GrantsInv, TokenInv, AllowancesTypeOK, DrawnWithinGrants
<1> QED BY <1>1, <1>2

(***************************************************************************)
(* The history of grants and draws keeps its types, and a spender's draws  *)
(* and what it may still draw stay within the owner's approvals.           *)
(***************************************************************************)
THEOREM GrantsInvariance == AllowancesSpec => []GrantsInv
<1> QED BY InitGrants, NextGrants, PTL DEF AllowancesSpec

(***************************************************************************)
(* However approvals and draws interleave, the owner loses at most the sum *)
(* of the approvals.                                                       *)
(***************************************************************************)
THEOREM DrawsStayWithinGrants == AllowancesSpec => []DrawnWithinGrants
<1>1. GrantsInv => DrawnWithinGrants
  BY DEF GrantsInv
<1> QED BY <1>1, GrantsInvariance, PTL

-----------------------------------------------------------------------------
\* A movement takes its amount from the payer and takes from nobody else.
LEMMA MovedTakesFromPayer ==
    ASSUME balances \in Book, NEW from \in Addr, NEW to \in Addr, NEW n \in Nat,
           MoveOk(from, to, n), NEW a \in Addr
    PROVE  /\ Moved(from, to, n)[a] < balances[a] => a = from
           /\ balances[a] - Moved(from, to, n)[a] <= n
<1>1. balances \in [Addr -> Nat]
  BY BookIsNat
<1>2. Moved(from, to, n)[a] = IF a = to
                              THEN (IF a = from THEN balances[a] - n ELSE balances[a]) + n
                              ELSE IF a = from THEN balances[a] - n ELSE balances[a]
  BY <1>1 DEF Moved, Credit, Debit
<1> QED BY <1>1, <1>2

LEMMA DebitStep ==
    ASSUME GrantsInv, AllowancesNext, NEW a \in Addr, balances'[a] < balances[a]
    PROVE  \/ by' = a
           \/ balances[a] - balances'[a] <= allowances[a][by'] - allowances'[a][by']
<1>1. PICK s \in Addr :
        /\ by' = s
        /\ \/ \E sp \in Spenders, n \in Amounts : Grant(s, sp, n)
           \/ \E own, r \in Addr, n \in Amounts : Draw(s, own, r, n)
           \/ Ungranted(s)
  BY DEF AllowancesNext
<1>2. /\ balances \in Book /\ balances[a] \in Nat
      /\ allowances \in [Addr -> Book] /\ \A o, x \in Addr : allowances[o][x] \in Nat
  BY UintAssumption DEF GrantsInv, TokenInv, TokenTypeOK, Book, Uint
<1>3. CASE \E sp \in Spenders, n \in Amounts : Grant(s, sp, n)
  BY <1>2, <1>3 DEF Grant, Approve
<1>4. CASE \E own, r \in Addr, n \in Amounts : Draw(s, own, r, n)
  <2>1. PICK own \in Addr, r \in Addr, n \in Amounts : Draw(s, own, r, n)
    BY <1>4
  <2>2. n \in Nat /\ MoveOk(own, r, n) /\ balances' = Moved(own, r, n)
    BY <2>1, AmountIsNat DEF Draw, TransferFrom, TransferFromOk
  <2>3. a = own /\ balances[a] - balances'[a] <= n
    BY <1>2, <2>2, MovedTakesFromPayer
  <2>4. allowances'[own][s] = allowances[own][s] - n
    BY <1>2, <2>1 DEF Draw, TransferFrom, Book
  <2>5. allowances[own][s] - allowances'[own][s] = n
    BY <1>2, <2>2, <2>4
  <2> QED BY <1>1, <2>3, <2>5
<1>5. CASE Ungranted(s)
  <2>1. CASE \E r \in Addr, n \in Amounts : Transfer(s, r, n)
    <3>1. PICK r \in Addr, n \in Amounts : Transfer(s, r, n)
      BY <2>1
    <3>2. n \in Nat /\ MoveOk(s, r, n) /\ balances' = Moved(s, r, n)
      BY <3>1, AmountIsNat DEF Transfer, TransferOk
    <3> QED BY <1>1, <1>2, <3>2, MovedTakesFromPayer
  <2>2. CASE \E n \in Amounts : Burn(s, n)
    <3>1. PICK n \in Amounts : balances' = Debit(balances, s, n)
      BY <2>2 DEF Burn
    <3> QED BY <1>1, <1>2, <3>1 DEF Debit
  <2>3. CASE \E r \in Addr, n \in Amounts : Mint(s, r, n)
    <3>1. PICK r \in Addr, n \in Amounts : balances' = Credit(balances, r, n)
      BY <2>3 DEF Mint
    <3>2. n \in Nat
      BY AmountIsNat
    <3>3. balances'[a] \in {balances[a], balances[a] + n}
      BY <1>2, <3>1 DEF Credit, Book
    <3> QED BY <1>2, <3>2, <3>3
  <2>4. CASE \E m \in Addr \cup {None} : UpdateMinter(s, m)
    BY <1>2, <2>4 DEF UpdateMinter
  <2> QED BY <1>5, <2>1, <2>2, <2>3, <2>4 DEF Ungranted
<1> QED BY <1>1, <1>3, <1>4, <1>5

(***************************************************************************)
(* Nobody's tokens move without the owner's message or an approval that is *)
(* used up by as much.                                                     *)
(***************************************************************************)
THEOREM ConsentIsNeeded == AllowancesSpec => DebitNeedsConsent
<1>1. GrantsInv /\ [AllowancesNext]_allowanceVars
        => [\A a \in Addr : balances'[a] < balances[a] =>
              \/ by' = a
              \/ balances[a] - balances'[a] <= allowances[a][by'] - allowances'[a][by']
           ]_allowanceVars
  BY DebitStep
<1> QED BY <1>1, GrantsInvariance, PTL DEF AllowancesSpec, DebitNeedsConsent

=============================================================================
