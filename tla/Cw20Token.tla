----------------------------- MODULE Cw20Token ------------------------------
(***************************************************************************)
(* The reward token of the staking protocol:                               *)
(* staking_protocol/contracts/cw20-token/src/contract.rs.                  *)
(*                                                                         *)
(* One action per execute handler, with the sender of the message as its   *)
(* first parameter.  A handler that returns an error or panics leaves no   *)
(* trace, since the chain discards the writes of a failed transaction;     *)
(* each action has the handler's success condition as an operator XxxOk,   *)
(* for the contracts that call the token and fail with it.                 *)
(***************************************************************************)
EXTENDS Ledger

CONSTANT Spenders   \* the addresses users approve

ASSUME SpendersAssumption == Spenders \subseteq Addr

VARIABLES
    balances,       \* BALANCES
    allowances,     \* ALLOWANCES, by owner and spender
    totalSupply,    \* TOKEN_INFO.total_supply
    minter          \* TOKEN_INFO.minter

tokenVars == <<balances, allowances, totalSupply, minter>>

TokenTypeOK ==
    /\ balances \in Book
    /\ allowances \in [Addr -> Book]
    /\ totalSupply \in Uint
    /\ minter \in Addr \cup {None}

\* instantiate: nothing minted yet, the minter taken from the message.
TokenInit ==
    /\ balances = [a \in Addr |-> 0]
    /\ allowances = [a \in Addr |-> [s \in Addr |-> 0]]
    /\ totalSupply = 0
    /\ minter \in Addr \cup {None}

-----------------------------------------------------------------------------
\* Mutant: the credit starts from the balance read before the debit.
MovedFromStale(from, to, n) == [Debit(balances, from, n) EXCEPT ![to] = balances[to] + n]

(***************************************************************************)
(* The debit and the credit are two BALANCES.update calls, the second on   *)
(* the result of the first: a transfer to oneself changes nothing.         *)
(***************************************************************************)
Moved(from, to, n) == Credit(Debit(balances, from, n), to, n)

MoveOk(from, to, n) ==
    /\ n <= balances[from]
    /\ Fits(Debit(balances, from, n)[to] + n)

TransferOk(sender, rcpt, n) == MoveOk(sender, rcpt, n)

Transfer(sender, rcpt, n) ==
    /\ TransferOk(sender, rcpt, n)
    /\ balances' = Moved(sender, rcpt, n)
    /\ UNCHANGED <<allowances, totalSupply, minter>>

\* Mutant: total_supply is forgotten.
BurnKeepingSupply(sender, n) ==
    /\ n <= balances[sender]
    /\ balances' = Debit(balances, sender, n)
    /\ UNCHANGED <<allowances, totalSupply, minter>>

Burn(sender, n) ==
    /\ n <= balances[sender]
    /\ n <= totalSupply
    /\ balances' = Debit(balances, sender, n)
    /\ totalSupply' = totalSupply - n
    /\ UNCHANGED <<allowances, minter>>

\* Mutant: only the balance is protected against overflow.
MintOkUncapped(sender, rcpt, n) ==
    /\ sender = minter
    /\ Fits(balances[rcpt] + n)

\* Mutant: the minter is not asked for.
MintOkByAnyone(sender, rcpt, n) ==
    /\ Fits(balances[rcpt] + n)
    /\ Fits(totalSupply + n)

MintOk(sender, rcpt, n) ==
    /\ sender = minter
    /\ Fits(balances[rcpt] + n)
    /\ Fits(totalSupply + n)

\* Mutant: total_supply is forgotten.
MintKeepingSupply(sender, rcpt, n) ==
    /\ MintOk(sender, rcpt, n)
    /\ balances' = Credit(balances, rcpt, n)
    /\ UNCHANGED <<allowances, totalSupply, minter>>

Mint(sender, rcpt, n) ==
    /\ MintOk(sender, rcpt, n)
    /\ balances' = Credit(balances, rcpt, n)
    /\ totalSupply' = totalSupply + n
    /\ UNCHANGED <<allowances, minter>>

\* Mutant: the key of ALLOWANCES is (spender, owner).
ApproveSwapped(sender, spender, n) ==
    /\ allowances' = [allowances EXCEPT ![spender][sender] = n]
    /\ UNCHANGED <<balances, totalSupply, minter>>

\* The new allowance replaces the old one, whatever was left of it.
Approve(sender, spender, n) ==
    /\ allowances' = [allowances EXCEPT ![sender][spender] = n]
    /\ UNCHANGED <<balances, totalSupply, minter>>

TransferFromOk(sender, own, rcpt, n) ==
    /\ n <= allowances[own][sender]
    /\ MoveOk(own, rcpt, n)

\* Mutant: the allowance is checked and not used up.
TransferFromKeepingAllowance(sender, own, rcpt, n) ==
    /\ TransferFromOk(sender, own, rcpt, n)
    /\ balances' = Moved(own, rcpt, n)
    /\ UNCHANGED <<allowances, totalSupply, minter>>

\* Mutant: the allowance of the wrong pair is used up.
TransferFromSwapped(sender, own, rcpt, n) ==
    /\ n <= allowances[sender][own]
    /\ MoveOk(own, rcpt, n)
    /\ allowances' = [allowances EXCEPT ![sender][own] = @ - n]
    /\ balances' = Moved(own, rcpt, n)
    /\ UNCHANGED <<totalSupply, minter>>

TransferFrom(sender, own, rcpt, n) ==
    /\ TransferFromOk(sender, own, rcpt, n)
    /\ allowances' = [allowances EXCEPT ![own][sender] = @ - n]
    /\ balances' = Moved(own, rcpt, n)
    /\ UNCHANGED <<totalSupply, minter>>

\* Mutant: without a minter the check is skipped.
UpdateMinterIfNone(sender, newMinter) ==
    /\ minter \in {sender, None}
    /\ minter' = newMinter
    /\ UNCHANGED <<balances, allowances, totalSupply>>

\* None is final: no sender is ever the minter again.
UpdateMinter(sender, newMinter) ==
    /\ sender = minter
    /\ minter' = newMinter
    /\ UNCHANGED <<balances, allowances, totalSupply>>

-----------------------------------------------------------------------------
\* Every message an account may send to the token (contract.rs, execute).
TokenExecute(sender) ==
    \/ \E rcpt \in Addr, n \in Amounts : Transfer(sender, rcpt, n)
    \/ \E n \in Amounts : Burn(sender, n)
    \/ \E rcpt \in Addr, n \in Amounts : Mint(sender, rcpt, n)
    \/ \E spender \in Spenders, n \in Amounts : Approve(sender, spender, n)
    \/ \E own, rcpt \in Addr, n \in Amounts : TransferFrom(sender, own, rcpt, n)
    \/ \E m \in Addr \cup {None} : UpdateMinter(sender, m)

TokenNext == \E sender \in Addr : TokenExecute(sender)

TokenSpec == TokenInit /\ [][TokenNext]_tokenVars

-----------------------------------------------------------------------------
(***************************************************************************)
(* total_supply is written by Mint and Burn only, the balances by every    *)
(* handler: the query TokenInfo never disagrees with the sum of the        *)
(* balances, whatever mixture of messages was executed.                    *)
(***************************************************************************)
SupplyIsSumOfBalances == totalSupply = Total(balances)

(***************************************************************************)
(* The credit of a transfer is an unchecked `+` that panics on overflow.   *)
(* It cannot be reached: a movement the payer can afford always fits the   *)
(* recipient's balance, because all balances together fit the supply.      *)
(***************************************************************************)
CreditNeverPanics ==
    \A from, to \in Addr : \A n \in 0..balances[from] : MoveOk(from, to, n)

(***************************************************************************)
(* Burn subtracts from the supply after it has debited the burner: the     *)
(* second checked_sub never fails once the first one succeeded.            *)
(***************************************************************************)
BurnNeverUnderflows == \A a \in Addr : balances[a] <= totalSupply

(***************************************************************************)
(* No supply without a minter: once minter is None the supply only shrinks *)
(* and no later message brings a minter back.                              *)
(***************************************************************************)
NoMinterIsFinal ==
    [][minter = None => minter' = None /\ totalSupply' <= totalSupply]_tokenVars

=============================================================================
