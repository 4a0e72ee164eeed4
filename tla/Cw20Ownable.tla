---------------------------- MODULE Cw20Ownable -----------------------------
(***************************************************************************)
(* The stand-alone token, cw20/src/contract.rs: the token of the staking   *)
(* protocol with the owner of cw_ownable in the place of the minter.  The  *)
(* role changes hands by offer and acceptance, and an offer may lapse.     *)
(***************************************************************************)
EXTENDS Ownable

CONSTANT Spenders

ASSUME SpendersAssumption == Spenders \subseteq Addr

VARIABLES
    balances,       \* BALANCES
    allowances,     \* ALLOWANCES, by owner and spender
    totalSupply     \* TOKEN_INFO.total_supply

books == <<balances, allowances, totalSupply>>

vars == <<books, ownership, now>>

TypeOK ==
    /\ OwnableTypeOK
    /\ balances \in Book
    /\ allowances \in [Addr -> Book]
    /\ totalSupply \in Uint

\* The owner is the one the message names, or its sender.
Init ==
    /\ now = 0
    /\ \E first \in Addr : InitOwner(first)
    /\ balances = [a \in Addr |-> 0]
    /\ allowances = [a \in Addr |-> [s \in Addr |-> 0]]
    /\ totalSupply = 0

-----------------------------------------------------------------------------
Movable(from, to, n) ==
    n <= balances[from] /\ Fits(Debit(balances, from, n)[to] + n)

Move(from, to, n) ==
    /\ Movable(from, to, n)
    /\ balances' = Credit(Debit(balances, from, n), to, n)
    /\ UNCHANGED totalSupply

Transfer(sender, rcpt, n) ==
    /\ Move(sender, rcpt, n)
    /\ UNCHANGED allowances

Burn(sender, n) ==
    /\ n <= balances[sender] /\ n <= totalSupply
    /\ balances' = Debit(balances, sender, n)
    /\ totalSupply' = totalSupply - n
    /\ UNCHANGED allowances

\* Mutant: only the balance is protected against overflow.
MintUncapped(sender, rcpt, n) ==
    /\ IsOwner(sender)
    /\ Fits(balances[rcpt] + n)
    /\ balances' = Credit(balances, rcpt, n)
    /\ totalSupply' = totalSupply + n
    /\ UNCHANGED allowances

\* Mutant: assert_owner is forgotten.
MintByAnyone(sender, rcpt, n) ==
    /\ Fits(balances[rcpt] + n) /\ Fits(totalSupply + n)
    /\ balances' = Credit(balances, rcpt, n)
    /\ totalSupply' = totalSupply + n
    /\ UNCHANGED allowances

Mint(sender, rcpt, n) ==
    /\ IsOwner(sender)
    /\ Fits(balances[rcpt] + n) /\ Fits(totalSupply + n)
    /\ balances' = Credit(balances, rcpt, n)
    /\ totalSupply' = totalSupply + n
    /\ UNCHANGED allowances

Approve(sender, spender, n) ==
    /\ allowances' = [allowances EXCEPT ![sender][spender] = n]
    /\ UNCHANGED <<balances, totalSupply>>

TransferFrom(sender, own, rcpt, n) ==
    /\ n <= allowances[own][sender]
    /\ allowances' = [allowances EXCEPT ![own][sender] = @ - n]
    /\ Move(own, rcpt, n)

-----------------------------------------------------------------------------
Execute(sender) ==
    \/ /\ \/ \E rcpt \in Addr, n \in Amounts : Transfer(sender, rcpt, n)
          \/ \E n \in Amounts : Burn(sender, n)
          \/ \E rcpt \in Addr, n \in Amounts : Mint(sender, rcpt, n)
          \/ \E spender \in Spenders, n \in Amounts : Approve(sender, spender, n)
          \/ \E own, rcpt \in Addr, n \in Amounts : TransferFrom(sender, own, rcpt, n)
       /\ UNCHANGED ownership
    \/ UpdateOwnership(sender) /\ UNCHANGED books

Next ==
    \/ \E sender \in Addr : Execute(sender) /\ UNCHANGED now
    \/ Tick /\ UNCHANGED <<books, ownership>>

Spec == Init /\ [][Next]_vars

-----------------------------------------------------------------------------
(***************************************************************************)
(* The two tokens of the repository keep the same promise: read as minter, *)
(* the owner mints as the minter of the protocol's token does, and an      *)
(* acceptance or a renunciation is that minter's UpdateMinter.  An offer   *)
(* alone hands over nothing.                                               *)
(***************************************************************************)
Token == INSTANCE Cw20Token WITH minter <- owner

ImplementsToken == Token!TokenSpec

(***************************************************************************)
(* Renouncing the ownership ends minting for good: a pending offer dies    *)
(* with it, so nobody can accept afterwards and mint again.                *)
(***************************************************************************)
RenouncedSupplyNeverGrows ==
    [][owner = None => owner' = None /\ totalSupply' <= totalSupply]_vars

=============================================================================
