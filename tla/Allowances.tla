----------------------------- MODULE Allowances -----------------------------
(***************************************************************************)
(* Cw20Token with a record of who was allowed to spend what: a history of  *)
(* the grants of each owner to each spender and of what the spender drew.  *)
(* The contract keeps only the current allowance, which an approval        *)
(* overwrites; an owner who changes an approval races with its spender.    *)
(***************************************************************************)
EXTENDS Cw20Token

CONSTANT MaxGranted     \* bound on the sum of one owner's approvals to one spender

ASSUME GrantAssumption == MaxGranted \in Nat

VARIABLES
    by,         \* sender of the last message
    granted,    \* sum of all amounts approved, by owner and spender
    drawn       \* sum of all amounts the spender moved

allowanceVars == <<tokenVars, by, granted, drawn>>

AllowancesTypeOK ==
    /\ TokenTypeOK
    /\ by \in Addr \cup {None}
    /\ granted \in [Addr -> [Addr -> 0..MaxGranted]]
    /\ drawn \in [Addr -> [Addr -> Nat]]

AllowancesInit ==
    /\ TokenInit
    /\ by = None
    /\ granted = [a \in Addr |-> [s \in Addr |-> 0]]
    /\ drawn = [a \in Addr |-> [s \in Addr |-> 0]]

-----------------------------------------------------------------------------
Grant(sender, spender, n) ==
    /\ granted[sender][spender] + n <= MaxGranted
    /\ Approve(sender, spender, n)
    /\ granted' = [granted EXCEPT ![sender][spender] = @ + n]
    /\ UNCHANGED drawn

Draw(sender, own, rcpt, n) ==
    /\ TransferFrom(sender, own, rcpt, n)
    /\ drawn' = [drawn EXCEPT ![own][sender] = @ + n]
    /\ UNCHANGED granted

Ungranted(sender) ==
    /\ \/ \E rcpt \in Addr, n \in Amounts : Transfer(sender, rcpt, n)
       \/ \E n \in Amounts : Burn(sender, n)
       \/ \E rcpt \in Addr, n \in Amounts : Mint(sender, rcpt, n)
       \/ \E m \in Addr \cup {None} : UpdateMinter(sender, m)
    /\ UNCHANGED <<granted, drawn>>

AllowancesNext ==
    \E sender \in Addr :
        /\ by' = sender
        /\ \/ \E spender \in Spenders, n \in Amounts : Grant(sender, spender, n)
           \/ \E own, rcpt \in Addr, n \in Amounts : Draw(sender, own, rcpt, n)
           \/ Ungranted(sender)

AllowancesSpec == AllowancesInit /\ [][AllowancesNext]_allowanceVars

-----------------------------------------------------------------------------
(***************************************************************************)
(* However approvals, draws and overwriting approvals interleave, a        *)
(* spender never draws more than the owner's approvals add up to, and what *)
(* it may still draw is part of that sum (execute_tranfer_from and         *)
(* execute_approve).  It is the bound an owner can rely on when an         *)
(* approval is replaced: not the last amount, but the sum of both.         *)
(***************************************************************************)
DrawnWithinGrants ==
    \A o, s \in Addr : drawn[o][s] + allowances[o][s] <= granted[o][s]

(***************************************************************************)
(* No handler takes tokens from an account that neither sent the message   *)
(* nor had approved its sender for at least the amount taken.              *)
(***************************************************************************)
DebitNeedsConsent ==
    [][\A a \in Addr : balances'[a] < balances[a] =>
          \/ by' = a
          \/ balances[a] - balances'[a] <= allowances[a][by'] - allowances'[a][by']
      ]_allowanceVars

=============================================================================
