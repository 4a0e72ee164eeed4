------------------------------- MODULE Vault --------------------------------
(***************************************************************************)
(* What the staking protocol promises its stakers, with no contracts, no   *)
(* messages and no failures: a pool of deposits in which each operation is *)
(* one indivisible step.  StakingProtocol, whose transactions take several *)
(* steps and may be taken back half-way, implements it (VaultRefinement).  *)
(***************************************************************************)
EXTENDS Ledger

CONSTANTS
    Pool,           \* the account that holds the deposits
    Members,        \* the accounts that deposit
    MaxTime,
    Vacant,         \* the entry time of a member without a deposit
    Lapse(_, _),    \* whole seconds between two times
    Interest(_, _, _),  \* reward for an amount, a time and a rate
    Rate, Term      \* the possible rates and lock-up times

VARIABLES
    wallet,         \* tokens of every account
    deposit,        \* amount of every member in the pool
    entered,        \* when its interest last started to run
    clock,
    rate, term      \* terms of all deposits

vaultVars == <<wallet, deposit, entered, clock, rate, term>>

terms == <<rate, term>>

VaultInit ==
    /\ wallet = [a \in Addr |-> 0]
    /\ deposit = [m \in Members |-> 0]
    /\ entered = [m \in Members |-> Vacant]
    /\ clock = 0
    /\ rate \in Rate
    /\ term \in Term

-----------------------------------------------------------------------------
\* The deposit and the payment for it are one step.
Enter(m, n) ==
    /\ n <= wallet[m]
    /\ wallet' = Credit(Debit(wallet, m, n), Pool, n)
    /\ deposit' = Credit(deposit, m, n)
    /\ entered' = [entered EXCEPT ![m] = IF @ = Vacant THEN clock ELSE @]
    /\ UNCHANGED <<clock, terms>>

Due(m) == Interest(deposit[m], Lapse(entered[m], clock), rate)

Free(m) == entered[m] # Vacant /\ Lapse(entered[m], clock) >= term

\* A member gets back what it asks for, out of the pool, and all interest due.
Leave(m, n) ==
    /\ Free(m)
    /\ n <= deposit[m]
    /\ n <= wallet[Pool]
    /\ wallet' = Credit(Debit(wallet, Pool, n), m, n + Due(m))
    /\ deposit' = Debit(deposit, m, n)
    /\ entered' = [entered EXCEPT ![m] = IF n = deposit[m] THEN Vacant ELSE clock]
    /\ UNCHANGED <<clock, terms>>

Harvest(m) ==
    /\ Free(m)
    /\ Due(m) > 0
    /\ wallet' = Credit(wallet, m, Due(m))
    /\ entered' = [entered EXCEPT ![m] = clock]
    /\ UNCHANGED <<deposit, clock, terms>>

\* Whatever members do with their own tokens leaves the pool's alone.
Trade ==
    /\ wallet' \in Book
    /\ wallet'[Pool] >= wallet[Pool]
    /\ UNCHANGED <<deposit, entered, clock, terms>>

NewTerms ==
    /\ rate' \in Rate
    /\ term' \in Term
    /\ UNCHANGED <<wallet, deposit, entered, clock>>

Advance ==
    /\ clock < MaxTime
    /\ clock' = clock + 1
    /\ UNCHANGED <<wallet, deposit, entered, terms>>

VaultNext ==
    \/ \E m \in Members, n \in Amounts : Enter(m, n) \/ Leave(m, n)
    \/ \E m \in Members : Harvest(m)
    \/ Trade
    \/ NewTerms
    \/ Advance

VaultSpec == VaultInit /\ [][VaultNext]_vaultVars

=============================================================================
