-------------------------- MODULE VaultRefinement ---------------------------
(***************************************************************************)
(* StakingProtocol implements Vault: seen through the chain's stored       *)
(* state, a transaction is one step, the one that executes its last        *)
(* message, or none if a message fails.                                    *)
(***************************************************************************)
EXTENDS StakingProtocol

SecondsBetween(t1, t2) == Seconds(t2) - Seconds(t1)

V == INSTANCE Vault WITH
        Pool <- StakingAddr, Members <- Users, Vacant <- NoEntry,
        Lapse <- SecondsBetween, Interest <- Reward,
        Rate <- Rates, Term <- Lockups,
        wallet <- committed.balances, deposit <- committed.staked,
        entered <- committed.stakeTime, clock <- now,
        rate <- apr, term <- lockup

(***************************************************************************)
(* Every stored state is the result of whole operations of the vault: a    *)
(* deposit is booked if and only if its tokens moved, principal and reward *)
(* are paid together and exactly as the state before the transaction says, *)
(* and nothing but a withdrawal takes tokens out of the pool.              *)
(***************************************************************************)
ImplementsVault == V!VaultSpec

=============================================================================
