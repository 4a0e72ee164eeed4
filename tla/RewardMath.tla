----------------------------- MODULE RewardMath -----------------------------
(***************************************************************************)
(* calculate_reward_apr of staking/src/contract.rs: simple interest,       *)
(* rounded down twice, in u128.                                            *)
(***************************************************************************)
EXTENDS Ledger

CONSTANTS
    BasisPoints,    \* 10_000: an apr of BasisPoints is 100% a year
    Year            \* SECONDS_PER_YEAR

ASSUME RewardAssumption == BasisPoints \in Nat \ {0} /\ Year \in Nat \ {0}

\* The early return for a zero factor is the product's value as well.
Product(amount, seconds, rate) == amount * rate * seconds

(***************************************************************************)
(* The two checked_mul().unwrap() panic as soon as a product leaves u128;  *)
(* with all factors positive the second product is the larger one.         *)
(***************************************************************************)
RewardPanics(amount, seconds, rate) == ~ Fits(Product(amount, seconds, rate))

Reward(amount, seconds, rate) ==
    (Product(amount, seconds, rate) \div BasisPoints) \div Year

=============================================================================
