------------------------------- MODULE Counter ------------------------------
(***************************************************************************)
(* The counter, my-first-contract/src/contract.rs: an i32 that its owner   *)
(* increments or sets.  The release profile keeps overflow checks          *)
(* (my-first-contract/Cargo.toml:31), so the unguarded `current + 1` of    *)
(* the last value panics, and the transaction fails.                       *)
(***************************************************************************)
EXTENDS Ownable, Integers

CONSTANTS
    MaxInt,     \* i32::MAX, small for TLC
    Counts      \* the values messages carry, negative ones as well

ASSUME CountAssumption == MaxInt \in Nat /\ Counts \subseteq (-MaxInt - 1)..MaxInt

VARIABLE count  \* COUNT

vars == <<count, now, ownership>>

\* The owner is the one the message names, or its sender.
Init ==
    /\ now = 0
    /\ \E first \in Addr : InitOwner(first)
    /\ count \in {c \in Counts : c >= 0}

-----------------------------------------------------------------------------
\* Mutant: the addition wraps, as it does without overflow checks.
IncrementWrapping(sender) ==
    /\ IsOwner(sender)
    /\ count' = IF count = MaxInt THEN -MaxInt - 1 ELSE count + 1

Increment(sender) ==
    /\ IsOwner(sender)
    /\ count < MaxInt
    /\ count' = count + 1

Reset(sender, c) ==
    /\ IsOwner(sender)
    /\ c >= 0
    /\ count' = c

Execute(sender) ==
    \/ /\ \/ Increment(sender)
          \/ \E c \in Counts : Reset(sender, c)
       /\ UNCHANGED ownership
    \/ UpdateOwnership(sender) /\ UNCHANGED count

Next ==
    \/ \E sender \in Addr : Execute(sender) /\ UNCHANGED now
    \/ Tick /\ UNCHANGED <<count, ownership>>

Spec == Init /\ [][Next]_vars

-----------------------------------------------------------------------------
(***************************************************************************)
(* What the error "Count cannot be negative" promises (error.rs:13) holds  *)
(* for every sequence of messages: neither a Reset nor an increment at     *)
(* the upper end of i32 makes the count negative.                          *)
(***************************************************************************)
CountNeverNegative == OwnableTypeOK /\ count \in 0..MaxInt

(***************************************************************************)
(* Renouncing freezes the count: a pending offer is void, so nobody can    *)
(* accept it afterwards and reset the counter.                             *)
(***************************************************************************)
RenouncedCountIsFrozen ==
    [][owner = None => owner' = None /\ count' = count]_vars

=============================================================================
