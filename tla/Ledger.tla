------------------------------- MODULE Ledger -------------------------------
(***************************************************************************)
(* Books of account shared by the contracts: a cw-storage-plus             *)
(* Map<&Addr, Uint128> read with unwrap_or_default() is a total function   *)
(* from addresses to amounts.  Uint128 is the interval Uint; an addition   *)
(* that leaves it panics, and a panic aborts the transaction, so every     *)
(* action that adds to a book has a Fits guard.                            *)
(***************************************************************************)
EXTENDS Naturals, FiniteSets

CONSTANTS
    Addr,       \* the accounts and contracts of the chain
    None,       \* Option::None for an address
    MaxUint,    \* Uint128::MAX, small for TLC
    Amounts     \* the amounts users write in their messages

Uint == 0..MaxUint

ASSUME AddrAssumption == IsFiniteSet(Addr) /\ None \notin Addr

ASSUME UintAssumption == MaxUint \in Nat /\ Amounts \subseteq Uint

Book == [Addr -> Uint]

Fits(n) == n <= MaxUint

Credit(book, a, n) == [book EXCEPT ![a] = @ + n]

Debit(book, a, n) == [book EXCEPT ![a] = @ - n]

-----------------------------------------------------------------------------
(***************************************************************************)
(* The sum of a book, as the number of its units: unit i of account a is   *)
(* the pair <<a, i>>.  Stated with Cardinality and not with a fold, so     *)
(* that the library's theorems on finite sets apply to it.                 *)
(***************************************************************************)
Units(book) == UNION {{a} \X (1..book[a]) : a \in DOMAIN book}

Total(book) == Cardinality(Units(book))

=============================================================================
