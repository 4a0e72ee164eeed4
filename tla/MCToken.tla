------------------------------ MODULE MCToken -------------------------------
(***************************************************************************)
(* The token for TLC, with the history of its approvals (Allowances).      *)
(* Total, of Cw20Token, counts units so that it can be reasoned            *)
(* about; here it is compared with the sum a reader expects, the fold of + *)
(* over the book, on every book of three accounts with at most three units *)
(* each.                                                                   *)
(***************************************************************************)
EXTENDS Allowances, Functions

SumByFold(book) == FoldFunction(LAMBDA x, y : x + y, 0, book)

ASSUME TotalIsSum == \A book \in [1..3 -> 0..3] : Total(book) = SumByFold(book)

=============================================================================
