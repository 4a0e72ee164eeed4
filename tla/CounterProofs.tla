---------------------------- MODULE CounterProofs ---------------------------
(***************************************************************************)
(* The counter for every width of its integer, any accounts and any        *)
(* deadlines.                                                              *)
(***************************************************************************)
EXTENDS Counter, TLAPS

\* Without an owner there is no heir either.
NoHeir == owner = None => pendingOwner = None

CountInv == CountNeverNegative /\ NoHeir

LEMMA InitCount == Init => CountInv
<1> SUFFICES ASSUME Init PROVE CountInv
  OBVIOUS
<1>1. OwnableTypeOK /\ NoHeir
  BY TimeAssumption DEF Init, InitOwner, OwnableTypeOK, NoHeir, Time, NoDeadline
<1>2. count \in 0..MaxInt
  BY CountAssumption DEF Init
<1> QED BY <1>1, <1>2 DEF CountInv, CountNeverNegative

\* Offers, acceptance and renunciation keep the types; renouncing voids the offer.
LEMMA OwnershipKeepsTypes ==
    ASSUME OwnableTypeOK, NoHeir, NEW sender \in Addr, UpdateOwnership(sender), now' = now
    PROVE  OwnableTypeOK' /\ NoHeir' /\ (owner = None => owner' = None)
<1>1. sender # None /\ None \notin Addr
  BY AddrAssumption
<1>2. CASE \E heir \in Heirs, expiry \in Deadlines : TransferOwnership(sender, heir, expiry)
  BY <1>1, <1>2, OfferAssumption DEF TransferOwnership, IsOwner, OwnableTypeOK, NoHeir
<1>3. CASE AcceptOwnership(sender) \/ RenounceOwnership(sender)
  BY <1>1, <1>3 DEF AcceptOwnership, RenounceOwnership, IsOwner, OwnableTypeOK, NoHeir, NoDeadline
<1> QED BY <1>2, <1>3 DEF UpdateOwnership

LEMMA NextCount ==
    ASSUME CountInv, [Next]_vars
    PROVE  CountInv' /\ (owner = None => owner' = None /\ count' = count)
<1>1. None \notin Addr /\ MaxInt \in Nat /\ \A c \in Counts : c \in (-MaxInt - 1)..MaxInt
  BY AddrAssumption, CountAssumption
<1>2. ASSUME NEW sender \in Addr, Execute(sender), UNCHANGED now
      PROVE  CountInv' /\ (owner = None => owner' = None /\ count' = count)
  <2>1. CASE Increment(sender) /\ UNCHANGED ownership
    BY <1>1, <1>2, <2>1
       DEF Increment, IsOwner, ownership, CountInv, CountNeverNegative, OwnableTypeOK, NoHeir
  <2>2. CASE (\E c \in Counts : Reset(sender, c)) /\ UNCHANGED ownership
    BY <1>1, <1>2, <2>2
       DEF Reset, IsOwner, ownership, CountInv, CountNeverNegative, OwnableTypeOK, NoHeir
  <2>3. CASE UpdateOwnership(sender) /\ UNCHANGED count
    BY <1>2, <2>3, OwnershipKeepsTypes DEF CountInv, CountNeverNegative
  <2> QED BY <1>2, <2>1, <2>2, <2>3 DEF Execute
<1>3. CASE Tick /\ UNCHANGED <<count, ownership>>
  BY <1>3, TimeAssumption
     DEF Tick, Time, ownership, CountInv, CountNeverNegative, OwnableTypeOK, NoHeir
<1>4. CASE UNCHANGED vars
  BY <1>4 DEF vars, ownership, CountInv, CountNeverNegative, OwnableTypeOK, NoHeir
<1> QED BY <1>2, <1>3, <1>4 DEF Next

(***************************************************************************)
(* The count is an i32 that is never negative, for any sequence of         *)
(* messages.                                                               *)
(***************************************************************************)
THEOREM CountStaysNatural == Spec => []CountNeverNegative
<1>1. Spec => []CountInv
  BY InitCount, NextCount, PTL DEF Spec
<1>2. CountInv => CountNeverNegative
  BY DEF CountInv
<1> QED BY <1>1, <1>2, PTL

(***************************************************************************)
(* Renouncing freezes the count.                                           *)
(***************************************************************************)
THEOREM RenouncingFreezes == Spec => RenouncedCountIsFrozen
<1>1. Spec => []CountInv
  BY InitCount, NextCount, PTL DEF Spec
<1>2. CountInv /\ [Next]_vars => [owner = None => owner' = None /\ count' = count]_vars
  BY NextCount
<1> QED BY <1>1, <1>2, PTL DEF Spec, RenouncedCountIsFrozen

=============================================================================
