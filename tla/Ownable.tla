------------------------------- MODULE Ownable ------------------------------
(***************************************************************************)
(* The cw_ownable crate, from how the contracts use it (initialize_owner,  *)
(* update_ownership, assert_owner), and the block time it compares         *)
(* deadlines with.  A new owner takes over in two steps, offer and accept, *)
(* and the offer may carry a deadline.                                     *)
(*                                                                         *)
(* Block time counts ticks, TicksPerSec to the second: the chain has       *)
(* nanoseconds, and the contracts compare whole seconds.                   *)
(***************************************************************************)
EXTENDS Ledger

CONSTANTS
    MaxTime,        \* last tick of the model
    TicksPerSec,
    Heirs,          \* the addresses ownership is offered to
    Deadlines       \* the deadlines such offers carry

Time == 0..MaxTime

NoDeadline == MaxTime + 1   \* pending_expiry: None

ASSUME TimeAssumption == MaxTime \in Nat /\ TicksPerSec \in Nat \ {0}

ASSUME OfferAssumption ==
    Heirs \subseteq Addr /\ Deadlines \subseteq Time \cup {NoDeadline}

VARIABLES
    now,            \* env.block.time
    owner,          \* OWNERSHIP.owner
    pendingOwner,   \* OWNERSHIP.pending_owner
    pendingExpiry   \* OWNERSHIP.pending_expiry

ownership == <<owner, pendingOwner, pendingExpiry>>

OwnableTypeOK ==
    /\ now \in Time
    /\ owner \in Addr \cup {None}
    /\ pendingOwner \in Addr \cup {None}
    /\ pendingExpiry \in Time \cup {NoDeadline}

\* initialize_owner(storage, api, Some(first))
InitOwner(first) ==
    /\ owner = first
    /\ pendingOwner = None
    /\ pendingExpiry = NoDeadline

Seconds(t) == t \div TicksPerSec

\* The next block: time never goes back.
Tick ==
    /\ now < MaxTime
    /\ now' = now + 1

-----------------------------------------------------------------------------
\* assert_owner: after renouncing, owner is None and nobody passes.
IsOwner(sender) == owner = sender

\* A later offer replaces an earlier one that was not accepted.
TransferOwnership(sender, heir, expiry) ==
    /\ IsOwner(sender)
    /\ pendingOwner' = heir
    /\ pendingExpiry' = expiry
    /\ UNCHANGED owner

AcceptOwnership(sender) ==
    /\ sender = pendingOwner
    /\ now < pendingExpiry
    /\ owner' = sender
    /\ pendingOwner' = None
    /\ pendingExpiry' = NoDeadline

\* Mutant: a pending offer survives.
RenounceKeepingOffer(sender) ==
    /\ IsOwner(sender)
    /\ owner' = None
    /\ UNCHANGED <<pendingOwner, pendingExpiry>>

RenounceOwnership(sender) ==
    /\ IsOwner(sender)
    /\ owner' = None
    /\ pendingOwner' = None
    /\ pendingExpiry' = NoDeadline

UpdateOwnership(sender) ==
    \/ \E heir \in Heirs, expiry \in Deadlines :
           TransferOwnership(sender, heir, expiry)
    \/ AcceptOwnership(sender)
    \/ RenounceOwnership(sender)

=============================================================================
