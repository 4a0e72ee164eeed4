---------------------------- MODULE TransferCw20 ----------------------------
(***************************************************************************)
(* scripts/transfer_cw20.js: one transfer of tokens, with a look at the    *)
(* balance before and after that may fail without consequence.             *)
(***************************************************************************)
EXTENDS Client

CONSTANTS
    DefaultContract,    \* DEFAULT_CONTRACT, as an address of the model
    TransferArgs        \* bound: amounts given on the command line

ASSUME TransferAssumption == DefaultContract \in Nat \ {0} /\ TransferArgs \subseteq Nat \ {0}

\* Arguments are positional: with fewer than three words the amount is missing.
\* The address of the contract, the first word, may be the empty string.
TransferBegin(r) ==
    /\ \E words \in 0..3, first \in {0} \cup DOMAIN contracts, amount \in TransferArgs :
        /\ address' = [address EXCEPT ![r] = IF first = 0 THEN DefaultContract ELSE first]
        /\ msg' = [msg EXCEPT ![r] = TransferMsg(address'[r], amount)]
        /\ \/ /\ words < 3
              /\ prog[r] = "transfer_cw20" /\ pc[r] = "start"
              /\ Finish(r, "failed", {"usage"})
              /\ UNCHANGED registry
           \/ /\ words = 3
              /\ Begin(r, "transfer_cw20", {"transfer"}, "connected")
    /\ UNCHANGED <<chainVars, seq, at, codeId>>

\* The balance asked for before and after is never printed: the installed
\* client has no such query, and one that has it would encode the Buffer it is
\* given as JSON once more.  Either error is caught.
TransferSend(r) ==
    /\ prog[r] = "transfer_cw20"
    /\ pc[r] = "connected"
    /\ Goto(r, "simulate")
    /\ UNCHANGED <<chainVars, registry, msg, seq, at, codeId, address, said, exit>>

TransferAnswered(r) ==
    /\ prog[r] = "transfer_cw20"
    /\ pc[r] = "answered"
    /\ \/ ~blocks[at[r]].ok /\ Finish(r, "failed", {})
       \/ blocks[at[r]].ok /\ Finish(r, "ok", {"transferred"})
    /\ UNCHANGED <<chainVars, registry, msg, seq, at, codeId, address>>

TransferStep(r) == TransferBegin(r) \/ TransferSend(r) \/ TransferAnswered(r)

=============================================================================
