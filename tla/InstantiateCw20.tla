-------------------------- MODULE InstantiateCw20 ---------------------------
(***************************************************************************)
(* scripts/instantiate_cw20.js: instantiate a code whose id is given on    *)
(* the command line, read the address of the contract, try a transfer.     *)
(***************************************************************************)
EXTENDS Client

CONSTANTS
    DefaultCode,    \* the 27 of line 43
    CodeArgs        \* bound: ids given on the command line; 0 for anything
                    \* parseInt reads as 0 or not at all

ASSUME InstantiateAssumption == DefaultCode \in Nat \ {0} /\ CodeArgs \subseteq Nat

CodeArgument(arg) == IF arg = 0 THEN DefaultCode ELSE arg

InstantiateBegin(r) ==
    /\ Begin(r, "instantiate_cw20", {"instantiate"}, "connected")
    /\ \E arg \in CodeArgs : codeId' = [codeId EXCEPT ![r] = CodeArgument(arg)]
    /\ UNCHANGED <<chainVars, msg, seq, at, address>>

InstantiateCode(r) ==
    /\ prog[r] = "instantiate_cw20"
    /\ pc[r] = "connected"
    /\ Send(r, InstantiateMsg(codeId[r], "cw20-base"))
    /\ UNCHANGED <<chainVars, registry, seq, at, codeId, address, said, exit>>

\* Mutant: the address of the newest contract on the chain.
NewestAddress(r) == Len(contracts)

LoggedAddress(r) == IF "logs" \in lib THEN blocks[at[r]].made ELSE 0

TryTransfer(r, contract) ==
    /\ address' = [address EXCEPT ![r] = contract]
    /\ \/ /\ "cosmwasm" \in lib
          /\ Say(r, {"instantiated", "contract"})
          /\ Send(r, TransferMsg(contract, 1))
          /\ UNCHANGED exit
       \/ /\ "cosmwasm" \notin lib
          /\ Finish(r, "ok", {"instantiated", "contract", "transfer error"})
          /\ UNCHANGED msg

InstantiateAnswered(r) ==
    /\ prog[r] = "instantiate_cw20"
    /\ pc[r] = "answered" /\ msg[r].type = "instantiate"
    /\ \/ /\ ~blocks[at[r]].ok \/ LoggedAddress(r) = 0
          /\ Finish(r, "failed", {})
          /\ UNCHANGED <<msg, address>>
       \/ /\ blocks[at[r]].ok /\ LoggedAddress(r) # 0
          /\ TryTransfer(r, LoggedAddress(r))
    /\ UNCHANGED <<chainVars, registry, seq, at, codeId>>

InstantiateTransferred(r) ==
    /\ prog[r] = "instantiate_cw20"
    /\ pc[r] = "answered" /\ msg[r].type = "transfer"
    /\ Finish(r, "ok", IF blocks[at[r]].ok THEN {"transferred"} ELSE {"transfer error"})
    /\ UNCHANGED <<chainVars, registry, msg, seq, at, codeId, address>>

InstantiateStep(r) ==
    \/ InstantiateBegin(r) \/ InstantiateCode(r)
    \/ InstantiateAnswered(r) \/ InstantiateTransferred(r)

=============================================================================
