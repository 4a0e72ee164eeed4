----------------------------- MODULE DeployCw20 -----------------------------
(***************************************************************************)
(* scripts/deploy_cw20.js: store a wasm file, read the id of the code from *)
(* the events of that transaction (or take a constant), instantiate it,    *)
(* read the address of the contract, try a transfer.  Each action is the   *)
(* code from one awaited answer to the next.                               *)
(***************************************************************************)
EXTENDS Client

CONSTANT FallbackCode   \* the 4 of line 122

ASSUME FallbackAssumption == FallbackCode \in Nat \ {0}

DeployBegin(r) ==
    /\ Begin(r, "deploy_cw20", {"store", "instantiate"}, "connected")
    /\ UNCHANGED <<chainVars, msg, seq, at, codeId, address>>

\* Mutant: the second path is wrong, and an empty file is stored.
WasmChoiceWrongPath(files) ==
    IF "standart_cw20" \in files THEN "standart_cw20" ELSE "none"

\* WASM_PATHS is tried in this order.
WasmChoice(files) ==
    IF "standart_cw20" \in files THEN "standart_cw20" ELSE "cw20"

\* Which artifacts exist is decided by builds and checkouts, not by the script.
DeployStoreCode(r) ==
    /\ prog[r] = "deploy_cw20"
    /\ pc[r] = "connected"
    /\ \E files \in SUBSET Tokens :
        \/ /\ files = {}
           /\ Finish(r, "failed", {"usage"})
           /\ UNCHANGED msg
        \/ /\ files # {}
           /\ Send(r, StoreMsg(WasmChoice(files)))
           /\ UNCHANGED <<said, exit>>
    /\ UNCHANGED <<chainVars, registry, seq, at, codeId, address>>

\* Mutant: the id of the newest code on the chain, whoever stored it.
NewestId(r) == Len(codes)

\* The events of a transaction are read from the field logs only.
LoggedId(r) == IF "logs" \in lib THEN blocks[at[r]].made ELSE 0

CodeIdOrFallback(r) == IF LoggedId(r) = 0 THEN FallbackCode ELSE LoggedId(r)

\* The test after the fallback (lines 126-129) never finds the id missing.
DeployStored(r) ==
    /\ prog[r] = "deploy_cw20"
    /\ pc[r] = "answered" /\ msg[r].type = "store"
    /\ \/ /\ ~blocks[at[r]].ok
          /\ Finish(r, "failed", {})
          /\ UNCHANGED <<msg, codeId>>
       \/ /\ blocks[at[r]].ok
          /\ Say(r, {"stored"} \cup (IF LoggedId(r) = 0 THEN {"fallback"} ELSE {}))
          /\ codeId' = [codeId EXCEPT ![r] = CodeIdOrFallback(r)]
          /\ Send(r, InstantiateMsg(CodeIdOrFallback(r), "cw20-base"))
          /\ UNCHANGED exit
    /\ UNCHANGED <<chainVars, registry, seq, at, address>>

\* The address is printed; then client.execute is called, which the client
\* may not have: a TypeError inside the try block.
ReportContract(r, contract) ==
    /\ address' = [address EXCEPT ![r] = contract]
    /\ \/ /\ "cosmwasm" \in lib
          /\ Say(r, {"instantiated", "contract"})
          /\ Send(r, TransferMsg(contract, 1))
          /\ UNCHANGED exit
       \/ /\ "cosmwasm" \notin lib
          /\ Finish(r, "ok", {"instantiated", "contract", "transfer error"})
          /\ UNCHANGED msg

DeployInstantiated(r) ==
    /\ prog[r] = "deploy_cw20"
    /\ pc[r] = "answered" /\ msg[r].type = "instantiate"
    /\ \/ /\ ~blocks[at[r]].ok \/ LoggedId(r) = 0
          /\ Finish(r, "failed", {})
          /\ UNCHANGED <<msg, address>>
       \/ /\ blocks[at[r]].ok /\ LoggedId(r) # 0
          /\ ReportContract(r, LoggedId(r))
    /\ UNCHANGED <<chainVars, registry, seq, at, codeId>>

DeployTransferred(r) ==
    /\ prog[r] = "deploy_cw20"
    /\ pc[r] = "answered" /\ msg[r].type = "transfer"
    /\ Finish(r, "ok", IF blocks[at[r]].ok THEN {"transferred"} ELSE {"transfer error"})
    /\ UNCHANGED <<chainVars, registry, msg, seq, at, codeId, address>>

DeployStep(r) ==
    \/ DeployBegin(r) \/ DeployStoreCode(r) \/ DeployStored(r)
    \/ DeployInstantiated(r) \/ DeployTransferred(r)

=============================================================================
