------------------------- MODULE DeployCheckBalance -------------------------
(***************************************************************************)
(* check_balance/scripts/deploy_check_balance.js: as deploy_cw20.js, for   *)
(* one wasm file, without a fallback, and with the events read by          *)
(* unguarded property accesses: where they are missing, a TypeError ends   *)
(* the run.                                                                *)
(***************************************************************************)
EXTENDS Client

CheckBalanceBegin(r) ==
    /\ Begin(r, "deploy_check_balance", {"store", "instantiate"}, "connected")
    /\ UNCHANGED <<chainVars, msg, seq, at, codeId, address>>

\* readFileSync throws if the file has not been built.
CheckBalanceStoreCode(r) ==
    /\ prog[r] = "deploy_check_balance"
    /\ pc[r] = "connected"
    /\ \/ Send(r, StoreMsg("check_balance")) /\ UNCHANGED <<said, exit>>
       \/ Finish(r, "failed", {"usage"}) /\ UNCHANGED msg
    /\ UNCHANGED <<chainVars, registry, seq, at, codeId, address>>

CheckBalanceStored(r) ==
    /\ prog[r] = "deploy_check_balance"
    /\ pc[r] = "answered" /\ msg[r].type = "store"
    /\ \/ /\ ~blocks[at[r]].ok \/ "logs" \notin lib
          /\ Finish(r, "failed", {})
          /\ UNCHANGED <<msg, codeId>>
       \/ /\ blocks[at[r]].ok /\ "logs" \in lib
          /\ codeId' = [codeId EXCEPT ![r] = blocks[at[r]].made]
          /\ Say(r, {"code"})
          /\ Send(r, InstantiateMsg(blocks[at[r]].made, "empty"))
          /\ UNCHANGED exit
    /\ UNCHANGED <<chainVars, registry, seq, at, address>>

CheckBalanceInstantiated(r) ==
    /\ prog[r] = "deploy_check_balance"
    /\ pc[r] = "answered" /\ msg[r].type = "instantiate"
    /\ \/ /\ ~blocks[at[r]].ok \/ "logs" \notin lib
          /\ Finish(r, "failed", {})
          /\ UNCHANGED address
       \/ /\ blocks[at[r]].ok /\ "logs" \in lib
          /\ address' = [address EXCEPT ![r] = blocks[at[r]].made]
          /\ Finish(r, "ok", {"contract"})
    /\ UNCHANGED <<chainVars, registry, msg, seq, at, codeId>>

CheckBalanceStep(r) ==
    \/ CheckBalanceBegin(r) \/ CheckBalanceStoreCode(r)
    \/ CheckBalanceStored(r) \/ CheckBalanceInstantiated(r)

=============================================================================
