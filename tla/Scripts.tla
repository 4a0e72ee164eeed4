------------------------------ MODULE Scripts -------------------------------
(***************************************************************************)
(* Runs of all scripts on one chain, signing with one account: runs of a   *)
(* workflow that overlap, a run repeated after one that failed, a person   *)
(* at a terminal beside the workflow.  The client library and the faults   *)
(* of a behaviour are chosen at its beginning.                             *)
(***************************************************************************)
EXTENDS DeployCw20, InstantiateCw20, DeployCheckBalance, TransferCw20, Lookups

CONSTANT Settings   \* which scripts run, with which client, among which faults

ASSUME SettingsAssumption ==
    Settings \subseteq
        [faults : SUBSET Faults, lib : SUBSET Features, prog : [Runs -> Programs]]

vars == <<chainVars, env, clientVars, lookupVars>>

TypeOK == ChainTypeOK /\ ClientTypeOK /\ LookupTypeOK

Init ==
    /\ \E s \in Settings : faults = s.faults /\ lib = s.lib /\ prog = s.prog
    /\ ChainInit /\ ClientInit /\ LookupInit

-----------------------------------------------------------------------------
SendingStep(r) ==
    \/ LibraryStep(r)
    \/ DeployStep(r) \/ InstantiateStep(r) \/ CheckBalanceStep(r) \/ TransferStep(r)

RunStep(r) == (SendingStep(r) /\ UNCHANGED lookupVars) \/ LookupStep(r)

ChainStep == Include \/ LosePool \/ StrangerStores

Next ==
    \/ (\E r \in Runs : RunStep(r) \/ (Kill(r) /\ UNCHANGED lookupVars)) /\ UNCHANGED env
    \/ ChainStep /\ UNCHANGED <<env, clientVars, lookupVars>>

Spec == Init /\ [][Next]_vars

\* A request is answered, fails or times out; a pending transaction gets into
\* a block, or is lost.  A process need not be killed, a node need not restart.
FairSpec ==
    /\ Spec
    /\ \A r \in Runs : WF_vars(RunStep(r) /\ UNCHANGED env)
    /\ WF_vars(Include /\ UNCHANGED <<env, clientVars, lookupVars>>)

-----------------------------------------------------------------------------
(***************************************************************************)
(* The transactions each script sends, in this order.                      *)
(***************************************************************************)
Plan(r) ==
    CASE prog[r] = "deploy_cw20" -> <<"store", "instantiate", "transfer">>
      [] prog[r] = "deploy_check_balance" -> <<"store", "instantiate">>
      [] prog[r] = "instantiate_cw20" -> <<"instantiate", "transfer">>
      [] prog[r] = "transfer_cw20" -> <<"transfer">>
      [] OTHER -> <<>>

Committed(r, type) ==
    {i \in DOMAIN blocks : blocks[i].run = r /\ blocks[i].type = type /\ blocks[i].ok}

Listed(r) == {found[r][i] : i \in DOMAIN found[r]}

Deploys(r) == prog[r] \in {"deploy_cw20", "deploy_check_balance"}

(***************************************************************************)
(* Two transactions of the account never compete for one sequence number   *)
(* and never queue up behind each other: whoever signs while another       *)
(* transaction is pending is turned away (signAndBroadcast in the          *)
(* overlapping runs of the workflows, which share one MNEMONIC).           *)
(***************************************************************************)
OneInFlight ==
    /\ \A tx \in pool : tx.seq = nonce
    /\ \A tx, other \in pool : tx = other

(***************************************************************************)
(* A run sends each of its transactions at most once: lost answers,        *)
(* time-outs, lost pools and kills never make a script store a code,       *)
(* instantiate it or pay a second time.                                    *)
(***************************************************************************)
SentOnce ==
    /\ \A i, j \in DOMAIN blocks :
        blocks[i].run = blocks[j].run /\ blocks[i].type = blocks[j].type => i = j
    /\ \A tx \in pool, i \in DOMAIN blocks :
        ~(blocks[i].run = tx.run /\ blocks[i].type = tx.msg.type)

(***************************************************************************)
(* A deployment instantiates a code it has not stored itself only after    *)
(* the warning that the id could not be extracted (deploy_cw20.js:121-124):*)
(* however stores of others come in between, an id is never guessed.       *)
(***************************************************************************)
ForeignOnlyAfterFallback ==
    \A i \in DOMAIN contracts :
        Deploys(contracts[i].by) =>
            \/ codes[contracts[i].code].by = contracts[i].by
            \/ "fallback" \in said[contracts[i].by]

(***************************************************************************)
(* The address a sending script prints is that of a contract this very run *)
(* created, from the code id it used, although other runs instantiate      *)
(* contracts of the same code under the same account at the same time.     *)
(***************************************************************************)
ReportedContractIsOwn ==
    \A r \in Runs : "contract" \in said[r] /\ Plan(r) # <<>> =>
        /\ address[r] \in DOMAIN contracts
        /\ contracts[address[r]].by = r
        /\ contracts[address[r]].code = codeId[r]

(***************************************************************************)
(* Exit code 0 means that what the script is for has been done: all its    *)
(* transactions are in blocks and succeeded, save the test transfer, whose *)
(* failure is only printed; and a transfer reported as successful is one.  *)
(***************************************************************************)
SuccessIsComplete ==
    \A r \in Runs :
        /\ exit[r] = "ok" => \A i \in DOMAIN Plan(r) :
            Plan(r)[i] # "transfer" \/ i = 1 => Committed(r, Plan(r)[i]) # {}
        /\ "transferred" \in said[r] => Committed(r, "transfer") # {}

(***************************************************************************)
(* find_latest_code.js lists only codes of the account; and if every query *)
(* was answered, it lists all codes up to the limit that existed when it   *)
(* began, so that none of them is newer than the "Latest code ID".         *)
(***************************************************************************)
LatestCodeIsOurs ==
    \A r \in Runs :
        /\ Listed(r) \subseteq OurCodes
        /\ prog[r] = "find_latest_code" /\ exit[r] = "ok"
           /\ "wasm" \in lib /\ "network" \notin faults =>
            /\ before[r] \cap 1..limit[r] \subseteq Listed(r)
            /\ found[r] # <<>> =>
                /\ codeId[r] \in OurCodes
                /\ \A c \in before[r] \cap 1..limit[r] : c <= codeId[r]

(***************************************************************************)
(* get_code_from_tx.js prints the code id and the address only of the      *)
(* transaction asked for; that none was stored it prints only if that is   *)
(* so, provided the events are in logs or rawLog.                          *)
(***************************************************************************)
TxReportIsTrue ==
    \A r \in Runs : prog[r] = "get_code_from_tx" =>
        /\ "code" \in said[r] =>
            /\ codeId[r] \in DOMAIN codes
            /\ codes[codeId[r]].by = blocks[at[r]].run
            /\ blocks[at[r]].type = "store"
        /\ "contract" \in said[r] =>
            /\ address[r] \in DOMAIN contracts
            /\ contracts[address[r]].by = blocks[at[r]].run
        /\ "no code" \in said[r] /\ lib \cap {"logs", "jsonlog"} # {} =>
            blocks[at[r]].type # "store"

(***************************************************************************)
(* Whatever client, node and network do to it, every run carries out a     *)
(* prefix of its plan, in order and each transaction once; with logs, a    *)
(* deployment launches its own code, and pays from its own contract.       *)
(***************************************************************************)
R == INSTANCE Rollout WITH
        Parties <- Runs, Nobody <- Stranger, Artifacts <- Kinds, Endowments <- {0, Supply},
        plan <- [r \in Runs |-> Plan(r)],
        careful <- "logs" \in lib,
        done <- [r \in Runs |-> Cardinality({i \in DOMAIN blocks : blocks[i].run = r /\ blocks[i].ok})],
        code <- codes,
        instance <- contracts

ImplementsRollout == R!RolloutSpec

(***************************************************************************)
(* No script hangs: every run ends, whatever is lost or rejected.          *)
(***************************************************************************)
EveryRunEnds == <>(\A r \in Runs : pc[r] = "done")

(***************************************************************************)
(* Runs of deploy_cw20.js that overlap cannot all fail because of each     *)
(* other: when nothing else goes wrong, one of them completes.             *)
(***************************************************************************)
Misused(r) ==
    "usage" \in said[r] \/ \E c \in DOMAIN codes : codes[c].by = r /\ codes[c].kind = "cw20"

SomeDeploymentSucceeds ==
    /\ faults = {} /\ "logs" \in lib
    /\ {"deploy_cw20"} = {prog[r] : r \in Runs} \ {"none"}
    => <>(\E r \in Runs : exit[r] = "ok" \/ Misused(r))

-----------------------------------------------------------------------------
(***************************************************************************)
(* What the documentation says, and the installed client library breaks:   *)
(* the contract a deployment leaves behind is an instance of the code it   *)
(* built and stored (.github/workflows/README.md:21-23).                   *)
(***************************************************************************)
DeployedCodeIsOwn ==
    \A i \in DOMAIN contracts :
        Deploys(contracts[i].by) => codes[contracts[i].code].by = contracts[i].by

(***************************************************************************)
(* "No code IDs found created by your address" is printed only if the      *)
(* account had stored none, up to the limit, when the search began         *)
(* (find_latest_code.js:54 and 73-74).                                     *)
(***************************************************************************)
NoCodesMeansNone ==
    \A r \in Runs : "no codes" \in said[r] => before[r] \cap 1..limit[r] = {}

=============================================================================
