------------------------------ MODULE Lookups -------------------------------
(***************************************************************************)
(* The scripts that only read: find_latest_code.js, get_code_from_tx.js,   *)
(* query_code.js, list_contracts.js, query_cw20.js and                     *)
(* check_balance/scripts/get_balance.js.  Nothing they do changes the      *)
(* chain; what matters is whether what they print is so, while deployments *)
(* go on.                                                                  *)
(***************************************************************************)
EXTENDS Client

CONSTANTS
    DefaultScan,    \* the 100 of find_latest_code.js:27
    ScanArgs,       \* bound: limits given to find_latest_code.js; 0 for none
    LookupArgs      \* bound: ids, addresses and transactions asked for

ASSUME LookupAssumption ==
    DefaultScan \in Nat \ {0} /\ ScanArgs \subseteq Nat /\ LookupArgs \subseteq Nat

VARIABLES
    scan,       \* find_latest_code: the loop variable i
    limit,      \* find_latest_code: maxCodeId
    found,      \* find_latest_code: foundCodes, the ids
    before      \* history: the codes of the account when the run began

lookupVars == <<scan, limit, found, before>>

LookupTypeOK ==
    /\ scan \in [Runs -> Nat]
    /\ limit \in [Runs -> Nat]
    /\ found \in [Runs -> Seq(Nat)]
    /\ before \in [Runs -> SUBSET Nat]

LookupInit ==
    /\ scan = [r \in Runs |-> 1]
    /\ limit = [r \in Runs |-> 0]
    /\ found = [r \in Runs |-> <<>>]
    /\ before = [r \in Runs |-> {}]

\* The end of a script that reads: exit code 1 after an error, else 0.
Failed(r) == Finish(r, "failed", {})
Done(r, lines) == Finish(r, "ok", lines)

-----------------------------------------------------------------------------
ScanLimit(arg) == IF arg = 0 THEN DefaultScan ELSE arg

FindBegin(r) ==
    /\ Begin(r, "find_latest_code", {}, "scan")
    /\ \E arg \in ScanArgs : limit' = [limit EXCEPT ![r] = ScanLimit(arg)]
    /\ before' = [before EXCEPT ![r] = OurCodes]
    /\ UNCHANGED <<chainVars, msg, seq, at, codeId, address, scan, found>>

\* One turn of the loop.  Whatever goes wrong counts as "no such code".
FindNext(r) ==
    /\ prog[r] = "find_latest_code"
    /\ pc[r] = "scan"
    /\ scan[r] <= limit[r]
    /\ \/ /\ "wasm" \in lib /\ scan[r] \in OurCodes
          /\ found' = [found EXCEPT ![r] = Append(@, scan[r])]
       \/ /\ "wasm" \notin lib \/ scan[r] \notin OurCodes \/ "network" \in faults
          /\ UNCHANGED found
    /\ scan' = [scan EXCEPT ![r] = @ + 1]
    /\ UNCHANGED <<chainVars, clientVars, limit, before>>

\* Mutant: the first of foundCodes.
Earliest(ids) == ids[1]

\* The last of foundCodes.
Latest(ids) == ids[Len(ids)]

FindReport(r) ==
    /\ prog[r] = "find_latest_code"
    /\ pc[r] = "scan"
    /\ scan[r] > limit[r]
    /\ \/ found[r] = <<>> /\ Done(r, {"no codes"}) /\ UNCHANGED codeId
       \/ /\ found[r] # <<>>
          /\ Done(r, {"codes"})
          /\ codeId' = [codeId EXCEPT ![r] = Latest(found[r])]
    /\ UNCHANGED <<chainVars, registry, msg, seq, at, address, lookupVars>>

-----------------------------------------------------------------------------
TxBegin(r) ==
    /\ Begin(r, "get_code_from_tx", {}, "connected")
    /\ \E hash \in LookupArgs : at' = [at EXCEPT ![r] = hash]
    /\ UNCHANGED <<chainVars, msg, seq, codeId, address, lookupVars>>

\* Mutant: whatever kind of event the value belongs to.
MadeByAny(r, type) == blocks[at[r]].made

Made(r, type) == IF blocks[at[r]].type = type THEN blocks[at[r]].made ELSE 0

\* First from logs; where that finds nothing, from rawLog.
TxCodeId(r) == IF lib \cap {"logs", "jsonlog"} # {} THEN Made(r, "store") ELSE 0

\* The address is looked for in logs only.
TxAddress(r) == IF "logs" \in lib THEN Made(r, "instantiate") ELSE 0

TxReport(r) ==
    /\ codeId' = [codeId EXCEPT ![r] = TxCodeId(r)]
    /\ address' = [address EXCEPT ![r] = TxAddress(r)]
    /\ LET lines == { IF TxCodeId(r) # 0 THEN "code" ELSE "no code",
                      IF TxAddress(r) # 0 THEN "contract" ELSE "no contract" }
       IN  IF TxCodeId(r) # 0
           THEN Goto(r, "list") /\ Say(r, lines) /\ UNCHANGED exit
           ELSE Done(r, lines)

TxRead(r) ==
    /\ prog[r] = "get_code_from_tx"
    /\ pc[r] = "connected"
    /\ \/ /\ at[r] \notin DOMAIN blocks
          /\ Finish(r, "failed", {"not found"})
          /\ UNCHANGED <<codeId, address>>
       \/ /\ \/ "network" \in faults
             \/ at[r] \in DOMAIN blocks /\ ~blocks[at[r]].ok
          /\ Failed(r)
          /\ UNCHANGED <<codeId, address>>
       \/ /\ at[r] \in DOMAIN blocks /\ blocks[at[r]].ok
          /\ TxReport(r)
    /\ UNCHANGED <<chainVars, registry, msg, seq, at, lookupVars>>

Instances(id) == {a \in DOMAIN contracts : contracts[a].code = id}

\* An error while listing is ignored, and so is an empty list.
TxList(r) ==
    /\ prog[r] = "get_code_from_tx"
    /\ pc[r] = "list"
    /\ \/ "wasm" \in lib /\ Instances(codeId[r]) # {} /\ Done(r, {"instances"})
       \/ /\ "wasm" \notin lib \/ Instances(codeId[r]) = {} \/ "network" \in faults
          /\ Done(r, {})
    /\ UNCHANGED <<chainVars, registry, msg, seq, at, codeId, address, lookupVars>>

-----------------------------------------------------------------------------
QueryCodeBegin(r) ==
    /\ Begin(r, "query_code", {}, "connected")
    /\ \E id \in LookupArgs : codeId' = [codeId EXCEPT ![r] = id]
    /\ UNCHANGED <<chainVars, msg, seq, at, address, lookupVars>>

QueryCodeInfo(r) ==
    /\ prog[r] = "query_code"
    /\ pc[r] = "connected"
    /\ \/ /\ "wasm" \in lib /\ codeId[r] \in DOMAIN codes
          /\ Goto(r, "list") /\ Say(r, {"info"})
          /\ UNCHANGED exit
       \/ /\ "wasm" \notin lib \/ codeId[r] \notin DOMAIN codes \/ "network" \in faults
          /\ Failed(r)
    /\ UNCHANGED <<chainVars, registry, msg, seq, at, codeId, address, lookupVars>>

\* The list may fail on its own; the run is a success all the same.
QueryCodeList(r) ==
    /\ prog[r] = "query_code"
    /\ pc[r] = "list"
    /\ \/ Done(r, IF Instances(codeId[r]) = {} THEN {"no instances"} ELSE {"instances"})
       \/ "network" \in faults /\ Done(r, {"no list"})
    /\ UNCHANGED <<chainVars, registry, msg, seq, at, codeId, address, lookupVars>>

-----------------------------------------------------------------------------
ListBegin(r) ==
    /\ Begin(r, "list_contracts", {}, "connected")
    /\ \E id \in LookupArgs : codeId' = [codeId EXCEPT ![r] = id]
    /\ UNCHANGED <<chainVars, msg, seq, at, address, lookupVars>>

\* Of an id without a code the chain lists no contracts.
ListContracts(r) ==
    /\ prog[r] = "list_contracts"
    /\ pc[r] = "connected"
    /\ \/ /\ "wasm" \in lib
          /\ Done(r, IF Instances(codeId[r]) = {} THEN {"no instances"} ELSE {"instances"})
       \/ /\ "wasm" \notin lib \/ "network" \in faults
          /\ Failed(r)
    /\ UNCHANGED <<chainVars, registry, msg, seq, at, codeId, address, lookupVars>>

-----------------------------------------------------------------------------
QueryCw20Begin(r) ==
    /\ Begin(r, "query_cw20", {}, "connected")
    /\ \E contract \in LookupArgs : address' = [address EXCEPT ![r] = contract]
    /\ UNCHANGED <<chainVars, msg, seq, at, codeId, lookupVars>>

\* Whatever is asked, the run ends with 1.  The installed client has no
\* queryContractSmart; one that has it encodes its argument as JSON, which is
\* a Buffer here and so becomes a query that no contract knows.
QueryCw20Ask(r) ==
    /\ prog[r] = "query_cw20"
    /\ pc[r] = "connected"
    /\ Failed(r)
    /\ UNCHANGED <<chainVars, registry, msg, seq, at, codeId, address, lookupVars>>

-----------------------------------------------------------------------------
BalanceBegin(r) ==
    /\ Begin(r, "get_balance", {}, "connected")
    /\ UNCHANGED <<chainVars, msg, seq, at, codeId, address, lookupVars>>

\* The bank module is part of every client.
BalanceRead(r) ==
    /\ prog[r] = "get_balance"
    /\ pc[r] = "connected"
    /\ Done(r, {"balance"}) \/ ("network" \in faults /\ Failed(r))
    /\ UNCHANGED <<chainVars, registry, msg, seq, at, codeId, address, lookupVars>>

-----------------------------------------------------------------------------
LookupStep(r) ==
    \/ FindBegin(r) \/ FindNext(r) \/ FindReport(r)
    \/ TxBegin(r) \/ TxRead(r) \/ TxList(r)
    \/ QueryCodeBegin(r) \/ QueryCodeInfo(r) \/ QueryCodeList(r)
    \/ ListBegin(r) \/ ListContracts(r)
    \/ QueryCw20Begin(r) \/ QueryCw20Ask(r)
    \/ BalanceBegin(r) \/ BalanceRead(r)

=============================================================================
