------------------------------- MODULE Client -------------------------------
(***************************************************************************)
(* A run of a script and the client library it sends its transactions      *)
(* with, the one installed in node_modules: @cosmjs/stargate 0.38.1.  The  *)
(* scripts differ in what they do between two calls of the library; what   *)
(* the library does between accepting a message and answering, and how a   *)
(* run ends, is the same for all of them.                                  *)
(***************************************************************************)
EXTENDS Chain

Features == {"logs", "wasm", "cosmwasm", "jsonlog"}
    \* What the scripts take for granted or test for.  The installed client
    \* has none of the first three: its answers have events and rawLog, and
    \* it is made with the auth, bank, staking and tx queries only.  wasm and
    \* cosmwasm are what @cosmjs/cosmwasm adds, which no script uses.
    \* logs:     answers have a field logs with the parsed events
    \* wasm:     the client can query the wasm module
    \* cosmwasm: the client has the methods execute and queryContractSmart
    \* jsonlog:  the chain writes events as JSON into rawLog

VARIABLES
    lib,        \* the features of the installed client; fixed in a behaviour
    prog,       \* the script of each run; fixed in a behaviour
    pc,         \* what the run awaits next
    registry,   \* message types registered with its client
    msg,        \* message passed to signAndBroadcast
    seq,        \* sequence number read from the chain and still to be sent
    at,         \* position in blocks of the transaction the run looks at
    codeId,     \* the script's variable codeId, 0 for null
    address,    \* the script's variable contractAddress, 0 for null
    said,       \* statements printed
    exit        \* how the process ended

env == <<faults, lib, prog>>
clientVars == <<pc, registry, msg, seq, at, codeId, address, said, exit>>

\* none: a run that does not take place.
Programs == {"none", "deploy_cw20", "deploy_check_balance", "instantiate_cw20", "transfer_cw20",
             "find_latest_code", "get_code_from_tx", "query_code", "list_contracts",
             "query_cw20", "get_balance"}

Locations == {"start", "connected", "simulate", "estimate", "sign", "broadcast", "poll", "answered",
              "scan", "list", "done"}

Lines == {"usage", "stored", "fallback", "instantiated", "transferred", "transfer error",
          "code", "no code", "contract", "no contract", "codes", "no codes",
          "instances", "no instances", "no list", "info", "not found", "balance"}

ClientTypeOK ==
    /\ lib \subseteq Features
    /\ prog \in [Runs -> Programs]
    /\ pc \in [Runs -> Locations]
    /\ registry \in [Runs -> SUBSET MessageTypes]
    /\ msg \in [Runs -> Message]
    /\ seq \in [Runs -> Nat]
    /\ at \in [Runs -> Nat]
    /\ codeId \in [Runs -> Nat]
    /\ address \in [Runs -> Nat]
    /\ said \in [Runs -> SUBSET Lines]
    /\ exit \in [Runs -> {"running", "ok", "failed", "killed"}]

ClientInit ==
    /\ pc = [r \in Runs |-> IF prog[r] = "none" THEN "done" ELSE "start"]
    /\ registry = [r \in Runs |-> {}]
    /\ msg = [r \in Runs |-> NoMsg]
    /\ seq = [r \in Runs |-> 0]
    /\ at = [r \in Runs |-> 0]
    /\ codeId = [r \in Runs |-> 0]
    /\ address = [r \in Runs |-> 0]
    /\ said = [r \in Runs |-> {}]
    /\ exit = [r \in Runs |-> "running"]

-----------------------------------------------------------------------------
Goto(r, l) == pc' = [pc EXCEPT ![r] = l]
Say(r, lines) == said' = [said EXCEPT ![r] = @ \cup lines]

\* The process ends; its pending transaction, if any, is in the node's hands.
Finish(r, how, lines) ==
    /\ Goto(r, "done")
    /\ exit' = [exit EXCEPT ![r] = how]
    /\ Say(r, lines)

\* Mutant: every transfer is inside a try block.
InTryEverywhere(r) == msg[r].type = "transfer"

\* The test transfer of the deploying scripts is inside a try block.
InTry(r) == prog[r] \in {"deploy_cw20", "instantiate_cw20"} /\ msg[r].type = "transfer"

\* An exception: main().catch ends the run, except for the test transfer.
Throw(r) ==
    IF InTry(r) THEN Finish(r, "ok", {"transfer error"}) ELSE Finish(r, "failed", {})

\* connectWithSigner, and the message types the script registers afterwards.
Connect(r, types, next) ==
    \/ /\ Goto(r, next)
       /\ registry' = [registry EXCEPT ![r] = types]
       /\ UNCHANGED <<said, exit>>
    \/ /\ "network" \in faults
       /\ Finish(r, "failed", {})
       /\ UNCHANGED registry

\* The first lines of every script: no MNEMONIC, no run.
Begin(r, p, types, next) ==
    /\ prog[r] = p
    /\ pc[r] = "start"
    /\ Connect(r, types, next) \/ (Finish(r, "failed", {"usage"}) /\ UNCHANGED registry)

\* signAndBroadcast(sender, [m], "auto", memo)
Send(r, m) ==
    /\ msg' = [msg EXCEPT ![r] = m]
    /\ Goto(r, "simulate")

-----------------------------------------------------------------------------
\* The registry must know the type; client.execute would use one of its own.
Registered(r) == msg[r].type \in registry[r] \/ InTry(r)

\* Neither pending nor in a block any more, or not yet.
Lost(r) ==
    /\ \A tx \in pool : tx.run # r
    /\ \A i \in DOMAIN blocks : ~(blocks[i].run = r /\ blocks[i].type = msg[r].type)

\* simulate encodes the message and reads the account's sequence number.
Simulate(r) ==
    /\ pc[r] = "simulate"
    /\ \/ /\ Registered(r)
          /\ seq' = [seq EXCEPT ![r] = nonce]
          /\ Goto(r, "estimate")
          /\ UNCHANGED <<said, exit>>
       \/ /\ ~Registered(r) \/ "network" \in faults
          /\ Throw(r)
          /\ UNCHANGED seq
    /\ UNCHANGED <<chainVars, registry, msg, at, codeId, address>>

\* The fee "auto": the node executes the message on its pending state, if
\* the sequence number read before is still the next one.
Estimate(r) ==
    /\ pc[r] = "estimate"
    /\ \/ /\ Accepted(seq[r])
          /\ Executes(msg[r])
          /\ Goto(r, "sign")
          /\ UNCHANGED <<said, exit>>
       \/ /\ \/ ~Accepted(seq[r])
             \/ ~Executes(msg[r])
             \/ faults \cap {"network", "gas"} # {}
          /\ Throw(r)
    /\ seq' = [seq EXCEPT ![r] = 0]
    /\ UNCHANGED <<chainVars, registry, msg, at, codeId, address>>

\* Mutant: sign behind the pending transactions.
SignBehindPool(r) ==
    /\ pc[r] = "sign"
    /\ seq' = [seq EXCEPT ![r] = nonce + Cardinality(pool)]
    /\ Goto(r, "broadcast")
    /\ UNCHANGED <<chainVars, registry, msg, at, codeId, address, said, exit>>

\* Mutant: the sequence number is read once, before the first transaction.
SignWithFirstSequence(r) ==
    /\ pc[r] = "sign"
    /\ Goto(r, "broadcast")
    /\ UNCHANGED <<chainVars, registry, msg, seq, at, codeId, address, said, exit>>

\* Sign with the sequence number of the committed state.
Sign(r) ==
    /\ pc[r] = "sign"
    /\ \/ /\ seq' = [seq EXCEPT ![r] = nonce]
          /\ Goto(r, "broadcast")
          /\ UNCHANGED <<said, exit>>
       \/ "network" \in faults /\ Throw(r) /\ UNCHANGED seq
    /\ UNCHANGED <<chainVars, registry, msg, at, codeId, address>>

\* broadcastTxSync: an answer may be lost after the node took the transaction.
Broadcast(r) ==
    /\ pc[r] = "broadcast"
    /\ \/ /\ Accepted(seq[r])
          /\ pool' = pool \cup {[run |-> r, seq |-> seq[r], msg |-> msg[r]]}
          /\ \/ Goto(r, "poll") /\ UNCHANGED <<said, exit>>
             \/ "network" \in faults /\ Throw(r)
       \/ /\ ~Accepted(seq[r]) \/ "network" \in faults
          /\ Throw(r)
          /\ UNCHANGED pool
    /\ seq' = [seq EXCEPT ![r] = 0]
    /\ UNCHANGED <<codes, contracts, nonce, blocks, registry, msg, at, codeId, address>>

\* getTx finds the transaction in a block and its result is the answer.
Poll(r) ==
    /\ pc[r] = "poll"
    /\ \E i \in DOMAIN blocks :
        /\ blocks[i].run = r
        /\ blocks[i].type = msg[r].type
        /\ at' = [at EXCEPT ![r] = i]
    /\ Goto(r, "answered")
    /\ UNCHANGED <<chainVars, registry, msg, seq, codeId, address, said, exit>>

\* Mutant: after a time-out the message is signed and sent again.
TimeoutRetrying(r) ==
    /\ pc[r] = "poll"
    /\ faults \cap {"timeout", "network"} # {} \/ Lost(r)
    /\ Goto(r, "sign")
    /\ UNCHANGED <<chainVars, registry, msg, seq, at, codeId, address, said, exit>>

\* Mutant: polling goes on until the transaction is found.
TimeoutUnlessLost(r) ==
    /\ pc[r] = "poll"
    /\ faults \cap {"timeout", "network"} # {} /\ ~Lost(r)
    /\ Throw(r)
    /\ UNCHANGED <<chainVars, registry, msg, seq, at, codeId, address>>

\* TimeoutError, or a query that fails: the transaction may be in a block,
\* reach one later, or never.
Timeout(r) ==
    /\ pc[r] = "poll"
    /\ faults \cap {"timeout", "network"} # {} \/ Lost(r)
    /\ Throw(r)
    /\ UNCHANGED <<chainVars, registry, msg, seq, at, codeId, address>>

\* Interrupted by hand, or by the job's time limit of 10 minutes.
Kill(r) ==
    /\ "kill" \in faults
    /\ pc[r] # "done"
    /\ Finish(r, "killed", {})
    /\ UNCHANGED <<chainVars, registry, msg, seq, at, codeId, address>>

LibraryStep(r) ==
    Simulate(r) \/ Estimate(r) \/ Sign(r) \/ Broadcast(r) \/ Poll(r) \/ Timeout(r)

=============================================================================
