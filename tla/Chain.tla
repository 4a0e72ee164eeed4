------------------------------- MODULE Chain --------------------------------
(***************************************************************************)
(* The chain as the deployment scripts depend on it: the codes and         *)
(* contracts of its wasm module, the sequence number of the one account    *)
(* all scripts sign with (the key in MNEMONIC), its pending transactions   *)
(* and the blocks that report results.  External code, modelled from the   *)
(* messages the scripts send and the answers they wait for.                *)
(***************************************************************************)
EXTENDS Integers, Sequences, FiniteSets

CONSTANTS
    Runs,           \* runs of scripts; every start of a script is another run
    Stranger,       \* whoever else uses the chain
    InitialCodes,   \* bound: number of codes stored before the first run
    MaxCodes,       \* bound: strangers store no code beyond this number
    Supply          \* tokens the initial_balances of cw20-base give the signer

ASSUME ChainAssumption ==
    /\ Stranger \notin Runs
    /\ InitialCodes \in Nat /\ MaxCodes \in Nat /\ Supply \in Nat

VARIABLES
    faults,     \* what may go wrong besides the scripts; fixed in a behaviour
    codes,      \* wasm codes; the id of a code is its position
    contracts,  \* instances; the address of a contract is its position
    nonce,      \* sequence number of the account in the committed state
    pool,       \* transactions the node accepted and no block holds
    blocks      \* transactions in blocks, with their results

chainVars == <<codes, contracts, nonce, pool, blocks>>

Faults == {"network", "timeout", "kill", "gas", "restart"}
Kinds == {"standart_cw20", "cw20", "check_balance"}
Tokens == {"standart_cw20", "cw20"}
MessageTypes == {"none", "store", "instantiate", "transfer"}

\* The InstantiateMsg a contract accepts; every one refuses unknown fields.
InitFormat ==
    [standart_cw20 |-> "cw20-base", cw20 |-> "cw20", check_balance |-> "empty"]

Bodies == Kinds \cup {InitFormat[k] : k \in Kinds} \cup {"none"}

Message == [type : MessageTypes, ref : Nat, body : Bodies, amount : Nat]
Code == [kind : Kinds, by : Runs \cup {Stranger}]
Contract == [code : Nat, by : Runs, left : Nat]
Tx == [run : Runs, seq : Nat, msg : Message]
Result == [run : Runs, type : MessageTypes, ok : BOOLEAN, made : Nat]

NoMsg == [type |-> "none", ref |-> 0, body |-> "none", amount |-> 0]
StoreMsg(wasm) == [type |-> "store", ref |-> 0, body |-> wasm, amount |-> 0]
InstantiateMsg(id, init) == [type |-> "instantiate", ref |-> id, body |-> init, amount |-> 0]
TransferMsg(contract, n) == [type |-> "transfer", ref |-> contract, body |-> "none", amount |-> n]

ChainTypeOK ==
    /\ faults \subseteq Faults
    /\ codes \in Seq(Code)
    /\ contracts \in Seq(Contract)
    /\ nonce \in Nat
    /\ pool \subseteq Tx
    /\ blocks \in Seq(Result)

ChainInit ==
    /\ codes \in [1..InitialCodes -> [kind : Kinds, by : {Stranger}]]
    /\ contracts = <<>>
    /\ nonce = 0
    /\ pool = {}
    /\ blocks = <<>>

OurCodes == {i \in DOMAIN codes : codes[i].by \in Runs}

-----------------------------------------------------------------------------
IsToken(contract) ==
    /\ contract \in DOMAIN contracts
    /\ codes[contracts[contract].code].kind \in Tokens

\* The chain would execute the message in its present state.
Executes(m) ==
    \/ m.type = "store"
    \/ /\ m.type = "instantiate"
       /\ m.ref \in DOMAIN codes
       /\ m.body = InitFormat[codes[m.ref].kind]
    \/ /\ m.type = "transfer"
       /\ IsToken(m.ref)
       /\ m.amount <= contracts[m.ref].left

\* CheckTx: the sequence number follows those of the pending transactions.
Accepted(seq) == seq = nonce + Cardinality(pool)

Record(tx, ok, made) ==
    blocks' = Append(blocks, [run |-> tx.run, type |-> tx.msg.type, ok |-> ok, made |-> made])

CommitStore(tx) ==
    /\ tx.msg.type = "store"
    /\ codes' = Append(codes, [kind |-> tx.msg.body, by |-> tx.run])
    /\ Record(tx, TRUE, Len(codes) + 1)
    /\ UNCHANGED contracts

CommitInstantiate(tx) ==
    /\ tx.msg.type = "instantiate"
    /\ contracts' = Append(contracts,
            [code |-> tx.msg.ref, by |-> tx.run,
             left |-> IF codes[tx.msg.ref].kind \in Tokens THEN Supply ELSE 0])
    /\ Record(tx, TRUE, Len(contracts) + 1)
    /\ UNCHANGED codes

CommitTransfer(tx) ==
    /\ tx.msg.type = "transfer"
    /\ contracts' = [contracts EXCEPT ![tx.msg.ref].left = @ - tx.msg.amount]
    /\ Record(tx, TRUE, 0)
    /\ UNCHANGED codes

\* In a block, without effect: it fails there, or it runs out of gas.
Refuse(tx) ==
    /\ ~Executes(tx.msg) \/ "gas" \in faults
    /\ Record(tx, FALSE, 0)
    /\ UNCHANGED <<codes, contracts>>

\* A block includes a pending transaction; either way it uses up its sequence.
Include ==
    \E tx \in pool :
        /\ tx.seq = nonce
        /\ nonce' = nonce + 1
        /\ pool' = pool \ {tx}
        /\ \/ Executes(tx.msg) /\ (CommitStore(tx) \/ CommitInstantiate(tx) \/ CommitTransfer(tx))
           \/ Refuse(tx)

\* The node restarts and has lost its pending transactions.
LosePool ==
    /\ "restart" \in faults
    /\ pool # {}
    /\ pool' = {}
    /\ UNCHANGED <<codes, contracts, nonce, blocks>>

StrangerStores ==
    /\ Len(codes) < MaxCodes
    /\ \E k \in Kinds : codes' = Append(codes, [kind |-> k, by |-> Stranger])
    /\ UNCHANGED <<contracts, nonce, pool, blocks>>

=============================================================================
