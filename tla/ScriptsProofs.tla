--------------------------- MODULE ScriptsProofs ----------------------------
(***************************************************************************)
(* Proofs about Scripts, for any number of runs, any programs, clients and *)
(* faults, and with a chain anybody may store codes on.                    *)
(***************************************************************************)
EXTENDS Scripts, FiniteSetTheorems, TLAPS

\* The variables a run's progress shows in.
Course ==
    /\ pc \in [Runs -> Locations]
    /\ said \in [Runs -> SUBSET Lines]
    /\ exit \in [Runs -> {"running", "ok", "failed", "killed"}]

\* The answer a run looks at is that of its own message.
Answered ==
    \A r \in Runs : pc[r] = "answered" =>
        /\ at[r] \in DOMAIN blocks
        /\ blocks[at[r]].run = r
        /\ blocks[at[r]].type = msg[r].type

\* A stored code has a kind that instances can be made of.
BodiesKnown ==
    /\ \A r \in Runs : msg[r].type = "store" => msg[r].body \in Kinds
    /\ \A tx \in pool : tx.msg.type = "store" => tx.msg.body \in Kinds

Typed == TypeOK /\ Answered /\ BodiesKnown

-----------------------------------------------------------------------------
(* The steps scripts are made of keep the types.                            *)

LEMMA LocationNames ==
    {"start", "connected", "simulate", "estimate", "sign", "broadcast", "poll", "answered",
     "scan", "list", "done"} = Locations
BY DEF Locations

LEMMA LineNames ==
    {"usage", "stored", "fallback", "instantiated", "transferred", "transfer error",
     "code", "no code", "contract", "no contract", "codes", "no codes",
     "instances", "no instances", "no list", "info", "not found", "balance"} = Lines
BY DEF Lines

LEMMA FinishTyped ==
    ASSUME Course, NEW r \in Runs, NEW how \in {"ok", "failed", "killed"},
           NEW lines \in SUBSET Lines, Finish(r, how, lines)
    PROVE  Course'
BY LocationNames DEF Course, Finish, Goto, Say

LEMMA GotoTyped ==
    ASSUME Course, NEW r \in Runs, NEW l \in Locations, Goto(r, l)
    PROVE  pc' \in [Runs -> Locations]
BY DEF Course, Goto

LEMMA SayTyped ==
    ASSUME Course, NEW r \in Runs, NEW lines \in SUBSET Lines, Say(r, lines)
    PROVE  said' \in [Runs -> SUBSET Lines]
BY DEF Course, Say

LEMMA ThrowTyped ==
    ASSUME Course, NEW r \in Runs, Throw(r)
    PROVE  Course'
<1>1. {} \in SUBSET Lines /\ {"transfer error"} \in SUBSET Lines
  BY LineNames
<1> QED BY <1>1, FinishTyped DEF Throw

LEMMA BeginTyped ==
    ASSUME Course, registry \in [Runs -> SUBSET MessageTypes], NEW r \in Runs, NEW p,
           NEW types \in SUBSET MessageTypes, NEW next \in Locations,
           Begin(r, p, types, next)
    PROVE  Course' /\ registry' \in [Runs -> SUBSET MessageTypes]
<1>1. {} \in SUBSET Lines /\ {"usage"} \in SUBSET Lines
  BY LineNames
<1>2. CASE Connect(r, types, next)
  <2>1. CASE Goto(r, next) /\ registry' = [registry EXCEPT ![r] = types] /\ UNCHANGED <<said, exit>>
    BY <2>1, GotoTyped DEF Course
  <2>2. CASE Finish(r, "failed", {}) /\ UNCHANGED registry
    BY <2>2, <1>1, FinishTyped
  <2> QED BY <1>2, <2>1, <2>2 DEF Connect
<1>3. CASE Finish(r, "failed", {"usage"}) /\ UNCHANGED registry
  BY <1>1, <1>3, FinishTyped
<1> QED BY <1>2, <1>3 DEF Begin

LEMMA MessagesTyped ==
    /\ \A wasm \in Kinds : StoreMsg(wasm) \in Message
    /\ \A id \in Nat, init \in Bodies : InstantiateMsg(id, init) \in Message
    /\ \A contract \in Nat, n \in Nat : TransferMsg(contract, n) \in Message
    /\ "cw20-base" \in Bodies /\ "empty" \in Bodies
BY DEF StoreMsg, InstantiateMsg, TransferMsg, Message, Bodies, MessageTypes, InitFormat, Kinds

LEMMA SendTyped ==
    ASSUME Course, msg \in [Runs -> Message], NEW r \in Runs, NEW m \in Message, Send(r, m)
    PROVE  msg' \in [Runs -> Message] /\ pc' \in [Runs -> Locations]
BY LocationNames, GotoTyped DEF Send

-----------------------------------------------------------------------------
(* Every step of a run keeps the types of the client's variables.           *)

LEMMA ClientCourse == ClientTypeOK <=>
    /\ Course
    /\ lib \subseteq Features
    /\ prog \in [Runs -> Programs]
    /\ registry \in [Runs -> SUBSET MessageTypes]
    /\ msg \in [Runs -> Message]
    /\ seq \in [Runs -> Nat]
    /\ at \in [Runs -> Nat]
    /\ codeId \in [Runs -> Nat]
    /\ address \in [Runs -> Nat]
BY DEF ClientTypeOK, Course

LEMMA AnswerTyped ==
    ASSUME Typed, NEW r \in Runs, pc[r] = "answered"
    PROVE  blocks[at[r]] \in Result /\ blocks[at[r]].made \in Nat
<1>1. blocks \in Seq(Result) /\ at[r] \in DOMAIN blocks
  BY DEF Typed, TypeOK, ChainTypeOK, Answered
<1>2. blocks[at[r]] \in Result
  BY <1>1
<1> QED BY <1>2 DEF Result

LEMMA DeployStepTyped ==
    ASSUME Typed, NEW r \in Runs, DeployStep(r), UNCHANGED env
    PROVE  ClientTypeOK'
<1> USE DEF env
<1>1. Course /\ ClientTypeOK
  BY ClientCourse DEF Typed, TypeOK
<1>2. CASE DeployBegin(r)
  <2>1. {"store", "instantiate"} \in SUBSET MessageTypes /\ "connected" \in Locations
    BY LocationNames DEF MessageTypes
  <2>2. Course' /\ registry' \in [Runs -> SUBSET MessageTypes]
    BY <1>1, <1>2, <2>1, BeginTyped DEF DeployBegin, ClientTypeOK
  <2> QED BY <1>1, <1>2, <2>2 DEF DeployBegin, ClientTypeOK, Course
<1>3. CASE DeployStoreCode(r)
  <2> PICK files \in SUBSET Tokens :
        \/ Finish(r, "failed", {"usage"}) /\ UNCHANGED msg
        \/ files # {} /\ Send(r, StoreMsg(WasmChoice(files))) /\ UNCHANGED <<said, exit>>
    BY <1>3 DEF DeployStoreCode
  <2>1. Course' /\ msg' \in [Runs -> Message]
    <3>1. CASE Finish(r, "failed", {"usage"}) /\ UNCHANGED msg
      BY <1>1, <3>1, LineNames, FinishTyped DEF ClientTypeOK
    <3>2. CASE Send(r, StoreMsg(WasmChoice(files))) /\ UNCHANGED <<said, exit>>
      <4>1. StoreMsg(WasmChoice(files)) \in Message
        BY MessagesTyped DEF WasmChoice, Kinds
      <4> QED BY <1>1, <3>2, <4>1, SendTyped DEF ClientTypeOK, Course
    <3> QED BY <3>1, <3>2
  <2> QED BY <1>1, <1>3, <2>1 DEF DeployStoreCode, ClientTypeOK, Course
<1>4. CASE DeployStored(r)
  <2>1. CodeIdOrFallback(r) \in Nat
    BY <1>4, AnswerTyped, FallbackAssumption DEF DeployStored, CodeIdOrFallback, LoggedId
  <2>2. codeId' \in [Runs -> Nat] /\ Course' /\ msg' \in [Runs -> Message]
    <3>1. CASE Finish(r, "failed", {}) /\ UNCHANGED <<msg, codeId>>
      BY <1>1, <3>1, FinishTyped DEF ClientTypeOK
    <3>2. CASE /\ Say(r, {"stored"} \cup (IF LoggedId(r) = 0 THEN {"fallback"} ELSE {}))
               /\ codeId' = [codeId EXCEPT ![r] = CodeIdOrFallback(r)]
               /\ Send(r, InstantiateMsg(CodeIdOrFallback(r), "cw20-base"))
               /\ UNCHANGED exit
      <4>1. InstantiateMsg(CodeIdOrFallback(r), "cw20-base") \in Message
        BY <2>1, MessagesTyped
      <4>2. {"stored"} \cup (IF LoggedId(r) = 0 THEN {"fallback"} ELSE {}) \in SUBSET Lines
        BY LineNames
      <4> QED BY <1>1, <2>1, <3>2, <4>1, <4>2, SendTyped, SayTyped DEF ClientTypeOK, Course
    <3> QED BY <1>4, <3>1, <3>2 DEF DeployStored
  <2> QED BY <1>1, <1>4, <2>2 DEF DeployStored, ClientTypeOK, Course
<1>5. CASE DeployInstantiated(r)
  <2>1. address' \in [Runs -> Nat] /\ Course' /\ msg' \in [Runs -> Message]
    <3>1. CASE Finish(r, "failed", {}) /\ UNCHANGED <<msg, address>>
      BY <1>1, <3>1, FinishTyped DEF ClientTypeOK
    <3>2. CASE ReportContract(r, LoggedId(r))
      <4>1. LoggedId(r) \in Nat
        BY <1>5, AnswerTyped DEF DeployInstantiated, LoggedId
      <4>2. address' \in [Runs -> Nat]
        BY <1>1, <3>2, <4>1 DEF ReportContract, ClientTypeOK
      <4>3. TransferMsg(LoggedId(r), 1) \in Message
        BY <4>1, MessagesTyped
      <4>4. /\ {"instantiated", "contract"} \in SUBSET Lines
            /\ {"instantiated", "contract", "transfer error"} \in SUBSET Lines
        BY LineNames
      <4> QED BY <1>1, <3>2, <4>2, <4>3, <4>4, SendTyped, SayTyped, FinishTyped
              DEF ReportContract, ClientTypeOK, Course
    <3> QED BY <1>5, <3>1, <3>2 DEF DeployInstantiated
  <2> QED BY <1>1, <1>5, <2>1 DEF DeployInstantiated, ClientTypeOK, Course
<1>6. CASE DeployTransferred(r)
  <2>1. (IF blocks[at[r]].ok THEN {"transferred"} ELSE {"transfer error"}) \in SUBSET Lines
    BY LineNames
  <2> QED BY <1>1, <1>6, <2>1, FinishTyped DEF DeployTransferred, ClientTypeOK, Course
<1> QED BY <1>2, <1>3, <1>4, <1>5, <1>6 DEF DeployStep

LEMMA InstantiateStepTyped ==
    ASSUME Typed, NEW r \in Runs, InstantiateStep(r), UNCHANGED env
    PROVE  ClientTypeOK'
<1> USE DEF env
<1>1. Course /\ ClientTypeOK
  BY ClientCourse DEF Typed, TypeOK
<1>2. CASE InstantiateBegin(r)
  <2>1. {"instantiate"} \in SUBSET MessageTypes /\ "connected" \in Locations
    BY LocationNames DEF MessageTypes
  <2>2. Course' /\ registry' \in [Runs -> SUBSET MessageTypes]
    BY <1>1, <1>2, <2>1, BeginTyped DEF InstantiateBegin, ClientTypeOK
  <2>3. codeId' \in [Runs -> Nat]
    BY <1>1, <1>2, InstantiateAssumption DEF InstantiateBegin, CodeArgument, ClientTypeOK
  <2> QED BY <1>1, <1>2, <2>2, <2>3 DEF InstantiateBegin, ClientTypeOK, Course
<1>3. CASE InstantiateCode(r)
  <2>1. InstantiateMsg(codeId[r], "cw20-base") \in Message
    BY <1>1, MessagesTyped DEF ClientTypeOK
  <2> QED BY <1>1, <1>3, <2>1, SendTyped DEF InstantiateCode, ClientTypeOK, Course
<1>4. CASE InstantiateAnswered(r)
  <2>1. address' \in [Runs -> Nat] /\ Course' /\ msg' \in [Runs -> Message]
    <3>1. CASE Finish(r, "failed", {}) /\ UNCHANGED <<msg, address>>
      BY <1>1, <3>1, FinishTyped DEF ClientTypeOK
    <3>2. CASE TryTransfer(r, LoggedAddress(r))
      <4>1. LoggedAddress(r) \in Nat
        BY <1>4, AnswerTyped DEF InstantiateAnswered, LoggedAddress
      <4>2. address' \in [Runs -> Nat]
        BY <1>1, <3>2, <4>1 DEF TryTransfer, ClientTypeOK
      <4>3. TransferMsg(LoggedAddress(r), 1) \in Message
        BY <4>1, MessagesTyped
      <4>4. /\ {"instantiated", "contract"} \in SUBSET Lines
            /\ {"instantiated", "contract", "transfer error"} \in SUBSET Lines
        BY LineNames
      <4> QED BY <1>1, <3>2, <4>2, <4>3, <4>4, SendTyped, SayTyped, FinishTyped
              DEF TryTransfer, ClientTypeOK, Course
    <3> QED BY <1>4, <3>1, <3>2 DEF InstantiateAnswered
  <2> QED BY <1>1, <1>4, <2>1 DEF InstantiateAnswered, ClientTypeOK, Course
<1>5. CASE InstantiateTransferred(r)
  <2>1. (IF blocks[at[r]].ok THEN {"transferred"} ELSE {"transfer error"}) \in SUBSET Lines
    BY LineNames
  <2> QED BY <1>1, <1>5, <2>1, FinishTyped DEF InstantiateTransferred, ClientTypeOK, Course
<1> QED BY <1>2, <1>3, <1>4, <1>5 DEF InstantiateStep

LEMMA CheckBalanceStepTyped ==
    ASSUME Typed, NEW r \in Runs, CheckBalanceStep(r), UNCHANGED env
    PROVE  ClientTypeOK'
<1> USE DEF env
<1>1. Course /\ ClientTypeOK
  BY ClientCourse DEF Typed, TypeOK
<1>2. {"usage"} \in SUBSET Lines /\ {"code"} \in SUBSET Lines /\ {"contract"} \in SUBSET Lines
  BY LineNames
<1>3. CASE CheckBalanceBegin(r)
  <2>1. {"store", "instantiate"} \in SUBSET MessageTypes /\ "connected" \in Locations
    BY LocationNames DEF MessageTypes
  <2>2. Course' /\ registry' \in [Runs -> SUBSET MessageTypes]
    BY <1>1, <1>3, <2>1, BeginTyped DEF CheckBalanceBegin, ClientTypeOK
  <2> QED BY <1>1, <1>3, <2>2 DEF CheckBalanceBegin, ClientTypeOK, Course
<1>4. CASE CheckBalanceStoreCode(r)
  <2>1. StoreMsg("check_balance") \in Message
    BY MessagesTyped DEF Kinds
  <2>2. Course' /\ msg' \in [Runs -> Message]
    BY <1>1, <1>2, <1>4, <2>1, SendTyped, FinishTyped DEF CheckBalanceStoreCode, ClientTypeOK, Course
  <2> QED BY <1>1, <1>4, <2>2 DEF CheckBalanceStoreCode, ClientTypeOK, Course
<1>5. CASE CheckBalanceStored(r)
  <2>1. blocks[at[r]].made \in Nat
    BY <1>5, AnswerTyped DEF CheckBalanceStored
  <2>2. InstantiateMsg(blocks[at[r]].made, "empty") \in Message
    BY <2>1, MessagesTyped
  <2>3. Course' /\ msg' \in [Runs -> Message] /\ codeId' \in [Runs -> Nat]
    BY <1>1, <1>2, <1>5, <2>1, <2>2, SendTyped, SayTyped, FinishTyped
    DEF CheckBalanceStored, ClientTypeOK, Course
  <2> QED BY <1>1, <1>5, <2>3 DEF CheckBalanceStored, ClientTypeOK, Course
<1>6. CASE CheckBalanceInstantiated(r)
  <2>1. blocks[at[r]].made \in Nat
    BY <1>6, AnswerTyped DEF CheckBalanceInstantiated
  <2>2. Course' /\ address' \in [Runs -> Nat]
    BY <1>1, <1>2, <1>6, <2>1, FinishTyped DEF CheckBalanceInstantiated, ClientTypeOK
  <2> QED BY <1>1, <1>6, <2>2 DEF CheckBalanceInstantiated, ClientTypeOK, Course
<1> QED BY <1>3, <1>4, <1>5, <1>6 DEF CheckBalanceStep

LEMMA TransferStepTyped ==
    ASSUME Typed, NEW r \in Runs, TransferStep(r), UNCHANGED env
    PROVE  ClientTypeOK'
<1> USE DEF env
<1>1. Course /\ ClientTypeOK
  BY ClientCourse DEF Typed, TypeOK
<1>2. /\ {"usage"} \in SUBSET Lines /\ {"transferred"} \in SUBSET Lines
      /\ {} \in SUBSET Lines
  BY LineNames
<1>3. CASE TransferBegin(r)
  <2> PICK words \in 0..3, first \in {0} \cup DOMAIN contracts, amount \in TransferArgs :
        /\ address' = [address EXCEPT ![r] = IF first = 0 THEN DefaultContract ELSE first]
        /\ msg' = [msg EXCEPT ![r] = TransferMsg(address'[r], amount)]
        /\ \/ Finish(r, "failed", {"usage"}) /\ UNCHANGED registry
           \/ Begin(r, "transfer_cw20", {"transfer"}, "connected")
    BY <1>3 DEF TransferBegin
  <2>1. first \in Nat /\ amount \in Nat
    BY <1>1, TransferAssumption DEF Typed, TypeOK, ChainTypeOK
  <2>2. address' \in [Runs -> Nat]
    BY <1>1, <2>1, TransferAssumption DEF ClientTypeOK
  <2>3. TransferMsg(address'[r], amount) \in Message
    BY <2>1, <2>2, MessagesTyped
  <2>4. msg' \in [Runs -> Message]
    BY <1>1, <2>3 DEF ClientTypeOK
  <2>5. {"transfer"} \in SUBSET MessageTypes /\ "connected" \in Locations
    BY LocationNames DEF MessageTypes
  <2>6. Course' /\ registry' \in [Runs -> SUBSET MessageTypes]
    BY <1>1, <1>2, <2>5, BeginTyped, FinishTyped DEF ClientTypeOK
  <2> QED BY <1>1, <1>3, <2>2, <2>4, <2>6 DEF TransferBegin, ClientTypeOK, Course
<1>4. CASE TransferSend(r)
  <2>1. Course'
    BY <1>1, <1>4, LocationNames, GotoTyped DEF TransferSend, Course
  <2> QED BY <1>1, <1>4, <2>1 DEF TransferSend, ClientTypeOK, Course
<1>5. CASE TransferAnswered(r)
  <2>1. Course'
    BY <1>1, <1>2, <1>5, FinishTyped DEF TransferAnswered
  <2> QED BY <1>1, <1>5, <2>1 DEF TransferAnswered, ClientTypeOK, Course
<1> QED BY <1>3, <1>4, <1>5 DEF TransferStep

LEMMA LibraryStepTyped ==
    ASSUME Typed, NEW r \in Runs, LibraryStep(r) \/ Kill(r), UNCHANGED env
    PROVE  ClientTypeOK'
<1> USE DEF env
<1>1. Course /\ ClientTypeOK /\ nonce \in Nat /\ blocks \in Seq(Result)
  BY ClientCourse DEF Typed, TypeOK, ChainTypeOK
<1>2. CASE Simulate(r)
  <2>1. Course' /\ seq' \in [Runs -> Nat]
    BY <1>1, <1>2, LocationNames, GotoTyped, ThrowTyped DEF Simulate, Course, ClientTypeOK
  <2> QED BY <1>1, <1>2, <2>1 DEF Simulate, ClientTypeOK, Course
<1>3. CASE Sign(r)
  <2>1. Course' /\ seq' \in [Runs -> Nat]
    BY <1>1, <1>3, LocationNames, GotoTyped, ThrowTyped DEF Sign, Course, ClientTypeOK
  <2> QED BY <1>1, <1>3, <2>1 DEF Sign, ClientTypeOK, Course
<1>4. CASE Broadcast(r)
  <2>1. Course' /\ seq' \in [Runs -> Nat]
    BY <1>1, <1>4, LocationNames, GotoTyped, ThrowTyped DEF Broadcast, Course, ClientTypeOK
  <2> QED BY <1>1, <1>4, <2>1 DEF Broadcast, ClientTypeOK, Course
<1>5. CASE Poll(r)
  <2>1. pc' \in [Runs -> Locations]
    BY <1>1, <1>5, LocationNames, GotoTyped DEF Poll
  <2>2. at' \in [Runs -> Nat]
    BY <1>1, <1>5 DEF Poll, ClientTypeOK
  <2> QED BY <1>1, <1>5, <2>1, <2>2 DEF Poll, ClientTypeOK
<1>6. CASE Timeout(r)
  BY <1>1, <1>6, ThrowTyped DEF Timeout, ClientTypeOK, Course
<1>7. CASE Estimate(r)
  <2>1. Course' /\ seq' \in [Runs -> Nat]
    BY <1>1, <1>7, LocationNames, GotoTyped, ThrowTyped DEF Estimate, Course, ClientTypeOK
  <2> QED BY <1>1, <1>7, <2>1 DEF Estimate, ClientTypeOK, Course
<1>8. CASE Kill(r)
  BY <1>1, <1>8, FinishTyped DEF Kill, ClientTypeOK, Course
<1> QED BY <1>2, <1>3, <1>4, <1>5, <1>6, <1>7, <1>8 DEF LibraryStep

LEMMA LookupBeginTyped ==
    ASSUME ClientTypeOK, LookupTypeOK, OurCodes \in SUBSET Nat, NEW r \in Runs, UNCHANGED env,
           \/ FindBegin(r) \/ TxBegin(r) \/ QueryCodeBegin(r)
           \/ ListBegin(r) \/ QueryCw20Begin(r) \/ BalanceBegin(r)
    PROVE  ClientTypeOK' /\ LookupTypeOK'
<1> USE DEF env
<1>1. Course /\ registry \in [Runs -> SUBSET MessageTypes]
  BY ClientCourse
<1>2. {} \in SUBSET MessageTypes /\ "connected" \in Locations /\ "scan" \in Locations
  BY LocationNames
<1>3. Course' /\ registry' \in [Runs -> SUBSET MessageTypes]
  BY <1>1, <1>2, BeginTyped
  DEF FindBegin, TxBegin, QueryCodeBegin, ListBegin, QueryCw20Begin, BalanceBegin
<1>4. CASE FindBegin(r)
  <2>1. limit' \in [Runs -> Nat] /\ before' \in [Runs -> SUBSET Nat]
    BY <1>4, LookupAssumption DEF FindBegin, LookupTypeOK, ScanLimit
  <2> QED BY <1>3, <1>4, <2>1 DEF FindBegin, ClientTypeOK, LookupTypeOK, Course
<1>5. CASE TxBegin(r)
  <2>1. at' \in [Runs -> Nat]
    BY <1>5, LookupAssumption DEF TxBegin, ClientTypeOK
  <2> QED BY <1>3, <1>5, <2>1 DEF TxBegin, ClientTypeOK, LookupTypeOK, lookupVars, Course
<1>6. CASE QueryCodeBegin(r) \/ ListBegin(r)
  <2>1. codeId' \in [Runs -> Nat]
    BY <1>6, LookupAssumption DEF QueryCodeBegin, ListBegin, ClientTypeOK
  <2> QED BY <1>3, <1>6, <2>1
          DEF QueryCodeBegin, ListBegin, ClientTypeOK, LookupTypeOK, lookupVars, Course
<1>7. CASE QueryCw20Begin(r)
  <2>1. address' \in [Runs -> Nat]
    BY <1>7, LookupAssumption DEF QueryCw20Begin, ClientTypeOK
  <2> QED BY <1>3, <1>7, <2>1 DEF QueryCw20Begin, ClientTypeOK, LookupTypeOK, lookupVars, Course
<1>8. CASE BalanceBegin(r)
  BY <1>3, <1>8 DEF BalanceBegin, ClientTypeOK, LookupTypeOK, lookupVars, Course
<1> QED BY <1>4, <1>5, <1>6, <1>7, <1>8

LEMMA FindTyped ==
    ASSUME ClientTypeOK, LookupTypeOK, OurCodes \in SUBSET Nat, NEW r \in Runs, UNCHANGED env,
           FindNext(r) \/ FindReport(r)
    PROVE  ClientTypeOK' /\ LookupTypeOK'
<1> USE DEF env
<1>1. Course /\ scan[r] \in Nat /\ found[r] \in Seq(Nat)
  BY ClientCourse DEF LookupTypeOK
<1>2. CASE FindNext(r)
  <2>1. found' \in [Runs -> Seq(Nat)] /\ scan' \in [Runs -> Nat]
    <3>1. Append(found[r], scan[r]) \in Seq(Nat)
      BY <1>1
    <3>2. found' \in [Runs -> Seq(Nat)]
      BY <1>2, <3>1 DEF FindNext, LookupTypeOK
    <3>3. scan' \in [Runs -> Nat]
      BY <1>1, <1>2 DEF FindNext, LookupTypeOK
    <3> QED BY <3>2, <3>3
  <2> QED BY <1>2, <2>1 DEF FindNext, clientVars, ClientTypeOK, LookupTypeOK
<1>3. CASE FindReport(r)
  <2>1. {"codes"} \in SUBSET Lines /\ {"no codes"} \in SUBSET Lines
    BY LineNames
  <2>2. found[r] # <<>> => Latest(found[r]) \in Nat
    BY <1>1 DEF Latest
  <2>3. Course' /\ codeId' \in [Runs -> Nat]
    BY <1>1, <1>3, <2>1, <2>2, FinishTyped DEF FindReport, Done, ClientTypeOK
  <2> QED BY <1>3, <2>3 DEF FindReport, lookupVars, ClientTypeOK, LookupTypeOK, Course
<1> QED BY <1>2, <1>3

LEMMA LookupReadTyped ==
    ASSUME ClientTypeOK, LookupTypeOK, blocks \in Seq(Result), NEW r \in Runs, UNCHANGED env,
           \/ TxRead(r) \/ TxList(r) \/ QueryCodeInfo(r) \/ QueryCodeList(r)
           \/ ListContracts(r) \/ QueryCw20Ask(r) \/ BalanceRead(r)
    PROVE  ClientTypeOK' /\ LookupTypeOK'
<1> USE DEF env
<1>1. Course
  BY ClientCourse
<1>2. /\ {"not found"} \in SUBSET Lines /\ {"instances"} \in SUBSET Lines
      /\ {"no instances"} \in SUBSET Lines /\ {"no list"} \in SUBSET Lines
      /\ {"info"} \in SUBSET Lines /\ {"balance"} \in SUBSET Lines /\ {} \in SUBSET Lines
  BY LineNames
<1>3. CASE TxRead(r)
  <2>1. ASSUME at[r] \in DOMAIN blocks
        PROVE  TxCodeId(r) \in Nat /\ TxAddress(r) \in Nat
    <3>1. blocks[at[r]] \in Result
      BY <2>1
    <3>2. blocks[at[r]].made \in Nat
      BY <3>1 DEF Result
    <3> QED BY <3>2 DEF TxCodeId, TxAddress, Made
  <2>2. CASE TxReport(r) /\ at[r] \in DOMAIN blocks
    <3>1. codeId' \in [Runs -> Nat] /\ address' \in [Runs -> Nat]
      BY <2>1, <2>2 DEF TxReport, ClientTypeOK
    <3> DEFINE lines == { IF TxCodeId(r) # 0 THEN "code" ELSE "no code",
                          IF TxAddress(r) # 0 THEN "contract" ELSE "no contract" }
    <3>2. lines \in SUBSET Lines
      BY LineNames
    <3>3. \/ Goto(r, "list") /\ Say(r, lines) /\ UNCHANGED exit
          \/ Finish(r, "ok", lines)
      BY <2>2 DEF TxReport, Done
    <3> HIDE DEF lines
    <3>4. Course'
      BY <1>1, <3>2, <3>3, LocationNames, GotoTyped, SayTyped, FinishTyped DEF Course, Done, Failed
    <3> QED BY <1>3, <3>1, <3>4 DEF TxRead, lookupVars, ClientTypeOK, LookupTypeOK, Course
  <2>3. CASE /\ Finish(r, "failed", {"not found"}) \/ Finish(r, "failed", {})
             /\ UNCHANGED <<codeId, address>>
    <3>1. Course'
      BY <1>1, <1>2, <2>3, FinishTyped
    <3> QED BY <1>3, <2>3, <3>1 DEF TxRead, lookupVars, ClientTypeOK, LookupTypeOK, Course
  <2> QED BY <1>3, <2>2, <2>3 DEF TxRead, Failed
<1>4. CASE TxList(r)
  <2>1. Course'
    BY <1>1, <1>2, <1>4, FinishTyped DEF TxList, Done, Failed
  <2> QED BY <1>4, <2>1 DEF TxList, lookupVars, ClientTypeOK, LookupTypeOK, Course
<1>5. CASE QueryCodeInfo(r)
  <2>1. Course'
    BY <1>1, <1>2, <1>5, LocationNames, GotoTyped, SayTyped, FinishTyped DEF QueryCodeInfo, Done, Failed, Course
  <2> QED BY <1>5, <2>1 DEF QueryCodeInfo, lookupVars, ClientTypeOK, LookupTypeOK, Course
<1>6. CASE QueryCodeList(r)
  <2>1. Course'
    BY <1>1, <1>2, <1>6, FinishTyped DEF QueryCodeList, Done, Failed
  <2> QED BY <1>6, <2>1 DEF QueryCodeList, lookupVars, ClientTypeOK, LookupTypeOK, Course
<1>7. CASE ListContracts(r)
  <2>1. Course'
    BY <1>1, <1>2, <1>7, FinishTyped DEF ListContracts, Done, Failed
  <2> QED BY <1>7, <2>1 DEF ListContracts, lookupVars, ClientTypeOK, LookupTypeOK, Course
<1>8. CASE QueryCw20Ask(r)
  <2>1. Course'
    BY <1>1, <1>2, <1>8, FinishTyped DEF QueryCw20Ask, Failed
  <2> QED BY <1>8, <2>1 DEF QueryCw20Ask, lookupVars, ClientTypeOK, LookupTypeOK, Course
<1>9. CASE BalanceRead(r)
  <2>1. Course'
    BY <1>1, <1>2, <1>9, FinishTyped DEF BalanceRead, Done, Failed
  <2> QED BY <1>9, <2>1 DEF BalanceRead, lookupVars, ClientTypeOK, LookupTypeOK, Course
<1> QED BY <1>3, <1>4, <1>5, <1>6, <1>7, <1>8, <1>9

LEMMA LookupStepTyped ==
    ASSUME Typed, NEW r \in Runs, LookupStep(r), UNCHANGED env
    PROVE  ClientTypeOK' /\ LookupTypeOK'
<1>1. ClientTypeOK /\ LookupTypeOK /\ blocks \in Seq(Result)
  BY DEF Typed, TypeOK, ChainTypeOK
<1>2. OurCodes \in SUBSET Nat
  BY DEF Typed, TypeOK, ChainTypeOK, OurCodes
<1> QED BY <1>1, <1>2, LookupBeginTyped, FindTyped, LookupReadTyped DEF LookupStep

-----------------------------------------------------------------------------
(* The chain.                                                               *)

LEMMA IncludeTyped ==
    ASSUME ChainTypeOK, NEW tx \in pool, tx.msg.type = "store" => tx.msg.body \in Kinds,
           UNCHANGED faults, nonce' = nonce + 1, pool' = pool \ {tx},
           \/ Executes(tx.msg) /\ (CommitStore(tx) \/ CommitInstantiate(tx) \/ CommitTransfer(tx))
           \/ Refuse(tx)
    PROVE  ChainTypeOK'
<1>1. /\ tx.run \in Runs /\ tx.seq \in Nat /\ tx.msg \in Message
      /\ codes \in Seq(Code) /\ contracts \in Seq(Contract) /\ blocks \in Seq(Result)
      /\ nonce \in Nat /\ pool \subseteq Tx /\ faults \subseteq Faults
  BY DEF ChainTypeOK, Tx
<1>2. tx.msg.type \in MessageTypes /\ tx.msg.ref \in Nat /\ tx.msg.amount \in Nat
  BY <1>1 DEF Message
<1>3. ASSUME NEW ok \in BOOLEAN, NEW made \in Nat, Record(tx, ok, made)
      PROVE  blocks' \in Seq(Result)
  <2>1. [run |-> tx.run, type |-> tx.msg.type, ok |-> ok, made |-> made] \in Result
    BY <1>1, <1>2 DEF Result
  <2> QED BY <1>1, <1>3, <2>1 DEF Record
<1>4. pool' \subseteq Tx /\ nonce' \in Nat /\ faults' \subseteq Faults
  BY <1>1
<1>5. CASE CommitStore(tx)
  <2>1. [kind |-> tx.msg.body, by |-> tx.run] \in Code
    BY <1>1, <1>5 DEF CommitStore, Code
  <2>2. /\ codes' = Append(codes, [kind |-> tx.msg.body, by |-> tx.run])
        /\ contracts' = contracts
        /\ Record(tx, TRUE, Len(codes) + 1)
    BY <1>5 DEF CommitStore
  <2>3. codes' \in Seq(Code) /\ Len(codes) + 1 \in Nat
    BY <1>1, <2>1, <2>2
  <2>4. blocks' \in Seq(Result)
    BY <1>3, <2>2, <2>3
  <2> QED BY <1>1, <1>4, <2>2, <2>3, <2>4 DEF ChainTypeOK
<1>6. CASE Executes(tx.msg) /\ CommitInstantiate(tx)
  <2> DEFINE new == [code |-> tx.msg.ref, by |-> tx.run,
                     left |-> IF codes[tx.msg.ref].kind \in Tokens THEN Supply ELSE 0]
  <2>1. new \in Contract
    BY <1>1, <1>2, ChainAssumption DEF Contract
  <2>2. contracts' = Append(contracts, new) /\ codes' = codes /\ Record(tx, TRUE, Len(contracts) + 1)
    BY <1>6 DEF CommitInstantiate
  <2> HIDE DEF new
  <2>3. contracts' \in Seq(Contract) /\ Len(contracts) + 1 \in Nat
    BY <1>1, <2>1, <2>2
  <2>4. blocks' \in Seq(Result)
    BY <1>3, <2>2, <2>3
  <2> QED BY <1>1, <1>4, <2>2, <2>3, <2>4 DEF ChainTypeOK
<1>7. CASE Executes(tx.msg) /\ CommitTransfer(tx)
  <2> DEFINE i == tx.msg.ref
  <2>1. i \in DOMAIN contracts /\ tx.msg.amount <= contracts[i].left
    BY <1>7 DEF Executes, CommitTransfer, IsToken
  <2>2. contracts[i] \in Contract
    BY <1>1, <2>1
  <2>3. contracts[i].left - tx.msg.amount \in Nat
    BY <1>2, <2>1, <2>2 DEF Contract
  <2>4. [contracts[i] EXCEPT !.left = @ - tx.msg.amount] \in Contract
    BY <2>2, <2>3 DEF Contract
  <2>5. contracts' = [contracts EXCEPT ![i] = [contracts[i] EXCEPT !.left = @ - tx.msg.amount]]
    BY <1>7 DEF CommitTransfer
  <2>6. contracts' \in Seq(Contract)
    BY <1>1, <2>1, <2>4, <2>5
  <2>7. codes' = codes /\ Record(tx, TRUE, 0)
    BY <1>7 DEF CommitTransfer
  <2>8. blocks' \in Seq(Result)
    BY <1>3, <2>7
  <2> QED BY <1>1, <1>4, <2>6, <2>7, <2>8 DEF ChainTypeOK
<1>8. CASE Refuse(tx)
  <2>1. Record(tx, FALSE, 0) /\ UNCHANGED <<codes, contracts>>
    BY <1>8 DEF Refuse
  <2>2. blocks' \in Seq(Result)
    BY <1>3, <2>1
  <2> QED BY <1>1, <1>4, <2>1, <2>2 DEF ChainTypeOK
<1> QED BY <1>5, <1>6, <1>7, <1>8

-----------------------------------------------------------------------------
(* What a run has sent.  Its message types come in the order of Rank.       *)

Rank(type) ==
    IF type = "store" THEN 1
    ELSE IF type = "instantiate" THEN 2
    ELSE IF type = "transfer" THEN 3
    ELSE 0

Fresh == {"start", "connected"}                             \* nothing sent yet
Early == Fresh \cup {"simulate", "estimate", "sign", "broadcast"}   \* msg not sent yet

\* All transactions of r, pending or in blocks, are of types below the bound.
SentBelow(r, bound) ==
    /\ \A i \in DOMAIN blocks : blocks[i].run = r => Rank(blocks[i].type) < bound
    /\ \A tx \in pool : tx.run = r => Rank(tx.msg.type) < bound

InOrder ==
    \A r \in Runs :
        /\ pc[r] \in Fresh => SentBelow(r, 0)
        /\ pc[r] \in Early => SentBelow(r, Rank(msg[r].type))
        /\ SentBelow(r, Rank(msg[r].type) + 1)

\* A signature never runs ahead of the committed sequence number.
SequencesPast == \A r \in Runs : seq[r] <= nonce

\* A step of a run that leaves the chain alone: the message it is about to
\* send stays the same, or is its first, or follows the answer to a message
\* of lower rank.
Advance(r) ==
    /\ UNCHANGED chainVars
    /\ \A q \in Runs \ {r} : pc'[q] = pc[q] /\ msg'[q] = msg[q] /\ at'[q] = at[q] /\ seq'[q] = seq[q]
    /\ \/ /\ msg'[r] = msg[r]
          /\ pc'[r] \in Fresh => pc[r] \in Fresh
          /\ pc'[r] \in Early => pc[r] \in Early
       \/ pc[r] \in Fresh
       \/ /\ pc[r] = "answered" /\ pc'[r] \notin Fresh
          /\ Rank(msg[r].type) < Rank(msg'[r].type)
    /\ msg'[r] = msg[r] \/ (msg'[r].type = "store" => msg'[r].body \in Kinds)
    /\ pc'[r] = "answered" =>
        /\ at'[r] \in DOMAIN blocks
        /\ blocks[at'[r]].run = r
        /\ blocks[at'[r]].type = msg'[r].type
    /\ seq'[r] <= nonce

LEMMA DeployStepAdvances ==
    ASSUME Typed, SequencesPast, NEW r \in Runs, DeployStep(r)
    PROVE  Advance(r)
<1> USE DEF Advance, Fresh, Early, Rank, Typed, TypeOK, ClientTypeOK, SequencesPast,
            Finish, Goto, Say, Send, StoreMsg, InstantiateMsg, TransferMsg
<1>1. CASE DeployBegin(r)
  BY <1>1 DEF DeployBegin, Begin, Connect
<1>2. CASE DeployStoreCode(r)
  BY <1>2 DEF DeployStoreCode, WasmChoice, Kinds
<1>3. CASE DeployStored(r)
  BY <1>3 DEF DeployStored
<1>4. CASE DeployInstantiated(r)
  <2>1. \/ Goto(r, "done") /\ UNCHANGED msg
        \/ Send(r, TransferMsg(LoggedId(r), 1))
    BY <1>4 DEF DeployInstantiated, ReportContract
  <2> QED BY <1>4, <2>1 DEF DeployInstantiated
<1>5. CASE DeployTransferred(r)
  BY <1>5 DEF DeployTransferred
<1> QED BY <1>1, <1>2, <1>3, <1>4, <1>5 DEF DeployStep

LEMMA InstantiateStepAdvances ==
    ASSUME Typed, SequencesPast, NEW r \in Runs, InstantiateStep(r)
    PROVE  Advance(r)
<1> USE DEF Advance, Fresh, Early, Rank, Typed, TypeOK, ClientTypeOK, SequencesPast,
            Finish, Goto, Say, Send, StoreMsg, InstantiateMsg, TransferMsg
<1>1. CASE InstantiateBegin(r)
  BY <1>1 DEF InstantiateBegin, Begin, Connect
<1>2. CASE InstantiateCode(r)
  BY <1>2 DEF InstantiateCode
<1>3. CASE InstantiateAnswered(r)
  <2>1. \/ Goto(r, "done") /\ UNCHANGED msg
        \/ Send(r, TransferMsg(LoggedAddress(r), 1))
    BY <1>3 DEF InstantiateAnswered, TryTransfer
  <2> QED BY <1>3, <2>1 DEF InstantiateAnswered
<1>4. CASE InstantiateTransferred(r)
  BY <1>4 DEF InstantiateTransferred
<1> QED BY <1>1, <1>2, <1>3, <1>4 DEF InstantiateStep

LEMMA CheckBalanceStepAdvances ==
    ASSUME Typed, SequencesPast, NEW r \in Runs, CheckBalanceStep(r)
    PROVE  Advance(r)
<1> USE DEF Advance, Fresh, Early, Rank, Typed, TypeOK, ClientTypeOK, SequencesPast,
            Finish, Goto, Say, Send, StoreMsg, InstantiateMsg, TransferMsg
<1>1. CASE CheckBalanceBegin(r)
  BY <1>1 DEF CheckBalanceBegin, Begin, Connect
<1>2. CASE CheckBalanceStoreCode(r)
  BY <1>2 DEF CheckBalanceStoreCode, Kinds
<1>3. CASE CheckBalanceStored(r)
  BY <1>3 DEF CheckBalanceStored
<1>4. CASE CheckBalanceInstantiated(r)
  BY <1>4 DEF CheckBalanceInstantiated
<1> QED BY <1>1, <1>2, <1>3, <1>4 DEF CheckBalanceStep

LEMMA TransferStepAdvances ==
    ASSUME Typed, SequencesPast, NEW r \in Runs, TransferStep(r)
    PROVE  Advance(r)
<1> USE DEF Advance, Fresh, Early, Rank, Typed, TypeOK, ClientTypeOK, SequencesPast,
            Finish, Goto, Say, Send, StoreMsg, InstantiateMsg, TransferMsg
<1>1. CASE TransferBegin(r)
  <2>1. /\ \/ Goto(r, "done")
           \/ Goto(r, "connected")
        /\ pc[r] = "start"
        /\ \E m : m.type = "transfer" /\ msg' = [msg EXCEPT ![r] = m]
    BY <1>1 DEF TransferBegin, Begin, Connect
  <2> QED BY <1>1, <2>1 DEF TransferBegin
<1>2. CASE TransferSend(r)
  BY <1>2 DEF TransferSend
<1>3. CASE TransferAnswered(r)
  BY <1>3 DEF TransferAnswered
<1> QED BY <1>1, <1>2, <1>3 DEF TransferStep

LEMMA LookupStepAdvances ==
    ASSUME Typed, SequencesPast, NEW r \in Runs, LookupStep(r)
    PROVE  Advance(r)
<1> USE DEF Typed, TypeOK, ClientTypeOK, SequencesPast
<1>1. /\ UNCHANGED <<chainVars, msg, seq>>
      /\ \A q \in Runs \ {r} : at'[q] = at[q]
      /\ \E l \in {"done", "connected", "scan", "list"} : Goto(r, l) \/ (UNCHANGED pc /\ pc[r] = "scan")
      /\ pc'[r] = "connected" => pc[r] = "start"
  <2> USE DEF Finish, Goto, Begin, Connect, Done, Failed, lookupVars, clientVars
  <2>1. CASE FindBegin(r) \/ FindNext(r) \/ FindReport(r)
    BY <2>1 DEF FindBegin, FindNext, FindReport
  <2>2. CASE TxBegin(r) \/ TxRead(r) \/ TxList(r)
    BY <2>2 DEF TxBegin, TxRead, TxReport, TxList
  <2>3. CASE QueryCodeBegin(r) \/ QueryCodeInfo(r) \/ QueryCodeList(r)
    BY <2>3 DEF QueryCodeBegin, QueryCodeInfo, QueryCodeList
  <2>4. CASE ListBegin(r) \/ ListContracts(r) \/ QueryCw20Begin(r) \/ QueryCw20Ask(r)
    BY <2>4 DEF ListBegin, ListContracts, QueryCw20Begin, QueryCw20Ask
  <2>5. CASE BalanceBegin(r) \/ BalanceRead(r)
    BY <2>5 DEF BalanceBegin, BalanceRead
  <2> QED BY <2>1, <2>2, <2>3, <2>4, <2>5 DEF LookupStep
<1> QED BY <1>1 DEF Advance, Fresh, Early, Goto

\* All of the client library's steps, save the one that sends.
LEMMA LibraryStepAdvances ==
    ASSUME Typed, SequencesPast, NEW r \in Runs, LibraryStep(r) \/ Kill(r), ~Broadcast(r)
    PROVE  Advance(r)
<1>0. nonce \in Nat
  BY DEF Typed, TypeOK, ChainTypeOK
<1> USE DEF Advance, Fresh, Early, Typed, TypeOK, ClientTypeOK, SequencesPast,
            Finish, Goto, Say
<1>1. CASE Simulate(r)
  <2>1. seq'[r] <= nonce
    BY <1>0, <1>1 DEF Simulate
  <2>2. \A q \in Runs \ {r} : seq'[q] = seq[q]
    BY <1>1 DEF Simulate
  <2>3. pc' = [pc EXCEPT ![r] = "estimate"] \/ pc' = [pc EXCEPT ![r] = "done"]
    BY <1>1 DEF Simulate, Throw
  <2> QED BY <1>1, <2>1, <2>2, <2>3 DEF Simulate
<1>2. CASE Sign(r)
  <2>1. seq'[r] <= nonce
    BY <1>0, <1>2 DEF Sign
  <2>2. \A q \in Runs \ {r} : seq'[q] = seq[q]
    BY <1>2 DEF Sign
  <2>3. pc' = [pc EXCEPT ![r] = "broadcast"] \/ pc' = [pc EXCEPT ![r] = "done"]
    BY <1>2 DEF Sign, Throw
  <2> QED BY <1>2, <2>1, <2>2, <2>3 DEF Sign
<1>3. CASE Poll(r)
  BY <1>3 DEF Poll
<1>4. CASE Timeout(r)
  BY <1>4 DEF Timeout, Throw
<1>5. CASE Kill(r)
  BY <1>5 DEF Kill
<1>6. CASE Estimate(r)
  <2>1. pc' = [pc EXCEPT ![r] = "sign"] \/ pc' = [pc EXCEPT ![r] = "done"]
    BY <1>6 DEF Estimate, Throw
  <2> QED BY <1>0, <1>6, <2>1 DEF Estimate
<1> QED BY <1>1, <1>2, <1>3, <1>4, <1>5, <1>6 DEF LibraryStep

-----------------------------------------------------------------------------
(* The inductive invariant.                                                 *)

Transactions ==
    /\ IsFiniteSet(pool)
    /\ OneInFlight
    /\ SequencesPast
    /\ InOrder
    /\ SentOnce

IInv == Typed /\ Transactions

LEMMA RankIsNat == \A type : Rank(type) \in Nat
BY DEF Rank

LEMMA AdvanceKeeps ==
    ASSUME IInv, NEW r \in Runs, Advance(r)
    PROVE  Transactions' /\ Answered' /\ BodiesKnown'
<1>1. UNCHANGED <<codes, contracts, nonce, pool, blocks>>
  BY DEF Advance, chainVars
<1>2. \A q \in Runs \ {r} : pc'[q] = pc[q] /\ msg'[q] = msg[q] /\ at'[q] = at[q] /\ seq'[q] = seq[q]
  BY DEF Advance
<1>3. IsFiniteSet(pool)' /\ OneInFlight' /\ SentOnce'
  BY <1>1 DEF IInv, Transactions, OneInFlight, SentOnce
<1>4. SequencesPast'
  BY <1>1, <1>2 DEF IInv, Transactions, SequencesPast, Advance
<1>5. Answered'
  BY <1>1, <1>2 DEF IInv, Typed, Answered, Advance
<1>6. BodiesKnown'
  BY <1>1, <1>2 DEF IInv, Typed, BodiesKnown, Advance
<1>7. InOrder'
  <2>1. ASSUME NEW q, NEW m \in Nat, NEW n \in Nat, m <= n, SentBelow(q, m)
        PROVE  SentBelow(q, n)'
    BY <1>1, <2>1, RankIsNat DEF SentBelow
  <2>2. ASSUME NEW q \in Runs, q # r
        PROVE  /\ pc'[q] \in Fresh => SentBelow(q, 0)'
               /\ pc'[q] \in Early => SentBelow(q, Rank(msg[q].type))'
               /\ SentBelow(q, Rank(msg[q].type) + 1)'
    BY <1>1, <1>2, <2>2 DEF IInv, Transactions, InOrder, SentBelow
  <2>3. /\ pc'[r] \in Fresh => SentBelow(r, 0)'
        /\ pc'[r] \in Early => SentBelow(r, Rank(msg[r].type))'
        /\ SentBelow(r, Rank(msg[r].type) + 1)'
    <3> DEFINE old == Rank(msg[r].type)
               new == Rank(msg'[r].type)
    <3>1. old \in Nat /\ new \in Nat
      BY RankIsNat
    <3>2. /\ pc[r] \in Fresh => SentBelow(r, 0)
          /\ pc[r] \in Early => SentBelow(r, old)
          /\ SentBelow(r, old + 1)
      BY DEF IInv, Transactions, InOrder
    <3>3. \/ old = new /\ (pc'[r] \in Fresh => pc[r] \in Fresh) /\ (pc'[r] \in Early => pc[r] \in Early)
          \/ pc[r] \in Fresh
          \/ pc'[r] \notin Fresh /\ old < new
      BY DEF Advance
    <3> HIDE DEF old, new
    <3>4. /\ pc'[r] \in Fresh => SentBelow(r, 0)'
          /\ \A n : n = new => (pc'[r] \in Early => SentBelow(r, n)') /\ SentBelow(r, n + 1)'
      <4>1. CASE old = new /\ (pc'[r] \in Fresh => pc[r] \in Fresh) /\ (pc'[r] \in Early => pc[r] \in Early)
        BY <2>1, <3>1, <3>2, <4>1
      <4>2. CASE pc[r] \in Fresh
        BY <2>1, <3>1, <3>2, <4>2
      <4>3. CASE pc'[r] \notin Fresh /\ old < new
        BY <2>1, <3>1, <3>2, <4>3
      <4> QED BY <3>3, <4>1, <4>2, <4>3
    <3> QED BY <1>1, <3>4 DEF new, SentBelow
  <2> QED BY <2>2, <2>3 DEF InOrder
<1> QED BY <1>3, <1>4, <1>5, <1>6, <1>7 DEF Transactions

LEMMA BroadcastKeeps ==
    ASSUME IInv, NEW r \in Runs, Broadcast(r), UNCHANGED <<env, lookupVars>>
    PROVE  IInv'
<1> DEFINE tx == [run |-> r, seq |-> seq[r], msg |-> msg[r]]
<1>1. ClientTypeOK'
  BY LibraryStepTyped DEF IInv, LibraryStep
<1>2. /\ pc[r] = "broadcast" /\ pc'[r] \in {"poll", "done"}
      /\ \A q \in Runs \ {r} : pc'[q] = pc[q]
      /\ seq' = [seq EXCEPT ![r] = 0]
      /\ UNCHANGED <<codes, contracts, nonce, blocks, msg, at>>
  BY DEF Broadcast, Goto, Throw, Finish, Say, IInv, Typed, TypeOK, ClientTypeOK
<1>3. \/ pool' = pool
      \/ Accepted(seq[r]) /\ pool' = pool \cup {tx}
  BY DEF Broadcast
<1>4. /\ nonce \in Nat /\ seq[r] \in Nat /\ seq[r] <= nonce /\ pool \subseteq Tx
      /\ msg[r] \in Message /\ IsFiniteSet(pool)
  BY DEF IInv, Typed, TypeOK, ChainTypeOK, ClientTypeOK, Transactions, SequencesPast
<1>5. \/ pool' = pool
      \/ pool = {} /\ pool' = {tx} /\ seq[r] = nonce
  <2>1. ASSUME Accepted(seq[r])  PROVE pool = {} /\ seq[r] = nonce
    <3>1. Cardinality(pool) \in Nat /\ seq[r] = nonce + Cardinality(pool)
      BY <1>4, <2>1, FS_CardinalityType DEF Accepted
    <3>2. Cardinality(pool) = 0
      BY <1>4, <3>1
    <3> QED BY <1>4, <3>1, <3>2, FS_EmptySet
  <2> QED BY <1>3, <2>1
<1>6. ChainTypeOK' /\ LookupTypeOK'
  <2>1. tx \in Tx
    BY <1>4 DEF Tx
  <2>2. pool' \subseteq Tx
    BY <1>3, <1>4, <2>1
  <2> HIDE DEF tx
  <2> QED BY <1>2, <2>2 DEF IInv, Typed, TypeOK, ChainTypeOK, LookupTypeOK, env, lookupVars
<1>7. Answered' /\ BodiesKnown'
  BY <1>2, <1>3 DEF IInv, Typed, Answered, BodiesKnown
<1>8. IsFiniteSet(pool)' /\ OneInFlight' /\ SequencesPast'
  <2>1. IsFiniteSet(pool')
    <3>1. IsFiniteSet({tx})
      <4> HIDE DEF tx
      <4> QED BY FS_Singleton, Zenon
    <3> HIDE DEF tx
    <3> QED BY <1>4, <1>5, <3>1
  <2>2. OneInFlight'
    BY <1>2, <1>5 DEF IInv, Transactions, OneInFlight
  <2>3. SequencesPast'
    BY <1>2, <1>4 DEF IInv, Typed, TypeOK, ClientTypeOK, Transactions, SequencesPast
  <2> QED BY <2>1, <2>2, <2>3
<1>9. SentBelow(r, Rank(msg[r].type))
  BY <1>2 DEF IInv, Transactions, InOrder, Early
<1>10. InOrder'
  <2>1. Rank(msg[r].type) \in Nat
    BY RankIsNat
  <2>2. SentBelow(r, Rank(msg[r].type) + 1)'
    BY <1>2, <1>3, <1>9, <2>1, RankIsNat DEF SentBelow
  <2>3. ASSUME NEW q \in Runs \ {r}, NEW n, SentBelow(q, n) PROVE SentBelow(q, n)'
    BY <1>2, <1>3, <2>3 DEF SentBelow
  <2>4. pc'[r] \notin Early
    BY <1>2 DEF Early, Fresh
  <2> QED BY <1>2, <2>2, <2>3, <2>4 DEF IInv, Transactions, InOrder, Early
<1>11. SentOnce'
  <2>1. \A i \in DOMAIN blocks : ~(blocks[i].run = r /\ blocks[i].type = msg[r].type)
    BY <1>9, RankIsNat DEF SentBelow
  <2> QED BY <1>2, <1>3, <2>1 DEF IInv, Transactions, SentOnce
<1> QED BY <1>1, <1>6, <1>7, <1>8, <1>10, <1>11 DEF IInv, Typed, TypeOK, Transactions

LEMMA IncludeKeeps ==
    ASSUME IInv, Include, UNCHANGED <<env, clientVars, lookupVars>>
    PROVE  IInv'
<1> PICK tx \in pool :
        /\ tx.seq = nonce /\ nonce' = nonce + 1 /\ pool' = pool \ {tx}
        /\ \/ Executes(tx.msg) /\ (CommitStore(tx) \/ CommitInstantiate(tx) \/ CommitTransfer(tx))
           \/ Refuse(tx)
  BY DEF Include
<1>1. \E ok, made : Record(tx, ok, made)
  BY DEF CommitStore, CommitInstantiate, CommitTransfer, Refuse
<1> PICK ok, made : Record(tx, ok, made)
  BY <1>1
<1> DEFINE entry == [run |-> tx.run, type |-> tx.msg.type, ok |-> ok, made |-> made]
<1>2. pool = {tx} /\ pool' = {}
  BY DEF IInv, Transactions, OneInFlight
<1>3. UNCHANGED <<pc, msg, seq, at>> /\ nonce \in Nat /\ blocks \in Seq(Result)
  BY DEF clientVars, IInv, Typed, TypeOK, ChainTypeOK
<1>4. TypeOK'
  <2>1. ChainTypeOK'
    BY IncludeTyped DEF IInv, Typed, TypeOK, BodiesKnown, env
  <2> QED BY <2>1 DEF IInv, Typed, TypeOK, ClientTypeOK, LookupTypeOK, env, clientVars, lookupVars
<1>5. /\ blocks' = Append(blocks, entry)
      /\ DOMAIN blocks' = DOMAIN blocks \cup {Len(blocks) + 1}
      /\ \A i \in DOMAIN blocks : blocks'[i] = blocks[i]
      /\ blocks'[Len(blocks) + 1] = entry
      /\ Len(blocks) + 1 \notin DOMAIN blocks
  BY <1>3 DEF Record
<1>6. entry.run = tx.run /\ entry.type = tx.msg.type
  OBVIOUS
<1> HIDE DEF entry
<1>7. Answered' /\ BodiesKnown'
  BY <1>2, <1>3, <1>5 DEF IInv, Typed, Answered, BodiesKnown
<1>8. IsFiniteSet(pool)' /\ OneInFlight' /\ SequencesPast'
  <2>1. SequencesPast'
    BY <1>3 DEF IInv, Typed, TypeOK, ClientTypeOK, Transactions, SequencesPast
  <2> QED BY <1>2, <2>1, FS_EmptySet DEF OneInFlight
<1>9. InOrder'
  <2>1. ASSUME NEW q, NEW n, SentBelow(q, n)
        PROVE  SentBelow(q, n)'
    BY <1>2, <1>5, <1>6, <2>1 DEF SentBelow
  <2> QED BY <1>3, <2>1 DEF IInv, Transactions, InOrder
<1>10. SentOnce'
  <2>1. \A i \in DOMAIN blocks : ~(blocks[i].run = tx.run /\ blocks[i].type = tx.msg.type)
    BY DEF IInv, Transactions, SentOnce
  <2>2. \A i, j \in DOMAIN blocks' :
            blocks'[i].run = blocks'[j].run /\ blocks'[i].type = blocks'[j].type => i = j
    BY <1>5, <1>6, <2>1 DEF IInv, Transactions, SentOnce
  <2> QED BY <1>2, <2>2 DEF SentOnce
<1> QED BY <1>4, <1>7, <1>8, <1>9, <1>10 DEF IInv, Typed, Transactions

LEMMA ChainStepKeeps ==
    ASSUME IInv, ChainStep, UNCHANGED <<env, clientVars, lookupVars>>
    PROVE  IInv'
<1>1. CASE LosePool
  <2>1. pool' = {} /\ UNCHANGED <<codes, contracts, nonce, blocks, pc, msg, seq, at>>
    BY <1>1 DEF LosePool, clientVars
  <2>2. TypeOK'
    BY <2>1 DEF IInv, Typed, TypeOK, ChainTypeOK, ClientTypeOK, LookupTypeOK, env, clientVars, lookupVars
  <2>3. Answered' /\ BodiesKnown'
    BY <2>1 DEF IInv, Typed, Answered, BodiesKnown
  <2>4. IsFiniteSet(pool)' /\ OneInFlight' /\ SequencesPast'
    BY <2>1, FS_EmptySet DEF IInv, Transactions, OneInFlight, SequencesPast
  <2>5. InOrder' /\ SentOnce'
    BY <2>1 DEF IInv, Transactions, InOrder, SentBelow, SentOnce
  <2> QED BY <2>2, <2>3, <2>4, <2>5 DEF IInv, Typed, Transactions
<1>2. CASE StrangerStores
  <2> PICK k \in Kinds : codes' = Append(codes, [kind |-> k, by |-> Stranger])
    BY <1>2 DEF StrangerStores
  <2>1. UNCHANGED <<contracts, nonce, pool, blocks, pc, msg, seq, at>>
    BY <1>2 DEF StrangerStores, clientVars
  <2>2. codes' \in Seq(Code)
    <3>1. [kind |-> k, by |-> Stranger] \in Code
      BY DEF Code
    <3>2. codes \in Seq(Code)
      BY DEF IInv, Typed, TypeOK, ChainTypeOK
    <3> QED BY <3>1, <3>2
  <2>3. TypeOK'
    BY <2>1, <2>2 DEF IInv, Typed, TypeOK, ChainTypeOK, ClientTypeOK, LookupTypeOK, env, clientVars, lookupVars
  <2>4. Answered' /\ BodiesKnown'
    BY <2>1 DEF IInv, Typed, Answered, BodiesKnown
  <2>5. Transactions'
    BY <2>1 DEF IInv, Transactions, OneInFlight, SequencesPast, InOrder, SentBelow, SentOnce
  <2> QED BY <2>3, <2>4, <2>5 DEF IInv, Typed
<1> QED BY <1>1, <1>2, IncludeKeeps DEF ChainStep

LEMMA RunStepKeeps ==
    ASSUME IInv, NEW r \in Runs, UNCHANGED env,
           RunStep(r) \/ (Kill(r) /\ UNCHANGED lookupVars)
    PROVE  IInv'
<1>1. CASE Broadcast(r) /\ UNCHANGED lookupVars
  BY <1>1, BroadcastKeeps DEF env
<1>2. CASE ~(Broadcast(r) /\ UNCHANGED lookupVars)
  <2>1. Advance(r)
    BY <1>2, DeployStepAdvances, InstantiateStepAdvances, CheckBalanceStepAdvances,
       TransferStepAdvances, LookupStepAdvances, LibraryStepAdvances
    DEF IInv, Transactions, RunStep, SendingStep
  <2>2. ClientTypeOK' /\ LookupTypeOK'
    <3>1. CASE LookupStep(r)
      BY <3>1, LookupStepTyped DEF IInv
    <3>2. CASE (SendingStep(r) \/ Kill(r)) /\ UNCHANGED lookupVars
      <4>1. ClientTypeOK'
        BY <3>2, DeployStepTyped, InstantiateStepTyped, CheckBalanceStepTyped,
           TransferStepTyped, LibraryStepTyped DEF IInv, SendingStep
      <4> QED BY <3>2, <4>1 DEF IInv, Typed, TypeOK, LookupTypeOK, lookupVars
    <3> QED BY <3>1, <3>2 DEF RunStep
  <2>3. ChainTypeOK'
    BY <2>1 DEF IInv, Typed, TypeOK, ChainTypeOK, Advance, chainVars, env
  <2> QED BY <2>1, <2>2, <2>3, AdvanceKeeps DEF IInv, Typed, TypeOK
<1> QED BY <1>1, <1>2

LEMMA InitSound == Init => IInv
<1> SUFFICES ASSUME Init PROVE IInv
  OBVIOUS
<1> PICK s \in Settings : faults = s.faults /\ lib = s.lib /\ prog = s.prog
  BY DEF Init
<1>1. faults \subseteq Faults /\ lib \subseteq Features /\ prog \in [Runs -> Programs]
  BY SettingsAssumption
<1>2. /\ contracts = <<>> /\ nonce = 0 /\ pool = {} /\ blocks = <<>>
      /\ pc = [r \in Runs |-> IF prog[r] = "none" THEN "done" ELSE "start"]
      /\ msg = [r \in Runs |-> NoMsg] /\ seq = [r \in Runs |-> 0]
  BY DEF Init, ChainInit, ClientInit
<1>3. ChainTypeOK
  <2>1. codes \in [1..InitialCodes -> Code]
    BY DEF Init, ChainInit, Code
  <2>2. codes \in Seq(Code)
    BY <2>1, ChainAssumption
  <2> QED BY <1>1, <1>2, <2>2 DEF ChainTypeOK
<1>4. ClientTypeOK
  <2>1. NoMsg \in Message
    BY DEF NoMsg, Message, MessageTypes, Bodies
  <2>2. pc \in [Runs -> Locations]
    BY <1>2, LocationNames
  <2> QED BY <1>1, <1>2, <2>1, <2>2 DEF Init, ClientInit, ClientTypeOK
<1>5. LookupTypeOK
  BY DEF Init, LookupInit, LookupTypeOK
<1>6. Answered /\ BodiesKnown
  BY <1>2 DEF Answered, BodiesKnown, NoMsg
<1>7. Transactions
  BY <1>2, FS_EmptySet, RankIsNat
  DEF Transactions, OneInFlight, SequencesPast, InOrder, SentBelow, SentOnce
<1> QED BY <1>3, <1>4, <1>5, <1>6, <1>7 DEF IInv, Typed, TypeOK

(***************************************************************************)
(* The inductive invariant of the scripts and the chain they send to: the  *)
(* client's answers belong to its own messages (Poll, Include), and what a *)
(* run has sent comes in the order of its plan.                            *)
(***************************************************************************)
THEOREM ScriptsInvariance == Spec => []IInv
<1>1. Init => IInv
  BY InitSound
<1>2. IInv /\ [Next]_vars => IInv'
  <2> SUFFICES ASSUME IInv, [Next]_vars PROVE IInv'
    OBVIOUS
  <2>1. CASE Next
    BY <2>1, RunStepKeeps, ChainStepKeeps DEF Next, env
  <2>2. CASE UNCHANGED vars
    <3>1. UNCHANGED <<codes, contracts, nonce, pool, blocks, pc, msg, seq, at>>
      BY <2>2 DEF vars, chainVars, clientVars
    <3>2. TypeOK'
      BY <2>2 DEF IInv, Typed, TypeOK, ChainTypeOK, ClientTypeOK, LookupTypeOK,
                  vars, chainVars, env, clientVars, lookupVars
    <3>3. Answered' /\ BodiesKnown'
      BY <3>1 DEF IInv, Typed, Answered, BodiesKnown
    <3>4. Transactions'
      BY <3>1 DEF IInv, Transactions, OneInFlight, SequencesPast, InOrder, SentBelow, SentOnce
    <3> QED BY <3>2, <3>3, <3>4 DEF IInv, Typed
  <2> QED BY <2>1, <2>2
<1> QED BY <1>1, <1>2, PTL DEF Spec

\* Type correctness of the scripts' state and of what they put on the chain.
THEOREM ScriptsTypeCorrect == Spec => []TypeOK
<1>1. IInv => TypeOK
  BY DEF IInv, Typed
<1> QED BY <1>1, ScriptsInvariance, PTL

\* However many runs share the account, one transaction of it is pending at
\* a time, with the next sequence number (Broadcast, CheckTx).
THEOREM OnePendingTransaction == Spec => []OneInFlight
<1>1. IInv => OneInFlight
  BY DEF IInv, Transactions
<1> QED BY <1>1, ScriptsInvariance, PTL

\* No loss, time-out, restart or kill makes a script send a message twice.
THEOREM NothingSentTwice == Spec => []SentOnce
<1>1. IInv => SentOnce
  BY DEF IInv, Transactions
<1> QED BY <1>1, ScriptsInvariance, PTL

-----------------------------------------------------------------------------
(* What runs say, and how they end.                                         *)

\* The locations inside a call of the library.
InLibrary == {"simulate", "estimate", "sign", "broadcast", "poll", "answered"}

Ours(r) == {i \in DOMAIN blocks : blocks[i].run = r /\ blocks[i].ok}

\* A successful transaction reports what it made.
Truthful ==
    \A i \in DOMAIN blocks : blocks[i].ok =>
        /\ blocks[i].type = "store" =>
            blocks[i].made \in DOMAIN codes /\ codes[blocks[i].made].by = blocks[i].run
        /\ blocks[i].type = "instantiate" =>
            blocks[i].made \in DOMAIN contracts /\ contracts[blocks[i].made].by = blocks[i].run

\* A run does not go on to another message while one is pending.
PendingIsCurrent == \A tx \in pool : tx.msg = msg[tx.run]

Instantiating(r) == msg[r].type \in {"instantiate", "transfer"}

\* An instance is made from the code its run has chosen, for good.
InstancesTraced ==
    \A i \in DOMAIN contracts :
        /\ Instantiating(contracts[i].by)
        /\ contracts[i].code = codeId[contracts[i].by]
        /\ contracts[i].code \in DOMAIN codes

\* How far a run is shows in what it has said and sent.
Placed(r) ==
    /\ pc[r] \in Fresh => said[r] = {}
    /\ pc[r] \in Fresh /\ prog[r] # "transfer_cw20" => msg[r].type = "none"
    /\ pc[r] = "start" => msg[r].type = "none" /\ scan[r] = 1
    /\ prog[r] = "transfer_cw20" /\ pc[r] \notin {"start", "done"} => msg[r].type # "none"
    /\ Plan(r) = <<>> => msg[r].type = "none" /\ pc[r] \notin InLibrary
    /\ Plan(r) # <<>> => pc[r] \notin {"scan", "list"}
    /\ exit[r] = "ok" => pc[r] = "done"

\* A run has chosen what its messages refer to.
Owns(r, contract) == contract \in DOMAIN contracts /\ contracts[contract].by = r

Purposeful(r) ==
    /\ msg[r].type = "instantiate" => msg[r].ref = codeId[r]
    /\ msg[r].type = "transfer" => msg[r].amount > 0
    /\ msg[r].type = "transfer" /\ prog[r] # "transfer_cw20" => Owns(r, msg[r].ref)
    /\ Deploys(r) /\ Instantiating(r) =>
        \/ "fallback" \in said[r]
        \/ codeId[r] \in DOMAIN codes /\ codes[codeId[r]].by = r
    /\ "logs" \in lib => "fallback" \notin said[r]
    /\ "contract" \in said[r] /\ Plan(r) # <<>> => Owns(r, address[r])

\* What precedes a message in the plan has succeeded.
Progressing(r) ==
    /\ msg[r].type = "none" => Ours(r) = {}
    /\ msg[r].type # "none" => \E i \in DOMAIN Plan(r) :
        /\ Plan(r)[i] = msg[r].type
        /\ \A j \in 1..(i - 1) : Committed(r, Plan(r)[j]) # {}
        /\ Cardinality(Ours(r)) = IF Committed(r, msg[r].type) = {} THEN i - 1 ELSE i
    /\ exit[r] = "ok" => \A i \in DOMAIN Plan(r) :
        Plan(r)[i] # "transfer" \/ i = 1 => Committed(r, Plan(r)[i]) # {}
    /\ "transferred" \in said[r] => Committed(r, "transfer") # {}

\* What get_code_from_tx.js prints is of the transaction it was given.
TruthfulTx(r) ==
    prog[r] = "get_code_from_tx" =>
        /\ {"code", "contract", "no code"} \cap said[r] # {} => at[r] \in DOMAIN blocks
        /\ "code" \in said[r] =>
            /\ codeId[r] \in DOMAIN codes
            /\ codes[codeId[r]].by = blocks[at[r]].run
            /\ blocks[at[r]].type = "store"
        /\ "contract" \in said[r] =>
            /\ address[r] \in DOMAIN contracts
            /\ contracts[address[r]].by = blocks[at[r]].run
        /\ "no code" \in said[r] /\ lib \cap {"logs", "jsonlog"} # {} =>
            blocks[at[r]].type # "store"

\* The search has seen every id below scan, in ascending order.
Searching(r) ==
    /\ before[r] \subseteq OurCodes
    /\ Listed(r) \subseteq OurCodes
    /\ \A i \in DOMAIN found[r] : found[r][i] < scan[r]
    /\ \A i, j \in DOMAIN found[r] : i <= j => found[r][i] <= found[r][j]
    /\ prog[r] = "find_latest_code" /\ "wasm" \in lib /\ "network" \notin faults =>
        \A c \in before[r] : c < scan[r] => c \in Listed(r)
    /\ prog[r] = "find_latest_code" /\ exit[r] = "ok" =>
        /\ scan[r] > limit[r]
        /\ found[r] # <<>> => codeId[r] = Latest(found[r])

Traced == Truthful /\ PendingIsCurrent /\ InstancesTraced

\* The run-indexed variables that matter below, at q.
Same(q) ==
    /\ pc'[q] = pc[q] /\ msg'[q] = msg[q] /\ at'[q] = at[q] /\ codeId'[q] = codeId[q]
    /\ address'[q] = address[q] /\ said'[q] = said[q] /\ exit'[q] = exit[q]
    /\ scan'[q] = scan[q] /\ limit'[q] = limit[q] /\ found'[q] = found[q] /\ before'[q] = before[q]

Quiet == UNCHANGED <<codes, contracts, blocks, env>>

Local(r) == Placed(r) /\ Purposeful(r) /\ Progressing(r) /\ TruthfulTx(r) /\ Searching(r)

LEMMA Plans ==
    ASSUME NEW r \in Runs
    PROVE  /\ prog[r] = "deploy_cw20" => Plan(r) = <<"store", "instantiate", "transfer">>
           /\ prog[r] = "deploy_check_balance" => Plan(r) = <<"store", "instantiate">>
           /\ prog[r] = "instantiate_cw20" => Plan(r) = <<"instantiate", "transfer">>
           /\ prog[r] = "transfer_cw20" => Plan(r) = <<"transfer">>
           /\ prog[r] \notin {"deploy_cw20", "deploy_check_balance", "instantiate_cw20", "transfer_cw20"}
              => Plan(r) = <<>>
BY DEF Plan

LEMMA QuietOperators ==
    ASSUME Quiet, NEW r \in Runs
    PROVE  /\ Plan(r)' = Plan(r) /\ Ours(r)' = Ours(r) /\ OurCodes' = OurCodes
           /\ (Deploys(r))' = Deploys(r)
           /\ \A t : Committed(r, t)' = Committed(r, t)
           /\ \A c : Owns(r, c)' = Owns(r, c)
BY DEF Quiet, env, Plan, Ours, OurCodes, Deploys, Committed, Owns

\* A step of another run.
LEMMA SameKeeps ==
    ASSUME NEW q \in Runs, Local(q), Same(q), Quiet
    PROVE  Local(q)'
<1> USE QuietOperators DEF Quiet, env, Same
<1>1. Placed(q)'
  BY DEF Local, Placed
<1>2. Purposeful(q)'
  BY DEF Local, Purposeful, Instantiating
<1>3. Progressing(q)'
  BY DEF Local, Progressing
<1>4. TruthfulTx(q)'
  BY DEF Local, TruthfulTx
<1>5. Searching(q)'
  BY DEF Local, Searching, Listed
<1> QED BY <1>1, <1>2, <1>3, <1>4, <1>5 DEF Local

\* A step of a run concerns no other run.
Alone(r) == \A q \in Runs \ {r} : Same(q)

LEMMA SendingStepAlone ==
    ASSUME IInv, NEW r \in Runs, SendingStep(r) \/ Kill(r), UNCHANGED lookupVars
    PROVE  Alone(r)
<1> USE DEF Alone, Same, lookupVars, IInv, Typed, TypeOK, ClientTypeOK,
            Finish, Goto, Say, Send, Begin, Connect, Throw
<1>1. CASE LibraryStep(r) \/ Kill(r)
  BY <1>1 DEF LibraryStep, Kill, Simulate, Estimate, Sign, Broadcast, Poll, Timeout
<1>2. CASE DeployStep(r)
  BY <1>2 DEF DeployStep, DeployBegin, DeployStoreCode, DeployStored, DeployInstantiated,
              ReportContract, DeployTransferred
<1>3. CASE InstantiateStep(r)
  BY <1>3 DEF InstantiateStep, InstantiateBegin, InstantiateCode, InstantiateAnswered,
              TryTransfer, InstantiateTransferred
<1>4. CASE CheckBalanceStep(r)
  BY <1>4 DEF CheckBalanceStep, CheckBalanceBegin, CheckBalanceStoreCode, CheckBalanceStored,
              CheckBalanceInstantiated
<1>5. CASE TransferStep(r)
  BY <1>5 DEF TransferStep, TransferBegin, TransferSend, TransferAnswered
<1> QED BY <1>1, <1>2, <1>3, <1>4, <1>5 DEF SendingStep

LEMMA LookupStepAlone ==
    ASSUME IInv, NEW r \in Runs, LookupStep(r)
    PROVE  Alone(r)
<1> USE DEF Alone, Same, lookupVars, clientVars, IInv, Typed, TypeOK, ClientTypeOK, LookupTypeOK,
            Finish, Goto, Say, Begin, Connect, Done, Failed
<1>1. CASE FindBegin(r) \/ FindNext(r) \/ FindReport(r)
  BY <1>1 DEF FindBegin, FindNext, FindReport
<1>2. CASE TxBegin(r) \/ TxRead(r) \/ TxList(r)
  BY <1>2 DEF TxBegin, TxRead, TxReport, TxList
<1>3. CASE QueryCodeBegin(r) \/ QueryCodeInfo(r) \/ QueryCodeList(r)
  BY <1>3 DEF QueryCodeBegin, QueryCodeInfo, QueryCodeList
<1>4. CASE ListBegin(r) \/ ListContracts(r) \/ QueryCw20Begin(r) \/ QueryCw20Ask(r)
  BY <1>4 DEF ListBegin, ListContracts, QueryCw20Begin, QueryCw20Ask
<1>5. CASE BalanceBegin(r) \/ BalanceRead(r)
  BY <1>5 DEF BalanceBegin, BalanceRead
<1> QED BY <1>1, <1>2, <1>3, <1>4, <1>5 DEF LookupStep

-----------------------------------------------------------------------------
(* A step of a run keeps what is said of it.                                *)

\* Where no lookup runs, what lookups find is of no concern.
LEMMA SenderReadsNothing ==
    ASSUME NEW r \in Runs, Local(r), Quiet, UNCHANGED lookupVars,
           prog[r] \notin {"find_latest_code", "get_code_from_tx"}
    PROVE  TruthfulTx(r)' /\ Searching(r)'
<1>1. TruthfulTx(r)'
  BY DEF TruthfulTx, Quiet, env
<1>2. Searching(r)'
  BY QuietOperators DEF Local, Searching, Quiet, env, lookupVars, Listed
<1> QED BY <1>1, <1>2

LEMMA FreshSentNothing ==
    ASSUME IInv, NEW r \in Runs, pc[r] \in Fresh
    PROVE  Ours(r) = {} /\ \A t : Committed(r, t) = {}
<1>1. \A i \in DOMAIN blocks : blocks[i].run # r
  BY RankIsNat DEF IInv, Transactions, InOrder, SentBelow
<1> QED BY <1>1 DEF Ours, Committed

\* The answer a run looks at, if it is good.
LEMMA GoodAnswer ==
    ASSUME IInv, Traced, NEW r \in Runs, pc[r] = "answered", blocks[at[r]].ok
    PROVE  /\ at[r] \in Committed(r, msg[r].type)
           /\ msg[r].type = "store" =>
                /\ blocks[at[r]].made \in DOMAIN codes /\ blocks[at[r]].made # 0
                /\ codes[blocks[at[r]].made].by = r
           /\ msg[r].type = "instantiate" => Owns(r, blocks[at[r]].made) /\ blocks[at[r]].made # 0
<1>1. at[r] \in DOMAIN blocks /\ blocks[at[r]].run = r /\ blocks[at[r]].type = msg[r].type
  BY DEF IInv, Typed, Answered
<1>2. codes \in Seq(Code) /\ contracts \in Seq(Contract)
  BY DEF IInv, Typed, TypeOK, ChainTypeOK
<1> QED BY <1>1, <1>2 DEF Traced, Truthful, Committed, Owns

LEMMA PlanPlaces ==
    ASSUME NEW r \in Runs
    PROVE  /\ prog[r] = "deploy_cw20" =>
                /\ DOMAIN Plan(r) = {1, 2, 3}
                /\ Plan(r)[1] = "store" /\ Plan(r)[2] = "instantiate" /\ Plan(r)[3] = "transfer"
           /\ prog[r] = "deploy_check_balance" =>
                DOMAIN Plan(r) = {1, 2} /\ Plan(r)[1] = "store" /\ Plan(r)[2] = "instantiate"
           /\ prog[r] = "instantiate_cw20" =>
                DOMAIN Plan(r) = {1, 2} /\ Plan(r)[1] = "instantiate" /\ Plan(r)[2] = "transfer"
           /\ prog[r] = "transfer_cw20" => DOMAIN Plan(r) = {1} /\ Plan(r)[1] = "transfer"
<1>1. prog[r] = "deploy_cw20" => Plan(r) = <<"store", "instantiate", "transfer">>
  BY Plans
<1>2. prog[r] = "deploy_check_balance" => Plan(r) = <<"store", "instantiate">>
  BY Plans
<1>3. prog[r] = "instantiate_cw20" => Plan(r) = <<"instantiate", "transfer">>
  BY Plans
<1>4. prog[r] = "transfer_cw20" => Plan(r) = <<"transfer">>
  BY Plans
<1> QED BY <1>1, <1>2, <1>3, <1>4

LEMMA MessageFields ==
    /\ \A k : StoreMsg(k).type = "store"
    /\ \A id, init : InstantiateMsg(id, init).type = "instantiate" /\ InstantiateMsg(id, init).ref = id
    /\ \A c, n : /\ TransferMsg(c, n).type = "transfer"
                 /\ TransferMsg(c, n).ref = c /\ TransferMsg(c, n).amount = n
BY DEF StoreMsg, InstantiateMsg, TransferMsg

\* The message of a run has one place in its plan, and all before it succeeded.
LEMMA PlaceInPlan ==
    ASSUME NEW r \in Runs, Local(r), NEW i \in DOMAIN Plan(r), Plan(r)[i] = msg[r].type
    PROVE  /\ \A j \in 1..(i - 1) : Committed(r, Plan(r)[j]) # {}
           /\ Cardinality(Ours(r)) = IF Committed(r, msg[r].type) = {} THEN i - 1 ELSE i
<1>1. msg[r].type # "none"
  BY Plans
<1>2. \A j \in DOMAIN Plan(r) : Plan(r)[j] = msg[r].type => j = i
  BY Plans
<1> QED BY <1>1, <1>2 DEF Local, Progressing

\* The first message of a plan.
LEMMA FirstMessage ==
    ASSUME IInv, NEW r \in Runs, Local(r), Quiet, pc[r] \in Fresh,
           Plan(r) # <<>>, msg'[r].type = Plan(r)[1], msg'[r].type # "none",
           exit'[r] # "ok", "transferred" \notin said'[r]
    PROVE  Progressing(r)'
<1>1. 1 \in DOMAIN Plan(r)
  BY Plans
<1>2. Ours(r) = {} /\ \A t : Committed(r, t) = {}
  BY FreshSentNothing
<1>3. Cardinality(Ours(r)) = 0
  BY <1>2, FS_EmptySet
<1>4. /\ Plan(r)' = Plan(r) /\ Ours(r)' = Ours(r)
      /\ \A t : Committed(r, t)' = Committed(r, t)
  BY QuietOperators
<1>5. /\ \A j \in 1..(1 - 1) : Committed(r, Plan(r)[j])' # {}
      /\ Cardinality(Ours(r))' = IF Committed(r, msg[r].type)' = {} THEN 1 - 1 ELSE 1
  BY <1>2, <1>3, <1>4
<1>6. \E i \in DOMAIN Plan(r)' :
        /\ Plan(r)'[i] = msg'[r].type
        /\ \A j \in 1..(i - 1) : Committed(r, Plan(r)[j])' # {}
        /\ Cardinality(Ours(r))' = IF Committed(r, msg[r].type)' = {} THEN i - 1 ELSE i
  BY <1>1, <1>4, <1>5
<1> QED BY <1>6 DEF Progressing

\* The next message, after a good answer.
LEMMA NextMessage ==
    ASSUME IInv, Traced, NEW r \in Runs, Local(r), Quiet, pc[r] = "answered", blocks[at[r]].ok,
           NEW i \in Nat \ {0}, i + 1 \in DOMAIN Plan(r),
           Plan(r)[i] = msg[r].type, msg'[r].type = Plan(r)[i + 1],
           exit'[r] # "ok", "transferred" \in said'[r] => "transferred" \in said[r]
    PROVE  Progressing(r)'
<1>1. at[r] \in Committed(r, msg[r].type)
  BY GoodAnswer
<1>2. /\ msg[r].type # "none" /\ msg'[r].type # "none"
      /\ Rank(msg[r].type) < Rank(msg'[r].type)
      /\ \A j \in DOMAIN Plan(r) : Plan(r)[j] = msg[r].type => j = i
  BY Plans DEF Rank
<1>3. (\A j \in 1..(i - 1) : Committed(r, Plan(r)[j]) # {}) /\ Cardinality(Ours(r)) = i
  BY <1>1, <1>2 DEF Local, Progressing
<1>4. Committed(r, msg'[r].type) = {}
  <2>1. \A j \in DOMAIN blocks : blocks[j].run = r => Rank(blocks[j].type) < Rank(msg[r].type) + 1
    BY DEF IInv, Transactions, InOrder, SentBelow
  <2> QED BY <1>2, <2>1, RankIsNat DEF Committed
<1>5. \A j \in 1..i : Committed(r, Plan(r)[j]) # {}
  BY <1>1, <1>3
<1>6. /\ Plan(r)' = Plan(r) /\ Ours(r)' = Ours(r)
      /\ \A t : Committed(r, t)' = Committed(r, t)
  BY QuietOperators
<1>7. /\ \A j \in 1..((i + 1) - 1) : Committed(r, Plan(r)[j])' # {}
      /\ Cardinality(Ours(r))' = IF Committed(r, msg[r].type)' = {} THEN (i + 1) - 1 ELSE i + 1
  BY <1>3, <1>4, <1>5, <1>6
<1>8. \E k \in DOMAIN Plan(r)' :
        /\ Plan(r)'[k] = msg'[r].type
        /\ \A j \in 1..(k - 1) : Committed(r, Plan(r)[j])' # {}
        /\ Cardinality(Ours(r))' = IF Committed(r, msg[r].type)' = {} THEN k - 1 ELSE k
  BY <1>6, <1>7
<1>9. "transferred" \in said'[r] => Committed(r, "transfer")' # {}
  BY <1>6 DEF Local, Progressing
<1> QED BY <1>2, <1>8, <1>9 DEF Progressing

\* The end of a run whose message stands.
LEMMA LastStep ==
    ASSUME NEW r \in Runs, Local(r), Quiet, msg'[r] = msg[r],
           exit'[r] = "ok" => \A i \in DOMAIN Plan(r) :
               Plan(r)[i] # "transfer" \/ i = 1 => Committed(r, Plan(r)[i]) # {},
           "transferred" \in said'[r] => "transferred" \in said[r] \/ Committed(r, "transfer") # {}
    PROVE  Progressing(r)'
BY QuietOperators DEF Local, Progressing

LEMMA DeployStepKeeps ==
    ASSUME IInv, Traced, NEW r \in Runs, Local(r), DeployStep(r), UNCHANGED <<env, lookupVars>>
    PROVE  Local(r)'
<1>1. prog[r] = "deploy_cw20" /\ Plan(r) = <<"store", "instantiate", "transfer">> /\ Quiet
  BY Plans DEF DeployStep, DeployBegin, Begin, DeployStoreCode, DeployStored, DeployInstantiated,
               DeployTransferred, Quiet, chainVars
<1>2. TruthfulTx(r)' /\ Searching(r)'
  BY <1>1, SenderReadsNothing
<1>0. Quiet
  BY <1>1
<1>3. Plan(r)' = Plan(r) /\ prog' = prog /\ lib' = lib /\ scan' = scan /\ Deploys(r)
  BY <1>1, QuietOperators DEF env, lookupVars, Deploys
<1> USE DEF IInv, Typed, TypeOK, ClientTypeOK, Finish, Goto, Say, Send
<1>4. CASE DeployBegin(r)
  <2>1. /\ pc[r] = "start" /\ msg'[r] = msg[r] /\ codeId'[r] = codeId[r] /\ address'[r] = address[r]
        /\ \/ pc'[r] = "connected" /\ said'[r] = said[r] /\ exit'[r] = exit[r]
           \/ pc'[r] = "done" /\ exit'[r] = "failed" /\ said'[r] \subseteq {"usage"} \cup said[r]
    BY <1>4 DEF DeployBegin, Begin, Connect
  <2>2. Placed(r)'
    BY <1>1, <1>3, <2>1 DEF Local, Placed, Fresh, InLibrary
  <2>3. Purposeful(r)'
    BY <1>1, <1>3, <2>1, QuietOperators DEF Local, Placed, Purposeful, Fresh, Instantiating
  <2>4. Progressing(r)'
    BY <1>1, <2>1, LastStep DEF Local, Progressing, Placed
  <2> QED BY <1>2, <2>2, <2>3, <2>4 DEF Local
<1>5. CASE DeployStoreCode(r)
  <2>1. /\ pc[r] = "connected" /\ codeId'[r] = codeId[r] /\ address'[r] = address[r]
        /\ \/ pc'[r] = "done" /\ exit'[r] = "failed" /\ said'[r] = {"usage"} \cup said[r] /\ msg'[r] = msg[r]
           \/ /\ pc'[r] = "simulate" /\ exit'[r] = exit[r] /\ said'[r] = said[r]
              /\ msg'[r].type = "store"
    BY <1>5 DEF DeployStoreCode, StoreMsg
  <2>2. Placed(r)'
    BY <1>1, <1>3, <2>1 DEF Local, Placed, Fresh, InLibrary
  <2>3. Purposeful(r)'
    BY <1>1, <1>3, <2>1, QuietOperators DEF Local, Placed, Purposeful, Fresh, Instantiating
  <2>4. Progressing(r)'
    <3>1. CASE pc'[r] = "done" /\ exit'[r] = "failed" /\ said'[r] = {"usage"} \cup said[r] /\ msg'[r] = msg[r]
      BY <1>1, <3>1, LastStep
    <3>2. CASE exit'[r] = exit[r] /\ said'[r] = said[r] /\ msg'[r].type = "store"
      <4>1. exit'[r] # "ok" /\ "transferred" \notin said'[r] /\ pc[r] \in Fresh
        BY <2>1, <3>2 DEF Local, Placed, Fresh
      <4>2. Plan(r) # <<>> /\ msg'[r].type = Plan(r)[1] /\ msg'[r].type # "none"
        BY <1>1, <3>2
      <4> QED BY <1>1, <4>1, <4>2, FirstMessage
    <3> QED BY <2>1, <3>1, <3>2
  <2> QED BY <1>2, <2>2, <2>3, <2>4 DEF Local
<1>6. CASE DeployStored(r)
  <2>1. CASE ~blocks[at[r]].ok
    <3>1. /\ pc[r] = "answered" /\ codeId'[r] = codeId[r] /\ address'[r] = address[r]
          /\ pc'[r] = "done" /\ exit'[r] = "failed" /\ said'[r] = said[r] /\ msg'[r] = msg[r]
      BY <1>6, <2>1 DEF DeployStored
    <3>2. Progressing(r)'
      BY <1>1, <3>1, LastStep
    <3>3. Placed(r)'
      BY <1>1, <1>3, <3>1 DEF Local, Placed, Fresh, InLibrary
    <3>4. Purposeful(r)'
      BY <1>1, <1>3, <3>1, QuietOperators DEF Quiet, Local, Purposeful, Instantiating
    <3> QED BY <1>2, <3>2, <3>3, <3>4 DEF Local
  <2>2. CASE blocks[at[r]].ok
    <3>1. /\ pc[r] = "answered" /\ msg[r].type = "store" /\ address'[r] = address[r]
          /\ codeId'[r] = CodeIdOrFallback(r)
          /\ pc'[r] = "simulate" /\ exit'[r] = exit[r]
          /\ said'[r] = said[r] \cup {"stored"} \cup (IF LoggedId(r) = 0 THEN {"fallback"} ELSE {})
          /\ msg'[r] = InstantiateMsg(CodeIdOrFallback(r), "cw20-base")
      BY <1>6, <2>2 DEF DeployStored
    <3>2. /\ "fallback" \in said'[r] \/ (codeId'[r] \in DOMAIN codes /\ codes[codeId'[r]].by = r)
          /\ "logs" \in lib => LoggedId(r) # 0
      BY <2>2, <3>1, GoodAnswer DEF LoggedId, CodeIdOrFallback
    <3>3. Placed(r)'
      BY <1>1, <1>3, <3>1 DEF Local, Placed, Fresh, InLibrary
    <3>4. Purposeful(r)'
      BY <1>1, <1>3, <3>1, <3>2, QuietOperators
      DEF Quiet, Local, Purposeful, Instantiating, InstantiateMsg
    <3>5. Progressing(r)'
      <4>1. Plan(r)[1] = msg[r].type /\ 1 + 1 \in DOMAIN Plan(r) /\ msg'[r].type = Plan(r)[1 + 1]
        BY <1>1, <3>1, MessageFields, PlanPlaces
      <4>2. exit'[r] # "ok" /\ ("transferred" \in said'[r] => "transferred" \in said[r])
        BY <3>1 DEF Local, Placed
      <4> QED BY <1>0, <2>2, <3>1, <4>1, <4>2, 1 \in Nat \ {0}, NextMessage
    <3> QED BY <1>2, <3>3, <3>4, <3>5 DEF Local
  <2> QED BY <2>1, <2>2
<1>7. CASE DeployInstantiated(r)
  <2>1. CASE Finish(r, "failed", {}) /\ UNCHANGED <<msg, address, codeId>>
    <3>1. /\ codeId'[r] = codeId[r] /\ address'[r] = address[r]
          /\ pc'[r] = "done" /\ exit'[r] = "failed" /\ said'[r] = said[r] /\ msg'[r] = msg[r]
      BY <2>1
    <3>2. Progressing(r)'
      BY <1>1, <3>1, LastStep
    <3>3. Placed(r)'
      BY <1>1, <1>3, <3>1 DEF Local, Placed, Fresh, InLibrary
    <3>4. Purposeful(r)'
      BY <1>1, <1>3, <3>1, QuietOperators DEF Quiet, Local, Purposeful, Instantiating
    <3> QED BY <1>2, <3>2, <3>3, <3>4 DEF Local
  <2>2. CASE blocks[at[r]].ok /\ LoggedId(r) # 0 /\ ReportContract(r, LoggedId(r)) /\ UNCHANGED codeId
    <3> DEFINE m == TransferMsg(LoggedId(r), 1)
    <3>a. m.type = "transfer" /\ m.ref = LoggedId(r) /\ m.amount = 1
      BY DEF TransferMsg
    <3> HIDE DEF m
    <3>1. /\ pc[r] = "answered" /\ msg[r].type = "instantiate" /\ codeId'[r] = codeId[r]
          /\ address'[r] = LoggedId(r)
          /\ \/ /\ pc'[r] = "simulate" /\ exit'[r] = exit[r]
                /\ said'[r] = said[r] \cup {"instantiated", "contract"}
                /\ msg'[r].type = "transfer" /\ msg'[r].ref = LoggedId(r) /\ msg'[r].amount = 1
             \/ /\ pc'[r] = "done" /\ exit'[r] = "ok" /\ msg'[r] = msg[r]
                /\ said'[r] = said[r] \cup {"instantiated", "contract", "transfer error"}
      <4>1. \/ Say(r, {"instantiated", "contract"}) /\ Send(r, m) /\ UNCHANGED exit
            \/ Finish(r, "ok", {"instantiated", "contract", "transfer error"}) /\ UNCHANGED msg
        BY <2>2 DEF ReportContract, m
      <4>2. address'[r] = LoggedId(r)
        BY <2>2 DEF ReportContract
      <4> QED BY <1>7, <2>2, <3>a, <4>1, <4>2 DEF DeployInstantiated
    <3>2. Owns(r, LoggedId(r))
      BY <2>2, <3>1, GoodAnswer DEF LoggedId
    <3>3. Placed(r)'
      BY <1>1, <1>3, <3>1 DEF Local, Placed, Fresh, InLibrary
    <3>4. Purposeful(r)'
      <4>1. \/ msg'[r] = msg[r]
            \/ msg'[r].type = "transfer" /\ msg'[r].amount = 1 /\ msg'[r].ref = LoggedId(r)
        BY <3>1
      <4>2. said'[r] \cap {"fallback"} = said[r] \cap {"fallback"}
        BY <3>1
      <4> HIDE DEF IInv, Typed, TypeOK, ClientTypeOK, Finish, Goto, Say, Send
      <4>3. Purposeful(r) /\ Instantiating(r)
        BY <3>1 DEF Local, Instantiating
      <4>4. /\ UNCHANGED <<codes, contracts, prog, lib>> /\ (Deploys(r))' = Deploys(r)
            /\ codeId'[r] = codeId[r] /\ address'[r] = LoggedId(r)
        BY <1>0, <1>3, <3>1, QuietOperators DEF Quiet
      <4> QED BY <3>2, <4>1, <4>2, <4>3, <4>4 DEF Purposeful, Instantiating, Owns
    <3>5. Progressing(r)'
      <4>1. CASE msg'[r].type = "transfer" /\ exit'[r] = exit[r]
                 /\ said'[r] = said[r] \cup {"instantiated", "contract"}
        <5>1. Plan(r)[2] = msg[r].type /\ 2 + 1 \in DOMAIN Plan(r) /\ msg'[r].type = Plan(r)[2 + 1]
          <6>1. /\ Plan(r)[2] = "instantiate" /\ 2 + 1 \in DOMAIN Plan(r)
                /\ Plan(r)[2 + 1] = "transfer"
            BY <1>1, PlanPlaces
          <6> QED BY <3>1, <4>1, <6>1
        <5>2. exit'[r] # "ok" /\ ("transferred" \in said'[r] => "transferred" \in said[r])
          BY <3>1, <4>1 DEF Local, Placed
        <5> HIDE DEF IInv, Typed, TypeOK, ClientTypeOK, Finish, Goto, Say, Send
        <5>3. pc[r] = "answered" /\ blocks[at[r]].ok
          BY <2>2, <3>1
        <5> QED BY <1>0, <5>1, <5>2, <5>3, 2 \in Nat \ {0}, NextMessage
      <4>2. CASE msg'[r] = msg[r] /\ said'[r] = said[r] \cup {"instantiated", "contract", "transfer error"}
        <5>1. Committed(r, "instantiate") # {}
          BY <2>2, <3>1, GoodAnswer
        <5>2. Committed(r, "store") # {}
          <6>1. 2 \in DOMAIN Plan(r) /\ Plan(r)[2] = msg[r].type /\ Plan(r)[1] = "store"
            BY <1>1, <3>1, PlanPlaces
          <6> QED BY <6>1, 1 \in 1..(2 - 1), PlaceInPlan
        <5>3. \A i \in DOMAIN Plan(r) :
                Plan(r)[i] # "transfer" \/ i = 1 => Committed(r, Plan(r)[i]) # {}
          BY <1>1, <5>1, <5>2
        <5> QED BY <1>1, <4>2, <5>3, LastStep
      <4> QED BY <3>1, <4>1, <4>2
    <3> QED BY <1>2, <3>3, <3>4, <3>5 DEF Local
  <2> QED BY <1>7, <2>1, <2>2 DEF DeployInstantiated
<1>8. CASE DeployTransferred(r)
  <2>1. /\ pc[r] = "answered" /\ msg[r].type = "transfer" /\ codeId'[r] = codeId[r]
        /\ address'[r] = address[r] /\ pc'[r] = "done" /\ exit'[r] = "ok" /\ msg'[r] = msg[r]
        /\ said'[r] = said[r] \cup (IF blocks[at[r]].ok THEN {"transferred"} ELSE {"transfer error"})
    BY <1>8 DEF DeployTransferred
  <2>2. Progressing(r)'
    <3>1. "transferred" \in said'[r] => "transferred" \in said[r] \/ Committed(r, "transfer") # {}
      BY <2>1, GoodAnswer
    <3>2. Committed(r, "store") # {} /\ Committed(r, "instantiate") # {}
      <4>1. /\ 3 \in DOMAIN Plan(r) /\ Plan(r)[3] = msg[r].type
            /\ Plan(r)[1] = "store" /\ Plan(r)[2] = "instantiate"
        BY <1>1, <2>1, PlanPlaces
      <4> QED BY <4>1, 1 \in 1..(3 - 1), 2 \in 1..(3 - 1), PlaceInPlan
    <3>3. \A i \in DOMAIN Plan(r) :
            Plan(r)[i] # "transfer" \/ i = 1 => Committed(r, Plan(r)[i]) # {}
      BY <1>1, <3>2
    <3> QED BY <1>1, <2>1, <3>1, <3>3, LastStep
  <2>3. Placed(r)'
    BY <1>1, <1>3, <2>1 DEF Local, Placed, Fresh, InLibrary
  <2>4. Purposeful(r)'
    BY <1>0, <1>3, <2>1, QuietOperators DEF Quiet, Local, Purposeful, Instantiating
  <2> QED BY <1>2, <2>2, <2>3, <2>4 DEF Local
<1> QED BY <1>4, <1>5, <1>6, <1>7, <1>8 DEF DeployStep

\* A sender goes on or ends, and its message stands.
LEMMA MessageStands ==
    ASSUME NEW r \in Runs, Local(r), Quiet, UNCHANGED lookupVars, Plan(r) # <<>>,
           pc'[r] \notin Fresh \cup {"scan", "list"}, exit'[r] = "ok" => pc'[r] = "done",
           pc'[r] = "done" \/ pc[r] \notin {"start", "done"},
           msg'[r] = msg[r], codeId'[r] = codeId[r],
           "fallback" \in said'[r] <=> "fallback" \in said[r],
           "contract" \in said'[r] => Owns(r, address'[r])
    PROVE  Placed(r)' /\ Purposeful(r)'
<1>1. /\ Plan(r)' = Plan(r) /\ (Deploys(r))' = Deploys(r)
      /\ UNCHANGED <<codes, contracts, prog, lib, scan>>
  BY QuietOperators DEF Quiet, env, lookupVars
<1>2. Placed(r)'
  BY <1>1 DEF Local, Placed, Fresh
<1>3. Purposeful(r)'
  BY <1>1 DEF Local, Purposeful, Instantiating, Owns
<1> QED BY <1>2, <1>3

\* A sender has connected, or gave up.
LEMMA SenderBegins ==
    ASSUME NEW r \in Runs, Local(r), Quiet, UNCHANGED lookupVars,
           prog[r] \in {"deploy_check_balance", "instantiate_cw20"},
           pc[r] = "start", msg'[r] = msg[r],
           \/ pc'[r] = "connected" /\ said'[r] = said[r] /\ exit'[r] = exit[r]
           \/ pc'[r] = "done" /\ exit'[r] = "failed" /\ said'[r] \subseteq {"usage"} \cup said[r]
    PROVE  Local(r)'
<1>1. /\ Plan(r)' = Plan(r) /\ (Deploys(r))' = Deploys(r) /\ Plan(r) # <<>>
      /\ UNCHANGED <<codes, contracts, prog, lib, scan>>
  <2>1. Plan(r) # <<>>
    BY Plans
  <2> QED BY <2>1, QuietOperators DEF Quiet, env, lookupVars
<1>2. Placed(r)'
  BY <1>1 DEF Local, Placed, Fresh, InLibrary
<1>3. Purposeful(r)'
  BY <1>1 DEF Local, Placed, Purposeful, Fresh, Instantiating
<1>4. Progressing(r)'
  BY LastStep DEF Local, Progressing, Placed
<1>5. TruthfulTx(r)' /\ Searching(r)'
  BY SenderReadsNothing
<1> QED BY <1>2, <1>3, <1>4, <1>5 DEF Local

LEMMA InstantiateStepKeeps ==
    ASSUME IInv, Traced, NEW r \in Runs, Local(r), InstantiateStep(r), UNCHANGED <<env, lookupVars>>
    PROVE  Local(r)'
<1>1. prog[r] = "instantiate_cw20" /\ UNCHANGED lookupVars /\ Quiet
  BY DEF InstantiateStep, InstantiateBegin, Begin, InstantiateCode, InstantiateAnswered,
         InstantiateTransferred, Quiet, chainVars
<1>2. TruthfulTx(r)' /\ Searching(r)'
  BY <1>1, SenderReadsNothing
<1>3. /\ UNCHANGED <<codes, contracts, prog, lib, scan>> /\ Plan(r)' = Plan(r) /\ (Deploys(r))' = Deploys(r)
      /\ Plan(r) # <<>> /\ DOMAIN Plan(r) = {1, 2}
      /\ Plan(r)[1] = "instantiate" /\ Plan(r)[2] = "transfer"
  BY <1>1, QuietOperators, Plans, PlanPlaces DEF Quiet, env, lookupVars
<1>4. /\ pc \in [Runs -> Locations] /\ msg \in [Runs -> Message]
      /\ codeId \in [Runs -> Nat] /\ address \in [Runs -> Nat]
      /\ said \in [Runs -> SUBSET Lines] /\ exit \in [Runs -> {"running", "ok", "failed", "killed"}]
  BY DEF IInv, Typed, TypeOK, ClientTypeOK
<1>5. CASE InstantiateBegin(r)
  <2>1. /\ pc[r] = "start" /\ msg'[r] = msg[r]
        /\ \/ pc'[r] = "connected" /\ said'[r] = said[r] /\ exit'[r] = exit[r]
           \/ pc'[r] = "done" /\ exit'[r] = "failed" /\ said'[r] \subseteq {"usage"} \cup said[r]
    BY <1>4, <1>5 DEF InstantiateBegin, Begin, Connect, Goto, Finish, Say
  <2> QED BY <1>1, <2>1, SenderBegins
<1>6. CASE InstantiateCode(r)
  <2> DEFINE m == InstantiateMsg(codeId[r], "cw20-base")
  <2>1. m.type = "instantiate" /\ m.ref = codeId[r]
    BY DEF InstantiateMsg
  <2> HIDE DEF m
  <2>2. Send(r, m) /\ pc[r] = "connected" /\ UNCHANGED <<codeId, address, said, exit>>
    BY <1>6 DEF InstantiateCode, m
  <2>3. pc'[r] = "simulate" /\ msg'[r] = m
    BY <1>4, <2>2 DEF Send, Goto
  <2>4. Placed(r)'
    BY <1>1, <1>3, <2>2, <2>3 DEF Local, Placed, Fresh, InLibrary
  <2>5. Purposeful(r)'
    BY <1>1, <1>3, <2>1, <2>2, <2>3 DEF Local, Purposeful, Instantiating, Owns, Deploys
  <2>6. Progressing(r)'
    <3>1. exit'[r] # "ok" /\ "transferred" \notin said'[r] /\ pc[r] \in Fresh
      BY <2>2 DEF Local, Placed, Fresh
    <3> QED BY <1>1, <1>3, <2>1, <2>3, <3>1, FirstMessage
  <2> QED BY <1>2, <2>4, <2>5, <2>6 DEF Local
<1>7. CASE InstantiateAnswered(r)
  <2>1. CASE Finish(r, "failed", {}) /\ UNCHANGED <<msg, address, codeId>>
    <3>1. pc'[r] = "done" /\ exit'[r] = "failed" /\ said'[r] = said[r]
      BY <1>4, <2>1 DEF Finish, Goto, Say
    <3>2. "contract" \in said'[r] => Owns(r, address'[r])
      BY <1>3, <2>1, <3>1 DEF Local, Purposeful
    <3>3. Placed(r)' /\ Purposeful(r)'
      BY <1>1, <1>3, <2>1, <3>1, <3>2, MessageStands DEF Fresh
    <3>4. Progressing(r)'
      BY <1>1, <2>1, <3>1, LastStep
    <3> QED BY <1>2, <3>3, <3>4 DEF Local
  <2>2. CASE /\ blocks[at[r]].ok /\ LoggedAddress(r) # 0
             /\ TryTransfer(r, LoggedAddress(r)) /\ UNCHANGED codeId
    <3> DEFINE m == TransferMsg(LoggedAddress(r), 1)
    <3>1. m.type = "transfer" /\ m.ref = LoggedAddress(r) /\ m.amount = 1
      BY DEF TransferMsg
    <3> HIDE DEF m
    <3>2. pc[r] = "answered" /\ msg[r].type = "instantiate" /\ blocks[at[r]].ok
      BY <1>7, <2>2 DEF InstantiateAnswered
    <3>3. Owns(r, LoggedAddress(r))
      BY <2>2, <3>2, GoodAnswer DEF LoggedAddress
    <3>4. address'[r] = LoggedAddress(r) /\ codeId'[r] = codeId[r]
      BY <1>4, <2>2 DEF TryTransfer
    <3>5. CASE Say(r, {"instantiated", "contract"}) /\ Send(r, m) /\ UNCHANGED exit
      <4>1. /\ pc'[r] = "simulate" /\ msg'[r] = m /\ exit'[r] = exit[r]
            /\ said'[r] = said[r] \cup {"instantiated", "contract"}
        BY <1>4, <3>5 DEF Say, Send, Goto
      <4>2. Placed(r)'
        BY <1>1, <1>3, <3>2, <4>1 DEF Local, Placed, Fresh, InLibrary
      <4>3. Purposeful(r)'
        BY <1>1, <1>3, <3>1, <3>3, <3>4, <4>1 DEF Local, Purposeful, Instantiating, Owns, Deploys
      <4>4. Progressing(r)'
        <5>1. exit'[r] # "ok" /\ ("transferred" \in said'[r] => "transferred" \in said[r])
          BY <3>2, <4>1 DEF Local, Placed
        <5>2. Plan(r)[1] = msg[r].type /\ 1 + 1 \in DOMAIN Plan(r) /\ msg'[r].type = Plan(r)[1 + 1]
          BY <1>3, <3>1, <3>2, <4>1
        <5> QED BY <1>1, <3>2, <5>1, <5>2, 1 \in Nat \ {0}, NextMessage
      <4> QED BY <1>2, <4>2, <4>3, <4>4 DEF Local
    <3>6. CASE Finish(r, "ok", {"instantiated", "contract", "transfer error"}) /\ UNCHANGED msg
      <4>1. /\ pc'[r] = "done" /\ msg'[r] = msg[r] /\ exit'[r] = "ok"
            /\ said'[r] = said[r] \cup {"instantiated", "contract", "transfer error"}
        BY <1>4, <3>6 DEF Finish, Say, Goto
      <4>2. Placed(r)' /\ Purposeful(r)'
        BY <1>1, <1>3, <3>3, <3>4, <4>1, MessageStands DEF Fresh
      <4>3. Progressing(r)'
        <5>1. Committed(r, "instantiate") # {}
          BY <3>2, GoodAnswer
        <5>2. \A i \in DOMAIN Plan(r) :
                Plan(r)[i] # "transfer" \/ i = 1 => Committed(r, Plan(r)[i]) # {}
          BY <1>3, <5>1
        <5> QED BY <1>1, <4>1, <5>2, LastStep
      <4> QED BY <1>2, <4>2, <4>3 DEF Local
    <3> QED BY <2>2, <3>5, <3>6 DEF TryTransfer, m
  <2> QED BY <1>7, <2>1, <2>2 DEF InstantiateAnswered
<1>8. CASE InstantiateTransferred(r)
  <2>1. /\ pc[r] = "answered" /\ msg[r].type = "transfer" /\ codeId'[r] = codeId[r]
        /\ address'[r] = address[r] /\ pc'[r] = "done" /\ exit'[r] = "ok" /\ msg'[r] = msg[r]
        /\ said'[r] = said[r] \cup (IF blocks[at[r]].ok THEN {"transferred"} ELSE {"transfer error"})
    BY <1>4, <1>8 DEF InstantiateTransferred, Finish, Goto, Say
  <2>2. "contract" \in said'[r] => Owns(r, address'[r])
    BY <1>3, <2>1 DEF Local, Purposeful
  <2>3. Placed(r)' /\ Purposeful(r)'
    BY <1>1, <1>3, <2>1, <2>2, MessageStands DEF Fresh
  <2>4. Progressing(r)'
    <3>1. "transferred" \in said'[r] => "transferred" \in said[r] \/ Committed(r, "transfer") # {}
      BY <2>1, GoodAnswer
    <3>2. Committed(r, "instantiate") # {}
      <4>1. 2 \in DOMAIN Plan(r) /\ Plan(r)[2] = msg[r].type /\ Plan(r)[1] = "instantiate"
        BY <1>3, <2>1
      <4> QED BY <4>1, 1 \in 1..(2 - 1), PlaceInPlan
    <3>3. \A i \in DOMAIN Plan(r) :
            Plan(r)[i] # "transfer" \/ i = 1 => Committed(r, Plan(r)[i]) # {}
      BY <1>3, <3>2
    <3> QED BY <1>1, <2>1, <3>1, <3>3, LastStep
  <2> QED BY <1>2, <2>3, <2>4 DEF Local
<1> QED BY <1>5, <1>6, <1>7, <1>8 DEF InstantiateStep

LEMMA CheckBalanceStepKeeps ==
    ASSUME IInv, Traced, NEW r \in Runs, Local(r), CheckBalanceStep(r), UNCHANGED <<env, lookupVars>>
    PROVE  Local(r)'
<1>1. prog[r] = "deploy_check_balance" /\ UNCHANGED lookupVars /\ Quiet
  BY DEF CheckBalanceStep, CheckBalanceBegin, Begin, CheckBalanceStoreCode, CheckBalanceStored,
         CheckBalanceInstantiated, Quiet, chainVars
<1>2. TruthfulTx(r)' /\ Searching(r)'
  BY <1>1, SenderReadsNothing
<1>3. /\ UNCHANGED <<codes, contracts, prog, lib, scan>> /\ Plan(r)' = Plan(r) /\ (Deploys(r))' = Deploys(r)
      /\ Plan(r) # <<>> /\ DOMAIN Plan(r) = {1, 2}
      /\ Plan(r)[1] = "store" /\ Plan(r)[2] = "instantiate"
  BY <1>1, QuietOperators, Plans, PlanPlaces DEF Quiet, env, lookupVars
<1>4. /\ pc \in [Runs -> Locations] /\ msg \in [Runs -> Message]
      /\ codeId \in [Runs -> Nat] /\ address \in [Runs -> Nat]
      /\ said \in [Runs -> SUBSET Lines] /\ exit \in [Runs -> {"running", "ok", "failed", "killed"}]
  BY DEF IInv, Typed, TypeOK, ClientTypeOK
<1>5. CASE CheckBalanceBegin(r)
  <2>1. /\ pc[r] = "start" /\ msg'[r] = msg[r]
        /\ \/ pc'[r] = "connected" /\ said'[r] = said[r] /\ exit'[r] = exit[r]
           \/ pc'[r] = "done" /\ exit'[r] = "failed" /\ said'[r] \subseteq {"usage"} \cup said[r]
    BY <1>4, <1>5 DEF CheckBalanceBegin, Begin, Connect, Goto, Finish, Say
  <2> QED BY <1>1, <2>1, SenderBegins
\* Giving up with the message as it is.
<1>6. ASSUME NEW lines \in SUBSET {"usage"}, Finish(r, "failed", lines), UNCHANGED <<msg, codeId, address>>
      PROVE  Local(r)'
  <2>1. pc'[r] = "done" /\ exit'[r] = "failed" /\ said'[r] = said[r] \cup lines
    BY <1>4, <1>6 DEF Finish, Goto, Say
  <2>2. "contract" \in said'[r] => Owns(r, address'[r])
    BY <1>3, <1>6, <2>1 DEF Local, Purposeful
  <2>3. Placed(r)' /\ Purposeful(r)'
    BY <1>1, <1>3, <1>6, <2>1, <2>2, MessageStands DEF Fresh
  <2>4. Progressing(r)'
    BY <1>1, <1>6, <2>1, LastStep
  <2> QED BY <1>2, <2>3, <2>4 DEF Local
<1>7. CASE CheckBalanceStoreCode(r)
  <2> DEFINE m == StoreMsg("check_balance")
  <2>1. m.type = "store"
    BY DEF StoreMsg
  <2> HIDE DEF m
  <2>2. CASE Send(r, m) /\ pc[r] = "connected" /\ UNCHANGED <<codeId, address, said, exit>>
    <3>1. pc'[r] = "simulate" /\ msg'[r] = m
      BY <1>4, <2>2 DEF Send, Goto
    <3>2. Placed(r)'
      BY <1>1, <1>3, <2>2, <3>1 DEF Local, Placed, Fresh, InLibrary
    <3>3. Purposeful(r)'
      BY <1>3, <2>1, <2>2, <3>1 DEF Local, Purposeful, Instantiating, Owns
    <3>4. Progressing(r)'
      <4>1. exit'[r] # "ok" /\ "transferred" \notin said'[r] /\ pc[r] \in Fresh
        BY <2>2 DEF Local, Placed, Fresh
      <4> QED BY <1>1, <1>3, <2>1, <3>1, <4>1, FirstMessage
    <3> QED BY <1>2, <3>2, <3>3, <3>4 DEF Local
  <2> QED BY <1>6, <1>7, <2>2 DEF CheckBalanceStoreCode, m
<1>8. CASE CheckBalanceStored(r)
  <2> DEFINE id == blocks[at[r]].made
             m == InstantiateMsg(id, "empty")
  <2>1. m.type = "instantiate" /\ m.ref = id
    BY DEF InstantiateMsg
  <2> HIDE DEF m
  <2>2. pc[r] = "answered" /\ msg[r].type = "store"
    BY <1>8 DEF CheckBalanceStored
  <2>3. CASE /\ blocks[at[r]].ok /\ codeId' = [codeId EXCEPT ![r] = id] /\ Say(r, {"code"})
             /\ Send(r, m) /\ UNCHANGED <<exit, address>>
    <3>1. /\ pc'[r] = "simulate" /\ msg'[r] = m /\ codeId'[r] = id
          /\ said'[r] = said[r] \cup {"code"}
      BY <1>4, <2>3 DEF Send, Say, Goto
    <3>2. id \in DOMAIN codes /\ codes[id].by = r
      BY <2>2, <2>3, GoodAnswer
    <3> HIDE DEF id
    <3>3. Placed(r)'
      BY <1>1, <1>3, <2>2, <2>3, <3>1 DEF Local, Placed, Fresh, InLibrary
    <3>4. Purposeful(r)'
      BY <1>3, <2>1, <2>3, <3>1, <3>2 DEF Local, Purposeful, Instantiating, Owns
    <3>5. Progressing(r)'
      <4>1. exit'[r] # "ok" /\ ("transferred" \in said'[r] => "transferred" \in said[r])
        BY <2>2, <2>3, <3>1 DEF Local, Placed
      <4>2. Plan(r)[1] = msg[r].type /\ 1 + 1 \in DOMAIN Plan(r) /\ msg'[r].type = Plan(r)[1 + 1]
        BY <1>3, <2>1, <2>2, <3>1
      <4> QED BY <1>1, <2>2, <2>3, <4>1, <4>2, 1 \in Nat \ {0}, NextMessage
    <3> QED BY <1>2, <3>3, <3>4, <3>5 DEF Local
  <2> QED BY <1>6, <1>8, <2>3 DEF CheckBalanceStored, m
<1>9. CASE CheckBalanceInstantiated(r)
  <2> DEFINE a == blocks[at[r]].made
  <2>1. pc[r] = "answered" /\ msg[r].type = "instantiate"
    BY <1>9 DEF CheckBalanceInstantiated
  <2>2. CASE /\ blocks[at[r]].ok /\ address' = [address EXCEPT ![r] = a]
             /\ Finish(r, "ok", {"contract"}) /\ UNCHANGED <<msg, codeId>>
    <3>1. /\ pc'[r] = "done" /\ exit'[r] = "ok" /\ address'[r] = a
          /\ said'[r] = said[r] \cup {"contract"}
      BY <1>4, <2>2 DEF Finish, Goto, Say
    <3>2. Owns(r, a) /\ Committed(r, "instantiate") # {}
      BY <2>1, <2>2, GoodAnswer
    <3> HIDE DEF a
    <3>3. Placed(r)' /\ Purposeful(r)'
      BY <1>1, <1>3, <2>2, <3>1, <3>2, MessageStands DEF Fresh
    <3>4. Progressing(r)'
      <4>1. Committed(r, "store") # {}
        <5>1. 2 \in DOMAIN Plan(r) /\ Plan(r)[2] = msg[r].type /\ Plan(r)[1] = "store"
          BY <1>3, <2>1
        <5> QED BY <5>1, 1 \in 1..(2 - 1), PlaceInPlan
      <4>2. \A i \in DOMAIN Plan(r) :
              Plan(r)[i] # "transfer" \/ i = 1 => Committed(r, Plan(r)[i]) # {}
        BY <1>3, <3>2, <4>1
      <4> QED BY <1>1, <2>2, <3>1, <4>2, LastStep
    <3> QED BY <1>2, <3>3, <3>4 DEF Local
  <2> QED BY <1>6, <1>9, <2>2 DEF CheckBalanceInstantiated
<1> QED BY <1>5, <1>7, <1>8, <1>9 DEF CheckBalanceStep

LEMMA TransferStepKeeps ==
    ASSUME IInv, Traced, NEW r \in Runs, Local(r), TransferStep(r), UNCHANGED <<env, lookupVars>>
    PROVE  Local(r)'
<1>1. prog[r] = "transfer_cw20" /\ UNCHANGED lookupVars /\ Quiet
  BY DEF TransferStep, TransferBegin, Begin, TransferSend, TransferAnswered, Quiet, chainVars
<1>2. TruthfulTx(r)' /\ Searching(r)'
  BY <1>1, SenderReadsNothing
<1>3. /\ UNCHANGED <<codes, contracts, prog, lib, scan>> /\ Plan(r)' = Plan(r) /\ (Deploys(r))' = Deploys(r)
      /\ Plan(r) # <<>> /\ DOMAIN Plan(r) = {1} /\ Plan(r)[1] = "transfer" /\ ~Deploys(r)
  BY <1>1, QuietOperators, Plans, PlanPlaces DEF Quiet, env, lookupVars, Deploys
<1>4. /\ pc \in [Runs -> Locations] /\ msg \in [Runs -> Message]
      /\ codeId \in [Runs -> Nat] /\ address \in [Runs -> Nat]
      /\ said \in [Runs -> SUBSET Lines] /\ exit \in [Runs -> {"running", "ok", "failed", "killed"}]
  BY DEF IInv, Typed, TypeOK, ClientTypeOK
<1>5. CASE TransferBegin(r)
  <2> PICK words \in 0..3, first \in {0} \cup DOMAIN contracts, amount \in TransferArgs :
        /\ address' = [address EXCEPT ![r] = IF first = 0 THEN DefaultContract ELSE first]
        /\ msg' = [msg EXCEPT ![r] = TransferMsg(address'[r], amount)]
        /\ \/ /\ pc[r] = "start" /\ Finish(r, "failed", {"usage"}) /\ UNCHANGED registry
           \/ Begin(r, "transfer_cw20", {"transfer"}, "connected")
    BY <1>5 DEF TransferBegin
  <2>1. msg'[r].type = "transfer" /\ msg'[r].amount > 0
    <3>1. amount \in Nat \ {0}
      BY TransferAssumption
    <3>2. msg'[r] = TransferMsg(address'[r], amount)
      BY <1>4
    <3> QED BY <3>1, <3>2, MessageFields
  <2>2. /\ pc[r] = "start" /\ codeId'[r] = codeId[r]
        /\ \/ pc'[r] = "connected" /\ said'[r] = said[r] /\ exit'[r] = exit[r]
           \/ pc'[r] = "done" /\ exit'[r] = "failed" /\ said'[r] \subseteq {"usage"} \cup said[r]
    <3>1. codeId'[r] = codeId[r]
      BY <1>5 DEF TransferBegin
    <3> QED BY <1>4, <3>1 DEF Begin, Connect, Goto, Finish, Say
  <2>3. said[r] = {} /\ exit[r] # "ok" /\ pc[r] \in Fresh
    BY <2>2 DEF Local, Placed, Fresh
  <2>4. Placed(r)'
    BY <1>1, <1>3, <2>1, <2>2, <2>3 DEF Local, Placed, Fresh, InLibrary
  <2>5. Purposeful(r)'
    BY <1>1, <1>3, <2>1, <2>2, <2>3 DEF Local, Purposeful
  <2>6. Progressing(r)'
    BY <1>1, <1>3, <2>1, <2>2, <2>3, FirstMessage
  <2> QED BY <1>2, <2>4, <2>5, <2>6 DEF Local
\* The message stands from the beginning.
<1>6. ASSUME pc'[r] \notin Fresh \cup {"scan", "list"}, exit'[r] = "ok" => pc'[r] = "done",
             pc'[r] = "done" \/ pc[r] \notin {"start", "done"},
             msg'[r] = msg[r], codeId'[r] = codeId[r], address'[r] = address[r],
             said'[r] \subseteq said[r] \cup {"transferred"}, said[r] \subseteq said'[r],
             exit'[r] = "ok" \/ "transferred" \in said'[r] =>
                "transferred" \in said[r] \/ Committed(r, "transfer") # {}
      PROVE  Local(r)'
  <2>1. "contract" \in said'[r] => Owns(r, address'[r])
    BY <1>3, <1>6 DEF Local, Purposeful
  <2>2. "fallback" \in said'[r] <=> "fallback" \in said[r]
    BY <1>6
  <2>3. Placed(r)' /\ Purposeful(r)'
    BY <1>1, <1>3, <1>6, <2>1, <2>2, MessageStands
  <2>4. Progressing(r)'
    <3>1. exit'[r] = "ok" => Committed(r, "transfer") # {}
      BY <1>6 DEF Local, Progressing
    <3>2. exit'[r] = "ok" => \A i \in DOMAIN Plan(r) :
            Plan(r)[i] # "transfer" \/ i = 1 => Committed(r, Plan(r)[i]) # {}
      BY <1>3, <3>1
    <3> QED BY <1>1, <1>6, <3>2, LastStep
  <2> QED BY <1>2, <2>3, <2>4 DEF Local
<1>7. CASE TransferSend(r)
  <2>1. /\ pc[r] = "connected" /\ pc'[r] = "simulate" /\ exit'[r] = exit[r] /\ msg'[r] = msg[r]
        /\ codeId'[r] = codeId[r] /\ address'[r] = address[r] /\ said'[r] = said[r]
    BY <1>4, <1>7 DEF TransferSend, Goto
  <2>2. exit[r] # "ok"
    BY <2>1 DEF Local, Placed
  <2> QED BY <1>6, <2>1, <2>2 DEF Fresh
<1>8. CASE TransferAnswered(r)
  <2>1. /\ pc[r] = "answered" /\ pc'[r] = "done" /\ msg'[r] = msg[r]
        /\ codeId'[r] = codeId[r] /\ address'[r] = address[r]
        /\ \/ said'[r] = said[r] /\ exit'[r] = "failed"
           \/ /\ blocks[at[r]].ok
              /\ said'[r] = said[r] \cup {"transferred"}
    BY <1>4, <1>8 DEF TransferAnswered, Finish, Goto, Say
  <2>2. msg[r].type = "transfer"
    <3>1. msg[r].type # "none"
      BY <1>1, <2>1 DEF Local, Placed
    <3> QED BY <1>3, <3>1 DEF Local, Progressing
  <2>3. blocks[at[r]].ok => Committed(r, "transfer") # {}
    BY <2>1, <2>2, GoodAnswer
  <2> QED BY <1>6, <2>1, <2>3 DEF Fresh
<1> QED BY <1>5, <1>7, <1>8 DEF TransferStep

LEMMA LibraryStepKeeps ==
    ASSUME IInv, Traced, NEW r \in Runs, Local(r), LibraryStep(r) \/ Kill(r), UNCHANGED <<env, lookupVars>>
    PROVE  Local(r)'
<1>1. UNCHANGED lookupVars /\ Quiet
  BY DEF LibraryStep, Kill, Simulate, Estimate, Sign, Broadcast, Poll, Timeout, Quiet, chainVars
<1>2. /\ pc \in [Runs -> Locations] /\ msg \in [Runs -> Message]
      /\ codeId \in [Runs -> Nat] /\ address \in [Runs -> Nat]
      /\ said \in [Runs -> SUBSET Lines] /\ exit \in [Runs -> {"running", "ok", "failed", "killed"}]
  BY DEF IInv, Typed, TypeOK, ClientTypeOK
<1>3. /\ UNCHANGED <<codes, contracts, blocks, prog, lib, faults>> /\ Plan(r)' = Plan(r)
      /\ UNCHANGED <<scan, limit, found, before>>
  BY <1>1, QuietOperators DEF Quiet, env, lookupVars
<1>4. CASE Kill(r)
  <2>1. /\ pc'[r] = "done" /\ exit'[r] = "killed" /\ said'[r] = said[r]
        /\ UNCHANGED <<msg, at, codeId, address>>
    BY <1>2, <1>4 DEF Kill, Finish, Goto, Say
  <2>2. Placed(r)'
    BY <1>3, <2>1 DEF Local, Placed, Fresh, InLibrary
  <2>3. Purposeful(r)'
    BY <1>1, <1>3, <2>1, QuietOperators DEF Local, Purposeful, Instantiating, Owns
  <2>4. Progressing(r)'
    BY <1>1, <2>1, LastStep
  <2>5. TruthfulTx(r)'
    BY <1>3, <2>1 DEF Local, TruthfulTx
  <2>6. Searching(r)'
    BY <1>1, <1>3, <2>1, QuietOperators DEF Local, Searching, Listed
  <2> QED BY <2>2, <2>3, <2>4, <2>5, <2>6 DEF Local
<1>5. CASE LibraryStep(r)
  <2>1. pc[r] \in InLibrary /\ UNCHANGED <<msg, codeId, address>>
    BY <1>5 DEF LibraryStep, Simulate, Estimate, Sign, Broadcast, Poll, Timeout, InLibrary
  <2>2. Plan(r) # <<>> /\ exit[r] # "ok"
    BY <2>1 DEF Local, Placed, InLibrary
  <2>3. prog[r] \notin {"find_latest_code", "get_code_from_tx"}
    BY <2>2, Plans
  <2>4. \/ pc'[r] \in InLibrary /\ said'[r] = said[r] /\ exit'[r] = exit[r]
        \/ Throw(r)
    BY <1>2, <1>5 DEF LibraryStep, Simulate, Estimate, Sign, Broadcast, Poll, Timeout, InLibrary, Goto
  <2>5. TruthfulTx(r)' /\ Searching(r)'
    BY <1>1, <2>3, SenderReadsNothing
  <2>6. CASE pc'[r] \in InLibrary /\ said'[r] = said[r] /\ exit'[r] = exit[r]
    <3>1. "contract" \in said'[r] => Owns(r, address'[r])
      BY <2>1, <2>2, <2>6 DEF Local, Purposeful
    <3>2. Placed(r)' /\ Purposeful(r)'
      BY <1>1, <2>1, <2>2, <2>6, <3>1, MessageStands DEF Fresh, InLibrary
    <3>3. Progressing(r)'
      BY <1>1, <2>1, <2>2, <2>6, LastStep
    <3> QED BY <2>5, <3>2, <3>3 DEF Local
  <2>7. CASE Throw(r)
    <3>1. /\ pc'[r] = "done"
          /\ \/ InTry(r) /\ exit'[r] = "ok" /\ said'[r] = said[r] \cup {"transfer error"}
             \/ exit'[r] = "failed" /\ said'[r] = said[r]
      <4>1. CASE InTry(r)
        BY <1>2, <2>7, <4>1 DEF Throw, Finish, Goto, Say
      <4>2. CASE ~InTry(r)
        BY <1>2, <2>7, <4>2 DEF Throw, Finish, Goto, Say
      <4> QED BY <4>1, <4>2
    <3>2. "contract" \in said'[r] => Owns(r, address'[r])
      <4>1. said'[r] = said[r] \cup {"transfer error"} \/ said'[r] = said[r]
        BY <3>1
      <4>2. said'[r] \subseteq said[r] \cup {"transfer error"}
        BY <4>1
      <4>3. "contract" \in said'[r] => "contract" \in said[r]
        BY <4>2
      <4> QED BY <2>1, <2>2, <4>3 DEF Local, Purposeful
    <3>3. Placed(r)' /\ Purposeful(r)'
      BY <1>1, <2>1, <2>2, <3>1, <3>2, MessageStands DEF Fresh
    <3>4. ASSUME InTry(r), NEW i \in DOMAIN Plan(r), Plan(r)[i] # "transfer" \/ i = 1
          PROVE  Committed(r, Plan(r)[i]) # {}
      <4>1. CASE prog[r] = "deploy_cw20"
        <5>1. /\ 3 \in DOMAIN Plan(r) /\ Plan(r)[3] = msg[r].type /\ i \in 1..(3 - 1)
          BY <3>4, <4>1, PlanPlaces DEF InTry
        <5> QED BY <5>1, PlaceInPlan
      <4>2. CASE prog[r] = "instantiate_cw20"
        <5>1. /\ 2 \in DOMAIN Plan(r) /\ Plan(r)[2] = msg[r].type /\ i \in 1..(2 - 1)
          BY <3>4, <4>2, PlanPlaces DEF InTry
        <5> QED BY <5>1, PlaceInPlan
      <4> QED BY <3>4, <4>1, <4>2 DEF InTry
    <3>5. Progressing(r)'
      BY <1>1, <2>1, <3>1, <3>4, LastStep
    <3> QED BY <2>5, <3>3, <3>5 DEF Local
  <2> QED BY <2>4, <2>6, <2>7
<1> QED BY <1>4, <1>5

\* A lookup sends nothing.
LEMMA ReaderSendsNothing ==
    ASSUME NEW r \in Runs, Local(r), Quiet, Plan(r) = <<>>, msg'[r] = msg[r],
           pc'[r] \in {"connected", "scan", "list", "done"}, pc'[r] = "connected" => said'[r] = {},
           exit'[r] = "ok" => pc'[r] = "done",
           said'[r] \subseteq said[r] \cup (Lines \ {"fallback", "transferred"})
    PROVE  Placed(r)' /\ Purposeful(r)' /\ Progressing(r)'
<1>1. /\ Plan(r)' = Plan(r) /\ prog' = prog /\ lib' = lib /\ (Deploys(r))' = Deploys(r)
      /\ Ours(r)' = Ours(r) /\ Committed(r, "transfer")' = Committed(r, "transfer")
  BY QuietOperators DEF Quiet, env
<1>2. prog[r] # "transfer_cw20" /\ ~Deploys(r)
  BY Plans DEF Deploys
<1>3. msg[r].type = "none"
  BY DEF Local, Placed
<1>4. "fallback" \in said'[r] => "fallback" \in said[r]
  OBVIOUS
<1>5. "transferred" \in said'[r] => "transferred" \in said[r]
  OBVIOUS
<1>6. Placed(r)'
  BY <1>1, <1>2, <1>3 DEF Placed, Fresh, InLibrary
<1>7. Purposeful(r)'
  BY <1>1, <1>2, <1>3, <1>4 DEF Local, Purposeful
<1>8. Progressing(r)'
  BY <1>1, <1>3, <1>5 DEF Local, Progressing
<1> QED BY <1>6, <1>7, <1>8

\* A lookup has connected, or gave up.
LEMMA ReaderBegins ==
    ASSUME IInv, NEW r \in Runs, Local(r), NEW p, NEW next \in {"connected", "scan"},
           Plan(r) = <<>>, Quiet, msg' = msg, Begin(r, p, {}, next)
    PROVE  /\ Placed(r)' /\ Purposeful(r)' /\ Progressing(r)'
           /\ said'[r] \subseteq {"usage"} /\ exit'[r] # "ok"
<1>1. pc[r] = "start" /\ said[r] = {} /\ exit[r] # "ok"
  BY DEF Begin, Local, Placed, Fresh
<1>2. \/ pc'[r] = next /\ said'[r] = said[r] /\ exit'[r] = exit[r]
      \/ /\ pc'[r] = "done" /\ exit'[r] = "failed"
         /\ said'[r] = said[r] \cup {} \/ said'[r] = said[r] \cup {"usage"}
  BY DEF Begin, Connect, Finish, Goto, Say, IInv, Typed, TypeOK, ClientTypeOK
<1>3. said'[r] \subseteq {"usage"}
  BY <1>1, <1>2
<1>4. {"usage"} \subseteq Lines \ {"fallback", "transferred"}
  BY LineNames
<1>5. said'[r] \subseteq said[r] \cup (Lines \ {"fallback", "transferred"})
  BY <1>3, <1>4
<1> QED BY <1>1, <1>2, <1>3, <1>5, ReaderSendsNothing

LEMMA FindBeginKeeps ==
    ASSUME IInv, NEW r \in Runs, Local(r), FindBegin(r), UNCHANGED env
    PROVE  Local(r)'
<1>1. prog[r] = "find_latest_code" /\ pc[r] = "start" /\ Quiet /\ msg' = msg /\ Plan(r) = <<>>
  BY Plans DEF FindBegin, Begin, Quiet, chainVars
<1>2. Placed(r)' /\ Purposeful(r)' /\ Progressing(r)' /\ exit'[r] # "ok"
  BY <1>1, ReaderBegins DEF FindBegin
<1>3. TruthfulTx(r)'
  BY <1>1 DEF TruthfulTx, Quiet, env
<1>4. Searching(r)'
  <2>1. before'[r] = OurCodes /\ scan' = scan /\ found' = found /\ OurCodes' = OurCodes
        /\ prog' = prog /\ lib' = lib /\ faults' = faults
    BY <1>1, QuietOperators DEF FindBegin, IInv, Typed, TypeOK, LookupTypeOK, Quiet, env
  <2>2. scan[r] = 1 /\ OurCodes \subseteq Nat \ {0}
    BY <1>1 DEF Local, Placed, OurCodes, IInv, Typed, TypeOK, ChainTypeOK
  <2>3. \A c \in OurCodes : ~(c < 1)
    BY <2>2
  <2>4. Listed(r)' = Listed(r)
    BY <2>1 DEF Listed
  <2>5. Searching(r)
    BY DEF Local
  <2> QED BY <1>2, <2>1, <2>2, <2>3, <2>4, <2>5 DEF Searching
<1> QED BY <1>2, <1>3, <1>4 DEF Local

LEMMA FindNextKeeps ==
    ASSUME IInv, NEW r \in Runs, Local(r), FindNext(r), UNCHANGED env
    PROVE  Local(r)'
<1>1. prog[r] = "find_latest_code" /\ pc[r] = "scan" /\ Quiet /\ Plan(r) = <<>>
      /\ UNCHANGED <<pc, msg, at, codeId, address, said, exit, limit, before>>
  BY Plans DEF FindNext, Quiet, chainVars, clientVars
<1>2. Placed(r)' /\ Purposeful(r)' /\ Progressing(r)'
  BY <1>1, ReaderSendsNothing DEF Local, Placed
<1>3. TruthfulTx(r)'
  BY <1>1 DEF TruthfulTx, Quiet, env
<1>4. Searching(r)'
  <2> DEFINE s == scan[r]
             f == found[r]
  <2>1. /\ OurCodes' = OurCodes /\ UNCHANGED <<prog, lib, faults>>
        /\ s \in Nat /\ f \in Seq(Nat) /\ before[r] \subseteq Nat
        /\ scan'[r] = s + 1
    BY <1>1, QuietOperators DEF FindNext, IInv, Typed, TypeOK, LookupTypeOK, Quiet, env
  <2>2. exit'[r] # "ok"
    BY <1>1 DEF Local, Placed
  <2>3. CASE "wasm" \in lib /\ s \in OurCodes /\ found'[r] = Append(f, s)
    <3>1. Len(f) \in Nat /\ DOMAIN f = 1..Len(f)
      BY <2>1
    <3>2. /\ DOMAIN found'[r] = 1..(Len(f) + 1) /\ found'[r][Len(f) + 1] = s
          /\ \A i \in 1..Len(f) : found'[r][i] = f[i] /\ f[i] \in Nat
      BY <2>1, <2>3, <3>1
    <3>3. Listed(r)' = Listed(r) \cup {s}
      <4>1. Listed(r)' = {found'[r][i] : i \in 1..(Len(f) + 1)}
        BY <3>2 DEF Listed
      <4>2. Listed(r) = {f[i] : i \in 1..Len(f)}
        BY <3>1 DEF Listed
      <4> HIDE DEF f
      <4> QED BY <3>1, <3>2, <4>1, <4>2
    <3>4. \A i \in DOMAIN f : f[i] < s
      BY DEF Local, Searching
    <3>5. \A i, j \in DOMAIN f : i <= j => f[i] <= f[j]
      BY DEF Local, Searching
    <3>6. \A i \in DOMAIN found'[r] : found'[r][i] < s + 1
      <4> SUFFICES ASSUME NEW i \in 1..(Len(f) + 1) PROVE found'[r][i] < s + 1
        BY <3>2
      <4>1. CASE i \in 1..Len(f)
        <5>1. found'[r][i] = f[i] /\ f[i] < s /\ f[i] \in Nat
          BY <3>1, <3>2, <3>4, <4>1
        <5> QED BY <2>1, <5>1
      <4>2. CASE i = Len(f) + 1
        BY <2>1, <3>2, <4>2
      <4> QED BY <3>1, <4>1, <4>2
    <3>7. \A i, j \in DOMAIN found'[r] : i <= j => found'[r][i] <= found'[r][j]
      <4> SUFFICES ASSUME NEW i \in 1..(Len(f) + 1), NEW j \in 1..(Len(f) + 1), i <= j
                   PROVE  found'[r][i] <= found'[r][j]
        BY <3>2
      <4>1. CASE j \in 1..Len(f)
        <5>1. i \in 1..Len(f)
          BY <3>1, <4>1
        <5> QED BY <3>1, <3>2, <3>5, <4>1, <5>1
      <4>2. CASE i \in 1..Len(f) /\ j = Len(f) + 1
        <5>1. found'[r][i] = f[i] /\ found'[r][j] = s /\ f[i] < s /\ f[i] \in Nat
          BY <3>1, <3>2, <3>4, <4>2
        <5> QED BY <2>1, <5>1
      <4>3. CASE i = Len(f) + 1 /\ j = Len(f) + 1
        BY <2>1, <3>2, <4>3
      <4> QED BY <3>1, <4>1, <4>2, <4>3
    <3>8. "network" \notin faults => \A c \in before[r] : c < s + 1 => c \in Listed(r)'
      BY <1>1, <2>1, <2>3, <3>3 DEF Local, Searching
    <3>9. before[r] \subseteq OurCodes /\ Listed(r)' \subseteq OurCodes
      BY <2>3, <3>3 DEF Local, Searching
    <3> QED BY <1>1, <2>1, <2>2, <3>6, <3>7, <3>8, <3>9 DEF Searching
  <2>4. CASE /\ "wasm" \notin lib \/ s \notin OurCodes \/ "network" \in faults
             /\ found' = found
    <3>1. Listed(r)' = Listed(r)
      BY <2>4 DEF Listed
    <3>2. \A i \in DOMAIN f : f[i] < s + 1
      <4>1. \A i \in DOMAIN f : f[i] < s /\ f[i] \in Nat
        BY <2>1 DEF Local, Searching
      <4> QED BY <2>1, <4>1
    <3>3. "wasm" \in lib /\ "network" \notin faults => \A c \in before[r] : c < s + 1 => c \in Listed(r)
      BY <1>1, <2>1, <2>4 DEF Local, Searching
    <3> QED BY <1>1, <2>1, <2>2, <2>4, <3>1, <3>2, <3>3 DEF Local, Searching
  <2>5. found[r] = f /\ scan[r] = s /\ found \in [Runs -> Seq(Nat)]
    BY DEF IInv, Typed, TypeOK, LookupTypeOK
  <2> QED BY <2>3, <2>4, <2>5 DEF FindNext
<1> QED BY <1>2, <1>3, <1>4 DEF Local

LEMMA FindReportKeeps ==
    ASSUME IInv, NEW r \in Runs, Local(r), FindReport(r), UNCHANGED env
    PROVE  Local(r)'
<1>1. prog[r] = "find_latest_code" /\ pc[r] = "scan" /\ Quiet /\ Plan(r) = <<>> /\ msg' = msg
      /\ scan[r] > limit[r] /\ UNCHANGED <<scan, limit, found, before>>
  BY Plans DEF FindReport, Quiet, chainVars, lookupVars
<1>2. /\ pc'[r] = "done"
      /\ said'[r] = said[r] \cup {"codes"} \/ said'[r] = said[r] \cup {"no codes"}
      /\ found[r] # <<>> => codeId'[r] = Latest(found[r])
  BY DEF FindReport, Done, Finish, Goto, Say, IInv, Typed, TypeOK, ClientTypeOK
<1>3. Placed(r)' /\ Purposeful(r)' /\ Progressing(r)'
  <2>1. {"codes", "no codes"} \subseteq Lines \ {"fallback", "transferred"}
    BY LineNames
  <2>2. said'[r] \subseteq said[r] \cup (Lines \ {"fallback", "transferred"})
    BY <1>2, <2>1
  <2> QED BY <1>1, <1>2, <2>2, ReaderSendsNothing
<1>4. TruthfulTx(r)'
  BY <1>1 DEF TruthfulTx, Quiet, env
<1>5. Searching(r)'
  BY <1>1, <1>2, QuietOperators DEF Local, Searching, Listed, Quiet, env
<1> QED BY <1>3, <1>4, <1>5 DEF Local

LEMMA TxStepKeeps ==
    ASSUME IInv, Traced, NEW r \in Runs, Local(r), TxBegin(r) \/ TxRead(r) \/ TxList(r), UNCHANGED env
    PROVE  Local(r)'
<1>1. prog[r] = "get_code_from_tx" /\ Quiet /\ Plan(r) = <<>> /\ UNCHANGED <<msg, lookupVars>>
  BY Plans DEF TxBegin, TxRead, TxList, Begin, Quiet, chainVars
<1>2. Searching(r)'
  BY <1>1, QuietOperators DEF Local, Searching, Listed, Quiet, env, lookupVars
<1>3. /\ pc \in [Runs -> Locations] /\ codeId \in [Runs -> Nat] /\ address \in [Runs -> Nat]
      /\ said \in [Runs -> SUBSET Lines] /\ exit \in [Runs -> {"running", "ok", "failed", "killed"}]
      /\ UNCHANGED <<codes, contracts, blocks, prog, lib>>
  BY <1>1 DEF IInv, Typed, TypeOK, ClientTypeOK, Quiet, env
<1>4. CASE TxBegin(r)
  <2>1. Placed(r)' /\ Purposeful(r)' /\ Progressing(r)' /\ said'[r] \subseteq {"usage"}
    BY <1>1, <1>4, ReaderBegins DEF TxBegin
  <2>2. "code" \notin said'[r] /\ "contract" \notin said'[r] /\ "no code" \notin said'[r]
    BY <2>1
  <2>3. TruthfulTx(r)'
    BY <2>2 DEF TruthfulTx
  <2> QED BY <1>2, <2>1, <2>3 DEF Local
<1>5. ASSUME NEW lines \in SUBSET {"not found", "instances"},
             at' = at, codeId' = codeId, address' = address, pc'[r] = "done",
             said'[r] = said[r] \cup lines
      PROVE  Local(r)'
  <2>1. {"not found", "instances"} \subseteq Lines \ {"fallback", "transferred"}
    BY LineNames
  <2>2. said'[r] \subseteq said[r] \cup (Lines \ {"fallback", "transferred"})
    BY <1>5, <2>1
  <2>3. Placed(r)' /\ Purposeful(r)' /\ Progressing(r)'
    BY <1>1, <1>5, <2>2, ReaderSendsNothing
  <2>4. /\ "code" \in said'[r] <=> "code" \in said[r]
        /\ "contract" \in said'[r] <=> "contract" \in said[r]
        /\ "no code" \in said'[r] <=> "no code" \in said[r]
    BY <1>5
  <2>5. {"code", "contract", "no code"} \cap said'[r] = {"code", "contract", "no code"} \cap said[r]
    BY <2>4
  <2>6. TruthfulTx(r)'
    BY <1>3, <1>5, <2>4, <2>5 DEF Local, TruthfulTx
  <2> QED BY <1>2, <2>3, <2>6 DEF Local
<1>6. CASE TxRead(r)
  <2>1. pc[r] = "connected" /\ at' = at /\ said[r] = {}
    BY <1>6 DEF TxRead, Local, Placed, Fresh
  <2>2. CASE /\ Finish(r, "failed", {"not found"}) \/ Finish(r, "failed", {})
             /\ UNCHANGED <<codeId, address>>
    <3>1. /\ pc'[r] = "done"
          /\ said'[r] = said[r] \cup {"not found"} \/ said'[r] = said[r] \cup {}
      BY <1>3, <2>2 DEF Finish, Goto, Say
    <3> QED BY <1>5, <2>1, <2>2, <3>1
  <2>3. CASE at[r] \in DOMAIN blocks /\ blocks[at[r]].ok /\ TxReport(r)
    <3> DEFINE lines == { IF TxCodeId(r) # 0 THEN "code" ELSE "no code",
                          IF TxAddress(r) # 0 THEN "contract" ELSE "no contract" }
    <3>1. \/ Goto(r, "list") /\ Say(r, lines) /\ UNCHANGED exit
          \/ Finish(r, "ok", lines)
      BY <2>3 DEF TxReport, Done
    <3>2. codeId'[r] = TxCodeId(r) /\ address'[r] = TxAddress(r)
      BY <1>3, <2>3 DEF TxReport
    <3>3. lines \subseteq Lines \ {"fallback", "transferred"}
      BY LineNames
    <3>4. /\ "code" \in lines <=> TxCodeId(r) # 0
          /\ "no code" \in lines <=> TxCodeId(r) = 0
          /\ "contract" \in lines <=> TxAddress(r) # 0
      OBVIOUS
    <3> HIDE DEF lines
    <3>5. /\ said'[r] = lines
          /\ \/ pc'[r] = "list" /\ exit'[r] = exit[r]
             \/ pc'[r] = "done"
      BY <1>3, <2>1, <3>1 DEF Goto, Say, Finish
    <3>6. exit[r] # "ok"
      BY <2>1 DEF Local, Placed
    <3>7. Placed(r)' /\ Purposeful(r)' /\ Progressing(r)'
      BY <1>1, <3>3, <3>5, <3>6, ReaderSendsNothing
    <3>8. /\ TxCodeId(r) # 0 =>
                /\ TxCodeId(r) \in DOMAIN codes /\ codes[TxCodeId(r)].by = blocks[at[r]].run
                /\ blocks[at[r]].type = "store"
          /\ TxAddress(r) # 0 =>
                TxAddress(r) \in DOMAIN contracts /\ contracts[TxAddress(r)].by = blocks[at[r]].run
      BY <2>3 DEF TxCodeId, TxAddress, Made, Traced, Truthful
    <3>9. TxCodeId(r) = 0 /\ lib \cap {"logs", "jsonlog"} # {} => blocks[at[r]].type # "store"
      <4>1. blocks[at[r]].type = "store" => blocks[at[r]].made \in DOMAIN codes
        BY <2>3 DEF Traced, Truthful
      <4>2. codes \in Seq(Code)
        BY DEF IInv, Typed, TypeOK, ChainTypeOK
      <4> QED BY <4>1, <4>2 DEF TxCodeId, Made
    <3>10. TruthfulTx(r)'
      BY <1>3, <2>1, <2>3, <3>2, <3>4, <3>5, <3>8, <3>9 DEF TruthfulTx
    <3> QED BY <1>2, <3>7, <3>10 DEF Local
  <2> QED BY <1>6, <2>2, <2>3 DEF TxRead, Failed
<1>7. CASE TxList(r)
  <2>1. at' = at /\ codeId' = codeId /\ address' = address
    BY <1>7 DEF TxList
  <2>2. pc'[r] = "done" /\ (said'[r] = said[r] \cup {"instances"} \/ said'[r] = said[r] \cup {})
    BY <1>3, <1>7 DEF TxList, Done, Finish, Goto, Say
  <2>3. \E lines \in SUBSET {"not found", "instances"} : said'[r] = said[r] \cup lines
    BY <2>2
  <2> QED BY <1>5, <2>1, <2>2, <2>3
<1> QED BY <1>4, <1>6, <1>7

LEMMA QueryStepKeeps ==
    ASSUME IInv, NEW r \in Runs, Local(r), UNCHANGED env,
           \/ QueryCodeBegin(r) \/ QueryCodeInfo(r) \/ QueryCodeList(r)
           \/ ListBegin(r) \/ ListContracts(r)
           \/ QueryCw20Begin(r) \/ QueryCw20Ask(r)
           \/ BalanceBegin(r) \/ BalanceRead(r)
    PROVE  Local(r)'
<1>1. /\ Quiet /\ UNCHANGED <<msg, lookupVars>>
      /\ prog[r] \in {"query_code", "list_contracts", "query_cw20", "get_balance"}
  BY DEF QueryCodeBegin, QueryCodeInfo, QueryCodeList, ListBegin, ListContracts, QueryCw20Begin,
         QueryCw20Ask, BalanceBegin, BalanceRead, Begin, Quiet, chainVars
<1>2. Plan(r) = <<>>
  BY <1>1, Plans
<1>3. TruthfulTx(r)' /\ Searching(r)'
  BY <1>1, SenderReadsNothing
<1>4. CASE QueryCodeBegin(r) \/ ListBegin(r) \/ QueryCw20Begin(r) \/ BalanceBegin(r)
  <2>1. \E p : Begin(r, p, {}, "connected")
    BY <1>4 DEF QueryCodeBegin, ListBegin, QueryCw20Begin, BalanceBegin
  <2>2. Placed(r)' /\ Purposeful(r)' /\ Progressing(r)'
    BY <1>1, <1>2, <2>1, ReaderBegins
  <2> QED BY <1>3, <2>2 DEF Local
<1>5. CASE \/ QueryCodeInfo(r) \/ QueryCodeList(r) \/ ListContracts(r)
           \/ QueryCw20Ask(r) \/ BalanceRead(r)
  <2> DEFINE few == {"info", "balance", "instances", "no instances", "no list"}
             Ends(lines) == pc'[r] = "done" /\ said'[r] = said[r] \cup lines
  <2>1. ASSUME NEW how, NEW lines, Finish(r, how, lines)
        PROVE  Ends(lines)
    BY <2>1 DEF Goto, Say, Finish, IInv, Typed, TypeOK, ClientTypeOK
  <2>2. \/ /\ pc'[r] = "list" /\ exit'[r] = exit[r] /\ pc[r] = "connected"
           /\ said'[r] = said[r] \cup {"info"}
        \/ Ends({}) \/ Ends({"info"}) \/ Ends({"balance"}) \/ Ends({"instances"})
        \/ Ends({"no instances"}) \/ Ends({"no list"})
    <3>1. CASE QueryCodeInfo(r)
      <4>1. \/ Goto(r, "list") /\ Say(r, {"info"}) /\ exit' = exit /\ pc[r] = "connected"
            \/ Finish(r, "failed", {})
        BY <3>1 DEF QueryCodeInfo, Failed
      <4> QED BY <2>1, <4>1 DEF Goto, Say, IInv, Typed, TypeOK, ClientTypeOK
    <3>2. CASE QueryCodeList(r)
      BY <2>1, <3>2 DEF QueryCodeList, Done
    <3>3. CASE ListContracts(r)
      BY <2>1, <3>3 DEF ListContracts, Done, Failed
    <3>4. CASE QueryCw20Ask(r)
      BY <2>1, <3>4 DEF QueryCw20Ask, Failed
    <3>5. CASE BalanceRead(r)
      BY <2>1, <3>5 DEF BalanceRead, Done, Failed
    <3> QED BY <1>5, <3>1, <3>2, <3>3, <3>4, <3>5
  <2>3. few \subseteq Lines \ {"fallback", "transferred"}
    BY LineNames
  <2>4. said'[r] \subseteq said[r] \cup (Lines \ {"fallback", "transferred"})
    <3>1. said'[r] \subseteq said[r] \cup few
      BY <2>2
    <3> HIDE DEF few
    <3> QED BY <2>3, <3>1
  <2>5. exit'[r] = "ok" => pc'[r] = "done"
    BY <2>2 DEF Local, Placed
  <2>6. Placed(r)' /\ Purposeful(r)' /\ Progressing(r)'
    BY <1>1, <1>2, <2>2, <2>4, <2>5, ReaderSendsNothing
  <2> QED BY <1>3, <2>6 DEF Local
<1> QED BY <1>4, <1>5

-----------------------------------------------------------------------------
(* Where codes and contracts come from.                                     *)

TracedInv == IInv /\ Traced /\ \A r \in Runs : Local(r)

LEMMA LookupStepKeeps ==
    ASSUME IInv, Traced, NEW r \in Runs, Local(r), LookupStep(r), UNCHANGED env
    PROVE  Local(r)'
BY FindBeginKeeps, FindNextKeeps, FindReportKeeps, TxStepKeeps, QueryStepKeeps DEF LookupStep

\* Once a run has sent its instantiate message, its code id stands.
LEMMA ChoiceStands ==
    ASSUME IInv, NEW r \in Runs, Local(r), Instantiating(r), UNCHANGED env,
           RunStep(r) \/ Kill(r)
    PROVE  Instantiating(r)' /\ codeId'[r] = codeId[r]
<1>1. /\ msg[r].type # "none" /\ msg[r].type # "store" /\ pc[r] # "start" /\ Plan(r) # <<>>
      /\ pc[r] \in Fresh => prog[r] = "transfer_cw20"
  BY DEF Local, Placed, Instantiating
<1>2. msg \in [Runs -> Message] /\ codeId \in [Runs -> Nat]
  BY DEF IInv, Typed, TypeOK, ClientTypeOK
<1>3. prog[r] \in {"deploy_cw20", "deploy_check_balance", "instantiate_cw20", "transfer_cw20"}
  BY <1>1, Plans
<1>4. CASE LibraryStep(r) \/ Kill(r)
  BY <1>4 DEF LibraryStep, Kill, Simulate, Estimate, Sign, Broadcast, Poll, Timeout, Instantiating
<1>5. CASE DeployStep(r)
  <2>1. DeployInstantiated(r) \/ DeployTransferred(r)
    BY <1>1, <1>5 DEF DeployStep, DeployBegin, Begin, DeployStoreCode, DeployStored, Fresh
  <2>2. codeId' = codeId
    BY <2>1 DEF DeployInstantiated, DeployTransferred
  <2>3. msg' = msg \/ (\E c : Send(r, TransferMsg(c, 1)))
    BY <2>1 DEF DeployInstantiated, DeployTransferred, ReportContract
  <2> QED BY <1>2, <2>2, <2>3, MessageFields DEF Instantiating, Send
<1>6. CASE InstantiateStep(r)
  <2>1. InstantiateAnswered(r) \/ InstantiateTransferred(r)
    BY <1>1, <1>6 DEF InstantiateStep, InstantiateBegin, Begin, InstantiateCode, Fresh
  <2>2. codeId' = codeId
    BY <2>1 DEF InstantiateAnswered, InstantiateTransferred
  <2>3. msg' = msg \/ (\E c : Send(r, TransferMsg(c, 1)))
    BY <2>1 DEF InstantiateAnswered, InstantiateTransferred, TryTransfer
  <2> QED BY <1>2, <2>2, <2>3, MessageFields DEF Instantiating, Send
<1>7. CASE CheckBalanceStep(r)
  <2>1. CheckBalanceInstantiated(r)
    BY <1>1, <1>7 DEF CheckBalanceStep, CheckBalanceBegin, Begin, CheckBalanceStoreCode,
                      CheckBalanceStored, Fresh
  <2> QED BY <2>1 DEF CheckBalanceInstantiated, Instantiating
<1>8. CASE TransferStep(r)
  <2>1. TransferSend(r) \/ TransferAnswered(r)
    BY <1>1, <1>8 DEF TransferStep, TransferBegin, Begin
  <2> QED BY <2>1 DEF TransferSend, TransferAnswered, Instantiating
<1>9. CASE LookupStep(r)
  BY <1>3, <1>9 DEF LookupStep, FindBegin, FindNext, FindReport, TxBegin, TxRead, TxList,
     QueryCodeBegin, QueryCodeInfo, QueryCodeList, ListBegin, ListContracts, QueryCw20Begin,
     QueryCw20Ask, BalanceBegin, BalanceRead, Begin
<1> QED BY <1>4, <1>5, <1>6, <1>7, <1>8, <1>9 DEF RunStep, SendingStep

LEMMA RunStepTraced ==
    ASSUME TracedInv, NEW r \in Runs, UNCHANGED env,
           RunStep(r) \/ (Kill(r) /\ UNCHANGED lookupVars)
    PROVE  TracedInv'
<1>1. IInv'
  BY RunStepKeeps DEF TracedInv
<1>2. IInv /\ Traced /\ Local(r) /\ \A q \in Runs : Local(q)
  BY DEF TracedInv
<1>3. Alone(r)
  BY <1>2, SendingStepAlone, LookupStepAlone DEF RunStep
<1>4. Local(r)'
  <2>1. CASE LookupStep(r)
    BY <1>2, <2>1, LookupStepKeeps
  <2>2. CASE (SendingStep(r) \/ Kill(r)) /\ UNCHANGED lookupVars
    BY <1>2, <2>2, DeployStepKeeps, InstantiateStepKeeps, CheckBalanceStepKeeps,
       TransferStepKeeps, LibraryStepKeeps DEF SendingStep
  <2> QED BY <2>1, <2>2 DEF RunStep
<1>5. Broadcast(r) \/ Advance(r)
  BY <1>2, DeployStepAdvances, InstantiateStepAdvances, CheckBalanceStepAdvances,
     TransferStepAdvances, LookupStepAdvances, LibraryStepAdvances
  DEF IInv, Transactions, RunStep, SendingStep
<1>6. Quiet
  <2>1. CASE Broadcast(r)
    BY <2>1 DEF Broadcast, Quiet
  <2>2. CASE Advance(r)
    BY <2>2 DEF Advance, Quiet, chainVars
  <2> QED BY <1>5, <2>1, <2>2
<1>7. \A q \in Runs : Local(q)'
  BY <1>2, <1>3, <1>4, <1>6, SameKeeps DEF Alone
<1>8. Truthful'
  BY <1>2, <1>6 DEF Traced, Truthful, Quiet
<1>9. PendingIsCurrent'
  <2>1. CASE Broadcast(r)
    BY <1>2, <2>1 DEF Broadcast, Traced, PendingIsCurrent
  <2>2. CASE Advance(r)
    <3>1. pool' = pool /\ \A q \in Runs \ {r} : msg'[q] = msg[q]
      BY <2>2 DEF Advance, chainVars
    <3>2. ASSUME NEW tx \in pool, tx.run = r
          PROVE  msg'[r] = msg[r]
      <4>1. pc[r] \notin Fresh
        BY <1>2, <3>2, RankIsNat DEF IInv, Transactions, InOrder, SentBelow
      <4>2. pc[r] # "answered"
        BY <1>2, <3>2 DEF IInv, Typed, Answered, Transactions, SentOnce, Traced, PendingIsCurrent
      <4> QED BY <2>2, <4>1, <4>2 DEF Advance
    <3>3. \A tx \in pool : tx.run \in Runs
      BY <1>2 DEF IInv, Typed, TypeOK, ChainTypeOK, Tx
    <3> QED BY <1>2, <3>1, <3>2, <3>3 DEF Traced, PendingIsCurrent
  <2> QED BY <1>5, <2>1, <2>2
<1>10. InstancesTraced'
  <2>1. ASSUME NEW i \in DOMAIN contracts
        PROVE  /\ Instantiating(contracts[i].by)'
               /\ contracts[i].code = codeId'[contracts[i].by]
    <3> DEFINE q == contracts[i].by
    <3>1. q \in Runs
      <4>1. contracts \in Seq(Contract)
        BY <1>2 DEF IInv, Typed, TypeOK, ChainTypeOK
      <4>2. contracts[i] \in Contract
        BY <4>1
      <4> QED BY <4>2 DEF Contract
    <3>2. Instantiating(q) /\ contracts[i].code = codeId[q]
      BY <1>2 DEF Traced, InstancesTraced
    <3>3. contracts' = contracts
      BY <1>6 DEF Quiet
    <3> HIDE DEF q
    <3>4. Instantiating(q)' /\ codeId'[q] = codeId[q]
      <4>1. CASE q = r
        <5>1. Instantiating(r)
          BY <3>2, <4>1
        <5>2. Instantiating(r)' /\ codeId'[r] = codeId[r]
          BY <1>2, <5>1, ChoiceStands
        <5> QED BY <3>3, <4>1, <5>2 DEF q, Instantiating
      <4>2. CASE q # r
        BY <1>3, <3>1, <3>2, <3>3, <4>2 DEF Alone, Same, Instantiating, q
      <4> QED BY <4>1, <4>2
    <3> QED BY <3>2, <3>3, <3>4 DEF q, Instantiating
  <2>2. UNCHANGED <<codes, contracts>>
    BY <1>6 DEF Quiet
  <2> QED BY <1>2, <2>1, <2>2 DEF Traced, InstancesTraced, Instantiating
<1> QED BY <1>1, <1>7, <1>8, <1>9, <1>10 DEF TracedInv, Traced

\* The chain only grows, and runs do not notice by themselves.
Grown ==
    /\ UNCHANGED <<env, clientVars, lookupVars>>
    /\ DOMAIN codes \subseteq DOMAIN codes' /\ \A c \in DOMAIN codes : codes'[c] = codes[c]
    /\ DOMAIN contracts \subseteq DOMAIN contracts'
    /\ \A c \in DOMAIN contracts : contracts'[c].by = contracts[c].by /\ contracts'[c].code = contracts[c].code
    /\ DOMAIN blocks \subseteq DOMAIN blocks' /\ \A i \in DOMAIN blocks : blocks'[i] = blocks[i]

LEMMA GrownKeeps ==
    ASSUME NEW r \in Runs, Local(r), Grown
    PROVE  /\ Placed(r)' /\ Purposeful(r)' /\ TruthfulTx(r)' /\ Searching(r)'
           /\ Plan(r)' = Plan(r)
           /\ \A t : Committed(r, t) \subseteq Committed(r, t)'
<1>1. UNCHANGED <<pc, msg, at, codeId, address, said, exit, scan, limit, found, before, prog, lib, faults>>
  BY DEF Grown, env, clientVars, lookupVars
<1>2. Plan(r)' = Plan(r) /\ (Deploys(r))' = Deploys(r) /\ OurCodes \subseteq OurCodes'
  BY <1>1 DEF Plan, Deploys, OurCodes, Grown
<1>3. Placed(r)'
  BY <1>1, <1>2 DEF Local, Placed
<1>4. Purposeful(r)'
  BY <1>1, <1>2 DEF Local, Purposeful, Owns, Instantiating, Grown
<1>5. TruthfulTx(r)'
  <2>1. CASE prog[r] = "get_code_from_tx"
    <3>1. TruthfulTx(r)
      BY DEF Local
    <3>2. CASE {"code", "contract", "no code"} \cap said[r] = {}
      BY <1>1, <3>2 DEF TruthfulTx
    <3>3. CASE {"code", "contract", "no code"} \cap said[r] # {}
      <4>1. at[r] \in DOMAIN blocks /\ blocks'[at[r]] = blocks[at[r]] /\ at[r] \in DOMAIN blocks'
        BY <2>1, <3>1, <3>3 DEF TruthfulTx, Grown
      <4> QED BY <1>1, <2>1, <3>1, <4>1 DEF TruthfulTx, Grown
    <3> QED BY <3>2, <3>3
  <2> QED BY <1>1, <2>1 DEF TruthfulTx
<1>6. Searching(r)'
  <2>1. Listed(r)' = Listed(r)
    BY <1>1 DEF Listed
  <2> QED BY <1>1, <1>2, <2>1 DEF Local, Searching
<1>7. \A t : Committed(r, t) \subseteq Committed(r, t)'
  BY DEF Committed, Grown
<1> QED BY <1>2, <1>3, <1>4, <1>5, <1>6, <1>7

\* What a block that includes tx adds.
Added(tx, ok, made) ==
    /\ Record(tx, ok, made)
    /\ ok => tx.msg.type \in {"store", "instantiate", "transfer"}
    /\ ok /\ tx.msg.type = "store" => made \in DOMAIN codes' /\ codes'[made].by = tx.run
    /\ ok /\ tx.msg.type = "instantiate" => made \in DOMAIN contracts' /\ contracts'[made].by = tx.run
    /\ \A i \in DOMAIN contracts' \ DOMAIN contracts :
        /\ tx.msg.type = "instantiate" /\ tx.msg.ref \in DOMAIN codes
        /\ contracts'[i].by = tx.run /\ contracts'[i].code = tx.msg.ref
    /\ DOMAIN codes \subseteq DOMAIN codes' /\ \A c \in DOMAIN codes : codes'[c] = codes[c]
    /\ DOMAIN contracts \subseteq DOMAIN contracts'
    /\ \A c \in DOMAIN contracts : contracts'[c].by = contracts[c].by /\ contracts'[c].code = contracts[c].code

LEMMA IncludeAdds ==
    ASSUME ChainTypeOK, NEW tx \in pool,
           \/ Executes(tx.msg) /\ (CommitStore(tx) \/ CommitInstantiate(tx) \/ CommitTransfer(tx))
           \/ Refuse(tx)
    PROVE  \E ok \in BOOLEAN, made \in Nat : Added(tx, ok, made)
<1>1. codes \in Seq(Code) /\ contracts \in Seq(Contract)
  BY DEF ChainTypeOK
<1>2. CASE CommitStore(tx)
  <2> DEFINE new == [kind |-> tx.msg.body, by |-> tx.run]
  <2>1. codes' = Append(codes, new) /\ contracts' = contracts /\ Record(tx, TRUE, Len(codes) + 1)
        /\ tx.msg.type = "store" /\ new.by = tx.run
    BY <1>2 DEF CommitStore
  <2> HIDE DEF new
  <2>2. /\ DOMAIN codes = 1..Len(codes) /\ DOMAIN codes' = 1..(Len(codes) + 1) /\ Len(codes) \in Nat
        /\ codes'[Len(codes) + 1] = new /\ \A c \in DOMAIN codes : codes'[c] = codes[c]
    BY <1>1, <2>1
  <2>3. /\ Len(codes) + 1 \in DOMAIN codes' /\ codes'[Len(codes) + 1].by = tx.run
        /\ DOMAIN codes \subseteq DOMAIN codes' /\ tx.msg.type # "instantiate" /\ Len(codes) + 1 \in Nat
    BY <2>1, <2>2
  <2>4. Added(tx, TRUE, Len(codes) + 1)
    BY <2>1, <2>2, <2>3, Zenon DEF Added
  <2> QED BY <2>3, <2>4
<1>3. CASE Executes(tx.msg) /\ CommitInstantiate(tx)
  <2> DEFINE new == [code |-> tx.msg.ref, by |-> tx.run,
                     left |-> IF codes[tx.msg.ref].kind \in Tokens THEN Supply ELSE 0]
  <2>1. contracts' = Append(contracts, new) /\ codes' = codes /\ Record(tx, TRUE, Len(contracts) + 1)
        /\ tx.msg.type = "instantiate" /\ new.by = tx.run /\ new.code = tx.msg.ref
        /\ tx.msg.ref \in DOMAIN codes
    BY <1>3 DEF CommitInstantiate, Executes
  <2> HIDE DEF new
  <2>2. /\ DOMAIN contracts = 1..Len(contracts) /\ DOMAIN contracts' = 1..(Len(contracts) + 1)
        /\ Len(contracts) \in Nat /\ contracts'[Len(contracts) + 1] = new
        /\ \A c \in DOMAIN contracts : contracts'[c] = contracts[c]
        /\ DOMAIN contracts' \ DOMAIN contracts = {Len(contracts) + 1}
    BY <1>1, <2>1
  <2>3. /\ Len(contracts) + 1 \in DOMAIN contracts' /\ contracts'[Len(contracts) + 1].by = tx.run
        /\ DOMAIN contracts \subseteq DOMAIN contracts' /\ tx.msg.type # "store"
        /\ Len(contracts) + 1 \in Nat
        /\ \A i \in DOMAIN contracts' \ DOMAIN contracts : contracts'[i] = new
    BY <2>1, <2>2
  <2>4. \A i \in DOMAIN contracts' \ DOMAIN contracts :
            contracts'[i].by = tx.run /\ contracts'[i].code = tx.msg.ref
    BY <2>1, <2>3
  <2>5. Added(tx, TRUE, Len(contracts) + 1)
    BY <2>1, <2>2, <2>3, <2>4, Zenon DEF Added
  <2> QED BY <2>3, <2>5
<1>4. CASE CommitTransfer(tx)
  <2>1. Record(tx, TRUE, 0) /\ codes' = codes /\ tx.msg.type = "transfer"
        /\ contracts' = [contracts EXCEPT ![tx.msg.ref].left = @ - tx.msg.amount]
    BY <1>4 DEF CommitTransfer
  <2>2. /\ DOMAIN contracts' = DOMAIN contracts
        /\ \A c \in DOMAIN contracts :
                contracts'[c].by = contracts[c].by /\ contracts'[c].code = contracts[c].code
    <3>1. \A c \in DOMAIN contracts : contracts[c] \in Contract
      BY <1>1
    <3> QED BY <2>1, <3>1 DEF Contract
  <2>3. Added(tx, TRUE, 0)
    BY <2>1, <2>2 DEF Added
  <2> QED BY <2>3
<1>5. CASE Refuse(tx)
  <2>1. Added(tx, FALSE, 0)
    BY <1>5 DEF Refuse, Added
  <2> QED BY <2>1
<1> QED BY <1>2, <1>3, <1>4, <1>5

\* The transactions that failed do not count, the others do.
LEMMA Counted ==
    ASSUME TracedInv, NEW tx \in pool, NEW ok \in BOOLEAN, NEW made, Record(tx, ok, made)
    PROVE  /\ \A r \in Runs : r # tx.run \/ ~ok => Ours(r)' = Ours(r)
           /\ ok => Cardinality(Ours(tx.run))' = Cardinality(Ours(tx.run)) + 1
<1> DEFINE n == Len(blocks) + 1
           entry == [run |-> tx.run, type |-> tx.msg.type, ok |-> ok, made |-> made]
<1>1. entry.run = tx.run /\ entry.ok = ok /\ blocks' = Append(blocks, entry)
  BY DEF Record
<1> HIDE DEF entry
<1>2. blocks \in Seq(Result)
  BY DEF TracedInv, IInv, Typed, TypeOK, ChainTypeOK
<1>3. /\ n \in Nat /\ n \notin DOMAIN blocks /\ DOMAIN blocks' = DOMAIN blocks \cup {n}
      /\ blocks'[n] = entry /\ \A i \in DOMAIN blocks : blocks'[i] = blocks[i]
  BY <1>1, <1>2
<1> HIDE DEF n
<1>4. \A r \in Runs : r # tx.run \/ ~ok => Ours(r)' = Ours(r)
  BY <1>1, <1>3 DEF Ours
<1>5. ASSUME ok
      PROVE  Cardinality(Ours(tx.run))' = Cardinality(Ours(tx.run)) + 1
  <2>1. Ours(tx.run)' = Ours(tx.run) \cup {n} /\ n \notin Ours(tx.run)
    BY <1>1, <1>3, <1>5 DEF Ours
  <2>2. IsFiniteSet(Ours(tx.run))
    <3>1. DOMAIN blocks = 1..Len(blocks) /\ Len(blocks) \in Nat
      BY <1>2
    <3>2. IsFiniteSet(1..Len(blocks))
      BY <3>1, FS_Interval
    <3>3. Ours(tx.run) \subseteq DOMAIN blocks
      BY DEF Ours
    <3> QED BY <3>1, <3>2, <3>3, FS_Subset
  <2>3. Cardinality(Ours(tx.run) \cup {n}) = Cardinality(Ours(tx.run)) + 1
    BY <2>1, <2>2, FS_AddElement
  <2> QED BY <2>1, <2>3
<1> QED BY <1>4, <1>5

LEMMA IncludeTraced ==
    ASSUME TracedInv, Include, UNCHANGED <<env, clientVars, lookupVars>>
    PROVE  TracedInv'
<1>1. IInv'
  BY IncludeKeeps DEF TracedInv
<1>2. IInv /\ Traced /\ (\A q \in Runs : Local(q)) /\ ChainTypeOK
  BY DEF TracedInv, IInv, Typed, TypeOK
<1> PICK tx \in pool :
        /\ tx.seq = nonce /\ nonce' = nonce + 1 /\ pool' = pool \ {tx}
        /\ \/ Executes(tx.msg) /\ (CommitStore(tx) \/ CommitInstantiate(tx) \/ CommitTransfer(tx))
           \/ Refuse(tx)
  BY DEF Include
<1> PICK ok \in BOOLEAN, made \in Nat : Added(tx, ok, made)
  BY <1>2, IncludeAdds
<1> DEFINE n == Len(blocks) + 1
           entry == [run |-> tx.run, type |-> tx.msg.type, ok |-> ok, made |-> made]
<1>3. /\ tx.run \in Runs /\ tx.msg = msg[tx.run] /\ pool' = {}
      /\ UNCHANGED <<msg, codeId, prog, exit, said>>
  BY <1>2 DEF ChainTypeOK, Tx, Traced, PendingIsCurrent, IInv, Transactions, OneInFlight, env, clientVars
<1>4. entry.run = tx.run /\ entry.type = tx.msg.type /\ entry.ok = ok /\ entry.made = made
  OBVIOUS
<1>5. blocks' = Append(blocks, entry)
  BY DEF Added, Record
<1> HIDE DEF entry
<1>6. /\ n \in Nat /\ n \notin DOMAIN blocks /\ DOMAIN blocks' = DOMAIN blocks \cup {n}
      /\ blocks'[n] = entry /\ \A i \in DOMAIN blocks : blocks'[i] = blocks[i]
  BY <1>2, <1>5 DEF ChainTypeOK
<1> HIDE DEF n
<1>7. Grown
  BY <1>6 DEF Grown, Added
<1>8. Truthful'
  <2>1. ASSUME NEW i \in DOMAIN blocks, blocks[i].ok
        PROVE  /\ blocks[i].type = "store" =>
                    blocks[i].made \in DOMAIN codes' /\ codes'[blocks[i].made].by = blocks[i].run
               /\ blocks[i].type = "instantiate" =>
                    blocks[i].made \in DOMAIN contracts' /\ contracts'[blocks[i].made].by = blocks[i].run
    BY <1>2, <1>7, <2>1 DEF Traced, Truthful, Grown
  <2> QED BY <1>4, <1>6, <2>1 DEF Truthful, Added
<1>9. PendingIsCurrent'
  BY <1>3 DEF PendingIsCurrent
<1>10. InstancesTraced'
  <2>1. ASSUME NEW i \in DOMAIN contracts
        PROVE  /\ msg'[contracts'[i].by].type \in {"instantiate", "transfer"}
               /\ contracts'[i].code = codeId'[contracts'[i].by]
               /\ contracts'[i].code \in DOMAIN codes'
    <3>1. Instantiating(contracts[i].by) /\ contracts[i].code = codeId[contracts[i].by]
          /\ contracts[i].code \in DOMAIN codes
      BY <1>2, <2>1 DEF Traced, InstancesTraced
    <3>2. contracts'[i].by = contracts[i].by /\ contracts'[i].code = contracts[i].code
          /\ DOMAIN codes \subseteq DOMAIN codes'
      BY <1>7, <2>1 DEF Grown
    <3> QED BY <1>3, <3>1, <3>2 DEF Instantiating
  <2>2. ASSUME NEW i \in DOMAIN contracts' \ DOMAIN contracts
        PROVE  /\ msg'[contracts'[i].by].type \in {"instantiate", "transfer"}
               /\ contracts'[i].code = codeId'[contracts'[i].by]
               /\ contracts'[i].code \in DOMAIN codes'
    <3>1. /\ tx.msg.type = "instantiate" /\ tx.msg.ref \in DOMAIN codes'
          /\ contracts'[i].by = tx.run /\ contracts'[i].code = tx.msg.ref
      BY <2>2 DEF Added
    <3>2. tx.msg.ref = codeId[tx.run]
      BY <1>2, <1>3, <3>1 DEF Local, Purposeful
    <3>3. msg'[tx.run].type = "instantiate" /\ codeId'[tx.run] = tx.msg.ref
      BY <1>3, <3>1, <3>2
    <3> QED BY <3>1, <3>3 DEF Instantiating
  <2>3. DOMAIN contracts' = DOMAIN contracts \cup (DOMAIN contracts' \ DOMAIN contracts)
    BY <1>7 DEF Grown
  <2> QED BY <2>1, <2>2, <2>3 DEF InstancesTraced, Instantiating
<1>11. ASSUME NEW r \in Runs
       PROVE  Local(r)'
  <2>1. /\ Placed(r)' /\ Purposeful(r)' /\ TruthfulTx(r)' /\ Searching(r)'
        /\ Plan(r)' = Plan(r) /\ \A t : Committed(r, t) \subseteq Committed(r, t)'
    BY <1>2, <1>7, GrownKeeps
  <2>2. CASE r # tx.run \/ ~ok
    <3>1. Ours(r)' = Ours(r) /\ \A t : Committed(r, t)' = Committed(r, t)
      BY <1>4, <1>6, <2>2 DEF Ours, Committed
    <3>2. Progressing(r)'
      BY <1>2, <1>3, <2>1, <3>1 DEF Local, Progressing
    <3> QED BY <2>1, <3>2 DEF Local
  <2>3. CASE r = tx.run /\ ok
    <3>1. msg[r].type # "none"
      BY <1>3, <2>3 DEF Added
    <3> PICK i \in DOMAIN Plan(r) :
            /\ Plan(r)[i] = msg[r].type
            /\ \A j \in 1..(i - 1) : Committed(r, Plan(r)[j]) # {}
            /\ Cardinality(Ours(r)) = IF Committed(r, msg[r].type) = {} THEN i - 1 ELSE i
      BY <1>2, <3>1 DEF Local, Progressing
    <3>2. i \in Nat
      BY Plans
    <3>3. Committed(r, msg[r].type) = {}
      BY <1>2, <1>3, <2>3 DEF Committed, IInv, Transactions, SentOnce
    <3>4. Cardinality(Ours(r))' = i
      <4>1. Record(tx, ok, made)
        BY DEF Added
      <4>2. Cardinality(Ours(tx.run))' = Cardinality(Ours(tx.run)) + 1
        BY <2>3, <4>1, Counted
      <4>3. Cardinality(Ours(r))' = Cardinality(Ours(r)) + 1
        BY <2>3, <4>2 DEF Ours
      <4> QED BY <3>2, <3>3, <4>3
    <3>5. n \in Committed(r, msg[r].type)'
      BY <1>3, <1>4, <1>6, <2>3 DEF Committed
    <3>6. \A j \in 1..(i - 1) : Committed(r, Plan(r)[j])' # {}
      BY <2>1
    <3>7. Progressing(r)'
      <4>1. \E k \in DOMAIN Plan(r)' :
                /\ Plan(r)'[k] = msg'[r].type
                /\ \A j \in 1..(k - 1) : Committed(r, Plan(r)[j])' # {}
                /\ Cardinality(Ours(r))' = IF Committed(r, msg[r].type)' = {} THEN k - 1 ELSE k
        BY <1>3, <2>1, <3>4, <3>5, <3>6
      <4>2. exit[r] = "ok" => \A k \in DOMAIN Plan(r) :
                Plan(r)[k] # "transfer" \/ k = 1 => Committed(r, Plan(r)[k])' # {}
        BY <1>2, <2>1 DEF Local, Progressing
      <4>3. "transferred" \in said[r] => Committed(r, "transfer")' # {}
        BY <1>2, <2>1 DEF Local, Progressing
      <4> QED BY <1>3, <2>1, <3>1, <4>1, <4>2, <4>3 DEF Progressing
    <3> QED BY <2>1, <3>7 DEF Local
  <2> QED BY <2>2, <2>3
<1> QED BY <1>1, <1>8, <1>9, <1>10, <1>11 DEF TracedInv, Traced

LEMMA ChainStepTraced ==
    ASSUME TracedInv, ChainStep, UNCHANGED <<env, clientVars, lookupVars>>
    PROVE  TracedInv'
<1>1. IInv'
  BY ChainStepKeeps DEF TracedInv
<1>2. CASE LosePool \/ StrangerStores
  <2>1. UNCHANGED <<contracts, blocks, msg, codeId>> /\ pool' \subseteq pool
    BY <1>2 DEF LosePool, StrangerStores, clientVars
  <2>2. Grown
    <3>1. CASE LosePool
      BY <3>1 DEF LosePool, Grown
    <3>2. CASE StrangerStores
      <4> PICK k \in Kinds : codes' = Append(codes, [kind |-> k, by |-> Stranger])
        BY <3>2 DEF StrangerStores
      <4>1. codes \in Seq(Code)
        BY DEF TracedInv, IInv, Typed, TypeOK, ChainTypeOK
      <4>2. DOMAIN codes \subseteq DOMAIN codes' /\ \A c \in DOMAIN codes : codes'[c] = codes[c]
        BY <4>1
      <4> QED BY <2>1, <4>2 DEF Grown
    <3> QED BY <1>2, <3>1, <3>2
  <2>3. Traced'
    BY <2>1, <2>2 DEF TracedInv, Traced, Truthful, PendingIsCurrent, InstancesTraced, Instantiating, Grown
  <2>4. ASSUME NEW r \in Runs
        PROVE  Local(r)'
    <3>1. Ours(r)' = Ours(r) /\ (\A t : Committed(r, t)' = Committed(r, t)) /\ UNCHANGED <<msg, exit, said>>
      BY <2>1, <2>2 DEF Ours, Committed, Grown, clientVars
    <3>2. /\ Placed(r)' /\ Purposeful(r)' /\ TruthfulTx(r)' /\ Searching(r)'
          /\ Plan(r)' = Plan(r)
      BY <2>2, GrownKeeps DEF TracedInv
    <3>3. Progressing(r)'
      BY <3>1, <3>2 DEF TracedInv, Local, Progressing
    <3> QED BY <3>2, <3>3 DEF Local
  <2> QED BY <1>1, <2>3, <2>4 DEF TracedInv
<1> QED BY <1>2, IncludeTraced DEF ChainStep

LEMMA InitTraced == Init => TracedInv
<1> SUFFICES ASSUME Init PROVE TracedInv
  OBVIOUS
<1>1. /\ contracts = <<>> /\ pool = {} /\ blocks = <<>>
      /\ pc = [r \in Runs |-> IF prog[r] = "none" THEN "done" ELSE "start"]
      /\ msg = [r \in Runs |-> NoMsg] /\ said = [r \in Runs |-> {}]
      /\ exit = [r \in Runs |-> "running"] /\ scan = [r \in Runs |-> 1]
      /\ found = [r \in Runs |-> <<>>] /\ before = [r \in Runs |-> {}]
  BY DEF Init, ChainInit, ClientInit, LookupInit
<1>2. Traced
  BY <1>1 DEF Traced, Truthful, PendingIsCurrent, InstancesTraced
<1>3. ASSUME NEW r \in Runs
      PROVE  Local(r)
  <2>1. msg[r].type = "none" /\ pc[r] \in {"start", "done"} /\ said[r] = {} /\ exit[r] = "running"
        /\ scan[r] = 1 /\ found[r] = <<>> /\ before[r] = {}
    BY <1>1 DEF NoMsg
  <2>2. Ours(r) = {}
    BY <1>1 DEF Ours
  <2>3. Listed(r) = {}
    BY <2>1 DEF Listed
  <2>4. Placed(r)
    BY <2>1 DEF Placed, Fresh, InLibrary
  <2>5. Purposeful(r)
    BY <2>1 DEF Purposeful, Instantiating
  <2>6. Progressing(r)
    BY <2>1, <2>2 DEF Progressing
  <2>7. TruthfulTx(r)
    BY <2>1 DEF TruthfulTx
  <2>8. Searching(r)
    BY <2>1, <2>3 DEF Searching
  <2> QED BY <2>4, <2>5, <2>6, <2>7, <2>8 DEF Local
<1> QED BY <1>2, <1>3, InitSound DEF TracedInv

\* Every code, contract and answer is traced to the message it came from.
THEOREM TracedInvariance == Spec => []TracedInv
<1>1. Init => TracedInv
  BY InitTraced
<1>2. TracedInv /\ [Next]_vars => TracedInv'
  <2> SUFFICES ASSUME TracedInv, [Next]_vars PROVE TracedInv'
    OBVIOUS
  <2>1. CASE Next
    BY <2>1, RunStepTraced, ChainStepTraced DEF Next, env
  <2>2. CASE UNCHANGED vars
    <3>1. IInv' /\ Grown /\ UNCHANGED <<codes, contracts, pool, blocks, msg, codeId, exit, said>>
      <4>1. Grown /\ UNCHANGED <<codes, contracts, pool, blocks, nonce, pc, msg, seq, at, codeId, exit, said>>
        BY <2>2 DEF Grown, vars, chainVars, env, clientVars, lookupVars
      <4>2. TypeOK'
        BY <2>2 DEF TracedInv, IInv, Typed, TypeOK, ChainTypeOK, ClientTypeOK, LookupTypeOK,
                    vars, chainVars, env, clientVars, lookupVars
      <4>3. Answered' /\ BodiesKnown'
        BY <4>1 DEF TracedInv, IInv, Typed, Answered, BodiesKnown
      <4>4. Transactions'
        BY <4>1 DEF TracedInv, IInv, Transactions, OneInFlight, SequencesPast, InOrder, SentBelow, SentOnce
      <4> QED BY <4>1, <4>2, <4>3, <4>4 DEF TracedInv, IInv, Typed
    <3>2. Traced'
      BY <3>1 DEF TracedInv, Traced, Truthful, PendingIsCurrent, InstancesTraced, Instantiating
    <3>3. ASSUME NEW r \in Runs
          PROVE  Local(r)'
      <4>1. Ours(r)' = Ours(r) /\ (\A t : Committed(r, t)' = Committed(r, t))
        BY <3>1 DEF Ours, Committed
      <4>2. /\ Placed(r)' /\ Purposeful(r)' /\ TruthfulTx(r)' /\ Searching(r)'
            /\ Plan(r)' = Plan(r)
        BY <3>1, GrownKeeps DEF TracedInv
      <4>3. Progressing(r)'
        BY <3>1, <4>1, <4>2 DEF TracedInv, Local, Progressing
      <4> QED BY <4>2, <4>3 DEF Local
    <3> QED BY <3>1, <3>2, <3>3 DEF TracedInv
  <2> QED BY <2>1, <2>2
<1> QED BY <1>1, <1>2, PTL DEF Spec


-----------------------------------------------------------------------------
(* What follows for the scripts' reports.                                   *)

(***************************************************************************)
(* For any number of runs and strangers on the chain: a deployment makes   *)
(* an instance of a foreign code only after it has printed the warning     *)
(* (deploy_cw20.js:121-124); the code id it uses is not looked up again.   *)
(***************************************************************************)
THEOREM NoSilentForeignCode == Spec => []ForeignOnlyAfterFallback
<1>1. TracedInv => ForeignOnlyAfterFallback
  <2> SUFFICES ASSUME TracedInv, NEW i \in DOMAIN contracts, Deploys(contracts[i].by)
               PROVE  \/ codes[contracts[i].code].by = contracts[i].by
                      \/ "fallback" \in said[contracts[i].by]
    BY DEF ForeignOnlyAfterFallback
  <2>1. contracts[i].by \in Runs
    <3>1. contracts \in Seq(Contract)
      BY DEF TracedInv, IInv, Typed, TypeOK, ChainTypeOK
    <3>2. contracts[i] \in Contract
      BY <3>1
    <3> QED BY <3>2 DEF Contract
  <2>2. Instantiating(contracts[i].by) /\ contracts[i].code = codeId[contracts[i].by]
    BY DEF TracedInv, Traced, InstancesTraced
  <2> QED BY <2>1, <2>2 DEF TracedInv, Local, Purposeful
<1> QED BY <1>1, TracedInvariance, PTL

\* The address a sending script prints is that of its own contract, of the
\* code it used, whoever else instantiates under the account meanwhile.
THEOREM ReportsOwnContract == Spec => []ReportedContractIsOwn
<1>1. TracedInv => ReportedContractIsOwn
  <2> SUFFICES ASSUME TracedInv, NEW r \in Runs, "contract" \in said[r], Plan(r) # <<>>
               PROVE  /\ address[r] \in DOMAIN contracts
                      /\ contracts[address[r]].by = r
                      /\ contracts[address[r]].code = codeId[r]
    BY DEF ReportedContractIsOwn
  <2>1. address[r] \in DOMAIN contracts /\ contracts[address[r]].by = r
    BY DEF TracedInv, Local, Purposeful, Owns
  <2> QED BY <2>1 DEF TracedInv, Traced, InstancesTraced
<1> QED BY <1>1, TracedInvariance, PTL

\* Exit code 0 means that the transactions the script is for have succeeded
\* (main().catch, and the checks of result.code in the sending scripts).
THEOREM ExitCodeIsHonest == Spec => []SuccessIsComplete
<1>1. TracedInv => SuccessIsComplete
  BY DEF TracedInv, Local, Progressing, SuccessIsComplete
<1> QED BY <1>1, TracedInvariance, PTL

\* find_latest_code.js: what it lists is the account's, and if no query
\* failed, no code it should have seen is newer than the one it calls latest.
THEOREM LatestIsLatest == Spec => []LatestCodeIsOurs
<1>1. TracedInv => LatestCodeIsOurs
  <2> SUFFICES ASSUME TracedInv, NEW r \in Runs
               PROVE  /\ Listed(r) \subseteq OurCodes
                      /\ prog[r] = "find_latest_code" /\ exit[r] = "ok"
                         /\ "wasm" \in lib /\ "network" \notin faults =>
                          /\ before[r] \cap 1..limit[r] \subseteq Listed(r)
                          /\ found[r] # <<>> =>
                              /\ codeId[r] \in OurCodes
                              /\ \A c \in before[r] \cap 1..limit[r] : c <= codeId[r]
    BY DEF LatestCodeIsOurs
  <2>1. Searching(r)
    BY DEF TracedInv, Local
  <2>2. found[r] \in Seq(Nat) /\ scan[r] \in Nat /\ limit[r] \in Nat
    BY DEF TracedInv, IInv, Typed, TypeOK, LookupTypeOK
  <2>3. Listed(r) \subseteq OurCodes
    BY <2>1 DEF Searching
  <2>4. ASSUME prog[r] = "find_latest_code", exit[r] = "ok",
               "wasm" \in lib, "network" \notin faults
        PROVE  /\ before[r] \cap 1..limit[r] \subseteq Listed(r)
               /\ found[r] # <<>> =>
                   /\ codeId[r] \in OurCodes
                   /\ \A c \in before[r] \cap 1..limit[r] : c <= codeId[r]
    <3>1. scan[r] > limit[r] /\ \A c \in before[r] : c < scan[r] => c \in Listed(r)
      BY <2>1, <2>4 DEF Searching
    <3>2. before[r] \cap 1..limit[r] \subseteq Listed(r)
      BY <2>2, <3>1
    <3>3. ASSUME found[r] # <<>>
          PROVE  codeId[r] \in Listed(r) /\ \A c \in Listed(r) : c <= codeId[r]
      <4>1. codeId[r] = found[r][Len(found[r])]
        BY <2>1, <2>4, <3>3 DEF Searching, Latest
      <4>2. Len(found[r]) \in DOMAIN found[r] /\ \A i \in DOMAIN found[r] : i <= Len(found[r])
        BY <2>2, <3>3
      <4>3. \A i \in DOMAIN found[r] : found[r][i] <= found[r][Len(found[r])]
        BY <2>1, <4>2 DEF Searching
      <4> QED BY <4>1, <4>2, <4>3 DEF Listed
    <3> QED BY <2>3, <3>2, <3>3
  <2> QED BY <2>3, <2>4
<1> QED BY <1>1, TracedInvariance, PTL

\* get_code_from_tx.js prints only what the transaction asked for has made.
THEOREM TransactionsReportedTruly == Spec => []TxReportIsTrue
<1>1. TracedInv => TxReportIsTrue
  BY DEF TracedInv, Local, TruthfulTx, TxReportIsTrue
<1> QED BY <1>1, TracedInvariance, PTL

-----------------------------------------------------------------------------
(* Scripts implements Rollout.                                              *)

RolloutStep == [R!RolloutNext]_(R!rolloutVars)

LEMMA NextInPlan ==
    ASSUME TracedInv, NEW tx \in pool, tx.msg.type # "none"
    PROVE  /\ tx.run \in Runs /\ tx.msg = msg[tx.run] /\ Plan(tx.run) # <<>>
           /\ Cardinality(Ours(tx.run)) < Len(Plan(tx.run))
           /\ Plan(tx.run)[Cardinality(Ours(tx.run)) + 1] = tx.msg.type
<1>1. tx.run \in Runs /\ tx.msg = msg[tx.run]
  BY DEF TracedInv, IInv, Typed, TypeOK, ChainTypeOK, Tx, Traced, PendingIsCurrent
<1>2. Committed(tx.run, tx.msg.type) = {}
  BY DEF TracedInv, IInv, Transactions, SentOnce, Committed
<1> PICK i \in DOMAIN Plan(tx.run) :
        /\ Plan(tx.run)[i] = tx.msg.type
        /\ Cardinality(Ours(tx.run)) = i - 1
  BY <1>1, <1>2 DEF TracedInv, Local, Progressing
<1>3. DOMAIN Plan(tx.run) = 1..Len(Plan(tx.run)) /\ Len(Plan(tx.run)) \in Nat
  BY <1>1, Plans
<1> QED BY <1>1, <1>3

\* How many transactions of its plan each run has carried out.
CarriedOut == [r \in Runs |-> Cardinality({i \in DOMAIN blocks : blocks[i].run = r /\ blocks[i].ok})]
PlanOf == [r \in Runs |-> Plan(r)]

LEMMA Idle ==
    ASSUME UNCHANGED <<prog, lib, codes, contracts>>, \A r \in Runs : Ours(r)' = Ours(r)
    PROVE  UNCHANGED R!rolloutVars
<1>1. CarriedOut' = CarriedOut
  BY DEF CarriedOut, Ours
<1>2. PlanOf' = PlanOf
  BY DEF PlanOf, Plan
<1> QED BY <1>1, <1>2 DEF R!rolloutVars, CarriedOut, PlanOf

LEMMA IncludeImplements ==
    ASSUME TracedInv, Include, UNCHANGED <<env, clientVars, lookupVars>>
    PROVE  RolloutStep
<1> PICK tx \in pool :
        \/ Executes(tx.msg) /\ (CommitStore(tx) \/ CommitInstantiate(tx) \/ CommitTransfer(tx))
        \/ Refuse(tx)
  BY DEF Include
<1>1. prog' = prog /\ lib' = lib /\ PlanOf' = PlanOf
  BY DEF env, PlanOf, Plan
<1>2. CASE Refuse(tx)
  <2>1. Record(tx, FALSE, 0) /\ codes' = codes /\ contracts' = contracts
    BY <1>2 DEF Refuse
  <2>2. \A r \in Runs : Ours(r)' = Ours(r)
    BY <2>1, Counted
  <2> QED BY <1>1, <2>1, <2>2, Idle DEF RolloutStep
<1>3. CASE Executes(tx.msg) /\ (CommitStore(tx) \/ CommitInstantiate(tx) \/ CommitTransfer(tx))
  <2> DEFINE p == tx.run
  <2>1. /\ tx.msg.type \in {"store", "instantiate", "transfer"}
        /\ \E made : Record(tx, TRUE, made)
    BY <1>3 DEF CommitStore, CommitInstantiate, CommitTransfer
  <2>2. /\ p \in Runs /\ tx.msg = msg[p] /\ Plan(p) # <<>>
        /\ Cardinality(Ours(p)) < Len(Plan(p)) /\ Plan(p)[Cardinality(Ours(p)) + 1] = tx.msg.type
    BY <2>1, NextInPlan
  <2>3. /\ \A r \in Runs \ {p} : Ours(r)' = Ours(r)
        /\ Cardinality(Ours(p))' = Cardinality(Ours(p)) + 1
    BY <2>1, Counted
  <2>4. CarriedOut' = [CarriedOut EXCEPT ![p] = @ + 1]
    BY <2>2, <2>3 DEF CarriedOut, Ours
  <2>5. R!NextIs(p, tx.msg.type)
    BY <2>2, <2>4 DEF R!NextIs, CarriedOut, Ours
  <2>6. Local(p) /\ Typed /\ InstancesTraced
    BY <2>2 DEF TracedInv, IInv, Traced
  <2> HIDE DEF p
  <2>7. CASE CommitStore(tx)
    <3>1. R!Publish(p)
      BY <2>5, <2>6, <2>7 DEF CommitStore, R!Publish, p, Typed, BodiesKnown
    <3> QED BY <1>1, <2>2, <3>1 DEF RolloutStep, R!RolloutNext, PlanOf
  <2>8. CASE CommitInstantiate(tx)
    <3> DEFINE c == tx.msg.ref
               tokens == IF codes[c].kind \in Tokens THEN Supply ELSE 0
    <3>1. /\ tx.msg.type = "instantiate" /\ c \in DOMAIN codes /\ c = codeId[p]
          /\ codes' = codes /\ tokens \in {0, Supply}
          /\ contracts' = Append(contracts, [code |-> c, by |-> p, left |-> tokens])
      BY <1>3, <2>2, <2>6, <2>8 DEF CommitInstantiate, Executes, Local, Purposeful, p
    <3>2. Plan(p)[1] = "store" /\ "logs" \in lib => codes[c].by = p
      <4>1. Plan(p)[1] = "store" => Deploys(p)
        BY <2>2, Plans DEF Deploys
      <4> QED BY <2>2, <2>6, <3>1, <4>1 DEF Local, Purposeful, Instantiating
    <3> HIDE DEF c, tokens
    <3>3. R!Launch(p)
      BY <2>2, <2>5, <3>1, <3>2 DEF R!Launch
    <3> QED BY <1>1, <2>2, <3>3 DEF RolloutStep, R!RolloutNext, PlanOf
  <2>9. CASE CommitTransfer(tx)
    <3> DEFINE c == tx.msg.ref
               n == tx.msg.amount
    <3>1. /\ tx.msg.type = "transfer" /\ c \in DOMAIN contracts /\ n > 0
          /\ n <= contracts[c].left /\ codes' = codes
          /\ contracts' = [contracts EXCEPT ![c].left = @ - n]
      BY <1>3, <2>2, <2>6, <2>9 DEF CommitTransfer, Executes, IsToken, Local, Purposeful
    <3>2. n \in Nat /\ contracts[c].left \in Nat
      <4>1. contracts \in Seq(Contract) /\ msg[p] \in Message
        BY <2>2, <2>6 DEF Typed, TypeOK, ChainTypeOK, ClientTypeOK
      <4>2. contracts[c] \in Contract
        BY <3>1, <4>1
      <4> QED BY <2>2, <4>1, <4>2 DEF Message, Contract
    <3>3. n \in 1..contracts[c].left
      BY <3>1, <3>2
    <3>4. Plan(p)[1] # "transfer" => contracts[c].by = p
      <4>1. Plan(p)[1] # "transfer" => prog[p] # "transfer_cw20"
        BY <2>2, Plans
      <4> QED BY <2>2, <2>6, <3>1, <4>1 DEF Local, Purposeful, Owns
    <3> HIDE DEF c, n
    <3>5. R!Pay(p)
      BY <2>2, <2>5, <3>1, <3>3, <3>4 DEF R!Pay
    <3> QED BY <1>1, <2>2, <3>5 DEF RolloutStep, R!RolloutNext, PlanOf
  <2> QED BY <1>3, <2>7, <2>8, <2>9
<1> QED BY <1>2, <1>3

\* A run leaves the chain alone, but for what is pending.
LEMMA RunStepImplements ==
    ASSUME TracedInv, NEW r \in Runs, UNCHANGED env,
           RunStep(r) \/ (Kill(r) /\ UNCHANGED lookupVars)
    PROVE  RolloutStep
<1>1. Broadcast(r) \/ Advance(r)
  BY DeployStepAdvances, InstantiateStepAdvances, CheckBalanceStepAdvances,
     TransferStepAdvances, LookupStepAdvances, LibraryStepAdvances
  DEF TracedInv, IInv, Transactions, RunStep, SendingStep
<1>2. UNCHANGED <<codes, contracts, blocks>>
  BY <1>1 DEF Broadcast, Advance, chainVars
<1> QED BY <1>2, Idle DEF RolloutStep, env, Ours

LEMMA ChainStepImplements ==
    ASSUME TracedInv, ChainStep, UNCHANGED <<env, clientVars, lookupVars>>
    PROVE  RolloutStep
<1>1. CASE Include
  BY <1>1, IncludeImplements
<1>2. CASE LosePool
  BY <1>2, Idle DEF LosePool, RolloutStep, env, Ours
<1>3. CASE StrangerStores
  <2>1. prog' = prog /\ lib' = lib /\ PlanOf' = PlanOf /\ blocks' = blocks /\ contracts' = contracts
    BY <1>3 DEF StrangerStores, env, PlanOf, Plan
  <2>2. CarriedOut' = CarriedOut
    BY <2>1 DEF CarriedOut
  <2>3. R!PublishElsewhere
    BY <1>3, <2>1, <2>2 DEF StrangerStores, R!PublishElsewhere, CarriedOut
  <2> QED BY <2>1, <2>3 DEF RolloutStep, R!RolloutNext, PlanOf
<1> QED BY <1>1, <1>2, <1>3 DEF ChainStep

(***************************************************************************)
(* Every behaviour of scripts, client and chain is one of Rollout: runs    *)
(* carry out prefixes of their plans, each transaction once and in order.  *)
(***************************************************************************)
THEOREM RolloutImplemented == Spec => ImplementsRollout
<1>1. Init => R!RolloutInit
  <2> SUFFICES ASSUME Init PROVE R!RolloutInit
    OBVIOUS
  <2>1. blocks = <<>> /\ contracts = <<>>
    BY DEF Init, ChainInit
  <2>2. \A r \in Runs : Cardinality({i \in DOMAIN blocks : blocks[i].run = r /\ blocks[i].ok}) = 0
    BY <2>1, FS_EmptySet
  <2> QED BY <2>1, <2>2 DEF R!RolloutInit
<1>2. TracedInv /\ [Next]_vars => RolloutStep
  <2> SUFFICES ASSUME TracedInv, [Next]_vars PROVE RolloutStep
    OBVIOUS
  <2>1. CASE Next
    BY <2>1, RunStepImplements, ChainStepImplements DEF Next
  <2>2. CASE UNCHANGED vars
    <3>1. UNCHANGED <<prog, lib, codes, contracts, blocks>>
      BY <2>2 DEF vars, chainVars, env
    <3> QED BY <3>1, Idle DEF RolloutStep, Ours
  <2> QED BY <2>1, <2>2
<1> QED BY <1>1, <1>2, TracedInvariance, PTL DEF Spec, ImplementsRollout, R!RolloutSpec, RolloutStep

-----------------------------------------------------------------------------
(* Where a run goes from where it is.                                       *)

LibraryCourse ==
    {<<"simulate", "estimate">>, <<"estimate", "sign">>, <<"sign", "broadcast">>, <<"broadcast", "poll">>, <<"poll", "answered">>}

\* The ways a step of a run goes.
Moves(r) ==
    \/ pc[r] # "done" /\ pc'[r] = "done"
    \/ pc[r] = "start" /\ pc'[r] = "scan" /\ prog[r] = "find_latest_code"
    \/ pc[r] = "start" /\ pc'[r] = "connected" /\ prog[r] \notin {"none", "find_latest_code"}
    \/ pc[r] = "connected" /\ pc'[r] = "simulate" /\ Rank(msg'[r].type) >= 1
    \/ pc[r] = "connected" /\ pc'[r] = "list" /\ prog[r] \in {"get_code_from_tx", "query_code"}
    \/ /\ pc[r] = "scan" /\ pc'[r] = "scan" /\ scan[r] <= limit[r]
       /\ scan'[r] = scan[r] + 1 /\ limit'[r] = limit[r]
    \/ pc[r] = "answered" /\ pc'[r] = "simulate" /\ Rank(msg'[r].type) > Rank(msg[r].type)
    \/ <<pc[r], pc'[r]>> \in LibraryCourse /\ msg'[r] = msg[r]

LEMMA SenderMoves ==
    ASSUME TracedInv, NEW r \in Runs,
           DeployStep(r) \/ InstantiateStep(r) \/ CheckBalanceStep(r) \/ TransferStep(r)
    PROVE  Moves(r)
<1>1. pc \in [Runs -> Locations] /\ msg \in [Runs -> Message] /\ Local(r)
  BY DEF TracedInv, IInv, Typed, TypeOK, ClientTypeOK
<1> USE DEF Moves, Finish, Goto, Say, Send, Begin, Connect
<1>2. CASE DeployStep(r)
  <2>1. CASE DeployBegin(r)
    BY <1>1, <2>1 DEF DeployBegin
  <2>2. CASE DeployStoreCode(r)
    BY <1>1, <2>2, MessageFields DEF DeployStoreCode, Rank
  <2>3. CASE DeployStored(r)
    BY <1>1, <2>3, MessageFields DEF DeployStored, Rank
  <2>4. CASE DeployInstantiated(r)
    <3>1. Goto(r, "done") \/ Send(r, TransferMsg(LoggedId(r), 1))
      BY <2>4 DEF DeployInstantiated, ReportContract
    <3>2. Rank(TransferMsg(LoggedId(r), 1).type) = 3
      BY MessageFields DEF Rank
    <3> HIDE DEF Send, Goto
    <3>3. pc'[r] = "done" \/ (pc'[r] = "simulate" /\ Rank(msg'[r].type) = 3)
      BY <1>1, <3>1, <3>2 DEF Send, Goto
    <3> QED BY <2>4, <3>3 DEF DeployInstantiated, Rank
  <2>5. CASE DeployTransferred(r)
    BY <1>1, <2>5 DEF DeployTransferred
  <2> QED BY <1>2, <2>1, <2>2, <2>3, <2>4, <2>5 DEF DeployStep
<1>3. CASE InstantiateStep(r)
  <2>1. CASE InstantiateBegin(r)
    BY <1>1, <2>1 DEF InstantiateBegin
  <2>2. CASE InstantiateCode(r)
    BY <1>1, <2>2, MessageFields DEF InstantiateCode, Rank
  <2>3. CASE InstantiateAnswered(r)
    <3>1. Goto(r, "done") \/ Send(r, TransferMsg(LoggedAddress(r), 1))
      BY <2>3 DEF InstantiateAnswered, TryTransfer
    <3>2. Rank(TransferMsg(LoggedAddress(r), 1).type) = 3
      BY MessageFields DEF Rank
    <3> HIDE DEF Send, Goto
    <3>3. pc'[r] = "done" \/ (pc'[r] = "simulate" /\ Rank(msg'[r].type) = 3)
      BY <1>1, <3>1, <3>2 DEF Send, Goto
    <3> QED BY <2>3, <3>3 DEF InstantiateAnswered, Rank
  <2>4. CASE InstantiateTransferred(r)
    BY <1>1, <2>4 DEF InstantiateTransferred
  <2> QED BY <1>3, <2>1, <2>2, <2>3, <2>4 DEF InstantiateStep
<1>4. CASE CheckBalanceStep(r)
  <2>1. CASE CheckBalanceBegin(r)
    BY <1>1, <2>1 DEF CheckBalanceBegin
  <2>2. CASE CheckBalanceStoreCode(r)
    BY <1>1, <2>2, MessageFields DEF CheckBalanceStoreCode, Rank
  <2>3. CASE CheckBalanceStored(r)
    BY <1>1, <2>3, MessageFields DEF CheckBalanceStored, Rank
  <2>4. CASE CheckBalanceInstantiated(r)
    BY <1>1, <2>4 DEF CheckBalanceInstantiated
  <2> QED BY <1>4, <2>1, <2>2, <2>3, <2>4 DEF CheckBalanceStep
<1>5. CASE TransferStep(r)
  <2>1. CASE TransferBegin(r)
    <3>1. pc[r] = "start" /\ prog[r] = "transfer_cw20" /\ (Goto(r, "connected") \/ Goto(r, "done"))
      BY <2>1 DEF TransferBegin
    <3> QED BY <1>1, <3>1
  <2>2. CASE TransferSend(r)
    <3>1. msg[r].type \in MessageTypes /\ msg[r].type # "none"
      BY <1>1, <2>2 DEF TransferSend, Local, Placed, Message
    <3> QED BY <1>1, <2>2, <3>1 DEF TransferSend, Rank, MessageTypes
  <2>3. CASE TransferAnswered(r)
    BY <1>1, <2>3 DEF TransferAnswered
  <2> QED BY <1>5, <2>1, <2>2, <2>3 DEF TransferStep
<1> QED BY <1>2, <1>3, <1>4, <1>5

LEMMA ReaderMoves ==
    ASSUME TracedInv, NEW r \in Runs, LookupStep(r)
    PROVE  Moves(r)
<1>1. /\ pc \in [Runs -> Locations] /\ scan \in [Runs -> Nat]
  BY DEF TracedInv, IInv, Typed, TypeOK, ClientTypeOK, LookupTypeOK
<1> USE DEF Moves, Finish, Goto, Begin, Connect, Done, Failed
<1>2. CASE FindNext(r)
  BY <1>1, <1>2 DEF FindNext, clientVars
<1>3. CASE FindBegin(r) \/ FindReport(r)
  BY <1>1, <1>3 DEF FindBegin, FindReport
<1>4. CASE TxBegin(r) \/ TxRead(r) \/ TxList(r)
  BY <1>1, <1>4 DEF TxBegin, TxRead, TxReport, TxList
<1>5. CASE QueryCodeBegin(r) \/ QueryCodeInfo(r) \/ QueryCodeList(r)
  BY <1>1, <1>5 DEF QueryCodeBegin, QueryCodeInfo, QueryCodeList
<1>6. CASE ListBegin(r) \/ ListContracts(r) \/ BalanceBegin(r) \/ BalanceRead(r)
  BY <1>1, <1>6 DEF ListBegin, ListContracts, BalanceBegin, BalanceRead
<1>7. CASE QueryCw20Begin(r) \/ QueryCw20Ask(r)
  BY <1>1, <1>7 DEF QueryCw20Begin, QueryCw20Ask
<1> QED BY <1>2, <1>3, <1>4, <1>5, <1>6, <1>7 DEF LookupStep

LEMMA LibraryMoves ==
    ASSUME TracedInv, NEW r \in Runs, LibraryStep(r) \/ Kill(r)
    PROVE  Moves(r)
<1>1. pc \in [Runs -> Locations]
  BY DEF TracedInv, IInv, Typed, TypeOK, ClientTypeOK
<1> USE DEF Moves, LibraryCourse, Finish, Goto, Throw
<1>2. CASE Simulate(r) \/ Estimate(r) \/ Sign(r)
  BY <1>1, <1>2 DEF Simulate, Estimate, Sign
<1>3. CASE Broadcast(r)
  BY <1>1, <1>3 DEF Broadcast
<1>4. CASE Poll(r) \/ Timeout(r)
  BY <1>1, <1>4 DEF Poll, Timeout
<1>5. CASE Kill(r)
  BY <1>1, <1>5 DEF Kill
<1> QED BY <1>2, <1>3, <1>4, <1>5 DEF LibraryStep

\* A step concerns one run, which goes one of these ways, or none.
LEMMA StepMoves ==
    ASSUME TracedInv, [Next]_vars
    PROVE  /\ UNCHANGED env
           /\ \/ \E r \in Runs : /\ RunStep(r) \/ (Kill(r) /\ UNCHANGED lookupVars)
                                 /\ Moves(r) /\ Alone(r)
              \/ (ChainStep \/ UNCHANGED chainVars) /\ UNCHANGED <<clientVars, lookupVars>>
<1>1. IInv
  BY DEF TracedInv
<1>2. ASSUME NEW r \in Runs, RunStep(r) \/ (Kill(r) /\ UNCHANGED lookupVars)
      PROVE  Moves(r) /\ Alone(r)
  <2>1. CASE LookupStep(r)
    BY <1>1, <2>1, ReaderMoves, LookupStepAlone
  <2>2. CASE (SendingStep(r) \/ Kill(r)) /\ UNCHANGED lookupVars
    BY <1>1, <2>2, SendingStepAlone, SenderMoves, LibraryMoves DEF SendingStep
  <2> QED BY <1>2, <2>1, <2>2 DEF RunStep
<1>3. CASE UNCHANGED vars
  BY <1>3 DEF vars
<1>4. CASE ChainStep /\ UNCHANGED <<env, clientVars, lookupVars>>
  BY <1>4
<1>5. ASSUME NEW r \in Runs, RunStep(r) \/ (Kill(r) /\ UNCHANGED lookupVars), UNCHANGED env
      PROVE  \E q \in Runs : /\ RunStep(q) \/ (Kill(q) /\ UNCHANGED lookupVars)
                            /\ Moves(q) /\ Alone(q)
  BY <1>2, <1>5
<1> QED BY <1>3, <1>4, <1>5 DEF Next

-----------------------------------------------------------------------------
(* Every run ends: it goes on from wherever it is, and not for long.        *)

\* Each location of a run is one that its script leaves again; who waits for
\* an answer has it, waits for a transaction that the next block may include,
\* or waits for one that is lost and is timed out.
Handled(r) ==
    /\ pc[r] # "done" => prog[r] # "none"
    /\ pc[r] = "connected" => prog[r] # "find_latest_code"
    /\ pc[r] = "scan" => prog[r] = "find_latest_code"
    /\ pc[r] = "list" => prog[r] \in {"get_code_from_tx", "query_code"}
    /\ pc[r] \in InLibrary => \E i \in DOMAIN Plan(r) : Plan(r)[i] = msg[r].type
    /\ pc[r] = "poll" =>
        \/ \E i \in DOMAIN blocks : blocks[i].run = r /\ blocks[i].type = msg[r].type
        \/ \E tx \in pool : tx.run = r /\ tx.seq = nonce /\ tx.msg = msg[r]
        \/ Lost(r)
    /\ pc[r] = "answered" => at[r] \in DOMAIN blocks /\ blocks[at[r]].run = r

\* The part of it that a step has to keep.
Settled(r) ==
    /\ pc[r] # "done" => prog[r] # "none"
    /\ pc[r] = "connected" => prog[r] # "find_latest_code"
    /\ pc[r] = "scan" => prog[r] = "find_latest_code"
    /\ pc[r] = "list" => prog[r] \in {"get_code_from_tx", "query_code"}
    /\ pc[r] \in InLibrary => msg[r].type # "none"

LEMMA SettledHandled ==
    ASSUME TracedInv, NEW r \in Runs, Settled(r)
    PROVE  Handled(r)
<1>1. Local(r) /\ Answered /\ OneInFlight /\ PendingIsCurrent
  BY DEF TracedInv, IInv, Typed, Transactions, Traced
<1>2. pc[r] \in InLibrary => \E i \in DOMAIN Plan(r) : Plan(r)[i] = msg[r].type
  BY <1>1 DEF Settled, Local, Progressing
<1>3. ~ Lost(r) =>
        \/ \E i \in DOMAIN blocks : blocks[i].run = r /\ blocks[i].type = msg[r].type
        \/ \E tx \in pool : tx.run = r /\ tx.seq = nonce /\ tx.msg = msg[r]
  BY <1>1 DEF Lost, OneInFlight, PendingIsCurrent
<1> QED BY <1>1, <1>2, <1>3 DEF Settled, Handled, Answered

LEMMA SettledStep ==
    ASSUME TracedInv, \A r \in Runs : Settled(r), [Next]_vars
    PROVE  \A r \in Runs : Settled(r)'
<1>1. UNCHANGED env
  BY StepMoves
<1>2. ASSUME NEW r \in Runs, Moves(r), Alone(r), NEW q \in Runs
      PROVE  Settled(q)'
  <2>1. CASE q = r
    BY <1>1, <1>2, <2>1 DEF Settled, Moves, LibraryCourse, InLibrary, Rank, env
  <2>2. CASE q # r
    BY <1>1, <1>2, <2>2 DEF Settled, Alone, Same, env
  <2> QED BY <2>1, <2>2
<1>3. ASSUME UNCHANGED <<clientVars, lookupVars>>, NEW q \in Runs
      PROVE  Settled(q)'
  BY <1>1, <1>3 DEF Settled, env, clientVars
<1> QED BY <1>2, <1>3, StepMoves

(***************************************************************************)
(* No run gets stuck: wherever it is and whatever went wrong before, its   *)
(* script handles that location and the answer it holds, and whoever polls *)
(* has its answer, or a transaction the next block may include, or is      *)
(* timed out (the if-else chains of main in all scripts).                  *)
(***************************************************************************)
THEOREM NoRunIsStuck == Spec => [](\A r \in Runs : Handled(r))
<1>1. Init => \A r \in Runs : Settled(r)
  BY DEF Init, ClientInit, Settled, InLibrary
<1>2. TracedInv /\ (\A r \in Runs : Settled(r)) /\ [Next]_vars => (\A r \in Runs : Settled(r))'
  BY SettledStep
<1>3. TracedInv /\ (\A r \in Runs : Settled(r)) => \A r \in Runs : Handled(r)
  BY SettledHandled
<1> QED BY <1>1, <1>2, <1>3, TracedInvariance, PTL DEF Spec

\* At most that many steps are left of a run that has connected: at a location,
\* with a message of that rank, that far through the code ids.
StepsOf ==
    [simulate |-> 6, estimate |-> 5, sign |-> 4, broadcast |-> 3, poll |-> 2, answered |-> 1]

StepsFrom(location, rank, id, last) ==
    CASE location = "connected" -> 19
      [] location = "scan" -> IF id <= last THEN last - id + 2 ELSE 1
      [] location = "list" -> 1
      [] location \in InLibrary -> 6 * (3 - rank) + StepsOf[location]
      [] OTHER -> 0

Left(r) == StepsFrom(pc[r], Rank(msg[r].type), scan[r], limit[r])

Stays(q) == pc'[q] = pc[q] /\ Left(q)' = Left(q)

Nearer(r) == pc'[r] # "start" /\ (pc[r] = "start" \/ Left(r)' < Left(r))

StepCounts ==
    \/ \E r \in Runs : Nearer(r) /\ \A q \in Runs \ {r} : Stays(q)
    \/ ChainStep /\ \A q \in Runs : Stays(q)

\* Each way to go but the first leaves fewer steps.
LEMMA FewerSteps ==
    ASSUME NEW k \in 0..3, NEW k1 \in 0..3, NEW id \in Nat, NEW id1 \in Nat,
           NEW last \in Nat, NEW last1 \in Nat, NEW l \in Locations, NEW l1 \in Locations,
           \/ l \notin {"start", "done"} /\ l1 = "done"
           \/ l = "connected" /\ l1 = "simulate" /\ k1 >= 1
           \/ l = "connected" /\ l1 = "list"
           \/ l = "scan" /\ l1 = "scan" /\ id <= last /\ id1 = id + 1 /\ last1 = last
           \/ l = "answered" /\ l1 = "simulate" /\ k1 > k
           \/ <<l, l1>> \in LibraryCourse /\ k1 = k
    PROVE  StepsFrom(l1, k1, id1, last1) < StepsFrom(l, k, id, last)
BY DEF StepsFrom, StepsOf, InLibrary, Locations, LibraryCourse

LEMMA MovesNearer ==
    ASSUME TypeOK, TypeOK', NEW r \in Runs, Moves(r)
    PROVE  Nearer(r)
<1>1. /\ scan[r] \in Nat /\ limit[r] \in Nat /\ pc[r] \in Locations
      /\ scan'[r] \in Nat /\ limit'[r] \in Nat /\ pc'[r] \in Locations
  BY DEF TypeOK, ClientTypeOK, LookupTypeOK
<1>2. Rank(msg[r].type) \in 0..3 /\ Rank(msg'[r].type) \in 0..3
  BY DEF Rank
<1>3. CASE pc[r] = "start"
  BY <1>3 DEF Nearer, Moves, LibraryCourse
<1>4. CASE pc[r] # "start"
  <2>1. StepsFrom(pc'[r], Rank(msg'[r].type), scan'[r], limit'[r])
            < StepsFrom(pc[r], Rank(msg[r].type), scan[r], limit[r])
    <3>1. msg'[r] = msg[r] => Rank(msg'[r].type) = Rank(msg[r].type)
      OBVIOUS
    <3> QED BY <1>1, <1>2, <1>4, <3>1, FewerSteps DEF Moves
  <2>2. Left(r)' = StepsFrom(pc'[r], Rank(msg'[r].type), scan'[r], limit'[r])
    BY DEF Left, StepsFrom, Rank
  <2>3. pc'[r] # "start"
    BY <1>4 DEF Moves, LibraryCourse
  <2> QED BY <2>1, <2>2, <2>3 DEF Nearer, Left
<1> QED BY <1>3, <1>4

LEMMA OthersStay ==
    ASSUME TracedInv, NEW q \in Runs, UNCHANGED <<pc[q], msg[q], scan[q], limit[q]>>
    PROVE  Stays(q)
<1>1. TypeOK
  BY DEF TracedInv, IInv, Typed
<1> QED BY <1>1 DEF Stays, Left

(***************************************************************************)
(* Every step counts: each step takes one run closer to its end, which is  *)
(* bounded before the run connects, leaving all other runs where they are, *)
(* or is a step of the chain, which moves no run.  So no run goes round in *)
(* circles, and only that the bounded way is walked rests on fairness (the *)
(* loops over code ids and the polling of all scripts).                    *)
(***************************************************************************)
THEOREM EveryStepCounts == Spec => [][StepCounts]_vars
<1>1. ASSUME TracedInv, TracedInv', [Next]_vars
      PROVE  [StepCounts]_vars
  <2>1. TypeOK /\ TypeOK'
    BY <1>1 DEF TracedInv, IInv, Typed
  <2>2. ASSUME NEW r \in Runs, Moves(r), Alone(r)
        PROVE  StepCounts
    <3>1. Nearer(r)
      BY <2>1, <2>2, MovesNearer
    <3>2. ASSUME NEW q \in Runs \ {r}
          PROVE  Stays(q)
      BY <1>1, <2>2, OthersStay DEF Alone, Same
    <3> QED BY <3>1, <3>2 DEF StepCounts
  <2>3. ASSUME UNCHANGED <<clientVars, lookupVars>>, NEW q \in Runs
        PROVE  Stays(q)
    BY <1>1, <2>3, OthersStay DEF clientVars, lookupVars
  <2>4. CASE ChainStep /\ UNCHANGED <<clientVars, lookupVars>>
    BY <2>3, <2>4 DEF StepCounts
  <2>5. CASE UNCHANGED <<chainVars, env, clientVars, lookupVars>>
    BY <2>5 DEF vars
  <2>6. UNCHANGED env
    BY <1>1, StepMoves
  <2>7. CASE \E r \in Runs : Moves(r) /\ Alone(r)
    BY <2>2, <2>7
  <2> QED BY <1>1, <2>4, <2>5, <2>6, <2>7, StepMoves
<1> QED BY <1>1, TracedInvariance, PTL DEF Spec

-----------------------------------------------------------------------------
(* Overlapping deployments that nothing else disturbs: the one whose        *)
(* transaction is pending, or was the last to get into a block, goes on.    *)

Calm ==
    /\ faults = {} /\ "logs" \in lib
    /\ \A r \in Runs : prog[r] \in {"none", "deploy_cw20"}

Ahead(r) ==
    IF pool # {} THEN \E tx \in pool : tx.run = r
    ELSE IF blocks # <<>> THEN blocks[Len(blocks)].run = r
    ELSE prog[r] = "deploy_cw20"

Unhindered(r) ==
    \/ Misused(r)
    \/ exit[r] = "ok"
    \/ pc[r] \in {"start", "connected", "simulate", "sign", "answered"}
    \/ pc[r] \in {"estimate", "broadcast"} /\ seq[r] = nonce
    \/ pc[r] = "poll" /\ ~Lost(r)

\* What deploy_cw20.js sends is registered, and made for the file it stores.
Equipped(r) ==
    /\ prog[r] = "deploy_cw20" /\ pc[r] \notin {"start", "done"} =>
        registry[r] = {"store", "instantiate"}
    /\ msg[r].type = "store" => msg[r].body \in Tokens
    /\ msg[r].type = "instantiate" => msg[r].body = "cw20-base"

OwnTokens == \A c \in DOMAIN codes : codes[c].by \in Runs => codes[c].kind \in Tokens

\* The chain refuses transfers only, and what a misused script sends.
WellAnswered ==
    \A i \in DOMAIN blocks :
        blocks[i].ok \/ blocks[i].type = "transfer" \/ Misused(blocks[i].run)

Meant == \A tx \in pool : tx.msg.type # "none"

CalmInv ==
    /\ OwnTokens /\ WellAnswered /\ Meant
    /\ \A r \in Runs : Settled(r) /\ Equipped(r) /\ (Ahead(r) => Unhindered(r))

LEMMA NothingPendingEarly ==
    ASSUME TracedInv, NEW r \in Runs, pc[r] \in Early, NEW tx \in pool
    PROVE  tx.run # r
<1>1. pc[r] \in Early => SentBelow(r, Rank(msg[r].type))
  BY DEF TracedInv, IInv, Transactions, InOrder
<1>2. tx.msg = msg[tx.run]
  BY DEF TracedInv, Traced, PendingIsCurrent
<1>3. Rank(msg[r].type) \in Nat
  BY RankIsNat
<1> QED BY <1>1, <1>2, <1>3 DEF SentBelow

\* Who is ahead and has sent nothing since its last answer has the pool empty.
LEMMA AheadEarly ==
    ASSUME TracedInv, NEW r \in Runs, pc[r] \in Early, Ahead(r)
    PROVE  pool = {}
BY NothingPendingEarly DEF Ahead

LEMMA SendersDeploy ==
    ASSUME TracedInv, Calm, NEW r \in Runs, msg[r].type # "none"
    PROVE  prog[r] = "deploy_cw20" /\ Deploys(r)
<1>1. Placed(r)
  BY DEF TracedInv, Local
<1>2. Plan(r) # <<>>
  BY <1>1 DEF Placed
<1>3. prog[r] \in {"none", "deploy_cw20"}
  BY DEF Calm
<1> QED BY <1>2, <1>3, Plans DEF Deploys

LEMMA CodesHaveKinds ==
    ASSUME TypeOK, NEW c \in DOMAIN codes
    PROVE  codes[c].kind \in Kinds /\ codes[c].by \in Runs \cup {Stranger}
<1>1. codes[c] \in Code
  BY DEF TypeOK, ChainTypeOK
<1> QED BY <1>1 DEF Code

LEMMA BlocksHaveRuns ==
    ASSUME TypeOK, NEW i \in DOMAIN blocks
    PROVE  blocks[i].run \in Runs /\ blocks[i].type \in MessageTypes
<1>1. blocks[i] \in Result
  BY DEF TypeOK, ChainTypeOK
<1> QED BY <1>1 DEF Result

\* What a run that is not misused stores or instantiates, the chain executes.
LEMMA Works ==
    ASSUME TracedInv, Calm, CalmInv, NEW r \in Runs, ~Misused(r),
           msg[r].type \in {"store", "instantiate"}
    PROVE  Executes(msg[r])
<1>1. CASE msg[r].type = "store"
  BY <1>1 DEF Executes
<1>2. CASE msg[r].type = "instantiate"
  <2>1. Deploys(r) /\ Purposeful(r) /\ Equipped(r)
    BY <1>2, SendersDeploy DEF TracedInv, Local, CalmInv
  <2>2. /\ msg[r].ref \in DOMAIN codes
        /\ codes[msg[r].ref].by = r
    BY <1>2, <2>1 DEF Purposeful, Instantiating, Calm
  <2>3. codes[msg[r].ref].kind = "standart_cw20"
    BY <2>2 DEF CalmInv, OwnTokens, Tokens, Misused
  <2>4. msg[r].body = InitFormat[codes[msg[r].ref].kind]
    BY <1>2, <2>1, <2>3 DEF Equipped, InitFormat
  <2> QED BY <1>2, <2>2, <2>4 DEF Executes
<1> QED BY <1>1, <1>2

-----------------------------------------------------------------------------
\* What the steps of the others leave of a run, and of the chain.
LEMMA OthersCalm ==
    ASSUME CalmInv, NEW q \in Runs, Same(q), seq'[q] = seq[q], registry'[q] = registry[q],
           UNCHANGED <<codes, blocks, pool, nonce, env>>
    PROVE  Settled(q)' /\ Equipped(q)' /\ (Ahead(q) => Unhindered(q))'
<1>1. Settled(q) /\ Equipped(q) /\ (Ahead(q) => Unhindered(q))
  BY DEF CalmInv
<1>2. Settled(q)' /\ Equipped(q)'
  BY <1>1 DEF Settled, Equipped, Same, env
<1>3. Ahead(q)' = Ahead(q)
  BY DEF Ahead, env
<1>4. Misused(q)' = Misused(q) /\ Lost(q)' = Lost(q)
  BY DEF Misused, Lost, Same
<1>5. Unhindered(q) => Unhindered(q)'
  BY <1>4 DEF Unhindered, Same
<1> QED BY <1>1, <1>2, <1>3, <1>5

\* A step of a run that leaves the chain alone.
LEMMA QuietCalm ==
    ASSUME TracedInv, CalmInv, NEW r \in Runs, Alone(r), Settled(r)', Equipped(r)',
           \A q \in Runs \ {r} : seq'[q] = seq[q] /\ registry'[q] = registry[q],
           said[r] \subseteq said'[r],
           Ahead(r) => Unhindered(r)', UNCHANGED <<codes, blocks, pool, nonce, env>>
    PROVE  CalmInv'
<1>1. Ahead(r)' = Ahead(r)
  BY DEF Ahead, env
<1>2. \A q \in Runs \ {r} : Settled(q)' /\ Equipped(q)' /\ (Ahead(q) => Unhindered(q))'
  BY OthersCalm DEF Alone
<1>3. \A q \in Runs : Settled(q)' /\ Equipped(q)' /\ (Ahead(q) => Unhindered(q))'
  BY <1>1, <1>2
<1>4. OwnTokens' /\ Meant'
  BY DEF CalmInv, OwnTokens, Meant
<1>5. ASSUME NEW q \in Runs, Misused(q)
      PROVE  Misused(q)'
  <2>1. said[q] \subseteq said'[q]
    BY DEF Alone, Same
  <2> QED BY <1>5, <2>1 DEF Misused
<1>6. \A i \in DOMAIN blocks : blocks[i].run \in Runs
  BY BlocksHaveRuns DEF TracedInv, IInv, Typed
<1>7. WellAnswered'
  BY <1>5, <1>6 DEF CalmInv, WellAnswered
<1> QED BY <1>3, <1>4, <1>7 DEF CalmInv

LEMMA DeployCalm ==
    ASSUME TracedInv, Calm, CalmInv, NEW r \in Runs, DeployStep(r), Alone(r),
           UNCHANGED env, Settled(r)'
    PROVE  CalmInv'
<1>1. /\ pc \in [Runs -> Locations] /\ msg \in [Runs -> Message]
      /\ registry \in [Runs -> SUBSET MessageTypes] /\ said \in [Runs -> SUBSET Lines]
      /\ exit \in [Runs -> {"running", "ok", "failed", "killed"}]
  BY DEF TracedInv, IInv, Typed, TypeOK, ClientTypeOK
<1>2. /\ UNCHANGED <<codes, blocks, pool, nonce, env, seq>>
      /\ \A q \in Runs \ {r} : registry'[q] = registry[q]
  BY <1>1 DEF DeployStep, DeployBegin, DeployStoreCode, DeployStored, DeployInstantiated,
        DeployTransferred, Begin, Connect, chainVars
<1>3. Equipped(r) /\ Settled(r)
  BY DEF CalmInv
<1>4. faults = {} /\ "logs" \in lib
  BY DEF Calm
<1>5. pc[r] = "answered" /\ msg[r].type # "transfer" /\ ~blocks[at[r]].ok => Misused(r)
  BY DEF TracedInv, IInv, Typed, Answered, CalmInv, WellAnswered
<1> SUFFICES said[r] \subseteq said'[r] /\ Equipped(r)' /\ Unhindered(r)'
  BY <1>2, QuietCalm
<1> USE DEF Finish, Goto, Say, Send
<1>6. CASE DeployBegin(r)
  BY <1>1, <1>3, <1>4, <1>6 DEF DeployBegin, Begin, Connect, Equipped, Unhindered, Misused
<1>7. CASE DeployStoreCode(r)
  BY <1>1, <1>3, <1>7 DEF DeployStoreCode, StoreMsg, WasmChoice, Tokens, Equipped, Unhindered, Misused
<1>8. CASE DeployStored(r)
  <2>1. CASE ~blocks[at[r]].ok
    <3>1. pc'[r] = "done" /\ msg' = msg /\ said'[r] = said[r]
      BY <1>1, <1>8, <2>1 DEF DeployStored
    <3>2. Misused(r)'
      BY <1>2, <1>5, <1>8, <2>1, <3>1 DEF DeployStored, Misused
    <3> QED BY <1>3, <3>1, <3>2 DEF Equipped, Unhindered
  <2>2. CASE blocks[at[r]].ok
    <3>1. /\ said'[r] = said[r] \cup ({"stored"} \cup (IF LoggedId(r) = 0 THEN {"fallback"} ELSE {}))
          /\ msg'[r] = InstantiateMsg(CodeIdOrFallback(r), "cw20-base")
          /\ pc'[r] = "simulate" /\ registry' = registry
      BY <1>1, <1>8, <2>2 DEF DeployStored
    <3>2. msg'[r].type = "instantiate" /\ msg'[r].body = "cw20-base"
      BY <3>1 DEF InstantiateMsg
    <3> QED BY <1>3, <1>8, <3>1, <3>2 DEF DeployStored, Equipped, Unhindered, env
  <2> QED BY <2>1, <2>2
<1>9. CASE DeployInstantiated(r)
  <2>1. blocks[at[r]].ok => LoggedId(r) # 0
    BY <1>4, <1>9, GoodAnswer DEF TracedInv, DeployInstantiated, LoggedId
  <2>2. CASE ~blocks[at[r]].ok
    <3>1. pc'[r] = "done" /\ msg' = msg /\ said'[r] = said[r]
      BY <1>1, <1>9, <2>2 DEF DeployInstantiated
    <3>2. Misused(r)'
      BY <1>2, <1>5, <1>9, <2>2, <3>1 DEF DeployInstantiated, Misused
    <3> QED BY <1>3, <3>1, <3>2 DEF Equipped, Unhindered
  <2>3. CASE blocks[at[r]].ok
    <3>1. ReportContract(r, LoggedId(r)) /\ registry' = registry
      BY <1>9, <2>1, <2>3 DEF DeployInstantiated
    <3>2. said[r] \subseteq said'[r]
      <4>1. PICK lines : said' = [said EXCEPT ![r] = said[r] \cup lines]
        BY <3>1 DEF ReportContract
      <4> QED BY <1>1, <4>1
    <3>3. CASE "cosmwasm" \in lib
      <4>1. msg'[r] = TransferMsg(LoggedId(r), 1) /\ pc'[r] = "simulate"
        BY <1>1, <3>1, <3>3 DEF ReportContract
      <4>2. msg'[r].type = "transfer"
        BY <4>1, MessageFields
      <4> QED BY <1>3, <1>9, <3>1, <3>2, <4>1, <4>2 DEF DeployInstantiated, Equipped, Unhindered, env
    <3>4. CASE "cosmwasm" \notin lib
      <4>1. msg' = msg /\ pc'[r] = "done" /\ exit'[r] = "ok"
        BY <1>1, <3>1, <3>4 DEF ReportContract
      <4> QED BY <1>3, <3>2, <4>1 DEF Equipped, Unhindered
    <3> QED BY <3>3, <3>4
  <2> QED BY <2>2, <2>3
<1>10. CASE DeployTransferred(r)
  BY <1>1, <1>3, <1>10 DEF DeployTransferred, Equipped, Unhindered
<1> QED BY <1>6, <1>7, <1>8, <1>9, <1>10 DEF DeployStep

LEMMA LibraryCalm ==
    ASSUME TracedInv, Calm, CalmInv, NEW r \in Runs, LibraryStep(r), Alone(r),
           UNCHANGED <<env, lookupVars>>, Settled(r)', ~Broadcast(r)
    PROVE  CalmInv'
<1>1. /\ pc \in [Runs -> Locations] /\ said \in [Runs -> SUBSET Lines]
      /\ seq \in [Runs -> Nat]
      /\ exit \in [Runs -> {"running", "ok", "failed", "killed"}]
  BY DEF TracedInv, IInv, Typed, TypeOK, ClientTypeOK
<1>2. /\ UNCHANGED <<codes, blocks, pool, nonce, env, registry, msg>>
      /\ \A q \in Runs \ {r} : seq'[q] = seq[q]
  BY <1>1 DEF LibraryStep, Simulate, Estimate, Sign, Poll, Timeout, chainVars
<1>3. Equipped(r) /\ Settled(r) /\ (Ahead(r) => Unhindered(r))
  BY DEF CalmInv
<1>4. faults = {} /\ "logs" \in lib
  BY DEF Calm
<1>5. said[r] \subseteq said'[r]
  BY <1>1 DEF LibraryStep, Simulate, Estimate, Sign, Poll, Timeout, Throw, Finish, Say
<1>6. Equipped(r)'
  <2>1. pc'[r] \notin {"start", "done"} => pc[r] \notin {"start", "done"}
    BY <1>1 DEF LibraryStep, Simulate, Estimate, Sign, Poll, Timeout
  <2> QED BY <1>2, <1>3, <2>1 DEF Equipped, env
<1> SUFFICES ASSUME Ahead(r) PROVE Unhindered(r)'
  BY <1>2, <1>5, <1>6, QuietCalm
<1>7. pc[r] \in InLibrary => msg[r].type \in {"store", "instantiate", "transfer"} /\ prog[r] = "deploy_cw20"
  <2>1. msg[r].type \in MessageTypes
    BY DEF TracedInv, IInv, Typed, TypeOK, ClientTypeOK, Message
  <2> QED BY <1>3, <2>1, SendersDeploy DEF Settled, MessageTypes
<1>8. Misused(r) => Misused(r)'
  BY <1>2, <1>5 DEF Misused
<1>9. ASSUME Throw(r), pc[r] \in InLibrary, msg[r].type = "transfer"
      PROVE  Unhindered(r)'
  BY <1>1, <1>7, <1>9 DEF Throw, InTry, Finish, Unhindered
<1>10. CASE Simulate(r)
  <2>1. msg[r].type # "transfer" => Registered(r)
    BY <1>3, <1>7, <1>10 DEF Simulate, InLibrary, Equipped, Registered
  <2>2. CASE pc'[r] = "estimate" /\ seq'[r] = nonce
    BY <1>2, <2>2 DEF Unhindered
  <2>3. CASE Throw(r) /\ ~Registered(r)
    BY <1>7, <1>9, <1>10, <2>1, <2>3 DEF Simulate, InLibrary
  <2> QED BY <1>1, <1>4, <1>10, <2>2, <2>3 DEF Simulate, Goto
<1>11. CASE Estimate(r)
  <2>1. pool = {}
    BY <1>11, AheadEarly DEF Estimate, Early
  <2>2. exit[r] # "ok" /\ nonce \in Nat /\ pc[r] = "estimate"
    BY <1>11 DEF Estimate, TracedInv, Local, Placed, IInv, Typed, TypeOK, ChainTypeOK
  <2>3. Misused(r) \/ Accepted(seq[r])
    <3>1. Cardinality(pool) = 0
      BY <2>1, FS_EmptySet
    <3> QED BY <1>3, <2>2, <3>1 DEF Unhindered, Accepted
  <2>4. Misused(r) \/ msg[r].type = "transfer" \/ Executes(msg[r])
    BY <1>7, <2>2, Works DEF InLibrary
  <2>5. CASE pc'[r] = "sign"
    BY <2>5 DEF Unhindered
  <2>6. CASE Throw(r) /\ (~Accepted(seq[r]) \/ ~Executes(msg[r]))
    BY <1>8, <1>9, <2>2, <2>3, <2>4, <2>6 DEF InLibrary, Unhindered
  <2> QED BY <1>1, <1>4, <1>11, <2>5, <2>6 DEF Estimate, Goto
<1>12. CASE Sign(r)
  BY <1>1, <1>2, <1>4, <1>12 DEF Sign, Goto, Unhindered
<1>13. CASE Poll(r)
  BY <1>1, <1>13 DEF Poll, Goto, Unhindered
<1>14. CASE Timeout(r)
  <2>1. Lost(r) /\ Throw(r) /\ pc[r] = "poll"
    BY <1>4, <1>14 DEF Timeout
  <2>2. exit[r] # "ok"
    BY <2>1 DEF TracedInv, Local, Placed
  <2> QED BY <1>3, <1>8, <2>1, <2>2 DEF Unhindered
<1> QED BY <1>10, <1>11, <1>12, <1>13, <1>14 DEF LibraryStep

LEMMA BroadcastCalm ==
    ASSUME TracedInv, Calm, CalmInv, NEW r \in Runs, Broadcast(r), Alone(r),
           UNCHANGED <<env, lookupVars>>, Settled(r)'
    PROVE  CalmInv'
<1>1. /\ pc \in [Runs -> Locations] /\ said \in [Runs -> SUBSET Lines]
      /\ exit \in [Runs -> {"running", "ok", "failed", "killed"}] /\ seq \in [Runs -> Nat]
      /\ nonce \in Nat /\ seq[r] <= nonce
  BY DEF TracedInv, IInv, Typed, TypeOK, ClientTypeOK, ChainTypeOK, Transactions, SequencesPast
<1>2. /\ UNCHANGED <<codes, contracts, blocks, nonce, registry, msg, env>>
      /\ \A q \in Runs \ {r} : seq'[q] = seq[q]
  BY <1>1 DEF Broadcast
<1>3. Equipped(r) /\ Settled(r) /\ (Ahead(r) => Unhindered(r))
  BY DEF CalmInv
<1>4. pc[r] = "broadcast"
  BY DEF Broadcast
<1>5. said[r] \subseteq said'[r]
  BY <1>1 DEF Broadcast, Throw, Finish, Say
<1>6. Equipped(r)'
  <2>1. pc[r] \notin {"start", "done"}
    BY <1>4
  <2> QED BY <1>2, <1>3, <2>1 DEF Equipped, env
<1>7. msg[r].type \in {"store", "instantiate", "transfer"} /\ prog[r] = "deploy_cw20"
  <2>1. msg[r].type \in MessageTypes
    BY DEF TracedInv, IInv, Typed, TypeOK, ClientTypeOK, Message
  <2> QED BY <1>3, <1>4, <2>1, SendersDeploy DEF Settled, InLibrary, MessageTypes
<1>8. faults = {}
  BY DEF Calm
<1>9. CASE /\ Accepted(seq[r])
           /\ pool' = pool \cup {[run |-> r, seq |-> seq[r], msg |-> msg[r]]}
           /\ Goto(r, "poll") /\ UNCHANGED <<said, exit>>
  <2>1. pool = {}
    <3>1. IsFiniteSet(pool)
      BY DEF TracedInv, IInv, Transactions
    <3>2. Cardinality(pool) \in Nat
      BY <3>1, FS_CardinalityType
    <3>3. Cardinality(pool) = 0
      BY <1>1, <1>9, <3>2 DEF Accepted
    <3> QED BY <3>1, <3>3, FS_EmptySet
  <2>2. pool' = {[run |-> r, seq |-> seq[r], msg |-> msg[r]]}
    BY <1>9, <2>1
  <2>3. pool' # {} /\ \A tx \in pool' : tx.run = r /\ tx.msg = msg[r]
    BY <2>2
  <2>4. \A q \in Runs : Ahead(q)' <=> q = r
    BY <2>3 DEF Ahead
  <2>5. Unhindered(r)'
    BY <1>1, <1>9, <2>3 DEF Goto, Unhindered, Lost
  <2>6. \A q \in Runs \ {r} : Settled(q)' /\ Equipped(q)'
    BY <1>2 DEF CalmInv, Settled, Equipped, Alone, Same, env
  <2>7. OwnTokens'
    BY <1>2 DEF CalmInv, OwnTokens
  <2>8. Meant'
    BY <1>7, <2>3 DEF Meant
  <2>9. ASSUME NEW q \in Runs, Misused(q)
        PROVE  Misused(q)'
    BY <1>2, <1>9, <2>9 DEF Misused
  <2>10. WellAnswered'
    <3>1. \A i \in DOMAIN blocks : blocks[i].run \in Runs
      BY BlocksHaveRuns DEF TracedInv, IInv, Typed
    <3> QED BY <1>2, <2>9, <3>1 DEF CalmInv, WellAnswered
  <2> QED BY <1>6, <2>4, <2>5, <2>6, <2>7, <2>8, <2>10 DEF CalmInv
<1>10. CASE ~Accepted(seq[r]) /\ Throw(r) /\ UNCHANGED pool
  <2>1. ASSUME Ahead(r)
        PROVE  Unhindered(r)'
    <3>1. pool = {}
      BY <1>4, <2>1, AheadEarly DEF Early
    <3>2. seq[r] # nonce
      <4>1. Cardinality(pool) = 0
        BY <3>1, FS_EmptySet
      <4> QED BY <1>1, <1>10, <4>1 DEF Accepted
    <3>3. exit[r] # "ok"
      BY <1>4 DEF TracedInv, Local, Placed
    <3>4. Misused(r)
      BY <1>3, <1>4, <2>1, <3>2, <3>3 DEF Unhindered
    <3>5. Misused(r)'
      BY <1>2, <1>5, <3>4 DEF Misused
    <3> QED BY <3>5 DEF Unhindered
  <2> QED BY <1>2, <1>5, <1>6, <1>10, <2>1, QuietCalm
<1> QED BY <1>8, <1>9, <1>10 DEF Broadcast

LEMMA IncludeCalm ==
    ASSUME TracedInv, Calm, CalmInv, Include, UNCHANGED <<env, clientVars, lookupVars>>
    PROVE  CalmInv'
<1>1. PICK tx \in pool :
        /\ tx.seq = nonce /\ pool' = pool \ {tx}
        /\ \/ Executes(tx.msg) /\ (CommitStore(tx) \/ CommitInstantiate(tx) \/ CommitTransfer(tx))
           \/ Refuse(tx)
  BY DEF Include
<1>2. pool = {tx} /\ pool' = {}
  BY <1>1 DEF TracedInv, IInv, Transactions, OneInFlight
<1>3. tx.run \in Runs /\ tx.msg = msg[tx.run] /\ tx.msg.type # "none"
  <2>1. tx \in Tx
    BY DEF TracedInv, IInv, Typed, TypeOK, ChainTypeOK
  <2> QED BY <2>1 DEF Tx, TracedInv, Traced, PendingIsCurrent, CalmInv, Meant
<1>4. TypeOK /\ faults = {}
  BY DEF TracedInv, IInv, Typed, Calm
<1>5. blocks \in Seq(Result) /\ codes \in Seq(Code)
  BY <1>4 DEF TypeOK, ChainTypeOK
<1>6. PICK ok \in BOOLEAN : \E made : Record(tx, ok, made)
  BY <1>1 DEF CommitStore, CommitInstantiate, CommitTransfer, Refuse
<1>7. /\ Len(blocks') = Len(blocks) + 1 /\ blocks' # <<>> /\ DOMAIN blocks \subseteq DOMAIN blocks'
      /\ DOMAIN blocks' = 1..Len(blocks')
      /\ \A i \in DOMAIN blocks : blocks'[i] = blocks[i]
      /\ blocks'[Len(blocks')].run = tx.run /\ blocks'[Len(blocks')].type = tx.msg.type
      /\ blocks'[Len(blocks')].ok = ok
      /\ \A i \in DOMAIN blocks' : i \in DOMAIN blocks \/ i = Len(blocks')
  BY <1>5, <1>6 DEF Record
<1>8. OwnTokens' /\ DOMAIN codes \subseteq DOMAIN codes' /\ \A c \in DOMAIN codes : codes'[c] = codes[c]
  <2>1. CASE CommitStore(tx)
    <3>1. msg[tx.run].type = "store" /\ msg[tx.run].body \in Tokens
      BY <1>3, <2>1 DEF CommitStore, CalmInv, Equipped
    <3>2. codes' = Append(codes, [kind |-> msg[tx.run].body, by |-> tx.run])
      BY <1>3, <2>1 DEF CommitStore
    <3> QED BY <1>5, <3>1, <3>2 DEF CalmInv, OwnTokens
  <2>2. CASE codes' = codes
    BY <2>2 DEF CalmInv, OwnTokens
  <2> QED BY <1>1, <2>1, <2>2 DEF CommitInstantiate, CommitTransfer, Refuse
<1>9. ASSUME NEW q \in Runs, Misused(q)
      PROVE  Misused(q)'
  BY <1>8, <1>9 DEF Misused, clientVars
<1>10. ok \/ tx.msg.type = "transfer" \/ Misused(tx.run)
  <2>1. CASE Refuse(tx)
    <3>1. ~Executes(msg[tx.run])
      BY <1>3, <1>4, <2>1 DEF Refuse
    <3>2. msg[tx.run] \in Message
      BY <1>3, <1>4 DEF TypeOK, ClientTypeOK
    <3> QED BY <1>3, <3>1, <3>2, Works DEF Message, MessageTypes
  <2>2. CASE CommitStore(tx) \/ CommitInstantiate(tx) \/ CommitTransfer(tx)
    <3>1. blocks'[Len(blocks')].ok = TRUE
      BY <1>5, <2>2 DEF CommitStore, CommitInstantiate, CommitTransfer, Record
    <3> QED BY <1>7, <3>1
  <2> QED BY <1>1, <2>1, <2>2
<1>11. WellAnswered'
  <2> SUFFICES ASSUME NEW i \in DOMAIN blocks'
               PROVE  (blocks[i].ok \/ blocks[i].type = "transfer" \/ Misused(blocks[i].run))'
    BY DEF WellAnswered
  <2>1. CASE i \in DOMAIN blocks
    <3>1. PICK q \in Runs : q = blocks[i].run
      BY <1>4, <2>1, BlocksHaveRuns
    <3>2. Misused(q) => Misused(q)'
      BY <1>9
    <3>3. blocks[i].ok \/ blocks[i].type = "transfer" \/ Misused(q)
      BY <2>1, <3>1 DEF CalmInv, WellAnswered
    <3>4. blocks'[i] = blocks[i]
      BY <1>7, <2>1
    <3> QED BY <3>1, <3>2, <3>3, <3>4 DEF Misused
  <2>2. CASE i = Len(blocks')
    <3>1. Misused(tx.run) => Misused(tx.run)'
      BY <1>3, <1>9
    <3> QED BY <1>7, <1>10, <2>2, <3>1 DEF Misused
  <2> QED BY <1>7, <2>1, <2>2
<1>12. \A q \in Runs : Settled(q)' /\ Equipped(q)'
  BY DEF CalmInv, Settled, Equipped, env, clientVars
<1>13. ASSUME NEW q \in Runs, Ahead(q)'
       PROVE  Unhindered(q)'
  <2>1. q = tx.run
    BY <1>2, <1>7, <1>13 DEF Ahead
  <2>2. Ahead(q)
    BY <1>2, <2>1 DEF Ahead
  <2>3. pc[q] \notin Early
    BY <2>1, NothingPendingEarly
  <2>4. ~Lost(q)'
    BY <1>3, <1>7, <2>1 DEF Lost, clientVars
  <2> QED BY <1>9, <2>2, <2>3, <2>4 DEF CalmInv, Unhindered, Early, Fresh, clientVars
<1> QED BY <1>2, <1>8, <1>11, <1>12, <1>13 DEF CalmInv, Meant

LEMMA StrangerCalm ==
    ASSUME TracedInv, Calm, CalmInv, StrangerStores, UNCHANGED <<env, clientVars, lookupVars>>
    PROVE  CalmInv'
<1>1. PICK k \in Kinds : codes' = Append(codes, [kind |-> k, by |-> Stranger])
  BY DEF StrangerStores
<1>2. TypeOK /\ codes \in Seq(Code)
  BY DEF TracedInv, IInv, Typed, TypeOK, ChainTypeOK
<1>3. /\ DOMAIN codes \subseteq DOMAIN codes' /\ \A c \in DOMAIN codes : codes'[c] = codes[c]
      /\ \A c \in DOMAIN codes' : c \in DOMAIN codes \/ codes'[c].by = Stranger
  BY <1>1, <1>2
<1>4. OwnTokens'
  BY <1>3, ChainAssumption DEF CalmInv, OwnTokens
<1>5. ASSUME NEW q \in Runs, Misused(q)
      PROVE  Misused(q)'
  BY <1>3, <1>5 DEF Misused, clientVars
<1>6. UNCHANGED <<contracts, nonce, pool, blocks>>
  BY DEF StrangerStores
<1>7. WellAnswered' /\ Meant'
  <2>1. \A i \in DOMAIN blocks : blocks[i].run \in Runs
    BY <1>2, BlocksHaveRuns
  <2> QED BY <1>5, <1>6, <2>1 DEF CalmInv, WellAnswered, Meant
<1>8. ASSUME NEW q \in Runs
      PROVE  Settled(q)' /\ Equipped(q)' /\ (Ahead(q) => Unhindered(q))'
  <2>1. Settled(q)' /\ Equipped(q)'
    BY DEF CalmInv, Settled, Equipped, env, clientVars
  <2>2. Ahead(q)' = Ahead(q) /\ Lost(q)' = Lost(q)
    BY <1>6 DEF Ahead, Lost, env, clientVars
  <2>3. Unhindered(q) => Unhindered(q)'
    BY <1>5, <1>6, <2>2 DEF Unhindered, clientVars
  <2> QED BY <2>1, <2>2, <2>3 DEF CalmInv
<1> QED BY <1>4, <1>7, <1>8 DEF CalmInv

LEMMA StepCalm ==
    ASSUME TracedInv, Calm, CalmInv, [Next]_vars
    PROVE  CalmInv' /\ Calm'
<1>1. UNCHANGED env
  BY StepMoves
<1>2. \A r \in Runs : Settled(r)'
  BY <1>1, SettledStep DEF CalmInv
<1>3. Calm'
  BY <1>1 DEF Calm, env
<1>4. CASE UNCHANGED vars
  <2>1. UNCHANGED <<codes, pool, blocks, nonce, faults, lib, prog, pc, registry, msg, seq, said, exit>>
    BY <1>4 DEF vars, chainVars, env, clientVars
  <2>2. (\A r \in Runs : Settled(r) /\ Equipped(r))' /\ OwnTokens' /\ Meant'
    BY <2>1 DEF CalmInv, Settled, Equipped, OwnTokens, Meant
  <2>3. \A r : Misused(r)' = Misused(r)
    BY <2>1 DEF Misused
  <2>4. WellAnswered'
    BY <2>1, <2>3 DEF CalmInv, WellAnswered, Misused
  <2>5. ASSUME NEW r \in Runs
        PROVE  Ahead(r)' = Ahead(r) /\ Lost(r)' = Lost(r)
    BY <2>1 DEF Ahead, Lost
  <2>6. \A r \in Runs : Unhindered(r) => Unhindered(r)'
    BY <2>1, <2>3, <2>5 DEF Unhindered
  <2> QED BY <1>3, <2>2, <2>4, <2>5, <2>6 DEF CalmInv
<1>5. CASE ChainStep /\ UNCHANGED <<env, clientVars, lookupVars>>
  <2>1. ~LosePool
    BY DEF Calm, LosePool
  <2> QED BY <1>3, <1>5, <2>1, IncludeCalm, StrangerCalm DEF ChainStep
<1>6. ASSUME NEW r \in Runs, RunStep(r) \/ (Kill(r) /\ UNCHANGED lookupVars)
      PROVE  CalmInv'
  <2>1. prog[r] \in {"none", "deploy_cw20"} /\ faults = {}
    BY DEF Calm
  <2>2. ~LookupStep(r)
    BY <2>1 DEF LookupStep, FindBegin, FindNext, FindReport, TxBegin, TxRead, TxList, QueryCodeBegin,
        QueryCodeInfo, QueryCodeList, ListBegin, ListContracts, QueryCw20Begin, QueryCw20Ask,
        BalanceBegin, BalanceRead, Begin
  <2>3. ~(InstantiateStep(r) \/ CheckBalanceStep(r) \/ TransferStep(r) \/ Kill(r))
    BY <2>1 DEF InstantiateStep, InstantiateBegin, InstantiateCode, InstantiateAnswered,
        InstantiateTransferred, CheckBalanceStep, CheckBalanceBegin, CheckBalanceStoreCode,
        CheckBalanceStored, CheckBalanceInstantiated, TransferStep, TransferBegin, TransferSend,
        TransferAnswered, Begin, Kill
  <2>4. Alone(r) /\ UNCHANGED lookupVars
    BY <1>6, <2>2, <2>3, SendingStepAlone DEF RunStep, TracedInv
  <2> QED BY <1>1, <1>2, <1>6, <2>2, <2>3, <2>4, DeployCalm, LibraryCalm, BroadcastCalm
        DEF RunStep, SendingStep
<1> QED BY <1>1, <1>3, <1>4, <1>5, <1>6 DEF Next

LEMMA CalmInvariance == Spec => [](Calm => CalmInv)
<1>1. Init /\ Calm => CalmInv
  <2> SUFFICES ASSUME Init, Calm PROVE CalmInv
    OBVIOUS
  <2>1. OwnTokens
    BY ChainAssumption DEF Init, ChainInit, OwnTokens
  <2> QED BY <2>1 DEF Init, ChainInit, ClientInit, CalmInv, WellAnswered, Meant, Settled, Equipped,
        Ahead, Unhindered, InLibrary, NoMsg
<1>2. TracedInv /\ (Calm => CalmInv) /\ [Next]_vars => (Calm => CalmInv)'
  <2> SUFFICES ASSUME TracedInv, Calm => CalmInv, [Next]_vars, Calm'
               PROVE  CalmInv'
    OBVIOUS
  <2>1. Calm
    BY StepMoves DEF Calm, env
  <2> QED BY <2>1, StepCalm
<1> QED BY <1>1, <1>2, TracedInvariance, PTL DEF Spec

(***************************************************************************)
(* When nothing but other runs of deploy_cw20.js disturbs it, the run      *)
(* whose transaction is pending, or got into a block last, never fails:    *)
(* its script has been misused, or goes on with a message the chain will   *)
(* accept and execute.  However the runs interleave, it is never the one   *)
(* that is turned away (main and signAndBroadcast of deploy_cw20.js, and   *)
(* the one MNEMONIC of its workflows).                                     *)
(***************************************************************************)
THEOREM WhoIsAheadGoesOn == Spec => [](Calm => \A r \in Runs : Ahead(r) => Unhindered(r))
<1>1. (Calm => CalmInv) => (Calm => \A r \in Runs : Ahead(r) => Unhindered(r))
  BY DEF CalmInv
<1> QED BY <1>1, CalmInvariance, PTL

(***************************************************************************)
(* So overlapping deployments cannot all fail because of each other: once  *)
(* all runs have ended, one has succeeded, or was not started properly.    *)
(***************************************************************************)
THEOREM OneDeploymentGoesThrough ==
    Spec => [](/\ faults = {} /\ "logs" \in lib
               /\ {"deploy_cw20"} = {prog[r] : r \in Runs} \ {"none"}
               /\ \A r \in Runs : pc[r] = "done"
               => \E r \in Runs : exit[r] = "ok" \/ Misused(r))
<1>1. ASSUME TypeOK, Calm => CalmInv, faults = {}, "logs" \in lib,
             {"deploy_cw20"} = {prog[r] : r \in Runs} \ {"none"},
             \A r \in Runs : pc[r] = "done"
      PROVE  \E r \in Runs : exit[r] = "ok" \/ Misused(r)
  <2>1. Calm
    BY <1>1 DEF Calm
  <2>2. PICK r \in Runs : Ahead(r)
    <3>1. CASE pool # {}
      <4>1. PICK tx \in pool : TRUE
        BY <3>1
      <4>2. tx.run \in Runs
        BY <1>1 DEF TypeOK, ChainTypeOK, Tx
      <4> QED BY <3>1, <4>2 DEF Ahead
    <3>2. CASE pool = {} /\ blocks # <<>>
      <4>1. Len(blocks) \in DOMAIN blocks
        BY <1>1, <3>2 DEF TypeOK, ChainTypeOK
      <4>2. blocks[Len(blocks)].run \in Runs
        BY <1>1, <4>1, BlocksHaveRuns
      <4> QED BY <3>2, <4>2 DEF Ahead
    <3>3. CASE pool = {} /\ blocks = <<>>
      <4>1. PICK r \in Runs : prog[r] = "deploy_cw20"
        BY <1>1
      <4> QED BY <3>3, <4>1 DEF Ahead
    <3> QED BY <3>1, <3>2, <3>3
  <2>3. Unhindered(r)
    BY <1>1, <2>1, <2>2 DEF CalmInv
  <2> QED BY <1>1, <2>3 DEF Unhindered
<1> QED BY <1>1, CalmInvariance, ScriptsTypeCorrect, PTL

-----------------------------------------------------------------------------
(* What the documentation says holds with the client it was written for.    *)

(***************************************************************************)
(* With a client whose answers have the field logs, no deployment ever     *)
(* instantiates a code that it has not stored itself: what the README of   *)
(* the workflows says is true of every client but the installed one        *)
(* (deploy_cw20.js:106-124).                                               *)
(***************************************************************************)
THEOREM WithLogsDeployedCodeIsOwn == Spec => []("logs" \in lib => DeployedCodeIsOwn)
<1>1. TypeOK /\ TracedInv /\ ForeignOnlyAfterFallback => ("logs" \in lib => DeployedCodeIsOwn)
  <2> SUFFICES ASSUME TypeOK, TracedInv, ForeignOnlyAfterFallback, "logs" \in lib,
                      NEW i \in DOMAIN contracts, Deploys(contracts[i].by)
               PROVE  codes[contracts[i].code].by = contracts[i].by
    BY DEF DeployedCodeIsOwn
  <2>1. contracts[i] \in Contract
    BY DEF TypeOK, ChainTypeOK
  <2>2. contracts[i].by \in Runs
    BY <2>1 DEF Contract
  <2>3. "fallback" \notin said[contracts[i].by]
    BY <2>2 DEF TracedInv, Local, Purposeful
  <2> QED BY <2>3 DEF ForeignOnlyAfterFallback
<1> QED BY <1>1, ScriptsTypeCorrect, TracedInvariance, NoSilentForeignCode, PTL

\* Only a search that is over and has found nothing says that there is none.
SearchedInVain(r) ==
    "no codes" \in said[r] =>
        /\ pc[r] = "done" /\ exit[r] = "ok"
        /\ prog[r] = "find_latest_code" /\ found[r] = <<>>

SaysOther(r) == "no codes" \in said'[r] => "no codes" \in said[r]

LEMMA WhatSaysOther ==
    ASSUME TypeOK, NEW r \in Runs
    PROVE  /\ UNCHANGED said => SaysOther(r)
           /\ \A lines : Say(r, lines) /\ "no codes" \notin lines => SaysOther(r)
           /\ \A how, lines : Finish(r, how, lines) /\ "no codes" \notin lines => SaysOther(r)
           /\ Throw(r) => SaysOther(r)
           /\ \A p, types, next : Begin(r, p, types, next) => SaysOther(r)
<1>1. said \in [Runs -> SUBSET Lines]
  BY DEF TypeOK, ClientTypeOK
<1>2. UNCHANGED said => SaysOther(r)
  BY DEF SaysOther
<1>3. \A lines : Say(r, lines) /\ "no codes" \notin lines => SaysOther(r)
  BY <1>1 DEF SaysOther, Say
<1>4. \A how, lines : Finish(r, how, lines) /\ "no codes" \notin lines => SaysOther(r)
  BY <1>3 DEF Finish
<1>5. "no codes" \notin {} /\ "no codes" \notin {"usage"} /\ "no codes" \notin {"transfer error"}
  OBVIOUS
<1> QED BY <1>2, <1>3, <1>4, <1>5 DEF Throw, Begin, Connect

LEMMA SendersSayOther ==
    ASSUME TypeOK, NEW r \in Runs, SendingStep(r) \/ Kill(r)
    PROVE  SaysOther(r)
<1>1. CASE LibraryStep(r) \/ Kill(r)
  BY <1>1, WhatSaysOther DEF LibraryStep, Simulate, Estimate, Sign, Broadcast, Poll, Timeout, Kill
<1>2. CASE DeployStep(r)
  BY <1>2, WhatSaysOther DEF DeployStep, DeployBegin, DeployStoreCode, DeployStored,
        DeployInstantiated, ReportContract, DeployTransferred
<1>3. CASE InstantiateStep(r)
  BY <1>3, WhatSaysOther DEF InstantiateStep, InstantiateBegin, InstantiateCode, InstantiateAnswered,
        TryTransfer, InstantiateTransferred
<1>4. CASE CheckBalanceStep(r)
  BY <1>4, WhatSaysOther DEF CheckBalanceStep, CheckBalanceBegin, CheckBalanceStoreCode,
        CheckBalanceStored, CheckBalanceInstantiated
<1>5. CASE TransferStep(r)
  BY <1>5, WhatSaysOther DEF TransferStep, TransferBegin, TransferSend, TransferAnswered
<1> QED BY <1>1, <1>2, <1>3, <1>4, <1>5 DEF SendingStep

LEMMA ReadersSayOther ==
    ASSUME TypeOK, NEW r \in Runs, LookupStep(r)
    PROVE  SaysOther(r) \/ (FindReport(r) /\ found[r] = <<>>)
<1> USE DEF Done, Failed
<1>1. CASE FindBegin(r) \/ FindNext(r) \/ FindReport(r)
  BY <1>1, WhatSaysOther DEF FindBegin, FindNext, FindReport, clientVars
<1>2. CASE TxBegin(r) \/ TxRead(r) \/ TxList(r)
  BY <1>2, WhatSaysOther DEF TxBegin, TxRead, TxReport, TxList
<1>3. CASE QueryCodeBegin(r) \/ QueryCodeInfo(r) \/ QueryCodeList(r)
  BY <1>3, WhatSaysOther DEF QueryCodeBegin, QueryCodeInfo, QueryCodeList
<1>4. CASE ListBegin(r) \/ ListContracts(r) \/ BalanceBegin(r) \/ BalanceRead(r)
  BY <1>4, WhatSaysOther DEF ListBegin, ListContracts, BalanceBegin, BalanceRead
<1>5. CASE QueryCw20Begin(r) \/ QueryCw20Ask(r)
  BY <1>5, WhatSaysOther DEF QueryCw20Begin, QueryCw20Ask
<1> QED BY <1>1, <1>2, <1>3, <1>4, <1>5 DEF LookupStep

LEMMA NothingListed ==
    ASSUME NEW s \in Seq(Nat), s = <<>>
    PROVE  {s[i] : i \in DOMAIN s} = {}
<1>1. \A i : i \notin DOMAIN s
  OBVIOUS
<1> QED BY <1>1

(***************************************************************************)
(* With a client that can query the wasm module, and no request failing,   *)
(* "No code IDs found created by your address" is true: up to the limit    *)
(* the account had stored none when the search began.  The documented      *)
(* claim fails through an answer the script did not get, and in no other   *)
(* way (find_latest_code.js:35-74).                                        *)
(***************************************************************************)
THEOREM AnsweredSearchIsTruthful ==
    Spec => []("wasm" \in lib /\ "network" \notin faults => NoCodesMeansNone)
<1>1. Init => \A r \in Runs : SearchedInVain(r)
  BY DEF Init, ClientInit, SearchedInVain
<1>2. TracedInv /\ (\A r \in Runs : SearchedInVain(r)) /\ [Next]_vars
      => (\A r \in Runs : SearchedInVain(r))'
  <2> SUFFICES ASSUME TracedInv, \A r \in Runs : SearchedInVain(r), [Next]_vars, NEW q \in Runs
               PROVE  SearchedInVain(q)'
    OBVIOUS
  <2>1. UNCHANGED env
    BY StepMoves
  <2>2. ASSUME UNCHANGED <<clientVars, lookupVars>>
        PROVE  SearchedInVain(q)'
    BY <2>1, <2>2 DEF SearchedInVain, clientVars, lookupVars, env
  <2>3. ASSUME NEW r \in Runs, RunStep(r) \/ (Kill(r) /\ UNCHANGED lookupVars), Moves(r), Alone(r)
        PROVE  SearchedInVain(q)'
    <3>1. TypeOK
      BY DEF TracedInv, IInv, Typed
    <3>2. CASE q # r
      BY <2>1, <2>3, <3>2 DEF SearchedInVain, Alone, Same, env
    <3>3. CASE q = r
      <4>1. pc[r] # "done"
        BY <2>3 DEF Moves, LibraryCourse
      <4>2. "no codes" \notin said[r]
        BY <4>1 DEF SearchedInVain
      <4>3. "no codes" \in said'[r] => FindReport(r) /\ found[r] = <<>>
        BY <2>3, <3>1, <4>2, SendersSayOther, ReadersSayOther DEF RunStep, SaysOther
      <4>4. FindReport(r) /\ found[r] = <<>> =>
                /\ pc'[r] = "done" /\ exit'[r] = "ok" /\ found'[r] = <<>>
                /\ prog'[r] = "find_latest_code"
        BY <2>1, <3>1 DEF FindReport, Done, Finish, Goto, TypeOK, ClientTypeOK, lookupVars, env
      <4> QED BY <3>3, <4>3, <4>4 DEF SearchedInVain
    <3> QED BY <3>2, <3>3
  <2> QED BY <2>2, <2>3, StepMoves
<1>3. TypeOK /\ LatestCodeIsOurs /\ (\A r \in Runs : SearchedInVain(r))
      => ("wasm" \in lib /\ "network" \notin faults => NoCodesMeansNone)
  <2> SUFFICES ASSUME TypeOK, LatestCodeIsOurs, \A r \in Runs : SearchedInVain(r),
                      "wasm" \in lib, "network" \notin faults,
                      NEW r \in Runs, "no codes" \in said[r]
               PROVE  before[r] \cap 1..limit[r] = {}
    BY DEF NoCodesMeansNone
  <2>1. before[r] \cap 1..limit[r] \subseteq Listed(r) /\ found[r] = <<>>
    BY DEF LatestCodeIsOurs, SearchedInVain
  <2>2. Listed(r) = {}
    <3>1. found[r] \in Seq(Nat)
      BY DEF TypeOK, LookupTypeOK
    <3> QED BY <2>1, <3>1, NothingListed DEF Listed
  <2> QED BY <2>1, <2>2
<1> QED BY <1>1, <1>2, <1>3, ScriptsTypeCorrect, TracedInvariance, LatestIsLatest, PTL DEF Spec

=============================================================================
