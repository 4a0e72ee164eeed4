# Formal models of the CosmWasm contracts and their deployment

The repository holds small CosmWasm contracts and the Node.js scripts that put
them on a chain. The contracts with the most at stake are those of
`staking_protocol/`: a token and a staking contract that calls it. The scripts
sign with one account, several of them at a time, over a network that loses
answers. This directory models both in TLA+, checks the models with TLC and
proves their safety properties with TLAPS.

Paths below are relative to the repository; `staking/` and `cw20-token/` stand
for `staking_protocol/contracts/staking/src/` and
`staking_protocol/contracts/cw20-token/src/`.

## Inventory

| component | state | operations | interacts with | what makes it correct |
|---|---|---|---|---|
| reward token, `cw20-token/contract.rs` | `BALANCES`, `ALLOWANCES`, `TOKEN_INFO` (supply, minter) | Transfer, Burn, Mint, Approve, TransferFrom, UpdateMinter | called by users and by the staking contract | supply = sum of balances; only the owner or an approved spender moves tokens; arithmetic never panics half-way |
| staking contract, `staking/contract.rs` | `CONFIG` (apr, lock-up), `STAKES` (amount, time), `TOTAL_STAKED`, ownership | Stake, Unstake, ClaimRewards, ChangeConfig, UpdateOwnership | sends TransferFrom, Mint, Transfer to the token | solvency; rewards are what was earned; lock-up; nobody is stuck |
| chain | stored state, block time, messages of the running transaction | execute the messages of a response in order, undo everything if one fails | runs all contracts | (assumed) |
| cw_ownable (external crate) | owner, pending owner, deadline | offer, accept, renounce | staking, cw20, counter | renouncing is final |
| stand-alone token, `cw20/src` | as the reward token, an owner in place of the minter | as the reward token, UpdateOwnership | users | implements the same token |
| counter, `my-first-contract/src` | `COUNT` (i32), ownership | Increment, Reset, UpdateOwnership | users | never negative; frozen once renounced |
| deployment scripts, `scripts/deploy_cw20.js`, `scripts/instantiate_cw20.js`, `check_balance/scripts/deploy_check_balance.js` | code id and address of one run | store code, read its id from the answer (or take a constant), instantiate, test transfer | client library, chain, the other runs' account | works with its own code and contract; sends nothing twice; the exit code is true |
| payment script, `scripts/transfer_cw20.js` | | look at the balance, transfer, look again | client library, chain | as above |
| query scripts, `scripts/find_latest_code.js`, `get_code_from_tx.js`, `query_code.js`, `list_contracts.js`, `query_cw20.js`, `check_balance/scripts/get_balance.js` | what was found so far | queries | client library, chain | what is printed is so, while deployments go on |
| workflows, `.github/workflows` | none | build, run the deployment, give up after 10 minutes | scripts, the account behind the secret `MNEMONIC` | runs that overlap do not harm each other |
| balance reader, `check_balance/src` | the deployer's address, written once | two queries | bank module | nothing that changes |
| `standart_cw20/src` | that of cw20-base | forwards to cw20-base | | nothing of its own |
| `scripts/test_rpc.js`, `check_node_version.js`, wasm build scripts | none | independent requests, tool calls | RPC node, build tools | |

What is hard here:

* **Transactions of several contracts.** A handler of the staking contract
  writes its own storage first and only then the token runs; any message may be
  refused, and then all of it must be gone.
* **Redundant books.** `TOTAL_STAKED` duplicates the sum of `STAKES`,
  `total_supply` that of `BALANCES`, and the token balance of the staking
  contract must cover `TOTAL_STAKED`. No code compares them.
* **One time for many deposits.** A stake remembers one time; claims, partial
  withdrawals, top-ups and changes of the apr all meet in it.
* **Arithmetic.** Unchecked `+` and `unwrap` panic, which aborts the
  transaction; where a panic repeats, an account is stuck.
* **Roles.** Minter and owner change hands, lapse, and can be lost for good.
* **One account, many runs.** Scripts and workflow runs sign with the same key.
  They read its sequence number and send later, and whoever is second is
  refused.
* **Lost answers.** A broadcast whose answer is lost, a time-out while the
  transaction is pending, a node that forgets its pool, a job that is killed:
  the transaction may be in a block, reach one later, or never.
* **Silent catch clauses and constants.** A missing event, a client without a
  method and a missing code look the same to some scripts.
* **Kinds of client.** What an answer contains and which methods exist depends
  on the installed client library and on the chain.

## Modules

| module | models | composes |
|---|---|---|
| `Ledger` | a `Map<&Addr, Uint128>` as a total function, `Uint128` as an interval, the sum of a book | |
| `Cw20Token` | `cw20-token/contract.rs`, one action per handler | Ledger |
| `Allowances` | the token with the history of grants and draws | Cw20Token |
| `Ownable` | cw_ownable and block time | Ledger |
| `RewardMath` | `calculate_reward_apr` | Ledger |
| `Staking` | `staking/contract.rs`, one action per handler; returned messages are left in `outbox` | Ownable, RewardMath |
| `StakingProtocol` | both contracts and the chain's transactions | Cw20Token, Staking |
| `Vault` | abstract: what stakers are promised, one indivisible step per operation | Ledger |
| `VaultRefinement` | StakingProtocol implements Vault | StakingProtocol, Vault |
| `RewardHistory` | StakingProtocol with an auditor's history of rewards | StakingProtocol |
| `LiveProtocol` | StakingProtocol with fairness | StakingProtocol |
| `Cw20Ownable` | `cw20/src/contract.rs`, and that it implements Cw20Token | Ownable, Cw20Token |
| `Counter` | `my-first-contract/src/contract.rs` | Ownable |
| `Chain` | external: codes, contracts, the account's sequence number, pending transactions, blocks | |
| `Client` | a run of a script inside a call of the client library; how runs begin and end | Chain |
| `DeployCw20`, `InstantiateCw20`, `DeployCheckBalance`, `TransferCw20` | the script of that name, each action from one awaited answer to the next | Client |
| `Lookups` | the six scripts that only read | Client |
| `Rollout` | abstract: what runs promise about the chain, without client and network | |
| `Scripts` | any runs of all scripts on one chain; their properties; that they implement Rollout | all scripts, Rollout |
| `MCToken`, `MCCounter`, `MCScripts` | instances for TLC; the other runs need only a .cfg | |
| `Cw20TokenProofs`, `AllowancesProofs`, `StakingProtocolProofs`, `VaultProofs`, `RewardProofs`, `Cw20OwnableProofs`, `CounterProofs`, `ScriptsProofs` | lemmas and proofs | |

### How state and actions correspond to the contracts

* A map read with `unwrap_or_default()` is a total function. `STAKES` is read
  with `load`, so an entry with amount 0 differs from no entry: it is kept as
  `staked` and `stakeTime`, where `NoEntry` marks an absent entry. A Stake of
  amount 0 really creates such an entry, and the model does too.
* A handler that returns an error, or panics, changes nothing, because the
  chain discards its writes. So its conditions are the guards of its action,
  and the places where it may panic are guards as well: `Fits` for additions,
  `AccruedPanics` for the `checked_mul(..).unwrap()` of the reward. Whatever
  another contract must know about its success is an operator (`TransferOk`,
  `MintOk`, `TransferFromOk`).
* A message of a user to the staking contract is a transaction of several
  steps: `StakingTx` runs the handler, each `Dispatch` one message of `outbox`
  with the staking contract as sender, and `Revert` restores `committed` when a
  message is refused. No other action is enabled while `outbox` is not empty,
  as on the chain. UpdateMinter cannot occur inside such a transaction, so
  `minter` is not part of `committed`; neither are configuration and ownership.
* A transaction with several messages of a user is modelled as several
  transactions in a row: it leaves what its messages would leave one after the
  other in the same block, or, if one of them fails, nothing.
* `addr_validate` is left out: addresses are members of `Addr`. The sender of
  a user's message is never the staking contract, which has no other way to act
  than its handlers.
* Block time counts ticks, `TicksPerSec` to the second, and the contracts cut
  both times to seconds before they subtract, as `Timestamp::seconds` does.

### How state and actions correspond to the scripts

* A script runs alone between two `await`s, so an action is the code from one
  answer to the next, and `pc` says what the run awaits. Every start of a
  script is another member of `Runs`: a repeated run is another run.
* `signAndBroadcast` is not one step, in the library as installed
  (`node_modules/@cosmjs/stargate/build/signingstargateclient.js:179-190`).
  For the fee "auto", `Simulate` encodes the message (and finds an unregistered
  message type) and reads the sequence number, `Estimate` has the node execute
  the message with that number. `Sign` reads the sequence number again,
  `Broadcast` hands the transaction to the node, `Poll` finds it in a block,
  `Timeout` gives up after the 60 s of `stargateclient.js:254-262`. An error at
  any of them is a `Throw`: `main().catch` ends the run with 1, except inside
  the `try` around the test transfer.
* What the client offers is a set of features, the same for all runs of a
  behaviour: `logs` (parsed events in the answer, the only place where
  `deploy_cw20.js` and `deploy_check_balance.js` look), `jsonlog` (events in
  `rawLog`, where `get_code_from_tx.js` looks as well), `wasm` (the client
  answers wasm queries), `cosmwasm` (it has `execute` and
  `queryContractSmart`). The library `package.json` asks for and
  `node_modules` holds, `@cosmjs/stargate` 0.38.1, has at most `jsonlog`: its
  answers have `events` and `rawLog` (`stargateclient.js:266-276`), its queries
  are auth, bank, staking and tx (line 94). The other features are what the
  scripts were written for: `wasm` and `cosmwasm` are what the clients of
  `@cosmjs/cosmwasm` add, which no script uses; no installed client has `logs`.
  What is said about runs with these features is said about the scripts, beside
  a client that keeps its side of what they expect.
* Faults are a set too: `network` (a request fails, or its answer is lost after
  it had its effect), `timeout`, `kill`, `gas` (the estimate was too low),
  `restart` (the node loses its pending transactions). Without any fault runs
  still fail because of each other.
* A code id is a position in `codes`, an address one in `contracts`, a
  transaction hash one in `blocks`. `Stranger` is everybody else on the chain.
  Which artifacts exist, and what is given on the command line, is chosen by
  `\E` where the script looks.
* `before` is a history variable: the codes of the account when a search began.
* The steps inside the library are modelled from its source. Only the chain
  itself (`Chain`) is external, modelled from the messages the scripts send and
  the answers they wait for.

Operators whose comment begins with "Mutant" are wrong variants of the
definition after them, each a plausible bug. No specification uses them; they
document which mistake a property finds (see "mutants" in PROJECT.json).

## Runs

All runs but the last four of the table finish without an error.

| run | question | bounds |
|---|---|---|
| `token` | are the token's books consistent under every mixture of messages, is a renounced minter final, and what can an owner lose when approvals overwrite each other while the spender draws? | 2 accounts, 3 units, at most 2 units granted per pair |
| `protocol` | are both contracts' books consistent and is the pool solvent, through every failed or successful transaction; does a transaction ever lose a token; do transactions of several messages look indivisible? | 2 stakers, 3 units, 4 ticks of half a second, half a token of truncation |
| `governance` | who can close a lock-up that is over, who can free a stake whose reward overflows; are renounced terms final? | 2 stakers who both may own, 2 units, 3 ticks, 2 apr, 2 lock-ups, offers that lapse at tick 1 or never |
| `history` | are rewards what was earned, over sequences of claims, withdrawals and deposits? | 1 staker, 4 units, 4 ticks, 2 apr, half a token of truncation |
| `live` | is a staker whose lock-up is over served in the end; when does that depend on the minter? | 2 stakers, 8 units of which the minter mints at most 2, 3 ticks |
| `cw20_ownable` | does the stand-alone token keep the token's promise with an owner as minter? | 2 accounts, 2 units, 3 ticks |
| `counter` | does the count stay an i32 that is not negative, and freeze when renounced? | 3-bit integers, 3 ticks |
| `scripts` | what do overlapping runs leave on the chain, is what they print and how they end true, do they end? | 3 runs, of which one pair or two deployments and a search take place; 3 kinds of client; no fault, or all; 1 code of strangers |
| `topup_reward` | (violated) is a staker paid no more than the stake earned? | 1 staker, lock-up of 2 s |
| `topup_lockup` | (violated) do deposits stay for a lock-up period? | 1 staker, lock-up of 2 s |
| `foreign_code` | (violated) does a deployment instantiate what it built? | as `scripts`, installed library, no faults |
| `latest_code` | (violated) does "no codes" mean that there are none? | as `scripts`, installed library, no faults |

Why the bounds are enough. Every handler touches at most two accounts and the
staking contract, and two stakers are what it takes for one to use up the
other's principal. `MaxUint` is small on purpose: amounts reach it, so every
overflow guard is exercised. Amount 0 is among the inputs of the safety runs
because the code accepts it. Three ticks allow a deposit, a payout and a
payout of the remainder; with `TicksPerSec = 2` the run `protocol` also has
payouts after less than a second. The reward needs a denominator larger than 1
to be truncated and not much more: `BasisPoints = 2, Year = 1` in `history` and
`protocol`. In `protocol` this also keeps the reward of a token and a second
below a token, so that among 3 units there are partial withdrawals with and
without a reward as well as rewards that find the supply full.
`token` caps the sum of all grants of a pair (`MaxGranted`), `live` the supply
the minter creates by hand (`MintCap`); rewards are never capped.

In `scripts`, `Settings` (module `MCScripts`) lists which scripts run beside
each other. All runs meet in the account's sequence number, the pool and the
numbering of codes and contracts, and two runs suffice for every conflict over
these; a search is also put beside two deployments, so that codes appear both
before and after the place it has reached. `MaxCodes = 1` bounds the codes of
strangers, not those of the runs: a stranger's code may be the one the
constant of `deploy_cw20.js:122` names (`FallbackCode`, here 1), come between
two codes of the account, or be missing. `DefaultScan`, the 100 of
`find_latest_code.js:27`, is 2, so that the limit is reached. The theorems
about Scripts have none of these bounds, except that `Runs` share one library
and one set of faults.

`counter` switches the deadlock check off because after the owner has renounced
every message of the contract fails, and the model's time ends; the runs of
`MCScripts` because scripts end. In all other runs some account can always act,
and the check is on.

### The four violations

`topup_reward` and `topup_lockup` are one decision of `execute_stake` seen from
two sides: a deposit on an existing stake keeps the time of the first deposit
(`staking/contract.rs:99-101`). `PaidAtTheRate` fails: the new tokens are paid
for the time before they were deposited, while the tests
(`tests/integration.rs:322-329`) and the comment in `staking/state.rs:8` say
stake * yearly rate * time held. `DepositIsLockedUp` fails: the new tokens may
be taken out at once, although the lock-up period has not expired
(`staking/error.rs:16`). What does hold in all cases is `PaidWithinPeak`, and
for stakes without top-ups and with one apr, `PaidIsEarned`, exactly; such
stakes are also locked up as documented (`EvenDepositsAreLockedUp`).

`foreign_code`: with the library `package.json` asks for, answers have no
field `logs`. `deploy_cw20.js:110-124` then never finds the id of the code it
has just stored, warns, and instantiates the code with the constant id.
`.github/workflows/README.md:21-23` says that the workflow builds the contract
from the sources and deploys it. TLC's trace ends with the foreign contract on
the chain. The run itself then ends with 1 (`deploy_cw20.js:188-192`): the same
answers show no address either. So nothing is reported as deployed, and what
is left under the account is a contract nobody built. What does hold is
`ForeignOnlyAfterFallback`: it never happens without the warning.

`latest_code`: the catch clause of `find_latest_code.js:53-55` takes every
error for a missing code. With the same library every query throws a
TypeError, so the script reports that the account has no codes (line 73) and
exits with 0. What does hold, with a library that has the query and a network
that answers, is `LatestCodeIsOurs`.

### Fairness

`LiveProtocol` assumes weak fairness of `Dispatch \/ Revert`: a chain that has
begun a transaction runs it to its end, in the same block. And it assumes
strong fairness of each staker's own Unstake of a positive amount: the staker
keeps trying, and other transactions may come first every time, so the
withdrawal is enabled again and again rather than continuously. Nothing else is
fair: blocks may stop, nobody has to claim, no role has to move.
`MaturedStakeIsServed` needs the staking contract to be the minter; the code
does not arrange for that (the integration tests do, with
`set_staking_contract_minter`), and without it a withdrawal with a reward due
fails for ever. `NoRewardNeedsNoMinter` is the other half: while no reward is
due, the minter does not matter. Both need the reward product to fit: a stake
whose product overflows can neither be claimed nor withdrawn until the owner
lowers the apr (`StuckUntilRateFalls`). In `live` the amounts are such that it
fits; in a model with fewer units the property fails for this reason, as it
would near 2^128 on the chain.

`FairSpec` of `Scripts` assumes weak fairness of each run's own steps, because
a request is answered, fails or times out in the end, and of `Include`, because
blocks are made. `Kill`, `LosePool` and `StrangerStores` are not fair. Under
this, `EveryRunEnds`: no script waits for ever, even for a transaction the node
has lost, because the library's polling ends. And `SomeDeploymentSucceeds`:
without faults, runs of `deploy_cw20.js` that overlap may turn each other away
but not all of them fail, unless their artifacts are missing or of the wrong
kind.

## Proofs

`tlapm` proves every safety property the passing runs check, the safety that
the liveness properties rest on, and what remains true of the four claims the
violations refute; only `TotalIsSum` of `MCToken` is left to TLC, which
evaluates it. The theorems hold for any
accounts, any width of `Uint128`, any rates, lock-ups and times, any number of
runs, any library and any faults. They assume what the modules name: finitely
many addresses, `None` not an address, amounts that fit, positive
`BasisPoints`, `Year` and `TicksPerSec`, `Stranger` not a run, constants of the
scripts that are code ids.

| module | main results |
|---|---|
| `Cw20TokenProofs` | types, conservation of supply, a transfer never panics, Burn never fails half-way, no minter is final |
| `AllowancesProofs` | draws stay within grants; a balance falls only with its owner's consent |
| `StakingProtocolProofs` | types, both sums, `Solvent`, `Backed`, `PayoutNeverBounces`, `TotalCoversEachStake`, `PoolIsNeverApproved`, `EntriesArePast`; why a transaction is refused; a stake whose lock-up is over is admitted |
| `VaultProofs` | StakingProtocol implements Vault; `WealthIsKept`; the other action properties of StakingProtocol |
| `RewardProofs` | `PaidIsEarned`, `PaidWithinPeak`; the documented rate and lock-up for stakes without top-ups; claiming often never pays |
| `Cw20OwnableProofs` | types; the stand-alone token implements Cw20Token, its books are consistent and it never panics; a renounced supply never grows |
| `CounterProofs` | the count is never negative; a renounced count is frozen |
| `ScriptsProofs` | types, `OneInFlight`, `SentOnce`, the truth of ids, addresses, exit codes and reports; Scripts implements Rollout; no run is stuck or goes round in circles; overlapping deployments cannot all fail because of each other; the documented claims under their conditions |

**Token.** The lemmas at the start of `Cw20TokenProofs` show how `Total`
changes when a book is credited, debited or both. `Total` is a cardinality, the
number of units in the book, so that facts about finite sets suffice and no
induction over the accounts is needed (a fold would need one); `MCToken`
compares it with the fold. Types and conservation of supply are inductive
together: a credit cannot overflow because payer and recipient together hold
no more than the supply.

**Protocol.** `Solvent` is not inductive. It speaks of the stored state, but
what will be stored is decided while messages are outstanding. The inductive
invariant `IInv` adds: the token's invariant and the types (`TokenInv`,
`StakesSound`), `Backed` for the working copy with the messages still to run,
`PoolIsNeverApproved` (otherwise TransferFrom could take the pool's tokens),
and the same facts about `committed` (`StoreSound`), which are what `Revert`
falls back on. The proof has one lemma per action. The decisive steps are
`Dispatch`, one case for each list `Backed` allows, and `TokenTx`, where nobody
but the pool itself can lower the pool's balance.

**Refinement of Vault.** `Underway` says how the working copy of a transaction
that is still running follows from the stored state, one case for each handler
and each message that is left (`Depositing`, `Claiming`, `Leaving`). The last
`Dispatch` then is the vault's `Enter`, `Harvest` or `Leave`, and every other
step of the transaction a stutter. `WealthIsKept` rests on the same cases: over
the whole transaction the tokens of an account, staked and held, only change by
what was minted for it, so a deposit or a withdrawal that kept its books and
sent the wrong amount would show. The other action properties follow from the
same invariants; `StuckUntilRateFalls` needs that the reward product grows with
amount, time and rate.

**Rewards.** `Settled` and `Peaked` state, per staker and on the stored state,
what was paid, what the open window is worth and what was earned. A step of the
system is, for one staker, one of five (`Rests`, `Earns`, `Reterms`,
`Deposits`, `PaysOut`), and each has its lemma. The two truncating divisions of
`calculate_reward_apr` together lose less than one token (`DivisionsLose`).

**Stand-alone token.** The old owner's acceptance of an heir is the old minter's
UpdateMinter. That a renounced owner stays away needs `NoHeir`: no offer is
pending without an owner. `CounterProofs` needs the same. The refinement is put
to use at the end of the module: the theorems of `Cw20TokenProofs`,
instantiated with the owner as minter, are read back on the state of the
stand-alone token.

**Scripts.** A first invariant, `IInv`, has the types, that the answer a run
looks at is that of its own message, that one transaction is pending at most
and then carries the next sequence number, and that everything a run has sent
is of a lower rank (store, instantiate, transfer) than what it is about to
send; `SentOnce` follows from the ranks. A second one, `TracedInv`, follows
codes, contracts and answers back to the message they came from (`Truthful`,
`PendingIsCurrent`, `InstancesTraced`), and says of each run what its place in
the script and its outputs imply: which message it can have (`Placed`), that
the message refers to what the run chose and owns (`Purposeful`), that what
precedes it in the plan has succeeded (`Progressing`), that reports are those
of the transaction asked for (`TruthfulTx`), and what a search has seen
(`Searching`). There is one lemma per script, one for a step of another run
and one for a block. For Rollout, a block with a successful transaction is
`Publish`, `Launch` or `Pay`, since `Progressing` gives its place in the plan;
a stranger's store is `PublishElsewhere`, and all else is a stutter.

**What liveness rests on.** Liveness itself is out of the prover's reach. What is
proved for all values of the constants is the safety half of each argument;
only that enabled steps are taken (the fairness) is then left to TLC.

* `EveryRunEnds`: `NoRunIsStuck` says that wherever a run is, its script leaves
  that location again, and whoever polls has its answer, a transaction the next
  block may include, or a time-out. It follows from `TracedInv` (a pending
  transaction carries the next sequence number) and from `Settled`: a run is
  only ever at locations of its own script.
  `EveryStepCounts` gives the variant: every step takes one run nearer to its
  end and leaves the others where they are, or is a step of the chain and moves
  no run. `StepsFrom` counts the steps left by location, rank of the message
  and code ids still to be looked at. It has a bound once a run has connected;
  before, the length of the search is not known.
* `SomeDeploymentSucceeds`: `Calm` is the condition that only runs of
  `deploy_cw20.js` take place, without faults and with `logs`. The run whose
  transaction is pending, or was the last to get into a block, is `Ahead`.
  `WhoIsAheadGoesOn` says that it is never the one that is turned away: if it is
  about to send, the sequence number it read is still the right one. The
  inductive invariant is `CalmInv`: being ahead means being unhindered, the
  messages fit the artifacts (`Equipped`, `OwnTokens`), and the chain refuses
  only test transfers and what a misused script sends (`WellAnswered`).
  `OneDeploymentGoesThrough` follows, since when all runs have ended the one
  ahead has ended with 0.
* `MaturedStakeIsServed` and `NoRewardNeedsNoMinter`: `MaturedStakesAreAdmitted`
  says that no history of messages keeps the handler from accepting a
  withdrawal after the lock-up, and `RefusalsHaveCauses` that the transaction is
  then taken back only if the reward cannot be minted (no minter role, or no
  room in the supply). Deposits are refused for want of allowance or funds only.

**Documented claims under their conditions.** Each of the four violations refutes
a claim in general. These theorems say when it is true:

| violated | proved | condition |
|---|---|---|
| `PaidAtTheRate` | `EvenStakesKeepTheRate` | the stake was not topped up, nor the apr changed, while it ran |
| `DepositIsLockedUp` | `EvenDepositsAreLockedUp` | the same; the invariant `LastInBefore` says that the clock of such a stake starts no earlier than its latest deposit |
| `DeployedCodeIsOwn` | `WithLogsDeployedCodeIsOwn` | answers have the field `logs` |
| `NoCodesMeansNone` | `AnsweredSearchIsTruthful` | the client has the query, and no request fails; by the invariant `SearchedInVain` only a search that ended with nothing found says so, and `Searching` says what such a search has passed |

`ClaimingOftenNeverPays` is about the arithmetic alone: the truncation always
favours fewer claims, by one token at most for each split.

What stays with TLC: that the liveness properties (`MaturedStakeIsServed`,
`NoRewardNeedsNoMinter`, `EveryRunEnds`, `SomeDeploymentSucceeds`) follow under
fairness from the above.

## Not modelled

* Names, symbols, decimals, event attributes, JSON, and queries of the
  contracts apart from the reward they compute. Gas, except that a script's
  transaction may run out of it.
* `check_balance/src` writes one item at instantiate and answers two queries;
  `standart_cw20/src` forwards to cw20-base. There is no behaviour to check.
* `scripts/test_rpc.js` and `check_node_version.js` send independent requests
  and print the answers; nothing is decided from them. The build scripts and
  the build steps of the workflows call external tools. The workflows are
  modelled as overlapping runs of `deploy_cw20.js` that share an account and
  may be killed.
* `transfer_cw20.js` started again after a time-out pays again, if the first
  transfer is included later. Within a run `SentOnce` excludes that; a second
  run is a new order, as far as the script can know.

Seen while modelling, without a property: the usage example of
`transfer_cw20.js:50` has too few arguments for the check above it, and that
command ends with exit code 1; with the installed library
`get_code_from_tx.js` finds no address of a contract in any transaction, since
it looks for one in `logs` only; `query_cw20.js:27-28` and
`transfer_cw20.js:73-76,125-128` pass a `Buffer` as the query, which a client
with `queryContractSmart` encodes as JSON once more
(`node_modules/@cosmjs/cosmwasm/build/modules/wasm/queries.js:60-61`), so with
any client `query_cw20.js` ends with 1 and `transfer_cw20.js` never prints a
balance.

## How the project grew, and what could come next

Ledger, Cw20Token, Staking and StakingProtocol came first, with their runs and
proofs; then Vault, RewardHistory, LiveProtocol, Allowances, Cw20Ownable and
Counter; then the chain, the client and the scripts with Rollout; then the
proofs of the refinements, the rewards, the action properties and the scripts;
then what liveness rests on and the documented claims under their conditions.

Possible next steps: the handlers of a second staking contract with the same
token, to see what the shared minter role means; runs with different clients
at a time; the address of the token as an argument of
instantiate, with a token that does not keep `Cw20Token`'s promises.
