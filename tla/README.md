# evm-babble in TLA+

evm-babble wraps the Ethereum virtual machine (go-ethereum 1.7.0) in an
application that takes its blocks from a Babble node.  This directory models the
application, the contract, the demo client, the web page and the number and JSON
library the two share, checks them with TLC on small instances and proves the
main safety properties with TLAPS for every instance.

## 1. The system

| Component | Code | State | Operations |
|---|---|---|---|
| State App | `state/state.go` | `statedb` (committed ledger), `was`, `commitMutex`, LevelDB | `NewState`, `InitState`, `CreateAccounts`, `ProcessBlock`, `Call`, `GetBalance`, `GetNonce`, `GetTransaction`, `GetReceipt` |
| Write-ahead state (WAS) | `state/was.go` | a copy of the ledger, transactions, receipts, gas used, gas pool | `Commit`: trie, head, transactions, receipts |
| Service | `service/service.go`, `http_handlers.go` | key store, Service mutex, `submitCh` | `Run`: keys, genesis accounts, then the HTTP API; one handler at a time |
| Proxy | `proxy/proxy.go` | `submitCh`, the sockets to Babble | `Run` starts the Service; `Serve` selects between submissions and commits |
| Babble | external | the consensus order | delivers the same blocks in the same order to every node |
| Command line | `cmd/evm-babble/main.go` | flags | `run` |
| CrowdFunding | `demo/nodejs/crowd-funding.sol` | one campaign | `contribute`, `checkGoalReached`, `settle` |
| Demo client | `demo/nodejs/demo.js`, `evm-babble-client.js`, `contract-lite.js` | accounts, the last transaction hash, the contract's address | a chain of twelve promises over HTTP to three nodes |
| Web UI | `ui/demo-server/app.js`, `routes/index.js` | the variable `content` | one page from two upstream requests |
| json-bigint | `ui/demo-server/public/javascripts/json-bigint.js` | library-wide settings | `BigNumber` arithmetic and texts, `parse`, `stringify` |
| Scripts | `demo/`, `docker/`, `ui/` | none | start processes |

How they interact.  `main` builds a `Proxy`: `NewState` opens the database, then
two goroutines run.  `Serve` reads the unbuffered `submitCh` and Babble's commit
channel in one `select`; a block goes to `ProcessBlock`, whose state hash (or
error) answers Babble.  `Service.Run` unlocks the keys, creates the accounts of
`genesis.json` and then serves HTTP.  The two meet in `commitMutex`, which
`ProcessBlock`, `CreateAccounts` and `Call` hold, in the two ledgers and the
database, which the getters read without it, and in `submitCh`, which a
handler fills while it holds the Service mutex.  The demo client and the web page
know a node only through HTTP, and read its answers with json-bigint.

What is hard.

* Errors in the middle of a block.  `ProcessBlock` stops at the first
  transaction that fails and returns without resetting the WAS: what the earlier
  ones did stays there for whatever is committed next.
* Errors with effects.  `ApplyMessage` may take gas, debit its price, and move a nonce,
  and then return an error.
* Panics.  The contexts of calls and of transactions leave fields nil that the code of a contract
  may read; one panic ends the process, the other one keeps the Service mutex locked.
* A commit that is four writes, each of which may fail or be the last before a
  crash, and a restart that reads them back in the opposite order: head, then
  the receipt of the head, then the trie its root names.
* Two goroutines that race for the first commit, and handlers whose several reads
  fall anywhere between the steps of a block.
* Calls that draw on the gas pool blocks are checked against.
* Nonces read from one node, signed, and submitted through another one.
* A client that waits by sleeping, asks a node that may lag, and gets answers
  that may break off.
* Digit-by-digit arithmetic with carries, rounding and exponent limits, under
  settings that operations change and have to set back.

## 2. Modules

| Module | Models | EXTENDS |
|---|---|---|
| `Evm` | ledger, message and the outcomes of `core.ApplyMessage` (external) | |
| `EvmState` | one node's State App, WAS, database and process life cycle | `Evm` |
| `AtomicLedger` | what the State App promises, without WAS, writes or crashes | |
| `Node` | HTTP handlers, Service mutex, `Serve` and `submitCh` around the State App | `EvmState` |
| `Network` | several State Apps fed one order of blocks | `Evm` |
| `CrowdFundingContract` | the methods of the contract as functions of its campaign | |
| `CrowdFunding` | the contract among its users, with the Ether | `CrowdFundingContract` |
| `Cluster` | several nodes behind one Babble, as their HTTP interfaces show them | `CrowdFundingContract` |
| `Demo` | `demo.js` and its client library against a cluster | `Cluster` |
| `WebUi` | the demo web server and its home page | |
| `Powers` | powers with a natural exponent | |
| `BigNumber` | arithmetic and rounding of bignumber.js, digit by digit | `Powers` |
| `BigNumberText` | constructor, notations, bases, fractions | `BigNumber` |
| `DecimalValues` | the integers and fractions the properties compare with | `BigNumber` |
| `BigNumberLib` | a page that changes settings and computes; the properties | `BigNumberText`, `DecimalValues` |
| `JsonText` | `json_parse` and `stringify` | |
| `NodeProofs` | the theorems about `EvmState`, both refinements, and `Node` | `Node`, `SumTheorems` |
| `NetworkProofs`, `CrowdFundingProofs`, `DemoProofs`, `WebUiProofs` | the theorems | their component |
| `BigNumberProofs` | quotients, remainders, and the theorems about `BigNumberLib` | `BigNumberLib`, `DigitTheorems` |
| `DigitTheorems` | digits, sums, comparison and products of `BigNumber` | `DecimalValues`, `SumTheorems` |
| `SumTheorems` | induction over numbers and finite sets; sums over finite sets | |
| `MC...` | the instances of the TLC runs | their component |

The State App appears three times, at three grains.  `EvmState` has each write
of a commit; `Node` composes it with everything else in its process; `Network` and
`Cluster` take what `commitMutex` makes atomic as atomic, because their
questions are about nodes that differ.

### `EvmState`

| Variable | Code |
|---|---|
| `headTx`, `txTable`, `receiptTable`, `tries` | LevelDB: `LastTx`, transactions by hash, `receipts-` + hash, tries with all nodes stored |
| `statedb` | `State.statedb` |
| `ethState`, `transactions`, `receipts`, `totalUsedGas`, `gp` | the fields of `State.was` |
| `status` | the process: `down`, `up`, or `broken` when `NewState` returns an error |
| `genesis` | how far `createGenesisAccounts` is in this life |
| `pc`, `block` | where the holder of `commitMutex` is (`idle`: nobody), and what is left of its block |
| `starts`, `faults` | counters, only for the bounds |
| `drifted` | history, no code reads it: a WAS has moved on while it held receipts (`Drifts`) |
| `burnt` | history: what transactions that failed had paid for gas (`Burns`) |

| Action | Code |
|---|---|
| `NewState`, `NewStateFails` | `NewState`, `InitState`, `resetWAS`; the error path through `NewProxy` |
| `Crash` | the process is killed, or `checkErr` ends it |
| `NoGenesisFile`, `CreateAccounts` | `createGenesisAccounts`, `State.CreateAccounts` up to `commit` |
| `Call` | `State.Call` |
| `ProcessBlock` | taking the mutex in `State.ProcessBlock` |
| `ApplyTransaction` | one round of the loop: `applyTransaction` without error |
| `RejectTransaction` | decoding, signature, nonce, balance or gas pool refuse it before gas is bought; nothing changed |
| `RunOutOfGas` | intrinsic gas exceeds the gas bought: the gas and its price are gone |
| `Overdraw` | value exceeds what is left of the balance: the gas and its price are gone and, but for a creation, the nonce moved |
| `Panic` | the code of a transaction reads the time or the difficulty, nil in its context: nobody recovers, the process ends |
| `CommitTo`, `WriteHead`, `WriteTransactions`, `WriteReceipts` | the four writes of `WriteAheadState.Commit` |
| `Swap` | `statedb = was.ethState`, `resetWAS`, unlock |
| `WriteFails` | any of the four writes returns an error |

* A trie, its root and the ledger it holds are one value: Keccak is injective for
  our purposes.  Code and storage of an account are one word.
* Gas has the price its message names: it is debited when the gas is bought, refunded for what
  is not used and credited to the coinbase, which no context names, so that it is the zero address
  (`Coinbase`).  An error after the purchase refunds nothing and credits nobody (`state.go:171-175`).
* What the EVM charges for a message, whether it reverts it and which fields of its
  block it reads are attributes of the message rather than of the ledger it meets.  An execution
  pays its receiver; Ether that the code of a contract sends on, or destroys with itself,
  is left out here (`CrowdFunding` has both for the one contract of the demo).
* A transaction stands for its hash; an entry of a block that does not decode or
  has no valid signature is a model value of `Junk`.
* `SetCode` in `CreateAccounts` with an empty code string leaves the word of an account.
* A batch, and the put of the head, are atomic, as LevelDB's are.  `CommitTo`
  writes the nodes of a trie bottom-up, so a crash inside it leaves nodes no
  root refers to, that is, the trie is not in `tries`.
* `drifted` marks a behaviour in which a transaction that failed after its purchase of gas, or
  the creation of the genesis accounts, moved the ledger of a WAS that still held the receipts
  of a failed block.  The trie of the next commit is then not the one the last receipt names,
  and a restart goes back to the latter, if some commit ever stored it
  (`BrokenOnlyMidCommit`, `RestartExact` and `AtomicLedger` say what holds until then and after).
* Reads of the database do not fail.  `InitState` drops the error of reading the head
  (`state.go:242`): with one that does, the node would start from an empty ledger.
* Fields nothing reads (`txIndex`, `allLogs`) and blooms and logs are left out.

### `Node`

| Variable | Code |
|---|---|
| `mutex` | `Service.Mutex`, by the connection whose handler holds it, or `Panicked` for good |
| `at`, `request` | per connection: where the goroutine of its request is |
| `reading`, `source`, `answers`, `entry` | locals of the running handler: accounts still to read, the ledger its balance came from, what it has read, what it submits |
| `loop`, `inHand`, `batch` | where `Serve` is, and what it took from `submitCh` or `CommitCh` |
| `submitted` | transactions Babble has accepted |
| `outcome`, `view` | per connection: how its last request ended; the accounts it was shown |

`Ask`, `Enter` and `Reply` are `makeHandler`; `AccountsHandler` reads balance and
nonce of one account after the other; `PrepareTransaction`/`RefuseSender`, `TakeRaw`
and `SendHash` are `/tx` and `/rawtx`, `FindTransaction` and `FindReceipt` the two
lookups of `/tx/{hash}`, `CallHandler` is `/call`, `Refuse` a body that does not parse.
`CallHandlerPanics` is a `/call` whose code reads the number or the time of its block:
`net/http` recovers the panic, but the unlock of `makeHandler` is not deferred
(`service.go:152-154`), so that no later request gets the mutex.
`TakeSubmission`, `SubmitTx`, `SubmitFails`, `TakeCommit`, `Process` and `Respond`
are `Serve`.  A `Die` ends everything in the process, also by the fatal error of
the Go runtime when a handler reads a `StateDB` in the middle of a write to it.

### `Network`, `Cluster`

`Network`: per replica the ledger, gas pool and last root of its WAS, `statedb`,
the head of the database and the root in its receipt, and the heights at which
its genesis accounts were created (`minted`).  `ProcessBlock` folds
`ApplyTransaction` over a block of `Log`, with all errors and what they leave.

`Cluster`: `pool` and `log` are Babble's; `height`, `busy` and `rest` say how far a
node is in them; `was`, `unflushed`, `statedb` and `receipts` are its State App.
Here transactions are few and fail only on their nonce, but each is a step, so
that a request may fall between any two.

### `CrowdFunding`, `Demo`, `WebUi`

`CrowdFunding` adds three history variables (`stray`, `raised`, `paid`) to the
balances and the campaign.  Any account contributes, settles or sends Ether.  A contract among the
accounts may destroy itself (`SelfDestruct`, `destroyed`): its Ether reaches the beneficiary it
names without any code being run there, also the campaign's contract, which refuses
plain transfers.  `stray` counts what got to the contract's address by other ways than `contribute`
(a `genesis.json` that names the address would be one more).

`Demo`: `step` is the promise the chain is at, `phase` what it waits for, `conn` the
HTTP exchange with each node (sent, answered, broken), `listed`, `txHash` and
`contract` the variables of the script, and `shown` what the last step displayed.  Time is not
modelled: while the script sleeps, anything may happen.  A body is its parsed value or a text
`JSONbig.parse` throws on.

`WebUi`: `content` is one variable for all pages, because no function of
`routes/index.js` declares it; `at` and `upstream` are per request.  A step is
what Node.js runs between two events.

### `BigNumber`, `JsonText`

A number is a sign, an exponent and a sequence of digits; every
operation of `BigNumber` returns one or the exception it throws.  `BigNumberLib`
is a state machine: `settings` (the library-wide configuration) and `acc`, the
last result; each step configures, or computes with `acc` and one of `Operands`.
The loops over digits are recursive functions of the position; the two loops that
end by a condition, in `sqrt` and `toFr`, go `MaxRounds` rounds at most, and a call that
would need more is not taken.

A conversion of bases goes through numbers of the library: the divisor of the fraction is
`pow(...).toF()` (`PowerOfBase`, `DivisorDigits`), a carry into the integer is `plus(ONE).toS(base)`
(`CarryInto`), and `RANGE` and `ERRORS` decide about both.  Beyond the range the letters of "Infinity" are
taken for digits (`LetterDigits`), a fraction above one makes a loop that never ends (`Endless`), a
carry gives a number whose digits are NaN (`Unreadable`); the model has these outcomes and computes
no further with them.

In `JsonText` a text grows by one character at a time (`text`, `alphabet`, `room`)
until the parser fails before its end.  Functions return what they read and
the position behind it, as `next` and `at` do in the code.  `Written` is `String(value)` of a double
and `toString()` of a BigNumber, plain or exponential; an array replacer selects the members of objects
and orders them.  The bundle modelled is the one the page loads; `demo.js` and `routes/index.js`
load `json-bigint` from npm, of which this bundle is a copy.

## 3. Reading and running

    tlc -workers 2 -config state.cfg MCEvmState.tla
    tlapm NodeProofs.tla

Each configuration goes with the MC module named in section 4 or 5.

Operators whose comment begins with "Defect:" are wrong versions of the
definition that follows them.  No specification uses them; each one, put in the
place of the right definition, makes a property fail, which shows that the property
looks at that code.

## 4. What the runs check

| Run (module) | Instance | Properties |
|---|---|---|
| `state` (`MCEvmState`) | 3 starts, only the first with a genesis file, 8 blocks, 3 calls, crashes | `TypeOK`, `GasBound`, `BrokenOnlyMidCommit`, `RestartExact`, `ImplementsAtomicLedger` |
| `state_faults` (`MCEvmState`) | 2 starts, 7 blocks, crashes, 1 failed write, fairness | `ReceiptsHaveTxs`, `NoReplay`, `HeadCoversReceipts`, `ServedStateIsDurable`, `SupplyConserved`, `ReceiptFinal`, `GenesisCompletes` |
| `node` (`MCNode`) | 1 connection with 2 requests, 2 of 7 blocks, 2 starts, 1 failed write | `NonceNotBehindBalance`, `EffectsHaveReceipts`, `SignsFresh`, `ImplementsState` |
| `node_live` (`MCNode`) | 2 connections, no genesis file, blocks without end, fairness | `NodeTypeOK`, `RequestsAnswered` |
| `network` (`MCNetwork`) | 2 replicas, 5 blocks, 3 calls, 2 starts each | `AgreeUnlessFailed` |
| `crowd` (`MCCrowdFunding`) | 2 users and a contract that may destroy itself, contributions of 7 in all | `TypeOK`, `Backed`, `Accounted`, `LeavesSettled` |
| `demo` (`MCDemo`) | 3 nodes, one connection that breaks, blocks of up to 2 | `CampaignTruthful`, `OnePerNonce`, `DemoEnds` |
| `web` (`MCWebUi`) | 3 home pages, a file, an unknown path | `OwnStats`, `EveryRequestAnswered` |
| `big` (`MCBigNumber`) | numbers of up to 2 digits, 12 configurations | `TypeOK`, `ArithmeticExact`, `QuotientRounded`, `RootRounded`, `TextRoundTrip`, `ShownRounded`, `FractionClosest`, `BasesRounded`, `SettingsOnlyByConfig` |
| `json` (`MCJsonText`) | 5 beginnings, 7 more characters | `IntegersKept`, `RoundTrip`, `TruncationNoticed` |

State App.

* `NoReplay`: while a process runs, no transaction with a stored receipt can pass
  the nonce check again.  It has to hold although blocks are abandoned half
  way, their leftovers are committed later under another head, a failed commit is
  repeated, and a restart goes back to the root in the receipt of the head.
* `HeadCoversReceipts`: that root contains every transaction that has a receipt.
* `ReceiptFinal`, `ReceiptsHaveTxs`: a receipt never changes and
  never comes without its transaction.
* `ServedStateIsDurable`: balances are read from a ledger that is stored whole.
* `GasBound`: a WAS that is not reset between blocks still applies no more gas
  than one pool.
* `RestartExact`: until a WAS drifts, a node that starts again serves exactly the
  ledger of its last complete commit, whichever write a crash or a failed write
  came before.  Once one has drifted a restart may go back behind a failed transaction that had
  moved its nonce or paid for gas, or to a ledger without the genesis accounts.
* `BrokenOnlyMidCommit`: the window between the write of the head and that of its
  receipt is the only one a database does not survive, as long as no write
  failed, no WAS drifted, and the head is that of a transaction (section 5 has the
  other case).
* `SupplyConserved`: all Ether comes from the genesis file, which a database may
  have been given more than once but never in part, and only transactions that fail after they
  bought gas destroy any: at most what they paid (`burnt`; the WAS that lost it may itself be lost).
* `ImplementsAtomicLedger`: refinement, with the ledger taken as committed once
  the last write is done (`CommittedLedger`).  An abstract step settles a batch of
  transactions for good, each once; `FallBack` is what a restart after a drift may
  take back: nonces nobody has a receipt for, the Ether of the genesis accounts, and what failed transactions
  had paid for gas.  Between that write and the
  swap a reader can already find a receipt while balances are still the old
  ones; the mapping hides that.
* `GenesisCompletes`: blocks do not keep the genesis accounts out forever.

Node.

* `ImplementsState`: however handlers, loop and genesis goroutine interleave,
  the State App below them behaves as `EvmState` says, so that what is checked and
  proved there holds of a whole process.
* `NonceNotBehindBalance`: the balance of an answer is from the committed ledger and its
  nonce from the WAS, possibly some steps later; the nonce is never the older one.
* `EffectsHaveReceipts`: once a client has been shown the effect of a
  transaction, `/tx/{hash}` finds its receipt, crashes and restarts included.
* `SignsFresh`: the nonce the Service fills in is that of no transaction with a
  stored receipt.
* `RequestsAnswered`: handlers that wait for the Service mutex, for `Serve` or for
  `commitMutex` do not wait for ever, although Babble never stops delivering; unless a call has
  panicked, after which no request is answered any more.

The others.

* `AgreeUnlessFailed`: as long as no block has failed, neither calls nor restarts
  tell two replicas apart.  The gas pool they change, and the root they go back to,
  matter only with a failure.
* `Backed`, `Accounted`, `LeavesSettled`: the contract always holds what it would
  pay, whatever else is forced on it, pays each wei once, and only to the beneficiary.
* `CampaignTruthful`: although each answer comes from a node that may lag, what the
  script shows after its steps 8, 11 and 12 is so.  `OnePerNonce`: two
  transactions signed with the nonce of a lagging node do not both take effect.
  `DemoEnds`: the chain ends, or reports an error.
* `OwnStats`, `EveryRequestAnswered`: the shared `content` mixes up pages in flight,
  but never the statistics of a page, which are written in the step that renders it.
* `ArithmeticExact` to `BasesRounded` compare the digit algorithms with
  arithmetic on integers and fractions, in all nine rounding modes.
  `BasesRounded` asks of a fraction that the range has room for its digits, for the divisor, a
  power of ten, and for a carry (`RangeHolds`): with `RANGE` 1, which the run reaches, 0.81 in base 2 is 0.
  `FractionClosest` has to allow two units of twice the places of the number
  (section 5, `doc_closer_fraction`).
  `SettingsOnlyByConfig`: operations that compute under other settings set them back,
  but for a `sqrt` that throws, which leaves `DECIMAL_PLACES` larger.
* `IntegersKept`: balances beyond 2^53 keep their digits, up to the one exception
  2^53 + 1.  `RoundTrip`: `parse` reads what `stringify` writes, in exponential notation too, which the
  genesis balances of the demo (1337e18) are large enough for, and in whatever order a replacer puts the members.
  `TruncationNoticed`: no proper prefix of an answer is accepted as one.

### Bounds, and why they are enough

* `MaxStarts`, `MaxFaults`: restarts and failed writes; `GenesisStarts` are the starts that
  find a `genesis.json`, which may be removed after the first; everything else of the State
  App is bounded by nonces and the gas pool.  Two starts let a second life meet
  every database a first one can leave; a drift shows in the third, which finds the
  trie the first one stored.  Four accounts, one of them a contract and one the coinbase,
  and transactions with nonces 0 and 1 give two sender queues, prices are 0 and 1, and every
  outcome of `ApplyMessage` occurs, panics included.  A pool of 3 or 4 is exhausted by leftovers, by
  calls and by errors.
* `MaxRequests`, `MaxDelivered`: two requests of one client, so that the
  second meets what the first has seen, and two blocks, so that one may fail and the
  next commit its leftovers.  `Endless` blocks are not counted; in `node_live` they
  are blocks that do not decode, which leave the ledger as it is.
  Nonces up to 2, and transactions without value, so that the Service always finds
  one of `Tx` to sign.
* `Log` of `network` holds every kind of outcome, a block that fails after its first
  transaction and an empty block among them.
* `MaxBlock`, `MaxLag`, `Endowment`: blocks of two transactions are abandoned half way; a
  node may be one block behind when the next is ordered.  2000 wei cover what the
  demo spends.  `doc_balances_changed` and `doc_goal_reached` need only blocks of one.
* `MaxRounds` of `web`: Babble's statistics change twice, enough for three pages to differ.
* `MaxRounds` of `big`: 12 rounds, enough for every `sqrt` and `toFr` of this instance.
* `MaxDigits`, `MaxExp`: results kept as `acc` have two digits and an exponent from -1 to 1;
  results of one operation are unbounded.  The constants of the library are scaled:
  `MAX` (10^9) and `MAX_POWER` (10^6) to 9, digits a double gets right (`Guess`, 15) to 3,
  digits of a number argument (`NumberDigits`, 15) to 4, `ExtraPlaces` (4) of `sqrt` to 3.
  `Unbounded` is the exponent of 1/0.
* `Limit` (2^53) is 8 and `MaxOrder` (308) is 4, so that seven characters reach past both;
  `ToExpNeg` (-7) and `ToExpPos` (21) are -2 and 3, with plain and exponential BigNumbers above `Limit`;
  the beginnings put the parser into an object, an array or a second member at once.

### Fairness, and why the code justifies it

* `EvmState!FairSpec`: weak fairness of the goroutine that holds
  the mutex (nothing blocks it) and of the genesis step without a file.  Creating the
  genesis accounts waits for the mutex; Go's `sync.Mutex` hands itself to a
  goroutine that has waited for more than a millisecond, hence strong fairness.
  Nothing is assumed of Babble, calls, crashes and failures.
* `NodeFairSpec`: the same strong fairness for whoever waits for one of the two
  mutexes (`Enter`, `Process`, `CallHandler` or its panic).  `select` picks at random among what is
  ready, so a handler that offers a submission again and again is taken:
  strong fairness of `TakeSubmission` (weak fairness is not enough, a loop that
  always finds a block would satisfy it).  `SubmitTx` returns, with
  an error after the timeout of its socket: weak fairness of `Serve`.
* `Demo!FairSpec`: ENTER is pressed, timers fire, callbacks run, nodes answer.  Nothing
  is assumed of Babble or of the pace of the nodes.
* `WebUi!FairSpec`: events are handled; an upstream request is answered or breaks.

Deadlock is not checked: all of these systems may stop, when their bounds are used up,
when every block is delivered, or when the script is done.

## 5. Where the code differs from its documentation

Each configuration checks one sentence of the documentation, and TLC finds a
behaviour of the code that contradicts it.

| Configuration (module) | What TLC finds |
|---|---|
| `doc_recovers` (`MCEvmState`) | After the genesis accounts, or an empty block, the stored head is the hash of an empty transaction, which has no receipt: the next start fails, although `README.md:147` promises to load the last committed state. |
| `doc_replicas_agree` (`MCNetwork`) | A call drains the gas pool of one node; a transaction then fails there and succeeds elsewhere.  `demo.js:338-339`: "They each applied the same changes to their local copy of the ledger." |
| `doc_genesis_once` (`MCEvmState`) | Each start adds the genesis balances to the ones in the database; `README.md:109` has them own all the initial Ether at the inception of the network. |
| `doc_call_readonly` (`MCEvmState`) | A call draws on the gas pool of the WAS (`state.go:107`), although it is "a readonly operation" (`state.go:103`).  One that fails after buying gas keeps it from all transactions up to the next commit. |
| `doc_receipts_tell` (`MCEvmState`) | An overdraft moves the sender's nonce and leaves no receipt; the nonce becomes durable with the next commit, although receipts are to tell if and how the state changed (`http_handlers.go:157`). |
| `doc_balances_changed` (`MCDemo`) | The list of accounts may be read before the transfer is in a block (`demo.js:344`, `demo.js:358`). |
| `doc_goal_reached` (`MCDemo`) | The second contribution is confirmed by the node it was sent to, and the goal is checked on another one (`demo.js:394`). |
| `doc_accounts_shown` (`MCWebUi`) | The node answers with `accounts` and the page reads `Accounts` (`routes/index.js:87-90` has a list). |
| `doc_sums_overflow` (`MCBigNumber`) | A sum beyond `MAX_EXP` throws: the comment says it is Infinity (`json-bigint.js:1697-1700`). |
| `doc_rounding_overflows` (`MCBigNumber`) | Rounding up past the maximum exponent does not become Infinity (`json-bigint.js:425`). |
| `doc_odd_bases` (`MCBigNumber`) | The fraction is rounded apart from the integer part, so that ties in odd bases go wrong (`json-bigint.js:2162-2164`). |
| `doc_upward_root` (`MCBigNumber`) | An exact square is rounded up, or a root is not, in modes that round away (`json-bigint.js:1810-1811`).  Two digits are guessed and one extra place computed here. |
| `doc_closer_fraction` (`MCBigNumber`) | The distances of the last two candidates are rounded before they are compared: 0.49 becomes 24/49 with a limit of 99, although 25/51 is closer (`json-bigint.js:2124`). |

## 6. What is proved

| Module | Theorem | Statement |
|---|---|---|
| `NodeProofs` | `TypeCorrect`, `WASCorrect`, `HistoryCorrect` | `Spec => []TypeOK`, `[]WASInv`, `[]HistoryInv` |
| | `NoReplayCorrect`, `HeadCoversReceiptsCorrect`, `ReceiptsHaveTxsCorrect`, `GasBoundCorrect`, `ServedStateIsDurableCorrect` | the invariants of that name |
| | `ReceiptFinalCorrect` | the action property `ReceiptFinal` |
| | `RestartInvCorrect` | `Spec => []RestartInv` |
| | `BrokenOnlyMidCommitCorrect`, `RestartExactCorrect` | the properties of that name |
| | `NonceInvCorrect`, `NonceHasReceiptCorrect` | `Spec /\ [][NoCallOverdraws]_vars => []NonceInv`, `[]NonceHasReceipt` |
| | `SupplyInvCorrect`, `LedgerInvCorrect` | `Spec => []SupplyInv`, `[]LedgerInv` |
| | `SupplyConservedCorrect` | `Spec => []SupplyConserved` |
| | `ImplementsAtomicLedgerCorrect` | the refinement `Spec => ImplementsAtomicLedger` |
| | `ControlCorrect` | `NodeSpec => []ControlInv` |
| | `NodeImplementsState` | `NodeSpec => ImplementsState` |
| | `SignsFreshCorrect`, `NonceNotBehindBalanceCorrect` | the properties of that name |
| | `NodeTypeCorrect` | `NodeSpec => []NodeTypeOK` |
| | `EffectsHaveReceiptsCorrect` | `NodeSpec /\ [][NoCallOverdraws]_vars => EffectsHaveReceipts`, given `SingleNonces` |
| `NetworkProofs` | `NetworkInvCorrect`, `AgreeUnlessFailedCorrect` | `Spec => []NetworkInv`, `[]AgreeUnlessFailed` |
| `CrowdFundingProofs` | `TypeCorrect`, `BackedCorrect`, `AccountedCorrect`, `LeavesSettledCorrect` | the properties of that name |
| `DemoProofs` | `OnePerNonceCorrect` | `Spec => []OnePerNonce` |
| | `CampaignTruthfulCorrect` | `Spec => []CampaignTruthful`, given `ThreeNodes` |
| `WebUiProofs` | `PageInvCorrect`, `OwnStatsCorrect` | `Spec => []PageInv`, `[]OwnStats` |
| `BigNumberProofs` | `NumbersNormal` | `Spec => []TypeOK` |
| | `SettingsKept` | the action property `SettingsOnlyByConfig` |
| | `ComparisonRight`, `SumsAndProductsRight`, `ArithmeticRight` | `Spec => []ComparisonIsOrder`, `[]SumsAndProductsExact`, `[]ArithmeticExact` |
| | `QuotientsRight` | `Spec => []QuotientRounded` |
| | `TextsRounded`, `TextsReadBack` | `Spec => []ShownRounded`, `[]TextRoundTrip` |
| | `IntegersInBasesRight` | `Spec => []IntegersInBases`, a half of `BasesRounded` |

They hold for any accounts, transactions, blocks, lags, calls, genesis file, clients,
replicas, pages and requests, any number of starts and failed writes, and any
operands, texts, options, places and bases.

Assumptions: those on the constants (`EvmAssumption`, `StateAssumption`,
`NodeAssumption`, `CrowdAssumption`, `ClusterAssumption`, `DemoAssumption`,
`BigNumberAssumption`, `LibAssumption`): their types, that what a message is charged
lies between its intrinsic gas and the gas it bought (`WellFormed`), that the head
markers are no transactions, that the contract is no account of a user, and that
accounts are finite (addresses have 20 bytes), so that Ether has a sum, and that the
number that stands for an infinite exponent (`Unbounded`) lies above every exponent the
results and options can have (the library's limit is 1e9, and infinity has no exponent).

### The State App

Types alone are not inductive: `writeReceipts` puts receipts
under the hashes of their transactions, and the table it leaves is known only if no
two receipts of a WAS share one.  So `WASInv` adds to `TypeOK` that receipts
answer transactions one by one (`Paired`), that no transaction is there twice
(`AppliedOnce`), and why: the ledger of the WAS has moved past the nonce of each
(`WASCovers`), so none of them can pass the nonce check again.

`HistoryInv` relates the WAS to the database.  `NoReplay` holds after a restart
because of `HeadCoversReceipts`; that holds after `writeReceipts` because the
head was set to the last transaction before (`HeadSet`) and the root of the last
receipt covers everything settled or applied (`LastRootCovers`), which in turn is
`NoReplay` at the time it was applied.  `Unsettled` (until the last write
no transaction of the WAS has a stored receipt) makes the head that `writeHead`
sets one without a receipt, and gives `ReceiptFinal`.  `TxsStored` carries
`ReceiptsHaveTxs` across the two batches, and `HeadWritten` covers the first start.

`GasBound` is inductive given types; it rests on a lemma about what each outcome
of `ApplyMessage` leaves in the pool.  `ServedStateIsDurable` needs `Flushed`: from
the first write to the swap the WAS ledger is stored.

`RestartInv` follows the ledger from the WAS to the database.  Until a WAS drifts,
the root of its last receipt is its ledger (`LastExact`); `writeHead` and
`writeReceipts` then make the head name the ledger being committed, which
`CommitTo` has stored (`HeadExact`), and that head has a receipt but for the window
between the two writes (`HeadThere`).  `RestartExact` is `HeadExact` when
`InitState` follows head, receipt and root, and `BrokenOnlyMidCommit` is inductive
together with these three.

`NonceInv` goes the other way, from ledgers to receipts: each nonce of a served,
write-ahead, receipted or stored ledger is that of a transaction with a receipt, or
of one in the WAS whose receipt is written before the ledger is served.  A message call
that overdraws breaks it (`doc_receipts_tell` has the behaviour; a creation that does
leaves the nonce alone), so the theorem takes
`NoCallOverdraws` of every step as its hypothesis, and shows that nothing else does: no failed
block, no failed write, no crash.

`SupplyInv` has each ledger there is (`LedgersMinted`: WAS, receipts, stored roots, served)
hold the Ether of a number of genesis files, up to the starts, less at most what is `burnt` (`Minted`).  What
a failed transaction takes from the WAS it adds to `burnt` (`FailedSupply`), and `MintedLess` has every other
ledger, which did not lose it, stay within the bounds.  `LifeMinted`
says that the WAS gets them once per life and the served ledger with the next commit,
which is what the lower bound of `SupplyConserved` needs.  The sums are folds
that choose an order; `SumTheorems` proves that the order does not matter, by an
induction over finite sets, and from it that a transfer leaves the sum alone.

The refinement has one step that moves the abstract ledger forward, the write of the
receipts, and one that may move it back, a start.  What a step forward settles is known
from `WASAhead`: the WAS is the served ledger after its own transactions, at most one
per nonce, and after the genesis accounts while these are being created.  How far a start falls back is
known from `HeadBehind`: the committed ledger is at or after the root the head names,
in nonces, and the same but for the genesis accounts and what is burnt, in Ether; `LastBehind` says so of the
last receipt until it is written.  That a start falls back only after a drift is `RestartInv`, and
that it never goes behind a settled transaction is `HeadCoversReceipts`.

### The node

`ControlInv` says who holds the Service mutex, what the running handler was asked
for and what `Serve` has in hand; with it, each step of a node is one of `EvmState`
or leaves its variables alone (`StateStep`), which gives the refinement, and through
it every theorem about `EvmState`.  `SignsFresh` then is `NoReplay` at the moment
the nonce is read.  `NonceNotBehindBalance` is about two reads with any steps of
the State App between them: `Behind` orders ledgers by their nonces,
`CommittedBehind` has the committed ledger behind the WAS, `NoncesGrow` has the
WAS ledger only move on within a life, and `SightInv` carries the balance a
handler has read until it has the nonce.  `NodeTypeOK` needs what the loop has
`PassedOn` and what clients were `Told` besides `ControlInv`.

`EffectsHaveReceipts` is `NonceInv` carried to the clients: a ledger that a handler
has read, or a client was shown, stays explained by receipts after the process that served
it is gone, because the table of receipts only grows (`SeenInv`, `ReceiptsGrow`).
That the receipt is the one the client asks for takes `SingleNonces`: no other
transaction may have its nonce, as in the instance of the run.

### The replicas

A block is a fold over its transactions, and the folds of the library are recursive
functions over sets of indices.  `RoundsExist` shows by induction that such a function
exists, and `FoldIsLoop` that it computes what the loop does round by round.
`SameBlockSameLedger` then says that a block which succeeds on two replicas leaves the same
ledger, whatever was left in their gas pools, and `NetworkInv` what a ledger depends on:
there is a function `f` from heights and genesis heights (`minted`) to ledgers each
value of which is reached from an earlier one by one block or one creation of the
genesis accounts, and every replica that has not failed serves `f` of its own (`Follows`).
A function is needed rather than a comparison of two replicas,
since a replica may meet a history that no other replica is at any more.
`Clean` has such replicas restart from the ledger they serve.

### The contract

`TypeOK`, `Backed` and `Accounted` are inductive together only: that the balance of
the contract does not go below zero when it pays follows from `Backed`, and the rest
follows step by step (`LedgerInv`).

### The demo

`OnePerNonce` holds for any number of nodes, size and lag of blocks: `Settling` says
that everything a node has applied, stored or not, is behind the nonces of its WAS
and that no two receipts share a nonce, and `ExecuteNonces` that a transaction moves the nonce of its
sender alone, by one.  `Waiting`, `Ordered` and `Requested` follow a transaction
from a request through the pool and the blocks, so that its sender is always an
account the ledger has a nonce for.

`CampaignTruthful` compares what the script has read from several nodes, each at its own
place in the blocks.  `History` gives them one frame of reference: a sequence `A` of
transactions with the ledgers `G` around them, of which the write-ahead state of each
node has executed a prefix (`p[n]`), its committed ledger a shorter one (`q[n]`), and
every receipt is that of a transaction in it.  Such a history exists in every
reachable state and is only ever extended (`Extends`), and `ThreeNodes` is not needed for
that: a block that fails on one node fails at the same transaction on all of them,
because they execute the same prefix.  `Script` then says of the history what the
script brings about:

* each of the six steps that submit one has its transaction at most once, in the pool
  or in the history (`SubmittedOnce`);
* what the script has seen the receipt of is in the prefix of the node that served it
  (`Confirmed`), so that contributions come after the creation of the campaign, and the
  settlement after both of them (`InOrder`);
* the transfers, of which the script sees no receipt, come before the creation, because
  they have a lower nonce of the same account or never take effect (`TransfersFirst`);
* what is in flight on each connection, by phase and step (`Exchanges`), among it that
  a balance listed at the end was read from a ledger after the last thing the campaign
  did with its account.

`AccountsOfRun` computes the ledger after any prefix of such a history from the kinds of transaction it
holds, by induction over the prefix, and with it the last listing, the goal not reached
after one contribution and the payment of the settlement follow.  The hypothesis
`ThreeNodes`, that the nodes are different, is needed because the addresses and ports of `demo.js`
come from the command line; with one account in two roles the sums come out differently.

### The web page

`OwnStats` needs `PageInv`: an upstream exchange belongs to a page that waits for it,
`content` has its keys as soon as one does, and what is answered is never touched again.

### The numbers

The algorithms are recursive functions over the digits of their operands.
`ComputationExists` and `ComputationUnique` show by induction over sets of numbers that such a
function exists and is the only one, and with them each loop is known by what one round does
to its state: the carries of a sum, the borrows of a difference, the rows of a
product, the remainder of a long division.

`NumbersNormal` says that every number has digits from 0 to 9, without a zero at either end
unless it is zero, that zeros, infinities and NaN have one form each, and that the
settings are ones `config` lets in.  It is inductive over all twenty calls, because each way to end an
operation gives such a number: a sum, a product or a quotient whose zeros are dropped
(`SumOf`, `DiffOf`, `ProductOf`, `Quotient`), or a number that `Rnd` has rounded, where
a carry out of all digits leaves the digit 1 and the next exponent.

The value of a number is `M * 10^P`, an integer at a power of ten.  `SameValue` compares two of
these at the lower power, and is shown to be an equivalence that ends at the same
exponent and that no trailing zero disturbs.  Aligned at one power, two numbers are integers,
and `Plus`, `Minus`, `Times` and `Cmp` then are statements about digits of integers.
`IsResult` says what becomes of a value outside the range of exponents.

For a quotient, the state of long division is related to the integers (`Divided`): the digits so
far and the remainder make up the dividend.  The division stops one digit behind the last one
kept, and `round` is told whether anything is left.  `Foreruns` says what those digits have to be: the
kept ones are the integer part, the next digit and "anything more" place the rest below, at
or above one half, and that decides all nine modes (`RoundsUp` against
`RoundedInt`).  The rounded number is then put into range (`RangeResult`).

For a remainder, `mod` divides with no places and truncating; the integer quotient is then the
truncated one (`Truncated`, `WholeQuotient`), its product with the divisor lies between zero and the
dividend, hence in range (`MultipleInside`), and so does the difference (`RestInside`).  The
hypotheses of the property, operands and integer quotient in range, are needed: outside of it the
library gives the remainder of an infinity.

A text is compared with a number by its digits: `Between` says that they are those of the
number with so many zeros before and behind, and `Shows` that the point and the exponent place
them where the number has them.  `PlainShows` and `ExponentialShows` say so of both notations,
`ShownValue` and `RndIsRounded` of the number `Format` rounds first: its value, its sign, how many digits are
left and that the exponent grows by one at most.  Plain notation turns exponential at
`Unbounded` only, which `ExponentKept` keeps away.  Reading drops the zeros again,
in `ReadDecimal`, and the number in range comes out (`ReadBack`).

In another base, `ToDigits` writes an integer with digits that have its value (`DigitsBack`), and
they are the only ones without a leading zero (`DigitsUnique`): to convert and to convert
back are inverse to each other.

### Only model-checked

* `RootRounded`: `sqrt` iterates until its digits repeat, and that they are right then is a
  fact about Newton's method on rounded numbers, under one bound on the rounds.
* `FractionClosest`: the continued fraction of `toFr` ends by a condition, too.
* `FractionsInBases`, the other half of `BasesRounded`: rounding in a base other than ten,
  for which the lemmas about rounding are not stated.  `NumbersNormal` covers what conversions do beyond
  the range, but for the number of NaN digits (`Unreadable`), which the model keeps out of its states.
* The properties of `JsonText`, the one module with `RECURSIVE` operators, of which the prover
  can show nothing: a parser that calls itself on nested values.
* Liveness under fairness: `GenesisCompletes`, `RequestsAnswered`, `DemoEnds`,
  `EveryRequestAnswered`.

## 7. What is not modelled

* Command line: flags, log levels, formatting, the version string.  What `run` does
  beyond that, building the proxy and calling its `Run`, is where `EvmState` and
  `Node` begin.
* Deployment and demo scripts: shell, make and terraform files that start processes.
* The key store: files and passwords.  `Controlled` is what it holds.
* Encodings: RLP, hex, the JSON of the service (Go's own), ABI words.
* Consensus: blocks come from outside, in one order.
* Ether that the code of a contract sends on, or destroys with itself, on the ledger of a node.
* Failing reads of the database.
* In json-bigint: revivers, function replacers, `toJSON` and the browserify wrapper;
  upper case exponents and the letters among the hex digits of `\u`.
* In the demo: colours, prompts, key files.  In the web server: `bin/www`, logging, views.

## 8. Next

Every safety property of the State App, the node, the replicas, the contract, the
demo and the web page that a run checks is proved, and so are both refinements and
the exactness of `plus`, `minus`, `times`, `div`, `mod`, `cmp` and of the texts in base ten.
What is left of section 6 stays with TLC.  The modules that could grow are `Evm`, by contracts that send Ether on, and
`JsonText`, by revivers.
