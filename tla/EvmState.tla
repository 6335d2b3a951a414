----------------------------- MODULE EvmState -----------------------------
(***************************************************************************)
(* The State App of one evm-babble node (state/state.go, state/was.go):    *)
(* the committed ledger, the write-ahead state (WAS) blocks are applied    *)
(* to, the LevelDB database the WAS is flushed to write by write, and the  *)
(* life cycle of the process around them.                                  *)
(*                                                                         *)
(* Goroutines.  Proxy.Serve runs ProcessBlock; Service.Run creates the     *)
(* genesis accounts and then serves calls.  commitMutex orders them: pc is *)
(* "idle" when it is free and otherwise tells how far its holder has come. *)
(* A process that ended keeps the last content of its memory in the        *)
(* volatile variables; NewState reads none of it.                          *)
(***************************************************************************)
EXTENDS Evm, Sequences, FiniteSets, Functions

CONSTANTS
    Tx,         \* signed transactions; one stands for its hash too
    Junk,       \* block entries that do not decode to a signed transaction
    Blocks,     \* blocks Babble may deliver
    Calls,      \* read-only messages of /call requests
    GenesisStarts, \* starts at which there is a genesis.json
    Genesis,    \* its accounts
    NoHead,     \* no value under headTxKey
    EmptyTx,    \* hash of &ethTypes.Transaction{}
    MaxStarts,  \* bound: starts of the process
    MaxFaults   \* bound: database writes that fail

ASSUME StateAssumption ==
    /\ Tx \subseteq Message
    /\ \A t \in Tx : WellFormed(t)
    /\ Junk \cap Tx = {}
    /\ Blocks \subseteq Seq(Tx \cup Junk)
    /\ Calls \subseteq Message
    /\ \A c \in Calls : WellFormed(c)
    /\ GenesisStarts \subseteq Nat
    /\ DOMAIN Genesis \subseteq Account
    /\ \A a \in DOMAIN Genesis :
          Genesis[a] \in [balance : Nat, storage : Word \cup {NoWord}]
    /\ NoHead \notin Tx
    /\ EmptyTx \notin Tx
    /\ NoHead # EmptyTx
    /\ MaxStarts \in Nat
    /\ MaxFaults \in Nat

VARIABLES
    \* the database
    headTx,       \* value under headTxKey
    txTable,      \* transactions stored under their hashes
    receiptTable, \* receipts stored under receiptsPrefix + transaction hash
    tries,        \* state tries all of whose nodes are stored
    \* State.statedb and the fields of State.was
    statedb, ethState, transactions, receipts, totalUsedGas, gp,
    \* control
    status,       \* of the process: "down", "up" or "broken" (cannot start)
    genesis,      \* createGenesisAccounts: "pending", "creating" or "done"
    pc,           \* the step the holder of commitMutex is at
    block,        \* transactions of the current block still to be applied
    starts, faults, \* counters for the bounds
    drifted,      \* history: a WAS ledger has moved on from its last receipt
    burnt         \* history: Ether paid for the gas of transactions that failed

dbVars  == <<headTx, txTable, receiptTable, tries>>
wasVars == <<ethState, transactions, receipts, totalUsedGas, gp>>
runVars == <<status, genesis, starts, faults, drifted, burnt>>
vars    == <<dbVars, statedb, wasVars, runVars, pc, block>>

Receipt == [tx : Tx, root : Ledger, gasUsed : Nat, cumulativeGasUsed : Nat, failed : BOOLEAN]

Steps == {"idle", "apply", "writeHead", "writeTransactions", "writeReceipts", "swap"}

Init ==
    /\ headTx = NoHead /\ txTable = {} /\ tries = {}
    /\ receiptTable = [t \in {} |-> {}]
    /\ statedb = EmptyLedger /\ ethState = EmptyLedger
    /\ transactions = <<>> /\ receipts = <<>>
    /\ totalUsedGas = 0 /\ gp = GasLimit
    /\ status = "down" /\ genesis = "pending"
    /\ pc = "idle" /\ block = <<>>
    /\ starts = 0 /\ faults = 0 /\ drifted = FALSE /\ burnt = 0

----------------------------------------------------------------------------
(* Start-up: NewState opens the database, InitState, resetWAS.             *)

\* Defect: the gas of the previous block is still counted.
ResetButGas(L) ==
    /\ ethState' = L
    /\ transactions' = <<>> /\ receipts' = <<>>
    /\ gp' = GasLimit /\ UNCHANGED totalUsedGas

ResetWAS(L) ==
    /\ ethState' = L
    /\ transactions' = <<>>
    /\ receipts' = <<>>
    /\ totalUsedGas' = 0
    /\ gp' = GasLimit

\* Defect: a head without a receipt is taken for an empty database.
RootOrEmpty(L) ==
    IF headTx \in DOMAIN receiptTable THEN L = receiptTable[headTx].root ELSE L = EmptyLedger

(* InitState ends with the trie of L: the empty one without a head, else   *)
(* the one the receipt of the head transaction names.                      *)
InitStateLoads(L) ==
    \/ headTx = NoHead /\ L = EmptyLedger
    \/ /\ headTx \in DOMAIN receiptTable
       /\ L = receiptTable[headTx].root
       /\ L \in tries

NewState ==
    /\ status = "down"
    /\ starts < MaxStarts
    /\ \E L \in tries \cup {EmptyLedger} :
          /\ InitStateLoads(L)
          /\ statedb' = L
          /\ ResetWAS(L)
    /\ status' = "up"
    /\ genesis' = "pending"
    /\ pc' = "idle"
    /\ block' = <<>>
    /\ starts' = starts + 1
    /\ UNCHANGED <<dbVars, faults, drifted, burnt>>

(* The receipt of the head or a trie node is missing: NewProxy returns the *)
(* error and the process exits.  Nothing a later start could read changes. *)
NewStateFails ==
    /\ status = "down"
    /\ starts < MaxStarts
    /\ ~\E L \in tries \cup {EmptyLedger} : InitStateLoads(L)
    /\ status' = "broken"
    /\ starts' = starts + 1
    /\ UNCHANGED <<dbVars, statedb, wasVars, genesis, faults, drifted, burnt, pc, block>>

(* The process may be killed at any moment; Service.checkErr also ends it  *)
(* whatever the other goroutine is doing.                                  *)
Crash ==
    /\ status = "up"
    /\ status' = "down"
    /\ UNCHANGED <<dbVars, statedb, wasVars, genesis, starts, faults, drifted, burnt, pc, block>>

----------------------------------------------------------------------------
(* createGenesisAccounts, once in every life of the process.               *)

NoGenesisFile ==
    /\ status = "up" /\ genesis = "pending"
    /\ starts \notin GenesisStarts
    /\ genesis' = "done"
    /\ UNCHANGED <<dbVars, statedb, wasVars, status, starts, faults, drifted, burnt, pc, block>>

(* AddBalance, SetCode and SetState for every account of the file.         *)
WithGenesis(L) ==
    [nonce   |-> L.nonce,
     balance |-> [a \in Account |->
                     IF a \in DOMAIN Genesis THEN L.balance[a] + Genesis[a].balance
                                             ELSE L.balance[a]],
     storage |-> [a \in Account |->
                     IF a \in DOMAIN Genesis /\ Genesis[a].storage # NoWord
                     THEN Genesis[a].storage ELSE L.storage[a]]]

(* What a history variable records: commit stores the trie of the WAS      *)
(* ledger, a restart loads the one the last receipt names.  They differ    *)
(* once anything but a transaction has changed a WAS that holds receipts.  *)
Drifts == drifted' = (drifted \/ (receipts # <<>> /\ ethState' # ethState))

CreateAccounts ==
    /\ status = "up" /\ genesis = "pending"
    /\ starts \in GenesisStarts
    /\ pc = "idle"
    /\ ethState' = WithGenesis(ethState)
    /\ Drifts
    /\ genesis' = "creating"
    /\ pc' = "apply"
    /\ UNCHANGED <<dbVars, statedb, transactions, receipts, totalUsedGas, gp,
                   status, starts, faults, burnt, block>>

----------------------------------------------------------------------------
(* Call runs on a copy of the WAS ledger, but on the gas pool itself.  Its *)
(* mutex is released by a deferred call, also when the code panics.        *)
Call(m) ==
    /\ status = "up" /\ genesis = "done"
    /\ pc = "idle"
    /\ gp' = PoolAfterCall(ethState, gp, m)
    /\ UNCHANGED <<dbVars, statedb, ethState, transactions, receipts, totalUsedGas,
                   runVars, pc, block>>

----------------------------------------------------------------------------
(* ProcessBlock takes the mutex and applies the transactions in order.     *)

ProcessBlock(b) ==
    /\ status = "up"
    /\ pc = "idle"
    /\ block' = b
    /\ pc' = "apply"
    /\ UNCHANGED <<dbVars, statedb, wasVars, runVars>>

(* The rounds of its loop, one call of applyTransaction each.              *)
Decodes(p) == p \in Tx

Applying(p) == status = "up" /\ pc = "apply" /\ block # <<>> /\ p = Head(block)

\* Defect: the message is built like that of a call, with its nonce unchecked.
AcceptsAnyNonce(t) == Executes(ethState, gp, t)

\* Defect: the error of a transfer that exceeds the balance is ignored.
AcceptsOverdraft(t) ==
    NonceMatches(ethState, t) /\ BuysGas(ethState, gp, t) /\ CoversIntrinsic(t)

(* ApplyMessage returns no error.                                          *)
Accepts(t) == NonceMatches(ethState, t) /\ Executes(ethState, gp, t)

ApplyTransaction(t) ==
    /\ Applying(t)
    /\ Decodes(t)
    /\ Accepts(t)
    /\ ~TransactionPanics(ethState, gp, t)
    /\ ethState' = Execute(ethState, t)
    /\ gp' = PoolAfter(ethState, gp, t)
    /\ totalUsedGas' = totalUsedGas + t.used
    /\ transactions' = Append(transactions, t)
    /\ receipts' = Append(receipts,
                     [tx |-> t, root |-> ethState', gasUsed |-> t.used,
                      cumulativeGasUsed |-> totalUsedGas', failed |-> ~t.ok])
    /\ block' = Tail(block)
    /\ UNCHANGED <<dbVars, statedb, runVars, pc>>

(* Nobody recovers a panic in the goroutine of the Proxy: it is one of the *)
(* ways in which the process ends.                                         *)
Panic ==
    /\ \E t \in Tx : Applying(t) /\ NonceMatches(ethState, t) /\ TransactionPanics(ethState, gp, t)
    /\ Crash

\* Defect: a transaction that fails is tried again.
RetryTransaction == UNCHANGED <<pc, block>>

(* An error ends ProcessBlock: the rest of the block is dropped and the    *)
(* WAS is left as it is, without a reset.                                  *)
AbandonBlock == pc' = "idle" /\ block' = <<>>

(* Decoding, signature, nonce, or more gas than is left in the pool or     *)
(* than the sender can pay for.                                            *)
RejectTransaction(p) ==
    /\ Applying(p)
    /\ \/ ~Decodes(p)
       \/ Decodes(p) /\ ~(NonceMatches(ethState, p) /\ BuysGas(ethState, gp, p))
    /\ AbandonBlock
    /\ UNCHANGED <<dbVars, statedb, wasVars, runVars>>

(* What the sender has paid for gas is neither refunded nor credited to    *)
(* anybody when ApplyMessage returns an error after the purchase.          *)
Burns(t) == burnt' = burnt + GasCost(t)

(* The gas has been bought and does not pay for the message.               *)
RunOutOfGas(t) ==
    /\ Applying(t) /\ Decodes(t)
    /\ NonceMatches(ethState, t) /\ BuysGas(ethState, gp, t) /\ ~CoversIntrinsic(t)
    /\ ethState' = Bought(ethState, t)
    /\ Drifts /\ Burns(t)
    /\ gp' = PoolAfter(ethState, gp, t)
    /\ AbandonBlock
    /\ UNCHANGED <<dbVars, statedb, transactions, receipts, totalUsedGas,
                   status, genesis, starts, faults>>

(* The value exceeds the balance: reported as an error although the gas    *)
(* and, for a call, the nonce are already spent.                           *)
Overdraw(t) ==
    /\ Applying(t) /\ Decodes(t)
    /\ NonceMatches(ethState, t) /\ BuysGas(ethState, gp, t) /\ CoversIntrinsic(t)
    /\ ~CanTransfer(Bought(ethState, t), t)
    /\ ethState' = Overdrawn(ethState, t)
    /\ Drifts /\ Burns(t)
    /\ gp' = PoolAfter(ethState, gp, t)
    /\ AbandonBlock
    /\ UNCHANGED <<dbVars, statedb, transactions, receipts, totalUsedGas,
                   status, genesis, starts, faults>>

----------------------------------------------------------------------------
(* commit: WriteAheadState.Commit, then the swap of the committed ledger.  *)
(* Each write reaches the database whole: the root of a trie is its last   *)
(* node to be written, and tables are written in batches.                  *)

Committing(step) == status = "up" /\ pc = step

\* Defect: a commit without transactions is taken to have nothing to store.
CommitToUnlessEmpty ==
    /\ Committing("apply") /\ block = <<>>
    /\ tries' = IF transactions = <<>> THEN tries ELSE tries \cup {ethState}
    /\ pc' = "writeHead"
    /\ UNCHANGED <<headTx, txTable, receiptTable, statedb, wasVars, runVars, block>>

CommitTo ==
    /\ Committing("apply") /\ block = <<>>
    /\ tries' = tries \cup {ethState}
    /\ pc' = "writeHead"
    /\ UNCHANGED <<headTx, txTable, receiptTable, statedb, wasVars, runVars, block>>

\* Defect: the head is the first transaction of the WAS.
FirstOf(txs) == IF txs = <<>> THEN EmptyTx ELSE txs[1]

(* The transaction writeHead stores: the last one of the WAS or, without   *)
(* any, the empty transaction.                                             *)
HeadOf(txs) == IF txs = <<>> THEN EmptyTx ELSE txs[Len(txs)]

WriteHead ==
    /\ Committing("writeHead")
    /\ headTx' = HeadOf(transactions)
    /\ pc' = "writeTransactions"
    /\ UNCHANGED <<txTable, receiptTable, tries, statedb, wasVars, runVars, block>>

\* Defect: the batch of transactions is filled and never written.
BatchNotWritten ==
    /\ Committing("writeTransactions")
    /\ pc' = "writeReceipts"
    /\ UNCHANGED <<dbVars, statedb, wasVars, runVars, block>>

WriteTransactions ==
    /\ Committing("writeTransactions")
    /\ txTable' = txTable \cup Range(transactions)
    /\ pc' = "writeReceipts"
    /\ UNCHANGED <<headTx, receiptTable, tries, statedb, wasVars, runVars, block>>

(* Puts under the same key: the last one wins.                             *)
PutReceipts(table, rs) ==
    LET keys     == {rs[i].tx : i \in DOMAIN rs}
        lastFor(t) == CHOOSE i \in DOMAIN rs :
                         rs[i].tx = t /\ \A j \in DOMAIN rs : rs[j].tx = t => j <= i
    IN  [t \in DOMAIN table \cup keys |-> IF t \in keys THEN rs[lastFor(t)] ELSE table[t]]

WriteReceipts ==
    /\ Committing("writeReceipts")
    /\ receiptTable' = PutReceipts(receiptTable, receipts)
    /\ pc' = "swap"
    /\ UNCHANGED <<headTx, txTable, tries, statedb, wasVars, runVars, block>>

(* The committed ledger becomes visible and the mutex is released.         *)
Swap ==
    /\ Committing("swap")
    /\ statedb' = ethState
    /\ ResetWAS(ethState)
    /\ genesis' = IF genesis = "creating" THEN "done" ELSE genesis
    /\ pc' = "idle"
    /\ UNCHANGED <<dbVars, status, starts, faults, drifted, burnt, block>>

\* Defect: creating the genesis accounts is tried again.
WriteFailsRetry ==
    /\ status = "up" /\ faults < MaxFaults
    /\ \/ pc = "apply" /\ block = <<>>
       \/ pc \in {"writeHead", "writeTransactions", "writeReceipts"}
    /\ faults' = faults + 1
    /\ pc' = "idle"
    /\ genesis' = IF genesis = "creating" THEN "pending" ELSE genesis
    /\ UNCHANGED <<dbVars, statedb, wasVars, status, starts, drifted, burnt, block>>

(* A write fails: commit returns the error and leaves the WAS as it is.    *)
(* ProcessBlock passes it on to Babble; checkErr ends the process for the  *)
(* genesis accounts.                                                       *)
WriteFails ==
    /\ status = "up" /\ faults < MaxFaults
    /\ \/ pc = "apply" /\ block = <<>>
       \/ pc \in {"writeHead", "writeTransactions", "writeReceipts"}
    /\ faults' = faults + 1
    /\ pc' = "idle"
    /\ status' = IF genesis = "creating" THEN "down" ELSE "up"
    /\ UNCHANGED <<dbVars, statedb, wasVars, genesis, starts, drifted, burnt, block>>

----------------------------------------------------------------------------
Apply ==
    \E p \in Tx \cup Junk :
       \/ ApplyTransaction(p)
       \/ RejectTransaction(p)
       \/ RunOutOfGas(p)
       \/ Overdraw(p)

Commit == CommitTo \/ WriteHead \/ WriteTransactions \/ WriteReceipts \/ Swap

Next ==
    \/ NewState \/ NewStateFails \/ Crash
    \/ NoGenesisFile \/ CreateAccounts
    \/ \E m \in Calls : Call(m)
    \/ \E b \in Blocks : ProcessBlock(b)
    \/ Apply
    \/ Commit
    \/ WriteFails

Spec == Init /\ [][Next]_vars

(* A goroutine that holds the mutex runs on.  Waiting for it is fair: a    *)
(* sync.Mutex hands itself to a goroutine that has waited for long, so one *)
(* that finds it free infinitely often gets it.                            *)
FairSpec ==
    /\ Spec
    /\ WF_vars(Apply \/ Commit \/ Panic)
    /\ WF_vars(NoGenesisFile)
    /\ SF_vars(CreateAccounts)

----------------------------------------------------------------------------
(* Properties.                                                             *)

(* Every variable holds what its Go counterpart can; balances and the gas  *)
(* pool are never driven below zero (core.CanTransfer, GasPool.SubGas).    *)
TypeOK ==
    /\ headTx \in Tx \cup {NoHead, EmptyTx}
    /\ txTable \subseteq Tx
    /\ DOMAIN receiptTable \subseteq Tx
    /\ receiptTable \in [DOMAIN receiptTable -> Receipt]
    /\ tries \subseteq Ledger
    /\ statedb \in Ledger
    /\ ethState \in Ledger
    /\ transactions \in Seq(Tx)
    /\ receipts \in Seq(Receipt)
    /\ totalUsedGas \in Nat
    /\ gp \in Nat
    /\ status \in {"down", "up", "broken"}
    /\ genesis \in {"pending", "creating", "done"}
    /\ pc \in Steps
    /\ block \in Seq(Tx \cup Junk)
    /\ starts \in Nat
    /\ faults \in Nat
    /\ drifted \in BOOLEAN
    /\ burnt \in Nat

(* L is at or after the execution of every transaction of T.               *)
Covers(L, T) == \A t \in T : t.nonce < L.nonce[t.from]

(* A transaction with a stored receipt (GetReceipt) is stored itself       *)
(* (GetTransaction), whatever write a crash or a fault came before.        *)
ReceiptsHaveTxs == DOMAIN receiptTable \subseteq txTable

(* While the process runs no transaction with a stored receipt can pass    *)
(* the nonce check again: the ledger a node starts from, the leftovers of  *)
(* failed blocks and failed commits included, is past all of them.         *)
NoReplay == status = "up" => Covers(ethState, DOMAIN receiptTable)

(* If the head transaction has a receipt, the ledger InitState would load  *)
(* from it contains every transaction that has one.                        *)
HeadCoversReceipts ==
    headTx \in DOMAIN receiptTable =>
        Covers(receiptTable[headTx].root, DOMAIN receiptTable)

(* The ledger GetBalance reads is always one whose trie is stored whole.   *)
ServedStateIsDurable == statedb \in tries \cup {EmptyLedger}

(* The transactions of a WAS use no more gas than a fresh pool holds, also *)
(* when the WAS carries leftovers of earlier blocks and calls drew on it.  *)
GasBound ==
    /\ gp + totalUsedGas <= GasLimit
    /\ \A i \in DOMAIN receipts : receipts[i].cumulativeGasUsed <= totalUsedGas
    /\ \A t \in DOMAIN receiptTable : receiptTable[t].cumulativeGasUsed <= GasLimit

(* A receipt that has been stored never changes and never disappears.      *)
ReceiptFinal ==
    [][\A t \in DOMAIN receiptTable :
          t \in DOMAIN receiptTable' /\ receiptTable'[t] = receiptTable[t]]_vars

(* What the ledger of a node is after its last complete commit: commit has *)
(* stored everything when only the swap is left.                           *)
CommittedLedger == IF pc = "swap" THEN ethState ELSE statedb

(* A node that restarts serves exactly the ledger it had committed,        *)
(* whichever write a crash or a failed write came before.  Unless the      *)
(* genesis accounts were created, or a transaction failed that had moved   *)
(* its nonce or paid for gas, on top of the receipts that a failed block   *)
(* had left in the WAS.                                                    *)
RestartExact ==
    [][~drifted /\ status = "down" /\ status' = "up" => statedb' = CommittedLedger]_vars

Supply(L) == SumFunction(L.balance)

GenesisSupply == SumFunction([a \in DOMAIN Genesis |-> Genesis[a].balance])

(* The Ether of the served ledger is that of genesis.json, once for some   *)
(* of the starts of the process, but for what transactions that failed had *)
(* paid for gas: executions, failed blocks, leftovers, failed writes and   *)
(* crashes create none, and destroy no other.  (Contracts that destroy     *)
(* themselves are not executed here.)                                      *)
SupplyConserved ==
    status = "up" =>
        \E k \in 0..starts : /\ k * GenesisSupply - burnt <= Supply(statedb)
                             /\ Supply(statedb) <= k * GenesisSupply
                             /\ genesis = "done" /\ starts \in GenesisStarts => k > 0

(* A node whose genesis accounts are pending creates them, however many    *)
(* blocks compete for the mutex, unless the process ends.                  *)
GenesisCompletes == status = "up" /\ genesis = "pending" ~> genesis = "done" \/ status # "up"

(* Under the mapping that takes the ledger to be committed once the last   *)
(* write is done, a node is an atomic ledger.                              *)
Committed == INSTANCE AtomicLedger WITH
                nonce   <- CommittedLedger.nonce,
                balance <- CommittedLedger.balance,
                done    <- DOMAIN receiptTable,
                drifted <- drifted,
                burnt   <- burnt,
                Grant   <- GenesisSupply

(* The whole life of a node, crashes, restarts and failed writes included, *)
(* implements it.                                                          *)
ImplementsAtomicLedger == Committed!Spec

(* The database of a node is one that NewState can start from, unless the  *)
(* head is the empty transaction, or the process ended between writing the *)
(* head and writing its receipt.  As long as no write failed and no WAS    *)
(* drifted away from its receipts.                                         *)
BrokenOnlyMidCommit ==
    status = "broken" /\ faults = 0 /\ ~drifted /\ headTx # EmptyTx
        => pc \in {"writeTransactions", "writeReceipts"}

----------------------------------------------------------------------------
(* What comments and docs of the repository say, and the code does not do. *)

(* README.md:147-148: a node with an existing database loads the state of  *)
(* the last committed transaction.                                         *)
RestartRecovers == status # "broken"

(* README.md:109: the file predefines a set of accounts that own all the   *)
(* initial Ether at the inception of the network.                          *)
GenesisOnce == Supply(statedb) \in {0, GenesisSupply}

(* state.go:101-103: a call is read-only; nothing changes the WAS between  *)
(* the steps of block processing.                                          *)
CallReadOnly ==
    [][status = "up" /\ status' = "up" /\ pc = "idle" /\ pc' = "idle"
          => UNCHANGED wasVars]_vars

(* http_handlers.go:157-158: receipts tell if and how the state changed;   *)
(* every nonce an account has used in the served ledger has one.           *)
NonceHasReceipt ==
    \A a \in Account : \A n \in 0..(statedb.nonce[a] - 1) :
        \E t \in DOMAIN receiptTable : t.from = a /\ t.nonce = n
=============================================================================
