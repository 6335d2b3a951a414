------------------------------- MODULE Cluster -------------------------------
(***************************************************************************)
(* Several evm-babble nodes behind one Babble network, as far as a client  *)
(* of their HTTP interfaces can tell: transactions submitted anywhere are  *)
(* ordered into blocks, every node applies the same blocks at a pace of    *)
(* its own, and each request is answered from what one node has so far.    *)
(*                                                                         *)
(* A node owns one account and both have one name.  Gas never runs short   *)
(* (the limit of a block is 10^18) and Endowment covers what anybody       *)
(* spends, so the nonce is what a transaction can fail on; EvmState has    *)
(* the other errors, the writes of a commit, and restarts.                 *)
(***************************************************************************)
EXTENDS CrowdFundingContract, FiniteSets, Sequences, SequencesExt

CONSTANTS
    Node,       \* nodes, and the accounts they control
    Contract,   \* the address of the contract
    NoAddress,  \* "to" of a contract creation
    NoCampaign, \* the contract has not been created
    Endowment,  \* Ether of every account in genesis.json
    MaxBlock,   \* bound: transactions in one block
    MaxLag      \* bound: blocks a node may be behind when another one is ordered

ASSUME ClusterAssumption ==
    /\ Contract \notin Node
    /\ NoAddress \notin Node \cup {Contract}
    /\ Endowment \in Nat
    /\ MaxBlock \in Nat \ {0}
    /\ MaxLag \in Nat \ {0}

VARIABLES
    pool,      \* transactions Babble has not ordered yet
    log,       \* the blocks it has, in consensus order
    height,    \* per node: blocks that were delivered to it
    busy,      \* per node: ProcessBlock is running
    rest,      \* per node: what it has still to apply of the current block
    was,       \* per node: ledger of the write-ahead state
    unflushed, \* per node: receipts of the write-ahead state
    statedb,   \* per node: committed ledger
    receipts   \* per node: stored receipts

clusterVars == <<pool, log, height, busy, rest, was, unflushed, statedb, receipts>>

Methods == {"transfer", "create", "contribute", "settle"}

Genesis == [nonce    |-> [a \in Node |-> 0],
            balance  |-> [a \in Node \cup {Contract} |-> IF a = Contract THEN 0 ELSE Endowment],
            campaign |-> NoCampaign]

ClusterInit ==
    /\ pool = {} /\ log = <<>>
    /\ height = [n \in Node |-> 0]
    /\ busy = [n \in Node |-> FALSE]
    /\ rest = [n \in Node |-> <<>>]
    /\ was = [n \in Node |-> Genesis]
    /\ unflushed = [n \in Node |-> <<>>]
    /\ statedb = [n \in Node |-> Genesis]
    /\ receipts = [n \in Node |-> {}]

----------------------------------------------------------------------------
(* Effects of one transaction.                                             *)

Pay(L, from, to, v) == LET debited == [L.balance EXCEPT ![from] = @ - v]
                       IN  [L EXCEPT !.balance = [debited EXCEPT ![to] = @ + v]]

Bump(L, a) == [L EXCEPT !.nonce[a] = @ + 1]

(* settle transfers the amount to the beneficiary when the goal is met.    *)
Settled(L) ==
    IF GoalReached(L.campaign)
    THEN [Pay(L, Contract, L.campaign.beneficiary, L.campaign.amount)
             EXCEPT !.campaign = PaidOut(L.campaign)]
    ELSE L

Execute(L, tx) ==
    CASE tx.method = "transfer"   -> Pay(Bump(L, tx.from), tx.from, tx.to, tx.value)
      [] tx.method = "create"     -> [Bump(L, tx.from) EXCEPT
                                         !.campaign = NewCampaign(tx.from, tx.args[1])]
      [] tx.method = "contribute" -> [Pay(Bump(L, tx.from), tx.from, Contract, tx.value)
                                         EXCEPT !.campaign = Contributed(@, tx.value)]
      [] tx.method = "settle"     -> Settled(Bump(L, tx.from))

(* The events its execution emits.                                         *)
Logs(L, tx) ==
    CASE tx.method = "contribute" -> <<[topic |-> "NewContribution", value |-> tx.value]>>
      [] tx.method = "settle"     -> <<[topic |-> "Settlement", value |-> GoalReached(L.campaign)]>>
      [] OTHER                    -> <<>>

ReceiptOf(L, tx) ==
    [tx |-> tx, logs |-> Logs(L, tx),
     contractAddress |-> IF tx.to = NoAddress THEN Contract ELSE NoAddress]

----------------------------------------------------------------------------
(* Babble delivers every node the same blocks in the same order.           *)

Order ==
    /\ \A n \in Node : Len(log) < height[n] + MaxLag
    /\ \E chosen \in SUBSET pool : \E b \in SetToSeqs(chosen) :
          /\ chosen # {} /\ Cardinality(chosen) <= MaxBlock
          /\ log' = Append(log, b)
          /\ pool' = pool \ chosen
    /\ UNCHANGED <<height, busy, rest, was, unflushed, statedb, receipts>>

ProcessBlock(n) ==
    /\ ~busy[n] /\ height[n] < Len(log)
    /\ height' = [height EXCEPT ![n] = @ + 1]
    /\ rest' = [rest EXCEPT ![n] = log[height'[n]]]
    /\ busy' = [busy EXCEPT ![n] = TRUE]
    /\ UNCHANGED <<pool, log, was, unflushed, statedb, receipts>>

\* Defect: a nonce that was used may be used again.
AppliesAgain(L, tx) == tx.nonce <= L.nonce[tx.from]

Applies(L, tx) == tx.nonce = L.nonce[tx.from]

ApplyTransaction(n) ==
    /\ busy[n] /\ rest[n] # <<>>
    /\ Applies(was[n], Head(rest[n]))
    /\ was' = [was EXCEPT ![n] = Execute(@, Head(rest[n]))]
    /\ unflushed' = [unflushed EXCEPT ![n] = Append(@, ReceiptOf(was[n], Head(rest[n])))]
    /\ rest' = [rest EXCEPT ![n] = Tail(@)]
    /\ UNCHANGED <<pool, log, height, busy, statedb, receipts>>

(* The block is dropped from the failed transaction on, and what was       *)
(* applied before it waits in the WAS for the commit of a later block.     *)
AbandonBlock(n) ==
    /\ busy[n] /\ rest[n] # <<>>
    /\ ~Applies(was[n], Head(rest[n]))
    /\ rest' = [rest EXCEPT ![n] = <<>>]
    /\ busy' = [busy EXCEPT ![n] = FALSE]
    /\ UNCHANGED <<pool, log, height, was, unflushed, statedb, receipts>>

Commit(n) ==
    /\ busy[n] /\ rest[n] = <<>>
    /\ statedb' = [statedb EXCEPT ![n] = was[n]]
    /\ receipts' = [receipts EXCEPT ![n] = @ \cup {unflushed[n][i] : i \in DOMAIN unflushed[n]}]
    /\ unflushed' = [unflushed EXCEPT ![n] = <<>>]
    /\ busy' = [busy EXCEPT ![n] = FALSE]
    /\ UNCHANGED <<pool, log, height, rest, was>>

ClusterNext ==
    \/ Order
    \/ \E n \in Node :
          ProcessBlock(n) \/ ApplyTransaction(n) \/ AbandonBlock(n) \/ Commit(n)

----------------------------------------------------------------------------
(* What the handlers of the HTTP interface read.                           *)

GetBalance(n, a) == statedb[n].balance[a]

GetNonce(n, a) == was[n].nonce[a]

HasReceipt(n, tx) == \E r \in receipts[n] : r.tx = tx

GetReceipt(n, tx) == CHOOSE r \in receipts[n] : r.tx = tx

(* prepareTransaction signs with the nonce the write-ahead state has now.  *)
Prepare(n, args) == [args EXCEPT !.nonce = GetNonce(n, args.from)]
=============================================================================
