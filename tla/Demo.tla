-------------------------------- MODULE Demo --------------------------------
(***************************************************************************)
(* demo.js against a cluster: its chain of twelve promises, the HTTP       *)
(* client evm-babble-client.js and the contract wrapper contract-lite.js.  *)
(*                                                                         *)
(* The script knows a transaction only by the hash a node answered with,   *)
(* sleeps for a fixed time and then asks that same node once for the       *)
(* receipt.  Time is not modelled: any number of steps of the cluster may  *)
(* happen while the script sleeps or waits for an answer.                  *)
(***************************************************************************)
EXTENDS Cluster

CONSTANTS
    demoNodes,  \* node1, node2 and node3
    Unreliable, \* nodes the connection to which may break
    Nothing     \* no value yet, no request, a body with no text

ASSUME DemoAssumption ==
    /\ demoNodes \in Seq(Node)
    /\ Len(demoNodes) >= 3
    /\ Node = {demoNodes[i] : i \in DOMAIN demoNodes}
    /\ Unreliable \subseteq Node

VARIABLES
    step,     \* the current step of the chain; 13 when all are done
    rejected, \* a promise of the chain was rejected
    phase,    \* what the step waits for
    conn,     \* per node: the HTTP exchange with it
    listed,   \* per node: the balance read for the current list of accounts
    txHash,   \* the transaction whose receipt is requested next
    contract, \* the address the script knows the contract by
    shown     \* what the step before the current one displayed

clientVars == <<step, rejected, phase, conn, listed, txHash, contract, shown>>

vars == <<clusterVars, clientVars>>

node1 == demoNodes[1]
node2 == demoNodes[2]
node3 == demoNodes[3]

Closed == [path |-> "none", arg |-> Nothing, state |-> "closed"]

Phases == {"prompt", "list", "account", "submit", "call", "sleep", "receipt"}

DemoInit ==
    /\ step = 1 /\ rejected = FALSE /\ phase = "prompt"
    /\ conn = [n \in Node |-> Closed]
    /\ listed = [n \in Node |-> Nothing]
    /\ txHash = Nothing
    /\ contract = NoAddress
    /\ shown = Nothing

Init == ClusterInit /\ DemoInit

----------------------------------------------------------------------------
(* contract-lite.js.                                                       *)

(* The bytecode and the interface solc returns.                            *)
Compile == [constructors |-> {1}, events |-> {"NewContribution", "Settlement"}]

(* Parameters are encoded for a constructor with as many inputs; there is  *)
(* none for any other number and nothing is appended to the bytecode.      *)
EncodeConstructorParams(params) ==
    IF Len(params) \in Compile.constructors THEN params ELSE <<>>

(* A log with the signature of an event of the interface is decoded.       *)
ParseLogs(logs) ==
    [i \in DOMAIN logs |-> IF logs[i].topic \in Compile.events
                           THEN [event |-> logs[i].topic, args |-> logs[i].value]
                           ELSE logs[i]]

ParseOutput(output) == output.reached

----------------------------------------------------------------------------
(* evm-babble-client.js: the requests it can make.                         *)

Request(path, arg) == [path |-> path, arg |-> arg, state |-> "sent"]

AccountRequest(address) == Request("/account", address)
AccountsRequest         == Request("/accounts", Nothing)
CallRequest(tx)         == Request("/call", tx)
SendTxRequest(tx)       == Request("/tx", tx)
SendRawTxRequest(tx)    == Request("/rawtx", tx)
ReceiptRequest(tx)      == Request("/tx/{tx_hash}", tx)

Send(n, request) == conn' = [conn EXCEPT ![n] = request]

(* A body JSONbig.parse accepts, and one it throws on: the text of an      *)
(* error, or what arrived before the connection broke.  The status code of *)
(* a response is never looked at.                                          *)
Json(value) == [json |-> TRUE, value |-> value]
Text        == [json |-> FALSE, value |-> Nothing]

----------------------------------------------------------------------------
(* A node serves a request; its handler runs while other nodes go on.      *)

Body(n, request) ==
    CASE request.path = "/account"  ->
            Json([balance |-> GetBalance(n, request.arg), nonce |-> GetNonce(n, request.arg)])
      [] request.path = "/accounts" -> Json(GetBalance(n, n))
      [] request.path = "/call"     -> Json([reached |-> GoalReached(was[n].campaign)])
      [] request.path = "/tx"       -> Json(Prepare(n, request.arg))
      [] request.path = "/rawtx"    -> Json(request.arg)
      [] request.path = "/tx/{tx_hash}" ->
            IF HasReceipt(n, request.arg) THEN Json(GetReceipt(n, request.arg)) ELSE Text

(* /tx and /rawtx hand the transaction to Babble before they answer.       *)
Serve(n) ==
    /\ conn[n].state = "sent"
    /\ LET body == Body(n, conn[n])
       IN  /\ conn' = [conn EXCEPT ![n] = [path |-> @.path, arg |-> body, state |-> "answered"]]
           /\ pool' = IF conn[n].path \in {"/tx", "/rawtx"} THEN pool \cup {body.value} ELSE pool
    /\ UNCHANGED <<log, height, busy, rest, was, unflushed, statedb, receipts,
                   step, rejected, phase, listed, txHash, contract, shown>>

(* The connection breaks: before the response, which is an error event, or *)
(* in the middle of it, which ends the body with what has arrived.         *)
Disconnect(n) ==
    /\ n \in Unreliable
    /\ conn[n].state \in {"sent", "answered"}
    /\ conn' = [conn EXCEPT ![n] = [path |-> @.path, arg |-> Text, state |-> "broken"]]
    /\ UNCHANGED <<clusterVars, step, rejected, phase, listed, txHash, contract, shown>>

----------------------------------------------------------------------------
(* demo.js: how a step starts.                                             *)

Tx(from, to, value, gas, method, args) ==
    [from |-> from, to |-> to, nonce |-> 0, value |-> value, gas |-> gas,
     method |-> method, args |-> args]

DefaultGas == 90000

TransferTx   == Tx(node1, node2, 500, DefaultGas, "transfer", <<>>)
RawTx(nonce) == [Tx(node1, node2, 500, 1000000, "transfer", <<>>) EXCEPT !.nonce = nonce]

(* The keys gaz and gazPrice of contribute and settle mean nothing to the  *)
(* service: they run with its default gas.                                 *)
DeployTx                  == Tx(node1, NoAddress, 0, 1000000, "create", EncodeConstructorParams(<<1000>>))
ContributeTx(from, value) == Tx(from, contract, value, DefaultGas, "contribute", <<>>)
SettleTx                  == Tx(node1, contract, 0, DefaultGas, "settle", <<>>)
CheckTx                   == Tx(node1, contract, 0, DefaultGas, "checkGoalReached", <<>>)

(* ENTER is pressed and the function of the step runs up to its first      *)
(* unsettled promise.                                                      *)
Starting(steps) == ~rejected /\ phase = "prompt" /\ step \in steps

GetControlledAccounts ==
    /\ Starting({1, 3, 5, 12})
    /\ conn' = [n \in Node |-> AccountsRequest]
    /\ phase' = "list"

Transfer == Starting({2}) /\ Send(node1, SendTxRequest(TransferTx)) /\ phase' = "submit"

TransferRaw == Starting({4}) /\ Send(node3, AccountRequest(node1)) /\ phase' = "account"

DeployContract == Starting({6}) /\ Send(node1, SendTxRequest(DeployTx)) /\ phase' = "submit"

Contribute ==
    /\ \/ Starting({7}) /\ Send(node2, SendTxRequest(ContributeTx(node2, 499)))
       \/ Starting({9}) /\ Send(node3, SendTxRequest(ContributeTx(node3, 501)))
    /\ phase' = "submit"

CheckGoalReached == Starting({8, 10}) /\ Send(node1, CallRequest(CheckTx)) /\ phase' = "call"

Settle == Starting({11}) /\ Send(node1, SendTxRequest(SettleTx)) /\ phase' = "submit"

StartStep ==
    /\ \/ GetControlledAccounts \/ Transfer \/ TransferRaw \/ DeployContract
       \/ Contribute \/ CheckGoalReached \/ Settle
    /\ UNCHANGED <<clusterVars, step, rejected, listed, txHash, contract, shown>>

----------------------------------------------------------------------------
(* demo.js: what its callbacks do with a response.                         *)

Received(n, p) == phase = p /\ conn[n].state = "answered"

Close(n) == conn' = [conn EXCEPT ![n] = Closed]

StepDone(display) ==
    /\ shown' = display
    /\ step' = step + 1
    /\ phase' = "prompt"

(* getControlledAccounts waits for all the nodes.  When one of them has    *)
(* failed the step is over, but the callbacks of the others still run.     *)
AccountsListed(n) ==
    /\ Received(n, "list") /\ conn[n].arg.json
    /\ Close(n)
    /\ LET list == [listed EXCEPT ![n] = conn[n].arg.value]
       IN  IF ~rejected /\ \A m \in Node \ {n} : conn[m].state = "closed"
           THEN StepDone(list) /\ listed' = [m \in Node |-> Nothing]
           ELSE listed' = list /\ UNCHANGED <<step, phase, shown>>
    /\ UNCHANGED <<clusterVars, rejected, txHash, contract>>

(* transferRaw signs with the nonce it was told.                           *)
AccountRead(n) ==
    /\ Received(n, "account") /\ conn[n].arg.json
    /\ Send(n, SendRawTxRequest(RawTx(conn[n].arg.value.nonce)))
    /\ phase' = "submit"
    /\ UNCHANGED <<clusterVars, step, rejected, listed, txHash, contract, shown>>

(* The transfers end with the hash, the others sleep for two seconds.      *)
Submitted(n) ==
    /\ Received(n, "submit") /\ conn[n].arg.json
    /\ Close(n)
    /\ txHash' = conn[n].arg.value
    /\ IF step \in {2, 4} THEN StepDone(txHash')
       ELSE phase' = "sleep" /\ UNCHANGED <<step, shown>>
    /\ UNCHANGED <<clusterVars, rejected, listed, contract>>

\* Defect: the receipt is requested from another node than the transaction.
WakeElsewhere ==
    /\ phase = "sleep"
    /\ Send(CHOOSE n \in Node : n # txHash.from, ReceiptRequest(txHash))
    /\ phase' = "receipt"
    /\ UNCHANGED <<clusterVars, step, rejected, listed, txHash, contract, shown>>

Wake ==
    /\ phase = "sleep"
    /\ Send(txHash.from, ReceiptRequest(txHash))
    /\ phase' = "receipt"
    /\ UNCHANGED <<clusterVars, step, rejected, listed, txHash, contract, shown>>

ReceiptRead(n) ==
    /\ Received(n, "receipt") /\ conn[n].arg.json
    /\ Close(n)
    /\ contract' = IF step = 6 THEN conn[n].arg.value.contractAddress ELSE contract
    /\ StepDone(ParseLogs(conn[n].arg.value.logs))
    /\ UNCHANGED <<clusterVars, rejected, listed, txHash>>

CallRead(n) ==
    /\ Received(n, "call") /\ conn[n].arg.json
    /\ Close(n)
    /\ StepDone(ParseOutput(conn[n].arg.value))
    /\ UNCHANGED <<clusterVars, rejected, listed, txHash, contract>>

\* Defect: what JSONbig.parse throws inside a callback reaches no promise.
RejectErrors(n) ==
    /\ conn[n].state = "broken"
    /\ Close(n)
    /\ rejected' = TRUE
    /\ UNCHANGED <<clusterVars, step, phase, listed, txHash, contract, shown>>

(* An error event, or an exception of JSONbig.parse, rejects the promise   *)
(* and with it the rest of the chain.                                      *)
Reject(n) ==
    /\ conn[n].state \in {"answered", "broken"}
    /\ ~conn[n].arg.json
    /\ Close(n)
    /\ rejected' = TRUE
    /\ UNCHANGED <<clusterVars, step, phase, listed, txHash, contract, shown>>

Callback(n) ==
    AccountsListed(n) \/ AccountRead(n) \/ Submitted(n) \/ ReceiptRead(n) \/ CallRead(n) \/ Reject(n)

ClientNext == StartStep \/ Wake \/ \E n \in Node : Callback(n)

Next ==
    \/ ClusterNext /\ UNCHANGED clientVars
    \/ \E n \in Node : Serve(n) \/ Disconnect(n)
    \/ ClientNext

Spec == Init /\ [][Next]_vars

(* ENTER is pressed, timers fire, callbacks run and nodes answer.          *)
FairSpec == Spec /\ WF_vars(ClientNext) /\ WF_vars(\E n \in Node : Serve(n))

----------------------------------------------------------------------------
(* Properties.                                                             *)

After(s) == step = s + 1

(* What the script tells its user after steps 8, 11 and 12 of the          *)
(* campaign is so on whatever node answered, however far apart the nodes   *)
(* are: 499 wei do not reach the goal, settle pays, and the accounts of    *)
(* the three nodes have changed by 1000, 499 and 501 wei and the transfers *)
(* among themselves.                                                       *)
CampaignTruthful ==
    /\ After(8) => shown = FALSE
    /\ After(11) => shown = <<[event |-> "Settlement", args |-> TRUE]>>
    /\ After(12) =>
          /\ shown[node3] = Endowment - 501
          /\ \E sent \in 0..2, got \in 0..2 :
                /\ got <= sent
                /\ shown[node1] = Endowment + 1000 - 500 * sent
                /\ shown[node2] = Endowment - 499 + 500 * got

(* Of the transactions signed with one nonce of an account, as happens     *)
(* when a node that lags is asked for it, at most one takes effect, and    *)
(* none after one with a higher nonce.                                     *)
OnePerNonce ==
    \A n \in Node : \A r, s \in receipts[n] :
       /\ r.tx.from = s.tx.from /\ r.tx.nonce = s.tx.nonce => r = s
       /\ r.tx.nonce < statedb[n].nonce[r.tx.from]

(* The script ends, with its last step or with an error, whatever the      *)
(* cluster does.                                                           *)
DemoEnds == <>(step = 13 \/ rejected)

(* demo.js:344 and demo.js:358 "Notice how the balances of node1 and node2 *)
(* have changed."                                                          *)
BalancesHaveChanged ==
    After(3) => shown[node1] # Endowment /\ shown[node2] # Endowment

(* demo.js:394 "This time the funding goal was reached."                   *)
GoalReachedThisTime == After(10) => shown = TRUE
=============================================================================
