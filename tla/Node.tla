-------------------------------- MODULE Node --------------------------------
(***************************************************************************)
(* One evm-babble process around its State App: the handlers of the HTTP   *)
(* interface (service/http_handlers.go) under the mutex of the Service,    *)
(* the loop of the Proxy (proxy/proxy.go), the unbuffered channel between  *)
(* them, and the State of EvmState below.                                  *)
(*                                                                         *)
(* Goroutines.  Each request has one; the mutex of the Service lets one    *)
(* handler run at a time, and it keeps that mutex while it waits for the   *)
(* loop to take a transaction or for commitMutex.  Reads of balances,      *)
(* nonces and tables take no lock: between two of them the loop may do any *)
(* number of steps of a block.                                             *)
(***************************************************************************)
EXTENDS EvmState

CONSTANTS
    Client,      \* connections; one request at a time on each
    NoOne,       \* the mutex of the Service is free
    Panicked,    \* a handler that panicked has it
    NoNonce,     \* the nonce of a /tx body is left to the Service
    Controlled,  \* accounts of the key store, in its order
    TxArgs,      \* bodies of /tx requests
    RawTx,       \* bodies of /rawtx requests
    Foreign,     \* entries that other nodes submit to Babble
    MaxRequests, \* bound: requests in all
    MaxDelivered, \* bound: blocks in all ...
    Endless      \* ... but for these, which come without end

ASSUME NodeAssumption ==
    /\ NoOne \notin Client /\ Panicked \notin Client /\ NoOne # Panicked
    /\ Controlled \in Seq(Account)
    /\ \A args \in TxArgs : "nonce" \in DOMAIN args /\ args.from \in Account
    /\ RawTx \subseteq Tx \cup Junk
    /\ Foreign \subseteq Tx \cup Junk
    /\ MaxRequests \in Nat
    /\ MaxDelivered \in Nat
    /\ Endless \subseteq Blocks

VARIABLES
    \* the Service
    mutex,     \* who locked it
    at,        \* per client: where its request is
    request,   \* per client: the request
    reading,   \* accounts the handler has still to read
    source,    \* the ledger its last balance came from
    answers,   \* what it has read so far
    entry,     \* what it submits
    \* the Proxy
    loop,      \* where Serve is
    inHand,    \* what it took from submitCh
    batch,     \* the block it took from CommitCh
    \* Babble and the clients
    submitted, \* entries Babble has accepted
    outcome,   \* per client: how its latest request ended
    view,      \* per client: the accounts its latest answers showed
    requests, deliveries \* counters for the bounds

handlerVars == <<reading, source, answers, entry>>
connVars    == <<at, request, outcome, view>>
proxyVars   == <<loop, inHand, batch>>
nodeVars    == <<vars, mutex, handlerVars, connVars, proxyVars, submitted, requests, deliveries>>

Reads    == {<<a>> : a \in Account} \cup {Controlled}

(* A "bad" request is one whose body the handler cannot parse.             *)
NoRequest == [kind |-> "none", what |-> NoNonce]

Requests ==
    [kind : {"accounts"}, what : Reads] \cup [kind : {"call"}, what : Calls]
        \cup [kind : {"tx"}, what : TxArgs] \cup [kind : {"rawtx"}, what : RawTx]
        \cup [kind : {"receipt"}, what : Tx] \cup [kind : {"bad"}, what : {NoNonce}]

NodeInit ==
    /\ Init
    /\ mutex = NoOne
    /\ at = [c \in Client |-> "idle"]
    /\ request = [c \in Client |-> NoRequest]
    /\ reading = <<>> /\ source = EmptyLedger /\ answers = <<>> /\ entry = NoNonce
    /\ loop = "select" /\ inHand = NoNonce /\ batch = <<>>
    /\ submitted = {}
    /\ outcome = [c \in Client |-> "none"]
    /\ view = [c \in Client |-> <<>>]
    /\ requests = 0 /\ deliveries = 0

----------------------------------------------------------------------------
(* The process: it serves requests once the genesis accounts are there.    *)

Serving == status = "up" /\ genesis = "done"

Start ==
    /\ NewState \/ NewStateFails
    /\ loop' = "select" /\ inHand' = NoNonce /\ batch' = <<>>
    /\ UNCHANGED <<mutex, handlerVars, connVars, submitted, requests, deliveries>>

(* The variables of a handler go with it.                                  *)
Forget == reading' = <<>> /\ source' = EmptyLedger /\ answers' = <<>> /\ entry' = NoNonce

(* A kill, a transaction that panics, or the fatal error of the Go runtime *)
(* when a handler reads the objects of a StateDB in the middle of a write  *)
(* to them.                                                                *)
Die ==
    /\ Crash
    /\ mutex' = NoOne
    /\ at' = [c \in Client |-> "idle"]
    /\ request' = [c \in Client |-> NoRequest]
    /\ outcome' = [c \in Client |-> IF at[c] = "idle" THEN outcome[c] ELSE "lost"]
    /\ Forget
    /\ UNCHANGED <<view, proxyVars, submitted, requests, deliveries>>

(* Steps of the State App that no handler and no step of the loop waits    *)
(* for: the genesis accounts, the rest of a block, its commit.             *)
Inside ==
    /\ NoGenesisFile \/ CreateAccounts \/ Apply \/ Commit \/ WriteFails
    /\ UNCHANGED <<mutex, handlerVars, connVars, proxyVars, submitted, requests, deliveries>>

----------------------------------------------------------------------------
(* makeHandler: Lock, the handler, Unlock.                                 *)

Ask(c, r) ==
    /\ Serving /\ requests < MaxRequests
    /\ at[c] = "idle"
    /\ at' = [at EXCEPT ![c] = "waiting"]
    /\ request' = [request EXCEPT ![c] = r]
    /\ requests' = requests + 1
    /\ UNCHANGED <<vars, mutex, handlerVars, outcome, view, proxyVars, submitted, deliveries>>

\* Defect: the handler runs without the lock.
EnterUnlocked(c) ==
    /\ at[c] = "waiting"
    /\ mutex' = c
    /\ at' = [at EXCEPT ![c] = request[c].kind]
    /\ reading' = IF request[c].kind = "accounts" THEN request[c].what ELSE <<>>
    /\ UNCHANGED <<vars, source, answers, entry, request, outcome, view, proxyVars, submitted,
                   requests, deliveries>>

Enter(c) ==
    /\ at[c] = "waiting"
    /\ mutex = NoOne
    /\ mutex' = c
    /\ at' = [at EXCEPT ![c] = request[c].kind]
    /\ reading' = IF request[c].kind = "accounts" THEN request[c].what ELSE <<>>
    /\ UNCHANGED <<vars, source, answers, entry, request, outcome, view, proxyVars, submitted,
                   requests, deliveries>>

(* The handler is over, and so is the request.                             *)
Leave(c, result) ==
    /\ outcome' = [outcome EXCEPT ![c] = result]
    /\ at' = [at EXCEPT ![c] = "idle"]
    /\ request' = [request EXCEPT ![c] = NoRequest]
    /\ Forget

(* It returns, and makeHandler unlocks.                                    *)
Reply(c, result) == Leave(c, result) /\ mutex' = NoOne

(* Steps of a handler that touch nothing but its own variables.            *)
Local == UNCHANGED <<vars, proxyVars, submitted, requests, deliveries>>

Refuse(c) ==
    /\ at[c] = "bad"
    /\ Reply(c, "error")
    /\ Local /\ UNCHANGED view

----------------------------------------------------------------------------
(* GET /account and /accounts: balance and nonce, account by account.      *)

\* Defect: balances are those of the write-ahead state.
WriteAhead == ethState

(* GetBalance reads the committed ledger, GetNonce the write-ahead one.    *)
GetBalanceFrom == statedb

\* Defect: nonces are those of the committed ledger.
CommittedNonce(a) == statedb.nonce[a]

GetNonce(a) == ethState.nonce[a]

ReadBalance(c) ==
    /\ at[c] = "accounts" /\ reading # <<>>
    /\ source' = GetBalanceFrom
    /\ at' = [at EXCEPT ![c] = "nonce"]
    /\ Local /\ UNCHANGED <<mutex, reading, answers, entry, request, outcome, view>>

ReadNonce(c) ==
    /\ at[c] = "nonce"
    /\ answers' = LET who == Head(reading)
                  IN  [x \in DOMAIN answers \cup {who} |->
                          IF x = who THEN [balance |-> source, nonce |-> GetNonce(who)] ELSE answers[x]]
    /\ reading' = Tail(reading)
    /\ at' = [at EXCEPT ![c] = "accounts"]
    /\ Local /\ UNCHANGED <<mutex, source, entry, request, outcome, view>>

SendAccounts(c) ==
    /\ at[c] = "accounts" /\ reading = <<>>
    /\ Reply(c, "ok")
    /\ view' = [view EXCEPT ![c] = [a \in DOMAIN @ \cup DOMAIN answers |->
                                       IF a \in DOMAIN answers THEN answers[a] ELSE @[a]]]
    /\ Local

\* Defect: the nonce is read before the balance.
NonceFirst(c) ==
    \/ /\ at[c] = "accounts" /\ reading # <<>>
       /\ answers' = [x \in DOMAIN answers \cup {Head(reading)} |->
                         IF x = Head(reading) THEN [balance |-> EmptyLedger, nonce |-> GetNonce(x)]
                                              ELSE answers[x]]
       /\ at' = [at EXCEPT ![c] = "nonce"]
       /\ Local /\ UNCHANGED <<mutex, reading, source, entry, request, outcome, view>>
    \/ /\ at[c] = "nonce"
       /\ answers' = [answers EXCEPT ![Head(reading)].balance = GetBalanceFrom]
       /\ reading' = Tail(reading)
       /\ at' = [at EXCEPT ![c] = "accounts"]
       /\ Local /\ UNCHANGED <<mutex, source, entry, request, outcome, view>>
    \/ SendAccounts(c)

AccountsHandler(c) == ReadBalance(c) \/ ReadNonce(c) \/ SendAccounts(c)

----------------------------------------------------------------------------
(* POST /call: a Call of the State, under both mutexes.                    *)

CallHandler(c) ==
    LET m == request[c].what
    IN  /\ at[c] = "call"
        /\ ~CallPanics(ethState, gp, m)
        /\ Call(m)
        /\ Reply(c, IF Executes(ethState, gp, m) THEN "ok" ELSE "error")
        /\ UNCHANGED <<view, proxyVars, submitted, requests, deliveries>>

(* net/http recovers the panic and closes the connection.  The unlock of   *)
(* makeHandler is not deferred, so the mutex stays locked.                 *)
CallHandlerPanics(c) ==
    LET m == request[c].what
    IN  /\ at[c] = "call"
        /\ CallPanics(ethState, gp, m)
        /\ Call(m)
        /\ Leave(c, "lost")
        /\ mutex' = Panicked
        /\ UNCHANGED <<view, proxyVars, submitted, requests, deliveries>>

----------------------------------------------------------------------------
(* POST /tx and /rawtx.                                                    *)

Signed(args) == IF args.nonce = NoNonce THEN [args EXCEPT !.nonce = GetNonce(args.from)] ELSE args

(* A bound, not a condition of the code: Tx holds the nonces an instance   *)
(* is about.                                                               *)
PrepareTransaction(c) ==
    LET args == request[c].what
    IN  /\ at[c] = "tx"
        /\ args.from \in Range(Controlled)
        /\ Signed(args) \in Tx
        /\ entry' = Signed(args)
        /\ at' = [at EXCEPT ![c] = "submit"]
        /\ Local /\ UNCHANGED <<mutex, reading, source, answers, request, outcome, view>>

(* The key store has no key for the sender.                                *)
RefuseSender(c) ==
    /\ at[c] = "tx"
    /\ request[c].what.from \notin Range(Controlled)
    /\ Reply(c, "error")
    /\ Local /\ UNCHANGED view

TakeRaw(c) ==
    /\ at[c] = "rawtx"
    /\ entry' = request[c].what
    /\ at' = [at EXCEPT ![c] = "submit"]
    /\ Local /\ UNCHANGED <<mutex, reading, source, answers, request, outcome, view>>

(* A raw transaction is decoded after it has been submitted; one that does *)
(* not decode is answered with an empty body.                              *)
SendHash(c) ==
    /\ at[c] = "submitted"
    /\ Reply(c, IF Decodes(entry) THEN "ok" ELSE "empty")
    /\ Local /\ UNCHANGED view

----------------------------------------------------------------------------
(* GET /tx/{hash}: the transaction, then its receipt.                      *)

FindTransaction(c) ==
    /\ at[c] = "receipt"
    /\ IF request[c].what \in txTable
       THEN at' = [at EXCEPT ![c] = "found"] /\ UNCHANGED <<mutex, handlerVars, request, outcome>>
       ELSE Reply(c, "error")
    /\ Local /\ UNCHANGED view

FindReceipt(c) ==
    /\ at[c] = "found"
    /\ Reply(c, IF request[c].what \in DOMAIN receiptTable THEN "ok" ELSE "error")
    /\ Local /\ UNCHANGED view

----------------------------------------------------------------------------
(* Proxy.Serve: one submission or one block at a time.                     *)

TakeSubmission(c) ==
    /\ status = "up" /\ loop = "select"
    /\ at[c] = "submit"
    /\ inHand' = entry
    /\ loop' = "submit"
    /\ at' = [at EXCEPT ![c] = "submitted"]
    /\ UNCHANGED <<vars, mutex, handlerVars, request, outcome, view, batch, submitted,
                   requests, deliveries>>

SubmitTx ==
    /\ status = "up" /\ loop = "submit"
    /\ submitted' = submitted \cup {inHand}
    /\ inHand' = NoNonce
    /\ loop' = "select"
    /\ UNCHANGED <<vars, mutex, handlerVars, connVars, batch, requests, deliveries>>

\* Defect: the loop ends with an error it cannot handle.
SubmitFailsForGood ==
    /\ status = "up" /\ loop = "submit"
    /\ inHand' = NoNonce
    /\ loop' = "ended"
    /\ UNCHANGED <<vars, mutex, handlerVars, connVars, batch, submitted, requests, deliveries>>

(* An error of the socket is logged and the transaction is gone.           *)
SubmitFails ==
    /\ status = "up" /\ loop = "submit"
    /\ inHand' = NoNonce
    /\ loop' = "select"
    /\ UNCHANGED <<vars, mutex, handlerVars, connVars, batch, submitted, requests, deliveries>>

(* Babble delivers what somebody has submitted.                            *)
Deliverable(b) == Range(b) \subseteq submitted \cup Foreign

TakeCommit(b) ==
    /\ status = "up" /\ loop = "select"
    /\ Deliverable(b)
    /\ \/ b \in Endless /\ UNCHANGED deliveries
       \/ b \notin Endless /\ deliveries < MaxDelivered /\ deliveries' = deliveries + 1
    /\ batch' = b
    /\ loop' = "lock"
    /\ UNCHANGED <<vars, mutex, handlerVars, connVars, inHand, submitted, requests>>

\* Defect: the block is processed without commitMutex.
ProcessUnlocked ==
    /\ status = "up" /\ loop = "lock"
    /\ block' = batch /\ pc' = "apply"
    /\ loop' = "process" /\ batch' = <<>>
    /\ UNCHANGED <<dbVars, statedb, wasVars, runVars, mutex, handlerVars, connVars, inHand,
                   submitted, requests, deliveries>>

(* ProcessBlock gets commitMutex; its steps are those of Inside.           *)
Process ==
    /\ loop = "lock"
    /\ ProcessBlock(batch)
    /\ loop' = "process" /\ batch' = <<>>
    /\ UNCHANGED <<mutex, handlerVars, connVars, inHand, submitted, requests, deliveries>>

(* Who holds commitMutex while the genesis accounts are not being created  *)
(* is the loop.                                                            *)
Processing == pc # "idle" /\ genesis # "creating"

Respond ==
    /\ status = "up" /\ loop = "process"
    /\ ~Processing
    /\ loop' = "select"
    /\ UNCHANGED <<vars, mutex, handlerVars, connVars, inHand, batch, submitted,
                   requests, deliveries>>

----------------------------------------------------------------------------
Handler(c) ==
    \/ Refuse(c)
    \/ AccountsHandler(c)
    \/ PrepareTransaction(c) \/ RefuseSender(c) \/ TakeRaw(c) \/ SendHash(c)
    \/ FindTransaction(c) \/ FindReceipt(c)

Serve == SubmitTx \/ SubmitFails \/ Respond

NodeNext ==
    \/ Start \/ Die \/ Inside
    \/ \E c \in Client :
          \/ \E r \in Requests : Ask(c, r)
          \/ Enter(c) \/ Handler(c) \/ TakeSubmission(c)
          \/ CallHandler(c) \/ CallHandlerPanics(c)
    \/ Serve
    \/ \E b \in Blocks : TakeCommit(b)
    \/ Process

NodeSpec == NodeInit /\ [][NodeNext]_nodeVars

(* Both mutexes hand themselves to a goroutine that has waited for long,   *)
(* and select picks at random among what is ready, so that a handler that  *)
(* waits on submitCh is taken in the end however many blocks come.  A call *)
(* of SubmitTx returns, with an error after the timeout of the socket.     *)
NodeFairSpec ==
    /\ NodeSpec
    /\ WF_nodeVars((Inside /\ (Apply \/ Commit)) \/ (Die /\ Panic))
    /\ WF_nodeVars(Serve)
    /\ SF_nodeVars(Process)
    /\ \A c \in Client :
          /\ SF_nodeVars(Enter(c))
          /\ WF_nodeVars(Handler(c))
          /\ SF_nodeVars(CallHandler(c) \/ CallHandlerPanics(c))
          /\ SF_nodeVars(TakeSubmission(c))

----------------------------------------------------------------------------
(* Properties.                                                             *)

Places == {"idle", "waiting", "bad", "accounts", "nonce", "call", "tx", "rawtx", "submit",
           "submitted", "receipt", "found"}

Sights == [balance : Ledger, nonce : Nat]

(* Every variable keeps its type, one handler runs at a time and it is the *)
(* one that holds the mutex of the Service, and the loop holds a           *)
(* transaction exactly while it submits it.                                *)
NodeTypeOK ==
    /\ mutex \in Client \cup {NoOne, Panicked}
    /\ at \in [Client -> Places]
    /\ \A c \in Client : at[c] \notin {"idle", "waiting"} <=> mutex = c
    /\ request \in [Client -> Requests \cup {NoRequest}]
    /\ reading \in Seq(Account)
    /\ source \in Ledger
    /\ DOMAIN answers \subseteq Account /\ \A a \in DOMAIN answers : answers[a] \in Sights
    /\ entry \in Tx \cup Junk \cup {NoNonce}
    /\ loop \in {"select", "submit", "lock", "process"}
    /\ inHand \in Tx \cup Junk \cup {NoNonce}
    /\ batch \in Blocks \cup {<<>>}
    /\ submitted \subseteq Tx \cup Junk
    /\ outcome \in [Client -> {"none", "ok", "empty", "error", "lost"}]
    /\ \A c \in Client : /\ DOMAIN view[c] \subseteq Account
                         /\ \A a \in DOMAIN view[c] : view[c][a] \in Sights

(* The balance and the nonce of an answer may be of different moments, but *)
(* the nonce is never the older one: it counts every transaction of the    *)
(* account that the balance shows, so nobody who signs with it after       *)
(* seeing a payment signs the nonce of that payment again.                 *)
NonceNotBehindBalance ==
    \A c \in Client : \A a \in DOMAIN view[c] :
        view[c][a].balance.nonce[a] <= view[c][a].nonce

Shows(L, t) == t.nonce < L.nonce[t.from]

(* A client that has been shown the effect of a transaction is not told    *)
(* that it does not exist or has no receipt (GET /tx/{hash}), however the  *)
(* two reads of that handler fall between the writes of a commit, and      *)
(* whatever crashes in between.  Of transactions that are the only ones    *)
(* with their nonce and overdraw nothing.                                  *)
EffectsHaveReceipts ==
    [][\A c \in Client :
          at[c] \in {"receipt", "found"} /\ outcome'[c] = "error" /\ at'[c] = "idle" =>
              \A a \in DOMAIN view[c] : ~Shows(view[c][a].balance, request[c].what)]_nodeVars

(* The Service never signs a transaction that has already been applied and *)
(* stored (prepareTransaction): the hash it answers with is not that of an *)
(* old receipt, in the middle of a commit as well.                         *)
SignsFresh ==
    [][\A c \in Client :
          at[c] = "tx" /\ at'[c] = "submit" /\ request[c].what.nonce = NoNonce =>
              entry' \notin DOMAIN receiptTable]_nodeVars

(* However the goroutines of a process interleave, what they do to the     *)
(* State App is a behaviour of EvmState: its properties hold of a node.    *)
ImplementsState == Spec

(* Every request is answered, or its process ends: handlers that wait for  *)
(* each other, for the loop or for a block do not wait for ever.  Unless a *)
(* handler has panicked, after which nobody gets the mutex any more: that  *)
(* of a call whose code asks for its block is the only one that does.      *)
RequestsAnswered ==
    \A c \in Client : at[c] # "idle" ~> at[c] = "idle" \/ mutex = Panicked
=============================================================================
