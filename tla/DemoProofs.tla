----------------------------- MODULE DemoProofs -----------------------------
(***************************************************************************)
(* What a cluster applies for a client and what the script makes of it:    *)
(* for any nodes, any size and lag of blocks and any connections that      *)
(* break, a nonce is used once, and what the script shows of its campaign  *)
(* is so.  The second rests on there being one history, of which every     *)
(* node has a beginning.                                                   *)
(***************************************************************************)
EXTENDS Demo, SumTheorems

----------------------------------------------------------------------------
(* Sequences whose elements have no type but what they are.                *)

Elements(s) == {s[i] : i \in DOMAIN s}

IsSequence(s) == s \in Seq(Elements(s))

LEMMA SequenceAppend ==
    ASSUME NEW s, IsSequence(s), NEW e
    PROVE  /\ IsSequence(Append(s, e))
           /\ Elements(Append(s, e)) = Elements(s) \cup {e}
<1> DEFINE S == Elements(s) \cup {e}
           t == Append(s, e)
<1>1. s \in Seq(Elements(s)) /\ Elements(s) \subseteq S
  BY DEF IsSequence
<1>2. s \in Seq(S)
  BY <1>1
<1>3. t \in Seq(S) /\ DOMAIN t = 1..(Len(s) + 1) /\ DOMAIN s = 1..Len(s) /\ Len(s) \in Nat
  BY <1>2
<1>4. t[Len(s) + 1] = e /\ \A i \in 1..Len(s) : t[i] = s[i]
  BY <1>2
<1>5. Elements(t) = S
  <2>1. Elements(t) \subseteq S
    BY <1>3, <1>4 DEF Elements
  <2>2. S \subseteq Elements(t)
    BY <1>3, <1>4 DEF Elements
  <2>3. QED
    BY <2>1, <2>2
<1>6. QED
  BY <1>3, <1>5 DEF IsSequence

LEMMA SequenceTail ==
    ASSUME NEW s, IsSequence(s), s # <<>>
    PROVE  /\ IsSequence(Tail(s))
           /\ Elements(Tail(s)) \subseteq Elements(s)
           /\ Head(s) \in Elements(s)
<1> DEFINE t == Tail(s)
<1>1. s \in Seq(Elements(s))
  BY DEF IsSequence
<1>2. Len(s) \in Nat \ {0} /\ DOMAIN s = 1..Len(s)
  BY <1>1
<1>3. Head(s) = s[1] /\ Head(s) \in Elements(s)
  BY <1>1, <1>2 DEF Elements
<1>4. /\ t \in Seq(Elements(s))
      /\ DOMAIN t = 1..(Len(s) - 1)
      /\ \A i \in 1..(Len(s) - 1) : t[i] = s[i + 1]
  BY <1>1, <1>2
<1>5. Elements(t) \subseteq Elements(s)
  BY <1>2, <1>4 DEF Elements
<1>6. t \in Seq(Elements(t))
  <2> HIDE DEF t
  <2>1. Len(t) \in Nat /\ t \in [1..Len(t) -> Elements(s)]
    BY <1>4
  <2>2. t \in [1..Len(t) -> Elements(t)]
    BY <2>1 DEF Elements
  <2>3. QED
    BY <2>1, <2>2
<1>7. QED
  BY <1>3, <1>5, <1>6 DEF IsSequence

LEMMA SequenceOfSet ==
    ASSUME NEW S, IsFiniteSet(S), NEW b \in SetToSeqs(S)
    PROVE  IsSequence(b) /\ Elements(b) \subseteq S
<1>1. Cardinality(S) \in Nat
  BY FS_CardinalityType
<1>2. b \in [1..Cardinality(S) -> S]
  BY DEF SetToSeqs
<1>3. Elements(b) \subseteq S
  BY <1>2 DEF Elements
<1>4. b \in [1..Cardinality(S) -> Elements(b)]
  BY <1>2 DEF Elements
<1>5. b \in Seq(Elements(b))
  BY <1>1, <1>4
<1>6. QED
  BY <1>3, <1>5 DEF IsSequence

LEMMA SequenceEmpty == IsSequence(<<>>) /\ Elements(<<>>) = {}
BY DEF IsSequence, Elements

----------------------------------------------------------------------------
(* Ledgers and transactions.                                               *)

IsTx(t) ==
    /\ t = [from |-> t.from, to |-> t.to, nonce |-> t.nonce, value |-> t.value,
            gas |-> t.gas, method |-> t.method, args |-> t.args]
    /\ t.from \in Node
    /\ t.method \in Methods

IsLedger(L) ==
    /\ L = [nonce |-> L.nonce, balance |-> L.balance, campaign |-> L.campaign]
    /\ L.nonce \in [Node -> Nat]

LEMMA GenesisLedger == IsLedger(Genesis)
BY DEF IsLedger, Genesis

LEMMA PreparedTx ==
    ASSUME NEW t, IsTx(t), NEW n \in Node
    PROVE  IsTx(Prepare(n, t))
BY DEF IsTx, Prepare

(* Whatever a transaction does, the nonce of its sender moves by one and   *)
(* no other one moves.                                                     *)
LEMMA ExecuteNonces ==
    ASSUME NEW L, IsLedger(L), NEW t, IsTx(t)
    PROVE  /\ IsLedger(Execute(L, t))
           /\ Execute(L, t).nonce = [L.nonce EXCEPT ![t.from] = @ + 1]
<1> DEFINE B == Bump(L, t.from)
           moved == [L.nonce EXCEPT ![t.from] = @ + 1]
<1>1. moved \in [Node -> Nat]
  BY DEF IsTx, IsLedger
<1>2. IsLedger(B) /\ B.nonce = moved
  BY <1>1 DEF IsLedger, Bump
<1> HIDE DEF B, moved
<1>3. ASSUME NEW from, NEW to, NEW v
      PROVE  IsLedger(Pay(B, from, to, v)) /\ Pay(B, from, to, v).nonce = moved
  <2>1. PICK b : Pay(B, from, to, v) = [B EXCEPT !.balance = b]
    BY DEF Pay
  <2>2. QED
    BY <1>2, <2>1 DEF IsLedger
<1>4. CASE t.method = "transfer"
  BY <1>3, <1>4 DEF Execute, B, moved
<1>5. CASE t.method = "create"
  <2>1. Execute(L, t) = [B EXCEPT !.campaign = NewCampaign(t.from, t.args[1])]
    BY <1>5 DEF Execute, B
  <2>2. QED
    BY <1>2, <2>1 DEF IsLedger, moved
<1>6. CASE t.method = "contribute"
  <2> DEFINE P == Pay(B, t.from, Contract, t.value)
  <2>1. Execute(L, t) = [P EXCEPT !.campaign = Contributed(@, t.value)]
    BY <1>6 DEF Execute, B
  <2>2. IsLedger(P) /\ P.nonce = moved
    BY <1>3
  <2> HIDE DEF P
  <2>3. QED
    BY <2>1, <2>2 DEF IsLedger, moved
<1>7. CASE t.method = "settle"
  <2> DEFINE P == Pay(B, Contract, B.campaign.beneficiary, B.campaign.amount)
  <2>1. Execute(L, t) = Settled(B)
    BY <1>7 DEF Execute, B
  <2>2. IsLedger(P) /\ P.nonce = moved
    BY <1>3
  <2>3. Settled(B) = IF GoalReached(B.campaign) THEN [P EXCEPT !.campaign = PaidOut(B.campaign)] ELSE B
    BY DEF Settled
  <2> HIDE DEF P
  <2>4. QED
    BY <1>2, <2>1, <2>2, <2>3 DEF IsLedger, moved
<1>8. QED
  BY <1>4, <1>5, <1>6, <1>7 DEF IsTx, Methods
----------------------------------------------------------------------------
(* What is on its way to the nodes.                                        *)

AreTxs(s) == IsSequence(s) /\ \A t \in Elements(s) : IsTx(t)

Waiting == IsFiniteSet(pool) /\ \A t \in pool : IsTx(t)

Ordered == /\ IsSequence(log) /\ \A b \in Elements(log) : AreTxs(b)
           /\ height \in [Node -> Nat]
           /\ DOMAIN rest = Node /\ \A n \in Node : AreTxs(rest[n])

Requested ==
    /\ DOMAIN conn = Node
    /\ \A n \in Node : conn[n].state = "sent" /\ conn[n].path \in {"/tx", "/rawtx"} => IsTx(conn[n].arg)

(* What a node has applied, stored or not, is behind the nonces of its     *)
(* write-ahead state, and what is stored behind those of the ledger.       *)
Settlements(n) == receipts[n] \cup Elements(unflushed[n])

Used(L, r) == r.tx.from \in Node /\ r.tx.nonce \in Nat /\ r.tx.nonce < L.nonce[r.tx.from]

SameNonce(r, s) == r.tx.from = s.tx.from /\ r.tx.nonce = s.tx.nonce

SettledOnce(n) ==
    /\ IsLedger(was[n]) /\ IsLedger(statedb[n])
    /\ IsSequence(unflushed[n])
    /\ \A r \in Settlements(n) : Used(was[n], r)
    /\ \A r \in receipts[n] : Used(statedb[n], r)
    /\ \A r, s \in Settlements(n) : SameNonce(r, s) => r = s

Settling ==
    /\ DOMAIN was = Node /\ DOMAIN statedb = Node
    /\ DOMAIN unflushed = Node /\ DOMAIN receipts = Node
    /\ \A n \in Node : SettledOnce(n)

OnceInv == Waiting /\ Ordered /\ Requested /\ Settling

LEMMA OnceInit == Init => OnceInv
<1> SUFFICES ASSUME Init PROVE OnceInv
  OBVIOUS
<1> USE DEF Init, ClusterInit, DemoInit
<1>1. Waiting
  BY FS_EmptySet DEF Waiting
<1>2. Ordered
  BY SequenceEmpty DEF Ordered, AreTxs
<1>3. Requested
  BY DEF Requested, Closed
<1>4. Settling
  BY SequenceEmpty, GenesisLedger DEF Settling, SettledOnce, Settlements
<1>5. QED
  BY <1>1, <1>2, <1>3, <1>4 DEF OnceInv

----------------------------------------------------------------------------
(* Steps of the cluster.                                                   *)

LEMMA OrderStep == OnceInv /\ Order /\ UNCHANGED clientVars => OnceInv'
<1> SUFFICES ASSUME OnceInv, Order, UNCHANGED clientVars PROVE OnceInv'
  OBVIOUS
<1>1. PICK chosen \in SUBSET pool : \E b \in SetToSeqs(chosen) :
         log' = Append(log, b) /\ pool' = pool \ chosen
  BY DEF Order
<1>2. PICK b \in SetToSeqs(chosen) : log' = Append(log, b) /\ pool' = pool \ chosen
  BY <1>1
<1>3. UNCHANGED <<height, busy, rest, was, unflushed, statedb, receipts, conn>>
  BY DEF Order, clientVars
<1>4. IsFiniteSet(chosen) /\ IsFiniteSet(pool') /\ \A t \in chosen \cup pool' : IsTx(t)
  BY <1>1, <1>2, FS_Subset DEF OnceInv, Waiting
<1>5. AreTxs(b)
  BY <1>4, SequenceOfSet DEF AreTxs
<1>6. IsSequence(log') /\ \A s \in Elements(log') : AreTxs(s)
  BY <1>2, <1>5, SequenceAppend DEF OnceInv, Ordered
<1>7. Waiting' /\ Ordered'
  BY <1>3, <1>4, <1>6 DEF OnceInv, Waiting, Ordered
<1>8. Requested' /\ Settling'
  BY <1>3 DEF OnceInv, Requested, Settling, SettledOnce, Settlements
<1>9. QED
  BY <1>7, <1>8 DEF OnceInv

LEMMA BlockStep ==
    ASSUME OnceInv, NEW n \in Node, ProcessBlock(n) \/ AbandonBlock(n), UNCHANGED clientVars
    PROVE  OnceInv'
<1>1. UNCHANGED <<pool, log, was, unflushed, statedb, receipts, conn>>
  BY DEF ProcessBlock, AbandonBlock, clientVars
<1>2. Waiting' /\ Requested' /\ Settling'
  BY <1>1 DEF OnceInv, Waiting, Requested, Settling, SettledOnce, Settlements
<1>3. height' \in [Node -> Nat]
  BY DEF ProcessBlock, AbandonBlock, OnceInv, Ordered
<1>4. PICK b : AreTxs(b) /\ rest' = [rest EXCEPT ![n] = b]
  <2>1. CASE ProcessBlock(n)
    <3>1. height[n] \in Nat /\ height[n] < Len(log) /\ height'[n] = height[n] + 1
      BY <2>1 DEF ProcessBlock, OnceInv, Ordered
    <3>2. height'[n] \in DOMAIN log
      BY <3>1 DEF OnceInv, Ordered, IsSequence
    <3>3. AreTxs(log[height'[n]])
      BY <3>2 DEF OnceInv, Ordered, Elements
    <3>4. QED
      BY <2>1, <3>3 DEF ProcessBlock
  <2>2. CASE AbandonBlock(n)
    <3>1. AreTxs(<<>>)
      BY SequenceEmpty DEF AreTxs
    <3>2. QED
      BY <2>2, <3>1 DEF AbandonBlock
  <2>3. QED
    BY <2>1, <2>2
<1>5. Ordered'
  BY <1>1, <1>3, <1>4 DEF OnceInv, Ordered
<1>6. QED
  BY <1>2, <1>5 DEF OnceInv

(* The new receipt has the nonce its sender was at, which none of the      *)
(* earlier ones has reached.                                               *)
LEMMA ApplyStep ==
    ASSUME OnceInv, NEW n \in Node, ApplyTransaction(n), UNCHANGED clientVars
    PROVE  OnceInv'
<1> DEFINE t == Head(rest[n])
           r == ReceiptOf(was[n], t)
<1>1. /\ rest[n] # <<>> /\ t.nonce = was[n].nonce[t.from]
      /\ was' = [was EXCEPT ![n] = Execute(was[n], t)]
      /\ unflushed' = [unflushed EXCEPT ![n] = Append(unflushed[n], r)]
      /\ rest' = [rest EXCEPT ![n] = Tail(rest[n])]
      /\ UNCHANGED <<pool, log, height, statedb, receipts, conn>>
  BY DEF ApplyTransaction, Applies, clientVars
<1>2. IsTx(t) /\ AreTxs(Tail(rest[n]))
  BY <1>1, SequenceTail DEF OnceInv, Ordered, AreTxs
<1>3. r.tx = t
  BY DEF ReceiptOf
<1> HIDE DEF t, r
<1>4. Waiting' /\ Ordered' /\ Requested'
  BY <1>1, <1>2 DEF OnceInv, Waiting, Ordered, Requested
<1>5. SettledOnce(n)
  BY DEF OnceInv, Settling
<1>6. /\ IsLedger(was'[n]) /\ was'[n].nonce = [was[n].nonce EXCEPT ![t.from] = @ + 1]
      /\ IsSequence(unflushed'[n]) /\ Elements(unflushed'[n]) = Elements(unflushed[n]) \cup {r}
      /\ statedb'[n] = statedb[n] /\ receipts'[n] = receipts[n]
  BY <1>1, <1>2, <1>5, ExecuteNonces, SequenceAppend DEF OnceInv, Settling, SettledOnce
<1>7. Settlements(n)' = Settlements(n) \cup {r}
  BY <1>6 DEF Settlements
<1>8. was[n].nonce \in [Node -> Nat] /\ t.from \in Node
  BY <1>2, <1>5 DEF SettledOnce, IsLedger, IsTx
<1>9. \A s \in Settlements(n) : Used(was'[n], s) /\ ~SameNonce(r, s)
  <2>1. SUFFICES ASSUME NEW s \in Settlements(n) PROVE Used(was'[n], s) /\ ~SameNonce(r, s)
    OBVIOUS
  <2>2. Used(was[n], s)
    BY <1>5 DEF SettledOnce
  <2> DEFINE old == was[n].nonce
             new == was'[n].nonce
  <2>3. /\ new = [old EXCEPT ![t.from] = @ + 1] /\ old \in [Node -> Nat]
        /\ t.from \in Node /\ t.nonce = old[t.from]
        /\ s.tx.from \in Node /\ s.tx.nonce \in Nat /\ s.tx.nonce < old[s.tx.from]
    BY <1>1, <1>6, <1>8, <2>2 DEF Used
  <2> HIDE DEF old, new
  <2>4. old[s.tx.from] <= new[s.tx.from]
    BY <2>3
  <2>5. s.tx.nonce < new[s.tx.from]
    BY <2>3, <2>4
  <2>6. Used(was'[n], s)
    BY <2>3, <2>5 DEF Used, new
  <2>7. ~SameNonce(r, s)
    BY <1>3, <2>3 DEF SameNonce
  <2>8. QED
    BY <2>6, <2>7
<1>10. Used(was'[n], r)
  BY <1>1, <1>3, <1>6, <1>8 DEF Used
<1>11. \A s1, s2 \in Settlements(n)' : SameNonce(s1, s2) => s1 = s2
  <2>1. \A s \in Settlements(n) : ~SameNonce(s, r)
    BY <1>9 DEF SameNonce
  <2>2. QED
    BY <1>5, <1>7, <1>9, <2>1 DEF SettledOnce
<1>12. SettledOnce(n)'
  BY <1>5, <1>6, <1>7, <1>9, <1>10, <1>11 DEF SettledOnce
<1>13. ASSUME NEW m \in Node \ {n} PROVE SettledOnce(m)'
  BY <1>1 DEF OnceInv, Settling, SettledOnce, Settlements
<1>14. Settling'
  BY <1>1, <1>12, <1>13 DEF OnceInv, Settling
<1>15. QED
  BY <1>4, <1>14 DEF OnceInv

LEMMA CommitStep ==
    ASSUME OnceInv, NEW n \in Node, Commit(n), UNCHANGED clientVars
    PROVE  OnceInv'
<1>1. /\ statedb' = [statedb EXCEPT ![n] = was[n]]
      /\ receipts' = [receipts EXCEPT ![n] = @ \cup Elements(unflushed[n])]
      /\ unflushed' = [unflushed EXCEPT ![n] = <<>>]
      /\ UNCHANGED <<pool, log, height, rest, was, conn>>
  BY DEF Commit, clientVars, Elements
<1>2. Waiting' /\ Ordered' /\ Requested'
  BY <1>1 DEF OnceInv, Waiting, Ordered, Requested
<1>3. /\ statedb'[n] = was[n] /\ was'[n] = was[n]
      /\ receipts'[n] = Settlements(n)
      /\ unflushed'[n] = <<>>
  BY <1>1 DEF OnceInv, Settling, Settlements
<1>4. Settlements(n)' = Settlements(n)
  BY <1>3, SequenceEmpty DEF Settlements
<1>5. SettledOnce(n)'
  BY <1>3, <1>4, SequenceEmpty DEF OnceInv, Settling, SettledOnce
<1>6. ASSUME NEW m \in Node \ {n} PROVE SettledOnce(m)'
  BY <1>1 DEF OnceInv, Settling, SettledOnce, Settlements
<1>7. Settling'
  BY <1>1, <1>5, <1>6 DEF OnceInv, Settling
<1>8. QED
  BY <1>2, <1>7 DEF OnceInv
----------------------------------------------------------------------------
(* Steps of the client and its connections.                                *)

(* Requests that submit carry a transaction of one of the three nodes.     *)
LEMMA SubmittedTx ==
    /\ IsTx(TransferTx) /\ IsTx(DeployTx) /\ IsTx(SettleTx)
    /\ \A v : IsTx(ContributeTx(node2, v)) /\ IsTx(ContributeTx(node3, v)) /\ IsTx(RawTx(v))
<1>1. node1 \in Node /\ node2 \in Node /\ node3 \in Node
  BY DemoAssumption DEF node1, node2, node3
<1>2. \A to, value, gas, args : \A from \in Node, method \in Methods :
         IsTx(Tx(from, to, value, gas, method, args))
  BY DEF IsTx, Tx
<1>3. \A v : IsTx(RawTx(v))
  BY <1>1, SMT DEF RawTx, Tx, IsTx, Methods
<1>4. QED
  BY <1>1, <1>2, <1>3, SMT DEF TransferTx, DeployTx, SettleTx, ContributeTx, Methods

LEMMA SendRequested ==
    ASSUME Requested, NEW n, NEW request, Send(n, request),
           request.path \in {"/tx", "/rawtx"} => IsTx(request.arg)
    PROVE  Requested'
BY DEF Requested, Send

LEMMA CloseRequested ==
    ASSUME Requested, NEW n, Close(n)
    PROVE  Requested'
BY DEF Requested, Close, Closed

LEMMA ClientStep ==
    ASSUME OnceInv, ClientNext
    PROVE  OnceInv'
<1>1. UNCHANGED clusterVars
  BY DEF ClientNext, StartStep, Wake, Callback, AccountsListed, AccountRead, Submitted, ReceiptRead,
         CallRead, Reject
<1>2. Waiting' /\ Ordered' /\ Settling'
  BY <1>1 DEF OnceInv, Waiting, Ordered, Settling, SettledOnce, Settlements, clusterVars
<1>3. CASE StartStep
  <2>1. ASSUME NEW n, NEW request, Send(n, request),
               request.path \in {"/tx", "/rawtx"} => IsTx(request.arg)
        PROVE  Requested'
    BY <2>1, SendRequested DEF OnceInv
  <2>2. CASE GetControlledAccounts
    <3>1. conn' = [n \in Node |-> AccountsRequest] /\ AccountsRequest.path = "/accounts"
      BY <2>2 DEF GetControlledAccounts, AccountsRequest, Request
    <3>2. Requested'
      BY <3>1 DEF Requested
    <3>3. QED
      BY <1>2, <3>2 DEF OnceInv
  <2>3. CASE TransferRaw
    <3>1. Send(node3, AccountRequest(node1)) /\ AccountRequest(node1).path = "/account"
      BY <2>3 DEF TransferRaw, AccountRequest, Request
    <3>2. QED
      BY <1>2, <2>1, <3>1 DEF OnceInv
  <2>4. CASE CheckGoalReached
    <3>1. Send(node1, CallRequest(CheckTx)) /\ CallRequest(CheckTx).path = "/call"
      BY <2>4 DEF CheckGoalReached, CallRequest, Request
    <3>2. QED
      BY <1>2, <2>1, <3>1 DEF OnceInv
  <2>5. CASE Transfer \/ DeployContract \/ Contribute \/ Settle
    <3>1. PICK n, t : IsTx(t) /\ Send(n, SendTxRequest(t))
      BY <2>5, SubmittedTx DEF Transfer, DeployContract, Contribute, Settle
    <3>2. SendTxRequest(t).arg = t
      BY DEF SendTxRequest, Request
    <3>3. QED
      BY <1>2, <2>1, <3>1, <3>2 DEF OnceInv
  <2>6. QED
    BY <1>3, <2>2, <2>3, <2>4, <2>5 DEF StartStep
<1>4. CASE Wake
  BY <1>2, <1>4, SendRequested DEF Wake, ReceiptRequest, Request, OnceInv
<1>5. CASE \E n \in Node : Callback(n)
  <2>1. PICK n \in Node : Callback(n)
    BY <1>5
  <2>2. CASE AccountRead(n)
    BY <1>2, <2>2, SubmittedTx, SendRequested DEF AccountRead, SendRawTxRequest, Request, OnceInv
  <2>3. CASE ~AccountRead(n)
    BY <1>2, <2>1, <2>3, CloseRequested
       DEF Callback, AccountsListed, Submitted, ReceiptRead, CallRead, Reject, OnceInv
  <2>4. QED
    BY <2>2, <2>3
<1>6. QED
  BY <1>3, <1>4, <1>5 DEF ClientNext

(* What is handed to Babble is the transaction of the request, with the    *)
(* nonce of the node when that is to fill it in.                           *)
LEMMA ConnectionStep ==
    ASSUME OnceInv, NEW n \in Node, Serve(n) \/ Disconnect(n)
    PROVE  OnceInv'
<1>1. UNCHANGED <<log, height, busy, rest, was, unflushed, statedb, receipts>>
  BY DEF Serve, Disconnect, clusterVars
<1>2. Ordered' /\ Settling'
  BY <1>1 DEF OnceInv, Ordered, Settling, SettledOnce, Settlements
<1>3. Requested'
  BY DEF OnceInv, Requested, Serve, Disconnect
<1>4. Waiting'
  <2>1. CASE Serve(n)
    <3> DEFINE body == Body(n, conn[n])
    <3>1. CASE conn[n].path \in {"/tx", "/rawtx"}
      <4>1. IsTx(conn[n].arg)
        BY <2>1, <3>1 DEF Serve, OnceInv, Requested
      <4>2. body.value \in {Prepare(n, conn[n].arg), conn[n].arg}
        BY <3>1 DEF Body, Json
      <4>3. IsTx(body.value)
        BY <4>1, <4>2, PreparedTx
      <4>4. pool' = pool \cup {body.value}
        BY <2>1, <3>1 DEF Serve
      <4> HIDE DEF body
      <4>5. QED
        BY <4>3, <4>4, FS_AddElement DEF OnceInv, Waiting
    <3>2. CASE conn[n].path \notin {"/tx", "/rawtx"}
      BY <2>1, <3>2 DEF Serve, OnceInv, Waiting
    <3>3. QED
      BY <3>1, <3>2
  <2>2. CASE Disconnect(n)
    BY <2>2 DEF Disconnect, clusterVars, OnceInv, Waiting
  <2>3. QED
    BY <2>1, <2>2
<1>5. QED
  BY <1>2, <1>3, <1>4 DEF OnceInv

LEMMA OnceStutter == OnceInv /\ UNCHANGED vars => OnceInv'
BY DEF OnceInv, Waiting, Ordered, Requested, Settling, SettledOnce, Settlements, vars,
       clusterVars, clientVars

LEMMA OnceCorrect == Spec => []OnceInv
<1>1. OnceInv /\ [Next]_vars => OnceInv'
  <2> SUFFICES ASSUME OnceInv, [Next]_vars PROVE OnceInv'
    OBVIOUS
  <2>1. CASE ClusterNext /\ UNCHANGED clientVars
    BY <2>1, OrderStep, BlockStep, ApplyStep, CommitStep DEF ClusterNext
  <2>2. QED
    BY <2>1, ClientStep, ConnectionStep, OnceStutter DEF Next
<1>2. QED
  BY OnceInit, <1>1, PTL DEF Spec

(* Whatever nonces the nodes hand out, however far they lag and whatever   *)
(* connections break, a nonce of an account takes effect once on a node.   *)
THEOREM OnePerNonceCorrect == Spec => []OnePerNonce
<1>1. OnceInv => OnePerNonce
  BY DEF OnceInv, Settling, SettledOnce, Settlements, Used, SameNonce, OnePerNonce
<1>2. QED
  BY <1>1, OnceCorrect, PTL
----------------------------------------------------------------------------
(* One history.  The nodes apply the same transactions in the same order,  *)
(* and what each of them has is the ledger after some number of them: of   *)
(* the transactions A[1], ..., A[m] that take effect in the log as it is,  *)
(* with the ledgers G[0], ..., G[m] around them, p[n] by the write-ahead   *)
(* state of node n and q[n] by its committed ledger; M[k] of them are in   *)
(* the first k blocks.                                                     *)

IsRun(A, G, m) ==
    /\ m \in Nat /\ G[0] = Genesis
    /\ \A i \in 1..m : Applies(G[i - 1], A[i]) /\ G[i] = Execute(G[i - 1], A[i]) /\ IsTx(A[i])

(* A block takes effect up to its end or to its first bad transaction.     *)
OfBlock(A, G, b, start, end) ==
    /\ start <= end /\ end - start <= Len(b)
    /\ \A j \in 1..(end - start) : A[start + j] = b[j]
    /\ end - start = Len(b) \/ ~Applies(G[end], b[end - start + 1])

InBlocks(A, G, m, M) ==
    /\ M[0] = 0 /\ M[Len(log)] = m
    /\ \A k \in 0..Len(log) : M[k] \in 0..m
    /\ \A k \in 1..Len(log) : OfBlock(A, G, log[k], M[k - 1], M[k])

(* Where a node is in its block, and with it in the history.               *)
Placed(M, p, n) ==
    LET h == height[n]
        d == p[n] - M[h - 1]
    IN  /\ h \in 0..Len(log)
        /\ ~busy[n] => p[n] = M[h]
        /\ busy[n] =>
              /\ h # 0 /\ d \in 0..Len(log[h]) /\ p[n] <= M[h]
              /\ Len(rest[n]) = Len(log[h]) - d
              /\ \A i \in 1..Len(rest[n]) : rest[n][i] = log[h][d + i]

Settled1(A, G, i) == ReceiptOf(G[i - 1], A[i])

Follows(A, G, m, p, q, n) ==
    /\ p[n] \in 0..m /\ q[n] \in 0..p[n]
    /\ was[n] = G[p[n]] /\ statedb[n] = G[q[n]]
    /\ \A r \in receipts[n] : \E i \in 1..q[n] : r = Settled1(A, G, i)
    /\ \A r \in Elements(unflushed[n]) : \E i \in 1..p[n] : r = Settled1(A, G, i)

History(A, G, m, M, p, q) ==
    /\ IsRun(A, G, m) /\ InBlocks(A, G, m, M)
    /\ DOMAIN busy = Node
    /\ p \in [Node -> Nat] /\ q \in [Node -> Nat]
    /\ \A n \in Node : Placed(M, p, n) /\ Follows(A, G, m, p, q, n)

(* A later state of a history.                                             *)
Extends(A, G, m, B, H, l) ==
    /\ l \in Nat /\ m <= l
    /\ \A i \in 1..m : B[i] = A[i]
    /\ \A i \in 0..m : H[i] = G[i]

LEMMA HistoryInit ==
    Init => \E A, G, m, M, p, q : History(A, G, m, M, p, q) /\ m = 0
<1> SUFFICES ASSUME Init PROVE \E A, G, m, M, p, q : History(A, G, m, M, p, q) /\ m = 0
  OBVIOUS
<1> USE DEF Init, ClusterInit
<1> DEFINE G == [i \in 0..0 |-> Genesis]
           M == [k \in 0..0 |-> 0]
           none == [n \in Node |-> 0]
<1>1. G[0] = Genesis /\ M[0] = 0
  OBVIOUS
<1> HIDE DEF G, M
<1>2. Len(log) = 0 /\ Elements(<<>>) = {}
  BY SequenceEmpty
<1>3. IsRun(<<>>, G, 0) /\ InBlocks(<<>>, G, 0, M)
  BY <1>1, <1>2 DEF IsRun, InBlocks
<1>4. ASSUME NEW n \in Node
      PROVE  Placed(M, none, n) /\ Follows(<<>>, G, 0, none, none, n)
  BY <1>1, <1>2 DEF Placed, Follows
<1>5. History(<<>>, G, 0, M, none, none)
  BY <1>3, <1>4 DEF History
<1>6. QED
  BY <1>5

(* Every block has a part that takes effect.                               *)
LEMMA BlockTakesEffect ==
    ASSUME NEW S, NEW b \in Seq(S), NEW L
    PROVE  \E e \in 0..Len(b) : \E g :
              /\ g[0] = L
              /\ \A j \in 1..e : Applies(g[j - 1], b[j]) /\ g[j] = Execute(g[j - 1], b[j])
              /\ e = Len(b) \/ ~Applies(g[e], b[e + 1])
<1> DEFINE Loop(g, k) == g[0] = L /\ \A j \in 1..k : Applies(g[j - 1], b[j]) /\ g[j] = Execute(g[j - 1], b[j])
           Ends(e) == \E g : Loop(g, e) /\ (e = Len(b) \/ ~Applies(g[e], b[e + 1]))
           K == {k \in Nat : k <= Len(b) => (\E e \in 0..Len(b) : Ends(e)) \/ \E g : Loop(g, k)}
<1>1. Len(b) \in Nat
  OBVIOUS
<1>2. 0 \in K
  <2> DEFINE g == [j \in 0..0 |-> L]
  <2>1. Loop(g, 0)
    OBVIOUS
  <2> HIDE DEF Loop, Ends
  <2>2. QED
    BY <2>1
<1>3. ASSUME NEW k \in Nat, k \in K
      PROVE  k + 1 \in K
  <2>1. SUFFICES ASSUME k + 1 <= Len(b), ~(\E e \in 0..Len(b) : Ends(e))
                 PROVE  \E g : Loop(g, k + 1)
    <3> HIDE DEF Loop, Ends
    <3>1. QED
      OBVIOUS
  <2>2. PICK g : Loop(g, k)
    BY <1>1, <1>3, <2>1
  <2>3. Applies(g[k], b[k + 1])
    <3>1. k \in 0..Len(b)
      BY <1>1, <2>1
    <3> HIDE DEF Loop
    <3>2. QED
      BY <2>1, <2>2, <3>1
  <2> DEFINE h == [j \in 0..(k + 1) |-> IF j = k + 1 THEN Execute(g[k], b[k + 1]) ELSE g[j]]
  <2>4. \A j \in 0..k : h[j] = g[j]
    OBVIOUS
  <2>5. h[k + 1] = Execute(g[k], b[k + 1])
    OBVIOUS
  <2> HIDE DEF h
  <2>6. Loop(h, k + 1)
    <3>1. ASSUME NEW j \in 1..(k + 1)
          PROVE  Applies(h[j - 1], b[j]) /\ h[j] = Execute(h[j - 1], b[j])
      <4>1. h[j - 1] = g[j - 1]
        BY <2>4
      <4>2. CASE j = k + 1
        BY <2>3, <2>5, <4>1, <4>2
      <4>3. CASE j # k + 1
        BY <2>2, <2>4, <4>1, <4>3
      <4>4. QED
        BY <4>2, <4>3
    <3>2. h[0] = L
      BY <2>2, <2>4
    <3>3. QED
      BY <3>1, <3>2
  <2>7. QED
    BY <2>6
<1>4. Len(b) \in K
  <2> HIDE DEF K
  <2>1. QED
    BY <1>1, <1>2, <1>3, NatSetInduction
<1>5. CASE \E g : Loop(g, Len(b))
  BY <1>1, <1>5
<1>6. CASE \E e \in 0..Len(b) : Ends(e)
  BY <1>6
<1>7. QED
  BY <1>4, <1>5, <1>6

----------------------------------------------------------------------------
(* The history under the steps of the cluster.                             *)

LEMMA OfBlockKept ==
    ASSUME NEW A, NEW G, NEW m \in Nat, NEW B, NEW H, NEW l, Extends(A, G, m, B, H, l),
           NEW b, NEW start \in 0..m, NEW end \in 0..m, OfBlock(A, G, b, start, end)
    PROVE  OfBlock(B, H, b, start, end)
<1>1. ASSUME NEW j \in 1..(end - start)
      PROVE  B[start + j] = b[j]
  <2>1. start + j \in 1..m
    OBVIOUS
  <2>2. QED
    BY <2>1 DEF OfBlock, Extends
<1>2. H[end] = G[end]
  BY DEF Extends
<1>3. QED
  BY <1>1, <1>2 DEF OfBlock

LEMMA SettledKept ==
    ASSUME NEW A, NEW G, NEW m \in Nat, NEW B, NEW H, NEW l, Extends(A, G, m, B, H, l),
           NEW i \in 1..m
    PROVE  Settled1(B, H, i) = Settled1(A, G, i)
<1>1. i - 1 \in 0..m
  OBVIOUS
<1>2. QED
  BY <1>1 DEF Settled1, Extends

LEMMA FollowsKept ==
    ASSUME NEW A, NEW G, NEW m \in Nat, NEW B, NEW H, NEW l, Extends(A, G, m, B, H, l),
           NEW p, NEW q, NEW n, Follows(A, G, m, p, q, n), q[n] \in Nat, p[n] \in Nat
    PROVE  Follows(B, H, l, p, q, n)
<1>1. p[n] \in 0..m /\ q[n] \in 0..m /\ q[n] \in 0..p[n] /\ p[n] \in 0..l
  BY DEF Follows, Extends
<1>2. H[p[n]] = G[p[n]] /\ H[q[n]] = G[q[n]]
  BY <1>1 DEF Extends
<1>3. \A i \in 1..p[n] : i \in 1..m
  BY <1>1
<1>4. \A i \in 1..q[n] : i \in 1..m
  BY <1>1
<1>5. \A r \in receipts[n] : \E i \in 1..q[n] : r = Settled1(B, H, i)
  BY <1>4, SettledKept DEF Follows
<1>6. \A r \in Elements(unflushed[n]) : \E i \in 1..p[n] : r = Settled1(B, H, i)
  BY <1>3, SettledKept DEF Follows
<1>7. QED
  BY <1>1, <1>2, <1>5, <1>6 DEF Follows

LEMMA OrderHistory ==
    ASSUME OnceInv, NEW A, NEW G, NEW m, NEW M, NEW p, NEW q, History(A, G, m, M, p, q), Order
    PROVE  \E B, H, l, N :
              /\ History(B, H, l, N, p, q)' /\ Extends(A, G, m, B, H, l)
              /\ \A i \in (m + 1)..l : B[i] \in pool
<1>1. PICK chosen \in SUBSET pool : \E b \in SetToSeqs(chosen) : log' = Append(log, b)
  BY DEF Order
<1>2. PICK b \in SetToSeqs(chosen) : log' = Append(log, b)
  BY <1>1
<1>3. IsSequence(b) /\ Elements(b) \subseteq pool /\ \A t \in pool : IsTx(t)
  <2>1. IsFiniteSet(chosen) /\ \A t \in pool : IsTx(t)
    BY FS_Subset DEF OnceInv, Waiting
  <2>2. QED
    BY <2>1, SequenceOfSet
<1>4. b \in Seq(pool) /\ Len(b) \in Nat
  BY <1>3 DEF IsSequence
<1>5. UNCHANGED <<height, busy, rest, was, unflushed, statedb, receipts>>
  BY DEF Order
<1>6. /\ Len(log) \in Nat /\ Len(log') = Len(log) + 1 /\ log'[Len(log) + 1] = b
      /\ \A k \in 1..Len(log) : log'[k] = log[k]
  <2>1. log \in Seq(Elements(log))
    BY DEF OnceInv, Ordered, IsSequence
  <2> DEFINE S == Elements(log) \cup {b}
  <2>2. log \in Seq(S) /\ b \in S
    BY <2>1
  <2> HIDE DEF S
  <2>3. QED
    BY <1>2, <2>2
<1>7. m \in Nat /\ IsRun(A, G, m) /\ InBlocks(A, G, m, M)
  BY DEF History, IsRun
<1>8. PICK e \in 0..Len(b) : \E g :
         /\ g[0] = G[m]
         /\ \A j \in 1..e : Applies(g[j - 1], b[j]) /\ g[j] = Execute(g[j - 1], b[j])
         /\ e = Len(b) \/ ~Applies(g[e], b[e + 1])
  BY <1>4, BlockTakesEffect
<1>9. PICK g :
         /\ g[0] = G[m]
         /\ \A j \in 1..e : Applies(g[j - 1], b[j]) /\ g[j] = Execute(g[j - 1], b[j])
         /\ e = Len(b) \/ ~Applies(g[e], b[e + 1])
  BY <1>8
<1> DEFINE l == m + e
           B == [i \in 1..l |-> IF i <= m THEN A[i] ELSE b[i - m]]
           H == [i \in 0..l |-> IF i <= m THEN G[i] ELSE g[i - m]]
<1>10. e \in Nat /\ e <= Len(b) /\ l \in Nat /\ m <= l /\ l = m + e
  BY <1>4, <1>7
<1>11. \A i \in 1..m : B[i] = A[i]
  BY <1>7, <1>10
<1>12. \A j \in 1..e : B[m + j] = b[j]
  BY <1>7, <1>10
<1>13. \A i \in 0..m : H[i] = G[i]
  BY <1>7, <1>10
<1>14. \A j \in 0..e : H[m + j] = g[j]
  BY <1>7, <1>9, <1>10
<1> HIDE DEF l, B, H
<1>15. PICK N : N[Len(log) + 1] = l /\ \A k \in 0..Len(log) : N[k] = M[k]
  <2> DEFINE N == [k \in 0..(Len(log) + 1) |-> IF k <= Len(log) THEN M[k] ELSE l]
  <2>1. N[Len(log) + 1] = l /\ \A k \in 0..Len(log) : N[k] = M[k]
    BY <1>6
  <2> HIDE DEF N
  <2>2. QED
    BY <2>1
<1>16. Extends(A, G, m, B, H, l)
  BY <1>10, <1>11, <1>13 DEF Extends
<1>17. \A i \in (m + 1)..l : i - m \in 1..e /\ i = m + (i - m) /\ B[i] = b[i - m] /\ H[i] = g[i - m]
                                        /\ H[i - 1] = g[(i - m) - 1]
  <2>1. SUFFICES ASSUME NEW i \in (m + 1)..l
                 PROVE  i - m \in 1..e /\ i = m + (i - m) /\ B[i] = b[i - m] /\ H[i] = g[i - m]
                        /\ H[i - 1] = g[(i - m) - 1]
    OBVIOUS
  <2>2. i - m \in 1..e /\ i = m + (i - m) /\ (i - m) - 1 \in 0..e /\ i - 1 = m + ((i - m) - 1)
    BY <1>7, <1>10
  <2>3. B[i] = b[i - m]
    BY <1>12, <2>2
  <2>4. H[i] = g[i - m]
    BY <1>14, <2>2
  <2>5. H[i - 1] = g[(i - m) - 1]
    BY <1>14, <2>2
  <2>6. QED
    BY <2>2, <2>3, <2>4, <2>5
<1>18. \A j \in 1..e : b[j] \in pool
  BY <1>4, <1>10
<1>19. \A i \in (m + 1)..l : B[i] \in pool
  BY <1>17, <1>18
<1>20. IsRun(B, H, l)
  <2>1. H[0] = Genesis
    BY <1>7, <1>13 DEF IsRun
  <2>2. ASSUME NEW i \in 1..l
        PROVE  Applies(H[i - 1], B[i]) /\ H[i] = Execute(H[i - 1], B[i]) /\ IsTx(B[i])
    <3>1. CASE i <= m
      <4>1. i \in 1..m /\ i - 1 \in 0..m
        BY <1>7, <1>10, <3>1
      <4>2. B[i] = A[i] /\ H[i] = G[i] /\ H[i - 1] = G[i - 1]
        BY <1>11, <1>13, <4>1
      <4>3. QED
        BY <1>7, <4>1, <4>2 DEF IsRun
    <3>2. CASE i > m
      <4>1. i \in (m + 1)..l
        BY <1>7, <1>10, <3>2
      <4>2. IsTx(B[i])
        BY <1>3, <1>19, <4>1
      <4>3. QED
        BY <1>9, <1>17, <4>1, <4>2
    <3>3. QED
      BY <1>7, <1>10, <3>1, <3>2
  <2>3. QED
    BY <1>10, <2>1, <2>2 DEF IsRun
<1>21. InBlocks(B, H, l, N)'
  <2>1. M[0] = 0 /\ M[Len(log)] = m /\ \A k \in 0..Len(log) : M[k] \in 0..m
    BY <1>7 DEF InBlocks
  <2>2. N[0] = 0 /\ N[Len(log) + 1] = l /\ N[Len(log)] = m
    BY <1>6, <1>15, <2>1
  <2>3. \A k \in 0..(Len(log) + 1) : N[k] \in 0..l
    BY <1>6, <1>7, <1>10, <1>15, <2>1, SMTT(30)
  <2>4. ASSUME NEW k \in 1..(Len(log) + 1)
        PROVE  OfBlock(B, H, log'[k], N[k - 1], N[k])
    <3>1. CASE k <= Len(log)
      <4>1. k \in 1..Len(log) /\ k - 1 \in 0..Len(log) /\ k \in 0..Len(log)
        BY <1>6, <3>1
      <4>2. N[k - 1] = M[k - 1] /\ N[k] = M[k] /\ log'[k] = log[k] /\ M[k - 1] \in 0..m /\ M[k] \in 0..m
        BY <1>6, <1>15, <2>1, <4>1
      <4>3. OfBlock(A, G, log[k], M[k - 1], M[k])
        BY <1>7, <4>1 DEF InBlocks
      <4>4. QED
        BY <1>7, <1>16, <4>2, <4>3, OfBlockKept
    <3>2. CASE k = Len(log) + 1
      <4>1. log'[k] = b /\ N[k] = l /\ N[k - 1] = m
        BY <1>6, <2>2, <3>2
      <4>2. l - m = e /\ m <= l /\ H[l] = g[e]
        BY <1>7, <1>10, <1>14
      <4>3. OfBlock(B, H, b, m, l)
        BY <1>9, <1>10, <1>12, <4>2 DEF OfBlock
      <4>4. QED
        BY <4>1, <4>3
    <3>3. QED
      BY <1>6, <3>1, <3>2
  <2>5. QED
    BY <1>6, <2>2, <2>3, <2>4 DEF InBlocks
<1>22. ASSUME NEW n \in Node
       PROVE  Placed(N, p, n)' /\ Follows(B, H, l, p, q, n)'
  <2>1. Placed(M, p, n) /\ Follows(A, G, m, p, q, n) /\ p[n] \in Nat /\ q[n] \in Nat
    BY DEF History
  <2>2. Follows(B, H, l, p, q, n)
    BY <1>7, <1>16, <2>1, FollowsKept
  <2>3. Follows(B, H, l, p, q, n)'
    BY <1>5, <2>2 DEF Follows
  <2> DEFINE h == height[n]
  <2>4. h \in 0..Len(log) /\ N[h] = M[h]
    BY <1>15, <2>1 DEF Placed
  <2>5. h # 0 => N[h - 1] = M[h - 1] /\ log'[h] = log[h]
    <3>1. SUFFICES ASSUME h # 0 PROVE N[h - 1] = M[h - 1] /\ log'[h] = log[h]
      OBVIOUS
    <3>2. h \in 1..Len(log) /\ h - 1 \in 0..Len(log)
      BY <1>6, <2>4, <3>1
    <3>3. QED
      BY <1>6, <1>15, <3>2
  <2>6. h \in 0..(Len(log) + 1)
    BY <1>6, <2>4
  <2>7. Placed(N, p, n)'
    <3>1. height'[n] = h /\ busy'[n] = busy[n] /\ rest'[n] = rest[n]
      BY <1>5
    <3>2. CASE ~busy[n]
      BY <1>6, <2>1, <2>4, <2>6, <3>1, <3>2 DEF Placed
    <3>3. CASE busy[n]
      <4>1. h # 0 /\ N[h - 1] = M[h - 1] /\ log'[h] = log[h]
        BY <2>1, <2>5, <3>3 DEF Placed
      <4>2. QED
        BY <1>6, <2>1, <2>4, <2>6, <3>1, <3>3, <4>1 DEF Placed
    <3>4. QED
      BY <3>2, <3>3
  <2>8. QED
    BY <2>3, <2>7
<1>23. History(B, H, l, N, p, q)'
  BY <1>5, <1>20, <1>21, <1>22 DEF History
<1>24. QED
  BY <1>16, <1>19, <1>23

(* A node that a step leaves alone stays where it is.                      *)
LEMMA SameNode ==
    ASSUME NEW A, NEW G, NEW m, NEW M, NEW p, NEW q, History(A, G, m, M, p, q),
           NEW k \in Node, NEW x, NEW y, x[k] = p[k], y[k] = q[k],
           log' = log, height'[k] = height[k], busy'[k] = busy[k], rest'[k] = rest[k],
           was'[k] = was[k], statedb'[k] = statedb[k],
           unflushed'[k] = unflushed[k], receipts'[k] = receipts[k]
    PROVE  Placed(M, x, k)' /\ Follows(A, G, m, x, y, k)'
<1>1. Placed(M, p, k) /\ Follows(A, G, m, p, q, k)
  BY DEF History
<1>2. Placed(M, x, k)'
  BY <1>1 DEF Placed
<1>3. Follows(A, G, m, x, y, k)'
  BY <1>1 DEF Follows
<1>4. QED
  BY <1>2, <1>3

(* What a node applies next is what the history has next, and a node that  *)
(* is through with a block has all of it that takes effect.                *)
LEMMA InsideBlock ==
    ASSUME OnceInv, NEW A, NEW G, NEW m, NEW M, NEW p, NEW q, History(A, G, m, M, p, q),
           NEW n \in Node, busy[n]
    PROVE  /\ rest[n] # <<>> /\ Applies(was[n], Head(rest[n])) =>
                 p[n] + 1 <= M[height[n]] /\ A[p[n] + 1] = Head(rest[n])
           /\ rest[n] = <<>> \/ ~Applies(was[n], Head(rest[n])) => p[n] = M[height[n]]
<1> DEFINE h == height[n]
           b == log[h]
           start == M[h - 1]
           end == M[h]
           d == p[n] - start
<1>1. /\ h \in 0..Len(log) /\ h # 0 /\ d \in 0..Len(b) /\ p[n] <= end
      /\ Len(rest[n]) = Len(b) - d
      /\ \A i \in 1..Len(rest[n]) : rest[n][i] = b[d + i]
      /\ p[n] \in Nat /\ was[n] = G[p[n]] /\ IsRun(A, G, m)
  BY DEF History, Placed, Follows
<1>2. h \in 1..Len(log) /\ h - 1 \in 0..Len(log) /\ h \in 0..Len(log)
  <2>1. Len(log) \in Nat
    BY DEF OnceInv, Ordered, IsSequence
  <2>2. h \in 0..Len(log) /\ h # 0
    BY <1>1
  <2> HIDE DEF h
  <2>3. QED
    BY <2>1, <2>2
<1>3. OfBlock(A, G, b, start, end) /\ start \in 0..m /\ end \in 0..m /\ m \in Nat
  BY <1>2 DEF History, InBlocks, IsRun
<1>4. Len(rest[n]) \in Nat /\ Len(b) \in Nat
      /\ (rest[n] # <<>> => Len(rest[n]) # 0 /\ Head(rest[n]) = rest[n][1])
                                             /\ (rest[n] = <<>> => Len(rest[n]) = 0)
  <2>1. rest[n] \in Seq(Elements(rest[n]))
    BY DEF OnceInv, Ordered, AreTxs, IsSequence
  <2>2. b \in Elements(log)
    <3>1. log \in Seq(Elements(log))
      BY DEF OnceInv, Ordered, IsSequence
    <3>2. h \in DOMAIN log
      BY <1>2, <3>1
    <3>3. QED
      BY <3>2 DEF Elements
  <2>3. b \in Seq(Elements(b))
    BY <2>2 DEF OnceInv, Ordered, AreTxs, IsSequence
  <2> HIDE DEF b
  <2>4. QED
    BY <2>1, <2>3
<1> HIDE DEF h, b, start, end
<1>5. start <= end /\ end - start <= Len(b) /\ (end - start = Len(b) \/ ~Applies(G[end], b[end - start + 1]))
      /\ \A j \in 1..(end - start) : A[start + j] = b[j]
  BY <1>3 DEF OfBlock
<1>6. CASE rest[n] = <<>>
  <2>1. d = Len(b)
    BY <1>1, <1>4, <1>6
  <2>2. p[n] = end
    BY <1>1, <1>3, <1>4, <1>5, <2>1, SMTT(30)
  <2>3. QED
    BY <1>6, <2>2 DEF end, h
<1>7. CASE rest[n] # <<>>
  <2>1. Head(rest[n]) = b[d + 1] /\ d < Len(b) /\ d \in Nat
    <3>1. Len(rest[n]) \in Nat \ {0} /\ Head(rest[n]) = rest[n][1]
      BY <1>4, <1>7
    <3>2. d \in Nat /\ Len(rest[n]) = Len(b) - d
      BY <1>1, <1>4
    <3> HIDE DEF d
    <3>3. 1 \in 1..Len(rest[n]) /\ d < Len(b)
      BY <1>4, <3>1, <3>2
    <3>4. rest[n][1] = b[d + 1]
      BY <1>1, <3>3 DEF d
    <3>5. QED
      BY <3>1, <3>2, <3>3, <3>4
  <2>2. CASE p[n] = end
    <3>1. ~Applies(G[end], b[end - start + 1])
      BY <1>1, <1>3, <1>4, <1>5, <2>1, <2>2
    <3>2. ~Applies(was[n], Head(rest[n]))
      BY <1>1, <2>1, <2>2, <3>1
    <3>3. QED
      BY <1>7, <2>2, <3>2 DEF end, h
  <2>3. CASE p[n] # end
    <3>1. p[n] + 1 <= end /\ d + 1 \in 1..(end - start) /\ start + (d + 1) = p[n] + 1
      <4>1. p[n] \in Nat /\ p[n] <= end
        BY <1>1
      <4>2. start \in Int /\ end \in Int /\ d \in Nat
        BY <1>3, <2>1
      <4>3. QED
        BY <2>3, <4>1, <4>2
    <3>2. A[p[n] + 1] = Head(rest[n])
      BY <1>5, <2>1, <3>1
    <3>3. p[n] + 1 \in 1..m /\ (p[n] + 1) - 1 = p[n]
      <4>1. p[n] \in Nat
        BY <1>1
      <4>2. QED
        BY <1>3, <3>1, <4>1
    <3>4. Applies(G[p[n]], A[p[n] + 1])
      BY <1>1, <3>3 DEF IsRun
    <3>5. QED
      BY <1>1, <1>7, <3>1, <3>2, <3>4 DEF end, h
  <2>4. QED
    BY <2>2, <2>3
<1>8. QED
  BY <1>6, <1>7

LEMMA ProcessHistory ==
    ASSUME OnceInv, NEW A, NEW G, NEW m, NEW M, NEW p, NEW q, History(A, G, m, M, p, q),
           NEW n \in Node, ProcessBlock(n)
    PROVE  History(A, G, m, M, p, q)'
<1> DEFINE h == height[n]
<1>1. /\ ~busy[n] /\ h < Len(log)
      /\ height' = [height EXCEPT ![n] = @ + 1] /\ rest' = [rest EXCEPT ![n] = log[height'[n]]]
      /\ busy' = [busy EXCEPT ![n] = TRUE]
      /\ UNCHANGED <<log, was, unflushed, statedb, receipts>>
  BY DEF ProcessBlock
<1>2. h \in Nat /\ Len(log) \in Nat /\ height'[n] = h + 1 /\ busy'[n] /\ rest'[n] = log[h + 1]
  BY <1>1 DEF OnceInv, Ordered, IsSequence, History
<1>3. p[n] = M[h] /\ p[n] \in Nat
  BY <1>1 DEF History, Placed
<1>4. h + 1 \in 1..Len(log) /\ (h + 1) - 1 = h
  BY <1>1, <1>2
<1> DEFINE b == log[h + 1]
<1>5. OfBlock(A, G, b, M[h], M[h + 1]) /\ M[h] \in 0..m /\ M[h + 1] \in 0..m /\ m \in Nat
  <2>1. h \in 0..Len(log) /\ h + 1 \in 0..Len(log)
    BY <1>2, <1>4
  <2>2. QED
    BY <1>4, <2>1 DEF History, InBlocks, IsRun
<1>6. Len(b) \in Nat
  <2>1. log \in Seq(Elements(log))
    BY DEF OnceInv, Ordered, IsSequence
  <2>2. b \in Elements(log)
    BY <1>4, <2>1 DEF Elements
  <2>3. b \in Seq(Elements(b))
    BY <2>2 DEF OnceInv, Ordered, AreTxs, IsSequence
  <2> HIDE DEF b
  <2>4. QED
    BY <2>3
<1>7. Placed(M, p, n)'
  <2> DEFINE x == M[h]
             y == M[h + 1]
  <2>1. x <= y
    BY <1>5 DEF OfBlock
  <2> HIDE DEF h, b
  <2>2. p[n] - M[(h + 1) - 1] = 0
    BY <1>3, <1>4
  <2>3. \A i \in 1..Len(b) : rest'[n][i] = b[0 + i]
    BY <1>2, <1>6 DEF b
  <2>4. QED
    BY <1>1, <1>2, <1>3, <1>4, <1>6, <2>1, <2>2, <2>3 DEF Placed, b
<1>8. ASSUME NEW k \in Node \ {n} PROVE Placed(M, p, k)'
  <2>1. height'[k] = height[k] /\ busy'[k] = busy[k] /\ rest'[k] = rest[k] /\ log' = log
    BY <1>1 DEF OnceInv, Ordered, History
  <2>2. QED
    BY <1>1, <2>1, SameNode
<1>9. \A k \in Node : Follows(A, G, m, p, q, k)'
  BY <1>1 DEF History, Follows
<1>10. InBlocks(A, G, m, M)'
  BY <1>1 DEF History, InBlocks
<1>11. DOMAIN busy' = Node
  BY <1>1 DEF History
<1>12. QED
  BY <1>7, <1>8, <1>9, <1>10, <1>11 DEF History

LEMMA AbandonHistory ==
    ASSUME OnceInv, NEW A, NEW G, NEW m, NEW M, NEW p, NEW q, History(A, G, m, M, p, q),
           NEW n \in Node, AbandonBlock(n)
    PROVE  History(A, G, m, M, p, q)'
<1>1. /\ busy[n] /\ ~Applies(was[n], Head(rest[n]))
      /\ rest' = [rest EXCEPT ![n] = <<>>] /\ busy' = [busy EXCEPT ![n] = FALSE]
      /\ UNCHANGED <<log, height, was, unflushed, statedb, receipts>>
  BY DEF AbandonBlock
<1>2. p[n] = M[height[n]]
  BY <1>1, InsideBlock
<1>3. Placed(M, p, n)'
  <2>1. ~busy'[n] /\ height'[n] \in 0..Len(log)
    BY <1>1 DEF History, Placed
  <2>2. QED
    BY <1>1, <1>2, <2>1 DEF Placed
<1>4. ASSUME NEW k \in Node \ {n} PROVE Placed(M, p, k)'
  <2>1. height'[k] = height[k] /\ busy'[k] = busy[k] /\ rest'[k] = rest[k] /\ log' = log
    BY <1>1 DEF OnceInv, Ordered, History
  <2>2. QED
    BY <1>1, <2>1, SameNode
<1>5. \A k \in Node : Follows(A, G, m, p, q, k)'
  BY <1>1 DEF History, Follows
<1>6. InBlocks(A, G, m, M)' /\ DOMAIN busy' = Node
  BY <1>1 DEF History, InBlocks
<1>7. QED
  BY <1>3, <1>4, <1>5, <1>6 DEF History

LEMMA CommitHistory ==
    ASSUME OnceInv, NEW A, NEW G, NEW m, NEW M, NEW p, NEW q, History(A, G, m, M, p, q),
           NEW n \in Node, Commit(n)
    PROVE  LET y == [q EXCEPT ![n] = p[n]]
           IN  History(A, G, m, M, p, y)' /\ \A k \in Node : q[k] <= y[k]
<1> DEFINE y == [q EXCEPT ![n] = p[n]]
<1>1. /\ busy[n] /\ rest[n] = <<>>
      /\ statedb' = [statedb EXCEPT ![n] = was[n]]
      /\ receipts' = [receipts EXCEPT ![n] = @ \cup Elements(unflushed[n])]
      /\ unflushed' = [unflushed EXCEPT ![n] = <<>>]
      /\ busy' = [busy EXCEPT ![n] = FALSE]
      /\ UNCHANGED <<log, height, rest, was>>
  BY DEF Commit, Elements
<1>2. p[n] = M[height[n]]
  BY <1>1, InsideBlock
<1>3. /\ p \in [Node -> Nat] /\ q \in [Node -> Nat] /\ q[n] <= p[n]
      /\ Follows(A, G, m, p, q, n)
  BY DEF History, Follows
<1>4. y \in [Node -> Nat] /\ y[n] = p[n] /\ \A k \in Node \ {n} : y[k] = q[k]
  BY <1>3
<1> HIDE DEF y
<1>5. Placed(M, p, n)'
  <2>1. ~busy'[n] /\ height'[n] \in 0..Len(log)
    BY <1>1 DEF History, Placed
  <2>2. QED
    BY <1>1, <1>2, <2>1 DEF Placed
<1>6. Follows(A, G, m, p, y, n)'
  <2>1. /\ statedb'[n] = was[n] /\ was'[n] = was[n] /\ unflushed'[n] = <<>>
        /\ receipts'[n] = receipts[n] \cup Elements(unflushed[n])
    BY <1>1 DEF OnceInv, Settling
  <2>2. \A r \in receipts'[n] : \E i \in 1..p[n] : r = Settled1(A, G, i)
    <3>1. \A i \in 1..q[n] : i \in 1..p[n]
      BY <1>3
    <3>2. QED
      BY <1>3, <2>1, <3>1 DEF Follows
  <2>3. p[n] \in 0..m /\ p[n] \in 0..p[n] /\ was[n] = G[p[n]]
    BY <1>3 DEF Follows
  <2>4. QED
    BY <1>4, <2>1, <2>2, <2>3, SequenceEmpty DEF Follows
<1>7. ASSUME NEW k \in Node \ {n} PROVE Placed(M, p, k)' /\ Follows(A, G, m, p, y, k)'
  <2>1. /\ height'[k] = height[k] /\ busy'[k] = busy[k] /\ rest'[k] = rest[k] /\ log' = log
        /\ was'[k] = was[k] /\ statedb'[k] = statedb[k]
        /\ unflushed'[k] = unflushed[k] /\ receipts'[k] = receipts[k]
    BY <1>1 DEF OnceInv, Ordered, Settling, History
  <2>2. QED
    BY <1>4, <2>1, SameNode
<1>8. InBlocks(A, G, m, M)' /\ DOMAIN busy' = Node
  BY <1>1 DEF History, InBlocks
<1>9. History(A, G, m, M, p, y)'
  BY <1>3, <1>4, <1>5, <1>6, <1>7, <1>8 DEF History
<1>10. \A k \in Node : q[k] <= y[k]
  BY <1>3, <1>4
<1>11. QED
  BY <1>9, <1>10 DEF y

LEMMA ApplyHistory ==
    ASSUME OnceInv, NEW A, NEW G, NEW m, NEW M, NEW p, NEW q, History(A, G, m, M, p, q),
           NEW n \in Node, ApplyTransaction(n)
    PROVE  LET x == [p EXCEPT ![n] = @ + 1]
           IN  History(A, G, m, M, x, q)'
<1> DEFINE x == [p EXCEPT ![n] = @ + 1]
           t == Head(rest[n])
           h == height[n]
<1>1. /\ busy[n] /\ rest[n] # <<>> /\ Applies(was[n], t)
      /\ was' = [was EXCEPT ![n] = Execute(@, t)]
      /\ unflushed' = [unflushed EXCEPT ![n] = Append(@, ReceiptOf(was[n], t))]
      /\ rest' = [rest EXCEPT ![n] = Tail(@)]
      /\ UNCHANGED <<log, height, busy, statedb, receipts>>
  BY DEF ApplyTransaction
<1>2. p[n] + 1 <= M[h] /\ A[p[n] + 1] = t
  BY <1>1, InsideBlock
<1>3. p \in [Node -> Nat] /\ q \in [Node -> Nat] /\ Follows(A, G, m, p, q, n) /\ Placed(M, p, n)
  BY DEF History
<1>4. x \in [Node -> Nat] /\ x[n] = p[n] + 1 /\ \A k \in Node \ {n} : x[k] = p[k]
  BY <1>3
<1> HIDE DEF x
<1>5. h \in 0..Len(log) /\ M[h] \in 0..m /\ m \in Nat /\ IsRun(A, G, m)
  BY <1>3 DEF Placed, History, InBlocks, IsRun
<1>6. p[n] \in Nat /\ p[n] + 1 \in 1..m /\ (p[n] + 1) - 1 = p[n] /\ q[n] \in Nat /\ q[n] <= p[n] /\ was[n] = G[p[n]]
  BY <1>2, <1>3, <1>5 DEF Follows
<1>7. G[p[n] + 1] = Execute(G[p[n]], t)
  BY <1>2, <1>5, <1>6 DEF IsRun
<1>8. Follows(A, G, m, x, q, n)'
  <2>1. /\ was'[n] = Execute(was[n], t) /\ statedb'[n] = statedb[n] /\ receipts'[n] = receipts[n]
        /\ Elements(unflushed'[n]) = Elements(unflushed[n]) \cup {ReceiptOf(was[n], t)}
    BY <1>1, SequenceAppend DEF OnceInv, Settling, SettledOnce
  <2>2. ReceiptOf(was[n], t) = Settled1(A, G, p[n] + 1)
    BY <1>2, <1>6 DEF Settled1
  <2>3. \A i \in 1..p[n] : i \in 1..(p[n] + 1)
    BY <1>6
  <2>4. p[n] + 1 \in 1..(p[n] + 1)
    BY <1>6
  <2>5. \A r \in Elements(unflushed'[n]) : \E i \in 1..(p[n] + 1) : r = Settled1(A, G, i)
    BY <1>3, <2>1, <2>2, <2>3, <2>4 DEF Follows
  <2>6. p[n] + 1 \in 0..m /\ q[n] \in 0..(p[n] + 1) /\ was'[n] = G[p[n] + 1]
    BY <1>6, <1>7, <2>1
  <2>7. QED
    BY <1>3, <1>4, <2>1, <2>5, <2>6 DEF Follows
<1>9. Placed(M, x, n)'
  <2> DEFINE d == p[n] - M[h - 1]
  <2>1. /\ h # 0 /\ d \in 0..Len(log[h])
        /\ Len(rest[n]) = Len(log[h]) - d
        /\ \A i \in 1..Len(rest[n]) : rest[n][i] = log[h][d + i]
    BY <1>1, <1>3 DEF Placed
  <2>2. /\ Len(rest[n]) \in Nat \ {0} /\ Len(Tail(rest[n])) = Len(rest[n]) - 1
        /\ \A i \in 1..(Len(rest[n]) - 1) : Tail(rest[n])[i] = rest[n][i + 1]
    <3>1. rest[n] \in Seq(Elements(rest[n]))
      BY DEF OnceInv, Ordered, AreTxs, IsSequence
    <3>2. QED
      BY <1>1, <3>1
  <2>3. rest'[n] = Tail(rest[n]) /\ height'[n] = h /\ busy'[n] /\ log' = log
    BY <1>1 DEF OnceInv, Ordered
  <2> DEFINE l == Len(log[h])
             s == M[h - 1]
             r == Len(rest[n])
  <2>4. d \in Nat /\ d <= l /\ r = l - d /\ r \in Nat \ {0} /\ d = p[n] - s
    BY <2>1, <2>2
  <2>5. h - 1 \in 0..Len(log) /\ s \in Int
    <3>1. Len(log) \in Nat
      BY DEF OnceInv, Ordered, IsSequence
    <3>2. h \in 0..Len(log) /\ h # 0
      BY <1>5, <2>1
    <3> HIDE DEF h
    <3>3. h - 1 \in 0..Len(log)
      BY <3>1, <3>2
    <3>4. M[h - 1] \in 0..m
      BY <3>3 DEF History, InBlocks
    <3>5. QED
      BY <3>3, <3>4
  <2>6. l \in Int
    <3>1. log \in Seq(Elements(log))
      BY DEF OnceInv, Ordered, IsSequence
    <3>2. log[h] \in Elements(log)
      <4>1. h \in 0..Len(log) /\ h # 0
        BY <1>5, <2>1
      <4> HIDE DEF h
      <4>2. QED
        BY <3>1, <4>1 DEF Elements
    <3>3. log[h] \in Seq(Elements(log[h]))
      BY <3>2 DEF OnceInv, Ordered, AreTxs, IsSequence
    <3>4. QED
      BY <3>3
  <2> HIDE DEF d, l, s, r
  <2>7. x[n] - s = d + 1 /\ d + 1 \in 0..l /\ r - 1 = l - (d + 1)
    <3>1. p[n] \in Nat /\ x[n] = p[n] + 1 /\ s \in Int
      BY <1>4, <1>6, <2>5
    <3>2. QED
      BY <2>4, <2>6, <3>1
  <2>8. \A i \in 1..(r - 1) : Tail(rest[n])[i] = log[h][(d + 1) + i]
    <3>1. SUFFICES ASSUME NEW i \in 1..(r - 1) PROVE Tail(rest[n])[i] = log[h][(d + 1) + i]
      OBVIOUS
    <3>2. i + 1 \in 1..r /\ d + (i + 1) = (d + 1) + i
      BY <2>4
    <3>3. rest[n][i + 1] = log[h][d + (i + 1)]
      BY <2>1, <3>2 DEF d, r
    <3>4. QED
      BY <2>2, <3>2, <3>3 DEF r
  <2>9. x[n] <= M[h] /\ h # 0 /\ h \in 0..Len(log)
    BY <1>2, <1>4, <1>5, <2>1
  <2>10. Len(Tail(rest[n])) = l - (d + 1) /\ Len(Tail(rest[n])) = r - 1
    BY <2>2, <2>7 DEF r
  <2>11. QED
    BY <2>3, <2>7, <2>8, <2>9, <2>10, ZenonT(40) DEF Placed, s, l
<1>10. ASSUME NEW k \in Node \ {n} PROVE Placed(M, x, k)' /\ Follows(A, G, m, x, q, k)'
  <2>1. /\ height'[k] = height[k] /\ busy'[k] = busy[k] /\ rest'[k] = rest[k] /\ log' = log
        /\ was'[k] = was[k] /\ statedb'[k] = statedb[k]
        /\ unflushed'[k] = unflushed[k] /\ receipts'[k] = receipts[k]
    BY <1>1 DEF OnceInv, Ordered, Settling, History
  <2>2. QED
    BY <1>4, <2>1, SameNode
<1>11. InBlocks(A, G, m, M)' /\ DOMAIN busy' = Node
  BY <1>1 DEF History, InBlocks
<1>12. History(A, G, m, M, x, q)'
  BY <1>3, <1>4, <1>5, <1>8, <1>9, <1>10, <1>11 DEF History
<1>13. QED
  BY <1>12 DEF x

(* A step of the cluster at most prolongs the history, by transactions     *)
(* that waited to be ordered, and no node goes back in it.                 *)
LEMMA ClusterHistory ==
    ASSUME OnceInv, NEW A, NEW G, NEW m, NEW M, NEW p, NEW q, History(A, G, m, M, p, q), ClusterNext
    PROVE  \E B, H, l, N, x, y :
              /\ History(B, H, l, N, x, y)' /\ Extends(A, G, m, B, H, l)
              /\ \A i \in (m + 1)..l : B[i] \in pool
              /\ \A k \in Node : q[k] <= y[k]
<1>1. m \in Nat /\ Extends(A, G, m, A, G, m) /\ \A i \in (m + 1)..m : A[i] \in pool
  BY DEF History, IsRun, Extends
<1>2. \A k \in Node : q[k] <= q[k]
  BY DEF History
<1>3. CASE Order
  BY <1>2, <1>3, OrderHistory
<1>4. CASE \E n \in Node : ProcessBlock(n) \/ AbandonBlock(n)
  <2>1. History(A, G, m, M, p, q)'
    BY <1>4, ProcessHistory, AbandonHistory
  <2>2. QED
    BY <1>1, <1>2, <2>1
<1>5. CASE \E n \in Node : ApplyTransaction(n)
  <2>1. PICK n \in Node : ApplyTransaction(n)
    BY <1>5
  <2>2. PICK x : History(A, G, m, M, x, q)'
    BY <2>1, ApplyHistory
  <2>3. QED
    BY <1>1, <1>2, <2>2
<1>6. CASE \E n \in Node : Commit(n)
  <2>1. PICK n \in Node : Commit(n)
    BY <1>6
  <2>2. PICK y : History(A, G, m, M, p, y)' /\ \A k \in Node : q[k] <= y[k]
    <3> DEFINE z == [q EXCEPT ![n] = p[n]]
    <3>1. History(A, G, m, M, p, z)' /\ \A k \in Node : q[k] <= z[k]
      BY <2>1, CommitHistory
    <3> HIDE DEF z
    <3>2. QED
      BY <3>1
  <2>3. QED
    BY <1>1, <2>2
<1>7. QED
  BY <1>3, <1>4, <1>5, <1>6 DEF ClusterNext

----------------------------------------------------------------------------
(* The ledgers of a run.                                                   *)

LEMMA RunLedgers ==
    ASSUME NEW A, NEW G, NEW m, IsRun(A, G, m)
    PROVE  \A i \in 0..m : IsLedger(G[i])
<1> DEFINE K == {i \in Nat : i <= m => IsLedger(G[i])}
<1>1. m \in Nat
  BY DEF IsRun
<1>2. 0 \in K
  BY GenesisLedger DEF IsRun
<1>3. ASSUME NEW i \in Nat, i \in K PROVE i + 1 \in K
  <2>1. SUFFICES ASSUME i + 1 <= m PROVE IsLedger(G[i + 1])
    OBVIOUS
  <2>2. i + 1 \in 1..m /\ (i + 1) - 1 = i /\ IsLedger(G[i])
    BY <1>1, <1>3, <2>1
  <2>3. G[i + 1] = Execute(G[i], A[i + 1]) /\ IsTx(A[i + 1])
    BY <2>2 DEF IsRun
  <2>4. IsLedger(Execute(G[i], A[i + 1]))
    BY <2>2, <2>3, ExecuteNonces
  <2>5. QED
    BY <2>3, <2>4
<1> HIDE DEF K
<1>4. Nat \subseteq K
  BY <1>2, <1>3, NatSetInduction
<1>5. QED
  BY <1>1, <1>4 DEF K

(* No nonce ever goes back, so what an account signed takes effect in the  *)
(* order of its nonces.                                                    *)
LEMMA RunNonces ==
    ASSUME NEW A, NEW G, NEW m, IsRun(A, G, m), NEW a \in Node, NEW j \in 0..m
    PROVE  \A i \in j..m : G[j].nonce[a] \in Nat /\ G[i].nonce[a] \in Nat /\ G[j].nonce[a] <= G[i].nonce[a]
<1> DEFINE K == {i \in Nat : i <= m /\ j <= i => G[j].nonce[a] <= G[i].nonce[a]}
<1>1. m \in Nat /\ \A i \in 0..m : G[i].nonce \in [Node -> Nat]
  BY RunLedgers DEF IsRun, IsLedger
<1>2. 0 \in K
  <2>1. j <= 0 => j = 0
    OBVIOUS
  <2>2. QED
    BY <1>1, <2>1
<1>3. ASSUME NEW i \in Nat, i \in K PROVE i + 1 \in K
  <2>1. SUFFICES ASSUME i + 1 <= m, j <= i + 1 PROVE G[j].nonce[a] <= G[i + 1].nonce[a]
    OBVIOUS
  <2>2. CASE j = i + 1
    BY <1>1, <2>2
  <2>3. CASE j # i + 1
    <3>1. i + 1 \in 1..m /\ (i + 1) - 1 = i /\ i \in 0..m /\ j <= i
      BY <1>1, <2>1, <2>3
    <3>2. G[j].nonce[a] <= G[i].nonce[a]
      BY <1>1, <1>3, <3>1
    <3>3. G[i + 1] = Execute(G[i], A[i + 1]) /\ IsTx(A[i + 1]) /\ IsLedger(G[i])
      BY <3>1, RunLedgers DEF IsRun
    <3>4. G[i + 1].nonce = [G[i].nonce EXCEPT ![A[i + 1].from] = @ + 1]
      BY <3>3, ExecuteNonces
    <3>5. G[i].nonce[a] <= G[i + 1].nonce[a]
      BY <1>1, <3>1, <3>4
    <3>6. G[i].nonce[a] \in Nat /\ G[j].nonce[a] \in Nat /\ G[i + 1].nonce[a] \in Nat
      BY <1>1, <3>1
    <3>7. QED
      BY <3>2, <3>5, <3>6
  <2>4. QED
    BY <2>2, <2>3
<1> HIDE DEF K
<1>4. Nat \subseteq K
  BY <1>2, <1>3, NatSetInduction
<1>5. QED
  BY <1>1, <1>4 DEF K

LEMMA RunOrder ==
    ASSUME NEW A, NEW G, NEW m, IsRun(A, G, m), NEW j \in 1..m
    PROVE  /\ A[j].nonce \in Nat /\ A[j].from \in Node
           /\ \A i \in 1..m : i < j /\ A[i].from = A[j].from => A[i].nonce < A[j].nonce
<1>1. m \in Nat /\ j - 1 \in 0..m
  BY DEF IsRun
<1>2. A[j].from \in Node /\ A[j].nonce = G[j - 1].nonce[A[j].from]
  BY DEF IsRun, IsTx, Applies
<1>3. A[j].nonce \in Nat
  <2>1. G[j - 1].nonce \in [Node -> Nat]
    BY <1>1, RunLedgers DEF IsLedger
  <2>2. QED
    BY <1>2, <2>1
<1>4. ASSUME NEW i \in 1..m, i < j, A[i].from = A[j].from
      PROVE  A[i].nonce < A[j].nonce
  <2> DEFINE a == A[j].from
  <2>1. i - 1 \in 0..m /\ i \in 0..m /\ j - 1 \in i..m
    BY <1>1, <1>4
  <2>2. A[i].nonce = G[i - 1].nonce[a] /\ G[i] = Execute(G[i - 1], A[i]) /\ IsTx(A[i])
    BY <1>4 DEF IsRun, Applies
  <2>3. IsLedger(G[i - 1])
    BY <2>1, RunLedgers
  <2>4. G[i].nonce[a] = G[i - 1].nonce[a] + 1 /\ G[i - 1].nonce[a] \in Nat
    <3>1. G[i].nonce = [G[i - 1].nonce EXCEPT ![A[i].from] = @ + 1]
      BY <2>2, <2>3, ExecuteNonces
    <3>2. G[i - 1].nonce \in [Node -> Nat]
      BY <2>3 DEF IsLedger
    <3>3. QED
      BY <1>2, <1>4, <3>1, <3>2
  <2>5. G[i].nonce[a] <= G[j - 1].nonce[a] /\ G[j - 1].nonce[a] \in Nat
    BY <1>2, <2>1, RunNonces
  <2>6. QED
    BY <1>2, <2>2, <2>4, <2>5
<1>5. QED
  BY <1>2, <1>3, <1>4

----------------------------------------------------------------------------
(* The transactions of the campaign.  Step s of the script submits one of  *)
(* the kind s, and the transfers of the steps 2 and 4 differ in their gas. *)

Sending == {2, 4, 6, 7, 9, 11}

(* The steps that wait for a receipt.                                      *)
Awaiting == {6, 7, 9, 11}

Sender(s) == CASE s = 7 -> node2 [] s = 9 -> node3 [] OTHER -> node1

(* The node a step turns to.                                               *)
Asked(s) == IF s = 4 THEN node3 ELSE Sender(s)

RawGas == 1000000

Of(s, t) ==
    /\ s \in Sending /\ IsTx(t) /\ t.from = Sender(s)
    /\ s = 2 => t.method = "transfer" /\ t.to = node2 /\ t.value = 500 /\ t.gas = DefaultGas
    /\ s = 4 => t.method = "transfer" /\ t.to = node2 /\ t.value = 500 /\ t.gas = RawGas
    /\ s = 6 => t.method = "create" /\ t.args[1] = 1000
    /\ s = 7 => t.method = "contribute" /\ t.value = 499
    /\ s = 9 => t.method = "contribute" /\ t.value = 501
    /\ s = 11 => t.method = "settle"

(* The first i transactions of a history have one of kind s.               *)
Took(A, s, i) == \E j \in 1..i : Of(s, A[j])

Count(A, s, i) == IF Took(A, s, i) THEN 1 ELSE 0

(* The transactions somebody may still apply or has applied.               *)
Known(A, m) == pool \cup {A[i] : i \in 1..m}

(* The script submits one transaction of each kind, in the order of its    *)
(* steps, and goes on to submit it once.                                   *)
SubmittedOnce(A, m) ==
    /\ \A t \in Known(A, m) : \E s \in Sending :
          Of(s, t) /\ (s < step \/ (s = step /\ phase \in {"submit", "sleep", "receipt"}))
    /\ \A t, u \in Known(A, m) : \A s \in Sending : Of(s, t) /\ Of(s, u) => t = u
    /\ phase = "submit" /\ conn[Asked(step)].state = "sent" =>
          \A t \in Known(A, m) : ~Of(step, t)

(* What the script has seen the receipt of is stored where it asked.       *)
Confirmed(A, q) ==
    \A s \in Awaiting : s < step => \E i \in 1..q[Sender(s)] : Of(s, A[i])

(* The campaign is created before anything else is done with it, and       *)
(* settled after both contributions.                                       *)
InOrder(A, m) ==
    /\ \A i \in 1..m : \A s \in {7, 9, 11} : Of(s, A[i]) => Took(A, 6, i - 1)
    /\ \A i \in 1..m : Of(11, A[i]) => Took(A, 7, i - 1) /\ Took(A, 9, i - 1)

IsTransfer(t) == Of(2, t) \/ Of(4, t)

Behind(G, m, nonce) == nonce \in Nat /\ nonce <= G[m].nonce[node1]

(* A transfer never has a higher nonce than the creation of the campaign,  *)
(* wherever and whenever it got it.                                        *)
TransfersFirst(A, G, m) ==
    /\ \A t \in Known(A, m) : IsTransfer(t) => Behind(G, m, t.nonce)
    /\ \A i \in 1..m : Of(6, A[i]) => \A t \in Known(A, m) : IsTransfer(t) => t.nonce <= A[i].nonce

(* A balance of the account of n, read after the last thing the campaign   *)
(* did with it.                                                            *)
LastOf(n) == IF n = node1 THEN 11 ELSE IF n = node2 THEN 7 ELSE 9

Final(A, G, m, n, v) ==
    n \in {node1, node2, node3} => \E i \in 0..m : v = G[i].balance[n] /\ Took(A, LastOf(n), i)

Open(n) == conn[n].state # "closed"

Answered(n) == conn[n].state = "answered" /\ conn[n].arg.json

(* The exchanges a phase has with the nodes.                               *)
Listing(A, G, m) ==
    phase = "list" =>
       /\ step \in {1, 3, 5, 12}
       /\ \A n \in Node : Open(n) => conn[n].path = "/accounts"
       /\ ~rejected /\ step = 12 => \A n \in Node :
             /\ Answered(n) => Final(A, G, m, n, conn[n].arg.value)
             /\ ~Open(n) => Final(A, G, m, n, listed[n])

Asking(G, m) ==
    phase = "account" =>
       /\ step = 4
       /\ \A n \in Node : Open(n) =>
             /\ n = node3 /\ conn[n].path = "/account"
             /\ conn[n].state = "sent" => conn[n].arg = node1
             /\ Answered(n) => Behind(G, m, conn[n].arg.value.nonce)

Submitting(G, m) ==
    phase = "submit" =>
       /\ step \in Sending
       /\ \A n \in Node : Open(n) =>
             /\ n = Asked(step) /\ conn[n].path = (IF step = 4 THEN "/rawtx" ELSE "/tx")
             /\ conn[n].state = "sent" => Of(step, conn[n].arg)
             /\ conn[n].state = "sent" /\ step = 4 => Behind(G, m, conn[n].arg.nonce)
             /\ Answered(n) => Of(step, conn[n].arg.value)

Calling ==
    phase = "call" =>
       /\ step \in {8, 10}
       /\ \A n \in Node : Open(n) =>
             /\ n = node1 /\ conn[n].path = "/call"
             /\ Answered(n) /\ step = 8 => conn[n].arg.value.reached = FALSE

ReceiptPath == "/tx/{tx_hash}"

Receiving(A, G, q) ==
    /\ phase \in {"sleep", "receipt"} => step \in Awaiting /\ Of(step, txHash)
    /\ phase = "receipt" => \A n \in Node : Open(n) =>
          /\ n = Sender(step) /\ conn[n].path = ReceiptPath
          /\ conn[n].state = "sent" => conn[n].arg = txHash
          /\ Answered(n) => \E i \in 1..q[n] : A[i] = txHash /\ conn[n].arg.value = Settled1(A, G, i)

Exchanges(A, G, m, q) ==
    /\ DOMAIN listed = Node /\ phase \in Phases /\ step \in Nat
    /\ phase \in {"prompt", "sleep"} => \A n \in Node : ~Open(n)
    /\ Listing(A, G, m) /\ Asking(G, m) /\ Submitting(G, m) /\ Calling /\ Receiving(A, G, q)

Script(A, G, m, q) ==
    /\ SubmittedOnce(A, m) /\ Confirmed(A, q) /\ InOrder(A, m) /\ TransfersFirst(A, G, m)
    /\ Exchanges(A, G, m, q)
    /\ CampaignTruthful

(* demo.js is given three nodes and not one of them twice.                 *)
ThreeNodes == node1 # node2 /\ node1 # node3 /\ node2 # node3

----------------------------------------------------------------------------
(* The ledgers of the campaign.                                            *)

LEMMA KindsDiffer ==
    ASSUME NEW s, NEW r, NEW t, Of(s, t), Of(r, t)
    PROVE  s = r
<1>1. s \in {2, 4, 6, 7, 9, 11} /\ r \in {2, 4, 6, 7, 9, 11}
  BY DEF Of, Sending
<1>2. /\ s = 2 \/ r = 2 => t.method = "transfer" /\ t.gas = DefaultGas
      /\ s = 4 \/ r = 4 => t.method = "transfer" /\ t.gas = RawGas
      /\ s = 6 \/ r = 6 => t.method = "create"
      /\ s = 7 \/ r = 7 => t.method = "contribute" /\ t.value = 499
      /\ s = 9 \/ r = 9 => t.method = "contribute" /\ t.value = 501
      /\ s = 11 \/ r = 11 => t.method = "settle"
  BY DEF Of
<1>3. DefaultGas # RawGas
  BY SMT DEF DefaultGas, RawGas
<1>4. QED
  BY <1>1, <1>2, <1>3

OneOfEach(A, m) ==
    /\ \A i \in 1..m : \E s \in Sending : Of(s, A[i])
    /\ \A i, j \in 1..m : \A s \in Sending : Of(s, A[i]) /\ Of(s, A[j]) => i = j

(* A transaction does not take effect twice, its nonce being used up.      *)
LEMMA AppliedOnce ==
    ASSUME NEW A, NEW G, NEW m, IsRun(A, G, m), SubmittedOnce(A, m)
    PROVE  OneOfEach(A, m)
<1>1. m \in Nat /\ \A i \in 1..m : A[i] \in Known(A, m)
  BY DEF IsRun, Known
<1>2. \A i \in 1..m : \E s \in Sending : Of(s, A[i])
  BY <1>1 DEF SubmittedOnce
<1>3. ASSUME NEW i \in 1..m, NEW j \in 1..m, NEW s \in Sending, Of(s, A[i]), Of(s, A[j])
      PROVE  i = j
  <2>1. A[i] = A[j]
    BY <1>1, <1>3 DEF SubmittedOnce
  <2>2. ~(A[i].nonce < A[j].nonce) /\ ~(A[j].nonce < A[i].nonce)
    <3>1. A[j].nonce \in Nat
      BY RunOrder
    <3>2. QED
      BY <2>1, <3>1
  <2>3. ~(i < j) /\ ~(j < i)
    BY <2>1, <2>2, RunOrder
  <2>4. QED
    BY <1>1, <2>3
<1>4. QED
  BY <1>2, <1>3 DEF OneOfEach

LEMMA CountStep ==
    ASSUME NEW A, NEW m \in Nat, OneOfEach(A, m), NEW i \in 1..m, NEW s, Of(s, A[i])
    PROVE  /\ Took(A, s, i) /\ ~Took(A, s, i - 1)
           /\ \A r : r # s => (Took(A, r, i) <=> Took(A, r, i - 1))
<1>1. s \in Sending
  BY DEF Of
<1>2. Took(A, s, i)
  BY DEF Took
<1>3. ~Took(A, s, i - 1)
  <2>1. SUFFICES ASSUME NEW j \in 1..(i - 1), Of(s, A[j]) PROVE FALSE
    BY DEF Took
  <2>2. j \in 1..m /\ j # i
    OBVIOUS
  <2>3. QED
    BY <1>1, <2>1, <2>2 DEF OneOfEach
<1>4. ASSUME NEW r, r # s PROVE Took(A, r, i) <=> Took(A, r, i - 1)
  <2>1. ~Of(r, A[i])
    BY <1>4, KindsDiffer
  <2>2. \A j : j \in 1..i <=> j \in 1..(i - 1) \/ j = i
    OBVIOUS
  <2>3. QED
    BY <2>1, <2>2 DEF Took
<1>5. QED
  BY <1>2, <1>3, <1>4

Moved(balance, from, to, v) == [[balance EXCEPT ![from] = @ - v] EXCEPT ![to] = @ + v]

LEMMA PayParts ==
    ASSUME NEW L, IsLedger(L), NEW a \in Node, NEW from, NEW to, NEW v
    PROVE  /\ Pay(Bump(L, a), from, to, v).balance = Moved(L.balance, from, to, v)
           /\ Pay(Bump(L, a), from, to, v).campaign = L.campaign
           /\ IsLedger(Pay(Bump(L, a), from, to, v))
<1> DEFINE B == Bump(L, a)
           b == Moved(B.balance, from, to, v)
<1>1. IsLedger(B) /\ B.balance = L.balance /\ B.campaign = L.campaign
  <2>1. [L.nonce EXCEPT ![a] = @ + 1] \in [Node -> Nat]
    BY DEF IsLedger
  <2>2. QED
    BY <2>1 DEF IsLedger, Bump
<1>2. Pay(B, from, to, v) = [B EXCEPT !.balance = b]
  BY DEF Pay, Moved
<1> HIDE DEF B, b
<1>3. /\ Pay(B, from, to, v).balance = b /\ Pay(B, from, to, v).campaign = B.campaign
      /\ IsLedger(Pay(B, from, to, v))
  BY <1>1, <1>2 DEF IsLedger
<1>4. b = Moved(L.balance, from, to, v)
  BY <1>1 DEF b
<1>5. QED
  BY <1>1, <1>3, <1>4 DEF B

Campaign(amount) == [beneficiary |-> node1, fundingGoal |-> 1000, amount |-> amount]

Contributions(A, i) == 499 * Count(A, 7, i) + 501 * Count(A, 9, i)

(* What the ledger after i transactions holds.                             *)
Accounts(A, G, i) ==
    /\ G[i].balance \in [Node \cup {Contract} -> Int]
    /\ G[i].balance[node1] = Endowment - 500 * (Count(A, 2, i) + Count(A, 4, i)) + 1000 * Count(A, 11, i)
    /\ G[i].balance[node2] = Endowment + 500 * (Count(A, 2, i) + Count(A, 4, i)) - 499 * Count(A, 7, i)
    /\ G[i].balance[node3] = Endowment - 501 * Count(A, 9, i)
    /\ Took(A, 6, i) => G[i].campaign = Campaign(IF Took(A, 11, i) THEN 0 ELSE Contributions(A, i))

LEMMA AccountsStep ==
    ASSUME ThreeNodes, NEW A, NEW G, NEW m, IsRun(A, G, m), OneOfEach(A, m), InOrder(A, m),
           NEW i \in 1..m, Accounts(A, G, i - 1)
    PROVE  Accounts(A, G, i)
<1> DEFINE L == G[i - 1]
           t == A[i]
           R == G[i]
           b == L.balance
<1>1. m \in Nat /\ i \in Nat \ {0} /\ i - 1 \in 0..m /\ IsLedger(L) /\ IsTx(t) /\ R = Execute(L, t)
  <2>1. m \in Nat /\ i - 1 \in 0..m /\ i \in Nat \ {0}
    BY DEF IsRun
  <2>2. QED
    BY <2>1, RunLedgers DEF IsRun
<1>2. node1 \in Node /\ node2 \in Node /\ node3 \in Node /\ Contract \notin Node /\ Endowment \in Nat
  BY DemoAssumption, ClusterAssumption DEF node1, node2, node3
<1>3. PICK s \in Sending : Of(s, t)
  BY DEF OneOfEach
<1>4. /\ Took(A, s, i) /\ ~Took(A, s, i - 1)
      /\ \A r : r # s => (Took(A, r, i) <=> Took(A, r, i - 1))
  BY <1>1, <1>3, CountStep
<1>5. /\ Count(A, s, i) = 1 /\ Count(A, s, i - 1) = 0
      /\ \A r : r # s => Count(A, r, i) = Count(A, r, i - 1)
      /\ \A r : Count(A, r, i - 1) \in {0, 1}
  BY <1>4 DEF Count
<1>6. /\ b \in [Node \cup {Contract} -> Int]
      /\ b[node1] = Endowment - 500 * (Count(A, 2, i - 1) + Count(A, 4, i - 1)) + 1000 * Count(A, 11, i - 1)
      /\ b[node2] = Endowment + 500 * (Count(A, 2, i - 1) + Count(A, 4, i - 1)) - 499 * Count(A, 7, i - 1)
      /\ b[node3] = Endowment - 501 * Count(A, 9, i - 1)
      /\ Took(A, 6, i - 1) => L.campaign = Campaign(IF Took(A, 11, i - 1) THEN 0 ELSE Contributions(A, i - 1))
  BY DEF Accounts
<1> HIDE DEF L, t, R, b
<1>7. CASE s \in {2, 4}
  <2>1. t.method = "transfer" /\ t.from = node1 /\ t.to = node2 /\ t.value = 500
    BY <1>3, <1>7 DEF Of, Sender
  <2>2. R = Pay(Bump(L, node1), node1, node2, 500)
    BY <1>1, <2>1 DEF Execute
  <2>3. R.balance = [[b EXCEPT ![node1] = @ - 500] EXCEPT ![node2] = @ + 500] /\ R.campaign = L.campaign
    <3>1. /\ Pay(Bump(L, node1), node1, node2, 500).balance = Moved(L.balance, node1, node2, 500)
          /\ Pay(Bump(L, node1), node1, node2, 500).campaign = L.campaign
      BY <1>1, <1>2, PayParts
    <3>2. QED
      BY <2>2, <3>1 DEF b, Moved
  <2>4. /\ R.balance \in [Node \cup {Contract} -> Int]
        /\ R.balance[node1] = b[node1] - 500 /\ R.balance[node2] = b[node2] + 500
        /\ R.balance[node3] = b[node3]
    BY <1>2, <1>6, <2>3 DEF ThreeNodes
  <2>5. Count(A, 2, i) + Count(A, 4, i) = Count(A, 2, i - 1) + Count(A, 4, i - 1) + 1
    BY <1>5, <1>7
  <2>6. /\ Count(A, 7, i) = Count(A, 7, i - 1) /\ Count(A, 9, i) = Count(A, 9, i - 1)
        /\ Count(A, 11, i) = Count(A, 11, i - 1)
        /\ Took(A, 6, i) <=> Took(A, 6, i - 1)
        /\ Took(A, 11, i) <=> Took(A, 11, i - 1)
    BY <1>4, <1>5, <1>7
  <2>7. Contributions(A, i) = Contributions(A, i - 1)
    BY <2>6 DEF Contributions
  <2>8. /\ R.balance[node1] = Endowment - 500 * (Count(A, 2, i) + Count(A, 4, i)) + 1000 * Count(A, 11, i)
        /\ R.balance[node2] = Endowment + 500 * (Count(A, 2, i) + Count(A, 4, i)) - 499 * Count(A, 7, i)
        /\ R.balance[node3] = Endowment - 501 * Count(A, 9, i)
    BY <1>2, <1>5, <1>6, <2>4, <2>5, <2>6
  <2>9. Took(A, 6, i) => R.campaign = Campaign(IF Took(A, 11, i) THEN 0 ELSE Contributions(A, i))
    BY <1>6, <2>3, <2>6, <2>7, ZenonT(40)
  <2>10. QED
    BY <2>4, <2>8, <2>9 DEF Accounts, R
<1>8. CASE s = 6
  <2>1. t.method = "create" /\ t.from = node1 /\ t.args[1] = 1000
    BY <1>3, <1>8 DEF Of, Sender
  <2>2. R = [Bump(L, node1) EXCEPT !.campaign = NewCampaign(node1, 1000)]
    BY <1>1, <2>1 DEF Execute
  <2>3. R.balance = b /\ R.campaign = Campaign(0)
    BY <1>1, <2>2 DEF IsLedger, Bump, b, NewCampaign, Campaign
  <2>4. ~Took(A, 6, i - 1)
    BY <1>4, <1>8
  <2>5. ~Took(A, 7, i - 1) /\ ~Took(A, 9, i - 1) /\ ~Took(A, 11, i - 1)
    <3>1. SUFFICES ASSUME NEW r \in {7, 9, 11}, NEW j \in 1..(i - 1), Of(r, A[j]) PROVE FALSE
      BY DEF Took
    <3>2. j \in 1..m
      BY <1>1
    <3>3. Took(A, 6, j - 1)
      BY <3>1, <3>2 DEF InOrder
    <3>4. \A k \in 1..(j - 1) : k \in 1..(i - 1)
      BY <1>1
    <3>5. Took(A, 6, i - 1)
      BY <3>3, <3>4 DEF Took
    <3>6. QED
      BY <2>4, <3>5
  <2>6. /\ Count(A, 2, i) = Count(A, 2, i - 1) /\ Count(A, 4, i) = Count(A, 4, i - 1)
        /\ Count(A, 7, i) = 0 /\ Count(A, 9, i) = 0 /\ Count(A, 11, i) = Count(A, 11, i - 1)
        /\ Count(A, 7, i - 1) = 0 /\ Count(A, 9, i - 1) = 0
        /\ ~Took(A, 11, i)
    BY <1>4, <1>5, <1>8, <2>5 DEF Count
  <2>7. Contributions(A, i) = 0
    BY <2>6 DEF Contributions
  <2>8. R.campaign = Campaign(IF Took(A, 11, i) THEN 0 ELSE Contributions(A, i))
    BY <2>3, <2>6, <2>7
  <2>9. /\ R.balance[node1] = Endowment - 500 * (Count(A, 2, i) + Count(A, 4, i)) + 1000 * Count(A, 11, i)
        /\ R.balance[node2] = Endowment + 500 * (Count(A, 2, i) + Count(A, 4, i)) - 499 * Count(A, 7, i)
        /\ R.balance[node3] = Endowment - 501 * Count(A, 9, i)
    BY <1>6, <2>3, <2>6
  <2>10. QED
    BY <1>6, <2>3, <2>8, <2>9 DEF Accounts, R
<1>9. CASE s \in {7, 9}
  <2> DEFINE a == IF s = 7 THEN node2 ELSE node3
             v == IF s = 7 THEN 499 ELSE 501
             c == L.campaign
             P == Pay(Bump(L, a), a, Contract, v)
  <2>1. t.method = "contribute" /\ t.from = a /\ t.value = v
    BY <1>3, <1>9 DEF Of, Sender
  <2>2. a \in Node /\ v \in Int
    BY <1>2
  <2>3. R = [P EXCEPT !.campaign = Contributed(@, v)]
    BY <1>1, <2>1 DEF Execute
  <2>4. /\ P.balance = [[b EXCEPT ![a] = @ - v] EXCEPT ![Contract] = @ + v] /\ P.campaign = c
        /\ IsLedger(P)
    <3> HIDE DEF a, v
    <3>1. P.balance = Moved(L.balance, a, Contract, v) /\ P.campaign = c /\ IsLedger(P)
      BY <1>1, <2>2, PayParts
    <3> HIDE DEF P
    <3>2. QED
      BY <3>1 DEF b, Moved
  <2> HIDE DEF P
  <2>5. R.balance = [[b EXCEPT ![a] = @ - v] EXCEPT ![Contract] = @ + v] /\ R.campaign = Contributed(c, v)
    <3> HIDE DEF a, v, c
    <3>1. QED
      BY <2>3, <2>4 DEF IsLedger
  <2>6. /\ R.balance \in [Node \cup {Contract} -> Int]
        /\ R.balance[node1] = b[node1]
        /\ R.balance[node2] = IF s = 7 THEN b[node2] - 499 ELSE b[node2]
        /\ R.balance[node3] = IF s = 9 THEN b[node3] - 501 ELSE b[node3]
    BY <1>2, <1>6, <1>9, <2>2, <2>5 DEF ThreeNodes
  <2>7. Took(A, 6, i - 1)
    BY <1>3, <1>9 DEF InOrder, t
  <2>8. ~Took(A, 11, i - 1)
    <3>1. SUFFICES ASSUME NEW j \in 1..(i - 1), Of(11, A[j]) PROVE FALSE
      BY DEF Took
    <3>2. j \in 1..m
      BY <1>1
    <3>3. Took(A, s, j - 1)
      BY <1>9, <3>1, <3>2 DEF InOrder
    <3>4. \A k \in 1..(j - 1) : k \in 1..(i - 1)
      BY <1>1
    <3>5. Took(A, s, i - 1)
      BY <3>3, <3>4 DEF Took
    <3>6. QED
      BY <1>4, <3>5
  <2>9. c = Campaign(Contributions(A, i - 1))
    BY <1>6, <2>7, <2>8
  <2>10. Contributions(A, i - 1) \in Int /\ Contributions(A, i) = Contributions(A, i - 1) + v
    BY <1>5, <1>9 DEF Contributions
  <2>11. R.campaign = Campaign(Contributions(A, i))
    <3>1. R.campaign = Campaign(Contributions(A, i - 1) + v)
      BY <2>5, <2>9 DEF Contributed, Campaign
    <3>2. QED
      BY <2>10, <3>1
  <2>12. ~Took(A, 11, i)
    BY <1>4, <1>9, <2>8
  <2>13. /\ Count(A, 2, i) = Count(A, 2, i - 1) /\ Count(A, 4, i) = Count(A, 4, i - 1)
         /\ Count(A, 7, i) = Count(A, 7, i - 1) + (IF s = 7 THEN 1 ELSE 0)
         /\ Count(A, 9, i) = Count(A, 9, i - 1) + (IF s = 9 THEN 1 ELSE 0)
         /\ Count(A, 11, i) = Count(A, 11, i - 1)
    BY <1>5, <1>9
  <2> HIDE DEF a, v, c
  <2>14. /\ R.balance[node1] = Endowment - 500 * (Count(A, 2, i) + Count(A, 4, i)) + 1000 * Count(A, 11, i)
         /\ R.balance[node2] = Endowment + 500 * (Count(A, 2, i) + Count(A, 4, i)) - 499 * Count(A, 7, i)
         /\ R.balance[node3] = Endowment - 501 * Count(A, 9, i)
    BY <1>2, <1>5, <1>6, <1>9, <2>6, <2>13
  <2>15. QED
    BY <2>6, <2>11, <2>12, <2>14 DEF Accounts, R
<1>10. CASE s = 11
  <2> DEFINE c == L.campaign
             B == Bump(L, node1)
             P == Pay(B, Contract, node1, 1000)
  <2>1. t.method = "settle" /\ t.from = node1
    BY <1>3, <1>10 DEF Of, Sender
  <2>2. R = Settled(B)
    BY <1>1, <2>1 DEF Execute
  <2>3. Took(A, 6, i - 1) /\ Took(A, 7, i - 1) /\ Took(A, 9, i - 1) /\ ~Took(A, 11, i - 1)
    BY <1>3, <1>4, <1>10 DEF InOrder, t
  <2>4. c = Campaign(1000)
    <3>1. Contributions(A, i - 1) = 1000
      BY <2>3 DEF Contributions, Count
    <3>2. QED
      BY <1>6, <2>3, <3>1
  <2>5. B.campaign = c
    BY <1>1 DEF IsLedger, Bump
  <2>6. R = [P EXCEPT !.campaign = PaidOut(c)]
    <3>1. GoalReached(c) /\ c.beneficiary = node1 /\ c.amount = 1000
      BY <2>4 DEF GoalReached, Campaign
    <3> HIDE DEF B, c
    <3>2. QED
      BY <2>2, <2>5, <3>1 DEF Settled
  <2>7. /\ P.balance = [[b EXCEPT ![Contract] = @ - 1000] EXCEPT ![node1] = @ + 1000]
        /\ IsLedger(P)
    <3>1. P.balance = Moved(L.balance, Contract, node1, 1000) /\ IsLedger(P)
      BY <1>1, <1>2, PayParts
    <3> HIDE DEF P
    <3>2. QED
      BY <3>1 DEF b, Moved
  <2> HIDE DEF P, B
  <2>8. R.balance = [[b EXCEPT ![Contract] = @ - 1000] EXCEPT ![node1] = @ + 1000] /\ R.campaign = PaidOut(c)
    <3> HIDE DEF c
    <3>1. QED
      BY <2>6, <2>7 DEF IsLedger
  <2>9. R.campaign = Campaign(0)
    BY <2>4, <2>8 DEF PaidOut, Campaign
  <2>10. /\ R.balance \in [Node \cup {Contract} -> Int]
         /\ R.balance[node1] = b[node1] + 1000
         /\ R.balance[node2] = b[node2] /\ R.balance[node3] = b[node3]
    BY <1>2, <1>6, <2>8 DEF ThreeNodes
  <2>11. /\ Count(A, 2, i) = Count(A, 2, i - 1) /\ Count(A, 4, i) = Count(A, 4, i - 1)
         /\ Count(A, 7, i) = Count(A, 7, i - 1) /\ Count(A, 9, i) = Count(A, 9, i - 1)
         /\ Count(A, 11, i) = Count(A, 11, i - 1) + 1 /\ Took(A, 11, i)
    BY <1>4, <1>5, <1>10
  <2>12. /\ R.balance[node1] = Endowment - 500 * (Count(A, 2, i) + Count(A, 4, i)) + 1000 * Count(A, 11, i)
         /\ R.balance[node2] = Endowment + 500 * (Count(A, 2, i) + Count(A, 4, i)) - 499 * Count(A, 7, i)
         /\ R.balance[node3] = Endowment - 501 * Count(A, 9, i)
    BY <1>2, <1>5, <1>6, <2>10, <2>11
  <2>13. QED
    BY <2>9, <2>10, <2>11, <2>12 DEF Accounts, R
<1>11. QED
  BY <1>3, <1>7, <1>8, <1>9, <1>10 DEF Sending

LEMMA AccountsOfRun ==
    ASSUME ThreeNodes, NEW A, NEW G, NEW m, IsRun(A, G, m), OneOfEach(A, m), InOrder(A, m)
    PROVE  \A i \in 0..m : Accounts(A, G, i)
<1> DEFINE K == {i \in Nat : i <= m => Accounts(A, G, i)}
<1>1. m \in Nat
  BY DEF IsRun
<1>2. 0 \in K
  <2>1. /\ node1 \in Node /\ node2 \in Node /\ node3 \in Node /\ Contract \notin Node /\ Endowment \in Nat
    BY DemoAssumption, ClusterAssumption DEF node1, node2, node3
  <2>2. G[0].balance = [a \in Node \cup {Contract} |-> IF a = Contract THEN 0 ELSE Endowment]
    BY DEF IsRun, Genesis
  <2>3. /\ G[0].balance \in [Node \cup {Contract} -> Int]
        /\ G[0].balance[node1] = Endowment /\ G[0].balance[node2] = Endowment /\ G[0].balance[node3] = Endowment
    BY <2>1, <2>2
  <2>4. \A r : ~Took(A, r, 0) /\ Count(A, r, 0) = 0
    BY DEF Took, Count
  <2>5. Accounts(A, G, 0)
    BY <2>1, <2>3, <2>4 DEF Accounts
  <2>6. QED
    BY <2>5
<1>3. ASSUME NEW i \in Nat, i \in K PROVE i + 1 \in K
  <2>1. SUFFICES ASSUME i + 1 <= m PROVE Accounts(A, G, i + 1)
    OBVIOUS
  <2>2. i + 1 \in 1..m /\ (i + 1) - 1 = i /\ Accounts(A, G, i)
    BY <1>1, <1>3, <2>1
  <2>3. QED
    BY <2>2, AccountsStep
<1> HIDE DEF K
<1>4. Nat \subseteq K
  BY <1>2, <1>3, NatSetInduction
<1>5. QED
  BY <1>1, <1>4 DEF K

----------------------------------------------------------------------------
(* What the script relies on stays so however the history goes on.         *)

LEMMA Parties ==
    /\ node1 \in Node /\ node2 \in Node /\ node3 \in Node
    /\ \A s : Sender(s) \in Node /\ Asked(s) \in Node
BY DemoAssumption DEF node1, node2, node3, Sender, Asked

LEMMA TookKept ==
    ASSUME NEW A, NEW G, NEW m \in Nat, NEW B, NEW H, NEW l, Extends(A, G, m, B, H, l),
           NEW i \in 0..m, NEW s
    PROVE  Took(B, s, i) <=> Took(A, s, i)
<1>1. \A j \in 1..i : B[j] = A[j]
  BY DEF Extends
<1>2. QED
  BY <1>1 DEF Took

LEMMA BehindKept ==
    ASSUME NEW A, NEW G, NEW m \in Nat, NEW B, NEW H, NEW l, Extends(A, G, m, B, H, l),
           IsRun(B, H, l)
    PROVE  /\ \A nonce : Behind(G, m, nonce) => Behind(H, l, nonce)
           /\ \A i \in (m + 1)..l : \A nonce : Behind(G, m, nonce) => nonce <= H[i - 1].nonce[node1]
<1>1. m \in 0..l /\ H[m] = G[m] /\ l \in m..l /\ l \in Nat
  BY DEF Extends
<1>2. \A i \in m..l : H[m].nonce[node1] \in Nat /\ H[i].nonce[node1] \in Nat
                      /\ H[m].nonce[node1] <= H[i].nonce[node1]
  BY <1>1, Parties, RunNonces
<1>3. ASSUME NEW nonce, Behind(G, m, nonce)
      PROVE  \A i \in m..l : nonce <= H[i].nonce[node1]
  BY <1>1, <1>2, <1>3 DEF Behind
<1>4. \A i \in (m + 1)..l : i - 1 \in m..l
  BY <1>1
<1>5. QED
  BY <1>1, <1>3, <1>4 DEF Behind

LEMMA FinalKept ==
    ASSUME NEW A, NEW G, NEW m \in Nat, NEW B, NEW H, NEW l, Extends(A, G, m, B, H, l),
           NEW n, NEW v, Final(A, G, m, n, v)
    PROVE  Final(B, H, l, n, v)
<1>1. SUFFICES ASSUME n \in {node1, node2, node3}
               PROVE  \E i \in 0..l : v = H[i].balance[n] /\ Took(B, LastOf(n), i)
  BY DEF Final
<1>2. PICK i \in 0..m : v = G[i].balance[n] /\ Took(A, LastOf(n), i)
  BY <1>1 DEF Final
<1>3. i \in 0..l /\ H[i] = G[i]
  BY DEF Extends
<1>4. Took(B, LastOf(n), i)
  BY <1>2, TookKept
<1>5. QED
  BY <1>2, <1>3, <1>4

(* A transaction that waits is of a step the script has come to.           *)
LEMMA KnownKind ==
    ASSUME NEW A, NEW m, SubmittedOnce(A, m), NEW t \in Known(A, m), NEW s, Of(s, t), step \in Nat
    PROVE  s \in Sending /\ s <= step
<1>1. PICK r \in Sending : Of(r, t) /\ (r < step \/ (r = step /\ phase \in {"submit", "sleep", "receipt"}))
  BY DEF SubmittedOnce
<1>2. r = s
  BY <1>1, KindsDiffer
<1>3. QED
  BY <1>1, <1>2 DEF Sending

LEMMA ConfirmedTook ==
    ASSUME NEW A, NEW m \in Nat, NEW q, Confirmed(A, q), \A k \in Node : q[k] \in 0..m,
           NEW s \in Awaiting, s < step
    PROVE  Took(A, s, q[Sender(s)]) /\ \A i \in Nat : m < i => Took(A, s, i - 1)
<1>1. PICK i \in 1..q[Sender(s)] : Of(s, A[i])
  BY DEF Confirmed
<1>2. q[Sender(s)] \in 0..m
  BY Parties
<1>3. \A k \in Nat : m < k => i \in 1..(k - 1)
  BY <1>2
<1>4. QED
  BY <1>1, <1>3 DEF Took

LEMMA ScriptKept ==
    ASSUME NEW A, NEW G, NEW m, NEW q, NEW B, NEW H, NEW l, NEW y,
           IsRun(A, G, m), IsRun(B, H, l), Extends(A, G, m, B, H, l),
           \A i \in (m + 1)..l : B[i] \in pool,
           \A k \in Node : q[k] \in 0..m /\ y[k] \in Nat /\ q[k] <= y[k],
           pool' \subseteq pool, UNCHANGED clientVars,
           Script(A, G, m, q)
    PROVE  Script(B, H, l, y)'
<1>1. m \in Nat /\ l \in Nat /\ m <= l
  BY DEF IsRun, Extends
<1>2. UNCHANGED <<step, rejected, phase, conn, listed, txHash, contract, shown>>
  BY DEF clientVars
<1>3. /\ SubmittedOnce(A, m) /\ Confirmed(A, q) /\ InOrder(A, m) /\ TransfersFirst(A, G, m)
      /\ Exchanges(A, G, m, q) /\ CampaignTruthful /\ step \in Nat
  BY DEF Script, Exchanges
<1>4. \A i \in 1..m : B[i] = A[i]
  BY DEF Extends
<1>5. \A i \in 1..l : i \in 1..m \/ i \in (m + 1)..l
  BY <1>1
<1>6. \A i \in 1..l : B[i] \in Known(A, m)
  BY <1>4, <1>5 DEF Known
<1>7. Known(B, l)' \subseteq Known(A, m)
  <2>1. Known(B, l)' = pool' \cup {B[i] : i \in 1..l}
    BY DEF Known
  <2>2. pool \subseteq Known(A, m)
    BY DEF Known
  <2>3. QED
    BY <1>6, <2>1, <2>2
<1>8. SubmittedOnce(B, l)'
  BY <1>2, <1>3, <1>7 DEF SubmittedOnce, Asked, Sender, node1, node2, node3
<1>9. Confirmed(B, y)'
  <2>1. ASSUME NEW s \in Awaiting, s < step
        PROVE  \E i \in 1..y[Sender(s)] : Of(s, B[i])
    <3>1. PICK i \in 1..q[Sender(s)] : Of(s, A[i])
      BY <1>3, <2>1 DEF Confirmed
    <3>2. q[Sender(s)] \in 0..m /\ y[Sender(s)] \in Nat /\ q[Sender(s)] <= y[Sender(s)]
      BY Parties
    <3>3. i \in 1..m /\ i \in 1..y[Sender(s)]
      BY <1>1, <3>2
    <3>4. QED
      BY <1>4, <3>1, <3>3
  <2>2. QED
    BY <1>2, <2>1 DEF Confirmed
<1>10. InOrder(B, l)
  <2>1. \A i \in 0..m : \A s : Took(B, s, i) <=> Took(A, s, i)
    BY <1>1, TookKept
  <2>2. ASSUME NEW i \in 1..l, NEW s \in {7, 9, 11}, Of(s, B[i])
        PROVE  Took(B, 6, i - 1) /\ (s = 11 => Took(B, 7, i - 1) /\ Took(B, 9, i - 1))
    <3>1. CASE i \in 1..m
      <4>1. i - 1 \in 0..m /\ Of(s, A[i])
        BY <1>1, <1>4, <2>2, <3>1
      <4>2. QED
        BY <1>3, <2>1, <3>1, <4>1 DEF InOrder
    <3>2. CASE i \in (m + 1)..l
      <4>1. s <= step
        BY <1>3, <1>6, <2>2, KnownKind
      <4>2. i \in Nat /\ m < i /\ 6 < step /\ (s = 11 => 7 < step /\ 9 < step)
        BY <1>1, <1>3, <3>2, <4>1
      <4>3. \A r \in Awaiting : r < step => Took(A, r, m)
        <5>1. \A k \in Node : q[k] \in 0..m
          OBVIOUS
        <5>2. m + 1 \in Nat /\ m < m + 1 /\ (m + 1) - 1 = m
          BY <1>1
        <5>3. QED
          BY <1>1, <1>3, <5>1, <5>2, ConfirmedTook
      <4>4. m \in 0..m /\ \A r : Took(A, r, m) => Took(B, r, m)
        BY <1>1, <2>1
      <4>5. \A r : Took(B, r, m) => Took(B, r, i - 1)
        <5>1. \A j \in 1..m : j \in 1..(i - 1)
          BY <1>1, <4>2
        <5>2. QED
          BY <5>1 DEF Took
      <4>6. QED
        BY <4>2, <4>3, <4>4, <4>5 DEF Awaiting
    <3>3. QED
      BY <1>5, <3>1, <3>2
  <2>3. QED
    BY <2>2 DEF InOrder
<1>11. \A nonce : Behind(G, m, nonce) => Behind(H, l, nonce)
  BY <1>1, BehindKept
<1>12. TransfersFirst(B, H, l)'
  <2>1. \A t \in Known(B, l)' : IsTransfer(t) => Behind(H, l, t.nonce)
    BY <1>3, <1>7, <1>11 DEF TransfersFirst
  <2>2. ASSUME NEW i \in 1..l, Of(6, B[i]), NEW t \in Known(B, l)', IsTransfer(t)
        PROVE  t.nonce <= B[i].nonce
    <3>1. t \in Known(A, m) /\ Behind(G, m, t.nonce)
      BY <1>3, <1>7, <2>2 DEF TransfersFirst
    <3>2. CASE i \in 1..m
      BY <1>3, <1>4, <2>2, <3>1, <3>2 DEF TransfersFirst
    <3>3. CASE i \in (m + 1)..l
      <4>1. t.nonce <= H[i - 1].nonce[node1]
        BY <1>1, <3>1, <3>3, BehindKept
      <4>2. B[i].nonce = H[i - 1].nonce[node1]
        <5>1. Applies(H[i - 1], B[i])
          BY DEF IsRun
        <5>2. B[i].from = node1
          BY <2>2 DEF Of, Sender
        <5>3. QED
          BY <5>1, <5>2 DEF Applies
      <4>3. QED
        BY <4>1, <4>2
    <3>4. QED
      BY <1>5, <3>2, <3>3
  <2>3. QED
    BY <2>1, <2>2 DEF TransfersFirst
<1>13. Listing(B, H, l)'
  BY <1>1, <1>2, <1>3, FinalKept DEF Exchanges, Listing, Open, Answered
<1>14. Asking(H, l)' /\ Submitting(H, l)' /\ Calling'
  <2>1. Asking(H, l)'
    BY <1>2, <1>3, <1>11 DEF Exchanges, Asking, Open, Answered
  <2>2. Submitting(H, l)'
    BY <1>2, <1>3, <1>11 DEF Exchanges, Submitting, Open, Answered
  <2>3. Calling'
    BY <1>2, <1>3 DEF Exchanges, Calling, Open, Answered
  <2>4. QED
    BY <2>1, <2>2, <2>3
<1>15. Receiving(B, H, y)'
  <2>1. Receiving(A, G, q)
    BY <1>3 DEF Exchanges
  <2>2. ASSUME phase = "receipt", NEW n \in Node, Open(n)
        PROVE  /\ n = Sender(step) /\ conn[n].path = ReceiptPath
               /\ conn[n].state = "sent" => conn[n].arg = txHash
               /\ Answered(n) => \E i \in 1..y[n] : B[i] = txHash /\ conn[n].arg.value = Settled1(B, H, i)
    <3>1. /\ n = Sender(step) /\ conn[n].path = ReceiptPath
          /\ conn[n].state = "sent" => conn[n].arg = txHash
          /\ Answered(n) => \E i \in 1..q[n] : A[i] = txHash /\ conn[n].arg.value = Settled1(A, G, i)
      BY <2>1, <2>2 DEF Receiving
    <3>2. \A i \in 1..q[n] : i \in 1..y[n] /\ B[i] = A[i] /\ Settled1(B, H, i) = Settled1(A, G, i)
      <4>1. q[n] \in 0..m /\ y[n] \in Nat /\ q[n] <= y[n]
        OBVIOUS
      <4>2. \A i \in 1..q[n] : i \in 1..m /\ i \in 1..y[n]
        BY <1>1, <4>1
      <4>3. QED
        BY <1>1, <1>4, <4>2, SettledKept
    <3>3. QED
      BY <3>1, <3>2
  <2>3. QED
    BY <1>2, <2>1, <2>2 DEF Receiving, Open, Answered
<1>16. Exchanges(B, H, l, y)'
  BY <1>2, <1>3, <1>13, <1>14, <1>15 DEF Exchanges, Open
<1>17. CampaignTruthful'
  BY <1>2, <1>3 DEF CampaignTruthful, After
<1>18. QED
  BY <1>8, <1>9, <1>10, <1>12, <1>16, <1>17 DEF Script

----------------------------------------------------------------------------
(* What the script shows.                                                  *)

LEMMA TookMore ==
    ASSUME NEW A, NEW i \in Int, NEW j \in Int, i <= j, NEW s, Took(A, s, i)
    PROVE  Took(A, s, j)
<1>1. \A k \in 1..i : k \in 1..j
  OBVIOUS
<1>2. QED
  BY <1>1 DEF Took

(* The transfers that take effect do so before the campaign is created.    *)
LEMMA TransfersBefore ==
    ASSUME NEW A, NEW G, NEW m, IsRun(A, G, m), TransfersFirst(A, G, m),
           NEW i \in 0..m, Took(A, 6, i), NEW s \in {2, 4}
    PROVE  Took(A, s, m) <=> Took(A, s, i)
<1>1. m \in Nat
  BY DEF IsRun
<1>2. PICK k \in 1..i : Of(6, A[k])
  BY DEF Took
<1>3. k \in 1..m
  BY <1>1
<1>4. ASSUME NEW j \in 1..m, Of(s, A[j])
      PROVE  j < k
  <2>1. A[j] \in Known(A, m) /\ IsTransfer(A[j])
    BY <1>4 DEF Known, IsTransfer
  <2>2. A[j].nonce <= A[k].nonce
    BY <1>2, <1>3, <2>1 DEF TransfersFirst
  <2>3. A[j].from = A[k].from
    BY <1>2, <1>4 DEF Of, Sender
  <2>4. A[j].nonce \in Nat /\ A[k].nonce \in Nat /\ (k < j => A[k].nonce < A[j].nonce)
    BY <1>3, <2>3, RunOrder
  <2>5. j # k
    BY <1>2, <1>4, KindsDiffer
  <2>6. QED
    BY <1>1, <1>3, <2>2, <2>4, <2>5
<1>5. Took(A, s, m) => Took(A, s, i)
  <2>1. SUFFICES ASSUME NEW j \in 1..m, Of(s, A[j]) PROVE Took(A, s, i)
    BY DEF Took
  <2>2. j < k
    BY <1>4, <2>1
  <2>3. j \in 1..i
    BY <1>1, <2>2
  <2>4. QED
    BY <2>1, <2>3 DEF Took
<1>6. QED
  BY <1>1, <1>5, TookMore

LEMMA BalancesTruthful ==
    ASSUME ThreeNodes, NEW A, NEW G, NEW m, IsRun(A, G, m), OneOfEach(A, m), InOrder(A, m),
           TransfersFirst(A, G, m), NEW list, \A n \in Node : Final(A, G, m, n, list[n])
    PROVE  /\ list[node3] = Endowment - 501
           /\ \E sent \in 0..2, got \in 0..2 :
                 /\ got <= sent
                 /\ list[node1] = Endowment + 1000 - 500 * sent
                 /\ list[node2] = Endowment - 499 + 500 * got
<1> DEFINE sent == Count(A, 2, m) + Count(A, 4, m)
<1>1. m \in Nat /\ Endowment \in Nat /\ \A r, i : Count(A, r, i) \in {0, 1}
  BY ClusterAssumption DEF IsRun, Count
<1>2. sent \in 0..2
  BY <1>1
<1>3. ASSUME NEW n \in {node1, node2, node3}
      PROVE  \E i \in 0..m : /\ list[n] = G[i].balance[n] /\ Took(A, LastOf(n), i) /\ Accounts(A, G, i)
                             /\ Count(A, 2, i) + Count(A, 4, i) = sent
  <2>1. PICK i \in 0..m : list[n] = G[i].balance[n] /\ Took(A, LastOf(n), i)
    BY Parties DEF Final
  <2>2. PICK j \in 1..i : Of(LastOf(n), A[j])
    BY <2>1 DEF Took
  <2>3. j \in 1..m /\ j - 1 <= i /\ LastOf(n) \in {7, 9, 11}
    BY <1>1 DEF LastOf
  <2>4. Took(A, 6, i)
    <3>1. Took(A, 6, j - 1)
      BY <2>2, <2>3 DEF InOrder
    <3>2. QED
      BY <2>3, <3>1, TookMore
  <2>5. Count(A, 2, i) = Count(A, 2, m) /\ Count(A, 4, i) = Count(A, 4, m)
    BY <2>4, TransfersBefore DEF Count
  <2>6. QED
    BY <2>1, <2>5, AccountsOfRun
<1> HIDE DEF sent
<1>4. list[node3] = Endowment - 501
  <2>1. LastOf(node3) = 9
    BY DEF LastOf, ThreeNodes
  <2>2. PICK i \in 0..m : list[node3] = G[i].balance[node3] /\ Took(A, 9, i) /\ Accounts(A, G, i)
    BY <1>3, <2>1
  <2>3. Count(A, 9, i) = 1
    BY <2>2 DEF Count
  <2>4. QED
    BY <1>1, <2>2, <2>3 DEF Accounts
<1>5. list[node1] = Endowment + 1000 - 500 * sent
  <2>1. LastOf(node1) = 11
    BY DEF LastOf
  <2>2. PICK i \in 0..m : /\ list[node1] = G[i].balance[node1] /\ Took(A, 11, i) /\ Accounts(A, G, i)
                          /\ Count(A, 2, i) + Count(A, 4, i) = sent
    BY <1>3, <2>1
  <2>3. Count(A, 11, i) = 1
    BY <2>2 DEF Count
  <2>4. list[node1] = Endowment - 500 * sent + 1000 * 1
    BY <2>2, <2>3 DEF Accounts
  <2>5. QED
    BY <1>1, <1>2, <2>4
<1>6. list[node2] = Endowment - 499 + 500 * sent
  <2>1. LastOf(node2) = 7
    BY DEF LastOf, ThreeNodes
  <2>2. PICK i \in 0..m : /\ list[node2] = G[i].balance[node2] /\ Took(A, 7, i) /\ Accounts(A, G, i)
                          /\ Count(A, 2, i) + Count(A, 4, i) = sent
    BY <1>3, <2>1
  <2>3. Count(A, 7, i) = 1
    BY <2>2 DEF Count
  <2>4. list[node2] = Endowment + 500 * sent - 499 * 1
    BY <2>2, <2>3 DEF Accounts
  <2>5. QED
    BY <1>1, <1>2, <2>4
<1>7. QED
  BY <1>2, <1>4, <1>5, <1>6

(* settle finds the goal reached, wherever it takes effect.                *)
LEMMA SettlePays ==
    ASSUME ThreeNodes, NEW A, NEW G, NEW m, IsRun(A, G, m), OneOfEach(A, m), InOrder(A, m),
           NEW i \in 1..m, Of(11, A[i])
    PROVE  Settled1(A, G, i).logs = <<[topic |-> "Settlement", value |-> TRUE]>>
<1>1. m \in Nat /\ i - 1 \in 0..m
  BY DEF IsRun
<1>2. Took(A, 6, i - 1) /\ Took(A, 7, i - 1) /\ Took(A, 9, i - 1)
  BY DEF InOrder
<1>3. ~Took(A, 11, i - 1)
  BY <1>1, CountStep
<1>4. G[i - 1].campaign = Campaign(Contributions(A, i - 1))
  BY <1>1, <1>2, <1>3, AccountsOfRun DEF Accounts
<1>5. Contributions(A, i - 1) = 1000
  BY <1>2 DEF Contributions, Count
<1>6. GoalReached(G[i - 1].campaign) = TRUE
  BY <1>4, <1>5 DEF Campaign, GoalReached
<1>7. A[i].method = "settle"
  BY DEF Of
<1>8. Settled1(A, G, i).logs = Logs(G[i - 1], A[i])
  BY DEF Settled1, ReceiptOf
<1>9. QED
  BY <1>6, <1>7, <1>8 DEF Logs

(* One contribution does not reach the goal.                               *)
LEMMA GoalNotReached ==
    ASSUME ThreeNodes, NEW A, NEW G, NEW m, IsRun(A, G, m), OneOfEach(A, m), InOrder(A, m),
           SubmittedOnce(A, m), step = 8, NEW i \in 0..m, Took(A, 6, i)
    PROVE  GoalReached(G[i].campaign) = FALSE
<1>1. \A j \in 1..i : A[j] \in Known(A, m)
  BY DEF Known, IsRun
<1>2. ~Took(A, 9, i) /\ ~Took(A, 11, i)
  <2>1. SUFFICES ASSUME NEW s \in {9, 11}, NEW j \in 1..i, Of(s, A[j]) PROVE FALSE
    BY DEF Took
  <2>2. s <= step
    BY <1>1, <2>1, KnownKind
  <2>3. QED
    BY <2>2
<1>3. G[i].campaign = Campaign(Contributions(A, i))
  BY <1>2, AccountsOfRun DEF Accounts
<1>4. Contributions(A, i) \in {0, 499}
  BY <1>2 DEF Contributions, Count
<1>5. QED
  BY <1>3, <1>4 DEF Campaign, GoalReached

----------------------------------------------------------------------------
(* The steps of the script.                                                *)

(* Nothing of the current step is submitted before it starts to submit.    *)
LEMMA NotYetKnown ==
    ASSUME NEW A, NEW m, SubmittedOnce(A, m), phase \notin {"submit", "sleep", "receipt"}, step \in Nat
    PROVE  \A t \in Known(A, m) : ~Of(step, t)
<1>1. SUFFICES ASSUME NEW t \in Known(A, m), Of(step, t) PROVE FALSE
  OBVIOUS
<1>2. PICK r \in Sending : Of(r, t) /\ r < step
  BY DEF SubmittedOnce
<1>3. r = step
  BY <1>1, <1>2, KindsDiffer
<1>4. QED
  BY <1>2, <1>3

(* Inside a step only its exchanges move.                                  *)
LEMMA StepGoesOn ==
    ASSUME NEW A, NEW G, NEW m, NEW q, Script(A, G, m, q),
           UNCHANGED <<pool, step, shown>>,
           phase \in {"submit", "sleep", "receipt"} => phase' \in {"submit", "sleep", "receipt"},
           phase' = "submit" /\ conn'[Asked(step)].state = "sent" =>
              \A t \in Known(A, m) : ~Of(step, t),
           Exchanges(A, G, m, q)'
    PROVE  Script(A, G, m, q)'
<1>1. /\ SubmittedOnce(A, m) /\ Confirmed(A, q) /\ InOrder(A, m) /\ TransfersFirst(A, G, m)
      /\ CampaignTruthful
  BY DEF Script
<1>2. Known(A, m)' = Known(A, m)
  BY DEF Known
<1>3. SubmittedOnce(A, m)'
  BY <1>1, <1>2 DEF SubmittedOnce, Asked, Sender, node1, node2, node3
<1>4. Confirmed(A, q)' /\ TransfersFirst(A, G, m)'
  BY <1>1, <1>2 DEF Confirmed, TransfersFirst
<1>5. CampaignTruthful'
  BY <1>1 DEF CampaignTruthful, After
<1>6. QED
  BY <1>1, <1>3, <1>4, <1>5 DEF Script

(* The end of a step.                                                      *)
LEMMA StepEnds ==
    ASSUME NEW A, NEW G, NEW m, NEW q, Script(A, G, m, q), UNCHANGED pool,
           step' = step + 1, phase' = "prompt", DOMAIN listed' = Node,
           \A n \in Node : conn'[n].state = "closed",
           step \in Awaiting => \E i \in 1..q[Sender(step)] : Of(step, A[i]),
           CampaignTruthful'
    PROVE  Script(A, G, m, q)'
<1>1. /\ SubmittedOnce(A, m) /\ Confirmed(A, q) /\ InOrder(A, m) /\ TransfersFirst(A, G, m)
      /\ step \in Nat
  BY DEF Script, Exchanges
<1>2. Known(A, m)' = Known(A, m)
  BY DEF Known
<1>3. SubmittedOnce(A, m)'
  <2>1. \A s \in Sending : s < step \/ s = step => s < step + 1
    BY <1>1 DEF Sending
  <2>2. \A t \in Known(A, m) : \E s \in Sending : Of(s, t) /\ s < step + 1
    BY <1>1, <2>1 DEF SubmittedOnce
  <2>3. \A t, u \in Known(A, m) : \A s \in Sending : Of(s, t) /\ Of(s, u) => t = u
    BY <1>1 DEF SubmittedOnce
  <2>4. QED
    BY <1>2, <2>2, <2>3 DEF SubmittedOnce
<1>4. Confirmed(A, q)'
  <2>1. \A s \in Awaiting : s < step + 1 => s < step \/ s = step
    BY <1>1 DEF Awaiting
  <2>2. QED
    BY <1>1, <2>1 DEF Confirmed
<1>5. TransfersFirst(A, G, m)'
  BY <1>1, <1>2 DEF TransfersFirst
<1>6. Exchanges(A, G, m, q)'
  BY <1>1 DEF Exchanges, Phases, Open, Listing, Asking, Submitting, Calling, Receiving
<1>7. QED
  BY <1>1, <1>3, <1>4, <1>5, <1>6 DEF Script

LEMMA SentAlone ==
    ASSUME Requested, NEW n \in Node, NEW request, request.state = "sent", Send(n, request),
           \A k \in Node \ {n} : ~Open(k)
    PROVE  /\ conn'[n] = request /\ Open(n)' /\ ~Answered(n)'
           /\ \A k \in Node : Open(k)' => k = n
BY DEF Requested, Send, Open, Answered

LEMMA ClosedOne ==
    ASSUME Requested, NEW n \in Node, Close(n)
    PROVE  /\ conn'[n].state = "closed"
           /\ \A k \in Node \ {n} : conn'[k] = conn[k]
BY DEF Requested, Close, Closed

LEMMA StartScript ==
    ASSUME OnceInv, NEW A, NEW G, NEW m, NEW q, Script(A, G, m, q), StartStep
    PROVE  Script(A, G, m, q)'
<1>1. /\ SubmittedOnce(A, m) /\ Exchanges(A, G, m, q) /\ step \in Nat /\ DOMAIN listed = Node
      /\ Requested
  BY DEF Script, Exchanges, OnceInv
<1>2. phase = "prompt" /\ UNCHANGED <<pool, step, shown, listed, txHash, rejected>>
  BY DEF StartStep, GetControlledAccounts, Transfer, TransferRaw, DeployContract, Contribute,
         CheckGoalReached, Settle, Starting, clusterVars
<1>3. \A k \in Node : ~Open(k)
  BY <1>1, <1>2 DEF Exchanges
<1>4. \A t \in Known(A, m) : ~Of(step, t)
  BY <1>1, <1>2, NotYetKnown
<1>5. SUFFICES Exchanges(A, G, m, q)'
  BY <1>2, <1>4, StepGoesOn
<1>6. CASE GetControlledAccounts
  <2>1. conn' = [n \in Node |-> AccountsRequest] /\ phase' = "list" /\ step \in {1, 3, 5, 12}
    BY <1>6 DEF GetControlledAccounts, Starting
  <2>2. \A n \in Node : conn'[n].path = "/accounts" /\ conn'[n].state = "sent"
    BY <2>1 DEF AccountsRequest, Request
  <2>3. Listing(A, G, m)'
    BY <1>2, <2>1, <2>2 DEF Listing, Open, Answered
  <2>4. QED
    BY <1>1, <1>2, <2>1, <2>3 DEF Exchanges, Phases, Asking, Submitting, Calling, Receiving
<1>7. CASE TransferRaw
  <2>1. Send(node3, AccountRequest(node1)) /\ phase' = "account" /\ step = 4
    BY <1>7 DEF TransferRaw, Starting
  <2> DEFINE r == AccountRequest(node1)
  <2>2. r.path = "/account" /\ r.arg = node1 /\ r.state = "sent"
    BY DEF AccountRequest, Request
  <2> HIDE DEF r
  <2>3. conn'[node3] = r /\ ~Answered(node3)' /\ \A k \in Node : Open(k)' => k = node3
    BY <1>1, <1>3, <2>1, <2>2, SentAlone, Parties DEF r
  <2>4. Asking(G, m)'
    BY <1>2, <2>1, <2>2, <2>3 DEF Asking
  <2>5. QED
    BY <1>1, <1>2, <2>1, <2>4 DEF Exchanges, Phases, Listing, Submitting, Calling, Receiving
<1>8. CASE CheckGoalReached
  <2> DEFINE r == CallRequest(CheckTx)
  <2>1. Send(node1, r) /\ phase' = "call" /\ step \in {8, 10}
    BY <1>8 DEF CheckGoalReached, Starting
  <2>2. r.path = "/call" /\ r.state = "sent"
    BY DEF CallRequest, Request
  <2> HIDE DEF r
  <2>3. conn'[node1] = r /\ ~Answered(node1)' /\ \A k \in Node : Open(k)' => k = node1
    BY <1>1, <1>3, <2>1, <2>2, SentAlone, Parties
  <2>4. Calling'
    BY <1>2, <2>1, <2>2, <2>3 DEF Calling
  <2>5. QED
    BY <1>1, <1>2, <2>1, <2>4 DEF Exchanges, Phases, Listing, Submitting, Asking, Receiving
<1>9. CASE Transfer \/ DeployContract \/ Contribute \/ Settle
  <2>1. PICK t : /\ Send(Asked(step), SendTxRequest(t)) /\ phase' = "submit"
                 /\ step \in {2, 6, 7, 9, 11} /\ Of(step, t)
    <3>1. CASE Transfer
      <4>1. Of(2, TransferTx)
        BY SubmittedTx DEF Of, TransferTx, Tx, Sender, Sending
      <4>2. QED
        BY <3>1, <4>1 DEF Transfer, Starting, Asked, Sender
    <3>2. CASE DeployContract
      <4>1. DeployTx.args = <<1000>> /\ DeployTx.from = node1 /\ DeployTx.method = "create"
        BY SMT DEF DeployTx, Tx, EncodeConstructorParams, Compile
      <4>2. Of(6, DeployTx)
        BY <4>1, SubmittedTx DEF Of, Sender, Sending
      <4>3. QED
        BY <3>2, <4>2 DEF DeployContract, Starting, Asked, Sender
    <3>3. CASE Contribute
      <4>1. Of(7, ContributeTx(node2, 499))
        <5> DEFINE t == ContributeTx(node2, 499)
        <5>1. Sender(7) = node2
          BY DEF Sender
        <5>2. IsTx(t) /\ t.from = node2 /\ t.method = "contribute" /\ t.value = 499
          BY SubmittedTx DEF ContributeTx, Tx
        <5> HIDE DEF t
        <5>3. Of(7, t)
          BY <5>1, <5>2 DEF Of, Sending
        <5>4. QED
          BY <5>3 DEF t
      <4>2. Of(9, ContributeTx(node3, 501))
        <5> DEFINE t == ContributeTx(node3, 501)
        <5>1. Sender(9) = node3
          BY DEF Sender
        <5>2. IsTx(t) /\ t.from = node3 /\ t.method = "contribute" /\ t.value = 501
          BY SubmittedTx DEF ContributeTx, Tx
        <5> HIDE DEF t
        <5>3. Of(9, t)
          BY <5>1, <5>2 DEF Of, Sending
        <5>4. QED
          BY <5>3 DEF t
      <4>3. QED
        BY <3>3, <4>1, <4>2 DEF Contribute, Starting, Asked, Sender
    <3>4. CASE Settle
      <4>1. Of(11, SettleTx)
        BY SubmittedTx DEF Of, SettleTx, Tx, Sender, Sending
      <4>2. QED
        BY <3>4, <4>1 DEF Settle, Starting, Asked, Sender
    <3>5. QED
      BY <1>9, <3>1, <3>2, <3>3, <3>4
  <2> DEFINE r == SendTxRequest(t)
  <2>2. r.path = "/tx" /\ r.arg = t /\ r.state = "sent"
    BY DEF SendTxRequest, Request
  <2>3. PICK n \in Node : n = Asked(step) /\ Send(n, r)
    BY <2>1, Parties
  <2> HIDE DEF r
  <2>4. conn'[n] = r /\ ~Answered(n)' /\ \A k \in Node : Open(k)' => k = n
    BY <1>1, <1>3, <2>2, <2>3, SentAlone
  <2>5. Submitting(G, m)'
    <3>1. step' = step /\ Asked(step)' = n
      BY <1>2, <2>3 DEF Asked, Sender, node1, node2, node3
    <3>2. step \in Sending /\ step # 4
      BY <2>1 DEF Sending
    <3>3. QED
      BY <2>1, <2>2, <2>4, <3>1, <3>2 DEF Submitting
  <2>6. QED
    BY <1>1, <1>2, <2>1, <2>5 DEF Exchanges, Phases, Listing, Asking, Calling, Receiving
<1>10. QED
  BY <1>6, <1>7, <1>8, <1>9 DEF StartStep

LEMMA ListScript ==
    ASSUME ThreeNodes, OnceInv, NEW A, NEW G, NEW m, NEW q, IsRun(A, G, m), Script(A, G, m, q),
           NEW n \in Node, AccountsListed(n)
    PROVE  Script(A, G, m, q)'
<1> DEFINE v == conn[n].arg.value
           list == [listed EXCEPT ![n] = v]
<1>1. /\ SubmittedOnce(A, m) /\ InOrder(A, m) /\ TransfersFirst(A, G, m) /\ Exchanges(A, G, m, q)
      /\ step \in Nat /\ DOMAIN listed = Node /\ Requested /\ phase = "list" /\ Listing(A, G, m)
  BY DEF Script, Exchanges, OnceInv, AccountsListed, Received
<1>2. /\ Answered(n) /\ Close(n) /\ UNCHANGED <<pool, rejected, txHash>>
      /\ IF ~rejected /\ \A k \in Node \ {n} : conn[k].state = "closed"
         THEN StepDone(list) /\ listed' = [k \in Node |-> Nothing]
         ELSE listed' = list /\ UNCHANGED <<step, phase, shown>>
  BY DEF AccountsListed, Received, Answered, clusterVars
<1>3. conn'[n].state = "closed" /\ \A k \in Node \ {n} : conn'[k] = conn[k]
  BY <1>1, <1>2, ClosedOne
<1>4. DOMAIN list = Node /\ list[n] = v /\ \A k \in Node \ {n} : list[k] = listed[k]
  BY <1>1
<1>5. ~rejected /\ step = 12 => Final(A, G, m, n, v)
  BY <1>1, <1>2 DEF Listing
<1> HIDE DEF list, v
<1>6. CASE ~rejected /\ \A k \in Node \ {n} : conn[k].state = "closed"
  <2>1. step' = step + 1 /\ phase' = "prompt" /\ shown' = list /\ DOMAIN listed' = Node
    BY <1>2, <1>6 DEF StepDone
  <2>2. step \in {1, 3, 5, 12}
    BY <1>1 DEF Listing
  <2>3. step = 12 =>
           /\ list[node3] = Endowment - 501
           /\ \E sent \in 0..2, got \in 0..2 :
                 /\ got <= sent
                 /\ list[node1] = Endowment + 1000 - 500 * sent
                 /\ list[node2] = Endowment - 499 + 500 * got
    <3>1. SUFFICES ASSUME step = 12 PROVE \A k \in Node : Final(A, G, m, k, list[k])
      BY <1>1, AppliedOnce, BalancesTruthful
    <3>2. ASSUME NEW k \in Node PROVE Final(A, G, m, k, list[k])
      BY <1>1, <1>4, <1>5, <1>6, <3>1 DEF Listing, Open
    <3>3. QED
      BY <3>2
  <2>4. CampaignTruthful'
    <3>1. ~After(8)' /\ ~After(11)' /\ (After(12)' => step = 12)
      BY <2>1, <2>2 DEF After
    <3>2. QED
      BY <2>1, <2>3, <3>1 DEF CampaignTruthful, node1, node2, node3
  <2>5. step \notin Awaiting
    BY <2>2 DEF Awaiting
  <2>6. \A k \in Node : conn'[k].state = "closed"
    BY <1>3, <1>6
  <2>7. QED
    BY <1>2, <2>1, <2>4, <2>5, <2>6, StepEnds
<1>7. CASE ~(~rejected /\ \A k \in Node \ {n} : conn[k].state = "closed")
  <2>1. listed' = list /\ UNCHANGED <<step, phase, shown, rejected>>
    BY <1>2, <1>7
  <2>2. ~Open(n)' /\ ~Answered(n)'
    BY <1>3 DEF Open, Answered
  <2>3. \A k \in Node \ {n} : Open(k)' = Open(k) /\ Answered(k)' = Answered(k)
    BY <1>3 DEF Open, Answered
  <2>4. Listing(A, G, m)'
    <3>1. step' \in {1, 3, 5, 12} /\ \A k \in Node : Open(k)' => conn'[k].path = "/accounts"
      BY <1>1, <1>3, <2>1, <2>2, <2>3 DEF Listing
    <3>2. ASSUME ~rejected, step = 12, NEW k \in Node
          PROVE  /\ Answered(k)' => Final(A, G, m, k, conn'[k].arg.value)
                 /\ ~Open(k)' => Final(A, G, m, k, list[k])
      <4>1. CASE k = n
        BY <1>4, <1>5, <2>2, <3>2, <4>1
      <4>2. CASE k # n
        BY <1>1, <1>3, <1>4, <2>3, <3>2, <4>2 DEF Listing
      <4>3. QED
        BY <4>1, <4>2
    <3>3. QED
      BY <2>1, <3>1, <3>2 DEF Listing
  <2>5. Exchanges(A, G, m, q)'
    BY <1>1, <1>4, <2>1, <2>4 DEF Exchanges, Phases, Asking, Submitting, Calling, Receiving
  <2>6. QED
    BY <1>1, <1>2, <2>1, <2>5, StepGoesOn
<1>8. QED
  BY <1>6, <1>7

LEMMA AccountScript ==
    ASSUME OnceInv, NEW A, NEW G, NEW m, NEW q, Script(A, G, m, q), NEW n \in Node, AccountRead(n)
    PROVE  Script(A, G, m, q)'
<1> DEFINE t == RawTx(conn[n].arg.value.nonce)
           r == SendRawTxRequest(t)
<1>1. /\ SubmittedOnce(A, m) /\ Exchanges(A, G, m, q) /\ step \in Nat /\ DOMAIN listed = Node
      /\ Requested /\ phase = "account" /\ Asking(G, m)
  BY DEF Script, Exchanges, OnceInv, AccountRead, Received
<1>2. /\ Answered(n) /\ Open(n) /\ Send(n, r) /\ phase' = "submit"
      /\ UNCHANGED <<pool, step, shown, listed, txHash>>
  BY DEF AccountRead, Received, Answered, Open, clusterVars
<1>3. step = 4 /\ n = node3 /\ Behind(G, m, conn[n].arg.value.nonce) /\ \A k \in Node \ {n} : ~Open(k)
  BY <1>1, <1>2 DEF Asking
<1>4. t.nonce = conn[n].arg.value.nonce /\ Of(4, t)
  <2>1. \A v : RawTx(v).nonce = v /\ RawTx(v).method = "transfer" /\ RawTx(v).from = node1
               /\ RawTx(v).to = node2 /\ RawTx(v).value = 500 /\ RawTx(v).gas = RawGas
    BY SMT DEF RawTx, Tx, RawGas
  <2>2. IsTx(t)
    BY SubmittedTx
  <2>3. QED
    BY <2>1, <2>2 DEF Of, Sender, Sending
<1>5. PICK request : /\ Send(n, request) /\ request.state = "sent" /\ request.path = "/rawtx"
                     /\ Of(4, request.arg) /\ Behind(G, m, request.arg.nonce)
  <2> HIDE DEF t
  <2>1. r.state = "sent" /\ r.path = "/rawtx" /\ r.arg = t
    BY DEF SendRawTxRequest, Request
  <2> HIDE DEF r
  <2>2. QED
    BY <1>2, <1>3, <1>4, <2>1
<1>6. conn'[n] = request /\ ~Answered(n)' /\ \A k \in Node : Open(k)' => k = n
  BY <1>1, <1>3, <1>5, SentAlone
<1>7. \A x \in Known(A, m) : ~Of(step, x)
  BY <1>1, NotYetKnown
<1>8. Submitting(G, m)'
  <2>1. step' = 4 /\ Asked(step)' = n
    BY <1>2, <1>3 DEF Asked, node1, node2, node3
  <2>2. QED
    BY <1>5, <1>6, <2>1 DEF Submitting, Sending
<1>9. Exchanges(A, G, m, q)'
  BY <1>1, <1>2, <1>8 DEF Exchanges, Phases, Listing, Asking, Calling, Receiving
<1>10. QED
  BY <1>1, <1>2, <1>7, <1>9, StepGoesOn

LEMMA SubmittedScript ==
    ASSUME OnceInv, NEW A, NEW G, NEW m, NEW q, Script(A, G, m, q), NEW n \in Node, Submitted(n)
    PROVE  Script(A, G, m, q)'
<1>1. /\ Exchanges(A, G, m, q) /\ step \in Nat /\ DOMAIN listed = Node
      /\ Requested /\ phase = "submit" /\ Submitting(G, m)
  BY DEF Script, Exchanges, OnceInv, Submitted, Received
<1>2. /\ Answered(n) /\ Open(n) /\ Close(n) /\ UNCHANGED <<pool, listed>> /\ txHash' = conn[n].arg.value
      /\ IF step \in {2, 4} THEN StepDone(txHash') ELSE phase' = "sleep" /\ UNCHANGED <<step, shown>>
  BY DEF Submitted, Received, Answered, Open, clusterVars
<1>3. step \in Sending /\ Of(step, txHash') /\ \A k \in Node \ {n} : ~Open(k)
  BY <1>1, <1>2 DEF Submitting
<1>4. \A k \in Node : conn'[k].state = "closed"
  BY <1>1, <1>2, <1>3, ClosedOne DEF Open
<1>5. CASE step \in {2, 4}
  <2>1. step' = step + 1 /\ phase' = "prompt"
    BY <1>2, <1>5 DEF StepDone
  <2>2. ~After(8)' /\ ~After(11)' /\ ~After(12)' /\ step \notin Awaiting
    BY <1>5, <2>1 DEF After, Awaiting
  <2>3. CampaignTruthful'
    BY <2>2 DEF CampaignTruthful
  <2>4. QED
    BY <1>1, <1>2, <1>4, <2>1, <2>2, <2>3, StepEnds
<1>6. CASE step \notin {2, 4}
  <2>1. phase' = "sleep" /\ UNCHANGED <<step, shown>>
    BY <1>2, <1>6
  <2>2. step \in Awaiting
    BY <1>3, <1>6 DEF Sending, Awaiting
  <2>3. Exchanges(A, G, m, q)'
    BY <1>1, <1>2, <1>3, <1>4, <2>1, <2>2
       DEF Exchanges, Phases, Open, Listing, Asking, Submitting, Calling, Receiving
  <2>4. QED
    BY <1>1, <1>2, <2>1, <2>3, StepGoesOn
<1>7. QED
  BY <1>5, <1>6

LEMMA WakeScript ==
    ASSUME OnceInv, NEW A, NEW G, NEW m, NEW q, Script(A, G, m, q), Wake
    PROVE  Script(A, G, m, q)'
<1>1. /\ Exchanges(A, G, m, q) /\ step \in Nat /\ DOMAIN listed = Node
      /\ Requested /\ phase = "sleep" /\ \A k \in Node : ~Open(k)
      /\ step \in Awaiting /\ Of(step, txHash)
  BY DEF Script, Exchanges, Receiving, OnceInv, Wake
<1>2. /\ Send(txHash.from, ReceiptRequest(txHash)) /\ phase' = "receipt"
      /\ UNCHANGED <<pool, step, shown, listed, txHash>>
  BY DEF Wake, clusterVars
<1>3. PICK n \in Node : n = txHash.from /\ n = Sender(step)
  BY <1>1, Parties DEF Of
<1>4. PICK r : Send(n, r) /\ r.state = "sent" /\ r.arg = txHash /\ r.path = ReceiptPath
  <2>1. /\ ReceiptRequest(txHash).state = "sent" /\ ReceiptRequest(txHash).arg = txHash
        /\ ReceiptRequest(txHash).path = ReceiptPath
    BY Zenon DEF ReceiptRequest, Request, ReceiptPath
  <2>2. QED
    BY <1>2, <1>3, <2>1
<1>5. conn'[n] = r /\ ~Answered(n)' /\ \A k \in Node : Open(k)' => k = n
  BY <1>1, <1>3, <1>4, SentAlone
<1>6. Receiving(A, G, q)'
  <2>1. Sender(step)' = n
    BY <1>2, <1>3 DEF Sender, node1, node2, node3
  <2>2. QED
    BY <1>1, <1>2, <1>4, <1>5, <2>1 DEF Receiving
<1>7. Exchanges(A, G, m, q)'
  BY <1>1, <1>2, <1>6 DEF Exchanges, Phases, Listing, Asking, Submitting, Calling
<1>8. QED
  BY <1>1, <1>2, <1>7, StepGoesOn

LEMMA SettlementParsed ==
    ParseLogs(<<[topic |-> "Settlement", value |-> TRUE]>>) = <<[event |-> "Settlement", args |-> TRUE]>>
<1> DEFINE logs == <<[topic |-> "Settlement", value |-> TRUE]>>
<1>1. DOMAIN logs = {1} /\ logs[1].topic \in Compile.events
      /\ logs[1].topic = "Settlement" /\ logs[1].value = TRUE
  BY DEF Compile
<1> HIDE DEF logs
<1>2. ParseLogs(logs) = [i \in {1} |-> [event |-> "Settlement", args |-> TRUE]]
  BY <1>1 DEF ParseLogs
<1>3. \A e : <<e>> = [i \in {1} |-> e]
  <2>1. SUFFICES ASSUME NEW e PROVE <<e>> = [i \in {1} |-> e]
    OBVIOUS
  <2>2. 1..1 = {1}
    OBVIOUS
  <2>3. <<e>> \in [1..1 -> {e}] /\ <<e>>[1] = e
    OBVIOUS
  <2> DEFINE f == <<e>>
  <2>4. f = [i \in 1..1 |-> f[i]] /\ f[1] = e
    BY <2>3
  <2> HIDE DEF f
  <2>5. f = [i \in {1} |-> e]
    BY <2>2, <2>4
  <2>6. QED
    BY <2>5 DEF f
<1>4. QED
  BY <1>2, <1>3 DEF logs

LEMMA ReceiptScript ==
    ASSUME ThreeNodes, OnceInv, NEW A, NEW G, NEW m, NEW q, IsRun(A, G, m), Script(A, G, m, q),
           \A k \in Node : q[k] \in 0..m,
           NEW n \in Node, ReceiptRead(n)
    PROVE  Script(A, G, m, q)'
<1>1. /\ SubmittedOnce(A, m) /\ InOrder(A, m) /\ Exchanges(A, G, m, q) /\ step \in Nat
      /\ DOMAIN listed = Node /\ Requested /\ phase = "receipt" /\ Receiving(A, G, q)
  BY DEF Script, Exchanges, OnceInv, ReceiptRead, Received
<1>2. /\ Answered(n) /\ Open(n) /\ Close(n) /\ UNCHANGED <<pool, listed>>
      /\ step' = step + 1 /\ phase' = "prompt" /\ shown' = ParseLogs(conn[n].arg.value.logs)
  BY DEF ReceiptRead, Received, Answered, Open, StepDone, clusterVars
<1>3. /\ step \in Awaiting /\ Of(step, txHash) /\ n = Sender(step)
      /\ \A k \in Node \ {n} : ~Open(k)
  BY <1>1, <1>2 DEF Receiving
<1>4. PICK i \in 1..q[n] : A[i] = txHash /\ conn[n].arg.value = Settled1(A, G, i)
  BY <1>1, <1>2 DEF Receiving
<1>5. i \in 1..m /\ Of(step, A[i])
  <2>1. q[n] \in 0..m /\ m \in Nat
    BY DEF IsRun
  <2>2. QED
    BY <1>3, <1>4, <2>1
<1>6. \A k \in Node : conn'[k].state = "closed"
  BY <1>1, <1>2, <1>3, ClosedOne DEF Open
<1>7. CampaignTruthful'
  <2>1. ~After(8)' /\ ~After(12)' /\ (After(11)' => step = 11)
    BY <1>2, <1>3 DEF After, Awaiting
  <2>2. step = 11 => shown' = <<[event |-> "Settlement", args |-> TRUE]>>
    <3>1. SUFFICES ASSUME step = 11 PROVE shown' = <<[event |-> "Settlement", args |-> TRUE]>>
      OBVIOUS
    <3>2. Settled1(A, G, i).logs = <<[topic |-> "Settlement", value |-> TRUE]>>
      BY <1>1, <1>5, <3>1, AppliedOnce, SettlePays
    <3>3. conn[n].arg.value.logs = <<[topic |-> "Settlement", value |-> TRUE]>>
      BY <1>4, <3>2
    <3>4. QED
      BY <1>2, <3>3, SettlementParsed
  <2>3. QED
    BY <2>1, <2>2 DEF CampaignTruthful
<1>8. \E j \in 1..q[Sender(step)] : Of(step, A[j])
  BY <1>3, <1>4, <1>5
<1>9. QED
  BY <1>1, <1>2, <1>6, <1>7, <1>8, StepEnds

LEMMA CallScript ==
    ASSUME OnceInv, NEW A, NEW G, NEW m, NEW q, Script(A, G, m, q), NEW n \in Node, CallRead(n)
    PROVE  Script(A, G, m, q)'
<1>1. /\ Exchanges(A, G, m, q) /\ step \in Nat
      /\ DOMAIN listed = Node /\ Requested /\ phase = "call" /\ Calling
  BY DEF Script, Exchanges, OnceInv, CallRead, Received
<1>2. /\ Answered(n) /\ Open(n) /\ Close(n) /\ UNCHANGED <<pool, listed>>
      /\ step' = step + 1 /\ phase' = "prompt" /\ shown' = conn[n].arg.value.reached
  BY DEF CallRead, Received, Answered, Open, StepDone, ParseOutput, clusterVars
<1>3. /\ step \in {8, 10} /\ (step = 8 => conn[n].arg.value.reached = FALSE)
      /\ \A k \in Node \ {n} : ~Open(k)
  BY <1>1, <1>2 DEF Calling
<1>4. \A k \in Node : conn'[k].state = "closed"
  BY <1>1, <1>2, <1>3, ClosedOne DEF Open
<1>5. CampaignTruthful'
  <2>1. ~After(11)' /\ ~After(12)' /\ (After(8)' => step = 8)
    BY <1>2, <1>3 DEF After
  <2>2. QED
    BY <1>2, <1>3, <2>1 DEF CampaignTruthful
<1>6. step \notin Awaiting
  BY <1>3 DEF Awaiting
<1>7. QED
  BY <1>1, <1>2, <1>4, <1>5, <1>6, StepEnds

(* A request that is over, one way or the other, without an answer.        *)
LEMMA FailedScript ==
    ASSUME OnceInv, NEW A, NEW G, NEW m, NEW q, Script(A, G, m, q), NEW n \in Node,
           \A k \in Node \ {n} : conn'[k] = conn[k],
           \/ ~Open(n)' /\ rejected' = TRUE
           \/ Open(n) /\ Open(n)' /\ conn'[n].state # "sent" /\ conn'[n].path = conn[n].path /\ rejected' = rejected,
           ~Answered(n)',
           UNCHANGED <<pool, step, shown, phase, listed, txHash>>
    PROVE  Script(A, G, m, q)'
<1>1. /\ SubmittedOnce(A, m) /\ Exchanges(A, G, m, q)
      /\ DOMAIN listed = Node
  BY DEF Script, Exchanges
<1>2. \A k \in Node \ {n} : Open(k)' = Open(k) /\ Answered(k)' = Answered(k)
  BY DEF Open, Answered
<1>3. \A k \in Node : Open(k)' => Open(k) /\ conn'[k].path = conn[k].path
  BY <1>2
<1>4. conn'[n].state # "sent"
  BY DEF Open
<1>5. \A s : Sender(s)' = Sender(s) /\ Asked(s)' = Asked(s)
  BY DEF Sender, Asked, node1, node2, node3
<1>6. Listing(A, G, m)'
  <2>1. SUFFICES ASSUME phase = "list" PROVE Listing(A, G, m)'
    BY DEF Listing
  <2>2. Listing(A, G, m)
    BY <1>1 DEF Exchanges
  <2>3. step \in {1, 3, 5, 12} /\ \A k \in Node : Open(k)' => conn'[k].path = "/accounts"
    BY <1>3, <2>1, <2>2 DEF Listing
  <2>4. ASSUME ~rejected', step = 12, NEW k \in Node
        PROVE  /\ Answered(k)' => Final(A, G, m, k, conn'[k].arg.value)
               /\ ~Open(k)' => Final(A, G, m, k, listed[k])
    <3>1. ~rejected /\ Open(n)'
      BY <2>4
    <3>2. CASE k = n
      BY <3>1, <3>2
    <3>3. CASE k # n
      BY <1>2, <2>1, <2>2, <2>4, <3>1, <3>3 DEF Listing
    <3>4. QED
      BY <3>2, <3>3
  <2>5. QED
    BY <2>3, <2>4 DEF Listing
<1>7. Asking(G, m)'
  BY <1>1, <1>2, <1>3, <1>4 DEF Exchanges, Asking, node1, node3
<1>8. Submitting(G, m)'
  BY <1>1, <1>2, <1>3, <1>4, <1>5 DEF Exchanges, Submitting
<1>9. Calling'
  BY <1>1, <1>2, <1>3, <1>4 DEF Exchanges, Calling, node1
<1>10. Receiving(A, G, q)'
  BY <1>1, <1>2, <1>3, <1>4, <1>5 DEF Exchanges, Receiving
<1>11. Exchanges(A, G, m, q)'
  <2>1. phase \in {"prompt", "sleep"} => \A k \in Node : ~Open(k)'
    BY <1>1, <1>3 DEF Exchanges
  <2>2. QED
    BY <1>1, <1>6, <1>7, <1>8, <1>9, <1>10, <2>1 DEF Exchanges
<1>12. phase' = "submit" /\ conn'[Asked(step)].state = "sent" => \A t \in Known(A, m) : ~Of(step, t)
  <2>1. Asked(step) \in Node
    BY Parties
  <2>2. conn'[Asked(step)].state = "sent" => conn[Asked(step)].state = "sent"
    BY <1>4, <2>1
  <2>3. QED
    BY <1>1, <2>2 DEF SubmittedOnce
<1>13. QED
  BY <1>11, <1>12, StepGoesOn

LEMMA BrokenScript ==
    ASSUME OnceInv, NEW A, NEW G, NEW m, NEW q, Script(A, G, m, q), NEW n \in Node,
           Disconnect(n) \/ Reject(n)
    PROVE  Script(A, G, m, q)'
<1>1. DOMAIN conn = Node /\ Requested
  BY DEF OnceInv, Requested
<1>2. UNCHANGED <<pool, step, shown, phase, listed, txHash>>
  BY DEF Disconnect, Reject, clusterVars
<1>3. CASE Disconnect(n)
  <2>1. /\ \A k \in Node \ {n} : conn'[k] = conn[k]
        /\ conn'[n].state = "broken" /\ conn'[n].path = conn[n].path
        /\ conn[n].state \in {"sent", "answered"} /\ rejected' = rejected
    BY <1>1, <1>3 DEF Disconnect
  <2>2. Open(n) /\ Open(n)' /\ ~Answered(n)'
    BY <2>1 DEF Open, Answered
  <2>3. QED
    BY <1>2, <2>1, <2>2, FailedScript
<1>4. CASE Reject(n)
  <2>1. /\ \A k \in Node \ {n} : conn'[k] = conn[k]
        /\ conn'[n].state = "closed" /\ rejected' = TRUE
    BY <1>1, <1>4, ClosedOne DEF Reject
  <2>2. ~Open(n)' /\ ~Answered(n)'
    BY <2>1 DEF Open, Answered
  <2>3. QED
    BY <1>2, <2>1, <2>2, FailedScript
<1>5. QED
  BY <1>3, <1>4

----------------------------------------------------------------------------
(* The answers of the nodes.                                               *)

LEMMA Bodies ==
    ASSUME NEW n, NEW r
    PROVE  /\ r.path = "/account" =>
                 Body(n, r) = Json([balance |-> GetBalance(n, r.arg), nonce |-> GetNonce(n, r.arg)])
           /\ r.path = "/accounts" => Body(n, r) = Json(GetBalance(n, n))
           /\ r.path = "/call" => Body(n, r) = Json([reached |-> GoalReached(was[n].campaign)])
           /\ r.path = "/tx" => Body(n, r) = Json(Prepare(n, r.arg))
           /\ r.path = "/rawtx" => Body(n, r) = Json(r.arg)
           /\ r.path = ReceiptPath =>
                 Body(n, r) = IF HasReceipt(n, r.arg) THEN Json(GetReceipt(n, r.arg)) ELSE Text
           /\ ReceiptPath \notin {"/tx", "/rawtx"}
<1>1. r.path = "/account" =>
         Body(n, r) = Json([balance |-> GetBalance(n, r.arg), nonce |-> GetNonce(n, r.arg)])
  BY Zenon DEF Body
<1>2. r.path = "/accounts" => Body(n, r) = Json(GetBalance(n, n))
  BY Zenon DEF Body
<1>3. r.path = "/call" => Body(n, r) = Json([reached |-> GoalReached(was[n].campaign)])
  BY Zenon DEF Body
<1>4. r.path = "/tx" => Body(n, r) = Json(Prepare(n, r.arg))
  BY Zenon DEF Body
<1>5. r.path = "/rawtx" => Body(n, r) = Json(r.arg)
  BY Zenon DEF Body
<1>6. r.path = ReceiptPath =>
         Body(n, r) = IF HasReceipt(n, r.arg) THEN Json(GetReceipt(n, r.arg)) ELSE Text
  BY Zenon DEF Body, ReceiptPath
<1>7. ReceiptPath \notin {"/tx", "/rawtx"}
  BY Zenon DEF ReceiptPath
<1>8. QED
  BY <1>1, <1>2, <1>3, <1>4, <1>5, <1>6, <1>7

(* An answer that tells the truth keeps the exchanges as they should be.   *)
LEMMA AnswerExchanges ==
    ASSUME NEW A, NEW G, NEW m, NEW q, Exchanges(A, G, m, q), NEW n \in Node,
           \A k \in Node \ {n} : conn'[k] = conn[k],
           conn[n].state = "sent", conn'[n].state = "answered", conn'[n].path = conn[n].path,
           UNCHANGED <<step, phase, listed, txHash, rejected>>,
           phase = "list" /\ ~rejected /\ step = 12 => Final(A, G, m, n, conn'[n].arg.value),
           phase = "account" => Behind(G, m, conn'[n].arg.value.nonce),
           phase = "submit" => Of(step, conn'[n].arg.value),
           phase = "call" /\ step = 8 => conn'[n].arg.value.reached = FALSE,
           phase = "receipt" /\ Answered(n)' =>
              \E i \in 1..q[n] : A[i] = txHash /\ conn'[n].arg.value = Settled1(A, G, i)
    PROVE  Exchanges(A, G, m, q)'
<1>1. /\ Open(n) /\ Open(n)' /\ ~Answered(n)
      /\ \A k \in Node \ {n} : Open(k)' = Open(k) /\ Answered(k)' = Answered(k)
  BY DEF Open, Answered
<1>2. \A s : Sender(s)' = Sender(s) /\ Asked(s)' = Asked(s)
  BY DEF Sender, Asked, node1, node2, node3
<1>3. Listing(A, G, m)'
  <2>1. SUFFICES ASSUME phase = "list" PROVE Listing(A, G, m)'
    BY DEF Listing
  <2>2. Listing(A, G, m)
    BY DEF Exchanges
  <2>3. step \in {1, 3, 5, 12} /\ \A k \in Node : Open(k)' => conn'[k].path = "/accounts"
    BY <1>1, <2>1, <2>2 DEF Listing
  <2>4. ASSUME ~rejected, step = 12, NEW k \in Node
        PROVE  /\ Answered(k)' => Final(A, G, m, k, conn'[k].arg.value)
               /\ ~Open(k)' => Final(A, G, m, k, listed[k])
    <3>1. CASE k = n
      BY <1>1, <2>1, <2>4, <3>1
    <3>2. CASE k # n
      BY <1>1, <2>1, <2>2, <2>4, <3>2 DEF Listing
    <3>3. QED
      BY <3>1, <3>2
  <2>5. QED
    BY <2>3, <2>4 DEF Listing
<1>4. Asking(G, m)'
  <2>1. SUFFICES ASSUME phase = "account" PROVE Asking(G, m)'
    BY DEF Asking
  <2>2. Asking(G, m)
    BY DEF Exchanges
  <2>3. QED
    BY <1>1, <2>1, <2>2 DEF Asking, node1, node3
<1>5. Submitting(G, m)'
  <2>1. SUFFICES ASSUME phase = "submit" PROVE Submitting(G, m)'
    BY DEF Submitting
  <2>2. Submitting(G, m)
    BY DEF Exchanges
  <2>3. QED
    BY <1>1, <1>2, <2>1, <2>2 DEF Submitting
<1>6. Calling'
  <2>1. SUFFICES ASSUME phase = "call" PROVE Calling'
    BY DEF Calling
  <2>2. Calling
    BY DEF Exchanges
  <2>3. QED
    BY <1>1, <2>1, <2>2 DEF Calling, node1
<1>7. Receiving(A, G, q)'
  <2>1. Receiving(A, G, q)
    BY DEF Exchanges
  <2>2. QED
    BY <1>1, <1>2, <2>1 DEF Receiving
<1>8. QED
  <2>1. phase \notin {"prompt", "sleep"}
    BY <1>1 DEF Exchanges
  <2>2. QED
    BY <1>3, <1>4, <1>5, <1>6, <1>7, <2>1 DEF Exchanges

(* A nonce that a node hands out is behind the history.                    *)
LEMMA NonceBehind ==
    ASSUME NEW A, NEW G, NEW m, NEW M, NEW p, NEW q, History(A, G, m, M, p, q), NEW n \in Node
    PROVE  Behind(G, m, GetNonce(n, node1))
<1>1. IsRun(A, G, m) /\ m \in Nat /\ p[n] \in 0..m /\ was[n] = G[p[n]]
  BY DEF History, IsRun, Follows
<1>2. m \in p[n]..m
  BY <1>1
<1>3. G[p[n]].nonce[node1] \in Nat /\ G[p[n]].nonce[node1] <= G[m].nonce[node1]
  BY <1>1, <1>2, RunNonces, Parties
<1>4. QED
  BY <1>1, <1>3 DEF Behind, GetNonce

LEMMA PreparedKind ==
    ASSUME NEW s, NEW t, Of(s, t), NEW n \in Node
    PROVE  /\ Of(s, Prepare(n, t))
           /\ t.from = node1 => Prepare(n, t).nonce = GetNonce(n, node1)
<1> DEFINE u == Prepare(n, t)
<1>1. IsTx(t) /\ IsTx(u)
  BY PreparedTx DEF Of
<1>2. /\ u.from = t.from /\ u.to = t.to /\ u.value = t.value /\ u.gas = t.gas
      /\ u.method = t.method /\ u.args = t.args /\ u.nonce = GetNonce(n, t.from)
  BY <1>1 DEF IsTx, Prepare
<1> HIDE DEF u
<1>3. Of(s, u)
  BY <1>1, <1>2 DEF Of
<1>4. QED
  BY <1>2, <1>3 DEF u

LEMMA ServeSubmit ==
    ASSUME OnceInv, NEW A, NEW G, NEW m, NEW M, NEW p, NEW q, History(A, G, m, M, p, q),
           Script(A, G, m, q), NEW n \in Node, Serve(n), phase = "submit"
    PROVE  Script(A, G, m, q)'
<1>1. /\ SubmittedOnce(A, m) /\ Confirmed(A, q) /\ InOrder(A, m) /\ TransfersFirst(A, G, m)
      /\ Exchanges(A, G, m, q) /\ CampaignTruthful /\ step \in Nat
      /\ Submitting(G, m) /\ DOMAIN conn = Node
  BY DEF Script, Exchanges, OnceInv, Requested
<1>2. /\ conn[n].state = "sent" /\ Open(n)
      /\ conn' = [conn EXCEPT ![n] = [path |-> @.path, arg |-> Body(n, conn[n]), state |-> "answered"]]
      /\ pool' = IF conn[n].path \in {"/tx", "/rawtx"} THEN pool \cup {Body(n, conn[n]).value} ELSE pool
      /\ UNCHANGED <<step, phase, listed, txHash, rejected, shown>>
  BY DEF Serve, Open
<1>3. /\ step \in Sending /\ n = Asked(step) /\ Of(step, conn[n].arg)
      /\ conn[n].path = (IF step = 4 THEN "/rawtx" ELSE "/tx")
      /\ step = 4 => Behind(G, m, conn[n].arg.nonce)
  BY <1>1, <1>2 DEF Submitting
<1>4. PICK v : /\ Body(n, conn[n]) = Json(v) /\ Of(step, v)
               /\ IsTransfer(v) => step \in {2, 4} /\ Behind(G, m, v.nonce)
  <2>1. CASE step = 4
    <3>1. Body(n, conn[n]) = Json(conn[n].arg)
      BY <1>3, <2>1, Bodies
    <3>2. QED
      BY <1>3, <2>1, <3>1
  <2>2. CASE step # 4
    <3> DEFINE v == Prepare(n, conn[n].arg)
    <3>1. Body(n, conn[n]) = Json(v)
      BY <1>3, <2>2, Bodies
    <3>2. Of(step, v) /\ (conn[n].arg.from = node1 => v.nonce = GetNonce(n, node1))
      BY <1>3, PreparedKind
    <3>3. ASSUME IsTransfer(v) PROVE step = 2 /\ Behind(G, m, v.nonce)
      <4>1. step = 2
        BY <2>2, <3>2, <3>3, KindsDiffer DEF IsTransfer
      <4>2. conn[n].arg.from = node1
        BY <1>3, <4>1 DEF Of, Sender
      <4>3. QED
        BY <3>2, <4>1, <4>2, NonceBehind
    <3> HIDE DEF v
    <3>4. QED
      BY <3>1, <3>2, <3>3
  <2>3. QED
    BY <2>1, <2>2
<1>5. Json(v).value = v /\ Json(v).json = TRUE
  BY DEF Json
<1>6. /\ pool' = pool \cup {v}
      /\ conn'[n].state = "answered" /\ conn'[n].path = conn[n].path /\ conn'[n].arg.value = v
      /\ \A k \in Node \ {n} : conn'[k] = conn[k]
  <2>1. conn[n].path \in {"/tx", "/rawtx"}
    BY <1>3
  <2>2. QED
    BY <1>1, <1>2, <1>4, <1>5, <2>1
<1>7. Known(A, m)' = Known(A, m) \cup {v}
  BY <1>6 DEF Known
<1>8. \A t \in Known(A, m) : ~Of(step, t)
  BY <1>1, <1>2, <1>3 DEF SubmittedOnce
<1>9. \A s : Of(s, v) => s = step
  BY <1>4, KindsDiffer
<1>10. SubmittedOnce(A, m)'
  <2>1. \A t \in Known(A, m)' : \E s \in Sending :
           Of(s, t) /\ (s < step \/ (s = step /\ phase \in {"submit", "sleep", "receipt"}))
    BY <1>1, <1>3, <1>4, <1>7 DEF SubmittedOnce
  <2>2. \A t, u \in Known(A, m)' : \A s \in Sending : Of(s, t) /\ Of(s, u) => t = u
    <3>1. \A t, u \in Known(A, m) : \A s \in Sending : Of(s, t) /\ Of(s, u) => t = u
      BY <1>1 DEF SubmittedOnce
    <3>2. QED
      BY <1>7, <1>8, <1>9, <3>1
  <2>3. conn'[Asked(step)].state # "sent" /\ Asked(step)' = Asked(step)
    BY <1>2, <1>3, <1>6 DEF Asked, Sender, node1, node2, node3
  <2>4. QED
    BY <1>2, <2>1, <2>2, <2>3 DEF SubmittedOnce
<1>11. TransfersFirst(A, G, m)'
  <2>1. \A t \in Known(A, m)' : IsTransfer(t) => Behind(G, m, t.nonce)
    BY <1>1, <1>4, <1>7 DEF TransfersFirst
  <2>2. ASSUME NEW i \in 1..m, Of(6, A[i]), NEW t \in Known(A, m)', IsTransfer(t)
        PROVE  t.nonce <= A[i].nonce
    <3>1. A[i] \in Known(A, m)
      BY DEF Known
    <3>2. 6 <= step
      BY <1>1, <2>2, <3>1, KnownKind
    <3>3. t # v
      BY <1>4, <2>2, <3>2
    <3>4. QED
      BY <1>1, <1>7, <2>2, <3>3 DEF TransfersFirst
  <2>3. QED
    BY <2>1, <2>2 DEF TransfersFirst
<1>12. Exchanges(A, G, m, q)'
  BY <1>1, <1>2, <1>4, <1>6, AnswerExchanges
<1>13. Confirmed(A, q)' /\ CampaignTruthful'
  BY <1>1, <1>2 DEF Confirmed, CampaignTruthful, After
<1>14. QED
  BY <1>1, <1>10, <1>11, <1>12, <1>13 DEF Script

LEMMA ServeScript ==
    ASSUME ThreeNodes, OnceInv, NEW A, NEW G, NEW m, NEW M, NEW p, NEW q, History(A, G, m, M, p, q),
           Script(A, G, m, q), NEW n \in Node, Serve(n)
    PROVE  Script(A, G, m, q)'
<1>1. /\ SubmittedOnce(A, m) /\ Confirmed(A, q) /\ InOrder(A, m)
      /\ Exchanges(A, G, m, q) /\ step \in Nat /\ DOMAIN conn = Node
      /\ IsRun(A, G, m) /\ m \in Nat
  BY DEF Script, Exchanges, OnceInv, Requested, History, IsRun
<1>2. /\ p[n] \in 0..m /\ q[n] \in 0..m /\ q[n] <= p[n] /\ q[n] \in Nat /\ p[n] \in Nat
      /\ was[n] = G[p[n]] /\ statedb[n] = G[q[n]]
      /\ \A r \in receipts[n] : \E i \in 1..q[n] : r = Settled1(A, G, i)
  <2>1. Follows(A, G, m, p, q, n) /\ p[n] \in Nat /\ q[n] \in Nat
    BY DEF History
  <2>2. QED
    BY <1>1, <2>1 DEF Follows
<1>3. /\ conn[n].state = "sent" /\ Open(n)
      /\ conn' = [conn EXCEPT ![n] = [path |-> @.path, arg |-> Body(n, conn[n]), state |-> "answered"]]
      /\ pool' = IF conn[n].path \in {"/tx", "/rawtx"} THEN pool \cup {Body(n, conn[n]).value} ELSE pool
      /\ UNCHANGED <<step, phase, listed, txHash, rejected, shown>>
  BY DEF Serve, Open
<1>4. /\ conn'[n].state = "answered" /\ conn'[n].path = conn[n].path /\ conn'[n].arg = Body(n, conn[n])
      /\ \A k \in Node \ {n} : conn'[k] = conn[k]
  BY <1>1, <1>3
<1>5. \A v : Json(v).value = v
  BY DEF Json
<1>6. SUFFICES ASSUME phase # "submit" PROVE pool' = pool /\ Exchanges(A, G, m, q)'
  BY <1>3, ServeSubmit, StepGoesOn
<1>7. CASE phase = "list"
  <2>1. conn[n].path = "/accounts"
    BY <1>1, <1>3, <1>7 DEF Exchanges, Listing
  <2>2. conn'[n].arg.value = G[q[n]].balance[n]
    <3>1. conn'[n].arg = Json(GetBalance(n, n))
      BY <1>4, <2>1, Bodies
    <3>2. QED
      BY <1>2, <1>5, <3>1 DEF GetBalance
  <2>3. step = 12 => Final(A, G, m, n, conn'[n].arg.value)
    <3>1. SUFFICES ASSUME step = 12, n \in {node1, node2, node3} PROVE Took(A, LastOf(n), q[n])
      BY <1>2, <2>2 DEF Final
    <3>2. LastOf(n) \in Awaiting /\ LastOf(n) < step /\ Sender(LastOf(n)) = n
      BY <3>1 DEF LastOf, Awaiting, Sender, ThreeNodes
    <3>3. PICK i \in 1..q[n] : Of(LastOf(n), A[i])
      BY <1>1, <3>2 DEF Confirmed
    <3>4. QED
      BY <3>3 DEF Took
  <2>4. Exchanges(A, G, m, q)'
    BY <1>1, <1>3, <1>4, <1>7, <2>3, AnswerExchanges
  <2>5. QED
    BY <1>3, <2>1, <2>4
<1>8. CASE phase = "account"
  <2>1. conn[n].path = "/account" /\ conn[n].arg = node1
    BY <1>1, <1>3, <1>8 DEF Exchanges, Asking
  <2>2. conn'[n].arg.value.nonce = GetNonce(n, node1)
    <3> DEFINE body == Json([balance |-> GetBalance(n, conn[n].arg), nonce |-> GetNonce(n, conn[n].arg)])
    <3>1. body.value.nonce = GetNonce(n, node1)
      BY <1>5, <2>1
    <3>2. Body(n, conn[n]) = body
      BY <2>1, Bodies, Zenon
    <3> HIDE DEF body
    <3>3. QED
      BY <1>4, <3>1, <3>2
  <2>3. Behind(G, m, conn'[n].arg.value.nonce)
    BY <2>2, NonceBehind
  <2>4. Exchanges(A, G, m, q)'
    BY <1>1, <1>3, <1>4, <1>8, <2>3, AnswerExchanges
  <2>5. QED
    BY <1>3, <2>1, <2>4
<1>9. CASE phase = "call"
  <2>1. conn[n].path = "/call" /\ n = node1
    BY <1>1, <1>3, <1>9 DEF Exchanges, Calling
  <2>2. conn'[n].arg.value.reached = GoalReached(G[p[n]].campaign)
    <3>1. conn'[n].arg = Json([reached |-> GoalReached(was[n].campaign)])
      BY <1>4, <2>1, Bodies
    <3>2. QED
      BY <1>2, <1>5, <3>1
  <2>3. step = 8 => GoalReached(G[p[n]].campaign) = FALSE
    <3>1. SUFFICES ASSUME step = 8 PROVE Took(A, 6, p[n])
      BY <1>1, <1>2, AppliedOnce, GoalNotReached
    <3>2. 6 \in Awaiting /\ 6 < step /\ Sender(6) = n
      BY <2>1, <3>1 DEF Awaiting, Sender
    <3>3. Took(A, 6, q[n])
      BY <1>1, <3>2 DEF Confirmed, Took
    <3>4. QED
      BY <1>2, <3>3, TookMore
  <2>4. Exchanges(A, G, m, q)'
    BY <1>1, <1>3, <1>4, <1>9, <2>2, <2>3, AnswerExchanges
  <2>5. QED
    BY <1>3, <2>1, <2>4
<1>10. CASE phase = "receipt"
  <2>1. conn[n].path = ReceiptPath /\ conn[n].arg = txHash
    BY <1>1, <1>3, <1>10 DEF Exchanges, Receiving
  <2>2. conn'[n].arg = IF HasReceipt(n, txHash) THEN Json(GetReceipt(n, txHash)) ELSE Text
    BY <1>4, <2>1, Bodies
  <2>3. Answered(n)' => \E i \in 1..q[n] : A[i] = txHash /\ conn'[n].arg.value = Settled1(A, G, i)
    <3>1. SUFFICES ASSUME Answered(n)'
                   PROVE  \E i \in 1..q[n] : A[i] = txHash /\ conn'[n].arg.value = Settled1(A, G, i)
      OBVIOUS
    <3>2. HasReceipt(n, txHash)
      BY <2>2, <3>1 DEF Answered, Text
    <3>3. GetReceipt(n, txHash) \in receipts[n] /\ GetReceipt(n, txHash).tx = txHash
      BY <3>2 DEF HasReceipt, GetReceipt
    <3>4. PICK i \in 1..q[n] : GetReceipt(n, txHash) = Settled1(A, G, i)
      BY <1>2, <3>3
    <3>5. A[i] = txHash
      BY <3>3, <3>4 DEF Settled1, ReceiptOf
    <3>6. QED
      BY <1>5, <2>2, <3>2, <3>4, <3>5
  <2>4. Exchanges(A, G, m, q)'
    BY <1>1, <1>3, <1>4, <1>10, <2>3, AnswerExchanges
  <2>5. QED
    BY <1>3, <2>1, <2>4, Bodies
<1>11. phase \notin {"prompt", "sleep"}
  BY <1>1, <1>3 DEF Exchanges
<1>12. phase \in Phases
  BY <1>1 DEF Exchanges
<1>13. QED
  BY <1>6, <1>7, <1>8, <1>9, <1>10, <1>11, <1>12 DEF Phases

----------------------------------------------------------------------------
(* The script on its history.                                              *)

(* Everything the script relies on is so in one history of the cluster.    *)
HistoryKept ==
    \E A, G, m, M, p, q : History(A, G, m, M, p, q) /\ Script(A, G, m, q)

LEMMA KeptInit == Init => HistoryKept
<1> SUFFICES ASSUME Init PROVE HistoryKept
  OBVIOUS
<1>1. PICK A, G, m, M, p, q : History(A, G, m, M, p, q) /\ m = 0
  BY HistoryInit
<1>2. Known(A, m) = {}
  BY <1>1 DEF Known, Init, ClusterInit
<1>3. step = 1 /\ phase = "prompt" /\ DOMAIN listed = Node /\ \A n \in Node : ~Open(n)
  BY DEF Init, DemoInit, Open, Closed
<1>4. SubmittedOnce(A, m)
  BY <1>2, <1>3 DEF SubmittedOnce
<1>5. Confirmed(A, q) /\ InOrder(A, m) /\ TransfersFirst(A, G, m)
  BY <1>1, <1>2, <1>3 DEF Confirmed, InOrder, TransfersFirst, Awaiting
<1>6. Exchanges(A, G, m, q)
  BY <1>3 DEF Exchanges, Phases, Listing, Asking, Submitting, Calling, Receiving
<1>7. CampaignTruthful
  BY <1>3 DEF CampaignTruthful, After
<1>8. QED
  BY <1>1, <1>4, <1>5, <1>6, <1>7 DEF HistoryKept, Script

(* A history that no step of the cluster touches goes on as it is.         *)
LEMMA SameHistory ==
    ASSUME NEW A, NEW G, NEW m, NEW M, NEW p, NEW q, History(A, G, m, M, p, q),
           UNCHANGED <<log, height, busy, rest, was, unflushed, statedb, receipts>>
    PROVE  History(A, G, m, M, p, q)'
<1>1. \A n \in Node : Placed(M, p, n)' /\ Follows(A, G, m, p, q, n)'
  BY SameNode DEF History
<1>2. InBlocks(A, G, m, M)' /\ DOMAIN busy' = Node
  BY DEF History, InBlocks
<1>3. QED
  BY <1>1, <1>2 DEF History

LEMMA KeptNext == ThreeNodes /\ OnceInv /\ HistoryKept /\ [Next]_vars => HistoryKept'
<1> SUFFICES ASSUME ThreeNodes, OnceInv, HistoryKept, [Next]_vars PROVE HistoryKept'
  OBVIOUS
<1>1. PICK A, G, m, M, p, q : History(A, G, m, M, p, q) /\ Script(A, G, m, q)
  BY DEF HistoryKept
<1>2. IsRun(A, G, m) /\ \A k \in Node : q[k] \in 0..m
  BY <1>1 DEF History, Follows, IsRun
<1>3. CASE ClusterNext /\ UNCHANGED clientVars
  <2>1. PICK B, H, l, N, x, y :
           /\ History(B, H, l, N, x, y)' /\ Extends(A, G, m, B, H, l)
           /\ \A i \in (m + 1)..l : B[i] \in pool
           /\ \A k \in Node : q[k] <= y[k]
    BY <1>1, <1>3, ClusterHistory
  <2>2. IsRun(B, H, l) /\ \A k \in Node : y[k] \in Nat
    BY <2>1 DEF History
  <2>3. pool' \subseteq pool
    BY <1>3 DEF ClusterNext, Order, ProcessBlock, ApplyTransaction, AbandonBlock, Commit
  <2>4. Script(B, H, l, y)'
    BY <1>1, <1>2, <1>3, <2>1, <2>2, <2>3, ScriptKept
  <2>5. QED
    BY <2>1, <2>4 DEF HistoryKept
<1>4. CASE \E n \in Node : Serve(n) \/ Disconnect(n)
  <2>1. PICK n \in Node : Serve(n) \/ Disconnect(n)
    BY <1>4
  <2>2. UNCHANGED <<log, height, busy, rest, was, unflushed, statedb, receipts>>
    BY <2>1 DEF Serve, Disconnect, clusterVars
  <2>3. History(A, G, m, M, p, q)'
    BY <1>1, <2>2, SameHistory
  <2>4. Script(A, G, m, q)'
    BY <1>1, <2>1, ServeScript, BrokenScript
  <2>5. QED
    BY <2>3, <2>4 DEF HistoryKept
<1>5. CASE ClientNext
  <2>1. UNCHANGED <<log, height, busy, rest, was, unflushed, statedb, receipts>>
    BY <1>5 DEF ClientNext, StartStep, Wake, Callback, AccountsListed, AccountRead, Submitted,
                ReceiptRead, CallRead, Reject, clusterVars
  <2>2. History(A, G, m, M, p, q)'
    BY <1>1, <2>1, SameHistory
  <2>3. ASSUME NEW n \in Node, Callback(n) PROVE Script(A, G, m, q)'
    BY <1>1, <1>2, <2>3, ListScript, AccountScript, SubmittedScript, ReceiptScript, CallScript,
       BrokenScript DEF Callback
  <2>4. Script(A, G, m, q)'
    BY <1>1, <1>5, <2>3, StartScript, WakeScript DEF ClientNext
  <2>5. QED
    BY <2>2, <2>4 DEF HistoryKept
<1>6. CASE UNCHANGED vars
  <2>1. History(A, G, m, M, p, q)'
    BY <1>1, <1>6, SameHistory DEF vars, clusterVars
  <2>2. m \in Nat /\ Extends(A, G, m, A, G, m) /\ \A i \in (m + 1)..m : A[i] \in pool
    BY <1>2 DEF IsRun, Extends
  <2>3. \A k \in Node : q[k] \in Nat /\ q[k] <= q[k]
    BY <1>2, <2>2
  <2>4. Script(A, G, m, q)'
    BY <1>1, <1>2, <1>6, <2>2, <2>3, ScriptKept DEF vars, clusterVars
  <2>5. QED
    BY <2>1, <2>4 DEF HistoryKept
<1>7. QED
  BY <1>3, <1>4, <1>5, <1>6 DEF Next

(* What the script tells its user of the campaign is so: for any number of *)
(* nodes, the three of the demo being different, any size and lag of       *)
(* blocks and any connections that break.                                  *)
THEOREM CampaignTruthfulCorrect ==
    ASSUME ThreeNodes
    PROVE  Spec => []CampaignTruthful
<1>1. OnceInv /\ HistoryKept /\ [Next]_vars => HistoryKept'
  BY KeptNext
<1>2. HistoryKept => CampaignTruthful
  BY DEF HistoryKept, Script
<1>3. QED
  BY KeptInit, <1>1, <1>2, OnceCorrect, PTL DEF Spec
=============================================================================
