----------------------------- MODULE NodeProofs -----------------------------
(***************************************************************************)
(* Safety of the State below a node (EvmState), for every set of accounts, *)
(* transactions, blocks and calls, any genesis file and any number of      *)
(* restarts and failed writes; of the ledger as a whole, whose Ether is    *)
(* conserved and which implements AtomicLedger step by step; and of the    *)
(* node (Node), which is such a State with handlers and a loop around it,  *)
(* so that what is proved of EvmState holds of it too, and whose handlers  *)
(* read and sign consistently, for any clients, requests, blocks, crashes  *)
(* and restarts.                                                           *)
(***************************************************************************)
EXTENDS Node, SumTheorems

----------------------------------------------------------------------------
(* Ledgers.                                                                *)

(* The trie of the zero hash is a ledger.                                  *)
LEMMA EmptyLedgerType == EmptyLedger \in Ledger
BY EvmAssumption DEF EmptyLedger, Ledger

(* Moving a nonce leaves a ledger and loses no nonce.                      *)
LEMMA BumpNonceType ==
    ASSUME NEW L \in Ledger, NEW a \in Account
    PROVE  /\ BumpNonce(L, a) \in Ledger
           /\ BumpNonce(L, a).nonce = [L.nonce EXCEPT ![a] = @ + 1]
           /\ \A x \in Account : L.nonce[x] <= BumpNonce(L, a).nonce[x]
<1> DEFINE bumped == [L.nonce EXCEPT ![a] = @ + 1]
<1>1. bumped \in [Account -> Nat] /\ \A x \in Account : L.nonce[x] <= bumped[x]
  BY DEF Ledger
<1>2. BumpNonce(L, a) = [L EXCEPT !.nonce = bumped]
  BY DEF BumpNonce
<1> HIDE DEF bumped
<1>3. BumpNonce(L, a) \in Ledger /\ BumpNonce(L, a).nonce = bumped
  BY <1>1, <1>2 DEF Ledger
<1>4. QED
  BY <1>1, <1>3 DEF bumped

(* What gas costs, and what part of it an execution is charged.            *)
LEMMA GasCostType ==
    ASSUME NEW m \in Message
    PROVE  /\ GasCost(m) \in Nat
           /\ m.used * m.price \in Nat
           /\ m.used <= m.gas => m.used * m.price <= GasCost(m)
<1>1. m.gas \in Nat /\ m.used \in Nat /\ m.price \in Nat
  BY DEF Message
<1>2. \A i, j, k \in Nat : i * k \in Nat /\ (i <= j => i * k <= j * k)
  <2> SUFFICES ASSUME NEW i \in Nat, NEW j \in Nat, NEW k \in Nat
               PROVE  i * k \in Nat /\ (i <= j => i * k <= j * k)
    OBVIOUS
  <2>1. i * k \in Nat
    OBVIOUS
  <2>2. ASSUME i <= j PROVE i * k <= j * k
    <3>1. PICK d \in Nat : j = i + d
      BY <2>2
    <3>2. (i + d) * k = i * k + d * k
      OBVIOUS
    <3>3. d * k \in Nat
      OBVIOUS
    <3>4. QED
      BY <2>1, <3>1, <3>2, <3>3
  <2>3. QED
    BY <2>1, <2>2
<1>3. QED
  BY <1>1, <1>2 DEF GasCost

(* A purchase the sender can pay for leaves a ledger.                      *)
LEMMA BoughtType ==
    ASSUME NEW L \in Ledger, NEW pool, NEW m \in Message, BuysGas(L, pool, m)
    PROVE  Bought(L, m) \in Ledger /\ Bought(L, m).nonce = L.nonce
<1> DEFINE paid == [L.balance EXCEPT ![m.from] = @ - GasCost(m)]
<1>1. m.from \in Account /\ GasCost(m) \in Nat /\ L.balance \in [Account -> Nat]
  BY GasCostType DEF Message, Ledger
<1>2. paid \in [Account -> Nat]
  BY <1>1 DEF BuysGas
<1>3. Bought(L, m) = [L EXCEPT !.balance = paid]
  BY DEF Bought
<1> HIDE DEF paid
<1>4. QED
  BY <1>2, <1>3 DEF Ledger

(* So does a failed transfer.                                              *)
LEMMA OverdrawnType ==
    ASSUME NEW L \in Ledger, NEW pool, NEW m \in Message, BuysGas(L, pool, m)
    PROVE  /\ Overdrawn(L, m) \in Ledger
           /\ \A x \in Account : L.nonce[x] <= Overdrawn(L, m).nonce[x]
<1>1. m.from \in Account /\ \A x \in Account : L.nonce[x] \in Nat
  BY DEF Message, Ledger
<1>2. Bought(L, m) \in Ledger /\ Bought(L, m).nonce = L.nonce
  BY BoughtType
<1>3. CASE m.create
  BY <1>1, <1>2, <1>3 DEF Overdrawn
<1>4. CASE ~m.create
  BY <1>1, <1>2, <1>4, BumpNonceType DEF Overdrawn
<1>5. QED
  BY <1>3, <1>4

(* A transfer of what there is leaves balances.                            *)
LEMMA TransferType ==
    ASSUME NEW balance \in [Account -> Nat], NEW from \in Account, NEW to \in Account, NEW n \in Nat,
           n <= balance[from]
    PROVE  /\ Transfer(balance, from, to, n) \in [Account -> Nat]
           /\ balance[from] - n <= Transfer(balance, from, to, n)[from]
<1> DEFINE debited == [balance EXCEPT ![from] = @ - n]
<1>1. debited \in [Account -> Nat] /\ debited[from] = balance[from] - n
  OBVIOUS
<1>2. Transfer(balance, from, to, n) = [debited EXCEPT ![to] = @ + n]
  BY DEF Transfer
<1> HIDE DEF debited
<1>3. QED
  BY <1>1, <1>2

(* An execution leaves a ledger, loses no nonce and moves the sender's; it *)
(* can pay for its gas and then for the transfer.                          *)
LEMMA ExecuteType ==
    ASSUME NEW L \in Ledger, NEW pool, NEW m \in Message, WellFormed(m), Executes(L, pool, m)
    PROVE  /\ Execute(L, m) \in Ledger
           /\ \A x \in Account : L.nonce[x] <= Execute(L, m).nonce[x]
           /\ Execute(L, m).nonce[m.from] = L.nonce[m.from] + 1
           /\ m.used * m.price <= L.balance[m.from]
           /\ m.value <= Transfer(L.balance, m.from, Coinbase, m.used * m.price)[m.from]
<1> DEFINE fee  == m.used * m.price
           paid == Transfer(L.balance, m.from, Coinbase, fee)
<1>1. L.balance \in [Account -> Nat] /\ L.nonce \in [Account -> Nat] /\ L.storage \in [Account -> Word]
  BY DEF Ledger
<1>2. m.from \in Account /\ m.to \in Account /\ m.value \in Nat /\ m.data \in Word \cup {NoWord}
  BY DEF Message
<1>3. fee \in Nat /\ GasCost(m) \in Nat /\ fee <= GasCost(m)
  BY GasCostType DEF Executes, CoversIntrinsic, WellFormed
<1>4. GasCost(m) <= L.balance[m.from] /\ m.value <= L.balance[m.from] - GasCost(m)
  BY <1>1, <1>2 DEF Executes, BuysGas, CanTransfer, Bought, Ledger
<1> HIDE DEF fee
<1>5. fee <= L.balance[m.from] /\ m.value <= L.balance[m.from] - fee
  BY <1>1, <1>2, <1>3, <1>4
<1>6. paid \in [Account -> Nat] /\ L.balance[m.from] - fee <= paid[m.from]
  BY <1>1, <1>2, <1>3, <1>5, EvmAssumption, TransferType
<1> HIDE DEF paid
<1>7. m.value <= paid[m.from]
  BY <1>1, <1>2, <1>3, <1>5, <1>6
<1>8. Transfer(paid, m.from, m.to, m.value) \in [Account -> Nat]
  BY <1>2, <1>6, <1>7, TransferType
<1>9. StoreData(L.storage, m) \in [Account -> Word]
  BY <1>1, <1>2 DEF StoreData
<1>10. /\ BumpNonce(L, m.from).nonce \in [Account -> Nat]
       /\ BumpNonce(L, m.from).nonce = [L.nonce EXCEPT ![m.from] = @ + 1]
  BY <1>2, BumpNonceType DEF Ledger
<1>11. Execute(L, m) = [nonce   |-> BumpNonce(L, m.from).nonce,
                        balance |-> IF m.ok THEN Transfer(paid, m.from, m.to, m.value) ELSE paid,
                        storage |-> IF m.ok THEN StoreData(L.storage, m) ELSE L.storage]
  BY DEF Execute, paid, fee
<1>12. Execute(L, m) \in Ledger
  BY <1>1, <1>6, <1>8, <1>9, <1>10, <1>11 DEF Ledger
<1>13. QED
  BY <1>1, <1>2, <1>5, <1>7, <1>10, <1>11, <1>12 DEF paid, fee

(* The genesis accounts leave a ledger and all nonces alone.               *)
LEMMA WithGenesisType ==
    ASSUME NEW L \in Ledger
    PROVE  WithGenesis(L) \in Ledger /\ WithGenesis(L).nonce = L.nonce
<1>1. L.balance \in [Account -> Nat] /\ L.nonce \in [Account -> Nat] /\ L.storage \in [Account -> Word]
  BY DEF Ledger
<1>2. \A x \in DOMAIN Genesis : Genesis[x].balance \in Nat /\ Genesis[x].storage \in Word \cup {NoWord}
  BY StateAssumption
<1>3. WithGenesis(L).balance \in [Account -> Nat]
  BY <1>1, <1>2 DEF WithGenesis
<1>4. WithGenesis(L).storage \in [Account -> Word]
  BY <1>1, <1>2 DEF WithGenesis
<1>5. QED
  BY <1>1, <1>3, <1>4 DEF WithGenesis, Ledger

(* The gas pool only shrinks, and by what is charged for an execution.     *)
LEMMA PoolAfterType ==
    ASSUME NEW L \in Ledger, NEW m \in Message, WellFormed(m), NEW pool \in Nat
    PROVE  /\ PoolAfter(L, pool, m) \in Nat
           /\ PoolAfter(L, pool, m) <= pool
           /\ Executes(L, pool, m) => PoolAfter(L, pool, m) = pool - m.used
<1>1. m.gas \in Nat /\ m.used \in Nat /\ m.intrinsic \in Nat
  BY DEF Message
<1>2. CASE Executes(L, pool, m)
  <2>1. m.gas <= pool /\ m.used <= m.gas
    BY <1>2, <1>1 DEF Executes, BuysGas, CoversIntrinsic, WellFormed
  <2>2. PoolAfter(L, pool, m) = pool - m.used
    BY <1>2 DEF PoolAfter
  <2>3. QED
    BY <1>1, <2>1, <2>2
<1>3. CASE BuysGas(L, pool, m) /\ ~Executes(L, pool, m)
  <2>1. PoolAfter(L, pool, m) = pool - m.gas
    BY <1>3 DEF PoolAfter
  <2>2. QED
    BY <1>1, <1>3, <2>1 DEF BuysGas
<1>4. CASE ~BuysGas(L, pool, m)
  BY <1>4 DEF PoolAfter, Executes
<1>5. QED
  BY <1>2, <1>3, <1>4

(* So it does in a call, also in one that panics.                          *)
LEMMA PoolAfterCallType ==
    ASSUME NEW L \in Ledger, NEW m \in Message, WellFormed(m), NEW pool \in Nat
    PROVE  PoolAfterCall(L, pool, m) \in Nat /\ PoolAfterCall(L, pool, m) <= pool
<1>1. CASE CallPanics(L, pool, m)
  <2>1. m.gas \in Nat /\ m.gas <= pool
    BY <1>1 DEF CallPanics, Executes, BuysGas, Message
  <2>2. PoolAfterCall(L, pool, m) = pool - m.gas
    BY <1>1 DEF PoolAfterCall
  <2>3. QED
    BY <2>1, <2>2
<1>2. CASE ~CallPanics(L, pool, m)
  BY <1>2, PoolAfterType DEF PoolAfterCall
<1>3. QED
  BY <1>1, <1>2

----------------------------------------------------------------------------
(* The write-ahead state.  That its receipts answer its transactions one   *)
(* by one, and that no transaction is in it twice, also when it carries    *)
(* leftovers of failed blocks and commits, is part of what makes the       *)
(* variables keep their types: writeReceipts puts one value under each key.*)

Paired ==
    /\ Len(receipts) = Len(transactions)
    /\ \A i \in DOMAIN receipts : receipts[i].tx = transactions[i]

AppliedOnce ==
    \A i, j \in DOMAIN transactions : transactions[i] = transactions[j] => i = j

WASCovers == \A i \in DOMAIN transactions :
                transactions[i].nonce < ethState.nonce[transactions[i].from]

WASInv == TypeOK /\ Paired /\ AppliedOnce /\ WASCovers

(* Receipts of different transactions go under different keys: each one is *)
(* stored under its own, and the other entries of the table are kept.      *)
LEMMA PutReceiptsType ==
    ASSUME NEW table, table \in [DOMAIN table -> Receipt], DOMAIN table \subseteq Tx,
           NEW rs \in Seq(Receipt),
           \A i, j \in DOMAIN rs : rs[i].tx = rs[j].tx => i = j
    PROVE  /\ \A t : t \in DOMAIN PutReceipts(table, rs)
                   <=> t \in DOMAIN table \/ \E i \in DOMAIN rs : t = rs[i].tx
           /\ DOMAIN PutReceipts(table, rs) \subseteq Tx
           /\ PutReceipts(table, rs) \in [DOMAIN PutReceipts(table, rs) -> Receipt]
           /\ \A i \in DOMAIN rs : PutReceipts(table, rs)[rs[i].tx] = rs[i]
           /\ \A t \in DOMAIN table :
                 (\A i \in DOMAIN rs : t # rs[i].tx) => PutReceipts(table, rs)[t] = table[t]
<1> DEFINE keys == {rs[i].tx : i \in DOMAIN rs}
           last(t) == CHOOSE i \in DOMAIN rs :
                         rs[i].tx = t /\ \A j \in DOMAIN rs : rs[j].tx = t => j <= i
           new == [t \in DOMAIN table \cup keys |-> IF t \in keys THEN rs[last(t)] ELSE table[t]]
<1>1. PutReceipts(table, rs) = new
  BY DEF PutReceipts
<1>2. \A i \in DOMAIN rs : i \in Int /\ rs[i] \in Receipt /\ rs[i].tx \in Tx
  <2>1. DOMAIN rs = 1..Len(rs) /\ \A i \in 1..Len(rs) : rs[i] \in Receipt
    OBVIOUS
  <2>2. \A r \in Receipt : r.tx \in Tx
    BY DEF Receipt
  <2>3. QED
    BY <2>1, <2>2
<1>3. ASSUME NEW i \in DOMAIN rs
      PROVE  last(rs[i].tx) = i
  <2>1. \A j \in DOMAIN rs : rs[j].tx = rs[i].tx => j <= i
    BY <1>2
  <2>2. \A k \in DOMAIN rs : rs[k].tx = rs[i].tx => k = i
    OBVIOUS
  <2>3. QED
    BY <2>1, <2>2
<1>4. \A i \in DOMAIN rs : rs[i].tx \in keys
  OBVIOUS
<1>5. \A t \in keys : \E i \in DOMAIN rs : t = rs[i].tx
  OBVIOUS
<1> HIDE DEF last, keys
<1>6. \A i \in DOMAIN rs : new[rs[i].tx] = rs[i]
  BY <1>3, <1>4
<1>7. \A t \in DOMAIN table \ keys : new[t] = table[t]
  OBVIOUS
<1>8. \A t \in DOMAIN table \cup keys : new[t] \in Receipt /\ t \in Tx
  <2>1. ASSUME NEW t \in keys
        PROVE  new[t] \in Receipt /\ t \in Tx
    <3>1. PICK i \in DOMAIN rs : t = rs[i].tx
      BY <1>5
    <3>2. new[t] = rs[i]
      BY <1>6, <3>1
    <3>3. QED
      BY <1>2, <3>1, <3>2
  <2>2. \A t \in DOMAIN table \ keys : new[t] \in Receipt /\ t \in Tx
    BY <1>7
  <2>3. QED
    BY <2>1, <2>2
<1>9. QED
  <2>1. new \in [DOMAIN new -> Receipt] /\ DOMAIN new = DOMAIN table \cup keys
    BY <1>8
  <2>2. DOMAIN new \subseteq Tx
    BY <1>8, <2>1
  <2>3. \A t : t \in DOMAIN new <=> t \in DOMAIN table \/ \E i \in DOMAIN rs : t = rs[i].tx
    BY <1>4, <1>5
  <2>4. \A t \in DOMAIN table : (\A i \in DOMAIN rs : t # rs[i].tx) => new[t] = table[t]
    BY <1>5, <1>7
  <2> HIDE DEF new
  <2>5. QED
    BY <1>1, <1>6, <2>1, <2>2, <2>3, <2>4

(* The empty database and the empty WAS.                                   *)
LEMMA WASInit == Init => WASInv
<1> SUFFICES ASSUME Init PROVE WASInv
  OBVIOUS
<1>1. TypeOK
  <2>1. drifted \in BOOLEAN
    BY Zenon DEF Init
  <2>2. QED
    BY <2>1, EvmAssumption, EmptyLedgerType DEF Init, TypeOK, Steps
<1>2. QED
  BY <1>1 DEF Init, WASInv, Paired, AppliedOnce, WASCovers

(* Starting: the fresh WAS of NewState and of the swap.                    *)
LEMMA ResetWASInv ==
    ASSUME WASInv, NEW L \in Ledger, ResetWAS(L)
    PROVE  /\ ethState' \in Ledger /\ transactions' \in Seq(Tx) /\ receipts' \in Seq(Receipt)
           /\ totalUsedGas' \in Nat /\ gp' \in Nat
           /\ Paired' /\ AppliedOnce' /\ WASCovers'
BY EvmAssumption DEF ResetWAS, Paired, AppliedOnce, WASCovers

LEMMA LifeStep ==
    WASInv /\ (NewState \/ NewStateFails \/ Crash) => WASInv'
<1> SUFFICES ASSUME WASInv, NewState \/ NewStateFails \/ Crash PROVE WASInv'
  OBVIOUS
<1>1. CASE NewState
  <2>1. PICK L \in tries \cup {EmptyLedger} : statedb' = L /\ ResetWAS(L)
    BY <1>1 DEF NewState
  <2>2. L \in Ledger
    BY <2>1, EmptyLedgerType DEF WASInv, TypeOK
  <2>3. /\ ethState' \in Ledger /\ transactions' \in Seq(Tx) /\ receipts' \in Seq(Receipt)
        /\ totalUsedGas' \in Nat /\ gp' \in Nat
        /\ Paired' /\ AppliedOnce' /\ WASCovers'
    BY <2>1, <2>2, ResetWASInv
  <2>4. TypeOK'
    BY <1>1, <2>1, <2>2, <2>3 DEF NewState, dbVars, WASInv, TypeOK, Steps
  <2>5. QED
    BY <2>3, <2>4 DEF WASInv
<1>2. CASE NewStateFails
  BY <1>2 DEF NewStateFails, dbVars, wasVars, WASInv, TypeOK, Paired, AppliedOnce, WASCovers
<1>3. CASE Crash
  BY <1>3 DEF Crash, dbVars, wasVars, WASInv, TypeOK, Paired, AppliedOnce, WASCovers
<1>4. QED
  BY <1>1, <1>2, <1>3

LEMMA DriftsType == Drifts => drifted' \in BOOLEAN
BY Zenon DEF Drifts

(* The genesis accounts keep all nonces.                                   *)
LEMMA GenesisStep ==
    WASInv /\ (NoGenesisFile \/ CreateAccounts) => WASInv'
<1> SUFFICES ASSUME WASInv, NoGenesisFile \/ CreateAccounts PROVE WASInv'
  OBVIOUS
<1>1. CASE NoGenesisFile
  BY <1>1 DEF NoGenesisFile, dbVars, wasVars, WASInv, TypeOK, Paired, AppliedOnce, WASCovers
<1>2. CASE CreateAccounts
  <2>1. ethState' \in Ledger /\ ethState'.nonce = ethState.nonce
    BY <1>2, WithGenesisType DEF CreateAccounts, WASInv, TypeOK
  <2>2. TypeOK'
    <3>1. drifted' \in BOOLEAN
      BY <1>2, DriftsType DEF CreateAccounts
    <3>2. QED
      BY <1>2, <2>1, <3>1 DEF CreateAccounts, dbVars, WASInv, TypeOK, Steps
  <2>3. Paired' /\ AppliedOnce'
    BY <1>2 DEF CreateAccounts, WASInv, Paired, AppliedOnce
  <2>4. WASCovers'
    BY <1>2, <2>1 DEF CreateAccounts, WASInv, WASCovers
  <2>5. QED
    BY <2>2, <2>3, <2>4 DEF WASInv
<1>3. QED
  BY <1>1, <1>2

(* Calls draw on the pool; taking the mutex changes no data.               *)
LEMMA RequestStep ==
    WASInv /\ ((\E m \in Calls : Call(m)) \/ (\E b \in Blocks : ProcessBlock(b))) => WASInv'
<1> SUFFICES ASSUME WASInv,
                    (\E m \in Calls : Call(m)) \/ (\E b \in Blocks : ProcessBlock(b))
             PROVE  WASInv'
  OBVIOUS
<1>1. CASE \E m \in Calls : Call(m)
  <2>1. PICK m \in Calls : Call(m)
    BY <1>1
  <2>2. gp' \in Nat
    BY <2>1, PoolAfterCallType, StateAssumption DEF Call, WASInv, TypeOK
  <2>3. QED
    BY <2>1, <2>2 DEF Call, dbVars, runVars, WASInv, TypeOK, Paired, AppliedOnce, WASCovers
<1>2. CASE \E b \in Blocks : ProcessBlock(b)
  <2>1. PICK b \in Blocks : ProcessBlock(b)
    BY <1>2
  <2>2. block' \in Seq(Tx \cup Junk)
    BY <2>1, StateAssumption DEF ProcessBlock
  <2>3. QED
    BY <2>1, <2>2 DEF ProcessBlock, dbVars, wasVars, runVars, WASInv, TypeOK, Steps,
                      Paired, AppliedOnce, WASCovers
<1>3. QED
  BY <1>1, <1>2

LEMMA TransactionType ==
    ASSUME TypeOK, NEW i \in DOMAIN transactions
    PROVE  /\ transactions[i] \in Tx
           /\ transactions[i].from \in Account
           /\ transactions[i].nonce \in Nat
<1>1. transactions[i] \in Tx
  BY DEF TypeOK
<1>2. QED
  BY <1>1, StateAssumption DEF Message

LEMMA ReceiptType ==
    ASSUME TypeOK, NEW i \in DOMAIN receipts
    PROVE  receipts[i] \in Receipt /\ receipts[i].cumulativeGasUsed \in Nat
<1>1. receipts[i] \in Receipt
  BY DEF TypeOK
<1>2. QED
  BY <1>1 DEF Receipt

(* A transaction of a block has the type of a transaction once it decodes. *)
LEMMA ApplyingType ==
    ASSUME TypeOK, NEW p \in Tx \cup Junk, Applying(p)
    PROVE  Tail(block) \in Seq(Tx \cup Junk) /\ (Decodes(p) => p \in Message /\ WellFormed(p))
BY StateAssumption DEF Applying, Decodes, TypeOK

(* What the two failures after the purchase of the gas have in common.     *)
LEMMA FailedType ==
    ASSUME TypeOK, NEW p \in Tx \cup Junk, RunOutOfGas(p) \/ Overdraw(p)
    PROVE  /\ p \in Message /\ p \in Tx /\ WellFormed(p)
           /\ Applying(p) /\ NonceMatches(ethState, p) /\ BuysGas(ethState, gp, p)
           /\ \/ ethState' = Bought(ethState, p)
              \/ ethState' = Overdrawn(ethState, p)
           /\ ethState' \in Ledger
           /\ \A x \in Account : ethState.nonce[x] <= ethState'.nonce[x]
           /\ gp' \in Nat /\ gp' <= gp
           /\ Burns(p) /\ GasCost(p) \in Nat /\ burnt' \in Nat /\ burnt <= burnt'
           /\ Drifts /\ AbandonBlock
           /\ UNCHANGED <<dbVars, statedb, transactions, receipts, totalUsedGas,
                          status, genesis, starts, faults>>
<1>1. /\ p \in Tx /\ Applying(p) /\ NonceMatches(ethState, p) /\ BuysGas(ethState, gp, p)
      /\ Burns(p) /\ Drifts /\ AbandonBlock /\ gp' = PoolAfter(ethState, gp, p)
      /\ UNCHANGED <<dbVars, statedb, transactions, receipts, totalUsedGas,
                     status, genesis, starts, faults>>
  BY DEF RunOutOfGas, Overdraw, Decodes
<1>2. ethState' = Bought(ethState, p) \/ ethState' = Overdrawn(ethState, p)
  BY DEF RunOutOfGas, Overdraw
<1>3. p \in Message /\ WellFormed(p)
  BY <1>1, ApplyingType DEF Decodes
<1>4. ethState \in Ledger /\ gp \in Nat /\ burnt \in Nat
  BY DEF TypeOK
<1>5. GasCost(p) \in Nat
  BY <1>3, GasCostType
<1>6. burnt' \in Nat /\ burnt <= burnt'
  BY <1>1, <1>4, <1>5 DEF Burns
<1>7. gp' \in Nat /\ gp' <= gp
  BY <1>1, <1>3, <1>4, PoolAfterType
<1>8. ethState' \in Ledger /\ \A x \in Account : ethState.nonce[x] <= ethState'.nonce[x]
  <2>1. CASE ethState' = Bought(ethState, p)
    <3>1. ethState' \in Ledger /\ ethState'.nonce = ethState.nonce
      BY <1>1, <1>3, <1>4, <2>1, BoughtType
    <3>2. \A x \in Account : ethState.nonce[x] \in Nat
      BY <1>4 DEF Ledger
    <3>3. QED
      BY <3>1, <3>2
  <2>2. CASE ethState' = Overdrawn(ethState, p)
    BY <1>1, <1>3, <1>4, <2>2, OverdrawnType
  <2>3. QED
    BY <1>2, <2>1, <2>2
<1>9. QED
  BY <1>1, <1>2, <1>3, <1>5, <1>6, <1>7, <1>8

(* The transaction that is applied has the nonce its sender had in the WAS *)
(* ledger, so it is not one of those the WAS already holds.                *)
LEMMA ApplyStep == WASInv /\ Apply => WASInv'
<1> SUFFICES ASSUME WASInv, NEW p \in Tx \cup Junk,
                    \/ ApplyTransaction(p)
                    \/ RejectTransaction(p)
                    \/ RunOutOfGas(p)
                    \/ Overdraw(p)
             PROVE  WASInv'
  BY DEF Apply
<1>1. CASE ApplyTransaction(p)
  <2> DEFINE r == [tx |-> p, root |-> ethState', gasUsed |-> p.used,
                   cumulativeGasUsed |-> totalUsedGas', failed |-> ~p.ok]
  <2>1. /\ transactions' = Append(transactions, p)
        /\ receipts' = Append(receipts, r)
    BY <1>1 DEF ApplyTransaction
  <2>2. p \in Tx /\ p \in Message /\ WellFormed(p) /\ block' \in Seq(Tx \cup Junk)
    BY <1>1, ApplyingType DEF ApplyTransaction, Decodes, WASInv
  <2>3. p.from \in Account /\ p.nonce \in Nat /\ p.used \in Nat /\ p.ok \in BOOLEAN
    BY <2>2 DEF Message
  <2>4. ethState \in Ledger /\ gp \in Nat /\ totalUsedGas \in Nat
    BY DEF WASInv, TypeOK
  <2>5. /\ ethState' \in Ledger
        /\ \A x \in Account : ethState.nonce[x] <= ethState'.nonce[x]
        /\ ethState'.nonce[p.from] = ethState.nonce[p.from] + 1
        /\ p.nonce = ethState.nonce[p.from]
    BY <1>1, <2>2, <2>4, ExecuteType DEF ApplyTransaction, Accepts, NonceMatches
  <2>6. gp' \in Nat
    BY <1>1, <2>2, <2>4, PoolAfterType DEF ApplyTransaction
  <2>7. totalUsedGas' \in Nat
    BY <1>1, <2>3, <2>4 DEF ApplyTransaction
  <2>8. r \in Receipt
    BY <2>2, <2>3, <2>5, <2>7 DEF Receipt
  <2> HIDE DEF r
  <2>9. transactions \in Seq(Tx) /\ receipts \in Seq(Receipt)
    BY DEF WASInv, TypeOK
  <2>10. transactions' \in Seq(Tx) /\ receipts' \in Seq(Receipt)
    BY <2>1, <2>2, <2>8, <2>9
  <2>11. TypeOK'
    BY <1>1, <2>2, <2>5, <2>6, <2>7, <2>10
       DEF ApplyTransaction, dbVars, runVars, WASInv, TypeOK
  <2>12. /\ DOMAIN transactions' = DOMAIN transactions \cup {Len(transactions) + 1}
         /\ transactions'[Len(transactions) + 1] = p
         /\ \A i \in DOMAIN transactions : transactions'[i] = transactions[i]
    BY <2>1, <2>2, <2>9
  <2>13. Paired'
    <3>1. Len(receipts') = Len(transactions')
      BY <2>1, <2>9 DEF WASInv, Paired
    <3>2. /\ DOMAIN receipts' = DOMAIN receipts \cup {Len(transactions) + 1}
          /\ receipts'[Len(transactions) + 1] = r
          /\ \A i \in DOMAIN receipts : receipts'[i] = receipts[i]
      BY <2>1, <2>8, <2>9 DEF WASInv, Paired
    <3>3. DOMAIN receipts = DOMAIN transactions
      BY <2>9 DEF WASInv, Paired
    <3>4. r.tx = p
      BY DEF r
    <3>5. QED
      BY <2>12, <3>1, <3>2, <3>3, <3>4 DEF WASInv, Paired
  <2>14. \A i \in DOMAIN transactions : transactions[i] \in Tx /\ transactions[i] # p
    BY <2>3, <2>5, <2>9 DEF WASInv, WASCovers
  <2>15. AppliedOnce'
    BY <2>12, <2>14 DEF WASInv, AppliedOnce
  <2>16. \A i \in DOMAIN transactions :
            transactions[i].from \in Account /\ transactions[i].nonce \in Nat
    BY TransactionType DEF WASInv
  <2>17. \A x \in Account : ethState.nonce[x] \in Nat /\ ethState'.nonce[x] \in Nat
    BY <2>4, <2>5 DEF Ledger
  <2>18. WASCovers'
    <3>1. ASSUME NEW i \in DOMAIN transactions
          PROVE  transactions'[i].nonce < ethState'.nonce[transactions'[i].from]
      BY <2>5, <2>12, <2>16, <2>17 DEF WASInv, WASCovers
    <3>2. p.nonce < ethState'.nonce[p.from]
      BY <2>3, <2>5
    <3>3. QED
      BY <2>12, <3>1, <3>2 DEF WASCovers
  <2>19. QED
    BY <2>11, <2>13, <2>15, <2>18 DEF WASInv
<1>2. CASE RejectTransaction(p)
  BY <1>2 DEF RejectTransaction, AbandonBlock, dbVars, wasVars, runVars, WASInv, TypeOK, Steps,
              Paired, AppliedOnce, WASCovers
<1>3. CASE RunOutOfGas(p) \/ Overdraw(p)
  <2>1. /\ ethState' \in Ledger
        /\ \A x \in Account : ethState.nonce[x] <= ethState'.nonce[x]
        /\ gp' \in Nat /\ burnt' \in Nat /\ Drifts /\ AbandonBlock
        /\ UNCHANGED <<dbVars, statedb, transactions, receipts, totalUsedGas,
                       status, genesis, starts, faults>>
    BY <1>3, FailedType DEF WASInv
  <2>2. TypeOK'
    <3>1. drifted' \in BOOLEAN
      BY <2>1, DriftsType
    <3>2. QED
      BY <2>1, <3>1 DEF AbandonBlock, dbVars, WASInv, TypeOK, Steps
  <2>3. Paired' /\ AppliedOnce'
    BY <2>1 DEF WASInv, Paired, AppliedOnce
  <2>4. \A x \in Account : ethState.nonce[x] \in Nat /\ ethState'.nonce[x] \in Nat
    BY <2>1 DEF WASInv, TypeOK, Ledger
  <2>5. \A i \in DOMAIN transactions :
           transactions[i].from \in Account /\ transactions[i].nonce \in Nat
    BY TransactionType DEF WASInv
  <2>6. WASCovers'
    BY <2>1, <2>4, <2>5 DEF WASInv, WASCovers
  <2>7. QED
    BY <2>2, <2>3, <2>6 DEF WASInv
<1>4. QED
  BY <1>1, <1>2, <1>3

(* The keys writeReceipts puts are the transactions of the WAS.            *)
LEMMA WASReceipts ==
    ASSUME WASInv
    PROVE  /\ \A t : t \in Range(transactions) <=> \E i \in DOMAIN receipts : t = receipts[i].tx
           /\ \A i, j \in DOMAIN receipts : receipts[i].tx = receipts[j].tx => i = j
<1>1. DOMAIN receipts = DOMAIN transactions
  BY DEF WASInv, TypeOK, Paired
<1>2. QED
  BY <1>1 DEF WASInv, Paired, AppliedOnce, Range

(* What writeReceipts does to the table.                                   *)
LEMMA WriteReceiptsType ==
    ASSUME WASInv, WriteReceipts
    PROVE  /\ DOMAIN receiptTable' = DOMAIN receiptTable \cup Range(transactions)
           /\ DOMAIN receiptTable' \subseteq Tx
           /\ receiptTable' \in [DOMAIN receiptTable' -> Receipt]
           /\ \A i \in DOMAIN receipts : receiptTable'[receipts[i].tx] = receipts[i]
           /\ \A t \in Range(transactions) : \E i \in DOMAIN receipts : t = receipts[i].tx
           /\ \A t \in DOMAIN receiptTable \ Range(transactions) : receiptTable'[t] = receiptTable[t]
<1>1. /\ receiptTable \in [DOMAIN receiptTable -> Receipt] /\ DOMAIN receiptTable \subseteq Tx
      /\ receipts \in Seq(Receipt)
      /\ receiptTable' = PutReceipts(receiptTable, receipts)
  BY DEF WriteReceipts, WASInv, TypeOK
<1>2. \A i, j \in DOMAIN receipts : receipts[i].tx = receipts[j].tx => i = j
  BY WASReceipts
<1>3. /\ \A t : t \in DOMAIN receiptTable'
                <=> t \in DOMAIN receiptTable \/ \E i \in DOMAIN receipts : t = receipts[i].tx
      /\ DOMAIN receiptTable' \subseteq Tx
      /\ receiptTable' \in [DOMAIN receiptTable' -> Receipt]
      /\ \A i \in DOMAIN receipts : receiptTable'[receipts[i].tx] = receipts[i]
      /\ \A t \in DOMAIN receiptTable :
            (\A i \in DOMAIN receipts : t # receipts[i].tx) => receiptTable'[t] = receiptTable[t]
  BY <1>1, <1>2, PutReceiptsType
<1>4. QED
  BY <1>3, WASReceipts, ZenonT(60)

LEMMA HeadOfType ==
    ASSUME TypeOK
    PROVE  /\ HeadOf(transactions) \in Tx \cup {EmptyTx}
           /\ HeadOf(transactions) \in Tx => transactions # <<>>
<1>1. CASE transactions = <<>>
  BY <1>1, StateAssumption DEF HeadOf
<1>2. CASE transactions # <<>>
  <2>1. Len(transactions) \in DOMAIN transactions
    BY <1>2 DEF TypeOK
  <2>2. QED
    BY <1>2, <2>1, TransactionType DEF HeadOf
<1>3. QED
  BY <1>1, <1>2

(* The receipt of the last transaction of the WAS is the last one of the   *)
(* receipts that writeReceipts stores.                                     *)
LEMMA LastReceiptStored ==
    ASSUME WASInv, WriteReceipts, transactions # <<>>
    PROVE  /\ receipts # <<>>
           /\ HeadOf(transactions) \in DOMAIN receiptTable'
           /\ receiptTable'[HeadOf(transactions)] = receipts[Len(receipts)]
<1>1. /\ Len(receipts) \in DOMAIN receipts /\ receipts # <<>>
      /\ receipts[Len(receipts)].tx = HeadOf(transactions)
      /\ HeadOf(transactions) \in Range(transactions)
  BY DEF HeadOf, WASInv, TypeOK, Paired, Range
<1>2. QED
  BY <1>1, WriteReceiptsType

LEMMA CommitStep == WASInv /\ (Commit \/ WriteFails) => WASInv'
<1> SUFFICES ASSUME WASInv, Commit \/ WriteFails PROVE WASInv'
  OBVIOUS
<1>1. CASE CommitTo
  BY <1>1 DEF CommitTo, wasVars, runVars, WASInv, TypeOK, Steps, Paired, AppliedOnce, WASCovers
<1>2. CASE WriteHead
  BY <1>2, HeadOfType
     DEF WriteHead, wasVars, runVars, WASInv, TypeOK, Steps, Paired, AppliedOnce, WASCovers
<1>3. CASE WriteTransactions
  <2>1. txTable' \subseteq Tx
    BY <1>3, TransactionType DEF WriteTransactions, WASInv, TypeOK, Range
  <2>2. QED
    BY <1>3, <2>1 DEF WriteTransactions, wasVars, runVars, WASInv, TypeOK, Steps,
                      Paired, AppliedOnce, WASCovers
<1>4. CASE WriteReceipts
  <2>1. DOMAIN receiptTable' \subseteq Tx /\ receiptTable' \in [DOMAIN receiptTable' -> Receipt]
    BY <1>4, WriteReceiptsType
  <2>2. QED
    BY <1>4, <2>1 DEF WriteReceipts, wasVars, runVars, WASInv, TypeOK, Steps,
                      Paired, AppliedOnce, WASCovers
<1>5. CASE Swap
  <2>1. /\ ethState' \in Ledger /\ transactions' \in Seq(Tx) /\ receipts' \in Seq(Receipt)
        /\ totalUsedGas' \in Nat /\ gp' \in Nat
        /\ Paired' /\ AppliedOnce' /\ WASCovers'
    BY <1>5, ResetWASInv DEF Swap, WASInv, TypeOK
  <2>2. TypeOK'
    BY <1>5, <2>1 DEF Swap, dbVars, WASInv, TypeOK, Steps
  <2>3. QED
    BY <2>1, <2>2 DEF WASInv
<1>6. CASE WriteFails
  BY <1>6 DEF WriteFails, dbVars, wasVars, WASInv, TypeOK, Steps, Paired, AppliedOnce, WASCovers
<1>7. QED
  BY <1>1, <1>2, <1>3, <1>4, <1>5, <1>6 DEF Commit

LEMMA StutterStep == WASInv /\ UNCHANGED vars => WASInv'
BY DEF vars, dbVars, wasVars, runVars, WASInv, TypeOK, Paired, AppliedOnce, WASCovers

(* The write-ahead state is well formed: every receipt answers the         *)
(* transaction at its place, none is applied twice, and its ledger is past *)
(* all of them, whatever failed before.                                    *)
THEOREM WASCorrect == Spec => []WASInv
<1>1. WASInv /\ [Next]_vars => WASInv'
  BY LifeStep, GenesisStep, RequestStep, ApplyStep, CommitStep, StutterStep DEF Next
<1>2. QED
  BY <1>1, WASInit, PTL DEF Spec

(* Every variable keeps its type in every behaviour; in particular no      *)
(* balance and no gas pool goes below zero.                                *)
THEOREM TypeCorrect == Spec => []TypeOK
<1>1. WASInv => TypeOK
  BY DEF WASInv
<1>2. QED
  BY <1>1, WASCorrect, PTL

----------------------------------------------------------------------------
(* The database.  Receipts, head and tries are written one after another   *)
(* and any of the writes may be the last one of the process, so what is    *)
(* stored has to be related to the WAS it came from at every step.         *)

HeadWritten == headTx = NoHead => DOMAIN receiptTable = {}

LastRootCovers ==
    receipts # <<>> =>
        Covers(receipts[Len(receipts)].root, DOMAIN receiptTable \cup Range(transactions))

Unsettled == status = "up" /\ pc # "swap" => Range(transactions) \cap DOMAIN receiptTable = {}

HeadSet == status = "up" /\ pc \in {"writeTransactions", "writeReceipts", "swap"}
              => headTx = HeadOf(transactions)

TxsStored == status = "up" /\ pc \in {"writeReceipts", "swap"} => Range(transactions) \subseteq txTable

HistoryInv ==
    /\ NoReplay /\ HeadCoversReceipts /\ ReceiptsHaveTxs
    /\ HeadWritten /\ LastRootCovers /\ Unsettled /\ HeadSet /\ TxsStored

LEMMA CoversGrows ==
    ASSUME NEW L \in Ledger, NEW K \in Ledger, NEW T \in SUBSET Tx, Covers(L, T),
           \A x \in Account : L.nonce[x] <= K.nonce[x]
    PROVE  Covers(K, T)
<1>1. \A t \in T : t.from \in Account /\ t.nonce \in Nat
  BY StateAssumption DEF Message
<1>2. \A x \in Account : L.nonce[x] \in Nat /\ K.nonce[x] \in Nat
  BY DEF Ledger
<1>3. QED
  BY <1>1, <1>2 DEF Covers

LEMMA WASCoversRange == WASCovers => Covers(ethState, Range(transactions))
BY DEF WASCovers, Covers, Range

LEMMA RangeType == TypeOK => Range(transactions) \subseteq Tx
BY TransactionType DEF Range

LEMMA HistoryInit == Init => HistoryInv
BY DEF Init, HistoryInv, NoReplay, Covers, HeadCoversReceipts, ReceiptsHaveTxs, HeadWritten,
       LastRootCovers, Unsettled, HeadSet, TxsStored

(* What a starting node loads is past every stored receipt: with a head it *)
(* is the root of the head's receipt, without one there is no receipt.     *)
LEMMA HistoryLife ==
    WASInv /\ HistoryInv /\ (NewState \/ NewStateFails \/ Crash) => HistoryInv'
<1> SUFFICES ASSUME WASInv, HistoryInv, NewState \/ NewStateFails \/ Crash PROVE HistoryInv'
  OBVIOUS
<1>1. CASE NewState
  <2>1. PICK L \in tries \cup {EmptyLedger} : InitStateLoads(L) /\ ResetWAS(L)
    BY <1>1 DEF NewState
  <2>2. UNCHANGED dbVars /\ status' = "up" /\ pc' = "idle"
    BY <1>1 DEF NewState
  <2>3. ethState' = L /\ transactions' = <<>> /\ receipts' = <<>>
    BY <2>1 DEF ResetWAS
  <2>4. Covers(L, DOMAIN receiptTable)
    <3>1. CASE headTx = NoHead
      BY <3>1 DEF HistoryInv, HeadWritten, Covers
    <3>2. CASE headTx # NoHead
      BY <2>1, <3>2 DEF InitStateLoads, HistoryInv, HeadCoversReceipts
    <3>3. QED
      BY <3>1, <3>2
  <2>5. NoReplay'
    BY <2>2, <2>3, <2>4 DEF NoReplay, dbVars
  <2>6. HeadCoversReceipts' /\ ReceiptsHaveTxs' /\ HeadWritten'
    BY <2>2 DEF dbVars, HistoryInv, HeadCoversReceipts, ReceiptsHaveTxs, HeadWritten
  <2>7. LastRootCovers' /\ Unsettled' /\ HeadSet' /\ TxsStored'
    BY <2>2, <2>3 DEF LastRootCovers, Unsettled, HeadSet, TxsStored, Range
  <2>8. QED
    BY <2>5, <2>6, <2>7 DEF HistoryInv
<1>2. CASE NewStateFails \/ Crash
  BY <1>2 DEF NewStateFails, Crash, dbVars, wasVars, HistoryInv, NoReplay, HeadCoversReceipts,
              ReceiptsHaveTxs, HeadWritten, LastRootCovers, Unsettled, HeadSet, TxsStored
<1>3. QED
  BY <1>1, <1>2

(* Genesis accounts, calls and the mutex leave transactions and nonces.    *)
LEMMA HistoryRequest ==
    ASSUME WASInv, HistoryInv,
           \/ NoGenesisFile \/ CreateAccounts
           \/ (\E m \in Calls : Call(m)) \/ (\E b \in Blocks : ProcessBlock(b))
    PROVE  HistoryInv'
<1>1. UNCHANGED <<dbVars, transactions, receipts, status>>
  BY DEF NoGenesisFile, CreateAccounts, Call, ProcessBlock, wasVars, runVars
<1>2. ethState'.nonce = ethState.nonce
  BY WithGenesisType DEF NoGenesisFile, CreateAccounts, Call, ProcessBlock, wasVars, WASInv, TypeOK
<1>3. pc = pc' \/ (pc' = "apply" /\ pc = "idle")
  BY DEF NoGenesisFile, CreateAccounts, Call, ProcessBlock
<1>4. NoReplay'
  BY <1>1, <1>2 DEF dbVars, HistoryInv, NoReplay, Covers
<1>5. HeadCoversReceipts' /\ ReceiptsHaveTxs' /\ HeadWritten' /\ LastRootCovers'
  BY <1>1 DEF dbVars, HistoryInv, HeadCoversReceipts, ReceiptsHaveTxs, HeadWritten, LastRootCovers
<1>6. Unsettled' /\ HeadSet' /\ TxsStored'
  BY <1>1, <1>3 DEF dbVars, HistoryInv, Unsettled, HeadSet, TxsStored
<1>7. QED
  BY <1>4, <1>5, <1>6 DEF HistoryInv

(* A transaction that is applied has no stored receipt yet, and the root   *)
(* of its receipt is past everything settled and applied so far.           *)
LEMMA HistoryApply == WASInv /\ HistoryInv /\ Apply => HistoryInv'
<1> SUFFICES ASSUME WASInv, HistoryInv, WASInv', NEW p \in Tx \cup Junk,
                    \/ ApplyTransaction(p)
                    \/ RejectTransaction(p)
                    \/ RunOutOfGas(p)
                    \/ Overdraw(p)
             PROVE  HistoryInv'
  BY ApplyStep DEF Apply
<1>1. UNCHANGED dbVars /\ status = "up" /\ status' = "up" /\ pc = "apply" /\ pc' \in {"apply", "idle"}
  BY DEF ApplyTransaction, RejectTransaction, RunOutOfGas, Overdraw, Applying, AbandonBlock, runVars
<1>2. HeadCoversReceipts' /\ ReceiptsHaveTxs' /\ HeadWritten' /\ HeadSet' /\ TxsStored'
  BY <1>1 DEF dbVars, HistoryInv, HeadCoversReceipts, ReceiptsHaveTxs, HeadWritten, HeadSet, TxsStored
<1>3. ethState \in Ledger /\ ethState' \in Ledger /\ DOMAIN receiptTable \in SUBSET Tx
  BY DEF WASInv, TypeOK
<1>4. Covers(ethState, DOMAIN receiptTable)
  BY <1>1 DEF HistoryInv, NoReplay
<1>5. CASE ApplyTransaction(p)
  <2>1. p \in Tx /\ p \in Message /\ WellFormed(p)
    BY <1>5, ApplyingType DEF ApplyTransaction, Decodes, WASInv
  <2>2. /\ \A x \in Account : ethState.nonce[x] <= ethState'.nonce[x]
        /\ p.nonce = ethState.nonce[p.from]
    BY <1>3, <1>5, <2>1, ExecuteType DEF ApplyTransaction, Accepts, NonceMatches
  <2>3. Covers(ethState', DOMAIN receiptTable)
    BY <1>3, <1>4, <2>2, CoversGrows
  <2>4. NoReplay'
    BY <1>1, <2>3 DEF NoReplay, dbVars
  <2>5. p \notin DOMAIN receiptTable
    <3>1. p.nonce \in Nat
      BY <2>1 DEF Message
    <3>2. QED
      BY <1>4, <2>2, <3>1 DEF Covers
  <2>6. transactions \in Seq(Tx) /\ receipts \in Seq(Receipt) /\ transactions' = Append(transactions, p)
    BY <1>5 DEF ApplyTransaction, WASInv, TypeOK
  <2>7. Range(transactions') = Range(transactions) \cup {p}
    BY <2>1, <2>6 DEF Range
  <2>8. Unsettled'
    BY <1>1, <2>5, <2>7 DEF HistoryInv, Unsettled, dbVars
  <2>9. receipts'[Len(receipts')].root = ethState'
    <3> DEFINE r == [tx |-> p, root |-> ethState', gasUsed |-> p.used,
                     cumulativeGasUsed |-> totalUsedGas', failed |-> ~p.ok]
    <3>1. receipts' = Append(receipts, r) /\ r.root = ethState'
      BY <1>5 DEF ApplyTransaction
    <3> HIDE DEF r
    <3>2. QED
      BY <2>6, <3>1
  <2>10. Covers(ethState', Range(transactions'))
    BY DEF WASInv, WASCovers, Covers, Range
  <2>11. LastRootCovers'
    BY <1>1, <2>3, <2>9, <2>10 DEF LastRootCovers, Covers, dbVars
  <2>12. QED
    BY <1>2, <2>4, <2>8, <2>11 DEF HistoryInv
<1>6. CASE RejectTransaction(p) \/ RunOutOfGas(p) \/ Overdraw(p)
  <2>1. UNCHANGED <<transactions, receipts>>
    BY <1>6 DEF RejectTransaction, RunOutOfGas, Overdraw, wasVars
  <2>2. \A x \in Account : ethState.nonce[x] <= ethState'.nonce[x]
    <3>1. CASE RunOutOfGas(p) \/ Overdraw(p)
      BY <3>1, FailedType DEF WASInv
    <3>2. CASE RejectTransaction(p)
      BY <1>3, <3>2 DEF RejectTransaction, wasVars, Ledger
    <3>3. QED
      BY <1>6, <3>1, <3>2
  <2>3. NoReplay'
    BY <1>1, <1>3, <1>4, <2>2, CoversGrows DEF NoReplay, dbVars
  <2>4. LastRootCovers' /\ Unsettled'
    BY <1>1, <2>1 DEF HistoryInv, LastRootCovers, Unsettled, dbVars
  <2>5. QED
    BY <1>2, <2>3, <2>4 DEF HistoryInv
<1>7. QED
  BY <1>5, <1>6

(* The head that is written has no receipt yet.                            *)
LEMMA FreshHead ==
    ASSUME WASInv, HistoryInv, WriteHead
    PROVE  headTx' # NoHead /\ headTx' \notin DOMAIN receiptTable
<1>1. status = "up" /\ pc = "writeHead" /\ headTx' = HeadOf(transactions)
  BY DEF WriteHead, Committing
<1>2. CASE headTx' = EmptyTx
  BY <1>2, StateAssumption DEF WASInv, TypeOK
<1>3. CASE headTx' # EmptyTx
  <2>1. headTx' \in Tx /\ transactions # <<>>
    BY <1>1, <1>3, HeadOfType DEF WASInv
  <2>2. headTx' \in Range(transactions)
    BY <1>1, <2>1 DEF HeadOf, Range, WASInv, TypeOK
  <2>3. QED
    BY <1>1, <2>1, <2>2, StateAssumption DEF HistoryInv, Unsettled
<1>4. QED
  BY <1>2, <1>3

(* Before its last write the WAS is unsettled; that write settles all of   *)
(* it at once, under the head it has already set.                          *)
LEMMA HistoryCommit == WASInv /\ HistoryInv /\ (Commit \/ WriteFails) => HistoryInv'
<1> SUFFICES ASSUME WASInv, HistoryInv, Commit \/ WriteFails PROVE HistoryInv'
  OBVIOUS
<1>1. CASE CommitTo
  BY <1>1 DEF CommitTo, Committing, wasVars, runVars, HistoryInv, NoReplay, HeadCoversReceipts,
              ReceiptsHaveTxs, HeadWritten, LastRootCovers, Unsettled, HeadSet, TxsStored
<1>2. CASE WriteHead
  <2>1. /\ UNCHANGED <<txTable, receiptTable, wasVars, status>>
        /\ status = "up" /\ pc = "writeHead" /\ pc' = "writeTransactions"
        /\ headTx' = HeadOf(transactions)
    BY <1>2 DEF WriteHead, Committing, runVars
  <2>2. headTx' # NoHead /\ headTx' \notin DOMAIN receiptTable
    BY <1>2, FreshHead
  <2>3. NoReplay' /\ ReceiptsHaveTxs' /\ LastRootCovers'
    BY <2>1 DEF wasVars, HistoryInv, NoReplay, ReceiptsHaveTxs, LastRootCovers
  <2>4. HeadCoversReceipts' /\ HeadWritten' /\ Unsettled' /\ HeadSet' /\ TxsStored'
    BY <2>1, <2>2 DEF wasVars, HistoryInv, HeadCoversReceipts, HeadWritten, Unsettled, HeadSet,
                      TxsStored
  <2>5. QED
    BY <2>3, <2>4 DEF HistoryInv
<1>3. CASE WriteTransactions
  BY <1>3 DEF WriteTransactions, Committing, wasVars, runVars, HistoryInv, NoReplay,
              HeadCoversReceipts, ReceiptsHaveTxs, HeadWritten, LastRootCovers, Unsettled,
              HeadSet, TxsStored
<1>4. CASE WriteReceipts
  <2>1. /\ UNCHANGED <<headTx, txTable, wasVars, status>>
        /\ status = "up" /\ pc = "writeReceipts" /\ pc' = "swap"
        /\ receiptTable' = PutReceipts(receiptTable, receipts)
    BY <1>4 DEF WriteReceipts, Committing, runVars
  <2>2. /\ DOMAIN receiptTable' = DOMAIN receiptTable \cup Range(transactions)
        /\ \A i \in DOMAIN receipts : receiptTable'[receipts[i].tx] = receipts[i]
    BY <1>4, WriteReceiptsType
  <2>3. Covers(ethState, DOMAIN receiptTable')
    BY <2>1, <2>2, WASCoversRange DEF WASInv, HistoryInv, NoReplay, Covers
  <2>4. NoReplay'
    BY <2>1, <2>3 DEF NoReplay, wasVars
  <2>5. Range(transactions) \subseteq txTable
    BY <2>1 DEF HistoryInv, TxsStored
  <2>6. ReceiptsHaveTxs'
    BY <2>1, <2>2, <2>5 DEF HistoryInv, ReceiptsHaveTxs
  <2>7. headTx = HeadOf(transactions)
    BY <2>1 DEF HistoryInv, HeadSet
  <2>8. HeadWritten'
    BY <2>1, <2>7, HeadOfType, StateAssumption DEF HeadWritten, WASInv
  <2>9. LastRootCovers'
    BY <2>1, <2>2 DEF wasVars, HistoryInv, LastRootCovers, Covers
  <2>10. HeadCoversReceipts'
    <3>1. CASE transactions = <<>>
      <4>1. headTx' = EmptyTx
        BY <2>1, <2>7, <3>1 DEF HeadOf
      <4>2. DOMAIN receiptTable' \subseteq Tx
        BY <2>2, RangeType DEF WASInv, TypeOK
      <4>3. QED
        BY <4>1, <4>2, StateAssumption DEF HeadCoversReceipts
    <3>2. CASE transactions # <<>>
      <4>1. receipts # <<>> /\ receiptTable'[headTx] = receipts[Len(receipts)]
        BY <1>4, <2>7, <3>2, LastReceiptStored
      <4>2. Covers(receipts[Len(receipts)].root, DOMAIN receiptTable')
        BY <2>2, <4>1 DEF HistoryInv, LastRootCovers
      <4>3. QED
        BY <2>1, <4>1, <4>2 DEF HeadCoversReceipts
    <3>3. QED
      BY <3>1, <3>2
  <2>11. Unsettled' /\ HeadSet' /\ TxsStored'
    BY <2>1, <2>5, <2>7 DEF wasVars, Unsettled, HeadSet, TxsStored
  <2>12. QED
    BY <2>4, <2>6, <2>8, <2>9, <2>10, <2>11 DEF HistoryInv
<1>5. CASE Swap
  <2>1. UNCHANGED <<dbVars, status>> /\ pc' = "idle" /\ status = "up"
    BY <1>5 DEF Swap, Committing
  <2>2. ethState' = ethState /\ transactions' = <<>> /\ receipts' = <<>>
    BY <1>5 DEF Swap, ResetWAS
  <2>3. NoReplay' /\ HeadCoversReceipts' /\ ReceiptsHaveTxs' /\ HeadWritten'
    BY <2>1, <2>2 DEF dbVars, HistoryInv, NoReplay, HeadCoversReceipts, ReceiptsHaveTxs, HeadWritten
  <2>4. LastRootCovers' /\ Unsettled' /\ HeadSet' /\ TxsStored'
    BY <2>1, <2>2 DEF LastRootCovers, Unsettled, HeadSet, TxsStored, Range
  <2>5. QED
    BY <2>3, <2>4 DEF HistoryInv
<1>6. CASE WriteFails
  <2>1. UNCHANGED <<dbVars, wasVars>> /\ status = "up" /\ pc # "swap" /\ pc' = "idle"
    BY <1>6 DEF WriteFails
  <2>2. QED
    BY <2>1 DEF dbVars, wasVars, HistoryInv, NoReplay, HeadCoversReceipts, ReceiptsHaveTxs,
                HeadWritten, LastRootCovers, Unsettled, HeadSet, TxsStored
<1>7. QED
  BY <1>1, <1>2, <1>3, <1>4, <1>5, <1>6 DEF Commit

LEMMA HistoryStutter == HistoryInv /\ UNCHANGED vars => HistoryInv'
BY DEF vars, dbVars, wasVars, runVars, HistoryInv, NoReplay, HeadCoversReceipts, ReceiptsHaveTxs,
       HeadWritten, LastRootCovers, Unsettled, HeadSet, TxsStored

(* Database and WAS agree at every step of every life of the process.      *)
THEOREM HistoryCorrect == Spec => []HistoryInv
<1>1. WASInv /\ HistoryInv /\ [Next]_vars => HistoryInv'
  BY HistoryLife, HistoryRequest, HistoryApply, HistoryCommit, HistoryStutter DEF Next
<1>2. QED
  BY <1>1, HistoryInit, WASCorrect, PTL DEF Spec

(* A transaction with a stored receipt is never executed a second time,    *)
(* through any sequence of crashes, failed writes and restarts.            *)
THEOREM NoReplayCorrect == Spec => []NoReplay
<1>1. HistoryInv => NoReplay
  BY DEF HistoryInv
<1>2. QED
  BY <1>1, HistoryCorrect, PTL

(* The ledger a node would start from contains every transaction that has  *)
(* a stored receipt.                                                       *)
THEOREM HeadCoversReceiptsCorrect == Spec => []HeadCoversReceipts
<1>1. HistoryInv => HeadCoversReceipts
  BY DEF HistoryInv
<1>2. QED
  BY <1>1, HistoryCorrect, PTL

(* GetTransaction finds every transaction that GetReceipt finds.           *)
THEOREM ReceiptsHaveTxsCorrect == Spec => []ReceiptsHaveTxs
<1>1. HistoryInv => ReceiptsHaveTxs
  BY DEF HistoryInv
<1>2. QED
  BY <1>1, HistoryCorrect, PTL

(* A stored receipt is final: writeReceipts never puts to a key that has   *)
(* one, because the WAS it writes from is still unsettled.                 *)
THEOREM ReceiptFinalCorrect == Spec => ReceiptFinal
<1> DEFINE Final == \A t \in DOMAIN receiptTable :
                       t \in DOMAIN receiptTable' /\ receiptTable'[t] = receiptTable[t]
<1>1. WASInv /\ HistoryInv /\ [Next]_vars => [Final]_vars
  <2> SUFFICES ASSUME WASInv, HistoryInv, Next PROVE Final
    OBVIOUS
  <2>1. CASE WriteReceipts
    <3>1. /\ DOMAIN receiptTable' = DOMAIN receiptTable \cup Range(transactions)
          /\ \A t \in DOMAIN receiptTable \ Range(transactions) : receiptTable'[t] = receiptTable[t]
      BY <2>1, WriteReceiptsType
    <3>2. Range(transactions) \cap DOMAIN receiptTable = {}
      BY <2>1 DEF WriteReceipts, Committing, HistoryInv, Unsettled
    <3>3. QED
      BY <3>1, <3>2
  <2>2. CASE ~WriteReceipts
    <3>1. receiptTable' = receiptTable
      BY <2>2 DEF Next, NewState, NewStateFails, Crash, NoGenesisFile, CreateAccounts, Call,
                  ProcessBlock, Apply, ApplyTransaction, RejectTransaction, RunOutOfGas, Overdraw,
                  Commit, CommitTo, WriteHead, WriteTransactions, Swap, WriteFails, dbVars
    <3>2. QED
      BY <3>1
  <2>3. QED
    BY <2>1, <2>2
<1>2. QED
  BY <1>1, WASCorrect, HistoryCorrect, PTL DEF Spec, ReceiptFinal

----------------------------------------------------------------------------
(* Gas and tries.                                                          *)

LEMMA SumShrinks ==
    ASSUME NEW x \in Int, NEW y \in Int, NEW z \in Int, NEW limit \in Int,
           x <= y, y + z <= limit
    PROVE  x + z <= limit
OBVIOUS

(* No write-ahead state applies transactions worth more gas than a fresh   *)
(* pool holds, although errors and calls take gas from it and never give   *)
(* any back.                                                               *)
THEOREM GasBoundCorrect == Spec => []GasBound
<1>1. Init => GasBound
  BY EvmAssumption DEF Init, GasBound
<1>2. WASInv /\ WASInv' /\ GasBound /\ [Next]_vars => GasBound'
  <2> SUFFICES ASSUME WASInv, WASInv', GasBound, [Next]_vars PROVE GasBound'
    OBVIOUS
  <2>1. /\ gp \in Nat /\ totalUsedGas \in Nat /\ GasLimit \in Nat /\ totalUsedGas <= GasLimit
        /\ ethState \in Ledger /\ receipts \in Seq(Receipt)
        /\ gp + totalUsedGas <= GasLimit
    BY EvmAssumption, SMTT(30) DEF WASInv, TypeOK, GasBound
  <2>2. CASE UNCHANGED <<gp, totalUsedGas, receipts, receiptTable>>
    BY <2>2 DEF GasBound
  <2>3. CASE gp' <= gp /\ UNCHANGED <<totalUsedGas, receipts, receiptTable>>
    <3>1. gp' \in Nat
      BY DEF WASInv, TypeOK
    <3>2. receipts' = receipts /\ totalUsedGas' = totalUsedGas /\ receiptTable' = receiptTable
      BY <2>3
    <3>3. gp' + totalUsedGas <= GasLimit
      <4>1. gp' <= gp
        BY <2>3
      <4>2. gp \in Int /\ totalUsedGas \in Int /\ GasLimit \in Int /\ gp' \in Int
        BY <2>1, <3>1
      <4>3. gp + totalUsedGas <= GasLimit
        BY <2>1
      <4>4. QED
        BY <4>1, <4>2, <4>3, SumShrinks
    <3>4. QED
      BY <3>2, <3>3 DEF GasBound
  <2>4. CASE NewState \/ Swap
    <3>1. gp' = GasLimit /\ totalUsedGas' = 0 /\ receipts' = <<>> /\ receiptTable' = receiptTable
      BY <2>4 DEF NewState, Swap, ResetWAS, dbVars
    <3>2. gp' + totalUsedGas' <= GasLimit
      BY <2>1, <3>1
    <3>3. \A i \in DOMAIN receipts' : receipts'[i].cumulativeGasUsed <= totalUsedGas'
      BY <3>1
    <3>4. QED
      BY <3>1, <3>2, <3>3 DEF GasBound
  <2>5. CASE \E p \in Tx \cup Junk : ApplyTransaction(p)
    <3>1. PICK p \in Tx \cup Junk : ApplyTransaction(p)
      BY <2>5
    <3>2. p \in Message /\ WellFormed(p) /\ p.used \in Nat
      BY <3>1, ApplyingType DEF ApplyTransaction, Decodes, WASInv, Message
    <3>3. gp' = gp - p.used /\ totalUsedGas' = totalUsedGas + p.used
      BY <2>1, <3>1, <3>2, PoolAfterType DEF ApplyTransaction, Accepts
    <3> DEFINE r == [tx |-> p, root |-> ethState', gasUsed |-> p.used,
                     cumulativeGasUsed |-> totalUsedGas', failed |-> ~p.ok]
    <3>4. /\ receipts' = Append(receipts, r) /\ r.cumulativeGasUsed = totalUsedGas'
          /\ receiptTable' = receiptTable
      BY <3>1 DEF ApplyTransaction, dbVars
    <3> HIDE DEF r
    <3>5. \A i \in DOMAIN receipts : receipts[i].cumulativeGasUsed \in Nat
      BY ReceiptType DEF WASInv
    <3>6. \A i \in DOMAIN receipts' : receipts'[i].cumulativeGasUsed <= totalUsedGas'
      <4>1. /\ DOMAIN receipts' = DOMAIN receipts \cup {Len(receipts) + 1}
            /\ receipts'[Len(receipts) + 1] = r
            /\ \A i \in DOMAIN receipts : receipts'[i] = receipts[i]
        BY <2>1, <3>4
      <4>2. QED
        BY <2>1, <3>2, <3>3, <3>4, <3>5, <4>1 DEF GasBound
    <3>7. QED
      BY <2>1, <3>2, <3>3, <3>4, <3>6 DEF GasBound
  <2>6. CASE WriteReceipts
    <3>1. UNCHANGED <<gp, totalUsedGas, receipts>>
      BY <2>6 DEF WriteReceipts, wasVars
    <3>2. /\ \A i \in DOMAIN receipts : receiptTable'[receipts[i].tx] = receipts[i]
          /\ \A t \in DOMAIN receiptTable' :
                \/ \E i \in DOMAIN receipts : t = receipts[i].tx
                \/ t \in DOMAIN receiptTable /\ receiptTable'[t] = receiptTable[t]
      BY <2>6, WriteReceiptsType
    <3>3. \A i \in DOMAIN receipts : receipts[i].cumulativeGasUsed \in Nat
      BY ReceiptType DEF WASInv
    <3>4. \A i \in DOMAIN receipts : receipts[i].cumulativeGasUsed <= GasLimit
      BY <2>1, <3>3 DEF GasBound
    <3>5. QED
      BY <3>1, <3>2, <3>4 DEF GasBound
  <2>7. UNCHANGED gp \/ gp' <= gp \/ NewState \/ Swap
    <3>1. CASE \E m \in Calls : Call(m)
      <4>1. PICK m \in Calls : Call(m)
        BY <3>1
      <4>2. gp' <= gp
        BY <2>1, <4>1, PoolAfterCallType, StateAssumption DEF Call
      <4>3. QED
        BY <4>2
    <3>2. CASE Apply
      <4>1. PICK p \in Tx \cup Junk : \/ ApplyTransaction(p)
                                     \/ RejectTransaction(p)
                                     \/ RunOutOfGas(p) \/ Overdraw(p)
        BY <3>2 DEF Apply
      <4>2. CASE ApplyTransaction(p)
        <5>1. p \in Message /\ WellFormed(p) /\ gp' = PoolAfter(ethState, gp, p)
          BY <4>2, ApplyingType DEF ApplyTransaction, WASInv
        <5>2. QED
          BY <2>1, <5>1, PoolAfterType
      <4>3. CASE RejectTransaction(p)
        BY <4>3 DEF RejectTransaction, wasVars
      <4>4. CASE RunOutOfGas(p) \/ Overdraw(p)
        BY <4>4, FailedType DEF WASInv
      <4>5. QED
        BY <4>1, <4>2, <4>3, <4>4
    <3>3. QED
      BY <3>1, <3>2
         DEF Next, vars, Commit, NewStateFails, Crash, NoGenesisFile, CreateAccounts, ProcessBlock,
             CommitTo, WriteHead, WriteTransactions, WriteReceipts, WriteFails, wasVars
  <2>8. QED
    BY <2>2, <2>3, <2>4, <2>5, <2>6, <2>7
       DEF Next, vars, Apply, Commit, NewState, NewStateFails, Crash, NoGenesisFile, CreateAccounts,
           Call, ProcessBlock, RejectTransaction, RunOutOfGas, Overdraw, CommitTo, WriteHead,
           WriteTransactions, Swap, WriteFails, dbVars, wasVars
<1>3. QED
  BY <1>1, <1>2, WASCorrect, PTL DEF Spec

(* From CommitTo to the swap the trie of the WAS ledger is stored.         *)
Flushed == status = "up" /\ pc \in {"writeHead", "writeTransactions", "writeReceipts", "swap"}
              => ethState \in tries

DurableInv == ServedStateIsDurable /\ Flushed

THEOREM DurableCorrect == Spec => []DurableInv
<1> USE DEF DurableInv
<1>1. Init => DurableInv
  BY DEF Init, ServedStateIsDurable, Flushed
<1>2. DurableInv /\ [Next]_vars => DurableInv'
  <2> SUFFICES ASSUME DurableInv, [Next]_vars PROVE DurableInv'
    OBVIOUS
  <2>1. CASE NewState
    <3>1. statedb' \in tries \cup {EmptyLedger} /\ tries' = tries /\ pc' = "idle"
      BY <2>1 DEF NewState, dbVars
    <3>2. QED
      BY <3>1 DEF ServedStateIsDurable, Flushed
  <2>2. CASE NewStateFails \/ Crash \/ NoGenesisFile \/ WriteFails
    BY <2>2 DEF NewStateFails, Crash, NoGenesisFile, WriteFails, dbVars, wasVars,
                ServedStateIsDurable, Flushed
  <2>3. CASE CreateAccounts
    BY <2>3 DEF CreateAccounts, dbVars, ServedStateIsDurable, Flushed
  <2>4. CASE \E m \in Calls : Call(m)
    BY <2>4 DEF Call, dbVars, ServedStateIsDurable, Flushed
  <2>5. CASE \E b \in Blocks : ProcessBlock(b)
    BY <2>5 DEF ProcessBlock, dbVars, ServedStateIsDurable, Flushed
  <2>6. CASE Apply
    <3>1. UNCHANGED <<tries, statedb>> /\ pc' \in {"apply", "idle"}
      BY <2>6 DEF Apply, ApplyTransaction, RejectTransaction, RunOutOfGas, Overdraw, Applying,
                  AbandonBlock, dbVars
    <3>2. QED
      BY <3>1 DEF ServedStateIsDurable, Flushed
  <2>7. CASE CommitTo
    BY <2>7 DEF CommitTo, wasVars, ServedStateIsDurable, Flushed
  <2>8. CASE WriteHead \/ WriteTransactions \/ WriteReceipts
    BY <2>8 DEF WriteHead, WriteTransactions, WriteReceipts, Committing, wasVars, runVars,
                ServedStateIsDurable, Flushed
  <2>9. CASE Swap
    BY <2>9 DEF Swap, Committing, dbVars, ServedStateIsDurable, Flushed
  <2>10. CASE UNCHANGED vars
    BY <2>10 DEF vars, dbVars, wasVars, runVars, ServedStateIsDurable, Flushed
  <2>11. QED
    BY <2>1, <2>2, <2>3, <2>4, <2>5, <2>6, <2>7, <2>8, <2>9, <2>10 DEF Next, Commit
<1>3. QED
  BY <1>1, <1>2, PTL DEF Spec

(* The ledger that is served is always one whose trie is stored whole.     *)
THEOREM ServedStateIsDurableCorrect == Spec => []ServedStateIsDurable
<1>1. DurableInv => ServedStateIsDurable
  BY DEF DurableInv
<1>2. QED
  BY <1>1, DurableCorrect, PTL

----------------------------------------------------------------------------
(* Restarts.  What InitState loads is what the head's receipt names; that  *)
(* it is the committed ledger takes the whole chain from the WAS over its  *)
(* last receipt to the head.                                               *)

LastExact == ~drifted /\ receipts # <<>> => receipts[Len(receipts)].root = ethState

HeadExact ==
    /\ headTx = NoHead => CommittedLedger = EmptyLedger
    /\ ~drifted /\ headTx \in DOMAIN receiptTable =>
          /\ receiptTable[headTx].root = CommittedLedger
          /\ CommittedLedger \in tries

HeadThere ==
    faults = 0 /\ headTx # NoHead /\ headTx # EmptyTx /\ pc \notin {"writeTransactions", "writeReceipts"}
        => headTx \in DOMAIN receiptTable

RestartInv == LastExact /\ HeadExact /\ HeadThere /\ BrokenOnlyMidCommit

LEMMA RestartInit == Init => RestartInv
BY DEF Init, RestartInv, LastExact, HeadExact, HeadThere, BrokenOnlyMidCommit, CommittedLedger

(* A start finds the trie of the committed ledger, unless the head is one  *)
(* that no start can use.                                                  *)
LEMMA RestartLife ==
    WASInv /\ RestartInv /\ (NewState \/ NewStateFails \/ Crash) => RestartInv'
<1> SUFFICES ASSUME WASInv, RestartInv, NewState \/ NewStateFails \/ Crash PROVE RestartInv'
  OBVIOUS
<1> USE DEF RestartInv
<1>1. CASE NewState
  <2>1. PICK L \in tries \cup {EmptyLedger} : InitStateLoads(L) /\ statedb' = L /\ ResetWAS(L)
    BY <1>1 DEF NewState
  <2>2. /\ UNCHANGED <<headTx, receiptTable, tries, faults, drifted>>
        /\ status' = "up" /\ pc' = "idle" /\ receipts' = <<>>
    BY <1>1, <2>1 DEF NewState, dbVars, ResetWAS
  <2>3. LastExact' /\ BrokenOnlyMidCommit'
    BY <2>2 DEF LastExact, BrokenOnlyMidCommit
  <2>4. CommittedLedger' = L
    BY <2>1, <2>2 DEF CommittedLedger
  <2>5. HeadThere'
    BY <2>1, <2>2 DEF HeadThere, InitStateLoads
  <2>6. HeadExact'
    <3>1. NoHead \notin DOMAIN receiptTable
      BY StateAssumption DEF WASInv, TypeOK
    <3>2. headTx = NoHead => L = EmptyLedger
      BY <2>1, <3>1 DEF InitStateLoads
    <3>3. headTx \in DOMAIN receiptTable => receiptTable[headTx].root = L /\ L \in tries
      BY <2>1, <3>1 DEF InitStateLoads
    <3>4. QED
      BY <2>2, <2>4, <3>2, <3>3 DEF HeadExact
  <2>7. QED
    BY <2>3, <2>5, <2>6
<1>2. CASE NewStateFails
  <2>1. UNCHANGED <<dbVars, statedb, wasVars, faults, drifted, pc>>
    BY <1>2 DEF NewStateFails
  <2>2. LastExact' /\ HeadExact' /\ HeadThere'
    BY <2>1 DEF dbVars, wasVars, LastExact, HeadExact, HeadThere, CommittedLedger
  <2>3. BrokenOnlyMidCommit'
    <3>1. SUFFICES ASSUME faults = 0, ~drifted, headTx # EmptyTx,
                          pc \notin {"writeTransactions", "writeReceipts"}
                   PROVE  \E L \in tries \cup {EmptyLedger} : InitStateLoads(L)
      BY <1>2, <2>1 DEF BrokenOnlyMidCommit, NewStateFails, dbVars
    <3>2. CASE headTx = NoHead
      BY <3>2 DEF InitStateLoads
    <3>3. CASE headTx # NoHead
      BY <3>1, <3>3 DEF HeadThere, HeadExact, InitStateLoads
    <3>4. QED
      BY <3>2, <3>3
  <2>4. QED
    BY <2>2, <2>3
<1>3. CASE Crash
  BY <1>3 DEF Crash, dbVars, wasVars, LastExact, HeadExact, HeadThere, BrokenOnlyMidCommit,
              CommittedLedger
<1>4. QED
  BY <1>1, <1>2, <1>3

(* What changes a ledger with receipts is recorded.                        *)
LEMMA LastExactDrifts ==
    ASSUME LastExact, Drifts, UNCHANGED receipts
    PROVE  LastExact' /\ (drifted => drifted')
BY DEF LastExact, Drifts

LEMMA RestartRequest ==
    ASSUME RestartInv,
           \/ NoGenesisFile \/ CreateAccounts
           \/ (\E m \in Calls : Call(m)) \/ (\E b \in Blocks : ProcessBlock(b))
    PROVE  RestartInv'
<1>1. /\ UNCHANGED <<dbVars, statedb, receipts, faults>> /\ status = "up" /\ status' = "up"
      /\ pc' = pc \/ (pc = "idle" /\ pc' = "apply")
  BY DEF NoGenesisFile, CreateAccounts, Call, ProcessBlock, wasVars, runVars
<1>2. LastExact' /\ (drifted => drifted')
  <2>1. CASE CreateAccounts
    BY <2>1, LastExactDrifts DEF CreateAccounts, RestartInv
  <2>2. CASE ~CreateAccounts
    BY <2>2 DEF NoGenesisFile, Call, ProcessBlock, wasVars, runVars, LastExact, RestartInv
  <2>3. QED
    BY <2>1, <2>2
<1>3. pc = "swap" => ethState' = ethState
  BY DEF NoGenesisFile, CreateAccounts, Call, ProcessBlock, wasVars
<1>4. HeadExact' /\ HeadThere' /\ BrokenOnlyMidCommit'
  BY <1>1, <1>2, <1>3 DEF dbVars, RestartInv, HeadExact, HeadThere, BrokenOnlyMidCommit, CommittedLedger
<1>5. QED
  BY <1>2, <1>4 DEF RestartInv

LEMMA RestartApply == WASInv /\ RestartInv /\ Apply => RestartInv'
<1> SUFFICES ASSUME WASInv, RestartInv, NEW p \in Tx \cup Junk,
                    \/ ApplyTransaction(p)
                    \/ RejectTransaction(p)
                    \/ RunOutOfGas(p)
                    \/ Overdraw(p)
             PROVE  RestartInv'
  BY DEF Apply
<1>1. /\ UNCHANGED <<dbVars, statedb, faults>> /\ status = "up" /\ status' = "up"
      /\ pc = "apply" /\ pc' \in {"apply", "idle"}
  BY DEF ApplyTransaction, RejectTransaction, RunOutOfGas, Overdraw, Applying, AbandonBlock,
         runVars, wasVars
<1>2. LastExact' /\ (drifted => drifted')
  <2>1. CASE ApplyTransaction(p)
    <3> DEFINE r == [tx |-> p, root |-> ethState', gasUsed |-> p.used,
                     cumulativeGasUsed |-> totalUsedGas', failed |-> ~p.ok]
    <3>1. receipts' = Append(receipts, r) /\ r.root = ethState' /\ drifted' = drifted
      BY <2>1 DEF ApplyTransaction, runVars
    <3> HIDE DEF r
    <3>2. receipts \in Seq(Receipt)
      BY DEF WASInv, TypeOK
    <3>3. receipts'[Len(receipts')] = r
      BY <3>1, <3>2
    <3>4. QED
      BY <3>1, <3>3 DEF LastExact
  <2>2. CASE RunOutOfGas(p) \/ Overdraw(p)
    BY <2>2, LastExactDrifts DEF RunOutOfGas, Overdraw, RestartInv
  <2>3. CASE RejectTransaction(p)
    BY <2>3 DEF RejectTransaction, wasVars, runVars, LastExact, RestartInv
  <2>4. QED
    BY <2>1, <2>2, <2>3
<1>3. HeadExact' /\ HeadThere' /\ BrokenOnlyMidCommit'
  BY <1>1, <1>2 DEF dbVars, RestartInv, HeadExact, HeadThere, BrokenOnlyMidCommit, CommittedLedger
<1>4. QED
  BY <1>2, <1>3 DEF RestartInv

(* The committed ledger changes in one step, the one that stores the       *)
(* receipt of the head: from then on the head names the new ledger.        *)
LEMMA RestartCommit ==
    WASInv /\ HistoryInv /\ DurableInv /\ RestartInv /\ (Commit \/ WriteFails) => RestartInv'
<1> SUFFICES ASSUME WASInv, HistoryInv, DurableInv, RestartInv, Commit \/ WriteFails
             PROVE  RestartInv'
  OBVIOUS
<1>1. drifted' = drifted /\ status = "up" /\ status' # "broken"
  BY DEF Commit, CommitTo, WriteHead, WriteTransactions, WriteReceipts, Swap, WriteFails,
         Committing, runVars
<1>2. LastExact' /\ BrokenOnlyMidCommit'
  BY <1>1 DEF Commit, CommitTo, WriteHead, WriteTransactions, WriteReceipts, Swap, WriteFails,
              ResetWAS, wasVars, RestartInv, LastExact, BrokenOnlyMidCommit
<1>3. CASE CommitTo
  BY <1>2, <1>3 DEF CommitTo, Committing, wasVars, runVars, RestartInv, HeadExact, HeadThere,
                    CommittedLedger
<1>4. CASE WriteHead
  <2>1. headTx' # NoHead /\ headTx' \notin DOMAIN receiptTable' /\ pc' = "writeTransactions"
    BY <1>4, FreshHead DEF WriteHead
  <2>2. QED
    BY <1>2, <2>1 DEF RestartInv, HeadExact, HeadThere
<1>5. CASE WriteTransactions
  <2>1. /\ UNCHANGED <<headTx, receiptTable, tries, statedb, drifted>>
        /\ pc = "writeTransactions" /\ pc' = "writeReceipts"
    BY <1>5 DEF WriteTransactions, Committing, runVars
  <2>2. QED
    BY <1>2, <2>1 DEF RestartInv, HeadExact, HeadThere, CommittedLedger
<1>6. CASE WriteReceipts
  <2>1. /\ UNCHANGED <<headTx, tries, ethState, receipts>> /\ pc' = "swap"
        /\ headTx = HeadOf(transactions) /\ ethState \in tries
    BY <1>6 DEF WriteReceipts, Committing, wasVars, HistoryInv, HeadSet, DurableInv, Flushed
  <2>2. CommittedLedger' = ethState
    BY <2>1 DEF CommittedLedger
  <2>3. CASE transactions = <<>>
    <3>1. headTx' = EmptyTx /\ headTx' \notin DOMAIN receiptTable'
      BY <1>6, <2>1, <2>3, WriteReceiptsType, StateAssumption DEF HeadOf
    <3>2. QED
      BY <1>2, <3>1, StateAssumption DEF RestartInv, HeadExact, HeadThere
  <2>4. CASE transactions # <<>>
    <3>1. /\ receipts # <<>> /\ headTx' \in DOMAIN receiptTable'
          /\ receiptTable'[headTx'] = receipts[Len(receipts)]
      BY <1>6, <2>1, <2>4, LastReceiptStored
    <3>2. headTx' # NoHead
      BY <1>6, <3>1, WriteReceiptsType, StateAssumption
    <3>3. QED
      BY <1>1, <1>2, <2>1, <2>2, <3>1, <3>2 DEF RestartInv, LastExact, HeadExact, HeadThere
  <2>5. QED
    BY <2>3, <2>4
<1>7. CASE Swap
  <2>1. /\ UNCHANGED <<headTx, receiptTable, tries, faults>>
        /\ pc = "swap" /\ pc' = "idle" /\ statedb' = ethState
    BY <1>7 DEF Swap, Committing, dbVars
  <2>2. CommittedLedger' = CommittedLedger
    BY <2>1 DEF CommittedLedger
  <2>3. QED
    BY <1>1, <1>2, <2>1, <2>2 DEF RestartInv, HeadExact, HeadThere
<1>8. CASE WriteFails
  <2>1. /\ UNCHANGED <<dbVars, statedb>> /\ pc # "swap" /\ pc' = "idle" /\ faults' # 0
    BY <1>8 DEF WriteFails, WASInv, TypeOK
  <2>2. CommittedLedger' = CommittedLedger
    BY <2>1 DEF CommittedLedger
  <2>3. QED
    BY <1>1, <1>2, <2>1, <2>2 DEF dbVars, RestartInv, HeadExact, HeadThere
<1>9. QED
  BY <1>3, <1>4, <1>5, <1>6, <1>7, <1>8 DEF Commit

LEMMA RestartStutter == RestartInv /\ UNCHANGED vars => RestartInv'
BY DEF vars, dbVars, wasVars, runVars, RestartInv, LastExact, HeadExact, HeadThere,
       BrokenOnlyMidCommit, CommittedLedger

(* The head of the database names the committed ledger, and its trie is    *)
(* there, as long as no WAS drifted away from its receipts.                *)
THEOREM RestartInvCorrect == Spec => []RestartInv
<1>1. WASInv /\ HistoryInv /\ DurableInv /\ RestartInv /\ [Next]_vars => RestartInv'
  BY RestartLife, RestartRequest, RestartApply, RestartCommit, RestartStutter DEF Next
<1>2. QED
  BY <1>1, RestartInit, WASCorrect, HistoryCorrect, DurableCorrect, PTL DEF Spec

(* A node can start from its database, if the process ended outside the    *)
(* two steps between the write of the head and that of its receipt.        *)
THEOREM BrokenOnlyMidCommitCorrect == Spec => []BrokenOnlyMidCommit
<1>1. RestartInv => BrokenOnlyMidCommit
  BY DEF RestartInv
<1>2. QED
  BY <1>1, RestartInvCorrect, PTL

(* The ledger of a node that restarts is the one it had committed.         *)
THEOREM RestartExactCorrect == Spec => RestartExact
<1> DEFINE Exact == ~drifted /\ status = "down" /\ status' = "up" => statedb' = CommittedLedger
<1>1. RestartInv /\ [Next]_vars => [Exact]_vars
  <2> SUFFICES ASSUME RestartInv, Next, ~drifted, status = "down", status' = "up"
               PROVE  statedb' = CommittedLedger
    OBVIOUS
  <2>1. NewState
    BY DEF Next, NewStateFails, Crash, NoGenesisFile, CreateAccounts, Call, ProcessBlock, Apply,
           ApplyTransaction, RejectTransaction, RunOutOfGas, Overdraw, Applying, Commit, CommitTo,
           WriteHead, WriteTransactions, WriteReceipts, Swap, WriteFails, Committing
  <2>2. PICK L \in tries \cup {EmptyLedger} : InitStateLoads(L) /\ statedb' = L
    BY <2>1 DEF NewState
  <2>3. QED
    BY <2>2 DEF InitStateLoads, RestartInv, HeadExact
<1>2. QED
  BY <1>1, RestartInvCorrect, PTL DEF Spec, RestartExact
----------------------------------------------------------------------------
(* Nonces and receipts.  Whatever is left behind, committed late or loaded *)
(* again, each nonce of a ledger was used by a transaction that has a      *)
(* receipt, or is about to get one with the ledger.  Only a call that      *)
(* overdraws moves a nonce for nothing.                                    *)

UsedBy(L, T) == \A a \in Account : \A n \in 0..(L.nonce[a] - 1) : \E t \in T : t.from = a /\ t.nonce = n

Answered == DOMAIN receiptTable \cup Range(transactions)

ServedUsed == UsedBy(statedb, DOMAIN receiptTable)

WASUsed == UsedBy(ethState, Answered)

StoredRootsUsed == \A t \in DOMAIN receiptTable : UsedBy(receiptTable[t].root, DOMAIN receiptTable)

RootsUsed == \A i \in DOMAIN receipts : UsedBy(receipts[i].root, Answered)

SwapAnswered == pc = "swap" => Range(transactions) \subseteq DOMAIN receiptTable

NonceInv == ServedUsed /\ WASUsed /\ StoredRootsUsed /\ RootsUsed /\ SwapAnswered

(* A call moves no nonce without a transaction.                            *)
NoCallOverdraws == \A t \in Tx : Overdraw(t) => t.create

LEMMA UsedByMore ==
    ASSUME NEW L, NEW T, NEW U, UsedBy(L, T), T \subseteq U
    PROVE  UsedBy(L, U)
BY DEF UsedBy

LEMMA EmptyRange == Range(<<>>) = {} /\ DOMAIN <<>> = {}
BY DEF Range

LEMMA EmptyUsed == \A T : UsedBy(EmptyLedger, T)
BY DEF UsedBy, EmptyLedger

(* The transaction that is executed answers for the nonce it moves.        *)
LEMMA ExecuteUsed ==
    ASSUME NEW L \in Ledger, NEW m \in Message, NonceMatches(L, m), NEW T, UsedBy(L, T)
    PROVE  UsedBy(Execute(L, m), T \cup {m})
<1>1. m.from \in Account /\ L.nonce \in [Account -> Nat] /\ m.nonce = L.nonce[m.from]
  BY DEF Message, Ledger, NonceMatches
<1>2. Execute(L, m).nonce = [L.nonce EXCEPT ![m.from] = @ + 1]
  BY <1>1, BumpNonceType DEF Execute
<1>3. SUFFICES ASSUME NEW a \in Account, NEW n \in 0..(Execute(L, m).nonce[a] - 1)
               PROVE  \E t \in T \cup {m} : t.from = a /\ t.nonce = n
  BY DEF UsedBy
<1>4. CASE a = m.from /\ n = m.nonce
  BY <1>4
<1>5. CASE ~(a = m.from /\ n = m.nonce)
  <2>1. n \in 0..(L.nonce[a] - 1)
    BY <1>1, <1>2, <1>3, <1>5
  <2>2. QED
    BY <2>1 DEF UsedBy
<1>6. QED
  BY <1>4, <1>5

LEMMA NonceInit == Init => NonceInv
<1> SUFFICES ASSUME Init PROVE NonceInv
  OBVIOUS
<1>1. DOMAIN receiptTable = {} /\ DOMAIN receipts = {} /\ pc = "idle"
  BY DEF Init
<1>2. QED
  BY <1>1, EmptyUsed DEF Init, NonceInv, ServedUsed, WASUsed, StoredRootsUsed, RootsUsed, SwapAnswered

(* Steps that leave tables, WAS and served ledger alone.                   *)
LEMMA NonceKept ==
    ASSUME NonceInv, UNCHANGED <<receiptTable, transactions, receipts, statedb>>,
           ethState'.nonce = ethState.nonce, pc' # "swap" \/ pc' = pc
    PROVE  NonceInv'
BY DEF NonceInv, ServedUsed, WASUsed, StoredRootsUsed, RootsUsed, SwapAnswered, Answered, UsedBy

LEMMA NonceApply == WASInv /\ NonceInv /\ NoCallOverdraws /\ Apply => NonceInv'
<1> SUFFICES ASSUME WASInv, NonceInv, NoCallOverdraws, NEW p \in Tx \cup Junk,
                    \/ ApplyTransaction(p)
                    \/ RejectTransaction(p)
                    \/ RunOutOfGas(p)
                    \/ Overdraw(p)
             PROVE  NonceInv'
  BY DEF Apply
<1>1. UNCHANGED <<receiptTable, statedb>> /\ pc' # "swap"
  BY DEF ApplyTransaction, RejectTransaction, RunOutOfGas, Overdraw, Applying, AbandonBlock, dbVars
<1>2. CASE ApplyTransaction(p)
  <2> DEFINE r == [tx |-> p, root |-> ethState', gasUsed |-> p.used,
                   cumulativeGasUsed |-> totalUsedGas', failed |-> ~p.ok]
  <2>1. p \in Tx /\ p \in Message /\ NonceMatches(ethState, p)
    BY <1>2, ApplyingType DEF ApplyTransaction, Decodes, Accepts, WASInv
  <2>2. /\ transactions \in Seq(Tx) /\ receipts \in Seq(Receipt) /\ ethState \in Ledger
        /\ transactions' = Append(transactions, p) /\ ethState' = Execute(ethState, p)
        /\ receipts' = Append(receipts, r) /\ r.root = ethState'
    BY <1>2 DEF ApplyTransaction, WASInv, TypeOK
  <2> HIDE DEF r
  <2>3. Range(transactions') = Range(transactions) \cup {p}
    <3>1. transactions \in Seq(Tx) /\ transactions' = Append(transactions, p)
      BY <2>2
    <3>2. QED
      BY <2>1, <3>1 DEF Range
  <2>4. Answered' = Answered \cup {p}
    BY <1>1, <2>3 DEF Answered
  <2>5. UsedBy(ethState', Answered')
    BY <2>1, <2>2, <2>4, ExecuteUsed DEF NonceInv, WASUsed
  <2>6. RootsUsed'
    <3>1. ASSUME NEW i \in DOMAIN receipts'
          PROVE  UsedBy(receipts'[i].root, Answered')
      <4>1. CASE i \in DOMAIN receipts
        <5>1. receipts'[i] = receipts[i]
          BY <2>2, <4>1
        <5>2. UsedBy(receipts[i].root, Answered)
          BY <4>1 DEF NonceInv, RootsUsed
        <5>3. QED
          BY <2>4, <5>1, <5>2, UsedByMore
      <4>2. CASE i \notin DOMAIN receipts
        <5>1. receipts'[i] = r
          BY <2>2, <4>2
        <5>2. QED
          BY <2>2, <2>5, <5>1
      <4>3. QED
        BY <4>1, <4>2
    <3>2. QED
      BY <3>1 DEF RootsUsed, UsedBy
  <2>7. QED
    BY <1>1, <2>5, <2>6 DEF NonceInv, ServedUsed, WASUsed, StoredRootsUsed, SwapAnswered, UsedBy
<1>3. CASE RejectTransaction(p)
  BY <1>1, <1>3, NonceKept DEF RejectTransaction, wasVars
<1>4. CASE RunOutOfGas(p) \/ Overdraw(p)
  <2>1. p \in Tx /\ p \in Message /\ BuysGas(ethState, gp, p) /\ UNCHANGED <<transactions, receipts>>
    BY <1>4, FailedType DEF WASInv
  <2>2. ethState' = Bought(ethState, p)
    BY <1>4, <2>1 DEF RunOutOfGas, Overdraw, Overdrawn, NoCallOverdraws
  <2>3. ethState'.nonce = ethState.nonce
    BY <2>1, <2>2, BoughtType DEF WASInv, TypeOK
  <2>4. QED
    BY <1>1, <2>1, <2>3, NonceKept
<1>5. QED
  BY <1>2, <1>3, <1>4

LEMMA NonceCommit == WASInv /\ NonceInv /\ (Commit \/ WriteFails) => NonceInv'
<1> SUFFICES ASSUME WASInv, NonceInv, Commit \/ WriteFails PROVE NonceInv'
  OBVIOUS
<1>1. CASE CommitTo \/ WriteHead \/ WriteTransactions \/ WriteFails
  BY <1>1, NonceKept DEF CommitTo, WriteHead, WriteTransactions, WriteFails, dbVars, wasVars
<1>2. CASE WriteReceipts
  <2>1. /\ DOMAIN receiptTable' = Answered
        /\ \A i \in DOMAIN receipts : receiptTable'[receipts[i].tx] = receipts[i]
        /\ \A t \in Range(transactions) : \E i \in DOMAIN receipts : t = receipts[i].tx
        /\ \A t \in DOMAIN receiptTable \ Range(transactions) : receiptTable'[t] = receiptTable[t]
    BY <1>2, WriteReceiptsType DEF Answered
  <2>2. UNCHANGED <<transactions, receipts, statedb, ethState>>
    BY <1>2 DEF WriteReceipts, wasVars
  <2>3. Answered' = Answered /\ DOMAIN receiptTable \subseteq Answered /\ Range(transactions) \subseteq Answered
    BY <2>1, <2>2 DEF Answered
  <2>4. StoredRootsUsed'
    <3>1. ASSUME NEW t \in Answered
          PROVE  UsedBy(receiptTable'[t].root, Answered)
      <4>1. CASE t \in Range(transactions)
        BY <2>1, <4>1 DEF NonceInv, RootsUsed
      <4>2. CASE t \notin Range(transactions)
        <5>1. t \in DOMAIN receiptTable /\ receiptTable'[t] = receiptTable[t]
          BY <2>1, <4>2 DEF Answered
        <5>2. QED
          BY <2>3, <5>1, UsedByMore DEF NonceInv, StoredRootsUsed
      <4>3. QED
        BY <4>1, <4>2
    <3>2. QED
      BY <2>1, <3>1 DEF StoredRootsUsed, UsedBy
  <2>5. ServedUsed'
    <3>1. UsedBy(statedb, Answered)
      BY <2>3, UsedByMore DEF NonceInv, ServedUsed
    <3>2. QED
      BY <2>1, <2>2, <3>1 DEF ServedUsed, UsedBy
  <2>6. WASUsed' /\ RootsUsed' /\ SwapAnswered'
    BY <2>1, <2>2, <2>3 DEF NonceInv, WASUsed, RootsUsed, SwapAnswered, UsedBy
  <2>7. QED
    BY <2>4, <2>5, <2>6 DEF NonceInv
<1>3. CASE Swap
  <2>1. Answered = DOMAIN receiptTable
    BY <1>3 DEF Swap, Committing, NonceInv, SwapAnswered, Answered
  <2>2. /\ statedb' = ethState /\ ethState' = ethState /\ receiptTable' = receiptTable
        /\ transactions' = <<>> /\ receipts' = <<>> /\ pc' = "idle"
    BY <1>3 DEF Swap, ResetWAS, dbVars
  <2>3. Answered' = DOMAIN receiptTable /\ DOMAIN receipts' = {}
    BY <2>2, EmptyRange DEF Answered
  <2>4. QED
    BY <2>1, <2>2, <2>3 DEF NonceInv, ServedUsed, WASUsed, StoredRootsUsed, RootsUsed, SwapAnswered, UsedBy
<1>4. QED
  BY <1>1, <1>2, <1>3 DEF Commit

LEMMA NonceStep == WASInv /\ NonceInv /\ [Next]_vars /\ [NoCallOverdraws]_vars => NonceInv'
<1> SUFFICES ASSUME WASInv, NonceInv, [Next]_vars, [NoCallOverdraws]_vars PROVE NonceInv'
  OBVIOUS
<1>1. CASE NewState
  <2>1. PICK L : InitStateLoads(L) /\ statedb' = L /\ ResetWAS(L)
    BY <1>1 DEF NewState
  <2>2. UsedBy(L, DOMAIN receiptTable)
    BY <2>1, EmptyUsed DEF InitStateLoads, NonceInv, StoredRootsUsed
  <2>3. /\ ethState' = L /\ transactions' = <<>> /\ receipts' = <<>> /\ receiptTable' = receiptTable
        /\ pc' = "idle"
    BY <1>1, <2>1 DEF NewState, ResetWAS, dbVars
  <2>4. Answered' = DOMAIN receiptTable /\ DOMAIN receipts' = {}
    BY <2>3, EmptyRange DEF Answered
  <2>5. QED
    BY <2>1, <2>2, <2>3, <2>4
       DEF NonceInv, ServedUsed, WASUsed, StoredRootsUsed, RootsUsed, SwapAnswered, UsedBy
<1>2. CASE CreateAccounts
  <2>1. ethState'.nonce = ethState.nonce
    BY <1>2 DEF CreateAccounts, WithGenesis
  <2>2. QED
    BY <1>2, <2>1, NonceKept DEF CreateAccounts, dbVars
<1>3. CASE Apply
  <2>1. NoCallOverdraws
    <3>1. ASSUME NEW t \in Tx, Overdraw(t)
          PROVE  vars' # vars
      BY <3>1 DEF Overdraw, Applying, AbandonBlock, vars
    <3>2. QED
      BY <3>1 DEF NoCallOverdraws
  <2>2. QED
    BY <1>3, <2>1, NonceApply
<1>4. CASE Commit \/ WriteFails
  BY <1>4, NonceCommit
<1>5. CASE \/ NewStateFails \/ Crash \/ NoGenesisFile \/ UNCHANGED vars
           \/ \E m \in Calls : Call(m)
           \/ \E b \in Blocks : ProcessBlock(b)
  BY <1>5, NonceKept DEF NewStateFails, Crash, NoGenesisFile, Call, ProcessBlock, vars, dbVars, wasVars
<1>6. QED
  BY <1>1, <1>2, <1>3, <1>4, <1>5 DEF Next

(* Unless a call overdraws, every nonce used in a served, loaded or        *)
(* written ledger is that of a transaction with a receipt.                 *)
THEOREM NonceInvCorrect == Spec /\ [][NoCallOverdraws]_vars => []NonceInv
<1>1. QED
  BY NonceInit, NonceStep, WASCorrect, PTL DEF Spec

(* Receipts then do tell if and how the served state has changed, which    *)
(* the run doc_receipts_tell refutes in general.                           *)
THEOREM NonceHasReceiptCorrect == Spec /\ [][NoCallOverdraws]_vars => []NonceHasReceipt
<1>1. NonceInv => NonceHasReceipt
  BY DEF NonceInv, ServedUsed, UsedBy, NonceHasReceipt
<1>2. QED
  BY <1>1, NonceInvCorrect, PTL

----------------------------------------------------------------------------
(* The supply of a ledger.                                                 *)

LEMMA SupplyType ==
    ASSUME NEW L \in Ledger
    PROVE  /\ Supply(L) = SumFunctionOnSet(L.balance, Account)
           /\ Supply(L) \in Nat
           /\ L.balance \in [Account -> Nat]
<1>1. L.balance \in [Account -> Nat]
  BY DEF Ledger
<1>2. Supply(L) = SumFunctionOnSet(L.balance, Account)
  BY <1>1 DEF Supply, SumFunction
<1>3. SumFunctionOnSet(L.balance, Account) \in Nat
  BY <1>1, EvmAssumption, SumNat
<1>4. QED
  BY <1>1, <1>2, <1>3

LEMMA EmptySupply == Supply(EmptyLedger) = 0
<1>1. EmptyLedger.balance = [a \in Account |-> 0]
  BY DEF EmptyLedger
<1>2. SumFunctionOnSet(EmptyLedger.balance, Account) = 0
  BY <1>1, EvmAssumption, SumZero
<1>3. QED
  BY <1>2, EmptyLedgerType, SupplyType

(* A transfer takes from the sender what it gives to the receiver, also    *)
(* when they are the same.                                                 *)
LEMMA TransferSupply ==
    ASSUME NEW balance \in [Account -> Nat], NEW from \in Account, NEW to \in Account, NEW n \in Nat
    PROVE  SumFunctionOnSet(Transfer(balance, from, to, n), Account) = SumFunctionOnSet(balance, Account)
<1>1. PICK v \in Int : v = -n
  OBVIOUS
<1>2. PICK debited : debited = [balance EXCEPT ![from] = @ + v]
  OBVIOUS
<1>3. balance \in [Account -> Int] /\ debited \in [Account -> Int] /\ n \in Int
  BY <1>1, <1>2
<1>4. Transfer(balance, from, to, n) = [debited EXCEPT ![to] = @ + n]
  <2>1. [balance EXCEPT ![from] = @ - n] = debited
    BY <1>1, <1>2
  <2>2. QED
    BY <2>1 DEF Transfer
<1> DEFINE Sum(f) == SumFunctionOnSet(f, Account)
<1>5. \A f \in [Account -> Int], a \in Account, k \in Int : Sum([f EXCEPT ![a] = @ + k]) = Sum(f) + k
  BY EvmAssumption, SumGains
<1> HIDE DEF Sum
<1>6. Sum(debited) = Sum(balance) + v
  BY <1>2, <1>3, <1>5
<1>7. Sum([debited EXCEPT ![to] = @ + n]) = Sum(debited) + n
  BY <1>3, <1>5
<1>8. Sum(balance) \in Int
  BY EvmAssumption, SumNat DEF Sum
<1>9. Sum(Transfer(balance, from, to, n)) = Sum(balance)
  BY <1>1, <1>3, <1>4, <1>6, <1>7, <1>8
<1>10. QED
  BY <1>9 DEF Sum

(* So an execution only moves Ether: the fee to Coinbase, the value to the *)
(* receiver.                                                               *)
LEMMA ExecuteSupply ==
    ASSUME NEW L \in Ledger, NEW pool, NEW m \in Message, WellFormed(m), Executes(L, pool, m)
    PROVE  Supply(Execute(L, m)) = Supply(L)
<1>1. PICK fee \in Nat : fee = m.used * m.price
  BY GasCostType
<1>2. PICK paid : paid = Transfer(L.balance, m.from, Coinbase, fee)
  OBVIOUS
<1>3. /\ m.from \in Account /\ m.to \in Account /\ m.value \in Nat /\ Coinbase \in Account
      /\ L.balance \in [Account -> Nat]
  BY EvmAssumption, SupplyType DEF Message
<1>4. Execute(L, m) \in Ledger /\ fee <= L.balance[m.from]
  BY <1>1, ExecuteType
<1>5. paid \in [Account -> Nat]
  BY <1>2, <1>3, <1>4, TransferType
<1>6. SumFunctionOnSet(paid, Account) = SumFunctionOnSet(L.balance, Account)
  BY <1>2, <1>3, TransferSupply
<1>7. Execute(L, m).balance = IF m.ok THEN Transfer(paid, m.from, m.to, m.value) ELSE paid
  BY <1>1, <1>2 DEF Execute
<1>8. SumFunctionOnSet(Transfer(paid, m.from, m.to, m.value), Account) = SumFunctionOnSet(paid, Account)
  BY <1>3, <1>5, TransferSupply
<1>9. SumFunctionOnSet(Execute(L, m).balance, Account) = SumFunctionOnSet(paid, Account)
  BY <1>7, <1>8
<1>10. QED
  BY <1>4, <1>6, <1>9, SupplyType

(* The price of gas that was bought and not refunded is gone.              *)
LEMMA BoughtSupply ==
    ASSUME NEW L \in Ledger, NEW pool, NEW m \in Message, BuysGas(L, pool, m)
    PROVE  Supply(Bought(L, m)) = Supply(L) - GasCost(m)
<1> DEFINE paid == [L.balance EXCEPT ![m.from] = @ + (-GasCost(m))]
<1>1. /\ m.from \in Account /\ GasCost(m) \in Nat /\ -GasCost(m) \in Int
      /\ L.balance \in [Account -> Int] /\ L.balance \in [Account -> Nat]
  BY GasCostType, SupplyType DEF Message
<1>2. SumFunctionOnSet(paid, Account) = SumFunctionOnSet(L.balance, Account) + (-GasCost(m))
  BY <1>1, EvmAssumption, SumGains
<1>3. [L.balance EXCEPT ![m.from] = @ - GasCost(m)] = paid
  BY <1>1
<1>4. Bought(L, m).balance = paid
  BY <1>3 DEF Bought, Ledger
<1>5. Bought(L, m) \in Ledger
  BY BoughtType
<1> HIDE DEF paid
<1>6. Supply(Bought(L, m)) = SumFunctionOnSet(L.balance, Account) + (-GasCost(m))
  BY <1>2, <1>4, <1>5, SupplyType
<1>7. QED
  BY <1>1, <1>6, SupplyType

LEMMA OverdrawnSupply ==
    ASSUME NEW L \in Ledger, NEW pool, NEW m \in Message, BuysGas(L, pool, m)
    PROVE  Supply(Overdrawn(L, m)) = Supply(L) - GasCost(m)
<1>1. Bought(L, m) \in Ledger
  BY BoughtType
<1>2. Overdrawn(L, m).balance = Bought(L, m).balance
  BY <1>1 DEF Overdrawn, BumpNonce, Ledger
<1>3. QED
  BY <1>2, BoughtSupply DEF Supply

(* A failed transaction takes from the WAS what it adds to burnt.          *)
LEMMA FailedSupply ==
    ASSUME TypeOK, NEW p \in Tx \cup Junk, RunOutOfGas(p) \/ Overdraw(p)
    PROVE  \E cost \in Nat : /\ burnt' = burnt + cost
                             /\ Supply(ethState') = Supply(ethState) - cost
<1>1. /\ p \in Message /\ BuysGas(ethState, gp, p) /\ GasCost(p) \in Nat /\ Burns(p)
      /\ ethState' = Bought(ethState, p) \/ ethState' = Overdrawn(ethState, p)
  BY FailedType
<1>2. ethState \in Ledger
  BY DEF TypeOK
<1>3. Supply(ethState') = Supply(ethState) - GasCost(p)
  BY <1>1, <1>2, BoughtSupply, OverdrawnSupply
<1>4. QED
  BY <1>1, <1>3 DEF Burns

(* The genesis accounts add what genesis.json gives them.                  *)
LEMMA WithGenesisSupply ==
    ASSUME NEW L \in Ledger
    PROVE  /\ Supply(WithGenesis(L)) = Supply(L) + GenesisSupply
           /\ GenesisSupply \in Nat
<1> DEFINE given == [a \in DOMAIN Genesis |-> Genesis[a].balance]
           extra == [a \in Account |-> IF a \in DOMAIN Genesis THEN Genesis[a].balance ELSE 0]
           sum   == WithGenesis(L).balance
<1>1. /\ DOMAIN Genesis \in SUBSET Account /\ IsFiniteSet(Account)
      /\ \A a \in DOMAIN Genesis : Genesis[a].balance \in Nat
      /\ L.balance \in [Account -> Nat]
  BY EvmAssumption, StateAssumption, SupplyType
<1>2. IsFiniteSet(DOMAIN Genesis)
  BY <1>1, FS_Subset
<1>3. /\ \A x \in Account : extra[x] \in Nat /\ sum[x] = L.balance[x] + extra[x]
      /\ \A x \in Account \ DOMAIN Genesis : extra[x] = 0
      /\ \A x \in DOMAIN Genesis : extra[x] = given[x] /\ given[x] \in Nat
  BY <1>1 DEF WithGenesis
<1>4. GenesisSupply = SumFunctionOnSet(given, DOMAIN Genesis)
  BY DEF GenesisSupply, SumFunction
<1> HIDE DEF given, extra, sum
<1>5. SumFunctionOnSet(sum, Account)
         = SumFunctionOnSet(L.balance, Account) + SumFunctionOnSet(extra, Account)
  BY <1>1, <1>3, SumPlus
<1>6. SumFunctionOnSet(extra, Account) = SumFunctionOnSet(extra, DOMAIN Genesis)
  BY <1>1, <1>3, SumWider
<1>7. SumFunctionOnSet(extra, DOMAIN Genesis) = SumFunctionOnSet(given, DOMAIN Genesis)
  BY <1>2, <1>3, SumSame
<1>8. GenesisSupply \in Nat
  BY <1>2, <1>3, <1>4, SumNat
<1>9. Supply(WithGenesis(L)) = SumFunctionOnSet(sum, Account)
  BY WithGenesisType, SupplyType DEF sum
<1>10. QED
  BY <1>4, <1>5, <1>6, <1>7, <1>8, <1>9, SupplyType

----------------------------------------------------------------------------
(* SupplyConserved.  The ledger a crash leaves behind may or may not have  *)
(* the genesis accounts of the last start, so what is related to starts is *)
(* every ledger that a later step could serve: the WAS and the roots of    *)
(* all receipts, in memory and stored.                                     *)

(* L has the Ether of genesis.json between lo and hi times, but for what   *)
(* was lost, which is at most lost.                                        *)
Minted(L, lo, hi, lost) ==
    \E k \in lo..hi : k * GenesisSupply - lost <= Supply(L) /\ Supply(L) <= k * GenesisSupply

LedgersMinted ==
    /\ Minted(statedb, 0, starts, burnt)
    /\ Minted(ethState, 0, starts, burnt)
    /\ \A i \in DOMAIN receipts : Minted(receipts[i].root, 0, starts, burnt)
    /\ \A t \in DOMAIN receiptTable : Minted(receiptTable[t].root, 0, starts, burnt)

(* Within one life the WAS gets the genesis accounts once, and the served  *)
(* ledger with the commit that follows.                                    *)
LifeMinted ==
    status = "up" =>
        /\ genesis = "pending" => Minted(ethState, 0, starts - 1, burnt)
        /\ genesis # "pending" /\ starts \in GenesisStarts => Minted(ethState, 1, starts, burnt)
        /\ genesis = "done" /\ starts \in GenesisStarts => Minted(statedb, 1, starts, burnt)

SupplyInv == LedgersMinted /\ LifeMinted

LEMMA GenesisSupplyType == GenesisSupply \in Nat /\ \A k \in Int : k * GenesisSupply \in Int
<1>1. GenesisSupply \in Nat
  BY EmptyLedgerType, WithGenesisSupply
<1>2. PICK g \in Nat : g = GenesisSupply
  BY <1>1
<1>3. \A k \in Int : k * g \in Int
  OBVIOUS
<1>4. QED
  BY <1>1, <1>2, <1>3

(* Nothing minted is minted zero times.                                    *)
LEMMA EmptyMinted ==
    ASSUME NEW n \in Nat, NEW lost \in Nat
    PROVE  Minted(EmptyLedger, 0, n, lost)
<1>1. 0 * GenesisSupply = 0
  BY GenesisSupplyType
<1>2. 0 \in 0..n /\ 0 - lost <= 0
  OBVIOUS
<1>3. QED
  BY <1>1, <1>2, EmptySupply DEF Minted

LEMMA MintedWider ==
    ASSUME NEW L, NEW lo \in Int, NEW hi \in Int, NEW lo2 \in Int, NEW hi2 \in Int, NEW lost,
           lo2 <= lo, hi <= hi2, Minted(L, lo, hi, lost)
    PROVE  Minted(L, lo2, hi2, lost)
<1>1. \A k \in lo..hi : k \in lo2..hi2
  OBVIOUS
<1>2. QED
  BY <1>1 DEF Minted

(* What a step takes from a ledger at most, it adds to what was lost.      *)
LEMMA MintedLess ==
    ASSUME NEW L \in Ledger, NEW K \in Ledger, NEW lo \in Int, NEW hi \in Int,
           NEW lost \in Nat, NEW cost \in Nat,
           Supply(L) - cost <= Supply(K), Supply(K) <= Supply(L), Minted(L, lo, hi, lost)
    PROVE  Minted(K, lo, hi, lost + cost)
<1>1. PICK k \in lo..hi : k * GenesisSupply - lost <= Supply(L) /\ Supply(L) <= k * GenesisSupply
  BY DEF Minted
<1>2. PICK all \in Int : all = k * GenesisSupply
  BY GenesisSupplyType
<1>3. Supply(L) \in Int /\ Supply(K) \in Int
  BY SupplyType
<1>4. all - (lost + cost) <= Supply(K) /\ Supply(K) <= all
  BY <1>1, <1>2, <1>3
<1>5. QED
  BY <1>2, <1>4 DEF Minted

LEMMA MintedOnceMore ==
    ASSUME NEW L \in Ledger, NEW lo \in Int, NEW hi \in Int, NEW lost \in Nat, Minted(L, lo, hi, lost)
    PROVE  Minted(WithGenesis(L), lo + 1, hi + 1, lost)
<1>1. PICK k \in lo..hi : k * GenesisSupply - lost <= Supply(L) /\ Supply(L) <= k * GenesisSupply
  BY DEF Minted
<1>2. k + 1 \in (lo + 1)..(hi + 1)
  OBVIOUS
<1>3. PICK g \in Nat : g = GenesisSupply
  BY GenesisSupplyType
<1>4. PICK all \in Int : all = k * g
  BY <1>3, GenesisSupplyType
<1>5. (k + 1) * g = k * g + g
  OBVIOUS
<1>6. Supply(WithGenesis(L)) = Supply(L) + g /\ Supply(L) \in Int
  BY <1>3, WithGenesisSupply, SupplyType
<1>7. (all + g) - lost <= Supply(L) + g /\ Supply(L) + g <= all + g
  BY <1>1, <1>3, <1>4, <1>6
<1>8. (k + 1) * GenesisSupply = all + g
  BY <1>3, <1>4, <1>5
<1>9. QED
  BY <1>2, <1>6, <1>7, <1>8 DEF Minted

LEMMA SupplyInit == Init => SupplyInv
<1> SUFFICES ASSUME Init PROVE SupplyInv
  OBVIOUS
<1>1. /\ statedb = EmptyLedger /\ ethState = EmptyLedger /\ receipts = <<>>
      /\ DOMAIN receiptTable = {} /\ starts = 0 /\ burnt = 0 /\ status = "down"
  BY DEF Init
<1>2. Minted(EmptyLedger, 0, 0, 0)
  BY EmptyMinted
<1>3. QED
  BY <1>1, <1>2 DEF SupplyInv, LedgersMinted, LifeMinted

(* What a start loads was minted before it.                                *)
LEMMA SupplyLife ==
    WASInv /\ SupplyInv /\ (NewState \/ NewStateFails \/ Crash) => SupplyInv'
<1> SUFFICES ASSUME WASInv, SupplyInv, NewState \/ NewStateFails \/ Crash PROVE SupplyInv'
  OBVIOUS
<1>1. starts \in Nat /\ burnt \in Nat
  BY DEF WASInv, TypeOK
<1>2. \A L : Minted(L, 0, starts, burnt) => Minted(L, 0, starts + 1, burnt)
  BY <1>1, MintedWider
<1>3. CASE NewState
  <2>1. PICK L \in tries \cup {EmptyLedger} : InitStateLoads(L) /\ statedb' = L /\ ResetWAS(L)
    BY <1>3 DEF NewState
  <2>2. /\ receiptTable' = receiptTable /\ receipts' = <<>> /\ ethState' = L
        /\ starts' = starts + 1 /\ genesis' = "pending" /\ burnt' = burnt
    BY <1>3, <2>1 DEF NewState, dbVars, ResetWAS
  <2>3. Minted(L, 0, starts, burnt)
    BY <1>1, <2>1, EmptyMinted DEF InitStateLoads, SupplyInv, LedgersMinted
  <2>4. starts' - 1 = starts
    BY <1>1, <2>2
  <2>5. LedgersMinted'
    BY <1>2, <2>1, <2>2, <2>3 DEF SupplyInv, LedgersMinted
  <2>6. LifeMinted'
    BY <2>2, <2>3, <2>4 DEF LifeMinted
  <2>7. QED
    BY <2>5, <2>6 DEF SupplyInv
<1>4. CASE NewStateFails
  BY <1>2, <1>4 DEF NewStateFails, dbVars, wasVars, SupplyInv, LedgersMinted, LifeMinted
<1>5. CASE Crash
  BY <1>5 DEF Crash, dbVars, wasVars, SupplyInv, LedgersMinted, LifeMinted
<1>6. QED
  BY <1>3, <1>4, <1>5

(* The genesis accounts are the only source of Ether.                      *)
LEMMA SupplyRequest ==
    ASSUME WASInv, SupplyInv,
           \/ NoGenesisFile \/ CreateAccounts
           \/ (\E m \in Calls : Call(m)) \/ (\E b \in Blocks : ProcessBlock(b))
    PROVE  SupplyInv'
<1>1. UNCHANGED <<statedb, receipts, receiptTable, starts, status, burnt>>
  BY DEF NoGenesisFile, CreateAccounts, Call, ProcessBlock, dbVars, wasVars, runVars
<1>2. CASE CreateAccounts
  <2>1. /\ ethState' = WithGenesis(ethState) /\ ethState \in Ledger /\ starts \in Nat /\ burnt \in Nat
        /\ status = "up" /\ genesis = "pending" /\ genesis' = "creating"
    BY <1>2 DEF CreateAccounts, WASInv, TypeOK
  <2>2. Minted(ethState, 0, starts - 1, burnt)
    BY <2>1 DEF SupplyInv, LifeMinted
  <2>3. Minted(ethState', 0 + 1, (starts - 1) + 1, burnt)
    BY <2>1, <2>2, MintedOnceMore
  <2>4. Minted(ethState', 1, starts, burnt)
    BY <2>1, <2>3
  <2>5. Minted(ethState', 0, starts, burnt)
    BY <2>1, <2>4, MintedWider
  <2>6. QED
    BY <1>1, <2>1, <2>4, <2>5 DEF SupplyInv, LedgersMinted, LifeMinted
<1>3. CASE ~CreateAccounts
  <2>1. /\ ethState' = ethState
        /\ genesis' = genesis \/ (starts \notin GenesisStarts /\ genesis' = "done")
    BY <1>3 DEF NoGenesisFile, Call, ProcessBlock, wasVars, runVars
  <2>2. QED
    BY <1>1, <2>1 DEF SupplyInv, LedgersMinted, LifeMinted
<1>4. QED
  BY <1>2, <1>3

(* Transactions only move Ether; those that fail lose what they paid.      *)
LEMMA ApplySupply ==
    ASSUME WASInv, WASInv', NEW p \in Tx \cup Junk,
           \/ ApplyTransaction(p)
           \/ RejectTransaction(p)
           \/ RunOutOfGas(p)
           \/ Overdraw(p)
    PROVE  \E cost \in Nat : /\ burnt' = burnt + cost
                             /\ Supply(ethState) - cost <= Supply(ethState')
                             /\ Supply(ethState') <= Supply(ethState)
<1>1. ethState \in Ledger /\ ethState' \in Ledger /\ burnt \in Nat
  BY DEF WASInv, TypeOK
<1>2. Supply(ethState) \in Int /\ Supply(ethState') \in Int
  BY <1>1, SupplyType
<1>3. CASE Supply(ethState') = Supply(ethState) /\ burnt' = burnt
  <2>1. burnt' = burnt + 0 /\ Supply(ethState) - 0 <= Supply(ethState')
    BY <1>1, <1>2, <1>3
  <2>2. QED
    BY <1>2, <1>3, <2>1
<1>4. CASE ApplyTransaction(p)
  <2>1. p \in Message /\ WellFormed(p) /\ Executes(ethState, gp, p)
    BY <1>4, ApplyingType DEF ApplyTransaction, Accepts, WASInv
  <2>2. Supply(ethState') = Supply(ethState) /\ burnt' = burnt
    BY <1>1, <1>4, <2>1, ExecuteSupply DEF ApplyTransaction, runVars
  <2>3. QED
    BY <1>3, <2>2
<1>5. CASE RejectTransaction(p)
  BY <1>3, <1>5 DEF RejectTransaction, wasVars, runVars
<1>6. CASE RunOutOfGas(p) \/ Overdraw(p)
  <2>1. PICK cost \in Nat : burnt' = burnt + cost /\ Supply(ethState') = Supply(ethState) - cost
    BY <1>6, FailedSupply DEF WASInv
  <2>2. QED
    BY <1>2, <2>1
<1>7. QED
  BY <1>4, <1>5, <1>6

LEMMA SupplyApply == WASInv /\ SupplyInv /\ Apply => SupplyInv'
<1> SUFFICES ASSUME WASInv, WASInv', SupplyInv, NEW p \in Tx \cup Junk,
                    \/ ApplyTransaction(p)
                    \/ RejectTransaction(p)
                    \/ RunOutOfGas(p)
                    \/ Overdraw(p)
             PROVE  SupplyInv'
  BY ApplyStep DEF Apply
<1>1. /\ UNCHANGED <<statedb, receiptTable, starts, status, genesis>>
      /\ ethState \in Ledger /\ ethState' \in Ledger /\ statedb \in Ledger
      /\ starts \in Int /\ burnt \in Nat
  BY DEF ApplyTransaction, RejectTransaction, RunOutOfGas, Overdraw, dbVars, runVars, WASInv, TypeOK
<1>2. PICK cost \in Nat : /\ burnt' = burnt + cost
                          /\ Supply(ethState) - cost <= Supply(ethState')
                          /\ Supply(ethState') <= Supply(ethState)
  BY ApplySupply
<1>3. \A lo, hi \in Int : Minted(ethState, lo, hi, burnt) => Minted(ethState', lo, hi, burnt')
  BY <1>1, <1>2, MintedLess
<1>4. \A L \in Ledger : \A lo, hi \in Int : Minted(L, lo, hi, burnt) => Minted(L, lo, hi, burnt')
  <2> SUFFICES ASSUME NEW L \in Ledger, NEW lo \in Int, NEW hi \in Int, Minted(L, lo, hi, burnt)
               PROVE  Minted(L, lo, hi, burnt')
    OBVIOUS
  <2>1. Supply(L) - cost <= Supply(L) /\ Supply(L) <= Supply(L)
    BY SupplyType
  <2>2. QED
    BY <1>1, <1>2, <2>1, MintedLess
<1>5. LifeMinted'
  BY <1>1, <1>3, <1>4 DEF SupplyInv, LifeMinted
<1>6. LedgersMinted'
  <2>1. Minted(ethState', 0, starts, burnt') /\ Minted(statedb, 0, starts, burnt')
    BY <1>1, <1>3, <1>4 DEF SupplyInv, LedgersMinted
  <2>2. \A t \in DOMAIN receiptTable : receiptTable[t].root \in Ledger
    BY DEF WASInv, TypeOK, Receipt
  <2>3. \A t \in DOMAIN receiptTable : Minted(receiptTable[t].root, 0, starts, burnt')
    BY <1>1, <1>4, <2>2 DEF SupplyInv, LedgersMinted
  <2>4. \A i \in DOMAIN receipts : receipts[i].root \in Ledger
    BY ReceiptType DEF WASInv, Receipt
  <2>5. \A i \in DOMAIN receipts : Minted(receipts[i].root, 0, starts, burnt')
    BY <1>1, <1>4, <2>4 DEF SupplyInv, LedgersMinted
  <2>6. \A i \in DOMAIN receipts' : Minted(receipts'[i].root, 0, starts, burnt')
    <3>1. CASE ApplyTransaction(p)
      <4> DEFINE r == [tx |-> p, root |-> ethState', gasUsed |-> p.used,
                       cumulativeGasUsed |-> totalUsedGas', failed |-> ~p.ok]
      <4>1. receipts' = Append(receipts, r) /\ r.root = ethState'
        BY <3>1 DEF ApplyTransaction
      <4> HIDE DEF r
      <4>2. receipts \in Seq(Receipt)
        BY DEF WASInv, TypeOK
      <4>3. \A i \in DOMAIN receipts' : receipts'[i] = r \/ (i \in DOMAIN receipts /\ receipts'[i] = receipts[i])
        BY <4>1, <4>2
      <4>4. QED
        BY <2>1, <2>5, <4>1, <4>3
    <3>2. CASE ~ApplyTransaction(p)
      <4>1. receipts' = receipts
        BY <3>2 DEF RejectTransaction, RunOutOfGas, Overdraw, wasVars
      <4>2. QED
        BY <2>5, <4>1
    <3>3. QED
      BY <3>1, <3>2
  <2>7. QED
    BY <1>1, <2>1, <2>3, <2>6 DEF LedgersMinted
<1>7. QED
  BY <1>5, <1>6 DEF SupplyInv

LEMMA SupplyCommit == WASInv /\ SupplyInv /\ (Commit \/ WriteFails) => SupplyInv'
<1> SUFFICES ASSUME WASInv, SupplyInv, Commit \/ WriteFails PROVE SupplyInv'
  OBVIOUS
<1>1. CASE CommitTo \/ WriteHead \/ WriteTransactions
  BY <1>1 DEF CommitTo, WriteHead, WriteTransactions, wasVars, runVars, SupplyInv, LedgersMinted,
              LifeMinted
<1>2. CASE WriteReceipts
  <2>1. \A t \in DOMAIN receiptTable' :
           \/ \E i \in DOMAIN receipts : receiptTable'[t] = receipts[i]
           \/ t \in DOMAIN receiptTable /\ receiptTable'[t] = receiptTable[t]
    BY <1>2, WriteReceiptsType
  <2>2. UNCHANGED <<statedb, wasVars, runVars>>
    BY <1>2 DEF WriteReceipts
  <2>3. QED
    BY <2>1, <2>2 DEF wasVars, runVars, SupplyInv, LedgersMinted, LifeMinted
<1>3. CASE Swap
  <2>1. /\ statedb' = ethState /\ ethState' = ethState /\ receipts' = <<>>
        /\ UNCHANGED <<receiptTable, starts, status, burnt>>
        /\ genesis' = IF genesis = "creating" THEN "done" ELSE genesis
    BY <1>3 DEF Swap, ResetWAS, dbVars
  <2>2. LedgersMinted'
    BY <2>1 DEF SupplyInv, LedgersMinted
  <2>3. LifeMinted'
    BY <2>1 DEF SupplyInv, LifeMinted
  <2>4. QED
    BY <2>2, <2>3 DEF SupplyInv
<1>4. CASE WriteFails
  BY <1>4 DEF WriteFails, dbVars, wasVars, SupplyInv, LedgersMinted, LifeMinted
<1>5. QED
  BY <1>1, <1>2, <1>3, <1>4 DEF Commit

LEMMA SupplyStutter == SupplyInv /\ UNCHANGED vars => SupplyInv'
BY DEF vars, dbVars, wasVars, runVars, SupplyInv, LedgersMinted, LifeMinted

(* Every ledger the node holds, in memory or under a stored receipt, has   *)
(* the Ether of genesis.json a whole number of times, no more often than   *)
(* the process was started, except for what failed transactions had paid   *)
(* for gas.                                                                *)
THEOREM SupplyInvCorrect == Spec => []SupplyInv
<1>1. WASInv /\ SupplyInv /\ [Next]_vars => SupplyInv'
  BY SupplyLife, SupplyRequest, SupplyApply, SupplyCommit, SupplyStutter DEF Next
<1>2. QED
  BY <1>1, SupplyInit, WASCorrect, PTL DEF Spec

(* Executions, leftovers, failed writes and crashes neither create nor     *)
(* destroy Ether of the served ledger; the only Ether that is ever lost is *)
(* what the transactions that failed had paid for their gas.               *)
THEOREM SupplyConservedCorrect == Spec => []SupplyConserved
<1>1. WASInv /\ SupplyInv => SupplyConserved
  <2> SUFFICES ASSUME WASInv, SupplyInv, status = "up"
               PROVE  \E k \in 0..starts :
                         /\ k * GenesisSupply - burnt <= Supply(statedb)
                         /\ Supply(statedb) <= k * GenesisSupply
                         /\ genesis = "done" /\ starts \in GenesisStarts => k > 0
    BY DEF SupplyConserved
  <2>1. CASE genesis = "done" /\ starts \in GenesisStarts
    <3>1. PICK k \in 1..starts : /\ k * GenesisSupply - burnt <= Supply(statedb)
                                 /\ Supply(statedb) <= k * GenesisSupply
      BY <2>1 DEF SupplyInv, LifeMinted, Minted
    <3>2. k \in 0..starts /\ k > 0
      BY <3>1 DEF WASInv, TypeOK
    <3>3. QED
      BY <3>1, <3>2
  <2>2. CASE ~(genesis = "done" /\ starts \in GenesisStarts)
    BY <2>2 DEF SupplyInv, LedgersMinted, Minted
  <2>3. QED
    BY <2>1, <2>2
<1>2. QED
  BY <1>1, SupplyInvCorrect, WASCorrect, PTL

----------------------------------------------------------------------------
(* ImplementsAtomicLedger.  The write of the receipts is the one step that *)
(* moves the abstract ledger forward, a start the one that may move it     *)
(* back; how far apart the served ledger, the WAS, the last receipt and    *)
(* the head can be at that moment has to be known at every step before.    *)

(* L is K after some transactions.                                         *)
NotBefore(L, K) == \A a \in Account : K.nonce[a] <= L.nonce[a]

(* L has given more Ether than K, but for what was lost.                   *)
Gained(L, K, given, lost) ==
    LET gain == Supply(L) - Supply(K) IN given - lost <= gain /\ gain <= given

(* L may have the Ether of the genesis accounts on top of that of K.       *)
GenesisApart(L, K, lost) == \E given \in {0, GenesisSupply} : Gained(L, K, given, lost)

\* The WAS is the served ledger after its own transactions.
WASAhead ==
    /\ NotBefore(ethState, statedb)
    /\ \A i \in DOMAIN transactions :
          statedb.nonce[transactions[i].from] <= transactions[i].nonce
    /\ \A i, j \in DOMAIN transactions :
          /\ transactions[i].from = transactions[j].from
          /\ transactions[i].nonce = transactions[j].nonce
          => transactions[i] = transactions[j]
    /\ Gained(ethState, statedb, IF genesis = "creating" THEN GenesisSupply ELSE 0, burnt)

\* It is at or after its last receipt.
LastBehind ==
    receipts # <<>> =>
        LET last == receipts[Len(receipts)].root
        IN  /\ NotBefore(ethState, last)
            /\ GenesisApart(ethState, last, burnt)
            /\ genesis = "pending" => Gained(ethState, last, 0, burnt)

\* The committed ledger is at or after the head.
HeadBehind ==
    headTx \in DOMAIN receiptTable =>
        /\ NotBefore(CommittedLedger, receiptTable[headTx].root)
        /\ GenesisApart(CommittedLedger, receiptTable[headTx].root, burnt)

LedgerInv == WASAhead /\ LastBehind /\ HeadBehind

LEMMA NotBeforeItself ==
    ASSUME NEW L \in Ledger, NEW lost \in Nat
    PROVE  NotBefore(L, L) /\ Gained(L, L, 0, lost) /\ GenesisApart(L, L, lost)
<1>1. \A a \in Account : L.nonce[a] \in Nat
  BY DEF Ledger
<1>2. Supply(L) \in Nat
  BY SupplyType
<1>3. Gained(L, L, 0, lost)
  BY <1>2 DEF Gained
<1>4. QED
  BY <1>1, <1>3 DEF NotBefore, GenesisApart

(* What L loses on its way to M is added to what was lost.                 *)
LEMMA GainedLess ==
    ASSUME NEW K \in Ledger, NEW L \in Ledger, NEW M \in Ledger,
           NEW lost \in Nat, NEW cost \in Nat,
           Supply(L) - cost <= Supply(M), Supply(M) <= Supply(L)
    PROVE  /\ \A given \in Nat : Gained(L, K, given, lost) => Gained(M, K, given, lost + cost)
           /\ GenesisApart(L, K, lost) => GenesisApart(M, K, lost + cost)
<1>1. Supply(K) \in Int /\ Supply(L) \in Int /\ Supply(M) \in Int
  BY SupplyType
<1>2. ASSUME NEW given \in Nat, Gained(L, K, given, lost)
      PROVE  Gained(M, K, given, lost + cost)
  BY <1>1, <1>2 DEF Gained
<1>3. QED
  BY <1>2, GenesisSupplyType DEF GenesisApart

(* The genesis accounts give what the file says.                           *)
LEMMA GainedGenesis ==
    ASSUME NEW K \in Ledger, NEW L \in Ledger, NEW lost \in Nat, Gained(L, K, 0, lost)
    PROVE  /\ Gained(WithGenesis(L), K, GenesisSupply, lost)
           /\ GenesisApart(WithGenesis(L), K, lost)
<1>1. /\ Supply(K) \in Int /\ Supply(L) \in Int /\ GenesisSupply \in Nat
      /\ Supply(WithGenesis(L)) = Supply(L) + GenesisSupply
  BY SupplyType, WithGenesisSupply
<1>2. Gained(WithGenesis(L), K, GenesisSupply, lost)
  BY <1>1 DEF Gained
<1>3. QED
  BY <1>2 DEF GenesisApart

LEMMA NotBeforeTrans ==
    ASSUME NEW K \in Ledger, NEW L \in Ledger, NEW M \in Ledger, NotBefore(L, K), NotBefore(M, L)
    PROVE  NotBefore(M, K)
<1>1. \A a \in Account : K.nonce[a] \in Nat /\ L.nonce[a] \in Nat /\ M.nonce[a] \in Nat
  BY DEF Ledger
<1>2. QED
  BY <1>1 DEF NotBefore

LEMMA LastRootType ==
    ASSUME WASInv, receipts # <<>>
    PROVE  receipts[Len(receipts)].root \in Ledger
<1>1. receipts[Len(receipts)] \in Receipt
  BY DEF WASInv, TypeOK
<1>2. QED
  BY <1>1 DEF Receipt

LEMMA HeadRootType ==
    ASSUME WASInv, headTx \in DOMAIN receiptTable
    PROVE  receiptTable[headTx].root \in Ledger
<1>1. receiptTable[headTx] \in Receipt
  BY DEF WASInv, TypeOK
<1>2. QED
  BY <1>1 DEF Receipt

LEMMA CommittedType == WASInv => CommittedLedger \in Ledger
BY DEF WASInv, TypeOK, CommittedLedger

LEMMA LedgerInit == Init => LedgerInv
<1> SUFFICES ASSUME Init PROVE LedgerInv
  OBVIOUS
<1>1. /\ statedb = EmptyLedger /\ ethState = EmptyLedger /\ receipts = <<>>
      /\ transactions = <<>> /\ DOMAIN receiptTable = {} /\ genesis = "pending" /\ burnt = 0
  BY DEF Init
<1>2. NotBefore(ethState, statedb) /\ Gained(ethState, statedb, 0, burnt)
  BY <1>1, EmptyLedgerType, NotBeforeItself
<1>3. QED
  BY <1>1, <1>2 DEF LedgerInv, WASAhead, LastBehind, HeadBehind

(* A fresh WAS is the served ledger.                                       *)
LEMMA LedgerReset ==
    ASSUME NEW L \in Ledger, statedb' = L, ResetWAS(L), genesis' # "creating", burnt' \in Nat
    PROVE  WASAhead' /\ LastBehind'
<1>1. /\ ethState' = L /\ transactions' = <<>> /\ receipts' = <<>>
  BY DEF ResetWAS
<1>2. NotBefore(L, L) /\ Gained(L, L, 0, burnt')
  BY NotBeforeItself
<1>3. QED
  BY <1>1, <1>2 DEF WASAhead, LastBehind

LEMMA LedgerLife ==
    WASInv /\ LedgerInv /\ (NewState \/ NewStateFails \/ Crash) => LedgerInv'
<1> SUFFICES ASSUME WASInv, LedgerInv, NewState \/ NewStateFails \/ Crash PROVE LedgerInv'
  OBVIOUS
<1>1. CASE NewState
  <2>1. PICK L \in tries \cup {EmptyLedger} : InitStateLoads(L) /\ statedb' = L /\ ResetWAS(L)
    BY <1>1 DEF NewState
  <2>2. /\ UNCHANGED <<headTx, receiptTable>> /\ pc' = "idle" /\ genesis' = "pending"
        /\ L \in Ledger /\ NoHead \notin DOMAIN receiptTable /\ burnt' \in Nat
    BY <1>1, <2>1, EmptyLedgerType, StateAssumption DEF NewState, dbVars, WASInv, TypeOK
  <2>3. WASAhead' /\ LastBehind'
    BY <2>1, <2>2, LedgerReset
  <2>4. CommittedLedger' = L
    BY <2>1, <2>2 DEF CommittedLedger
  <2>5. headTx \in DOMAIN receiptTable => receiptTable[headTx].root = L
    BY <2>1, <2>2 DEF InitStateLoads
  <2>6. HeadBehind'
    BY <2>2, <2>4, <2>5, NotBeforeItself DEF HeadBehind
  <2>7. QED
    BY <2>3, <2>6 DEF LedgerInv
<1>2. CASE NewStateFails \/ Crash
  BY <1>2 DEF NewStateFails, Crash, dbVars, wasVars, LedgerInv, WASAhead, LastBehind, HeadBehind,
              CommittedLedger
<1>3. QED
  BY <1>1, <1>2

LEMMA LedgerRequest ==
    ASSUME WASInv, LedgerInv,
           \/ NoGenesisFile \/ CreateAccounts
           \/ (\E m \in Calls : Call(m)) \/ (\E b \in Blocks : ProcessBlock(b))
    PROVE  LedgerInv'
<1>1. UNCHANGED <<headTx, receiptTable, statedb, transactions, receipts, burnt>>
  BY DEF NoGenesisFile, CreateAccounts, Call, ProcessBlock, dbVars, wasVars, runVars
<1>2. ethState \in Ledger /\ statedb \in Ledger /\ burnt \in Nat
  BY DEF WASInv, TypeOK
<1>3. HeadBehind'
  <2>1. CommittedLedger' = CommittedLedger
    BY <1>1 DEF NoGenesisFile, CreateAccounts, Call, ProcessBlock, wasVars, CommittedLedger
  <2>2. QED
    BY <1>1, <2>1 DEF LedgerInv, HeadBehind
<1>4. CASE CreateAccounts
  <2>1. /\ ethState' = WithGenesis(ethState) /\ genesis = "pending" /\ genesis' = "creating"
        /\ ethState'.nonce = ethState.nonce
    BY <1>2, <1>4, WithGenesisType DEF CreateAccounts
  <2>2. Gained(ethState', statedb, GenesisSupply, burnt)
    BY <1>2, <2>1, GainedGenesis DEF LedgerInv, WASAhead
  <2>3. WASAhead'
    BY <1>1, <2>1, <2>2 DEF LedgerInv, WASAhead, NotBefore
  <2>4. LastBehind'
    <3>1. CASE receipts = <<>>
      BY <1>1, <3>1 DEF LastBehind
    <3>2. CASE receipts # <<>>
      <4>1. PICK last \in Ledger : last = receipts[Len(receipts)].root
        BY <3>2, LastRootType
      <4>2. NotBefore(ethState, last) /\ Gained(ethState, last, 0, burnt)
        BY <2>1, <3>2, <4>1 DEF LedgerInv, LastBehind
      <4>3. NotBefore(ethState', last) /\ GenesisApart(ethState', last, burnt)
        BY <1>2, <2>1, <4>2, GainedGenesis DEF NotBefore
      <4>4. QED
        BY <1>1, <2>1, <4>1, <4>3 DEF LastBehind
    <3>3. QED
      BY <3>1, <3>2
  <2>5. QED
    BY <1>3, <2>3, <2>4 DEF LedgerInv
<1>5. CASE ~CreateAccounts
  <2>1. ethState' = ethState /\ (genesis' = genesis \/ (genesis = "pending" /\ genesis' = "done"))
    BY <1>5 DEF NoGenesisFile, Call, ProcessBlock, wasVars, runVars
  <2>2. QED
    BY <1>1, <1>3, <2>1 DEF LedgerInv, WASAhead, LastBehind
<1>6. QED
  BY <1>4, <1>5

(* An applied transaction takes the next nonce of its sender: it is past   *)
(* the served ledger and shares its nonce with none before it.             *)
LEMMA LedgerApply == WASInv /\ LedgerInv /\ Apply => LedgerInv'
<1> SUFFICES ASSUME WASInv, WASInv', LedgerInv, NEW p \in Tx \cup Junk,
                    \/ ApplyTransaction(p)
                    \/ RejectTransaction(p)
                    \/ RunOutOfGas(p)
                    \/ Overdraw(p)
             PROVE  LedgerInv'
  BY ApplyStep DEF Apply
<1>1. /\ UNCHANGED <<headTx, receiptTable, statedb, genesis>> /\ pc = "apply" /\ pc' \in {"apply", "idle"}
  BY DEF ApplyTransaction, RejectTransaction, RunOutOfGas, Overdraw, Applying, AbandonBlock,
         dbVars, runVars
<1>2. /\ statedb \in Ledger /\ ethState \in Ledger /\ ethState' \in Ledger
      /\ burnt \in Nat /\ burnt' \in Nat
  BY DEF WASInv, TypeOK
<1>3. PICK cost \in Nat : /\ burnt' = burnt + cost
                          /\ Supply(ethState) - cost <= Supply(ethState')
                          /\ Supply(ethState') <= Supply(ethState)
  BY ApplySupply
<1>4. /\ \A K \in Ledger : \A given \in Nat :
            Gained(ethState, K, given, burnt) => Gained(ethState', K, given, burnt')
      /\ \A K \in Ledger : GenesisApart(ethState, K, burnt) => GenesisApart(ethState', K, burnt')
  BY <1>2, <1>3, GainedLess
<1>5. Gained(ethState', statedb, IF genesis = "creating" THEN GenesisSupply ELSE 0, burnt')
  BY <1>2, <1>4, GenesisSupplyType DEF LedgerInv, WASAhead
<1>6. HeadBehind'
  <2>1. CommittedLedger' = CommittedLedger
    BY <1>1 DEF CommittedLedger
  <2>2. SUFFICES ASSUME headTx \in DOMAIN receiptTable
                 PROVE  /\ NotBefore(CommittedLedger, receiptTable[headTx].root)
                        /\ GenesisApart(CommittedLedger, receiptTable[headTx].root, burnt')
    BY <1>1, <2>1 DEF HeadBehind
  <2>3. PICK K \in Ledger : K = receiptTable[headTx].root
    BY <2>2, HeadRootType
  <2>4. PICK L \in Ledger : L = CommittedLedger
    BY CommittedType
  <2>5. NotBefore(L, K) /\ GenesisApart(L, K, burnt)
    BY <2>2, <2>3, <2>4 DEF LedgerInv, HeadBehind
  <2>6. Supply(L) - cost <= Supply(L) /\ Supply(L) <= Supply(L)
    BY SupplyType
  <2>7. GenesisApart(L, K, burnt')
    BY <1>2, <1>3, <2>5, <2>6, GainedLess
  <2>8. QED
    BY <2>3, <2>4, <2>5, <2>7
<1>7. CASE ApplyTransaction(p)
  <2>1. p \in Tx /\ p \in Message /\ WellFormed(p) /\ p.from \in Account /\ p.nonce \in Nat
    BY <1>7, ApplyingType DEF ApplyTransaction, Decodes, WASInv, Message
  <2>2. /\ NotBefore(ethState', ethState) /\ p.nonce = ethState.nonce[p.from]
    BY <1>2, <1>7, <2>1, ExecuteType DEF ApplyTransaction, Accepts, NonceMatches, NotBefore
  <2>3. transactions \in Seq(Tx) /\ transactions' = Append(transactions, p)
    BY <1>7 DEF ApplyTransaction, WASInv, TypeOK
  <2>4. \A i \in DOMAIN transactions' :
           \/ transactions'[i] = p
           \/ i \in DOMAIN transactions /\ transactions'[i] = transactions[i]
    BY <2>1, <2>3
  <2>5. statedb.nonce[p.from] <= p.nonce
    BY <2>1, <2>2 DEF LedgerInv, WASAhead, NotBefore
  <2>6. \A i \in DOMAIN transactions : transactions[i].from = p.from => transactions[i].nonce # p.nonce
    <3>1. \A i \in DOMAIN transactions : transactions[i].nonce \in Nat
      BY TransactionType DEF WASInv
    <3>2. QED
      BY <2>1, <2>2, <3>1 DEF WASInv, WASCovers
  <2>7. NotBefore(ethState', statedb)
    BY <1>2, <2>2, NotBeforeTrans DEF LedgerInv, WASAhead
  <2>8. WASAhead'
    <3>1. \A i \in DOMAIN transactions' :
             statedb.nonce[transactions'[i].from] <= transactions'[i].nonce
      BY <2>4, <2>5 DEF LedgerInv, WASAhead
    <3>2. \A i, j \in DOMAIN transactions' :
             /\ transactions'[i].from = transactions'[j].from
             /\ transactions'[i].nonce = transactions'[j].nonce
             => transactions'[i] = transactions'[j]
      BY <2>4, <2>6 DEF LedgerInv, WASAhead
    <3>3. QED
      BY <1>1, <1>5, <2>7, <3>1, <3>2 DEF WASAhead
  <2>9. LastBehind'
    <3> DEFINE r == [tx |-> p, root |-> ethState', gasUsed |-> p.used,
                     cumulativeGasUsed |-> totalUsedGas', failed |-> ~p.ok]
    <3>1. receipts' = Append(receipts, r) /\ r.root = ethState' /\ receipts \in Seq(Receipt)
      BY <1>7 DEF ApplyTransaction, WASInv, TypeOK
    <3> HIDE DEF r
    <3>2. receipts'[Len(receipts')].root = ethState'
      BY <3>1
    <3>3. QED
      BY <1>2, <3>2, NotBeforeItself DEF LastBehind
  <2>10. QED
    BY <1>6, <2>8, <2>9 DEF LedgerInv
<1>8. CASE RejectTransaction(p) \/ RunOutOfGas(p) \/ Overdraw(p)
  <2>1. UNCHANGED <<transactions, receipts>>
    BY <1>8 DEF RejectTransaction, RunOutOfGas, Overdraw, wasVars
  <2>2. NotBefore(ethState', ethState)
    <3>1. CASE RunOutOfGas(p) \/ Overdraw(p)
      BY <3>1, FailedType DEF WASInv, NotBefore
    <3>2. CASE RejectTransaction(p)
      BY <1>2, <3>2, NotBeforeItself DEF RejectTransaction, wasVars
    <3>3. QED
      BY <1>8, <3>1, <3>2
  <2>3. WASAhead'
    <3>1. NotBefore(ethState', statedb)
      BY <1>2, <2>2, NotBeforeTrans DEF LedgerInv, WASAhead
    <3>2. QED
      BY <1>1, <1>5, <2>1, <3>1 DEF LedgerInv, WASAhead
  <2>4. LastBehind'
    <3>1. CASE receipts # <<>>
      <4>1. PICK last \in Ledger : last = receipts[Len(receipts)].root
        BY <3>1, LastRootType
      <4>2. /\ NotBefore(ethState, last) /\ GenesisApart(ethState, last, burnt)
            /\ genesis = "pending" => Gained(ethState, last, 0, burnt)
        BY <3>1, <4>1 DEF LedgerInv, LastBehind
      <4>3. NotBefore(ethState', last)
        BY <1>2, <2>2, <4>2, NotBeforeTrans
      <4>4. QED
        BY <1>1, <1>4, <2>1, <4>1, <4>2, <4>3 DEF LastBehind
    <3>2. CASE receipts = <<>>
      BY <2>1, <3>2 DEF LastBehind
    <3>3. QED
      BY <3>1, <3>2
  <2>5. QED
    BY <1>6, <2>3, <2>4 DEF LedgerInv
<1>9. QED
  BY <1>7, <1>8

(* Writing the receipts makes the last of them the head.                   *)
LEMMA LedgerCommit ==
    WASInv /\ HistoryInv /\ LedgerInv /\ (Commit \/ WriteFails) => LedgerInv'
<1> SUFFICES ASSUME WASInv, HistoryInv, LedgerInv, Commit \/ WriteFails PROVE LedgerInv'
  OBVIOUS
<1>1. CASE Swap
  <2>1. /\ UNCHANGED <<headTx, receiptTable>> /\ pc = "swap" /\ pc' = "idle"
        /\ statedb' = ethState /\ ResetWAS(ethState) /\ ethState \in Ledger
        /\ genesis' # "creating" /\ burnt' = burnt /\ burnt \in Nat
    BY <1>1 DEF Swap, Committing, dbVars, WASInv, TypeOK
  <2>2. WASAhead' /\ LastBehind'
    BY <2>1, LedgerReset
  <2>3. CommittedLedger' = CommittedLedger
    BY <2>1 DEF CommittedLedger
  <2>4. HeadBehind'
    BY <2>1, <2>3 DEF LedgerInv, HeadBehind
  <2>5. QED
    BY <2>2, <2>4 DEF LedgerInv
<1>2. CASE CommitTo \/ WriteHead \/ WriteTransactions \/ WriteReceipts \/ WriteFails
  <2>1. UNCHANGED <<statedb, ethState, transactions, receipts, genesis, burnt>>
    BY <1>2 DEF CommitTo, WriteHead, WriteTransactions, WriteReceipts, WriteFails, wasVars, runVars
  <2>2. WASAhead' /\ LastBehind'
    BY <2>1 DEF LedgerInv, WASAhead, LastBehind
  <2>3. HeadBehind'
    <3>1. CASE CommitTo \/ WriteTransactions \/ WriteFails
      <4>1. UNCHANGED <<headTx, receiptTable>> /\ pc # "swap" /\ pc' # "swap"
        BY <3>1 DEF CommitTo, WriteTransactions, WriteFails, Committing, dbVars
      <4>2. QED
        BY <2>1, <4>1 DEF LedgerInv, HeadBehind, CommittedLedger
    <3>2. CASE WriteHead
      BY <3>2, FreshHead DEF WriteHead, HeadBehind
    <3>3. CASE WriteReceipts
      <4>1. headTx' = HeadOf(transactions) /\ CommittedLedger' = ethState
        BY <2>1, <3>3 DEF WriteReceipts, Committing, CommittedLedger, HistoryInv, HeadSet
      <4>2. CASE transactions = <<>>
        <5>1. headTx' \notin DOMAIN receiptTable'
          BY <3>3, <4>1, <4>2, WriteReceiptsType, StateAssumption DEF HeadOf
        <5>2. QED
          BY <5>1 DEF HeadBehind
      <4>3. CASE transactions # <<>>
        <5>1. receipts # <<>> /\ receiptTable'[headTx'] = receipts[Len(receipts)]
          BY <3>3, <4>1, <4>3, LastReceiptStored
        <5>2. QED
          BY <2>1, <4>1, <5>1 DEF LedgerInv, LastBehind, HeadBehind
      <4>4. QED
        BY <4>2, <4>3
    <3>4. QED
      BY <1>2, <3>1, <3>2, <3>3
  <2>4. QED
    BY <2>2, <2>3 DEF LedgerInv
<1>3. QED
  BY <1>1, <1>2 DEF Commit

LEMMA LedgerStutter == LedgerInv /\ UNCHANGED vars => LedgerInv'
BY DEF vars, dbVars, wasVars, runVars, LedgerInv, WASAhead, LastBehind, HeadBehind, CommittedLedger

(* How far the ledgers of a node are apart at every step.                  *)
THEOREM LedgerInvCorrect == Spec => []LedgerInv
<1>1. WASInv /\ HistoryInv /\ LedgerInv /\ [Next]_vars => LedgerInv'
  BY LedgerLife, LedgerRequest, LedgerApply, LedgerCommit, LedgerStutter DEF Next
<1>2. QED
  BY <1>1, LedgerInit, WASCorrect, HistoryCorrect, PTL DEF Spec

(* The two modules mean the same sum.                                      *)
LEMMA SameSum == ASSUME NEW L PROVE Committed!SumFunction(L.balance) = Supply(L)
BY DEF Supply, SumFunction, SumFunctionOnSet, FoldFunctionOnSet, MapThenFoldSet,
       Committed!SumFunction, Committed!SumFunctionOnSet, Committed!FoldFunctionOnSet,
       Committed!MapThenFoldSet

(* What this module says of the Ether of two ledgers is what the abstract  *)
(* ledger says of it.                                                      *)
LEMMA SamePays ==
    ASSUME NEW K, NEW L, GenesisApart(L, K, burnt)
    PROVE  Committed!Pays(K.balance, L.balance)
BY SameSum DEF Committed!Pays, GenesisApart, Gained

(* A step that leaves the committed ledger and the receipts alone settles  *)
(* the empty batch.                                                        *)
LEMMA AdvanceByNothing ==
    ASSUME WASInv, CommittedLedger' = CommittedLedger, DOMAIN receiptTable' = DOMAIN receiptTable,
           drifted => drifted', burnt <= burnt'
    PROVE  Committed!Advance
<1>1. NotBefore(CommittedLedger, CommittedLedger) /\ GenesisApart(CommittedLedger, CommittedLedger, burnt)
  BY CommittedType, NotBeforeItself DEF WASInv, TypeOK
<1>2. DOMAIN receiptTable \subseteq Tx
  BY DEF WASInv, TypeOK
<1>3. Committed!Settles(DOMAIN receiptTable' \ DOMAIN receiptTable)
  BY <1>1 DEF Committed!Settles, NotBefore
<1>4. Committed!Pays(CommittedLedger.balance, CommittedLedger.balance)
  BY <1>1, SamePays
<1>5. QED
  BY <1>2, <1>3, <1>4 DEF Committed!Advance

(* A start serves the committed ledger again, or falls back to the head.   *)
LEMMA StartImplements ==
    ASSUME WASInv, HistoryInv, RestartInv, LedgerInv, NewState
    PROVE  Committed!Step
<1>1. PICK L \in tries \cup {EmptyLedger} : InitStateLoads(L) /\ statedb' = L
  BY DEF NewState
<1>2. UNCHANGED <<headTx, receiptTable, drifted, burnt>> /\ pc' = "idle" /\ burnt <= burnt'
  BY DEF NewState, dbVars, WASInv, TypeOK
<1>3. CommittedLedger' = L
  BY <1>1, <1>2 DEF CommittedLedger
<1>4. CASE L = CommittedLedger
  BY <1>2, <1>3, <1>4, AdvanceByNothing DEF Committed!Step
<1>5. CASE L # CommittedLedger
  <2>1. headTx \in DOMAIN receiptTable /\ L = receiptTable[headTx].root /\ drifted
    BY <1>1, <1>5 DEF InitStateLoads, RestartInv, HeadExact
  <2>2. NotBefore(CommittedLedger, L) /\ GenesisApart(CommittedLedger, L, burnt)
    BY <2>1 DEF LedgerInv, HeadBehind
  <2>3. Covers(L, DOMAIN receiptTable)
    BY <2>1 DEF HistoryInv, HeadCoversReceipts
  <2>4. Committed!Pays(L.balance, CommittedLedger.balance)
    BY <2>2, SamePays
  <2>5. Committed!FallBack
    BY <1>2, <1>3, <2>1, <2>2, <2>3, <2>4 DEF Committed!FallBack, NotBefore, Covers
  <2>6. QED
    BY <2>5 DEF Committed!Step
<1>6. QED
  BY <1>4, <1>5

(* The last write settles the transactions of the WAS, all at once.        *)
LEMMA WriteReceiptsImplements ==
    ASSUME WASInv, HistoryInv, LedgerInv, WriteReceipts
    PROVE  Committed!Advance
<1>1. /\ CommittedLedger = statedb /\ CommittedLedger' = ethState /\ drifted' = drifted
      /\ status = "up" /\ pc = "writeReceipts" /\ burnt <= burnt'
  BY DEF WriteReceipts, Committing, wasVars, runVars, CommittedLedger, WASInv, TypeOK
<1>2. /\ DOMAIN receiptTable' = DOMAIN receiptTable \cup Range(transactions)
      /\ DOMAIN receiptTable' \subseteq Tx
  BY WriteReceiptsType
<1>3. DOMAIN receiptTable' \ DOMAIN receiptTable \subseteq Range(transactions)
  BY <1>2
<1>4. \A t \in Range(transactions) : \E i \in DOMAIN transactions : t = transactions[i]
  BY DEF Range
<1>5. Committed!Settles(DOMAIN receiptTable' \ DOMAIN receiptTable)
  <2>1. \A a \in Account : statedb.nonce[a] <= ethState.nonce[a]
    BY DEF LedgerInv, WASAhead, NotBefore
  <2>2. \A t \in Range(transactions) :
           statedb.nonce[t.from] <= t.nonce /\ t.nonce < ethState.nonce[t.from]
    BY <1>4 DEF LedgerInv, WASAhead, WASInv, WASCovers
  <2>3. \A t, u \in Range(transactions) : t.from = u.from /\ t.nonce = u.nonce => t = u
    BY <1>4 DEF LedgerInv, WASAhead
  <2>4. QED
    BY <1>1, <1>3, <2>1, <2>2, <2>3 DEF Committed!Settles
<1>6. Committed!Pays(statedb.balance, ethState.balance)
  <2>1. GenesisApart(ethState, statedb, burnt)
    BY DEF LedgerInv, WASAhead, GenesisApart
  <2>2. QED
    BY <2>1, SamePays
<1>7. QED
  BY <1>1, <1>2, <1>5, <1>6 DEF Committed!Advance

(* A node, with all its crashes, failed writes and restarts, is an atomic  *)
(* ledger: every step of it settles a batch of transactions for good, or   *)
(* changes nothing a reader could see, or falls back after a drift.        *)
THEOREM ImplementsAtomicLedgerCorrect == Spec => ImplementsAtomicLedger
<1>1. Init => Committed!Init
  BY DEF Init, Committed!Init, CommittedLedger, EmptyLedger
<1>2. WASInv /\ HistoryInv /\ RestartInv /\ LedgerInv /\ [Next]_vars
        => [Committed!Step]_(Committed!vars)
  <2> SUFFICES ASSUME WASInv, HistoryInv, RestartInv, LedgerInv, [Next]_vars
               PROVE  Committed!Step \/ UNCHANGED Committed!vars
    OBVIOUS
  <2>1. burnt <= burnt
    BY DEF WASInv, TypeOK
  <2>2. CASE NewState
    BY <2>2, StartImplements
  <2>3. CASE WriteReceipts
    BY <2>3, WriteReceiptsImplements DEF Committed!Step
  <2>4. CASE CreateAccounts \/ Apply
    <3>1. UNCHANGED <<statedb, receiptTable>> /\ pc # "swap" /\ pc' # "swap"
      BY <2>4 DEF CreateAccounts, Apply, ApplyTransaction, RejectTransaction, RunOutOfGas, Overdraw,
                  Applying, AbandonBlock, dbVars, wasVars
    <3>2. (drifted => drifted') /\ burnt <= burnt'
      <4>1. burnt <= burnt
        BY DEF WASInv, TypeOK
      <4>2. CASE \E p \in Tx \cup Junk : RunOutOfGas(p) \/ Overdraw(p)
        <5>1. Drifts /\ burnt <= burnt'
          BY <4>2, FailedType DEF WASInv
        <5>2. QED
          BY <5>1 DEF Drifts
      <4>3. CASE ~\E p \in Tx \cup Junk : RunOutOfGas(p) \/ Overdraw(p)
        <5>1. CASE CreateAccounts
          BY <4>1, <5>1 DEF CreateAccounts, Drifts
        <5>2. CASE \E p \in Tx \cup Junk : ApplyTransaction(p) \/ RejectTransaction(p)
          BY <4>1, <5>2 DEF ApplyTransaction, RejectTransaction, runVars
        <5>3. QED
          BY <2>4, <4>3, <5>1, <5>2 DEF Apply
      <4>4. QED
        BY <4>2, <4>3
    <3>3. CommittedLedger' = CommittedLedger
      BY <3>1 DEF CommittedLedger
    <3>4. QED
      BY <3>1, <3>2, <3>3, AdvanceByNothing DEF Committed!Step
  <2>5. CASE Swap
    <3>1. /\ pc = "swap" /\ pc' = "idle" /\ statedb' = ethState
          /\ UNCHANGED <<receiptTable, drifted, burnt>>
      BY <2>5 DEF Swap, Committing, dbVars
    <3>2. CommittedLedger' = CommittedLedger
      BY <3>1 DEF CommittedLedger
    <3>3. QED
      BY <2>1, <3>1, <3>2, AdvanceByNothing DEF Committed!Step
  <2>6. CASE \/ NewStateFails \/ Crash \/ NoGenesisFile
             \/ (\E m \in Calls : Call(m)) \/ (\E b \in Blocks : ProcessBlock(b))
    <3>1. UNCHANGED <<statedb, ethState, receiptTable, drifted, burnt>>
      BY <2>6 DEF NewStateFails, Crash, NoGenesisFile, Call, ProcessBlock, dbVars, wasVars, runVars
    <3>2. pc' = pc \/ (pc # "swap" /\ pc' # "swap")
      BY <2>6 DEF NewStateFails, Crash, NoGenesisFile, Call, ProcessBlock
    <3>3. CommittedLedger' = CommittedLedger
      BY <3>1, <3>2 DEF CommittedLedger
    <3>4. QED
      BY <2>1, <3>1, <3>3, AdvanceByNothing DEF Committed!Step
  <2>7. CASE CommitTo \/ WriteHead \/ WriteTransactions \/ WriteFails
    <3>1. UNCHANGED <<statedb, receiptTable, drifted, burnt>> /\ pc # "swap" /\ pc' # "swap"
      BY <2>7 DEF CommitTo, WriteHead, WriteTransactions, WriteFails, Committing, dbVars, runVars
    <3>2. CommittedLedger' = CommittedLedger
      BY <3>1 DEF CommittedLedger
    <3>3. QED
      BY <2>1, <3>1, <3>2, AdvanceByNothing DEF Committed!Step
  <2>8. CASE UNCHANGED vars
    <3>1. UNCHANGED <<CommittedLedger, receiptTable, drifted, burnt>>
      BY <2>8 DEF vars, dbVars, wasVars, runVars, CommittedLedger
    <3>2. QED
      BY <2>1, <3>1, AdvanceByNothing DEF Committed!Step
  <2>9. QED
    BY <2>2, <2>3, <2>4, <2>5, <2>6, <2>7, <2>8 DEF Next, Commit
<1>3. QED
  BY <1>1, <1>2, WASCorrect, HistoryCorrect, RestartInvCorrect, LedgerInvCorrect, PTL
     DEF Spec, ImplementsAtomicLedger, Committed!Spec

----------------------------------------------------------------------------
(* Requests, handlers and the loop.                                        *)

(* What a handler at some place has been asked for, and that there is one  *)
(* only while the process serves.                                          *)
Fits(c) ==
    /\ at[c] # "idle" => Serving
    /\ at[c] = "waiting" => request[c] \in Requests
    /\ at[c] = "nonce" => reading # <<>>
    /\ at[c] = "call" => request[c].what \in Calls
    /\ at[c] = "tx" => request[c].what \in TxArgs
    /\ at[c] = "rawtx" => request[c].what \in RawTx
    /\ at[c] = "submit" => entry \in Tx \cup Junk
    /\ at[c] \in {"receipt", "found"} => request[c].what \in Tx

Control ==
    /\ mutex \in Client \cup {NoOne, Panicked}
    /\ at \in [Client -> Places]
    /\ \A c \in Client : at[c] \notin {"idle", "waiting"} <=> mutex = c
    /\ request \in [Client -> Requests \cup {NoRequest}]
    /\ reading \in Seq(Account)
    /\ entry \in Tx \cup Junk \cup {NoNonce}
    /\ loop \in {"select", "submit", "lock", "process"}
    /\ loop = "submit" => inHand \in Tx \cup Junk
    /\ loop = "lock" => batch \in Blocks

ControlInv == Control /\ \A c \in Client : Fits(c)

(* The kinds of requests are told apart by their kind.                     *)
LEMMA RequestKinds ==
    ASSUME NEW r \in Requests
    PROVE  /\ r.kind \in {"accounts", "call", "tx", "rawtx", "receipt", "bad"}
           /\ r.kind = "accounts" => r.what \in Seq(Account)
           /\ r.kind = "call" => r.what \in Calls
           /\ r.kind = "tx" => r.what \in TxArgs
           /\ r.kind = "rawtx" => r.what \in RawTx
           /\ r.kind = "receipt" => r.what \in Tx
<1>1. Reads \subseteq Seq(Account)
  <2>1. \A x \in Account : <<x>> \in Seq(Account)
    OBVIOUS
  <2>2. QED
    BY <2>1, NodeAssumption DEF Reads
<1>2. QED
  BY <1>1 DEF Requests

(* No process, no requests.                                                *)
LEMMA ControlInit == NodeInit => ControlInv
<1> SUFFICES ASSUME NodeInit PROVE ControlInv
  OBVIOUS
<1>1. \A c \in Client : NoOne # c /\ Panicked # c
  BY NodeAssumption
<1>2. Control
  BY <1>1 DEF NodeInit, Control, Places
<1>3. ASSUME NEW c \in Client PROVE Fits(c)
  BY DEF NodeInit, Fits
<1>4. QED
  BY <1>2, <1>3 DEF ControlInv

(* No step of the State App ends a process that serves.                    *)
LEMMA ServingInside == Inside /\ Serving => Serving'
<1> SUFFICES ASSUME Inside, Serving PROVE Serving'
  OBVIOUS
<1> USE DEF Serving, runVars
<1>1. CASE NoGenesisFile \/ CreateAccounts
  BY <1>1 DEF NoGenesisFile, CreateAccounts
<1>2. CASE Apply
  BY <1>2 DEF Apply, ApplyTransaction, RejectTransaction, RunOutOfGas, Overdraw
<1>3. CASE Commit
  BY <1>3 DEF Commit, CommitTo, WriteHead, WriteTransactions, WriteReceipts, Swap
<1>4. CASE WriteFails
  BY <1>4 DEF WriteFails
<1>5. QED
  BY <1>1, <1>2, <1>3, <1>4 DEF Inside

(* Starts, deaths and the steps of the State App.                          *)
LEMMA ControlProcess == ControlInv /\ (Start \/ Die \/ Inside \/ UNCHANGED nodeVars) => ControlInv'
<1> SUFFICES ASSUME ControlInv, Start \/ Die \/ Inside \/ UNCHANGED nodeVars PROVE ControlInv'
  OBVIOUS
<1> USE DEF Control, ControlInv, Fits, Serving
<1>1. CASE Start
  BY <1>1 DEF Start, NewState, NewStateFails, handlerVars, connVars
<1>2. CASE Die
  <2>1. \A c \in Client : NoOne # c /\ Panicked # c
    BY NodeAssumption
  <2>2. QED
    BY <1>2, <2>1 DEF Die, Forget, Crash, proxyVars, Places
<1>3. CASE Inside
  <2>1. UNCHANGED <<mutex, handlerVars, connVars, proxyVars>>
    BY <1>3 DEF Inside
  <2>2. Serving => Serving'
    BY <1>3, ServingInside
  <2>3. QED
    BY <2>1, <2>2 DEF handlerVars, connVars, proxyVars
<1>4. CASE UNCHANGED nodeVars
  BY <1>4 DEF nodeVars, vars, runVars, handlerVars, connVars, proxyVars
<1>5. QED
  BY <1>1, <1>2, <1>3, <1>4

(* Requests come in, and one at a time gets a handler.                     *)
LEMMA ControlRequests ==
    ASSUME ControlInv, NEW c \in Client, (\E r \in Requests : Ask(c, r)) \/ Enter(c)
    PROVE  ControlInv'
<1>1. CASE \E r \in Requests : Ask(c, r)
  <2>1. PICK r \in Requests : Ask(c, r)
    BY <1>1
  <2>2. Serving /\ Serving' /\ at[c] = "idle"
    BY <2>1 DEF Ask, Serving, vars, runVars
  <2>3. /\ at' = [at EXCEPT ![c] = "waiting"]
        /\ request' = [request EXCEPT ![c] = r]
        /\ UNCHANGED <<mutex, handlerVars, proxyVars>>
    BY <2>1 DEF Ask
  <2>4. Control'
    BY <2>2, <2>3 DEF ControlInv, Control, Places, handlerVars, proxyVars
  <2>5. ASSUME NEW d \in Client PROVE Fits(d)'
    BY <2>2, <2>3 DEF ControlInv, Control, Fits, handlerVars
  <2>6. QED
    BY <2>4, <2>5 DEF ControlInv
<1>2. CASE Enter(c)
  <2>1. /\ at[c] = "waiting" /\ mutex = NoOne /\ mutex' = c
        /\ at' = [at EXCEPT ![c] = request[c].kind]
        /\ reading' = IF request[c].kind = "accounts" THEN request[c].what ELSE <<>>
        /\ UNCHANGED <<entry, request, proxyVars>>
        /\ Serving /\ Serving'
    BY <1>2 DEF Enter, ControlInv, Fits, Serving, vars, runVars
  <2>2. request[c] \in Requests
    BY <2>1 DEF ControlInv, Fits
  <2>3. reading' \in Seq(Account)
    BY <2>1, <2>2, RequestKinds
  <2>4. \A d \in Client : d # NoOne /\ d # Panicked
    BY NodeAssumption
  <2>5. Control'
    BY <2>1, <2>2, <2>3, <2>4, RequestKinds DEF ControlInv, Control, Places, proxyVars
  <2>6. ASSUME NEW d \in Client PROVE Fits(d)'
    <3>1. CASE d = c
      <4>1. at'[c] = request[c].kind /\ request' = request
        BY <2>1 DEF ControlInv, Control
      <4>2. QED
        BY <2>1, <2>2, <3>1, <4>1, RequestKinds DEF Fits
    <3>2. CASE d # c
      <4>1. at'[d] = at[d] /\ request' = request /\ at[d] \in {"idle", "waiting"}
        BY <2>1, <2>4, <3>2 DEF ControlInv, Control
      <4>2. QED
        BY <2>1, <4>1 DEF ControlInv, Fits
    <3>3. QED
      BY <3>1, <3>2
  <2>7. QED
    BY <2>5, <2>6 DEF ControlInv
<1>3. QED
  BY <1>1, <1>2

(* A handler that is over leaves nothing behind, unless it panicked: then  *)
(* the mutex stays locked.                                                 *)
LEMMA ControlLeave ==
    ASSUME ControlInv, NEW c \in Client, at[c] \notin {"idle", "waiting"},
           NEW result, Leave(c, result), mutex' \in {NoOne, Panicked}, Serving', UNCHANGED proxyVars
    PROVE  ControlInv'
<1>1. mutex = c
  BY DEF ControlInv, Control
<1>2. /\ at' = [at EXCEPT ![c] = "idle"]
      /\ request' = [request EXCEPT ![c] = NoRequest]
      /\ reading' = <<>> /\ entry' = NoNonce
  BY DEF Leave, Forget
<1>3. \A d \in Client : d # NoOne /\ d # Panicked
  BY NodeAssumption
<1>4. Control'
  BY <1>1, <1>2, <1>3 DEF ControlInv, Control, Places, proxyVars
<1>5. ASSUME NEW d \in Client PROVE Fits(d)'
  <2>1. at'[d] \in {"idle", "waiting"} /\ (at'[d] = "waiting" => at[d] = "waiting" /\ request'[d] = request[d])
    BY <1>1, <1>2 DEF ControlInv, Control
  <2>2. QED
    BY <2>1 DEF ControlInv, Fits
<1>6. QED
  BY <1>4, <1>5 DEF ControlInv

(* Within a handler, the others wait.                                      *)
LEMMA ControlWithin ==
    ASSUME ControlInv, NEW c \in Client, at[c] \notin {"idle", "waiting"},
           NEW place \in Places \ {"idle", "waiting"}, at' = [at EXCEPT ![c] = place],
           UNCHANGED <<vars, mutex, request>>,
           reading' \in Seq(Account), entry' \in Tx \cup Junk \cup {NoNonce},
           place \notin {"call", "tx", "rawtx", "receipt"},
           place = "found" => at[c] = "receipt",
           place = "nonce" => reading' # <<>>,
           place = "submit" => entry' \in Tx \cup Junk,
           loop' \in {"select", "submit", "lock", "process"},
           loop' = "submit" => inHand' \in Tx \cup Junk,
           loop' = "lock" => batch' \in Blocks
    PROVE  ControlInv'
<1>1. mutex = c
  BY DEF ControlInv, Control
<1>2. Control'
  BY <1>1 DEF ControlInv, Control
<1>3. ASSUME NEW d \in Client PROVE Fits(d)'
  <2>1. Serving' = Serving /\ Serving
    BY DEF ControlInv, Fits, Serving, vars, runVars
  <2>2. CASE d = c
    BY <2>1, <2>2 DEF ControlInv, Control, Fits
  <2>3. CASE d # c
    <3>1. at'[d] = at[d] /\ at[d] \in {"idle", "waiting"}
      BY <1>1, <2>3 DEF ControlInv, Control
    <3>2. QED
      BY <2>1, <3>1 DEF ControlInv, Fits
  <2>4. QED
    BY <2>2, <2>3
<1>4. QED
  BY <1>2, <1>3 DEF ControlInv

(* The handlers.                                                           *)
LEMMA ControlHandler ==
    ASSUME ControlInv, NEW c \in Client,
           Handler(c) \/ CallHandler(c) \/ CallHandlerPanics(c) \/ TakeSubmission(c)
    PROVE  ControlInv'
<1> USE DEF Local
<1>1. CASE Refuse(c) \/ SendAccounts(c) \/ RefuseSender(c) \/ SendHash(c) \/ FindReceipt(c)
           \/ (FindTransaction(c) /\ request[c].what \notin txTable) \/ CallHandler(c) \/ CallHandlerPanics(c)
  <2>1. /\ at[c] \notin {"idle", "waiting"} /\ UNCHANGED proxyVars
        /\ \E result : Leave(c, result)
        /\ mutex' \in {NoOne, Panicked}
    BY <1>1 DEF Refuse, SendAccounts, RefuseSender, SendHash, FindReceipt, FindTransaction, CallHandler,
           CallHandlerPanics, Reply
  <2>2. Serving /\ (Serving => Serving')
    BY <1>1, <2>1 DEF ControlInv, Control, Fits, Places, Serving, Refuse, SendAccounts, RefuseSender, SendHash,
              FindReceipt, FindTransaction, CallHandler, CallHandlerPanics, Call, vars, runVars
  <2>3. QED
    BY <2>1, <2>2, ControlLeave
<1>2. CASE ReadBalance(c)
  <2>1. /\ at[c] = "accounts" /\ reading # <<>> /\ at' = [at EXCEPT ![c] = "nonce"]
        /\ UNCHANGED <<vars, mutex, request, reading, entry, proxyVars>>
    BY <1>2 DEF ReadBalance
  <2>2. QED
    BY <2>1, ControlWithin DEF ControlInv, Control, Places, proxyVars
<1>3. CASE ReadNonce(c)
  <2>1. /\ at[c] = "nonce" /\ reading' = Tail(reading) /\ at' = [at EXCEPT ![c] = "accounts"]
        /\ UNCHANGED <<vars, mutex, request, entry, proxyVars>>
    BY <1>3 DEF ReadNonce
  <2>2. reading' \in Seq(Account)
    BY <2>1 DEF ControlInv, Control, Fits
  <2>3. QED
    BY <2>1, <2>2, ControlWithin DEF ControlInv, Control, Places, proxyVars
<1>4. CASE PrepareTransaction(c) \/ TakeRaw(c)
  <2>1. /\ at[c] \in {"tx", "rawtx"} /\ at' = [at EXCEPT ![c] = "submit"]
        /\ UNCHANGED <<vars, mutex, request, reading, proxyVars>>
    BY <1>4 DEF PrepareTransaction, TakeRaw
  <2>2. entry' \in Tx \cup Junk
    BY <1>4, NodeAssumption DEF PrepareTransaction, TakeRaw, ControlInv, Fits
  <2>3. QED
    BY <2>1, <2>2, ControlWithin DEF ControlInv, Control, Places, proxyVars
<1>5. CASE FindTransaction(c) /\ request[c].what \in txTable
  <2>1. /\ at[c] = "receipt" /\ at' = [at EXCEPT ![c] = "found"]
        /\ UNCHANGED <<vars, mutex, request, reading, entry, proxyVars>>
    BY <1>5 DEF FindTransaction, handlerVars
  <2>2. QED
    BY <2>1, ControlWithin DEF ControlInv, Control, Places, proxyVars
<1>6. CASE TakeSubmission(c)
  <2>1. /\ at[c] = "submit" /\ at' = [at EXCEPT ![c] = "submitted"]
        /\ loop' = "submit" /\ inHand' = entry
        /\ UNCHANGED <<vars, mutex, request, reading, entry>>
    BY <1>6 DEF TakeSubmission, handlerVars
  <2>2. entry \in Tx \cup Junk
    BY <2>1 DEF ControlInv, Fits
  <2>3. QED
    BY <2>1, <2>2, ControlWithin DEF ControlInv, Control, Places
<1>7. QED
  BY <1>1, <1>2, <1>3, <1>4, <1>5, <1>6 DEF Handler, AccountsHandler

(* The loop.                                                               *)
LEMMA ControlLoop ==
    ASSUME ControlInv, Serve \/ Process \/ \E b \in Blocks : TakeCommit(b)
    PROVE  ControlInv'
<1>1. UNCHANGED <<mutex, at, request, reading, entry, status, genesis>>
  BY DEF Serve, SubmitTx, SubmitFails, Respond, Process, ProcessBlock, TakeCommit, vars, runVars,
         handlerVars, connVars
<1>2. \A c \in Client : Fits(c)'
  BY <1>1 DEF ControlInv, Fits, Serving
<1>3. /\ loop' \in {"select", "submit", "lock", "process"}
      /\ loop' # "submit"
      /\ loop' = "lock" => batch' \in Blocks
  BY DEF Serve, SubmitTx, SubmitFails, Respond, Process, TakeCommit
<1>4. QED
  BY <1>1, <1>2, <1>3 DEF ControlInv, Control

(* One handler runs at a time, and every request is what its handler takes *)
(* it for, also when processes die and start again.                        *)
THEOREM ControlCorrect == NodeSpec => []ControlInv
<1>1. ControlInv /\ [NodeNext]_nodeVars => ControlInv'
  BY ControlProcess, ControlRequests, ControlHandler, ControlLoop DEF NodeNext
<1>2. QED
  BY <1>1, ControlInit, PTL DEF NodeSpec

----------------------------------------------------------------------------
(* The State App inside.                                                   *)

(* A step of a node is a step of its State App or leaves it alone.         *)
LEMMA StateStep == ControlInv /\ [NodeNext]_nodeVars => [Next]_vars
<1> SUFFICES ASSUME ControlInv, [NodeNext]_nodeVars PROVE [Next]_vars
  OBVIOUS
<1>1. CASE Start \/ Die \/ Inside
  BY <1>1 DEF Start, Die, Inside, Next
<1>2. CASE \E c \in Client : \E r \in Requests : Ask(c, r)
  BY <1>2 DEF Ask
<1>3. CASE \E c \in Client : Enter(c) \/ TakeSubmission(c)
  BY <1>3 DEF Enter, TakeSubmission
<1>4. CASE \E c \in Client : Handler(c)
  BY <1>4 DEF Handler, Refuse, AccountsHandler, ReadBalance, ReadNonce, SendAccounts,
              PrepareTransaction, RefuseSender, TakeRaw, SendHash, FindTransaction, FindReceipt, Local
<1>5. CASE \E c \in Client : CallHandler(c) \/ CallHandlerPanics(c)
  BY <1>5 DEF CallHandler, CallHandlerPanics, ControlInv, Fits, Next
<1>6. CASE Serve
  BY <1>6 DEF Serve, SubmitTx, SubmitFails, Respond
<1>7. CASE \E b \in Blocks : TakeCommit(b)
  BY <1>7 DEF TakeCommit
<1>8. CASE Process
  BY <1>8 DEF Process, ControlInv, Control, Next
<1>9. CASE UNCHANGED nodeVars
  BY <1>9 DEF nodeVars
<1>10. QED
  BY <1>1, <1>2, <1>3, <1>4, <1>5, <1>6, <1>7, <1>8, <1>9 DEF NodeNext

(* A node implements its State App, whatever its handlers and its loop do: *)
(* every theorem about EvmState is one about the node.                     *)
THEOREM NodeImplementsState == NodeSpec => ImplementsState
<1>1. NodeInit => Init
  BY DEF NodeInit
<1>2. QED
  BY <1>1, StateStep, ControlCorrect, PTL DEF NodeSpec, ImplementsState, Spec

----------------------------------------------------------------------------
(* Signing.                                                                *)

(* What the Service signs carries the nonce of the write-ahead state, and  *)
(* that is past the nonce of everything that has a receipt.                *)
LEMMA SignedIsFresh ==
    ASSUME ControlInv, TypeOK, NoReplay, NEW c \in Client, PrepareTransaction(c),
           request[c].what.nonce = NoNonce
    PROVE  entry' \notin DOMAIN receiptTable
<1> DEFINE args == request[c].what
<1>1. /\ args \in TxArgs /\ status = "up"
      /\ entry' = [args EXCEPT !.nonce = ethState.nonce[args.from]]
  BY DEF PrepareTransaction, ControlInv, Fits, Serving, Signed, GetNonce
<1>2. "nonce" \in DOMAIN args /\ args.from \in Account
  BY <1>1, NodeAssumption
<1>3. entry'.nonce = ethState.nonce[args.from] /\ entry'.from = args.from
  BY <1>1, <1>2
<1>4. ethState.nonce[args.from] \in Nat
  BY <1>2 DEF TypeOK, Ledger
<1>5. entry' \in DOMAIN receiptTable => entry'.nonce < ethState.nonce[entry'.from]
  BY <1>1 DEF NoReplay, Covers
<1>6. QED
  BY <1>3, <1>4, <1>5

(* The hash /tx answers with is never that of a transaction which already  *)
(* has a receipt.                                                          *)
THEOREM SignsFreshCorrect == NodeSpec => SignsFresh
<1> DEFINE Fresh == \A c \in Client :
                       at[c] = "tx" /\ at'[c] = "submit" /\ request[c].what.nonce = NoNonce =>
                           entry' \notin DOMAIN receiptTable
<1>1. ControlInv /\ TypeOK /\ NoReplay /\ [NodeNext]_nodeVars => [Fresh]_nodeVars
  <2> SUFFICES ASSUME ControlInv, TypeOK, NoReplay, NodeNext,
                      NEW c \in Client, at[c] = "tx", at'[c] = "submit",
                      request[c].what.nonce = NoNonce
               PROVE  entry' \notin DOMAIN receiptTable
    OBVIOUS
  <2>1. at \in [Client -> Places]
    BY DEF ControlInv, Control
  <2>2. CASE Start \/ Die \/ Inside \/ Serve \/ Process \/ \E b \in Blocks : TakeCommit(b)
    BY <2>2 DEF Start, Die, Inside, Serve, SubmitTx, SubmitFails, Respond, Process, TakeCommit, connVars
  <2>3. ASSUME NEW d \in Client,
               \/ \E r \in Requests : Ask(d, r)
               \/ Enter(d) \/ Handler(d) \/ CallHandler(d) \/ CallHandlerPanics(d) \/ TakeSubmission(d)
        PROVE  PrepareTransaction(c)
    <3>1. \E place : at' = [at EXCEPT ![d] = place]
      BY <2>3 DEF Ask, Enter, Handler, Refuse, AccountsHandler, ReadBalance, ReadNonce, SendAccounts,
                  PrepareTransaction, RefuseSender, TakeRaw, SendHash, FindTransaction, FindReceipt,
                  CallHandler, CallHandlerPanics, TakeSubmission, Reply, Leave
    <3>2. d = c
      BY <2>1, <3>1
    <3>3. ~RefuseSender(c)
      BY <2>1 DEF RefuseSender, Reply, Leave
    <3>4. Handler(c)
      BY <2>3, <3>2 DEF Ask, Enter, CallHandler, CallHandlerPanics, TakeSubmission
    <3>5. QED
      BY <3>3, <3>4 DEF Handler, Refuse, AccountsHandler, ReadBalance, ReadNonce,
                  SendAccounts, TakeRaw, SendHash, FindTransaction, FindReceipt
  <2>4. QED
    BY <2>2, <2>3, SignedIsFresh DEF NodeNext
<1>2. QED
  BY <1>1, ControlCorrect, NodeImplementsState, TypeCorrect, NoReplayCorrect, PTL
     DEF NodeSpec, ImplementsState, SignsFresh

----------------------------------------------------------------------------
(* Reading.                                                                *)

(* L has no transaction that K does not have.                              *)
Behind(L, K) == \A x \in Account : L.nonce[x] <= K.nonce[x]

LEMMA BehindTransitive ==
    ASSUME NEW L \in Ledger, NEW K \in Ledger, NEW M \in Ledger, Behind(L, K), Behind(K, M)
    PROVE  Behind(L, M)
<1>1. SUFFICES ASSUME NEW x \in Account PROVE L.nonce[x] <= M.nonce[x]
  BY DEF Behind
<1>2. L.nonce[x] \in Nat /\ K.nonce[x] \in Nat /\ M.nonce[x] \in Nat
  BY DEF Ledger
<1>3. L.nonce[x] <= K.nonce[x] /\ K.nonce[x] <= M.nonce[x]
  BY DEF Behind
<1>4. QED
  BY <1>2, <1>3

LEMMA BehindItself == ASSUME NEW L \in Ledger PROVE Behind(L, L)
BY DEF Behind, Ledger

(* While a process lives, no nonce of its write-ahead state is taken back. *)
LEMMA NoncesGrow ==
    ASSUME TypeOK, [Next]_vars, status = "up"
    PROVE  Behind(ethState, ethState')
<1>1. ethState \in Ledger
  BY DEF TypeOK
<1>2. CASE ethState' = ethState
  BY <1>1, <1>2, BehindItself
<1>3. CASE CreateAccounts
  <2>1. ethState' = WithGenesis(ethState)
    BY <1>3 DEF CreateAccounts
  <2>2. QED
    BY <1>1, <2>1, WithGenesisType DEF Behind, Ledger
<1>4. CASE Apply
  <2>1. PICK p \in Tx \cup Junk :
           ApplyTransaction(p) \/ RejectTransaction(p) \/ RunOutOfGas(p) \/ Overdraw(p)
    BY <1>4 DEF Apply
  <2>2. CASE ApplyTransaction(p)
    <3>1. /\ p \in Message /\ WellFormed(p)
          /\ Executes(ethState, gp, p) /\ ethState' = Execute(ethState, p)
      BY <2>2, StateAssumption DEF ApplyTransaction, Decodes, Accepts
    <3>2. QED
      BY <1>1, <3>1, ExecuteType DEF Behind
  <2>3. CASE RunOutOfGas(p) \/ Overdraw(p)
    BY <2>3, FailedType DEF Behind
  <2>4. CASE RejectTransaction(p)
    BY <1>2, <2>4 DEF RejectTransaction, wasVars
  <2>5. QED
    BY <2>1, <2>2, <2>3, <2>4
<1>5. CASE ~CreateAccounts /\ ~Apply
  BY <1>2, <1>5 DEF Next, NewState, NewStateFails, Crash, NoGenesisFile, Call, ProcessBlock, Commit,
             CommitTo, WriteHead, WriteTransactions, WriteReceipts, Swap, ResetWAS, WriteFails,
             vars, wasVars
<1>6. QED
  BY <1>3, <1>4, <1>5

(* The committed ledger is never ahead of the write-ahead state.           *)
LEMMA CommittedBehind ==
    ASSUME TypeOK, TypeOK', [Next]_vars, Behind(statedb, ethState)
    PROVE  Behind(statedb, ethState)'
<1>1. statedb \in Ledger /\ ethState \in Ledger /\ statedb' \in Ledger /\ ethState' \in Ledger
  BY DEF TypeOK
<1>2. CASE statedb' = ethState'
  <2>1. Behind(statedb', ethState')
    BY <1>1, <1>2, BehindItself
  <2>2. QED
    BY <2>1 DEF Behind
<1>3. CASE statedb' = statedb /\ (ethState' = ethState \/ status = "up")
  <2>1. Behind(ethState, ethState')
    BY <1>1, <1>3, BehindItself, NoncesGrow
  <2>2. Behind(statedb', ethState')
    BY <1>1, <1>3, <2>1, BehindTransitive
  <2>3. QED
    BY <2>2 DEF Behind
<1>4. QED
  BY <1>2, <1>3 DEF Next, NewState, NewStateFails, Crash, NoGenesisFile, CreateAccounts, Call,
             ProcessBlock, Apply, Applying, ApplyTransaction, RejectTransaction, RunOutOfGas, Overdraw,
             Commit, Committing, CommitTo, WriteHead, WriteTransactions, WriteReceipts, Swap,
             ResetWAS, WriteFails, vars, wasVars

(* What a handler is about to answer is as consistent as an answer, and    *)
(* between its two reads the write-ahead state does not fall behind the    *)
(* ledger it took the balance from.                                        *)
InSight(sight, x) == sight.balance.nonce[x] <= sight.nonce

SourceBehind ==
    /\ source \in Ledger
    /\ \A c \in Client : at[c] = "nonce" => Behind(source, ethState)

AnswersInSight == \A x \in DOMAIN answers : InSight(answers[x], x)

ViewsInSight == \A c \in Client : \A x \in DOMAIN view[c] : InSight(view[c][x], x)

SightInv ==
    /\ Behind(statedb, ethState)
    /\ SourceBehind /\ AnswersInSight /\ ViewsInSight
    /\ DOMAIN view = Client

LEMMA SightInit == NodeInit => SightInv
<1> SUFFICES ASSUME NodeInit PROVE SightInv
  OBVIOUS
<1>1. Behind(statedb, ethState) /\ source \in Ledger
  BY EmptyLedgerType, BehindItself DEF NodeInit, Init
<1>2. QED
  BY <1>1 DEF NodeInit, SightInv, SourceBehind, AnswersInSight, ViewsInSight

(* Steps that neither read nor answer.                                     *)
LEMMA SightKept ==
    ASSUME ControlInv, TypeOK, TypeOK', SightInv, [Next]_vars,
           \A c \in Client : at'[c] = "nonce" => at[c] = "nonce",
           source' \in {source, EmptyLedger}, AnswersInSight', ViewsInSight', DOMAIN view' = Client
    PROVE  SightInv'
<1>1. ethState \in Ledger /\ ethState' \in Ledger /\ source \in Ledger
  BY DEF TypeOK, SightInv, SourceBehind
<1>2. Behind(EmptyLedger, ethState') /\ EmptyLedger \in Ledger
  BY <1>1, EmptyLedgerType DEF Behind, Ledger, EmptyLedger
<1>3. ASSUME NEW c \in Client, at'[c] = "nonce"
      PROVE  Behind(source', ethState')
  <2>1. at[c] = "nonce" /\ status = "up"
    BY <1>3 DEF ControlInv, Fits, Serving
  <2>2. Behind(source, ethState) /\ Behind(ethState, ethState')
    BY <2>1, NoncesGrow DEF SightInv, SourceBehind
  <2>3. QED
    BY <1>1, <1>2, <2>2, BehindTransitive
<1>4. SourceBehind'
  BY <1>1, <1>2, <1>3 DEF SourceBehind, Behind
<1>5. Behind(statedb, ethState)'
  BY CommittedBehind DEF SightInv
<1>6. QED
  BY <1>4, <1>5 DEF SightInv

LEMMA SightElsewhere ==
    ASSUME ControlInv, TypeOK, TypeOK', SightInv, [Next]_vars, [NodeNext]_nodeVars,
           \A c \in Client : ~AccountsHandler(c)
    PROVE  SightInv'
<1>1. at \in [Client -> Places]
  BY DEF ControlInv, Control
<1>2. CASE Start \/ Die \/ Inside \/ Serve \/ Process \/ UNCHANGED nodeVars
           \/ \E b \in Blocks : TakeCommit(b)
  <2>1. /\ view' = view /\ source' \in {source, EmptyLedger} /\ answers' \in {answers, <<>>}
        /\ at' = at \/ at' = [c \in Client |-> "idle"]
    BY <1>2 DEF Start, Die, Inside, Serve, SubmitTx, SubmitFails, Respond, Process, TakeCommit,
                nodeVars, connVars, handlerVars, Forget
  <2>2. \A c \in Client : at'[c] = "nonce" => at[c] = "nonce"
    BY <2>1
  <2>3. AnswersInSight' /\ ViewsInSight' /\ DOMAIN view' = Client
    BY <2>1 DEF SightInv, AnswersInSight, ViewsInSight, InSight
  <2>4. QED
    BY <2>1, <2>2, <2>3, SightKept
<1>3. ASSUME NEW c \in Client,
             \/ \E r \in Requests : Ask(c, r)
             \/ Enter(c) \/ Handler(c) \/ CallHandler(c) \/ CallHandlerPanics(c) \/ TakeSubmission(c)
      PROVE  SightInv'
  <2>1. /\ view' = view /\ source' \in {source, EmptyLedger} /\ answers' \in {answers, <<>>}
        /\ \E place : at' = [at EXCEPT ![c] = place] /\ (place = "nonce" => Enter(c))
    BY <1>3 DEF Ask, Enter, Handler, Refuse, PrepareTransaction, RefuseSender, TakeRaw, SendHash,
                FindTransaction, FindReceipt, CallHandler, CallHandlerPanics, TakeSubmission,
                Reply, Leave, Forget, handlerVars
  <2>2. Enter(c) => at'[c] # "nonce"
    BY <1>1, RequestKinds DEF Enter, ControlInv, Fits
  <2>3. \A d \in Client : at'[d] = "nonce" => at[d] = "nonce"
    BY <1>1, <2>1, <2>2
  <2>4. AnswersInSight' /\ ViewsInSight' /\ DOMAIN view' = Client
    BY <2>1 DEF SightInv, AnswersInSight, ViewsInSight, InSight
  <2>5. QED
    BY <2>1, <2>3, <2>4, SightKept
<1>4. QED
  BY <1>2, <1>3 DEF NodeNext

(* The two reads and the answer.                                           *)
LEMMA SightReads ==
    ASSUME ControlInv, TypeOK, SightInv, NEW c \in Client, AccountsHandler(c)
    PROVE  SightInv'
<1>1. at[c] \in {"accounts", "nonce"} /\ mutex = c /\ at \in [Client -> Places]
  BY DEF AccountsHandler, ReadBalance, ReadNonce, SendAccounts, ControlInv, Control
<1>2. \A d \in Client \ {c} : at[d] # "nonce"
  BY <1>1 DEF ControlInv, Control
<1>3. UNCHANGED <<statedb, ethState>>
  BY DEF AccountsHandler, ReadBalance, ReadNonce, SendAccounts, Local, vars, wasVars
<1>4. statedb \in Ledger /\ ethState \in Ledger /\ Behind(statedb, ethState) /\ Behind(statedb, ethState)'
  BY <1>3 DEF TypeOK, SightInv, Behind
<1>5. CASE ReadBalance(c)
  <2>1. source' = statedb /\ UNCHANGED <<answers, view>>
    BY <1>5 DEF ReadBalance, GetBalanceFrom
  <2>2. SourceBehind'
    BY <1>3, <1>4, <2>1 DEF SourceBehind, Behind
  <2>3. QED
    BY <1>4, <2>1, <2>2 DEF SightInv, AnswersInSight, ViewsInSight, InSight
<1>6. CASE ReadNonce(c)
  <2>1. /\ at' = [at EXCEPT ![c] = "accounts"] /\ UNCHANGED <<source, view>>
        /\ answers' = [x \in DOMAIN answers \cup {Head(reading)} |->
                          IF x = Head(reading)
                          THEN [balance |-> source, nonce |-> ethState.nonce[Head(reading)]]
                          ELSE answers[x]]
    BY <1>6 DEF ReadNonce, GetNonce
  <2>2. Head(reading) \in Account /\ Behind(source, ethState)
    BY <1>6 DEF ReadNonce, ControlInv, Control, Fits, SightInv, SourceBehind
  <2>3. AnswersInSight'
    <3>1. ASSUME NEW x \in DOMAIN answers' PROVE InSight(answers'[x], x)
      BY <2>1, <2>2 DEF SightInv, AnswersInSight, InSight, Behind
    <3>2. QED
      BY <3>1 DEF AnswersInSight, InSight
  <2>4. SourceBehind'
    BY <1>1, <1>2, <2>1 DEF SightInv, SourceBehind
  <2>5. QED
    BY <1>4, <2>1, <2>3, <2>4 DEF SightInv, ViewsInSight, InSight
<1>7. CASE SendAccounts(c)
  <2> DEFINE shown == [x \in DOMAIN view[c] \cup DOMAIN answers |->
                          IF x \in DOMAIN answers THEN answers[x] ELSE view[c][x]]
  <2>1. /\ at' = [at EXCEPT ![c] = "idle"] /\ source' = EmptyLedger /\ answers' = <<>>
        /\ view' = [view EXCEPT ![c] = shown]
    BY <1>7 DEF SendAccounts, Reply, Leave, Forget
  <2>2. \A x \in DOMAIN shown : InSight(shown[x], x)
    BY DEF SightInv, AnswersInSight, ViewsInSight
  <2> HIDE DEF shown
  <2>3. ViewsInSight' /\ DOMAIN view' = Client
    BY <2>1, <2>2 DEF SightInv, ViewsInSight, InSight
  <2>4. SourceBehind' /\ AnswersInSight'
    BY <1>1, <1>2, <2>1, EmptyLedgerType DEF SourceBehind, AnswersInSight
  <2>5. QED
    BY <1>4, <2>3, <2>4 DEF SightInv
<1>8. QED
  BY <1>5, <1>6, <1>7 DEF AccountsHandler

(* The nonce of an answered account is never older than its balance.       *)
THEOREM NonceNotBehindBalanceCorrect == NodeSpec => []NonceNotBehindBalance
<1>1. ControlInv /\ TypeOK /\ TypeOK' /\ SightInv /\ [NodeNext]_nodeVars => SightInv'
  BY StateStep, SightElsewhere, SightReads
<1>2. SightInv => NonceNotBehindBalance
  BY DEF SightInv, ViewsInSight, InSight, NonceNotBehindBalance
<1>3. QED
  BY <1>1, <1>2, SightInit, ControlCorrect, NodeImplementsState, TypeCorrect, PTL
     DEF NodeSpec, ImplementsState

----------------------------------------------------------------------------
(* Types.  What ControlInv does not say of them concerns what handlers     *)
(* have read and the loop has passed on.                                   *)

\* Accounts as an answer shows them.
Shown(accounts) == DOMAIN accounts \subseteq Account /\ \A a \in DOMAIN accounts : accounts[a] \in Sights

PassedOn ==
    /\ inHand \in Tx \cup Junk \cup {NoNonce}
    /\ batch \in Blocks \cup {<<>>}
    /\ submitted \subseteq Tx \cup Junk

Told ==
    /\ source \in Ledger
    /\ Shown(answers)
    /\ outcome \in [Client -> {"none", "ok", "empty", "error", "lost"}]
    /\ \A c \in Client : Shown(view[c])
    /\ DOMAIN view = Client

LEMMA DataInit == NodeInit => PassedOn /\ Told
<1> SUFFICES ASSUME NodeInit PROVE PassedOn /\ Told
  OBVIOUS
<1>1. DOMAIN <<>> = {}
  OBVIOUS
<1>2. QED
  BY <1>1, EmptyLedgerType DEF NodeInit, PassedOn, Told, Shown

LEMMA PassedOnStep == ControlInv /\ PassedOn /\ [NodeNext]_nodeVars => PassedOn'
<1> SUFFICES ASSUME ControlInv, PassedOn, [NodeNext]_nodeVars PROVE PassedOn'
  OBVIOUS
<1> USE DEF PassedOn
<1>1. CASE Start
  BY <1>1 DEF Start
<1>2. CASE Die \/ Inside \/ UNCHANGED nodeVars
  BY <1>2 DEF Die, Inside, nodeVars, proxyVars
<1>3. CASE \E c \in Client : (\E r \in Requests : Ask(c, r)) \/ Enter(c) \/ Handler(c)
                               \/ CallHandler(c) \/ CallHandlerPanics(c)
  BY <1>3 DEF Ask, Enter, Handler, Refuse, AccountsHandler, ReadBalance, ReadNonce, SendAccounts,
              PrepareTransaction, RefuseSender, TakeRaw, SendHash, FindTransaction, FindReceipt,
              CallHandler, CallHandlerPanics, Local, proxyVars
<1>4. CASE \E c \in Client : TakeSubmission(c)
  BY <1>4 DEF TakeSubmission, ControlInv, Control
<1>5. CASE Serve
  BY <1>5 DEF Serve, SubmitTx, SubmitFails, Respond, ControlInv, Control
<1>6. CASE Process \/ \E b \in Blocks : TakeCommit(b)
  BY <1>6 DEF Process, TakeCommit
<1>7. QED
  BY <1>1, <1>2, <1>3, <1>4, <1>5, <1>6 DEF NodeNext

(* What is answered has been read from ledgers, account by account.        *)
LEMMA ToldStep == ControlInv /\ TypeOK /\ Told /\ [NodeNext]_nodeVars => Told'
<1> SUFFICES ASSUME ControlInv, TypeOK, Told, [NodeNext]_nodeVars PROVE Told'
  OBVIOUS
<1>1. DOMAIN <<>> = {} /\ EmptyLedger \in Ledger
  BY EmptyLedgerType
<1>2. Shown(<<>>)
  BY <1>1 DEF Shown
<1>3. CASE Start \/ Inside \/ Serve \/ Process \/ UNCHANGED nodeVars \/ \E b \in Blocks : TakeCommit(b)
  BY <1>3 DEF Start, Inside, Serve, SubmitTx, SubmitFails, Respond, Process, TakeCommit, nodeVars,
              handlerVars, connVars, Told
<1>4. CASE Die
  BY <1>1, <1>2, <1>4 DEF Die, Forget, Told
<1>5. ASSUME NEW c \in Client,
             \/ \E r \in Requests : Ask(c, r)
             \/ Enter(c) \/ TakeSubmission(c) \/ PrepareTransaction(c) \/ TakeRaw(c)
             \/ FindTransaction(c) /\ request[c].what \in txTable
      PROVE  Told'
  BY <1>5 DEF Ask, Enter, TakeSubmission, PrepareTransaction, TakeRaw, FindTransaction, handlerVars, Told
<1>6. ASSUME NEW c \in Client,
             \/ Refuse(c) \/ RefuseSender(c) \/ SendHash(c) \/ FindReceipt(c)
             \/ CallHandler(c) \/ CallHandlerPanics(c)
             \/ FindTransaction(c) /\ request[c].what \notin txTable
      PROVE  Told'
  <2>1. view' = view /\ source' = EmptyLedger /\ answers' = <<>>
    BY <1>6 DEF Refuse, RefuseSender, SendHash, FindReceipt, CallHandler, CallHandlerPanics,
                FindTransaction, Reply, Leave, Forget
  <2>2. \E result \in {"ok", "empty", "error", "lost"} : outcome' = [outcome EXCEPT ![c] = result]
    BY <1>6 DEF Refuse, RefuseSender, SendHash, FindReceipt, CallHandler, CallHandlerPanics,
                FindTransaction, Reply, Leave
  <2>3. QED
    BY <1>1, <1>2, <2>1, <2>2 DEF Told
<1>7. ASSUME NEW c \in Client, ReadBalance(c)
      PROVE  Told'
  BY <1>7 DEF ReadBalance, GetBalanceFrom, TypeOK, Told
<1>8. ASSUME NEW c \in Client, ReadNonce(c)
      PROVE  Told'
  <2> DEFINE who == Head(reading)
             sight == [balance |-> source, nonce |-> GetNonce(who)]
  <2>1. who \in Account
    BY <1>8 DEF ReadNonce, ControlInv, Control, Fits
  <2>2. sight \in Sights
    BY <2>1 DEF GetNonce, Sights, Told, TypeOK, Ledger
  <2>3. /\ answers' = [x \in DOMAIN answers \cup {who} |-> IF x = who THEN sight ELSE answers[x]]
        /\ UNCHANGED <<source, outcome, view>>
    BY <1>8 DEF ReadNonce
  <2> HIDE DEF who, sight
  <2>4. Shown(answers')
    BY <2>1, <2>2, <2>3 DEF Shown, Told
  <2>5. QED
    BY <2>3, <2>4 DEF Told
<1>9. ASSUME NEW c \in Client, SendAccounts(c)
      PROVE  Told'
  <2> DEFINE shown == [x \in DOMAIN view[c] \cup DOMAIN answers |->
                          IF x \in DOMAIN answers THEN answers[x] ELSE view[c][x]]
  <2>1. /\ source' = EmptyLedger /\ answers' = <<>>
        /\ outcome' = [outcome EXCEPT ![c] = "ok"]
        /\ view' = [view EXCEPT ![c] = shown]
    BY <1>9 DEF SendAccounts, Reply, Leave, Forget
  <2>2. Shown(shown)
    BY DEF Shown, Told
  <2> HIDE DEF shown
  <2>3. QED
    BY <1>1, <1>2, <2>1, <2>2 DEF Told
<1>10. QED
  BY <1>3, <1>4, <1>5, <1>6, <1>7, <1>8, <1>9 DEF NodeNext, Handler, AccountsHandler

(* Requests, answers and what is passed to Babble keep their types, one    *)
(* handler runs at a time, and it is the one that holds the mutex.         *)
THEOREM NodeTypeCorrect == NodeSpec => []NodeTypeOK
<1>1. ControlInv /\ TypeOK /\ PassedOn /\ Told /\ [NodeNext]_nodeVars => PassedOn' /\ Told'
  BY PassedOnStep, ToldStep
<1>2. ControlInv /\ PassedOn /\ Told => NodeTypeOK
  BY DEF ControlInv, Control, PassedOn, Told, Shown, NodeTypeOK
<1>3. QED
  BY <1>1, <1>2, DataInit, ControlCorrect, NodeImplementsState, TypeCorrect, PTL
     DEF NodeSpec, ImplementsState
----------------------------------------------------------------------------
(* Receipts of what has been shown.  A ledger that a handler has read, or  *)
(* a client has been shown, stays explained by receipts after the process  *)
(* that served it is gone: the table of receipts only grows.               *)

SourceUsed == UsedBy(source, DOMAIN receiptTable)

AnswersUsed == \A x \in DOMAIN answers : UsedBy(answers[x].balance, DOMAIN receiptTable)

ViewsUsed == \A c \in Client : \A x \in DOMAIN view[c] : UsedBy(view[c][x].balance, DOMAIN receiptTable)

SeenInv == SourceUsed /\ AnswersUsed /\ ViewsUsed /\ DOMAIN view = Client

(* No two transactions of an account have the same nonce.                  *)
SingleNonces == \A t, u \in Tx : t.from = u.from /\ t.nonce = u.nonce => t = u

LEMMA SeenInit == NodeInit => SeenInv
<1> SUFFICES ASSUME NodeInit PROVE SeenInv
  OBVIOUS
<1>1. DOMAIN <<>> = {}
  OBVIOUS
<1>2. QED
  BY <1>1, EmptyUsed DEF NodeInit, SeenInv, SourceUsed, AnswersUsed, ViewsUsed

LEMMA ReceiptsGrow == WASInv /\ [Next]_vars => DOMAIN receiptTable \subseteq DOMAIN receiptTable'
<1> SUFFICES ASSUME WASInv, [Next]_vars PROVE DOMAIN receiptTable \subseteq DOMAIN receiptTable'
  OBVIOUS
<1>1. CASE WriteReceipts
  BY <1>1, WriteReceiptsType
<1>2. CASE ~WriteReceipts
  <2>1. receiptTable' = receiptTable
    BY <1>2 DEF Next, NewState, NewStateFails, Crash, NoGenesisFile, CreateAccounts, Call,
                ProcessBlock, Apply, ApplyTransaction, RejectTransaction, RunOutOfGas, Overdraw,
                Commit, CommitTo, WriteHead, WriteTransactions, Swap, WriteFails, vars, dbVars
  <2>2. QED
    BY <2>1
<1>3. QED
  BY <1>1, <1>2

(* Whatever else the tables do meanwhile, what is seen can be forgotten    *)
(* or passed on.                                                           *)
LEMMA SeenStep ==
    WASInv /\ ControlInv /\ ServedUsed /\ SeenInv /\ [NodeNext]_nodeVars => SeenInv'
<1> SUFFICES ASSUME WASInv, ControlInv, ServedUsed, SeenInv, [NodeNext]_nodeVars PROVE SeenInv'
  OBVIOUS
<1> DEFINE T == DOMAIN receiptTable
           U == DOMAIN receiptTable'
<1>1. T \subseteq U
  BY StateStep, ReceiptsGrow
<1>2. /\ UsedBy(source, U) /\ UsedBy(statedb, U) /\ UsedBy(EmptyLedger, U)
      /\ \A x \in DOMAIN answers : UsedBy(answers[x].balance, U)
      /\ \A c \in Client : \A x \in DOMAIN view[c] : UsedBy(view[c][x].balance, U)
      /\ DOMAIN view = Client
  <2>1. ASSUME NEW L, UsedBy(L, T) PROVE UsedBy(L, U)
    BY <1>1, <2>1, UsedByMore
  <2> HIDE DEF U
  <2>2. QED
    BY <2>1, EmptyUsed DEF SeenInv, SourceUsed, AnswersUsed, ViewsUsed, ServedUsed
<1>3. DOMAIN <<>> = {}
  OBVIOUS
<1> DEFINE SourceGood(L) == UsedBy(L, U)
           AnswersGood(A) == \A x \in DOMAIN A : UsedBy(A[x].balance, U)
           ViewsGood(V) == DOMAIN V = Client /\ \A c \in Client : AnswersGood(V[c])
<1>4. SourceGood(source') /\ AnswersGood(answers') /\ ViewsGood(view') => SeenInv'
  BY DEF SeenInv, SourceUsed, AnswersUsed, ViewsUsed, UsedBy
<1>5. /\ SourceGood(source) /\ SourceGood(statedb) /\ SourceGood(EmptyLedger)
      /\ AnswersGood(answers) /\ AnswersGood(<<>>) /\ ViewsGood(view)
  BY <1>2, <1>3
<1>6. CASE \E c \in Client : ReadBalance(c)
  BY <1>4, <1>5, <1>6 DEF ReadBalance, GetBalanceFrom
<1>7. ASSUME NEW c \in Client, ReadNonce(c)
      PROVE  SeenInv'
  <2> DEFINE who == Head(reading)
             sight == [balance |-> source, nonce |-> GetNonce(who)]
  <2>1. UsedBy(sight.balance, U)
    BY <1>2
  <2>2. /\ answers' = [x \in DOMAIN answers \cup {who} |-> IF x = who THEN sight ELSE answers[x]]
        /\ UNCHANGED <<source, view>>
    BY <1>7 DEF ReadNonce
  <2> HIDE DEF who, sight, U
  <2>3. AnswersGood(answers')
    BY <1>2, <2>1, <2>2
  <2>4. QED
    BY <1>4, <1>5, <2>2, <2>3
<1>8. ASSUME NEW c \in Client, SendAccounts(c)
      PROVE  SeenInv'
  <2> DEFINE shown == [x \in DOMAIN view[c] \cup DOMAIN answers |->
                          IF x \in DOMAIN answers THEN answers[x] ELSE view[c][x]]
  <2>1. /\ source' = EmptyLedger /\ answers' = <<>> /\ view' = [view EXCEPT ![c] = shown]
    BY <1>8 DEF SendAccounts, Reply, Leave, Forget
  <2> HIDE DEF U
  <2>2. AnswersGood(shown)
    BY <1>2
  <2> HIDE DEF shown, AnswersGood
  <2>3. ViewsGood(view')
    BY <1>5, <2>1, <2>2
  <2>4. QED
    BY <1>4, <1>5, <2>1, <2>3
<1>9. CASE \A c \in Client : ~AccountsHandler(c)
  <2>1. view' = view /\ source' \in {source, EmptyLedger} /\ answers' \in {answers, <<>>}
    <3>1. CASE Start \/ Die \/ Inside \/ Serve \/ Process \/ UNCHANGED nodeVars
               \/ \E b \in Blocks : TakeCommit(b)
      BY <3>1 DEF Start, Die, Inside, Serve, SubmitTx, SubmitFails, Respond, Process, TakeCommit,
                  nodeVars, connVars, handlerVars, Forget
    <3>2. ASSUME NEW c \in Client,
                 \/ \E r \in Requests : Ask(c, r)
                 \/ Enter(c) \/ Handler(c) \/ CallHandler(c) \/ CallHandlerPanics(c) \/ TakeSubmission(c)
          PROVE  view' = view /\ source' \in {source, EmptyLedger} /\ answers' \in {answers, <<>>}
      BY <1>9, <3>2 DEF Ask, Enter, Handler, Refuse, PrepareTransaction, RefuseSender, TakeRaw,
                  SendHash, FindTransaction, FindReceipt, CallHandler, CallHandlerPanics,
                  TakeSubmission, Reply, Leave, Forget,
                  handlerVars
    <3>3. QED
      BY <3>1, <3>2 DEF NodeNext
  <2> HIDE DEF SourceGood, AnswersGood, ViewsGood
  <2>2. QED
    BY <1>4, <1>5, <2>1
<1>10. QED
  BY <1>6, <1>7, <1>8, <1>9 DEF AccountsHandler

(* A client that has seen what a transaction did is told of it.  As long   *)
(* as no call overdraws, and if no transaction has the nonce of another:   *)
(* otherwise the nonce it has seen may be used up for nothing, or by the   *)
(* other.                                                                  *)
THEOREM EffectsHaveReceiptsCorrect ==
    ASSUME SingleNonces
    PROVE  NodeSpec /\ [][NoCallOverdraws]_vars => EffectsHaveReceipts
<1> DEFINE Tells == \A c \in Client :
                       at[c] \in {"receipt", "found"} /\ outcome'[c] = "error" /\ at'[c] = "idle" =>
                           \A a \in DOMAIN view[c] : ~Shows(view[c][a].balance, request[c].what)
<1>1. TypeOK /\ HistoryInv /\ ControlInv /\ Told /\ SeenInv /\ [NodeNext]_nodeVars => [Tells]_nodeVars
  <2> SUFFICES ASSUME TypeOK, HistoryInv, ControlInv, Told, SeenInv, NodeNext,
                      NEW c \in Client, at[c] \in {"receipt", "found"}, outcome'[c] = "error",
                      at'[c] = "idle", NEW a \in DOMAIN view[c]
               PROVE  ~Shows(view[c][a].balance, request[c].what)
    OBVIOUS
  <2>1. at \in [Client -> Places] /\ request[c].what \in Tx
    BY DEF ControlInv, Control, Fits
  <2>2. ~(Start \/ Inside \/ Serve \/ Process \/ \E b \in Blocks : TakeCommit(b))
    BY DEF Start, Inside, Serve, SubmitTx, SubmitFails, Respond, Process, TakeCommit, connVars
  <2>3. ~Die
    BY DEF Die
  <2>4. ASSUME NEW d \in Client,
               \/ \E r \in Requests : Ask(d, r)
               \/ Enter(d) \/ Handler(d) \/ CallHandler(d) \/ CallHandlerPanics(d) \/ TakeSubmission(d)
        PROVE  FindTransaction(c) \/ FindReceipt(c)
    <3>1. \E place : at' = [at EXCEPT ![d] = place]
      BY <2>4 DEF Ask, Enter, Handler, Refuse, AccountsHandler, ReadBalance, ReadNonce, SendAccounts,
                  PrepareTransaction, RefuseSender, TakeRaw, SendHash, FindTransaction, FindReceipt,
                  CallHandler, CallHandlerPanics, TakeSubmission, Reply, Leave
    <3>2. d = c
      BY <2>1, <3>1
    <3>3. QED
      BY <2>4, <3>2 DEF Ask, Enter, Handler, Refuse, AccountsHandler, ReadBalance, ReadNonce,
                  SendAccounts, PrepareTransaction, RefuseSender, TakeRaw, SendHash, CallHandler,
                  CallHandlerPanics, TakeSubmission
  <2>5. FindTransaction(c) \/ FindReceipt(c)
    BY <2>2, <2>3, <2>4 DEF NodeNext
  <2>6. request[c].what \notin DOMAIN receiptTable
    <3>1. outcome \in [Client -> {"none", "ok", "empty", "error", "lost"}]
      BY DEF Told
    <3>2. CASE FindReceipt(c)
      BY <3>1, <3>2 DEF FindReceipt, Reply, Leave
    <3>3. CASE FindTransaction(c)
      <4>1. request[c].what \notin txTable
        BY <2>1, <3>3 DEF FindTransaction
      <4>2. QED
        BY <4>1 DEF HistoryInv, ReceiptsHaveTxs
    <3>4. QED
      BY <2>5, <3>2, <3>3
  <2>7. UsedBy(view[c][a].balance, DOMAIN receiptTable)
    BY DEF SeenInv, ViewsUsed
  <2>8. SUFFICES ASSUME Shows(view[c][a].balance, request[c].what) PROVE FALSE
    OBVIOUS
  <2> DEFINE t == request[c].what
             L == view[c][a].balance
  <2>9. t.from \in Account /\ t.nonce \in Nat /\ L.nonce[t.from] \in Nat /\ t.nonce < L.nonce[t.from]
    <3>1. t.from \in Account /\ t.nonce \in Nat
      BY <2>1, StateAssumption DEF Message
    <3>2. L \in Ledger
      BY DEF Told, Shown, Sights
    <3>3. L.nonce[t.from] \in Nat
      BY <3>1, <3>2 DEF Ledger
    <3>4. QED
      BY <2>8, <3>1, <3>3 DEF Shows
  <2>10. PICK u \in DOMAIN receiptTable : u.from = t.from /\ u.nonce = t.nonce
    <3>1. t.nonce \in 0..(L.nonce[t.from] - 1)
      BY <2>9
    <3>2. QED
      BY <2>7, <2>9, <3>1 DEF UsedBy
  <2>11. u \in Tx
    BY <2>10 DEF TypeOK
  <2>12. QED
    BY <2>1, <2>6, <2>10, <2>11 DEF SingleNonces
<1>2. WASInv /\ ControlInv /\ NonceInv /\ SeenInv /\ [NodeNext]_nodeVars => SeenInv'
  BY SeenStep DEF NonceInv
<1>3. ControlInv /\ TypeOK /\ Told /\ [NodeNext]_nodeVars => Told'
  BY ToldStep
<1>4. NodeInit => Told
  BY DataInit
<1>5. QED
  BY <1>1, <1>2, <1>3, <1>4, SeenInit, ControlCorrect, NodeImplementsState, TypeCorrect, WASCorrect,
     HistoryCorrect, NonceInvCorrect, PTL DEF NodeSpec, ImplementsState, EffectsHaveReceipts
=============================================================================
