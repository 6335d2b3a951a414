--------------------------- MODULE AtomicLedger ---------------------------
(***************************************************************************)
(* What the State App promises its readers, without write-ahead state,     *)
(* database, mutex or process: a ledger that moves in whole steps, each of *)
(* which settles a batch of transactions for good.                         *)
(***************************************************************************)
EXTENDS Integers, Functions

CONSTANTS Account, Tx, Grant  \* Grant: the Ether of genesis.json

VARIABLES nonce, balance,     \* the committed ledger
          done,               \* transactions with a receipt
          drifted,            \* history: may the ledger fall back?
          burnt               \* history: Ether failed transactions paid for gas

vars == <<nonce, balance, done, drifted, burnt>>

Init ==
    /\ nonce = [a \in Account |-> 0]
    /\ balance = [a \in Account |-> 0]
    /\ done = {}
    /\ drifted = FALSE
    /\ burnt = 0

(* Nonces pass over every transaction of the batch and never come back, so *)
(* none is settled twice; one transaction at most takes each nonce.        *)
Settles(batch) ==
    /\ \A a \in Account : nonce[a] <= nonce'[a]
    /\ \A t \in batch : nonce[t.from] <= t.nonce /\ t.nonce < nonce'[t.from]
    /\ \A t, u \in batch : t.from = u.from /\ t.nonce = u.nonce => t = u

(* A ledger with the balances of new has the Ether of old and of some of   *)
(* the genesis accounts, but for what failed transactions paid for gas.    *)
Pays(old, new) ==
    \E given \in {0, Grant} :
        LET gain == SumFunction(new) - SumFunction(old)
        IN  given - burnt <= gain /\ gain <= given

Advance ==
    /\ done \subseteq done'
    /\ done' \subseteq Tx
    /\ Settles(done' \ done)
    /\ Pays(balance, balance')
    /\ drifted => drifted'
    /\ burnt <= burnt'

(* A node that commits more than its last receipt tells loses the rest     *)
(* when it restarts: nonces nobody has a receipt for, the Ether of the     *)
(* genesis accounts, what was paid for gas.  No settled transaction is     *)
(* lost.                                                                   *)
FallBack ==
    /\ drifted
    /\ \A a \in Account : nonce'[a] <= nonce[a]
    /\ \A t \in done : t.nonce < nonce'[t.from]
    /\ Pays(balance', balance)
    /\ UNCHANGED <<done, drifted, burnt>>

Step == Advance \/ FallBack

Spec == Init /\ [][Step]_vars
=============================================================================
