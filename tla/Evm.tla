-------------------------------- MODULE Evm --------------------------------
(***************************************************************************)
(* What evm-babble uses of go-ethereum 1.7.0: the content of a StateDB (a  *)
(* ledger), the messages of core.ApplyMessage, and the four ways in which  *)
(* that function can end.  None of this code is in the repository; it is   *)
(* modelled from the calls and error returns in state/state.go.            *)
(*                                                                         *)
(* Abstractions: the code and storage of an account is one word; what the  *)
(* EVM charges for a message, whether its execution succeeds and what it   *)
(* asks of its block are attributes of it; an execution pays the receiver  *)
(* and nobody else (what the code of a contract sends on, or destroys with *)
(* itself, is left out).                                                   *)
(***************************************************************************)
EXTENDS Integers, FiniteSets

CONSTANTS
    Account,   \* addresses, of 20 bytes
    Coinbase,  \* the zero address: the one a vm.Context names if nobody sets it
    Word,      \* contents of an account's code and storage
    ZeroWord,  \* the content of an account nobody has written to
    NoWord,    \* "leaves the storage alone"
    GasLimit   \* gas in the pool of a fresh write-ahead state

ASSUME EvmAssumption ==
    /\ IsFiniteSet(Account)
    /\ Coinbase \in Account
    /\ ZeroWord \in Word
    /\ NoWord \notin Word
    /\ GasLimit \in Nat

(* A ledger stands for a state trie and, hashing being injective, also for *)
(* its root.                                                               *)
Ledger == [nonce   : [Account -> Nat],
           balance : [Account -> Nat],
           storage : [Account -> Word]]

(* The trie ethState.New opens for the zero hash.                          *)
EmptyLedger == [nonce   |-> [a \in Account |-> 0],
                balance |-> [a \in Account |-> 0],
                storage |-> [a \in Account |-> ZeroWord]]

(* A signed transaction or a call.  For a contract creation "to" is the    *)
(* address CreateAddress derives from the sender and the nonce.  An        *)
(* execution that ends with ok = FALSE is one the EVM reverts.  "reads" is *)
(* what its code asks of its block: "number" is what the context of a      *)
(* transaction has and that of a call has not (also the gas limit), "time" *)
(* what neither has (also the difficulty).                                 *)
Message == [from : Account, to : Account, create : BOOLEAN,
            nonce : Nat, value : Nat, data : Word \cup {NoWord},
            gas : Nat, price : Nat, intrinsic : Nat, used : Nat, ok : BOOLEAN,
            reads : {"nothing", "number", "time"}]

(* What is charged lies between the intrinsic gas and the gas bought.      *)
WellFormed(m) == m.intrinsic <= m.gas => m.intrinsic <= m.used /\ m.used <= m.gas

----------------------------------------------------------------------------
(* The checks of ApplyMessage, in the order it makes them.                 *)

NonceMatches(L, m) == m.nonce = L.nonce[m.from]

(* buyGas wants the price of all the gas from the balance of the sender    *)
(* and the gas from the pool.                                              *)
GasCost(m) == m.gas * m.price

BuysGas(L, pool, m) == GasCost(m) <= L.balance[m.from] /\ m.gas <= pool

Bought(L, m) == [L EXCEPT !.balance[m.from] = @ - GasCost(m)]

CoversIntrinsic(m) == m.intrinsic <= m.gas

\* L: the ledger after the purchase.
CanTransfer(L, m) == m.value <= L.balance[m.from]

(* A message that passes them is executed and its unused gas refunded.     *)
Executes(L, pool, m) ==
    BuysGas(L, pool, m) /\ CoversIntrinsic(m) /\ CanTransfer(Bought(L, m), m)

(* Gas that was bought is only returned at the end of an execution: an     *)
(* error after the purchase keeps all of it.                               *)
PoolAfter(L, pool, m) ==
    CASE Executes(L, pool, m) -> pool - m.used
      [] BuysGas(L, pool, m) /\ ~Executes(L, pool, m) -> pool - m.gas
      [] OTHER -> pool

(* Code that reads what its context leaves nil panics; the gas it bought   *)
(* stays bought.                                                           *)
CallPanics(L, pool, m) == Executes(L, pool, m) /\ m.reads # "nothing"

TransactionPanics(L, pool, m) == Executes(L, pool, m) /\ m.reads = "time"

PoolAfterCall(L, pool, m) ==
    IF CallPanics(L, pool, m) THEN pool - m.gas ELSE PoolAfter(L, pool, m)

----------------------------------------------------------------------------
(* The effects on the ledger.                                              *)

Transfer(balance, from, to, n) ==
    LET debited == [balance EXCEPT ![from] = @ - n]
    IN  [debited EXCEPT ![to] = @ + n]

BumpNonce(L, a) == [L EXCEPT !.nonce[a] = @ + 1]

StoreData(storage, m) == IF m.data = NoWord THEN storage ELSE [storage EXCEPT ![m.to] = m.data]

(* The sender's nonce moves whether or not the EVM reverts the rest.  The  *)
(* price of the unused gas is refunded, that of the used gas credited, so  *)
(* that it has been paid to Coinbase in the end.                           *)
Execute(L, m) ==
    LET paid == Transfer(L.balance, m.from, Coinbase, m.used * m.price)
    IN  [nonce   |-> BumpNonce(L, m.from).nonce,
         balance |-> IF m.ok THEN Transfer(paid, m.from, m.to, m.value) ELSE paid,
         storage |-> IF m.ok THEN StoreData(L.storage, m) ELSE L.storage]

(* A transfer of more than the sender has: a call has already moved the    *)
(* nonce when it finds out, a creation has not.  Nobody gets the price of  *)
(* the gas.                                                                *)
Overdrawn(L, m) == IF m.create THEN Bought(L, m) ELSE BumpNonce(Bought(L, m), m.from)
=============================================================================
