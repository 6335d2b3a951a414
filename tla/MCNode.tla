------------------------------- MODULE MCNode -------------------------------
(***************************************************************************)
(* Small instances of Node: two accounts, of which the node controls one.  *)
(***************************************************************************)
EXTENDS Node, TLC

CONSTANTS a, b, zero, none, junk, nohead, emptytx, nonce, nobody, panicked, c1, c2

MCAccount == {a, b}
MCWord    == {zero}

(* Worth nothing, so that none of them overdraws what its sender has, not  *)
(* even before the genesis accounts are there.                             *)
Pay(from, to, n) ==
    [from |-> from, to |-> to, create |-> FALSE, nonce |-> n, value |-> 0, data |-> none,
     gas |-> 1, price |-> 0, intrinsic |-> 1, used |-> 1, ok |-> TRUE, reads |-> "nothing"]

MCTx     == {Pay(a, b, n) : n \in 0..2} \cup {Pay(b, a, 0)}
MCJunk   == {junk}
MCBlocks == {<<>>, <<Pay(a, b, 0)>>, <<Pay(a, b, 1)>>, <<Pay(b, a, 0)>>, <<junk>>,
             <<Pay(a, b, 0), Pay(a, b, 1)>>, <<Pay(b, a, 0), junk>>}
MCCalls  == {Pay(b, a, 0), [Pay(a, b, 0) EXCEPT !.reads = "number"]}
MCGenesis == (a :> [balance |-> 2, storage |-> none] @@ b :> [balance |-> 1, storage |-> none])

MCControlled == <<a>>
MCTxArgs  == {[Pay(a, b, 0) EXCEPT !.nonce = nonce], [Pay(b, a, 0) EXCEPT !.nonce = nonce]}
MCRawTx   == {Pay(a, b, 1), junk}
MCForeign == {Pay(b, a, 0)}
MCClient  == {c1, c2}
OneClient == {c1}
FewBlocks == {<<Pay(a, b, 0)>>, <<Pay(b, a, 0)>>, <<junk>>}

(* Another node submits entries that do not decode, and does not stop.     *)
JunkBlocks  == {<<junk>>}
BusyForeign == {Pay(b, a, 0), junk}
NoBlocks    == {}

Symmetry == Permutations(MCClient)
=============================================================================
