----------------------------- MODULE MCNetwork -----------------------------
(***************************************************************************)
(* Two replicas and a log with a contract, payments, a block that fails    *)
(* after its first transaction, and a nonce that is used twice.            *)
(***************************************************************************)
EXTENDS Network, TLC

CONSTANTS a, b, c, o, zero, w1, none, noroot, n1, n2

MCAccount == {a, b, c, o}
MCWord    == {zero, w1}

Msg(from, to, create, nonce, value, data, gas, price, used) ==
    [from |-> from, to |-> to, create |-> create, nonce |-> nonce, value |-> value,
     data |-> data, gas |-> gas, price |-> price, intrinsic |-> 1, used |-> used, ok |-> TRUE,
     reads |-> "nothing"]

MCLog == << <<Msg(a, b, FALSE, 0, 0, none, 1, 0, 1)>>,
            <<Msg(a, c, TRUE, 1, 0, w1, 2, 1, 1), Msg(b, a, FALSE, 0, 1, none, 2, 0, 1)>>,
            <<Msg(a, b, FALSE, 2, 1, none, 1, 0, 1), Msg(a, b, FALSE, 2, 2, none, 1, 0, 1)>>,
            <<>>,
            <<Msg(b, c, FALSE, 1, 0, zero, 3, 0, 2)>> >>

MCCalls == {Msg(c, b, FALSE, 0, 0, w1, 2, 0, 1), Msg(a, b, FALSE, 0, 9, none, 2, 0, 1),
            Msg(a, b, FALSE, 0, 0, none, 1, 1, 1)}

MCGenesis == (a :> 2 @@ b :> 1)
MCReplica == {n1, n2}
Symmetry  == Permutations(MCReplica)
=============================================================================
