---------------------------- MODULE MCEvmState ----------------------------
(***************************************************************************)
(* Small instances of EvmState: two key accounts and a contract.           *)
(***************************************************************************)
EXTENDS EvmState, TLC

CONSTANTS a, b, c, o, zero, w1, none, junk, nohead, emptytx

MCAccount == {a, b, c, o}
MCWord    == {zero, w1}

Msg(from, to, create, nonce, value, data, gas, price, intrinsic, used, ok, reads) ==
    [from |-> from, to |-> to, create |-> create, nonce |-> nonce, value |-> value, data |-> data,
     gas |-> gas, price |-> price, intrinsic |-> intrinsic, used |-> used, ok |-> ok, reads |-> reads]

(* The cases of ApplyMessage: transfers that succeed (one at a price, with *)
(* change of the gas bought), a creation, an execution that reverts, a     *)
(* call and a creation that overdraw (the latter at a price its sender may *)
(* not be able to pay), gas below the intrinsic gas; a transaction of      *)
(* nothing, which runs before there is any Ether; and one whose code asks  *)
(* for the time.                                                           *)
Pay0     == Msg(a, b, FALSE, 0, 1, none, 1, 0, 1, 1, TRUE,  "nothing")
Pay1     == Msg(a, b, FALSE, 1, 0, none, 2, 1, 1, 1, TRUE,  "number")
Create0  == Msg(a, c, TRUE,  0, 1, w1,   2, 0, 1, 2, TRUE,  "nothing")
Revert1  == Msg(a, c, FALSE, 1, 0, w1,   1, 1, 1, 1, FALSE, "nothing")
Over1    == Msg(a, b, FALSE, 1, 2, none, 1, 1, 1, 1, TRUE,  "nothing")
OverNew0 == Msg(b, c, TRUE,  0, 4, w1,   1, 1, 1, 1, TRUE,  "nothing")
Zero0    == Msg(b, a, FALSE, 0, 0, none, 1, 0, 1, 1, TRUE,  "nothing")
Under1   == Msg(a, b, FALSE, 1, 0, none, 1, 1, 2, 2, TRUE,  "nothing")
Clock1   == Msg(b, c, FALSE, 1, 0, none, 1, 0, 1, 1, TRUE,  "time")

MCTx   == {Pay0, Pay1, Create0, Revert1, Over1, OverNew0, Under1, Zero0, Clock1}
MCJunk == {junk}

MCBlocks == {<<>>, <<Pay0>>, <<Pay0, Pay1>>, <<Create0, Revert1, junk>>, <<Pay0, Over1>>,
             <<OverNew0>>, <<Under1>>, <<Zero0, Clock1>>}

(* A call that runs, one that overdraws, one that asks for its block:      *)
(* nonces of calls are not checked.                                        *)
MCCalls == {Msg(a, c, FALSE, 0, 0, none, 2, 1, 1, 2, TRUE, "nothing"),
            Msg(b, a, FALSE, 0, 4, none, 2, 0, 1, 1, TRUE, "nothing"),
            Msg(a, c, FALSE, 0, 0, none, 2, 0, 1, 1, TRUE, "number")}

FewBlocks == {<<>>, <<Pay0>>, <<Pay1>>, <<Pay0, Pay1>>, <<Zero0, junk>>, <<Pay0, Over1>>,
              <<Zero0, Clock1>>}

MCGenesis == (a :> [balance |-> 3, storage |-> none] @@ c :> [balance |-> 0, storage |-> w1])

NoCalls == {}
=============================================================================
