------------------------------ MODULE Network ------------------------------
(***************************************************************************)
(* Several evm-babble nodes that Babble feeds the same blocks in the same  *)
(* order.  Each runs the State App of EvmState; commitMutex makes a block, *)
(* a call and the creation of the genesis accounts atomic, so each is one  *)
(* action here, and failed writes, the single writes of a commit and       *)
(* transactions that end a process are left to that module.                *)
(***************************************************************************)
EXTENDS Evm, SequencesExt

CONSTANTS
    Replica,     \* the nodes
    Log,         \* the blocks Babble orders, first to last
    Calls,       \* read-only messages of /call requests
    HasGenesis,  \* is there a genesis.json? (the same for all)
    Genesis,     \* its accounts and their Ether
    NoRoot,      \* no receipt to take a root from
    MaxStarts    \* bound: starts of each process

ASSUME NetworkAssumption ==
    /\ Log \in Seq(Seq(Message))
    /\ \A h \in DOMAIN Log : \A i \in DOMAIN Log[h] : Log[h][i].reads # "time"
    /\ Calls \subseteq Message
    /\ HasGenesis \in BOOLEAN
    /\ Genesis \in [DOMAIN Genesis -> Nat] /\ DOMAIN Genesis \subseteq Account
    /\ NoRoot \notin Ledger
    /\ MaxStarts \in Nat

VARIABLES
    height,   \* blocks delivered
    was,      \* ledger of the write-ahead state
    gp,       \* its gas pool
    lastRoot, \* root in its last receipt
    statedb,  \* the committed ledger
    head,     \* what the database names as the head: "none", "unreadable" or "stored"
    headRoot, \* root in the receipt of the head
    pending,  \* the genesis accounts of this life are still to be created
    minted,   \* heights at which they were, in this life and before
    failed,   \* a block has failed
    starts

vars == <<height, was, gp, lastRoot, statedb, head, headRoot, pending, minted, failed, starts>>

Init ==
    /\ height = [n \in Replica |-> 0]
    /\ was = [n \in Replica |-> EmptyLedger] /\ statedb = was
    /\ gp = [n \in Replica |-> GasLimit]
    /\ lastRoot = [n \in Replica |-> NoRoot]
    /\ head = [n \in Replica |-> "none"] /\ headRoot = lastRoot
    /\ pending = [n \in Replica |-> HasGenesis]
    /\ minted = [n \in Replica |-> <<>>]
    /\ failed = [n \in Replica |-> FALSE]
    /\ starts = [n \in Replica |-> 1]

----------------------------------------------------------------------------
(* One round of the loop of ProcessBlock on a write-ahead state s.         *)

Applied(s, t) == [s EXCEPT !.was = Execute(s.was, t),
                           !.gp = PoolAfter(s.was, s.gp, t),
                           !.last = Execute(s.was, t)]

(* The error returns of applyTransaction and what they leave behind.       *)
Failed(s, t) ==
    LET bought == NonceMatches(s.was, t) /\ BuysGas(s.was, s.gp, t)
    IN  [s EXCEPT !.ok = FALSE,
                  !.gp = IF bought THEN PoolAfter(s.was, s.gp, t) ELSE @,
                  !.was = CASE bought /\ CoversIntrinsic(t) -> Overdrawn(@, t)
                            [] bought /\ ~CoversIntrinsic(t) -> Bought(@, t)
                            [] OTHER -> @]

ApplyTransaction(s, t) ==
    CASE ~s.ok -> s
      [] s.ok /\ NonceMatches(s.was, t) /\ Executes(s.was, s.gp, t) -> Applied(s, t)
      [] OTHER -> Failed(s, t)

Processed(n, b) ==
    FoldLeft(ApplyTransaction, [was |-> was[n], gp |-> gp[n], last |-> lastRoot[n], ok |-> TRUE], b)

(* The commit of a write-ahead state with ledger L, whose last receipt has *)
(* that root; without any the head names no receipt.                       *)
Commit(n, L, root) ==
    /\ was' = [was EXCEPT ![n] = L]
    /\ statedb' = [statedb EXCEPT ![n] = L]
    /\ gp' = [gp EXCEPT ![n] = GasLimit]
    /\ lastRoot' = [lastRoot EXCEPT ![n] = NoRoot]
    /\ head' = [head EXCEPT ![n] = IF root = NoRoot THEN "unreadable" ELSE "stored"]
    /\ headRoot' = [headRoot EXCEPT ![n] = root]

ProcessBlock(n) ==
    /\ height[n] < Len(Log)
    /\ height' = [height EXCEPT ![n] = @ + 1]
    /\ LET s == Processed(n, Log[height'[n]])
       IN  \/ /\ s.ok
              /\ Commit(n, s.was, s.last)
              /\ UNCHANGED failed
           \/ /\ ~s.ok
              /\ was' = [was EXCEPT ![n] = s.was]
              /\ gp' = [gp EXCEPT ![n] = s.gp]
              /\ lastRoot' = [lastRoot EXCEPT ![n] = s.last]
              /\ failed' = [failed EXCEPT ![n] = TRUE]
              /\ UNCHANGED <<statedb, head, headRoot>>
    /\ UNCHANGED <<pending, minted, starts>>

CreateAccounts(n) ==
    /\ pending[n]
    /\ pending' = [pending EXCEPT ![n] = FALSE]
    /\ minted' = [minted EXCEPT ![n] = Append(@, height[n])]
    /\ Commit(n, [was[n] EXCEPT !.balance = [a \in Account |->
                     IF a \in DOMAIN Genesis THEN @[a] + Genesis[a] ELSE @[a]]], lastRoot[n])
    /\ UNCHANGED <<height, failed, starts>>

\* Defect: the call runs on the write-ahead state itself.
CallOnWAS(n, m) ==
    /\ ~pending[n]
    /\ gp' = [gp EXCEPT ![n] = PoolAfterCall(was[n], @, m)]
    /\ was' = [was EXCEPT ![n] = IF Executes(@, gp[n], m) THEN Execute(@, m) ELSE @]
    /\ UNCHANGED <<height, lastRoot, statedb, head, headRoot, pending, minted, failed, starts>>

(* A call runs on a copy of the ledger and draws on the gas pool itself.   *)
Call(n, m) ==
    /\ ~pending[n]
    /\ gp' = [gp EXCEPT ![n] = PoolAfterCall(was[n], @, m)]
    /\ UNCHANGED <<height, was, lastRoot, statedb, head, headRoot, pending, minted, failed, starts>>

(* A process ends between two blocks and starts from its database, if the  *)
(* head has a receipt.  Babble goes on where it stopped.                   *)
Restart(n) ==
    /\ starts[n] < MaxStarts
    /\ head[n] # "unreadable"
    /\ starts' = [starts EXCEPT ![n] = @ + 1]
    /\ LET loaded == IF head[n] = "none" THEN EmptyLedger ELSE headRoot[n]
       IN  /\ was' = [was EXCEPT ![n] = loaded]
           /\ statedb' = [statedb EXCEPT ![n] = loaded]
    /\ gp' = [gp EXCEPT ![n] = GasLimit]
    /\ lastRoot' = [lastRoot EXCEPT ![n] = NoRoot]
    /\ pending' = [pending EXCEPT ![n] = HasGenesis]
    /\ UNCHANGED <<height, head, headRoot, minted, failed>>

Next ==
    \E n \in Replica :
       \/ ProcessBlock(n)
       \/ CreateAccounts(n)
       \/ \E m \in Calls : Call(n, m)
       \/ Restart(n)

Spec == Init /\ [][Next]_vars

----------------------------------------------------------------------------
(* Properties.                                                             *)

(* Nodes that have processed the same blocks without a failure, and have   *)
(* created the genesis accounts at the same moments, serve the same        *)
(* ledger: their calls and restarts do not tell them apart.                *)
AgreeUnlessFailed ==
    \A m, n \in Replica :
        /\ height[m] = height[n] /\ minted[m] = minted[n]
        /\ ~failed[m] /\ ~failed[n]
        => statedb[m] = statedb[n]

(* demo.js:338-339: "They each applied the same changes to their local     *)
(* copy of the ledger": nodes with the same blocks, and nothing left to do *)
(* for their genesis accounts, serve the same ledger.                      *)
ReplicasAgree ==
    \A m, n \in Replica :
        height[m] = height[n] /\ ~pending[m] /\ ~pending[n] => statedb[m] = statedb[n]
=============================================================================
