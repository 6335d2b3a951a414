---------------------------- MODULE CrowdFunding ----------------------------
(***************************************************************************)
(* The contract of the demo among its users: who holds which Ether while   *)
(* anybody contributes, settles, sends plain transfers or, being a         *)
(* contract, destroys itself in favour of another address.                 *)
(***************************************************************************)
EXTENDS CrowdFundingContract

CONSTANTS
    Account,    \* addresses of users and of other contracts
    Self,       \* the address the contract is created at
    Accepting,  \* accounts that accept a plain transfer
    Destructible, \* contracts among them that can destroy themselves
    Endowment,  \* their Ether at first
    Goals,      \* goals a campaign may be created with
    Values,     \* amounts a transaction may carry
    NoCampaign, \* the contract has not been created
    MaxRaised   \* bound: what all contributions together may carry

Campaign == [beneficiary : Account, fundingGoal : Nat, amount : Nat]

ASSUME CrowdAssumption ==
    /\ Self \notin Account
    /\ Accepting \subseteq Account
    /\ Destructible \subseteq Account
    /\ Endowment \in [Account -> Nat]
    /\ Goals \subseteq Nat
    /\ Values \subseteq Nat
    /\ NoCampaign \notin Campaign
    /\ MaxRaised \in Nat

VARIABLES
    balance,   \* Ether of every account and of the contract
    campaign,  \* what the contract stores
    destroyed, \* contracts that have destroyed themselves
    stray,     \* history: Ether that reached the contract's address by other ways than contribute
    raised,    \* history: the contributions
    paid       \* history: what settlements have paid

vars == <<balance, campaign, destroyed, stray, raised, paid>>

Deployed == campaign # NoCampaign

Init ==
    /\ balance = [a \in Account \cup {Self} |-> IF a = Self THEN 0 ELSE Endowment[a]]
    /\ campaign = NoCampaign
    /\ destroyed = {}
    /\ stray = 0 /\ raised = 0 /\ paid = 0

Moved(from, to, v) == LET debited == [balance EXCEPT ![from] = @ - v]
                      IN  [debited EXCEPT ![to] = @ + v]

(* What is left of a destroyed contract has no code to refuse a transfer.  *)
Accepts(a) == a \in Accepting \cup destroyed

(* The constructor is not payable.                                         *)
Create(a, goal) ==
    /\ ~Deployed
    /\ campaign' = NewCampaign(a, goal)
    /\ UNCHANGED <<balance, destroyed, stray, raised, paid>>

\* Defect: the value is not checked against the balance of the sender.
ContributeOnCredit(a, v) ==
    /\ Deployed
    /\ raised + v <= MaxRaised
    /\ campaign' = Contributed(campaign, v)
    /\ balance' = Moved(a, Self, v)
    /\ raised' = raised + v
    /\ UNCHANGED <<destroyed, stray, paid>>

Contribute(a, v) ==
    /\ Deployed
    /\ raised + v <= MaxRaised
    /\ v <= balance[a]
    /\ campaign' = Contributed(campaign, v)
    /\ balance' = Moved(a, Self, v)
    /\ raised' = raised + v
    /\ UNCHANGED <<destroyed, stray, paid>>

\* Defect: anybody who settles is the one who is paid.
SettlePaysCaller(a) ==
    /\ Deployed
    /\ GoalReached(campaign)
    /\ campaign.amount <= balance[Self]
    /\ Accepts(a)
    /\ balance' = Moved(Self, a, campaign.amount)
    /\ paid' = paid + campaign.amount
    /\ campaign' = PaidOut(campaign)
    /\ UNCHANGED <<destroyed, stray, raised>>

(* Anybody may settle.  Below the goal nothing changes but an event; when  *)
(* the transfer throws, because the beneficiary does not accept it or the  *)
(* contract lacks the Ether, the transaction is reverted.                  *)
Settle(a) ==
    /\ Deployed
    /\ GoalReached(campaign)
    /\ campaign.amount <= balance[Self]
    /\ Accepts(campaign.beneficiary)
    /\ balance' = Moved(Self, campaign.beneficiary, campaign.amount)
    /\ paid' = paid + campaign.amount
    /\ campaign' = PaidOut(campaign)
    /\ UNCHANGED <<destroyed, stray, raised>>

(* A plain transfer.  The contract has no payable fallback function, so    *)
(* that it refuses one once it is created.                                 *)
Send(a, b, v) ==
    /\ v <= balance[a]
    /\ \/ Accepts(b) /\ UNCHANGED stray
       \/ b = Self /\ ~Deployed /\ stray' = stray + v
    /\ balance' = Moved(a, b, v)
    /\ UNCHANGED <<campaign, destroyed, raised, paid>>

(* SELFDESTRUCT gives all the Ether of a contract to an address without    *)
(* running code there: nobody can refuse it.  In favour of itself the      *)
(* Ether is gone.                                                          *)
SelfDestruct(a, b) ==
    /\ a \in Destructible
    /\ balance' = [Moved(a, b, balance[a]) EXCEPT ![a] = 0]
    /\ stray' = IF b = Self THEN stray + balance[a] ELSE stray
    /\ destroyed' = destroyed \cup {a}
    /\ UNCHANGED <<campaign, raised, paid>>

Next ==
    \E a \in Account \ destroyed :
       \/ \E goal \in Goals : Create(a, goal)
       \/ \E v \in Values : Contribute(a, v)
       \/ Settle(a)
       \/ \E b \in Account \cup {Self}, v \in Values : Send(a, b, v)
       \/ \E b \in Account \cup {Self} : SelfDestruct(a, b)

Spec == Init /\ [][Next]_vars

----------------------------------------------------------------------------
(* Properties.                                                             *)

(* No balance, amount or history counter goes below zero.                  *)
TypeOK ==
    /\ balance \in [Account \cup {Self} -> Nat]
    /\ campaign \in Campaign \cup {NoCampaign}
    /\ destroyed \subseteq Account
    /\ stray \in Nat /\ raised \in Nat /\ paid \in Nat

(* The contract can always pay what settle would transfer: it holds the    *)
(* amount of the campaign on top of what reached its address by other ways *)
(* than contribute, before it existed or by force, and that stays there:   *)
(* it is neither counted as a contribution nor paid out by a settlement.   *)
Backed == balance[Self] = stray + (IF Deployed THEN campaign.amount ELSE 0)

(* Over any number of settlements, every wei that was contributed is       *)
(* either still on the campaign or has been paid out, and never twice.     *)
Accounted == raised = paid + (IF Deployed THEN campaign.amount ELSE 0)

(* Ether leaves the contract only when the goal is met, only to the        *)
(* beneficiary, and then the whole amount of the campaign at once.         *)
LeavesSettled ==
    [][balance'[Self] < balance[Self] =>
          /\ campaign.amount >= campaign.fundingGoal
          /\ balance'[Self] = balance[Self] - campaign.amount
          /\ balance'[campaign.beneficiary] = balance[campaign.beneficiary] + campaign.amount
          /\ campaign'.amount = 0]_vars
=============================================================================
