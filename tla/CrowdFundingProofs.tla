------------------------- MODULE CrowdFundingProofs -------------------------
(***************************************************************************)
(* The Ether of the contract, for any users, goals, amounts and endowment, *)
(* and any number of campaigns settled one after another.                  *)
(***************************************************************************)
EXTENDS CrowdFunding, TLAPS

(* Backing and accounting hold together with the types: settle pays out of *)
(* a balance that covers the amount because Backed held before.            *)
LedgerInv == TypeOK /\ Backed /\ Accounted

LEMMA LedgerInit == Init => LedgerInv
BY CrowdAssumption DEF Init, LedgerInv, TypeOK, Backed, Accounted, Deployed

(* A transfer moves the Ether and leaves every other balance alone.        *)
LEMMA MovedType ==
    ASSUME balance \in [Account \cup {Self} -> Nat],
           NEW from \in Account \cup {Self}, NEW to \in Account \cup {Self},
           NEW v \in Nat, v <= balance[from]
    PROVE  /\ Moved(from, to, v) \in [Account \cup {Self} -> Nat]
           /\ from # to => /\ Moved(from, to, v)[from] = balance[from] - v
                           /\ Moved(from, to, v)[to] = balance[to] + v
           /\ \A x \in Account \cup {Self} : x # from /\ x # to =>
                 Moved(from, to, v)[x] = balance[x]
<1> DEFINE debited == [balance EXCEPT ![from] = @ - v]
<1>1. debited \in [Account \cup {Self} -> Nat]
  <2>1. balance[from] - v \in Nat
    OBVIOUS
  <2>2. QED
    BY <2>1
<1>2. debited[from] = balance[from] - v /\ \A x \in Account \cup {Self} : x # from => debited[x] = balance[x]
  OBVIOUS
<1>3. Moved(from, to, v) = [debited EXCEPT ![to] = @ + v]
  BY DEF Moved
<1> HIDE DEF debited
<1>4. QED
  BY <1>1, <1>2, <1>3

(* What the methods do to a stored campaign.                               *)
LEMMA CampaignType ==
    ASSUME NEW C \in Campaign
    PROVE  /\ \A v \in Nat : Contributed(C, v) \in Campaign /\ Contributed(C, v).amount = C.amount + v
           /\ PaidOut(C) \in Campaign /\ PaidOut(C).amount = 0
           /\ C.amount \in Nat /\ C.beneficiary \in Account /\ C # NoCampaign
BY CrowdAssumption DEF Campaign, Contributed, PaidOut

LEMMA StoredCampaign ==
    ASSUME TypeOK, Deployed
    PROVE  campaign \in Campaign
BY DEF TypeOK, Deployed

LEMMA CreateStep ==
    ASSUME LedgerInv, NEW a \in Account, NEW goal \in Goals, Create(a, goal)
    PROVE  LedgerInv'
<1>1. campaign' \in Campaign /\ campaign'.amount = 0 /\ campaign' # NoCampaign
  BY CrowdAssumption DEF Create, NewCampaign, Campaign
<1>2. QED
  BY <1>1 DEF Create, LedgerInv, TypeOK, Backed, Accounted, Deployed

LEMMA ContributeStep ==
    ASSUME LedgerInv, NEW a \in Account, NEW v \in Values, Contribute(a, v)
    PROVE  LedgerInv'
<1>1. /\ v \in Nat /\ a # Self /\ campaign \in Campaign /\ balance \in [Account \cup {Self} -> Nat]
      /\ destroyed \subseteq Account /\ stray \in Nat /\ raised \in Nat /\ paid \in Nat
  BY CrowdAssumption, StoredCampaign DEF Contribute, LedgerInv, TypeOK
<1>2. campaign' \in Campaign /\ campaign'.amount = campaign.amount + v /\ campaign' # NoCampaign
  BY <1>1, CampaignType DEF Contribute
<1>3. balance' \in [Account \cup {Self} -> Nat] /\ balance'[Self] = balance[Self] + v
  BY <1>1, MovedType DEF Contribute
<1>4. campaign.amount \in Nat /\ balance[Self] = stray + campaign.amount /\ raised = paid + campaign.amount
  BY <1>1, CampaignType DEF Contribute, LedgerInv, Backed, Accounted, Deployed
<1>5. TypeOK'
  BY <1>1, <1>2, <1>3 DEF Contribute, TypeOK
<1>6. Backed' /\ Accounted'
  BY <1>1, <1>2, <1>3, <1>4 DEF Contribute, Backed, Accounted, Deployed
<1>7. QED
  BY <1>5, <1>6 DEF LedgerInv

LEMMA SettleStep ==
    ASSUME LedgerInv, NEW a \in Account, Settle(a)
    PROVE  /\ LedgerInv'
           /\ balance'[Self] = balance[Self] - campaign.amount
           /\ balance'[campaign.beneficiary] = balance[campaign.beneficiary] + campaign.amount
           /\ campaign'.amount = 0
<1>1. /\ campaign \in Campaign /\ balance \in [Account \cup {Self} -> Nat]
      /\ stray \in Nat /\ raised \in Nat /\ paid \in Nat
  BY StoredCampaign DEF Settle, LedgerInv, TypeOK
<1>2. /\ campaign' \in Campaign /\ campaign'.amount = 0 /\ campaign' # NoCampaign
      /\ campaign.amount \in Nat /\ campaign.beneficiary \in Account
  BY <1>1, CampaignType DEF Settle
<1>3. campaign.beneficiary # Self
  BY <1>2, CrowdAssumption
<1>4. /\ balance' \in [Account \cup {Self} -> Nat]
      /\ balance'[Self] = balance[Self] - campaign.amount
      /\ balance'[campaign.beneficiary] = balance[campaign.beneficiary] + campaign.amount
  BY <1>1, <1>2, <1>3, MovedType DEF Settle
<1>5. balance[Self] = stray + campaign.amount /\ raised = paid + campaign.amount
  BY DEF Settle, LedgerInv, Backed, Accounted, Deployed
<1>6. /\ paid' = paid + campaign.amount /\ UNCHANGED <<destroyed, stray, raised>>
      /\ destroyed \subseteq Account
  BY DEF Settle, LedgerInv, TypeOK
<1>7. TypeOK'
  BY <1>1, <1>2, <1>4, <1>6 DEF TypeOK
<1>8. Backed' /\ Accounted'
  BY <1>1, <1>2, <1>4, <1>5, <1>6 DEF Backed, Accounted, Deployed
<1>9. QED
  BY <1>2, <1>4, <1>7, <1>8 DEF LedgerInv

(* A plain transfer reaches the contract only before it is created, and is *)
(* stray then.                                                             *)
LEMMA SendStep ==
    ASSUME LedgerInv, NEW a \in Account, NEW b \in Account \cup {Self}, NEW v \in Values, Send(a, b, v)
    PROVE  LedgerInv' /\ balance'[Self] >= balance[Self]
<1>1. /\ v \in Nat /\ a # Self /\ balance \in [Account \cup {Self} -> Nat] /\ balance[Self] \in Nat
      /\ stray \in Nat /\ balance' = Moved(a, b, v) /\ v <= balance[a]
  BY CrowdAssumption DEF Send, LedgerInv, TypeOK
<1>2. balance' \in [Account \cup {Self} -> Nat]
  BY <1>1, MovedType
<1>3. CASE b = Self /\ ~Accepts(b)
  <2>1. balance'[Self] = balance[Self] + v
    BY <1>1, <1>3, MovedType
  <2>2. stray' = stray + v /\ ~Deployed /\ ~Deployed'
    BY <1>3 DEF Send, Deployed
  <2>3. QED
    BY <1>1, <1>2, <2>1, <2>2 DEF Send, LedgerInv, TypeOK, Backed, Accounted
<1>4. CASE b # Self
  <2>1. balance'[Self] = balance[Self]
    BY <1>1, <1>4, MovedType
  <2>2. stray' = stray
    BY <1>4 DEF Send
  <2>3. QED
    BY <1>1, <1>2, <2>1, <2>2 DEF Send, LedgerInv, TypeOK, Backed, Accounted, Deployed
<1>5. b = Self => ~Accepts(b)
  BY CrowdAssumption DEF Accepts, LedgerInv, TypeOK
<1>6. QED
  BY <1>3, <1>4, <1>5

(* What a destroyed contract leaves to this one is stray, whatever the     *)
(* state of the campaign.                                                  *)
LEMMA SelfDestructStep ==
    ASSUME LedgerInv, NEW a \in Account, NEW b \in Account \cup {Self}, SelfDestruct(a, b)
    PROVE  LedgerInv' /\ balance'[Self] >= balance[Self]
<1> DEFINE left == Moved(a, b, balance[a])
<1>1. /\ a # Self /\ balance \in [Account \cup {Self} -> Nat]
      /\ balance[a] \in Nat /\ balance[Self] \in Nat /\ stray \in Nat
  BY CrowdAssumption DEF LedgerInv, TypeOK
<1>2. /\ left \in [Account \cup {Self} -> Nat]
      /\ left[Self] = IF b = Self THEN balance[Self] + balance[a] ELSE balance[Self]
  <2>1. left \in [Account \cup {Self} -> Nat] /\ (b = Self => left[Self] = balance[Self] + balance[a])
    BY <1>1, MovedType
  <2>2. b # Self => left[Self] = balance[Self]
    BY <1>1, MovedType
  <2>3. QED
    BY <2>1, <2>2
<1>3. balance' = [left EXCEPT ![a] = 0]
  BY DEF SelfDestruct
<1> HIDE DEF left
<1>4. balance' \in [Account \cup {Self} -> Nat] /\ balance'[Self] = left[Self]
  BY <1>1, <1>2, <1>3
<1>5. /\ stray' = IF b = Self THEN stray + balance[a] ELSE stray
      /\ destroyed' = destroyed \cup {a}
      /\ UNCHANGED <<campaign, raised, paid>>
  BY DEF SelfDestruct
<1>6. TypeOK'
  BY <1>1, <1>4, <1>5 DEF LedgerInv, TypeOK
<1>7. Backed' /\ Accounted' /\ balance'[Self] >= balance[Self]
  <2>1. PICK amount \in Nat : amount = IF Deployed THEN campaign.amount ELSE 0
    BY StoredCampaign, CampaignType DEF LedgerInv
  <2>2. balance[Self] = stray + amount /\ raised = paid + amount
    BY <2>1 DEF LedgerInv, Backed, Accounted
  <2>3. amount = IF Deployed' THEN campaign'.amount ELSE 0
    BY <1>5, <2>1 DEF Deployed
  <2>4. balance'[Self] = stray' + amount /\ raised' = paid' + amount
    BY <1>1, <1>2, <1>4, <1>5, <2>2
  <2>5. QED
    BY <1>1, <1>2, <1>4, <2>3, <2>4 DEF Backed, Accounted
<1>8. QED
  BY <1>6, <1>7 DEF LedgerInv

LEMMA LedgerCorrect == Spec => []LedgerInv
<1>1. LedgerInv /\ [Next]_vars => LedgerInv'
  <2> SUFFICES ASSUME LedgerInv, [Next]_vars PROVE LedgerInv'
    OBVIOUS
  <2>1. CASE UNCHANGED vars
    BY <2>1 DEF vars, LedgerInv, TypeOK, Backed, Accounted, Deployed
  <2>2. QED
    BY <2>1, CreateStep, ContributeStep, SettleStep, SendStep, SelfDestructStep DEF Next
<1>2. QED
  BY <1>1, LedgerInit, PTL DEF Spec

(* No balance and no amount is ever driven below zero.                     *)
THEOREM TypeCorrect == Spec => []TypeOK
<1>1. LedgerInv => TypeOK
  BY DEF LedgerInv
<1>2. QED
  BY <1>1, LedgerCorrect, PTL

(* The contract always holds what settle would transfer, on top of the     *)
(* Ether that was forced on it.                                            *)
THEOREM BackedCorrect == Spec => []Backed
<1>1. LedgerInv => Backed
  BY DEF LedgerInv
<1>2. QED
  BY <1>1, LedgerCorrect, PTL

(* Every wei contributed is on the campaign or has been paid out once.     *)
THEOREM AccountedCorrect == Spec => []Accounted
<1>1. LedgerInv => Accounted
  BY DEF LedgerInv
<1>2. QED
  BY <1>1, LedgerCorrect, PTL

(* Only a settlement takes Ether from the contract: the whole amount, to   *)
(* the beneficiary, with the goal met.                                     *)
THEOREM LeavesSettledCorrect == Spec => LeavesSettled
<1> DEFINE Settlement ==
        balance'[Self] < balance[Self] =>
          /\ campaign.amount >= campaign.fundingGoal
          /\ balance'[Self] = balance[Self] - campaign.amount
          /\ balance'[campaign.beneficiary] = balance[campaign.beneficiary] + campaign.amount
          /\ campaign'.amount = 0
<1>1. LedgerInv /\ [Next]_vars => [Settlement]_vars
  <2> SUFFICES ASSUME LedgerInv, Next PROVE Settlement
    OBVIOUS
  <2>1. balance[Self] \in Nat
    BY DEF LedgerInv, TypeOK
  <2>2. ASSUME NEW a \in Account, NEW goal \in Goals, Create(a, goal) PROVE Settlement
    BY <2>1, <2>2 DEF Create
  <2>3. ASSUME NEW a \in Account, NEW v \in Values, Contribute(a, v) PROVE Settlement
    <3>1. v \in Nat /\ a # Self /\ balance \in [Account \cup {Self} -> Nat]
      BY CrowdAssumption DEF LedgerInv, TypeOK
    <3>2. balance'[Self] = balance[Self] + v
      BY <2>3, <3>1, MovedType DEF Contribute
    <3>3. QED
      BY <2>1, <3>1, <3>2
  <2>4. ASSUME NEW a \in Account, Settle(a) PROVE Settlement
    <3>1. campaign.amount >= campaign.fundingGoal
      BY <2>4 DEF Settle, GoalReached
    <3>2. QED
      BY <2>4, <3>1, SettleStep
  <2>5. ASSUME NEW a \in Account, NEW b \in Account \cup {Self}, NEW v \in Values, Send(a, b, v)
        PROVE  Settlement
    <3>1. LedgerInv' /\ balance'[Self] >= balance[Self]
      BY <2>5, SendStep
    <3>2. balance'[Self] \in Nat
      BY <3>1 DEF LedgerInv, TypeOK
    <3>3. QED
      BY <2>1, <3>1, <3>2
  <2>6. ASSUME NEW a \in Account, NEW b \in Account \cup {Self}, SelfDestruct(a, b)
        PROVE  Settlement
    <3>1. LedgerInv' /\ balance'[Self] >= balance[Self]
      BY <2>6, SelfDestructStep
    <3>2. balance'[Self] \in Nat
      BY <3>1 DEF LedgerInv, TypeOK
    <3>3. QED
      BY <2>1, <3>1, <3>2
  <2>7. QED
    BY <2>2, <2>3, <2>4, <2>5, <2>6 DEF Next
<1>2. QED
  BY <1>1, LedgerCorrect, PTL DEF Spec, LeavesSettled
=============================================================================
