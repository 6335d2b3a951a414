------------------------ MODULE CrowdFundingContract ------------------------
(***************************************************************************)
(* The methods of crowd-funding.sol as functions of the one campaign the   *)
(* contract stores.  An amount is a natural number: all the Ether there is *)
(* fits in a uint256, so a sum of contributions never wraps.               *)
(***************************************************************************)
EXTENDS Naturals

(* numFunders is never written and the struct Funder never used.           *)
NewCampaign(sender, goal) == [beneficiary |-> sender, fundingGoal |-> goal, amount |-> 0]

Contributed(campaign, value) == [campaign EXCEPT !.amount = @ + value]

GoalReached(campaign) == campaign.amount >= campaign.fundingGoal

\* Defect: the amount that is paid out stays on the campaign.
PaidOutNotCleared(campaign) == campaign

(* The campaign after settle has paid its amount: it is open again.        *)
PaidOut(campaign) == [campaign EXCEPT !.amount = 0]
=============================================================================
