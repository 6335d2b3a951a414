---------------------------- MODULE WebUiProofs ----------------------------
(***************************************************************************)
(* Every page of the demo web server shows its own statistics, for any     *)
(* number of pages in flight and however often Babble's statistics change. *)
(***************************************************************************)
EXTENDS WebUi, TLAPS

Places == {"arriving", "accounts", "stats", "answered"}

Keys == {"id", "accounts", "stats"}

Asking(r) == at[r] \in {"accounts", "stats"}

\* An upstream exchange belongs to a chain that waits for it.
ExchangesAwaited == \A r \in Page : upstream[r].state = "sent" => Asking(r)

\* The shared variable is a page's content as soon as a chain needs it.
ContentThere == (\E r \in Page : Asking(r)) => DOMAIN content = Keys

\* An answer is sent last, and nothing a chain does later touches it.
AnsweredLast == \A r \in Page : Shown(r) => at[r] = "answered"

PageInv ==
    /\ at \in [Page -> Places]
    /\ upstream = [r \in Page |-> upstream[r]] /\ response = [r \in Page |-> response[r]]
    /\ ExchangesAwaited /\ ContentThere /\ AnsweredLast
    /\ OwnStats

LEMMA PageInit == Init => PageInv
BY DEF Init, PageInv, Places, Idle, NoResponse, Asking, ExchangesAwaited, ContentThere,
       AnsweredLast, OwnStats, Shown

(* A step of one chain leaves the records of the others alone; what it     *)
(* leaves of its own has to be consistent.                                 *)
LEMMA ChainStep ==
    ASSUME PageInv, NEW r \in Page, NEW place \in Places, NEW exchange, NEW answer,
           at' = [at EXCEPT ![r] = place],
           upstream' = [upstream EXCEPT ![r] = exchange],
           response' = [response EXCEPT ![r] = answer],
           exchange.state = "sent" => place \in {"accounts", "stats"},
           answer.view = "index" => place = "answered" /\ answer.page.stats = exchange.body,
           ContentThere'
    PROVE  PageInv'
<1>1. /\ at' \in [Page -> Places] /\ at'[r] = place
      /\ \A q \in Page \ {r} : at'[q] = at[q]
  BY DEF PageInv
<1>2. /\ upstream' = [q \in Page |-> upstream'[q]] /\ upstream'[r] = exchange
      /\ \A q \in Page \ {r} : upstream'[q] = upstream[q]
  BY DEF PageInv
<1>3. /\ response' = [q \in Page |-> response'[q]] /\ response'[r] = answer
      /\ \A q \in Page \ {r} : response'[q] = response[q]
  BY DEF PageInv
<1>4. ExchangesAwaited'
  BY <1>1, <1>2 DEF PageInv, ExchangesAwaited, Asking
<1>5. AnsweredLast' /\ OwnStats'
  BY <1>1, <1>2, <1>3 DEF PageInv, AnsweredLast, OwnStats, Shown
<1>6. QED
  BY <1>1, <1>2, <1>3, <1>4, <1>5 DEF PageInv

(* The callbacks of one page, and the answers it waits for.                *)
LEMMA CallbackStep ==
    ASSUME PageInv, NEW r \in Page, Callback(r)
    PROVE  PageInv'
<1>1. /\ at \in [Page -> Places]
      /\ upstream = [upstream EXCEPT ![r] = upstream[r]]
      /\ response = [response EXCEPT ![r] = response[r]]
  BY DEF PageInv
<1>2. CASE Static(r) \/ NotFound(r) \/ Caught(r)
  <2>1. /\ upstream[r].state # "sent"
        /\ at' = [at EXCEPT ![r] = "answered"] /\ UNCHANGED <<upstream, content>>
        /\ \E s, v : v # "index" /\ response' = [response EXCEPT ![r] = [status |-> s, view |-> v]]
    BY <1>2 DEF Static, NotFound, Caught, Send, PageInv, ExchangesAwaited, Asking
  <2>2. PICK s, v : v # "index" /\ response' = [response EXCEPT ![r] = [status |-> s, view |-> v]]
    BY <2>1
  <2>3. ContentThere'
    BY <1>1, <2>1 DEF PageInv, ContentThere, Asking
  <2>4. upstream' = [upstream EXCEPT ![r] = upstream[r]]
    BY <1>1, <2>1
  <2>5. QED
    BY <2>1, <2>2, <2>3, <2>4, ChainStep DEF Places
<1>3. CASE Home(r) \/ GotAccounts(r)
  <2>1. /\ response' = [response EXCEPT ![r] = response[r]]
        /\ upstream' = [upstream EXCEPT ![r] = Waiting]
        /\ ~Shown(r)
        /\ \E place \in {"accounts", "stats"} : at' = [at EXCEPT ![r] = place]
    BY <1>1, <1>3 DEF Home, GotAccounts, Request, PageInv, AnsweredLast
  <2>2. PICK place \in {"accounts", "stats"} : at' = [at EXCEPT ![r] = place]
    BY <2>1
  <2>3. DOMAIN content' = Keys
    <3>1. CASE Home(r)
      BY <3>1 DEF Home, Keys
    <3>2. CASE GotAccounts(r)
      BY <3>2 DEF GotAccounts, PageInv, ContentThere, Asking
    <3>3. QED
      BY <1>3, <3>1, <3>2
  <2>4. ContentThere'
    BY <2>3 DEF ContentThere
  <2>5. response[r].view # "index"
    BY <2>1 DEF Shown
  <2>6. QED
    BY <2>1, <2>2, <2>4, <2>5, ChainStep DEF Places
<1>4. CASE GotStats(r)
  <2> DEFINE answer == [status |-> 200, view |-> "index", page |-> content']
  <2>1. /\ content' = [content EXCEPT !.stats = upstream[r].body]
        /\ response' = [response EXCEPT ![r] = answer]
        /\ at' = [at EXCEPT ![r] = "answered"]
        /\ upstream' = [upstream EXCEPT ![r] = upstream[r]]
        /\ upstream[r].state # "sent"
    BY <1>1, <1>4 DEF GotStats, Send, Arrived
  <2>2. DOMAIN content = Keys
    BY <1>4 DEF GotStats, PageInv, ContentThere, Asking
  <2>3. DOMAIN content' = Keys /\ content'.stats = upstream[r].body
    BY <2>1, <2>2 DEF Keys
  <2>4. ContentThere'
    BY <2>3 DEF ContentThere
  <2>5. answer.page.stats = upstream[r].body
    BY <2>3
  <2> HIDE DEF answer
  <2>6. QED
    BY <2>1, <2>4, <2>5, ChainStep DEF Places
<1>5. QED
  BY <1>2, <1>3, <1>4 DEF Callback

LEMMA UpstreamStep ==
    ASSUME PageInv, NEW r \in Page, Answer(r) \/ Break(r)
    PROVE  PageInv'
<1>1. /\ upstream[r].state = "sent" /\ UNCHANGED <<at, content, response>>
      /\ \E body : \E state \in {"answered", "broken"} :
            upstream' = [upstream EXCEPT ![r] = [state |-> state, body |-> body]]
  BY DEF Answer, Break
<1>2. PICK body : \E state \in {"answered", "broken"} :
         upstream' = [upstream EXCEPT ![r] = [state |-> state, body |-> body]]
  BY <1>1
<1>3. Asking(r) /\ ~Shown(r)
  BY <1>1 DEF PageInv, ExchangesAwaited, Asking, AnsweredLast
<1>4. /\ at' = [at EXCEPT ![r] = at[r]] /\ at[r] \in Places
      /\ response' = [response EXCEPT ![r] = response[r]]
  BY <1>1 DEF PageInv
<1>5. ContentThere'
  BY <1>1 DEF PageInv, ContentThere, Asking
<1>6. response[r].view # "index" /\ at[r] \in {"accounts", "stats"}
  BY <1>3 DEF Shown, Asking
<1>7. QED
  BY <1>2, <1>4, <1>5, <1>6, ChainStep

(* Chains, exchanges and answers agree, whatever the interleaving.         *)
THEOREM PageInvCorrect == Spec => []PageInv
<1>1. PageInv /\ [Next]_vars => PageInv'
  <2> SUFFICES ASSUME PageInv, [Next]_vars PROVE PageInv'
    OBVIOUS
  <2>1. CASE NextRound \/ UNCHANGED vars
    BY <2>1 DEF NextRound, vars, PageInv, ExchangesAwaited, ContentThere, AnsweredLast, OwnStats,
                Shown, Asking
  <2>2. QED
    BY <2>1, CallbackStep, UpstreamStep DEF Next
<1>2. QED
  BY <1>1, PageInit, PTL DEF Spec

(* Pages in flight share the variable content; still each is rendered with *)
(* the statistics its own request was answered with.                       *)
THEOREM OwnStatsCorrect == Spec => []OwnStats
<1>1. PageInv => OwnStats
  BY DEF PageInv
<1>2. QED
  BY <1>1, PageInvCorrect, PTL
=============================================================================
