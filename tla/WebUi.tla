------------------------------- MODULE WebUi --------------------------------
(***************************************************************************)
(* The demo web server (ui/demo-server): the middleware of app.js and the  *)
(* route of the home page, which asks the evm-babble node for its accounts *)
(* and then the Babble node for its statistics, and renders both.  Node.js *)
(* runs one callback at a time, so a step is what runs between two events  *)
(* (a promise's callbacks included); pages in flight at the same time      *)
(* share the variable content, which no function declares.                 *)
(***************************************************************************)
EXTENDS Naturals

CONSTANTS
    Page,      \* HTTP requests of browsers
    Path,      \* what each of them asks for
    Config,    \* config.json
    Accounts,  \* the list the evm-babble node answers with
    Undefined, \* JavaScript's undefined
    MaxRounds  \* bound: how often the statistics of Babble change

ASSUME WebUiAssumption ==
    /\ Path \in [Page -> {"/", "/stylesheets/styles.css", "/other"}]
    /\ Undefined # Accounts
    /\ MaxRounds \in Nat

VARIABLES
    round,    \* last_consensus_round, which stands for all of Babble's statistics
    at,       \* per request: what its promise chain waits for
    upstream, \* per request: the HTTP exchange its chain waits for
    content,  \* the undeclared variable of routes/index.js
    response  \* per request: what the browser is sent

vars == <<round, at, upstream, content, response>>

NoResponse == [status |-> 0, view |-> "none"]
Idle       == [state |-> "idle", body |-> Undefined]
Waiting    == [state |-> "sent", body |-> Undefined]

Init ==
    /\ round = 0
    /\ at = [r \in Page |-> "arriving"]
    /\ upstream = [r \in Page |-> Idle]
    /\ content = Undefined
    /\ response = [r \in Page |-> NoResponse]

Send(r, answer) ==
    /\ response' = [response EXCEPT ![r] = answer]
    /\ at' = [at EXCEPT ![r] = "answered"]

----------------------------------------------------------------------------
(* app.js: the middleware a request goes through.                          *)

Static(r) ==
    /\ at[r] = "arriving" /\ Path[r] = "/stylesheets/styles.css"
    /\ Send(r, [status |-> 200, view |-> "file"])
    /\ UNCHANGED <<round, upstream, content>>

(* The 404 handler passes an error on to the error handler.                *)
NotFound(r) ==
    /\ at[r] = "arriving" /\ Path[r] = "/other"
    /\ Send(r, [status |-> 404, view |-> "error"])
    /\ UNCHANGED <<round, upstream, content>>

----------------------------------------------------------------------------
(* routes/index.js.                                                        *)

Request(r) == upstream' = [upstream EXCEPT ![r] = Waiting]

Home(r) ==
    /\ at[r] = "arriving" /\ Path[r] = "/"
    /\ content' = [id |-> Config.id, accounts |-> Undefined, stats |-> Undefined]
    /\ Request(r) /\ at' = [at EXCEPT ![r] = "accounts"]
    /\ UNCHANGED <<round, response>>

Arrived(r) == upstream[r].state = "answered"

(* The list is under the key accounts; what is read is Accounts.           *)
Field(object, key) == IF key \in DOMAIN object THEN object[key] ELSE Undefined

GotAccounts(r) ==
    /\ at[r] = "accounts" /\ Arrived(r)
    /\ content' = [content EXCEPT !.accounts = Field(upstream[r].body, "Accounts")]
    /\ Request(r) /\ at' = [at EXCEPT ![r] = "stats"]
    /\ UNCHANGED <<round, response>>

\* Defect: the page is rendered with the statistics that are there.
GotStatsLate(r) ==
    /\ at[r] = "stats" /\ Arrived(r)
    /\ content' = [content EXCEPT !.stats = upstream[r].body]
    /\ Send(r, [status |-> 200, view |-> "index", page |-> content])
    /\ UNCHANGED <<round, upstream>>

GotStats(r) ==
    /\ at[r] = "stats" /\ Arrived(r)
    /\ content' = [content EXCEPT !.stats = upstream[r].body]
    /\ Send(r, [status |-> 200, view |-> "index", page |-> content'])
    /\ UNCHANGED <<round, upstream>>

\* Defect: the rejection is logged and nothing is rendered.
CaughtSilently(r) ==
    /\ upstream[r].state = "broken" /\ at[r] \in {"accounts", "stats"}
    /\ at' = [at EXCEPT ![r] = "caught"]
    /\ UNCHANGED <<round, upstream, content, response>>

(* An error event, or a body JSONbig.parse throws on, renders the error    *)
(* view, with the status of a success.                                     *)
Caught(r) ==
    /\ upstream[r].state = "broken" /\ at[r] \in {"accounts", "stats"}
    /\ Send(r, [status |-> 200, view |-> "error"])
    /\ UNCHANGED <<round, upstream, content>>

----------------------------------------------------------------------------
(* The two nodes it asks, and Babble's progress.                           *)

AnswerFor(r) == IF at[r] = "accounts" THEN [accounts |-> Accounts]
                                      ELSE [last_consensus_round |-> round]

Answer(r) ==
    /\ upstream[r].state = "sent"
    /\ upstream' = [upstream EXCEPT ![r] = [state |-> "answered", body |-> AnswerFor(r)]]
    /\ UNCHANGED <<round, at, content, response>>

Break(r) ==
    /\ upstream[r].state = "sent"
    /\ upstream' = [upstream EXCEPT ![r] = [state |-> "broken", body |-> Undefined]]
    /\ UNCHANGED <<round, at, content, response>>

NextRound ==
    /\ round < MaxRounds
    /\ round' = round + 1
    /\ UNCHANGED <<at, upstream, content, response>>

Callback(r) == Static(r) \/ NotFound(r) \/ Home(r) \/ GotAccounts(r) \/ GotStats(r) \/ Caught(r)

Next ==
    \/ NextRound
    \/ \E r \in Page : Callback(r) \/ Answer(r) \/ Break(r)

Spec == Init /\ [][Next]_vars

(* Events are handled, and an upstream request is answered or broken.      *)
FairSpec == Spec /\ \A r \in Page : WF_vars(Callback(r)) /\ WF_vars(Answer(r) \/ Break(r))

----------------------------------------------------------------------------
(* Properties.                                                             *)

Shown(r) == response[r].view = "index"

(* Although every page in flight writes the same variable, each one is     *)
(* rendered with the statistics its own request was answered with.         *)
OwnStats == \A r \in Page : Shown(r) => response[r].page.stats = upstream[r].body

(* Every request is answered, with an error page if need be.               *)
EveryRequestAnswered == \A r \in Page : <>(at[r] = "answered")

(* routes/index.js:87-90 documents the content of a page with a list of    *)
(* accounts, which the view iterates over.                                 *)
PageListsAccounts == \A r \in Page : Shown(r) => response[r].page.accounts = Accounts
=============================================================================
