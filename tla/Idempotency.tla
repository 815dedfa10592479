----------------------------- MODULE Idempotency -----------------------------
(***************************************************************************)
(* Idempotency keys on the order routes: the middleware idempotent(scope)  *)
(* and claim/complete over the idempotency_keys table, shared by           *)
(* concurrent requests.                                                    *)
(*                                                                         *)
(* A request is one HTTP attempt that carries a valid key.  A key stands   *)
(* for the primary key (user_id, scope, key), Content for the request hash *)
(* (the order, params included).  The order handler behind the middleware  *)
(* is any code that ends by res.json with one of Outcomes.  Each action is *)
(* the code between two awaits.                                            *)
(***************************************************************************)
EXTENDS Integers

CONSTANTS
    Requests,       \* HTTP attempts
    KeyOf,          \* KeyOf[r]: the key r carries
    Content,        \* Content[r]: what r asks for, as request_hash sees it
    Outcomes,       \* the responses the order handler may give
    TTL,            \* age at which a key may be deleted
    RequestBound,   \* a handler has recorded its answer within this age of its row (above TTL: no bound)
    None,
    MaxFaults

\* The middleware's own answers: 409, 422, 503.
Refusals == {"IDEMPOTENCY_IN_PROGRESS", "IDEMPOTENCY_KEY_REUSED", "IDEMPOTENCY_UNAVAILABLE"}

Keys == {KeyOf[r] : r \in Requests}

ASSUME RequestsAssumption ==
    /\ None \notin Requests \cup Outcomes \cup Refusals
    /\ Outcomes \cap Refusals = {}
ASSUME TimesAssumption == TTL \in Nat \ {0} /\ RequestBound \in Nat /\ MaxFaults \in Nat

VARIABLES
    \* the idempotency_keys table
    status,     \* status[k], "absent" without a row
    row,        \* row[k]: the request whose INSERT made the row (its hash is Content[row[k]]), or None
    response,   \* response[k]: response_status and response_body
    age,        \* NOW() - created_at, saturating at TTL
    \* the requests
    phase,      \* where each request stands
    outcome,    \* what its handler passed to res.json
    reply,      \* what the client was told
    deletes,    \* clean-up DELETEs sent by claim and not yet executed
    faults

tableVars == <<status, row, response, age>>
requestVars == <<phase, outcome, reply>>
vars == <<tableVars, requestVars, deletes, faults>>

Init ==
    /\ status = [k \in Keys |-> "absent"]
    /\ row = [k \in Keys |-> None]
    /\ response = [k \in Keys |-> None]
    /\ age = [k \in Keys |-> 0]
    /\ phase = [r \in Requests |-> "idle"]
    /\ outcome = [r \in Requests |-> None]
    /\ reply = [r \in Requests |-> None]
    /\ deletes = 0
    /\ faults = 0

\* A handler is at work, or its answer is being recorded; a request is being served.
Working == {"running", "recording"}
InFlight == Working \cup {"inserting", "reading", "sending"}

Fault ==
    /\ faults < MaxFaults
    /\ faults' = faults + 1

\* res.status(c).json(...): the middleware answers and does not call next.
Tell(r, c) ==
    /\ reply' = [reply EXCEPT ![r] = c]
    /\ phase' = [phase EXCEPT ![r] = "answered"]
    /\ UNCHANGED <<tableVars, outcome, deletes>>

-----------------------------------------------------------------------------
(* claim                                                                   *)

\* The clean-up DELETE is sent and not awaited; the INSERT follows on another connection.
Claim(r) ==
    /\ phase[r] = "idle"
    /\ phase' = [phase EXCEPT ![r] = "inserting"]
    /\ deletes' = deletes + 1
    /\ UNCHANGED <<tableVars, outcome, reply, faults>>

\* Mutant: the clean-up deletes completed keys of any age.
CleanupCompleted ==
    /\ deletes > 0
    /\ deletes' = deletes - 1
    /\ status' = [k \in Keys |-> IF status[k] = "completed" THEN "absent" ELSE status[k]]
    /\ row' = [k \in Keys |-> IF status[k] = "completed" THEN None ELSE row[k]]
    /\ response' = [k \in Keys |-> IF status[k] = "completed" THEN None ELSE response[k]]
    /\ age' = [k \in Keys |-> IF status[k] = "completed" THEN 0 ELSE age[k]]
    /\ UNCHANGED <<requestVars, faults>>

\* DELETE ... WHERE created_at < NOW() - TTL
Cleanup ==
    /\ deletes > 0
    /\ deletes' = deletes - 1
    /\ status' = [k \in Keys |-> IF age[k] >= TTL THEN "absent" ELSE status[k]]
    /\ row' = [k \in Keys |-> IF age[k] >= TTL THEN None ELSE row[k]]
    /\ response' = [k \in Keys |-> IF age[k] >= TTL THEN None ELSE response[k]]
    /\ age' = [k \in Keys |-> IF age[k] >= TTL THEN 0 ELSE age[k]]
    /\ UNCHANGED <<requestVars, faults>>

\* The DELETE fails: .catch(() => {})
CleanupFails ==
    /\ deletes > 0
    /\ Fault
    /\ deletes' = deletes - 1
    /\ UNCHANGED <<tableVars, requestVars>>

InsertRow(r) ==
    /\ status[KeyOf[r]] = "absent"
    /\ status' = [status EXCEPT ![KeyOf[r]] = "in_progress"]
    /\ row' = [row EXCEPT ![KeyOf[r]] = r]
    /\ response' = [response EXCEPT ![KeyOf[r]] = None]
    /\ age' = [age EXCEPT ![KeyOf[r]] = 0]

\* INSERT ... ON CONFLICT DO NOTHING RETURNING key gives a row: state 'new', next() runs the handler.
InsertWins(r) ==
    /\ phase[r] = "inserting"
    /\ InsertRow(r)
    /\ phase' = [phase EXCEPT ![r] = "running"]
    /\ UNCHANGED <<outcome, reply, deletes, faults>>

\* Mutant: ON CONFLICT DO UPDATE.
ConflictTakesOver(r) ==
    /\ phase[r] = "inserting"
    /\ status[KeyOf[r]] # "absent"
    /\ phase' = [phase EXCEPT ![r] = "running"]
    /\ UNCHANGED <<tableVars, outcome, reply, deletes, faults>>

InsertConflicts(r) ==
    /\ phase[r] = "inserting"
    /\ status[KeyOf[r]] # "absent"
    /\ phase' = [phase EXCEPT ![r] = "reading"]
    /\ UNCHANGED <<tableVars, outcome, reply, deletes, faults>>

\* The SELECT: no row any more, another hash, completed, in progress, in this order.
Read(r) ==
    /\ phase[r] = "reading"
    /\ LET k == KeyOf[r] IN
         \/ status[k] = "absent" /\ Tell(r, "IDEMPOTENCY_IN_PROGRESS")
         \/ status[k] # "absent" /\ Content[row[k]] # Content[r] /\ Tell(r, "IDEMPOTENCY_KEY_REUSED")
         \/ status[k] = "completed" /\ Content[row[k]] = Content[r] /\ Tell(r, response[k])
         \/ status[k] = "in_progress" /\ Content[row[k]] = Content[r] /\ Tell(r, "IDEMPOTENCY_IN_PROGRESS")
    /\ UNCHANGED faults

\* The INSERT or the SELECT throws: 503, fail closed.
ClaimFails(r) ==
    /\ phase[r] \in {"inserting", "reading"}
    /\ Fault
    /\ Tell(r, "IDEMPOTENCY_UNAVAILABLE")

\* The INSERT commits and its acknowledgement is lost: 503 too, and the row stays.
ClaimAckLost(r) ==
    /\ phase[r] = "inserting"
    /\ Fault
    /\ InsertRow(r)
    /\ reply' = [reply EXCEPT ![r] = "IDEMPOTENCY_UNAVAILABLE"]
    /\ phase' = [phase EXCEPT ![r] = "answered"]
    /\ UNCHANGED <<outcome, deletes>>

-----------------------------------------------------------------------------
(* The handler and the wrapped res.json                                    *)

\* The handler (success, refusal or error) calls res.json for the first time.
Respond(r) ==
    /\ phase[r] = "running"
    /\ \E c \in Outcomes : outcome' = [outcome EXCEPT ![r] = c]
    /\ phase' = [phase EXCEPT ![r] = "recording"]
    /\ UNCHANGED <<tableVars, reply, deletes, faults>>

\* complete: UPDATE by primary key, whichever request's row is there.
Complete(r) ==
    /\ phase[r] = "recording"
    /\ LET k == KeyOf[r] IN
         IF status[k] # "absent"
         THEN /\ status' = [status EXCEPT ![k] = "completed"]
              /\ response' = [response EXCEPT ![k] = outcome[r]]
         ELSE UNCHANGED <<status, response>>
    /\ phase' = [phase EXCEPT ![r] = "sending"]
    /\ UNCHANGED <<row, age, outcome, reply, deletes, faults>>

\* Mutant: then instead of finally.
FailedCompleteIsSilent(r) ==
    /\ phase[r] = "recording"
    /\ Fault
    /\ phase' = [phase EXCEPT ![r] = "silent"]
    /\ UNCHANGED <<tableVars, outcome, reply, deletes>>

\* complete throws: logged, the answer is sent all the same and the row stays in_progress.
CompleteFails(r) ==
    /\ phase[r] = "recording"
    /\ Fault
    /\ phase' = [phase EXCEPT ![r] = "sending"]
    /\ UNCHANGED <<tableVars, outcome, reply, deletes>>

\* finally(() => origJson(body))
Send(r) ==
    /\ phase[r] = "sending"
    /\ Tell(r, outcome[r])
    /\ UNCHANGED faults

-----------------------------------------------------------------------------
\* The process stops: requests being served and DELETEs not yet sent out are gone.
Crash ==
    /\ Fault
    /\ phase' = [r \in Requests |-> IF phase[r] \in InFlight THEN "dead" ELSE phase[r]]
    /\ deletes' = 0
    /\ UNCHANGED <<tableVars, outcome, reply>>

\* Time passes, but never beyond the bound on a handler and the row it works under.
Tick ==
    /\ \A r \in Requests : phase[r] \in Working => age[KeyOf[r]] # RequestBound
    /\ \E k \in Keys : status[k] # "absent" /\ age[k] < TTL
    /\ age' = [k \in Keys |-> IF status[k] # "absent" /\ age[k] < TTL THEN age[k] + 1 ELSE age[k]]
    /\ UNCHANGED <<status, row, response, requestVars, deletes, faults>>

claim(r) ==
    Claim(r) \/ InsertWins(r) \/ InsertConflicts(r) \/ Read(r) \/ ClaimFails(r) \/ ClaimAckLost(r)
json(r) == Respond(r) \/ Complete(r) \/ CompleteFails(r) \/ Send(r)

Next ==
    \/ \E r \in Requests : claim(r) \/ json(r)
    \/ Cleanup \/ CleanupFails
    \/ Crash
    \/ Tick

Spec == Init /\ [][Next]_vars

\* A request being served goes on unless the process stops; the pool executes what it was given.
Fairness ==
    /\ \A r \in Requests :
          /\ WF_vars(InsertWins(r) \/ InsertConflicts(r) \/ Read(r))
          /\ WF_vars(Respond(r) \/ Complete(r) \/ Send(r))
    /\ WF_vars(Cleanup)

FairSpec == Spec /\ Fairness

\* What the guarantees rest on: no handler works for as long as a key lives (24 hours).
Timely == RequestBound < TTL

-----------------------------------------------------------------------------
MaybeOutcome == Outcomes \cup {None}

\* Every variable keeps its type.
TypeOK ==
    /\ status \in [Keys -> {"absent", "in_progress", "completed"}]
    /\ row \in [Keys -> Requests \cup {None}]
    /\ response \in [Keys -> MaybeOutcome]
    /\ age \in [Keys -> 0..TTL]
    /\ phase \in [Requests -> InFlight \cup {"idle", "answered", "dead"}]
    /\ outcome \in [Requests -> MaybeOutcome]
    /\ reply \in [Requests -> MaybeOutcome \cup Refusals]
    /\ deletes \in Nat /\ faults \in Nat

\* The row of a key is its owner's: who works under it, and what it says he answered.
RowInv ==
    \A k \in Keys :
        /\ status[k] = "absent" <=> row[k] = None
        /\ row[k] # None => KeyOf[row[k]] = k
        /\ status[k] = "absent" => age[k] = 0
        /\ status[k] = "completed" => /\ outcome[row[k]] # None
                                     /\ response[k] = outcome[row[k]]
                                     /\ phase[row[k]] # "recording"

\* A handler works under its own row, which cannot be deleted yet; its outcome comes after it.
RequestInv ==
    \A r \in Requests :
        /\ phase[r] \in Working => row[KeyOf[r]] = r /\ age[KeyOf[r]] <= RequestBound
        /\ phase[r] \in {"idle", "inserting", "reading", "running"} => outcome[r] = None
        /\ phase[r] \in {"recording", "sending"} => outcome[r] # None
        /\ phase[r] \in InFlight \cup {"idle"} => reply[r] = None

IInv == TypeOK /\ RowInv /\ RequestInv

\* Of the requests that carry one key, at most one is inside the order handler at any time.
OneRunPerKey ==
    \A r, s \in Requests :
        phase[r] \in Working /\ phase[s] \in Working /\ KeyOf[r] = KeyOf[s] => r = s

\* What a client is told of an order is the outcome of its own run, or of a run of the very same order.
ReplayIsTrue ==
    \A r \in Requests :
        reply[r] \in Outcomes =>
            \E s \in Requests : /\ KeyOf[s] = KeyOf[r] /\ Content[s] = Content[r]
                                /\ outcome[s] = reply[r]

\* The keys keep their promise: one run in the life of a key, the others refused or told its outcome,
\* no life shorter than TTL.
Once == INSTANCE OncePerKey WITH run <- row, Refused <- Refusals
ImplementsOncePerKey == Once!Spec

\* A request is answered unless the process stops: a failing complete does not swallow the answer.
EveryRequestIsAnswered ==
    \A r \in Requests : (phase[r] = "inserting") ~> (phase[r] \in {"answered", "dead"})
=============================================================================
