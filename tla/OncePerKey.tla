----------------------------- MODULE OncePerKey -----------------------------
(***************************************************************************)
(* What an Idempotency-Key promises: while a key lives, one request runs   *)
(* under it, every other one is refused or told what that run answered,    *)
(* and the key is forgotten no earlier than TTL after the run began.       *)
(***************************************************************************)
EXTENDS Integers

CONSTANTS Requests, KeyOf, Content, Outcomes, TTL, None, Refused

VARIABLES
    run,        \* run[k]: the request that owns key k, or None
    age,        \* age[k]: how long ago it took it, saturating at TTL
    outcome,    \* outcome[r]: what the run of r ended with, or None
    reply       \* reply[r]: what r was told, or None

vars == <<run, age, outcome, reply>>
Keys == {KeyOf[r] : r \in Requests}

Init ==
    /\ run = [k \in Keys |-> None]
    /\ age = [k \in Keys |-> 0]
    /\ outcome = [r \in Requests |-> None]
    /\ reply = [r \in Requests |-> None]

\* A key is taken once in its life, by a request that has not run before.
Start(r) ==
    /\ run[KeyOf[r]] = None /\ outcome[r] = None /\ reply[r] = None
    /\ run' = [run EXCEPT ![KeyOf[r]] = r]
    /\ age' = [age EXCEPT ![KeyOf[r]] = 0]
    /\ UNCHANGED <<outcome, reply>>

\* The key is taken, and its owner is refused without having run.
Burn(r) ==
    /\ run[KeyOf[r]] = None /\ outcome[r] = None /\ reply[r] = None
    /\ run' = [run EXCEPT ![KeyOf[r]] = r]
    /\ age' = [age EXCEPT ![KeyOf[r]] = 0]
    /\ \E c \in Refused : reply' = [reply EXCEPT ![r] = c]
    /\ UNCHANGED outcome

\* Only the owner of the key gets an outcome, and only one.
Finish(r) ==
    /\ run[KeyOf[r]] = r /\ outcome[r] = None /\ reply[r] = None
    /\ \E c \in Outcomes : outcome' = [outcome EXCEPT ![r] = c]
    /\ UNCHANGED <<run, age, reply>>

\* The owner is told its own outcome.
Answer(r) ==
    /\ outcome[r] # None /\ reply[r] = None
    /\ reply' = [reply EXCEPT ![r] = outcome[r]]
    /\ UNCHANGED <<run, age, outcome>>

\* A repetition of the same request is told the owner's outcome.
Replay(r) ==
    /\ outcome[r] = None /\ reply[r] = None
    /\ \E s \in Requests :
          /\ run[KeyOf[r]] = s /\ Content[s] = Content[r] /\ outcome[s] # None
          /\ reply' = [reply EXCEPT ![r] = outcome[s]]
    /\ UNCHANGED <<run, age, outcome>>

\* A request without an outcome of its own may be refused.
Refuse(r) ==
    /\ outcome[r] = None /\ reply[r] = None
    /\ \E c \in Refused : reply' = [reply EXCEPT ![r] = c]
    /\ UNCHANGED <<run, age, outcome>>

\* Keys old enough are forgotten.
Forget ==
    /\ \E K \in SUBSET {k \in Keys : age[k] >= TTL} :
          /\ run' = [k \in Keys |-> IF k \in K THEN None ELSE run[k]]
          /\ age' = [k \in Keys |-> IF k \in K THEN 0 ELSE age[k]]
    /\ UNCHANGED <<outcome, reply>>

Tick ==
    /\ age' = [k \in Keys |-> IF run[k] # None /\ age[k] < TTL THEN age[k] + 1 ELSE age[k]]
    /\ UNCHANGED <<run, outcome, reply>>

Next ==
    \/ \E r \in Requests : Start(r) \/ Burn(r) \/ Finish(r) \/ Answer(r) \/ Replay(r) \/ Refuse(r)
    \/ Forget
    \/ Tick

Spec == Init /\ [][Next]_vars
=============================================================================
