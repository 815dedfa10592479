------------------------------- MODULE Scans -------------------------------
(***************************************************************************)
(* A market scan that a user starts from the Screener: the background job  *)
(* of controllers/signals.controller.js, the map of jobs of                *)
(* services/scanJob.service.js, and the page that polls it                 *)
(* (frontend pages/Screener.jsx).  One user; a symbol's analysis succeeds  *)
(* or fails; the owner check of getJobForUser is left out.                 *)
(***************************************************************************)
EXTENDS Integers, FiniteSets

CONSTANTS
  Jobs,          \* ids createJob may hand out; each is used once
  Crypto, Forex, \* symbols of the two scans that run side by side
  MaxPolls,      \* bound on the status requests that are on their way together
  MaxFaults,     \* bound on lost replies, failed INSERTs and crashes
  None

Symbols == Crypto \cup Forex
Polls == 1 .. MaxPolls
ASSUME ScansAssumption ==
  /\ MaxPolls \in Nat \ {0} /\ MaxFaults \in Nat
  /\ IsFiniteSet(Symbols) /\ Crypto \cap Forex = {} /\ None \notin Jobs \cup Symbols

VARIABLES
  jobs,   \* the Map of jobs in memory, None when there is no entry
  scan,   \* the scan behind each job: symbols to analyse, signals found, signals to insert
  rows,   \* the signals table: (job, symbol) of its rows
  page,   \* the Screener
  polls,  \* status requests of the page, the oldest first
  crossed, \* an answer about an older scan has cleared the interval of the newest
  faults

server == <<jobs, scan, rows>>
client == <<page, polls, crossed>>
vars == <<server, client, faults>>

NewJob == [status |-> "running", crypto |-> 0, forex |-> 0, signals |-> {}]
NoScan == [stage |-> "none", left |-> {}, found |-> {}, insert |-> {}]
Over == [NoScan EXCEPT !.stage = "over"]
\* job: the job of the call of pollJob whose promise is not settled; timer: the job that the interval
\* in pollTimerRef asks about; results: the job of the list shown.
NewPage == [stage |-> "idle", job |-> None, timer |-> None, results |-> None, list |-> {}]
NoPoll == [stage |-> "free", job |-> None, answer |-> None, list |-> {}]

Init ==
  /\ jobs = [j \in Jobs |-> None] /\ scan = [j \in Jobs |-> NoScan] /\ rows = {}
  /\ page = NewPage /\ polls = [p \in Polls |-> NoPoll] /\ crossed = FALSE /\ faults = 0

Fault == faults < MaxFaults /\ faults' = faults + 1

\* updateJob: nothing when the entry is gone.
updateJob(j, job) == jobs' = [jobs EXCEPT ![j] = IF @ = None THEN None ELSE job]

-----------------------------------------------------------------------------
(* The server.                                                             *)

\* getAllSignals with refresh=true: the job is created and its id returned; the scans start.
getAllSignals(j) ==
  /\ page.stage = "kickoff" /\ page.job = None /\ scan[j].stage = "none"
  /\ jobs' = [jobs EXCEPT ![j] = NewJob]
  /\ scan' = [scan EXCEPT ![j] = [NoScan EXCEPT !.stage = "scan", !.left = Symbols]]
  /\ page' = [page EXCEPT !.job = j]
  /\ UNCHANGED <<rows, polls, crossed, faults>>

\* A symbol of either scan is done, with a signal or without: onProgress.
Progress(j) ==
  /\ \E s \in scan[j].left : \E found \in {scan[j].found, scan[j].found \cup {s}} :
       /\ scan' = [scan EXCEPT ![j] = [@ EXCEPT !.left = scan[j].left \ {s}, !.found = found]]
       /\ updateJob(j, IF s \in Crypto THEN [jobs[j] EXCEPT !.crypto = @ + 1]
                                        ELSE [jobs[j] EXCEPT !.forex = @ + 1])
  /\ UNCHANGED <<rows, client, faults>>

\* Mutant: Promise.race instead of Promise.all.
FirstScanDone(j) ==
  /\ scan[j].stage = "scan" /\ (Crypto \cap scan[j].left = {} \/ Forex \cap scan[j].left = {})
  /\ scan' = [scan EXCEPT ![j] = [@ EXCEPT !.stage = "insert", !.insert = scan[j].found]]
  /\ UNCHANGED <<jobs, rows, client, faults>>

\* Promise.all: both scans are over.
ScansDone(j) ==
  /\ scan[j].stage = "scan" /\ scan[j].left = {}
  /\ scan' = [scan EXCEPT ![j] = [@ EXCEPT !.stage = "insert", !.insert = scan[j].found]]
  /\ UNCHANGED <<jobs, rows, client, faults>>

\* The signals are inserted one by one.
InsertSignal(j) ==
  /\ \E s \in scan[j].insert :
       /\ rows' = rows \cup {<<j, s>>}
       /\ scan' = [scan EXCEPT ![j] = [@ EXCEPT !.insert = scan[j].insert \ {s}]]
  /\ UNCHANGED <<jobs, client, faults>>

\* An INSERT throws: the job ends in error, the rows inserted so far stay.
InsertFails(j) ==
  /\ scan[j].insert # {} /\ Fault
  /\ scan' = [scan EXCEPT ![j] = Over]
  /\ updateJob(j, [jobs[j] EXCEPT !.status = "error"])
  /\ UNCHANGED <<rows, client>>

\* Mutant: the job is done and the loop left while rows are still to be inserted.
DoneBeforeInserts(j) ==
  /\ scan[j].stage = "insert"
  /\ scan' = [scan EXCEPT ![j] = Over]
  /\ updateJob(j, [jobs[j] EXCEPT !.status = "done", !.signals = scan[j].found])
  /\ UNCHANGED <<rows, client, faults>>

JobDone(j) ==
  /\ scan[j].stage = "insert" /\ scan[j].insert = {}
  /\ scan' = [scan EXCEPT ![j] = Over]
  /\ updateJob(j, [jobs[j] EXCEPT !.status = "done", !.signals = scan[j].found])
  /\ UNCHANGED <<rows, client, faults>>

\* The timer of createJob, five minutes after it, whatever the job is doing.
Expire(j) ==
  /\ jobs[j] # None
  /\ jobs' = [jobs EXCEPT ![j] = None]
  /\ UNCHANGED <<scan, rows, client, faults>>

getScanStatus(p) ==
  LET job == jobs[polls[p].job]
  IN  /\ polls[p].stage = "sent"
      /\ polls' = [polls EXCEPT ![p] = [@ EXCEPT !.stage = "answered",
                     !.answer = IF job = None THEN "not found" ELSE job.status,
                     !.list = IF job # None /\ job.status = "done" THEN job.signals ELSE {}]]
      /\ UNCHANGED <<server, page, crossed, faults>>

\* The process stops and is started again: jobs and scans are gone.
Crash ==
  /\ Fault
  /\ jobs' = [j \in Jobs |-> None]
  /\ scan' = [j \in Jobs |-> IF scan[j].stage = "none" THEN NoScan ELSE Over]
  /\ UNCHANGED <<rows, client>>

-----------------------------------------------------------------------------
(* The page.                                                               *)

runScan ==
  /\ page.stage = "idle" /\ \E j \in Jobs : scan[j].stage = "none"
  /\ page' = [page EXCEPT !.stage = "kickoff", !.job = None]
  /\ UNCHANGED <<server, polls, crossed, faults>>

\* The reply with the id arrives: pollJob starts the interval.
pollJob ==
  /\ page.stage = "kickoff" /\ page.job # None
  /\ page' = [page EXCEPT !.stage = "polling", !.timer = page.job]
  /\ UNCHANGED <<server, polls, crossed, faults>>

\* It does not arrive, or there was nobody to send it.
KickoffFails ==
  /\ page.stage = "kickoff" /\ Fault
  /\ page' = [page EXCEPT !.stage = "idle", !.job = None]
  /\ UNCHANGED <<server, polls, crossed>>

\* The interval fires, whether or not earlier requests have been answered.
Poll(p) ==
  /\ page.timer # None
  /\ polls[p].stage = "free" /\ \A q \in 1 .. p - 1 : polls[q].stage # "free"
  /\ polls' = [polls EXCEPT ![p] = [NoPoll EXCEPT !.stage = "sent", !.job = page.timer]]
  /\ UNCHANGED <<server, page, crossed, faults>>

PollLost(p) ==
  /\ polls[p].stage # "free" /\ Fault
  /\ polls' = [polls EXCEPT ![p] = [@ EXCEPT !.stage = "answered", !.answer = "failed", !.list = {}]]
  /\ UNCHANGED <<server, page, crossed>>

\* The handler of an answer: one that ends the scan clears the interval in pollTimerRef, which is that of the
\* newest scan, and settles the promise of its own call of pollJob, unless an earlier answer did.
Handle(p, ends) ==
  LET settles == ends /\ page.stage = "polling" /\ page.job = polls[p].job
      lists == settles /\ polls[p].answer = "done"
  IN  /\ polls[p].stage = "answered"
      /\ polls' = [q \in Polls |-> IF q < p THEN polls[q] ELSE IF q = MaxPolls THEN NoPoll ELSE polls[q + 1]]
      /\ page' = [page EXCEPT !.timer = IF ends THEN None ELSE @, !.stage = IF settles THEN "idle" ELSE @,
                    !.results = IF lists THEN page.job ELSE @, !.list = IF lists THEN polls[p].list ELSE @]
      /\ crossed' = (crossed \/ (ends /\ page.timer \notin {None, polls[p].job}))
      /\ UNCHANGED <<server, faults>>

\* Mutant: an error of the request does not end the polling.
PollErrorsIgnored(p) == Handle(p, polls[p].answer \in {"done", "error"})

\* The job is done or in error, or the request failed.
PollAnswer(p) == Handle(p, polls[p].answer # "running")

\* The user leaves the page: the interval is cleared; what the old mount may still get concerns no new one.
Leave ==
  /\ page # NewPage
  /\ page' = NewPage /\ polls' = [p \in Polls |-> NoPoll] /\ crossed' = FALSE
  /\ UNCHANGED <<server, faults>>

-----------------------------------------------------------------------------
background(j) == Progress(j) \/ ScansDone(j) \/ InsertSignal(j) \/ JobDone(j)
Next ==
  \/ \E j \in Jobs : getAllSignals(j) \/ background(j) \/ InsertFails(j) \/ Expire(j)
  \/ \E p \in Polls : Poll(p) \/ getScanStatus(p) \/ PollAnswer(p) \/ PollLost(p)
  \/ runScan \/ pollJob \/ KickoffFails \/ Leave \/ Crash

Spec == Init /\ [][Next]_vars

\* The event loop runs the scans, the expiry timer fires, requests are answered.
FairSpec ==
  /\ Spec
  /\ WF_vars(\E j \in Jobs : getAllSignals(j)) /\ WF_vars(pollJob)
  /\ \A j \in Jobs : WF_vars(background(j)) /\ WF_vars(Expire(j))
  /\ WF_vars(\E p \in Polls : Poll(p)) /\ \A p \in Polls : WF_vars(getScanStatus(p) \/ PollAnswer(p))

-----------------------------------------------------------------------------
Job == [status : {"running", "done", "error"}, crypto : 0 .. Cardinality(Crypto),
        forex : 0 .. Cardinality(Forex), signals : SUBSET Symbols]

ScanState == [stage : {"none", "scan", "insert", "over"}, left : SUBSET Symbols,
              found : SUBSET Symbols, insert : SUBSET Symbols]
Page == [stage : {"idle", "kickoff", "polling"}, job : Jobs \cup {None}, timer : Jobs \cup {None},
         results : Jobs \cup {None}, list : SUBSET Symbols]
Request == [stage : {"free", "sent", "answered"}, job : Jobs \cup {None},
            answer : {"running", "done", "error", "not found", "failed", None}, list : SUBSET Symbols]

TypeOK ==
  /\ jobs \in [Jobs -> Job \cup {None}] /\ scan \in [Jobs -> ScanState] /\ rows \subseteq Jobs \X Symbols
  /\ page \in Page /\ polls \in [Polls -> Request] /\ crossed \in BOOLEAN /\ faults \in 0 .. MaxFaults

\* A job's entry counts what its scan has done, and ends only with it.
JobInv ==
  \A j \in Jobs :
    /\ scan[j].stage = "none" => jobs[j] = None
    /\ scan[j].stage # "scan" => scan[j].left = {}
    /\ scan[j].stage # "insert" => scan[j].insert = {}
    /\ jobs[j] # None => /\ jobs[j].crypto = Cardinality(Crypto \ scan[j].left)
                         /\ jobs[j].forex = Cardinality(Forex \ scan[j].left)
                         /\ jobs[j].status # "running" => scan[j].stage = "over"

\* What a job, an answer or the page lists is in the table, and so is what a scan has inserted.
ListInv ==
  /\ \A j \in Jobs :
       /\ scan[j].stage = "insert" => \A s \in scan[j].found \ scan[j].insert : <<j, s>> \in rows
       /\ jobs[j] # None => \A s \in jobs[j].signals : <<j, s>> \in rows
  /\ \A p \in Polls : /\ polls[p].stage # "free" => polls[p].job # None
                      /\ \A s \in polls[p].list : <<polls[p].job, s>> \in rows
  /\ \A s \in page.list : <<page.results, s>> \in rows

\* The inductive invariant.
IInv == TypeOK /\ JobInv /\ ListInv

(* Types; and what the page lists as the result of a scan is in the database, whole, although the job's   *)
(* entry may have expired, the process crashed or other scans been started meanwhile.                     *)
ResultsAreStored ==
  TypeOK /\ \A s \in page.list : <<page.results, s>> \in rows

(* The progress callbacks of both scans come before the end of their job: a job that is done or in error  *)
(* never changes again until it expires, and one that is done has counted every symbol.                   *)
EndedJobIsFinal ==
  [][\A j \in Jobs : jobs[j] # None /\ jobs[j].status # "running" =>
       /\ jobs'[j] \in {jobs[j], None}
       /\ jobs[j].crypto + jobs[j].forex = Cardinality(Symbols)]_vars

(* The page polls "until the job is done or errors" (Screener.jsx:181): a scan that was started ends on    *)
(* the page too, although replies are lost, jobs expire and the server crashes.  One thing can keep it     *)
(* from its end, and it can happen: a late answer about the scan before clears its interval.               *)
ScanEnds == []<>(page.stage = "idle" \/ crossed)
=============================================================================
