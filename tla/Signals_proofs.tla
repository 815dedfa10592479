--------------------------- MODULE Signals_proofs ---------------------------
(***************************************************************************)
(* Proofs about the signals: Scans, which finds them, for any jobs,        *)
(* symbols, number of status requests under way and number of faults, and  *)
(* Outcomes, which tells what became of them, for any market, signals,     *)
(* length of an hour and of the week, and passes that fail or lag.         *)
(***************************************************************************)
EXTENDS Scans, Outcomes, SumTheorems

\* Both scans are over finite sets, and together over all the symbols.
LEMMA SymbolsCounted ==
  /\ IsFiniteSet(Crypto) /\ IsFiniteSet(Forex)
  /\ Cardinality(Symbols) = Cardinality(Crypto) + Cardinality(Forex)
<1>1. Crypto \in SUBSET Symbols /\ Forex \in SUBSET Symbols
  BY DEF Symbols
<1>2. IsFiniteSet(Crypto) /\ IsFiniteSet(Forex)
  BY <1>1, ScansAssumption, FS_Subset
<1>3. Cardinality(Crypto \cap Forex) = 0
  BY ScansAssumption, FS_EmptySet
<1>4. Cardinality(Crypto \cup Forex) = Cardinality(Crypto) + Cardinality(Forex) - Cardinality(Crypto \cap Forex)
  BY <1>2, FS_Union
<1>5. Cardinality(Crypto) \in Nat /\ Cardinality(Forex) \in Nat
  BY <1>2, FS_CardinalityType
<1>6. QED
  BY <1>2, <1>3, <1>4, <1>5 DEF Symbols

\* A count of what is done stays within the set that is scanned.
LEMMA CountType ==
  ASSUME NEW S, IsFiniteSet(S), NEW T
  PROVE  Cardinality(S \ T) \in 0 .. Cardinality(S)
<1>1. S \ T \in SUBSET S
  OBVIOUS
<1>2. QED
  BY <1>1, FS_Subset, FS_CardinalityType

\* One more symbol done adds one to the count of its own scan and none to the other's.
LEMMA CountStep ==
  ASSUME NEW S, IsFiniteSet(S), NEW T, NEW s \in T
  PROVE  Cardinality(S \ (T \ {s})) = Cardinality(S \ T) + (IF s \in S THEN 1 ELSE 0)
<1>1. CASE s \in S
  <2>1. S \ (T \ {s}) = (S \ T) \cup {s} /\ s \notin S \ T
    BY <1>1
  <2>2. IsFiniteSet(S \ T)
    BY FS_Difference
  <2>3. QED
    BY <1>1, <2>1, <2>2, FS_AddElement
<1>2. CASE s \notin S
  <2>1. S \ (T \ {s}) = S \ T
    BY <1>2
  <2>2. Cardinality(S \ T) \in Nat
    BY FS_Difference, FS_CardinalityType
  <2>3. Cardinality(S \ (T \ {s})) = Cardinality(S \ T)
    BY <2>1
  <2>4. QED
    BY <1>2, <2>2, <2>3
<1>3. QED
  BY <1>1, <1>2

LEMMA InvInit == Init => IInv
<1> SUFFICES ASSUME Init PROVE IInv
  OBVIOUS
<1>1. NoScan \in ScanState /\ NewPage \in Page /\ NoPoll \in Request /\ 0 \in 0 .. MaxFaults
  BY ScansAssumption DEF NoScan, ScanState, NewPage, Page, NoPoll, Request
<1>2. TypeOK
  BY <1>1 DEF Init, TypeOK
<1>3. JobInv /\ ListInv
  BY DEF Init, JobInv, ListInv, NoScan, NewPage, NoPoll
<1>4. QED
  BY <1>2, <1>3 DEF IInv

\* IInv, one request and the page at a time.
LEMMA RequestFacts ==
  ASSUME IInv, NEW p \in Polls
  PROVE  /\ polls[p] \in Request
         /\ polls[p].stage # "free" => polls[p].job # None
         /\ \A s \in polls[p].list : <<polls[p].job, s>> \in rows
<1>1. polls[p] \in Request
  BY DEF IInv, TypeOK
<1>2. /\ polls[p].stage # "free" => polls[p].job # None
      /\ \A s \in polls[p].list : <<polls[p].job, s>> \in rows
  BY DEF IInv, ListInv
<1>3. QED
  BY <1>1, <1>2

LEMMA PageFacts ==
  ASSUME IInv
  PROVE  page \in Page /\ \A s \in page.list : <<page.results, s>> \in rows
BY DEF IInv, TypeOK, ListInv

\* What a step of the server has to show, when it concerns the job and the scan of one id and takes
\* no row away: that the two agree, and that what they list is in the table.
LEMMA ServerStep ==
  ASSUME IInv, UNCHANGED client, faults' \in 0 .. MaxFaults, rows \subseteq rows', rows' \subseteq Jobs \X Symbols,
         NEW j \in Jobs, NEW job \in Job \cup {None}, NEW sc \in ScanState,
         jobs' = [jobs EXCEPT ![j] = job], scan' = [scan EXCEPT ![j] = sc],
         sc.stage = "none" => job = None,
         sc.stage # "scan" => sc.left = {},
         sc.stage # "insert" => sc.insert = {},
         sc.stage = "insert" => \A s \in sc.found \ sc.insert : <<j, s>> \in rows',
         job # None => /\ job.crypto = Cardinality(Crypto \ sc.left)
                       /\ job.forex = Cardinality(Forex \ sc.left)
                       /\ job.status # "running" => sc.stage = "over"
                       /\ \A s \in job.signals : <<j, s>> \in rows'
  PROVE  IInv'
<1> USE DEF IInv
<1>1. TypeOK'
  BY DEF TypeOK, client
<1>2. /\ scan'[j] = sc /\ jobs'[j] = job
      /\ \A k \in Jobs : k # j => scan'[k] = scan[k] /\ jobs'[k] = jobs[k]
  BY DEF TypeOK
<1>3. JobInv'
  <2> SUFFICES ASSUME NEW k \in Jobs
               PROVE  /\ scan'[k].stage = "none" => jobs'[k] = None
                      /\ scan'[k].stage # "scan" => scan'[k].left = {}
                      /\ scan'[k].stage # "insert" => scan'[k].insert = {}
                      /\ jobs'[k] # None => /\ jobs'[k].crypto = Cardinality(Crypto \ scan'[k].left)
                                            /\ jobs'[k].forex = Cardinality(Forex \ scan'[k].left)
                                            /\ jobs'[k].status # "running" => scan'[k].stage = "over"
    BY DEF JobInv
  <2>1. CASE k = j
    BY <2>1, <1>2
  <2>2. CASE k # j
    BY <2>2, <1>2 DEF JobInv
  <2>3. QED
    BY <2>1, <2>2
<1>4. ListInv'
  <2>1. ASSUME NEW k \in Jobs
        PROVE  /\ scan'[k].stage = "insert" => \A s \in scan'[k].found \ scan'[k].insert : <<k, s>> \in rows'
               /\ jobs'[k] # None => \A s \in jobs'[k].signals : <<k, s>> \in rows'
    <3>1. CASE k = j
      BY <3>1, <1>2
    <3>2. CASE k # j
      <4>1. /\ scan[k].stage = "insert" => \A s \in scan[k].found \ scan[k].insert : <<k, s>> \in rows
            /\ jobs[k] # None => \A s \in jobs[k].signals : <<k, s>> \in rows
        BY DEF ListInv
      <4>2. QED
        BY <4>1, <3>2, <1>2
    <3>3. QED
      BY <3>1, <3>2
  <2>2. /\ \A p \in Polls : /\ polls'[p].stage # "free" => polls'[p].job # None
                            /\ \A s \in polls'[p].list : <<polls'[p].job, s>> \in rows'
        /\ \A s \in page'.list : <<page'.results, s>> \in rows'
    <3>1. page' = page /\ polls' = polls
      BY DEF client
    <3>2. QED
      BY <3>1, RequestFacts, PageFacts
  <2>3. QED
    BY <2>1, <2>2 DEF ListInv
<1>5. QED
  BY <1>1, <1>3, <1>4

\* What a step of the page or of a status request has to show.
LEMMA ClientStep ==
  ASSUME IInv, UNCHANGED server, faults' \in 0 .. MaxFaults, crossed' \in BOOLEAN,
         page' \in Page, \A s \in page'.list : <<page'.results, s>> \in rows,
         polls' \in [Polls -> Request],
         \A p \in Polls : /\ polls'[p].stage # "free" => polls'[p].job # None
                          /\ \A s \in polls'[p].list : <<polls'[p].job, s>> \in rows
  PROVE  IInv'
BY DEF IInv, TypeOK, JobInv, ListInv, server

\* The entry of a job after updateJob.
LEMMA Updated ==
  ASSUME TypeOK, NEW j \in Jobs, NEW job, updateJob(j, job)
  PROVE  /\ jobs' = [jobs EXCEPT ![j] = jobs'[j]]
         /\ jobs'[j] = IF jobs[j] = None THEN None ELSE job
BY DEF TypeOK, updateJob

-----------------------------------------------------------------------------
(* The server                                                              *)

LEMMA StartInv ==
  ASSUME IInv, NEW j \in Jobs, getAllSignals(j)
  PROVE  IInv'
<1>1. NewJob \in Job
  BY SymbolsCounted, FS_CardinalityType DEF NewJob, Job
<1> DEFINE sc == [NoScan EXCEPT !.stage = "scan", !.left = Symbols]
<1>2. sc \in ScanState
  BY DEF NoScan, ScanState
<1>3. Cardinality(Crypto \ Symbols) = 0 /\ Cardinality(Forex \ Symbols) = 0
  <2>1. Crypto \ Symbols = {} /\ Forex \ Symbols = {}
    BY DEF Symbols
  <2>2. QED
    BY <2>1, FS_EmptySet
<1>4. jobs' = [jobs EXCEPT ![j] = NewJob] /\ scan' = [scan EXCEPT ![j] = sc]
  BY DEF getAllSignals
<1>5. page.list \subseteq Symbols /\ page.results \in Jobs \cup {None} /\ faults' = faults /\ rows' = rows
  BY DEF getAllSignals, IInv, TypeOK, Page
<1>6. TypeOK'
  BY <1>1, <1>2 DEF getAllSignals, IInv, TypeOK, Page
<1>7. JobInv'
  BY <1>3, <1>4 DEF IInv, TypeOK, JobInv, NewJob, NoScan
<1>8. ListInv'
  BY <1>4 DEF getAllSignals, IInv, TypeOK, JobInv, ListInv, NewJob, NoScan
<1>9. QED
  BY <1>6, <1>7, <1>8 DEF IInv

LEMMA ProgressInv ==
  ASSUME IInv, NEW j \in Jobs, Progress(j)
  PROVE  IInv'
<1>p. PICK s \in scan[j].left : \E found \in {scan[j].found, scan[j].found \cup {s}} :
         /\ scan' = [scan EXCEPT ![j] = [@ EXCEPT !.left = scan[j].left \ {s}, !.found = found]]
         /\ updateJob(j, IF s \in Crypto THEN [jobs[j] EXCEPT !.crypto = @ + 1]
                                         ELSE [jobs[j] EXCEPT !.forex = @ + 1])
  BY DEF Progress
<1>0. PICK found \in {scan[j].found, scan[j].found \cup {s}} :
         /\ scan' = [scan EXCEPT ![j] = [@ EXCEPT !.left = scan[j].left \ {s}, !.found = found]]
         /\ updateJob(j, IF s \in Crypto THEN [jobs[j] EXCEPT !.crypto = @ + 1]
                                         ELSE [jobs[j] EXCEPT !.forex = @ + 1])
  BY <1>p
<1> DEFINE L == scan[j].left
           sc == [scan[j] EXCEPT !.left = L \ {s}, !.found = found]
<1>1. /\ TypeOK /\ scan[j] \in ScanState /\ scan[j].stage = "scan" /\ s \in Symbols /\ found \subseteq Symbols
      /\ scan[j].insert = {}
  BY DEF IInv, JobInv, TypeOK, ScanState
<1>2. sc \in ScanState /\ sc.stage = "scan" /\ sc.left = L \ {s} /\ sc.insert = {}
  BY <1>1 DEF ScanState
<1>3. /\ Cardinality(Crypto \ (L \ {s})) = Cardinality(Crypto \ L) + (IF s \in Crypto THEN 1 ELSE 0)
      /\ Cardinality(Forex \ (L \ {s})) = Cardinality(Forex \ L) + (IF s \in Crypto THEN 0 ELSE 1)
  <2>1. s \in Crypto <=> s \notin Forex
    BY <1>1, ScansAssumption DEF Symbols
  <2>2. Cardinality(Crypto \ (L \ {s})) = Cardinality(Crypto \ L) + (IF s \in Crypto THEN 1 ELSE 0)
    BY SymbolsCounted, CountStep
  <2>3. Cardinality(Forex \ (L \ {s})) = Cardinality(Forex \ L) + (IF s \in Forex THEN 1 ELSE 0)
    BY SymbolsCounted, CountStep
  <2>4. QED
    BY <2>1, <2>2, <2>3
<1>4. /\ Cardinality(Crypto \ (L \ {s})) \in 0 .. Cardinality(Crypto)
      /\ Cardinality(Forex \ (L \ {s})) \in 0 .. Cardinality(Forex)
      /\ Cardinality(Crypto \ L) \in Nat /\ Cardinality(Forex \ L) \in Nat
  BY SymbolsCounted, CountType, FS_Difference, FS_CardinalityType
<1>5. /\ jobs' = [jobs EXCEPT ![j] = jobs'[j]]
      /\ jobs'[j] = IF jobs[j] = None THEN None
                    ELSE IF s \in Crypto THEN [jobs[j] EXCEPT !.crypto = jobs[j].crypto + 1]
                         ELSE [jobs[j] EXCEPT !.forex = jobs[j].forex + 1]
  BY <1>0, <1>1, Updated
<1>6. jobs[j] # None =>
        /\ jobs[j] \in Job /\ jobs[j].status = "running" /\ jobs[j].crypto = Cardinality(Crypto \ L)
        /\ jobs[j].forex = Cardinality(Forex \ L) /\ \A t \in jobs[j].signals : <<j, t>> \in rows
  BY <1>1 DEF IInv, TypeOK, JobInv, ListInv, Job
<1>7. jobs'[j] # None =>
        /\ jobs'[j] = [status |-> "running", crypto |-> Cardinality(Crypto \ (L \ {s})),
                       forex |-> Cardinality(Forex \ (L \ {s})), signals |-> jobs[j].signals]
        /\ jobs[j].signals \subseteq Symbols /\ \A t \in jobs[j].signals : <<j, t>> \in rows
  <2> HAVE jobs'[j] # None
  <2>1. jobs[j] # None
    BY <1>5
  <2>2. jobs[j] = [status |-> "running", crypto |-> Cardinality(Crypto \ L),
                   forex |-> Cardinality(Forex \ L), signals |-> jobs[j].signals]
    BY <1>6, <2>1 DEF Job
  <2>3. jobs'[j] = [status |-> "running", crypto |-> Cardinality(Crypto \ (L \ {s})),
                    forex |-> Cardinality(Forex \ (L \ {s})), signals |-> jobs[j].signals]
    <3>1. CASE s \in Crypto
      <4>1. jobs'[j] = [jobs[j] EXCEPT !.crypto = jobs[j].crypto + 1]
        BY <1>5, <2>1, <3>1
      <4>2. /\ jobs[j].crypto + 1 = Cardinality(Crypto \ (L \ {s}))
            /\ Cardinality(Forex \ L) = Cardinality(Forex \ (L \ {s}))
        BY <1>3, <1>4, <1>6, <2>1, <3>1
      <4>3. QED
        BY <4>1, <4>2, <2>2
    <3>2. CASE s \notin Crypto
      <4>1. jobs'[j] = [jobs[j] EXCEPT !.forex = jobs[j].forex + 1]
        BY <1>5, <2>1, <3>2
      <4>2. /\ jobs[j].forex + 1 = Cardinality(Forex \ (L \ {s}))
            /\ Cardinality(Crypto \ L) = Cardinality(Crypto \ (L \ {s}))
        BY <1>3, <1>4, <1>6, <2>1, <3>2
      <4>3. QED
        BY <4>1, <4>2, <2>2
    <3>3. QED
      BY <3>1, <3>2
  <2>4. QED
    BY <1>6, <2>1, <2>3 DEF Job
<1>8. jobs'[j] \in Job \cup {None}
  BY <1>4, <1>7 DEF Job
<1>9. scan' = [scan EXCEPT ![j] = sc]
  BY <1>0
<1>10. UNCHANGED client /\ faults' \in 0 .. MaxFaults /\ rows' = rows /\ rows \subseteq Jobs \X Symbols
  BY <1>1 DEF Progress, TypeOK
<1>11. jobs'[j] # None => /\ jobs'[j].crypto = Cardinality(Crypto \ sc.left)
                          /\ jobs'[j].forex = Cardinality(Forex \ sc.left)
                          /\ jobs'[j].status # "running" => sc.stage = "over"
                          /\ \A t \in jobs'[j].signals : <<j, t>> \in rows'
  BY <1>2, <1>7, <1>10
<1> HIDE DEF sc
<1>12. QED
  BY <1>2, <1>5, <1>8, <1>9, <1>10, <1>11, ServerStep

\* A step of the scan behind a job that leaves the job alone or is the last thing it does: ScansDone,
\* InsertSignal, InsertFails, JobDone and Expire.
LEMMA EntryFacts ==
  ASSUME IInv, NEW j \in Jobs
  PROVE  /\ TypeOK /\ scan[j] \in ScanState /\ jobs[j] \in Job \cup {None} /\ rows \subseteq Jobs \X Symbols
         /\ scan[j].stage = "none" => jobs[j] = None
         /\ scan[j].stage # "scan" => scan[j].left = {}
         /\ scan[j].stage # "insert" => scan[j].insert = {}
         /\ scan[j].stage = "insert" => \A s \in scan[j].found \ scan[j].insert : <<j, s>> \in rows
         /\ jobs[j] # None => /\ jobs[j].crypto = Cardinality(Crypto \ scan[j].left)
                              /\ jobs[j].forex = Cardinality(Forex \ scan[j].left)
                              /\ jobs[j].status # "running" => scan[j].stage = "over"
                              /\ \A s \in jobs[j].signals : <<j, s>> \in rows
BY DEF IInv, TypeOK, JobInv, ListInv

LEMMA ScansDoneInv ==
  ASSUME IInv, NEW j \in Jobs, ScansDone(j)
  PROVE  IInv'
<1> DEFINE sc == [scan[j] EXCEPT !.stage = "insert", !.insert = scan[j].found]
<1>1. /\ sc \in ScanState /\ sc.stage = "insert" /\ sc.left = {} /\ sc.found = scan[j].found
      /\ sc.insert = scan[j].found /\ sc.left = scan[j].left
  BY EntryFacts DEF ScansDone, ScanState
<1>2. scan' = [scan EXCEPT ![j] = sc] /\ jobs' = [jobs EXCEPT ![j] = jobs[j]] /\ rows' = rows
  BY EntryFacts DEF ScansDone, TypeOK
<1>3. UNCHANGED client /\ faults' \in 0 .. MaxFaults
  BY EntryFacts DEF ScansDone, TypeOK
<1>4. jobs[j] # None => jobs[j].status = "running"
  BY EntryFacts DEF ScansDone
<1> HIDE DEF sc
<1>5. QED
  BY <1>1, <1>2, <1>3, <1>4, EntryFacts, ServerStep

LEMMA InsertSignalInv ==
  ASSUME IInv, NEW j \in Jobs, InsertSignal(j)
  PROVE  IInv'
<1>0. PICK s \in scan[j].insert : /\ rows' = rows \cup {<<j, s>>}
                                  /\ scan' = [scan EXCEPT ![j] = [@ EXCEPT !.insert = scan[j].insert \ {s}]]
  BY DEF InsertSignal
<1> DEFINE sc == [scan[j] EXCEPT !.insert = scan[j].insert \ {s}]
<1>1. scan[j].stage = "insert" /\ s \in Symbols
  BY EntryFacts DEF ScanState
<1>2. /\ sc \in ScanState /\ sc.stage = "insert" /\ sc.left = scan[j].left /\ sc.found = scan[j].found
      /\ sc.insert = scan[j].insert \ {s}
  BY EntryFacts, <1>1 DEF ScanState
<1>3. scan' = [scan EXCEPT ![j] = sc] /\ jobs' = [jobs EXCEPT ![j] = jobs[j]]
  BY <1>0, EntryFacts DEF InsertSignal, TypeOK
<1>4. UNCHANGED client /\ faults' \in 0 .. MaxFaults /\ rows \subseteq rows' /\ rows' \subseteq Jobs \X Symbols
  <2>1. TypeOK /\ rows \subseteq Jobs \X Symbols
    BY EntryFacts
  <2>2. UNCHANGED client /\ faults' \in 0 .. MaxFaults
    BY <2>1 DEF InsertSignal, TypeOK
  <2>3. rows' = rows \cup {<<j, s>>} /\ <<j, s>> \in Jobs \X Symbols
    BY <1>0, <1>1
  <2>4. QED
    BY <2>1, <2>2, <2>3
<1>5. \A t \in sc.found \ sc.insert : <<j, t>> \in rows'
  <2> TAKE t \in sc.found \ sc.insert
  <2>1. t = s \/ t \in scan[j].found \ scan[j].insert
    BY <1>2
  <2>2. QED
    BY <2>1, <1>0, <1>1, EntryFacts
<1>6. jobs[j] # None => /\ jobs[j].status = "running"
                        /\ \A t \in jobs[j].signals : <<j, t>> \in rows'
  BY <1>1, <1>4, EntryFacts
<1> HIDE DEF sc
<1>7. QED
  BY <1>1, <1>2, <1>3, <1>4, <1>5, <1>6, EntryFacts, ServerStep

\* The two ways a job ends.
LEMMA EndInv ==
  ASSUME IInv, NEW j \in Jobs, InsertFails(j) \/ JobDone(j)
  PROVE  IInv'
<1>1. PICK job : /\ updateJob(j, job)
                 /\ \/ job = [jobs[j] EXCEPT !.status = "error"]
                    \/ job = [jobs[j] EXCEPT !.status = "done", !.signals = scan[j].found]
                       /\ scan[j].insert = {}
  BY DEF InsertFails, JobDone
<1>2. /\ scan[j].stage = "insert" /\ scan' = [scan EXCEPT ![j] = Over]
      /\ rows' = rows /\ UNCHANGED client /\ faults' \in 0 .. MaxFaults
  <2>1. CASE JobDone(j)
    BY <2>1, EntryFacts DEF JobDone, TypeOK
  <2>2. CASE InsertFails(j)
    <3>1. scan[j].insert # {} /\ scan' = [scan EXCEPT ![j] = Over] /\ rows' = rows /\ UNCHANGED client
      BY <2>2 DEF InsertFails
    <3>2. faults' \in 0 .. MaxFaults
      <4>1. faults \in 0 .. MaxFaults
        BY EntryFacts DEF TypeOK
      <4>2. faults < MaxFaults /\ faults' = faults + 1
        BY <2>2 DEF InsertFails, Fault
      <4>3. QED
        BY <4>1, <4>2, ScansAssumption
    <3>3. scan[j].stage = "insert"
      BY <3>1, EntryFacts
    <3>4. QED
      BY <3>1, <3>2, <3>3
  <2>3. QED
    BY <2>1, <2>2
<1>3. /\ Over \in ScanState /\ Over.stage = "over" /\ Over.left = {} /\ Over.insert = {}
  BY DEF Over, NoScan, ScanState
<1>4. /\ jobs' = [jobs EXCEPT ![j] = jobs'[j]]
      /\ jobs'[j] = IF jobs[j] = None THEN None ELSE job
  BY <1>1, EntryFacts, Updated
<1>5. jobs'[j] # None => /\ jobs'[j] \in Job /\ jobs'[j].crypto = jobs[j].crypto /\ jobs'[j].forex = jobs[j].forex
                         /\ \A s \in jobs'[j].signals : <<j, s>> \in rows
  <2> HAVE jobs'[j] # None
  <2>1. jobs[j] \in Job /\ jobs[j] # None /\ jobs'[j] = job
    BY <1>4, EntryFacts
  <2>2. CASE job = [jobs[j] EXCEPT !.status = "error"]
    <3>1. /\ job \in Job /\ job.crypto = jobs[j].crypto /\ job.forex = jobs[j].forex
          /\ job.signals = jobs[j].signals
      BY <2>1, <2>2 DEF Job
    <3>2. QED
      BY <2>1, <3>1, EntryFacts
  <2>3. CASE job = [jobs[j] EXCEPT !.status = "done", !.signals = scan[j].found] /\ scan[j].insert = {}
    <3>1. scan[j].found \subseteq Symbols /\ \A s \in scan[j].found : <<j, s>> \in rows
      BY <1>2, <2>3, EntryFacts DEF ScanState
    <3>2. job \in Job /\ job.crypto = jobs[j].crypto /\ job.forex = jobs[j].forex /\ job.signals = scan[j].found
      BY <2>1, <2>3, <3>1 DEF Job
    <3>3. QED
      BY <2>1, <3>1, <3>2
  <2>4. QED
    BY <1>1, <2>2, <2>3
<1>6. jobs'[j] # None => jobs[j] # None
  BY <1>4
<1>7. scan[j].left = {}
  BY <1>2, EntryFacts
<1>8. jobs'[j] \in Job \cup {None}
  BY <1>5
<1>9. jobs'[j] # None => /\ jobs'[j].crypto = Cardinality(Crypto \ Over.left)
                         /\ jobs'[j].forex = Cardinality(Forex \ Over.left)
                         /\ \A s \in jobs'[j].signals : <<j, s>> \in rows'
  BY <1>2, <1>3, <1>5, <1>6, <1>7, EntryFacts
<1>10. rows \subseteq rows' /\ rows' \subseteq Jobs \X Symbols
  BY <1>2, EntryFacts
<1>11. QED
  BY <1>2, <1>3, <1>4, <1>8, <1>9, <1>10, ServerStep

LEMMA ExpireInv ==
  ASSUME IInv, NEW j \in Jobs, Expire(j)
  PROVE  IInv'
<1>1. jobs' = [jobs EXCEPT ![j] = None] /\ scan' = [scan EXCEPT ![j] = scan[j]] /\ rows' = rows
  BY EntryFacts DEF Expire, TypeOK
<1>2. UNCHANGED client /\ faults' \in 0 .. MaxFaults
  BY EntryFacts DEF Expire, TypeOK
<1>3. QED
  BY <1>1, <1>2, EntryFacts, ServerStep

LEMMA CrashInv ==
  ASSUME IInv, Crash
  PROVE  IInv'
<1>1. NoScan \in ScanState /\ Over \in ScanState
  BY DEF Over, NoScan, ScanState
<1>2. TypeOK'
  BY <1>1, ScansAssumption DEF IInv, TypeOK, Crash, Fault, client
<1>3. JobInv'
  BY DEF JobInv, Crash, Over, NoScan
<1>4. ListInv'
  BY DEF IInv, ListInv, Crash, Over, NoScan, client
<1>5. QED
  BY <1>2, <1>3, <1>4 DEF IInv

-----------------------------------------------------------------------------
(* The page and its requests                                               *)

\* The page starts a scan, gets its id or does not, asks or leaves: it lists what it listed or nothing.
LEMMA PageInv ==
  ASSUME IInv, runScan \/ pollJob \/ KickoffFails \/ Leave
  PROVE  IInv'
<1>1. /\ TypeOK /\ page \in Page /\ NewPage \in Page /\ NewPage.list = {}
      /\ NoPoll \in Request /\ NoPoll.list = {} /\ NoPoll.stage = "free"
  BY DEF IInv, TypeOK, Page, NewPage, Request, NoPoll
<1>2. UNCHANGED server /\ faults' \in 0 .. MaxFaults /\ crossed' \in BOOLEAN
  <2>1. faults \in 0 .. MaxFaults /\ crossed \in BOOLEAN
    BY <1>1 DEF TypeOK
  <2>2. UNCHANGED server
    BY DEF runScan, pollJob, KickoffFails, Leave
  <2>3. faults' = faults \/ (faults < MaxFaults /\ faults' = faults + 1)
    BY DEF runScan, pollJob, KickoffFails, Leave, Fault
  <2>4. crossed' = crossed \/ crossed' = FALSE
    BY DEF runScan, pollJob, KickoffFails, Leave
  <2>5. faults' \in 0 .. MaxFaults
    BY <2>1, <2>3, ScansAssumption
  <2>6. QED
    BY <2>1, <2>2, <2>4, <2>5
<1>3. page' \in Page /\ \A s \in page'.list : <<page'.results, s>> \in rows
  <2>1. CASE Leave
    BY <1>1, <2>1 DEF Leave
  <2>2. CASE runScan \/ pollJob \/ KickoffFails
    <3>1. page' \in Page /\ page'.list = page.list /\ page'.results = page.results
      BY <1>1, <2>2 DEF runScan, pollJob, KickoffFails, Page
    <3>2. QED
      BY <3>1, PageFacts
  <2>3. QED
    BY <2>1, <2>2
<1>4. /\ polls' \in [Polls -> Request]
      /\ \A p \in Polls : /\ polls'[p].stage # "free" => polls'[p].job # None
                          /\ \A s \in polls'[p].list : <<polls'[p].job, s>> \in rows
  <2>1. CASE Leave
    BY <1>1, <2>1 DEF Leave
  <2>2. CASE runScan \/ pollJob \/ KickoffFails
    <3>1. polls' = polls
      BY <2>2 DEF runScan, pollJob, KickoffFails
    <3>2. QED
      BY <1>1, <3>1, RequestFacts DEF TypeOK
  <2>3. QED
    BY <2>1, <2>2
<1>5. QED
  BY <1>2, <1>3, <1>4, ClientStep

\* One request changes: it is sent, answered from the job's entry, or lost.
LEMMA RequestInv ==
  ASSUME IInv, NEW p \in Polls, Poll(p) \/ getScanStatus(p) \/ PollLost(p)
  PROVE  IInv'
<1>1. TypeOK /\ page \in Page /\ polls \in [Polls -> Request] /\ polls[p] \in Request
  BY DEF IInv, TypeOK
<1>2. UNCHANGED server /\ UNCHANGED page /\ faults' \in 0 .. MaxFaults /\ crossed' \in BOOLEAN
  BY <1>1, ScansAssumption DEF TypeOK, Poll, getScanStatus, PollLost, Fault
<1>3. PICK r \in Request : /\ polls' = [polls EXCEPT ![p] = r] /\ r.job # None
                          /\ \A s \in r.list : <<r.job, s>> \in rows
  <2>1. CASE Poll(p)
    <3> DEFINE r == [NoPoll EXCEPT !.stage = "sent", !.job = page.timer]
    <3>1. r \in Request /\ r.list = {} /\ r.job # None
      BY <1>1, <2>1 DEF Poll, Page, Request, NoPoll
    <3>2. polls' = [polls EXCEPT ![p] = r]
      BY <2>1 DEF Poll
    <3>3. QED
      BY <3>1, <3>2
  <2>2. CASE PollLost(p)
    <3> DEFINE r == [polls[p] EXCEPT !.stage = "answered", !.answer = "failed", !.list = {}]
    <3>1. r \in Request /\ r.list = {} /\ r.job # None
      BY <1>1, <2>2 DEF PollLost, IInv, ListInv, Request
    <3>2. polls' = [polls EXCEPT ![p] = r]
      BY <2>2 DEF PollLost
    <3>3. QED
      BY <3>1, <3>2
  <2>3. CASE getScanStatus(p)
    <3> DEFINE job == jobs[polls[p].job]
               answer == IF job = None THEN "not found" ELSE job.status
               list == IF job # None /\ job.status = "done" THEN job.signals ELSE {}
               r == [polls[p] EXCEPT !.stage = "answered", !.answer = answer, !.list = list]
    <3>1. polls[p].job \in Jobs /\ job \in Job \cup {None}
      BY <2>3, <1>1 DEF getScanStatus, IInv, TypeOK, ListInv, Request
    <3>2. answer \in {"running", "done", "error", "not found"} /\ list \in SUBSET Symbols
      BY <3>1 DEF Job
    <3>3. \A s \in list : <<polls[p].job, s>> \in rows
      BY <3>1, EntryFacts
    <3>4. r \in Request /\ r.list = list /\ r.job = polls[p].job
      BY <1>1, <3>2 DEF Request
    <3>5. polls' = [polls EXCEPT ![p] = r]
      BY <2>3 DEF getScanStatus
    <3> HIDE DEF r, list
    <3>6. r.job # None /\ \A s \in r.list : <<r.job, s>> \in rows
      BY <3>1, <3>3, <3>4, ScansAssumption
    <3>7. QED
      BY <3>4, <3>5, <3>6
  <2>4. QED
    BY <2>1, <2>2, <2>3
<1>4. polls' \in [Polls -> Request]
  BY <1>1, <1>3
<1>5. \A q \in Polls : /\ polls'[q].stage # "free" => polls'[q].job # None
                       /\ \A s \in polls'[q].list : <<polls'[q].job, s>> \in rows
  <2> TAKE q \in Polls
  <2>1. CASE q = p
    <3>1. polls'[q] = r
      BY <1>1, <1>3, <2>1
    <3>2. QED
      BY <3>1, <1>3
  <2>2. CASE q # p
    <3>1. polls'[q] = polls[q]
      BY <1>1, <1>3, <2>2
    <3>2. QED
      BY <3>1, RequestFacts
  <2>3. QED
    BY <2>1, <2>2
<1>6. QED
  BY <1>2, <1>4, <1>5, PageFacts, ClientStep

\* An answer is handled: the later requests move up and the page may list what the answer lists.
LEMMA PollAnswerInv ==
  ASSUME IInv, NEW p \in Polls, PollAnswer(p)
  PROVE  IInv'
<1> DEFINE ends == polls[p].answer # "running"
           settles == ends /\ page.stage = "polling" /\ page.job = polls[p].job
           lists == settles /\ polls[p].answer = "done"
<1>1. /\ polls' = [q \in Polls |-> IF q < p THEN polls[q] ELSE IF q = MaxPolls THEN NoPoll ELSE polls[q + 1]]
      /\ page' = [page EXCEPT !.timer = IF ends THEN None ELSE @, !.stage = IF settles THEN "idle" ELSE @,
                    !.results = IF lists THEN page.job ELSE @, !.list = IF lists THEN polls[p].list ELSE @]
      /\ crossed' = (crossed \/ (ends /\ page.timer \notin {None, polls[p].job}))
      /\ UNCHANGED <<server, faults>>
  BY DEF PollAnswer, Handle
<1>2. TypeOK /\ page \in Page /\ polls \in [Polls -> Request] /\ polls[p] \in Request
  BY DEF IInv, TypeOK
<1>3. page' \in Page
  <2>1. polls[p].list \in SUBSET Symbols /\ page.job \in Jobs \cup {None}
    BY <1>2 DEF Page, Request
  <2>2. QED
    BY <1>1, <1>2, <2>1 DEF Page
<1>4. \A s \in page'.list : <<page'.results, s>> \in rows
  <2>1. CASE lists
    <3>1. page'.list = polls[p].list /\ page'.results = polls[p].job
      BY <1>1, <1>2, <2>1 DEF Page
    <3>2. QED
      BY <3>1, RequestFacts
  <2>2. CASE ~lists
    <3>1. page'.list = page.list /\ page'.results = page.results
      BY <1>1, <1>2, <2>2 DEF Page
    <3>2. QED
      BY <3>1, PageFacts
  <2>3. QED
    BY <2>1, <2>2
<1>5. NoPoll \in Request /\ NoPoll.list = {} /\ NoPoll.stage = "free"
  BY DEF NoPoll, Request
<1>6. ASSUME NEW q \in Polls
      PROVE  /\ polls'[q] \in Request
             /\ polls'[q].stage # "free" => polls'[q].job # None
             /\ \A s \in polls'[q].list : <<polls'[q].job, s>> \in rows
  <2>1. CASE q < p
    <3>1. polls'[q] = polls[q]
      BY <1>1, <2>1
    <3>2. QED
      BY <3>1, RequestFacts
  <2>2. CASE ~(q < p) /\ q = MaxPolls
    BY <1>1, <1>5, <2>2
  <2>3. CASE ~(q < p) /\ q # MaxPolls
    <3>1. q + 1 \in Polls /\ polls'[q] = polls[q + 1]
      BY <1>1, <2>3, ScansAssumption DEF Polls
    <3>2. QED
      BY <3>1, RequestFacts
  <2>4. QED
    BY <2>1, <2>2, <2>3
<1>7. polls' \in [Polls -> Request]
  BY <1>1, <1>6
<1>8. UNCHANGED server /\ faults' \in 0 .. MaxFaults /\ crossed' \in BOOLEAN
  BY <1>1, <1>2 DEF TypeOK
<1>9. QED
  BY <1>3, <1>4, <1>6, <1>7, <1>8, ClientStep

-----------------------------------------------------------------------------
LEMMA StepInv == IInv /\ [Next]_vars => IInv'
<1> SUFFICES ASSUME IInv, [Next]_vars PROVE IInv'
  OBVIOUS
<1>1. CASE UNCHANGED vars
  BY <1>1 DEF vars, server, client, IInv, TypeOK, JobInv, ListInv
<1>2. ASSUME NEW j \in Jobs, getAllSignals(j) \/ background(j) \/ InsertFails(j) \/ Expire(j)
      PROVE  IInv'
  BY <1>2, StartInv, ProgressInv, ScansDoneInv, InsertSignalInv, EndInv, ExpireInv DEF background
<1>3. ASSUME NEW p \in Polls, Poll(p) \/ getScanStatus(p) \/ PollAnswer(p) \/ PollLost(p)
      PROVE  IInv'
  BY <1>3, RequestInv, PollAnswerInv
<1>4. CASE runScan \/ pollJob \/ KickoffFails \/ Leave \/ Crash
  BY <1>4, PageInv, CrashInv
<1>5. QED
  BY <1>1, <1>2, <1>3, <1>4 DEF Next

(* Entries of jobs agree with their scans, and what is listed anywhere is in the table, whatever is lost, *)
(* expires or crashes (scanJob.service.js, getAllSignals).                                                *)
THEOREM ScansCorrect == Spec => []IInv
BY InvInit, StepInv, PTL DEF Spec

(* Types; and what the page lists as the result of a scan is in the database (getAllSignals inserts every *)
(* signal before the job is done).                                                                        *)
THEOREM ListedIsStored == Spec => []ResultsAreStored
<1>1. IInv => ResultsAreStored
  BY DEF IInv, ListInv, ResultsAreStored
<1>2. QED
  BY <1>1, ScansCorrect, PTL

\* An ended job has counted every symbol, and no step but its expiry or a crash touches it.
LEMMA EndedStep ==
  ASSUME IInv, [Next]_vars, NEW j \in Jobs, jobs[j] # None, jobs[j].status # "running"
  PROVE  /\ jobs'[j] \in {jobs[j], None}
         /\ jobs[j].crypto + jobs[j].forex = Cardinality(Symbols)
<1>1. scan[j].stage = "over" /\ scan[j].left = {} /\ scan[j].insert = {}
  BY EntryFacts
<1>2. jobs[j].crypto + jobs[j].forex = Cardinality(Symbols)
  <2>1. Crypto \ {} = Crypto /\ Forex \ {} = Forex
    OBVIOUS
  <2>2. jobs[j].crypto = Cardinality(Crypto) /\ jobs[j].forex = Cardinality(Forex)
    BY <1>1, <2>1, EntryFacts
  <2>3. QED
    BY <2>2, SymbolsCounted
<1>3. jobs'[j] \in {jobs[j], None}
  <2>1. ASSUME NEW k \in Jobs, getAllSignals(k) \/ background(k) \/ InsertFails(k)
        PROVE  jobs'[j] = jobs[j]
    <3>1. scan[k].stage # "over" \/ jobs' = jobs
      BY <2>1, EntryFacts DEF getAllSignals, background, Progress, ScansDone, InsertSignal, JobDone, InsertFails
    <3>2. jobs' = jobs \/ jobs' = [jobs EXCEPT ![k] = jobs'[k]]
      <4>1. CASE getAllSignals(k)
        BY <4>1 DEF getAllSignals, IInv, TypeOK
      <4>2. CASE background(k) \/ InsertFails(k)
        BY <4>2, EntryFacts, Updated
           DEF background, Progress, ScansDone, InsertSignal, JobDone, InsertFails, server
      <4>3. QED
        BY <2>1, <4>1, <4>2
    <3>3. j \in DOMAIN jobs
      BY DEF IInv, TypeOK
    <3>4. QED
      BY <1>1, <3>1, <3>2, <3>3
  <2>2. ASSUME NEW k \in Jobs, Expire(k)
        PROVE  jobs'[j] \in {jobs[j], None}
    BY <2>2 DEF Expire, IInv, TypeOK
  <2>3. ASSUME NEW p \in Polls, Poll(p) \/ getScanStatus(p) \/ PollAnswer(p) \/ PollLost(p)
        PROVE  jobs' = jobs
    BY <2>3 DEF Poll, getScanStatus, PollAnswer, Handle, PollLost, server
  <2>4. CASE runScan \/ pollJob \/ KickoffFails \/ Leave
    BY <2>4 DEF runScan, pollJob, KickoffFails, Leave, server
  <2>5. CASE Crash
    BY <2>5 DEF Crash
  <2>6. CASE UNCHANGED vars
    BY <2>6 DEF vars, server
  <2>7. QED
    BY <2>1, <2>2, <2>3, <2>4, <2>5, <2>6 DEF Next
<1>4. QED
  BY <1>2, <1>3

(* No progress callback of either scan is left when the job ends, so an entry that is done or in error    *)
(* stays as it is until the timer of createJob deletes it.                                                *)
THEOREM EndedFinal == Spec => EndedJobIsFinal
<1> DEFINE A == \A j \in Jobs : jobs[j] # None /\ jobs[j].status # "running" =>
                  /\ jobs'[j] \in {jobs[j], None}
                  /\ jobs[j].crypto + jobs[j].forex = Cardinality(Symbols)
<1>1. IInv /\ [Next]_vars => A
  BY EndedStep
<1> HIDE DEF A
<1>2. Spec => [][A]_vars
  BY <1>1, ScansCorrect, PTL DEF Spec
<1>3. QED
  BY <1>2 DEF A, EndedJobIsFinal


-----------------------------------------------------------------------------
(* Outcomes: hours and prices                                              *)

\* What the provers know of a quotient.
LEMMA Division ==
  ASSUME NEW n \in Int, NEW d \in Nat \ {0}
  PROVE  /\ n \div d \in Int /\ d * (n \div d) <= n /\ n < d * (n \div d) + d
         /\ n % d \in 0 .. d - 1
  OBVIOUS

\* Hours begin one after the other, and a tick is in the hour of its quotient.
LEMMA HourFacts ==
  /\ \A h \in Int : Start(h) \in Int /\ Start(h + 1) = Start(h) + HourTicks
  /\ \A h \in Nat : Start(h) \in Nat
  /\ \A k \in Int : Hour(k) \in Int /\ Start(Hour(k)) <= k /\ k < Start(Hour(k)) + HourTicks
<1>0. HourTicks \in Nat \ {0}
  BY OutcomesAssumption
<1>1. ASSUME NEW h \in Int PROVE Start(h) \in Int /\ Start(h + 1) = Start(h) + HourTicks
  BY <1>0, SMT DEF Start
<1>2. ASSUME NEW h \in Nat PROVE Start(h) \in Nat
  BY <1>0, SMT DEF Start
<1>3. ASSUME NEW k \in Int PROVE Hour(k) \in Int /\ Start(Hour(k)) <= k /\ k < Start(Hour(k)) + HourTicks
  <2>1. \A a, b \in Int : a * b = b * a
    BY SMT
  <2>2. k \div HourTicks \in Int /\ HourTicks * (k \div HourTicks) <= k /\ k < HourTicks * (k \div HourTicks) + HourTicks
    BY <1>0, Division
  <2> QED
    BY <1>0, <2>1, <2>2 DEF Hour, Start
<1> QED
  BY <1>1, <1>2, <1>3

\* A tick is in an hour or later exactly when the hour has begun.
LEMMA HourOrder ==
  ASSUME NEW h \in Int, NEW k \in Int
  PROVE  Start(h) <= k <=> h <= Hour(k)
<1>0. HourTicks \in Nat \ {0}
  BY OutcomesAssumption
<1>1. \A g \in Int, n \in Nat : Start(g + n) >= Start(g)
  BY <1>0, SMT DEF Start
<1>2. Hour(k) \in Int /\ Start(Hour(k)) \in Int /\ Start(Hour(k)) <= k /\ k < Start(Hour(k)) + HourTicks /\ Start(h) \in Int
  BY HourFacts
<1>3. ASSUME h <= Hour(k) PROVE Start(h) <= k
  <2>1. Hour(k) - h \in Nat /\ h + (Hour(k) - h) = Hour(k)
    BY <1>2, <1>3
  <2>2. Start(Hour(k)) >= Start(h)
    BY <1>1, <2>1
  <2> QED
    BY <1>2, <2>2
<1>4. ASSUME h > Hour(k) PROVE Start(h) > k
  <2>1. h - (Hour(k) + 1) \in Nat /\ (Hour(k) + 1) + (h - (Hour(k) + 1)) = h /\ Hour(k) + 1 \in Int
    BY <1>2, <1>4
  <2>2. Start(h) >= Start(Hour(k) + 1)
    BY <1>1, <2>1
  <2>3. Start(Hour(k) + 1) = Start(Hour(k)) + HourTicks
    BY <1>2, HourFacts
  <2> QED
    BY <1>0, <1>2, <2>2, <2>3
<1> QED
  BY <1>2, <1>3, <1>4

\* Hours are in the order of their ticks; natural ticks are in natural hours.
LEMMA HourMonotone ==
  /\ \A j, k \in Int : j <= k => Hour(j) <= Hour(k)
  /\ \A k \in Nat : Hour(k) \in Nat
<1>1. ASSUME NEW j \in Int, NEW k \in Int, j <= k PROVE Hour(j) <= Hour(k)
  <2>1. Hour(j) \in Int /\ Start(Hour(j)) \in Int /\ Start(Hour(j)) <= j
    BY HourFacts
  <2>2. Start(Hour(j)) <= k
    BY <1>1, <2>1
  <2> QED
    BY <2>1, <2>2, HourOrder
<1>2. ASSUME NEW k \in Nat PROVE Hour(k) \in Nat
  <2>1. Start(0) = 0
    BY OutcomesAssumption, SMT DEF Start
  <2>2. 0 <= Hour(k) /\ Hour(k) \in Int
    BY <2>1, HourOrder, HourFacts
  <2> QED
    BY <2>2
<1> QED
  BY <1>1, <1>2

\* A price so far is a number above one, or missing.
LEMMA PriceType ==
  ASSUME OutcomesTypes, NEW k \in 0 .. now
  PROVE  /\ Price(k) \in (Nat \ {0, 1}) \cup {Null}
         /\ Hour(k) + 1 \in 1 .. Len(market)
<1>1. now \in Nat /\ k \in Nat /\ k <= now
  BY OutcomesAssumption DEF OutcomesTypes, Times
<1>2. Hour(k) \in Nat /\ Hour(k) <= Hour(now) /\ Hour(now) \in Nat
  BY <1>1, HourMonotone
<1>3. Hour(k) + 1 \in 1 .. Len(market)
  BY <1>2 DEF OutcomesTypes
<1>4. market[Hour(k) + 1] \in Shapes
  BY <1>3 DEF OutcomesTypes
<1>5. 1 + (k % HourTicks) \in 1 .. HourTicks
  <2>1. HourTicks \in Nat \ {0} /\ k \in Int
    BY <1>1, OutcomesAssumption
  <2>2. k % HourTicks \in 0 .. HourTicks - 1
    BY <2>1, Division
  <2> QED
    BY <2>1, <2>2
<1>6. CASE market[Hour(k) + 1] # Null
  <2>1. market[Hour(k) + 1] \in [1 .. HourTicks -> Nat \ {0, 1}]
    BY <1>4, <1>6, OutcomesAssumption
  <2>2. market[Hour(k) + 1][1 + (k % HourTicks)] \in Nat \ {0, 1}
    BY <1>5, <2>1
  <2> QED
    BY <1>3, <1>6, <2>2 DEF Price
<1> QED
  BY <1>3, <1>6 DEF Price

-----------------------------------------------------------------------------
(* Outcomes: candles                                                       *)

\* The ticks of a candle are those of its hour that were seen and had a price.
LEMMA TradedFacts ==
  ASSUME OutcomesTypes, NEW h \in Nat, NEW seen \in 0 .. now
  PROVE  /\ IsFiniteSet(Traded(h, seen))
         /\ \A k \in Traded(h, seen) : k \in 0 .. now /\ k <= seen /\ Hour(k) = h /\ Price(k) \in Nat \ {0, 1}
         /\ \A k \in 0 .. seen : Hour(k) = h /\ Price(k) # Null => k \in Traded(h, seen)
<1>0. now \in Nat /\ seen \in Nat /\ seen <= now /\ Start(h) \in Nat /\ Start(h + 1) \in Nat /\ h + 1 \in Nat
  <2>1. now \in Nat
    BY OutcomesAssumption DEF OutcomesTypes, Times
  <2>2. h + 1 \in Nat
    OBVIOUS
  <2>3. Start(h) \in Nat /\ Start(h + 1) \in Nat
    BY <2>2, HourFacts
  <2> QED
    BY <2>1, <2>2, <2>3
<1>1. IsFiniteSet(Traded(h, seen))
  <2>1. IsFiniteSet(Start(h) .. Start(h + 1) - 1)
    BY <1>0, FS_Interval
  <2>2. Traded(h, seen) \subseteq Start(h) .. Start(h + 1) - 1
    BY DEF Traded
  <2> QED
    BY <2>1, <2>2, FS_Subset
<1>2. ASSUME NEW k \in Traded(h, seen)
      PROVE  k \in 0 .. now /\ k <= seen /\ Hour(k) = h /\ Price(k) \in Nat \ {0, 1}
  <2>1. k \in Start(h) .. Start(h + 1) - 1 /\ k <= seen /\ Price(k) # Null
    BY DEF Traded
  <2>2. k \in Nat /\ Start(h) <= k /\ k < Start(h + 1) /\ k \in 0 .. now
    BY <1>0, <2>1
  <2>3. h <= Hour(k) /\ ~(h + 1 <= Hour(k)) /\ Hour(k) \in Nat
    BY <1>0, <2>2, HourOrder, HourMonotone
  <2> QED
    BY <2>1, <2>2, <2>3, PriceType
<1>3. ASSUME NEW k \in 0 .. seen, Hour(k) = h, Price(k) # Null PROVE k \in Traded(h, seen)
  <2>1. k \in Nat /\ k <= seen
    BY <1>0
  <2>2. Start(h) <= k /\ ~(Start(h + 1) <= k)
    BY <1>0, <1>3, <2>1, HourOrder
  <2> QED
    BY <1>0, <1>3, <2>1, <2>2 DEF Traded
<1> QED
  BY <1>1, <1>2, <1>3

\* A candle opens and closes at its first and last price, and its low and high are prices of it.
LEMMA CandleFacts ==
  ASSUME OutcomesTypes, NEW h \in Nat, NEW seen \in 0 .. now, Traded(h, seen) # {}
  PROVE  /\ \E k \in Traded(h, seen) : Open(h, seen) = Price(k) /\ \A j \in Traded(h, seen) : k <= j
         /\ Close(h, seen) \in Nat
         /\ \E k \in Traded(h, seen) : Low(h, seen) = Price(k) /\ \A j \in Traded(h, seen) : Price(k) <= Price(j)
         /\ \E k \in Traded(h, seen) : High(h, seen) = Price(k) /\ \A j \in Traded(h, seen) : Price(j) <= Price(k)
<1> DEFINE T == Traded(h, seen)
           p == [k \in T |-> Price(k)]
<1>0. IsFiniteSet(T) /\ T # {} /\ \A k \in T : k \in Int /\ Price(k) \in Nat \ {0, 1}
  BY TradedFacts
<1>1. Max(T) \in T /\ Min(T) \in T /\ \A j \in T : Min(T) <= j
  <2> HIDE DEF T
  <2> QED
    BY <1>0, Extremes
<1>2. Open(h, seen) = Price(Min(T)) /\ Close(h, seen) = Price(Max(T))
  BY DEF Open, Close
<1>3. \A k \in T : p[k] = Price(k) /\ p[k] \in Int
  BY <1>0
<1>4. Low(h, seen) = Min({p[k] : k \in T}) /\ High(h, seen) = Max({p[k] : k \in T})
  <2>1. {Price(k) : k \in T} = {p[k] : k \in T}
    BY <1>3
  <2> QED
    BY <2>1 DEF Low, High
<1> HIDE DEF p, T
<1>5. /\ \E x \in T : Max({p[y] : y \in T}) = p[x] /\ \A y \in T : p[y] <= p[x]
      /\ \E x \in T : Min({p[y] : y \in T}) = p[x] /\ \A y \in T : p[x] <= p[y]
  BY <1>0, <1>3, ExtremePrices
<1>6. \E k \in T : Low(h, seen) = Price(k) /\ \A j \in T : Price(k) <= Price(j)
  BY <1>3, <1>4, <1>5
<1>7. \E k \in T : High(h, seen) = Price(k) /\ \A j \in T : Price(j) <= Price(k)
  BY <1>3, <1>4, <1>5
<1>8. Close(h, seen) \in Nat
  BY <1>0, <1>1, <1>2
<1>9. \E k \in T : Open(h, seen) = Price(k) /\ \A j \in T : k <= j
  BY <1>1, <1>2
<1> QED
  BY <1>6, <1>7, <1>8, <1>9 DEF T

\* A candle touches a level exactly when one of its ticks did.
LEMMA Touching ==
  ASSUME OutcomesTypes, NEW h \in Nat, NEW seen \in 0 .. now, Traded(h, seen) # {},
         NEW sig \in Row
  PROVE  /\ Stops(sig, Worst(sig, h, seen)) <=> \E k \in Traded(h, seen) : Stops(sig, Price(k))
         /\ Gains(sig, Best(sig, h, seen)) <=> \E k \in Traded(h, seen) : Gains(sig, Price(k))
<1> DEFINE T == Traded(h, seen)
<1>0. sig.side \in {"BUY", "SELL"} /\ sig.sl \in Int /\ sig.tp \in Int /\ \A k \in T : Price(k) \in Int
  BY TradedFacts DEF Row
<1>1. PICK l \in T : Low(h, seen) = Price(l) /\ \A j \in T : Price(l) <= Price(j)
  BY CandleFacts
<1>2. PICK g \in T : High(h, seen) = Price(g) /\ \A j \in T : Price(j) <= Price(g)
  BY CandleFacts
<1> HIDE DEF T
<1>3. CASE sig.side = "BUY"
  <2>1. \A x \in Int : (Stops(sig, x) <=> x <= sig.sl) /\ (Gains(sig, x) <=> x >= sig.tp)
    BY <1>3 DEF Stops, Gains
  <2>2. Worst(sig, h, seen) = Price(l) /\ Best(sig, h, seen) = Price(g)
    BY <1>1, <1>2, <1>3 DEF Worst, Best
  <2>3. Price(l) \in Int /\ Price(g) \in Int
    BY <1>0, <1>1, <1>2
  <2>4. Price(l) <= sig.sl <=> \E k \in T : Price(k) <= sig.sl
    BY <1>0, <1>1, <2>3
  <2>5. Price(g) >= sig.tp <=> \E k \in T : Price(k) >= sig.tp
    BY <1>0, <1>2, <2>3
  <2> QED
    BY <1>0, <2>1, <2>2, <2>3, <2>4, <2>5 DEF T
<1>4. CASE sig.side = "SELL"
  <2>1. \A x \in Int : (Stops(sig, x) <=> x >= sig.sl) /\ (Gains(sig, x) <=> x <= sig.tp)
    BY <1>4 DEF Stops, Gains
  <2>2. Worst(sig, h, seen) = Price(g) /\ Best(sig, h, seen) = Price(l)
    BY <1>1, <1>2, <1>4 DEF Worst, Best
  <2>3. Price(l) \in Int /\ Price(g) \in Int
    BY <1>0, <1>1, <1>2
  <2>4. Price(g) >= sig.sl <=> \E k \in T : Price(k) >= sig.sl
    BY <1>0, <1>2, <2>3
  <2>5. Price(l) <= sig.tp <=> \E k \in T : Price(k) <= sig.tp
    BY <1>0, <1>1, <2>3
  <2> QED
    BY <1>0, <2>1, <2>2, <2>3, <2>4, <2>5 DEF T
<1> QED
  BY <1>0, <1>3, <1>4

-----------------------------------------------------------------------------
(* Outcomes: the decision for a signal                                     *)

\* A closed row is the open one with an outcome, closed no later than the pass began.
LEMMA FinFacts ==
  ASSUME NEW sig \in Row, NEW o \in {"SL", "TP", "EXPIRED", "INVALID"}, NEW e \in Nat \cup {Null},
         NEW c \in Nat, NEW r \in Times
  PROVE  LET f == Fin(sig, o, e, c, r) IN
         /\ f \in Row
         /\ f.side = sig.side /\ f.entry = sig.entry /\ f.sl = sig.sl /\ f.tp = sig.tp /\ f.created = sig.created
         /\ f.outcome = o /\ f.exit = e
         /\ f.closed \in Nat /\ f.closed <= r /\ f.closed <= c /\ (f.closed = c \/ f.closed = r)
<1> DEFINE m == Min({c, r})
<1>1. r \in Nat /\ r <= MaxTime /\ MaxTime \in Nat
  BY OutcomesAssumption DEF Times
<1>2. m \in {c, r} /\ m <= c /\ m <= r
  <2>1. IsFiniteSet({c, r})
    <3>1. {c, r} = {c} \cup {r} /\ IsFiniteSet({c})
      BY FS_Singleton
    <3> QED
      BY <3>1, FS_AddElement
  <2> QED
    BY <1>1, <2>1, Extremes
<1>3. m \in Times /\ m \in Nat
  BY <1>1, <1>2 DEF Times
<1> HIDE DEF m
<1>4. Fin(sig, o, e, c, r) = [sig EXCEPT !.outcome = o, !.exit = e, !.closed = m]
  BY DEF Fin, m
<1> QED
  BY <1>2, <1>3, <1>4 DEF Row

\* A stop loses, a target wins, and no price is both.
LEMMA Exclusive ==
  ASSUME NEW sig \in Row, Between(sig)
  PROVE  /\ \A x \in Nat : ~(Stops(sig, x) /\ Gains(sig, x))
         /\ \A x \in Nat : (Stops(sig, x) => Pnl(sig, x) < 0) /\ (Gains(sig, x) => Pnl(sig, x) > 0)
         /\ sig.sl \in Nat /\ sig.tp \in Nat /\ Stops(sig, sig.sl) /\ Gains(sig, sig.tp)
  BY DEF Row, Between, Stops, Gains, Pnl

\* The ticks at which a signal was held are those of its hours.
LEMMA HeldFacts ==
  ASSUME OutcomesTypes, NEW sig \in Row
  PROVE  /\ \A k \in Held(sig) : /\ k \in 0 .. now /\ Hour(k) \in Nat /\ Hour(sig.created) <= Hour(k)
                                 /\ Start(Hour(k)) < Expiry(sig) /\ Price(k) \in Nat
         /\ \A k \in 0 .. now : Hour(sig.created) <= Hour(k) /\ Start(Hour(k)) < Expiry(sig) /\ Price(k) # Null => k \in Held(sig)
<1>0. now \in Nat /\ sig.created \in Nat
  BY OutcomesAssumption DEF OutcomesTypes, Row, Times
<1>1. Hour(sig.created) \in Nat /\ From(sig) = Start(Hour(sig.created)) /\ From(sig) \in Nat
  BY <1>0, HourMonotone, HourFacts DEF From
<1>2. \A k \in Int : From(sig) <= k <=> Hour(sig.created) <= Hour(k)
  BY <1>1, HourOrder
<1>3. ASSUME NEW k \in Held(sig)
      PROVE  /\ k \in 0 .. now /\ Hour(k) \in Nat /\ Hour(sig.created) <= Hour(k)
             /\ Start(Hour(k)) < Expiry(sig) /\ Price(k) \in Nat
  <2>1. k \in From(sig) .. now /\ Start(Hour(k)) < Expiry(sig) /\ Price(k) # Null
    BY DEF Held
  <2>2. k \in 0 .. now /\ k \in Nat /\ From(sig) <= k
    BY <1>0, <1>1, <2>1
  <2> QED
    BY <1>2, <2>1, <2>2, PriceType, HourMonotone
<1>4. ASSUME NEW k \in 0 .. now, Hour(sig.created) <= Hour(k), Start(Hour(k)) < Expiry(sig), Price(k) # Null
      PROVE  k \in Held(sig)
  <2>1. k \in Int /\ From(sig) <= k /\ k <= now
    BY <1>0, <1>2, <1>4
  <2>2. k \in From(sig) .. now
    BY <1>0, <1>1, <2>1
  <2> QED
    BY <1>4, <2>2 DEF Held
<1> QED
  BY <1>3, <1>4

\* The hours of a decision, and the ticks of their candles.
LEMMA HoursFacts ==
  ASSUME OutcomesTypes, NEW sig \in Row, NEW read \in Times, NEW seen \in 0 .. now, read <= seen
  PROVE  /\ \A h \in Hours(sig, read, seen) :
              /\ h \in Nat /\ Hour(sig.created) <= h /\ Start(h) <= read /\ Traded(h, seen) # {}
              /\ \A k \in Traded(h, seen) : k \in Held(sig)
         /\ \A k \in Held(sig) : Start(Hour(k)) <= read /\ k <= seen =>
              Hour(k) \in Hours(sig, read, seen) /\ k \in Traded(Hour(k), seen)
<1>0. now \in Nat /\ sig.created \in Nat /\ seen \in Nat /\ seen <= now
  BY OutcomesAssumption DEF OutcomesTypes, Row, Times
<1>1. Hour(sig.created) \in Nat /\ Hour(seen) \in Nat
  BY <1>0, HourMonotone
<1>2. ASSUME NEW h \in Hours(sig, read, seen)
      PROVE  /\ h \in Nat /\ Hour(sig.created) <= h /\ Start(h) <= read /\ Traded(h, seen) # {}
             /\ \A k \in Traded(h, seen) : k \in Held(sig)
  <2>1. h \in Hour(sig.created) .. Hour(seen) /\ Start(h) < Expiry(sig) /\ Start(h) <= read /\ Traded(h, seen) # {}
    BY DEF Hours
  <2>2. h \in Nat /\ Hour(sig.created) <= h
    BY <1>1, <2>1
  <2>3. ASSUME NEW k \in Traded(h, seen) PROVE k \in Held(sig)
    <3>1. k \in 0 .. now /\ Hour(k) = h /\ Price(k) \in Nat
      BY <2>2, TradedFacts
    <3>2. Price(k) # Null
      BY <3>1, NullAssumption
    <3> QED
      BY <2>1, <2>2, <3>1, <3>2, HeldFacts
  <2> QED
    BY <2>1, <2>2, <2>3
<1>3. ASSUME NEW k \in Held(sig), Start(Hour(k)) <= read, k <= seen
      PROVE  Hour(k) \in Hours(sig, read, seen) /\ k \in Traded(Hour(k), seen)
  <2>1. k \in 0 .. now /\ k \in Nat /\ Hour(k) \in Nat /\ Hour(sig.created) <= Hour(k) /\ Start(Hour(k)) < Expiry(sig) /\ Price(k) # Null
    BY <1>0, HeldFacts, NullAssumption
  <2>2. k \in 0 .. seen /\ Hour(k) <= Hour(seen)
    BY <1>0, <1>3, <2>1, HourMonotone
  <2>3. k \in Traded(Hour(k), seen)
    BY <2>1, <2>2, TradedFacts
  <2>4. Hour(k) \in Hour(sig.created) .. Hour(seen)
    BY <1>1, <2>1, <2>2
  <2> QED
    BY <1>3, <2>1, <2>3, <2>4 DEF Hours
<1> QED
  BY <1>2, <1>3

\* No tick before the candle that decides was at a level.
LEMMA Earlier ==
  ASSUME OutcomesTypes, NEW sig \in Row, NEW read \in Times, NEW seen \in 0 .. now, read <= seen,
         NEW h \in Hours(sig, read, seen), \A g \in Hours(sig, read, seen) : g < h => ~Touched(sig, g, seen),
         NEW j \in Held(sig), Hour(j) < h
  PROVE  ~Stops(sig, Price(j)) /\ ~Gains(sig, Price(j))
<1>1. h \in Nat /\ Start(h) <= read
  BY HoursFacts
<1>2. j \in 0 .. now /\ Hour(j) \in Nat
  BY HeldFacts
<1>3. now \in Nat /\ read \in Nat /\ seen \in Nat /\ j \in Nat
  BY <1>2, OutcomesAssumption DEF OutcomesTypes, Times
<1>4. j < Start(h) /\ Start(h) \in Int /\ Start(Hour(j)) <= j /\ Start(Hour(j)) \in Int
  <2>1. Start(h) \in Int /\ Start(Hour(j)) \in Int /\ Start(Hour(j)) <= j
    BY <1>1, <1>2, <1>3, HourFacts
  <2>2. ~(h <= Hour(j))
    BY <1>1, <1>2
  <2>3. ~(Start(h) <= j)
    BY <1>1, <1>3, <2>2, HourOrder
  <2> QED
    BY <1>3, <2>1, <2>3
<1>5. Start(Hour(j)) <= read /\ j <= seen
  BY <1>1, <1>3, <1>4
<1>6. Hour(j) \in Hours(sig, read, seen) /\ j \in Traded(Hour(j), seen)
  BY <1>5, HoursFacts
<1>7. ~Touched(sig, Hour(j), seen)
  BY <1>6
<1> QED
  BY <1>2, <1>6, <1>7, Touching DEF Touched

\* A pass began no later than its candles were fetched.
LEMMA PassTimes ==
  ASSUME OutcomesTypes, NEW sig \in Row, NEW read \in Times, NEW seen \in 0 .. now, read <= seen
  PROVE  now \in Nat /\ sig.created \in Nat /\ read \in Nat /\ seen \in Nat /\ read <= now /\ seen <= now
<1>1. MaxTime \in Nat /\ now \in Nat /\ read \in Nat
  BY OutcomesAssumption DEF OutcomesTypes, Times
<1>2. sig.created \in Nat
  BY <1>1 DEF Row, Times
<1> QED
  BY <1>1, <1>2

\* No price of its hour comes before the open.
LEMMA OpenIsFirst ==
  ASSUME OutcomesTypes, NEW sig \in Row, NEW h \in Nat, NEW seen \in 0 .. now, NEW k \in Traded(h, seen),
         NEW j \in Nat, Hour(j) = h, AtOpen(sig, j)
  PROVE  j <= k
<1>1. k \in Start(h) .. Start(h + 1) - 1 /\ Price(k) # Null
  BY DEF Traded
<1>2. Start(h) \in Int /\ Start(h + 1) \in Int
  <2>1. h \in Int /\ h + 1 \in Int
    OBVIOUS
  <2> QED
    BY <2>1, HourFacts
<1>3. \A i \in Start(h) .. j - 1 : Price(i) = Null
  BY DEF AtOpen
<1>4. SUFFICES ASSUME k < j PROVE FALSE
  BY <1>1, <1>2
<1>5. k \in Start(h) .. j - 1
  BY <1>1, <1>2, <1>4
<1> QED
  BY <1>1, <1>3, <1>5

\* The row that a candle closes by the stop, at e and c.
LEMMA EarnedStop ==
  ASSUME OutcomesTypes, NEW sig \in Row, NEW read \in Times, NEW seen \in 0 .. now, read <= seen,
         NEW h \in Hours(sig, read, seen), \A g \in Hours(sig, read, seen) : g < h => ~Touched(sig, g, seen),
         sig.sl # 0, Between(sig), sig.created <= read,
         NEW e \in Nat, NEW c \in Nat, sig.created <= c, Stops(sig, e),
         \E k \in Traded(h, seen) : Stops(sig, Price(k)),
         \A j \in Traded(h, seen) : Gains(sig, Price(j)) => ~AtOpen(sig, j)
  PROVE  Fin(sig, "SL", e, c, read) \in Row /\ Earned(Fin(sig, "SL", e, c, read))
<1> DEFINE f == Fin(sig, "SL", e, c, read)
<1>0. read \in Nat /\ read <= now /\ now \in Nat /\ sig.created \in Nat
  BY PassTimes
<1>1. /\ f \in Row
      /\ f.side = sig.side /\ f.entry = sig.entry /\ f.sl = sig.sl /\ f.tp = sig.tp /\ f.created = sig.created
      /\ f.outcome = "SL" /\ f.exit = e
      /\ f.closed \in Nat /\ f.closed <= read /\ (f.closed = c \/ f.closed = read)
  BY FinFacts
<1> HIDE DEF f
<1>2. /\ Held(f) = Held(sig) /\ Stopped(f) = Stopped(sig) /\ Gained(f) = Gained(sig)
      /\ \A j : AtOpen(f, j) <=> AtOpen(sig, j)
  BY <1>1 DEF Held, Stopped, Gained, From, Expiry, Stops, Gains, AtOpen
<1>3. PICK k \in Traded(h, seen) : Stops(sig, Price(k))
  OBVIOUS
<1>4. h \in Nat /\ k \in Held(sig) /\ k \in Stopped(sig)
  BY <1>3, HoursFacts DEF Stopped
<1>5. Hour(k) = h
  BY <1>3, <1>4, TradedFacts
<1>6. ASSUME NEW j \in Gained(sig) PROVE Hour(j) >= h /\ (Hour(j) = h => ~AtOpen(sig, j))
  <2>1. j \in Held(sig) /\ Gains(sig, Price(j))
    BY DEF Gained
  <2>2. ~(Hour(j) < h)
    BY <2>1, Earlier
  <2>3. Hour(j) \in Nat /\ j \in 0 .. now /\ Price(j) # Null
    BY <2>1, HeldFacts, NullAssumption
  <2>4. now \in Nat /\ j \in Nat /\ seen \in Nat /\ k \in Nat /\ k <= seen
    BY <1>0, <1>4, <2>3, TradedFacts, PassTimes
  <2>5. ASSUME Hour(j) = h, AtOpen(sig, j) PROVE FALSE
    <3>1. j <= k
      BY <1>4, <2>4, <2>5, OpenIsFirst
    <3>2. j \in 0 .. seen
      BY <2>4, <3>1
    <3>3. j \in Traded(h, seen)
      BY <1>4, <2>3, <2>5, <3>2, TradedFacts
    <3> QED
      BY <2>1, <2>5, <3>3
  <2> QED
    BY <1>4, <2>2, <2>3, <2>5
<1>7. Pnl(f, f.exit) < 0 /\ Stops(f, f.exit)
  <2>1. Pnl(sig, e) < 0
    BY Exclusive
  <2> QED
    BY <1>1, <2>1 DEF Pnl, Stops
<1>8. f.closed \in f.created .. now
  BY <1>0, <1>1
<1>9. Earned(f)
  BY <1>1, <1>2, <1>4, <1>5, <1>6, <1>7, <1>8 DEF Earned
<1> QED
  BY <1>1, <1>9 DEF f

\* The row that a candle closes by the target, at e and c, which no tick of it before k stops, nor any other when it
\* is closed at the end of the hour.
LEMMA EarnedGain ==
  ASSUME OutcomesTypes, NEW sig \in Row, NEW read \in Times, NEW seen \in 0 .. now, read <= seen,
         NEW h \in Hours(sig, read, seen), \A g \in Hours(sig, read, seen) : g < h => ~Touched(sig, g, seen),
         sig.sl # 0, Between(sig), sig.created <= read,
         NEW e \in Nat, NEW c \in Nat, sig.created <= c, Gains(sig, e),
         NEW k \in Traded(h, seen), Gains(sig, Price(k)), \A j \in Traded(h, seen) : j <= k => ~Stops(sig, Price(j)),
         c < Start(h + 1) \/ (c = Start(h + 1) /\ \A j \in Traded(h, seen) : ~Stops(sig, Price(j)))
  PROVE  Fin(sig, "TP", e, c, read) \in Row /\ Earned(Fin(sig, "TP", e, c, read))
<1> DEFINE f == Fin(sig, "TP", e, c, read)
<1>0. read \in Nat /\ read <= now /\ now \in Nat /\ sig.created \in Nat
  BY PassTimes
<1>1. /\ f \in Row
      /\ f.side = sig.side /\ f.entry = sig.entry /\ f.sl = sig.sl /\ f.tp = sig.tp /\ f.created = sig.created
      /\ f.outcome = "TP" /\ f.exit = e
      /\ f.closed \in Nat /\ f.closed <= read /\ f.closed <= c /\ (f.closed = c \/ f.closed = read)
  BY FinFacts
<1> HIDE DEF f
<1>2. Held(f) = Held(sig) /\ Stopped(f) = Stopped(sig) /\ Gained(f) = Gained(sig)
  BY <1>1 DEF Held, Stopped, Gained, From, Expiry, Stops, Gains
<1>4. h \in Nat /\ k \in Held(sig) /\ k \in Gained(sig)
  BY HoursFacts DEF Gained
<1>5. Hour(k) = h /\ k \in 0 .. now /\ k <= seen
  BY <1>4, TradedFacts
<1>6. ASSUME NEW j \in Stopped(sig) PROVE j > k /\ (Hour(j) = h => f.closed < Start(h + 1))
  <2>1. j \in Held(sig) /\ Stops(sig, Price(j))
    BY DEF Stopped
  <2>2. ~(Hour(j) < h)
    BY <2>1, Earlier
  <2>3. Hour(j) \in Nat /\ j \in 0 .. now /\ Price(j) # Null
    BY <2>1, HeldFacts, NullAssumption
  <2>4. now \in Nat /\ j \in Nat /\ k \in Nat /\ seen \in Nat
    BY <1>5, <2>3, OutcomesAssumption DEF OutcomesTypes, Times
  <2>5. ASSUME j <= k PROVE FALSE
    <3>1. Hour(j) = h /\ j \in 0 .. seen
      BY <1>4, <1>5, <2>2, <2>3, <2>4, <2>5, HourMonotone
    <3>2. j \in Traded(h, seen)
      BY <1>4, <2>3, <3>1, TradedFacts
    <3> QED
      BY <2>1, <2>5, <3>2
  <2>6. ASSUME Hour(j) = h PROVE f.closed < Start(h + 1)
    <3>1. Start(h + 1) \in Int /\ j < Start(h + 1)
      <4>1. h + 1 \in Int /\ ~(h + 1 <= Hour(j))
        BY <1>4, <2>6
      <4>2. ~(Start(h + 1) <= j) /\ Start(h + 1) \in Int
        BY <2>4, <4>1, HourOrder, HourFacts
      <4> QED
        BY <2>4, <4>2
    <3>2. CASE c < Start(h + 1)
      BY <1>1, <3>1, <3>2
    <3>3. CASE c = Start(h + 1) /\ \A i \in Traded(h, seen) : ~Stops(sig, Price(i))
      <4>1. j \notin Traded(h, seen)
        BY <2>1, <3>3
      <4>2. ~(j \in 0 .. seen)
        BY <1>4, <2>3, <2>6, <4>1, TradedFacts
      <4>3. read < j
        BY <1>0, <2>4, <4>2
      <4> QED
        BY <1>0, <1>1, <2>4, <3>1, <4>3
    <3> QED
      BY <3>2, <3>3
  <2> QED
    BY <2>4, <2>5, <2>6
<1>7. Pnl(f, f.exit) > 0 /\ Gains(f, f.exit)
  <2>1. Pnl(sig, e) > 0
    BY Exclusive
  <2> QED
    BY <1>1, <2>1 DEF Pnl, Gains
<1>8. f.closed \in f.created .. now
  BY <1>0, <1>1
<1>9. Earned(f)
  BY <1>1, <1>2, <1>4, <1>5, <1>6, <1>7, <1>8 DEF Earned
<1> QED
  BY <1>1, <1>9 DEF f

\* The hour after one the signal was held in begins after the signal.
LEMMA NextHour ==
  ASSUME NEW c \in Nat, NEW h \in Nat, Hour(c) <= h
  PROVE  Start(h) \in Nat /\ Start(h + 1) \in Nat /\ c <= Start(h + 1) /\ Start(h) < Start(h + 1)
<1>1. Start(h) \in Nat /\ Start(h + 1) \in Nat /\ h + 1 \in Nat /\ Start(h) < Start(h + 1)
  <2>1. h + 1 \in Nat /\ HourTicks \in Nat \ {0}
    BY OutcomesAssumption
  <2>2. Start(h) \in Nat /\ Start(h + 1) \in Nat /\ Start(h + 1) = Start(h) + HourTicks
    BY <2>1, HourFacts
  <2> QED
    BY <2>1, <2>2
<1>2. Hour(c) \in Nat /\ ~(h + 1 <= Hour(c))
  BY HourMonotone
<1>3. ~(Start(h + 1) <= c)
  BY <1>1, <1>2, HourOrder
<1> QED
  BY <1>1, <1>3

\* A candle that touches a level closes the signal by what its prices did.
LEMMA ClosedEarned ==
  ASSUME OutcomesTypes, NEW sig \in Row, NEW read \in Times, NEW seen \in 0 .. now, read <= seen,
         NEW h \in Hours(sig, read, seen), \A g \in Hours(sig, read, seen) : g < h => ~Touched(sig, g, seen),
         sig.sl # 0, Between(sig), sig.created <= read, Touched(sig, h, seen)
  PROVE  ClosedBy(sig, h, read, seen) \in Row /\ Earned(ClosedBy(sig, h, read, seen))
<1> DEFINE open == Open(h, seen)
<1>0. h \in Nat /\ Hour(sig.created) <= h /\ Traded(h, seen) # {} /\ sig.created \in Nat
  BY HoursFacts, OutcomesAssumption DEF Row, Times
<1>1. PICK first \in Traded(h, seen) : open = Price(first) /\ \A j \in Traded(h, seen) : first <= j
  BY <1>0, CandleFacts
<1>2. \A k \in Traded(h, seen) : k \in Nat /\ Price(k) \in Nat
  <2>1. now \in Nat
    BY OutcomesAssumption DEF OutcomesTypes, Times
  <2> QED
    BY <1>0, <2>1, TradedFacts
<1>3. open \in Nat
  BY <1>1, <1>2
<1>4. Start(h) \in Nat /\ Start(h + 1) \in Nat /\ sig.created <= Start(h + 1) /\ Start(h) < Start(h + 1)
  BY <1>0, NextHour
<1>5. sig.sl \in Nat /\ sig.tp \in Nat /\ Stops(sig, sig.sl) /\ Gains(sig, sig.tp)
      /\ \A x \in Nat : ~(Stops(sig, x) /\ Gains(sig, x))
  BY Exclusive
<1> HIDE DEF open
<1>10. ASSUME NEW j \in Traded(h, seen), AtOpen(sig, j) PROVE Price(j) = open /\ Start(h) >= sig.created
  <2>1. Hour(j) = h /\ j \in Nat /\ first \in Nat
    BY <1>0, <1>2, TradedFacts
  <2>2. j <= first /\ first <= j
    BY <1>0, <1>1, <1>10, <2>1, OpenIsFirst
  <2>3. j = first
    BY <2>1, <2>2
  <2> QED
    BY <1>1, <1>10, <2>1, <2>3 DEF AtOpen
<1>6. CASE Start(h) >= sig.created /\ Stops(sig, open)
  <2>1. ClosedBy(sig, h, read, seen) = Fin(sig, "SL", open, Start(h), read)
    BY <1>6 DEF ClosedBy, open
  <2>2. \E k \in Traded(h, seen) : Stops(sig, Price(k))
    BY <1>1, <1>6
  <2>3. \A j \in Traded(h, seen) : Gains(sig, Price(j)) => ~AtOpen(sig, j)
    BY <1>3, <1>5, <1>6, <1>10
  <2>4. sig.created <= Start(h)
    BY <1>0, <1>4, <1>6
  <2> QED
    BY <1>3, <1>4, <1>6, <2>1, <2>2, <2>3, <2>4, EarnedStop
<1>7. CASE ~(Start(h) >= sig.created /\ Stops(sig, open)) /\ Start(h) >= sig.created /\ Gains(sig, open)
  <2>1. ClosedBy(sig, h, read, seen) = Fin(sig, "TP", open, Start(h), read)
    BY <1>7 DEF ClosedBy, open
  <2>2. \A j \in Traded(h, seen) : j <= first => ~Stops(sig, Price(j))
    <3>1. \A j \in Traded(h, seen) : j <= first => j = first
      BY <1>1, <1>2
    <3> QED
      BY <1>1, <1>3, <1>5, <1>7, <3>1
  <2>3. Gains(sig, Price(first)) /\ sig.created <= Start(h)
    BY <1>1, <1>4, <1>0, <1>7
  <2> QED
    BY <1>3, <1>4, <1>7, <2>1, <2>2, <2>3, EarnedGain
<1>8. CASE ~(Start(h) >= sig.created /\ Stops(sig, open)) /\ ~(Start(h) >= sig.created /\ Gains(sig, open))
           /\ Stops(sig, Worst(sig, h, seen))
  <2>1. ClosedBy(sig, h, read, seen) = Fin(sig, "SL", sig.sl, Start(h + 1), read)
    BY <1>8 DEF ClosedBy, open
  <2>2. \E k \in Traded(h, seen) : Stops(sig, Price(k))
    BY <1>0, <1>8, Touching
  <2>3. \A j \in Traded(h, seen) : Gains(sig, Price(j)) => ~AtOpen(sig, j)
    BY <1>8, <1>10
  <2> QED
    BY <1>4, <1>5, <2>1, <2>2, <2>3, EarnedStop
<1>9. CASE ~(Start(h) >= sig.created /\ Stops(sig, open)) /\ ~(Start(h) >= sig.created /\ Gains(sig, open))
           /\ ~Stops(sig, Worst(sig, h, seen))
  <2>1. ClosedBy(sig, h, read, seen) = Fin(sig, "TP", sig.tp, Start(h + 1), read)
    BY <1>9 DEF ClosedBy, open
  <2>2. Gains(sig, Best(sig, h, seen))
    BY <1>9 DEF Touched
  <2>3. PICK k \in Traded(h, seen) : Gains(sig, Price(k))
    BY <1>0, <2>2, Touching
  <2>4. \A j \in Traded(h, seen) : ~Stops(sig, Price(j))
    BY <1>0, <1>9, Touching
  <2> QED
    BY <1>4, <1>5, <2>1, <2>3, <2>4, EarnedGain
<1> QED
  BY <1>6, <1>7, <1>8, <1>9

\* A row that expires.
LEMMA ExpiredFacts ==
  ASSUME NEW sig \in Row, NEW e \in Nat, NEW c \in Nat, NEW r \in Times
  PROVE  LET f == Fin(sig, "EXPIRED", e, c, r) IN
         /\ f \in Row
         /\ f.side = sig.side /\ f.entry = sig.entry /\ f.sl = sig.sl /\ f.tp = sig.tp /\ f.created = sig.created
         /\ f.outcome = "EXPIRED" /\ f.exit = e
         /\ f.closed \in Nat /\ f.closed <= r /\ (f.closed = c \/ f.closed = r)
  BY FinFacts

\* A row without a stop.
LEMMA InvalidFacts ==
  ASSUME NEW sig \in Row, NEW r \in Times
  PROVE  LET f == Fin(sig, "INVALID", Null, r, r) IN
         f \in Row /\ f.sl = sig.sl /\ f.created = sig.created /\ f.outcome = "INVALID" /\ f.closed = r
<1>1. r \in Nat /\ Null \in Nat \cup {Null}
  BY OutcomesAssumption DEF Times
<1>2. \A e \in Nat \cup {Null}, c \in Nat :
        LET f == Fin(sig, "INVALID", e, c, r) IN
        /\ f \in Row /\ f.sl = sig.sl /\ f.created = sig.created /\ f.outcome = "INVALID"
        /\ (f.closed = c \/ f.closed = r)
  BY FinFacts
<1> QED
  BY <1>1, <1>2

\* What an outcome leaves of a row.
LEMMA FinSame ==
  ASSUME NEW sig \in Row, NEW o, NEW e, NEW c, NEW r
  PROVE  LET f == Fin(sig, o, e, c, r) IN
         f.side = sig.side /\ f.entry = sig.entry /\ f.sl = sig.sl /\ f.tp = sig.tp /\ f.created = sig.created
  BY DEF Fin, Row

\* The row that its week closes, when no tick touched a level.
LEMMA EarnedExpiry ==
  ASSUME OutcomesTypes, NEW sig \in Row, NEW read \in Times, NEW seen \in 0 .. now, read <= seen,
         \A h \in Hours(sig, read, seen) : ~Touched(sig, h, seen),
         sig.sl # 0, sig.created <= read, read >= Expiry(sig) + HourTicks,
         NEW e \in Nat, NEW c \in Nat, sig.created <= c
  PROVE  Fin(sig, "EXPIRED", e, c, read) \in Row /\ Earned(Fin(sig, "EXPIRED", e, c, read))
<1> DEFINE f == Fin(sig, "EXPIRED", e, c, read)
<1>0. /\ read \in Nat /\ read <= now /\ now \in Nat /\ seen \in Nat /\ sig.created \in Nat
      /\ HourTicks \in Nat \ {0} /\ Expiry(sig) \in Nat
  <2>1. Hold \in Nat /\ HourTicks \in Nat \ {0}
    BY OutcomesAssumption
  <2>2. read \in Nat /\ read <= now /\ now \in Nat /\ seen \in Nat /\ sig.created \in Nat
    BY PassTimes
  <2> QED
    BY <2>1, <2>2 DEF Expiry
<1>1. /\ f \in Row
      /\ f.side = sig.side /\ f.entry = sig.entry /\ f.sl = sig.sl /\ f.tp = sig.tp /\ f.created = sig.created
      /\ f.outcome = "EXPIRED" /\ f.exit = e
      /\ f.closed \in Nat /\ f.closed <= read /\ (f.closed = c \/ f.closed = read)
  BY ExpiredFacts
<1> HIDE DEF f
<1>2. Stopped(f) = Stopped(sig) /\ Gained(f) = Gained(sig) /\ Expiry(f) = Expiry(sig)
  BY <1>1 DEF Held, Stopped, Gained, From, Expiry, Stops, Gains
<1>3. ASSUME NEW k \in Held(sig) PROVE ~Stops(sig, Price(k)) /\ ~Gains(sig, Price(k))
  <2>1. k \in 0 .. now /\ Hour(k) \in Nat /\ Start(Hour(k)) < Expiry(sig)
    BY HeldFacts
  <2>2. k \in Nat /\ Start(Hour(k)) \in Int /\ k < Start(Hour(k)) + HourTicks
    BY <1>0, <2>1, HourFacts
  <2>3. Start(Hour(k)) <= read /\ k <= seen
    BY <1>0, <2>1, <2>2
  <2>4. Hour(k) \in Hours(sig, read, seen) /\ k \in Traded(Hour(k), seen)
    BY <2>3, HoursFacts
  <2> QED
    BY <2>1, <2>4, Touching DEF Touched
<1>4. Stopped(sig) = {} /\ Gained(sig) = {}
  BY <1>3 DEF Stopped, Gained
<1>5. now >= Start(Hour(Expiry(sig) - 1) + 1)
  <2>1. Expiry(sig) - 1 \in Int
    BY <1>0
  <2>2. Hour(Expiry(sig) - 1) \in Int /\ Start(Hour(Expiry(sig) - 1)) <= Expiry(sig) - 1
    BY <2>1, HourFacts
  <2>3. Start(Hour(Expiry(sig) - 1)) \in Int
        /\ Start(Hour(Expiry(sig) - 1) + 1) = Start(Hour(Expiry(sig) - 1)) + HourTicks
    BY <2>2, HourFacts
  <2> QED
    BY <1>0, <2>2, <2>3
<1>6. f.closed \in f.created .. now
  BY <1>0, <1>1
<1>7. Earned(f)
  BY <1>1, <1>2, <1>4, <1>5, <1>6 DEF Earned
<1> QED
  BY <1>1, <1>7 DEF f

\* Without a touch a signal stays as it is, or expires as it should.
LEMMA UntouchedEarned ==
  ASSUME OutcomesTypes, NEW sig \in Row, NEW read \in Times, NEW seen \in 0 .. now, read <= seen,
         \A h \in Hours(sig, read, seen) : ~Touched(sig, h, seen), sig.sl # 0, sig.created <= read
  PROVE  \/ Untouched(sig, read, seen) = sig
         \/ \E e \in Nat, c \in Nat :
              /\ Untouched(sig, read, seen) = Fin(sig, "EXPIRED", e, c, read)
              /\ Untouched(sig, read, seen) \in Row /\ Earned(Untouched(sig, read, seen))
<1> DEFINE hours == Hours(sig, read, seen)
<1>0. /\ read \in Nat /\ seen \in Nat /\ sig.created \in Nat /\ HourTicks \in Nat \ {0} /\ Expiry(sig) \in Nat
      /\ sig.created <= Expiry(sig) /\ sig.entry \in Nat
  <2>1. Hold \in Nat /\ HourTicks \in Nat \ {0} /\ read \in Nat /\ seen \in Nat /\ sig.created \in Nat
    BY OutcomesAssumption, PassTimes
  <2>2. sig.entry \in Nat
    BY DEF Row
  <2> QED
    BY <2>1, <2>2 DEF Expiry
<1>1. CASE read < Expiry(sig) + HourTicks
  BY <1>1 DEF Untouched
<1>2. CASE ~(read < Expiry(sig) + HourTicks) /\ hours = {}
  <2>1. Untouched(sig, read, seen) = Fin(sig, "EXPIRED", sig.entry, Expiry(sig), read)
    BY <1>2 DEF Untouched
  <2>2. read >= Expiry(sig) + HourTicks
    BY <1>0, <1>2
  <2>3. Fin(sig, "EXPIRED", sig.entry, Expiry(sig), read) \in Row
        /\ Earned(Fin(sig, "EXPIRED", sig.entry, Expiry(sig), read))
    BY <1>0, <2>2, EarnedExpiry
  <2> QED
    BY <1>0, <2>1, <2>3
<1>3. CASE ~(read < Expiry(sig) + HourTicks) /\ hours # {}
  <2> DEFINE last == Max(hours)
  <2>1. last \in hours
    <3>1. Hour(sig.created) \in Int /\ Hour(seen) \in Int
      BY <1>0, HourFacts
    <3>2. IsFiniteSet(Hour(sig.created) .. Hour(seen)) /\ hours \subseteq Hour(sig.created) .. Hour(seen)
      BY <3>1, FS_Interval DEF Hours
    <3>3. IsFiniteSet(hours) /\ hours \subseteq Int
      BY <3>1, <3>2, FS_Subset
    <3> HIDE DEF hours
    <3> QED
      BY <1>3, <3>3, Extremes
  <2>2. last \in Nat /\ Hour(sig.created) <= last /\ Traded(last, seen) # {}
    BY <2>1, HoursFacts
  <2> HIDE DEF last
  <2>3. Close(last, seen) \in Nat
    BY <2>2, CandleFacts
  <2>4. Start(last + 1) \in Nat /\ sig.created <= Start(last + 1)
    BY <1>0, <2>2, NextHour
  <2>5. Untouched(sig, read, seen) = Fin(sig, "EXPIRED", Close(last, seen), Start(last + 1), read)
    BY <1>3 DEF Untouched, last
  <2>6. read >= Expiry(sig) + HourTicks
    BY <1>0, <1>3
  <2>7. Fin(sig, "EXPIRED", Close(last, seen), Start(last + 1), read) \in Row
        /\ Earned(Fin(sig, "EXPIRED", Close(last, seen), Start(last + 1), read))
    BY <2>3, <2>4, <2>6, EarnedExpiry
  <2> QED
    BY <2>3, <2>4, <2>5, <2>7
<1> QED
  BY <1>1, <1>2, <1>3

-----------------------------------------------------------------------------
(* Outcomes: time                                                          *)

\* What the ticks were does not change, and types hold at the next.
LEMMA TickFacts ==
  ASSUME OutcomesTypes, Tick
  PROVE  /\ now \in Nat /\ now' = now + 1 /\ OutcomesTypes'
         /\ \A k \in 0 .. now : Price(k)' = Price(k)
<1>0. now \in Nat /\ now' = now + 1 /\ now' \in Times /\ Times \subseteq Nat
  <2>1. MaxTime \in Nat
    BY OutcomesAssumption
  <2> QED
    BY <2>1 DEF OutcomesTypes, Times, Tick
<1>1. Hour(now) \in Nat /\ Hour(now') \in Nat /\ Len(market) = Hour(now) + 1 /\ market \in Seq(Shapes)
  BY <1>0, HourMonotone DEF OutcomesTypes
<1>2. CASE Hour(now') = Hour(now)
  <2>1. market' = market
    BY <1>2 DEF Tick
  <2>2. OutcomesTypes'
    BY <1>0, <1>1, <1>2, <2>1 DEF OutcomesTypes, Tick, Hour
  <2> QED
    BY <1>0, <2>1, <2>2 DEF Price
<1>3. CASE Hour(now') # Hour(now)
  <2>1. PICK h \in Shapes : market' = Append(market, h)
    BY <1>3 DEF Tick
  <2>2. market' \in Seq(Shapes) /\ Len(market') = Hour(now) + 2
        /\ \A i \in 1 .. Len(market) : market'[i] = market[i]
    BY <1>1, <2>1
  <2>3. Hour(now') = Hour(now) + 1
    <3>1. Hour(now) <= Hour(now')
      BY <1>0, HourMonotone
    <3>2. /\ Start(Hour(now)) \in Int /\ now < Start(Hour(now)) + HourTicks /\ HourTicks \in Nat \ {0}
          /\ Start(Hour(now) + 1) = Start(Hour(now)) + HourTicks
          /\ Start((Hour(now) + 1) + 1) = Start(Hour(now) + 1) + HourTicks
      <4>1. Hour(now) + 1 \in Int /\ now \in Int /\ Hour(now) \in Int
        BY <1>0, <1>1
      <4> QED
        BY <4>1, HourFacts, OutcomesAssumption
    <3>3. ~(Start((Hour(now) + 1) + 1) <= now')
      BY <1>0, <3>2
    <3>4. ~((Hour(now) + 1) + 1 <= Hour(now'))
      BY <1>0, <1>1, <3>3, HourOrder
    <3> QED
      BY <1>1, <1>3, <3>1, <3>4
  <2>4. OutcomesTypes'
    BY <1>0, <1>1, <2>2, <2>3 DEF OutcomesTypes, Tick, Hour
  <2>5. ASSUME NEW k \in 0 .. now PROVE Price(k)' = Price(k)
    <3>1. Hour(k) + 1 \in 1 .. Len(market)
      BY PriceType
    <3>2. market'[Hour(k) + 1] = market[Hour(k) + 1]
      BY <2>2, <3>1
    <3> QED
      BY <3>2 DEF Price, Hour
  <2> QED
    BY <1>0, <2>4, <2>5
<1> QED
  BY <1>2, <1>3

\* Ticks at which a signal was held stay so, and only the new tick can join them.
LEMMA HeldLater ==
  ASSUME OutcomesTypes, Tick, NEW sig \in Row
  PROVE  /\ \A k \in Stopped(sig) : k \in Stopped(sig)'
         /\ \A k \in Gained(sig) : k \in Gained(sig)'
         /\ \A k \in Stopped(sig)' : k \in Stopped(sig) \/ k = now + 1
         /\ \A k \in Gained(sig)' : k \in Gained(sig) \/ k = now + 1
         /\ \A k \in Stopped(sig)' \cup Gained(sig)' : Start(Hour(k)) < Expiry(sig)
<1>1. now \in Nat /\ now' = now + 1 /\ \A k \in 0 .. now : Price(k)' = Price(k)
  BY TickFacts
<1>2. From(sig) \in Nat
  <2>1. sig.created \in Nat
    BY OutcomesAssumption DEF Row, Times
  <2>2. Hour(sig.created) \in Nat
    BY <2>1, HourMonotone
  <2> QED
    BY <2>2, HourFacts DEF From
<1>3. \A k : k \in Held(sig) <=> k \in From(sig) .. now /\ Start(Hour(k)) < Expiry(sig) /\ Price(k) # Null
  BY DEF Held
<1>4. \A k : k \in Held(sig)' <=> k \in From(sig) .. now' /\ Start(Hour(k)) < Expiry(sig) /\ Price(k)' # Null
  BY DEF Held, From, Expiry, Start, Hour
<1>5. \A k \in Held(sig) : k \in 0 .. now /\ k \in Held(sig)' /\ Price(k)' = Price(k)
  BY <1>1, <1>2, <1>3, <1>4
<1>6. \A k \in Held(sig)' : (k \in Held(sig) /\ Price(k)' = Price(k)) \/ k = now + 1
  BY <1>1, <1>2, <1>3, <1>4
<1>7. /\ \A k : k \in Stopped(sig) <=> k \in Held(sig) /\ Stops(sig, Price(k))
      /\ \A k : k \in Gained(sig) <=> k \in Held(sig) /\ Gains(sig, Price(k))
  BY DEF Stopped, Gained
<1>8. /\ \A k : k \in Stopped(sig)' <=> k \in Held(sig)' /\ Stops(sig, Price(k)')
      /\ \A k : k \in Gained(sig)' <=> k \in Held(sig)' /\ Gains(sig, Price(k)')
  BY DEF Stopped, Gained, Stops, Gains
<1>9. \A k \in Stopped(sig)' \cup Gained(sig)' : Start(Hour(k)) < Expiry(sig)
  BY <1>4, <1>8
<1> QED
  BY <1>5, <1>6, <1>7, <1>8, <1>9

\* An open stays one.
LEMMA OpenLater ==
  ASSUME OutcomesTypes, Tick, NEW sig \in Row, NEW j \in 0 .. now
  PROVE  AtOpen(sig, j)' <=> AtOpen(sig, j)
<1>1. now \in Nat /\ \A k \in 0 .. now : Price(k)' = Price(k)
  BY TickFacts
<1>2. Start(Hour(j)) \in Nat
  <2>1. j \in Nat
    BY <1>1
  <2> QED
    BY <2>1, HourMonotone, HourFacts
<1>3. \A i \in Start(Hour(j)) .. j - 1 : i \in 0 .. now
  BY <1>1, <1>2
<1>4. \A i \in Start(Hour(j)) .. j - 1 : Price(i)' = Price(i)
  BY <1>1, <1>3
<1>5. AtOpen(sig, j)' <=> Start(Hour(j)) >= sig.created /\ \A i \in Start(Hour(j)) .. j - 1 : Price(i)' = Null
  BY DEF AtOpen, Start, Hour
<1> QED
  BY <1>4, <1>5 DEF AtOpen

\* What was earned stays earned, whatever the market does next.
LEMMA EarnedLater ==
  ASSUME OutcomesTypes, Tick, NEW sig \in Row, Earned(sig)
  PROVE  Earned(sig)'
<1>1. now \in Nat /\ now' = now + 1
  BY TickFacts
<1>2. sig.closed \in sig.created .. now'
  <2>1. sig.created \in Nat /\ sig.closed \in sig.created .. now
    BY OutcomesAssumption DEF Earned, Row, Times
  <2> QED
    BY <1>1, <2>1
<1>3. \A k \in Held(sig) : k \in 0 .. now /\ Hour(k) \in Nat
  BY HeldFacts
<1>4. \A k \in 0 .. now : Hour(now + 1) >= Hour(k) /\ now + 1 > k
  <2>1. \A k \in 0 .. now : k \in Int /\ k <= now + 1 /\ now + 1 \in Int /\ now + 1 > k
    BY <1>1
  <2>2. \A k \in 0 .. now : Hour(k) \in Int /\ Hour(now + 1) \in Int /\ Hour(k) <= Hour(now + 1)
    BY <2>1, HourMonotone, HourFacts
  <2> QED
    BY <2>1, <2>2
<1>5. ASSUME sig.outcome = "SL"
      PROVE  /\ \E k \in Stopped(sig)' : \A j \in Gained(sig)' :
                  Hour(j) >= Hour(k) /\ (Hour(j) = Hour(k) => ~AtOpen(sig, j)')
             /\ Pnl(sig, sig.exit) < 0 /\ Stops(sig, sig.exit)
  <2>1. PICK k \in Stopped(sig) : \A j \in Gained(sig) : Hour(j) >= Hour(k) /\ (Hour(j) = Hour(k) => ~AtOpen(sig, j))
    BY <1>5 DEF Earned
  <2>2. k \in 0 .. now /\ Price(k) # Null
    BY <1>3, <2>1 DEF Stopped, Held
  <2>3. k \in Stopped(sig)' /\ \A j \in Gained(sig)' : Hour(j) >= Hour(k)
    BY <1>4, <2>1, <2>2, HeldLater
  <2>4. ASSUME NEW j \in Gained(sig)', Hour(j) = Hour(k), AtOpen(sig, j)' PROVE FALSE
    <3>1. CASE j \in Gained(sig)
      <4>1. j \in 0 .. now
        BY <1>3, <3>1 DEF Gained
      <4> QED
        BY <2>1, <2>4, <3>1, <4>1, OpenLater
    <3>2. CASE j = now + 1
      <4>1. k \in Int /\ Start(Hour(k)) \in Int /\ Start(Hour(k)) <= k /\ k <= now
        <5>1. k \in Int /\ k <= now
          BY <1>1, <2>2
        <5> QED
          BY <5>1, HourFacts
      <4>2. k \in Start(Hour(j)) .. j - 1
        BY <1>1, <2>4, <3>2, <4>1
      <4>3. Price(k)' = Null
        BY <2>4, <4>2 DEF AtOpen, Start, Hour
      <4> QED
        BY <2>2, <4>3, TickFacts
    <3> QED
      BY <3>1, <3>2, HeldLater
  <2> QED
    BY <1>5, <2>3, <2>4 DEF Earned
<1>6. ASSUME sig.outcome = "TP"
      PROVE  /\ \E k \in Gained(sig)' : \A j \in Stopped(sig)' :
                  j > k /\ (Hour(j) = Hour(k) => sig.closed < Start(Hour(k) + 1))
             /\ Pnl(sig, sig.exit) > 0 /\ Gains(sig, sig.exit)
  <2>1. PICK k \in Gained(sig) : \A j \in Stopped(sig) : j > k /\ (Hour(j) = Hour(k) => sig.closed < Start(Hour(k) + 1))
    BY <1>6 DEF Earned
  <2>2. k \in 0 .. now
    BY <1>3, <2>1 DEF Gained
  <2>3. k \in Gained(sig)' /\ \A j \in Stopped(sig)' : j > k
    BY <1>4, <2>1, <2>2, HeldLater
  <2>4. Hour(now + 1) = Hour(k) => sig.closed < Start(Hour(k) + 1)
    <3>1. sig.created \in Nat /\ sig.closed \in sig.created .. now
      BY OutcomesAssumption DEF Earned, Row, Times
    <3>2. now + 1 \in Int /\ Hour(now + 1) \in Int
      BY <1>1, HourFacts
    <3>3. Hour(now + 1) + 1 \in Int /\ ~(Hour(now + 1) + 1 <= Hour(now + 1))
      BY <3>2
    <3>4. Start(Hour(now + 1) + 1) \in Int /\ ~(Start(Hour(now + 1) + 1) <= now + 1)
      BY <3>2, <3>3, HourOrder, HourFacts
    <3> QED
      BY <1>1, <3>1, <3>4
  <2>5. \A j \in Stopped(sig)' : Hour(j) = Hour(k) => sig.closed < Start(Hour(k) + 1)
    BY <2>1, <2>4, HeldLater
  <2> QED
    BY <1>6, <2>3, <2>5 DEF Earned
<1>7. ASSUME sig.outcome = "EXPIRED"
      PROVE  now' >= Start(Hour(Expiry(sig) - 1) + 1) /\ Stopped(sig)' = {} /\ Gained(sig)' = {}
  <2> DEFINE last == Hour(Expiry(sig) - 1)
  <2>1. Expiry(sig) \in Nat
    BY OutcomesAssumption DEF Row, Times, Expiry
  <2>2. last \in Int /\ last + 1 \in Int /\ Start(last + 1) \in Int
    <3>1. Expiry(sig) - 1 \in Int
      BY <2>1
    <3>2. last \in Int /\ last + 1 \in Int
      BY <3>1, HourFacts
    <3> QED
      BY <3>2, HourFacts
  <2>3. now >= Start(last + 1) /\ Stopped(sig) = {} /\ Gained(sig) = {}
    BY <1>7 DEF Earned
  <2>4. ~(Start(Hour(now + 1)) < Expiry(sig))
    <3>1. Hour(now + 1) \in Int /\ Start(Hour(now + 1)) \in Int /\ now + 1 \in Int
      BY <1>1, HourFacts
    <3>2. last + 1 <= Hour(now + 1)
      BY <1>1, <2>2, <2>3, <3>1, HourOrder
    <3>3. ~(Hour(now + 1) <= last)
      BY <2>2, <3>1, <3>2
    <3>4. ~(Start(Hour(now + 1)) <= Expiry(sig) - 1)
      BY <2>1, <3>1, <3>3, HourOrder
    <3> QED
      BY <2>1, <3>1, <3>4
  <2>5. Stopped(sig)' = {} /\ Gained(sig)' = {}
    BY <2>3, <2>4, HeldLater
  <2> QED
    BY <1>1, <2>2, <2>3, <2>5
<1>8. sig.outcome = "INVALID" <=> sig.sl = 0
  BY DEF Earned
<1>9. /\ Pnl(sig, sig.exit)' = Pnl(sig, sig.exit) /\ Stops(sig, sig.exit)' = Stops(sig, sig.exit)
      /\ Gains(sig, sig.exit)' = Gains(sig, sig.exit)
      /\ \A j : Hour(j)' = Hour(j) /\ Start(j)' = Start(j)
      /\ Expiry(sig)' = Expiry(sig)
  BY DEF Pnl, Stops, Gains, Expiry, Start, Hour
<1> QED
  BY <1>2, <1>5, <1>6, <1>7, <1>8, <1>9 DEF Earned

\* Without a tick nothing is earned or lost.
LEMMA EarnedSame ==
  ASSUME UNCHANGED <<now, market>>, NEW sig
  PROVE  Earned(sig)' <=> Earned(sig)
<1>1. now' = now /\ market' = market
  OBVIOUS
<1>2. \A k : Price(k)' = Price(k)
  BY <1>1 DEF Price, Hour
<1>3. Held(sig)' = Held(sig)
  BY <1>1, <1>2 DEF Held, From, Expiry, Start, Hour
<1>4. Stopped(sig)' = Stopped(sig) /\ Gained(sig)' = Gained(sig)
  BY <1>2, <1>3 DEF Stopped, Gained, Stops, Gains
<1>5. \A j : AtOpen(sig, j)' <=> AtOpen(sig, j)
  BY <1>2 DEF AtOpen, Start, Hour
<1> QED
  BY <1>1, <1>4, <1>5 DEF Earned, Pnl, Stops, Gains, Expiry, Start, Hour

-----------------------------------------------------------------------------
(* Outcomes: the steps                                                     *)

\* Time passes.
LEMMA TickKeeps ==
  ASSUME OutcomesInv, Tick
  PROVE  OutcomesInv'
<1>1. OutcomesTypes /\ OutcomesTypes' /\ now \in Nat /\ now' = now + 1 /\ signals' = signals /\ pass' = pass
  BY TickFacts DEF OutcomesInv, OutcomeFollowsHours, Tick
<1>2. ASSUME NEW s \in Signals, signals[s] # Null, signals[s].outcome # Null PROVE Earned(signals[s])'
  <2> DEFINE sig == signals[s]
  <2>1. sig \in Row /\ Earned(sig)
    BY <1>1, <1>2 DEF OutcomesInv, OutcomeFollowsHours, OutcomesTypes
  <2>2. \A x \in Row : Earned(x) => Earned(x)'
    BY <1>1, EarnedLater
  <2> QED
    BY <1>1, <2>1, <2>2
<1>3. OutcomeFollowsHours'
  BY <1>1, <1>2 DEF OutcomeFollowsHours
<1>4. SignalInv'
  <2>1. \A s \in Signals : signals[s] # Null => signals[s].created \in Nat
    BY <1>1, OutcomesAssumption DEF OutcomesTypes, Row, Times
  <2> QED
    BY <1>1, <2>1 DEF OutcomesInv, SignalInv, Between
<1>5. PassInv'
  <2>1. pass # NoPass => pass.read \in Nat /\ (pass.seen # Null => pass.seen \in Nat)
    BY <1>1, OutcomesAssumption DEF OutcomesInv, PassInv, OutcomesTypes, Times
  <2> QED
    BY <1>1, <2>1 DEF OutcomesInv, PassInv, NoPass
<1> QED
  BY <1>3, <1>4, <1>5 DEF OutcomesInv

\* A step that changes one row, for one created when it was, keeps what the others earned.
LEMMA RowKeeps ==
  ASSUME OutcomesInv, UNCHANGED <<now, market>>, NEW s \in Signals, NEW row \in Row,
         signals' = [signals EXCEPT ![s] = row],
         row.outcome # Null => Earned(row),
         row.created <= now, row.sl # 0 => Between(row),
         [side |-> row.side, missing |-> row.sl = 0] \in Kinds[s],
         pass' \in [read : Times \cup {Null}, todo : Seq(Signals), seen : Times \cup {Null}]
  PROVE  OutcomeFollowsHours' /\ SignalInv'
<1>1. now' = now /\ market' = market /\ OutcomesTypes
  BY DEF OutcomesInv, OutcomeFollowsHours
<1>2. signals' \in [Signals -> Row \cup {Null}] /\ signals'[s] = row /\ \A t \in Signals \ {s} : signals'[t] = signals[t]
  BY <1>1 DEF OutcomesTypes
<1>3. OutcomesTypes'
  <2>1. \A t \in Signals : signals'[t] # Null => [side |-> signals'[t].side, missing |-> signals'[t].sl = 0] \in Kinds[t]
    <3>1. ASSUME NEW t \in Signals, signals'[t] # Null
          PROVE  [side |-> signals'[t].side, missing |-> signals'[t].sl = 0] \in Kinds[t]
      <4>1. CASE t = s
        BY <1>2, <4>1
      <4>2. CASE t # s
        <5>1. signals'[t] = signals[t]
          BY <1>2, <4>2
        <5> QED
          BY <1>1, <3>1, <5>1 DEF OutcomesTypes
      <4> QED
        BY <4>1, <4>2
    <3> QED
      BY <3>1
  <2>2. Hour(now)' = Hour(now)
    BY <1>1 DEF Hour
  <2> QED
    BY <1>1, <1>2, <2>1, <2>2 DEF OutcomesTypes
<1>4. \A x : Earned(x)' <=> Earned(x)
  BY EarnedSame
<1>5. ASSUME NEW t \in Signals, signals'[t] # Null, signals'[t].outcome # Null PROVE Earned(signals[t])'
  <2>1. Earned(signals'[t])
    <3>1. CASE t = s
      BY <1>2, <1>5, <3>1
    <3>2. CASE t # s
      <4>1. signals'[t] = signals[t]
        BY <1>2, <3>2
      <4> QED
        BY <1>5, <4>1 DEF OutcomesInv, OutcomeFollowsHours
    <3> QED
      BY <3>1, <3>2
  <2> QED
    BY <1>4, <2>1
<1>6. SignalInv'
  BY <1>1, <1>2 DEF OutcomesInv, SignalInv, Between
<1> QED
  BY <1>3, <1>5, <1>6 DEF OutcomeFollowsHours

\* The last price is a number above one.
LEMMA LastPriceType ==
  ASSUME OutcomesTypes
  PROVE  LastPrice \in Nat \ {0, 1}
<1> DEFINE traded == {k \in 0 .. now : Price(k) # Null}
<1>1. now \in Nat /\ LastClose \in Nat \ {0, 1}
  BY OutcomesAssumption DEF OutcomesTypes, Times
<1>2. IsFiniteSet(traded) /\ traded \subseteq Int
  <2>1. IsFiniteSet(0 .. now) /\ traded \subseteq 0 .. now
    BY <1>1, FS_Interval
  <2> QED
    BY <1>1, <2>1, FS_Subset
<1>3. CASE traded = {}
  BY <1>1, <1>3 DEF LastPrice
<1>4. CASE traded # {}
  <2>1. Max(traded) \in traded
    <3> HIDE DEF traded
    <3> QED
      BY <1>2, <1>4, Extremes
  <2>2. Price(Max(traded)) \in Nat \ {0, 1}
    BY <2>1, PriceType
  <2>3. LastPrice = Price(Max(traded))
    BY <1>4 DEF LastPrice
  <2> QED
    BY <2>2, <2>3
<1> QED
  BY <1>3, <1>4

\* A scan adds a signal.
LEMMA CreateKeeps ==
  ASSUME OutcomesInv, NEW s \in Signals, Create(s)
  PROVE  OutcomesInv'
<1>1. OutcomesTypes /\ now' = now /\ market' = market /\ pass' = pass /\ signals[s] = Null
  BY DEF OutcomesInv, OutcomeFollowsHours, Create
<1>2. now \in Nat /\ now \in Times
  BY <1>1, OutcomesAssumption DEF OutcomesTypes, Times
<1>3. LastPrice \in Nat \ {0, 1}
  BY <1>1, LastPriceType
<1> DEFINE risk(kind) == IF kind.side = "BUY" THEN -1 ELSE 1
           row(kind) == [side |-> kind.side, entry |-> LastPrice, sl |-> IF kind.missing THEN 0 ELSE LastPrice + risk(kind),
                         tp |-> LastPrice - risk(kind), created |-> now, outcome |-> Null, exit |-> Null, closed |-> Null]
<1>4. PICK kind \in Kinds[s] : signals' = [signals EXCEPT ![s] = row(kind)]
  BY DEF Create
<1>5. kind \in [side : {"BUY", "SELL"}, missing : BOOLEAN]
  BY <1>4, OutcomesAssumption
<1> DEFINE r == row(kind)
<1>6. /\ r.side = kind.side /\ r.entry = LastPrice /\ r.created = now /\ r.outcome = Null
      /\ r.tp = LastPrice - risk(kind) /\ r.sl = IF kind.missing THEN 0 ELSE LastPrice + risk(kind)
  OBVIOUS
<1>7. risk(kind) \in {-1, 1} /\ kind.side \in {"BUY", "SELL"} /\ kind.missing \in BOOLEAN
  BY <1>5
<1>8. LastPrice - risk(kind) \in Nat /\ LastPrice + risk(kind) \in Nat \ {0}
  BY <1>3, <1>7
<1>9. r \in Row
  BY <1>2, <1>3, <1>7, <1>8 DEF Row
<1>10. r.sl # 0 => Between(r)
  BY <1>3, <1>5, <1>6 DEF Between
<1>11. (r.sl = 0) = kind.missing
  BY <1>6, <1>7, <1>8
<1>12. [side |-> r.side, missing |-> r.sl = 0] \in Kinds[s]
  <2>1. [side |-> r.side, missing |-> r.sl = 0] = kind
    BY <1>5, <1>6, <1>11
  <2> QED
    BY <1>4, <2>1
<1>13. signals' = [signals EXCEPT ![s] = r]
  BY <1>4
<1>14. pass' \in [read : Times \cup {Null}, todo : Seq(Signals), seen : Times \cup {Null}]
  BY <1>1 DEF OutcomesTypes
<1>15. r.created <= now /\ r.outcome = Null
  BY <1>2, <1>6
<1> HIDE DEF r
<1>16. OutcomeFollowsHours' /\ SignalInv'
  BY <1>1, <1>9, <1>10, <1>12, <1>13, <1>14, <1>15, RowKeeps
<1>17. PassInv'
  <2>1. ASSUME pass # NoPass, NEW i \in DOMAIN pass.todo
        PROVE  signals'[pass.todo[i]] # Null /\ signals'[pass.todo[i]].created <= pass.read
    <3>1. signals[pass.todo[i]] # Null /\ signals[pass.todo[i]].created <= pass.read
      BY <2>1 DEF OutcomesInv, PassInv
    <3>2. pass.todo[i] \in Signals /\ pass.todo[i] # s
      BY <1>1, <3>1 DEF OutcomesTypes
    <3>3. signals'[pass.todo[i]] = signals[pass.todo[i]]
      BY <1>1, <1>13, <3>2 DEF OutcomesTypes
    <3> QED
      BY <3>1, <3>3
  <2> QED
    BY <1>1, <2>1 DEF OutcomesInv, PassInv, NoPass
<1> QED
  BY <1>16, <1>17 DEF OutcomesInv

\* A step that leaves the signals and the market alone keeps what was earned.
LEMMA QuietKeeps ==
  ASSUME OutcomesInv, UNCHANGED <<now, market, signals>>,
         pass' \in [read : Times \cup {Null}, todo : Seq(Signals), seen : Times \cup {Null}]
  PROVE  OutcomeFollowsHours' /\ SignalInv'
<1>1. now' = now /\ market' = market /\ signals' = signals
  OBVIOUS
<1>2. OutcomesTypes'
  BY <1>1 DEF OutcomesInv, OutcomeFollowsHours, OutcomesTypes, Hour
<1>3. \A x : Earned(x)' <=> Earned(x)
  BY EarnedSame
<1>4. OutcomeFollowsHours'
  BY <1>1, <1>2, <1>3 DEF OutcomesInv, OutcomeFollowsHours
<1>5. SignalInv'
  BY <1>1 DEF OutcomesInv, SignalInv, Between
<1> QED
  BY <1>4, <1>5

\* The pass that is none has the type of one.
LEMMA NoPassType == NoPass \in [read : Times \cup {Null}, todo : Seq(Signals), seen : Times \cup {Null}]
  BY DEF NoPass

\* A pass fails.
LEMMA PassFailsKeeps ==
  ASSUME OutcomesInv, PassFails
  PROVE  OutcomesInv'
<1>1. OutcomeFollowsHours' /\ SignalInv'
  BY QuietKeeps, NoPassType DEF PassFails
<1>2. PassInv'
  BY DEF PassFails, PassInv, NoPass
<1> QED
  BY <1>1, <1>2 DEF OutcomesInv

\* A pass reads the open signals.
LEMMA resolveOpenSignalsKeeps ==
  ASSUME OutcomesInv, resolveOpenSignals
  PROVE  OutcomesInv'
<1> DEFINE n == Min({Limit, Cardinality(OpenRows)})
<1>1. OutcomesTypes /\ now \in Times /\ now \in Nat /\ now' = now /\ market' = market /\ signals' = signals /\ OpenRows # {}
  BY OutcomesAssumption DEF OutcomesInv, OutcomeFollowsHours, OutcomesTypes, Times, resolveOpenSignals
<1>2. PICK order \in [1 .. n -> OpenRows] : pass' = [read |-> now, todo |-> order, seen |-> Null]
  BY DEF resolveOpenSignals
<1>3. n \in Nat \ {0}
  <2>1. IsFiniteSet(OpenRows)
    BY OutcomesAssumption, FS_Subset DEF OpenRows
  <2>2. Cardinality(OpenRows) \in Nat /\ Cardinality(OpenRows) # 0
    BY <1>1, <2>1, FS_CardinalityType, FS_EmptySet
  <2>3. Limit \in Nat \ {0}
    BY OutcomesAssumption
  <2>4. IsFiniteSet({Limit, Cardinality(OpenRows)})
    <3>1. {Limit, Cardinality(OpenRows)} = {Limit} \cup {Cardinality(OpenRows)} /\ IsFiniteSet({Limit})
      BY FS_Singleton
    <3> QED
      BY <3>1, FS_AddElement
  <2>5. n \in {Limit, Cardinality(OpenRows)}
    BY <2>2, <2>3, <2>4, Extremes
  <2> QED
    BY <2>2, <2>3, <2>5
<1> HIDE DEF n
<1>4. OpenRows \subseteq Signals /\ \A s \in OpenRows : signals[s] # Null
  BY DEF OpenRows
<1>5. order \in Seq(Signals) /\ DOMAIN order = 1 .. n /\ order # <<>>
  <2>1. DOMAIN order = 1 .. n /\ 1 \in DOMAIN order /\ order \in [1 .. n -> Signals]
    BY <1>2, <1>3, <1>4
  <2>2. order \in Seq(Signals) /\ DOMAIN order = 1 .. Len(order) /\ Len(order) \in Nat
    BY <1>3, <2>1
  <2>3. 1 \in 1 .. Len(order)
    BY <2>1, <2>2, Zenon
  <2>4. Len(order) # 0
    BY <2>2, <2>3
  <2> QED
    BY <2>1, <2>2, <2>4
<1>6. pass' \in [read : Times \cup {Null}, todo : Seq(Signals), seen : Times \cup {Null}]
  BY <1>1, <1>2, <1>5
<1>7. OutcomeFollowsHours' /\ SignalInv'
  BY <1>1, <1>6, QuietKeeps
<1>8. PassInv'
  <2>1. \A i \in DOMAIN order : order[i] \in Signals /\ signals[order[i]] # Null /\ signals[order[i]].created <= now
    BY <1>2, <1>4, <1>5 DEF OutcomesInv, SignalInv
  <2>2. pass'.read = now /\ pass'.todo = order /\ pass'.seen = Null
    BY <1>2
  <2> QED
    BY <1>1, <1>5, <2>1, <2>2 DEF PassInv
<1> QED
  BY <1>7, <1>8 DEF OutcomesInv

\* The candles arrive.
LEMMA FetchCandlesKeeps ==
  ASSUME OutcomesInv, FetchCandles
  PROVE  OutcomesInv'
<1>1. OutcomesTypes /\ now \in Times /\ now \in Nat /\ now' = now /\ market' = market /\ signals' = signals /\ pass # NoPass
  BY OutcomesAssumption DEF OutcomesInv, OutcomeFollowsHours, OutcomesTypes, Times, FetchCandles
<1>2. /\ pass' \in [read : Times \cup {Null}, todo : Seq(Signals), seen : Times \cup {Null}]
      /\ pass'.read = pass.read /\ pass'.todo = pass.todo /\ pass'.seen = now
  BY <1>1 DEF OutcomesTypes, FetchCandles
<1>3. OutcomeFollowsHours' /\ SignalInv'
  BY <1>1, <1>2, QuietKeeps
<1>4. PassInv'
  BY <1>1, <1>2 DEF OutcomesInv, PassInv
<1> QED
  BY <1>3, <1>4 DEF OutcomesInv

\* What a decision does to its signal: nothing, or it closes it with an outcome it earned.
LEMMA Decision ==
  ASSUME OutcomesInv, pass # NoPass, pass.seen # Null, NEW s \in Signals, signals[s] # Null,
         signals[s].created <= pass.read, resolveOutcome(s)
  PROVE  \/ signals' = signals
         \/ \E o \in {"SL", "TP", "EXPIRED", "INVALID"}, e \in Nat \cup {Null}, c \in Nat :
              LET row == Fin(signals[s], o, e, c, pass.read) IN
              signals' = [signals EXCEPT ![s] = row] /\ row \in Row /\ Earned(row)
<1> DEFINE sig == signals[s]
<1> DEFINE read == pass.read
<1> DEFINE seen == pass.seen
<1>1. OutcomesTypes /\ sig \in Row
  BY DEF OutcomesInv, OutcomeFollowsHours, OutcomesTypes
<1>2. now \in Nat /\ read \in Times /\ read \in Nat /\ read <= seen /\ seen <= now /\ seen \in Nat /\ read <= now
  BY <1>1, OutcomesAssumption DEF OutcomesInv, PassInv, OutcomesTypes, Times
<1>3. seen \in 0 .. now /\ sig.created <= read /\ sig.created \in Nat
  BY <1>1, <1>2, PassTimes
<1>4. sig.sl # 0 => Between(sig)
  BY DEF OutcomesInv, SignalInv
<1>5. CASE sig.sl = 0 /\ signals' = [signals EXCEPT ![s] = Fin(@, "INVALID", Null, read, read)]
  <2> DEFINE f == Fin(sig, "INVALID", Null, read, read)
  <2>1. f \in Row /\ f.sl = 0 /\ f.created = sig.created /\ f.outcome = "INVALID" /\ f.closed = read
    BY <1>1, <1>2, <1>5, InvalidFacts
  <2>2. signals' = [signals EXCEPT ![s] = f]
    BY <1>5
  <2> HIDE DEF f
  <2>3. Earned(f)
    BY <1>2, <1>3, <2>1 DEF Earned
  <2> QED
    BY <1>2, <2>1, <2>2, <2>3 DEF f
<1>6. CASE /\ sig.sl # 0
           /\ \E h \in Hours(sig, read, seen) :
                /\ Touched(sig, h, seen) /\ \A g \in Hours(sig, read, seen) : g < h => ~Touched(sig, g, seen)
                /\ signals' = [signals EXCEPT ![s] = ClosedBy(@, h, read, seen)]
  <2>1. PICK h \in Hours(sig, read, seen) :
          /\ Touched(sig, h, seen) /\ \A g \in Hours(sig, read, seen) : g < h => ~Touched(sig, g, seen)
          /\ signals' = [signals EXCEPT ![s] = ClosedBy(@, h, read, seen)]
    BY <1>6
  <2>2. ClosedBy(sig, h, read, seen) \in Row /\ Earned(ClosedBy(sig, h, read, seen))
    BY <1>1, <1>2, <1>3, <1>4, <1>6, <2>1, ClosedEarned
  <2>3. \E o \in {"SL", "TP"}, e \in Nat, c \in Nat : ClosedBy(sig, h, read, seen) = Fin(sig, o, e, c, read)
    <3>1. h \in Nat /\ Traded(h, seen) # {}
      BY <1>1, <1>2, <1>3, HoursFacts
    <3>2. Start(h) \in Nat /\ Start(h + 1) \in Nat
      <4>1. h + 1 \in Nat
        BY <3>1
      <4> QED
        BY <3>1, <4>1, HourFacts
    <3>3. Open(h, seen) \in Nat
      BY <1>1, <1>3, <3>1, CandleFacts, TradedFacts
    <3>4. sig.sl \in Nat /\ sig.tp \in Nat
      BY <1>1 DEF Row
    <3> QED
      BY <3>2, <3>3, <3>4 DEF ClosedBy
  <2>4. signals' = [signals EXCEPT ![s] = ClosedBy(sig, h, read, seen)]
    BY <2>1
  <2> QED
    BY <2>2, <2>3, <2>4
<1>7. CASE /\ sig.sl # 0 /\ \A h \in Hours(sig, read, seen) : ~Touched(sig, h, seen)
           /\ signals' = [signals EXCEPT ![s] = Untouched(@, read, seen)]
  <2>1. signals' = [signals EXCEPT ![s] = Untouched(sig, read, seen)]
    BY <1>7
  <2>2. \/ Untouched(sig, read, seen) = sig
        \/ \E e \in Nat, c \in Nat :
             /\ Untouched(sig, read, seen) = Fin(sig, "EXPIRED", e, c, read)
             /\ Untouched(sig, read, seen) \in Row /\ Earned(Untouched(sig, read, seen))
    BY <1>1, <1>2, <1>3, <1>7, UntouchedEarned
  <2>3. CASE Untouched(sig, read, seen) = sig
    BY <1>1, <2>1, <2>3 DEF OutcomesTypes
  <2>4. CASE \E e \in Nat, c \in Nat :
               /\ Untouched(sig, read, seen) = Fin(sig, "EXPIRED", e, c, read)
               /\ Untouched(sig, read, seen) \in Row /\ Earned(Untouched(sig, read, seen))
    BY <2>1, <2>4
  <2> QED
    BY <2>2, <2>3, <2>4
<1> QED
  BY <1>5, <1>6, <1>7 DEF resolveOutcome

\* One signal of the pass is decided.
LEMMA ResolveNextKeeps ==
  ASSUME OutcomesInv, ResolveNext
  PROVE  OutcomesInv'
<1> DEFINE s == Head(pass.todo)
           PassTypes == [read : Times \cup {Null}, todo : Seq(Signals), seen : Times \cup {Null}]
<1>1. OutcomesTypes /\ pass \in PassTypes /\ pass.seen # Null /\ now' = now /\ market' = market
  BY DEF OutcomesInv, OutcomeFollowsHours, OutcomesTypes, ResolveNext
<1>2. pass # NoPass
  BY <1>1 DEF NoPass
<1>3. /\ pass.todo \in Seq(Signals) /\ pass.todo # <<>> /\ pass.read <= now /\ pass.read <= pass.seen /\ pass.seen <= now
      /\ \A i \in DOMAIN pass.todo : signals[pass.todo[i]] # Null /\ signals[pass.todo[i]].created <= pass.read
  BY <1>1, <1>2 DEF OutcomesInv, PassInv
<1>4. s \in Signals /\ signals[s] # Null /\ signals[s].created <= pass.read
  BY <1>3
<1>5. signals[s] \in Row
  BY <1>1, <1>4 DEF OutcomesTypes
<1>6. pass' \in PassTypes
  <2>1. CASE Len(pass.todo) = 1
    BY <2>1, NoPassType DEF ResolveNext
  <2>2. CASE Len(pass.todo) # 1
    <3>1. Tail(pass.todo) \in Seq(Signals)
      BY <1>3
    <3> QED
      BY <1>1, <2>2, <3>1 DEF ResolveNext
  <2> QED
    BY <2>1, <2>2
<1>7. \/ signals' = signals
      \/ \E o \in {"SL", "TP", "EXPIRED", "INVALID"}, e \in Nat \cup {Null}, c \in Nat :
           LET row == Fin(signals[s], o, e, c, pass.read) IN
           signals' = [signals EXCEPT ![s] = row] /\ row \in Row /\ Earned(row)
  <2>1. resolveOutcome(s)
    BY DEF ResolveNext
  <2> HIDE DEF s
  <2> QED
    BY <1>1, <1>2, <1>4, <2>1, Decision
<1> HIDE DEF s, PassTypes
<1>8. /\ OutcomeFollowsHours' /\ SignalInv'
      /\ \A t \in Signals : signals[t] # Null => signals'[t] # Null /\ signals'[t].created = signals[t].created
  <2>1. CASE signals' = signals
    BY <1>1, <1>6, <2>1, QuietKeeps DEF PassTypes
  <2>2. CASE \E o \in {"SL", "TP", "EXPIRED", "INVALID"}, e \in Nat \cup {Null}, c \in Nat :
               LET row == Fin(signals[s], o, e, c, pass.read) IN
               signals' = [signals EXCEPT ![s] = row] /\ row \in Row /\ Earned(row)
    <3>1. PICK o \in {"SL", "TP", "EXPIRED", "INVALID"}, e \in Nat \cup {Null}, c \in Nat :
            LET row == Fin(signals[s], o, e, c, pass.read) IN
            signals' = [signals EXCEPT ![s] = row] /\ row \in Row /\ Earned(row)
      BY <2>2
    <3> DEFINE row == Fin(signals[s], o, e, c, pass.read)
    <3>2. signals' = [signals EXCEPT ![s] = row] /\ row \in Row /\ Earned(row)
      BY <3>1
    <3>3. pass.read \in Times
      BY <1>2 DEF OutcomesInv, PassInv
    <3>4. row.side = signals[s].side /\ row.entry = signals[s].entry /\ row.sl = signals[s].sl
          /\ row.tp = signals[s].tp /\ row.created = signals[s].created
      BY <1>5, FinSame
    <3> HIDE DEF row
    <3>5. row.created <= now /\ (row.sl # 0 => Between(row))
      BY <1>4, <3>4 DEF OutcomesInv, SignalInv, Between
    <3>6. [side |-> row.side, missing |-> row.sl = 0] \in Kinds[s]
      BY <1>1, <1>4, <3>4 DEF OutcomesTypes
    <3>7. OutcomeFollowsHours' /\ SignalInv'
      BY <1>1, <1>4, <1>6, <3>2, <3>5, <3>6, RowKeeps DEF PassTypes
    <3>8. \A t \in Signals : signals[t] # Null => signals'[t] # Null /\ signals'[t].created = signals[t].created
      BY <1>1, <1>4, <3>2, <3>4, NoRowAssumption DEF OutcomesTypes
    <3> QED
      BY <3>7, <3>8
  <2> QED
    BY <1>7, <2>1, <2>2
<1>9. PassInv'
  <2>1. CASE Len(pass.todo) = 1
    BY <2>1 DEF ResolveNext, PassInv
  <2>2. CASE Len(pass.todo) # 1
    <3> DEFINE rest == Tail(pass.todo)
    <3>1. pass' = [pass EXCEPT !.todo = rest]
      BY <2>2 DEF ResolveNext
    <3>2. pass'.read = pass.read /\ pass'.seen = pass.seen /\ pass'.todo = rest
      BY <1>1, <3>1 DEF PassTypes
    <3>3. /\ rest \in Seq(Signals) /\ rest # <<>>
          /\ \A i \in DOMAIN rest : i + 1 \in DOMAIN pass.todo /\ rest[i] = pass.todo[i + 1] /\ rest[i] \in Signals
      <4>1. rest \in Seq(Signals) /\ Len(rest) = Len(pass.todo) - 1 /\ Len(pass.todo) \in Nat \ {0}
        BY <1>3
      <4>2. rest # <<>>
        <5> HIDE DEF rest
        <5>1. Len(rest) # 0
          BY <2>2, <4>1
        <5> QED
          BY <5>1
      <4>3. ASSUME NEW i \in DOMAIN rest
            PROVE  i + 1 \in DOMAIN pass.todo /\ rest[i] = pass.todo[i + 1] /\ rest[i] \in Signals
        BY <1>3, <4>1
      <4> QED
        BY <4>1, <4>2, <4>3
    <3> HIDE DEF rest
    <3>4. \A i \in DOMAIN rest : signals'[rest[i]] # Null /\ signals'[rest[i]].created <= pass.read
      BY <1>3, <1>8, <3>3
    <3>5. pass.read \in Times /\ (pass.seen # Null => pass.read <= pass.seen /\ pass.seen <= now)
      BY <1>2 DEF OutcomesInv, PassInv
    <3> QED
      BY <1>1, <1>3, <3>2, <3>3, <3>4, <3>5 DEF PassInv
  <2> QED
    BY <2>1, <2>2
<1> QED
  BY <1>8, <1>9 DEF OutcomesInv

\* The invariant holds at the start.
LEMMA OutcomesStarts == OutcomesInit => OutcomesInv
<1> SUFFICES ASSUME OutcomesInit PROVE OutcomesInv
  OBVIOUS
<1>1. now = 0 /\ signals = [s \in Signals |-> Null] /\ pass = NoPass
  BY DEF OutcomesInit
<1>2. PICK h \in Shapes : market = <<h>>
  BY DEF OutcomesInit
<1>3. Hour(0) = 0
  <2>1. Start(0) = 0 /\ Start(1) = HourTicks /\ HourTicks \in Nat \ {0}
    BY OutcomesAssumption, SMT DEF Start
  <2>2. 0 <= Hour(0) /\ ~(1 <= Hour(0)) /\ Hour(0) \in Int
    BY <2>1, HourOrder, HourFacts
  <2> QED
    BY <2>2
<1>4. market \in Seq(Shapes) /\ Len(market) = Hour(now) + 1
  BY <1>1, <1>2, <1>3
<1>5. now \in Times
  BY <1>1, OutcomesAssumption DEF Times
<1>6. OutcomesTypes
  BY <1>1, <1>4, <1>5, NoPassType DEF OutcomesTypes
<1> QED
  BY <1>1, <1>6 DEF OutcomesInv, OutcomeFollowsHours, SignalInv, PassInv

\* Every step keeps it.
LEMMA OutcomesStep == OutcomesInv /\ [OutcomesNext]_outcomesVars => OutcomesInv'
<1> SUFFICES ASSUME OutcomesInv, [OutcomesNext]_outcomesVars PROVE OutcomesInv'
  OBVIOUS
<1>1. CASE Tick
  BY <1>1, TickKeeps
<1>2. CASE \E s \in Signals : Create(s)
  BY <1>2, CreateKeeps
<1>3. CASE resolveOpenSignals
  BY <1>3, resolveOpenSignalsKeeps
<1>4. CASE FetchCandles
  BY <1>4, FetchCandlesKeeps
<1>5. CASE ResolveNext
  BY <1>5, ResolveNextKeeps
<1>6. CASE PassFails
  BY <1>6, PassFailsKeeps
<1>7. CASE UNCHANGED outcomesVars
  <2>1. UNCHANGED <<now, market, signals>> /\ pass' = pass
    BY <1>7 DEF outcomesVars
  <2>2. OutcomeFollowsHours' /\ SignalInv'
    BY <2>1, QuietKeeps DEF OutcomesInv, OutcomeFollowsHours, OutcomesTypes
  <2>3. PassInv'
    BY <2>1 DEF OutcomesInv, PassInv
  <2> QED
    BY <2>2, <2>3 DEF OutcomesInv
<1> QED
  BY <1>1, <1>2, <1>3, <1>4, <1>5, <1>6, <1>7 DEF OutcomesNext

(* The inductive invariant of the outcome resolver, for every market, every set of signals, every length of an hour and of *)
(* the week, and any number of passes that fail or lag: levels stand on their sides of the entry, a running pass has only  *)
(* rows that were there when it began and candles fetched since, and what is closed was earned.                            *)
THEOREM OutcomesCorrect == OutcomesSpec => []OutcomesInv
<1> QED
  BY OutcomesStarts, OutcomesStep, PTL DEF OutcomesSpec

(* Outcomes follow from the hours of the market, for every market: a stop is one no earlier hour, nor its own at the open,  *)
(* answered with the target; a target is one before which, and in whose hour once that was over, the price never reached   *)
(* the stop; a signal expires only when its whole week passed without either.                                              *)
THEOREM OutcomesFollow == OutcomesSpec => []OutcomeFollowsHours
<1>1. OutcomesInv => OutcomeFollowsHours
  BY DEF OutcomesInv
<1> QED
  BY <1>1, OutcomesCorrect, PTL
=============================================================================
