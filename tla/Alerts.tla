------------------------------- MODULE Alerts -------------------------------
(***************************************************************************)
(* Price alerts: the checker that cron starts every minute                 *)
(* (services/alertChecker.service.js), the daily digest of the e-mails it  *)
(* held back, and what the user does to an alert meanwhile                 *)
(* (controllers/alerts.controller.js).  One user, both channels on; the    *)
(* flag read, which only the page shows, is left out.  Every process of    *)
(* the server runs both jobs, with a guard of its own.                     *)
(*                                                                         *)
(* A firing is an alert and the number of times it was armed (created or   *)
(* reset).  A process owes each firing it marks one notification; its row  *)
(* in the queue of the digest is named after the process that inserted it. *)
(***************************************************************************)
EXTENDS Integers, FiniteSets

CONSTANTS
  Alerts,       \* rows of alerts; an id is never used again
  Symbols,      \* traded symbols
  Targets,      \* values an alert can wait for
  Prices,       \* what the price feeds can answer
  Processes,    \* processes of the server
  Survivor,     \* one of them that is started again whenever it stops; the others may stop for good
  Ticks,        \* calls of checkAlerts
  ProcessOf,    \* the process whose cron starts each
  DayLength,    \* steps of the clock in a day
  QuietStart, QuietEnd,   \* quiet hours of the user, start included, end not
  DigestHour,   \* when the digest is sent
  Snooze,       \* length of a snooze
  MaxEdits,     \* bound on the user's commands
  MaxFailures,  \* bound on failed statements, mails and fetches, and on crashes
  Null

ASSUME AlertsAssumption ==
  /\ DayLength \in Nat \ {0} /\ Snooze \in Nat /\ MaxEdits \in Nat /\ MaxFailures \in Nat
  /\ Targets \subseteq Int /\ Prices \subseteq Int /\ Null \notin Int
  /\ {QuietStart, QuietEnd, DigestHour} \subseteq 0 .. DayLength - 1
  /\ Survivor \in Processes /\ ProcessOf \in [Ticks -> Processes]

VARIABLES
  alerts,       \* the table: id -> row, Null when there is no row
  arm,          \* observer: how often each alert was armed
  manual,       \* observer: alerts whose last pause was a pause without end
  isRunning,    \* isCheckAlertsRunning of each process
  run,          \* local state of each call of checkAlerts
  queue,        \* alert_digest_queue: its rows with sent = false
  owed,         \* observer: the rows that were put there and in no digest that left
  notified,     \* observer: what each process notified, or tried to
  digest,       \* local state of runDailyDigest in each process
  now,          \* local time of day of the user
  edits, failures   \* counters of the environment

table == <<alerts, arm, manual, edits>>
checker == <<isRunning, run>>
flush == <<queue, owed, notified, digest>>
alertsVars == <<table, checker, flush, now, failures>>

Row == [symbol : Symbols, target : Targets, triggered : BOOLEAN, paused : BOOLEAN,
        until : (0 .. Snooze) \cup {Null}, freq : {"instant", "digest"}]

\* What stands for a missing row is none of the rows.
ASSUME NullAssumption == Null \notin Row

Firing == Alerts \X (1 .. MaxEdits + 1)
\* What the SELECT of the checker returns of a row, and the firing it would be.
Copy == [firing : Firing, symbol : Symbols, target : Targets, freq : {"instant", "digest"}]
\* A notification of a process, and the row it puts in the queue to hold it back.
Notice == Processes \X Firing
NoDigest == [stage |-> "idle", items |-> {}]
Idle == [stage |-> "idle", batch |-> {}, symbol |-> Null, price |-> Null, cur |-> Null, quiet |-> FALSE]

\* A row as the commands of earlier days left it: snoozed, paused or not, triggered or not.
Stored == {row \in Row : row.until # Null => row.paused}
\* A row as createAlert inserts it.
Fresh == [symbol : Symbols, target : Targets, triggered : {FALSE}, paused : {FALSE},
          until : {Null}, freq : {"instant", "digest"}]

Exists(a) == alerts[a] # Null
Active(a) == Exists(a) /\ ~alerts[a].triggered /\ ~alerts[a].paused
CopyOf(a) == [firing |-> <<a, arm[a]>>, symbol |-> alerts[a].symbol, target |-> alerts[a].target,
              freq |-> alerts[a].freq]

Failure == failures < MaxFailures /\ failures' = failures + 1

AlertsInit ==
  /\ alerts \in [Alerts -> Stored \cup {Null}]
  /\ manual = {a \in Alerts : Exists(a) /\ alerts[a].paused /\ alerts[a].until = Null}
  /\ arm = [a \in Alerts |-> IF Exists(a) THEN 1 ELSE 0]
  /\ isRunning = [p \in Processes |-> FALSE] /\ run = [i \in Ticks |-> Idle]
  /\ queue = {} /\ owed = {} /\ notified = {} /\ digest = [p \in Processes |-> NoDigest]
  /\ now \in 0 .. DayLength - 1 /\ edits = 0 /\ failures = 0

-----------------------------------------------------------------------------
(* conditionMet for an 'above' alert; 'below' is its mirror image. *)
conditionMet(price, target) == price >= target

\* Mutant: quiet hours that end the next day are forgotten.
QuietWithinOneDay(t) == QuietStart <= t /\ t < QuietEnd

(* The clock is within the user's quiet hours, which may span midnight. *)
isWithinQuietHours(t) ==
  /\ QuietStart # QuietEnd
  /\ IF QuietStart < QuietEnd THEN QuietStart <= t /\ t < QuietEnd
                              ELSE QuietStart <= t \/ t < QuietEnd

\* The same, counted from the start of the quiet hours round the clock.
InQuietSpan(t) == (t - QuietStart) % DayLength < (QuietEnd - QuietStart) % DayLength

-----------------------------------------------------------------------------
(* checkAlerts, a step per await. *)

\* Mutant: the flag is not looked at.
LoadUnguarded(i) ==
  /\ run[i].stage = "idle"
  /\ \E a \in Alerts : Active(a)
  /\ isRunning' = [isRunning EXCEPT ![ProcessOf[i]] = TRUE]
  /\ run' = [run EXCEPT ![i] = [Idle EXCEPT !.stage = "fetch",
                                             !.batch = {CopyOf(a) : a \in {b \in Alerts : Active(b)}}]]
  /\ UNCHANGED <<table, flush, now, failures>>

\* cron starts a call; while another one of the same process works it returns at once.
LoadAlerts(i) ==
  /\ ~isRunning[ProcessOf[i]]
  /\ run[i].stage = "idle"
  /\ LET batch == {CopyOf(a) : a \in {b \in Alerts : Active(b)}}
     IN  /\ batch # {}
         /\ run' = [run EXCEPT ![i] = [Idle EXCEPT !.stage = "fetch", !.batch = batch]]
  /\ isRunning' = [isRunning EXCEPT ![ProcessOf[i]] = TRUE]
  /\ UNCHANGED <<table, flush, now, failures>>

\* The call is over, for its last alert or for an error: the finally block.
Finish(i) == isRunning' = [isRunning EXCEPT ![ProcessOf[i]] = FALSE] /\ run' = [run EXCEPT ![i] = Idle]

\* Continues with what is left of the batch: more of this symbol, the next symbol, or the end.
GoOn(i, batch) ==
  IF batch = {} THEN Finish(i)
  ELSE /\ run' = [run EXCEPT ![i] = [@ EXCEPT !.batch = batch, !.cur = Null,
                    !.stage = IF \E c \in batch : c.symbol = run[i].symbol THEN "compare" ELSE "fetch"]]
       /\ UNCHANGED isRunning

FetchPrice(i) ==
  /\ run[i].stage = "fetch"
  /\ \E c \in run[i].batch, p \in Prices :
       run' = [run EXCEPT ![i] = [@ EXCEPT !.stage = "compare", !.symbol = c.symbol, !.price = p]]
  /\ UNCHANGED <<table, isRunning, flush, now, failures>>

\* Neither feed answers in time: the alerts of the symbol wait for the next minute.
NoPrice(i) ==
  /\ run[i].stage = "fetch" /\ Failure
  /\ \E c \in run[i].batch : GoOn(i, {d \in run[i].batch : d.symbol # c.symbol})
  /\ UNCHANGED <<table, flush, now>>

NotMet(i) ==
  /\ run[i].stage = "compare"
  /\ \E c \in run[i].batch :
       /\ c.symbol = run[i].symbol /\ ~conditionMet(run[i].price, c.target)
       /\ GoOn(i, run[i].batch \ {c})
  /\ UNCHANGED <<table, flush, now, failures>>

\* The UPDATE goes by id alone: whatever the user, or another process, made of the row since it was read.
MarkTriggered(i) ==
  /\ run[i].stage = "compare"
  /\ \E c \in run[i].batch :
       /\ c.symbol = run[i].symbol /\ conditionMet(run[i].price, c.target)
       /\ alerts' = IF Exists(c.firing[1]) THEN [alerts EXCEPT ![c.firing[1]].triggered = TRUE] ELSE alerts
       /\ run' = [run EXCEPT ![i] = [@ EXCEPT !.stage = "notify", !.cur = c, !.batch = run[i].batch \ {c},
                                              !.quiet = isWithinQuietHours(now)]]
  /\ UNCHANGED <<arm, manual, edits, isRunning, flush, now, failures>>

\* Mutant: the flag is reset after the try block instead of in its finally.
CheckFailsLocked(i) ==
  /\ run[i].stage = "compare" /\ Failure
  /\ \E c \in run[i].batch : c.symbol = run[i].symbol /\ conditionMet(run[i].price, c.target)
  /\ run' = [run EXCEPT ![i] = Idle]
  /\ UNCHANGED <<table, isRunning, flush, now>>

\* The UPDATE fails: the call ends, its alerts wait for the next minute.
CheckFails(i) ==
  /\ run[i].stage = "compare" /\ Failure
  /\ \E c \in run[i].batch : c.symbol = run[i].symbol /\ conditionMet(run[i].price, c.target)
  /\ Finish(i)
  /\ UNCHANGED <<table, flush, now>>

\* Held back for the digest, or sent at once; an error is logged and nothing is tried again.  The foreign key refuses
\* a row for a deleted alert.  The Telegram message, none in quiet hours, changes nothing the program keeps.
Notify(i) ==
  LET c == run[i].cur
      row == <<ProcessOf[i], c.firing>>
      held == run[i].quiet \/ c.freq = "digest"
  IN  /\ run[i].stage = "notify"
      /\ GoOn(i, run[i].batch)
      /\ notified' = notified \cup {row}
      /\ \/ held /\ Exists(c.firing[1]) /\ queue' = queue \cup {row} /\ owed' = owed \cup {row} /\ UNCHANGED failures
         \/ ~(held /\ Exists(c.firing[1])) /\ UNCHANGED <<queue, owed, failures>>
         \/ Failure /\ UNCHANGED <<queue, owed>>
      /\ UNCHANGED <<table, digest, now>>

checkAlerts(i) ==
  LoadAlerts(i) \/ FetchPrice(i) \/ NotMet(i) \/ MarkTriggered(i) \/ Notify(i)

-----------------------------------------------------------------------------
(* runDailyDigest of process p, started by the clock. *)

ReadDigest(p) ==
  /\ digest[p].stage = "read"
  /\ digest' = [digest EXCEPT ![p] = IF queue = {} THEN NoDigest ELSE [stage |-> "send", items |-> queue]]
  /\ UNCHANGED <<table, checker, queue, owed, notified, now, failures>>

\* A send that fails, even if the mail left, leaves the rows for tomorrow.
SendDigest(p) ==
  /\ digest[p].stage = "send"
  /\ \/ /\ owed' = owed \ digest[p].items
        /\ digest' = [digest EXCEPT ![p].stage = "mark"] /\ UNCHANGED failures
     \/ /\ Failure /\ owed' \in {owed, owed \ digest[p].items}
        /\ digest' = [digest EXCEPT ![p] = NoDigest]
  /\ UNCHANGED <<table, checker, queue, notified, now>>

\* Mutant: WHERE sent = false.
MarkAllSent(p) ==
  /\ digest[p].stage = "mark"
  /\ queue' = {} /\ UNCHANGED failures
  /\ digest' = [digest EXCEPT ![p] = NoDigest]
  /\ UNCHANGED <<table, checker, owed, notified, now>>

\* WHERE id = ANY(ids): only what was in the mail.  A failed UPDATE repeats it tomorrow.
MarkSent(p) ==
  /\ digest[p].stage = "mark"
  /\ \/ queue' = queue \ digest[p].items /\ UNCHANGED failures
     \/ Failure /\ UNCHANGED queue
  /\ digest' = [digest EXCEPT ![p] = NoDigest]
  /\ UNCHANGED <<table, checker, owed, notified, now>>

runDailyDigest(p) == ReadDigest(p) \/ SendDigest(p) \/ MarkSent(p)

-----------------------------------------------------------------------------
(* The user: every command is one UPDATE, INSERT or DELETE of his rows. *)

Edit == edits < MaxEdits /\ edits' = edits + 1 /\ UNCHANGED <<checker, flush, now, failures>>
Change(a, row) == alerts' = [alerts EXCEPT ![a] = row]

createAlert(a, row) ==
  /\ ~Exists(a) /\ arm[a] = 0
  /\ Change(a, row)
  /\ arm' = [arm EXCEPT ![a] = 1]
  /\ UNCHANGED manual /\ Edit

updateAlert(a, s, t) ==
  /\ Exists(a) /\ Change(a, [alerts[a] EXCEPT !.symbol = s, !.target = t])
  /\ UNCHANGED <<arm, manual>> /\ Edit

setEmailFrequency(a, f) ==
  /\ Exists(a) /\ Change(a, [alerts[a] EXCEPT !.freq = f])
  /\ UNCHANGED <<arm, manual>> /\ Edit

\* Mutant: paused_until stays.
TogglePauseOnly(a) ==
  /\ Exists(a) /\ Change(a, [alerts[a] EXCEPT !.paused = ~@])
  /\ manual' = IF alerts[a].paused THEN manual \ {a} ELSE manual \cup {a}
  /\ UNCHANGED arm /\ Edit

togglePause(a) ==
  /\ Exists(a) /\ Change(a, [alerts[a] EXCEPT !.paused = ~@, !.until = Null])
  /\ manual' = IF alerts[a].paused THEN manual \ {a} ELSE manual \cup {a}
  /\ UNCHANGED arm /\ Edit

snoozeAlert(a) ==
  /\ Exists(a) /\ Change(a, [alerts[a] EXCEPT !.paused = TRUE, !.until = Snooze])
  /\ manual' = manual \ {a}
  /\ UNCHANGED arm /\ Edit

resetAlert(a) ==
  /\ Exists(a)
  /\ Change(a, [alerts[a] EXCEPT !.triggered = FALSE, !.paused = FALSE, !.until = Null])
  /\ arm' = [arm EXCEPT ![a] = @ + 1] /\ manual' = manual \ {a}
  /\ Edit

deleteAlert(a) ==
  /\ Exists(a) /\ Change(a, Null) /\ manual' = manual \ {a}
  /\ UNCHANGED arm /\ Edit

Triggered == {a \in Alerts : Exists(a) /\ alerts[a].triggered}

clearAllTriggered ==
  /\ alerts' = [a \in Alerts |-> IF a \in Triggered THEN Null ELSE alerts[a]]
  /\ manual' = manual \ Triggered
  /\ UNCHANGED arm /\ Edit

\* Loading the page, which a user may do at any time, lifts the snoozes that are over.
releaseExpiredSnoozes ==
  /\ alerts' = [a \in Alerts |-> IF Exists(a) /\ alerts[a].until = 0
                                 THEN [alerts[a] EXCEPT !.paused = FALSE, !.until = Null] ELSE alerts[a]]
  /\ UNCHANGED <<arm, manual, edits, checker, flush, now, failures>>

User ==
  \/ \E a \in Alerts :
       \/ \E row \in Fresh : createAlert(a, row)
       \/ \E s \in Symbols, t \in Targets : updateAlert(a, s, t)
       \/ \E f \in {"instant", "digest"} : setEmailFrequency(a, f)
       \/ togglePause(a) \/ snoozeAlert(a) \/ resetAlert(a) \/ deleteAlert(a)
  \/ clearAllTriggered \/ releaseExpiredSnoozes

-----------------------------------------------------------------------------
\* Time passes: snoozes run down, and each cron starts the digest at its hour.  A digest that is still busy then
\* is not doubled.
ClockTicks ==
  /\ now' = (now + 1) % DayLength
  /\ alerts' = [a \in Alerts |-> IF Exists(a) /\ alerts[a].until \notin {0, Null}
                                 THEN [alerts[a] EXCEPT !.until = @ - 1] ELSE alerts[a]]
  /\ digest' = IF now' = DigestHour
               THEN [p \in Processes |-> IF digest[p] = NoDigest THEN [NoDigest EXCEPT !.stage = "read"] ELSE digest[p]]
               ELSE digest
  /\ UNCHANGED <<arm, manual, edits, checker, queue, owed, notified, failures>>

\* A process stops; what it kept in memory is gone.
ServerStops(p) ==
  /\ Failure
  /\ isRunning' = [isRunning EXCEPT ![p] = FALSE]
  /\ run' = [i \in Ticks |-> IF ProcessOf[i] = p THEN Idle ELSE run[i]]
  /\ digest' = [digest EXCEPT ![p] = NoDigest]
  /\ UNCHANGED <<table, queue, owed, notified, now>>

AlertsNext ==
  \/ \E i \in Ticks : checkAlerts(i) \/ NoPrice(i) \/ CheckFails(i)
  \/ \E p \in Processes : runDailyDigest(p) \/ ServerStops(p)
  \/ User \/ ClockTicks

AlertsSpec == AlertsInit /\ [][AlertsNext]_alertsVars

AlertsFairSpec ==
  /\ AlertsSpec
  /\ WF_alertsVars(\E i \in Ticks : ProcessOf[i] = Survivor /\ checkAlerts(i))
  /\ WF_alertsVars(runDailyDigest(Survivor)) /\ WF_alertsVars(ClockTicks)

-----------------------------------------------------------------------------
Call == [stage : {"idle", "fetch", "compare", "notify"}, batch : SUBSET Copy, symbol : Symbols \cup {Null},
         price : Prices \cup {Null}, cur : Copy \cup {Null}, quiet : BOOLEAN]

AlertsTypes ==
  /\ alerts \in [Alerts -> Row \cup {Null}] /\ arm \in [Alerts -> 0 .. MaxEdits + 1]
  /\ manual \subseteq Alerts /\ isRunning \in [Processes -> BOOLEAN]
  /\ run \in [Ticks -> Call]
  /\ queue \subseteq Notice /\ owed \subseteq Notice /\ notified \subseteq Notice
  /\ digest \in [Processes -> [stage : {"idle", "read", "send", "mark"}, items : SUBSET Notice]]
  /\ now \in 0 .. DayLength - 1 /\ edits \in 0 .. MaxEdits /\ failures \in 0 .. MaxFailures

\* A snooze that runs is a pause, and a pause without end has no other end.
PauseInv ==
  /\ \A a \in Alerts : Exists(a) /\ alerts[a].until # Null => alerts[a].paused
  /\ \A a \in manual : Exists(a) /\ alerts[a].paused /\ alerts[a].until = Null

\* Every arming but the first is a command of the user; a row was armed.
ArmInv == \A a \in Alerts : arm[a] <= edits + 1 /\ (Exists(a) => arm[a] >= 1)

\* The alert of a firing that somebody notified is triggered or deleted since, unless it was armed again.
Spent(f) == f[2] <= arm[f[1]] /\ (Exists(f[1]) /\ ~alerts[f[1]].triggered => f[2] < arm[f[1]])
NotifiedInv == \A n \in notified : Spent(n[2])

\* One call of a process works at a time, and only while its flag is set.  What it has in hand is one firing per alert,
\* of those armed so far, and this process notified none; the one it is about to notify is marked.
InHand(i) == run[i].batch \cup (IF run[i].stage = "notify" THEN {run[i].cur} ELSE {})
Alone(i) == \A j \in Ticks : run[j].stage # "idle" /\ ProcessOf[j] = ProcessOf[i] => i = j
CallInv ==
  \A i \in Ticks :
    /\ run[i].stage # "idle" => isRunning[ProcessOf[i]] /\ Alone(i)
    /\ run[i].stage = "idle" => run[i].batch = {}
    /\ run[i].stage = "notify" => run[i].cur \in Copy \ run[i].batch /\ Spent(run[i].cur.firing)
    /\ \A c, d \in InHand(i) : c.firing[1] = d.firing[1] => c = d
    /\ \A c \in InHand(i) : <<ProcessOf[i], c.firing>> \notin notified /\ c.firing[2] <= arm[c.firing[1]]

\* The inductive invariant.
AlertsInv == AlertsTypes /\ PauseInv /\ ArmInv /\ NotifiedInv /\ CallInv

(* Types; and over every sequence of pauses, snoozes, resets and releases, a snooze that runs is a pause,   *)
(* and a pause without end holds until the user lifts it, whatever snooze came before                      *)
(* (alerts.controller.js:421-423).                                                                         *)
PausesHold ==
  /\ AlertsTypes
  /\ \A a \in Alerts : Exists(a) /\ alerts[a].until # Null => alerts[a].paused
  /\ \A a \in manual : alerts[a].paused /\ alerts[a].until = Null

(* A process notifies a firing once, although rows are marked by id without looking at them, calls take   *)
(* longer than a minute and cron starts the next; and a firing that any process notified is never read as   *)
(* due again, whoever stops or whatever fails after its mark.  Two processes that both read it before either *)
(* marked it do notify it twice: the flag is of one process (alertChecker.service.js:116, :166-169).         *)
NotifiedOnce ==
  /\ \A i \in Ticks : run[i].stage = "notify" => <<ProcessOf[i], run[i].cur.firing>> \notin notified
  /\ \A n \in notified : ~(Active(n[2][1]) /\ n[2][2] = arm[n[2][1]])

(* At its hour, in the user's own time and across midnight, the checker finds quiet hours exactly when the *)
(* clock has passed their start and not yet their end.                                                     *)
QuietHoursKept ==
  [][\A i \in Ticks : run[i].stage = "compare" /\ run'[i].stage = "notify" => run'[i].quiet = InQuietSpan(now)]_alertsVars

(* An alert whose price is met whatever the feeds say fires in the end, unless the user stops it: no error *)
(* or crash leaves the checker's guard closed, as long as one process is started again.                    *)
DueAlertFires ==
  []<>(\A a \in Alerts : ~(Active(a) /\ \A p \in Prices : conditionMet(p, alerts[a].target)))

(* What was held back reaches the user: failed mails, failed updates and crashes only delay it, and what   *)
(* is held back while a digest is being sent is not closed with it.                                       *)
HeldBackIsMailed == []<>(owed = {})

=============================================================================
