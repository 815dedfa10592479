----------------------------- MODULE KillSwitch -----------------------------
(***************************************************************************)
(* The emergency stop for new orders (utils/killSwitch.js): one row of     *)
(* system_flags shared by every backend instance, a cached copy in each    *)
(* instance, the operator's engage and release, the boot sequence, the     *)
(* periodic refresh, and the check every order makes first.                *)
(*                                                                         *)
(* A read is two steps: the SELECT takes the value, its answer is applied  *)
(* to the cache later.  reason, since and by are left out.                 *)
(***************************************************************************)
EXTENDS Integers

CONSTANTS
    Instances,      \* backend processes
    Orders,         \* orders (manual or of the auto-trader) that ask isEngagedFresh
    Commands,       \* operator commands (POST /api/admin/kill-switch)
    At,             \* At[x]: the instance that serves order or command x
    EnvOn,          \* instances started with TRADING_KILL_SWITCH=true
    Nothing,
    MaxOutages

ASSUME InstancesAssumption ==
    /\ At \in [Orders \cup Commands -> Instances]
    /\ EnvOn \subseteq Instances
    /\ MaxOutages \in Nat

\* "Nothing read" and "no command" are none of the values.
ASSUME NothingAssumption == Nothing \notin {"none", "engaged", "released", "engage", "release"}

VARIABLES
    flag,       \* the kill_switch row: "none", "engaged" or "released"
    up,         \* up[i]: how far instance i has come
    cache,      \* cache[i]: state.engaged
    answer,     \* answer[i]: the value a refresh (boot or timer) of i has read and not applied
    order,      \* order[o]: where the check of o stands
    got,        \* got[o]: the value its SELECT read
    seen,       \* seen[o]: the values the row had while o was being checked
    command,    \* command[c]: where c stands
    kind,       \* kind[c]: engage or release
    outages

flagVars == <<flag, seen>>
instanceVars == <<up, cache, answer>>
orderVars == <<order, got>>
commandVars == <<command, kind>>
switchVars == <<flagVars, instanceVars, orderVars, commandVars, outages>>

FlagValues == {"none", "engaged", "released"}

\* refresh: what the value read means on instance i (envDefault when there is no row).
Engaged(v, i) == v = "engaged" \/ (v = "none" /\ i \in EnvOn)

SwitchInit ==
    /\ flag \in FlagValues
    /\ up = [i \in Instances |-> "down"]
    /\ cache = [i \in Instances |-> FALSE]
    /\ answer = [i \in Instances |-> Nothing]
    /\ order = [o \in Orders |-> "idle"]
    /\ got = [o \in Orders |-> Nothing]
    /\ seen = [o \in Orders |-> {}]
    /\ command = [c \in Commands |-> "idle"]
    /\ kind = [c \in Commands |-> Nothing]
    /\ outages = 0

Outage ==
    /\ outages < MaxOutages
    /\ outages' = outages + 1

\* A statement sets the row to v; every check under way has now seen v.
Write(v) ==
    /\ flag' = v
    /\ seen' = [o \in Orders |-> IF order[o] = "checking" THEN seen[o] \cup {v} ELSE seen[o]]

-----------------------------------------------------------------------------
(* Boot: app.listen, then init and startSync                               *)

\* The module is loaded with the value of the environment, and the server listens.
Listen(i) ==
    /\ up[i] = "down"
    /\ up' = [up EXCEPT ![i] = "listening"]
    /\ cache' = [cache EXCEPT ![i] = i \in EnvOn]
    /\ UNCHANGED <<flagVars, answer, orderVars, commandVars, outages>>

\* SELECT NOW() or db.ready fails: caught, neither init nor startSync is called.
BootFails(i) ==
    /\ up[i] = "listening"
    /\ Outage
    /\ up' = [up EXCEPT ![i] = "uninitialised"]
    /\ UNCHANGED <<flagVars, cache, answer, orderVars, commandVars>>

\* Bug: the environment wins at every boot.
EnvWins(i) ==
    /\ up[i] = "listening"
    /\ Write(IF i \in EnvOn THEN "engaged" ELSE "released")
    /\ up' = [up EXCEPT ![i] = "initialising"]
    /\ UNCHANGED <<cache, answer, orderVars, commandVars, outages>>

\* init: with the variable set the row is engaged, or stays as it was engaged; refresh follows.
InitRow(i) ==
    /\ up[i] = "listening"
    /\ IF i \in EnvOn THEN Write("engaged") ELSE UNCHANGED flagVars
    /\ up' = [up EXCEPT ![i] = "initialising"]
    /\ UNCHANGED <<cache, answer, orderVars, commandVars, outages>>

\* A statement of init fails: logged, init returns and startSync is called.
InitFails(i) ==
    /\ up[i] \in {"listening", "initialising"}
    /\ Outage
    /\ up' = [up EXCEPT ![i] = "ready"]
    /\ answer' = [answer EXCEPT ![i] = Nothing]
    /\ UNCHANGED <<flagVars, cache, orderVars, commandVars>>

\* refresh, called by init and then by the timer: the SELECT ...
RefreshSelect(i) ==
    /\ up[i] \in {"initialising", "ready"}
    /\ answer[i] = Nothing
    /\ answer' = [answer EXCEPT ![i] = flag]
    /\ UNCHANGED <<flagVars, up, cache, orderVars, commandVars, outages>>

\* Bug: only the boot's refresh is kept.
RefreshOnce(i) ==
    /\ answer[i] # Nothing
    /\ cache' = IF up[i] = "initialising" THEN [cache EXCEPT ![i] = Engaged(answer[i], i)] ELSE cache
    /\ answer' = [answer EXCEPT ![i] = Nothing]
    /\ up' = [up EXCEPT ![i] = "ready"]
    /\ UNCHANGED <<flagVars, orderVars, commandVars, outages>>

\* ... and its answer.
RefreshApply(i) ==
    /\ answer[i] # Nothing
    /\ cache' = [cache EXCEPT ![i] = Engaged(answer[i], i)]
    /\ answer' = [answer EXCEPT ![i] = Nothing]
    /\ up' = [up EXCEPT ![i] = "ready"]
    /\ UNCHANGED <<flagVars, orderVars, commandVars, outages>>

\* The timer's refresh throws: .catch(() => {})
RefreshFails(i) ==
    /\ up[i] = "ready" /\ answer[i] # Nothing
    /\ Outage
    /\ answer' = [answer EXCEPT ![i] = Nothing]
    /\ UNCHANGED <<flagVars, up, cache, orderVars, commandVars>>

-----------------------------------------------------------------------------
(* isEngagedFresh, first thing an order does                               *)

CheckStart(o) ==
    /\ order[o] = "idle" /\ up[At[o]] # "down"
    /\ order' = [order EXCEPT ![o] = "checking"]
    /\ seen' = [seen EXCEPT ![o] = {flag}]
    /\ UNCHANGED <<flag, instanceVars, got, commandVars, outages>>

CheckSelect(o) ==
    /\ order[o] = "checking" /\ got[o] = Nothing
    /\ got' = [got EXCEPT ![o] = flag]
    /\ UNCHANGED <<flagVars, instanceVars, order, commandVars, outages>>

\* The answer is applied to the cache, and the order goes on or is refused (503 TRADING_DISABLED).
CheckApply(o) ==
    /\ order[o] = "checking" /\ got[o] # Nothing
    /\ cache' = [cache EXCEPT ![At[o]] = Engaged(got[o], At[o])]
    /\ order' = [order EXCEPT ![o] = IF cache'[At[o]] THEN "refused" ELSE "cleared"]
    /\ UNCHANGED <<flagVars, up, answer, got, commandVars, outages>>

\* Bug: the copy answers when the row cannot be read.
CheckFailsOpen(o) ==
    /\ order[o] = "checking"
    /\ Outage
    /\ order' = [order EXCEPT ![o] = IF cache[At[o]] THEN "refused" ELSE "cleared"]
    /\ UNCHANGED <<flagVars, instanceVars, got, commandVars>>

\* The row cannot be read: refused.
CheckFails(o) ==
    /\ order[o] = "checking"
    /\ Outage
    /\ order' = [order EXCEPT ![o] = "refused"]
    /\ UNCHANGED <<flagVars, instanceVars, got, commandVars>>

-----------------------------------------------------------------------------
(* set                                                                     *)

\* Engaging flips the cache before the row is written.
Engage(c) ==
    /\ command[c] = "idle" /\ up[At[c]] # "down"
    /\ kind' = [kind EXCEPT ![c] = "engage"]
    /\ command' = [command EXCEPT ![c] = "persisting"]
    /\ cache' = [cache EXCEPT ![At[c]] = TRUE]
    /\ UNCHANGED <<flagVars, up, answer, orderVars, outages>>

Release(c) ==
    /\ command[c] = "idle" /\ up[At[c]] # "down"
    /\ kind' = [kind EXCEPT ![c] = "release"]
    /\ command' = [command EXCEPT ![c] = "persisting"]
    /\ UNCHANGED <<flagVars, instanceVars, orderVars, outages>>

\* persist: the upsert, unconditional.
Persist(c) ==
    /\ command[c] = "persisting"
    /\ Write(IF kind[c] = "engage" THEN "engaged" ELSE "released")
    /\ command' = [command EXCEPT ![c] = "persisted"]
    /\ UNCHANGED <<instanceVars, orderVars, kind, outages>>

\* persist throws, before or after the row was written: persisted:false for an engage, 503 for a release.
PersistFails(c) ==
    /\ command[c] \in {"persisting", "persisted"}
    /\ Outage
    /\ command' = [command EXCEPT ![c] = "failed"]
    /\ UNCHANGED <<flagVars, instanceVars, orderVars, kind>>

\* The release flips the cache last; both answer persisted:true.
SetReturns(c) ==
    /\ command[c] = "persisted"
    /\ command' = [command EXCEPT ![c] = "done"]
    /\ cache' = IF kind[c] = "release" THEN [cache EXCEPT ![At[c]] = FALSE] ELSE cache
    /\ UNCHANGED <<flagVars, up, answer, orderVars, kind, outages>>

-----------------------------------------------------------------------------
\* Instance i stops: its cache, its checks and its commands are gone.
InstanceStops(i) ==
    /\ up[i] # "down"
    /\ Outage
    /\ up' = [up EXCEPT ![i] = "down"]
    /\ cache' = [cache EXCEPT ![i] = FALSE]
    /\ answer' = [answer EXCEPT ![i] = Nothing]
    /\ order' = [o \in Orders |-> IF At[o] = i /\ order[o] = "checking" THEN "dead" ELSE order[o]]
    /\ command' = [c \in Commands |-> IF At[c] = i /\ command[c] # "idle" THEN "dead" ELSE command[c]]
    /\ UNCHANGED <<flagVars, got, kind>>

boot(i) ==
    Listen(i) \/ BootFails(i) \/ InitRow(i) \/ InitFails(i)
refresh(i) == RefreshSelect(i) \/ RefreshApply(i) \/ RefreshFails(i)
isEngagedFresh(o) == CheckStart(o) \/ CheckSelect(o) \/ CheckApply(o) \/ CheckFails(o)
set(c) == Engage(c) \/ Release(c) \/ Persist(c) \/ PersistFails(c) \/ SetReturns(c)

SwitchNext ==
    \/ \E i \in Instances : boot(i) \/ refresh(i) \/ InstanceStops(i)
    \/ \E o \in Orders : isEngagedFresh(o)
    \/ \E c \in Commands : set(c)

SwitchSpec == SwitchInit /\ [][SwitchNext]_switchVars

\* A process that stopped is started again, the boot goes on, the timer keeps calling refresh, a
\* check or a command that has begun goes on.  Orders and commands are never owed.
SwitchFairness ==
    /\ \A i \in Instances :
          /\ WF_switchVars(Listen(i)) /\ WF_switchVars(InitRow(i))
          /\ WF_switchVars(RefreshSelect(i) \/ RefreshApply(i))
    /\ \A o \in Orders : WF_switchVars(CheckSelect(o) \/ CheckApply(o))
    /\ \A c \in Commands : WF_switchVars(Persist(c) \/ SetReturns(c))

SwitchFairSpec == SwitchSpec /\ SwitchFairness

-----------------------------------------------------------------------------
\* Every variable keeps its type.
SwitchTypes ==
    /\ flag \in FlagValues
    /\ up \in [Instances -> {"down", "listening", "uninitialised", "initialising", "ready"}]
    /\ cache \in [Instances -> BOOLEAN]
    /\ answer \in [Instances -> FlagValues \cup {Nothing}]
    /\ order \in [Orders -> {"idle", "checking", "refused", "cleared", "dead"}]
    /\ got \in [Orders -> FlagValues \cup {Nothing}]
    /\ seen \in [Orders -> SUBSET FlagValues]
    /\ command \in [Commands -> {"idle", "persisting", "persisted", "done", "failed", "dead"}]
    /\ kind \in [Commands -> {"engage", "release", Nothing}]
    /\ outages \in Nat

\* A check under way has seen the row as it is, and what its SELECT read is something it has seen.
CheckInv ==
    \A o \in Orders :
        /\ order[o] = "idle" => got[o] = Nothing
        /\ order[o] = "checking" => flag \in seen[o]
        /\ got[o] # Nothing => got[o] \in seen[o]

\* A command that has begun is an engage or a release.
CommandInv == \A c \in Commands : command[c] # "idle" => kind[c] # Nothing

\* An order passes only if the shared switch was off at some moment of its check: whatever the caches
\* of the instances say, a switch engaged on one instance stops the next order on every instance, and
\* a row that cannot be read stops it too.
ClearedOnlyIfOff ==
    \A o \in Orders : order[o] = "cleared" => \E v \in seen[o] : ~Engaged(v, At[o])

\* The inductive invariant: all of these together.
SwitchInv == SwitchTypes /\ CheckInv /\ CommandInv /\ ClearedOnlyIfOff

\* A switch that is engaged stays engaged until an operator's release is written: restarts, boots with
\* or without the variable, refreshes and failed commands do not take it off.
EngagedUntilReleased ==
    [][flag = "engaged" /\ flag' # "engaged"
         => \E c \in Commands : /\ kind[c] = "release" /\ command[c] = "persisting"
                                /\ command'[c] = "persisted"]_switchVars

\* A switch the row holds engaged reaches every instance: whatever stale answers, releases that return
\* late and refreshes that fail came before, each instance that has booted ends up showing it
\* (startSync, /api/health).  It says nothing of an engage whose write failed: the next answer takes it off.
EngagedReachesAll ==
    \A i \in Instances : <>[](flag = "engaged" /\ up[i] = "ready") => <>[](cache[i])
=============================================================================
