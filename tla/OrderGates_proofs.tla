------------------------- MODULE OrderGates_proofs -------------------------
(***************************************************************************)
(* Theorems about the two gates an order passes before its handler:        *)
(* Idempotency, for every set of requests and keys, every TTL and any      *)
(* number of faults, provided no handler outlives the TTL; and KillSwitch, *)
(* for every set of instances, orders and commands.                        *)
(***************************************************************************)
EXTENDS Idempotency, KillSwitch, TLAPS

-----------------------------------------------------------------------------
(* Idempotency                                                             *)

\* A request carries one of the keys.
LEMMA KeyInKeys == \A r \in Requests : KeyOf[r] \in Keys
  BY DEF Keys

LEMMA KeysInvInit == Init => IInv
  BY RequestsAssumption, TimesAssumption
  DEF Init, IInv, TypeOK, RowInv, RequestInv, MaybeOutcome, InFlight, Working

LEMMA ClaimInv ==
  ASSUME Timely, IInv, NEW r \in Requests, claim(r)
  PROVE  IInv'
<1> USE KeyInKeys, RequestsAssumption, TimesAssumption
<1> USE DEF IInv, TypeOK, RowInv, RequestInv, MaybeOutcome, InFlight, Working, tableVars, requestVars
<1>1. CASE Claim(r)
  BY <1>1 DEF Claim
<1>2. CASE InsertWins(r)
  BY <1>2 DEF InsertWins, InsertRow, Timely
<1>3. CASE InsertConflicts(r)
  BY <1>3 DEF InsertConflicts
<1>4. CASE Read(r)
  BY <1>4 DEF Read, Tell, Refusals
<1>5. CASE ClaimFails(r)
  BY <1>5 DEF ClaimFails, Tell, Fault, Refusals
<1>6. CASE ClaimAckLost(r)
  BY <1>6 DEF ClaimAckLost, InsertRow, Fault, Refusals
<1>7. QED
  BY <1>1, <1>2, <1>3, <1>4, <1>5, <1>6 DEF claim

LEMMA JsonInv ==
  ASSUME Timely, IInv, NEW r \in Requests, json(r)
  PROVE  IInv'
<1> USE KeyInKeys, RequestsAssumption, TimesAssumption
<1> USE DEF IInv, TypeOK, RowInv, RequestInv, MaybeOutcome, InFlight, Working, tableVars, requestVars
<1>1. CASE Respond(r)
  BY <1>1 DEF Respond
<1>2. CASE Complete(r)
  BY <1>2 DEF Complete
<1>3. CASE CompleteFails(r)
  BY <1>3 DEF CompleteFails, Fault
<1>4. CASE Send(r)
  BY <1>4 DEF Send, Tell
<1>5. QED
  BY <1>1, <1>2, <1>3, <1>4 DEF json

LEMMA KeysEnvironmentInv ==
  ASSUME Timely, IInv, Cleanup \/ CleanupFails \/ Crash \/ Tick \/ UNCHANGED vars
  PROVE  IInv'
<1> USE KeyInKeys, RequestsAssumption, TimesAssumption
<1> USE DEF IInv, TypeOK, RowInv, RequestInv, MaybeOutcome, InFlight, Working, tableVars, requestVars
<1>1. CASE Cleanup
  BY <1>1 DEF Cleanup, Timely
<1>2. CASE CleanupFails
  BY <1>2 DEF CleanupFails, Fault
<1>3. CASE Crash
  BY <1>3 DEF Crash, Fault
<1>4. CASE Tick
  <2>1. /\ UNCHANGED <<status, row, response, phase, outcome, reply, deletes, faults>>
        /\ age' = [k \in Keys |-> IF status[k] # "absent" /\ age[k] < TTL THEN age[k] + 1 ELSE age[k]]
    BY <1>4 DEF Tick
  <2>2. \A k \in Keys : age[k] \in 0..TTL /\ age'[k] \in 0..TTL
    BY <2>1
  <2>3. TypeOK'
    BY <2>1, <2>2
  <2>4. RowInv'
    <3>1. \A k \in Keys : status[k] = "absent" => age'[k] = 0
      BY <2>1
    <3> QED
      BY <2>1, <3>1
  <2>5. RequestInv'
    <3>1. ASSUME NEW r \in Requests, phase[r] \in {"running", "recording"}
          PROVE  age'[KeyOf[r]] <= RequestBound
      <4>1. age[KeyOf[r]] # RequestBound /\ age[KeyOf[r]] <= RequestBound /\ KeyOf[r] \in Keys
        BY <1>4, <3>1 DEF Tick
      <4> QED
        BY <2>1, <2>2, <4>1
    <3> QED
      BY <2>1, <3>1
  <2> QED
    BY <2>3, <2>4, <2>5
<1>5. CASE UNCHANGED vars
  BY <1>5 DEF vars
<1>6. QED
  BY <1>1, <1>2, <1>3, <1>4, <1>5

-----------------------------------------------------------------------------
LEMMA KeysInvNext == ASSUME Timely PROVE IInv /\ [Next]_vars => IInv'
  BY ClaimInv, JsonInv, KeysEnvironmentInv DEF Next

\* The inductive invariant: every row is its owner's, every handler works under its own row.
THEOREM KeysCorrect ==
  ASSUME Timely
  PROVE  Spec => []IInv
  BY KeysInvInit, KeysInvNext, PTL DEF Spec

\* At most one request of a key is inside the order handler, however the INSERTs, clean-ups, failures
\* and crashes fall.
THEOREM OneRun ==
  ASSUME Timely
  PROVE  Spec => []OneRunPerKey
<1>1. IInv => OneRunPerKey
  BY DEF IInv, RequestInv, OneRunPerKey
<1>2. QED
  BY <1>1, KeysCorrect, PTL

\* What a client is told of an order comes from a run of that very order.
THEOREM Replays ==
  ASSUME Timely
  PROVE  Spec => []ReplayIsTrue
<1>1. Init => ReplayIsTrue
  BY RequestsAssumption DEF Init, ReplayIsTrue
<1>2. IInv /\ ReplayIsTrue /\ [Next]_vars => ReplayIsTrue'
  <2> SUFFICES ASSUME IInv, ReplayIsTrue, [Next]_vars
               PROVE  ReplayIsTrue'
    OBVIOUS
  <2> USE KeyInKeys, RequestsAssumption
  <2> USE DEF IInv, TypeOK, RowInv, RequestInv, MaybeOutcome, ReplayIsTrue, tableVars, requestVars
  <2>1. ASSUME NEW r \in Requests, Claim(r) \/ InsertWins(r) \/ InsertConflicts(r)
        PROVE  ReplayIsTrue'
    BY <2>1 DEF Claim, InsertWins, InsertConflicts
  <2>2. ASSUME NEW r \in Requests, Read(r)
        PROVE  ReplayIsTrue'
    BY <2>2 DEF Read, Tell, Refusals
  <2>3. ASSUME NEW r \in Requests, ClaimFails(r) \/ ClaimAckLost(r)
        PROVE  ReplayIsTrue'
    BY <2>3 DEF ClaimFails, ClaimAckLost, Tell, Refusals
  <2>4. ASSUME NEW r \in Requests, Respond(r)
        PROVE  ReplayIsTrue'
    BY <2>4 DEF Respond
  <2>5. ASSUME NEW r \in Requests, Complete(r) \/ CompleteFails(r)
        PROVE  ReplayIsTrue'
    BY <2>5 DEF Complete, CompleteFails
  <2>6. ASSUME NEW r \in Requests, Send(r)
        PROVE  ReplayIsTrue'
    BY <2>6 DEF Send, Tell
  <2>7. CASE Cleanup \/ CleanupFails \/ Crash \/ Tick \/ UNCHANGED vars
    BY <2>7 DEF Cleanup, CleanupFails, Crash, Tick, vars
  <2>8. QED
    BY <2>1, <2>2, <2>3, <2>4, <2>5, <2>6, <2>7 DEF Next, claim, json
<1>3. QED
  BY <1>1, <1>2, KeysCorrect, PTL DEF Spec

-----------------------------------------------------------------------------
LEMMA RefinesInit == Init => Once!Init
  BY DEF Init, Once!Init, Keys, Once!Keys

LEMMA RefinesNext ==
  ASSUME Timely, IInv, [Next]_vars
  PROVE  [Once!Next]_(Once!vars)
<1> USE KeyInKeys, RequestsAssumption, TimesAssumption
<1> USE DEF IInv, TypeOK, RowInv, RequestInv, MaybeOutcome, InFlight, Working, tableVars, requestVars
<1> USE DEF Once!vars, Once!Keys, Keys
<1>1. ASSUME NEW r \in Requests, Claim(r) \/ InsertConflicts(r) \/ Complete(r) \/ CompleteFails(r)
      PROVE  UNCHANGED Once!vars
  BY <1>1 DEF Claim, InsertConflicts, Complete, CompleteFails
<1>2. ASSUME NEW r \in Requests, InsertWins(r)
      PROVE  Once!Start(r)
  BY <1>2 DEF InsertWins, InsertRow, Once!Start
<1>3. ASSUME NEW r \in Requests, ClaimAckLost(r)
      PROVE  Once!Burn(r)
  BY <1>3 DEF ClaimAckLost, InsertRow, Refusals, Once!Burn
<1>4. ASSUME NEW r \in Requests, Read(r)
      PROVE  Once!Replay(r) \/ Once!Refuse(r)
  BY <1>4 DEF Read, Tell, Refusals, Once!Replay, Once!Refuse
<1>5. ASSUME NEW r \in Requests, ClaimFails(r)
      PROVE  Once!Refuse(r)
  BY <1>5 DEF ClaimFails, Tell, Refusals, Once!Refuse
<1>6. ASSUME NEW r \in Requests, Respond(r)
      PROVE  Once!Finish(r)
  BY <1>6 DEF Respond, Once!Finish
<1>7. ASSUME NEW r \in Requests, Send(r)
      PROVE  Once!Answer(r)
  BY <1>7 DEF Send, Tell, Once!Answer
<1>8. CASE Cleanup
  <2>1. row' = [k \in Keys |-> IF k \in {j \in Keys : age[j] >= TTL} THEN None ELSE row[k]]
    BY <1>8 DEF Cleanup
  <2>2. age' = [k \in Keys |-> IF k \in {j \in Keys : age[j] >= TTL} THEN 0 ELSE age[k]]
    BY <1>8 DEF Cleanup
  <2>3. {j \in Keys : age[j] >= TTL} \in SUBSET {k \in Once!Keys : age[k] >= TTL}
    OBVIOUS
  <2>4. UNCHANGED <<outcome, reply>>
    BY <1>8 DEF Cleanup
  <2> HIDE DEF IInv, TypeOK, RowInv, RequestInv, MaybeOutcome, InFlight, Working, tableVars, requestVars
  <2> HIDE DEF Keys
  <2>5. Once!Forget
    BY ONLY <2>1, <2>2, <2>3, <2>4 DEF Once!Forget, Once!Keys, Keys
  <2>6. QED
    BY <2>5 DEF Once!Next
<1>9. CASE Tick
  BY <1>9 DEF Tick, Once!Tick, Once!Next
<1>10. CASE CleanupFails \/ Crash \/ UNCHANGED vars
  BY <1>10 DEF CleanupFails, Crash, vars
<1>11. QED
  BY <1>1, <1>2, <1>3, <1>4, <1>5, <1>6, <1>7, <1>8, <1>9, <1>10 DEF Next, claim, json, Once!Next

\* The table, the middleware and their failures implement the promise of a key.
THEOREM Refines ==
  ASSUME Timely
  PROVE  Spec => ImplementsOncePerKey
  BY KeysCorrect, RefinesInit, RefinesNext, PTL DEF Spec, ImplementsOncePerKey, Once!Spec

-----------------------------------------------------------------------------
(* KillSwitch: no order passes a switch that was on during all of its check, and only a release takes *)
(* the switch off.                                                                                    *)

\* A write keeps the types and tells every check under way.
LEMMA WriteSeen ==
    ASSUME SwitchTypes, CheckInv, NEW v \in FlagValues, Write(v)
    PROVE  /\ flag' \in FlagValues
           /\ seen' \in [Orders -> SUBSET FlagValues]
           /\ \A o \in Orders : seen[o] \subseteq seen'[o]
           /\ \A o \in Orders : order[o] = "checking" => flag' \in seen'[o]
  BY DEF SwitchTypes, CheckInv, Write, FlagValues

\* Setting one flag of a function of flags gives one.
LEMMA SetOneFlag ==
    ASSUME NEW f \in [Instances -> BOOLEAN], NEW i \in Instances, NEW b \in BOOLEAN
    PROVE  [f EXCEPT ![i] = b] \in [Instances -> BOOLEAN]
  OBVIOUS

\* The initial states satisfy the invariant.
LEMMA SwitchInitInv == SwitchInit => SwitchInv
  BY InstancesAssumption DEF SwitchInit, SwitchInv, SwitchTypes, CheckInv, CommandInv, ClearedOnlyIfOff, FlagValues

\* Steps that leave the row, the checks and the commands alone keep the invariant with the types.
LEMMA CacheOnly ==
    ASSUME SwitchInv, SwitchTypes', UNCHANGED <<flagVars, orderVars, commandVars>>
    PROVE  SwitchInv'
  BY DEF SwitchInv, CheckInv, CommandInv, ClearedOnlyIfOff, flagVars, orderVars, commandVars

\* Every step keeps the invariant.
LEMMA SwitchStepInv == SwitchInv /\ [SwitchNext]_switchVars => SwitchInv'
<1> SUFFICES ASSUME SwitchInv, [SwitchNext]_switchVars PROVE SwitchInv'
  OBVIOUS
<1> USE InstancesAssumption, NothingAssumption
<1>t. SwitchTypes /\ CheckInv /\ CommandInv /\ ClearedOnlyIfOff
  BY DEF SwitchInv
<1>1. ASSUME NEW i \in Instances, Listen(i) \/ BootFails(i) \/ InitFails(i) PROVE SwitchInv'
  <2>1. SwitchTypes'
    <3>1. CASE Listen(i)
      <4>1. cache' \in [Instances -> BOOLEAN]
        BY <3>1, <1>t, SetOneFlag DEF Listen, SwitchTypes
      <4> QED
        BY <4>1, <3>1, <1>t DEF Listen, SwitchTypes, flagVars, orderVars, commandVars
    <3>2. CASE BootFails(i) \/ InitFails(i)
      BY <3>2, <1>t DEF BootFails, InitFails, Outage, SwitchTypes, flagVars, orderVars, commandVars
    <3> QED
      BY <1>1, <3>1, <3>2
  <2> QED
    BY <2>1, <1>1, CacheOnly DEF Listen, BootFails, InitFails, flagVars, orderVars, commandVars
<1>2. ASSUME NEW i \in Instances, refresh(i) PROVE SwitchInv'
  <2>1. SwitchTypes'
    <3>1. CASE RefreshApply(i)
      <4>1. Engaged(answer[i], i) \in BOOLEAN
        BY DEF Engaged
      <4>2. cache' \in [Instances -> BOOLEAN]
        BY <3>1, <4>1, <1>t, SetOneFlag DEF RefreshApply, SwitchTypes
      <4> QED
        BY <4>2, <3>1, <1>t DEF RefreshApply, SwitchTypes, flagVars, orderVars, commandVars
    <3>2. CASE RefreshSelect(i) \/ RefreshFails(i)
      BY <3>2, <1>t DEF RefreshSelect, RefreshFails, Outage, SwitchTypes, flagVars, orderVars, commandVars
    <3> QED
      BY <1>2, <3>1, <3>2 DEF refresh
  <2> QED
    BY <2>1, <1>2, CacheOnly DEF refresh, RefreshSelect, RefreshApply, RefreshFails, flagVars, orderVars, commandVars
<1>3. ASSUME NEW i \in Instances, InitRow(i) PROVE SwitchInv'
  <2>1. CASE i \in EnvOn
    <3>1. Write("engaged")
      BY <1>3, <2>1 DEF InitRow
    <3>2. "engaged" \in FlagValues
      BY DEF FlagValues
    <3> QED
      BY <1>3, <1>t, <3>1, <3>2, WriteSeen
      DEF InitRow, SwitchInv, SwitchTypes, CheckInv, CommandInv, ClearedOnlyIfOff, orderVars, commandVars
  <2>2. CASE i \notin EnvOn
    BY <1>3, <1>t, <2>2
    DEF InitRow, SwitchInv, SwitchTypes, CheckInv, CommandInv, ClearedOnlyIfOff, flagVars, orderVars, commandVars
  <2> QED
    BY <2>1, <2>2
<1>4. ASSUME NEW i \in Instances, InstanceStops(i) PROVE SwitchInv'
  <2>1. SwitchTypes'
    BY <1>4, <1>t DEF InstanceStops, Outage, SwitchTypes, flagVars
  <2>2. /\ UNCHANGED <<flag, seen, got, kind>>
        /\ \A o \in Orders : order'[o] = order[o] \/ order'[o] = "dead"
        /\ \A c \in Commands : command[c] = "idle" => command'[c] = "idle"
    BY <1>4, <1>t DEF InstanceStops, SwitchTypes, flagVars
  <2>3. CheckInv'
    BY <2>2, <1>t DEF CheckInv
  <2>4. CommandInv'
    BY <2>2, <1>t DEF CommandInv
  <2>5. ClearedOnlyIfOff'
    BY <2>2, <1>t DEF ClearedOnlyIfOff
  <2> QED
    BY <2>1, <2>3, <2>4, <2>5 DEF SwitchInv
<1>5. ASSUME NEW o \in Orders, CheckStart(o) PROVE SwitchInv'
  BY <1>5, <1>t
  DEF CheckStart, SwitchInv, SwitchTypes, CheckInv, CommandInv, ClearedOnlyIfOff, instanceVars, commandVars
<1>6. ASSUME NEW o \in Orders, CheckSelect(o) PROVE SwitchInv'
  BY <1>6, <1>t
  DEF CheckSelect, SwitchInv, SwitchTypes, CheckInv, CommandInv, ClearedOnlyIfOff, flagVars, instanceVars, commandVars
<1>7. ASSUME NEW o \in Orders, CheckApply(o) PROVE SwitchInv'
  <2>1. SwitchTypes'
    BY <1>7, <1>t DEF CheckApply, Engaged, SwitchTypes, flagVars, commandVars
  <2>2. order'[o] = "cleared" => ~Engaged(got[o], At[o])
    BY <1>7, <1>t DEF CheckApply, Engaged, SwitchTypes
  <2> QED
    BY <2>1, <2>2, <1>7, <1>t
    DEF CheckApply, SwitchInv, SwitchTypes, CheckInv, CommandInv, ClearedOnlyIfOff, flagVars, commandVars
<1>8. ASSUME NEW o \in Orders, CheckFails(o) PROVE SwitchInv'
  BY <1>8, <1>t
  DEF CheckFails, Outage, SwitchInv, SwitchTypes, CheckInv, CommandInv, ClearedOnlyIfOff, flagVars, instanceVars, commandVars
<1>9. ASSUME NEW c \in Commands, Engage(c) \/ Release(c) \/ PersistFails(c) \/ SetReturns(c) PROVE SwitchInv'
  <2>1. SwitchTypes'
    <3>1. CASE Engage(c) \/ SetReturns(c)
      <4>1. cache' \in [Instances -> BOOLEAN]
        BY <3>1, <1>t, SetOneFlag DEF Engage, SetReturns, SwitchTypes
      <4> QED
        BY <4>1, <3>1, <1>t DEF Engage, SetReturns, SwitchTypes, flagVars, orderVars
    <3>2. CASE Release(c) \/ PersistFails(c)
      BY <3>2, <1>t DEF Release, PersistFails, Outage, SwitchTypes, flagVars, instanceVars, orderVars
    <3> QED
      BY <1>9, <3>1, <3>2
  <2>2. UNCHANGED <<flagVars, orderVars>>
    BY <1>9 DEF Engage, Release, PersistFails, SetReturns
  <2>3. CommandInv'
    BY <1>9, <1>t DEF Engage, Release, PersistFails, SetReturns, CommandInv, SwitchTypes
  <2> QED
    BY <2>1, <2>2, <2>3, <1>t DEF SwitchInv, CheckInv, ClearedOnlyIfOff, flagVars, orderVars
<1>10. ASSUME NEW c \in Commands, Persist(c) PROVE SwitchInv'
  <2> DEFINE v == IF kind[c] = "engage" THEN "engaged" ELSE "released"
  <2>1. v \in FlagValues /\ Write(v)
    BY <1>10 DEF Persist, FlagValues
  <2> HIDE DEF v
  <2>2. UNCHANGED <<instanceVars, orderVars, kind, outages>> /\ command' = [command EXCEPT ![c] = "persisted"]
        /\ command[c] = "persisting"
    BY <1>10 DEF Persist
  <2> QED
    BY <2>1, <2>2, <1>t, WriteSeen
    DEF SwitchInv, SwitchTypes, CheckInv, CommandInv, ClearedOnlyIfOff, instanceVars, orderVars
<1>11. CASE UNCHANGED switchVars
  BY <1>11, <1>t
  DEF switchVars, flagVars, instanceVars, orderVars, commandVars, SwitchInv, SwitchTypes, CheckInv, CommandInv, ClearedOnlyIfOff
<1> QED
  BY <1>1, <1>2, <1>3, <1>4, <1>5, <1>6, <1>7, <1>8, <1>9, <1>10, <1>11 DEF SwitchNext, boot, isEngagedFresh, set

\* Types, checks and commands agree in every reachable state.
THEOREM SwitchCorrect == SwitchSpec => []SwitchInv
  BY SwitchInitInv, SwitchStepInv, PTL DEF SwitchSpec

\* isEngagedFresh: an order passes only if the shared switch was off at a moment of its check.
THEOREM OrdersStop == SwitchSpec => []ClearedOnlyIfOff
<1>1. SwitchInv => ClearedOnlyIfOff
  BY DEF SwitchInv
<1> QED
  BY <1>1, SwitchCorrect, PTL

\* init, refresh and set: only the write of a release takes an engaged switch off.
THEOREM StaysEngaged == SwitchSpec => EngagedUntilReleased
<1> DEFINE Step == flag = "engaged" /\ flag' # "engaged"
                     => \E c \in Commands : /\ kind[c] = "release" /\ command[c] = "persisting"
                                            /\ command'[c] = "persisted"
<1>1. SwitchInv /\ [SwitchNext]_switchVars => [Step]_switchVars
  <2> SUFFICES ASSUME SwitchInv, SwitchNext, flag = "engaged", flag' # "engaged"
               PROVE  \E c \in Commands : /\ kind[c] = "release" /\ command[c] = "persisting"
                                          /\ command'[c] = "persisted"
    BY DEF switchVars
  <2>1. PICK c \in Commands : Persist(c)
    BY DEF SwitchNext, boot, refresh, isEngagedFresh, set, Listen, BootFails, InitRow, InitFails, RefreshSelect,
        RefreshApply, RefreshFails, CheckStart, CheckSelect, CheckApply, CheckFails, Engage, Release,
        PersistFails, SetReturns, InstanceStops, Write, flagVars
  <2>2. kind[c] = "release" /\ command[c] = "persisting" /\ command'[c] = "persisted"
    BY <2>1, NothingAssumption DEF Persist, Write, SwitchInv, SwitchTypes, CommandInv
  <2> QED
    BY <2>1, <2>2
<1> QED
  BY <1>1, SwitchCorrect, PTL DEF SwitchSpec, EngagedUntilReleased
=============================================================================
