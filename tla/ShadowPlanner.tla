---------------------------- MODULE ShadowPlanner ----------------------------
(***************************************************************************)
(* OptimisationWorker (optimisation.py): one call of plan_once after the   *)
(* other, each with the simulation of BatteryPlan inside, the plan it      *)
(* publishes and what plan_history and prediction_points keep of it        *)
(* (storage.py).                                                           *)
(*                                                                         *)
(* A tick is an hour.  Inputs are what plan_once reads: the measurements,  *)
(* the PV forecast, the load profile, how well both have done, and from    *)
(* the configuration, which a restart may change, the horizon.  The        *)
(* short-term load correction and the wording of reasons are left out.     *)
(* sqlite3.Error may come with every database call, and the process may be *)
(* killed at any step.                                                     *)
(***************************************************************************)
EXTENDS BatteryPlan

CONSTANTS Inputs,           \* what plan_once may find, horizon_hours included
          Schedule,         \* native_schedule, the owner's recurring windows
          Confirmed,        \* native_schedule_confirmed
          Untrusted,        \* stored energy at untrusted_reserve_soc_percent
          FullScore,        \* the score of full confidence
          ArchiveInterval,  \* 3: hours between unchanged plans and between vintages
          FirstHour,        \* the hour of the day the clock starts at
          MaxClock, MaxPlans  \* bounds

ASSUME WorkerAssumption ==
    /\ {Untrusted, FirstHour, MaxClock, MaxPlans} \subseteq Nat
    /\ {FullScore, ArchiveInterval} \subseteq Nat \ {0}

VARIABLES
    clock,      \* hours since the first one
    pc,         \* the worker: "wait", "simulate", "record_plan", "load", "native", "shadow", "ended"
    input,      \* what this plan_once has read
    count,      \* plans generated; the number of the last one stands for its generated_at
    published,  \* PlanStore
    recorded,   \* nothing failed since _publish began
    history,    \* the last row of plan_history
    vintages    \* prediction_points

workerVars == <<clock, pc, input, count, published, recorded, history, vintages>>
allVars    == <<workerVars, vars>>

-----------------------------------------------------------------------------
(* plan_once, up to the simulation. *)

HourOf(c) == (FirstHour + c) % 24
DayOf(c)  == (FirstHour + c) \div 24

\* Buckets without a PV point count as night.
PvAt(in, hour) == IF hour \in DOMAIN in.pv THEN in.pv[hour] ELSE 0

SlotAt(in, c) ==
    [day |-> DayOf(c), hour |-> HourOf(c), pv |-> PvAt(in, HourOf(c)),
     load   |-> IF HourOf(c) \in DOMAIN in.profile THEN in.profile[HourOf(c)] ELSE in.load,
     margin |-> IF HourOf(c) \in DOMAIN in.profile THEN 0 ELSE (3 * in.load) \div 10]

Planned(in, c) == c .. c + in.horizon - 1

\* Points are at the start of their hour.  Those from now to the cutoff count, and a bucket
\* without one between the first and the last of its local day is missing.
MissingDaylight(in, c) ==
    LET lit == {k \in Planned(in, c) : HourOf(k) \in DOMAIN in.pv}
    IN  \E k \in Planned(in, c) \ lit, a, b \in lit :
            DayOf(a) = DayOf(k) /\ DayOf(b) = DayOf(k) /\ a < k /\ k < b

\* forecast_confidence: the weaker of load and PV, each its evidence times its accuracy.
Score(in) == Least(in.loadEvidence * in.loadAccuracy, in.pvEvidence * in.pvAccuracy) \div FullScore

EffectiveReserve(in) ==
    LET most == Least(MaxStored, Untrusted)
    IN  MinStored + ((most - MinStored) * (FullScore - Score(in))) \div FullScore

\* _native_baseline; a run mode that is not fresh counts as 4.
NativeMode(in) ==
    LET mode == IF in.runMode \in Nat THEN in.runMode ELSE 4
    IN  CASE Schedule # {} /\ mode \in {2, 4} -> "custom_self_consumption"
          [] mode = 2 -> "self_consumption"
          [] mode = 3 -> "reserve"
          [] mode = 4 -> "custom_self_consumption"
          [] OTHER    -> "unknown"

ScenarioOf(in, c) ==
    [slots |-> [k \in 1 .. in.horizon |-> SlotAt(in, c + k - 1)],
     stored |-> in.stored, reserve |-> EffectiveReserve(in),
     min |-> in.lower, max |-> Most(in.lower, in.upper),
     mode |-> NativeMode(in), power |-> 0, schedule |-> Schedule]

\* What the simulation assumes of its scenarios holds of those it is given.
ASSUME InputAssumption ==
    /\ Scenarios # {}
    /\ \A in \in Inputs, c \in 0 .. MaxClock : ScenarioOf(in, c) \in Scenarios

-----------------------------------------------------------------------------
(* The plan that comes of it. *)

\* An active native window must show in the direction and the power read back.
WindowMismatch(in, c) == (\E w \in Schedule : Active(w, HourOf(c))) /\ ~in.readback

Reasons(in, c, improvement) ==
    {r \in {"pv_gate", "profile", "load_accuracy", "daylight", "schedule", "readback", "no_gain"} :
       CASE r = "pv_gate"       -> ~in.pvReady
         [] r = "profile"       -> \E k \in Planned(in, c) : HourOf(k) \notin DOMAIN in.profile
         [] r = "load_accuracy" -> ~in.loadReady
         [] r = "daylight"      -> MissingDaylight(in, c)
         [] r = "schedule"      -> NativeMode(in) = "custom_self_consumption" /\ ~Confirmed
         [] r = "readback"      -> WindowMismatch(in, c)
         [] r = "no_gain"       -> improvement <= 0}

PlanStatus(reasons, feasible) ==
    IF ~feasible THEN "infeasible"
    ELSE IF reasons = {} THEN "ready"
    ELSE IF reasons = {"no_gain"} THEN "no_change" ELSE "learning"

-----------------------------------------------------------------------------
(* The worker. *)

\* A plan as the history tells it apart: status, reason, the first slot's action.
NoAction == {[status |-> "no_action", reason |-> {r}, action |-> "none"] :
                r \in {"measurement", "forecast"}}

Starting == [id |-> 0, at |-> 0, key |-> [status |-> "starting", reason |-> {}, action |-> "none"]]

NoInput == [view |-> CHOOSE in \in Inputs : TRUE, at |-> 0]

ForgetSearch ==
    /\ scenario' = CHOOSE sc \in Scenarios : TRUE
    /\ stage' = "idle" /\ native' = <<>> /\ nodes' = {} /\ depth' = 0 /\ plan' = NoPlan
    /\ input' = NoInput

WorkerInit ==
    /\ scenario = CHOOSE sc \in Scenarios : TRUE
    /\ stage = "idle" /\ native = <<>> /\ nodes = {} /\ depth = 0 /\ plan = NoPlan
    /\ clock = 0 /\ pc = "wait" /\ input = NoInput /\ count = 0
    /\ published = Starting /\ recorded = TRUE
    /\ history = Starting /\ vintages = {}

\* A simulation does not last hours.
Tick ==
    /\ clock < MaxClock /\ pc # "simulate"
    /\ clock' = clock + 1
    /\ UNCHANGED <<pc, input, count, published, recorded, history, vintages, vars>>

\* plans.replace; the database comes after.
Publish(key) ==
    /\ count' = count + 1
    /\ published' = [id |-> count + 1, at |-> clock, key |-> key]
    /\ recorded' = TRUE
    /\ pc' = "record_plan"

\* A required measurement is not good, or the forecast not "ok".
PlanNothing ==
    /\ pc = "wait" /\ count < MaxPlans
    /\ \E key \in NoAction : Publish(key)
    /\ UNCHANGED <<clock, input, history, vintages, vars>>

PlanOnce ==
    /\ pc = "wait" /\ count < MaxPlans
    /\ \E in \in Inputs : /\ input' = [view |-> in, at |-> clock]
                          /\ Begin(ScenarioOf(in, clock))
    /\ pc' = "simulate"
    /\ UNCHANGED <<clock, count, published, recorded, history, vintages>>

\* The load profile, its correction and its quality are read unguarded.
PlanEnds ==
    /\ pc = "wait" /\ count < MaxPlans
    /\ pc' = "ended"
    /\ UNCHANGED <<clock, input, count, published, recorded, history, vintages, vars>>

Simulate ==
    /\ pc = "simulate"
    /\ SearchStep
    /\ UNCHANGED workerVars

PublishPlan ==
    /\ pc = "simulate" /\ stage = "done"
    /\ LET reasons == Reasons(input.view, input.at, plan.improvement)
       IN  Publish([status |-> PlanStatus(reasons, plan.feasible), reason |-> reasons,
                    action |-> plan.path[1].action])
    /\ ForgetSearch
    /\ UNCHANGED <<clock, history, vintages>>

\* _publish counts the failure and leaves it at that.
RecordFails ==
    /\ pc \in {"record_plan", "latest", "load", "native", "shadow"}
    /\ pc' = "wait"
    /\ recorded' = FALSE
    /\ UNCHANGED <<clock, input, count, published, history, vintages, vars>>

\* Mutant for HistoryFaithful: plans are compared by their status only.
Mutant_Unchanged == history.id # 0 /\ history.key.status = published.key.status

Unchanged == history.id # 0 /\ history.key = published.key

RecordPlan ==
    /\ pc = "record_plan"
    /\ history' = IF Unchanged /\ published.at - history.at < ArchiveInterval
                    THEN history ELSE published
    /\ pc' = IF published.key.action = "none" THEN "wait" ELSE "latest"
    /\ UNCHANGED <<clock, input, count, published, recorded, vintages, vars>>

Parts == {"load", "native", "shadow"}

\* latest_prediction_issue goes by the vintages that have all their parts.
Complete == {v \in vintages : \A p \in Parts : [v EXCEPT !.part = p] \in vintages}

\* Mutant for VintagesRegular: any part counts as a vintage.
Mutant_CheckLatest ==
    /\ pc = "latest"
    /\ pc' = IF \E v \in vintages : published.at - v.at < ArchiveInterval THEN "wait" ELSE "load"
    /\ UNCHANGED <<clock, input, count, published, recorded, history, vintages, vars>>

CheckLatest ==
    /\ pc = "latest"
    /\ pc' = IF \E v \in Complete : published.at - v.at < ArchiveInterval THEN "wait" ELSE "load"
    /\ UNCHANGED <<clock, input, count, published, recorded, history, vintages, vars>>

\* Three transactions.
RecordPart(part, next) ==
    /\ pc = part
    /\ vintages' = vintages \cup {[id |-> published.id, at |-> published.at, part |-> part]}
    /\ pc' = next
    /\ UNCHANGED <<clock, input, count, published, recorded, history, vars>>

RecordPredictions ==
    RecordPart("load", "native") \/ RecordPart("native", "shadow") \/ RecordPart("shadow", "wait")

\* The process is killed and started again.
Crash ==
    /\ pc' = "wait"
    /\ ForgetSearch
    /\ published' = Starting /\ recorded' = TRUE
    /\ UNCHANGED <<clock, count, history, vintages>>

WorkerNext == \/ Tick \/ PlanNothing \/ PlanOnce \/ PlanEnds \/ Simulate \/ PublishPlan
              \/ RecordFails \/ RecordPlan \/ CheckLatest \/ RecordPredictions \/ Crash

WorkerSpec == WorkerInit /\ [][WorkerNext]_allVars

-----------------------------------------------------------------------------
(* Properties *)

\* docs/data-quality-and-forecasting.md: plan "history retains every status/current-action
\* transition plus an unchanged three-hour checkpoint".  When nothing of the last publication
\* failed, the last row says what is published and is younger than the interval, whatever
\* failed or was killed before.
HistoryFaithful ==
    pc = "wait" /\ recorded /\ published.id # 0 =>
        /\ history.key = published.key
        /\ published.at - history.at < ArchiveInterval

\* A plan with recommendations whose publication did not fail leaves a whole vintage younger
\* than the interval: one that was cut short by an error or a kill is made up for.  Two whole
\* vintages are never closer than the interval.
VintagesRegular ==
    /\ pc = "wait" /\ recorded /\ published.key.action # "none" =>
           \E v \in Complete : published.at - v.at < ArchiveInterval
    /\ \A v, w \in Complete : v.id < w.id => w.at - v.at >= ArchiveInterval
=============================================================================
