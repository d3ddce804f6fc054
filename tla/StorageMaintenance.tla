-------------------------- MODULE StorageMaintenance ------------------------
(***************************************************************************)
(* Rollups and retention (storage.py, StorageMaintainer): the history      *)
(* thread commits measurements, possibly some time after they were         *)
(* observed; a maintenance pass aggregates the raw rows into rollups, one  *)
(* level after another and a slice of rows per transaction, and then       *)
(* deletes the raw rows and rollups that have outlived their retention.    *)
(*                                                                         *)
(* A raw row is the tick at which it was observed and stands for the rows  *)
(* of all the signals recorded then, for the code takes the newest rollup  *)
(* over all names.  A rollup is the set of the rows it aggregates: its     *)
(* samples, mean, minimum and maximum are functions of that set.           *)
(***************************************************************************)
EXTENDS Integers, Sequences, FiniteSets, FiniteSetsExt, Functions

CONSTANTS Levels,           \* the periods: 900, 3600 and 86400 s
          Retention,        \* raw_retention_days
          RollupRetention,  \* per level: its retention
          SliceSize,        \* rollups per transaction (200 in the code)
          MaxLate,          \* bound: ticks from observation to commit
          MaxGap,           \* bound: ticks without any observation
          MaxInterval,      \* bound: ticks from the begin of a completed pass to the end of the next
          MaxFailures,      \* bound: passes that fail
          MaxTime           \* bound: the clock

ASSUME MaintenanceAssumption ==
    /\ Levels \in Seq(Nat \ {0}) /\ Levels # <<>>
    /\ Retention \in Nat \ {0}
    /\ RollupRetention \in [DOMAIN Levels -> Nat \ {0}]
    /\ SliceSize \in Nat \ {0}
    /\ MaxLate \in Nat /\ MaxGap \in Nat \ {0} /\ MaxInterval \in Nat \ {0}
    /\ MaxFailures \in Nat /\ MaxTime \in Nat

VARIABLES
    time,       \* wall clock, in ticks
    newest,     \* when the newest row was observed, -1 if none was
    pending,    \* rows observed, not yet committed by the history thread
    raw,        \* table measurements
    rollups,    \* table measurement_rollups: per level, stored period -> rows aggregated
    pass,       \* run_once: where it is, its level, its now, the rollups to write
    begun,      \* when the last completed pass began
    failures,   \* StorageMaintainer.failures
    committed   \* history variable: every row ever committed

dataVars == <<newest, pending, raw, committed>>
vars == <<time, dataVars, rollups, pass, begun, failures>>

Ticks == 0..MaxTime
Period(l, t) == (t \div Levels[l]) * Levels[l]
Starts(l)    == {Period(l, t) : t \in Ticks}
NoRollups    == [p \in {} |-> {}]
Idle         == [pc |-> "idle", level |-> 1, now |-> 0, todo |-> NoRollups]

Init ==
    /\ time = 0
    /\ newest = -1
    /\ pending = {}
    /\ raw = {}
    /\ rollups = [l \in DOMAIN Levels |-> NoRollups]
    /\ pass = Idle
    /\ begun = 0
    /\ failures = 0
    /\ committed = {}
-----------------------------------------------------------------------------
(***************************************************************************)
(* The world: time, devices and the history thread.                        *)
(***************************************************************************)

Tick ==
    /\ time < MaxTime
    /\ time < newest + MaxGap
    /\ time < begun + MaxInterval
    /\ \A t \in pending : time < t + MaxLate
    /\ time' = time + 1
    /\ UNCHANGED <<dataVars, rollups, pass, begun, failures>>

Observe ==
    /\ newest < time
    /\ newest' = time
    /\ pending' = pending \cup {time}
    /\ UNCHANGED <<time, raw, committed, rollups, pass, begun, failures>>

\* A batch of the history thread: after failures older rows may follow newer ones
Commit ==
    /\ \E batch \in (SUBSET pending) \ {{}} :
           /\ pending' = pending \ batch
           /\ raw' = raw \cup batch
           /\ committed' = committed \cup batch
    /\ UNCHANGED <<time, newest, rollups, pass, begun, failures>>
-----------------------------------------------------------------------------
(***************************************************************************)
(* A maintenance pass.                                                     *)
(***************************************************************************)

StartPass ==
    /\ pass.pc = "idle"
    /\ pass' = [Idle EXCEPT !.pc = "aggregate", !.now = time]
    /\ UNCHANGED <<time, dataVars, rollups, begun, failures>>

Stored(l) == DOMAIN rollups[l]
Cutoff(l) == Period(l, pass.now)

Mutant_Since(l) ==
    IF Stored(l) # {} THEN Max(Stored(l)) + Levels[l] ELSE Cutoff(l) - Retention

\* The newest rollup and the one before it are computed anew
Since(l) ==
    IF Stored(l) # {} THEN Max(Stored(l)) - Levels[l] ELSE Cutoff(l) - Retention

Rows(l, p) == {t \in raw : Period(l, t) = p /\ Since(l) <= t /\ t < Cutoff(l)}

\* SELECT ... GROUP BY period_start, name
Groups(l) ==
    LET grouped == {Period(l, t) : t \in {u \in raw : Since(l) <= u /\ u < Cutoff(l)}}
    IN  [p \in grouped |-> Rows(l, p)]

Aggregate ==
    /\ pass.pc = "aggregate"
    /\ pass' = [pass EXCEPT !.pc = "write", !.todo = Groups(pass.level)]
    /\ UNCHANGED <<time, dataVars, rollups, begun, failures>>

\* rows[start : start + 200]: the earliest periods first, as GROUP BY sorts them
Slice ==
    {p \in DOMAIN pass.todo :
        Cardinality({q \in DOMAIN pass.todo : q < p}) < SliceSize}

\* What a table holds after the new rows were written to it
InsertOrReplace(new, stored) ==
    [p \in DOMAIN new \cup DOMAIN stored |-> IF p \in DOMAIN new THEN new[p] ELSE stored[p]]

\* One slice, committed
WriteSlice ==
    /\ pass.pc = "write"
    /\ DOMAIN pass.todo # {}
    /\ rollups' = [rollups EXCEPT ![pass.level] = InsertOrReplace(Restrict(pass.todo, Slice), @)]
    /\ pass' = [pass EXCEPT !.todo = Restrict(@, (DOMAIN @) \ Slice)]
    /\ UNCHANGED <<time, dataVars, begun, failures>>

Mutant_AfterLevel == [pass EXCEPT !.pc = "delete"]

AfterLevel ==
    IF pass.level < Len(Levels)
      THEN [pass EXCEPT !.pc = "aggregate", !.level = @ + 1]
      ELSE [pass EXCEPT !.pc = "delete"]

NextLevel ==
    /\ pass.pc = "write"
    /\ DOMAIN pass.todo = {}
    /\ pass' = AfterLevel
    /\ UNCHANGED <<time, dataVars, rollups, begun, failures>>

\* julianday(observed_at) < julianday('now', '-n days'): now is the time of the delete
Outlived(t, retention) == t < time - retention

Mutant_Kept == {t \in raw : t >= pass.now}

Kept == {t \in raw : ~Outlived(t, Retention)}

\* All the deletes are one transaction
Delete ==
    /\ pass.pc = "delete"
    /\ raw' = Kept
    /\ rollups' = [l \in DOMAIN Levels |->
           Restrict(rollups[l], {p \in Stored(l) : ~Outlived(p, RollupRetention[l])})]
    /\ pass' = Idle
    /\ begun' = pass.now
    /\ UNCHANGED <<time, newest, pending, committed, failures>>

\* sqlite3.Error, or the process ends: what was committed stays, the pass is over
FailPass ==
    /\ pass.pc # "idle"
    /\ failures < MaxFailures
    /\ failures' = failures + 1
    /\ pass' = Idle
    /\ UNCHANGED <<time, dataVars, rollups, begun>>

Next ==
    \/ Tick \/ Observe \/ Commit
    \/ StartPass \/ Aggregate \/ WriteSlice \/ NextLevel \/ Delete \/ FailPass

\* The maintenance thread goes on with its pass and starts the next one, the history
\* thread commits, time passes.
Fairness ==
    /\ WF_vars(Tick)
    /\ WF_vars(Commit)
    /\ WF_vars(StartPass \/ Aggregate \/ WriteSlice \/ NextLevel \/ Delete)

Spec == Init /\ [][Next]_vars /\ Fairness
-----------------------------------------------------------------------------
(***************************************************************************)
(* Properties.                                                             *)
(***************************************************************************)

OfPeriod(l, p) == {t \in Ticks : Period(l, t) = p}

\* Type invariant; a rollup, stored or about to be, aggregates rows of its own period.
TypeOK ==
    /\ time \in Ticks /\ newest \in Ticks \cup {-1} /\ begun \in Ticks
    /\ pending \subseteq Ticks /\ committed \subseteq Ticks /\ raw \subseteq committed
    /\ DOMAIN rollups = DOMAIN Levels
    /\ \A l \in DOMAIN Levels :
           /\ Stored(l) \subseteq Starts(l)
           /\ \A p \in Stored(l) : rollups[l][p] \in (SUBSET OfPeriod(l, p)) \ {{}}
    /\ DOMAIN pass = {"pc", "level", "now", "todo"}
    /\ pass.pc \in {"idle", "aggregate", "write", "delete"}
    /\ pass.level \in DOMAIN Levels /\ pass.now \in 0..time
    /\ DOMAIN pass.todo \subseteq Starts(pass.level)
    /\ \A p \in DOMAIN pass.todo : pass.todo[p] \in (SUBSET OfPeriod(pass.level, p)) \ {{}}
    /\ failures \in 0..MaxFailures

RolledUp(l, t) ==
    \/ Period(l, t) \in Stored(l) /\ t \in rollups[l][Period(l, t)]
    \/ Outlived(Period(l, t), RollupRetention[l])

\* "Build rollups before applying bounded retention": when a raw row is gone, every
\* level still has it in its rollup or has itself reached its retention, whatever passes
\* failed before, between slices or levels, and however late the row was committed
\* (run_once, since and the deletes).
NoSampleLost ==
    \A t \in committed \ raw : \A l \in DOMAIN Levels : RolledUp(l, t)

\* A stored rollup is only ever replaced by one that aggregates the same rows and more:
\* the periods computed anew still have all their raw rows (since, INSERT OR REPLACE).
RollupsNeverShrink ==
    [][\A l \in DOMAIN Levels : \A p \in Stored(l) :
          \/ p \in Stored(l)' /\ rollups[l][p] \subseteq rollups'[l][p]
          \/ Outlived(p, RollupRetention[l])]_vars

\* Rows of periods that have ended and that some level has not rolled up
Backlog == {t \in committed : \E l \in DOMAIN Levels :
                Period(l, t) + Levels[l] <= time /\ ~RolledUp(l, t)}

\* Again and again no row is left out: whatever failed, the passes catch up with every
\* committed row, on every level (run, and since: it begins where the rollups end).
BacklogCleared == []<>(Backlog = {})
=============================================================================
