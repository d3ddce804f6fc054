------------------------- MODULE FinancialAccounting ------------------------
(***************************************************************************)
(* The cost ledger (accounting.py, FinancialAccountingWorker): every run   *)
(* prices the minutes of grid power that have ended since the newest one   *)
(* it has recorded, commits them together, and then applies the daily      *)
(* adjustments of the days it touched, each in a transaction of its own.   *)
(* The rows it reads are committed by the history thread, possibly after   *)
(* their minute has ended.                                                 *)
(*                                                                         *)
(* A row of grid.active_power is [minute, part, power]; energies are in    *)
(* units of that power held for a minute, and the two export prices are    *)
(* told apart by the energy that earned the higher one.                    *)
(***************************************************************************)
EXTENDS Integers, FiniteSets, FiniteSetsExt, Functions

CONSTANTS DayLength,     \* minutes of a local day
          HourLength,    \* minutes of an hour, 60
          WindowHours,   \* local hours of super export and of ZEROHERO, 18..20
          Cap,           \* energy of a day that earns the super-export price, 15 kWh
          Allowance,     \* import of a window hour that keeps the credit, 0.03 kWh
          Retention,     \* raw_retention_days
          Powers,        \* grid power: positive is import
          Parts,         \* the rows of a minute, as a set of positions
          MaxLate,       \* bound: minutes from observation to commit
          MaxInterval,   \* bound: minutes of which no run has read the end
          MaxFailures,   \* bound: runs that fail
          MaxTime        \* bound: the clock, in minutes

ASSUME AccountingAssumption ==
    /\ DayLength \in Nat \ {0} /\ HourLength \in Nat \ {0}
    /\ WindowHours \subseteq Nat
    /\ Cap \in Nat /\ Allowance \in Nat /\ Retention \in Nat \ {0}
    /\ Powers \subseteq Int /\ Parts \subseteq Nat \ {0} /\ IsFiniteSet(Parts)
    /\ MaxLate \in Nat /\ MaxInterval \in Nat \ {0}
    /\ MaxFailures \in Nat /\ MaxTime \in Nat

VARIABLES
    time,         \* the clock's minute
    next,         \* the next row to observe: its minute and part
    pending,      \* rows observed, not yet committed by the history thread
    raw,          \* table measurements
    ledger,       \* table financial_intervals: minute -> rows, energies, premium
    adjustments,  \* table financial_adjustments: the (date, kind) recorded
    run,          \* run_once: where it is, its until and since, what it has yet to do
    failures,     \* FinancialAccountingWorker.failures
    read,         \* history variable: the minutes before it were read by some run
    late,         \* history variable: rows committed when their minute had been read
    interrupted   \* history variable: days whose adjustments a failure cut off

historyThread == <<next, pending, raw, late>>
tables == <<ledger, adjustments>>
vars == <<time, historyThread, tables, run, failures, read, interrupted>>

Minutes  == 0..MaxTime
Day(m)   == m \div DayLength
Hour(m)  == (m % DayLength) \div HourLength
Days     == {Day(m) : m \in Minutes}
Window(d) == {m \in (d * DayLength)..((d + 1) * DayLength - 1) : Hour(m) \in WindowHours}

Nothing == [m \in {} |-> {}]
Idle    == [pc |-> "idle", since |-> 0, until |-> 0, todo |-> Nothing, days |-> {}]

Init ==
    /\ time = 0
    /\ next = [minute |-> 0, part |-> 1]
    /\ pending = {}
    /\ raw = {}
    /\ ledger = Nothing
    /\ adjustments = {}
    /\ run = Idle
    /\ failures = 0
    /\ read = 0
    /\ late = {}
    /\ interrupted = {}
-----------------------------------------------------------------------------
(***************************************************************************)
(* Time, the meter and the history thread.                                 *)
(***************************************************************************)

Tick ==
    /\ time < MaxTime
    /\ time < read + MaxInterval
    /\ \A r \in pending : time < r.minute + MaxLate
    /\ time' = time + 1
    /\ next' = [minute |-> time', part |-> 1]
    /\ UNCHANGED <<pending, raw, late, tables, run, failures, read, interrupted>>

\* Not in the last minute, which never ends
Observe ==
    /\ time < MaxTime
    /\ next.part \in Parts
    /\ \E power \in Powers :
           pending' = pending \cup {[minute |-> time, part |-> next.part, power |-> power]}
    /\ next' = [next EXCEPT !.part = @ + 1]
    /\ UNCHANGED <<time, raw, late, tables, run, failures, read, interrupted>>

\* A batch of the history thread
Commit ==
    /\ \E batch \in (SUBSET pending) \ {{}} :
           /\ pending' = pending \ batch
           /\ raw' = raw \cup batch
           /\ late' = late \cup {r \in batch : r.minute < read}
    /\ UNCHANGED <<time, next, tables, run, failures, read, interrupted>>
-----------------------------------------------------------------------------
(***************************************************************************)
(* A run.  The ledger and the adjustments have no other writer, so what it *)
(* reads of them stays true until it writes; the rows do not.              *)
(***************************************************************************)

Mutant_Since == IF ledger = Nothing THEN time - Retention ELSE Max(DOMAIN ledger)

Mutant_LastMinute == time - 1

\* The minute after the newest one recorded, retention permitting
Since ==
    LET oldest == time - Retention
    IN  IF ledger = Nothing THEN oldest ELSE Max({Max(DOMAIN ledger) + 1, oldest})

\* run_once past its early return, which leaves everything as it is
StartRun ==
    /\ run.pc = "idle"
    /\ Since < time
    /\ run' = [Idle EXCEPT !.pc = "read", !.since = Since, !.until = time]
    /\ UNCHANGED <<time, historyThread, tables, failures, read, interrupted>>

Mean(rows)     == SumFunction([r \in rows |-> r.power]) \div Cardinality(rows)
Imported(rows) == Max({0, Mean(rows)})
Exported(rows) == Max({0, -Mean(rows)})

Bucket(m) == {r \in raw : r.minute = m}
Buckets   == {r.minute : r \in {q \in raw : run.since <= q.minute /\ q.minute < run.until}}

Mutant_SuperExportBefore(m) ==
    SumFunction([n \in (DOMAIN ledger) \cap Window(Day(m)) |-> ledger[n].exported])

\* day["super_export_kwh"]: what the day has exported in its window before minute m,
\* as recorded and then counted on by the loop over the buckets
SuperExportBefore(m) ==
    SumFunction([n \in (DOMAIN ledger) \cap Window(Day(m)) |-> ledger[n].exported])
    + SumFunction([n \in {n \in Buckets \cap Window(Day(m)) : n < m} |-> Exported(Bucket(n))])

\* The part of the minute's export that earns the super-export price
Premium(m) ==
    IF m \in Window(Day(m))
      THEN Min({Exported(Bucket(m)), Max({0, Cap - SuperExportBefore(m)})})
      ELSE 0

Interval(m) ==
    [rows |-> Bucket(m), imported |-> Imported(Bucket(m)), exported |-> Exported(Bucket(m)),
     premium |-> Premium(m)]

\* by_day
Touched == {Day(m) : m \in Buckets}

\* One query, and the pricing of what it returns
ReadBuckets ==
    /\ run.pc = "read"
    /\ read' = Max({read, run.until})
    /\ IF Buckets = {}
         THEN run' = Idle
         ELSE run' = [pc |-> "record", since |-> 0, until |-> run.until,
                      todo |-> [m \in Buckets |-> Interval(m)], days |-> Touched]
    /\ UNCHANGED <<time, historyThread, tables, failures, interrupted>>

\* INSERT OR REPLACE
InsertOrReplace(new, stored) ==
    [m \in (DOMAIN stored) \cup (DOMAIN new) |-> IF m \in DOMAIN new THEN new[m] ELSE stored[m]]

\* record_financial_intervals: one transaction
RecordIntervals ==
    /\ run.pc = "record"
    /\ ledger' = InsertOrReplace(run.todo, ledger)
    /\ run' = [run EXCEPT !.pc = "supply", !.todo = Nothing]
    /\ UNCHANGED <<time, historyThread, adjustments, failures, read, interrupted>>

\* _apply_daily_adjustments of the first day left: the supply charge, in a transaction
ChargeSupply ==
    /\ run.pc = "supply"
    /\ adjustments' = adjustments \cup {<<Min(run.days), "daily_supply">>}
    /\ run' = [run EXCEPT !.pc = "credit"]
    /\ UNCHANGED <<time, historyThread, ledger, failures, read, interrupted>>

Recorded(d, h) == {m \in DOMAIN ledger : Day(m) = d /\ Hour(m) = h}

ImportOf(d, h) == SumFunction([m \in Recorded(d, h) |-> ledger[m].imported])

Mutant_Earned(d) == \A h \in WindowHours : ImportOf(d, h) <= Allowance

Earned(d) ==
    \A h \in WindowHours :
        /\ Cardinality(Recorded(d, h)) >= HourLength
        /\ ImportOf(d, h) <= Allowance

WindowComplete(d) == run.until > Max(Window(d))

\* ... and the credit, in another
GrantCredit ==
    LET d == Min(run.days)
        rest == run.days \ {d}
    IN  /\ run.pc = "credit"
        /\ adjustments' = IF WindowComplete(d) /\ Earned(d)
                            THEN adjustments \cup {<<d, "zerohero_credit">>}
                            ELSE adjustments
        /\ run' = IF rest = {} THEN Idle ELSE [run EXCEPT !.pc = "supply", !.days = rest]
        /\ UNCHANGED <<time, historyThread, ledger, failures, read, interrupted>>

\* An exception in run_once, or the process ends: what was committed stays
FailRun ==
    /\ run.pc # "idle"
    /\ failures < MaxFailures
    /\ failures' = failures + 1
    /\ interrupted' = IF run.pc \in {"supply", "credit"} THEN interrupted \cup run.days
                                                         ELSE interrupted
    /\ run' = Idle
    /\ UNCHANGED <<time, historyThread, tables, read>>

RunStep ==
    StartRun \/ ReadBuckets \/ RecordIntervals \/ ChargeSupply \/ GrantCredit

Next ==
    \/ Tick \/ Observe \/ Commit
    \/ StartRun \/ ReadBuckets \/ RecordIntervals \/ ChargeSupply \/ GrantCredit
    \/ FailRun

\* The worker starts run after run and goes on with each, the history thread commits,
\* time passes.
Fairness == WF_vars(Tick) /\ WF_vars(Commit) /\ WF_vars(RunStep)

Spec == Init /\ [][Next]_vars /\ Fairness
-----------------------------------------------------------------------------
(***************************************************************************)
(* Properties.                                                             *)
(***************************************************************************)

Intervals(L) ==
    \A m \in DOMAIN L :
        /\ m \in Minutes
        /\ L[m].rows # {} /\ \A r \in L[m].rows : r \in raw /\ r.minute = m
        /\ L[m].imported \in Nat /\ L[m].exported \in Nat
        /\ L[m].premium \in 0..L[m].exported

\* Type invariant; an interval is priced from rows of its minute, at most one of its
\* energies is positive and no more earns the super-export price than was exported.
TypeOK ==
    /\ time \in Minutes /\ read \in Minutes
    /\ next.minute = time /\ next.part \in Nat
    /\ late \subseteq raw /\ raw \cap pending = {}
    /\ \A r \in raw \cup pending : r.minute \in 0..time /\ r.power \in Powers
    /\ Intervals(ledger) /\ Intervals(run.todo)
    /\ adjustments \subseteq Days \X {"daily_supply", "zerohero_credit"}
    /\ DOMAIN run = {"pc", "since", "until", "todo", "days"}
    /\ run.pc \in {"idle", "read", "record", "supply", "credit"}
    /\ run.until \in 0..time /\ run.days \subseteq Days
    /\ run.pc \in {"record", "supply", "credit"} => run.days # {}
    /\ failures \in 0..MaxFailures /\ interrupted \subseteq Days

\* An auditable ledger: a recorded minute is never priced again, whatever rows are
\* committed later and wherever a run failed (run_once, since; INSERT OR REPLACE).
LedgerAppendOnly ==
    [][\A m \in DOMAIN ledger : m \in DOMAIN ledger' /\ ledger'[m] = ledger[m]]_vars

\* Over all the runs of a day the super-export price is paid for the day's export in the
\* window up to the cap, and for exactly that much (run_once, day["super_export_kwh"],
\* re-read from the ledger by every run).
CapRespected ==
    \A d \in Days :
        LET window == (DOMAIN ledger) \cap Window(d)
        IN  SumFunction([m \in window |-> ledger[m].premium])
              = Min({Cap, SumFunction([m \in window |-> ledger[m].exported])})

\* The ZEROHERO credit is granted only for a window of which every minute is in the
\* ledger and no hour imported more than the allowance, and that stays so
\* (_apply_daily_adjustments, earned and window_complete).
CreditEarned ==
    \A d \in Days :
        <<d, "zerohero_credit">> \in adjustments =>
            Window(d) \subseteq DOMAIN ledger /\ Earned(d)

\* Between runs every day in the ledger has its supply charge, and the credit if it has
\* earned it, unless a failure cut off its adjustments (run_once, the loop over by_day).
AdjustedUnlessInterrupted ==
    run.pc = "idle" =>
        \A d \in {Day(m) : m \in DOMAIN ledger} \ interrupted :
            /\ <<d, "daily_supply">> \in adjustments
            /\ Earned(d) /\ Window(d) \subseteq DOMAIN ledger
                 => <<d, "zerohero_credit">> \in adjustments

Accounted(r) == r.minute \in DOMAIN ledger /\ r \in ledger[r.minute].rows

\* Again and again every row of an ended minute is in the ledger, except the rows
\* committed when their minute had been read (run, run_once).
RowsAccounted == []<>(\A r \in raw \ late : r.minute < time => Accounted(r))

\* "Return complete UTC-minute averages for financial accounting" (storage.py:1363): a
\* recorded interval averages all the rows of its minute (grid_minute_buckets, until).
CompleteMinutes ==
    \A m \in DOMAIN ledger : ledger[m].rows = {r \in raw \cup pending : r.minute = m}

\* The summary "includes daily supply and earned ZEROHERO credit" (storage.py:1717):
\* every day in the ledger that is over has its supply charge in the end.
SupplyCharged ==
    \A d \in Days :
        ((\E m \in DOMAIN ledger : Day(m) = d) /\ Day(time) > d)
            ~> (<<d, "daily_supply">> \in adjustments)
=============================================================================
