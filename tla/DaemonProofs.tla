----------------------------- MODULE DaemonProofs -----------------------------
(***************************************************************************)
(* Theorems about the daemon and about the ledger that its accounting      *)
(* thread keeps.  The daemon, for any threads in any order: which of them  *)
(* may still run when stop() puts its sentinel, and when the events of the *)
(* Solis check are recorded.  The ledger, for all lengths of days, hours   *)
(* and windows, all powers, lateness and failures: it only grows, keeps    *)
(* the cap on super-export energy, and grants credits that were earned.    *)
(***************************************************************************)
EXTENDS DaemonLifecycle, FinancialAccounting, SetLemmas, TLAPS

(***************************************************************************)
(* Start, stop and the monitor (DaemonLifecycle).                          *)
(***************************************************************************)

\* A stop happens once, and until it has returned every thread that was started is in
\* Daemon.threads but the one about to be entered there.
OneStop ==
    /\ thread \in [Threads -> {"none", "running", "ended"}]
    /\ serving => thread["api"] # "none"
    /\ stopping \notin {"none", "set"} => stop_event
    /\ ~stop_event \/ stopping # "none" =>
          \A t \in Threads : thread[t] # "none" =>
             t \in threads \/ (main = "register" /\ t = Order[created])

\* The joins done so far.
Joined ==
    /\ stopping \in {"join", "sentinel"} =>
          \A t \in threads \ {"history"} :
             t \in joining \/ t \in gave_up \/ (t \in Threads => thread[t] = "ended")
    /\ stopping = "sentinel" => joining = {}

StopInv == OneStop /\ Joined

\* The monitor's two fields agree with the last event and with the rounds gone by.
Ages == /\ mismatch_age \in -1 .. Duration
        /\ agreed_age \in 0 .. Duration
        /\ mismatch_age <= agreed_age

Reported == mismatch_reported <=> events = "disagrees"

CheckInv == Ages /\ Reported

-----------------------------------------------------------------------------

\* No thread of the diagnostics is started by its own steps.
LEMMA DiagnosticsThreads ==
    ASSUME OneStop, Diagnostics
    PROVE  /\ UNCHANGED <<mainVars, stopVars, stop_event, serving>>
           /\ thread' \in [Threads -> {"none", "running", "ended"}]
           /\ \A t \in Threads : /\ thread'[t] # "none" <=> thread[t] # "none"
                                 /\ thread[t] = "ended" => thread'[t] = "ended"
<1>1. "solis" \in Threads /\ "monitor" \in Threads
  BY LifecycleAssumption
<1>2. UNCHANGED <<mainVars, stopVars, stop_event, serving>>
  BY DEF Diagnostics, DiagnosticsStep, SolisStep, SolisEnds, CheckMismatch, MonitorEnds, RoundPasses,
         InverterChanges, serverVars
<1>3. \/ thread' = thread
      \/ thread["solis"] = "running" /\ thread' = [thread EXCEPT !["solis"] = "ended"]
      \/ thread["monitor"] = "running" /\ thread' = [thread EXCEPT !["monitor"] = "ended"]
  BY DEF Diagnostics, DiagnosticsStep, SolisStep, SolisEnds, CheckMismatch, MonitorEnds, RoundPasses, InverterChanges,
         Open, ReadGroup, ReadFails, Pause, SolisStops, TermiosError
<1>. QED
  BY <1>1, <1>2, <1>3 DEF OneStop

\* The inductive invariant of start and stop.
THEOREM StopInvariant == DaemonSpec => []StopInv
<1>1. DaemonInit => StopInv
  BY DEF DaemonInit, StopInv, OneStop, Joined
<1>2. StopInv /\ [DaemonNext]_daemonVars => StopInv'
  <2>. SUFFICES ASSUME StopInv, [DaemonNext]_daemonVars PROVE StopInv'
    OBVIOUS
  <2>. USE LifecycleAssumption DEF StopInv, serverVars
  <2>1. CASE MainStep
    <3>0. stopping = "none" /\ serving' = serving
      BY <2>1 DEF MainStep
    <3>1. CASE StartEvent
      BY <3>0, <3>1 DEF StartEvent, OneStop, Joined, stopVars
    <3>2. CASE CreateThread
      <4>1. Order[created + 1] \in Threads => thread' \in [Threads -> {"none", "running", "ended"}]
        BY <3>2 DEF CreateThread, OneStop
      <4>. QED
        BY <3>0, <3>2, <4>1 DEF CreateThread, OneStop, Joined, stopVars
    <3>3. CASE Register
      BY <3>0, <3>3 DEF Register, OneStop, Joined, stopVars
    <3>4. CASE Started
      BY <3>0, <3>4 DEF Started, OneStop, Joined, stopVars
    <3>7. CASE Sleeps
      BY <3>0, <3>7 DEF Sleeps, OneStop, Joined, stopVars
    <3>5. CASE Woken
      BY <3>0, <3>5 DEF Woken, OneStop, Joined, stopVars
    <3>6. CASE Finally
      BY <3>0, <3>6 DEF Finally, OneStop, Joined
    <3>. QED
      BY <2>1, <3>1, <3>2, <3>3, <3>4, <3>5, <3>6, <3>7 DEF MainStep
  <2>2. CASE RequestStop
    BY <2>2 DEF RequestStop, OneStop, Joined, mainVars
  <2>3. CASE StopStep
    <3>0. UNCHANGED <<thread, created, threads, serving>>
      BY <2>3 DEF StopStep
    <3>7. CASE SetEvent
      BY <3>0, <3>7 DEF SetEvent, OneStop, Joined
    <3>. SUFFICES ASSUME UNCHANGED stop_event PROVE StopInv'
      BY <2>3, <3>7 DEF StopStep
    <3>1. CASE CloseApi
      BY <3>0, <3>1 DEF CloseApi, OneStop, Joined
    <3>2. CASE ApiClosed
      BY <3>0, <3>2 DEF ApiClosed, ToJoin, OneStop, Joined
    <3>3. CASE Join
      <4>1. PICK t : /\ joining' = joining \ {t}
                     /\ gave_up' = IF thread[t] = "ended" THEN gave_up ELSE gave_up \cup {t}
                     /\ UNCHANGED <<main, stopping>>
        BY <3>3 DEF Join
      <4>. QED
        BY <3>0, <3>3, <4>1 DEF Join, OneStop, Joined
    <3>4. CASE PutSentinel
      BY <3>0, <3>4 DEF PutSentinel, OneStop, Joined
    <3>5. CASE JoinHistory
      BY <3>0, <3>5 DEF JoinHistory, OneStop, Joined
    <3>6. CASE StopEvent
      BY <3>0, <3>6 DEF StopEvent, OneStop, Joined
    <3>. QED
      BY <2>3, <3>1, <3>2, <3>3, <3>4, <3>5, <3>6, <3>7 DEF StopStep
  <2>4. CASE ApiStep
    <3>1. "api" \in Threads
      BY LifecycleAssumption
    <3>2. UNCHANGED <<stop_event, mainVars, stopVars>>
      BY <2>4 DEF ApiStep
    <3>3. CASE Serve
      BY <3>2, <3>3 DEF Serve, OneStop, Joined, mainVars, stopVars
    <3>4. CASE LeaveServe
      BY <3>1, <3>2, <3>4 DEF LeaveServe, OneStop, Joined, mainVars, stopVars
    <3>. QED
      BY <2>4, <3>3, <3>4 DEF ApiStep
  <2>5. CASE Diagnostics
    <3>1. /\ UNCHANGED <<mainVars, stopVars, stop_event, serving>>
          /\ thread' \in [Threads -> {"none", "running", "ended"}]
          /\ \A t \in Threads : /\ thread'[t] # "none" <=> thread[t] # "none"
                                /\ thread[t] = "ended" => thread'[t] = "ended"
      BY <2>5, DiagnosticsThreads
    <3>. QED
      BY <3>1 DEF OneStop, Joined, mainVars, stopVars
  <2>6. ASSUME NEW t \in Threads \ {"api", "monitor", "solis"}, WorkerEnds(t) PROVE StopInv'
    BY <2>6 DEF WorkerEnds, OneStop, Joined, mainVars, stopVars
  <2>7. CASE UNCHANGED daemonVars
    BY <2>7 DEF daemonVars, OneStop, Joined, mainVars, stopVars
  <2>. QED
    BY <2>1, <2>2, <2>3, <2>4, <2>5, <2>6, <2>7 DEF DaemonNext
<1>. QED
  BY <1>1, <1>2, PTL DEF DaemonSpec

\* When stop() puts its sentinel, a thread that still runs is one whose join timed out or the
\* one that start() was about to enter in Daemon.threads.
THEOREM StopStragglersKnown == DaemonSpec => []StragglersKnown
<1>1. StopInv => StragglersKnown
  BY DEF StopInv, OneStop, Joined, StragglersKnown
<1>. QED
  BY <1>1, StopInvariant, PTL

-----------------------------------------------------------------------------

\* The inductive invariant of the check of Solis against the meter.
THEOREM CheckInvariant == DaemonSpec => []CheckInv
<1>. USE DiagnosticsAssumption
<1>1. DaemonInit => CheckInv
  <2>1. DaemonInit => Ages
    BY DEF DaemonInit, DiagnosticsInit, Ages
  <2>2. DaemonInit => Reported
    BY Zenon DEF DaemonInit, DiagnosticsInit, Reported
  <2>. QED
    BY <2>1, <2>2 DEF CheckInv
<1>2. CheckInv /\ [DaemonNext]_daemonVars => CheckInv'
  <2>. SUFFICES ASSUME CheckInv, [DaemonNext]_daemonVars PROVE CheckInv'
    OBVIOUS
  <2>1. CASE UNCHANGED monitorVars
    BY <2>1 DEF monitorVars, CheckInv, Ages, Reported
  <2>2. CASE CheckMismatch
    <3>1. CASE Differs
      <4>1. Ages'
        BY <3>1 DEF Differs, MismatchAge, CheckInv, Ages
      <4>2. Reported'
        BY <3>1, Zenon DEF Differs, WarningEarned, CheckInv, Reported
      <4>. QED
        BY <4>1, <4>2 DEF CheckInv
    <3>2. CASE Agrees
      <4>1. Ages'
        BY <3>2 DEF Agrees, AgeAfterAgreement, CheckInv, Ages
      <4>2. Reported'
        <5>1. "restored" # "disagrees"
          OBVIOUS
        <5>. QED
          BY <3>2, <5>1, Zenon DEF Agrees, CheckInv, Reported
      <4>. QED
        BY <4>1, <4>2 DEF CheckInv
    <3>. QED
      BY <2>2, <3>1, <3>2 DEF CheckMismatch
  <2>3. CASE MonitorEnds
    BY <2>3 DEF MonitorEnds, MismatchAge, CheckInv, Ages, Reported
  <2>4. CASE RoundPasses
    BY <2>4 DEF RoundPasses, Older, CheckInv, Ages, Reported
  <2>. QED
    BY <2>1, <2>2, <2>3, <2>4 DEF DaemonNext, MainStep, RequestStop, StopStep, ApiStep, WorkerEnds,
       Diagnostics, DiagnosticsStep, SolisStep, SolisEnds, InverterChanges, daemonVars, diagnosticVars
<1>. QED
  BY <1>1, <1>2, PTL DEF DaemonSpec

\* A warning needs a difference seen in every round for as long as configured, is not given
\* twice, and only a warning is taken back.
THEOREM CheckWarningsRight == DaemonSpec => WarningsRight
<1>1. CheckInv /\ [DaemonNext]_daemonVars =>
        [events' # events =>
           /\ events' = "disagrees" => events # "disagrees" /\ agreed_age >= Duration
           /\ events' = "restored"  => events = "disagrees"]_events
  <2>. SUFFICES ASSUME CheckInv, [DaemonNext]_daemonVars, events' # events
                PROVE  /\ events' = "disagrees" => events # "disagrees" /\ agreed_age >= Duration
                       /\ events' = "restored"  => events = "disagrees"
    OBVIOUS
  <2>1. CheckMismatch
    BY DEF DaemonNext, MainStep, RequestStop, StopStep, ApiStep, WorkerEnds, Diagnostics, DiagnosticsStep,
       SolisStep, SolisEnds, MonitorEnds, RoundPasses, InverterChanges, daemonVars, diagnosticVars, monitorVars
  <2>2. CASE Differs
    BY <2>2, DiagnosticsAssumption DEF Differs, WarningEarned, MismatchAge, CheckInv, Ages, Reported
  <2>3. CASE Agrees
    BY <2>3 DEF Agrees, CheckInv, Ages, Reported
  <2>. QED
    BY <2>1, <2>2, <2>3 DEF CheckMismatch
<1>. QED
  BY <1>1, CheckInvariant, PTL DEF DaemonSpec, WarningsRight

-----------------------------------------------------------------------------
(***************************************************************************)
(* The ledger (FinancialAccounting).                                       *)
(***************************************************************************)

Entry(e) == e.imported \in Nat /\ e.exported \in Nat /\ e.premium \in Nat

Table(L) == /\ L = [m \in DOMAIN L |-> L[m]]
            /\ DOMAIN L \subseteq Minutes
            /\ \A m \in DOMAIN L : Entry(L[m])

ExportOf(L, M)  == SumFunction([m \in M |-> L[m].exported])
PremiumOf(L, M) == SumFunction([m \in M |-> L[m].premium])

\* CapRespected of a table that may not be the recorded one yet.
CapKept(L) == \A d \in Days : LET M == (DOMAIN L) \cap Window(d)
                              IN  PremiumOf(L, M) = Min({Cap, ExportOf(L, M)})

Of(L, d, h) == {m \in DOMAIN L : Day(m) = d /\ Hour(m) = h}

EarnedIn(L, d) ==
    \A h \in WindowHours :
        /\ Cardinality(Of(L, d, h)) >= HourLength
        /\ SumFunction([m \in Of(L, d, h) |-> L[m].imported]) <= Allowance

CreditsKept ==
    \A d \in Days :
        <<d, "zerohero_credit">> \in adjustments =>
            Window(d) \subseteq DOMAIN ledger /\ EarnedIn(ledger, d)

Rows ==
    /\ time \in Minutes
    /\ IsFiniteSet(raw \cup pending)
    /\ \A r \in raw \cup pending : r.minute \in Nat /\ r.power \in Int

\* Where a run is: what it will read is newer than the ledger, and what it has priced keeps
\* the cap together with the ledger.
RunKept ==
    /\ run.pc = "read" =>
          /\ run.since \in Int /\ run.until \in 0 .. time
          /\ \A m \in DOMAIN ledger : m < run.since
    /\ run.pc = "record" =>
          /\ Table(run.todo)
          /\ (DOMAIN run.todo) \cap (DOMAIN ledger) = {}
          /\ CapKept(InsertOrReplace(run.todo, ledger))
    /\ DOMAIN run = {"pc", "since", "until", "todo", "days"}
    /\ run.days \subseteq Nat

LedgerInv == Rows /\ Table(ledger) /\ CapKept(ledger) /\ CreditsKept /\ RunKept

-----------------------------------------------------------------------------
(* Days and hours. *)

\* Quotient and remainder by a positive number.
LEMMA Divide ==
    ASSUME NEW a \in Nat, NEW q \in Nat \ {0}
    PROVE  /\ a \div q \in Nat /\ a % q \in Nat /\ a % q < q
           /\ a = q * (a \div q) + (a % q)
BY SMTT(30)

\* A quotient is the one number whose multiple is that close below.
LEMMA Quotient ==
    ASSUME NEW a \in Nat, NEW q \in Nat \ {0}, NEW b \in Nat, q * b <= a, a < q * b + q
    PROVE  a \div q = b
<1>. DEFINE c == a \div q
<1>1. c \in Nat /\ q * c <= a /\ a < q * c + q
  BY Divide
<1>. HIDE DEF c
<1>2. ~(c < b)
  <2>. SUFFICES ASSUME c + 1 <= b PROVE FALSE
    BY <1>1
  <2>1. q * (c + 1) <= q * b
    BY <1>1, SMTT(30)
  <2>2. q * (c + 1) = q * c + q
    BY <1>1, SMTT(30)
  <2>. QED
    BY <1>1, <2>1, <2>2, SMTT(30)
<1>3. ~(b < c)
  <2>. SUFFICES ASSUME b + 1 <= c PROVE FALSE
    BY <1>1
  <2>1. q * (b + 1) <= q * c
    BY <1>1, SMTT(30)
  <2>2. q * (b + 1) = q * b + q
    BY SMTT(30)
  <2>. QED
    BY <1>1, <2>1, <2>2, SMTT(30)
<1>. QED
  BY <1>1, <1>2, <1>3 DEF c

\* Days are naturals.
LEMMA DaysNat == Days \subseteq Nat
BY Divide, AccountingAssumption DEF Days, Day, Minutes

\* The minutes of a window lie on its day, in its hours.
LEMMA WindowDay ==
    ASSUME NEW d \in Nat, NEW m \in Window(d)
    PROVE  m \in Nat /\ Day(m) = d /\ Hour(m) \in WindowHours
<1>1. DayLength \in Nat \ {0}
  BY AccountingAssumption
<1>2. m \in (d * DayLength) .. ((d + 1) * DayLength - 1) /\ Hour(m) \in WindowHours
  BY DEF Window
<1>3. d * DayLength \in Nat /\ (d + 1) * DayLength = d * DayLength + DayLength
  BY <1>1, SMTT(30)
<1>4. m \in Nat /\ DayLength * d <= m /\ m < DayLength * d + DayLength
  BY <1>1, <1>2, <1>3, SMTT(30)
<1>. QED
  BY <1>1, <1>2, <1>4, Quotient DEF Day

\* A window has finitely many minutes.
LEMMA WindowFinite ==
    ASSUME NEW d \in Nat, NEW S
    PROVE  IsFiniteSet(S \cap Window(d))
<1>1. d * DayLength \in Int /\ (d + 1) * DayLength - 1 \in Int
  BY AccountingAssumption, SMTT(30)
<1>2. IsFiniteSet((d * DayLength) .. ((d + 1) * DayLength - 1))
  BY <1>1, FS_Interval
<1>. QED
  BY <1>2, FS_Subset DEF Window

\* An hour with as many minutes recorded as it has misses none.
LEMMA WholeHour ==
    ASSUME NEW L, DOMAIN L \subseteq Nat, NEW d \in Nat, NEW h \in Nat,
           Cardinality(Of(L, d, h)) >= HourLength,
           NEW m \in Nat, Day(m) = d, Hour(m) = h
    PROVE  m \in DOMAIN L
<1>. DEFINE first == DayLength * d + HourLength * h
            I == first .. first + HourLength - 1
<1>1. DayLength \in Nat \ {0} /\ HourLength \in Nat \ {0}
  BY AccountingAssumption
<1>2. first \in Nat
  BY <1>1, SMTT(30)
<1>3. \A n \in Nat : Day(n) = d /\ Hour(n) = h => n \in I
  <2>. SUFFICES ASSUME NEW n \in Nat, Day(n) = d, Hour(n) = h PROVE n \in I
    OBVIOUS
  <2>. DEFINE r == n % DayLength
  <2>1. r \in Nat /\ n = DayLength * d + r
    BY <1>1, Divide DEF Day
  <2>2. r \div HourLength = h
    BY DEF Hour
  <2>3. r % HourLength \in Nat /\ r % HourLength < HourLength
        /\ r = HourLength * h + (r % HourLength)
    <3>. HIDE DEF r
    <3>. QED
      BY <1>1, <2>1, <2>2, Divide
  <2>. HIDE DEF r
  <2>4. DayLength * d \in Nat /\ HourLength * h \in Nat
    BY <1>1, SMTT(30)
  <2>. DEFINE rest == r % HourLength
             a == DayLength * d
             b == HourLength * h
  <2>5. /\ a \in Nat /\ b \in Nat /\ rest \in Nat /\ rest < HourLength /\ HourLength \in Nat
        /\ n = a + (b + rest) /\ first = a + b
    BY <1>1, <2>1, <2>3, <2>4
  <2>. HIDE DEF rest, a, b, first
  <2>. QED
    BY <2>5
<1>. HIDE DEF first
<1>4. IsFiniteSet(I) /\ Cardinality(I) = HourLength
  BY <1>1, <1>2, FS_Interval
<1>5. Of(L, d, h) \subseteq I
  BY <1>3 DEF Of
<1>6. Cardinality(Of(L, d, h)) \in Nat
  BY <1>4, <1>5, FS_Subset, FS_CardinalityType
<1>7. I = Of(L, d, h)
  <2>. HIDE DEF I
  <2>. QED
    BY <1>1, <1>4, <1>5, <1>6, FS_Subset
<1>. QED
  BY <1>3, <1>7 DEF Of

\* A day that earned the credit has the whole window in the ledger.
LEMMA EarnedIsComplete ==
    ASSUME NEW L, DOMAIN L \subseteq Nat, NEW d \in Nat, EarnedIn(L, d)
    PROVE  Window(d) \subseteq DOMAIN L
<1>. SUFFICES ASSUME NEW m \in Window(d) PROVE m \in DOMAIN L
  OBVIOUS
<1>1. m \in Nat /\ Day(m) = d /\ Hour(m) \in WindowHours /\ Hour(m) \in Nat
  BY WindowDay, AccountingAssumption
<1>. QED
  BY <1>1, WholeHour DEF EarnedIn

-----------------------------------------------------------------------------
(* The cap. *)

\* What the minutes before k of a run earn, after what the ledger has of the day.
PricedAfter(L, T, W) ==
    \A m \in (DOMAIN T) \cap W :
        T[m].premium = Min({T[m].exported,
                            Max({0, Cap - (ExportOf(L, (DOMAIN L) \cap W)
                                   + ExportOf(T, {n \in (DOMAIN T) \cap W : n < m}))})})

\* The positive part of an integer, as imports and exports take it.
LEMMA Positive ==
    ASSUME NEW a \in Int
    PROVE  Max({0, a}) = (IF 0 >= a THEN 0 ELSE a) /\ Max({0, a}) \in Nat
<1>1. 0 \in Int
  OBVIOUS
<1>2. Max({0, a}) = IF 0 >= a THEN 0 ELSE a
  BY <1>1, OfTwo
<1>. QED
  BY <1>2

\* The premium of the next minute: up to the cap all of it, beyond it nothing.
LEMMA NextPremium ==
    ASSUME NEW x \in Nat, NEW e \in Nat, NEW p, p = Min({e, Max({0, Cap - x})})
    PROVE  Min({Cap, x}) + p = Min({Cap, x + e})
<1>1. Cap \in Nat
  BY AccountingAssumption
<1>2. Max({0, Cap - x}) = IF 0 >= Cap - x THEN 0 ELSE Cap - x
  <2>. DEFINE gap == Cap - x
  <2>1. gap \in Int
    BY <1>1
  <2>. HIDE DEF gap
  <2>2. Max({0, gap}) = IF 0 >= gap THEN 0 ELSE gap
    BY <2>1, Positive
  <2>. QED
    BY <2>2 DEF gap
<1>3. Max({0, Cap - x}) \in Int
  BY <1>1, <1>2
<1>4. p = IF e <= Max({0, Cap - x}) THEN e ELSE Max({0, Cap - x})
  BY <1>3, OfTwo
<1>5. Min({Cap, x}) = (IF Cap <= x THEN Cap ELSE x)
      /\ Min({Cap, x + e}) = (IF Cap <= x + e THEN Cap ELSE x + e)
  BY <1>1, OfTwo
<1>. QED
  BY <1>1, <1>2, <1>4, <1>5

\* INSERT OR REPLACE leaves a table: the new rows and the old ones of other minutes.
LEMMA MergedIsTable ==
    ASSUME NEW L, Table(L), NEW T, Table(T)
    PROVE  /\ Table(InsertOrReplace(T, L))
           /\ DOMAIN InsertOrReplace(T, L) = (DOMAIN L) \cup (DOMAIN T)
           /\ \A m \in DOMAIN T : InsertOrReplace(T, L)[m] = T[m]
           /\ \A m \in (DOMAIN L) \ (DOMAIN T) : InsertOrReplace(T, L)[m] = L[m]
BY DEF Table, Entry, InsertOrReplace

\* All sets of minutes the model speaks of are finite.
LEMMA MinutesFinite == IsFiniteSet(Minutes) /\ \A S \in SUBSET Minutes : IsFiniteSet(S)
<1>1. IsFiniteSet(Minutes)
  BY AccountingAssumption, FS_Interval DEF Minutes
<1>. QED
  BY <1>1, FS_Subset

\* Sums over a part of a table.
LEMMA PartSums ==
    ASSUME NEW L, Table(L), NEW M \in SUBSET DOMAIN L, NEW f
    PROVE  /\ (\A m \in M : f[m] = L[m].exported) => ExportOf(L, M) = SumFunctionOnSet(f, M)
           /\ (\A m \in M : f[m] = L[m].premium) => PremiumOf(L, M) = SumFunctionOnSet(f, M)
           /\ ExportOf(L, M) \in Nat
<1>1. IsFiniteSet(M)
  BY MinutesFinite DEF Table
<1>. DEFINE e == [m \in M |-> L[m].exported]
            p == [m \in M |-> L[m].premium]
<1>2. ExportOf(L, M) = SumFunctionOnSet(e, M) /\ PremiumOf(L, M) = SumFunctionOnSet(p, M)
  BY DEF ExportOf, PremiumOf, SumFunction
<1>3. \A m \in M : e[m] = L[m].exported /\ p[m] = L[m].premium /\ e[m] \in Nat
  BY DEF Table, Entry
<1>. HIDE DEF e, p
<1>4. (\A m \in M : f[m] = L[m].exported) => SumFunctionOnSet(e, M) = SumFunctionOnSet(f, M)
  <2>. SUFFICES ASSUME \A m \in M : f[m] = L[m].exported
                PROVE  SumFunctionOnSet(e, M) = SumFunctionOnSet(f, M)
    OBVIOUS
  <2>1. \A m \in M : e[m] = f[m]
    BY <1>3
  <2>. QED
    BY <1>1, <2>1, SumSame
<1>5. (\A m \in M : f[m] = L[m].premium) => SumFunctionOnSet(p, M) = SumFunctionOnSet(f, M)
  <2>. SUFFICES ASSUME \A m \in M : f[m] = L[m].premium
                PROVE  SumFunctionOnSet(p, M) = SumFunctionOnSet(f, M)
    OBVIOUS
  <2>1. \A m \in M : p[m] = f[m]
    BY <1>3
  <2>. QED
    BY <1>1, <2>1, SumSame
<1>. QED
  BY <1>1, <1>2, <1>3, <1>4, <1>5, SumNat

\* Minute after minute the premiums of a run keep to the cap what the ledger kept to it.
LEMMA PricingKeepsCap ==
    ASSUME NEW L, Table(L), NEW T, Table(T), (DOMAIN L) \cap (DOMAIN T) = {}, NEW W,
           PremiumOf(L, (DOMAIN L) \cap W) = Min({Cap, ExportOf(L, (DOMAIN L) \cap W)}),
           PricedAfter(L, T, W)
    PROVE  LET M == InsertOrReplace(T, L)
           IN  PremiumOf(M, (DOMAIN M) \cap W) = Min({Cap, ExportOf(M, (DOMAIN M) \cap W)})
<1>. DEFINE M == InsertOrReplace(T, L)
            A == (DOMAIN L) \cap W
            B(k) == {n \in (DOMAIN T) \cap W : n < k}
            e == [m \in DOMAIN M |-> M[m].exported]
            p == [m \in DOMAIN M |-> M[m].premium]
            Kept(k) == SumFunctionOnSet(p, A \cup B(k)) = Min({Cap, SumFunctionOnSet(e, A \cup B(k))})
            Bad == {k \in Nat : ~Kept(k)}
<1>1. /\ Table(M) /\ DOMAIN M = (DOMAIN L) \cup (DOMAIN T)
      /\ \A m \in DOMAIN T : M[m] = T[m]
      /\ \A m \in DOMAIN L : M[m] = L[m]
  BY MergedIsTable, ZenonT(30)
<1>2. /\ DOMAIN M \subseteq Minutes /\ DOMAIN T \subseteq Minutes
      /\ \A m \in DOMAIN M : Entry(M[m])
  BY <1>1 DEF Table
<1>. HIDE DEF M
<1>3. \A m \in DOMAIN M : e[m] = M[m].exported /\ p[m] = M[m].premium /\ e[m] \in Nat /\ p[m] \in Nat
  BY <1>2 DEF Entry
<1>4. /\ A \subseteq DOMAIN L /\ A \subseteq DOMAIN M
      /\ \A k : B(k) \subseteq DOMAIN T /\ B(k) \subseteq DOMAIN M /\ A \cap B(k) = {}
  BY <1>1
<1>5. IsFiniteSet(A) /\ \A k : IsFiniteSet(B(k)) /\ IsFiniteSet(A \cup B(k))
  BY <1>2, <1>4, MinutesFinite, FS_Union
<1>. HIDE DEF e, p, A, B
<1>6. PremiumOf(L, A) = SumFunctionOnSet(p, A) /\ ExportOf(L, A) = SumFunctionOnSet(e, A)
  <2>1. \A m \in A : e[m] = L[m].exported /\ p[m] = L[m].premium
    BY <1>1, <1>3, <1>4
  <2>. QED
    BY <1>4, <2>1, PartSums
<1>7. \A k : ExportOf(T, B(k)) = SumFunctionOnSet(e, B(k))
  <2>. SUFFICES ASSUME NEW k PROVE ExportOf(T, B(k)) = SumFunctionOnSet(e, B(k))
    OBVIOUS
  <2>1. \A m \in B(k) : e[m] = T[m].exported
    BY <1>1, <1>3, <1>4
  <2>. QED
    BY <1>4, <2>1, PartSums
<1>8. Kept(0)
  <2>1. B(0) = {}
    BY <1>2 DEF B, Minutes
  <2>2. A \cup B(0) = A
    BY <2>1
  <2>3. PremiumOf(L, A) = Min({Cap, ExportOf(L, A)})
    BY DEF A
  <2>. QED
    BY <1>6, <2>2, <2>3
<1>9. ASSUME NEW k \in Nat, Kept(k) PROVE Kept(k + 1)
  <2>1. CASE k \notin (DOMAIN T) \cap W
    <3>1. B(k + 1) = B(k)
      BY <1>2, <2>1 DEF B, Minutes
    <3>. QED
      BY <1>9, <3>1
  <2>2. CASE k \in (DOMAIN T) \cap W
    <3>. DEFINE S == A \cup B(k)
                x == SumFunctionOnSet(e, S)
    <3>1. A \cup B(k + 1) = S \cup {k} /\ k \notin S
      <4>1. B(k + 1) = B(k) \cup {k} /\ k \notin B(k)
        BY <1>2, <2>2 DEF B, Minutes
      <4>2. k \notin A
        BY <1>4, <2>2
      <4>. QED
        BY <4>1, <4>2
    <3>2. IsFiniteSet(S) /\ \A m \in S \cup {k} : e[m] \in Nat /\ p[m] \in Nat
      BY <1>1, <1>3, <1>4, <1>5, <2>2
    <3>. HIDE DEF S
    <3>3. /\ SumFunctionOnSet(e, S \cup {k}) = e[k] + x
          /\ SumFunctionOnSet(p, S \cup {k}) = p[k] + SumFunctionOnSet(p, S)
      BY <3>1, <3>2, SumAdd
    <3>4. x \in Nat /\ e[k] \in Nat /\ p[k] \in Nat /\ SumFunctionOnSet(p, S) \in Nat
      BY <3>2, SumNat
    <3>5. p[k] = Min({e[k], Max({0, Cap - x})})
      <4>1. p[k] = T[k].premium /\ e[k] = T[k].exported
        BY <1>1, <1>3, <2>2
      <4>2. x = SumFunctionOnSet(e, A) + SumFunctionOnSet(e, B(k))
        <5>1. \A m \in A \cup B(k) : e[m] \in Int
          BY <1>3, <1>4
        <5>. QED
          BY <1>4, <1>5, <5>1, SumUnion DEF S
      <4>3. x = ExportOf(L, A) + ExportOf(T, B(k))
        BY <1>6, <1>7, <4>2
      <4>4. T[k].premium = Min({T[k].exported, Max({0, Cap - (ExportOf(L, A) + ExportOf(T, B(k)))})})
        BY <2>2 DEF PricedAfter, A, B
      <4>. QED
        BY <4>1, <4>3, <4>4
    <3>6. SumFunctionOnSet(p, S) = Min({Cap, x})
      BY <1>9 DEF S
    <3>. HIDE DEF x
    <3>7. Min({Cap, x}) + p[k] = Min({Cap, x + e[k]})
      BY <3>4, <3>5, NextPremium
    <3>8. SumFunctionOnSet(p, S \cup {k}) = Min({Cap, SumFunctionOnSet(e, S \cup {k})})
      <4>1. e[k] + x = x + e[k] /\ p[k] + SumFunctionOnSet(p, S) = SumFunctionOnSet(p, S) + p[k]
        BY <3>4
      <4>. QED
        BY <3>3, <3>6, <3>7, <4>1
    <3>. QED
      BY <3>1, <3>8
  <2>. QED
    BY <2>1, <2>2
<1>. HIDE DEF Kept
<1>10. Bad = {}
  <2>. SUFFICES ASSUME Bad # {} PROVE FALSE
    OBVIOUS
  <2>1. PICK n \in Bad : \A m \in Bad : n <= m
    BY MinExists
  <2>2. n # 0 /\ n \in Nat
    BY <1>8, <2>1
  <2>3. n - 1 \in Nat /\ n - 1 \notin Bad
    <3>. HIDE DEF Bad
    <3>. QED
      BY <2>1, <2>2
  <2>4. Kept(n - 1)
    BY <2>3
  <2>5. Kept((n - 1) + 1)
    BY <1>9, <2>3, <2>4
  <2>6. (n - 1) + 1 = n
    BY <2>2
  <2>. QED
    BY <2>1, <2>5, <2>6
<1>11. Kept(MaxTime + 1)
  BY <1>10, AccountingAssumption
<1>12. (DOMAIN M) \cap W = A \cup B(MaxTime + 1)
  BY <1>1, <1>2, AccountingAssumption DEF A, B, Minutes
<1>13. /\ PremiumOf(M, A \cup B(MaxTime + 1)) = SumFunctionOnSet(p, A \cup B(MaxTime + 1))
       /\ ExportOf(M, A \cup B(MaxTime + 1)) = SumFunctionOnSet(e, A \cup B(MaxTime + 1))
  <2>. DEFINE S == A \cup B(MaxTime + 1)
  <2>1. S \subseteq DOMAIN M
    BY <1>4
  <2>. HIDE DEF S
  <2>2. \A m \in S : e[m] = M[m].exported /\ p[m] = M[m].premium
    BY <1>3, <2>1
  <2>3. PremiumOf(M, S) = SumFunctionOnSet(p, S) /\ ExportOf(M, S) = SumFunctionOnSet(e, S)
    BY <1>1, <2>1, <2>2, PartSums
  <2>. QED
    BY <2>3 DEF S
<1>14. PremiumOf(M, (DOMAIN M) \cap W) = Min({Cap, ExportOf(M, (DOMAIN M) \cap W)})
  BY <1>11, <1>12, <1>13 DEF Kept
<1>. QED
  BY <1>14 DEF M

-----------------------------------------------------------------------------
(* The steps. *)

\* The empty ledger respects the cap.
LEMMA NothingYet == Table(Nothing) /\ DOMAIN Nothing = {} /\ CapKept(Nothing)
<1>1. Table(Nothing) /\ DOMAIN Nothing = {}
  BY DEF Nothing, Table
<1>2. \A S : PremiumOf(Nothing, {} \cap S) = 0 /\ ExportOf(Nothing, {} \cap S) = 0
  <2>. SUFFICES ASSUME NEW S
                PROVE  PremiumOf(Nothing, {} \cap S) = 0 /\ ExportOf(Nothing, {} \cap S) = 0
    OBVIOUS
  <2>1. {} \cap S = {}
    OBVIOUS
  <2>2. DOMAIN [m \in {} |-> Nothing[m].exported] = {} /\ DOMAIN [m \in {} |-> Nothing[m].premium] = {}
    OBVIOUS
  <2>. QED
    BY <2>1, <2>2, SumEmpty DEF PremiumOf, ExportOf, SumFunction
<1>3. Min({Cap, 0}) = 0
  BY AccountingAssumption, OfTwo
<1>. QED
  BY <1>1, <1>2, <1>3 DEF CapKept

\* Nothing is recorded at the start.
LEMMA InitLedger == Init => LedgerInv
<1>. SUFFICES ASSUME Init PROVE LedgerInv
  OBVIOUS
<1>1. Rows
  BY AccountingAssumption, FS_EmptySet DEF Init, Rows, Minutes
<1>2. CreditsKept /\ RunKept
  BY DEF Init, CreditsKept, RunKept, Idle
<1>. QED
  BY <1>1, <1>2, NothingYet DEF Init, LedgerInv

\* Rows come and are committed, and time passes: the ledger and the run stay as they are.
LEMMA RowsStep ==
    ASSUME LedgerInv, Rows', UNCHANGED <<ledger, adjustments, run>>, time <= time'
    PROVE  LedgerInv'
<1>1. Table(ledger)' /\ CapKept(ledger)' /\ CreditsKept'
  BY DEF LedgerInv, CreditsKept
<1>2. RunKept'
  BY DEF LedgerInv, RunKept, Rows, Minutes
<1>. QED
  BY <1>1, <1>2 DEF LedgerInv

\* Time moves no row.
LEMMA TickKeeps == LedgerInv /\ Tick => LedgerInv'
<1>. SUFFICES ASSUME LedgerInv, Tick PROVE LedgerInv'
  OBVIOUS
<1>1. Rows' /\ time <= time' /\ UNCHANGED <<ledger, adjustments, run>>
  BY AccountingAssumption DEF Tick, LedgerInv, Rows, Minutes, tables
<1>. QED
  BY <1>1, RowsStep

\* A row observed is not yet in the ledger.
LEMMA ObserveKeeps == LedgerInv /\ Observe => LedgerInv'
<1>. SUFFICES ASSUME LedgerInv, Observe PROVE LedgerInv'
  OBVIOUS
<1>1. PICK power \in Powers :
         pending' = pending \cup {[minute |-> time, part |-> next.part, power |-> power]}
  BY DEF Observe
<1>2. raw' = raw /\ time' = time /\ time \in Nat /\ UNCHANGED <<ledger, adjustments, run>>
  BY DEF Observe, LedgerInv, Rows, Minutes, tables
<1>3. (raw \cup pending)' = (raw \cup pending) \cup
                               {[minute |-> time, part |-> next.part, power |-> power]}
  BY <1>1, <1>2
<1>4. IsFiniteSet((raw \cup pending)')
  BY <1>3, FS_AddElement DEF LedgerInv, Rows
<1>5. power \in Int
  BY AccountingAssumption
<1>6. Rows'
  BY <1>2, <1>3, <1>4, <1>5 DEF LedgerInv, Rows
<1>. QED
  BY <1>2, <1>6, RowsStep

\* A late commit adds to raw rows, never to the ledger.
LEMMA CommitKeeps == LedgerInv /\ Commit => LedgerInv'
<1>. SUFFICES ASSUME LedgerInv, Commit PROVE LedgerInv'
  OBVIOUS
<1>1. raw' \cup pending' = raw \cup pending /\ time' = time /\ UNCHANGED <<ledger, adjustments, run>>
  BY DEF Commit, tables
<1>2. Rows'
  BY <1>1 DEF LedgerInv, Rows
<1>3. time <= time'
  BY <1>1 DEF LedgerInv, Rows, Minutes
<1>. QED
  BY <1>1, <1>2, <1>3, RowsStep

\* A run reads from after the newest minute recorded.
LEMMA SinceNewest ==
    ASSUME LedgerInv
    PROVE  Since \in Int /\ \A m \in DOMAIN ledger : m < Since
<1>1. Table(ledger) /\ time \in Nat
  BY DEF LedgerInv, Rows, Minutes
<1>. DEFINE oldest == time - Retention
<1>2. oldest \in Int
  BY <1>1, AccountingAssumption
<1>3. CASE ledger = Nothing
  BY <1>2, <1>3 DEF Since, Nothing
<1>4. CASE ledger # Nothing
  <2>1. DOMAIN ledger # {}
    BY <1>1, <1>4 DEF Table, Nothing
  <2>2. DOMAIN ledger \in SUBSET (0 .. MaxTime) /\ MaxTime \in Nat
    BY <1>1, AccountingAssumption DEF Table, Minutes
  <2>. DEFINE newest == Max(DOMAIN ledger)
  <2>3. newest \in DOMAIN ledger /\ \A m \in DOMAIN ledger : m <= newest
    BY <2>1, <2>2, MaxExists
  <2>4. newest + 1 \in Int /\ \A m \in DOMAIN ledger : m < newest + 1
    BY <2>2, <2>3
  <2>. HIDE DEF newest, oldest
  <2>5. Max({newest + 1, oldest}) \in Int /\ newest + 1 <= Max({newest + 1, oldest})
    BY <1>2, <2>4, MaxOfTwo
  <2>6. Since = Max({newest + 1, oldest})
    BY <1>4 DEF Since, newest, oldest
  <2>. QED
    BY <2>2, <2>4, <2>5, <2>6
<1>. QED
  BY <1>3, <1>4

\* A run starts with nothing computed.
LEMMA StartRunKeeps == LedgerInv /\ StartRun => LedgerInv'
<1>. SUFFICES ASSUME LedgerInv, StartRun PROVE LedgerInv'
  OBVIOUS
<1>1. /\ run' = [Idle EXCEPT !.pc = "read", !.since = Since, !.until = time]
      /\ UNCHANGED <<time, raw, pending, ledger, adjustments>>
  BY DEF StartRun, historyThread, tables
<1>2. /\ run'.pc = "read" /\ run'.since = Since /\ run'.until = time /\ run'.days = {}
      /\ DOMAIN run' = {"pc", "since", "until", "todo", "days"}
  BY <1>1 DEF Idle
<1>3. RunKept'
  BY <1>1, <1>2, SinceNewest DEF RunKept, LedgerInv, Rows, Minutes
<1>. QED
  BY <1>1, <1>3 DEF LedgerInv, Rows, CreditsKept

\* What rows average to.
LEMMA BucketEntry ==
    ASSUME Rows, NEW m \in Buckets
    PROVE  Imported(Bucket(m)) \in Nat /\ Exported(Bucket(m)) \in Nat
<1>. DEFINE R == Bucket(m)
            f == [r \in R |-> r.power]
<1>1. IsFiniteSet(R) /\ R # {} /\ \A r \in R : r.power \in Int
  <2>1. R \subseteq raw \cup pending
    BY DEF Bucket
  <2>2. R # {}
    BY DEF Bucket, Buckets
  <2>. QED
    BY <2>1, <2>2, FS_Subset DEF Rows
<1>2. SumFunction(f) \in Int
  <2>1. DOMAIN f = R /\ \A r \in R : f[r] \in Int
    BY <1>1
  <2>. HIDE DEF f, R
  <2>. QED
    BY <1>1, <2>1, SumType DEF SumFunction
<1>3. Cardinality(R) \in Nat /\ Cardinality(R) # 0
  BY <1>1, FS_CardinalityType, FS_EmptySet
<1>. DEFINE mean == Mean(R)
<1>4. mean \in Int
  <2>1. mean = SumFunction(f) \div Cardinality(R)
    BY DEF Mean
  <2>. HIDE DEF f, R, mean
  <2>. QED
    BY <1>2, <1>3, <2>1, SMTT(30)
<1>5. Imported(R) = Max({0, mean}) /\ Exported(R) = Max({0, -mean})
  BY DEF Imported, Exported
<1>. HIDE DEF mean, R
<1>6. Max({0, mean}) \in Nat
  BY <1>4, Positive
<1>7. Max({0, -mean}) \in Nat
  <2>. DEFINE minus == -mean
  <2>1. minus \in Int
    BY <1>4
  <2>. HIDE DEF minus
  <2>2. Max({0, minus}) \in Nat
    BY <2>1, Positive
  <2>. QED
    BY <2>2 DEF minus
<1>. QED
  BY <1>5, <1>6, <1>7 DEF R

\* What a run makes of the rows it reads.
LEMMA PricedBuckets ==
    ASSUME LedgerInv, run.pc = "read"
    PROVE  LET T == [m \in Buckets |-> Interval(m)]
           IN  /\ Table(T) /\ (DOMAIN T) \cap (DOMAIN ledger) = {}
               /\ \A d \in Days : PricedAfter(ledger, T, Window(d))
               /\ Touched \subseteq Nat
<1>. DEFINE T == [m \in Buckets |-> Interval(m)]
<1>1. Rows /\ Table(ledger) /\ time \in Nat /\ time <= MaxTime
  BY DEF LedgerInv, Rows, Minutes
<1>2. run.since \in Int /\ run.until \in 0 .. time /\ \A m \in DOMAIN ledger : m < run.since
  BY DEF LedgerInv, RunKept
<1>3. \A m \in Buckets : m \in Nat /\ run.since <= m /\ m < run.until
  BY <1>1 DEF Buckets, Rows
<1>4. Buckets \subseteq Minutes
  BY <1>1, <1>2, <1>3, AccountingAssumption DEF Minutes
<1>5. Buckets \cap (DOMAIN ledger) = {}
  <2>. SUFFICES ASSUME NEW m \in Buckets, m \in DOMAIN ledger PROVE FALSE
    OBVIOUS
  <2>. QED
    BY <1>2, <1>3
<1>6. DOMAIN T = Buckets /\ \A m \in Buckets : T[m] = Interval(m)
  OBVIOUS
<1>7. \A m \in Buckets : T[m].imported \in Nat /\ T[m].exported \in Nat
                         /\ T[m].exported = Exported(Bucket(m)) /\ T[m].premium = Premium(m)
  BY <1>1, <1>6, BucketEntry DEF Interval
<1>8. ASSUME NEW d \in Nat
      PROVE  /\ PricedAfter(ledger, T, Window(d))
             /\ \A m \in Buckets \cap Window(d) : Premium(m) \in Nat
  <2>. SUFFICES ASSUME NEW m \in Buckets \cap Window(d)
                PROVE  /\ T[m].premium =
                            Min({T[m].exported,
                                 Max({0, Cap - (ExportOf(ledger, (DOMAIN ledger) \cap Window(d))
                                   + ExportOf(T, {n \in (DOMAIN T) \cap Window(d) : n < m}))})})
                       /\ Premium(m) \in Nat
    BY <1>6 DEF PricedAfter
  <2>. DEFINE x == ExportOf(ledger, (DOMAIN ledger) \cap Window(d))
              B == {n \in (DOMAIN T) \cap Window(d) : n < m}
              y == ExportOf(T, B)
  <2>1. Day(m) = d
    BY WindowDay
  <2>2. SuperExportBefore(m) = x + y
    <3>1. B = {n \in Buckets \cap Window(Day(m)) : n < m}
      BY <1>6, <2>1
    <3>2. [n \in B |-> T[n].exported] = [n \in B |-> Exported(Bucket(n))]
      BY <1>6, <1>7
    <3>. HIDE DEF B, T
    <3>. QED
      BY <2>1, <3>1, <3>2 DEF SuperExportBefore, ExportOf
  <2>3. Premium(m) = Min({Exported(Bucket(m)), Max({0, Cap - (x + y)})})
    BY <2>1, <2>2 DEF Premium
  <2>4. x \in Nat
    BY <1>1, PartSums
  <2>5. y \in Nat
    <3>. DEFINE e == [n \in B |-> T[n].exported]
    <3>1. IsFiniteSet(B) /\ DOMAIN e = B /\ \A n \in B : e[n] \in Nat
      BY <1>4, <1>6, <1>7, MinutesFinite
    <3>2. y = SumFunctionOnSet(e, B)
      BY <3>1 DEF ExportOf, SumFunction
    <3>. HIDE DEF e, B, y
    <3>. QED
      BY <3>1, <3>2, SumNat
  <2>. HIDE DEF x, y, T
  <2>. DEFINE left == Max({0, Cap - (x + y)})
              e == Exported(Bucket(m))
  <2>6. left \in Nat
    <3>. DEFINE gap == Cap - (x + y)
    <3>1. gap \in Int
      BY <2>4, <2>5, AccountingAssumption
    <3>. HIDE DEF gap
    <3>2. Max({0, gap}) \in Nat
      BY <3>1, Positive
    <3>. QED
      BY <3>2 DEF gap
  <2>7. e \in Nat
    BY <1>7
  <2>8. Premium(m) = Min({e, left})
    BY <2>3
  <2>. HIDE DEF left, e
  <2>9. Premium(m) \in Nat
    BY <2>6, <2>7, <2>8, OfTwo
  <2>. QED
    BY <1>7, <2>3, <2>9 DEF x, y
<1>9. \A m \in Buckets : Premium(m) \in Nat
  <2>. SUFFICES ASSUME NEW m \in Buckets PROVE Premium(m) \in Nat
    OBVIOUS
  <2>1. Day(m) \in Nat
    BY <1>3, AccountingAssumption, Divide DEF Day
  <2>2. CASE m \in Window(Day(m))
    BY <1>8, <2>1, <2>2
  <2>3. CASE m \notin Window(Day(m))
    BY <2>3 DEF Premium
  <2>. QED
    BY <2>2, <2>3
<1>10. Table(T)
  BY <1>4, <1>6, <1>7, <1>9 DEF Table, Entry
<1>11. Touched \subseteq Nat
  BY <1>3, AccountingAssumption, Divide DEF Touched, Day
<1>. HIDE DEF T
<1>12. (DOMAIN T) \cap (DOMAIN ledger) = {} /\ \A d \in Days : PricedAfter(ledger, T, Window(d))
  BY <1>5, <1>6, <1>8, DaysNat
<1>. QED
  BY <1>10, <1>11, <1>12 DEF T

\* What a run prices are new minutes, and with the ledger they keep the cap.
LEMMA ReadBucketsKeeps == LedgerInv /\ ReadBuckets => LedgerInv'
<1>. SUFFICES ASSUME LedgerInv, ReadBuckets PROVE LedgerInv'
  OBVIOUS
<1>1. run.pc = "read" /\ UNCHANGED <<time, raw, pending, ledger, adjustments>>
  BY DEF ReadBuckets, historyThread, tables
<1>2. CASE run' = Idle
  BY <1>1, <1>2 DEF LedgerInv, Rows, CreditsKept, RunKept, Idle
<1>3. CASE run' = [pc |-> "record", since |-> 0, until |-> run.until,
                   todo |-> [m \in Buckets |-> Interval(m)], days |-> Touched]
  <2>. DEFINE T == [m \in Buckets |-> Interval(m)]
  <2>1. /\ Table(T) /\ (DOMAIN T) \cap (DOMAIN ledger) = {}
        /\ \A d \in Days : PricedAfter(ledger, T, Window(d))
        /\ Touched \subseteq Nat
    BY <1>1, PricedBuckets
  <2>2. /\ run'.pc = "record" /\ run'.todo = T /\ run'.days = Touched
        /\ DOMAIN run' = {"pc", "since", "until", "todo", "days"}
    BY <1>3
  <2>. HIDE DEF T
  <2>3. CapKept(InsertOrReplace(T, ledger))
    <3>. SUFFICES ASSUME NEW d \in Days
                  PROVE  LET M == InsertOrReplace(T, ledger)
                             S == (DOMAIN M) \cap Window(d)
                         IN  PremiumOf(M, S) = Min({Cap, ExportOf(M, S)})
      BY DEF CapKept
    <3>1. LET S == (DOMAIN ledger) \cap Window(d)
          IN  PremiumOf(ledger, S) = Min({Cap, ExportOf(ledger, S)})
      BY DEF LedgerInv, CapKept
    <3>2. Table(ledger) /\ PricedAfter(ledger, T, Window(d)) /\ (DOMAIN ledger) \cap (DOMAIN T) = {}
      BY <2>1 DEF LedgerInv
    <3>. QED
      BY <2>1, <3>1, <3>2, PricingKeepsCap
  <2>4. RunKept'
    BY <1>1, <2>1, <2>2, <2>3 DEF RunKept
  <2>. QED
    BY <1>1, <2>4 DEF LedgerInv, Rows, CreditsKept
<1>. QED
  BY <1>2, <1>3 DEF ReadBuckets

\* New minutes leave a whole window as it is.
LEMMA CreditStays ==
    ASSUME NEW L, Table(L), NEW T, Table(T), (DOMAIN L) \cap (DOMAIN T) = {},
           NEW d \in Nat, Window(d) \subseteq DOMAIN L, EarnedIn(L, d)
    PROVE  LET M == InsertOrReplace(T, L) IN Window(d) \subseteq DOMAIN M /\ EarnedIn(M, d)
<1>. DEFINE M == InsertOrReplace(T, L)
<1>1. /\ Table(M) /\ DOMAIN M = (DOMAIN L) \cup (DOMAIN T)
      /\ \A m \in DOMAIN L : M[m] = L[m]
  BY MergedIsTable, ZenonT(30)
<1>. HIDE DEF M
<1>2. ASSUME NEW h \in WindowHours
      PROVE  /\ Of(M, d, h) = Of(L, d, h)
             /\ [m \in Of(M, d, h) |-> M[m].imported] = [m \in Of(L, d, h) |-> L[m].imported]
  <2>1. \A m \in DOMAIN T : ~(Day(m) = d /\ Hour(m) = h)
    <3>. SUFFICES ASSUME NEW m \in DOMAIN T, Day(m) = d, Hour(m) = h PROVE FALSE
      OBVIOUS
    <3>1. m \in Nat /\ m \notin DOMAIN L
      BY DEF Table, Minutes
    <3>2. m \in Window(d)
      <4>1. DayLength \in Nat \ {0}
        BY AccountingAssumption
      <4>2. m % DayLength \in Nat /\ m % DayLength < DayLength /\ m = DayLength * d + (m % DayLength)
        BY <3>1, <4>1, Divide DEF Day
      <4>3. DayLength * d \in Nat /\ d * DayLength = DayLength * d
            /\ (d + 1) * DayLength = DayLength * d + DayLength
        BY <4>1, SMTT(30)
      <4>4. m \in (d * DayLength) .. ((d + 1) * DayLength - 1)
        <5>. DEFINE r == m % DayLength
                    a == d * DayLength
                    b == (d + 1) * DayLength
        <5>1. r \in Nat /\ r < DayLength /\ m = a + r /\ a \in Nat /\ DayLength \in Nat
              /\ b = a + DayLength
          BY <4>1, <4>2, <4>3
        <5>. HIDE DEF r, a, b
        <5>2. m \in a .. (b - 1)
          BY <5>1
        <5>. QED
          BY <5>2 DEF a, b
      <4>. QED
        BY <4>4 DEF Window
    <3>. QED
      BY <3>1, <3>2
  <2>2. Of(M, d, h) = Of(L, d, h)
    BY <1>1, <2>1 DEF Of
  <2>3. \A m \in Of(L, d, h) : M[m] = L[m]
    BY <1>1 DEF Of
  <2>. QED
    BY <2>2, <2>3
<1>3. EarnedIn(M, d)
  BY <1>2 DEF EarnedIn
<1>. QED
  BY <1>1, <1>3 DEF M

\* Recording them keeps the cap and the credits granted.
LEMMA RecordIntervalsKeeps == LedgerInv /\ RecordIntervals => LedgerInv'
<1>. SUFFICES ASSUME LedgerInv, RecordIntervals PROVE LedgerInv'
  OBVIOUS
<1>1. /\ run.pc = "record" /\ UNCHANGED <<time, raw, pending, adjustments>>
      /\ ledger' = InsertOrReplace(run.todo, ledger)
      /\ run' = [run EXCEPT !.pc = "supply", !.todo = Nothing]
  BY DEF RecordIntervals, historyThread
<1>2. Table(run.todo) /\ (DOMAIN ledger) \cap (DOMAIN run.todo) = {}
      /\ CapKept(InsertOrReplace(run.todo, ledger)) /\ Table(ledger)
  BY <1>1 DEF LedgerInv, RunKept
<1>3. Table(ledger') /\ CapKept(ledger')
  BY <1>1, <1>2, MergedIsTable
<1>4. CreditsKept'
  <2>. SUFFICES ASSUME NEW d \in Days, <<d, "zerohero_credit">> \in adjustments
                PROVE  Window(d) \subseteq DOMAIN ledger' /\ EarnedIn(ledger', d)
    BY <1>1 DEF CreditsKept
  <2>1. Window(d) \subseteq DOMAIN ledger /\ EarnedIn(ledger, d) /\ d \in Nat
    BY DaysNat DEF LedgerInv, CreditsKept
  <2>. QED
    BY <1>1, <1>2, <2>1, CreditStays
<1>5. RunKept'
  <2>1. /\ run'.pc \notin {"read", "record"} /\ run'.days \subseteq Nat
        /\ DOMAIN run' = {"pc", "since", "until", "todo", "days"}
    BY <1>1 DEF LedgerInv, RunKept
  <2>. QED
    BY <2>1 DEF RunKept
<1>6. Rows'
  BY <1>1 DEF LedgerInv, Rows
<1>. QED
  BY <1>3, <1>4, <1>5, <1>6 DEF LedgerInv

\* The adjustments and the end of a run.
LEMMA AdjustmentKeeps ==
    ASSUME LedgerInv, UNCHANGED <<time, raw, pending, ledger>>, CreditsKept',
           run'.pc \notin {"read", "record"}, run'.days \subseteq run.days,
           DOMAIN run' = DOMAIN run
    PROVE  LedgerInv'
<1>1. RunKept'
  BY DEF LedgerInv, RunKept
<1>. QED
  BY <1>1 DEF LedgerInv, Rows

\* The daily supply charge leaves intervals and credits alone.
LEMMA ChargeSupplyKeeps == LedgerInv /\ ChargeSupply => LedgerInv'
<1>. SUFFICES ASSUME LedgerInv, ChargeSupply PROVE LedgerInv'
  OBVIOUS
<1>1. /\ UNCHANGED <<time, raw, pending, ledger>>
      /\ adjustments' = adjustments \cup {<<Min(run.days), "daily_supply">>}
      /\ run' = [run EXCEPT !.pc = "credit"]
  BY DEF ChargeSupply, historyThread
<1>2. CreditsKept'
  BY <1>1 DEF LedgerInv, CreditsKept
<1>3. /\ run'.pc \notin {"read", "record"} /\ run'.days \subseteq run.days
      /\ DOMAIN run' = DOMAIN run
  BY <1>1 DEF LedgerInv, RunKept
<1>. QED
  BY <1>1, <1>2, <1>3, AdjustmentKeeps

\* A credit is granted only for a whole window that earned it.
LEMMA GrantCreditKeeps == LedgerInv /\ GrantCredit => LedgerInv'
<1>. SUFFICES ASSUME LedgerInv, GrantCredit PROVE LedgerInv'
  OBVIOUS
<1>. DEFINE d == Min(run.days)
<1>1. /\ UNCHANGED <<time, raw, pending, ledger>>
      /\ adjustments' = adjustments \/ (Earned(d) /\ adjustments' = adjustments \cup {<<d, "zerohero_credit">>})
      /\ run' = Idle \/ run' = [run EXCEPT !.pc = "supply", !.days = run.days \ {d}]
  BY DEF GrantCredit, historyThread
<1>2. /\ run'.pc \notin {"read", "record"} /\ run'.days \subseteq run.days
      /\ DOMAIN run' = DOMAIN run
  <2>. HIDE DEF d
  <2>1. CASE run' = Idle
    BY <2>1 DEF Idle, LedgerInv, RunKept
  <2>2. CASE run' = [run EXCEPT !.pc = "supply", !.days = run.days \ {d}]
    BY <2>2 DEF LedgerInv, RunKept
  <2>. QED
    BY <1>1, <2>1, <2>2
<1>3. Earned(d) => EarnedIn(ledger, d)
  BY DEF Earned, EarnedIn, ImportOf, Recorded, Of
<1>4. DOMAIN ledger \subseteq Nat
  BY DEF LedgerInv, Table, Minutes
<1>. HIDE DEF d
<1>5. CreditsKept'
  <2>. SUFFICES ASSUME NEW c \in Days, <<c, "zerohero_credit">> \in adjustments'
                PROVE  Window(c) \subseteq DOMAIN ledger /\ EarnedIn(ledger, c)
    BY <1>1 DEF CreditsKept
  <2>1. CASE <<c, "zerohero_credit">> \in adjustments
    BY <2>1 DEF LedgerInv, CreditsKept
  <2>2. CASE c = d /\ Earned(d)
    BY <1>3, <1>4, <2>2, DaysNat, EarnedIsComplete
  <2>. QED
    BY <1>1, <2>1, <2>2
<1>. QED
  BY <1>1, <1>2, <1>5, AdjustmentKeeps

\* A run cut off at any point leaves the tables as they are.
LEMMA FailRunKeeps == LedgerInv /\ FailRun => LedgerInv'
<1>. SUFFICES ASSUME LedgerInv, FailRun PROVE LedgerInv'
  OBVIOUS
<1>1. /\ UNCHANGED <<time, raw, pending, ledger, adjustments>> /\ run' = Idle
      /\ run'.pc \notin {"read", "record"} /\ run'.days \subseteq run.days
      /\ DOMAIN run' = DOMAIN run
  BY DEF FailRun, historyThread, tables, Idle, LedgerInv, RunKept
<1>2. CreditsKept'
  BY <1>1 DEF LedgerInv, CreditsKept
<1>. QED
  BY <1>1, <1>2, AdjustmentKeeps

\* Every step of the accounting preserves the invariant.
LEMMA NextLedger == LedgerInv /\ [Next]_vars => LedgerInv'
<1>. SUFFICES ASSUME LedgerInv, [Next]_vars PROVE LedgerInv'
  OBVIOUS
<1>1. CASE UNCHANGED vars
  <2>1. Rows' /\ time <= time' /\ UNCHANGED <<ledger, adjustments, run>>
    BY <1>1 DEF vars, historyThread, tables, LedgerInv, Rows, Minutes
  <2>. QED
    BY <2>1, RowsStep
<1>. QED
  BY <1>1, TickKeeps, ObserveKeeps, CommitKeeps, StartRunKeeps, ReadBucketsKeeps,
     RecordIntervalsKeeps, ChargeSupplyKeeps, GrantCreditKeeps, FailRunKeeps DEF Next

-----------------------------------------------------------------------------

\* The inductive invariant of the ledger.
THEOREM LedgerInvariant == Spec => []LedgerInv
BY InitLedger, NextLedger, PTL DEF Spec

\* A minute once recorded is never priced again, whatever rows are committed later and
\* wherever a run fails.
THEOREM LedgerIsAppendOnly == Spec => LedgerAppendOnly
<1>1. LedgerInv /\ [Next]_vars
        => [\A m \in DOMAIN ledger : m \in DOMAIN ledger' /\ ledger'[m] = ledger[m]]_vars
  <2>. SUFFICES ASSUME LedgerInv, [Next]_vars, ~UNCHANGED vars
                PROVE  \A m \in DOMAIN ledger : m \in DOMAIN ledger' /\ ledger'[m] = ledger[m]
    OBVIOUS
  <2>1. CASE RecordIntervals
    <3>1. ledger' = InsertOrReplace(run.todo, ledger) /\ run.pc = "record"
      BY <2>1 DEF RecordIntervals
    <3>2. Table(ledger) /\ Table(run.todo) /\ (DOMAIN run.todo) \cap (DOMAIN ledger) = {}
      BY <3>1 DEF LedgerInv, RunKept
    <3>3. /\ DOMAIN ledger' = (DOMAIN ledger) \cup (DOMAIN run.todo)
          /\ \A m \in (DOMAIN ledger) \ (DOMAIN run.todo) : ledger'[m] = ledger[m]
      <4>. DEFINE M == InsertOrReplace(run.todo, ledger)
      <4>1. /\ DOMAIN M = (DOMAIN ledger) \cup (DOMAIN run.todo)
            /\ \A m \in (DOMAIN ledger) \ (DOMAIN run.todo) : M[m] = ledger[m]
        BY <3>2, MergedIsTable
      <4>. QED
        BY <3>1, <4>1
    <3>. QED
      BY <3>2, <3>3
  <2>2. CASE ~RecordIntervals
    <3>1. ledger' = ledger
      BY <2>2 DEF Next, Tick, Observe, Commit, StartRun, ReadBuckets, ChargeSupply, GrantCredit,
         FailRun, tables
    <3>. QED
      BY <3>1
  <2>. QED
    BY <2>1, <2>2
<1>. QED
  BY <1>1, LedgerInvariant, PTL DEF Spec, LedgerAppendOnly

\* Over all the runs of a day exactly the first Cap units exported in its window earn the
\* super-export price, however the minutes are spread over runs and failures.
THEOREM LedgerRespectsCap == Spec => []CapRespected
<1>1. LedgerInv => CapRespected
  BY DEF LedgerInv, CapKept, CapRespected, PremiumOf, ExportOf
<1>. QED
  BY <1>1, LedgerInvariant, PTL

\* The credit is only granted for a window with every minute in the ledger and little enough
\* import, and later minutes never take that back.
THEOREM LedgerCreditEarned == Spec => []CreditEarned
<1>1. LedgerInv => CreditEarned
  BY DEF LedgerInv, CreditsKept, CreditEarned, Earned, EarnedIn, ImportOf, Recorded, Of
<1>. QED
  BY <1>1, LedgerInvariant, PTL
=============================================================================
