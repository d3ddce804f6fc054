--------------------------- MODULE ForecastService ---------------------------
(***************************************************************************)
(* The two forecast threads (forecast.py, weather.py), the order in which  *)
(* Daemon.start brings them up, their cache files and the forecast_points  *)
(* rows they leave in the database.                                        *)
(*                                                                         *)
(* A payload is identified by when it was fetched.  Of the correction the  *)
(* model keeps the evidence it rests on, whether weather was available and *)
(* whether it passed its accuracy gate; factors and powers are left out.   *)
(* Waits of the refresh and retry intervals are steps that may come at any *)
(* time.  sqlite3.Error, OSError and a failed request may come with every  *)
(* call that can raise them, and the process may be killed at any step.    *)
(***************************************************************************)
EXTENDS Integers, FiniteSets

CONSTANTS None,             \* no payload
          MaxAge,           \* max_cache_age_seconds of both configurations, in ticks
          DayLength,        \* ticks of a day
          LongSamples,      \* 250: training samples of a ready long-term factor
          LongDays,         \* 14: their days
          ScoredSamples,    \* 300: scored samples in each required band
          ScoredDays,       \* 28: their days
          Horizons,         \* upper ends of the required bands: 2, 8 and 24 hours
          MaxTime           \* bound: the last tick

ASSUME ForecastAssumption ==
    /\ {MaxAge, LongSamples, LongDays, ScoredSamples, ScoredDays, MaxTime} \subseteq Nat
    /\ DayLength \in Nat \ {0}
    /\ Horizons \subseteq Nat
    /\ None \notin Nat

Time     == 0 .. MaxTime
Services == {"weather", "forecast"}
Vintages == [provider : {"base", "corrected"}, issued : Time]

VARIABLES
    now,       \* the clock
    main,      \* Daemon.start: "load_cache", "start_weather", "start_forecast", "started"
    pc,        \* per service: where its thread is; "off": not running, "ended": by an exception
    store,     \* per service: WeatherStore and ForecastStore
    cache,     \* per service: the payload in its cache file
    persisted, \* ForecastSolarWorker.last_persistence_ok
    health,    \* per service: whether its health says "ok"
    archive    \* forecast_points: the vintages in the database

vars == <<now, main, pc, store, cache, persisted, health, archive>>

NoPayload == [issued |-> None, weather |-> FALSE, ready |-> FALSE]
Payload   == [issued : Time, weather : BOOLEAN, ready : BOOLEAN] \cup {NoPayload}

Init ==
    /\ now = 0 /\ main = "load_cache"
    /\ pc = [s \in Services |-> "off"]
    /\ store = [s \in Services |-> NoPayload]
    /\ cache = [s \in Services |-> NoPayload]
    /\ persisted = TRUE
    /\ health = [s \in Services |-> FALSE]
    /\ archive = {}

Tick ==
    /\ now < MaxTime
    /\ now' = now + 1
    /\ UNCHANGED <<main, pc, store, cache, persisted, health, archive>>

-----------------------------------------------------------------------------
(* The stores. *)

Replace(s, payload) == store' = [store EXCEPT ![s] = payload]

\* snapshot()["status"]
Status(s) ==
    LET issued == store[s].issued
    IN  IF issued = None THEN "unavailable"
        ELSE IF now - issued > MaxAge THEN "stale" ELSE "ok"

\* A cache file is replaced atomically: it is absent, or holds a whole payload.
LoadCache(s) ==
    IF cache[s] = NoPayload THEN UNCHANGED store ELSE Replace(s, cache[s])

\* WeatherStore.closest(now): the points of a payload this young reach past the present.
WeatherAvailable == Status("weather") = "ok"

-----------------------------------------------------------------------------
(* What the correction and its gate rest on. *)

\* The provider answers with the whole of today and tomorrow, the hours gone by included.
Targets(issued) == {t \in Time : issued \div DayLength <= t \div DayLength
                                 /\ t \div DayLength <= issued \div DayLength + 1}

\* The meter records external_pv.active_power all the time.
Measured == 0 .. now - 1

Issued(provider) == {v.issued : v \in {w \in archive : w.provider = provider}}

\* forecast_comparison: per target the newest vintage that was issued before it.
Compared ==
    {[issued |-> i, at |-> t] : i \in Issued("base"), t \in Measured}
      \cap {p \in [issued : Time, at : Time] :
              /\ p.at \in Targets(p.issued)
              /\ p.issued <= p.at
              /\ \A j \in Issued("base") : p.at \in Targets(j) /\ j <= p.at => j <= p.issued}

\* forecast_samples: every vintage with every target that has been measured.
Scored ==
    {p \in [issued : Issued("corrected"), at : Measured] : p.at \in Targets(p.issued)}

Days(samples) == {p.at \div DayLength : p \in samples}

\* _validation scores a sample in the first band whose end its horizon does not pass.
Band(p, h) == /\ p.at - p.issued <= h
              /\ \A k \in Horizons : k < h => p.at - p.issued > k

LongReady == /\ Cardinality(Compared) >= LongSamples
             /\ Cardinality(Days(Compared)) >= LongDays

Mature == /\ Cardinality(Days(Scored)) >= ScoredDays
          /\ \A h \in Horizons : Cardinality({p \in Scored : Band(p, h)}) >= ScoredSamples

\* accurate: whether the mean errors of the bands keep within their thresholds.
Corrected(accurate) ==
    [issued |-> now, weather |-> WeatherAvailable, ready |-> LongReady /\ Mature /\ accurate]

-----------------------------------------------------------------------------
(* Both workers. *)

Goto(s, place) == pc' = [pc EXCEPT ![s] = place]
Report(s, ok) == health' = [health EXCEPT ![s] = ok]

LoadOnStart(s) ==
    /\ pc[s] = "load"
    /\ LoadCache(s)
    /\ Report(s, FALSE)
    /\ Goto(s, "wait")
    /\ UNCHANGED <<now, main, cache, persisted, archive>>

Raises(s) == Goto(s, "except") /\ UNCHANGED <<store, health>>

RequestFails(s) ==
    /\ pc[s] = "wait"
    /\ Raises(s)
    /\ UNCHANGED <<now, main, cache, persisted, archive>>

\* Mutant for StaleReported: after a failure what is cached passes for good.
Mutant_ReportFailure(s) ==
    /\ pc[s] = "except"
    /\ Report(s, Status(s) \in {"ok", "stale"})
    /\ Goto(s, "wait")
    /\ UNCHANGED <<now, main, store, cache, persisted, archive>>

\* run(), the except branch: "degraded" over data that are retained, else "failed".
ReportFailure(s) ==
    /\ pc[s] = "except"
    /\ Report(s, FALSE)
    /\ Goto(s, "wait")
    /\ UNCHANGED <<now, main, store, cache, persisted, archive>>

\* An exception run() does not catch ends the thread; nobody is told.
Ends(s) == Goto(s, "ended") /\ UNCHANGED <<store, persisted, health>>

\* correct() reads the history unguarded; a plane that answers with fewer hours than the
\* first is an IndexError.
RequestEnds(s) ==
    /\ pc[s] = "wait"
    /\ Ends(s)
    /\ UNCHANGED <<now, main, cache, archive>>

Refreshed(s) == Status(s) = "ok" /\ (s = "weather" \/ persisted)

\* _save_cache and, when it succeeded, the report of the refresh.
SaveCache(s) ==
    /\ pc[s] = "save"
    /\ \/ /\ cache' = [cache EXCEPT ![s] = store[s]]
          /\ Report(s, Refreshed(s))
          /\ Goto(s, "wait")
          /\ UNCHANGED store
       \/ Raises(s) /\ UNCHANGED cache
    /\ UNCHANGED <<now, main, persisted, archive>>

Archive(provider, issued) == archive' = archive \cup {[provider |-> provider, issued |-> issued]}

-----------------------------------------------------------------------------
(* OpenMeteoWorker._fetch *)

WeatherArrives ==
    /\ pc["weather"] = "wait"
    /\ Replace("weather", [NoPayload EXCEPT !.issued = now])
    /\ Goto("weather", "archive")
    /\ UNCHANGED <<now, main, cache, persisted, health, archive>>

\* Neither record_forecast nor record_forecast_context is guarded: each may end the thread.
RecordWeather ==
    /\ pc["weather"] = "archive"
    /\ \/ Goto("weather", "save") /\ UNCHANGED <<store, persisted, health>>
       \/ Ends("weather")
    /\ UNCHANGED <<now, main, cache, archive>>

-----------------------------------------------------------------------------
(* ForecastSolarWorker._fetch *)

ForecastArrives ==
    /\ pc["forecast"] = "wait"
    /\ \E accurate \in BOOLEAN : Replace("forecast", Corrected(accurate))
    /\ Goto("forecast", "base")
    /\ UNCHANGED <<now, main, cache, persisted, health, archive>>

\* Mutant for OkMeansArchived: a failed transaction does not keep the next from being tried.
Mutant_RecordForecast(provider, here, next) ==
    /\ pc["forecast"] = here
    /\ \/ Archive(provider, store["forecast"].issued) /\ persisted' = TRUE
       \/ persisted' = FALSE /\ UNCHANGED archive
    /\ Goto("forecast", next)
    /\ UNCHANGED <<now, main, store, cache, health>>

\* Two transactions, one after the other; the first that fails is the last.
RecordForecast(provider, here, next) ==
    /\ pc["forecast"] = here
    /\ \/ /\ Archive(provider, store["forecast"].issued)
          /\ persisted' = IF next = "save" THEN TRUE ELSE persisted
          /\ Goto("forecast", next)
       \/ /\ persisted' = FALSE
          /\ Goto("forecast", "save")
          /\ UNCHANGED archive
    /\ UNCHANGED <<now, main, store, cache, health>>

\* Mutant for CorrectedHasBase: the two transactions swapped.
Mutant_RecordBase == RecordForecast("corrected", "base", "corrected")

RecordBase      == RecordForecast("base", "base", "corrected")
RecordCorrected == RecordForecast("corrected", "corrected", "save")

-----------------------------------------------------------------------------
(* Daemon.start, and the end of the process. *)

\* Mutant for WeatherNotWithheld: the cache is left to the weather thread.
Mutant_StartLoadsCache ==
    /\ main = "load_cache"
    /\ main' = "start_weather"
    /\ UNCHANGED <<now, pc, store, cache, persisted, health, archive>>

StartLoadsCache ==
    /\ main = "load_cache"
    /\ LoadCache("weather")
    /\ main' = "start_weather"
    /\ UNCHANGED <<now, pc, cache, persisted, health, archive>>

StartThread(s, here, next) ==
    /\ main = here
    /\ Goto(s, "load")
    /\ main' = next
    /\ UNCHANGED <<now, store, cache, persisted, health, archive>>

StartWeather  == StartThread("weather", "start_weather", "start_forecast")
StartForecast == StartThread("forecast", "start_forecast", "started")

\* The process is killed and started again: memory is lost, the cache files and what was
\* committed stay.
Crash ==
    /\ main' = "load_cache"
    /\ pc' = [s \in Services |-> "off"]
    /\ store' = [s \in Services |-> NoPayload]
    /\ health' = [s \in Services |-> FALSE]
    /\ persisted' = TRUE
    /\ UNCHANGED <<now, cache, archive>>

WeatherStep  == \/ LoadOnStart("weather") \/ RequestFails("weather") \/ RequestEnds("weather")
                \/ ReportFailure("weather") \/ WeatherArrives \/ RecordWeather \/ SaveCache("weather")
ForecastStep == \/ LoadOnStart("forecast") \/ RequestFails("forecast") \/ RequestEnds("forecast")
                \/ ReportFailure("forecast") \/ ForecastArrives \/ RecordBase \/ RecordCorrected \/ SaveCache("forecast")
StartStep    == StartLoadsCache \/ StartWeather \/ StartForecast

Next == Tick \/ WeatherStep \/ ForecastStep \/ StartStep \/ Crash

Spec == Init /\ [][Next]_vars

\* Every thread keeps running: its waits and requests end (timeouts), its calls return.
FairSpec == Spec /\ WF_vars(WeatherStep) /\ WF_vars(ForecastStep) /\ WF_vars(StartStep)

-----------------------------------------------------------------------------
(* Properties *)

TypeOK ==
    /\ now \in Time
    /\ main \in {"load_cache", "start_weather", "start_forecast", "started"}
    /\ pc \in [Services -> {"off", "load", "wait", "archive", "base", "corrected", "save", "except", "ended"}]
    /\ store \in [Services -> Payload]
    /\ cache \in [Services -> Payload]
    /\ persisted \in BOOLEAN
    /\ health \in [Services -> BOOLEAN]
    /\ archive \subseteq Vintages

\* A corrected vintage in the database always has the provider vintage it was made from,
\* whichever of the two transactions failed and wherever the process was killed.
CorrectedHasBase ==
    \A v \in archive : v.provider = "corrected" =>
        [provider |-> "base", issued |-> v.issued] \in archive

\* When the forecast thread rests and says "ok", what is served was fetched by this process,
\* and both its vintages and the cache file hold it: a failed write is never covered up by a
\* later success of another one.
OkMeansArchived ==
    pc["forecast"] = "wait" /\ health["forecast"] =>
        LET served == store["forecast"]
        IN  /\ cache["forecast"] = served
            /\ \A p \in {"base", "corrected"} :
                  [provider |-> p, issued |-> served.issued] \in archive

\* daemon.py: "Make a valid sanitized cache available before Forecast.Solar can issue its
\* first corrected forecast".  No forecast is corrected without weather while the weather
\* file holds a payload that is young enough, whatever the two threads do in between.
WeatherNotWithheld ==
    [][ForecastArrives /\ cache["weather"].issued # None /\ now - cache["weather"].issued <= MaxAge
         => store'["forecast"].weather]_vars

\* Within a process what is served is never replaced by something older or by nothing: the
\* cache, which is read twice at the start, and failures leave newer data alone.
ServedNeverOlder ==
    [][~Crash =>
         \A s \in Services : LET old == store[s].issued
                                 new == store'[s].issued
                             IN  old # None => new # None /\ old <= new]_vars

\* Data that went stale are replaced or reported: the health of a living thread does not
\* stay "ok" over them.
StaleReported ==
    \A s \in Services :
        (Status(s) = "stale" /\ pc[s] # "ended") ~>
            (Status(s) # "stale" \/ ~health[s] \/ pc[s] = "ended")

\* docs/data-quality-and-forecasting.md: "missing provider/weather data is shown to degrade
\* gracefully".  The same of every thread: one that a database error has ended leaves its
\* health as it was, whatever becomes of the data.
StaleShown ==
    \A s \in Services : (Status(s) = "stale") ~> (Status(s) # "stale" \/ ~health[s])

\* docs/data-quality-and-forecasting.md: corrected forecasts are scored "in four lead-time
\* bands".  What is scored was forecast before it happened.
ScoredAhead == \A p \in Scored : p.issued <= p.at
=============================================================================
