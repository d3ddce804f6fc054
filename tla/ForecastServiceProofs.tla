------------------------ MODULE ForecastServiceProofs ------------------------
(***************************************************************************)
(* Theorems about ForecastService for any age limits, bands and clock      *)
(* bound: what is in the database and the cache file when the forecast     *)
(* thread says "ok", and that weather at hand is used.                     *)
(***************************************************************************)
EXTENDS ForecastService, TLAPS

W == "weather"
F == "forecast"

Places == {"off", "load", "wait", "archive", "base", "corrected", "save", "except", "ended"}
Stages == {"load_cache", "start_weather", "start_forecast", "started"}

Stamp(payload) == payload.issued = None \/ payload.issued \in 0 .. now

\* The shape of the state; a payload is never dated ahead.
Shape ==
    /\ now \in Nat
    /\ main \in Stages
    /\ pc \in [Services -> Places]
    /\ DOMAIN store = Services /\ DOMAIN cache = Services /\ DOMAIN health = Services
    /\ \A s \in Services : Stamp(store[s]) /\ Stamp(cache[s])

Vintage(provider) == [provider |-> provider, issued |-> store[F].issued]

\* What the forecast thread has made sure of by the place it is at.
Progress ==
    /\ pc[F] = "corrected" => Vintage("base") \in archive
    /\ pc[F] = "save" /\ persisted => {Vintage("base"), Vintage("corrected")} \subseteq archive
    /\ pc[F] = "wait" /\ health[F] =>
          cache[F] = store[F] /\ {Vintage("base"), Vintage("corrected")} \subseteq archive

\* No thread runs before its start, and from the load on the weather in memory is no older
\* than the file.
Started ==
    /\ main = "load_cache" => \A s \in Services : pc[s] = "off"
    /\ main # "load_cache" /\ cache[W].issued # None =>
          store[W].issued # None /\ cache[W].issued <= store[W].issued

Inv == Shape /\ CorrectedHasBase /\ Progress /\ Started

-----------------------------------------------------------------------------

\* The mark of no payload is no time of one.
LEMMA NoneIsNoTime == None \notin Nat /\ NoPayload.issued = None
BY ForecastAssumption DEF NoPayload

\* The inductive invariant of both threads, with failures and kills at every step.
THEOREM ServiceInvariant == Spec => []Inv
<1>. USE DEF W, F, Services
<1>1. Init => Inv
  BY NoneIsNoTime DEF Init, Inv, Shape, Stamp, Places, Stages, CorrectedHasBase, Progress, Started
<1>2. Inv /\ [Next]_vars => Inv'
  <2>. SUFFICES ASSUME Inv, [Next]_vars PROVE Inv'
    OBVIOUS
  <2>. USE DEF Inv
  <2>1. CASE Tick
    BY <2>1 DEF Tick, Shape, Stamp, CorrectedHasBase, Progress, Vintage, Started
  <2>2. CASE WeatherStep
    <3>1. CASE LoadOnStart("weather")
      BY <3>1, NoneIsNoTime DEF LoadOnStart, LoadCache, Replace, Report, Goto, Shape, Stamp, Places,
         CorrectedHasBase, Progress, Vintage, Started
    <3>2. CASE RequestFails("weather")
      BY <3>2 DEF RequestFails, Raises, Goto, Shape, Stamp, Places,
         CorrectedHasBase, Progress, Vintage, Started
    <3>3. CASE RequestEnds("weather")
      BY <3>3 DEF RequestEnds, Ends, Goto, Shape, Stamp, Places,
         CorrectedHasBase, Progress, Vintage, Started
    <3>4. CASE ReportFailure("weather")
      BY <3>4 DEF ReportFailure, Report, Goto, Shape, Stamp, Places,
         CorrectedHasBase, Progress, Vintage, Started
    <3>5. CASE WeatherArrives
      BY <3>5, NoneIsNoTime DEF WeatherArrives, Replace, NoPayload, Goto, Shape, Stamp, Places,
         CorrectedHasBase, Progress, Vintage, Started
    <3>6. CASE RecordWeather
      BY <3>6 DEF RecordWeather, Ends, Goto, Shape, Stamp, Places,
         CorrectedHasBase, Progress, Vintage, Started
    <3>7. CASE SaveCache("weather")
      BY <3>7 DEF SaveCache, Raises, Report, Goto, Shape, Stamp, Places,
         CorrectedHasBase, Progress, Vintage, Started
    <3>. QED
      BY <2>2, <3>1, <3>2, <3>3, <3>4, <3>5, <3>6, <3>7 DEF WeatherStep
  <2>3. CASE ForecastStep
    <3>1. CASE LoadOnStart("forecast")
      BY <3>1, NoneIsNoTime DEF LoadOnStart, LoadCache, Replace, Report, Goto, Shape, Stamp, Places,
         CorrectedHasBase, Progress, Vintage, Started
    <3>2. CASE RequestFails("forecast")
      BY <3>2 DEF RequestFails, Raises, Goto, Shape, Stamp, Places,
         CorrectedHasBase, Progress, Vintage, Started
    <3>3. CASE RequestEnds("forecast")
      BY <3>3 DEF RequestEnds, Ends, Goto, Shape, Stamp, Places,
         CorrectedHasBase, Progress, Vintage, Started
    <3>4. CASE ReportFailure("forecast")
      BY <3>4 DEF ReportFailure, Report, Goto, Shape, Stamp, Places,
         CorrectedHasBase, Progress, Vintage, Started
    <3>5. CASE ForecastArrives
      BY <3>5 DEF ForecastArrives, Replace, Corrected, Goto, Shape, Stamp, Places,
         CorrectedHasBase, Progress, Vintage, Started
    <3>6. CASE RecordBase
      BY <3>6 DEF RecordBase, RecordForecast, Archive, Goto, Shape, Stamp, Places,
         CorrectedHasBase, Progress, Vintage, Started
    <3>7. CASE RecordCorrected
      <4>1. /\ UNCHANGED <<now, main, store, cache, health>> /\ pc["forecast"] = "corrected"
            /\ pc' = [pc EXCEPT !["forecast"] = "save"]
        BY <3>7 DEF RecordCorrected, RecordForecast, Goto
      <4>2. Shape' /\ Started'
        BY <4>1 DEF Shape, Stamp, Places, Started
      <4>3. CASE archive' = archive \cup {Vintage("corrected")}
        <5>1. Vintage("base") \in archive
          BY <4>1 DEF Progress
        <5>2. CorrectedHasBase'
          BY <4>3, <5>1 DEF CorrectedHasBase, Vintage
        <5>3. Vintage("base")' = Vintage("base") /\ Vintage("corrected")' = Vintage("corrected")
          BY <4>1 DEF Vintage
        <5>4. {Vintage("base"), Vintage("corrected")}' \subseteq archive'
          BY <4>3, <5>1, <5>3
        <5>5. pc'["forecast"] = "save"
          BY <4>1 DEF Shape
        <5>. QED
          BY <4>2, <5>2, <5>4, <5>5 DEF Progress
      <4>4. CASE persisted' = FALSE /\ archive' = archive
        <5>1. pc'["forecast"] = "save"
          BY <4>1 DEF Shape
        <5>. QED
          BY <4>2, <4>4, <5>1 DEF Progress, CorrectedHasBase
      <4>. QED
        BY <3>7, <4>3, <4>4 DEF RecordCorrected, RecordForecast, Archive, Vintage
    <3>8. CASE SaveCache("forecast")
      <4>1. UNCHANGED <<now, main, persisted, archive, store>> /\ pc["forecast"] = "save"
        BY <3>8 DEF SaveCache, Raises
      <4>2. CASE Raises("forecast") /\ UNCHANGED cache
        BY <4>1, <4>2 DEF Raises, Goto, Shape, Stamp, Places,
           CorrectedHasBase, Progress, Vintage, Started
      <4>3. CASE /\ cache' = [cache EXCEPT !["forecast"] = store["forecast"]]
                 /\ Report("forecast", Refreshed("forecast"))
                 /\ Goto("forecast", "wait")
        <5>1. Shape' /\ Started'
          BY <4>1, <4>3 DEF Report, Goto, Shape, Stamp, Places, Started
        <5>2. cache'["forecast"] = store'["forecast"]
          BY <4>1, <4>3 DEF Shape
        <5>3. health'["forecast"] => persisted
          BY <4>3 DEF Report, Refreshed, Shape
        <5>4. persisted => {Vintage("base"), Vintage("corrected")} \subseteq archive
          BY <4>1 DEF Progress
        <5>5. Vintage("base")' = Vintage("base") /\ Vintage("corrected")' = Vintage("corrected")
          BY <4>1 DEF Vintage
        <5>6. pc'["forecast"] = "wait"
          BY <4>3 DEF Goto, Shape
        <5>7. Progress'
          BY <4>1, <5>2, <5>3, <5>4, <5>5, <5>6 DEF Progress
        <5>. QED
          BY <4>1, <5>1, <5>7 DEF CorrectedHasBase
      <4>. QED
        BY <3>8, <4>2, <4>3 DEF SaveCache
    <3>. QED
      BY <2>3, <3>1, <3>2, <3>3, <3>4, <3>5, <3>6, <3>7, <3>8 DEF ForecastStep
  <2>4. CASE StartStep
    <3>1. CASE StartLoadsCache
      BY <3>1, NoneIsNoTime DEF StartLoadsCache, LoadCache, Replace, Shape, Stamp, Stages,
         CorrectedHasBase, Progress, Vintage, Started
    <3>2. CASE StartWeather
      BY <3>2 DEF StartWeather, StartThread, Goto, Shape, Stamp, Places, Stages,
         CorrectedHasBase, Progress, Vintage, Started
    <3>3. CASE StartForecast
      BY <3>3 DEF StartForecast, StartThread, Goto, Shape, Stamp, Places, Stages,
         CorrectedHasBase, Progress, Vintage, Started
    <3>. QED
      BY <2>4, <3>1, <3>2, <3>3 DEF StartStep
  <2>5. CASE Crash
    BY <2>5, NoneIsNoTime DEF Crash, Shape, Stamp, Places, Stages,
       CorrectedHasBase, Progress, Vintage, Started
  <2>6. CASE UNCHANGED vars
    BY <2>6 DEF vars, Shape, Stamp, CorrectedHasBase, Progress, Vintage, Started
  <2>. QED
    BY <2>1, <2>2, <2>3, <2>4, <2>5, <2>6 DEF Next
<1>. QED
  BY <1>1, <1>2, PTL DEF Spec

\* A corrected vintage in the database always has its provider vintage beside it.
THEOREM ServiceCorrectedHasBase == Spec => []CorrectedHasBase
<1>1. Inv => CorrectedHasBase
  BY DEF Inv
<1>. QED
  BY <1>1, ServiceInvariant, PTL

\* When the forecast thread rests and says "ok", file and database hold what is served.
THEOREM ServiceOkMeansArchived == Spec => []OkMeansArchived
<1>1. Inv => OkMeansArchived
  BY DEF Inv, Progress, OkMeansArchived, Vintage, F
<1>. QED
  BY <1>1, ServiceInvariant, PTL

\* While the weather file holds a payload that is young enough no forecast is corrected
\* without weather, whatever the order of the two threads' steps.
THEOREM ServiceWeatherNotWithheld == Spec => WeatherNotWithheld
<1>1. Inv /\ [Next]_vars =>
        [ForecastArrives /\ cache["weather"].issued # None /\ now - cache["weather"].issued <= MaxAge
           => store'["forecast"].weather]_vars
  <2>. SUFFICES ASSUME Inv, ForecastArrives, cache["weather"].issued # None,
                       now - cache["weather"].issued <= MaxAge
                PROVE  store'["forecast"].weather
    OBVIOUS
  <2>. USE DEF W, F, Services
  <2>1. pc["forecast"] = "wait"
    BY DEF ForecastArrives
  <2>2. main # "load_cache"
    BY <2>1 DEF Inv, Started
  <2>3. /\ store["weather"].issued # None /\ cache["weather"].issued <= store["weather"].issued
        /\ store["weather"].issued \in 0 .. now /\ cache["weather"].issued \in 0 .. now /\ now \in Nat
    BY <2>2 DEF Inv, Shape, Stamp, Started
  <2>4. now - store["weather"].issued <= MaxAge
    BY <2>3, ForecastAssumption
  <2>5. WeatherAvailable
    BY <2>3, <2>4, ForecastAssumption DEF WeatherAvailable, Status
  <2>6. PICK accurate \in BOOLEAN : store' = [store EXCEPT !["forecast"] = Corrected(accurate)]
    BY DEF ForecastArrives, Replace
  <2>7. store'["forecast"] = Corrected(accurate)
    BY <2>6 DEF Inv, Shape
  <2>. QED
    BY <2>5, <2>7 DEF Corrected
<1>. QED
  BY <1>1, ServiceInvariant, PTL DEF Spec, WeatherNotWithheld

=============================================================================
