--------------------------- MODULE MCShadowPlanner --------------------------
(***************************************************************************)
(* ShadowPlanner for TLC: short plans from the last free hour of a day,    *)
(* one to the end of its super export hours, and one through the night     *)
(* into those of the next day.                                             *)
(***************************************************************************)
EXTENDS ShadowPlanner

Stale == -1

\* Load profiles: for all hours of the day, with the hours that differ.
Load(other, some) == [h \in 0 .. 23 |-> IF h \in DOMAIN some THEN some[h] ELSE other]
Busy  == Load(1, [h \in {16, 18} |-> 18 - h])

View(hours, pv, stored, mode, ok, profile) ==
    [horizon |-> hours, pv |-> pv, stored |-> stored, runMode |-> mode, lower |-> 1, upper |-> 9,
     load |-> 1, profile |-> profile, readback |-> ok,
     loadEvidence |-> 2, loadAccuracy |-> IF ok THEN 2 ELSE 1,
     pvEvidence |-> 2, pvAccuracy |-> 2, pvReady |-> ok, loadReady |-> ok]

\* The sun of an afternoon, the hour in between missing, and of the first super export hour.
Sun(power) == [h \in {14, 16, 18} |-> IF h = 18 THEN 1 ELSE power]

\* Four hours ahead: a plan that is worth it, and one that only learns.
Afternoons ==
    {View(4, Sun(2), 7, 2, TRUE, Busy),
     View(4, Sun(1), 10, Stale, FALSE, <<>>)}

\* To the end of the super export hours: an empty battery that a unit of sun fills again
\* between two of them.
Evening == View(8, [h \in {19} |-> 1], 2, 5, TRUE, Load(0, [h \in 21 .. 23 |-> 3]))

\* Into the super export hours of the next day: each evening the sun exports more than the
\* cap, after an hour with more of it than the site may export.
Night == View(30, [h \in 17 .. 19 |-> IF h = 17 THEN 7 ELSE 20 - h], 0, 3, TRUE,
              Load(3, [h \in 18 .. 20 |-> 0]))

MCInputs == Afternoons \cup {Evening, Night}

MCSchedule == {[mode |-> "charge",    power |-> 2, starts |-> 22, ends |-> 14],
               [mode |-> "discharge", power |-> 1, starts |-> 17, ends |-> 19]}

\* An empty battery, and a load in one of the three hours that earn the credit.
CreditInputs == {View(4, <<>>, 2, 2, TRUE, Load(0, [h \in {19} |-> 1]))}

CreditScenarios == {ScenarioOf(in, c) : in \in CreditInputs, c \in 0 .. MaxClock}

MCScenarios == {ScenarioOf(in, c) : in \in MCInputs, c \in 0 .. MaxClock}
=============================================================================
