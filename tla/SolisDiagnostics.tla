--------------------------- MODULE SolisDiagnostics ---------------------------
(***************************************************************************)
(* The diagnostic reading of the Solis inverter (solis.py, serial_rtu.py)  *)
(* and the monitor's check of it against the authoritative meter           *)
(* (_check_solis_mismatch in daemon.py).                                   *)
(*                                                                         *)
(* Time is counted in the monitor's rounds, 5 s, as the ages of things, up *)
(* to where they make no further difference.  Pauses of the Solis thread   *)
(* are untimed, so its backoff does not show.  Of its values the model     *)
(* keeps the age of solis.active_power; how it compares with the meter is  *)
(* chosen when the monitor looks.                                          *)
(***************************************************************************)
EXTENDS Integers, Sequences

CONSTANTS Groups,      \* number of GROUPS; active power is in the first
          Validity,    \* rounds a reading stays good (20 s in the code)
          Duration     \* mismatch_duration_seconds in rounds

ASSUME DiagnosticsAssumption ==
    /\ Groups \in Nat \ {0}
    /\ {Validity, Duration} \subseteq Nat

VARIABLES
    stop_event, \* Daemon.stop_event
    thread,     \* per thread: "none" before it is started, then "running", "ended"
    answers,    \* external: how many of the groups the inverter answers, from the first on
    solis,      \* the thread: "closed", "read", "pause", "broken"
    group,      \* the group it reads next
    power_age,  \* since solis.active_power was last published
    mismatch_age,       \* since _mismatch_since; -1: None
    mismatch_reported,
    events,     \* the last event of source_resolver: "none", "disagrees" or "restored"
    \* history variable: no guard reads it
    agreed_age  \* since the last round without a usable difference

monitorVars == <<mismatch_age, mismatch_reported, events, agreed_age>>
solisVars   == <<solis, group, power_age>>
diagnosticVars == <<answers, solisVars, monitorVars>>

DiagnosticsInit ==
    /\ answers = Groups
    /\ solis = "closed" /\ group = 1 /\ power_age = Validity + 1
    /\ mismatch_age = -1 /\ mismatch_reported = FALSE /\ events = "none"
    /\ agreed_age = 0

-----------------------------------------------------------------------------
(* The Solis thread. *)

\* The port opens, or does not: not there, held by another, termios.error apart.
Open ==
    /\ solis = "closed" /\ ~stop_event
    /\ \/ solis' = "read" /\ group' = 1
       \/ solis' = "pause" /\ UNCHANGED group
    /\ UNCHANGED <<thread, power_age>>

\* Mutant for ReadsResume: an error leaves run().
Mutant_ReadFails ==
    /\ solis = "read" /\ group > answers
    /\ thread' = [thread EXCEPT !["solis"] = "ended"]
    /\ UNCHANGED solisVars

\* ModbusError or OSError closes the port; the next round starts at the first group.
ReadFails ==
    /\ solis = "read" /\ group > answers
    /\ solis' = "pause"
    /\ UNCHANGED <<thread, group, power_age>>

ReadGroup ==
    /\ solis = "read" /\ group <= answers
    /\ power_age' = IF group = 1 THEN 0 ELSE power_age
    /\ group' = IF group < Groups THEN group + 1 ELSE 1
    /\ UNCHANGED <<thread, solis>>

Pause ==
    /\ solis = "pause"
    /\ solis' = "closed"
    /\ UNCHANGED <<thread, group, power_age>>

\* The loops look at stop between groups and rounds.
SolisStops ==
    /\ stop_event
    /\ thread' = [thread EXCEPT !["solis"] = "ended"]
    /\ UNCHANGED solisVars

\* termios.error is no OSError: it leaves run() from __enter__ and from exchange.
TermiosError ==
    /\ solis \in {"closed", "read"}
    /\ solis' = "broken"
    /\ thread' = [thread EXCEPT !["solis"] = "ended"]
    /\ UNCHANGED <<group, power_age>>

SolisStep ==
    /\ thread["solis"] = "running"
    /\ Open \/ ReadGroup \/ ReadFails \/ Pause
    /\ UNCHANGED <<stop_event, answers, monitorVars>>

SolisEnds ==
    /\ thread["solis"] = "running"
    /\ SolisStops \/ TermiosError
    /\ UNCHANGED <<stop_event, answers, monitorVars>>

-----------------------------------------------------------------------------
(* The monitor thread. *)

Good == power_age <= Validity

\* Mutant for WarningsRight: the moment of the first difference is never forgotten.
Mutant_AgeAfterAgreement == mismatch_age

AgeAfterAgreement == -1

MismatchAge == IF mismatch_age # -1 THEN mismatch_age ELSE 0

WarningEarned == ~mismatch_reported /\ MismatchAge >= Duration

\* The values differ by more than the tolerance: only when the reading is good.
Differs ==
    /\ Good
    /\ mismatch_age' = MismatchAge
    /\ IF WarningEarned THEN events' = "disagrees" /\ mismatch_reported' = TRUE
                 ELSE UNCHANGED <<events, mismatch_reported>>
    /\ UNCHANGED agreed_age

\* They agree, or one of them is not usable.
Agrees ==
    /\ events' = IF mismatch_reported THEN "restored" ELSE events
    /\ mismatch_age' = AgeAfterAgreement /\ mismatch_reported' = FALSE
    /\ agreed_age' = 0

CheckMismatch ==
    /\ thread["monitor"] = "running"
    /\ Differs \/ Agrees
    /\ UNCHANGED <<stop_event, thread, answers, solisVars>>

\* stop, or sqlite3.Error when there is an event to record: the new values of the two
\* fields are not assigned then, except for _mismatch_since.
MonitorEnds ==
    /\ thread["monitor"] = "running"
    /\ \/ stop_event /\ UNCHANGED mismatch_age
       \/ Good /\ WarningEarned /\ mismatch_age' = MismatchAge
       \/ mismatch_reported /\ UNCHANGED mismatch_age
    /\ thread' = [thread EXCEPT !["monitor"] = "ended"]
    /\ UNCHANGED <<stop_event, answers, solisVars, mismatch_reported, events, agreed_age>>

-----------------------------------------------------------------------------
(* The outside. *)

Older(age, most) == IF age \in 0 .. most - 1 THEN age + 1 ELSE age

RoundPasses ==
    /\ power_age' = Older(power_age, Validity + 1)
    /\ mismatch_age' = Older(mismatch_age, Duration)
    /\ agreed_age' = Older(agreed_age, Duration)
    /\ UNCHANGED <<stop_event, thread, answers, solis, group, mismatch_reported, events>>

InverterChanges ==
    /\ answers' \in 0 .. Groups
    /\ UNCHANGED <<stop_event, thread, solisVars, monitorVars>>

DiagnosticsStep ==
    SolisStep \/ SolisEnds \/ CheckMismatch \/ MonitorEnds \/ RoundPasses \/ InverterChanges

-----------------------------------------------------------------------------
(* Properties *)

\* A warning is recorded only when every round since Duration ago has seen a difference, and
\* never twice without "restored" in between; "restored" is recorded only after a warning.
WarningsRight ==
    [][events' # events =>
          /\ events' = "disagrees" => events # "disagrees" /\ agreed_age >= Duration
          /\ events' = "restored"  => events = "disagrees"]_events
=============================================================================
