------------------------------ MODULE PlantState ----------------------------
(***************************************************************************)
(* The current plant model (model.py, PlantState): device threads publish  *)
(* the inputs of the derived signals under one lock, the derived signals   *)
(* are computed from the latest inputs in the same critical section, API   *)
(* readers take snapshots, and each /v1/stream client follows the state's  *)
(* sequence number (api.py, _stream).                                      *)
(*                                                                         *)
(* The site.* signals are computed and cleared together but age one by     *)
(* one: a ratio whose denominator is zero has no result, its quality is    *)
(* "unavailable", and only a "good" measurement is ever labelled stale.    *)
(* The value of a derived signal is kept as the function of the input      *)
(* values it was computed from.  What the sinks do with a measurement once *)
(* the lock is released is HistoryPipeline's.                              *)
(***************************************************************************)
EXTENDS Integers, Sequences, FiniteSetsExt

CONSTANTS Inputs,          \* DERIVATION_INPUTS
          Signals,         \* the names of the derived signals
          NoResult,        \* per signal: the input values for which it has no result
          Publishers,      \* device threads
          Groups,          \* per publisher: the sets of inputs it publishes together
          Values,          \* per input: what its device may report
          NoValue,         \* None: the device answered that it has no reading
          MaxAge,          \* per input: max_age_seconds of its measurements
          FreshnessFloor,  \* least max_age of a derived measurement (0.001 s)
          ReportPeriod,    \* the monitor thread's period (5 s)
          Clients,         \* open /v1/stream connections
          Absent,          \* no measurement of that name
          MaxTime,         \* bound: the clock
          MaxPublish       \* bound: publications per publisher

ASSUME PlantAssumption ==
    /\ Inputs # {} /\ IsFiniteSet(Inputs)
    /\ Groups \in [Publishers -> SUBSET ((SUBSET Inputs) \ {{}})]
    /\ LET readings == UNION {Values[i] : i \in Inputs}
       IN  /\ Absent \notin [value : readings, observed : Nat]
           /\ Absent \notin [value : [Inputs -> readings], quality : {"good", "unavailable"},
                              observed : Nat, max_age : Nat]
           /\ NoResult \in [Signals -> SUBSET [Inputs -> readings]]
    /\ MaxAge \in [Inputs -> Nat]
    /\ FreshnessFloor \in Nat
    /\ ReportPeriod \in Nat \ {0}
    /\ MaxTime \in Nat
    /\ MaxPublish \in [Publishers -> Nat]

VARIABLES
    time,          \* time.monotonic()
    measurements,  \* PlantState._measurements: the inputs
    derived,       \* PlantState._measurements: the derived signals
    sequence,      \* PlantState._sequence
    publisher,     \* per publisher: where the thread is, how often it published
    batch,         \* per publisher: the measurements it has read and not yet published
    next_report,   \* when the monitor thread wakes
    client,        \* per client: where _stream is, and its local variables
    view           \* per client: the last snapshot it received

stateVars  == <<measurements, derived, sequence>>
workVars   == <<publisher, batch>>
clientVars == <<client, view>>
vars == <<time, stateVars, workVars, next_report, clientVars>>

\* an input's quality is "unavailable" when it has no value and "good" otherwise
Readings == UNION {Values[i] : i \in Inputs}
Measured == [value : Readings, observed : 0..MaxTime]
Nothing  == [s \in Signals |-> Absent]
NoView   == [now |-> 0, inputs |-> [i \in Inputs |-> Absent], derived |-> Nothing]

Init ==
    /\ time = 0
    /\ measurements = [i \in Inputs |-> Absent]
    /\ derived = Nothing
    /\ sequence = 0
    /\ publisher = [p \in Publishers |-> [pc |-> "read", published |-> 0]]
    /\ batch = [p \in Publishers |-> <<>>]
    /\ next_report = 0
    /\ client = [c \in Clients |-> [pc |-> "wait", sequence |-> -1, next |-> -1, now |-> 0]]
    /\ view = [c \in Clients |-> NoView]

\* Time passes.  The monitor's wait is short compared with its period: its report
\* comes before the clock moves on.
Tick ==
    /\ time < MaxTime
    /\ time < next_report
    /\ time' = time + 1
    /\ UNCHANGED <<stateVars, workVars, next_report, clientVars>>
-----------------------------------------------------------------------------
(***************************************************************************)
(* Deriving.  now is when the newest measurement of the batch was          *)
(* observed, not when it is published.                                     *)
(***************************************************************************)

Expiry(ms, i) == ms[i].observed + MaxAge[i]

Usable(ms, i, now) ==
    /\ ms[i] # Absent
    /\ ms[i].value # NoValue
    /\ now <= Expiry(ms, i)

Quality(s, value) == IF value \in NoResult[s] THEN "unavailable" ELSE "good"

Mutant_Derivation(s, ms, now) ==
    LET value == [i \in Inputs |-> ms[i].value]
    IN  [value    |-> value,
         quality  |-> Quality(s, value),
         observed |-> now,
         max_age  |-> Max({FreshnessFloor} \cup {Expiry(ms, i) - now : i \in Inputs})]

Derivation(s, ms, now) ==
    LET value == [i \in Inputs |-> ms[i].value]
    IN  [value    |-> value,
         quality  |-> Quality(s, value),
         observed |-> now,
         max_age  |-> Max({FreshnessFloor, Min({Expiry(ms, i) - now : i \in Inputs})})]

Mutant_Derive(ms, now) ==
    IF \A i \in Inputs : Usable(ms, i, now)
      THEN [s \in Signals |-> Derivation(s, ms, now)] ELSE derived

\* _derive_locked: withdraw the derived signals unless every input is usable
Derive(ms, now) ==
    IF \A i \in Inputs : Usable(ms, i, now)
      THEN [s \in Signals |-> Derivation(s, ms, now)] ELSE Nothing

\* current_dict: a signal without a result is not labelled stale, however old it is
Stale(d, now) == d.quality = "good" /\ now - d.observed > d.max_age
-----------------------------------------------------------------------------
(***************************************************************************)
(* Publishing.  A reading is taken, then published under the lock: other   *)
(* threads run in between.                                                 *)
(***************************************************************************)

Read(p) ==
    /\ publisher[p].pc = "read"
    /\ publisher[p].published < MaxPublish[p]
    /\ \E g \in Groups[p] :
           \E r \in [g -> [value : Readings, observed : {time}]] :
               /\ \A i \in g : r[i].value \in Values[i]
               /\ batch' = [batch EXCEPT ![p] = r]
    /\ publisher' = [publisher EXCEPT ![p].pc = "publish"]
    /\ UNCHANGED <<time, stateVars, next_report, clientVars>>

Overwritten(ms, r) == [i \in Inputs |-> IF i \in DOMAIN r THEN r[i] ELSE ms[i]]
ObservedAt(r) == Max({r[i].observed : i \in DOMAIN r})

Mutant_Changed == sequence

\* every change of the state moves the sequence, a change of health too
Changed == sequence + 1

\* publish, publish_many: the critical section
Publish(p) ==
    LET ms == Overwritten(measurements, batch[p])
    IN  /\ publisher[p].pc = "publish"
        /\ measurements' = ms
        /\ derived' = Derive(ms, ObservedAt(batch[p]))
        /\ sequence' = Changed
        /\ batch' = [batch EXCEPT ![p] = <<>>]
        /\ publisher' = [publisher EXCEPT ![p] = [pc |-> "read", published |-> @.published + 1]]
        /\ UNCHANGED <<time, next_report, clientVars>>

\* The monitor thread: update_health, every ReportPeriod
Report ==
    /\ time >= next_report
    /\ sequence' = Changed
    /\ next_report' = time + ReportPeriod
    /\ UNCHANGED <<time, measurements, derived, workVars, clientVars>>
-----------------------------------------------------------------------------
(***************************************************************************)
(* A client of /v1/stream: wait_for_change, then plant(), then send.       *)
(***************************************************************************)

\* wait_for_change returns when the sequence differs from the client's (on a timeout it
\* returns the same sequence and a keepalive is sent, which changes nothing here)
WaitForChange(c) ==
    /\ client[c].pc = "wait"
    /\ sequence # client[c].sequence
    /\ client' = [client EXCEPT ![c].pc = "now", ![c].next = sequence]
    /\ UNCHANGED <<time, stateVars, workVars, next_report, view>>

\* current(): the clock is read before the lock is taken
ReadClock(c) ==
    /\ client[c].pc = "now"
    /\ client' = [client EXCEPT ![c].pc = "snapshot", ![c].now = time]
    /\ UNCHANGED <<time, stateVars, workVars, next_report, view>>

Mutant_Served(d, now) == d

\* a stale derived measurement is left out, stale inputs are only labelled so
Served(d, now) == IF d # Absent /\ Stale(d, now) THEN Absent ELSE d

\* the client's sequence becomes the one announced, whatever happened since
Snapshot(c) ==
    /\ client[c].pc = "snapshot"
    /\ view' = [view EXCEPT ![c] = [now     |-> client[c].now,
                                    inputs  |-> measurements,
                                    derived |-> [s \in Signals |->
                                                     Served(derived[s], client[c].now)]]]
    /\ client' = [client EXCEPT ![c] = [pc |-> "wait", sequence |-> client[c].next,
                                        next |-> -1, now |-> 0]]
    /\ UNCHANGED <<time, stateVars, workVars, next_report>>

ClientStep(c) == WaitForChange(c) \/ ReadClock(c) \/ Snapshot(c)

Next ==
    \/ Tick
    \/ \E p \in Publishers : Read(p) \/ Publish(p)
    \/ Report
    \/ \E c \in Clients : ClientStep(c)

\* Threads that can run are scheduled and the clock advances; no device need answer.
Fairness ==
    /\ WF_vars(Tick)
    /\ WF_vars(Report)
    /\ \A p \in Publishers : WF_vars(Publish(p))
    /\ \A c \in Clients : WF_vars(ClientStep(c))

Spec == Init /\ [][Next]_vars /\ Fairness
-----------------------------------------------------------------------------
(***************************************************************************)
(* Properties.                                                             *)
(***************************************************************************)

Derivations == [value : [Inputs -> Readings], quality : {"good", "unavailable"},
                observed : 0..MaxTime, max_age : {n \in Nat : n >= FreshnessFloor}]

\* Type invariant; a derived measurement keeps the least lifetime of _derive_locked.
TypeOK ==
    /\ time \in 0..MaxTime
    /\ measurements \in [Inputs -> Measured \cup {Absent}]
    /\ derived \in [Signals -> Derivations \cup {Absent}]
    /\ sequence \in Nat
    /\ publisher \in [Publishers -> [pc : {"read", "publish"}, published : Nat]]
    /\ \A p \in Publishers : publisher[p].published <= MaxPublish[p]
    /\ DOMAIN batch = Publishers
    /\ \A p \in Publishers :
           IF publisher[p].pc = "publish"
             THEN \E g \in Groups[p] : batch[p] \in [g -> Measured]
             ELSE batch[p] = <<>>
    /\ next_report \in 0..(MaxTime + ReportPeriod)
    /\ client \in [Clients -> [pc : {"wait", "now", "snapshot"}, sequence : Nat \cup {-1},
                              next : Nat \cup {-1}, now : 0..MaxTime]]
    /\ view \in [Clients -> [now : 0..MaxTime,
                            inputs : [Inputs -> Measured \cup {Absent}],
                            derived : [Signals -> Derivations \cup {Absent}]]]

\* The signal s was computed as d from exactly the inputs ms, all of which have a value.
Follows(s, d, ms) ==
    /\ \A i \in Inputs : ms[i] # Absent /\ ms[i].value # NoValue /\ ms[i].value = d.value[i]
    /\ d.quality = Quality(s, d.value)

\* Every input of d is fresh, a derivation made in the very last instant of an input's
\* life being granted FreshnessFloor.
Fresh(d, ms, now) ==
    \A i \in Inputs : now <= Expiry(ms, i) \/ now <= d.observed + FreshnessFloor

\* A derived signal may be shown with the inputs ms at time now.
Backed(s, d, ms, now) ==
    Follows(s, d, ms) /\ (d.quality = "good" => Fresh(d, ms, now))

\* Whatever the order in which threads publish what they observed earlier, a reader is
\* served every derived signal when each input could be used now; none is served unless
\* it is the one of the inputs served with it, all present and with a value; and one that
\* has a result is served only while these inputs are fresh.
DerivedIffUsable ==
    \A s \in Signals :
        LET served == Served(derived[s], time)
        IN  /\ served # Absent => Backed(s, served, measurements, time)
            /\ (\A i \in Inputs : Usable(measurements, i, time)) => served # Absent

\* A client is never shown a derived signal beside inputs it does not follow from, nor a
\* result beside inputs that were stale at the time of its snapshot, even when inputs
\* change between its look at the clock and its snapshot.
ViewConsistent ==
    \A c \in Clients, s \in Signals :
        LET shown == view[c].derived[s]
        IN  shown # Absent => Backed(s, shown, view[c].inputs, view[c].now)

\* "All derived values are withdrawn when a required input is missing, invalid or stale"
\* (docs/phases-3-to-6.md:29), read of every derived signal.  The code withdraws a ratio
\* that has no result when an input is missing or invalid, never when one is stale:
\* current() leaves out what current_dict labelled "stale", which is only ever a "good"
\* measurement.
AllWithdrawn ==
    \A s \in Signals :
        LET served == Served(derived[s], time)
        IN  served # Absent =>
                Follows(s, served, measurements) /\ Fresh(served, measurements, time)

\* No change is lost to a client: one that arrives between the end of its wait and its
\* snapshot, or while it is sending, is sent all the same.
ClientsCatchUp ==
    \A c \in Clients : view[c].inputs # measurements ~> view[c].inputs = measurements

\* Nothing notifies a client that a value went stale, yet every derived result that did
\* is withdrawn from its view or replaced: the monitor's report moves the sequence.  It
\* speaks of the signals that have a result; AllWithdrawn is about the others.
StaleWithdrawn ==
    \A c \in Clients, s \in Signals :
        LET expired == view[c].derived[s] # Absent /\ Stale(view[c].derived[s], time)
        IN  expired ~> ~expired
=============================================================================
