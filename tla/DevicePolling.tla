----------------------------- MODULE DevicePolling --------------------------
(***************************************************************************)
(* Polling the ASW inverter (asw.py, serial_rtu.py, parse_read_response in *)
(* modbus.py).  After opening the port the thread reads the identity       *)
(* groups, then again and again the poll group that is due first.  Any     *)
(* error closes the port; after a growing pause everything starts over.    *)
(*                                                                         *)
(* due holds what is left until a group is due, negative when it is late.  *)
(* Of an answer the model keeps whose registers it carries; what else can  *)
(* be wrong with it (CRC, length, exception, silence) is no answer.        *)
(***************************************************************************)
EXTENDS Integers, Sequences, FiniteSetsExt, SequencesExt

CONSTANTS IdentityGroups,  \* IDENTITY_GROUPS, a sequence
          PollGroups,      \* POLL_GROUPS, a sequence
          Critical,        \* the poll groups with operating power, battery power and SOC
          Shape,           \* per group: its function and count
          Interval,        \* per poll group: Group.interval
          MaxExchange,     \* longest successful exchange, the short pause before it included
          MaxBackoff,      \* longest pause before the port is opened again (30 s)
          None,            \* no group
          MaxUnplugs       \* bound: times the adapter is pulled out

Polled    == Range(PollGroups)
AllGroups == Range(IdentityGroups) \cup Polled

ASSUME PollingAssumption ==
    /\ IdentityGroups \in Seq(Range(IdentityGroups)) /\ IdentityGroups # <<>>
    /\ PollGroups \in Seq(Range(PollGroups)) /\ PollGroups # <<>>
    /\ IsInjective(PollGroups)
    /\ Critical \subseteq Polled
    /\ None \notin AllGroups
    /\ \A g \in AllGroups \ {Head(IdentityGroups)} : Shape[g] # Shape[Head(IdentityGroups)]
    /\ Interval \in [Polled -> Nat \ {0}]
    /\ MaxExchange \in Nat \ {0}
    /\ MaxBackoff \in Nat \ {0}
    /\ MaxUnplugs \in Nat

VARIABLES
    adapter,   \* external: "present" or "unplugged"
    unplugs,   \* external: how often the adapter has been pulled out
    answers,   \* external: the groups the inverter answers
    late,      \* external: the group whose answer was given up and is still on its way
    pc,        \* the thread: "closed", "request", "response", "choose"; "ended": no thread
    todo,      \* identity groups still to be read
    group,     \* the group being read, or last read
    due,       \* per poll group: due[name] - time.monotonic()
    backoff,   \* seconds until the next attempt
    status,    \* health["asw"]["status"]
    reported   \* per group: whose registers were last published under its names

external == <<adapter, unplugs, answers>>
vars == <<external, late, pc, todo, group, due, backoff, status, reported>>

Init ==
    /\ adapter \in {"present", "unplugged"} /\ unplugs = 0
    /\ answers \in SUBSET AllGroups
    /\ late = None
    /\ pc = "closed" /\ todo = <<>> /\ group = None
    /\ due = [g \in Polled |-> 0]
    /\ backoff = 1
    /\ status = "none"
    /\ reported = [g \in AllGroups |-> None]
-----------------------------------------------------------------------------
(***************************************************************************)
(* The plant (external).                                                   *)
(***************************************************************************)

Unplug ==
    /\ adapter = "present" /\ unplugs < MaxUnplugs
    /\ adapter' = "unplugged" /\ unplugs' = unplugs + 1
    /\ late' = None
    /\ UNCHANGED <<answers, pc, todo, group, due, backoff, status, reported>>

Replug ==
    /\ adapter = "unplugged"
    /\ adapter' = "present"
    /\ UNCHANGED <<unplugs, answers, late, pc, todo, group, due, backoff, status, reported>>

\* The inverter starts or stops answering a group: it boots, sleeps, lacks the registers, or
\* noise spoils an answer.
Inverter ==
    /\ \E g \in AllGroups : answers' = SymDiff(answers, {g})
    /\ UNCHANGED <<adapter, unplugs, late, pc, todo, group, due, backoff, status, reported>>
-----------------------------------------------------------------------------
(***************************************************************************)
(* Opening and failing.  SerialRTU.__enter__ raises ModbusError when the   *)
(* device cannot be opened, and termios.error, which run does not catch,   *)
(* when it goes away in between.                                           *)
(***************************************************************************)

Open ==
    /\ pc = "closed" /\ adapter = "present"
    /\ pc' = "request"
    /\ todo' = IdentityGroups
    /\ group' = Head(IdentityGroups)
    /\ status' = "starting"
    /\ UNCHANGED <<external, late, due, backoff, reported>>

\* backoff = min(backoff * 2, 30.0)
Longer == Min({2 * backoff, MaxBackoff})

\* except ModbusError, OSError: report, wait, then try again
Fail ==
    /\ pc' = "closed"
    /\ todo' = <<>> /\ group' = None
    /\ due' = [g \in Polled |-> 0]
    /\ backoff' = Longer
    /\ status' = "failed"
    /\ UNCHANGED <<external, reported>>

OpenFails ==
    /\ pc = "closed" /\ adapter = "unplugged"
    /\ Fail
    /\ UNCHANGED late

End ==
    /\ pc' = "ended"
    /\ UNCHANGED <<external, late, todo, group, due, backoff, reported>>

OpenRaises ==
    /\ pc = "closed" /\ adapter = "unplugged"
    /\ End
    /\ status' = "starting"
-----------------------------------------------------------------------------
(***************************************************************************)
(* One exchange: flush what has arrived, write the request, wait for the   *)
(* answer.                                                                 *)
(***************************************************************************)

\* tcflush on a port whose device is gone raises termios.error.
Request ==
    /\ pc = "request"
    /\ \/ /\ adapter = "present"
          /\ pc' = "response"
          /\ UNCHANGED <<external, late, todo, group, due, backoff, status, reported>>
       \/ /\ adapter = "unplugged"
          /\ End
          /\ UNCHANGED status

\* The device goes away while tcdrain waits for the request to be sent.
DrainRaises ==
    /\ pc = "response" /\ adapter = "unplugged"
    /\ End
    /\ UNCHANGED status

Mutant_Rescheduled(k) ==
    [g \in Polled |-> IF g = group THEN Interval[g] ELSE Max({0, due[g] - k})]

\* due[name] = time.monotonic() + interval, k after the exchange began
Rescheduled(k) == [g \in Polled |-> IF g = group THEN Interval[g] ELSE due[g] - k]

Publish(source) == reported' = [reported EXCEPT ![group] = source]

\* The identity groups are read once each, then polling starts with everything due.
IdentityRead ==
    /\ todo # <<>>
    /\ todo' = Tail(todo)
    /\ due' = due
    /\ IF Tail(todo) # <<>>
       THEN /\ pc' = "request"
            /\ group' = Head(Tail(todo))
            /\ UNCHANGED <<backoff, status>>
       ELSE /\ pc' = "choose"
            /\ backoff' = 1
            /\ status' = "ok"
            /\ UNCHANGED group

PollRead ==
    /\ todo = <<>>
    /\ \E k \in 1..MaxExchange : due' = Rescheduled(k)
    /\ pc' = "choose"
    /\ status' = "ok"
    /\ UNCHANGED <<todo, group, backoff>>

Read(source) ==
    /\ Publish(source)
    /\ IdentityRead \/ PollRead
    /\ late' = None
    /\ UNCHANGED external

Mutant_Accepted(source) == TRUE

\* parse_read_response: same slave and function, and as many bytes as were asked for
Accepted(source) == Shape[source] = Shape[group]

Answered ==
    /\ pc = "response" /\ adapter = "present"
    /\ group \in answers
    /\ Read(group)

\* An answer given up earlier arrives in the next exchange, ahead of the real one.
LateAnswer ==
    /\ pc = "response" /\ adapter = "present"
    /\ late # None
    /\ IF Accepted(late) THEN Read(late) ELSE Fail /\ late' = None

\* A damaged answer, an exception, or none in time: the answer may still come.
NoAnswer ==
    /\ pc = "response"
    /\ group \in answers => adapter = "unplugged"
    /\ Fail
    /\ late' \in {None} \cup (IF adapter = "present" THEN {group} ELSE {})
-----------------------------------------------------------------------------
(***************************************************************************)
(* min(due, key=due.get): the first of the groups that are due first, once *)
(* it is due.                                                              *)
(***************************************************************************)

\* the first group that is due, in the order of POLL_GROUPS
Mutant_Earliest ==
    LET overdue == {i \in DOMAIN PollGroups : due[PollGroups[i]] <= 0}
    IN  PollGroups[IF overdue # {} THEN Min(overdue) ELSE 1]

Earliest ==
    PollGroups[Min({i \in DOMAIN PollGroups :
                       \A g \in Polled : due[PollGroups[i]] <= due[g]})]

Choose ==
    /\ pc = "choose"
    /\ group' = Earliest
    /\ due' = [g \in Polled |-> due[g] - Max({0, due[group']})]
    /\ pc' = "request"
    /\ UNCHANGED <<external, late, todo, backoff, status, reported>>

Plant   == Unplug \/ Replug \/ Inverter
Opening == Open \/ OpenFails \/ OpenRaises
Reading == Request \/ DrainRaises \/ Answered \/ LateAnswer \/ NoAnswer \/ Choose

Next == Plant \/ Opening \/ Reading

Spec == Init /\ [][Next]_vars

\* The thread keeps running.
FairSpec == Spec /\ WF_vars(Opening \/ Reading)
-----------------------------------------------------------------------------
(***************************************************************************)
(* Properties.                                                             *)
(***************************************************************************)

\* The variables hold what they should.
TypeOK ==
    /\ adapter \in {"present", "unplugged"} /\ unplugs \in 0..MaxUnplugs
    /\ answers \subseteq AllGroups
    /\ late \in AllGroups \cup {None}
    /\ pc \in {"closed", "request", "response", "choose", "ended"}
    /\ todo \in Seq(Range(IdentityGroups))
    /\ group \in AllGroups \cup {None}
    /\ pc \in {"request", "response", "choose"} => group # None
    /\ due \in [Polled -> Int]
    /\ backoff \in 1..MaxBackoff
    /\ status \in {"none", "starting", "ok", "failed"}
    /\ reported \in [AllGroups -> AllGroups \cup {None}]

\* A group's names never show another group's registers, although an answer to an earlier
\* request may come after its timeout and some groups have answers of the same length: the
\* first request after a failure is the one no other answer fits (ASWWorker.run, exchange,
\* parse_read_response).
PublishedGenuine == \A g \in AllGroups : reported[g] \in {None, g}

\* No poll group is overdue for longer than the other groups take once: with max_age at
\* least interval plus one exchange per group nothing goes stale while the inverter answers
\* (the schedule of ASWWorker.run).
BoundedLateness ==
    \A g \in Polled : due[g] >= -((Len(PollGroups) - 1) * MaxExchange)

Reads(g) == pc = "choose" /\ group = g

\* Once the inverter answers everything and the thread has survived, every group is polled
\* again and again, whatever failed before (ASWWorker.run).
GroupsPolled ==
    <>[](adapter = "present" /\ answers = AllGroups /\ pc # "ended")
        => \A g \in Polled : []<>Reads(g)

\* docs/daemon-plan.md: "reconnect, retry, backoff and stale-data behaviour".  Once the
\* adapter is back for good and the inverter answers everything, every group is polled again
\* and again, whatever happened to the thread before.
PollingResumes ==
    <>[](adapter = "present" /\ answers = AllGroups) => \A g \in Polled : []<>Reads(g)

\* Once the adapter stays and the inverter answers the critical groups, they are polled
\* again and again, whatever the other groups do.
CriticalPolled ==
    <>[](adapter = "present" /\ Critical \subseteq answers)
        => \A g \in Critical : []<>Reads(g)
=============================================================================
