------------------------ MODULE HistoryPipelineProofs -----------------------
(***************************************************************************)
(* Proofs about HistoryPipeline, for any set of workers, any capacity and  *)
(* batch size and any bounds: type correctness, ExactlyOnce, that the      *)
(* pipeline implements TelemetryLog, and what the history thread leaves    *)
(* behind when it ends.                                                    *)
(***************************************************************************)
EXTENDS HistoryPipeline, SequenceTheorems, TLAPS

-----------------------------------------------------------------------------
(***************************************************************************)
(* Ranges of sequences without repetition.                                 *)
(***************************************************************************)

\* Append adds one element to the range, and keeps a sequence free of repetition
\* when the element is new.
LEMMA RangeAppend ==
    ASSUME NEW S, NEW s \in Seq(S), NEW e \in S
    PROVE  /\ Append(s, e) \in Seq(S)
           /\ Len(Append(s, e)) = Len(s) + 1
           /\ Range(Append(s, e)) = Range(s) \cup {e}
           /\ IsInjective(s) /\ e \notin Range(s) => IsInjective(Append(s, e))
<1>1. /\ Append(s, e) \in Seq(S)
      /\ DOMAIN Append(s, e) = 1..(Len(s) + 1)
      /\ Len(Append(s, e)) = Len(s) + 1
      /\ \A i \in 1..Len(s) : Append(s, e)[i] = s[i]
      /\ Append(s, e)[Len(s) + 1] = e
  BY AppendProperties, LenProperties
<1>2. DOMAIN s = 1..Len(s) /\ Len(s) \in Nat
  BY LenProperties
<1>3. Range(Append(s, e)) = Range(s) \cup {e}
  <2>1. Range(Append(s, e)) \subseteq Range(s) \cup {e}
    BY <1>1, <1>2 DEF Range
  <2>2. Range(s) \subseteq Range(Append(s, e))
    BY <1>1, <1>2 DEF Range
  <2>3. e \in Range(Append(s, e))
    BY <1>1, <1>2 DEF Range
  <2> QED BY <2>1, <2>2, <2>3
<1>4. IsInjective(s) /\ e \notin Range(s) => IsInjective(Append(s, e))
  BY <1>1, <1>2 DEF IsInjective, Range
<1> QED BY <1>1, <1>3, <1>4

\* Taking the head off a sequence without repetition takes it out of the range.
LEMMA RangeTail ==
    ASSUME NEW S, NEW s \in Seq(S), s # <<>>
    PROVE  /\ Tail(s) \in Seq(S)
           /\ Len(Tail(s)) = Len(s) - 1
           /\ Len(s) \in Nat \ {0}
           /\ Head(s) \in Range(s) /\ Head(s) \in S
           /\ Range(Tail(s)) \subseteq Range(s)
           /\ Range(s) = Range(Tail(s)) \cup {Head(s)}
           /\ IsInjective(s) => IsInjective(Tail(s)) /\ Head(s) \notin Range(Tail(s))
<1>1. /\ Tail(s) \in Seq(S)
      /\ Len(Tail(s)) = Len(s) - 1
      /\ \A i \in 1..Len(Tail(s)) : Tail(s)[i] = s[i + 1]
      /\ Head(s) = s[1] /\ Head(s) \in S
  BY HeadTailProperties
<1>2. DOMAIN s = 1..Len(s) /\ Len(s) \in Nat \ {0} /\ DOMAIN Tail(s) = 1..(Len(s) - 1)
  BY <1>1, LenProperties, EmptySeq
<1>3. Head(s) \in Range(s)
  BY <1>1, <1>2 DEF Range
<1>4. Range(Tail(s)) \subseteq Range(s)
  BY <1>1, <1>2 DEF Range
<1>5. Range(s) \subseteq Range(Tail(s)) \cup {Head(s)}
  <2>1. SUFFICES ASSUME NEW i \in 1..Len(s)
                 PROVE  s[i] \in Range(Tail(s)) \cup {Head(s)}
    BY <1>2 DEF Range
  <2>2. CASE i = 1
    BY <2>2, <1>1
  <2>3. CASE i # 1
    <3>1. i - 1 \in 1..(Len(s) - 1) /\ Tail(s)[i - 1] = s[i]
      BY <2>3, <1>1, <1>2
    <3> QED BY <3>1, <1>2 DEF Range
  <2> QED BY <2>2, <2>3
<1>6. IsInjective(s) => IsInjective(Tail(s))
  BY <1>1, <1>2 DEF IsInjective
<1>7. IsInjective(s) => Head(s) \notin Range(Tail(s))
  BY <1>1, <1>2 DEF IsInjective, Range
<1> QED BY <1>1, <1>2, <1>3, <1>4, <1>5, <1>6, <1>7

\* Concatenating two disjoint sequences without repetition repeats nothing.
LEMMA RangeConcat ==
    ASSUME NEW S, NEW s \in Seq(S), NEW t \in Seq(S)
    PROVE  /\ s \o t \in Seq(S)
           /\ Range(s \o t) = Range(s) \cup Range(t)
           /\ IsInjective(s) /\ IsInjective(t) /\ Range(s) \cap Range(t) = {}
                => IsInjective(s \o t)
<1>1. /\ s \o t \in Seq(S)
      /\ Len(s \o t) = Len(s) + Len(t)
      /\ \A i \in 1..(Len(s) + Len(t)) :
            (s \o t)[i] = IF i <= Len(s) THEN s[i] ELSE t[i - Len(s)]
  BY ConcatProperties
<1>2. /\ DOMAIN s = 1..Len(s) /\ DOMAIN t = 1..Len(t)
      /\ Len(s) \in Nat /\ Len(t) \in Nat
      /\ DOMAIN (s \o t) = 1..(Len(s) + Len(t))
  BY <1>1, LenProperties
<1>3. Range(s \o t) = Range(s) \cup Range(t)
  BY RangeConcatenation
<1>4. ASSUME IsInjective(s), IsInjective(t), Range(s) \cap Range(t) = {},
             NEW i \in DOMAIN (s \o t), NEW j \in DOMAIN (s \o t),
             (s \o t)[i] = (s \o t)[j]
      PROVE  i = j
  <2>1. CASE i <= Len(s) /\ j <= Len(s)
    BY <2>1, <1>1, <1>2, <1>4 DEF IsInjective
  <2>2. CASE i > Len(s) /\ j > Len(s)
    <3>1. i - Len(s) \in DOMAIN t /\ j - Len(s) \in DOMAIN t
      BY <2>2, <1>2
    <3>2. t[i - Len(s)] = t[j - Len(s)]
      BY <2>2, <1>1, <1>2, <1>4
    <3>3. i - Len(s) = j - Len(s)
      BY <3>1, <3>2, <1>4 DEF IsInjective
    <3> QED BY <3>3, <1>2
  <2>3. ASSUME NEW a \in DOMAIN s, NEW b \in DOMAIN t PROVE s[a] # t[b]
    BY <1>4 DEF Range
  <2>4. CASE i <= Len(s) /\ j > Len(s)
    <3>1. i \in DOMAIN s /\ j - Len(s) \in DOMAIN t
      BY <2>4, <1>2
    <3>2. s[i] = t[j - Len(s)]
      BY <2>4, <1>1, <1>2, <1>4
    <3> QED BY <3>1, <3>2, <2>3
  <2>5. CASE i > Len(s) /\ j <= Len(s)
    <3>1. j \in DOMAIN s /\ i - Len(s) \in DOMAIN t
      BY <2>5, <1>2
    <3>2. s[j] = t[i - Len(s)]
      BY <2>5, <1>1, <1>2, <1>4
    <3> QED BY <3>1, <3>2, <2>3
  <2> QED BY <2>1, <2>2, <2>4, <2>5, <1>2
<1> QED BY <1>1, <1>3, <1>4 DEF IsInjective

\* The empty sequence and the sequence of one element.
LEMMA RangeSmall ==
    ASSUME NEW S, NEW e \in S
    PROVE  /\ <<>> \in Seq(S) /\ Len(<<>>) = 0 /\ Range(<<>>) = {} /\ IsInjective(<<>>)
           /\ <<e>> \in Seq(S) /\ Len(<<e>>) = 1 /\ Range(<<e>>) = {e} /\ IsInjective(<<e>>)
BY DEF Range, IsInjective
-----------------------------------------------------------------------------
(***************************************************************************)
(* Type correctness.  TypeOK alone is not inductive: that a worker about   *)
(* to put holds a measurement it did publish is what makes Put type-       *)
(* correct.                                                                *)
(***************************************************************************)

\* A worker about to put has published at least one measurement.
PutCounted == \A w \in Workers : worker[w] = "put" => published[w] >= 1

TypeInv == TypeOK /\ PutCounted

\* What a worker is about to put is a measurement.
LEMMA InHandType ==
    ASSUME TypeInv, NEW w \in Workers, worker[w] = "put"
    PROVE  <<w, published[w]>> \in Measurements
BY PipelineAssumption DEF TypeInv, TypeOK, PutCounted, Measurements

\* The sentinel is not a measurement, and measurements are pairs.
LEMMA MeasurementType ==
    /\ None \notin Measurements
    /\ \A m \in Measurements : m = <<m[1], m[2]>> /\ m[1] \in Workers /\ m[2] \in Nat \ {0}
BY PipelineAssumption DEF Measurements

\* The types at the start.
LEMMA InitTypeInv == Init => TypeInv
<1> SUFFICES ASSUME Init PROVE TypeInv
  OBVIOUS
<1> USE PipelineAssumption DEF Init
<1>1. /\ queue \in Seq(Measurements \cup {None}) /\ Len(queue) <= Capacity
      /\ batch \in Seq(Measurements) /\ Len(batch) <= BatchLimit
      /\ rows \in Seq(Measurements)
  OBVIOUS
<1>2. /\ register \in [Threads -> Nat]
      /\ published \in [Workers -> Nat] /\ \A w \in Workers : published[w] <= MaxPublish[w]
      /\ worker \in [Workers -> {"loop", "put", "count", "done"}]
      /\ PutCounted
  BY DEF PutCounted
<1>3. failures \in 0..MaxFailures /\ consecutive_failures \in 0..failures /\ dropped \in Nat
  OBVIOUS
<1> QED BY <1>1, <1>2, <1>3 DEF TypeInv, TypeOK

\* Every step preserves the types.
LEMMA NextTypeInv == TypeInv /\ [Next]_vars => TypeInv'
<1> SUFFICES ASSUME TypeInv, [Next]_vars PROVE TypeInv'
  OBVIOUS
<1> DEFINE Ms == Measurements \cup {None}
<1> USE PipelineAssumption DEF TypeInv, TypeOK, PutCounted
<1>0. /\ queue \in Seq(Ms) /\ batch \in Seq(Measurements) /\ rows \in Seq(Measurements)
      /\ Len(queue) \in Nat /\ Len(batch) \in Nat
      /\ Workers \subseteq Threads /\ Writer \in Threads
  BY LenProperties DEF Threads
<1>a. ASSUME queue # <<>>
      PROVE  /\ Tail(queue) \in Seq(Ms) /\ Len(Tail(queue)) <= Capacity
             /\ Head(queue) \in Ms
  BY <1>0, <1>a, RangeTail
<1>b. ASSUME NEW m \in Ms, HasRoom
      PROVE  Append(queue, m) \in Seq(Ms) /\ Len(Append(queue, m)) <= Capacity
  BY <1>0, <1>b, RangeAppend DEF HasRoom
<1>1. ASSUME NEW w \in Workers, StartPublish(w) PROVE TypeInv'
  BY <1>1 DEF StartPublish, queueVars, writerVars, mainVars, ghostVars
<1>2. ASSUME NEW w \in Workers, WorkerStep(w) PROVE TypeInv'
  <2>1. CASE Put(w)
    <3>1. <<w, published[w]>> \in Measurements
      BY <2>1, InHandType DEF Put
    <3>2. CASE PutNowait(<<w, published[w]>>)
      BY <1>2, <2>1, <3>1, <3>2, <1>b, ZenonT(30) DEF WorkerStep, Put, PutNowait, Full, writerVars, mainVars
    <3>3. CASE Full(w, <<w, published[w]>>)
      BY <1>2, <2>1, <3>1, <3>3, <1>0, ZenonT(30) DEF WorkerStep, Put, PutNowait, Full, writerVars, mainVars
    <3> QED BY <2>1, <3>2, <3>3 DEF Put
  <2>2. CASE FinishPut(w)
    BY <1>2, <2>2, <1>0, SMTT(30) DEF WorkerStep, FinishPut, CountDrop, writerVars, mainVars
  <2>3. CASE EndWorker(w)
    BY <1>2, <2>3 DEF WorkerStep, EndWorker, queueVars, writerVars, mainVars
  <2> QED BY <1>2, <2>1, <2>2, <2>3 DEF WorkerStep
<1>3. CASE WriterStep
  <2> USE DEF queueVars, workerVars, mainVars, ghostVars
  <2>0. UNCHANGED <<workerVars, mainVars, storage_status>>
    BY <1>3 DEF WriterStep
  <2>1. CASE WriterStart /\ UNCHANGED <<dropped, register, ghostVars>>
    BY <2>0, <2>1 DEF WriterStart
  <2>2. CASE WriterCheck /\ UNCHANGED <<dropped, register, ghostVars>>
    BY <2>0, <2>2 DEF WriterCheck
  <2>3. CASE WriterGet /\ UNCHANGED <<dropped, register, ghostVars>>
    <3>1. CASE Head(queue) = None
      BY <2>0, <2>3, <3>1, <1>a DEF WriterGet
    <3>2. CASE Head(queue) # None
      <4>1. <<Head(queue)>> \in Seq(Measurements) /\ Len(<<Head(queue)>>) <= BatchLimit
        BY <2>3, <3>2, <1>a, RangeSmall DEF WriterGet
      <4> QED BY <2>0, <2>3, <3>2, <4>1, <1>a DEF WriterGet
    <3> QED BY <3>1, <3>2
  <2>4. CASE WriterGetTimeout /\ UNCHANGED <<dropped, register, ghostVars>>
    BY <2>0, <2>4 DEF WriterGetTimeout
  <2>5. CASE WriterFill /\ UNCHANGED <<dropped, register, ghostVars>>
    <3>1. CASE Head(queue) = None
      BY <2>0, <2>5, <3>1, <1>a DEF WriterFill, OnSentinel
    <3>2. CASE Head(queue) # None
      <4>1. Gathered \in Seq(Measurements) /\ Len(Gathered) <= BatchLimit
        BY <2>5, <3>2, <1>a, <1>0, RangeAppend DEF WriterFill, Gathered
      <4> QED BY <2>0, <2>5, <3>2, <4>1, <1>a DEF WriterFill
    <3> QED BY <3>1, <3>2
  <2>6. CASE WriterFilled /\ UNCHANGED <<dropped, register, ghostVars>>
    BY <2>0, <2>6 DEF WriterFilled
  <2>7. CASE WriterCommit /\ UNCHANGED <<dropped, register, ghostVars>>
    <3>1. rows \o batch \in Seq(Measurements)
      BY <1>0, RangeConcat
    <3>2. <<>> \in Seq(Measurements) /\ Len(<<>>) <= BatchLimit
      OBVIOUS
    <3> QED BY <2>0, <2>7, <3>1, <3>2 DEF WriterCommit
  <2>8. CASE WriterFails /\ UNCHANGED <<dropped, register, ghostVars>>
    BY <2>0, <2>8, SMTT(30) DEF WriterFails, RolledBack, AfterRollback
  <2>9. CASE WriterRequeued /\ UNCHANGED <<dropped, register, ghostVars>>
    BY <2>0, <2>9 DEF WriterRequeued
  <2>10. CASE WriterRequeue
    <3>1. /\ Head(batch) \in Measurements /\ Tail(batch) \in Seq(Measurements)
          /\ Len(Tail(batch)) <= BatchLimit
      BY <2>10, <1>0, RangeTail DEF WriterRequeue
    <3>2. CASE PutNowait(Head(batch)) /\ UNCHANGED writer
      BY <2>0, <2>10, <3>1, <3>2, <1>b DEF WriterRequeue, PutNowait
    <3>3. CASE Full(Writer, Head(batch)) /\ writer' = "count"
      BY <2>0, <2>10, <3>1, <3>3, <1>0 DEF WriterRequeue, Full
    <3> QED BY <2>10, <3>2, <3>3 DEF WriterRequeue
  <2>11. CASE WriterCountDrop
    BY <2>0, <2>11, <1>0 DEF WriterCountDrop, CountDrop
  <2> QED BY <1>3, <2>1, <2>2, <2>3, <2>4, <2>5, <2>6, <2>7, <2>8, <2>9, <2>10, <2>11 DEF WriterStep
<1>4. CASE Monitor
  BY <1>4 DEF Monitor, queueVars, workerVars, writerVars, mainVars, ghostVars
<1>5. CASE RequestStop
  BY <1>5 DEF RequestStop, queueVars, workerVars, writerVars, ghostVars
<1>6. CASE StopStep
  <2>1. CASE PutSentinel
    BY <1>6, <2>1, <1>b DEF StopStep, PutSentinel, workerVars, writerVars, ghostVars
  <2>2. CASE JoinWorkers \/ JoinHistory
    BY <1>6, <2>2 DEF StopStep, JoinWorkers, JoinHistory, workerVars, writerVars, ghostVars
  <2> QED BY <1>6, <2>1, <2>2 DEF StopStep
<1>7. CASE UNCHANGED vars
  BY <1>7 DEF vars, queueVars, workerVars, writerVars, mainVars, ghostVars
<1> QED BY <1>1, <1>2, <1>3, <1>4, <1>5, <1>6, <1>7 DEF Next

\* Every reachable state is well typed, for any number of workers, any capacity and
\* any batch size: the queue never exceeds its capacity nor a batch its limit.
THEOREM PipelineTypeOK == Spec => []TypeOK
<1>1. TypeInv => TypeOK
  BY DEF TypeInv
<1> QED BY <1>1, InitTypeInv, NextTypeInv, PTL DEF Spec
-----------------------------------------------------------------------------
(***************************************************************************)
(* ExactlyOnce.  It needs two facts about control: the sentinel is on the  *)
(* queue only after stop() put it, so that it is there at most once, and   *)
(* the batch is empty whenever the history thread is about to take the     *)
(* first measurement of a new one.                                         *)
(***************************************************************************)

SentinelPut == None \in Range(queue) => main \in {"join_history", "exited"}
BatchEmpty  == writer \in {"start", "check", "get", "done"} => batch = <<>>

OnceInv == TypeInv /\ ExactlyOnce /\ SentinelPut /\ BatchEmpty

\* What the proofs below know of the state, without the sequences' details.
LEMMA OnceFacts ==
    ASSUME OnceInv
    PROVE  /\ queue \in Seq(Measurements \cup {None})
           /\ batch \in Seq(Measurements) /\ rows \in Seq(Measurements)
           /\ Range(batch) \subseteq Measurements /\ Range(rows) \subseteq Measurements
           /\ Queued \subseteq Measurements
           /\ None \notin Measurements
  <1>1. /\ queue \in Seq(Measurements \cup {None})
        /\ batch \in Seq(Measurements) /\ rows \in Seq(Measurements)
    BY DEF OnceInv, TypeInv, TypeOK
  <1>2. ASSUME NEW S, NEW s \in Seq(S) PROVE Range(s) \subseteq S
    BY DEF Range
  <1> QED BY <1>1, <1>2, MeasurementType DEF Queued

\* A worker that starts to publish issues one measurement, and has it in hand.
LEMMA StartPublishIssues ==
    ASSUME TypeInv, NEW w \in Workers, StartPublish(w)
    PROVE  LET m == <<w, published[w] + 1>>
           IN  Issued' = Issued \cup {m} /\ InHand' = InHand \cup {m} /\ m \notin Issued
<1> DEFINE m == <<w, published[w] + 1>>
<1>1. /\ published \in [Workers -> Nat] /\ worker \in [Workers -> {"loop", "put", "count", "done"}]
      /\ published[w] + 1 <= MaxPublish[w] /\ MaxPublish \in [Workers -> Nat]
      /\ worker[w] = "loop"
      /\ published' = [published EXCEPT ![w] = @ + 1]
      /\ worker' = [worker EXCEPT ![w] = "put"]
  <2>1. /\ published \in [Workers -> Nat] /\ MaxPublish \in [Workers -> Nat]
        /\ published[w] < MaxPublish[w]
    BY PipelineAssumption DEF StartPublish, TypeInv, TypeOK
  <2>2. published[w] + 1 <= MaxPublish[w]
    BY <2>1
  <2> QED BY <2>1, <2>2 DEF StartPublish, TypeInv, TypeOK
<1>2. m \in Measurements
  BY <1>1 DEF Measurements
<1>3. m \notin Issued
  BY <1>1 DEF Issued
<1>4. Issued' = Issued \cup {m}
  <2>1. ASSUME NEW x \in Measurements
        PROVE  x[2] <= published'[x[1]] <=> x[2] <= published[x[1]] \/ x = m
    <3>1. x = <<x[1], x[2]>> /\ x[1] \in Workers /\ x[2] \in Nat
      BY MeasurementType
    <3>2. CASE x[1] = w
      <4>1. published'[x[1]] = published[w] + 1 /\ published[w] \in Nat
        BY <1>1, <3>2
      <4>2. x = m <=> x[2] = published[w] + 1
        BY <3>1, <3>2
      <4> QED BY <4>1, <4>2, <3>1, <3>2
    <3>3. CASE x[1] # w
      BY <1>1, <3>1, <3>3
    <3> QED BY <3>2, <3>3
  <2> QED BY <2>1, <1>2 DEF Issued
<1>5. InHand' = InHand \cup {m}
  <2>1. ASSUME NEW v \in Workers
        PROVE  /\ worker'[v] = "put" <=> worker[v] = "put" \/ v = w
               /\ v # w => published'[v] = published[v]
               /\ v = w => published'[v] = published[w] + 1 /\ worker[v] # "put"
    BY <1>1
  <2> QED BY <2>1 DEF InHand
<1> QED BY <1>3, <1>4, <1>5

\* A worker that has put its measurement has it no longer in hand.
LEMMA PutReleases ==
    ASSUME TypeInv, NEW w \in Workers, worker[w] = "put", NEW pc \in {"loop", "count"},
           worker' = [worker EXCEPT ![w] = pc], published' = published
    PROVE  InHand' = InHand \ {<<w, published[w]>>} /\ <<w, published[w]>> \in InHand
<1>1. worker \in [Workers -> {"loop", "put", "count", "done"}]
  BY DEF TypeInv, TypeOK
<1>2. \A v \in Workers : worker'[v] = "put" <=> worker[v] = "put" /\ v # w
  BY <1>1
<1> QED BY <1>2 DEF InHand

\* A step that moves no measurement and ends no thread keeps every measurement's place.
LEMMA OnceUnmoved ==
    ASSUME ExactlyOnce, UNCHANGED <<queue, batch, rows, lost, published>>, InHand' = InHand
    PROVE  ExactlyOnce'
BY DEF ExactlyOnce, Issued, Queued

\* At the start no measurement is anywhere.
LEMMA InitOnceInv == Init => OnceInv
<1> SUFFICES ASSUME Init PROVE OnceInv
  OBVIOUS
<1>1. TypeInv
  BY InitTypeInv
<1>2. /\ Range(<<>>) = {} /\ IsInjective(<<>>)
  BY DEF Range, IsInjective
<1>3. Issued = {}
  <2>1. \A m \in Measurements : ~(m[2] <= published[m[1]])
    BY MeasurementType DEF Init
  <2> QED BY <2>1 DEF Issued
<1>4. InHand = {}
  BY DEF Init, InHand
<1> QED BY <1>1, <1>2, <1>3, <1>4 DEF Init, OnceInv, ExactlyOnce, SentinelPut, BatchEmpty, Queued

\* A publication puts a new measurement in one place.
LEMMA WorkerOnce ==
    ASSUME OnceInv, NEW w \in Workers, StartPublish(w) \/ WorkerStep(w)
    PROVE  ExactlyOnce' /\ SentinelPut' /\ BatchEmpty'
<1> DEFINE m == <<w, published[w]>>
<1> USE DEF OnceInv
<1>0. /\ worker \in [Workers -> {"loop", "put", "count", "done"}]
      /\ UNCHANGED <<writer, batch, rows, main>>
      /\ IsInjective(queue) /\ Queued \cup {None} = Range(queue) \cup {None}
  BY DEF TypeInv, TypeOK, ExactlyOnce, Queued, StartPublish, WorkerStep, writerVars, mainVars
<1>1. CASE StartPublish(w)
  <2>1. UNCHANGED <<queue, lost>>
    BY <1>1 DEF StartPublish, queueVars, ghostVars
  <2>2. PICK x : Issued' = Issued \cup {x} /\ InHand' = InHand \cup {x} /\ x \notin Issued
    BY <1>1, StartPublishIssues
  <2> QED BY <1>0, <2>1, <2>2 DEF ExactlyOnce, Queued, SentinelPut, BatchEmpty
<1>2. CASE WorkerStep(w) /\ Put(w)
  <2>0. worker[w] = "put" /\ published' = published /\ Issued' = Issued
    BY <1>2 DEF WorkerStep, Put, Issued
  <2>1. m \in InHand /\ m \in Measurements /\ m # None
    BY <2>0, InHandType, MeasurementType DEF InHand
  <2>2. CASE PutNowait(m) /\ worker' = [worker EXCEPT ![w] = "loop"]
    <3>1. InHand' = InHand \ {m}
      BY <2>0, <2>2, PutReleases
    <3>2. m \notin Queued /\ m \notin Range(queue)
      BY <2>1 DEF ExactlyOnce, Queued
    <3>3. IsInjective(queue') /\ Range(queue') = Range(queue) \cup {m} /\ lost' = lost
      <4>1. queue \in Seq(Measurements \cup {None}) /\ m \in Measurements \cup {None}
        BY <2>1, OnceFacts
      <4>2. queue' = Append(queue, m) /\ lost' = lost
        BY <2>2 DEF PutNowait
      <4>3. IsInjective(queue)
        BY <1>0
      <4> HIDE DEF m
      <4>4. /\ Range(Append(queue, m)) = Range(queue) \cup {m}
            /\ IsInjective(Append(queue, m))
        BY <4>1, <4>3, <3>2, RangeAppend
      <4> QED BY <4>2, <4>4
    <3>4. Queued' = Queued \cup {m}
      BY <3>3, <2>1 DEF Queued
    <3> QED BY <1>0, <2>0, <2>1, <3>1, <3>3, <3>4 DEF ExactlyOnce, SentinelPut, BatchEmpty
  <2>3. CASE Full(w, m) /\ worker' = [worker EXCEPT ![w] = "count"]
    <3>1. InHand' = InHand \ {m}
      BY <2>0, <2>3, PutReleases
    <3>2. queue' = queue /\ lost' = lost \cup {m} /\ Queued' = Queued
      BY <2>3 DEF Full, Queued
    <3> QED BY <1>0, <2>0, <2>1, <3>1, <3>2 DEF ExactlyOnce, SentinelPut, BatchEmpty
  <2> QED BY <1>2, <2>2, <2>3 DEF Put
<1>3. CASE WorkerStep(w) /\ (FinishPut(w) \/ EndWorker(w))
  <2>1. UNCHANGED <<queue, lost, published>>
    BY <1>3 DEF WorkerStep, FinishPut, CountDrop, EndWorker, queueVars
  <2>2. \A v \in Workers : worker'[v] = "put" <=> worker[v] = "put"
    BY <1>3, <1>0 DEF WorkerStep, FinishPut, EndWorker
  <2>3. InHand' = InHand
    BY <2>1, <2>2 DEF InHand
  <2> QED BY <1>0, <2>1, <2>3, OnceUnmoved DEF SentinelPut, BatchEmpty
<1> QED BY <1>1, <1>2, <1>3 DEF WorkerStep

\* The history thread moves measurements from place to place.
LEMMA WriterOnce ==
    ASSUME OnceInv, WriterStep
    PROVE  ExactlyOnce' /\ SentinelPut' /\ BatchEmpty'
<1> USE DEF OnceInv
<1>0. /\ UNCHANGED <<published, worker, main>>
      /\ Issued' = Issued /\ InHand' = InHand
      /\ queue \in Seq(Measurements \cup {None})
      /\ batch \in Seq(Measurements) /\ rows \in Seq(Measurements)
      /\ None \notin Measurements /\ Range(batch) \subseteq Measurements
  BY OnceFacts DEF WriterStep, workerVars, mainVars, Issued, InHand
<1>a. ASSUME queue # <<>>, queue' = Tail(queue)
      PROVE  /\ IsInjective(queue')
             /\ Head(queue) \in Range(queue) /\ Range(queue) = Range(queue') \cup {Head(queue)}
             /\ Head(queue) \notin Range(queue')
             /\ Head(queue) \in Measurements \cup {None}
             /\ Head(queue) = None => Queued' = Queued
             /\ Head(queue) # None => Queued' = Queued \ {Head(queue)} /\ Head(queue) \in Queued
             /\ SentinelPut'
  BY <1>a, <1>0, RangeTail DEF ExactlyOnce, Queued, SentinelPut
<1>b. ASSUME UNCHANGED <<queue, batch, rows, lost>>,
             writer' \in {"start", "check", "get", "done"} =>
                 writer \in {"start", "check", "get", "done"} \/ batch = <<>>
      PROVE  ExactlyOnce' /\ SentinelPut' /\ BatchEmpty'
  BY <1>0, <1>b, OnceUnmoved DEF SentinelPut, BatchEmpty
<1>1. CASE (\/ WriterStart \/ WriterCheck \/ WriterGetTimeout \/ WriterFilled \/ WriterFails
            \/ WriterRequeued) /\ lost' = lost
  BY <1>1, <1>b DEF WriterStart, WriterCheck, WriterGetTimeout, WriterFilled, WriterFails,
                   WriterRequeued, RolledBack, AfterRollback
<1>2. CASE WriterGet /\ lost' = lost
  <2>0. queue # <<>> /\ queue' = Tail(queue) /\ rows' = rows /\ batch = <<>>
        /\ Range(batch) = {}
    BY <1>2, RangeSmall DEF WriterGet, BatchEmpty, Range
  <2>1. CASE Head(queue) = None
    BY <1>0, <1>2, <1>a, <2>0, <2>1 DEF WriterGet, ExactlyOnce, BatchEmpty
  <2>2. CASE Head(queue) # None
    <3>1. batch' = <<Head(queue)>> /\ writer' = "fill"
      BY <1>2, <2>2 DEF WriterGet
    <3>2. Range(batch') = {Head(queue)} /\ IsInjective(batch')
      BY <2>0, <2>2, <1>a, <3>1, RangeSmall
    <3> QED BY <1>0, <1>2, <1>a, <2>0, <2>2, <3>1, <3>2 DEF ExactlyOnce, BatchEmpty
  <2> QED BY <2>1, <2>2
<1>3. CASE WriterFill /\ lost' = lost
  <2>0. queue # <<>> /\ queue' = Tail(queue) /\ rows' = rows /\ writer' \in {"fill", "commit"}
    BY <1>3 DEF WriterFill, OnSentinel
  <2>1. CASE Head(queue) = None
    BY <1>0, <1>3, <1>a, <2>0, <2>1 DEF WriterFill, ExactlyOnce, BatchEmpty
  <2>2. CASE Head(queue) # None
    <3>1. batch' = Append(batch, Head(queue)) /\ Head(queue) \in Measurements
      BY <1>3, <1>a, <2>0, <2>2 DEF WriterFill, Gathered
    <3>2. Head(queue) \notin Range(batch)
      BY <1>a, <2>0, <2>2 DEF ExactlyOnce
    <3>3. Range(batch') = Range(batch) \cup {Head(queue)} /\ IsInjective(batch')
      BY <1>0, <3>1, <3>2, RangeAppend DEF ExactlyOnce
    <3> QED BY <1>0, <1>3, <1>a, <2>0, <2>2, <3>3 DEF ExactlyOnce, BatchEmpty
  <2> QED BY <2>1, <2>2
<1>4. CASE WriterCommit /\ lost' = lost
  <2>1. queue' = queue /\ batch' = <<>> /\ rows' = rows \o batch
    BY <1>4 DEF WriterCommit
  <2>2. Range(rows') = Range(rows) \cup Range(batch) /\ IsInjective(rows')
    BY <1>0, <2>1, RangeConcat DEF ExactlyOnce
  <2>3. Range(batch') = {} /\ IsInjective(batch') /\ Queued' = Queued
    BY <2>1 DEF Range, IsInjective, Queued
  <2>4. ExactlyOnce'
    <3>1. IsInjective(queue') /\ IsInjective(batch') /\ IsInjective(rows')
      BY <2>1, <2>2, <2>3 DEF ExactlyOnce
    <3>2. Range(batch') \cup Range(rows') = Range(batch) \cup Range(rows)
      BY <2>2, <2>3
    <3> QED BY <1>0, <1>4, <2>3, <3>1, <3>2 DEF ExactlyOnce
  <2> QED BY <1>0, <2>1, <2>4 DEF SentinelPut, BatchEmpty
<1>5. CASE WriterRequeue
  <2>1. /\ Head(batch) \in Measurements /\ Head(batch) \in Range(batch)
        /\ Range(batch') = Range(batch) \ {Head(batch)}
        /\ IsInjective(batch') /\ rows' = rows /\ batch' = Tail(batch)
    BY <1>0, <1>5, RangeTail DEF WriterRequeue, ExactlyOnce
  <2>2. CASE PutNowait(Head(batch)) /\ UNCHANGED writer
    <3>1. Head(batch) \notin Range(queue) /\ Head(batch) # None
      BY <1>0, <2>1 DEF ExactlyOnce, Queued
    <3>2. IsInjective(queue') /\ Range(queue') = Range(queue) \cup {Head(batch)} /\ lost' = lost
      BY <1>0, <2>1, <2>2, <3>1, RangeAppend DEF PutNowait, ExactlyOnce
    <3>3. Queued' = Queued \cup {Head(batch)}
      BY <3>1, <3>2 DEF Queued
    <3> QED BY <1>0, <1>5, <2>1, <2>2, <3>1, <3>2, <3>3
            DEF ExactlyOnce, SentinelPut, BatchEmpty, WriterRequeue
  <2>3. CASE Full(Writer, Head(batch)) /\ writer' = "count"
    <3>1. queue' = queue /\ lost' = lost \cup {Head(batch)} /\ Queued' = Queued
      BY <2>3 DEF Full, Queued
    <3> QED BY <1>0, <2>1, <2>3, <3>1 DEF ExactlyOnce, SentinelPut, BatchEmpty
  <2> QED BY <1>5, <2>2, <2>3 DEF WriterRequeue
<1>6. CASE WriterCountDrop
  BY <1>6, <1>b DEF WriterCountDrop, CountDrop
<1> QED BY <1>1, <1>2, <1>3, <1>4, <1>5, <1>6 DEF WriterStep, ghostVars

\* stop() moves none, its sentinel apart.
LEMMA StopOnce ==
    ASSUME OnceInv, Monitor \/ RequestStop \/ StopStep
    PROVE  ExactlyOnce' /\ SentinelPut' /\ BatchEmpty'
<1> USE DEF OnceInv
<1>0. UNCHANGED <<published, worker, writer, batch, rows, lost>> /\ InHand' = InHand /\ Issued' = Issued
  BY DEF Monitor, RequestStop, StopStep, workerVars, writerVars, ghostVars, InHand, Issued
<1>1. CASE queue' = queue /\ (main' = main \/ main' \in {"join_workers", "put_sentinel", "exited"})
      /\ (main \in {"join_history", "exited"} => main' \in {"join_history", "exited"})
  BY <1>0, <1>1, OnceUnmoved DEF SentinelPut, BatchEmpty
<1>2. CASE PutSentinel
  <2>1. None \notin Range(queue)
    BY <1>2 DEF PutSentinel, SentinelPut
  <2>2. IsInjective(queue') /\ Range(queue') = Range(queue) \cup {None}
    BY <1>2, <2>1, OnceFacts, RangeAppend DEF PutSentinel, ExactlyOnce
  <2>3. Queued' = Queued
    BY <2>2 DEF Queued
  <2> QED BY <1>0, <1>2, <2>2, <2>3 DEF ExactlyOnce, SentinelPut, BatchEmpty, PutSentinel
<1>3. CASE Monitor \/ RequestStop \/ JoinWorkers \/ JoinHistory
  BY <1>1, <1>3 DEF Monitor, RequestStop, JoinWorkers, JoinHistory, queueVars, mainVars
<1> QED BY <1>2, <1>3 DEF StopStep

\* Every step keeps each measurement in exactly one place.
LEMMA NextOnceInv == OnceInv /\ [Next]_vars => OnceInv'
<1> SUFFICES ASSUME OnceInv, [Next]_vars PROVE OnceInv'
  OBVIOUS
<1>1. TypeInv'
  BY NextTypeInv DEF OnceInv
<1>2. CASE UNCHANGED vars
  <2>1. UNCHANGED <<queue, batch, rows, lost, published, worker, writer, main>>
    BY <1>2 DEF vars, queueVars, workerVars, writerVars, mainVars, ghostVars
  <2>2. InHand' = InHand
    BY <2>1 DEF InHand
  <2> QED BY <1>1, <2>1, <2>2, OnceUnmoved DEF OnceInv, SentinelPut, BatchEmpty
<1>3. CASE Next
  BY <1>1, <1>3, WorkerOnce, WriterOnce, StopOnce DEF Next, OnceInv
<1> QED BY <1>2, <1>3

\* In every reachable state each published measurement is in exactly one place, once:
\* in its worker's hand, queued, batched, committed or dropped.
THEOREM PipelineExactlyOnce == Spec => []ExactlyOnce
<1>1. OnceInv => ExactlyOnce
  BY DEF OnceInv
<1> QED BY <1>1, InitOnceInv, NextOnceInv, PTL DEF Spec
-----------------------------------------------------------------------------
(***************************************************************************)
(* The refinement.  Under pending <- Backlog, history <- rows and          *)
(* discarded <- lost a put accepts a measurement, an overflow discards     *)
(* one, a commit persists a batch, and every other step changes nothing.   *)
(***************************************************************************)

\* The suffix a concatenation adds is the second sequence.
LEMMA SuffixOfConcat ==
    ASSUME NEW S, NEW s \in Seq(S), NEW t \in Seq(S)
    PROVE  SubSeq(s \o t, Len(s) + 1, Len(s \o t)) = t
<1> DEFINE u == SubSeq(s \o t, Len(s) + 1, Len(s \o t))
<1>1. /\ s \o t \in Seq(S) /\ Len(s \o t) = Len(s) + Len(t)
      /\ \A i \in 1..(Len(s) + Len(t)) :
            (s \o t)[i] = IF i <= Len(s) THEN s[i] ELSE t[i - Len(s)]
      /\ Len(s) \in Nat /\ Len(t) \in Nat
  BY ConcatProperties, LenProperties
<1>2. \A i \in Len(s) + 1 .. Len(s \o t) : (s \o t)[i] \in S
  BY <1>1, ElementOfSeq
<1>3. /\ u \in Seq(S) /\ Len(u) = Len(t)
      /\ \A i \in 1..Len(t) : u[i] = (s \o t)[Len(s) + i]
  <2>1. /\ Len(s) + 1 \in Int /\ Len(s \o t) \in Int
        /\ Len(s \o t) - (Len(s) + 1) + 1 = Len(t)
        /\ (Len(s) + 1 <= Len(s \o t)) <=> Len(t) # 0
        /\ \A i \in 1..Len(t) : (Len(s) + 1) + i - 1 = Len(s) + i
    BY <1>1
  <2>2. /\ u \in Seq(S)
        /\ Len(u) = IF Len(s) + 1 <= Len(s \o t) THEN Len(s \o t) - (Len(s) + 1) + 1 ELSE 0
        /\ \A i \in 1 .. Len(s \o t) - (Len(s) + 1) + 1 : u[i] = (s \o t)[(Len(s) + 1) + i - 1]
    BY <2>1, <1>2, SubSeqProperties
  <2> QED BY <2>1, <2>2
<1>4. \A i \in 1..Len(t) : u[i] = t[i]
  BY <1>1, <1>3
<1> QED BY <1>3, <1>4, SeqEqual

\* The empty pipeline is the empty log.
LEMMA InitRefines == Init => Log!Init
BY DEF Init, Log!Init, Backlog, Queued, Range

\* A step that moves measurements only between the queue and the batch is invisible.
LEMMA BacklogUnmoved ==
    ASSUME Queued' \cup Range(batch)' = Queued \cup Range(batch), UNCHANGED <<rows, lost>>
    PROVE  UNCHANGED Log!vars
BY DEF Log!vars, Backlog

\* A publication appends to the log, discards or stutters.
LEMMA WorkerRefines ==
    ASSUME OnceInv, NEW w \in Workers, StartPublish(w) \/ WorkerStep(w)
    PROVE  Log!Next \/ UNCHANGED Log!vars
<1> DEFINE m == <<w, published[w]>>
<1>0. UNCHANGED <<batch, rows>>
  BY DEF StartPublish, WorkerStep, writerVars
<1>1. CASE StartPublish(w) \/ FinishPut(w) \/ EndWorker(w)
  BY <1>0, <1>1, BacklogUnmoved
     DEF StartPublish, FinishPut, EndWorker, CountDrop, queueVars, ghostVars, Queued
<1>2. CASE WorkerStep(w) /\ Put(w)
  <2>1. m \in InHand /\ m \in Measurements /\ m # None
    BY <1>2, InHandType, MeasurementType DEF InHand, Put, OnceInv
  <2>2. m \notin Backlog \cup Range(rows) \cup lost
    BY <2>1 DEF OnceInv, ExactlyOnce, Backlog
  <2>3. CASE PutNowait(m)
    <3>1. queue \in Seq(Measurements \cup {None}) /\ m \in Measurements \cup {None}
      BY <2>1, OnceFacts
    <3>2. Range(queue') = Range(queue) \cup {m} /\ lost' = lost
      BY <2>3, <3>1, RangeAppend DEF PutNowait
    <3>3. Backlog' = Backlog \cup {m}
      BY <1>0, <2>1, <3>2 DEF Backlog, Queued
    <3>4. Log!Accept(m)
      BY <1>0, <2>2, <3>2, <3>3 DEF Log!Accept, Log!Range, Range
    <3> QED BY <2>1, <3>4 DEF Log!Next
  <2>4. CASE Full(w, m)
    <3>1. queue' = queue /\ lost' = lost \cup {m}
      BY <2>4 DEF Full
    <3>2. Backlog' = Backlog \ {m}
      BY <1>0, <2>2, <3>1 DEF Backlog, Queued
    <3>3. Log!Discard(m)
      BY <1>0, <2>2, <3>1, <3>2 DEF Log!Discard, Log!Range, Range
    <3> QED BY <2>1, <3>3 DEF Log!Next
  <2> QED BY <1>2, <2>3, <2>4 DEF Put
<1> QED BY <1>1, <1>2 DEF WorkerStep

\* A commit is a step of the log; taking, requeueing and failing are stutters.
LEMMA WriterRefines ==
    ASSUME OnceInv, WriterStep
    PROVE  Log!Next \/ UNCHANGED Log!vars
<1>0. /\ queue \in Seq(Measurements \cup {None})
      /\ batch \in Seq(Measurements) /\ rows \in Seq(Measurements)
      /\ None \notin Measurements
  BY OnceFacts
<1>a. ASSUME queue # <<>>, queue' = Tail(queue)
      PROVE  Range(queue) = Range(queue') \cup {Head(queue)}
             /\ Head(queue) \in Measurements \cup {None}
  BY <1>0, <1>a, RangeTail
<1>1. CASE (\/ WriterStart \/ WriterCheck \/ WriterGetTimeout \/ WriterFilled \/ WriterFails
            \/ WriterRequeued) /\ lost' = lost
  <2>1. UNCHANGED <<queue, batch, rows>>
    BY <1>1 DEF WriterStart, WriterCheck, WriterGetTimeout, WriterFilled, WriterFails,
                WriterRequeued, RolledBack
  <2> QED BY <1>1, <2>1, BacklogUnmoved DEF Queued
<1>2. CASE (WriterGet \/ WriterFill) /\ lost' = lost
  <2>1. queue # <<>> /\ queue' = Tail(queue) /\ rows' = rows
    BY <1>2 DEF WriterGet, WriterFill
  <2>2. CASE Head(queue) = None
    <3>1. batch' = batch
      BY <1>2, <2>2 DEF WriterGet, WriterFill
    <3>2. Queued' = Queued
      BY <1>a, <2>1, <2>2 DEF Queued
    <3> QED BY <1>2, <2>1, <3>1, <3>2, BacklogUnmoved
  <2>3. CASE Head(queue) # None
    <3>0. Queued' \cup {Head(queue)} = Queued
      BY <1>a, <2>1, <2>3 DEF Queued
    <3>1. Range(batch') = Range(batch) \cup {Head(queue)}
      <4>1. CASE WriterGet
        <5>1. batch = <<>> /\ batch' = <<Head(queue)>>
          BY <2>3, <4>1 DEF WriterGet, OnceInv, BatchEmpty
        <5>2. Range(<<>>) = {}
          BY DEF Range
        <5> QED BY <1>a, <2>1, <2>3, <5>1, <5>2, RangeSmall
      <4>2. CASE WriterFill
        <5>1. batch' = Append(batch, Head(queue)) /\ Head(queue) \in Measurements
          BY <1>a, <2>1, <2>3, <4>2 DEF WriterFill, Gathered
        <5> QED BY <1>0, <5>1, RangeAppend
      <4> QED BY <1>2, <4>1, <4>2
    <3> QED BY <1>2, <2>1, <3>0, <3>1, BacklogUnmoved
  <2> QED BY <2>2, <2>3
<1>3. CASE WriterCommit /\ lost' = lost
  <2>1. queue' = queue /\ batch' = <<>> /\ rows' = rows \o batch
    BY <1>3 DEF WriterCommit
  <2>2. SubSeq(rows', Len(rows) + 1, Len(rows')) = batch
    BY <1>0, <2>1, SuffixOfConcat
  <2>3. Backlog' = Backlog \ Range(batch)
    <3>1. Queued' = Queued /\ Range(batch') = {}
      BY <2>1 DEF Queued, Range
    <3>2. Queued \cap Range(batch) = {}
      BY DEF OnceInv, ExactlyOnce
    <3> QED BY <3>1, <3>2 DEF Backlog
  <2>4. Log!Persist
    <3>1. Log!IsInjective(batch) /\ Log!Range(batch) = Range(batch)
      BY DEF OnceInv, ExactlyOnce, IsInjective, Log!IsInjective, Range, Log!Range
    <3>2. Range(batch) \subseteq Backlog
      BY DEF Backlog
    <3> QED BY <1>3, <2>1, <2>2, <2>3, <3>1, <3>2 DEF Log!Persist
  <2> QED BY <2>4 DEF Log!Next
<1>4. CASE WriterRequeue
  <2>1. /\ Head(batch) \in Measurements /\ Head(batch) \in Range(batch)
        /\ Range(batch') = Range(batch) \ {Head(batch)} /\ rows' = rows
    BY <1>0, <1>4, RangeTail DEF WriterRequeue, OnceInv, ExactlyOnce
  <2>2. CASE PutNowait(Head(batch))
    <3>1. Range(queue') = Range(queue) \cup {Head(batch)} /\ lost' = lost
      BY <1>0, <2>1, <2>2, RangeAppend DEF PutNowait
    <3>2. Queued' = Queued \cup {Head(batch)}
      BY <1>0, <2>1, <3>1 DEF Queued
    <3> QED BY <2>1, <3>1, <3>2, BacklogUnmoved
  <2>3. CASE Full(Writer, Head(batch))
    <3>1. queue' = queue /\ lost' = lost \cup {Head(batch)} /\ Queued' = Queued
      BY <2>3 DEF Full, Queued
    <3>2. Head(batch) \notin Range(rows) \cup lost /\ Backlog' = Backlog \ {Head(batch)}
      BY <2>1, <3>1 DEF OnceInv, ExactlyOnce, Backlog
    <3>3. Log!Discard(Head(batch))
      BY <2>1, <3>1, <3>2 DEF Log!Discard, Log!Range, Range
    <3> QED BY <2>1, <3>3 DEF Log!Next
  <2> QED BY <1>4, <2>2, <2>3 DEF WriterRequeue
<1>5. CASE WriterCountDrop
  BY <1>5, BacklogUnmoved DEF WriterCountDrop, CountDrop, Queued
<1> QED BY <1>1, <1>2, <1>3, <1>4, <1>5 DEF WriterStep, ghostVars

\* The monitor and stop() are stutters of the log.
LEMMA StopRefines ==
    ASSUME OnceInv, Monitor \/ RequestStop \/ StopStep
    PROVE  UNCHANGED Log!vars
<1>1. UNCHANGED <<batch, rows, lost>>
  BY DEF Monitor, RequestStop, StopStep, writerVars, ghostVars
<1>2. Queued' = Queued
  <2>1. CASE PutSentinel
    BY <2>1, OnceFacts, RangeAppend, SMTT(30) DEF PutSentinel, Queued
  <2>2. CASE queue' = queue
    BY <2>2 DEF Queued
  <2> QED BY <2>1, <2>2 DEF Monitor, RequestStop, StopStep, JoinWorkers, JoinHistory, queueVars
<1> QED BY <1>1, <1>2, BacklogUnmoved

\* The pipeline implements the telemetry log: through queue, batches, rollbacks and
\* overflow, the table only ever grows, by groups of pending measurements, and no
\* measurement is written twice or both written and dropped.
THEOREM PipelineImplementsLog == Spec => ImplementsLog
<1>1. OnceInv /\ [Next]_vars => [Log!Next]_(Log!vars)
  <2>1. CASE UNCHANGED vars
    BY <2>1 DEF vars, queueVars, writerVars, ghostVars, Log!vars, Backlog, Queued
  <2>2. CASE Next /\ OnceInv
    BY <2>2, WorkerRefines, WriterRefines, StopRefines DEF Next
  <2> QED BY <2>1, <2>2
<1> QED BY <1>1, InitOnceInv, NextOnceInv, InitRefines, PTL DEF Spec, ImplementsLog, Log!Spec
-----------------------------------------------------------------------------
(***************************************************************************)
(* OnlyLateOrRetriedAbandoned.  What makes it true is the sentinel: once   *)
(* stop() has put it, whatever has no sentinel behind it on the queue      *)
(* arrived afterwards - late, or as part of a batch that was rolled back - *)
(* so that when the history thread takes the sentinel only such            *)
(* measurements can be left.                                               *)
(***************************************************************************)

\* The measurements of q with no sentinel behind them.
Unsealed(q) == {q[i] : i \in {k \in 1..Len(q) : \A j \in k..Len(q) : q[j] # None}}

StopCalled     == main \in {"join_history", "exited"}
UnsealedIsLate == StopCalled => Unsealed(queue) \subseteq late \cup retried
ShutdownSeen   == shutdown_requested => StopCalled /\ None \notin Range(queue)

EndInv == UnsealedIsLate /\ ShutdownSeen /\ OnlyLateOrRetriedAbandoned

\* Only a measurement put after the sentinel joins those not followed by one.
LEMMA UnsealedAppend ==
    ASSUME NEW S, NEW q \in Seq(S), NEW e \in S
    PROVE  Unsealed(Append(q, e)) \subseteq IF e = None THEN {} ELSE Unsealed(q) \cup {e}
<1>1. /\ Len(Append(q, e)) = Len(q) + 1 /\ Len(q) \in Nat
      /\ \A i \in 1..Len(q) : Append(q, e)[i] = q[i]
      /\ Append(q, e)[Len(q) + 1] = e
  BY AppendProperties, LenProperties
<1>2. SUFFICES ASSUME NEW i \in 1..(Len(q) + 1),
                      \A j \in i..(Len(q) + 1) : Append(q, e)[j] # None
               PROVE  /\ e # None
                      /\ Append(q, e)[i] \in Unsealed(q) \cup {e}
  BY <1>1 DEF Unsealed
<1>3. e # None
  BY <1>1, <1>2
<1>4. CASE i = Len(q) + 1
  BY <1>1, <1>3, <1>4
<1>5. CASE i \in 1..Len(q)
  <2>1. \A j \in i..Len(q) : q[j] # None
    BY <1>1, <1>2, <1>5
  <2> QED BY <1>1, <1>3, <1>5, <2>1 DEF Unsealed
<1> QED BY <1>1, <1>4, <1>5

\* Taking the head of the queue adds nothing to what no sentinel follows.
LEMMA UnsealedTail ==
    ASSUME NEW S, NEW q \in Seq(S), q # <<>>
    PROVE  Unsealed(Tail(q)) \subseteq Unsealed(q)
<1>1. /\ Len(Tail(q)) = Len(q) - 1 /\ Len(q) \in Nat \ {0}
      /\ \A i \in 1..Len(Tail(q)) : Tail(q)[i] = q[i + 1]
  BY HeadTailProperties, LenProperties, EmptySeq
<1>2. SUFFICES ASSUME NEW i \in 1..(Len(q) - 1), \A j \in i..(Len(q) - 1) : Tail(q)[j] # None
               PROVE  Tail(q)[i] \in Unsealed(q)
  BY <1>1 DEF Unsealed
<1>3. i + 1 \in 1..Len(q) /\ Tail(q)[i] = q[i + 1]
  BY <1>1
<1>4. ASSUME NEW j \in (i + 1)..Len(q) PROVE q[j] # None
  <2>1. j - 1 \in i..(Len(q) - 1) /\ j - 1 \in 1..Len(Tail(q)) /\ (j - 1) + 1 = j
    BY <1>1
  <2> QED BY <1>1, <1>2, <2>1
<1> QED BY <1>3, <1>4 DEF Unsealed

\* Without a sentinel none follows.
LEMMA UnsealedAll ==
    ASSUME NEW S, NEW q \in Seq(S), None \notin Range(q)
    PROVE  Range(q) \subseteq Unsealed(q)
<1>1. DOMAIN q = 1..Len(q) /\ Len(q) \in Nat
  BY LenProperties
<1>2. \A j \in 1..Len(q) : q[j] # None
  BY <1>1 DEF Range
<1> QED BY <1>1, <1>2 DEF Range, Unsealed

\* At the start nothing is stopping.
LEMMA InitEndInv == Init => EndInv
BY DEF Init, EndInv, UnsealedIsLate, ShutdownSeen, OnlyLateOrRetriedAbandoned, StopCalled

\* A publication after the sentinel is a late one.
LEMMA WorkerEnd ==
    ASSUME OnceInv, EndInv, NEW w \in Workers, StartPublish(w) \/ WorkerStep(w)
    PROVE  EndInv'
<1> DEFINE m == <<w, published[w]>>
<1> USE DEF EndInv, UnsealedIsLate, ShutdownSeen, OnlyLateOrRetriedAbandoned, StopCalled
<1>0. UNCHANGED <<writer, batch, shutdown_requested, main, retried>> /\ main # "exited"
  BY DEF StartPublish, WorkerStep, writerVars, mainVars, ghostVars, Running
<1>1. CASE UNCHANGED <<queue, late>>
  BY <1>0, <1>1 DEF Backlog, Queued
<1>2. CASE Put(w) /\ PutNowait(m)
  <2>1. /\ m \in Measurements /\ m # None
        /\ queue \in Seq(Measurements \cup {None})
    BY <1>2, InHandType, MeasurementType, OnceFacts DEF Put, OnceInv
  <2>2. /\ queue' = Append(queue, m) /\ Range(queue') = Range(queue) \cup {m}
        /\ Unsealed(queue') \subseteq Unsealed(queue) \cup {m}
    BY <1>2, <2>1, RangeAppend, UnsealedAppend DEF PutNowait
  <2>3. late \subseteq late' /\ (main = "join_history" \/ writer = "done" => m \in late')
    <3>1. CASE late' = IF main = "join_history" \/ Ended THEN late \cup {m} ELSE late
      BY <3>1 DEF Ended
    <3>2. CASE Full(w, m)
      BY <1>2, <3>2 DEF Full, PutNowait
    <3> QED BY <1>2, <3>1, <3>2 DEF Put
  <2>4. UnsealedIsLate'
    BY <1>0, <2>2, <2>3
  <2>5. ShutdownSeen'
    BY <1>0, <2>1, <2>2
  <2>6. OnlyLateOrRetriedAbandoned'
    BY <1>0, <2>2, <2>3 DEF Backlog, Queued
  <2> QED BY <2>4, <2>5, <2>6
<1> QED BY <1>1, <1>2
        DEF StartPublish, WorkerStep, Put, FinishPut, EndWorker, CountDrop, Full, queueVars, ghostVars

\* The history thread leaves behind only what came late or was being retried.
LEMMA WriterEnd ==
    ASSUME OnceInv, EndInv, WriterStep
    PROVE  EndInv'
<1> USE DEF EndInv, UnsealedIsLate, ShutdownSeen, OnlyLateOrRetriedAbandoned, StopCalled
<1>0. /\ main' = main /\ late' = late
      /\ queue \in Seq(Measurements \cup {None})
      /\ batch \in Seq(Measurements) /\ None \notin Measurements
      /\ writer = "done" => batch = <<>>
      /\ BatchEmpty'
  BY OnceFacts, WriterOnce
     DEF WriterStep, WriterRequeue, WriterCountDrop, ghostVars, mainVars, OnceInv, BatchEmpty
<1>a. ASSUME queue # <<>>, queue' = Tail(queue), retried' = retried
      PROVE  /\ UnsealedIsLate'
             /\ Range(queue') \subseteq Range(queue)
             /\ Head(queue) = None => /\ StopCalled /\ None \notin Range(queue')
                                      /\ Range(queue') \subseteq late \cup retried
  <2>1. /\ queue' \in Seq(Measurements \cup {None})
        /\ Unsealed(queue') \subseteq Unsealed(queue) /\ Range(queue') \subseteq Range(queue)
        /\ Head(queue) \in Range(queue) /\ Head(queue) \notin Range(queue')
    BY <1>0, <1>a, RangeTail, UnsealedTail DEF OnceInv, ExactlyOnce
  <2>2. UnsealedIsLate'
    BY <1>0, <1>a, <2>1
  <2>3. ASSUME Head(queue) = None
        PROVE  /\ StopCalled /\ None \notin Range(queue')
               /\ Range(queue') \subseteq late \cup retried
    <3>1. StopCalled
      BY <2>1, <2>3 DEF OnceInv, SentinelPut
    <3>2. Range(queue') \subseteq Unsealed(queue')
      BY <2>1, <2>3, UnsealedAll
    <3> QED BY <2>1, <2>3, <3>1, <3>2
  <2> QED BY <2>1, <2>2, <2>3
<1>b. ASSUME UNCHANGED <<queue, retried>>, shutdown_requested' => shutdown_requested,
             writer' = "done" => queue = <<>> \/ shutdown_requested
      PROVE  EndInv'
  <2>1. Range(<<>>) = {}
    BY DEF Range
  <2>2. UnsealedIsLate' /\ ShutdownSeen'
    BY <1>0, <1>b
  <2>3. ASSUME writer' = "done" PROVE Range(queue) \subseteq late \cup retried
    BY <1>0, <1>b, <2>1, <2>3, UnsealedAll
  <2>4. writer' = "done" => Range(batch') = {}
    BY <1>0, <2>1 DEF BatchEmpty
  <2> QED BY <1>0, <1>b, <2>2, <2>3, <2>4 DEF Backlog, Queued
<1>1. CASE (\/ WriterStart \/ WriterCheck \/ WriterGetTimeout \/ WriterFilled \/ WriterFails
            \/ WriterRequeued \/ WriterCommit) /\ retried' = retried
  BY <1>1, <1>b DEF WriterStart, WriterCheck, WriterGetTimeout, WriterFilled, WriterFails,
       WriterRequeued, WriterCommit, LoopCondition, AfterRollback
<1>2. CASE (WriterGet \/ WriterFill) /\ retried' = retried
  <2>1. queue # <<>> /\ queue' = Tail(queue)
    BY <1>2 DEF WriterGet, WriterFill
  <2>2. ShutdownSeen'
    BY <1>0, <1>2, <1>a, <2>1 DEF WriterGet, WriterFill
  <2>3. OnlyLateOrRetriedAbandoned'
    <3>1. SUFFICES ASSUME writer' = "done" PROVE Backlog' \subseteq late \cup retried
      BY <1>0, <1>2
    <3>2. Head(queue) = None
      BY <1>2, <3>1 DEF WriterGet, WriterFill, OnSentinel
    <3>3. Range(batch') = {}
      BY <1>0, <3>1 DEF BatchEmpty, Range
    <3> QED BY <1>2, <1>a, <2>1, <3>2, <3>3 DEF Backlog, Queued
  <2> QED BY <1>2, <1>a, <2>1, <2>2, <2>3
<1>3. CASE WriterRequeue
  <2>1. /\ Head(batch) \in Measurements /\ Head(batch) # None
        /\ retried' = retried \cup {Head(batch)}
        /\ shutdown_requested' = shutdown_requested /\ writer' # "done"
    BY <1>0, <1>3, RangeTail DEF WriterRequeue
  <2>2. CASE PutNowait(Head(batch))
    <3>1. /\ Range(queue') = Range(queue) \cup {Head(batch)}
          /\ Unsealed(queue') \subseteq Unsealed(queue) \cup {Head(batch)}
      BY <1>0, <2>1, <2>2, RangeAppend, UnsealedAppend DEF PutNowait
    <3> QED BY <1>0, <2>1, <3>1
  <2>3. CASE queue' = queue
    BY <1>0, <2>1, <2>3
  <2> QED BY <1>3, <2>2, <2>3 DEF WriterRequeue, Full
<1>4. CASE WriterCountDrop
  BY <1>4, <1>b DEF WriterCountDrop, CountDrop
<1> QED BY <1>1, <1>2, <1>3, <1>4 DEF WriterStep, ghostVars

\* The sentinel follows all that is queued.
LEMMA StopEnd ==
    ASSUME OnceInv, EndInv, Monitor \/ RequestStop \/ StopStep
    PROVE  EndInv'
<1> USE DEF EndInv, UnsealedIsLate, ShutdownSeen, OnlyLateOrRetriedAbandoned, StopCalled
<1>0. UNCHANGED <<writer, batch, shutdown_requested, late, retried>>
  BY DEF Monitor, RequestStop, StopStep, writerVars, ghostVars
<1>1. CASE Monitor \/ RequestStop \/ JoinWorkers \/ JoinHistory
  BY <1>0, <1>1 DEF Monitor, RequestStop, JoinWorkers, JoinHistory, queueVars, mainVars, Backlog, Queued
<1>2. CASE PutSentinel
  <2>1. /\ Unsealed(queue') = {} /\ Range(queue') = Range(queue) \cup {None}
    BY <1>2, OnceFacts, RangeAppend, UnsealedAppend DEF PutSentinel
  <2>2. main = "put_sentinel" /\ ~shutdown_requested
    BY <1>2 DEF PutSentinel
  <2>3. Backlog' = Backlog
    BY <1>0, <2>1 DEF Backlog, Queued
  <2> QED BY <1>0, <2>1, <2>2, <2>3
<1> QED BY <1>1, <1>2 DEF StopStep

\* When the history thread has ended normally, nothing that was queued before the
\* sentinel and never rolled back is left unwritten, however stop(), the workers and
\* failing batches interleave.
THEOREM PipelineNothingElseAbandoned == Spec => []OnlyLateOrRetriedAbandoned
<1>1. OnceInv /\ EndInv /\ [Next]_vars => EndInv'
  <2>1. CASE UNCHANGED vars
    BY <2>1 DEF vars, queueVars, writerVars, mainVars, ghostVars, EndInv, UnsealedIsLate,
         ShutdownSeen, OnlyLateOrRetriedAbandoned, StopCalled, Backlog, Queued
  <2>2. CASE Next /\ OnceInv /\ EndInv
    BY <2>2, WorkerEnd, WriterEnd, StopEnd DEF Next
  <2> QED BY <2>1, <2>2
<1>2. EndInv => OnlyLateOrRetriedAbandoned
  BY DEF EndInv
<1> QED BY <1>1, <1>2, InitEndInv, InitOnceInv, NextOnceInv, PTL DEF Spec
-----------------------------------------------------------------------------
(***************************************************************************)
(* OrderWithoutFailures.  Table, batch and queue, one behind the other,    *)
(* hold each worker's measurements in the order it published them, and     *)
(* before those it has in hand.                                            *)
(***************************************************************************)

Earlier(m, n)    == m[1] = n[1] => m[2] < n[2]
InOrder(s)       == \A i, j \in DOMAIN s :
                        i < j /\ s[i] # None /\ s[j] # None => Earlier(s[i], s[j])
AllEarlier(S, T) == \A m \in S, n \in T : Earlier(m, n)

OrderInv ==
    failures = 0 =>
        /\ writer \notin {"requeue", "count"}
        /\ InOrder(rows) /\ InOrder(batch) /\ InOrder(queue)
        /\ AllEarlier(Range(rows), Range(batch) \cup Queued)
        /\ AllEarlier(Range(batch), Queued)

\* Appending what comes after everything in a sequence keeps its order.
LEMMA InOrderAppend ==
    ASSUME NEW S, NEW s \in Seq(S), NEW e \in S, InOrder(s),
           e # None => AllEarlier(Range(s) \ {None}, {e})
    PROVE  InOrder(Append(s, e))
<1>1. /\ DOMAIN Append(s, e) = 1..(Len(s) + 1) /\ DOMAIN s = 1..Len(s) /\ Len(s) \in Nat
      /\ \A i \in 1..Len(s) : Append(s, e)[i] = s[i]
      /\ Append(s, e)[Len(s) + 1] = e
  BY AppendProperties, LenProperties
<1>2. ASSUME NEW i \in 1..(Len(s) + 1), NEW j \in 1..(Len(s) + 1), i < j,
             Append(s, e)[i] # None, Append(s, e)[j] # None
      PROVE  Earlier(Append(s, e)[i], Append(s, e)[j])
  <2>1. i \in 1..Len(s) /\ s[i] \in Range(s) /\ Append(s, e)[i] = s[i]
    BY <1>1, <1>2 DEF Range
  <2>2. CASE j = Len(s) + 1
    BY <1>1, <1>2, <2>1, <2>2 DEF AllEarlier
  <2>3. CASE j \in 1..Len(s)
    BY <1>1, <1>2, <2>1, <2>3 DEF InOrder
  <2> QED BY <1>1, <2>2, <2>3
<1> QED BY <1>1, <1>2 DEF InOrder

\* The rest of a sequence in order is in order, and the head comes before it.
LEMMA InOrderTail ==
    ASSUME NEW S, NEW s \in Seq(S), s # <<>>, InOrder(s)
    PROVE  /\ InOrder(Tail(s))
           /\ Head(s) # None => AllEarlier({Head(s)}, Range(Tail(s)) \ {None})
<1>1. /\ Len(s) \in Nat \ {0} /\ DOMAIN s = 1..Len(s) /\ Head(s) = s[1]
      /\ DOMAIN Tail(s) = 1..(Len(s) - 1)
      /\ \A i \in 1..(Len(s) - 1) : Tail(s)[i] = s[i + 1]
  BY HeadTailProperties, LenProperties, EmptySeq
<1>2. ASSUME NEW i \in 1..(Len(s) - 1), NEW j \in 1..(Len(s) - 1), i < j,
             Tail(s)[i] # None, Tail(s)[j] # None
      PROVE  Earlier(Tail(s)[i], Tail(s)[j])
  <2>1. i + 1 \in DOMAIN s /\ j + 1 \in DOMAIN s /\ i + 1 < j + 1
    BY <1>1, <1>2
  <2> QED BY <1>1, <1>2, <2>1 DEF InOrder
<1>3. ASSUME Head(s) # None, NEW i \in 1..(Len(s) - 1), Tail(s)[i] # None
      PROVE  Earlier(Head(s), Tail(s)[i])
  <2>1. 1 \in DOMAIN s /\ i + 1 \in DOMAIN s /\ 1 < i + 1
    BY <1>1, <1>3
  <2> QED BY <1>1, <1>3, <2>1 DEF InOrder
<1> QED BY <1>1, <1>2, <1>3 DEF InOrder, AllEarlier, Range

\* Two sequences in order, the first before the second, are in order end to end.
LEMMA InOrderConcat ==
    ASSUME NEW S, NEW s \in Seq(S), NEW t \in Seq(S), InOrder(s), InOrder(t),
           AllEarlier(Range(s), Range(t))
    PROVE  InOrder(s \o t)
<1>1. /\ Len(s \o t) = Len(s) + Len(t) /\ Len(s) \in Nat /\ Len(t) \in Nat
      /\ DOMAIN (s \o t) = 1..(Len(s) + Len(t))
      /\ DOMAIN s = 1..Len(s) /\ DOMAIN t = 1..Len(t)
      /\ \A i \in 1..(Len(s) + Len(t)) :
            (s \o t)[i] = IF i <= Len(s) THEN s[i] ELSE t[i - Len(s)]
  BY ConcatProperties, LenProperties
<1>2. ASSUME NEW i \in DOMAIN (s \o t), NEW j \in DOMAIN (s \o t), i < j,
             (s \o t)[i] # None, (s \o t)[j] # None
      PROVE  Earlier((s \o t)[i], (s \o t)[j])
  <2>1. CASE j <= Len(s)
    BY <1>1, <1>2, <2>1 DEF InOrder
  <2>2. CASE Len(s) < i
    <3>1. i - Len(s) \in DOMAIN t /\ j - Len(s) \in DOMAIN t /\ i - Len(s) < j - Len(s)
      BY <1>1, <1>2, <2>2
    <3>2. (s \o t)[i] = t[i - Len(s)] /\ (s \o t)[j] = t[j - Len(s)]
      BY <1>1, <1>2, <2>2
    <3> QED BY <1>2, <3>1, <3>2 DEF InOrder
  <2>3. CASE i <= Len(s) /\ Len(s) < j
    <3>1. (s \o t)[i] = s[i] /\ i \in DOMAIN s /\ s[i] \in Range(s)
      BY <1>1, <2>3 DEF Range
    <3>2. (s \o t)[j] = t[j - Len(s)] /\ j - Len(s) \in DOMAIN t /\ t[j - Len(s)] \in Range(t)
      BY <1>1, <2>3 DEF Range
    <3> QED BY <3>1, <3>2 DEF AllEarlier
  <2> QED BY <1>1, <2>1, <2>2, <2>3
<1> QED BY <1>2 DEF InOrder

\* The empty pipeline is in order.
LEMMA InitOrderInv == Init => OrderInv
BY DEF Init, OrderInv, InOrder, AllEarlier, Queued, Range

\* A step that leaves table, batch and queue alone.
LEMMA OrderUnmoved ==
    ASSUME OrderInv, UNCHANGED <<queue, batch, rows>>, failures' = 0 => failures = 0,
           failures' = 0 => writer' \notin {"requeue", "count"}
    PROVE  OrderInv'
BY DEF OrderInv, Queued

\* What a worker puts was published after everything it put before.
LEMMA WorkerOrder ==
    ASSUME OnceInv, OrderInv, NEW w \in Workers, StartPublish(w) \/ WorkerStep(w)
    PROVE  OrderInv'
<1> DEFINE m == <<w, published[w]>>
<1>0. UNCHANGED <<writer, batch, rows, failures>>
  BY DEF StartPublish, WorkerStep, writerVars
<1>1. CASE queue' = queue
  BY <1>0, <1>1, OrderUnmoved DEF OrderInv
<1>2. CASE WorkerStep(w) /\ Put(w) /\ PutNowait(m)
  <2>1. /\ m \in InHand /\ m \in Measurements /\ m # None
        /\ queue \in Seq(Measurements \cup {None}) /\ queue' = Append(queue, m)
    BY <1>2, InHandType, MeasurementType, OnceFacts DEF InHand, Put, PutNowait, OnceInv
  <2>2. Queued' = Queued \cup {m}
    BY <2>1, RangeAppend DEF Queued
  <2>3. ASSUME NEW n \in Queued \cup Range(batch) \cup Range(rows) PROVE Earlier(n, m)
    <3>1. n \in Issued /\ n # m
      BY <2>1 DEF OnceInv, ExactlyOnce
    <3>2. n \in Measurements /\ n[2] <= published[n[1]]
      BY <3>1 DEF Issued
    <3>3. PICK v \in Workers : \E k \in 1..MaxPublish[v] : n = <<v, k>>
      BY <3>2 DEF Measurements
    <3>4. PICK k \in 1..MaxPublish[v] : n = <<v, k>>
      BY <3>3
    <3>5. published[w] \in Nat /\ k \in Int
      BY <1>2, PipelineAssumption DEF OnceInv, TypeInv, TypeOK
    <3> QED BY <3>1, <3>2, <3>4, <3>5 DEF Earlier
  <2>4. failures = 0 => InOrder(queue')
    <3>1. AllEarlier(Range(queue) \ {None}, {m})
      BY <2>3 DEF AllEarlier, Queued
    <3>2. m \in Measurements \cup {None}
      BY <2>1
    <3> HIDE DEF m
    <3> QED BY <2>1, <3>1, <3>2, InOrderAppend DEF OrderInv
  <2>5. failures = 0 => /\ AllEarlier(Range(rows), Range(batch) \cup Queued')
                        /\ AllEarlier(Range(batch), Queued')
    <3> HIDE DEF m
    <3> QED BY <2>2, <2>3 DEF OrderInv, AllEarlier
  <2> QED BY <1>0, <2>4, <2>5 DEF OrderInv
<1> QED BY <1>1, <1>2
        DEF StartPublish, WorkerStep, Put, FinishPut, EndWorker, CountDrop, Full, queueVars

\* Without failures the history thread keeps the order of each worker.
LEMMA WriterOrder ==
    ASSUME OnceInv, OrderInv, WriterStep
    PROVE  OrderInv'
<1>0. /\ queue \in Seq(Measurements \cup {None})
      /\ batch \in Seq(Measurements) /\ rows \in Seq(Measurements)
      /\ None \notin Measurements /\ failures \in Nat
  BY OnceFacts DEF OnceInv, TypeInv, TypeOK
<1>a. ASSUME failures = 0, queue # <<>>, queue' = Tail(queue)
      PROVE  /\ InOrder(queue') /\ Range(queue) = Range(queue') \cup {Head(queue)}
             /\ Head(queue) \in Measurements \cup {None}
             /\ Head(queue) # None => AllEarlier({Head(queue)}, Queued')
  BY <1>0, <1>a, RangeTail, InOrderTail DEF OrderInv, Queued
<1>1. CASE WriterStart \/ WriterCheck \/ WriterGetTimeout \/ WriterFilled \/ WriterFails
  <2>1. UNCHANGED <<queue, batch, rows>> /\ (failures' = 0 => failures = 0)
    BY <1>0, <1>1 DEF WriterStart, WriterCheck, WriterGetTimeout, WriterFilled, WriterFails,
       RolledBack
  <2>2. failures' = 0 => writer' \notin {"requeue", "count"}
    BY <1>0, <1>1 DEF WriterStart, WriterCheck, WriterGetTimeout, WriterFilled, WriterFails
  <2> QED BY <2>1, <2>2, OrderUnmoved
<1>2. CASE WriterGet \/ WriterFill
  <2>1. /\ queue # <<>> /\ queue' = Tail(queue) /\ UNCHANGED <<rows, failures>>
        /\ writer' \in {"done", "fill", "commit"}
    BY <1>2 DEF WriterGet, WriterFill, OnSentinel
  <2>2. CASE Head(queue) = None
    <3>1. batch' = batch
      BY <1>2, <2>2 DEF WriterGet, WriterFill
    <3>2. failures = 0 => Queued' = Queued
      BY <1>a, <2>1, <2>2 DEF Queued
    <3> QED BY <1>a, <2>1, <3>1, <3>2 DEF OrderInv
  <2>3. ASSUME Head(queue) # None, failures = 0
        PROVE  /\ InOrder(batch') /\ Range(batch') = Range(batch) \cup {Head(queue)}
    <3>1. Head(queue) \in Measurements /\ Head(queue) \in Queued
      BY <1>a, <2>1, <2>3 DEF Queued
    <3>2. AllEarlier(Range(batch) \ {None}, {Head(queue)})
      BY <2>3, <3>1 DEF OrderInv, AllEarlier
    <3>3. CASE WriterFill
      <4>1. batch' = Append(batch, Head(queue))
        BY <2>3, <3>3 DEF WriterFill, Gathered
      <4> QED BY <1>0, <2>3, <3>1, <3>2, <4>1, RangeAppend, InOrderAppend DEF OrderInv
    <3>4. CASE WriterGet
      <4>1. batch = <<>> /\ batch' = <<Head(queue)>>
        BY <2>3, <3>4 DEF WriterGet, OnceInv, BatchEmpty
      <4>2. DOMAIN batch' = {1} /\ Range(batch) = {} /\ Range(batch') = {Head(queue)}
        BY <4>1 DEF Range
      <4> QED BY <4>2 DEF InOrder
    <3> QED BY <1>2, <3>3, <3>4
  <2>4. CASE Head(queue) # None
    <3>1. failures = 0 => Queued = Queued' \cup {Head(queue)}
      BY <1>a, <2>1, <2>4 DEF Queued
    <3> QED BY <1>a, <2>1, <2>3, <2>4, <3>1 DEF OrderInv, AllEarlier
  <2> QED BY <2>2, <2>4
<1>3. CASE WriterCommit
  <2>1. /\ UNCHANGED <<queue, failures>> /\ batch' = <<>> /\ rows' = rows \o batch
        /\ writer' \in {"done", "check"}
    BY <1>3 DEF WriterCommit
  <2>2. Queued' = Queued /\ Range(batch') = {} /\ InOrder(batch')
    BY <2>1 DEF Queued, Range, InOrder
  <2>3. Range(rows') = Range(rows) \cup Range(batch)
    BY <1>0, <2>1, RangeConcat
  <2>4. failures = 0 => InOrder(rows')
    <3>1. failures = 0 => AllEarlier(Range(rows), Range(batch))
      BY DEF OrderInv, AllEarlier
    <3> QED BY <1>0, <2>1, <3>1, InOrderConcat DEF OrderInv
  <2> QED BY <2>1, <2>2, <2>3, <2>4 DEF OrderInv, AllEarlier
<1>4. CASE WriterRequeue \/ WriterCountDrop \/ WriterRequeued
  <2>1. writer \in {"requeue", "count"} /\ failures' = failures
    <3>1. CASE WriterRequeue
      BY <3>1 DEF WriterRequeue
    <3>2. CASE WriterCountDrop \/ WriterRequeued
      BY <3>2 DEF WriterCountDrop, WriterRequeued
    <3> QED BY <1>4, <3>1, <3>2
  <2> QED BY <2>1 DEF OrderInv
<1> QED BY <1>1, <1>2, <1>3, <1>4 DEF WriterStep

\* stop() reorders nothing.
LEMMA StopOrder ==
    ASSUME OnceInv, OrderInv, Monitor \/ RequestStop \/ StopStep
    PROVE  OrderInv'
<1>0. UNCHANGED <<writer, batch, rows, failures>>
  BY DEF Monitor, RequestStop, StopStep, writerVars
<1>1. CASE Monitor \/ RequestStop \/ JoinWorkers \/ JoinHistory
  <2>1. queue' = queue
    BY <1>1 DEF Monitor, RequestStop, JoinWorkers, JoinHistory, queueVars
  <2> QED BY <1>0, <2>1, OrderUnmoved DEF OrderInv
<1>2. CASE PutSentinel
  <2>1. /\ queue \in Seq(Measurements \cup {None}) /\ queue' = Append(queue, None)
        /\ None \in Measurements \cup {None}
    BY <1>2, OnceFacts DEF PutSentinel
  <2>2. Queued' = Queued
    BY <2>1, RangeAppend DEF Queued
  <2>3. failures = 0 => InOrder(queue')
    BY <2>1, InOrderAppend DEF OrderInv
  <2> QED BY <1>0, <2>2, <2>3 DEF OrderInv
<1> QED BY <1>1, <1>2 DEF StopStep

\* As long as no batch has failed, the table has each worker's measurements in the order
\* of their publication, whatever other threads put in between.
THEOREM PipelineOrderWithoutFailures == Spec => []OrderWithoutFailures
<1>1. OnceInv /\ OrderInv /\ [Next]_vars => OrderInv'
  <2>1. CASE UNCHANGED vars
    BY <2>1, OrderUnmoved DEF vars, queueVars, writerVars, OrderInv
  <2>2. CASE Next /\ OnceInv /\ OrderInv
    BY <2>2, WorkerOrder, WriterOrder, StopOrder DEF Next
  <2> QED BY <2>1, <2>2
<1>2. OnceInv /\ OrderInv => OrderWithoutFailures
  <2>1. ASSUME OnceInv, OrderInv, failures = 0 PROVE \A i \in DOMAIN rows : rows[i] # None
    BY <2>1, OnceFacts, ElementOfSeq, LenProperties
  <2> QED BY <2>1 DEF OrderInv, OrderWithoutFailures, InOrder, Earlier
<1> QED BY <1>1, <1>2, InitOrderInv, InitOnceInv, NextOnceInv, PTL DEF Spec
=============================================================================
