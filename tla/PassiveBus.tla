------------------------------ MODULE PassiveBus ----------------------------
(***************************************************************************)
(* The passive tap on the meter bus (eastron.py, modbus.py).  An ASW polls *)
(* the Eastron meter; the daemon only listens: it recovers the frames from *)
(* a byte stream that comes in arbitrary chunks, pairs responses with      *)
(* requests, and publishes what the pairs say.                             *)
(*                                                                         *)
(* The stream is a sequence of bytes that know which frame they belong to. *)
(* Of its value a byte shows what the decoder looks at: whether a frame    *)
(* could start here, and how long it would be.  A CRC is taken to hold for *)
(* undamaged whole frames and for nothing else.  All traffic is function   *)
(* 0x04, so a slave stands for the matcher's (slave, function) key.        *)
(***************************************************************************)
EXTENDS Integers, Sequences, FiniteSets, FiniteSetsExt, SequencesExt

CONSTANTS Slaves,        \* the grid meter and the external-PV meter
          Blocks,        \* the register blocks the master reads
          Count,         \* per block: its number of registers
          Lures,         \* blocks whose data happen to look like frame headers
          Damages,       \* what may happen to a frame on its way to the tap
          FalseLength,   \* the length such a header, or a damaged one, claims
          None,          \* no request
          ChunkSizes,    \* where a read or a flush may cut what is unread, besides its end
          MaxFrames,     \* bound: frames sent on the bus
          MaxUnread,     \* bound: a frame is sent while fewer bytes are unread
          MaxUnplugs     \* bound: times the adapter is pulled out

ASSUME PassiveAssumption ==
    /\ None \notin Nat
    /\ Count \in [Blocks -> 1..125]
    /\ \A b, c \in Blocks : Count[b] = Count[c] => b = c
    /\ Lures \subseteq Blocks
    /\ ChunkSizes \subseteq Nat
    /\ {"intact"} \subseteq Damages
    /\ Damages \subseteq {"intact", "crc", "head", "length", "cut"}
    /\ FalseLength \in 7..255
    /\ MaxFrames \in Nat /\ MaxUnread \in Nat /\ MaxUnplugs \in Nat

VARIABLES
    frames,    \* external, history: the frames the master and the meters have sent
    wire,      \* external: bytes at the port that the thread has not read
    unplugs,   \* external: how often the adapter has been pulled out
    device,    \* external: "present" or "unplugged"
    fd,        \* the thread's port: "none", "live", "dead" (unplugged); "ended": no thread
    buffer,    \* RTUStreamDecoder._buffer
    matcher,   \* TransactionMatcher, the counters that degrade the health, and a history:
               \* the transactions, each published as soon as it is matched
    silent,    \* more than five seconds since the last transaction, or since connecting
    status,    \* health["eastron"]["status"]
    decoded    \* history: the frames the decoder has returned

passiveVars == <<frames, wire, unplugs, device, fd, buffer, matcher, silent, status, decoded>>

Frames == [slave : Slaves, block : Blocks \cup {None},
           kind : {"request", "response", "exception"}, damage : Damages]

\* Elsewhere a frame is its index in frames.
Ids == 1..MaxFrames

\* The counters are kept as the set of those above zero: the health asks no more.
Counters == {"missing", "unmatched", "exceptions", "suspect_crc"}

PassiveInit ==
    /\ frames = <<>> /\ wire = <<>> /\ unplugs = 0
    /\ device = "present" /\ fd = "none" /\ buffer = <<>>
    /\ matcher = [pending |-> [s \in Slaves |-> None], counters |-> {}, published |-> <<>>]
    /\ silent = FALSE /\ status = "starting"
    /\ decoded = <<>>
-----------------------------------------------------------------------------
(***************************************************************************)
(* Frames and bytes.  A damaged frame has an unrecognisable first byte, a  *)
(* wrong length field, any other wrong byte, or lacks its last byte.       *)
(***************************************************************************)

FullLength(f) == CASE f.kind = "request"   -> 8
                   [] f.kind = "response"  -> 5 + 2 * Count[f.block]
                   [] f.kind = "exception" -> 5

Bytes(id, f) ==
    LET n == IF f.damage = "cut" THEN FullLength(f) - 1 ELSE FullLength(f)
    IN  [i \in 1..n |-> [id |-> id, at |-> i - 1]]

\* _candidate_lengths at byte b: each length, and how many bytes it takes to see it
Claims(b) ==
    LET f == frames[b.id]
        needs == CASE f.kind = "request"   -> 6
                   [] f.kind = "response"  -> 3
                   [] f.kind = "exception" -> 2
        lured == f.kind = "response" /\ f.block \in Lures
    IN  CASE b.at = 0 /\ f.damage = "head" -> {}
          [] b.at = 0 /\ f.damage = "length" ->
                IF f.kind = "response" THEN {[needs |-> 3, length |-> FalseLength]} ELSE {}
          [] b.at = 0 /\ f.damage \notin {"head", "length"} ->
                {[needs |-> needs, length |-> FullLength(f)]}
                \cup (IF lured THEN {[needs |-> 6, length |-> 8]} ELSE {})
          [] OTHER -> IF lured /\ b.at = 3 THEN {[needs |-> 3, length |-> FalseLength]} ELSE {}

\* a slave address followed by a read function, or by its exception
LooksLikeHeader(b) == Claims(b) # {} \/ (b.at = 0 /\ frames[b.id].damage # "head")

\* valid_crc: the n bytes of s from the i-th on are an undamaged frame
ValidCrc(s, i, n) ==
    LET f == frames[s[i].id]
    IN  /\ s[i].at = 0
        /\ n = FullLength(f)
        /\ f.damage = "intact"
        /\ \A k \in 1..n : s[i + k - 1] = [id |-> s[i].id, at |-> k - 1]
-----------------------------------------------------------------------------
(***************************************************************************)
(* RTUStreamDecoder.feed: at each position take the longest valid frame,   *)
(* wait for a candidate that is not complete, or drop one byte.            *)
(***************************************************************************)

Candidates(s) == {c.length : c \in {x \in Claims(s[1]) : x.needs <= Len(s)}}

Valid(s) == {n \in Candidates(s) : n <= Len(s) /\ ValidCrc(s, 1, n)}

Mutant_WaitsLong(s) ==
    \/ Len(s) < 2
    \/ LooksLikeHeader(s[1]) /\ Valid(s) = {}

Mutant_Waits(s) ==
    \/ Len(s) < 2
    \/ /\ LooksLikeHeader(s[1])
       /\ Valid(s) = {}
       /\ \E n \in Candidates(s) : n > Len(s)

Waits(s) ==
    \/ Len(s) < 2
    \/ /\ LooksLikeHeader(s[1])
       /\ Valid(s) = {}
       /\ \/ Candidates(s) = {} /\ Len(s) < 6
          \/ \E n \in Candidates(s) : n > Len(s)

\* What is left in the buffer, the frames found, and whether one had a wrong CRC
Feed(s) ==
    LET scan[k \in 0..Len(s)] ==
            LET rest == SubSeq(s, k + 1, Len(s))
            IN  IF Waits(rest)
                THEN [buffer |-> rest, frames |-> <<>>, suspect |-> FALSE]
                ELSE IF Valid(rest) # {}
                THEN LET then == scan[k + Max(Valid(rest))]
                     IN  [then EXCEPT !.frames = <<rest[1].id>> \o @]
                ELSE LET then == scan[k + 1]
                     IN  [then EXCEPT !.suspect = @ \/ Candidates(rest) # {}]
    IN  scan[0]
-----------------------------------------------------------------------------
(***************************************************************************)
(* TransactionMatcher.accept: the latest request of a slave waits for its  *)
(* response; a response or exception takes it, whatever it then is.        *)
(***************************************************************************)

Mutant_AcceptRequest(m, id) == [m EXCEPT !.pending[frames[id].slave] = id]

AcceptRequest(m, id) ==
    LET s == frames[id].slave
    IN  [m EXCEPT !.pending[s] = id,
                  !.counters = IF m.pending[s] = None THEN @ ELSE @ \cup {"missing"}]

AcceptException(m, id) ==
    [m EXCEPT !.pending[frames[id].slave] = None, !.counters = @ \cup {"exceptions"}]

Mutant_Answers(request, id) == request # None

\* the response has the length the pending request asked for
Answers(request, id) ==
    request # None /\ Count[frames[request].block] = Count[frames[id].block]

AcceptResponse(m, id) ==
    LET s == frames[id].slave
        request == m.pending[s]
    IN  IF Answers(request, id)
        THEN [m EXCEPT !.pending[s] = None,
                       !.published = Append(@, [request |-> request, response |-> id])]
        ELSE [m EXCEPT !.pending[s] = None, !.counters = @ \cup {"unmatched"}]

Accept(m, id) ==
    CASE frames[id].kind = "request"   -> AcceptRequest(m, id)
      [] frames[id].kind = "exception" -> AcceptException(m, id)
      [] frames[id].kind = "response"  -> AcceptResponse(m, id)
-----------------------------------------------------------------------------
(***************************************************************************)
(* The bus (external): a master asks, the meter asked may answer, and      *)
(* noise may damage what reaches the tap.  A request may go unanswered and *)
(* an answer may follow a request that the tap did not hear, so that it    *)
(* may hear any frame after any other.                                     *)
(***************************************************************************)

\* While no port is open only the frame in the air can still reach one.
Transmit(f) ==
    LET id == Len(frames) + 1
    IN  /\ id \in Ids
        /\ Len(wire) < MaxUnread
        /\ frames' = Append(frames, f)
        /\ wire' = IF fd = "live" THEN wire \o Bytes(id, f) ELSE Bytes(id, f)
        /\ UNCHANGED <<unplugs, device, fd, buffer, matcher, silent, status, decoded>>

Send ==
    \/ \E s \in Slaves, b \in Blocks, k \in {"request", "response"}, d \in Damages :
           Transmit([slave |-> s, block |-> b, kind |-> k, damage |-> d])
    \/ \E s \in Slaves :
           Transmit([slave |-> s, block |-> None, kind |-> "exception", damage |-> "intact"])

Unplug ==
    /\ device = "present" /\ unplugs < MaxUnplugs
    /\ device' = "unplugged" /\ unplugs' = unplugs + 1
    /\ fd' = IF fd = "live" THEN "dead" ELSE fd
    /\ wire' = <<>>
    /\ UNCHANGED <<frames, buffer, matcher, silent, status, decoded>>

Replug ==
    /\ device = "unplugged"
    /\ device' = "present"
    /\ UNCHANGED <<frames, wire, unplugs, fd, buffer, matcher, silent, status, decoded>>

\* Five seconds pass without a transaction: whatever had arrived has long been read.
Silence ==
    /\ ~silent
    /\ fd = "live" => wire = <<>>
    /\ silent' = TRUE
    /\ UNCHANGED <<frames, wire, unplugs, device, fd, buffer, matcher, status, decoded>>

Bus == Send \/ Unplug \/ Replug \/ Silence
-----------------------------------------------------------------------------
(***************************************************************************)
(* EastronWorker.run.  The decoder and the matcher are kept when the port  *)
(* is opened again.                                                        *)
(***************************************************************************)

Mutant_Degraded(m, quiet) == m.counters # {}

Degraded(m, quiet) == m.counters # {} \/ quiet

Health(m, quiet) == IF Degraded(m, quiet) THEN "degraded" ELSE "ok"

Cuts == {0, Len(wire)} \cup {n \in ChunkSizes : n < Len(wire)}

\* ReadOnlySerial.__enter__ flushes what has arrived; the rest of a frame in the air has not.
Open ==
    /\ fd = "none" /\ device = "present"
    /\ fd' = "live"
    /\ \E k \in Cuts : wire' = SubSeq(wire, k + 1, Len(wire))
    /\ silent' = (silent /\ matcher.published # <<>>)
    /\ status' = "ok"
    /\ UNCHANGED <<frames, unplugs, device, buffer, matcher, decoded>>

\* The device is missing or locked: the thread reports it, waits and tries again.
OpenFails ==
    /\ fd = "none"
    /\ status' = "failed"
    /\ UNCHANGED <<frames, wire, unplugs, device, fd, buffer, matcher, silent, decoded>>

\* Unplugged between open and tcgetattr: termios.error is no OSError and ends the thread.
OpenRaises ==
    /\ fd = "none" /\ device = "unplugged"
    /\ fd' = "ended"
    /\ status' = "starting"
    /\ UNCHANGED <<frames, wire, unplugs, device, buffer, matcher, silent, decoded>>

ReadChunk ==
    /\ fd = "live"
    /\ \E n \in Cuts \ {0} :
        LET fed     == Feed(buffer \o SubSeq(wire, 1, n))
            matched == FoldLeft(Accept, matcher, fed.frames)
            m       == [matched EXCEPT
                            !.counters = IF fed.suspect THEN @ \cup {"suspect_crc"} ELSE @]
        IN  /\ wire' = SubSeq(wire, n + 1, Len(wire))
            /\ buffer' = fed.buffer
            /\ matcher' = m
            /\ decoded' = decoded \o fed.frames
            /\ silent' = (silent /\ m.published = matcher.published)
            /\ status' = Health(m, silent')
    /\ UNCHANGED <<frames, unplugs, device, fd>>

\* No byte within half a second; a port whose device is gone may also read as empty.
ReadNothing ==
    /\ \/ fd = "live" /\ wire = <<>>
       \/ fd = "dead"
    /\ status' = Health(matcher, silent)
    /\ UNCHANGED <<frames, wire, unplugs, device, fd, buffer, matcher, silent, decoded>>

ReadFails ==
    /\ fd = "dead"
    /\ fd' = "none"
    /\ status' = "failed"
    /\ UNCHANGED <<frames, wire, unplugs, device, buffer, matcher, silent, decoded>>

Worker == Open \/ OpenFails \/ OpenRaises \/ ReadChunk \/ ReadNothing

\* Without a thread nothing listens to the bus.
PassiveNext == (fd # "ended" /\ Bus) \/ Worker \/ ReadFails

PassiveSpec == PassiveInit /\ [][PassiveNext]_passiveVars

\* A thread whose port is dead keeps reading, and time passes.  That a read ever fails is not
\* assumed.
FairPassiveSpec ==
    /\ PassiveSpec
    /\ WF_passiveVars(fd = "dead" /\ ReadNothing) /\ WF_passiveVars(fd = "dead" /\ Silence)
-----------------------------------------------------------------------------
(***************************************************************************)
(* Properties.                                                             *)
(***************************************************************************)

Transactions == [request : Ids, response : Ids]

\* a whole undamaged frame begins at s[i]
WholeAt(s, i) ==
    LET n == FullLength(frames[s[i].id])
    IN  s[i].at = 0 /\ i + n - 1 <= Len(s) /\ ValidCrc(s, i, n)

Ascending(S) ==
    CHOOSE q \in [1..Cardinality(S) -> S] :
        \A i, j \in 1..Cardinality(S) : i < j => q[i] < q[j]

\* The undamaged frames that are whole in s, in the order in which they were sent
Whole(s) == Ascending({s[i].id : i \in {k \in DOMAIN s : WholeAt(s, k)}})

\* The variables hold what they should, and the decoder never keeps as many bytes as the
\* longest frame it may be waiting for (_buffer has no other limit).
PassiveTypeOK ==
    /\ frames \in Seq(Frames) /\ Len(frames) <= MaxFrames
    /\ unplugs \in 0..MaxUnplugs
    /\ device \in {"present", "unplugged"}
    /\ fd \in {"none", "live", "dead", "ended"}
    /\ wire \in Seq([id : Ids, at : Nat])
    /\ buffer \in Seq([id : Ids, at : Nat])
    /\ Len(buffer) < Max({8, FalseLength} \cup {5 + 2 * Count[b] : b \in Blocks})
    /\ matcher.pending \in [Slaves -> Ids \cup {None}]
    /\ matcher.counters \subseteq Counters
    /\ matcher.published \in Seq(Transactions)
    /\ silent \in BOOLEAN
    /\ status \in {"starting", "ok", "degraded", "failed"}
    /\ decoded \in Seq(Ids)

\* What is published is what was asked: whatever frames are damaged or lost, a response is
\* paired with an earlier request for the same registers of the same meter, and no request
\* or response is used twice (TransactionMatcher.accept, modbus.py).
TransactionsGenuine ==
    LET t == matcher.published
    IN  /\ \A i \in 1..Len(t) :
               /\ frames[t[i].request].slave = frames[t[i].response].slave
               /\ frames[t[i].request].block = frames[t[i].response].block
               /\ t[i].request < t[i].response
        /\ \A i, j \in 1..Len(t) :
               i # j => t[i].request # t[j].request /\ t[i].response # t[j].response

\* While every counter is zero nothing was dropped behind the decoder: each request it
\* returned was answered in a published transaction or is still pending, and each response
\* was published (TransactionMatcher's counters are the health's only witness).
CleanMeansComplete ==
    matcher.counters = {} =>
        \A id \in Range(decoded) :
            \/ id = matcher.pending[frames[id].slave]
            \/ \E t \in Range(matcher.published) : id \in {t.request, t.response}

Queue == IF fd = "live" THEN Whole(buffer \o wire) ELSE Whole(buffer)

Channel == INSTANCE FrameChannel WITH Frames <- Ids, queue <- Queue, delivered <- decoded

\* However the bytes are cut into chunks and whatever noise lies between them, the decoder
\* returns every undamaged frame that reached the open port, once and in order
\* (RTUStreamDecoder.feed).
ImplementsChannel == Channel!Spec

\* When the adapter is gone the health stops being "ok", even if reading the port neither
\* fails nor returns anything (EastronWorker._publish_health).
OutageReported == fd = "dead" ~> status # "ok"
=============================================================================
