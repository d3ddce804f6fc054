---------------------------- MODULE ReadingsProofs --------------------------
(***************************************************************************)
(* Proofs about the two ends of the way of a reading: PassiveBus, for any  *)
(* meters, register blocks, noise, cuts and false headers, and PlantState, *)
(* for any inputs, ages, groups of registers, number of device threads and *)
(* of stream clients.  The two systems share nothing here.                 *)
(***************************************************************************)
EXTENDS PassiveBus, PlantState, SetLemmas, SequenceTheorems, TLAPS

-----------------------------------------------------------------------------
(***************************************************************************)
(* The bus: streams of bytes.                                              *)
(***************************************************************************)

\* The bytes of the stream come in the order in which they were sent, and belong to frames F.
Before(a, b) == a.id < b.id \/ (a.id = b.id /\ a.at < b.at)

BytesOf(F) == [id : DOMAIN F, at : Nat]

StreamOK(F, s) ==
    /\ s \in Seq(BytesOf(F))
    /\ \A i \in DOMAIN s : s[i].at < FullLength(F[s[i].id])
    /\ \A i, j \in DOMAIN s : i < j => Before(s[i], s[j])

FrameOK(f) == f \in Frames /\ (f.kind # "exception" => f.block \in Blocks)

FramesOK(F) == /\ F \in Seq(Frames) /\ Len(F) <= MaxFrames
               /\ \A id \in DOMAIN F : FrameOK(F[id])

-----------------------------------------------------------------------------
(***************************************************************************)
(* Single frames.                                                          *)
(***************************************************************************)

LongestFrame == Max({8, FalseLength} \cup {5 + 2 * Count[b] : b \in Blocks})

\* The longest frame is at least as long as each.
LEMMA LongestIs ==
    /\ LongestFrame \in Nat /\ LongestFrame >= 8 /\ LongestFrame >= FalseLength
    /\ \A b \in Blocks : 5 + 2 * Count[b] <= LongestFrame
<1> DEFINE S == {8, FalseLength} \cup {5 + 2 * Count[b] : b \in Blocks}
<1>1. \A b \in Blocks : Count[b] \in 1..125
  BY PassiveAssumption
<1>2. FalseLength \in 7..255
  BY PassiveAssumption
<1>3. S \in SUBSET (0..255) /\ S # {}
  BY <1>1, <1>2
<1>4. Max(S) \in S /\ \A y \in S : y <= Max(S)
  <2> HIDE DEF S
  <2> QED BY <1>3, MaxExists, SMTT(30)
<1>5. 8 \in S /\ FalseLength \in S /\ \A b \in Blocks : 5 + 2 * Count[b] \in S
  OBVIOUS
<1>6. LongestFrame = Max(S)
  BY DEF LongestFrame
<1> HIDE DEF S
<1>7. LongestFrame \in S /\ S \subseteq 0..255 /\ \A y \in S : y <= LongestFrame
  BY <1>3, <1>4, <1>6
<1>8. 8 <= LongestFrame /\ FalseLength <= LongestFrame
  BY <1>5, <1>7
<1>9. \A b \in Blocks : 5 + 2 * Count[b] <= LongestFrame
  BY <1>5, <1>7
<1> QED BY <1>7, <1>8, <1>9

\* So the length of a frame is bounded by it.
LEMMA LengthRange ==
    ASSUME NEW f, FrameOK(f)
    PROVE  FullLength(f) \in 5..LongestFrame
<1>1. f.kind \in {"request", "response", "exception"}
  BY DEF FrameOK, Frames
<1>2. f.kind = "response" => f.block \in Blocks /\ Count[f.block] \in 1..125
  BY PassiveAssumption DEF FrameOK
<1>3. LongestFrame \in Nat /\ LongestFrame >= 8
  BY LongestIs
<1>4. CASE f.kind = "request"
  BY <1>3, <1>4 DEF FullLength
<1>5. CASE f.kind = "response"
  BY <1>2, <1>3, <1>5, LongestIs DEF FullLength
<1>6. CASE f.kind = "exception"
  BY <1>3, <1>6 DEF FullLength
<1> QED BY <1>1, <1>4, <1>5, <1>6

\* No header, true or false, claims more bytes than the longest frame.
LEMMA ClaimsRange ==
    ASSUME FramesOK(frames), NEW b \in BytesOf(frames)
    PROVE  \A c \in Claims(b) : c.length \in 5..LongestFrame /\ c.needs \in 2..6
<1> DEFINE f == frames[b.id]
<1>1. FrameOK(f) /\ f.kind \in {"request", "response", "exception"}
  BY DEF FramesOK, BytesOf, FrameOK, Frames
<1>2. FullLength(f) \in 5..LongestFrame
  BY <1>1, LengthRange
<1>3. 8 \in 5..LongestFrame /\ FalseLength \in 5..LongestFrame
  BY LongestIs, PassiveAssumption
<1> QED BY <1>1, <1>2, <1>3 DEF Claims

\* The first byte of an undamaged frame claims the frame's own length, which shows from the
\* bytes that tell its kind.
LEMMA TrueClaim ==
    ASSUME FramesOK(frames), NEW b \in BytesOf(frames), b.at = 0, frames[b.id].damage = "intact"
    PROVE  LET f == frames[b.id]
               needs == CASE f.kind = "request"   -> 6
                          [] f.kind = "response"  -> 3
                          [] f.kind = "exception" -> 2
           IN  /\ [needs |-> needs, length |-> FullLength(f)] \in Claims(b)
               /\ f.kind # "response" =>
                      Claims(b) = {[needs |-> needs, length |-> FullLength(f)]}
               /\ f.kind = "response" => \A c \in Claims(b) : c.needs >= 3
               /\ needs \in {2, 3, 6}
               /\ needs = 6 => f.kind = "request"
               /\ needs = 3 => f.kind = "response"
<1> DEFINE f == frames[b.id]
<1>1. f.kind \in {"request", "response", "exception"}
  BY DEF FramesOK, BytesOf, FrameOK, Frames
<1>2. CASE f.kind = "request"
  BY <1>2 DEF Claims
<1>3. CASE f.kind = "exception"
  BY <1>3 DEF Claims
<1>4. CASE f.kind = "response"
  BY <1>4 DEF Claims
<1> QED BY <1>1, <1>2, <1>3, <1>4

-----------------------------------------------------------------------------
(***************************************************************************)
(* The decoder.  Feed is a recursion from the end of the bytes: it is well *)
(* defined, and what holds of the rest holds of the whole.                 *)
(***************************************************************************)

\* What is left of s when k bytes have been used.
RestOf(s, k) == SubSeq(s, k + 1, Len(s))

\* Where the decoder goes on after position k.
NextAt(s, k) ==
    IF Valid(RestOf(s, k)) # {} THEN k + Max(Valid(RestOf(s, k))) ELSE k + 1

GoesOn(s, k, then) ==
    IF Valid(RestOf(s, k)) # {}
    THEN [then EXCEPT !.frames = <<RestOf(s, k)[1].id>> \o @]
    ELSE [then EXCEPT !.suspect = @ \/ Candidates(RestOf(s, k)) # {}]

Scanned(s, k, f) ==
    IF Waits(RestOf(s, k))
    THEN [buffer |-> RestOf(s, k), frames |-> <<>>, suspect |-> FALSE]
    ELSE GoesOn(s, k, f[NextAt(s, k)])

\* What is left of a buffer from a position on.
LEMMA RestBytes ==
    ASSUME NEW B, NEW s \in Seq(B), NEW k \in 0..Len(s)
    PROVE  /\ RestOf(s, k) \in Seq(B) /\ Len(RestOf(s, k)) = Len(s) - k
           /\ \A i \in 1..Len(s) - k : RestOf(s, k)[i] = s[k + i]
<1> QED BY SubSeqProperties DEF RestOf

\* Nothing is valid that is not there.
LEMMA ValidRange ==
    ASSUME FramesOK(frames), NEW s \in Seq(BytesOf(frames)), Len(s) >= 1
    PROVE  \A n \in Valid(s) : n \in 5..Len(s)
<1>1. s[1] \in BytesOf(frames)
  OBVIOUS
<1>2. \A c \in Claims(s[1]) : c.length \in 5..LongestFrame
  BY <1>1, ClaimsRange
<1>3. LongestFrame \in Nat
  BY LongestIs
<1> QED BY <1>2, <1>3 DEF Valid, Candidates

\* Unless the decoder waits it moves on, and not past the end.
LEMMA NextRange ==
    ASSUME FramesOK(frames), NEW s \in Seq(BytesOf(frames)), NEW k \in 0..Len(s),
           ~Waits(RestOf(s, k))
    PROVE  NextAt(s, k) \in k + 1 .. Len(s)
<1> DEFINE r == RestOf(s, k)
<1>1. r \in Seq(BytesOf(frames)) /\ Len(r) = Len(s) - k
  BY RestBytes
<1>2. Len(r) >= 2
  BY <1>1 DEF Waits
<1>3. CASE Valid(r) = {}
  BY <1>1, <1>2, <1>3 DEF NextAt
<1>4. CASE Valid(r) # {}
  <2>1. \A n \in Valid(r) : n \in 5..Len(r)
    BY <1>1, <1>2, ValidRange
  <2>2. Valid(r) \in SUBSET (0..Len(r))
    BY <2>1
  <2>3. Max(Valid(r)) \in Valid(r)
    <3>1. Len(r) \in Nat
      BY <1>1
    <3> HIDE DEF r
    <3> QED BY <1>4, <2>2, <3>1, MaxExists
  <2>4. Max(Valid(r)) \in 5..Len(r)
    BY <2>1, <2>3
  <2>5. NextAt(s, k) = k + Max(Valid(r))
    BY <1>4 DEF NextAt
  <2> HIDE DEF r
  <2> QED BY <1>1, <2>4, <2>5
<1> QED BY <1>3, <1>4

\* The recursion has a solution.
LEMMA ScanExists ==
    ASSUME FramesOK(frames), NEW s \in Seq(BytesOf(frames))
    PROVE  \E f : f = [k \in 0..Len(s) |-> Scanned(s, k, f)]
<1> DEFINE N == Len(s)
           Upto(m, f) == f = [k \in N - m .. N |-> Scanned(s, k, f)]
           Bad == {m \in 0..N : ~\E f : Upto(m, f)}
<1>0. N \in Nat
  OBVIOUS
<1>1. Bad = {}
  <2> SUFFICES ASSUME Bad # {} PROVE FALSE
    OBVIOUS
  <2>0. Bad \in SUBSET Nat
    OBVIOUS
  <2>1. PICK m \in Bad : \A j \in Bad : m <= j
    <3> HIDE DEF Bad
    <3> QED BY <2>0, MinExists
  <2>2. m \in 0..N
    BY <2>1
  <2> DEFINE Before_(f) == f = [k \in N - m + 1 .. N |-> Scanned(s, k, f)]
  <2>3. \E f : Before_(f)
    <3>1. CASE m = 0
      <4>1. N - m + 1 .. N = {}
        BY <3>1
      <4> DEFINE e == [k \in {} |-> FALSE]
      <4>2. Before_(e)
        BY <4>1
      <4> QED BY <4>2
    <3>2. CASE m # 0
      <4>1. m - 1 \in 0..N /\ m - 1 \notin Bad
        <5> HIDE DEF Bad
        <5> QED BY <2>1, <2>2, <3>2
      <4>2. PICK f : Upto(m - 1, f)
        BY <4>1
      <4>3. N - (m - 1) = N - m + 1
        BY <2>2
      <4> QED BY <4>2, <4>3
    <3> QED BY <3>1, <3>2
  <2>4. PICK f : Before_(f)
    BY <2>3
  <2> DEFINE g == [k \in N - m .. N |-> Scanned(s, k, f)]
  <2>5. \A k \in N - m + 1 .. N : g[k] = f[k]
    <3> SUFFICES ASSUME NEW k \in N - m + 1 .. N PROVE g[k] = f[k]
      OBVIOUS
    <3>1. k \in N - m .. N
      BY <1>0, <2>2
    <3>2. f[k] = Scanned(s, k, f)
      BY <2>4
    <3> HIDE DEF N
    <3> QED BY <3>1, <3>2
  <2>6. \A k \in N - m .. N : Scanned(s, k, g) = Scanned(s, k, f)
    <3> SUFFICES ASSUME NEW k \in N - m .. N, ~Waits(RestOf(s, k))
                 PROVE  g[NextAt(s, k)] = f[NextAt(s, k)]
      BY ZenonT(30) DEF Scanned
    <3>1. k \in 0..Len(s)
      BY <2>2
    <3>2. NextAt(s, k) \in k + 1 .. N
      BY <3>1, NextRange
    <3>3. NextAt(s, k) \in N - m + 1 .. N
      BY <2>2, <3>1, <3>2
    <3> QED BY <2>5, <3>3
  <2>7. Upto(m, g)
    <3> HIDE DEF N
    <3> QED BY <2>6
  <2> QED BY <2>1, <2>7
<1>2. PICK f : Upto(N, f)
  BY <1>0, <1>1
<1> QED BY <1>2

\* feed() is the scan of the whole buffer from its start.
LEMMA FeedIsScan ==
    ASSUME FramesOK(frames), NEW s \in Seq(BytesOf(frames))
    PROVE  \E f : f = [k \in 0..Len(s) |-> Scanned(s, k, f)] /\ Feed(s) = f[0]
<1> DEFINE h == CHOOSE f : f = [k \in 0..Len(s) |-> Scanned(s, k, f)]
<1>1. Feed(s) = h[0]
  BY ZenonT(30) DEF Feed, Scanned, GoesOn, NextAt, RestOf
<1>2. h = [k \in 0..Len(s) |-> Scanned(s, k, h)]
  BY ScanExists
<1> HIDE DEF h
<1> QED BY <1>1, <1>2

\* The first part of the bytes tells whether a frame is whole in it.
LEMMA WholeInPart ==
    ASSUME FramesOK(frames), NEW s \in Seq(BytesOf(frames)), NEW t \in Seq(BytesOf(frames)),
           NEW i \in 1..Len(s)
    PROVE  /\ (s \o t)[i] = s[i]
           /\ WholeAt(s, i) <=> /\ WholeAt(s \o t, i)
                                /\ i + FullLength(frames[s[i].id]) - 1 <= Len(s)
<1> DEFINE u == s \o t
           n == FullLength(frames[s[i].id])
<1>1. u \in Seq(BytesOf(frames)) /\ Len(u) = Len(s) + Len(t)
      /\ \A j \in 1..Len(s) : u[j] = s[j]
  BY ConcatProperties
<1>2. s[i] \in BytesOf(frames) /\ FrameOK(frames[s[i].id])
  <2>1. s[i] \in BytesOf(frames)
    OBVIOUS
  <2> QED BY <2>1 DEF BytesOf, FramesOK
<1>3. n \in Nat
  BY <1>2, LengthRange, LongestIs
<1>4. Len(s) \in Nat /\ Len(t) \in Nat
  OBVIOUS
<1>5. i + n - 1 <= Len(s) => \A k \in 1..n : u[i + k - 1] = s[i + k - 1]
  <2> SUFFICES ASSUME i + n - 1 <= Len(s), NEW k \in 1..n PROVE u[i + k - 1] = s[i + k - 1]
    OBVIOUS
  <2>1. i + k - 1 \in 1..Len(s)
    BY <1>3, <1>4
  <2> HIDE DEF u, n
  <2> QED BY <1>1, <2>1
<1>6. u[i] = s[i]
  BY <1>1
<1>7. Len(s) <= Len(u)
  BY <1>1, <1>4
<1> HIDE DEF u
<1>8. i + n - 1 <= Len(s) => (ValidCrc(s, i, n) <=> ValidCrc(u, i, n))
  <2> HIDE DEF n
  <2> QED BY <1>5, <1>6 DEF ValidCrc
<1>9. i + n - 1 <= Len(s) => i + n - 1 <= Len(u)
  <2> HIDE DEF n
  <2> QED BY <1>1, <1>3, <1>4, <1>7
<1>10. n = FullLength(frames[u[i].id])
  BY <1>6
<1>11. WholeAt(s, i) <=> s[i].at = 0 /\ i + n - 1 <= Len(s) /\ ValidCrc(s, i, n)
  BY DEF WholeAt
<1>12. WholeAt(u, i) <=> s[i].at = 0 /\ i + n - 1 <= Len(u) /\ ValidCrc(u, i, n)
  BY <1>6 DEF WholeAt
<1>13. WholeAt(s, i) <=> WholeAt(u, i) /\ i + n - 1 <= Len(s)
  <2> HIDE DEF n
  <2> QED BY <1>8, <1>9, <1>11, <1>12
<1> QED BY <1>6, <1>13 DEF u

\* What the decoder takes is whole, and no frame begins inside it.
LEMMA TakesFrame ==
    ASSUME FramesOK(frames), NEW s \in Seq(BytesOf(frames)), NEW k \in 0 .. Len(s) - 1,
           NEW n \in Valid(RestOf(s, k))
    PROVE  /\ n = FullLength(frames[s[k + 1].id])
           /\ n \in 5 .. Len(s) - k
           /\ WholeAt(s, k + 1)
           /\ \A i \in k + 2 .. k + n : s[i].at # 0
<1> DEFINE r == RestOf(s, k)
<1>0. Len(s) \in Nat /\ k \in 0..Len(s)
  OBVIOUS
<1>1. r \in Seq(BytesOf(frames)) /\ Len(r) = Len(s) - k
      /\ \A i \in 1 .. Len(s) - k : r[i] = s[k + i]
  BY <1>0, RestBytes
<1>2. Len(r) >= 1 /\ r[1] = s[k + 1]
  BY <1>0, <1>1
<1>3. n \in 5..Len(r)
  BY <1>1, <1>2, ValidRange
<1>4. ValidCrc(r, 1, n)
  BY DEF Valid
<1>5. n \in 5 .. Len(s) - k
  <2> HIDE DEF r
  <2> QED BY <1>1, <1>3
<1>6. n = FullLength(frames[s[k + 1].id]) /\ s[k + 1].at = 0
      /\ frames[s[k + 1].id].damage = "intact"
  BY <1>2, <1>4 DEF ValidCrc
<1>7. \A j \in 1..n : s[k + j] = [id |-> s[k + 1].id, at |-> j - 1]
  <2> SUFFICES ASSUME NEW j \in 1..n PROVE s[k + j] = [id |-> s[k + 1].id, at |-> j - 1]
    OBVIOUS
  <2>1. j \in 1 .. Len(s) - k
    BY <1>0, <1>5
  <2>2. r[1 + j - 1] = [id |-> r[1].id, at |-> j - 1]
    BY <1>4 DEF ValidCrc
  <2>3. 1 + j - 1 = j
    OBVIOUS
  <2> HIDE DEF r
  <2> QED BY <1>1, <1>2, <2>1, <2>2, <2>3
<1>8. WholeAt(s, k + 1)
  <2>1. k + 1 + n - 1 <= Len(s)
    BY <1>0, <1>5
  <2>2. \A j \in 1..n : s[(k + 1) + j - 1] = [id |-> s[k + 1].id, at |-> j - 1]
    <3> SUFFICES ASSUME NEW j \in 1..n
                 PROVE  s[(k + 1) + j - 1] = [id |-> s[k + 1].id, at |-> j - 1]
      OBVIOUS
    <3>1. (k + 1) + j - 1 = k + j
      BY <1>0, <1>5
    <3> QED BY <1>7, <3>1
  <2> QED BY <1>6, <2>1, <2>2 DEF WholeAt, ValidCrc
<1>9. \A i \in k + 2 .. k + n : s[i].at # 0
  <2> SUFFICES ASSUME NEW i \in k + 2 .. k + n PROVE s[i].at # 0
    OBVIOUS
  <2>1. i - k \in 1..n /\ k + (i - k) = i
    BY <1>0, <1>5
  <2>2. s[i] = [id |-> s[k + 1].id, at |-> (i - k) - 1]
    BY <1>7, <2>1
  <2> QED BY <1>0, <2>2
<1> QED BY <1>5, <1>6, <1>8, <1>9

\* A byte is dropped only when no whole frame begins with it, nor will when more bytes come.
LEMMA DropsNothing ==
    ASSUME FramesOK(frames), NEW s \in Seq(BytesOf(frames)), NEW t \in Seq(BytesOf(frames)),
           NEW k \in 0 .. Len(s) - 1, ~Waits(RestOf(s, k)), Valid(RestOf(s, k)) = {}
    PROVE  ~WholeAt(s \o t, k + 1)
<1> DEFINE r == RestOf(s, k)
           f == frames[s[k + 1].id]
           n == FullLength(f)
           needs == CASE f.kind = "request"   -> 6
                      [] f.kind = "response"  -> 3
                      [] f.kind = "exception" -> 2
<1> SUFFICES ASSUME WholeAt(s \o t, k + 1) PROVE FALSE
  OBVIOUS
<1>0. Len(s) \in Nat /\ k \in 0..Len(s) /\ k + 1 \in 1..Len(s)
  OBVIOUS
<1>1. r \in Seq(BytesOf(frames)) /\ Len(r) = Len(s) - k
      /\ \A i \in 1 .. Len(s) - k : r[i] = s[k + i]
  BY <1>0, RestBytes
<1>2. Len(r) >= 2 /\ r[1] = s[k + 1] /\ r[1] \in BytesOf(frames) /\ Len(r) \in Nat
  <2>1. Len(r) >= 2
    BY DEF Waits
  <2>2. 1 \in 1 .. Len(s) - k
    BY <1>0
  <2>3. r[1] = s[k + 1]
    <3> HIDE DEF r
    <3> QED BY <1>1, <2>2
  <2> HIDE DEF r
  <2> QED BY <1>1, <2>1, <2>3
<1>3. (s \o t)[k + 1] = s[k + 1]
  BY <1>0, WholeInPart
<1>4. s[k + 1].at = 0 /\ f.damage = "intact"
  BY <1>3 DEF WholeAt, ValidCrc
<1>5. /\ [needs |-> needs, length |-> n] \in Claims(r[1])
      /\ f.kind # "response" => Claims(r[1]) = {[needs |-> needs, length |-> n]}
      /\ f.kind = "response" => \A c \in Claims(r[1]) : c.needs >= 3
      /\ needs \in {2, 3, 6}
      /\ needs = 6 => f.kind = "request"
      /\ needs = 3 => f.kind = "response"
  BY <1>2, <1>4, TrueClaim
<1>6. n \in Nat
  <2>1. FrameOK(f)
    BY <1>2 DEF FramesOK, BytesOf
  <2> QED BY <2>1, LengthRange, LongestIs
<1>7. LooksLikeHeader(r[1])
  BY <1>5 DEF LooksLikeHeader
<1>8. ~(Candidates(r) = {} /\ Len(r) < 6) /\ \A c \in Candidates(r) : ~(c > Len(r))
  BY <1>7 DEF Waits
<1> HIDE DEF r, needs
<1>9. needs <= Len(r)
  <2> SUFFICES ASSUME ~(needs <= Len(r)) PROVE FALSE
    OBVIOUS
  <2>1. needs = 6 \/ (needs = 3 /\ Len(r) = 2)
    <3>1. needs = 2 \/ needs = 3 \/ needs = 6
      BY <1>5
    <3>2. Len(r) \in Nat /\ Len(r) >= 2
      BY <1>2
    <3>3. CASE needs = 2
      BY <3>2, <3>3
    <3>4. CASE needs = 3
      <4>1. ~(3 <= Len(r))
        BY <3>4
      <4>2. Len(r) = 2
        <5>1. \A m \in Nat : m >= 2 /\ ~(3 <= m) => m = 2
          OBVIOUS
        <5> QED BY <3>2, <4>1, <5>1, Zenon
      <4> QED BY <3>4, <4>2
    <3> QED BY <3>1, <3>3, <3>4
  <2>2. \A c \in Claims(r[1]) : ~(c.needs <= Len(r))
    <3>1. CASE needs = 6
      <4>1. Claims(r[1]) = {[needs |-> needs, length |-> n]}
        BY <1>5, <3>1
      <4> QED BY <4>1
    <3>2. CASE needs = 3 /\ Len(r) = 2
      <4>1. \A c \in Claims(r[1]) : c.needs >= 3 /\ c.needs \in 2..6
        BY <1>2, <1>5, <3>2, ClaimsRange
      <4> QED BY <3>2, <4>1
    <3> QED BY <2>1, <3>1, <3>2
  <2>3. Candidates(r) = {}
    BY <2>2 DEF Candidates
  <2>4. Len(r) < 6
    BY <1>2, <2>1
  <2> QED BY <1>8, <2>3, <2>4
<1>10. n \in Candidates(r)
  BY <1>5, <1>9 DEF Candidates
<1>11. n <= Len(r)
  BY <1>2, <1>6, <1>8, <1>10
<1>12. (k + 1) + n - 1 <= Len(s)
  <2> DEFINE a == Len(s)
             b == Len(r)
  <2>1. a \in Nat /\ k \in 0..a
    BY <1>0
  <2>2. b = a - k
    BY <1>1
  <2>3. n \in Nat /\ n <= b
    BY <1>6, <1>11
  <2> HIDE DEF a, b, n
  <2>4. (k + 1) + n - 1 <= a
    BY <2>1, <2>2, <2>3
  <2> QED BY <2>4 DEF a
<1>13. WholeAt(s, k + 1)
  BY <1>0, <1>12, WholeInPart
<1>14. \A j \in 1..n : s[(k + 1) + j - 1] = [id |-> s[k + 1].id, at |-> j - 1]
  BY <1>13 DEF WholeAt, ValidCrc
<1>15. \A j \in 1..n : r[1 + j - 1] = [id |-> r[1].id, at |-> j - 1]
  <2> SUFFICES ASSUME NEW j \in 1..n PROVE r[1 + j - 1] = [id |-> r[1].id, at |-> j - 1]
    OBVIOUS
  <2>1. 1 + j - 1 = j /\ j \in 1 .. Len(s) - k /\ (k + 1) + j - 1 = k + j
    <3> DEFINE a == Len(s)
               b == Len(r)
    <3>1. a \in Nat /\ k \in 0..a
      BY <1>0
    <3>2. b = a - k
      BY <1>1
    <3>3. n \in Nat /\ n <= b
      BY <1>6, <1>11
    <3> HIDE DEF a, b, n
    <3>4. 1 + j - 1 = j /\ j \in 1 .. a - k /\ (k + 1) + j - 1 = k + j
      BY <3>1, <3>2, <3>3
    <3> QED BY <3>4 DEF a
  <2> QED BY <1>1, <1>2, <1>14, <2>1
<1>16. ValidCrc(r, 1, n)
  BY <1>2, <1>4, <1>15 DEF ValidCrc
<1>17. n \in Valid(r)
  BY <1>10, <1>11, <1>16 DEF Valid
<1> QED BY <1>17 DEF r

\* What the decoder has made of s from position k on, when t is still to come: it stopped at
\* j, and r.frames are the frames that are whole between k and j, in order.
RecoveredTo(s, t, k, j, r) ==
    /\ r \in [buffer : {RestOf(s, j)}, frames : Seq(DOMAIN frames), suspect : BOOLEAN]
    /\ Waits(RestOf(s, j))
    /\ \A a, b \in DOMAIN r.frames : a < b => r.frames[a] < r.frames[b]
    /\ \A a \in DOMAIN r.frames : \E i \in k + 1 .. j :
           /\ WholeAt(s, i) /\ s[i].id = r.frames[a]
           /\ i + FullLength(frames[s[i].id]) - 1 <= j
    /\ \A i \in k + 1 .. j :
           WholeAt(s \o t, i) => \E a \in DOMAIN r.frames : r.frames[a] = s[i].id

Recovered(s, t, k, r) == \E j \in k..Len(s) : RecoveredTo(s, t, k, j, r)

\* Two parts of a stream are streams, one before the other.
LEMMA StreamPart ==
    ASSUME NEW F, NEW s \in Seq(BytesOf(F)), NEW t \in Seq(BytesOf(F)), StreamOK(F, s \o t)
    PROVE  /\ StreamOK(F, s) /\ StreamOK(F, t)
           /\ \A i \in DOMAIN s, j \in DOMAIN t : Before(s[i], t[j])
<1>1. /\ Len(s \o t) = Len(s) + Len(t)
      /\ \A i \in DOMAIN s : i \in DOMAIN (s \o t) /\ (s \o t)[i] = s[i]
      /\ \A i \in DOMAIN t : i + Len(s) \in DOMAIN (s \o t) /\ (s \o t)[i + Len(s)] = t[i]
  BY ConcatProperties
<1>2. \A i, j \in DOMAIN t : i < j => i + Len(s) < j + Len(s)
  OBVIOUS
<1>3. \A i \in DOMAIN s, j \in DOMAIN t : i < j + Len(s)
  OBVIOUS
<1> QED BY <1>1, <1>2, <1>3 DEF StreamOK

\* A whole frame is taken, and what follows is later.
LEMMA TakeRecovers ==
    ASSUME FramesOK(frames), NEW s \in Seq(BytesOf(frames)), NEW t \in Seq(BytesOf(frames)),
           StreamOK(frames, s), NEW k \in 0 .. Len(s) - 1,
           NEW n \in Valid(RestOf(s, k)), NEW r, Recovered(s, t, k + n, r)
    PROVE  Recovered(s, t, k, [r EXCEPT !.frames = <<s[k + 1].id>> \o @])
<1> DEFINE id == s[k + 1].id
           q == [r EXCEPT !.frames = <<id>> \o @]
           w == <<id>> \o r.frames
<1>0. Len(s) \in Nat /\ k \in Nat /\ k + 1 \in 1..Len(s)
  OBVIOUS
<1>1. /\ n = FullLength(frames[id]) /\ n \in 5 .. Len(s) - k
      /\ WholeAt(s, k + 1)
      /\ \A i \in k + 2 .. k + n : s[i].at # 0
  BY TakesFrame
<1>2. PICK j \in k + n .. Len(s) : RecoveredTo(s, t, k + n, j, r)
  BY DEF Recovered
<1>3. id \in DOMAIN frames
  <2>1. s[k + 1] \in BytesOf(frames)
    BY <1>0
  <2> QED BY <2>1 DEF BytesOf
<1>4. r \in [buffer : {RestOf(s, j)}, frames : Seq(DOMAIN frames), suspect : BOOLEAN]
  BY <1>2 DEF RecoveredTo
<1>5. /\ w \in Seq(DOMAIN frames) /\ Len(w) = 1 + Len(r.frames) /\ w[1] = id
      /\ \A a \in 2 .. Len(w) : a - 1 \in DOMAIN r.frames /\ w[a] = r.frames[a - 1]
      /\ DOMAIN w = 1..Len(w) /\ Len(w) \in Nat /\ 1 \in DOMAIN w /\ DOMAIN r.frames = 1 .. Len(w) - 1
  BY <1>3, <1>4
<1>6. q \in [buffer : {RestOf(s, j)}, frames : {w}, suspect : BOOLEAN] /\ q.frames = w
  BY <1>4
<1> HIDE DEF q, w
<1>7. \A a \in DOMAIN r.frames : id < r.frames[a]
  <2> SUFFICES ASSUME NEW a \in DOMAIN r.frames PROVE id < r.frames[a]
    OBVIOUS
  <2>1. PICK i \in k + n + 1 .. j : WholeAt(s, i) /\ s[i].id = r.frames[a]
    BY <1>2 DEF RecoveredTo
  <2>2. i \in DOMAIN s /\ k + 1 \in DOMAIN s /\ k + 1 < i
    BY <1>0, <1>1, <1>2
  <2>3. Before(s[k + 1], s[i])
    BY <2>2 DEF StreamOK
  <2>4. s[i].at = 0 /\ s[k + 1].at = 0
    BY <1>1, <2>1 DEF WholeAt
  <2> QED BY <2>1, <2>3, <2>4 DEF Before
<1>8. \A a, b \in DOMAIN w : a < b => w[a] < w[b]
  <2> SUFFICES ASSUME NEW a \in DOMAIN w, NEW b \in DOMAIN w, a < b PROVE w[a] < w[b]
    OBVIOUS
  <2>1. a \in 1..Len(w) /\ b \in 2..Len(w)
    BY <1>5
  <2>2. b - 1 \in DOMAIN r.frames /\ w[b] = r.frames[b - 1]
    BY <1>5, <2>1
  <2>3. CASE a = 1
    BY <1>5, <1>7, <2>2, <2>3
  <2>4. CASE a # 1
    <3>0. a \in 2..Len(w) /\ a - 1 < b - 1
      BY <1>5, <2>1, <2>4
    <3>1. a - 1 \in DOMAIN r.frames /\ w[a] = r.frames[a - 1] /\ a - 1 < b - 1
      BY <1>5, <3>0
    <3> QED BY <1>2, <2>2, <3>1 DEF RecoveredTo
  <2> QED BY <2>3, <2>4
<1>9. \A a \in DOMAIN w : \E i \in k + 1 .. j :
         /\ WholeAt(s, i) /\ s[i].id = w[a]
         /\ i + FullLength(frames[s[i].id]) - 1 <= j
  <2> SUFFICES ASSUME NEW a \in DOMAIN w
               PROVE  \E i \in k + 1 .. j : /\ WholeAt(s, i) /\ s[i].id = w[a]
                                            /\ i + FullLength(frames[s[i].id]) - 1 <= j
    OBVIOUS
  <2>1. CASE a = 1
    <3>1. k + 1 \in k + 1 .. j /\ (k + 1) + n - 1 <= j
      BY <1>0, <1>1, <1>2
    <3> QED BY <1>1, <1>5, <2>1, <3>1
  <2>2. CASE a # 1
    <3>0. a \in 2..Len(w)
      BY <1>5, <2>2
    <3>1. a - 1 \in DOMAIN r.frames /\ w[a] = r.frames[a - 1]
      BY <1>5, <3>0
    <3>2. PICK i \in k + n + 1 .. j : /\ WholeAt(s, i) /\ s[i].id = r.frames[a - 1]
                                      /\ i + FullLength(frames[s[i].id]) - 1 <= j
      BY <1>2, <3>1 DEF RecoveredTo
    <3>3. i \in k + 1 .. j
      BY <1>0, <1>1, <1>2
    <3> QED BY <3>1, <3>2, <3>3
  <2> QED BY <2>1, <2>2
<1>10. \A i \in k + 1 .. j : WholeAt(s \o t, i) => \E a \in DOMAIN w : w[a] = s[i].id
  <2> SUFFICES ASSUME NEW i \in k + 1 .. j, WholeAt(s \o t, i)
               PROVE  \E a \in DOMAIN w : w[a] = s[i].id
    OBVIOUS
  <2>1. CASE i = k + 1
    BY <1>5, <2>1
  <2>2. CASE i \in k + 2 .. k + n
    <3>1. i \in 1..Len(s)
      BY <1>0, <1>1, <2>2
    <3>2. (s \o t)[i] = s[i]
      BY <3>1, WholeInPart
    <3>3. (s \o t)[i].at = 0
      BY DEF WholeAt
    <3> QED BY <1>1, <2>2, <3>2, <3>3
  <2>3. CASE i \in k + n + 1 .. j
    <3>1. PICK a \in DOMAIN r.frames : r.frames[a] = s[i].id
      BY <1>2, <2>3 DEF RecoveredTo
    <3>2. a \in 1 .. Len(w) - 1
      BY <1>5
    <3>3. a + 1 \in 2..Len(w) /\ (a + 1) - 1 = a /\ a + 1 \in DOMAIN w
      BY <1>5, <3>2, SMTT(30)
    <3>4. w[a + 1] = r.frames[a]
      BY <1>5, <3>3
    <3> QED BY <3>1, <3>3, <3>4
  <2>4. i = k + 1 \/ i \in k + 2 .. k + n \/ i \in k + n + 1 .. j
    BY <1>0, <1>1, <1>2
  <2> QED BY <2>1, <2>2, <2>3, <2>4
<1>11. RecoveredTo(s, t, k, j, q)
  BY <1>2, <1>5, <1>6, <1>8, <1>9, <1>10 DEF RecoveredTo
<1>12. j \in k..Len(s)
  BY <1>0, <1>1, <1>2
<1> QED BY <1>11, <1>12 DEF Recovered, q

\* A byte that no frame begins with is dropped.
LEMMA DropRecovers ==
    ASSUME FramesOK(frames), NEW s \in Seq(BytesOf(frames)), NEW t \in Seq(BytesOf(frames)),
           NEW k \in 0 .. Len(s) - 1, ~Waits(RestOf(s, k)), Valid(RestOf(s, k)) = {},
           NEW r, NEW suspect \in BOOLEAN, Recovered(s, t, k + 1, r)
    PROVE  Recovered(s, t, k, [r EXCEPT !.suspect = suspect])
<1> DEFINE q == [r EXCEPT !.suspect = suspect]
<1>0. Len(s) \in Nat /\ k \in Nat
  OBVIOUS
<1>1. ~WholeAt(s \o t, k + 1)
  BY DropsNothing
<1>2. PICK j \in k + 1 .. Len(s) : RecoveredTo(s, t, k + 1, j, r)
  BY DEF Recovered
<1>3. /\ q \in [buffer : {RestOf(s, j)}, frames : Seq(DOMAIN frames), suspect : BOOLEAN]
      /\ q.frames = r.frames
  BY <1>2 DEF RecoveredTo
<1> HIDE DEF q
<1>4. \A i \in (k + 1) + 1 .. j : i \in k + 1 .. j
  BY <1>0, <1>2
<1>5. \A i \in k + 1 .. j : i = k + 1 \/ i \in (k + 1) + 1 .. j
  BY <1>0, <1>2
<1>6. RecoveredTo(s, t, k, j, q)
  BY <1>1, <1>2, <1>3, <1>4, <1>5 DEF RecoveredTo
<1>7. j \in k..Len(s)
  BY <1>0, <1>2
<1> QED BY <1>6, <1>7 DEF Recovered, q

\* Where the decoder waits it has kept everything.
LEMMA WaitRecovers ==
    ASSUME NEW s, NEW t, Len(s) \in Nat, NEW k \in 0..Len(s), Waits(RestOf(s, k))
    PROVE  Recovered(s, t, k, [buffer |-> RestOf(s, k), frames |-> <<>>, suspect |-> FALSE])
<1>1. k \in k..Len(s) /\ k + 1 .. k = {}
  OBVIOUS
<1>2. RecoveredTo(s, t, k, k, [buffer |-> RestOf(s, k), frames |-> <<>>, suspect |-> FALSE])
  BY <1>1 DEF RecoveredTo
<1> QED BY <1>1, <1>2 DEF Recovered

\* Feed recovers every frame that is whole in s up to where it waits.
LEMMA FeedRecovers ==
    ASSUME FramesOK(frames), NEW s \in Seq(BytesOf(frames)), NEW t \in Seq(BytesOf(frames)),
           StreamOK(frames, s)
    PROVE  Recovered(s, t, 0, Feed(s))
<1> DEFINE N == Len(s)
<1>0. N \in Nat
  OBVIOUS
<1>1. PICK f : f = [k \in 0..N |-> Scanned(s, k, f)] /\ Feed(s) = f[0]
  BY FeedIsScan
<1> DEFINE Bad == {m \in 0..N : ~Recovered(s, t, N - m, f[N - m])}
<1>2. Bad = {}
  <2> SUFFICES ASSUME Bad # {} PROVE FALSE
    OBVIOUS
  <2>0. Bad \in SUBSET Nat
    OBVIOUS
  <2>1. PICK m \in Bad : \A j \in Bad : m <= j
    <3> HIDE DEF Bad
    <3> QED BY <2>0, MinExists
  <2>2. m \in 0..N /\ ~Recovered(s, t, N - m, f[N - m])
    BY <2>1
  <2> DEFINE k == N - m
             r == RestOf(s, k)
             l == NextAt(s, k)
  <2>3. k \in 0..N
    BY <1>0, <2>2
  <2>4. f[k] = Scanned(s, k, f)
    BY <1>1, <2>3
  <2>5. ~Waits(r)
    <3> SUFFICES ASSUME Waits(r) PROVE FALSE
      OBVIOUS
    <3>1. f[k] = [buffer |-> r, frames |-> <<>>, suspect |-> FALSE]
      BY <2>4 DEF Scanned
    <3>2. Recovered(s, t, k, f[k])
      BY <1>0, <2>3, <3>1, WaitRecovers
    <3> QED BY <2>2, <3>2
  <2>6. l \in k + 1 .. N
    BY <2>3, <2>5, NextRange
  <2>7. Recovered(s, t, l, f[l])
    <3>1. N - l \in 0..N /\ N - l < m /\ N - (N - l) = l
      BY <1>0, <2>2, <2>3, <2>6
    <3>2. N - l \notin Bad
      <4>1. m \in Nat
        BY <2>2
      <4> HIDE DEF Bad, l, N
      <4> QED BY <2>1, <3>1, <4>1
    <3> QED BY <3>1, <3>2
  <2>8. f[k] = GoesOn(s, k, f[l])
    BY <2>4, <2>5 DEF Scanned
  <2>9. k \in 0 .. N - 1
    BY <1>0, <2>3, <2>6
  <2>10. CASE Valid(r) # {}
    <3> DEFINE n == Max(Valid(r))
    <3>1. r \in Seq(BytesOf(frames)) /\ Len(r) = N - k /\ \A i \in 1 .. N - k : r[i] = s[k + i]
      BY <2>3, RestBytes
    <3>2. r[1] = s[k + 1]
      BY <2>9, <3>1
    <3>3. n \in Valid(r)
      <4>1. Len(r) \in Nat /\ Len(r) >= 1
        BY <1>0, <2>9, <3>1
      <4>2. \A i \in Valid(r) : i \in 5..Len(r)
        BY <3>1, <4>1, ValidRange
      <4>3. Valid(r) \in SUBSET (0..Len(r))
        BY <4>2
      <4> HIDE DEF r
      <4> QED BY <2>10, <4>1, <4>3, MaxExists
    <3>4. l = k + n
      BY <2>10 DEF NextAt
    <3>5. f[k] = [f[l] EXCEPT !.frames = <<s[k + 1].id>> \o @]
      <4>1. f[k] = [f[l] EXCEPT !.frames = <<r[1].id>> \o @]
        BY <2>8, <2>10 DEF GoesOn
      <4> QED BY <3>2, <4>1
    <3>6. Recovered(s, t, k + n, f[l])
      BY <2>7, <3>4
    <3> HIDE DEF n, l, k
    <3>7. Recovered(s, t, k, [f[l] EXCEPT !.frames = <<s[k + 1].id>> \o @])
      BY <2>9, <3>3, <3>6, TakeRecovers
    <3>8. Recovered(s, t, k, f[k])
      BY <3>5, <3>7
    <3> QED BY <2>2, <3>8 DEF k
  <2>11. CASE Valid(r) = {}
    <3> DEFINE suspect == f[l].suspect \/ Candidates(r) # {}
    <3>1. l = k + 1
      BY <2>11 DEF NextAt
    <3>2. f[k] = [f[l] EXCEPT !.suspect = suspect]
      BY <2>8, <2>11 DEF GoesOn
    <3>3. suspect \in BOOLEAN
      OBVIOUS
    <3> HIDE DEF suspect, l, k
    <3>4. Recovered(s, t, k, [f[l] EXCEPT !.suspect = suspect])
      BY <2>5, <2>7, <2>9, <2>11, <3>1, <3>3, DropRecovers
    <3>5. Recovered(s, t, k, f[k])
      BY <3>2, <3>4
    <3> QED BY <2>2, <3>5 DEF k
  <2> QED BY <2>10, <2>11
<1>3. N \in 0..N /\ N - N = 0
  BY <1>0
<1>4. Recovered(s, t, N - N, f[N - N])
  BY <1>2, <1>3
<1> HIDE DEF N
<1> QED BY <1>1, <1>3, <1>4

-----------------------------------------------------------------------------
(***************************************************************************)
(* The matcher.  D is the set of frames it has been given.                 *)
(***************************************************************************)

PendingKnown(m, D) ==
    \A s \in Slaves : m.pending[s] # None =>
        /\ m.pending[s] \in D
        /\ frames[m.pending[s]].slave = s /\ frames[m.pending[s]].kind = "request"

Genuine(m, D) ==
    \A i \in DOMAIN m.published :
        LET t == m.published[i]
        IN  /\ t.request \in D /\ t.response \in D /\ t.request < t.response
            /\ frames[t.request].kind = "request" /\ frames[t.response].kind = "response"
            /\ frames[t.request].slave = frames[t.response].slave
            /\ frames[t.request].block = frames[t.response].block

UsedOnce(m) ==
    /\ \A s \in Slaves : \A i \in DOMAIN m.published : m.pending[s] # m.published[i].request
    /\ \A i, j \in DOMAIN m.published : i # j =>
          /\ m.published[i].request # m.published[j].request
          /\ m.published[i].response # m.published[j].response

Complete(m, D) ==
    m.counters = {} =>
        \A id \in D :
            \/ id = m.pending[frames[id].slave]
            \/ \E i \in DOMAIN m.published :
                   id \in {m.published[i].request, m.published[i].response}

Matchers == [pending : [Slaves -> Ids \cup {None}], counters : SUBSET Counters,
             published : Seq(Transactions)]

MatcherOK(m, D) ==
    m \in Matchers /\ PendingKnown(m, D) /\ Genuine(m, D) /\ UsedOnce(m) /\ Complete(m, D)

\* The mark of no frame is no frame.
LEMMA NoneIsNoId == None \notin Ids
BY PassiveAssumption DEF Ids

\* accept() of a frame later than those before it.
LEMMA AcceptKeeps ==
    ASSUME FramesOK(frames), NEW D \in SUBSET DOMAIN frames, NEW m, MatcherOK(m, D),
           NEW id \in DOMAIN frames, \A d \in D : d < id
    PROVE  MatcherOK(Accept(m, id), D \cup {id})
<1> DEFINE s == frames[id].slave
           E == D \cup {id}
           request == m.pending[s]
<1>1. /\ FrameOK(frames[id]) /\ s \in Slaves /\ id \in Ids /\ id \in Nat /\ id \notin D
      /\ frames[id].kind \in {"request", "response", "exception"}
  <2>1. FrameOK(frames[id]) /\ id \in 1..Len(frames) /\ Len(frames) \in Nat
    BY DEF FramesOK
  <2>2. id \in Ids /\ id \in Nat
    BY <2>1, PassiveAssumption DEF FramesOK, Ids
  <2> QED BY <2>1, <2>2 DEF FrameOK, Frames
<1>2. /\ m \in Matchers /\ PendingKnown(m, D) /\ Genuine(m, D) /\ UsedOnce(m) /\ Complete(m, D)
      /\ m = [pending |-> m.pending, counters |-> m.counters, published |-> m.published]
  BY DEF MatcherOK, Matchers
<1>3. /\ m.pending \in [Slaves -> Ids \cup {None}] /\ m.counters \in SUBSET Counters
      /\ m.published \in Seq(Transactions)
  BY <1>2 DEF Matchers
<1>4. None \notin Ids
  BY NoneIsNoId
<1> HIDE DEF s
<1>5. CASE frames[id].kind = "request"
  <2> DEFINE n == Accept(m, id)
  <2>1. n = [m EXCEPT !.pending[s] = id,
                      !.counters = IF request = None THEN @ ELSE @ \cup {"missing"}]
    BY <1>5 DEF Accept, AcceptRequest, s
  <2>2. /\ n.pending = [m.pending EXCEPT ![s] = id] /\ n.published = m.published
        /\ n.counters = IF request = None THEN m.counters ELSE m.counters \cup {"missing"}
        /\ n = [pending |-> n.pending, counters |-> n.counters, published |-> n.published]
    BY <1>2, <2>1
  <2> HIDE DEF n
  <2>3. n \in Matchers
    <3>1. n.pending \in [Slaves -> Ids \cup {None}]
      BY <1>1, <1>3, <2>2
    <3>2. n.counters \in SUBSET Counters
      BY <1>3, <2>2 DEF Counters
    <3> QED BY <1>3, <2>2, <3>1, <3>2 DEF Matchers
  <2>4. PendingKnown(n, E)
    BY <1>2, <1>3, <1>5, <2>2 DEF PendingKnown, s
  <2>5. Genuine(n, E)
    BY <1>2, <2>2 DEF Genuine
  <2>6. UsedOnce(n)
    <3>1. \A i \in DOMAIN m.published : m.published[i].request \in D
      BY <1>2 DEF Genuine
    <3>2. \A x \in Slaves : n.pending[x] = IF x = s THEN id ELSE m.pending[x]
      BY <1>3, <2>2
    <3> QED BY <1>1, <1>2, <2>2, <3>1, <3>2 DEF UsedOnce
  <2>7. Complete(n, E)
    <3> SUFFICES ASSUME n.counters = {}, NEW d \in E
                 PROVE  \/ d = n.pending[frames[d].slave]
                        \/ \E i \in DOMAIN n.published :
                               d \in {n.published[i].request, n.published[i].response}
      BY DEF Complete
    <3>1. request = None /\ m.counters = {}
      BY <2>2
    <3>2. CASE d = id
      BY <1>1, <1>3, <2>2, <3>2 DEF s
    <3>3. CASE d \in D
      <4>1. d # None
        <5>1. d \in Nat
          BY <3>3 DEF FramesOK
        <5> QED BY <5>1, PassiveAssumption
      <4>2. CASE d = m.pending[frames[d].slave]
        <5>1. frames[d].slave \in Slaves
          BY <3>3 DEF FramesOK, FrameOK, Frames
        <5>2. frames[d].slave # s
          BY <3>1, <4>1, <4>2
        <5> QED BY <1>3, <2>2, <4>2, <5>1, <5>2
      <4>3. CASE \E i \in DOMAIN m.published :
                    d \in {m.published[i].request, m.published[i].response}
        BY <2>2, <4>3
      <4> QED BY <1>2, <3>1, <3>3, <4>2, <4>3 DEF Complete
    <3> QED BY <3>2, <3>3
  <2> QED BY <2>3, <2>4, <2>5, <2>6, <2>7 DEF MatcherOK, n
<1>6. ASSUME NEW c \in Counters, NEW n,
             n = [m EXCEPT !.pending[s] = None, !.counters = @ \cup {c}]
      PROVE  MatcherOK(n, E)
  <2>2. /\ n.pending = [m.pending EXCEPT ![s] = None] /\ n.published = m.published
        /\ n.counters = m.counters \cup {c}
        /\ n = [pending |-> n.pending, counters |-> n.counters, published |-> n.published]
    BY <1>2, <1>6
  <2>3. n \in Matchers
    <3>1. n.pending \in [Slaves -> Ids \cup {None}]
      BY <1>1, <1>3, <2>2
    <3> QED BY <1>3, <2>2, <3>1 DEF Matchers
  <2>4. \A x \in Slaves : n.pending[x] = IF x = s THEN None ELSE m.pending[x]
    BY <1>3, <2>2
  <2>5. PendingKnown(n, E)
    BY <1>2, <2>4 DEF PendingKnown
  <2>6. Genuine(n, E)
    BY <1>2, <2>2 DEF Genuine
  <2>7. UsedOnce(n)
    <3>1. \A i \in DOMAIN m.published : m.published[i].request # None
      <4>1. \A i \in DOMAIN m.published : m.published[i] \in Transactions
        BY <1>3
      <4> QED BY <1>4, <4>1 DEF Transactions
    <3> QED BY <1>2, <2>2, <2>4, <3>1 DEF UsedOnce
  <2>8. Complete(n, E)
    BY <2>2 DEF Complete
  <2> QED BY <2>3, <2>5, <2>6, <2>7, <2>8 DEF MatcherOK
<1>7. CASE frames[id].kind = "exception"
  <2>1. Accept(m, id) = [m EXCEPT !.pending[s] = None, !.counters = @ \cup {"exceptions"}]
    BY <1>7 DEF Accept, AcceptException, s
  <2> QED BY <1>6, <2>1 DEF Counters
<1>8. CASE frames[id].kind = "response" /\ ~Answers(request, id)
  <2>1. Accept(m, id) = [m EXCEPT !.pending[s] = None, !.counters = @ \cup {"unmatched"}]
    BY <1>8 DEF Accept, AcceptResponse, s
  <2> QED BY <1>6, <2>1 DEF Counters
<1>9. CASE frames[id].kind = "response" /\ Answers(request, id)
  <2> DEFINE n == Accept(m, id)
             new == [request |-> request, response |-> id]
  <2>1. n = [m EXCEPT !.pending[s] = None, !.published = Append(@, new)]
    BY <1>9 DEF Accept, AcceptResponse, s
  <2>2. /\ n.pending = [m.pending EXCEPT ![s] = None] /\ n.published = Append(m.published, new)
        /\ n.counters = m.counters
        /\ n = [pending |-> n.pending, counters |-> n.counters, published |-> n.published]
    BY <1>2, <2>1
  <2> HIDE DEF n
  <2>3. /\ request \in D /\ request \in Ids /\ request < id
        /\ frames[request].kind = "request" /\ frames[request].slave = s
        /\ frames[request].block = frames[id].block
    <3>1. request # None
      BY <1>9 DEF Answers
    <3>2. request \in D /\ request \in Ids /\ request < id
          /\ frames[request].kind = "request" /\ frames[request].slave = s
      BY <1>1, <1>2, <1>3, <3>1 DEF PendingKnown
    <3>3. frames[request].block \in Blocks /\ frames[id].block \in Blocks
      BY <1>1, <1>9, <3>2 DEF FramesOK, FrameOK
    <3>4. Count[frames[request].block] = Count[frames[id].block]
      BY <1>9 DEF Answers
    <3> QED BY <3>2, <3>3, <3>4, PassiveAssumption
  <2> DEFINE N == Len(m.published)
  <2>4. new \in Transactions
    BY <1>1, <2>3 DEF Transactions
  <2>5. /\ n.published \in Seq(Transactions) /\ N \in Nat /\ Len(n.published) = N + 1
        /\ DOMAIN n.published = 1 .. N + 1 /\ DOMAIN m.published = 1..N
        /\ n.published[N + 1] = new
        /\ \A i \in 1..N : n.published[i] = m.published[i]
    BY <1>3, <2>2, <2>4
  <2> HIDE DEF N, new
  <2>6. n \in Matchers
    <3>1. n.pending \in [Slaves -> Ids \cup {None}]
      BY <1>1, <1>3, <2>2
    <3> QED BY <1>3, <2>2, <2>5, <3>1 DEF Matchers
  <2>7. \A x \in Slaves : n.pending[x] = IF x = s THEN None ELSE m.pending[x]
    BY <1>3, <2>2
  <2>8. PendingKnown(n, E)
    BY <1>2, <2>7 DEF PendingKnown
  <2>9. \A i \in 1 .. N + 1 : i = N + 1 \/ i \in 1..N
    BY <2>5
  <2>10. Genuine(n, E)
    <3>1. /\ new.request \in E /\ new.response \in E /\ new.request < new.response
          /\ frames[new.request].kind = "request" /\ frames[new.response].kind = "response"
          /\ frames[new.request].slave = frames[new.response].slave
          /\ frames[new.request].block = frames[new.response].block
      BY <1>9, <2>3 DEF new, s
    <3>2. \A i \in 1..N :
             LET t == m.published[i]
             IN  /\ t.request \in E /\ t.response \in E /\ t.request < t.response
                 /\ frames[t.request].kind = "request" /\ frames[t.response].kind = "response"
                 /\ frames[t.request].slave = frames[t.response].slave
                 /\ frames[t.request].block = frames[t.response].block
      BY <1>2, <2>5 DEF Genuine
    <3> QED BY <2>5, <2>9, <3>1, <3>2 DEF Genuine
  <2>11. UsedOnce(n)
    <3>1. \A i \in 1..N : m.published[i].request \in D /\ m.published[i].response \in D
      BY <1>2, <2>5 DEF Genuine
    <3>2. \A i \in 1..N : m.published[i].request # request
      BY <1>1, <1>2, <2>5 DEF UsedOnce
    <3>3. new.request = request /\ new.response = id
      BY DEF new
    <3>4. \A x \in Slaves : x # s => m.pending[x] # request
      <4> SUFFICES ASSUME NEW x \in Slaves, m.pending[x] = request PROVE x = s
        OBVIOUS
      <4>1. m.pending[x] # None
        BY <1>9 DEF Answers
      <4> QED BY <1>2, <2>3, <4>1 DEF PendingKnown
    <3>5. \A x \in Slaves : \A i \in 1 .. N + 1 : n.pending[x] # n.published[i].request
      <4> SUFFICES ASSUME NEW x \in Slaves, NEW i \in 1 .. N + 1
                   PROVE  n.pending[x] # n.published[i].request
        OBVIOUS
      <4>1. n.published[i].request # None
        <5>1. n.published[i] \in Transactions
          BY <2>5
        <5> QED BY <1>4, <5>1 DEF Transactions
      <4>2. CASE x = s
        BY <2>7, <4>1, <4>2
      <4>3. CASE x # s /\ i = N + 1
        BY <2>5, <2>7, <3>3, <3>4, <4>3
      <4>4. CASE x # s /\ i \in 1..N
        <5>1. m.pending[x] # m.published[i].request
          BY <1>2, <2>5, <4>4 DEF UsedOnce
        <5> QED BY <2>5, <2>7, <4>4, <5>1
      <4> QED BY <2>9, <4>2, <4>3, <4>4
    <3>6. \A i, j \in 1 .. N + 1 : i # j =>
             /\ n.published[i].request # n.published[j].request
             /\ n.published[i].response # n.published[j].response
      <4>1. \A i, j \in 1..N : i # j =>
               /\ n.published[i].request # n.published[j].request
               /\ n.published[i].response # n.published[j].response
        BY <1>2, <2>5 DEF UsedOnce
      <4>2. \A i \in 1..N : /\ n.published[i].request # new.request
                            /\ n.published[i].response # new.response
        BY <1>1, <2>5, <3>1, <3>2, <3>3
      <4> QED BY <2>5, <2>9, <4>1, <4>2
    <3> QED BY <2>5, <3>5, <3>6 DEF UsedOnce
  <2>12. Complete(n, E)
    <3> SUFFICES ASSUME n.counters = {}, NEW d \in E
                 PROVE  \/ d = n.pending[frames[d].slave]
                        \/ \E i \in 1 .. N + 1 :
                               d \in {n.published[i].request, n.published[i].response}
      BY <2>5 DEF Complete
    <3>1. N + 1 \in 1 .. N + 1 /\ 1..N \subseteq 1 .. N + 1
      BY <2>5
    <3>2. new.request = request /\ new.response = id
      BY DEF new
    <3>3. CASE d = id \/ d = request
      BY <2>5, <3>1, <3>2, <3>3
    <3>4. CASE d \in D /\ d # request
      <4>1. CASE d = m.pending[frames[d].slave]
        <5>1. frames[d].slave \in Slaves
          BY <3>4 DEF FramesOK, FrameOK, Frames
        <5>2. frames[d].slave # s
          BY <3>4, <4>1
        <5> QED BY <2>7, <4>1, <5>1, <5>2
      <4>2. CASE \E i \in 1..N : d \in {m.published[i].request, m.published[i].response}
        BY <2>5, <3>1, <4>2
      <4> QED BY <1>2, <2>2, <2>5, <3>4, <4>1, <4>2 DEF Complete
    <3> QED BY <3>3, <3>4
  <2> QED BY <2>6, <2>8, <2>10, <2>11, <2>12 DEF MatcherOK, n
<1> QED BY <1>1, <1>5, <1>7, <1>8, <1>9

\* FoldLeft of accept() over the frames q is a recursion over the sets of their positions.
Folded(m, q, h, K) ==
    h = [S \in K |-> IF S = {} THEN m ELSE Accept(h[S \ {Max(S)}], q[Max(S)])]

\* That recursion has a solution: no number of positions is the least for which it has none.
LEMMA FoldExists ==
    ASSUME NEW m, NEW q, NEW n \in Nat
    PROVE  \E h : Folded(m, q, h, SUBSET (1..n))
<1> DEFINE Small(c) == {S \in SUBSET (1..n) : Cardinality(S) <= c}
           Bad == {c \in Nat : ~\E h : Folded(m, q, h, Small(c))}
<1>0. /\ \A S \in SUBSET (1..n) : IsFiniteSet(S) /\ Cardinality(S) \in 0..n
  <2> SUFFICES ASSUME NEW S \in SUBSET (1..n)
               PROVE  IsFiniteSet(S) /\ Cardinality(S) \in 0..n
    OBVIOUS
  <2>1. IsFiniteSet(1..n) /\ Cardinality(1..n) = n
    BY FS_Interval
  <2>2. IsFiniteSet(S) /\ Cardinality(S) <= n
    BY <2>1, FS_Subset
  <2> QED BY <2>2, FS_CardinalityType
<1>1. Bad = {}
  <2> SUFFICES ASSUME Bad # {} PROVE FALSE
    OBVIOUS
  <2>0. Bad \in SUBSET Nat
    OBVIOUS
  <2>1. PICK c \in Bad : \A d \in Bad : c <= d
    <3> HIDE DEF Bad
    <3> QED BY <2>0, MinExists
  <2>2. c \in Nat /\ ~\E h : Folded(m, q, h, Small(c))
    BY <2>1
  <2>3. \E h : \A S \in Small(c) : S # {} => h[S \ {Max(S)}] =
           IF S \ {Max(S)} = {} THEN m
           ELSE Accept(h[(S \ {Max(S)}) \ {Max(S \ {Max(S)})}], q[Max(S \ {Max(S)})])
    <3>1. CASE c = 0
      <4>1. \A S \in Small(c) : S = {}
        BY <1>0, <3>1, FS_EmptySet
      <4> QED BY <4>1
    <3>2. CASE c # 0
      <4>1. c - 1 \in Nat /\ c - 1 \notin Bad
        <5> HIDE DEF Bad
        <5> QED BY <2>1, <2>2, <3>2
      <4>2. PICK h : Folded(m, q, h, Small(c - 1))
        BY <4>1
      <4>3. \A S \in Small(c) : S # {} => S \ {Max(S)} \in Small(c - 1)
        <5> SUFFICES ASSUME NEW S \in Small(c), S # {} PROVE S \ {Max(S)} \in Small(c - 1)
          OBVIOUS
        <5> DEFINE R == S \ {Max(S)}
        <5>1. Cardinality(R) = Cardinality(S) - 1 /\ Cardinality(S) \in Nat
              /\ Cardinality(S) <= c
          BY PositionsSmaller
        <5>2. R \in SUBSET (1..n)
          OBVIOUS
        <5> HIDE DEF R
        <5>3. Cardinality(R) <= c - 1
          BY <2>2, <5>1
        <5> QED BY <5>2, <5>3 DEF R
      <4> QED BY <4>2, <4>3 DEF Folded
    <3> QED BY <3>1, <3>2
  <2>4. PICK h : \A S \in Small(c) : S # {} => h[S \ {Max(S)}] =
           IF S \ {Max(S)} = {} THEN m
           ELSE Accept(h[(S \ {Max(S)}) \ {Max(S \ {Max(S)})}], q[Max(S \ {Max(S)})])
    BY <2>3
  <2> DEFINE g == [S \in Small(c) |-> IF S = {} THEN m ELSE Accept(h[S \ {Max(S)}], q[Max(S)])]
  <2>5. \A S \in Small(c) : S # {} => g[S \ {Max(S)}] = h[S \ {Max(S)}]
    <3> SUFFICES ASSUME NEW S \in Small(c), S # {}
                 PROVE  g[S \ {Max(S)}] = h[S \ {Max(S)}]
      OBVIOUS
    <3>1. S \ {Max(S)} \in Small(c)
      <4> DEFINE R == S \ {Max(S)}
      <4>1. Cardinality(R) = Cardinality(S) - 1 /\ Cardinality(S) \in Nat
            /\ Cardinality(S) <= c
        BY PositionsSmaller
      <4>2. R \in SUBSET (1..n)
        OBVIOUS
      <4> HIDE DEF R
      <4>3. Cardinality(R) <= c
        BY <2>2, <4>1
      <4> QED BY <4>2, <4>3 DEF R
    <3> HIDE DEF Small
    <3> QED BY <2>4, <3>1
  <2>6. Folded(m, q, g, Small(c))
    <3> HIDE DEF Small
    <3> QED BY <2>5 DEF Folded
  <2> QED BY <2>2, <2>6
<1>2. PICK h : Folded(m, q, h, Small(n))
  BY <1>1
<1>3. Small(n) = SUBSET (1..n)
  BY <1>0
<1> QED BY <1>2, <1>3

\* And FoldLeft is its value at all positions.
LEMMA FoldIs ==
    ASSUME NEW m, NEW q, NEW n \in Nat, DOMAIN q = 1..n
    PROVE  \E h : Folded(m, q, h, SUBSET (1..n)) /\ FoldLeft(Accept, m, q) = h[1..n]
<1> DEFINE g == CHOOSE h : Folded(m, q, h, SUBSET (1..n))
<1>1. FoldLeft(Accept, m, q) = g[1..n]
  BY DEF FoldLeft, MapThenFoldSet, Folded
<1>2. Folded(m, q, g, SUBSET (1..n))
  BY FoldExists
<1> HIDE DEF g
<1> QED BY <1>1, <1>2

\* The matcher over the frames of one chunk.
LEMMA MatchingKeeps ==
    ASSUME FramesOK(frames), NEW D \in SUBSET DOMAIN frames, NEW m, MatcherOK(m, D),
           NEW q \in Seq(DOMAIN frames), \A a \in DOMAIN q : \A d \in D : d < q[a],
           \A a, b \in DOMAIN q : a < b => q[a] < q[b]
    PROVE  MatcherOK(FoldLeft(Accept, m, q), D \cup {q[a] : a \in DOMAIN q})
<1> DEFINE N == Len(q)
           Given(k) == D \cup {q[a] : a \in 1..k}
<1>0. N \in Nat /\ DOMAIN q = 1..N
  OBVIOUS
<1>1. PICK h : Folded(m, q, h, SUBSET (1..N)) /\ FoldLeft(Accept, m, q) = h[1..N]
  BY <1>0, FoldIs
<1> DEFINE Bad == {k \in 0..N : ~MatcherOK(h[1..k], Given(k))}
<1>2. Bad = {}
  <2> SUFFICES ASSUME Bad # {} PROVE FALSE
    OBVIOUS
  <2>0. Bad \in SUBSET Nat
    OBVIOUS
  <2>1. PICK k \in Bad : \A j \in Bad : k <= j
    <3> HIDE DEF Bad
    <3> QED BY <2>0, MinExists
  <2>2. k \in 0..N /\ ~MatcherOK(h[1..k], Given(k))
    BY <2>1
  <2>3. 1..k \in SUBSET (1..N)
    BY <1>0, <2>2
  <2>4. CASE k = 0
    <3>1. 1..k = {}
      BY <2>4
    <3>2. h[1..k] = m
      BY <1>1, <2>3, <3>1 DEF Folded
    <3>3. Given(k) = D
      BY <3>1
    <3> QED BY <2>2, <3>2, <3>3
  <2>5. CASE k # 0
    <3>1. k \in 1..k /\ k \in 1..N /\ k \in Nat /\ k - 1 \in 0..N
      BY <1>0, <2>2, <2>5
    <3>2. Max(1..k) = k
      <4>1. Max(1..k) \in 1..k /\ \A i \in 1..k : i <= Max(1..k)
        BY <1>0, <2>3, <3>1, PositionsSmaller
      <4> QED BY <3>1, <4>1
    <3>3. (1..k) \ {k} = 1 .. k - 1
      BY <3>1
    <3>4. h[1..k] = Accept(h[1 .. k - 1], q[k])
      BY <1>1, <2>3, <3>1, <3>2, <3>3 DEF Folded
    <3>5. k - 1 \notin Bad
      <4> HIDE DEF Bad
      <4> QED BY <2>1, <3>1
    <3>6. MatcherOK(h[1 .. k - 1], Given(k - 1))
      BY <3>1, <3>5
    <3>7. q[k] \in DOMAIN frames /\ Given(k - 1) \in SUBSET DOMAIN frames
      BY <1>0, <3>1
    <3>8. \A d \in Given(k - 1) : d < q[k]
      BY <1>0, <3>1
    <3>9. Given(k) = Given(k - 1) \cup {q[k]}
      BY <3>1, <3>3
    <3> HIDE DEF Given
    <3>10. MatcherOK(Accept(h[1 .. k - 1], q[k]), Given(k - 1) \cup {q[k]})
      BY <3>6, <3>7, <3>8, AcceptKeeps
    <3> QED BY <2>2, <3>4, <3>9, <3>10
  <2> QED BY <2>4, <2>5
<1>3. MatcherOK(h[1..N], Given(N))
  <2>1. N \in 0..N
    BY <1>0
  <2>2. N \notin Bad
    <3> HIDE DEF Bad
    <3> QED BY <1>2
  <2> HIDE DEF N, Given
  <2> QED BY <2>1, <2>2
<1> QED BY <1>0, <1>1, <1>3

-----------------------------------------------------------------------------
(***************************************************************************)
(* The stream: cut, joined and fed.                                        *)
(***************************************************************************)

\* All of s was sent before all of t.
AllBefore(s, t) == \A i \in DOMAIN s, j \in DOMAIN t : Before(s[i], t[j])

\* Two streams, one before the other, make one.
LEMMA StreamJoined ==
    ASSUME NEW F, NEW s, NEW t, StreamOK(F, s), StreamOK(F, t), AllBefore(s, t)
    PROVE  /\ StreamOK(F, s \o t)
           /\ \A i \in DOMAIN (s \o t) : \/ \E j \in DOMAIN s : (s \o t)[i] = s[j]
                                         \/ \E j \in DOMAIN t : (s \o t)[i] = t[j]
<1> DEFINE u == s \o t
<1>1. /\ s \in Seq(BytesOf(F)) /\ t \in Seq(BytesOf(F)) /\ Len(s) \in Nat /\ Len(t) \in Nat
      /\ DOMAIN s = 1..Len(s) /\ DOMAIN t = 1..Len(t)
  BY DEF StreamOK
<1>2. /\ u \in Seq(BytesOf(F)) /\ DOMAIN u = 1 .. Len(s) + Len(t)
      /\ \A i \in 1..Len(s) : u[i] = s[i]
      /\ \A i \in Len(s) + 1 .. Len(s) + Len(t) : u[i] = t[i - Len(s)]
  BY <1>1, ConcatProperties
<1> HIDE DEF u
<1>3. \A i \in DOMAIN u : \/ i \in 1..Len(s) /\ u[i] = s[i]
                          \/ i > Len(s) /\ i - Len(s) \in 1..Len(t) /\ u[i] = t[i - Len(s)]
  BY <1>1, <1>2
<1>4. \A i \in DOMAIN u : u[i].at < FullLength(F[u[i].id])
  BY <1>1, <1>3 DEF StreamOK
<1>5. \A i, j \in DOMAIN u : i < j => Before(u[i], u[j])
  <2> SUFFICES ASSUME NEW i \in DOMAIN u, NEW j \in DOMAIN u, i < j PROVE Before(u[i], u[j])
    OBVIOUS
  <2>1. CASE j \in 1..Len(s)
    <3>1. i \in 1..Len(s) /\ u[i] = s[i] /\ u[j] = s[j]
      BY <1>1, <1>2, <2>1
    <3> QED BY <1>1, <2>1, <3>1 DEF StreamOK
  <2>2. CASE i \in 1..Len(s) /\ j > Len(s)
    <3>1. u[i] = s[i] /\ j - Len(s) \in 1..Len(t) /\ u[j] = t[j - Len(s)]
      BY <1>1, <1>2, <2>2
    <3> QED BY <1>1, <2>2, <3>1 DEF AllBefore
  <2>3. CASE i > Len(s) /\ j > Len(s)
    <3>1. /\ i - Len(s) \in 1..Len(t) /\ u[i] = t[i - Len(s)]
          /\ j - Len(s) \in 1..Len(t) /\ u[j] = t[j - Len(s)]
          /\ i - Len(s) < j - Len(s)
      BY <1>1, <1>2, <2>3
    <3> QED BY <1>1, <3>1 DEF StreamOK
  <2>4. j \in 1..Len(s) \/ (i \in 1..Len(s) /\ j > Len(s)) \/ (i > Len(s) /\ j > Len(s))
    BY <1>1, <1>2
  <2> QED BY <2>1, <2>2, <2>3, <2>4
<1>6. StreamOK(F, u)
  BY <1>2, <1>4, <1>5 DEF StreamOK
<1> QED BY <1>1, <1>3, <1>6 DEF u

\* A stream cut in two is two streams, one before the other.
LEMMA StreamCut ==
    ASSUME NEW F, NEW s, StreamOK(F, s), NEW k \in 0..Len(s)
    PROVE  /\ StreamOK(F, SubSeq(s, 1, k)) /\ StreamOK(F, SubSeq(s, k + 1, Len(s)))
           /\ DOMAIN SubSeq(s, 1, k) = 1..k /\ DOMAIN SubSeq(s, k + 1, Len(s)) = 1 .. Len(s) - k
           /\ \A i \in 1..k : SubSeq(s, 1, k)[i] = s[i]
           /\ \A i \in 1 .. Len(s) - k : SubSeq(s, k + 1, Len(s))[i] = s[k + i]
           /\ AllBefore(SubSeq(s, 1, k), SubSeq(s, k + 1, Len(s)))
<1> DEFINE a == SubSeq(s, 1, k)
           b == SubSeq(s, k + 1, Len(s))
<1>1. s \in Seq(BytesOf(F)) /\ Len(s) \in Nat /\ DOMAIN s = 1..Len(s) /\ k \in Nat
  BY DEF StreamOK
<1>2. /\ a \in Seq(BytesOf(F)) /\ DOMAIN a = 1..k /\ \A i \in 1..k : a[i] = s[i]
  BY <1>1, SubSeqProperties
<1>3. /\ b \in Seq(BytesOf(F)) /\ DOMAIN b = 1 .. Len(s) - k
      /\ \A i \in 1 .. Len(s) - k : b[i] = s[k + i]
  BY <1>1, RestBytes DEF RestOf
<1> HIDE DEF a, b
<1>4. \A i \in 1..k : i \in DOMAIN s
  BY <1>1
<1>5. \A i \in 1 .. Len(s) - k : k + i \in DOMAIN s /\ \A j \in 1..k : j < k + i
  BY <1>1
<1>6. \A i, j \in 1 .. Len(s) - k : i < j => k + i < k + j
  BY <1>1
<1>7. StreamOK(F, a)
  BY <1>2, <1>4 DEF StreamOK
<1>8. StreamOK(F, b)
  BY <1>3, <1>5, <1>6 DEF StreamOK
<1>9. AllBefore(a, b)
  BY <1>2, <1>3, <1>4, <1>5 DEF AllBefore, StreamOK
<1> QED BY <1>2, <1>3, <1>7, <1>8, <1>9 DEF a, b

\* The bytes of a stream are bytes of its frames.
LEMMA BytesType ==
    ASSUME NEW F, NEW s, StreamOK(F, s)
    PROVE  /\ s \in Seq(BytesOf(F)) /\ Len(s) \in Nat /\ DOMAIN s = 1..Len(s)
           /\ \A i \in DOMAIN s : /\ s[i] \in BytesOf(F) /\ s[i].id \in DOMAIN F
                                  /\ s[i].at \in Nat /\ s[i].at < FullLength(F[s[i].id])
<1>1. s \in Seq(BytesOf(F)) /\ \A i \in DOMAIN s : s[i].at < FullLength(F[s[i].id])
  BY DEF StreamOK
<1>2. \A i \in DOMAIN s : s[i] \in BytesOf(F)
  BY <1>1
<1> QED BY <1>1, <1>2 DEF BytesOf

\* A frame that is whole in s has no byte after the last of it.
LEMMA WholeIsOver ==
    ASSUME FramesOK(frames), NEW s, StreamOK(frames, s), NEW i \in DOMAIN s, WholeAt(s, i),
           NEW b \in BytesOf(frames), b.at < FullLength(frames[b.id]),
           Before(s[i + FullLength(frames[s[i].id]) - 1], b)
    PROVE  s[i].id < b.id
<1> DEFINE n == FullLength(frames[s[i].id])
           e == i + n - 1
<1>1. s[i].id \in DOMAIN frames /\ i \in 1..Len(s) /\ Len(s) \in Nat
  BY BytesType
<1>2. n \in 5..LongestFrame /\ LongestFrame \in Nat
  <2>1. FrameOK(frames[s[i].id])
    BY <1>1 DEF FramesOK
  <2> QED BY <2>1, LengthRange, LongestIs
<1>3. n \in 1..n /\ n \in Nat
  BY <1>2
<1>4. s[e] = [id |-> s[i].id, at |-> n - 1]
  BY <1>3 DEF WholeAt, ValidCrc
<1>5. b.at \in Nat /\ b.id \in Nat /\ s[i].id \in Nat
  BY <1>1 DEF BytesOf, FramesOK
<1>6. Before([id |-> s[i].id, at |-> n - 1], b)
  BY <1>4
<1>7. s[i].id < b.id \/ (s[i].id = b.id /\ n - 1 < b.at)
  BY <1>6 DEF Before
<1> QED BY <1>3, <1>5, <1>7

\* What Feed leaves and what it returns.
LEMMA FeedLeaves ==
    ASSUME FramesOK(frames), NEW s, NEW t, StreamOK(frames, s), StreamOK(frames, t),
           AllBefore(s, t)
    PROVE  LET r == Feed(s)
           IN  /\ StreamOK(frames, r.buffer) /\ AllBefore(r.buffer, t)
               /\ Len(r.buffer) < LongestFrame /\ r.suspect \in BOOLEAN
               /\ r.frames \in Seq(DOMAIN frames)
               /\ \A a, b \in DOMAIN r.frames : a < b => r.frames[a] < r.frames[b]
               /\ \A a \in DOMAIN r.frames : \E i \in DOMAIN s : s[i].id = r.frames[a]
               /\ \A a \in DOMAIN r.frames : \A i \in DOMAIN r.buffer :
                      r.frames[a] < r.buffer[i].id
               /\ \A a \in DOMAIN r.frames : \A i \in DOMAIN t : r.frames[a] < t[i].id
               /\ \A i \in DOMAIN r.buffer : \E k \in DOMAIN s : r.buffer[i] = s[k]
<1> DEFINE r == Feed(s)
           N == Len(s)
<1>1. s \in Seq(BytesOf(frames)) /\ N \in Nat /\ DOMAIN s = 1..N /\ t \in Seq(BytesOf(frames))
  BY BytesType
<1>2. Recovered(s, t, 0, r)
  BY <1>1, FeedRecovers
<1>3. PICK j \in 0..N : RecoveredTo(s, t, 0, j, r)
  BY <1>2 DEF Recovered
<1> HIDE DEF r
<1>4. /\ r \in [buffer : {RestOf(s, j)}, frames : Seq(DOMAIN frames), suspect : BOOLEAN]
      /\ r.buffer = RestOf(s, j) /\ Waits(r.buffer)
      /\ \A a, b \in DOMAIN r.frames : a < b => r.frames[a] < r.frames[b]
  BY <1>3 DEF RecoveredTo
<1>5. /\ StreamOK(frames, r.buffer) /\ DOMAIN r.buffer = 1 .. N - j
      /\ \A i \in 1 .. N - j : r.buffer[i] = s[j + i] /\ j + i \in DOMAIN s
  <2>1. /\ StreamOK(frames, r.buffer) /\ DOMAIN r.buffer = 1 .. N - j
        /\ \A i \in 1 .. N - j : r.buffer[i] = s[j + i]
    BY <1>4, StreamCut DEF RestOf
  <2>2. \A i \in 1 .. N - j : j + i \in DOMAIN s
    BY <1>1, <1>3
  <2> QED BY <2>1, <2>2
<1>6. AllBefore(r.buffer, t)
  BY <1>5 DEF AllBefore
<1>7. Len(r.buffer) < LongestFrame
  <2> DEFINE w == r.buffer
  <2>1. w \in Seq(BytesOf(frames)) /\ Len(w) \in Nat
    BY <1>5, BytesType
  <2>2. LongestFrame \in Nat /\ LongestFrame >= 8
    BY LongestIs
  <2>3. CASE Len(w) < 6
    <3> HIDE DEF w
    <3>1. Len(w) < LongestFrame
      BY <2>1, <2>2, <2>3
    <3> QED BY <3>1 DEF w
  <2>4. CASE \E n \in Candidates(w) : n > Len(w)
    <3>1. PICK n \in Candidates(w) : n > Len(w)
      BY <2>4
    <3>2. PICK c \in Claims(w[1]) : c.needs <= Len(w) /\ c.length = n
      BY <3>1 DEF Candidates
    <3>3. CASE Len(w) >= 1
      <4>1. w[1] \in BytesOf(frames)
        BY <2>1, <3>3
      <4>2. n \in 5..LongestFrame
        BY <3>2, <4>1, ClaimsRange
      <4> HIDE DEF w
      <4>3. Len(w) < LongestFrame
        BY <2>1, <2>2, <3>1, <4>2
      <4> QED BY <4>3 DEF w
    <3>4. CASE ~(Len(w) >= 1)
      <4> HIDE DEF w
      <4>1. Len(w) < 6
        BY <2>1, <3>4
      <4> QED BY <2>3, <4>1 DEF w
    <3> QED BY <3>3, <3>4
  <2>5. Len(w) < 2 => Len(w) < 6
    <3> HIDE DEF w
    <3> QED BY <2>1
  <2> QED BY <1>4, <2>3, <2>4, <2>5 DEF Waits
<1>8. \A a \in DOMAIN r.frames : \E i \in 1..j :
         /\ WholeAt(s, i) /\ s[i].id = r.frames[a]
         /\ i + FullLength(frames[s[i].id]) - 1 <= j
  <2>1. 0 + 1 = 1
    OBVIOUS
  <2> QED BY <1>3, <2>1 DEF RecoveredTo
<1>9. \A i \in 1..j : i \in DOMAIN s
  BY <1>1, <1>3
<1>10. ASSUME NEW a \in DOMAIN r.frames, NEW b \in BytesOf(frames),
              b.at < FullLength(frames[b.id]), \A i \in 1..j : Before(s[i], b)
       PROVE  r.frames[a] < b.id
  <2>1. PICK i \in 1..j : /\ WholeAt(s, i) /\ s[i].id = r.frames[a]
                          /\ i + FullLength(frames[s[i].id]) - 1 <= j
    BY <1>8
  <2>2. i \in DOMAIN s /\ s[i].id \in DOMAIN frames
    BY <1>9, BytesType
  <2> DEFINE n == FullLength(frames[s[i].id])
  <2>3. n \in 5..LongestFrame /\ LongestFrame \in Nat
    <3>1. FrameOK(frames[s[i].id])
      BY <2>2 DEF FramesOK
    <3> QED BY <3>1, LengthRange, LongestIs
  <2>4. i + n - 1 \in 1..j
    <3>1. i + n - 1 <= j
      BY <2>1
    <3> HIDE DEF n
    <3> QED BY <1>3, <2>3, <3>1
  <2>5. Before(s[i + n - 1], b)
    BY <1>10, <2>4
  <2>6. s[i].id < b.id
    BY <1>10, <2>1, <2>2, <2>5, WholeIsOver
  <2> QED BY <2>1, <2>6
<1>11. \A a \in DOMAIN r.frames : \A i \in DOMAIN r.buffer : r.frames[a] < r.buffer[i].id
  <2> SUFFICES ASSUME NEW a \in DOMAIN r.frames, NEW i \in DOMAIN r.buffer
               PROVE  r.frames[a] < r.buffer[i].id
    OBVIOUS
  <2>1. r.buffer[i] = s[j + i] /\ j + i \in DOMAIN s
    BY <1>5
  <2>2. \A k \in 1..j : k < j + i
    BY <1>1, <1>3, <1>5
  <2>3. \A k \in 1..j : Before(s[k], s[j + i])
    BY <1>9, <2>1, <2>2 DEF StreamOK
  <2>4. s[j + i] \in BytesOf(frames) /\ s[j + i].at < FullLength(frames[s[j + i].id])
    BY <2>1, BytesType
  <2> QED BY <1>10, <2>1, <2>3, <2>4
<1>12. \A a \in DOMAIN r.frames : \A i \in DOMAIN t : r.frames[a] < t[i].id
  <2> SUFFICES ASSUME NEW a \in DOMAIN r.frames, NEW i \in DOMAIN t
               PROVE  r.frames[a] < t[i].id
    OBVIOUS
  <2>1. \A k \in 1..j : Before(s[k], t[i])
    BY <1>9 DEF AllBefore
  <2>2. t[i] \in BytesOf(frames) /\ t[i].at < FullLength(frames[t[i].id])
    BY BytesType
  <2> QED BY <1>10, <2>1, <2>2
<1>13. \A a \in DOMAIN r.frames : \E i \in DOMAIN s : s[i].id = r.frames[a]
  BY <1>8, <1>9
<1> QED BY <1>4, <1>5, <1>6, <1>7, <1>11, <1>12, <1>13 DEF r

-----------------------------------------------------------------------------
(***************************************************************************)
(* The inductive invariant.                                                *)
(***************************************************************************)

\* Every frame of q is older than every byte of s.
AllOlder(q, s) == \A a \in DOMAIN q : \A i \in DOMAIN s : q[a] < s[i].id

BusControls ==
    /\ unplugs \in 0..MaxUnplugs
    /\ device \in {"present", "unplugged"}
    /\ fd \in {"none", "live", "dead", "ended"}
    /\ silent \in BOOLEAN
    /\ status \in {"starting", "ok", "degraded", "failed"}

\* What has been sent arrives in order; what has been decoded is older than what has not, and
\* without a port at most one frame is in the air.
BusStream ==
    /\ FramesOK(frames)
    /\ StreamOK(frames, buffer) /\ StreamOK(frames, wire) /\ AllBefore(buffer, wire)
    /\ Len(buffer) < LongestFrame
    /\ decoded \in Seq(DOMAIN frames)
    /\ AllOlder(decoded, buffer) /\ AllOlder(decoded, wire)
    /\ fd # "live" => \A i, j \in DOMAIN wire : wire[i].id = wire[j].id

BusMatcher == MatcherOK(matcher, Range(decoded))

BusInv == BusControls /\ BusStream /\ BusMatcher

\* Nothing is on the bus at the start.
LEMMA InitBus == PassiveInit => BusInv
<1> SUFFICES ASSUME PassiveInit PROVE BusInv
  OBVIOUS
<1> USE DEF PassiveInit
<1>1. BusControls
  <2>1. unplugs \in 0..MaxUnplugs
    BY PassiveAssumption
  <2>2. silent \in BOOLEAN
    BY Zenon
  <2>3. device = "present" /\ fd = "none" /\ status = "starting"
    OBVIOUS
  <2> QED BY <2>1, <2>2, <2>3 DEF BusControls
<1>2. BusStream
  <2>1. FramesOK(<<>>)
    BY PassiveAssumption DEF FramesOK
  <2>2. StreamOK(<<>>, <<>>)
    BY DEF StreamOK
  <2>3. 0 < LongestFrame
    BY LongestIs
  <2> QED BY <2>1, <2>2, <2>3 DEF BusStream, AllBefore, AllOlder
<1>3. BusMatcher
  <2>1. Range(decoded) = {}
    BY DEF Range
  <2>2. matcher \in Matchers
    BY DEF Matchers
  <2>3. PendingKnown(matcher, {}) /\ Genuine(matcher, {}) /\ UsedOnce(matcher)
        /\ Complete(matcher, {})
    BY DEF PendingKnown, Genuine, UsedOnce, Complete
  <2> QED BY <2>1, <2>2, <2>3 DEF BusMatcher, MatcherOK
<1> QED BY <1>1, <1>2, <1>3 DEF BusInv

\* With a new frame the old streams stay streams, all of them before its bytes.
LEMMA FramesGrow ==
    ASSUME NEW F, FramesOK(F), Len(F) < MaxFrames, NEW f, FrameOK(f)
    PROVE  LET G  == Append(F, f)
               id == Len(F) + 1
           IN  /\ FramesOK(G) /\ DOMAIN G = 1..id /\ DOMAIN F \subseteq DOMAIN G /\ id \in Nat
               /\ \A d \in DOMAIN F : G[d] = F[d] /\ d < id
               /\ \A s : StreamOK(F, s) => StreamOK(G, s) /\ AllBefore(s, Bytes(id, f))
               /\ StreamOK(G, Bytes(id, f))
               /\ \A i \in DOMAIN Bytes(id, f) : Bytes(id, f)[i].id = id
<1> DEFINE G  == Append(F, f)
           id == Len(F) + 1
           n == IF f.damage = "cut" THEN FullLength(f) - 1 ELSE FullLength(f)
           b == Bytes(id, f)
<1>1. F \in Seq(Frames) /\ Len(F) \in Nat /\ DOMAIN F = 1..Len(F) /\ f \in Frames
  BY DEF FramesOK, FrameOK
<1>2. /\ G \in Seq(Frames) /\ Len(G) = id /\ DOMAIN G = 1..id /\ G[id] = f
      /\ \A d \in 1..Len(F) : G[d] = F[d]
  BY <1>1, AppendProperties
<1> HIDE DEF G
<1>3. \A d \in DOMAIN F : G[d] = F[d] /\ d < id /\ d \in DOMAIN G /\ d \in Nat
  BY <1>1, <1>2
<1>4. FramesOK(G)
  <2>1. \A d \in DOMAIN G : d = id \/ d \in DOMAIN F
    BY <1>1, <1>2
  <2>2. Len(G) <= MaxFrames
    BY <1>1, <1>2, PassiveAssumption
  <2> QED BY <1>2, <1>3, <2>1, <2>2 DEF FramesOK
<1>5. FullLength(f) \in 5..LongestFrame /\ LongestFrame \in Nat
  BY LengthRange, LongestIs
<1>6. n \in Nat /\ n <= FullLength(f)
  BY <1>5
<1>7. b = [i \in 1..n |-> [id |-> id, at |-> i - 1]]
  BY DEF Bytes
<1>8. id \in DOMAIN G /\ id \in Nat
  BY <1>1, <1>2
<1> HIDE DEF b, n
<1>9. b \in Seq(BytesOf(G)) /\ DOMAIN b = 1..n
  <2>1. \A i \in 1..n : [id |-> id, at |-> i - 1] \in BytesOf(G)
    BY <1>6, <1>8 DEF BytesOf
  <2> QED BY <1>6, <1>7, <2>1
<1>10. \A i \in 1..n : b[i].id = id /\ b[i].at = i - 1
  BY <1>7
<1>11. StreamOK(G, b)
  <2>1. \A i \in 1..n : i - 1 < FullLength(f)
    BY <1>5, <1>6
  <2>2. \A i, j \in 1..n : i < j => i - 1 < j - 1
    BY <1>6
  <2> QED BY <1>2, <1>9, <1>10, <2>1, <2>2 DEF StreamOK, Before
<1>12. ASSUME NEW s, StreamOK(F, s) PROVE StreamOK(G, s) /\ AllBefore(s, b)
  <2>1. /\ s \in Seq(BytesOf(F)) /\ DOMAIN s = 1..Len(s) /\ Len(s) \in Nat
        /\ \A i \in DOMAIN s : s[i] \in BytesOf(F) /\ s[i].id \in DOMAIN F
    BY <1>12, BytesType
  <2>2. \A i \in DOMAIN s : s[i] \in BytesOf(G)
    BY <1>3, <2>1 DEF BytesOf
  <2>3. s \in Seq(BytesOf(G))
    BY <2>1, <2>2
  <2>4. StreamOK(G, s)
    BY <1>3, <1>12, <2>1, <2>3 DEF StreamOK
  <2>5. AllBefore(s, b)
    BY <1>3, <1>9, <1>10, <2>1 DEF AllBefore, Before
  <2> QED BY <2>4, <2>5
<1> QED BY <1>2, <1>3, <1>4, <1>8, <1>9, <1>10, <1>11, <1>12 DEF G, b

\* A frame transmitted is behind all bytes on the wire.
LEMMA TransmitKeeps ==
    ASSUME BusInv, NEW f, FrameOK(f), Transmit(f)
    PROVE  BusInv'
<1> DEFINE id == Len(frames) + 1
           b == Bytes(id, f)
<1>1. /\ frames' = Append(frames, f)
      /\ wire' = IF fd = "live" THEN wire \o b ELSE b
      /\ UNCHANGED <<unplugs, device, fd, buffer, matcher, silent, status, decoded>>
  BY DEF Transmit
<1>2. FramesOK(frames) /\ StreamOK(frames, buffer) /\ StreamOK(frames, wire)
      /\ decoded \in Seq(DOMAIN frames)
  BY DEF BusInv, BusStream
<1>3. Len(frames) < MaxFrames /\ DOMAIN frames = 1..Len(frames) /\ Len(frames) \in Nat
  BY <1>2, PassiveAssumption DEF Transmit, Ids, FramesOK
<1>4. /\ FramesOK(frames') /\ DOMAIN frames' = 1..id /\ DOMAIN frames \subseteq DOMAIN frames'
      /\ id \in Nat /\ \A d \in DOMAIN frames : frames'[d] = frames[d] /\ d < id
      /\ \A s : StreamOK(frames, s) => StreamOK(frames', s) /\ AllBefore(s, b)
      /\ StreamOK(frames', b)
      /\ \A i \in DOMAIN b : b[i].id = id
  BY <1>1, <1>2, <1>3, FramesGrow
<1> HIDE DEF b
<1>5. decoded \in Seq(DOMAIN frames')
  BY <1>2, <1>4
<1>6. StreamOK(frames', wire')
  <2>1. StreamOK(frames', wire) /\ AllBefore(wire, b)
    BY <1>2, <1>4
  <2>2. StreamOK(frames', wire \o b)
    BY <1>4, <2>1, StreamJoined
  <2> QED BY <1>1, <1>4, <2>2
<1>7. \A i \in DOMAIN wire' : \/ \E j \in DOMAIN wire : wire'[i] = wire[j]
                              \/ \E j \in DOMAIN b : wire'[i] = b[j]
  <2>1. StreamOK(frames', wire) /\ AllBefore(wire, b)
    BY <1>2, <1>4
  <2>2. \A i \in DOMAIN (wire \o b) : \/ \E j \in DOMAIN wire : (wire \o b)[i] = wire[j]
                                      \/ \E j \in DOMAIN b : (wire \o b)[i] = b[j]
    <3>1. StreamOK(frames', b)
      BY <1>4
    <3> DEFINE F == frames'
    <3>2. StreamOK(F, wire) /\ StreamOK(F, b)
      BY <2>1, <3>1
    <3> HIDE DEF F
    <3> QED BY <2>1, <3>2, StreamJoined, SMTT(30)
  <2> QED BY <1>1, <2>2
<1>8. AllBefore(buffer, wire') /\ AllOlder(decoded, wire')
  <2>1. AllBefore(buffer, b) /\ AllBefore(buffer, wire) /\ AllOlder(decoded, wire)
    BY <1>2, <1>4 DEF BusInv, BusStream
  <2>2. AllOlder(decoded, b)
    BY <1>2, <1>4 DEF AllOlder
  <2> QED BY <1>7, <2>1, <2>2 DEF AllBefore, AllOlder
<1>9. BusStream'
  <2>1. fd' # "live" => wire' = b
    BY <1>1
  <2>2. fd' # "live" => \A i, j \in DOMAIN wire' : wire'[i].id = wire'[j].id
    BY <1>4, <2>1
  <2> QED BY <1>1, <1>2, <1>4, <1>5, <1>6, <1>8, <2>2 DEF BusInv, BusStream
<1>10. BusMatcher'
  <2> DEFINE D == Range(decoded)
  <2>1. D \subseteq DOMAIN frames
    BY <1>2 DEF Range
  <2>2. MatcherOK(matcher, D) /\ matcher' = matcher /\ decoded' = decoded
    BY <1>1 DEF BusInv, BusMatcher
  <2> HIDE DEF D
  <2>3. PendingKnown(matcher, D)'
    BY <1>4, <2>1, <2>2 DEF MatcherOK, PendingKnown, D
  <2>4. Genuine(matcher, D)'
    BY <1>4, <2>1, <2>2 DEF MatcherOK, Genuine, D
  <2>5. Complete(matcher, D)'
    BY <1>4, <2>1, <2>2 DEF MatcherOK, Complete, D
  <2>6. matcher' \in Matchers /\ UsedOnce(matcher)'
    BY <2>2 DEF MatcherOK, UsedOnce
  <2> QED BY <2>2, <2>3, <2>4, <2>5, <2>6 DEF BusMatcher, MatcherOK, Matchers, D
<1>11. BusControls'
  BY <1>1 DEF BusInv, BusControls
<1> QED BY <1>9, <1>10, <1>11 DEF BusInv

\* What the invariant says of the frames sent, buffered and decoded, piece by piece.
LEMMA BusFacts ==
    ASSUME BusInv
    PROVE  /\ FramesOK(frames) /\ StreamOK(frames, buffer) /\ StreamOK(frames, wire)
           /\ AllBefore(buffer, wire) /\ decoded \in Seq(DOMAIN frames)
           /\ AllOlder(decoded, buffer) /\ AllOlder(decoded, wire)
           /\ MatcherOK(matcher, Range(decoded)) /\ Range(decoded) \in SUBSET DOMAIN frames
           /\ Len(wire) \in Nat /\ DOMAIN wire = 1..Len(wire)
<1>1. /\ FramesOK(frames) /\ StreamOK(frames, buffer) /\ StreamOK(frames, wire)
      /\ AllBefore(buffer, wire) /\ decoded \in Seq(DOMAIN frames)
      /\ AllOlder(decoded, buffer) /\ AllOlder(decoded, wire)
      /\ MatcherOK(matcher, Range(decoded))
  BY DEF BusInv, BusStream, BusMatcher
<1>2. Range(decoded) \in SUBSET DOMAIN frames
  BY <1>1 DEF Range
<1>3. Len(wire) \in Nat /\ DOMAIN wire = 1..Len(wire)
  BY <1>1, BytesType
<1> QED BY <1>1, <1>2, <1>3

\* A step that leaves the stream and the matcher alone.
LEMMA ControlKeeps ==
    ASSUME BusInv, UNCHANGED <<frames, wire, buffer, matcher, decoded>>, BusControls',
           fd' = "live" \/ fd # "live"
    PROVE  BusInv'
<1>1. BusStream'
  BY DEF BusInv, BusStream
<1>2. BusMatcher'
  BY DEF BusInv, BusMatcher, MatcherOK, PendingKnown, Genuine, UsedOnce, Complete
<1> QED BY <1>1, <1>2 DEF BusInv

\* A device sends what is on its wire and keeps their order.
LEMMA SendKeeps ==
    ASSUME BusInv, Send
    PROVE  BusInv'
<1>1. "intact" \in Damages
  BY PassiveAssumption
<1>2. ASSUME NEW s \in Slaves, NEW b \in Blocks, NEW k \in {"request", "response"},
             NEW d \in Damages,
             Transmit([slave |-> s, block |-> b, kind |-> k, damage |-> d])
      PROVE  BusInv'
  <2>1. FrameOK([slave |-> s, block |-> b, kind |-> k, damage |-> d])
    BY DEF FrameOK, Frames
  <2> QED BY <1>2, <2>1, TransmitKeeps
<1>3. ASSUME NEW s \in Slaves,
             Transmit([slave |-> s, block |-> None, kind |-> "exception", damage |-> "intact"])
      PROVE  BusInv'
  <2>1. FrameOK([slave |-> s, block |-> None, kind |-> "exception", damage |-> "intact"])
    BY <1>1 DEF FrameOK, Frames
  <2> QED BY <1>3, <2>1, TransmitKeeps
<1> QED BY <1>2, <1>3 DEF Send

\* What has been read of the wire, or lost with the adapter, is gone.
LEMMA WireShortens ==
    ASSUME BusInv, NEW k \in 0..Len(wire), wire' = SubSeq(wire, k + 1, Len(wire)),
           UNCHANGED <<frames, buffer, matcher, decoded>>, BusControls',
           fd' = "live" \/ fd # "live"
    PROVE  BusInv'
<1> DEFINE w == SubSeq(wire, k + 1, Len(wire))
<1>1. /\ StreamOK(frames, w) /\ DOMAIN w = 1 .. Len(wire) - k
      /\ \A i \in 1 .. Len(wire) - k : w[i] = wire[k + i]
  <2>1. StreamOK(frames, wire)
    BY BusFacts
  <2> QED BY <2>1, StreamCut
<1>2. \A i \in DOMAIN w : \E j \in DOMAIN wire : w[i] = wire[j]
  <2>1. \A i \in 1 .. Len(wire) - k : k + i \in DOMAIN wire
    BY BusFacts
  <2> QED BY <1>1, <2>1
<1> HIDE DEF w
<1>3. AllBefore(buffer, w) /\ AllOlder(decoded, w)
  BY <1>2, BusFacts DEF AllBefore, AllOlder
<1>4. fd' # "live" => \A i, j \in DOMAIN w : w[i].id = w[j].id
  BY <1>2 DEF BusInv, BusStream
<1>5. wire' = w
  BY DEF w
<1>6. BusStream'
  BY <1>1, <1>3, <1>4, <1>5 DEF BusInv, BusStream
<1>7. BusMatcher'
  BY DEF BusInv, BusMatcher, MatcherOK, PendingKnown, Genuine, UsedOnce, Complete
<1> QED BY <1>6, <1>7 DEF BusInv

\* Unplugging loses the bytes on the wire and no others.
LEMMA UnplugKeeps ==
    ASSUME BusInv, Unplug
    PROVE  BusInv'
<1>1. StreamOK(frames, <<>>) /\ AllBefore(buffer, <<>>) /\ AllOlder(decoded, <<>>)
  BY DEF StreamOK, AllBefore, AllOlder
<1>2. BusStream'
  BY <1>1 DEF Unplug, BusInv, BusStream
<1>3. BusMatcher'
  BY DEF Unplug, BusInv, BusMatcher, MatcherOK, PendingKnown, Genuine, UsedOnce, Complete
<1>4. BusControls'
  BY PassiveAssumption DEF Unplug, BusInv, BusControls
<1> QED BY <1>2, <1>3, <1>4 DEF BusInv

\* Opening the port flushes a part of the wire; buffer and matcher stay as they were.
LEMMA OpenKeeps ==
    ASSUME BusInv, Open
    PROVE  BusInv'
<1>1. PICK k \in Cuts : wire' = SubSeq(wire, k + 1, Len(wire))
  BY DEF Open
<1>2. k \in 0..Len(wire)
  <2>1. Len(wire) \in Nat /\ ChunkSizes \subseteq Nat
    BY BusFacts, PassiveAssumption
  <2> QED BY <2>1 DEF Cuts
<1>3. BusControls'
  <2>1. silent' \in BOOLEAN
    BY DEF Open
  <2> QED BY <2>1 DEF Open, BusInv, BusControls
<1>4. fd' = "live" /\ UNCHANGED <<frames, buffer, matcher, decoded>>
  BY DEF Open
<1> QED BY <1>1, <1>2, <1>3, <1>4, WireShortens

\* The counters that a suspect chunk adds say less than before of what is complete.
LEMMA SuspectKeeps ==
    ASSUME NEW m, NEW D, MatcherOK(m, D), NEW c \in SUBSET Counters, m.counters \subseteq c
    PROVE  MatcherOK([m EXCEPT !.counters = c], D)
<1> DEFINE n == [m EXCEPT !.counters = c]
<1>1. m \in Matchers
  BY DEF MatcherOK
<1>2. n \in Matchers /\ n.pending = m.pending /\ n.published = m.published /\ n.counters = c
  BY <1>1 DEF Matchers
<1> HIDE DEF n
<1>3. PendingKnown(n, D) /\ Genuine(n, D) /\ UsedOnce(n)
  BY <1>2 DEF MatcherOK, PendingKnown, Genuine, UsedOnce
<1>4. Complete(n, D)
  <2>1. n.counters = {} => m.counters = {}
    BY <1>2
  <2> QED BY <1>2, <2>1 DEF MatcherOK, Complete
<1>5. MatcherOK(n, D)
  BY <1>2, <1>3, <1>4 DEF MatcherOK
<1> QED BY <1>5 DEF n

\* A chunk read is decoded and matched as the invariant says.
LEMMA ReadKeeps ==
    ASSUME BusInv, ReadChunk
    PROVE  BusInv'
<1>1. PICK n \in Cuts \ {0} :
        LET fed     == Feed(buffer \o SubSeq(wire, 1, n))
            matched == FoldLeft(Accept, matcher, fed.frames)
            m       == [matched EXCEPT
                            !.counters = IF fed.suspect THEN @ \cup {"suspect_crc"} ELSE @]
        IN  /\ wire' = SubSeq(wire, n + 1, Len(wire))
            /\ buffer' = fed.buffer
            /\ matcher' = m
            /\ decoded' = decoded \o fed.frames
            /\ silent' = (silent /\ m.published = matcher.published)
            /\ status' = Health(m, silent')
  BY DEF ReadChunk
<1>2. UNCHANGED <<frames, unplugs, device, fd>> /\ fd = "live"
  BY DEF ReadChunk
<1> DEFINE a       == SubSeq(wire, 1, n)
           t       == SubSeq(wire, n + 1, Len(wire))
           s       == buffer \o a
           fed     == Feed(s)
           q       == fed.frames
           matched == FoldLeft(Accept, matcher, q)
           c       == IF fed.suspect THEN matched.counters \cup {"suspect_crc"}
                                     ELSE matched.counters
           D       == Range(decoded)
<1>3. /\ wire' = t /\ buffer' = fed.buffer /\ matcher' = [matched EXCEPT !.counters = c]
      /\ decoded' = decoded \o q
      /\ silent' \in BOOLEAN /\ status' \in {"ok", "degraded"}
  BY <1>1 DEF Health
<1>4. /\ FramesOK(frames) /\ StreamOK(frames, buffer) /\ StreamOK(frames, wire)
      /\ AllBefore(buffer, wire) /\ decoded \in Seq(DOMAIN frames)
      /\ AllOlder(decoded, buffer) /\ AllOlder(decoded, wire)
      /\ MatcherOK(matcher, D) /\ D \in SUBSET DOMAIN frames
      /\ Len(wire) \in Nat /\ DOMAIN wire = 1..Len(wire)
  BY BusFacts
<1>5. n \in 0..Len(wire)
  <2>1. Len(wire) \in Nat /\ ChunkSizes \subseteq Nat
    BY BusFacts, PassiveAssumption
  <2>2. n \in Cuts
    BY <1>1
  <2> QED BY <2>1, <2>2 DEF Cuts
<1>6. /\ StreamOK(frames, a) /\ StreamOK(frames, t) /\ AllBefore(a, t)
      /\ \A i \in DOMAIN a : \E j \in DOMAIN wire : a[i] = wire[j]
      /\ \A i \in DOMAIN t : \E j \in DOMAIN wire : t[i] = wire[j]
  <2>1. /\ StreamOK(frames, a) /\ StreamOK(frames, t) /\ AllBefore(a, t)
        /\ DOMAIN a = 1..n /\ DOMAIN t = 1 .. Len(wire) - n
        /\ \A i \in 1..n : a[i] = wire[i]
        /\ \A i \in 1 .. Len(wire) - n : t[i] = wire[n + i]
    BY <1>4, <1>5, StreamCut
  <2>2. \A i \in 1..n : i \in DOMAIN wire
    BY <1>4, <1>5
  <2>3. \A i \in 1 .. Len(wire) - n : n + i \in DOMAIN wire
    BY <1>4, <1>5
  <2> HIDE DEF a, t
  <2> QED BY <2>1, <2>2, <2>3
<1> HIDE DEF a, t
<1>7. AllBefore(buffer, a) /\ AllBefore(buffer, t)
  BY <1>4, <1>6 DEF AllBefore
<1>8. /\ StreamOK(frames, s)
      /\ \A i \in DOMAIN s : \/ \E j \in DOMAIN buffer : s[i] = buffer[j]
                             \/ \E j \in DOMAIN a : s[i] = a[j]
  <2> DEFINE F == frames
             b == buffer
  <2>1. StreamOK(F, b) /\ StreamOK(F, a) /\ AllBefore(b, a) /\ s = b \o a
    BY <1>4, <1>6, <1>7
  <2> HIDE DEF F, b, s
  <2>2. /\ StreamOK(F, b \o a)
        /\ \A i \in DOMAIN (b \o a) : \/ \E j \in DOMAIN b : (b \o a)[i] = b[j]
                                      \/ \E j \in DOMAIN a : (b \o a)[i] = a[j]
    BY <2>1, StreamJoined
  <2>3. /\ StreamOK(F, s)
        /\ \A i \in DOMAIN s : \/ \E j \in DOMAIN b : s[i] = b[j]
                               \/ \E j \in DOMAIN a : s[i] = a[j]
    BY <2>1, <2>2
  <2> QED BY <2>3 DEF F, b
<1> HIDE DEF s
<1>9. AllBefore(s, t) /\ AllOlder(decoded, s) /\ AllOlder(decoded, t)
  <2>1. AllBefore(s, t)
    BY <1>6, <1>7, <1>8 DEF AllBefore
  <2>2. AllOlder(decoded, a) /\ AllOlder(decoded, t)
    BY <1>4, <1>6 DEF AllOlder
  <2>3. AllOlder(decoded, s)
    BY <1>4, <1>8, <2>2 DEF AllOlder
  <2> QED BY <2>1, <2>2, <2>3
<1>10. /\ StreamOK(frames, fed.buffer) /\ AllBefore(fed.buffer, t)
       /\ Len(fed.buffer) < LongestFrame /\ fed.suspect \in BOOLEAN
       /\ q \in Seq(DOMAIN frames)
       /\ \A i, j \in DOMAIN q : i < j => q[i] < q[j]
       /\ \A i \in DOMAIN q : \E j \in DOMAIN s : s[j].id = q[i]
       /\ \A i \in DOMAIN q : \A j \in DOMAIN fed.buffer : q[i] < fed.buffer[j].id
       /\ \A i \in DOMAIN q : \A j \in DOMAIN t : q[i] < t[j].id
       /\ \A i \in DOMAIN fed.buffer : \E k \in DOMAIN s : fed.buffer[i] = s[k]
  <2>1. FramesOK(frames) /\ StreamOK(frames, s) /\ StreamOK(frames, t) /\ AllBefore(s, t)
    BY <1>4, <1>6, <1>8, <1>9
  <2> QED BY <2>1, FeedLeaves
<1> HIDE DEF fed
<1>11. /\ decoded \o q \in Seq(DOMAIN frames)
       /\ Range(decoded \o q) = D \cup {q[i] : i \in DOMAIN q}
       /\ \A i \in DOMAIN (decoded \o q) :
             \/ \E j \in DOMAIN decoded : (decoded \o q)[i] = decoded[j]
             \/ \E j \in DOMAIN q : (decoded \o q)[i] = q[j]
  <2> DEFINE u == decoded \o q
  <2>1. decoded \in Seq(DOMAIN frames) /\ q \in Seq(DOMAIN frames)
    BY <1>4, <1>10
  <2> HIDE DEF q
  <2>2. /\ u \in Seq(DOMAIN frames)
        /\ \A i \in DOMAIN u :
              \/ i \in DOMAIN decoded /\ u[i] = decoded[i]
              \/ i > Len(decoded) /\ i - Len(decoded) \in DOMAIN q /\ u[i] = q[i - Len(decoded)]
        /\ \A i \in DOMAIN decoded : i \in DOMAIN u /\ u[i] = decoded[i]
        /\ \A i \in DOMAIN q : i + Len(decoded) \in DOMAIN u /\ u[i + Len(decoded)] = q[i]
    BY <2>1, ConcatParts
  <2> HIDE DEF u
  <2>3. Range(u) = D \cup {q[i] : i \in DOMAIN q}
    BY <2>2 DEF Range
  <2> QED BY <2>2, <2>3 DEF u
<1>12. BusStream'
  <2>1. \A d \in DOMAIN decoded : \A i \in DOMAIN s : decoded[d] < s[i].id
    BY <1>9 DEF AllOlder
  <2>2. AllOlder(decoded \o q, fed.buffer)
    BY <1>10, <1>11, <2>1 DEF AllOlder
  <2>3. AllOlder(decoded \o q, t)
    BY <1>9, <1>10, <1>11 DEF AllOlder
  <2> QED BY <1>2, <1>3, <1>4, <1>6, <1>10, <1>11, <2>2, <2>3 DEF BusStream
<1>13. BusMatcher'
  <2> DEFINE E == D \cup {q[i] : i \in DOMAIN q}
  <2>1. \A i \in DOMAIN q : \A d \in D : d < q[i]
    BY <1>9, <1>10 DEF AllOlder, Range
  <2> HIDE DEF q, D
  <2>2. MatcherOK(matched, E)
    BY <1>4, <1>10, <2>1, MatchingKeeps
  <2> HIDE DEF matched
  <2>3. matched.counters \subseteq Counters
    BY <2>2 DEF MatcherOK, Matchers
  <2>4. c \in SUBSET Counters /\ matched.counters \subseteq c
    BY <2>3 DEF Counters
  <2> HIDE DEF c, E
  <2>5. MatcherOK([matched EXCEPT !.counters = c], E)
    BY <2>2, <2>4, SuspectKeeps
  <2>6. MatcherOK(matcher', E)
    BY <1>3, <2>5
  <2>7. Range(decoded)' = E
    BY <1>3, <1>11 DEF E, Range
  <2>8. PendingKnown(matcher, Range(decoded))' /\ Genuine(matcher, Range(decoded))'
    BY <1>2, <2>6, <2>7 DEF MatcherOK, PendingKnown, Genuine
  <2>9. Complete(matcher, Range(decoded))' /\ UsedOnce(matcher)' /\ matcher' \in Matchers
    BY <1>2, <2>6, <2>7 DEF MatcherOK, Complete, UsedOnce
  <2> QED BY <2>8, <2>9 DEF BusMatcher, MatcherOK, Matchers
<1>14. BusControls'
  BY <1>2, <1>3 DEF BusInv, BusControls
<1> QED BY <1>12, <1>13, <1>14 DEF BusInv

\* Every step keeps the invariant.
LEMMA BusStep == BusInv /\ [PassiveNext]_passiveVars => BusInv'
<1> SUFFICES ASSUME BusInv, [PassiveNext]_passiveVars PROVE BusInv'
  OBVIOUS
<1>1. CASE Send
  BY <1>1, SendKeeps
<1>2. CASE Unplug
  BY <1>2, UnplugKeeps
<1>3. CASE Replug
  <2>1. BusControls'
    BY <1>3 DEF Replug, BusInv, BusControls
  <2> QED BY <1>3, <2>1, ControlKeeps DEF Replug
<1>4. CASE Silence
  <2>1. BusControls'
    BY <1>4 DEF Silence, BusInv, BusControls
  <2> QED BY <1>4, <2>1, ControlKeeps DEF Silence
<1>5. CASE Open
  BY <1>5, OpenKeeps
<1>6. CASE OpenFails
  <2>1. BusControls'
    BY <1>6 DEF OpenFails, BusInv, BusControls
  <2> QED BY <1>6, <2>1, ControlKeeps DEF OpenFails
<1>7. CASE OpenRaises
  <2>1. BusControls'
    BY <1>7 DEF OpenRaises, BusInv, BusControls
  <2> QED BY <1>7, <2>1, ControlKeeps DEF OpenRaises
<1>8. CASE ReadChunk
  BY <1>8, ReadKeeps
<1>9. CASE ReadNothing
  <2>1. BusControls'
    BY <1>9 DEF ReadNothing, Health, BusInv, BusControls
  <2> QED BY <1>9, <2>1, ControlKeeps DEF ReadNothing
<1>10. CASE ReadFails
  <2>1. BusControls'
    BY <1>10 DEF ReadFails, BusInv, BusControls
  <2> QED BY <1>10, <2>1, ControlKeeps DEF ReadFails
<1>11. CASE UNCHANGED passiveVars
  <2>1. BusControls'
    BY <1>11 DEF passiveVars, BusInv, BusControls
  <2> QED BY <1>11, <2>1, ControlKeeps DEF passiveVars
<1> QED BY <1>1, <1>2, <1>3, <1>4, <1>5, <1>6, <1>7, <1>8, <1>9, <1>10, <1>11
        DEF PassiveNext, Bus, Worker

\* The stream between the bus and the published transactions stays as BusInv says.
THEOREM BusInvariant == PassiveSpec => []BusInv
BY InitBus, BusStep, PTL DEF PassiveSpec

\* The variables hold what they should, and the decoder never keeps as many bytes as the
\* longest frame it may be waiting for (RTUStreamDecoder._buffer).
THEOREM PassiveTypesOK == PassiveSpec => []PassiveTypeOK
<1>1. BusInv => PassiveTypeOK
  <2> SUFFICES ASSUME BusInv PROVE PassiveTypeOK
    OBVIOUS
  <2>1. DOMAIN frames \subseteq Ids
    <3>1. frames \in Seq(Frames) /\ Len(frames) <= MaxFrames
      BY BusFacts DEF FramesOK
    <3> QED BY <3>1, PassiveAssumption DEF Ids
  <2>2. \A s : StreamOK(frames, s) => s \in Seq([id : Ids, at : Nat])
    <3> SUFFICES ASSUME NEW s, StreamOK(frames, s) PROVE s \in Seq([id : Ids, at : Nat])
      OBVIOUS
    <3>1. s \in Seq(BytesOf(frames))
      BY BytesType
    <3>2. BytesOf(frames) \subseteq [id : Ids, at : Nat]
      BY <2>1 DEF BytesOf
    <3> DEFINE B == BytesOf(frames)
               C == [id : Ids, at : Nat]
    <3> HIDE DEF B, C
    <3>3. s \in Seq(B) /\ B \subseteq C
      BY <3>1, <3>2 DEF B, C
    <3>4. s \in Seq(C)
      BY <3>3
    <3> QED BY <3>4 DEF C
  <2>3. wire \in Seq([id : Ids, at : Nat]) /\ buffer \in Seq([id : Ids, at : Nat])
    BY <2>2, BusFacts
  <2>4. decoded \in Seq(Ids)
    BY <2>1, BusFacts
  <2>5. matcher \in Matchers
    BY BusFacts DEF MatcherOK
  <2>6. /\ matcher.pending \in [Slaves -> Ids \cup {None}]
        /\ matcher.counters \subseteq Counters /\ matcher.published \in Seq(Transactions)
    BY <2>5 DEF Matchers
  <2>7. frames \in Seq(Frames) /\ Len(frames) <= MaxFrames
    BY BusFacts DEF FramesOK
  <2>8. Len(buffer) < Max({8, FalseLength} \cup {5 + 2 * Count[b] : b \in Blocks})
    BY DEF BusInv, BusStream, LongestFrame
  <2> QED BY <2>3, <2>4, <2>6, <2>7, <2>8 DEF PassiveTypeOK, BusInv, BusControls
<1> QED BY <1>1, BusInvariant, PTL

\* What is published is what was asked: a response is paired with an earlier request for the
\* same registers of the same meter, and neither is used twice (TransactionMatcher.accept).
THEOREM BusTransactionsGenuine == PassiveSpec => []TransactionsGenuine
<1>1. BusInv => TransactionsGenuine
  <2> SUFFICES ASSUME BusInv PROVE TransactionsGenuine
    OBVIOUS
  <2>1. MatcherOK(matcher, Range(decoded))
    BY BusFacts
  <2>2. DOMAIN matcher.published = 1..Len(matcher.published)
    BY <2>1 DEF MatcherOK, Matchers
  <2> QED BY <2>1, <2>2 DEF TransactionsGenuine, MatcherOK, Genuine, UsedOnce
<1> QED BY <1>1, BusInvariant, PTL

\* While every counter is zero each request the decoder returned was answered in a published
\* transaction or is still pending, and each response was published.
THEOREM BusCleanMeansComplete == PassiveSpec => []CleanMeansComplete
<1>1. BusInv => CleanMeansComplete
  <2> SUFFICES ASSUME BusInv PROVE CleanMeansComplete
    OBVIOUS
  <2>1. Complete(matcher, Range(decoded))
    BY BusFacts DEF MatcherOK
  <2>2. \A i \in DOMAIN matcher.published : matcher.published[i] \in Range(matcher.published)
    BY DEF Range
  <2> QED BY <2>1, <2>2 DEF CleanMeansComplete, Complete
<1> QED BY <1>1, BusInvariant, PTL

-----------------------------------------------------------------------------
(***************************************************************************)
(* The frames of a stream in the order in which they were sent.            *)
(***************************************************************************)

\* Ascending is the one order of a set.
LEMMA AscendingIs ==
    ASSUME NEW S, NEW q, InOrder(q, S)
    PROVE  Ascending(S) = q
<1> DEFINE n == Len(q)
<1>1. /\ q \in Seq(Nat) /\ n \in Nat /\ DOMAIN q = 1..n
      /\ \A i \in DOMAIN q : q[i] \in Nat /\ q[i] \in S
      /\ \A x \in S : \E i \in DOMAIN q : q[i] = x
      /\ \A i, j \in DOMAIN q : i < j => q[i] < q[j]
  BY OrderFacts
<1>2. q \in [1..n -> S]
  BY <1>1
<1>3. q \in Bijection(1..n, S)
  <2>1. \A i, j \in 1..n : q[i] = q[j] => i = j
    <3> SUFFICES ASSUME NEW i \in 1..n, NEW j \in 1..n, q[i] = q[j], i # j PROVE FALSE
      OBVIOUS
    <3>1. i < j \/ j < i
      BY <1>1
    <3>2. q[i] < q[j] \/ q[j] < q[i]
      BY <1>1, <3>1
    <3> QED BY <1>1, <3>2
  <2>2. q \in Injection(1..n, S)
    BY <1>2, <2>1 DEF Injection, IsInjective
  <2>3. q \in Surjection(1..n, S)
    BY <1>1, <1>2 DEF Surjection
  <2> QED BY <2>2, <2>3 DEF Bijection
<1>4. IsFiniteSet(S) /\ Cardinality(S) = n
  <2>1. IsFiniteSet(1..n) /\ Cardinality(1..n) = n
    BY <1>1, FS_Interval, SMTT(30)
  <2>2. ExistsBijection(1..n, S)
    BY <1>3 DEF ExistsBijection
  <2> QED BY <2>1, <2>2, FS_Bijection
<1> DEFINE Good(p) == \A i, j \in 1..n : i < j => p[i] < p[j]
           p == CHOOSE p \in [1..n -> S] : Good(p)
<1>5. Ascending(S) = p
  BY <1>4 DEF Ascending
<1>6. Good(q)
  BY <1>1
<1>7. p \in [1..n -> S] /\ Good(p)
  <2> HIDE DEF Good
  <2> QED BY <1>2, <1>6
<1> HIDE DEF p, Good
<1>8. p \in Injection(1..n, S)
  <2>0. \A i \in 1..n : p[i] \in Nat
    BY <1>1, <1>7
  <2>1. \A i, j \in 1..n : p[i] = p[j] => i = j
    <3> SUFFICES ASSUME NEW i \in 1..n, NEW j \in 1..n, p[i] = p[j], i # j PROVE FALSE
      OBVIOUS
    <3>1. i < j \/ j < i
      BY <1>1
    <3>2. p[i] < p[j] \/ p[j] < p[i]
      BY <1>7, <3>1 DEF Good
    <3> QED BY <2>0, <3>2
  <2> QED BY <1>7, <2>1 DEF Injection, IsInjective
<1>9. p \in Surjection(1..n, S)
  <2>1. IsFiniteSet(1..n) /\ Cardinality(1..n) = n
    BY <1>1, FS_Interval, SMTT(30)
  <2> QED BY <1>4, <1>8, <2>1, FS_Injection
<1>10. InOrder(p, S)
  <2>1. \A i \in 1..n : p[i] \in Nat
    BY <1>1, <1>7
  <2>2. p \in Seq(Nat) /\ DOMAIN p = 1..n
    BY <1>1, <1>7, <2>1
  <2>3. S = {p[a] : a \in 1..n}
    BY <1>7, <1>9 DEF Surjection
  <2> QED BY <1>7, <2>2, <2>3 DEF InOrder, Good
<1>11. p = q
  BY <1>10, OrderUnique
<1> QED BY <1>5, <1>11

\* A set with later elements added.
LEMMA AscendingGrows ==
    ASSUME NEW n \in Nat, NEW B \in SUBSET (1..n), NEW A \in SUBSET B,
           \A a \in A, b \in B \ A : a < b
    PROVE  /\ InOrder(Ascending(A), A)
           /\ \E r : InOrder(r, B \ A) /\ Ascending(B) = Ascending(A) \o r
<1>1. PICK p : InOrder(p, A)
  <2>1. A \in SUBSET (1..n)
    OBVIOUS
  <2> QED BY <2>1, OrderExists
<1>2. PICK r : InOrder(r, B \ A)
  <2>1. B \ A \in SUBSET (1..n)
    OBVIOUS
  <2> QED BY <2>1, OrderExists
<1>3. A \cup (B \ A) = B
  OBVIOUS
<1>4. InOrder(p \o r, A \cup (B \ A))
  BY <1>1, <1>2, OrderConcat
<1>5. Ascending(B) = p \o r
  BY <1>3, <1>4, AscendingIs
<1>6. Ascending(A) = p
  BY <1>1, AscendingIs
<1> QED BY <1>1, <1>2, <1>5, <1>6

-----------------------------------------------------------------------------
(***************************************************************************)
(* The frames that are whole in a stream.                                  *)
(***************************************************************************)

\* WholeAt for frames F
WholeOf(F, s, i) ==
    LET n == FullLength(F[s[i].id])
    IN  /\ s[i].at = 0 /\ i + n - 1 <= Len(s) /\ F[s[i].id].damage = "intact"
        /\ \A k \in 1..n : s[i + k - 1] = [id |-> s[i].id, at |-> k - 1]

WholeIds(F, s) == {s[i].id : i \in {k \in DOMAIN s : WholeOf(F, s, k)}}

Unread == IF fd = "live" THEN buffer \o wire ELSE buffer

\* WholeAt of the model is WholeOf of the proofs.
LEMMA WholeAtOf ==
    ASSUME NEW s, NEW i
    PROVE  WholeAt(s, i) <=> WholeOf(frames, s, i)
BY DEF WholeAt, WholeOf, ValidCrc

\* The channel holds the whole frames not read yet.
LEMMA QueueIs == Queue = Ascending(WholeIds(frames, Unread))
<1>1. ASSUME NEW s PROVE Whole(s) = Ascending(WholeIds(frames, s))
  <2>1. \A i : WholeAt(s, i) <=> WholeOf(frames, s, i)
    BY WholeAtOf
  <2>2. {k \in DOMAIN s : WholeAt(s, k)} = {k \in DOMAIN s : WholeOf(frames, s, k)}
    BY <2>1
  <2> QED BY <2>2 DEF Whole, WholeIds
<1> QED BY <1>1 DEF Queue, Unread

\* And so it does after a step.
LEMMA QueueIsNext == Queue' = Ascending(WholeIds(frames', Unread'))
<1>2. Whole(buffer)' = Ascending(WholeIds(frames', buffer'))
  <2>1. \A i : WholeAt(buffer, i)' <=> WholeOf(frames', buffer', i)
    BY DEF WholeAt, WholeOf, ValidCrc
  <2> QED BY <2>1 DEF Whole, WholeIds
<1>3. Whole(buffer \o wire)' = Ascending(WholeIds(frames', buffer' \o wire'))
  <2>1. \A i : WholeAt(buffer \o wire, i)' <=> WholeOf(frames', buffer' \o wire', i)
    BY DEF WholeAt, WholeOf, ValidCrc
  <2> QED BY <2>1 DEF Whole, WholeIds
<1> QED BY <1>2, <1>3 DEF Queue, Unread

\* Whole frames are frames, known by where they begin.
LEMMA WholeIdsType ==
    ASSUME FramesOK(frames), NEW s, StreamOK(frames, s)
    PROVE  /\ WholeIds(frames, s) \in SUBSET (1..Len(frames)) /\ Len(frames) \in Nat
           /\ \A i \in DOMAIN s : WholeAt(s, i) => s[i].id \in WholeIds(frames, s)
           /\ \A x \in WholeIds(frames, s) : \E i \in DOMAIN s : WholeAt(s, i) /\ x = s[i].id
<1>1. DOMAIN frames = 1..Len(frames) /\ Len(frames) \in Nat
  BY DEF FramesOK
<1>2. \A i \in DOMAIN s : s[i].id \in DOMAIN frames
  BY BytesType
<1>3. \A i \in DOMAIN s : WholeAt(s, i) <=> WholeOf(frames, s, i)
  BY WholeAtOf
<1> QED BY <1>1, <1>2, <1>3 DEF WholeIds

\* A frame that is whole in s \o t, but not in s, ends in t.
LEMMA WholeConcat ==
    ASSUME FramesOK(frames), NEW s, NEW t, StreamOK(frames, s), StreamOK(frames, t),
           AllBefore(s, t)
    PROVE  LET A == WholeIds(frames, s)
               B == WholeIds(frames, s \o t)
           IN  /\ StreamOK(frames, s \o t) /\ A \in SUBSET B
               /\ \A b \in B \ A : \E j \in DOMAIN t : t[j].id = b
               /\ \A a \in A, b \in B \ A : a < b
<1> DEFINE u == s \o t
           A == WholeIds(frames, s)
           B == WholeIds(frames, u)
<1>1. StreamOK(frames, u)
  BY StreamJoined
<1>2. /\ s \in Seq(BytesOf(frames)) /\ t \in Seq(BytesOf(frames))
      /\ Len(s) \in Nat /\ Len(t) \in Nat
      /\ DOMAIN s = 1..Len(s) /\ DOMAIN t = 1..Len(t)
      /\ \A i \in DOMAIN t : t[i] \in BytesOf(frames) /\ t[i].at < FullLength(frames[t[i].id])
  BY BytesType
<1>3. /\ DOMAIN u = 1 .. Len(s) + Len(t)
      /\ \A i \in DOMAIN u :
            \/ i \in DOMAIN s /\ u[i] = s[i]
            \/ i > Len(s) /\ i - Len(s) \in DOMAIN t /\ u[i] = t[i - Len(s)]
      /\ \A i \in DOMAIN s : i \in DOMAIN u /\ u[i] = s[i]
  BY <1>2, ConcatParts
<1>4. \A i \in 1..Len(s) :
         WholeAt(s, i) <=> /\ WholeAt(u, i)
                           /\ i + FullLength(frames[s[i].id]) - 1 <= Len(s)
  BY <1>2, WholeInPart
<1>5. A \in SUBSET B
  <2> SUFFICES ASSUME NEW a \in A PROVE a \in B
    OBVIOUS
  <2>1. PICK i \in DOMAIN s : WholeAt(s, i) /\ a = s[i].id
    BY WholeIdsType
  <2>2. i \in DOMAIN u /\ WholeAt(u, i) /\ u[i].id = a
    BY <1>2, <1>3, <1>4, <2>1
  <2> HIDE DEF u
  <2> QED BY <1>1, <2>2, WholeIdsType
<1>6. ASSUME NEW b \in B \ A
      PROVE  \E j \in DOMAIN t : /\ t[j].id = b
                                 /\ \A a \in A : a < b
  <2>1. PICK i \in DOMAIN u : WholeAt(u, i) /\ b = u[i].id
    <3> HIDE DEF u
    <3> QED BY <1>1, <1>6, WholeIdsType
  <2> DEFINE n == FullLength(frames[u[i].id])
             e == i + n - 1
  <2>2. n \in Nat /\ n >= 5 /\ i \in Nat /\ i >= 1 /\ Len(u) = Len(s) + Len(t)
    <3>1. u[i].id \in DOMAIN frames
      <4> HIDE DEF u
      <4> QED BY <1>1, BytesType
    <3>2. FrameOK(frames[u[i].id])
      BY <3>1 DEF FramesOK
    <3>3. n \in 5..LongestFrame /\ LongestFrame \in Nat
      BY <3>2, LengthRange, LongestIs
    <3>4. Len(u) = Len(s) + Len(t)
      BY <1>2, ConcatProperties
    <3> QED BY <1>2, <1>3, <3>3, <3>4
  <2> HIDE DEF u
  <2>3. e <= Len(u) /\ u[e] = [id |-> b, at |-> n - 1]
    <3>1. n \in 1..n
      BY <2>2
    <3> QED BY <2>1, <2>2, <3>1 DEF WholeAt, ValidCrc
  <2>4. e > Len(s)
    <3> SUFFICES ASSUME e <= Len(s) PROVE FALSE
      BY <1>2, <2>2
    <3>1. i \in 1..Len(s) /\ u[i] = s[i]
      BY <1>2, <1>3, <2>2
    <3>2. WholeAt(s, i)
      BY <1>4, <2>1, <3>1
    <3>3. s[i].id \in A
      BY <1>2, <3>1, <3>2, WholeIdsType
    <3> QED BY <1>6, <2>1, <3>1, <3>3
  <2> DEFINE j == e - Len(s)
  <2>5. j \in DOMAIN t /\ t[j] = [id |-> b, at |-> n - 1]
    <3>1. e \in DOMAIN u /\ e \notin DOMAIN s
      BY <1>2, <1>3, <2>2, <2>3, <2>4
    <3> QED BY <1>3, <2>3, <3>1
  <2>6. ASSUME NEW a \in A PROVE a < b
    <3>1. PICK k \in DOMAIN s : WholeAt(s, k) /\ a = s[k].id
      BY WholeIdsType
    <3> DEFINE m == FullLength(frames[s[k].id])
               l == k + m - 1
    <3>2. m \in Nat /\ m >= 5 /\ k \in Nat /\ k >= 1
      <4>1. s[k].id \in DOMAIN frames
        BY BytesType
      <4>2. FrameOK(frames[s[k].id])
        BY <4>1 DEF FramesOK
      <4>3. m \in 5..LongestFrame /\ LongestFrame \in Nat
        BY <4>2, LengthRange, LongestIs
      <4> QED BY <1>2, <4>3
    <3>3. l <= Len(s)
      BY <3>1 DEF WholeAt
    <3>4. l \in DOMAIN s
      BY <1>2, <3>2, <3>3
    <3>5. Before(s[l], t[j])
      BY <2>5, <3>4 DEF AllBefore
    <3>6. t[j] \in BytesOf(frames) /\ t[j].at < FullLength(frames[t[j].id])
      BY <1>2, <2>5
    <3>7. s[k].id < t[j].id
      BY <3>1, <3>5, <3>6, WholeIsOver
    <3> QED BY <2>5, <3>1, <3>7
  <2>7. t[j].id = b
    BY <2>5
  <2> QED BY <2>5, <2>6, <2>7
<1>7. \A b \in B \ A : \E j \in DOMAIN t : t[j].id = b
  BY <1>6
<1>8. \A a \in A, b \in B \ A : a < b
  BY <1>6
<1> QED BY <1>1, <1>5, <1>7, <1>8

\* What is whole in the end v of u is whole in u.
LEMMA WholeInEnd ==
    ASSUME FramesOK(frames), NEW u, StreamOK(frames, u), NEW j \in 0..Len(u),
           NEW v, StreamOK(frames, v), Len(v) = Len(u) - j,
           \A i \in DOMAIN v : v[i] = u[j + i], NEW i \in DOMAIN v
    PROVE  j + i \in DOMAIN u /\ (WholeAt(v, i) <=> WholeAt(u, j + i))
<1>1. /\ DOMAIN u = 1..Len(u) /\ Len(u) \in Nat /\ DOMAIN v = 1..Len(v) /\ Len(v) \in Nat
      /\ v[i].id \in DOMAIN frames
  BY BytesType
<1> DEFINE n == FullLength(frames[v[i].id])
<1>2. n \in Nat
  <2>1. FrameOK(frames[v[i].id])
    BY <1>1 DEF FramesOK
  <2> QED BY <2>1, LengthRange, LongestIs
<1>3. i \in Nat /\ i >= 1 /\ j \in Nat /\ j + i \in DOMAIN u /\ u[j + i] = v[i]
  BY <1>1
<1>4. i + n - 1 <= Len(v) <=> (j + i) + n - 1 <= Len(u)
  BY <1>1, <1>2, <1>3
<1>5. ASSUME i + n - 1 <= Len(v), NEW k \in 1..n
      PROVE  v[i + k - 1] = u[(j + i) + k - 1]
  <2>1. i + k - 1 \in DOMAIN v /\ j + (i + k - 1) = (j + i) + k - 1
    BY <1>1, <1>2, <1>3, <1>5
  <2> QED BY <2>1
<1>6. i + n - 1 <= Len(v) => (ValidCrc(v, i, n) <=> ValidCrc(u, j + i, n))
  <2> SUFFICES ASSUME i + n - 1 <= Len(v) PROVE ValidCrc(v, i, n) <=> ValidCrc(u, j + i, n)
    OBVIOUS
  <2>1. \A k \in 1..n : v[i + k - 1] = u[(j + i) + k - 1]
    BY <1>5
  <2> HIDE DEF n
  <2> QED BY <1>3, <2>1 DEF ValidCrc
<1> QED BY <1>3, <1>4, <1>6 DEF WholeAt

\* Feed returns the frames that are whole in what has arrived and leaves the later ones.
LEMMA FeedConserves ==
    ASSUME FramesOK(frames), NEW s, NEW t, StreamOK(frames, s), StreamOK(frames, t),
           AllBefore(s, t)
    PROVE  Ascending(WholeIds(frames, s \o t)) =
               Feed(s).frames \o Ascending(WholeIds(frames, Feed(s).buffer \o t))
<1> DEFINE r == Feed(s)
           u == s \o t
           v == r.buffer \o t
           A == {r.frames[a] : a \in DOMAIN r.frames}
           B == WholeIds(frames, v)
<1>1. /\ s \in Seq(BytesOf(frames)) /\ t \in Seq(BytesOf(frames))
      /\ Len(s) \in Nat /\ Len(t) \in Nat /\ DOMAIN s = 1..Len(s) /\ DOMAIN t = 1..Len(t)
  BY BytesType
<1>2. PICK j \in 0..Len(s) : RecoveredTo(s, t, 0, j, r)
  <2>1. Recovered(s, t, 0, r)
    BY <1>1, FeedRecovers
  <2> HIDE DEF r
  <2> QED BY <2>1 DEF Recovered
<1>3. /\ StreamOK(frames, r.buffer) /\ AllBefore(r.buffer, t)
      /\ r.frames \in Seq(DOMAIN frames)
      /\ \A a, b \in DOMAIN r.frames : a < b => r.frames[a] < r.frames[b]
      /\ \A a \in DOMAIN r.frames : \A i \in DOMAIN r.buffer : r.frames[a] < r.buffer[i].id
      /\ \A a \in DOMAIN r.frames : \A i \in DOMAIN t : r.frames[a] < t[i].id
  BY FeedLeaves
<1> HIDE DEF r
<1>4. r.buffer = SubSeq(s, j + 1, Len(s))
  BY <1>2 DEF RecoveredTo, RestOf
<1>5. StreamOK(frames, u)
  BY StreamJoined
<1>6. StreamOK(frames, v)
  BY <1>3, StreamJoined
<1>7. /\ DOMAIN u = 1 .. Len(s) + Len(t) /\ Len(u) = Len(s) + Len(t)
      /\ \A i \in DOMAIN s : i \in DOMAIN u /\ u[i] = s[i]
      /\ \A i \in DOMAIN t : i + Len(s) \in DOMAIN u /\ u[i + Len(s)] = t[i]
  <2>1. Len(u) = Len(s) + Len(t)
    BY <1>1, ConcatProperties
  <2> QED BY <1>1, <2>1, ConcatParts
<1>8. /\ r.buffer \in Seq(BytesOf(frames)) /\ Len(r.buffer) = Len(s) - j
      /\ DOMAIN r.buffer = 1 .. Len(s) - j
      /\ \A i \in DOMAIN r.buffer : j + i \in DOMAIN s /\ r.buffer[i] = s[j + i]
  <2>1. /\ DOMAIN r.buffer = 1 .. Len(s) - j
        /\ \A i \in 1 .. Len(s) - j : r.buffer[i] = s[j + i]
    BY <1>4, StreamCut
  <2>2. r.buffer \in Seq(BytesOf(frames))
    BY <1>3, BytesType
  <2>3. Len(r.buffer) = Len(s) - j
    <3>1. Len(RestOf(s, j)) = Len(s) - j
      BY <1>1, RestBytes
    <3> QED BY <1>4, <3>1 DEF RestOf
  <2>4. \A i \in 1 .. Len(s) - j : j + i \in DOMAIN s
    BY <1>1
  <2> QED BY <2>1, <2>2, <2>3, <2>4
<1>9. /\ Len(v) = Len(u) - j /\ DOMAIN v = 1..Len(v) /\ j \in 0..Len(u)
      /\ \A i \in DOMAIN v : \/ i \in DOMAIN r.buffer /\ v[i] = r.buffer[i]
                             \/ /\ i - Len(r.buffer) \in DOMAIN t
                                /\ v[i] = t[i - Len(r.buffer)]
  <2>1. Len(v) = Len(r.buffer) + Len(t)
    BY <1>1, <1>8, ConcatProperties
  <2>2. \A i \in DOMAIN v : \/ i \in DOMAIN r.buffer /\ v[i] = r.buffer[i]
                            \/ /\ i - Len(r.buffer) \in DOMAIN t
                               /\ v[i] = t[i - Len(r.buffer)]
    <3>1. r.buffer \in Seq(BytesOf(frames)) /\ t \in Seq(BytesOf(frames))
      BY <1>1, <1>8
    <3>2. \A i \in DOMAIN (r.buffer \o t) :
             \/ i \in DOMAIN r.buffer /\ (r.buffer \o t)[i] = r.buffer[i]
             \/ i > Len(r.buffer) /\ i - Len(r.buffer) \in DOMAIN t
                /\ (r.buffer \o t)[i] = t[i - Len(r.buffer)]
      BY <3>1, ConcatParts
    <3> QED BY <3>2
  <2>3. DOMAIN v = 1..Len(v)
    BY <1>6, BytesType
  <2> HIDE DEF u, v
  <2>4. Len(v) = Len(u) - j /\ j \in 0..Len(u)
    <3> DEFINE a == Len(s)
               b == Len(t)
               c == Len(r.buffer)
    <3>1. a \in Nat /\ b \in Nat /\ c = a - j /\ Len(v) = c + b /\ Len(u) = a + b /\ j \in 0..a
      BY <1>1, <1>7, <1>8, <2>1
    <3> HIDE DEF a, b, c
    <3> QED BY <3>1
  <2> QED BY <2>2, <2>3, <2>4
<1> HIDE DEF u, v
<1>10. \A i \in DOMAIN v : v[i] = u[j + i]
  <2> SUFFICES ASSUME NEW i \in DOMAIN v PROVE v[i] = u[j + i]
    OBVIOUS
  <2>1. CASE i \in DOMAIN r.buffer /\ v[i] = r.buffer[i]
    <3>1. j + i \in DOMAIN s /\ r.buffer[i] = s[j + i]
      BY <1>8, <2>1
    <3> QED BY <1>7, <2>1, <3>1
  <2>2. CASE i - Len(r.buffer) \in DOMAIN t /\ v[i] = t[i - Len(r.buffer)]
    <3>1. u[(i - Len(r.buffer)) + Len(s)] = t[i - Len(r.buffer)]
      BY <1>7, <2>2
    <3>2. (i - Len(r.buffer)) + Len(s) = j + i
      <4>1. i \in Int /\ Len(s) \in Nat /\ j \in Int /\ Len(r.buffer) = Len(s) - j
        <5>1. i \in Int
          BY <1>9
        <5>2. Len(s) \in Nat /\ Len(r.buffer) = Len(s) - j
          BY <1>1, <1>8
        <5>3. j \in Int
          OBVIOUS
        <5> QED BY <5>1, <5>2, <5>3
      <4> QED BY <4>1
    <3> QED BY <2>2, <3>1, <3>2
  <2> QED BY <1>9, <2>1, <2>2
<1>11. \A i \in DOMAIN v : j + i \in DOMAIN u /\ (WholeAt(v, i) <=> WholeAt(u, j + i))
  BY <1>5, <1>6, <1>9, <1>10, WholeInEnd
<1>12. \A i \in 1..Len(s) : WholeAt(s, i) => WholeAt(u, i)
  BY <1>1, WholeInPart DEF u
<1>13. WholeIds(frames, u) \subseteq A \cup B
  <2> SUFFICES ASSUME NEW x \in WholeIds(frames, u) PROVE x \in A \cup B
    OBVIOUS
  <2>1. PICK i \in DOMAIN u : WholeAt(u, i) /\ x = u[i].id
    BY <1>5, WholeIdsType
  <2>2. CASE i <= j
    <3>1. i \in 0 + 1 .. j /\ i \in DOMAIN s
      BY <1>1, <1>7, <2>2
    <3>2. \E a \in DOMAIN r.frames : r.frames[a] = s[i].id
      BY <1>2, <2>1, <3>1 DEF RecoveredTo, u
    <3>3. u[i] = s[i]
      BY <1>7, <3>1
    <3> QED BY <2>1, <3>2, <3>3
  <2>3. CASE ~(i <= j)
    <3>1. i - j \in DOMAIN v /\ j + (i - j) = i
      BY <1>1, <1>7, <1>9, <2>3
    <3>2. WholeAt(v, i - j) /\ v[i - j].id = x
      BY <1>10, <1>11, <2>1, <3>1
    <3> QED BY <1>6, <3>1, <3>2, WholeIdsType
  <2> QED BY <2>2, <2>3
<1>14. A \subseteq WholeIds(frames, u)
  <2> SUFFICES ASSUME NEW a \in DOMAIN r.frames PROVE r.frames[a] \in WholeIds(frames, u)
    OBVIOUS
  <2>1. PICK i \in 0 + 1 .. j : WholeAt(s, i) /\ s[i].id = r.frames[a]
    BY <1>2 DEF RecoveredTo
  <2>2. i \in 1..Len(s) /\ i \in DOMAIN u /\ u[i] = s[i]
    BY <1>1, <1>7
  <2>3. WholeAt(u, i)
    BY <1>12, <2>1, <2>2
  <2> QED BY <1>5, <2>1, <2>2, <2>3, WholeIdsType
<1>15. B \subseteq WholeIds(frames, u)
  <2> SUFFICES ASSUME NEW x \in B PROVE x \in WholeIds(frames, u)
    OBVIOUS
  <2>1. PICK i \in DOMAIN v : WholeAt(v, i) /\ x = v[i].id
    BY <1>6, WholeIdsType
  <2>2. j + i \in DOMAIN u /\ WholeAt(u, j + i) /\ u[j + i].id = x
    BY <1>10, <1>11, <2>1
  <2> QED BY <1>5, <2>2, WholeIdsType
<1>16. WholeIds(frames, u) = A \cup B
  BY <1>13, <1>14, <1>15
<1>17. \A a \in A, b \in B : a < b
  <2> SUFFICES ASSUME NEW a \in DOMAIN r.frames, NEW b \in B PROVE r.frames[a] < b
    OBVIOUS
  <2>1. PICK i \in DOMAIN v : b = v[i].id
    BY <1>6, WholeIdsType
  <2> QED BY <1>3, <1>9, <2>1
<1>18. InOrder(r.frames, A)
  <2>1. DOMAIN frames \subseteq Nat
    BY DEF FramesOK
  <2>2. r.frames \in Seq(Nat)
    BY <1>3, <2>1
  <2> QED BY <1>3, <2>2 DEF InOrder
<1>19. PICK q : InOrder(q, B)
  <2>1. B \in SUBSET (1..Len(frames)) /\ Len(frames) \in Nat
    BY <1>6, WholeIdsType
  <2> QED BY <2>1, OrderExists
<1> HIDE DEF A, B
<1>20. InOrder(r.frames \o q, A \cup B)
  BY <1>17, <1>18, <1>19, OrderConcat
<1>21. Ascending(WholeIds(frames, u)) = r.frames \o q
  BY <1>16, <1>20, AscendingIs
<1>22. Ascending(B) = q
  BY <1>19, AscendingIs
<1>23. Ascending(WholeIds(frames, u)) = r.frames \o Ascending(B)
  BY <1>21, <1>22
<1> QED BY <1>23 DEF r, u, v, B

\* A frame sent is whole at most by itself.
LEMMA WholeIdsSent ==
    ASSUME FramesOK(frames), Len(frames) < MaxFrames, NEW f, FrameOK(f),
           NEW u, StreamOK(frames, u)
    PROVE  LET G  == Append(frames, f)
               id == Len(frames) + 1
               W  == WholeIds(frames, u)
           IN  /\ WholeIds(G, u) = W
               /\ WholeIds(G, u \o Bytes(id, f)) \in {W, W \cup {id}}
<1> DEFINE G  == Append(frames, f)
           id == Len(frames) + 1
           W  == WholeIds(frames, u)
           b  == Bytes(id, f)
           w  == u \o b
<1>1. /\ FramesOK(G) /\ DOMAIN G = 1..id /\ DOMAIN frames \subseteq DOMAIN G /\ id \in Nat
      /\ \A d \in DOMAIN frames : G[d] = frames[d] /\ d < id
      /\ StreamOK(G, u) /\ AllBefore(u, b) /\ StreamOK(G, b)
      /\ \A i \in DOMAIN b : b[i].id = id
  BY FramesGrow
<1> HIDE DEF G, b
<1>2. /\ DOMAIN u = 1..Len(u) /\ Len(u) \in Nat
      /\ \A i \in DOMAIN u : u[i].id \in DOMAIN frames
  BY BytesType
<1>3. u \in Seq(BytesOf(G)) /\ b \in Seq(BytesOf(G))
  BY <1>1, BytesType
<1>4. StreamOK(G, w)
  BY <1>1, StreamJoined
<1>5. /\ DOMAIN w = 1 .. Len(u) + Len(b)
      /\ \A i \in DOMAIN w : \/ i \in DOMAIN u /\ w[i] = u[i]
                             \/ i > Len(u) /\ i - Len(u) \in DOMAIN b /\ w[i] = b[i - Len(u)]
      /\ \A i \in DOMAIN u : i \in DOMAIN w /\ w[i] = u[i]
  BY <1>3, ConcatParts
<1>6. DOMAIN w = 1..Len(w) /\ Len(w) \in Nat
  BY <1>4, BytesType
<1> HIDE DEF w
<1>7. \A i \in DOMAIN w : w[i].id # id => i \in DOMAIN u
  BY <1>1, <1>5
<1>8. ASSUME NEW i \in DOMAIN u
      PROVE  /\ WholeOf(G, u, i) <=> WholeOf(frames, u, i)
             /\ WholeOf(frames, u, i) => WholeOf(G, w, i)
             /\ WholeOf(G, w, i) => WholeOf(frames, u, i)
  <2> DEFINE n == FullLength(frames[u[i].id])
  <2>1. G[u[i].id] = frames[u[i].id] /\ u[i].id # id /\ w[i] = u[i] /\ i \in Nat /\ i >= 1
    BY <1>1, <1>2, <1>5
  <2>2. n \in Nat /\ n >= 1
    <3>1. FrameOK(frames[u[i].id])
      BY <1>2 DEF FramesOK
    <3>2. n \in 5..LongestFrame /\ LongestFrame \in Nat
      BY <3>1, LengthRange, LongestIs
    <3> QED BY <3>2
  <2>3. WholeOf(G, u, i) <=> WholeOf(frames, u, i)
    BY <2>1 DEF WholeOf
  <2>4. ASSUME WholeOf(frames, u, i) PROVE WholeOf(G, w, i)
    <3>1. /\ u[i].at = 0 /\ i + n - 1 <= Len(u) /\ frames[u[i].id].damage = "intact"
          /\ \A k \in 1..n : u[i + k - 1] = [id |-> u[i].id, at |-> k - 1]
      BY <2>4 DEF WholeOf
    <3>2. \A k \in 1..n : i + k - 1 \in DOMAIN u
      BY <1>2, <2>1, <2>2, <3>1
    <3>3. \A k \in 1..n : w[i + k - 1] = [id |-> u[i].id, at |-> k - 1]
      BY <1>5, <3>1, <3>2
    <3>4. i + n - 1 <= Len(w)
      <4>1. n \in 1..n
        BY <2>2
      <4>2. i + n - 1 \in DOMAIN w
        BY <1>5, <3>2, <4>1
      <4> QED BY <1>6, <4>2
    <3> HIDE DEF n
    <3> QED BY <2>1, <3>1, <3>3, <3>4 DEF WholeOf, n
  <2>5. ASSUME WholeOf(G, w, i) PROVE WholeOf(frames, u, i)
    <3>1. /\ u[i].at = 0 /\ i + n - 1 <= Len(w) /\ frames[u[i].id].damage = "intact"
          /\ \A k \in 1..n : w[i + k - 1] = [id |-> u[i].id, at |-> k - 1]
      BY <2>1, <2>5 DEF WholeOf
    <3>2. \A k \in 1..n : i + k - 1 \in DOMAIN w
      BY <1>6, <2>1, <2>2, <3>1
    <3>3. \A k \in 1..n : i + k - 1 \in DOMAIN u
      <4> HIDE DEF n
      <4>1. ASSUME NEW k \in 1..n PROVE w[i + k - 1].id = u[i].id
        <5>1. w[i + k - 1] = [id |-> u[i].id, at |-> k - 1]
          BY <3>1
        <5> QED BY <5>1
      <4> QED BY <1>7, <2>1, <3>2, <4>1
    <3>4. \A k \in 1..n : u[i + k - 1] = [id |-> u[i].id, at |-> k - 1]
      BY <1>5, <3>1, <3>3
    <3>5. i + n - 1 <= Len(u)
      <4>1. n \in 1..n
        BY <2>2
      <4>2. i + n - 1 \in DOMAIN u
        BY <3>3, <4>1
      <4> QED BY <1>2, <4>2
    <3> QED BY <3>1, <3>4, <3>5 DEF WholeOf
  <2> QED BY <2>3, <2>4, <2>5
<1>9. WholeIds(G, u) = W
  <2>1. {k \in DOMAIN u : WholeOf(G, u, k)} = {k \in DOMAIN u : WholeOf(frames, u, k)}
    BY <1>8
  <2> QED BY <2>1 DEF WholeIds
<1>10. W \subseteq WholeIds(G, w)
  BY <1>5, <1>8 DEF WholeIds
<1>11. WholeIds(G, w) \subseteq W \cup {id}
  <2> SUFFICES ASSUME NEW i \in DOMAIN w, WholeOf(G, w, i), w[i].id # id PROVE w[i].id \in W
    BY DEF WholeIds
  <2>1. i \in DOMAIN u /\ w[i] = u[i]
    BY <1>5, <1>7
  <2> QED BY <1>8, <2>1 DEF WholeIds
<1>12. WholeIds(G, w) \in {W, W \cup {id}}
  BY <1>10, <1>11
<1> QED BY <1>9, <1>12 DEF G, w, b

-----------------------------------------------------------------------------
(***************************************************************************)
(* Refinement of FrameChannel.                                             *)
(***************************************************************************)

\* A queue that gets longer at its end.
LEMMA QueueExtends ==
    ASSUME NEW q \in Seq(Nat), NEW r \in Seq(Nat)
    PROVE  /\ Len(q \o r) = Len(q) + Len(r) /\ Channel!IsPrefix(q, q \o r)
           /\ r # <<>> => Channel!IsStrictPrefix(q, q \o r)
           /\ Len(r) = 1 => Channel!Last(q \o r) = r[1]
<1> DEFINE u == q \o r
<1>1. Len(u) = Len(q) + Len(r) /\ Len(q) \in Nat /\ Len(r) \in Nat
  BY ConcatProperties
<1>2. Channel!IsPrefix(q, u)
  <2>1. /\ SubSeq(q, 1, Len(q)) = q
        /\ \A i \in 1..Len(q) : u[i] = q[i]
    BY SubSeqFull, ConcatProperties
  <2>2. SubSeq(u, 1, Len(q)) = q
    BY SubSeqOfConcat1
  <2> QED BY <1>1, <2>1, <2>2 DEF Channel!IsPrefix
<1>3. r # <<>> => q # u
  BY ConcatEqualIffEmpty
<1>4. Len(r) = 1 => u[Len(u)] = r[1]
  <2> SUFFICES ASSUME Len(r) = 1 PROVE u[Len(u)] = r[1]
    OBVIOUS
  <2>1. 1 \in DOMAIN r
    OBVIOUS
  <2>2. u[1 + Len(q)] = r[1]
    BY <2>1, ConcatParts
  <2> HIDE DEF u
  <2>3. 1 + Len(q) = Len(u)
    BY <1>1
  <2> QED BY <2>2, <2>3
<1> QED BY <1>1, <1>2, <1>3, <1>4 DEF Channel!IsStrictPrefix, Channel!Last

\* What has reached the port, in order.
LEMMA UnreadOrdered ==
    ASSUME BusInv
    PROVE  /\ StreamOK(frames, Unread) /\ InOrder(Queue, WholeIds(frames, Unread))
           /\ Queue \in Seq(Nat)
<1>1. StreamOK(frames, Unread)
  <2>1. StreamOK(frames, buffer \o wire)
    BY BusFacts, StreamJoined
  <2> QED BY <2>1, BusFacts DEF Unread
<1>2. PICK q : InOrder(q, WholeIds(frames, Unread))
  <2>1. /\ WholeIds(frames, Unread) \in SUBSET (1..Len(frames)) /\ Len(frames) \in Nat
    BY <1>1, BusFacts, WholeIdsType
  <2> QED BY <2>1, OrderExists
<1>3. Queue = q
  BY <1>2, QueueIs, AscendingIs
<1> QED BY <1>1, <1>2, <1>3, OrderFacts

\* The queue grows by one frame.
LEMMA QueueSends ==
    ASSUME BusInv, NEW x \in Ids, WholeIds(frames', Unread') = WholeIds(frames, Unread) \cup {x},
           \A a \in WholeIds(frames, Unread) : a < x, decoded' = decoded
    PROVE  Channel!Send
<1> DEFINE W == WholeIds(frames, Unread)
<1>1. InOrder(Queue, W) /\ Queue \in Seq(Nat)
  BY UnreadOrdered
<1>2. x \in Nat /\ <<x>> \in Seq(Nat)
  BY PassiveAssumption DEF Ids
<1>3. InOrder(<<x>>, {x})
  BY <1>2, OrderOne
<1>4. InOrder(Queue \o <<x>>, W \cup {x})
  BY <1>1, <1>3, OrderConcat
<1>5. Queue' = Queue \o <<x>>
  BY <1>4, QueueIsNext, AscendingIs
<1>6. /\ Len(Queue') = Len(Queue) + 1 /\ Channel!IsPrefix(Queue, Queue')
      /\ Channel!Last(Queue') = x
  BY <1>1, <1>2, <1>5, QueueExtends
<1> QED BY <1>6 DEF Channel!Send

\* When the same frames are whole and none more is decoded, the channel stays as it is.
LEMMA QueueStays ==
    ASSUME WholeIds(frames', Unread') = WholeIds(frames, Unread), decoded' = decoded
    PROVE  UNCHANGED Channel!vars
BY QueueIs, QueueIsNext DEF Channel!vars

\* A step that sends.
LEMMA TransmitRefines ==
    ASSUME BusInv, NEW f, FrameOK(f), Transmit(f)
    PROVE  Channel!Send \/ UNCHANGED Channel!vars
<1> DEFINE id == Len(frames) + 1
           b  == Bytes(id, f)
           W  == WholeIds(frames, Unread)
<1>1. /\ frames' = Append(frames, f) /\ id \in Ids
      /\ wire' = IF fd = "live" THEN wire \o b ELSE b
      /\ UNCHANGED <<fd, buffer, decoded>>
  BY DEF Transmit
<1>2. /\ FramesOK(frames) /\ StreamOK(frames, buffer) /\ StreamOK(frames, wire)
      /\ StreamOK(frames, Unread)
  BY BusFacts, UnreadOrdered
<1>3. Len(frames) < MaxFrames /\ Len(frames) \in Nat
  BY <1>1, <1>2, PassiveAssumption DEF Ids, FramesOK
<1>4. /\ WholeIds(frames', Unread) = W
      /\ WholeIds(frames', Unread \o b) \in {W, W \cup {id}}
  BY <1>1, <1>2, <1>3, WholeIdsSent
<1>5. Unread' = IF fd = "live" THEN Unread \o b ELSE Unread
  <2>1. CASE fd = "live"
    <3>1. /\ buffer \in Seq(BytesOf(frames')) /\ wire \in Seq(BytesOf(frames'))
          /\ b \in Seq(BytesOf(frames'))
      <4> DEFINE G == Append(frames, f)
      <4>1. StreamOK(G, buffer) /\ StreamOK(G, wire) /\ StreamOK(G, b)
        BY <1>2, <1>3, FramesGrow
      <4> HIDE DEF b, G
      <4>2. buffer \in Seq(BytesOf(G)) /\ wire \in Seq(BytesOf(G)) /\ b \in Seq(BytesOf(G))
        BY <4>1, BytesType
      <4> QED BY <1>1, <4>2 DEF G
    <3> DEFINE S == BytesOf(frames')
    <3> HIDE DEF S, b
    <3>2. buffer \in Seq(S) /\ wire \in Seq(S) /\ b \in Seq(S)
      BY <3>1 DEF S
    <3>3. (buffer \o wire) \o b = buffer \o (wire \o b)
      BY <3>2, ConcatAssociative, SMTT(30)
    <3> QED BY <1>1, <2>1, <3>3 DEF Unread
  <2>2. CASE fd # "live"
    BY <1>1, <2>2 DEF Unread
  <2> QED BY <2>1, <2>2
<1> HIDE DEF b
<1>6. WholeIds(frames', Unread') \in {W, W \cup {id}}
  BY <1>4, <1>5
<1>7. CASE WholeIds(frames', Unread') = W
  BY <1>1, <1>7, QueueStays
<1>8. CASE WholeIds(frames', Unread') = W \cup {id}
  <2>1. \A a \in W : a < id
    <3>1. W \in SUBSET (1..Len(frames))
      BY <1>2, WholeIdsType
    <3> HIDE DEF W
    <3> QED BY <1>3, <3>1
  <2> HIDE DEF id
  <2> QED BY <1>1, <1>8, <2>1, QueueSends
<1> QED BY <1>6, <1>7, <1>8

\* The adapter is pulled out: what is not in the buffer yet is lost.
LEMMA UnplugRefines ==
    ASSUME BusInv, Unplug
    PROVE  Channel!Lose \/ UNCHANGED Channel!vars
<1>1. /\ UNCHANGED <<frames, buffer, decoded>>
      /\ fd' = IF fd = "live" THEN "dead" ELSE fd
  BY DEF Unplug
<1>2. Unread' = buffer
  BY <1>1 DEF Unread
<1>3. CASE fd # "live"
  <2>1. Unread' = Unread
    BY <1>2, <1>3 DEF Unread
  <2> QED BY <1>1, <2>1, QueueStays
<1>4. CASE fd = "live"
  <2> DEFINE A == WholeIds(frames, buffer)
             B == WholeIds(frames, buffer \o wire)
  <2>1. Unread = buffer \o wire
    BY <1>4 DEF Unread
  <2>2. /\ A \in SUBSET B /\ \A a \in A, b \in B \ A : a < b
        /\ StreamOK(frames, buffer \o wire) /\ FramesOK(frames)
    BY BusFacts, WholeConcat
  <2>3. B \in SUBSET (1..Len(frames)) /\ Len(frames) \in Nat
    BY <2>2, WholeIdsType
  <2>4. Queue = Ascending(B)
    BY <2>1, QueueIs
  <2>5. Queue' = Ascending(A)
    BY <1>1, <1>2, QueueIsNext
  <2> HIDE DEF A, B
  <2>6. PICK r : /\ InOrder(Ascending(A), A) /\ InOrder(r, B \ A)
                 /\ Ascending(B) = Ascending(A) \o r
    BY <2>2, <2>3, AscendingGrows
  <2>7. Queue' \in Seq(Nat) /\ r \in Seq(Nat) /\ Queue = Queue' \o r
    BY <2>4, <2>5, <2>6, OrderFacts
  <2>8. CASE r = <<>>
    <3>1. Queue' = Queue
      BY <2>7, <2>8, ConcatEmptySeq
    <3> QED BY <1>1, <3>1 DEF Channel!vars
  <2>9. CASE r # <<>>
    <3> DEFINE q == Queue'
    <3>1. q \in Seq(Nat) /\ r \in Seq(Nat) /\ r # <<>> /\ Queue = q \o r
      BY <2>7, <2>9
    <3> HIDE DEF q
    <3>2. Channel!IsStrictPrefix(q, Queue)
      BY <3>1, QueueExtends
    <3>3. Channel!IsStrictPrefix(Queue', Queue)
      BY <3>2 DEF q
    <3> QED BY <1>1, <3>3 DEF Channel!Lose
  <2> QED BY <2>8, <2>9
<1> QED BY <1>3, <1>4

\* The port is opened: of the frame in the air so much may arrive that it is whole.
LEMMA OpenRefines ==
    ASSUME BusInv, Open
    PROVE  Channel!Send \/ UNCHANGED Channel!vars
<1>1. /\ UNCHANGED <<frames, buffer, decoded>> /\ fd = "none" /\ fd' = "live"
  BY DEF Open
<1>2. PICK k \in Cuts : wire' = SubSeq(wire, k + 1, Len(wire))
  BY DEF Open
<1>3. k \in 0..Len(wire)
  <2>1. Len(wire) \in Nat /\ ChunkSizes \subseteq Nat
    BY BusFacts, PassiveAssumption
  <2> QED BY <2>1 DEF Cuts
<1> DEFINE t == SubSeq(wire, k + 1, Len(wire))
           A == WholeIds(frames, buffer)
           B == WholeIds(frames, buffer \o t)
<1>4. /\ FramesOK(frames) /\ StreamOK(frames, buffer) /\ StreamOK(frames, wire)
      /\ AllBefore(buffer, wire) /\ DOMAIN wire = 1..Len(wire) /\ Len(wire) \in Nat
      /\ \A i, j \in DOMAIN wire : wire[i].id = wire[j].id
  BY <1>1, BusFacts DEF BusInv, BusStream
<1>5. StreamOK(frames, t) /\ \A i \in DOMAIN t : \E j \in DOMAIN wire : t[i] = wire[j]
  <2>1. /\ StreamOK(frames, t) /\ DOMAIN t = 1 .. Len(wire) - k
        /\ \A i \in 1 .. Len(wire) - k : t[i] = wire[k + i]
    BY <1>3, <1>4, StreamCut
  <2>2. \A i \in 1 .. Len(wire) - k : k + i \in DOMAIN wire
    BY <1>3, <1>4
  <2> HIDE DEF t
  <2> QED BY <2>1, <2>2
<1>6. Unread = buffer /\ Unread' = buffer \o t
  BY <1>1, <1>2 DEF Unread
<1> HIDE DEF t
<1>7. AllBefore(buffer, t)
  BY <1>4, <1>5 DEF AllBefore
<1>8. /\ StreamOK(frames, buffer \o t) /\ A \in SUBSET B
      /\ \A b \in B \ A : \E j \in DOMAIN t : t[j].id = b
      /\ \A a \in A, b \in B \ A : a < b
  BY <1>4, <1>5, <1>7, WholeConcat
<1>9. \A b, c \in B \ A : b = c
  BY <1>4, <1>5, <1>8
<1>10. B \subseteq Ids
  <2>1. B \in SUBSET (1..Len(frames)) /\ Len(frames) \in Nat /\ Len(frames) <= MaxFrames
    BY <1>4, <1>8, WholeIdsType DEF FramesOK
  <2> HIDE DEF B
  <2> QED BY <2>1, PassiveAssumption DEF Ids
<1>11. WholeIds(frames, Unread) = A /\ WholeIds(frames', Unread') = B
  BY <1>1, <1>6
<1> HIDE DEF A, B
<1>12. CASE B \ A = {}
  <2>1. B = A
    BY <1>8, <1>12
  <2> QED BY <1>1, <1>11, <2>1, QueueStays
<1>13. CASE B \ A # {}
  <2>1. PICK x \in B \ A : TRUE
    BY <1>13
  <2>2. B = A \cup {x} /\ x \in Ids /\ \A a \in A : a < x
    BY <1>8, <1>9, <1>10, <2>1
  <2> QED BY <1>1, <1>11, <2>2, QueueSends
<1> QED BY <1>12, <1>13

\* A chunk is read.
LEMMA ReadRefines ==
    ASSUME BusInv, ReadChunk
    PROVE  Channel!Deliver \/ UNCHANGED Channel!vars
<1>1. PICK n \in Cuts \ {0} :
        LET fed == Feed(buffer \o SubSeq(wire, 1, n))
        IN  /\ wire' = SubSeq(wire, n + 1, Len(wire))
            /\ buffer' = fed.buffer
            /\ decoded' = decoded \o fed.frames
  BY DEF ReadChunk
<1>2. UNCHANGED <<frames, fd>> /\ fd = "live"
  BY DEF ReadChunk
<1> DEFINE a   == SubSeq(wire, 1, n)
           t   == SubSeq(wire, n + 1, Len(wire))
           s   == buffer \o a
           fed == Feed(s)
           q   == fed.frames
<1>3. wire' = t /\ buffer' = fed.buffer /\ decoded' = decoded \o q
  BY <1>1
<1>4. /\ FramesOK(frames) /\ StreamOK(frames, buffer) /\ StreamOK(frames, wire)
      /\ AllBefore(buffer, wire) /\ decoded \in Seq(DOMAIN frames)
      /\ Len(wire) \in Nat /\ DOMAIN wire = 1..Len(wire)
  BY BusFacts
<1>5. n \in 0..Len(wire)
  <2>1. Len(wire) \in Nat /\ ChunkSizes \subseteq Nat
    BY BusFacts, PassiveAssumption
  <2>2. n \in Cuts
    BY <1>1
  <2> QED BY <2>1, <2>2 DEF Cuts
<1>6. /\ StreamOK(frames, a) /\ StreamOK(frames, t) /\ AllBefore(a, t)
      /\ AllBefore(buffer, a) /\ AllBefore(buffer, t)
  <2>1. /\ StreamOK(frames, a) /\ StreamOK(frames, t) /\ AllBefore(a, t)
        /\ DOMAIN a = 1..n /\ DOMAIN t = 1 .. Len(wire) - n
        /\ \A i \in 1..n : a[i] = wire[i]
        /\ \A i \in 1 .. Len(wire) - n : t[i] = wire[n + i]
    BY <1>4, <1>5, StreamCut
  <2>2. \A i \in 1..n : i \in DOMAIN wire
    BY <1>4, <1>5
  <2>3. \A i \in 1 .. Len(wire) - n : n + i \in DOMAIN wire
    BY <1>4, <1>5
  <2> HIDE DEF a, t
  <2> QED BY <1>4, <2>1, <2>2, <2>3 DEF AllBefore
<1>7. wire = a \o t
  <2>1. wire \in Seq(BytesOf(frames))
    BY <1>4, BytesType
  <2>2. 1 \in 1 .. Len(wire) + 1 /\ n \in 1 - 1 .. Len(wire) /\ Len(wire) \in n .. Len(wire)
    BY <1>4, <1>5
  <2>3. a \o t = SubSeq(wire, 1, Len(wire))
    BY <2>1, <2>2, ConcatAdjacentSubSeq
  <2> QED BY <2>1, <2>3, SubSeqFull
<1> HIDE DEF a, t
<1>8. /\ buffer \in Seq(BytesOf(frames)) /\ a \in Seq(BytesOf(frames))
      /\ t \in Seq(BytesOf(frames))
  BY <1>4, <1>6, BytesType
<1>9. buffer \o wire = s \o t
  BY <1>7, <1>8, ConcatAssociative
<1>10. /\ StreamOK(frames, s)
       /\ \A i \in DOMAIN s : \/ i \in DOMAIN buffer /\ s[i] = buffer[i]
                              \/ i > Len(buffer) /\ i - Len(buffer) \in DOMAIN a
                                 /\ s[i] = a[i - Len(buffer)]
  <2>1. StreamOK(frames, s)
    BY <1>4, <1>6, StreamJoined
  <2>2. \A i \in DOMAIN (buffer \o a) :
           \/ i \in DOMAIN buffer /\ (buffer \o a)[i] = buffer[i]
           \/ i > Len(buffer) /\ i - Len(buffer) \in DOMAIN a
              /\ (buffer \o a)[i] = a[i - Len(buffer)]
    BY <1>8, ConcatParts
  <2> QED BY <2>1, <2>2
<1> HIDE DEF s
<1>11. AllBefore(s, t)
  BY <1>6, <1>10 DEF AllBefore
<1>12. Ascending(WholeIds(frames, s \o t)) =
           q \o Ascending(WholeIds(frames, fed.buffer \o t))
  BY <1>4, <1>6, <1>10, <1>11, FeedConserves
<1>13. q \in Seq(DOMAIN frames) /\ StreamOK(frames, fed.buffer) /\ AllBefore(fed.buffer, t)
  <2>1. FramesOK(frames) /\ StreamOK(frames, s) /\ StreamOK(frames, t) /\ AllBefore(s, t)
    BY <1>4, <1>6, <1>10, <1>11
  <2> QED BY <2>1, FeedLeaves
<1> HIDE DEF fed
<1>14. Unread = s \o t /\ Unread' = fed.buffer \o t
  BY <1>2, <1>3, <1>9 DEF Unread
<1> DEFINE B == WholeIds(frames, fed.buffer \o t)
<1>15. Queue = q \o Ascending(B) /\ Queue' = Ascending(B)
  BY <1>2, <1>12, <1>14, QueueIs, QueueIsNext
<1>16. Ascending(B) \in Seq(Nat)
  <2>1. StreamOK(frames, fed.buffer \o t)
    BY <1>6, <1>13, StreamJoined
  <2>2. B \in SUBSET (1..Len(frames)) /\ Len(frames) \in Nat
    BY <1>4, <2>1, WholeIdsType
  <2> HIDE DEF B
  <2>3. PICK p : InOrder(p, B)
    BY <2>2, OrderExists
  <2> QED BY <2>3, AscendingIs, OrderFacts
<1> HIDE DEF B
<1>17. q \in Seq(Nat) /\ decoded \in Seq(Nat)
  <2>1. DOMAIN frames \subseteq Nat
    BY <1>4 DEF FramesOK
  <2> QED BY <1>4, <1>13, <2>1
<1> HIDE DEF q
<1>18. CASE q = <<>>
  <2>1. Queue' = Queue
    BY <1>15, <1>16, <1>18, ConcatEmptySeq
  <2>2. decoded' = decoded
    BY <1>3, <1>17, <1>18, ConcatEmptySeq
  <2> QED BY <2>1, <2>2 DEF Channel!vars
<1>19. CASE q # <<>>
  <2>1. (decoded \o q) \o Ascending(B) = decoded \o (q \o Ascending(B))
    BY <1>16, <1>17, ConcatAssociative, SMTT(30)
  <2>2. decoded' \o Queue' = decoded \o Queue
    BY <1>3, <1>15, <2>1
  <2>3. Len(decoded') = Len(decoded) + Len(q)
    BY <1>3, <1>17, ConcatProperties
  <2>4. Len(q) \in Nat /\ Len(q) # 0 /\ Len(decoded) \in Nat
    BY <1>17, <1>19, EmptySeq
  <2>5. Len(decoded') > Len(decoded)
    BY <2>3, <2>4
  <2> QED BY <2>2, <2>5 DEF Channel!Deliver
<1> QED BY <1>18, <1>19

\* However the bytes are cut into chunks and whatever noise lies between them, the decoder
\* returns every undamaged frame that reached the open port, once and in order
\* (RTUStreamDecoder.feed): the bus implements FrameChannel.
THEOREM BusImplementsChannel == PassiveSpec => ImplementsChannel
<1>1. PassiveInit => Channel!Init
  <2> SUFFICES ASSUME PassiveInit PROVE Channel!Init
    OBVIOUS
  <2>1. Unread = <<>> /\ decoded = <<>>
    BY DEF PassiveInit, Unread
  <2>2. WholeIds(frames, Unread) = {}
    BY <2>1 DEF WholeIds
  <2>3. Queue = <<>>
    BY <2>2, QueueIs, OrderEmpty, AscendingIs
  <2> QED BY <2>1, <2>3 DEF Channel!Init
<1>2. BusInv /\ [PassiveNext]_passiveVars => [Channel!Next]_(Channel!vars)
  <2> SUFFICES ASSUME BusInv, [PassiveNext]_passiveVars
               PROVE  Channel!Next \/ UNCHANGED Channel!vars
    OBVIOUS
  <2>1. CASE Send
    <3>1. "intact" \in Damages
      BY PassiveAssumption
    <3>2. PICK f : FrameOK(f) /\ Transmit(f)
      BY <2>1, <3>1 DEF Send, FrameOK, Frames
    <3> QED BY <3>2, TransmitRefines DEF Channel!Next
  <2>2. CASE Unplug
    BY <2>2, UnplugRefines DEF Channel!Next
  <2>3. CASE Open
    BY <2>3, OpenRefines DEF Channel!Next
  <2>4. CASE ReadChunk
    BY <2>4, ReadRefines DEF Channel!Next
  <2>5. ASSUME UNCHANGED <<frames, buffer, wire, decoded>>,
               fd' = fd \/ (fd' # "live" /\ fd # "live")
        PROVE  UNCHANGED Channel!vars
    <3>1. Unread' = Unread
      BY <2>5 DEF Unread
    <3> QED BY <2>5, <3>1, QueueStays
  <2>6. CASE Replug \/ Silence \/ OpenFails \/ OpenRaises \/ ReadNothing \/ ReadFails
    BY <2>5, <2>6 DEF Replug, Silence, OpenFails, OpenRaises, ReadNothing, ReadFails
  <2>7. CASE UNCHANGED passiveVars
    BY <2>5, <2>7 DEF passiveVars
  <2> QED BY <2>1, <2>2, <2>3, <2>4, <2>6, <2>7 DEF PassiveNext, Bus, Worker
<1> QED BY <1>1, <1>2, BusInvariant, PTL DEF PassiveSpec, ImplementsChannel, Channel!Spec

-----------------------------------------------------------------------------
(***************************************************************************)
(* The invariant: besides types, nothing was observed in the future, a     *)
(* derivation follows from the inputs beside it and ends with the          *)
(* shortest-lived of them, and one is missing only when some input cannot  *)
(* be used now.  The last part is inductive because an input that could    *)
(* not be used when its measurement was observed cannot be used later.     *)
(***************************************************************************)

ObservedPast ==
    /\ \A i \in Inputs : measurements[i] # Absent => measurements[i].observed <= time
    /\ \A p \in Publishers :
          publisher[p].pc = "publish" => \A i \in DOMAIN batch[p] : batch[p][i].observed <= time

\* The signal s was computed as d from the inputs ms and its life ends with theirs.
FollowsFrom(s, d, ms) ==
    /\ Follows(s, d, ms)
    /\ \A i \in Inputs :
          d.observed + d.max_age <= Expiry(ms, i) \/ d.max_age = FreshnessFloor
    /\ \E i \in Inputs : Expiry(ms, i) <= d.observed + d.max_age

\* A publisher with something to publish has not used up its publications.
PublishesLeft ==
    \A p \in Publishers : publisher[p].pc = "publish" => publisher[p].published < MaxPublish[p]

DerivedFollows ==
    \A s \in Signals : derived[s] # Absent => FollowsFrom(s, derived[s], measurements)
DerivedMissing ==
    (\E s \in Signals : derived[s] = Absent) => \E i \in Inputs : ~Usable(measurements, i, time)

PInv == TypeOK /\ ObservedPast /\ PublishesLeft /\ DerivedFollows /\ DerivedMissing /\ ViewConsistent

Observations == [Inputs -> Measured \cup {Absent}]
DerivedType  == [Signals -> Derivations \cup {Absent}]

\* The mark of an absent value is no value.
LEMMA AbsentIsNothing == Absent \notin Measured /\ Absent \notin Derivations
BY PlantAssumption DEF Measured, Derivations, Readings

\* An observation has a time and expires at one.
LEMMA ExpiryNat ==
    ASSUME NEW ms \in Observations, NEW i \in Inputs, ms[i] # Absent
    PROVE  Expiry(ms, i) \in Nat /\ ms[i].observed \in 0..MaxTime
<1>1. ms[i] \in Measured
  BY DEF Observations
<1> QED BY <1>1, PlantAssumption DEF Measured, Expiry

\* What _derive_locked computes from usable inputs.
LEMMA DerivationFollows ==
    ASSUME NEW ms \in Observations, NEW now \in 0..MaxTime, \A i \in Inputs : Usable(ms, i, now),
           NEW s \in Signals
    PROVE  Derivation(s, ms, now) \in Derivations /\ FollowsFrom(s, Derivation(s, ms, now), ms)
<1> DEFINE life == {Expiry(ms, i) - now : i \in Inputs}
           d == Derivation(s, ms, now)
<1>1. \A i \in Inputs : /\ Expiry(ms, i) \in Nat /\ Expiry(ms, i) - now \in Nat
                        /\ ms[i] # Absent /\ ms[i].value # NoValue
  BY ExpiryNat DEF Usable
<1>2. life \in SUBSET Nat /\ life # {}
  BY <1>1, PlantAssumption
<1>3. Min(life) \in life /\ \A y \in life : Min(life) <= y
  BY <1>2, MinExists
<1>4. /\ d.observed = now /\ d.value = [i \in Inputs |-> ms[i].value]
      /\ d.quality = Quality(s, d.value) /\ d.quality \in {"good", "unavailable"}
      /\ d.max_age = Max({FreshnessFloor, Min(life)})
  BY DEF Derivation, Quality
<1>5. /\ Max({FreshnessFloor, Min(life)}) \in {FreshnessFloor, Min(life)}
      /\ FreshnessFloor <= Max({FreshnessFloor, Min(life)})
      /\ Min(life) <= Max({FreshnessFloor, Min(life)})
      /\ FreshnessFloor \in Nat /\ Min(life) \in Nat
  <2>1. FreshnessFloor \in Nat /\ Min(life) \in Nat
    BY <1>2, <1>3, PlantAssumption
  <2>2. FreshnessFloor \in Int /\ Min(life) \in Int
    BY <2>1
  <2> QED BY <2>1, <2>2, MaxOfTwo, Zenon
<1>6. d \in Derivations
  <2>1. [i \in Inputs |-> ms[i].value] \in [Inputs -> Readings]
    BY <1>1 DEF Observations, Measured
  <2>2. d.max_age \in {n \in Nat : n >= FreshnessFloor}
    BY <1>4, <1>5
  <2> QED BY <2>1, <2>2, <1>4 DEF Derivation, Derivations
<1>7. ASSUME NEW i \in Inputs
      PROVE  d.observed + d.max_age <= Expiry(ms, i) \/ d.max_age = FreshnessFloor
  <2>1. Min(life) <= Expiry(ms, i) - now
    BY <1>3
  <2>2. CASE d.max_age = Min(life)
    BY <2>1, <2>2, <1>1, <1>4, <1>5
  <2> QED BY <2>2, <1>4, <1>5
<1>8. PICK i \in Inputs : Min(life) = Expiry(ms, i) - now
  BY <1>3
<1>9. Expiry(ms, i) <= d.observed + d.max_age
  BY <1>1, <1>4, <1>5, <1>8
<1> HIDE DEF life, d
<1>10. \A j \in Inputs : ms[j] # Absent /\ ms[j].value # NoValue /\ ms[j].value = d.value[j]
  BY <1>1, <1>4
<1>11. FollowsFrom(s, d, ms)
  BY <1>4, <1>7, <1>9, <1>10 DEF FollowsFrom, Follows
<1> QED BY <1>6, <1>11 DEF d

\* A derivation that follows from the inputs and is not stale is backed by them.
LEMMA ServedIsBacked ==
    ASSUME NEW ms \in Observations, NEW s \in Signals, NEW d \in Derivations \cup {Absent},
           NEW now \in 0..MaxTime, d # Absent => FollowsFrom(s, d, ms), Served(d, now) # Absent
    PROVE  Served(d, now) = d /\ Backed(s, d, ms, now)
<1>1. d # Absent /\ d \in Derivations /\ ~Stale(d, now) /\ Served(d, now) = d
  BY DEF Served
<1>2. d.observed \in Nat /\ d.max_age \in Nat
  BY <1>1 DEF Derivations
<1>3. \A i \in Inputs : Expiry(ms, i) \in Nat
  BY <1>1, ExpiryNat DEF FollowsFrom, Follows
<1>4. ASSUME d.quality = "good", NEW i \in Inputs
      PROVE  now <= Expiry(ms, i) \/ now <= d.observed + FreshnessFloor
  <2>1. now <= d.observed + d.max_age
    BY <1>1, <1>2, <1>4 DEF Stale
  <2>2. d.observed + d.max_age <= Expiry(ms, i) \/ d.max_age = FreshnessFloor
    BY <1>1 DEF FollowsFrom
  <2> QED BY <1>2, <1>3, <2>1, <2>2, PlantAssumption
<1> QED BY <1>1, <1>4 DEF FollowsFrom, Fresh, Backed

\* The invariant says of derived values what is claimed.
LEMMA InvImpliesDerivedIffUsable == PInv => DerivedIffUsable
<1> SUFFICES ASSUME PInv PROVE DerivedIffUsable
  OBVIOUS
<1>1. measurements \in Observations /\ derived \in DerivedType /\ time \in 0..MaxTime
  BY DEF PInv, TypeOK, Observations, DerivedType
<1>2. ASSUME NEW s \in Signals, Served(derived[s], time) # Absent
      PROVE  Backed(s, Served(derived[s], time), measurements, time)
  <2>1. derived[s] \in Derivations \cup {Absent}
    BY <1>1 DEF DerivedType
  <2> QED BY <1>1, <1>2, <2>1, ServedIsBacked DEF PInv, DerivedFollows
<1>3. ASSUME NEW s \in Signals, \A i \in Inputs : Usable(measurements, i, time)
      PROVE  Served(derived[s], time) # Absent
  <2>1. derived[s] # Absent /\ derived[s] \in Derivations
    BY <1>1, <1>3 DEF PInv, DerivedMissing, DerivedType
  <2>2. PICK i \in Inputs : Expiry(measurements, i) <= derived[s].observed + derived[s].max_age
    BY <2>1 DEF PInv, DerivedFollows, FollowsFrom
  <2>3. Expiry(measurements, i) \in Nat /\ time <= Expiry(measurements, i)
    BY <1>1, <1>3, ExpiryNat DEF Usable
  <2>4. ~Stale(derived[s], time)
    BY <1>1, <2>1, <2>2, <2>3 DEF Derivations, Stale
  <2> QED BY <2>1, <2>4 DEF Served
<1> QED BY <1>2, <1>3 DEF DerivedIffUsable
-----------------------------------------------------------------------------
(***************************************************************************)
(* The invariant is inductive.                                             *)
(***************************************************************************)

\* At the start there is nothing to derive from.
LEMMA InitPInv == Init => PInv
<1> SUFFICES ASSUME Init PROVE PInv
  OBVIOUS
<1> USE PlantAssumption
<1>1. /\ Nothing \in DerivedType
      /\ NoView \in [now : 0..MaxTime, inputs : Observations, derived : DerivedType]
  BY DEF NoView, Nothing, Observations, DerivedType
<1>2. /\ measurements \in Observations
      /\ publisher \in [Publishers -> [pc : {"read", "publish"}, published : Nat]]
      /\ \A p \in Publishers : publisher[p].pc = "read" /\ publisher[p].published <= MaxPublish[p]
                             /\ batch[p] = <<>>
      /\ DOMAIN batch = Publishers
      /\ client \in [Clients -> [pc : {"wait", "now", "snapshot"}, sequence : Nat \cup {-1},
                                next : Nat \cup {-1}, now : 0..MaxTime]]
  BY DEF Init, Observations
<1>3. TypeOK
  BY <1>1, <1>2 DEF Init, TypeOK, Observations, DerivedType
<1>4. PICK i \in Inputs : ~Usable(measurements, i, time)
  BY DEF Init, Usable
<1>5. ViewConsistent
  BY DEF Init, NoView, Nothing, ViewConsistent
<1>6. DerivedFollows /\ DerivedMissing
  BY <1>4 DEF Init, Nothing, DerivedFollows, DerivedMissing
<1> QED BY <1>2, <1>3, <1>5, <1>6 DEF Init, PInv, ObservedPast, PublishesLeft

\* While the plant's measurements stand, only the views and the clock can matter.
LEMMA TickPInv ==
    ASSUME PInv, Tick
    PROVE  PInv'
<1>1. /\ time \in 0..MaxTime /\ time' = time + 1 /\ time' \in 0..MaxTime
      /\ UNCHANGED <<measurements, derived, sequence, publisher, batch, next_report, client, view>>
  BY PlantAssumption DEF PInv, TypeOK, Tick, stateVars, workVars, clientVars
<1>2. TypeOK' /\ DerivedFollows' /\ ViewConsistent'
  BY <1>1 DEF PInv, TypeOK, DerivedFollows, ViewConsistent
<1>3. ASSUME NEW o \in 0..MaxTime, o <= time PROVE o <= time'
  BY <1>1, <1>3
<1>4. \A i \in Inputs : measurements[i] # Absent => measurements[i].observed <= time'
  <2>1. \A i \in Inputs : measurements[i] # Absent => measurements[i].observed \in 0..MaxTime
    BY DEF PInv, TypeOK, Measured
  <2> QED BY <1>3, <2>1 DEF PInv, ObservedPast
<1>5. \A p \in Publishers : publisher[p].pc = "publish" =>
          \A i \in DOMAIN batch[p] : batch[p][i].observed <= time'
  <2>1. ASSUME NEW p \in Publishers, publisher[p].pc = "publish", NEW i \in DOMAIN batch[p]
        PROVE  batch[p][i].observed \in 0..MaxTime
    BY <2>1 DEF PInv, TypeOK, Measured
  <2> QED BY <1>3, <2>1 DEF PInv, ObservedPast
<1>6. DerivedMissing'
  <2>1. SUFFICES ASSUME \E s \in Signals : derived[s] = Absent
                 PROVE  \E i \in Inputs : ~Usable(measurements, i, time')
    BY <1>1 DEF DerivedMissing
  <2>2. PICK i \in Inputs : ~Usable(measurements, i, time)
    BY <2>1 DEF PInv, DerivedMissing
  <2>3. measurements[i] # Absent => Expiry(measurements, i) \in Nat
    BY ExpiryNat DEF PInv, TypeOK, Observations
  <2> QED BY <1>1, <2>2, <2>3 DEF Usable
<1> QED BY <1>1, <1>2, <1>4, <1>5, <1>6 DEF PInv, ObservedPast, PublishesLeft

\* A reading not published yet changes no state of the plant.
LEMMA ReadPInv ==
    ASSUME PInv, NEW p \in Publishers, Read(p)
    PROVE  PInv'
<1>1. /\ UNCHANGED <<time, measurements, derived, sequence, next_report, client, view>>
      /\ publisher[p].pc = "read"
      /\ publisher' = [publisher EXCEPT ![p].pc = "publish"]
  BY DEF Read, stateVars, clientVars
<1>2. PICK g \in Groups[p] :
          \E r \in [g -> [value : Readings, observed : {time}]] : batch' = [batch EXCEPT ![p] = r]
  BY DEF Read
<1>r. PICK r \in [g -> [value : Readings, observed : {time}]] : batch' = [batch EXCEPT ![p] = r]
  BY <1>2
<1>3. time \in 0..MaxTime /\ r \in [g -> Measured] /\ \A i \in g : r[i].observed = time
  <2>1. time \in 0..MaxTime
    BY DEF PInv, TypeOK
  <2> QED BY <1>r, <2>1 DEF Measured
<1>4. publisher \in [Publishers -> [pc : {"read", "publish"}, published : Nat]]
  BY DEF PInv, TypeOK
<1>5. /\ publisher' \in [Publishers -> [pc : {"read", "publish"}, published : Nat]]
      /\ \A q \in Publishers : publisher'[q].published = publisher[q].published
      /\ \A q \in Publishers : q # p => publisher'[q] = publisher[q]
      /\ publisher'[p].pc = "publish"
  BY <1>1, <1>4
<1>6. \A q \in Publishers : IF publisher'[q].pc = "publish"
                            THEN \E h \in Groups[q] : batch'[q] \in [h -> Measured]
                            ELSE batch'[q] = <<>>
  BY <1>r, <1>3, <1>5 DEF PInv, TypeOK
<1>7. TypeOK'
  BY <1>1, <1>5, <1>6, <1>r DEF PInv, TypeOK
<1>8. ObservedPast'
  <2>1. ASSUME NEW q \in Publishers, publisher'[q].pc = "publish", NEW i \in DOMAIN batch'[q]
        PROVE  batch'[q][i].observed <= time'
    <3>1. CASE q = p
      BY <1>1, <1>3, <1>r, <2>1, <3>1 DEF PInv, TypeOK
    <3>2. CASE q # p
      BY <1>1, <1>5, <1>r, <2>1, <3>2 DEF PInv, ObservedPast
    <3> QED BY <3>1, <3>2
  <2> QED BY <1>1, <2>1 DEF PInv, ObservedPast
<1>9. PublishesLeft'
  BY <1>1, <1>5 DEF Read, PInv, PublishesLeft
<1> QED BY <1>1, <1>7, <1>8, <1>9 DEF PInv, DerivedFollows, DerivedMissing, ViewConsistent

\* A publication recomputes every value derived from it.
LEMMA PublishPInv ==
    ASSUME PInv, NEW p \in Publishers, Publish(p)
    PROVE  PInv'
<1> DEFINE ms  == Overwritten(measurements, batch[p])
           now == ObservedAt(batch[p])
<1>1. /\ publisher[p].pc = "publish" /\ measurements' = ms /\ derived' = Derive(ms, now)
      /\ sequence' = sequence + 1
      /\ batch' = [batch EXCEPT ![p] = <<>>]
      /\ publisher' = [publisher EXCEPT ![p] = [pc |-> "read", published |-> @.published + 1]]
      /\ UNCHANGED <<time, next_report, client, view>>
  BY DEF Publish, Changed, clientVars
<1>2. PICK g \in Groups[p] : batch[p] \in [g -> Measured]
  BY <1>1 DEF PInv, TypeOK
<1>3. g # {} /\ g \subseteq Inputs /\ \A i \in g : batch[p][i].observed \in 0..time
  <2>1. g \in (SUBSET Inputs) \ {{}}
    BY <1>2, PlantAssumption
  <2>2. time \in Nat /\ MaxTime \in Nat
    BY PlantAssumption DEF PInv, TypeOK
  <2>3. ASSUME NEW i \in g PROVE batch[p][i].observed \in 0..time
    <3>1. batch[p][i].observed \in 0..MaxTime /\ batch[p][i].observed <= time
      BY <1>1, <1>2 DEF PInv, ObservedPast, Measured
    <3> QED BY <2>2, <3>1
  <2>4. g # {} /\ g \subseteq Inputs
    BY <2>1
  <2> QED BY <2>3, <2>4
<1>4. ms \in Observations
  BY <1>2, <1>3 DEF Overwritten, Observations, PInv, TypeOK
<1>5. /\ now \in 0..time /\ time \in 0..MaxTime /\ now \in 0..MaxTime
  <2> DEFINE O == {batch[p][i].observed : i \in DOMAIN batch[p]}
  <2>1. time \in 0..MaxTime /\ time \in Nat /\ MaxTime \in Nat
    BY PlantAssumption DEF PInv, TypeOK
  <2>2. O \in SUBSET (0..time) /\ O # {}
    BY <1>2, <1>3
  <2> HIDE DEF O
  <2>3. Max(O) \in 0..time
    BY <2>1, <2>2, MaxExists
  <2>4. now = Max(O)
    BY DEF O, ObservedAt
  <2> QED BY <2>1, <2>3, <2>4
<1>6. \A i \in Inputs : ms[i] # Absent => ms[i].observed <= time
  <2>1. ASSUME NEW i \in Inputs
        PROVE  (ms[i] = batch[p][i] /\ i \in g) \/ ms[i] = measurements[i]
    BY <1>2 DEF Overwritten
  <2> QED BY <2>1, <1>3, <1>5 DEF PInv, ObservedPast
<1> HIDE DEF ms, now
<1>d. ASSUME \A i \in Inputs : Usable(ms, i, now)
       PROVE  /\ derived' = [s \in Signals |-> Derivation(s, ms, now)]
              /\ \A s \in Signals : /\ derived'[s] \in Derivations /\ derived'[s] # Absent
                                    /\ FollowsFrom(s, derived'[s], ms)
  <2>1. derived' = [s \in Signals |-> Derivation(s, ms, now)]
    BY <1>1, <1>d DEF Derive
  <2>2. \A s \in Signals : /\ Derivation(s, ms, now) \in Derivations
                           /\ FollowsFrom(s, Derivation(s, ms, now), ms)
    BY <1>4, <1>5, <1>d, DerivationFollows
  <2> QED BY <2>1, <2>2, AbsentIsNothing
<1>n. ASSUME \E i \in Inputs : ~Usable(ms, i, now)
       PROVE  derived' = Nothing
  BY <1>1, <1>n DEF Derive
<1>7. /\ derived' \in DerivedType
      /\ \A s \in Signals : derived'[s] # Absent => FollowsFrom(s, derived'[s], ms)
  <2>1. CASE \A i \in Inputs : Usable(ms, i, now)
    BY <1>d, <2>1 DEF DerivedType
  <2>2. CASE \E i \in Inputs : ~Usable(ms, i, now)
    BY <1>n, <2>2 DEF DerivedType, Nothing
  <2> QED BY <2>1, <2>2
<1>8. (\E s \in Signals : derived'[s] = Absent) => \E i \in Inputs : ~Usable(ms, i, time)
  <2>1. SUFFICES ASSUME \E s \in Signals : derived'[s] = Absent
                 PROVE  \E i \in Inputs : ~Usable(ms, i, time)
    OBVIOUS
  <2>2. PICK i \in Inputs : ~Usable(ms, i, now)
    BY <1>d, <2>1
  <2>3. ms[i] # Absent => Expiry(ms, i) \in Nat
    BY <1>4, ExpiryNat
  <2> QED BY <1>5, <2>2, <2>3 DEF Usable
<1>9. /\ publisher' \in [Publishers -> [pc : {"read", "publish"}, published : Nat]]
      /\ \A q \in Publishers : publisher'[q].published <= MaxPublish[q]
      /\ \A q \in Publishers : q # p => publisher'[q] = publisher[q]
      /\ publisher'[p].pc = "read"
  <2>1. /\ publisher \in [Publishers -> [pc : {"read", "publish"}, published : Nat]]
        /\ \A q \in Publishers : publisher[q].published <= MaxPublish[q]
        /\ publisher[p].published < MaxPublish[p] /\ MaxPublish[p] \in Nat
    BY <1>1, PlantAssumption DEF PInv, TypeOK, PublishesLeft
  <2>2. publisher[p].published \in Nat /\ publisher[p].published + 1 <= MaxPublish[p]
    BY <2>1
  <2>3. /\ publisher'[p] = [pc |-> "read", published |-> publisher[p].published + 1]
        /\ \A q \in Publishers : q # p => publisher'[q] = publisher[q]
    BY <1>1, <2>1
  <2> QED BY <1>1, <2>1, <2>2, <2>3
<1>10. TypeOK'
  <2>1. measurements' \in [Inputs -> Measured \cup {Absent}]
    BY <1>1, <1>4 DEF Observations
  <2>2. /\ DOMAIN batch' = Publishers
        /\ \A q \in Publishers : IF publisher'[q].pc = "publish"
                                 THEN \E h \in Groups[q] : batch'[q] \in [h -> Measured]
                                 ELSE batch'[q] = <<>>
    BY <1>1, <1>9 DEF PInv, TypeOK
  <2>3. sequence' \in Nat
    BY <1>1 DEF PInv, TypeOK
  <2> QED BY <1>1, <1>7, <1>9, <2>1, <2>2, <2>3 DEF PInv, TypeOK, DerivedType
<1>11. ObservedPast'
  <2>1. \A q \in Publishers : publisher'[q].pc = "publish" =>
            \A i \in DOMAIN batch'[q] : batch'[q][i].observed <= time
    BY <1>1, <1>9 DEF PInv, TypeOK, ObservedPast
  <2> QED BY <1>1, <1>6, <2>1 DEF ObservedPast
<1>12. PublishesLeft'
  BY <1>9 DEF PInv, PublishesLeft
<1>13. DerivedFollows' /\ DerivedMissing' /\ ViewConsistent'
  BY <1>1, <1>7, <1>8 DEF PInv, DerivedFollows, DerivedMissing, ViewConsistent
<1> QED BY <1>10, <1>11, <1>12, <1>13 DEF PInv

\* The report of the monitor withdraws what has gone stale.
LEMMA ReportPInv ==
    ASSUME PInv, Report
    PROVE  PInv'
<1>1. /\ UNCHANGED <<time, measurements, derived, publisher, batch, client, view>>
      /\ sequence' = sequence + 1 /\ next_report' = time + ReportPeriod
  BY DEF Report, Changed, workVars, clientVars
<1>2. sequence' \in Nat /\ next_report' \in 0..(MaxTime + ReportPeriod)
  BY <1>1, PlantAssumption DEF PInv, TypeOK
<1> QED BY <1>1, <1>2
        DEF PInv, TypeOK, ObservedPast, PublishesLeft, DerivedFollows, DerivedMissing, ViewConsistent

\* A client takes one whole snapshot.
LEMMA ClientPInv ==
    ASSUME PInv, NEW c \in Clients, ClientStep(c)
    PROVE  PInv'
<1> DEFINE C == [pc : {"wait", "now", "snapshot"}, sequence : Nat \cup {-1},
                 next : Nat \cup {-1}, now : 0..MaxTime]
<1>1. UNCHANGED <<time, measurements, derived, sequence, publisher, batch, next_report>>
  BY DEF ClientStep, WaitForChange, ReadClock, Snapshot, stateVars, workVars
<1>2. client \in [Clients -> C] /\ sequence \in Nat /\ time \in 0..MaxTime
      /\ measurements \in Observations /\ derived \in DerivedType
  BY DEF PInv, TypeOK, Observations, DerivedType
<1>t. /\ client \in [Clients -> C] /\ client[c] \in C
      /\ sequence \in Nat /\ time \in 0..MaxTime /\ 0 \in 0..MaxTime
  BY <1>2, PlantAssumption
<1>3. client' \in [Clients -> C]
  <2>1. ASSUME NEW new \in C, client' = [client EXCEPT ![c] = new]
        PROVE  client' \in [Clients -> C]
    <3> HIDE DEF C
    <3> QED BY <1>t, <2>1
  <2>2. CASE WaitForChange(c)
    <3> DEFINE new == [client[c] EXCEPT !.pc = "now", !.next = sequence]
    <3>1. new \in C
      BY <1>t
    <3>2. client' = [client EXCEPT ![c] = new]
      BY <2>2 DEF WaitForChange
    <3> QED BY <2>1, <3>1, <3>2
  <2>3. CASE ReadClock(c)
    <3> DEFINE new == [client[c] EXCEPT !.pc = "snapshot", !.now = time]
    <3>1. new \in C
      BY <1>t
    <3>2. client' = [client EXCEPT ![c] = new]
      BY <2>3 DEF ReadClock
    <3> QED BY <2>1, <3>1, <3>2
  <2>4. CASE Snapshot(c)
    <3> DEFINE new == [pc |-> "wait", sequence |-> client[c].next, next |-> -1, now |-> 0]
    <3>1. new \in C
      BY <1>t
    <3>2. client' = [client EXCEPT ![c] = new]
      BY <2>4 DEF Snapshot
    <3> QED BY <2>1, <3>1, <3>2
  <2> QED BY <2>2, <2>3, <2>4 DEF ClientStep
<1>4. /\ view' \in [Clients -> [now : 0..MaxTime, inputs : Observations, derived : DerivedType]]
      /\ ViewConsistent'
  <2>0. view \in [Clients -> [now : 0..MaxTime, inputs : Observations, derived : DerivedType]]
    BY DEF PInv, TypeOK, Observations, DerivedType
  <2>1. CASE view' = view
    BY <2>0, <2>1 DEF PInv, ViewConsistent
  <2>2. CASE Snapshot(c)
    <3> DEFINE now == client[c].now
               shown == [s \in Signals |-> Served(derived[s], now)]
               new == [now |-> now, inputs |-> measurements, derived |-> shown]
    <3>1. view' = [view EXCEPT ![c] = new] /\ now \in 0..MaxTime
      BY <1>2, <2>2 DEF Snapshot
    <3>2. shown \in DerivedType
      BY <1>2 DEF Served, DerivedType
    <3>3. ASSUME NEW s \in Signals, shown[s] # Absent
          PROVE  Backed(s, shown[s], measurements, now)
      <4>1. derived[s] \in Derivations \cup {Absent} /\ shown[s] = Served(derived[s], now)
        BY <1>2 DEF DerivedType
      <4> QED BY <1>2, <3>1, <3>3, <4>1, ServedIsBacked DEF PInv, DerivedFollows
    <3>4. new \in [now : 0..MaxTime, inputs : Observations, derived : DerivedType]
      BY <1>2, <3>1, <3>2
    <3>5. new.derived = shown /\ new.inputs = measurements /\ new.now = now
      OBVIOUS
    <3> HIDE DEF new, shown
    <3> QED BY <2>0, <3>1, <3>3, <3>4, <3>5 DEF PInv, ViewConsistent
  <2> QED BY <2>1, <2>2 DEF ClientStep, WaitForChange, ReadClock
<1>5. TypeOK'
  BY <1>1, <1>3, <1>4 DEF PInv, TypeOK, Observations, DerivedType
<1> QED BY <1>1, <1>4, <1>5 DEF PInv, ObservedPast, PublishesLeft, DerivedFollows, DerivedMissing

\* Every step preserves the invariant of the plant state.
LEMMA NextPInv == PInv /\ [Next]_vars => PInv'
<1>1. ASSUME PInv, UNCHANGED vars PROVE PInv'
  BY <1>1 DEF vars, stateVars, workVars, clientVars, PInv, TypeOK, ObservedPast, PublishesLeft,
              DerivedFollows, DerivedMissing, ViewConsistent
<1> QED BY <1>1, TickPInv, ReadPInv, PublishPInv, ReportPInv, ClientPInv DEF Next

\* Every reachable state of the plant model is well typed.
THEOREM PlantTypeOK == Spec => []TypeOK
<1>1. PInv => TypeOK
  BY DEF PInv
<1> QED BY <1>1, InitPInv, NextPInv, PTL DEF Spec

\* Every derived signal is served when all inputs can be used now; one is served only as
\* computed from the inputs beside it and, if it has a result, only while they are fresh.
\* For any number of device threads publishing in any order what they observed at any
\* earlier time, any signals, and whichever of them have no result for which inputs.
THEOREM PlantDerivedIffUsable == Spec => []DerivedIffUsable
BY InvImpliesDerivedIffUsable, InitPInv, NextPInv, PTL DEF Spec

\* No client is ever shown a derived signal beside inputs it does not follow from, nor a
\* result beside inputs that were stale when its snapshot began.
THEOREM PlantViewConsistent == Spec => []ViewConsistent
<1>1. PInv => ViewConsistent
  BY DEF PInv
<1> QED BY <1>1, InitPInv, NextPInv, PTL DEF Spec
=============================================================================
