------------------------- MODULE PacketDetectorsProofs -------------------------
(***************************************************************************)
(* Theorems about PacketDetectors: for any packets, tolerances, options    *)
(* and times.                                                              *)
(***************************************************************************)
EXTENDS PacketDetectors, FunctionTheorems, SequenceTheorems, WellFoundedInduction,
        TLAPS

-----------------------------------------------------------------------------
(***************************************************************************)
(* Arithmetic.                                                             *)
(***************************************************************************)
\* A set of numbers that is not empty has a least element.
LEMMA MinProperties ==
    ASSUME NEW X \in SUBSET Nat, X # {}
    PROVE  Min(X) \in X /\ \A y \in X : Min(X) <= y
<1> DEFINE Less == OpToRel(<, Nat)
<1>1. PICK x \in X : \A y \in X : <<y, x>> \notin Less
  BY NatLessThanWellFounded, WFMin
<1>2. ASSUME NEW y \in X, y < x
      PROVE  <<y, x>> \in Less
  BY <1>2 DEF OpToRel
<1> HIDE DEF Less
<1>3. ASSUME NEW y \in X
      PROVE  x <= y
  <2>1. x \in Nat /\ y \in Nat
    OBVIOUS
  <2>2. ~(y < x)
    BY <1>1, <1>2
  <2> QED BY <2>1, <2>2
<1> QED BY <1>3 DEF Min

\* The larger of two numbers.
LEMMA MaxOfTwo ==
    ASSUME NEW a \in Int, NEW b \in Int
    PROVE  Max({a, b}) \in {a, b} /\ Max({a, b}) >= a /\ Max({a, b}) >= b
<1>1. \E x \in {a, b} : \A y \in {a, b} : x >= y
  BY a >= b \/ b >= a
<1> QED BY <1>1 DEF Max

\* Rounding is off by half at most.
LEMMA RoundProperties ==
    ASSUME NEW a \in Nat, NEW b \in Nat \ {0}
    PROVE  /\ Round(a, b) \in Nat
           /\ 2 * b * Round(a, b) <= 2 * a + b
           /\ 2 * a + b < 2 * b * Round(a, b) + 2 * b
<1>1. \A x, y \in Nat : y > 0 => /\ x \div y \in Nat
                                 /\ y * (x \div y) <= x
                                 /\ x < y * (x \div y) + y
  OBVIOUS
<1> QED BY <1>1 DEF Round

\* From the first to the last sample of a packet with n samples.
Extent(rate, n) == Interval(rate) * ((n - 1) % Counts)

\* A packet ends when it starts or later, and is as long as any with as many
\* samples at the same rate.
LEMMA HeaderProperties ==
    ASSUME NEW h \in Headers
    PROVE  /\ h.startTime \in Nat /\ h.nSamples \in Nat /\ h.samplingRate \in Nat \ {0}
           /\ h.nSamples < Counts
           /\ Interval(h.samplingRate) \in Nat
           /\ Extent(h.samplingRate, h.nSamples) \in Nat
           /\ endTime(h) = h.startTime + Extent(h.samplingRate, h.nSamples)
           /\ h.nSamples > 0 => Extent(h.samplingRate, h.nSamples) =
                                  Interval(h.samplingRate) * (h.nSamples - 1)
<1>1. /\ h.startTime \in Nat /\ h.nSamples \in Nat /\ h.samplingRate \in Nat \ {0}
      /\ h.nSamples < Counts /\ Counts \in Nat \ {0}
  BY HeadersAssumption
<1>2. Interval(h.samplingRate) \in Nat
  BY <1>1, RoundProperties, SecondAssumption DEF Interval
<1>3. /\ (h.nSamples - 1) % Counts \in Nat
      /\ h.nSamples > 0 => (h.nSamples - 1) % Counts = h.nSamples - 1
  BY <1>1
<1>4. \A i, j \in Nat : i * j \in Nat
  OBVIOUS
<1> QED BY <1>1, <1>2, <1>3, <1>4 DEF Extent, endTime

-----------------------------------------------------------------------------
(***************************************************************************)
(* The detectors that look at the clock.                                   *)
(***************************************************************************)
\* What either has answered follows from the one end of the packet it looks at.
\* The times it compares are no longer set once it is constructed.
Judged ==
    LET h      == verdict.of
        latest == verdict.at + mMaxFutureTime
    IN  verdict # NoVerdict =>
            /\ constructed /\ h \in Headers /\ verdict.at \in Nat
            /\ kind = "expired" =>
                 verdict.answer = IF h.startTime >= verdict.at - mMaxExpiredTime
                                  THEN "allowed" ELSE "refused"
            /\ kind = "future" /\ latest <= LargestTime =>
                 verdict.answer = IF endTime(h) <= latest THEN "allowed" ELSE "refused"

TimeTypes == /\ kind \in {"duplicate", "expired", "future"}
             /\ mMaxExpiredTime \in Nat \ {0} /\ mMaxFutureTime \in Int
             /\ now \in 0..LastTick

\* Each step keeps the types and the judgement.
LEMMA NextJudged ==
    ASSUME TimeTypes, Judged, [NextDetectors]_vars
    PROVE  TimeTypes' /\ Judged'
<1> USE DEF TimeTypes
<1>1. CASE DuplicateNext
  <2>1. constructed => constructed'
    BY <1>1 DEF DuplicateNext, Next, Configure, setCircularBufferSize,
                setCircularBufferDuration, Set, Construct, allow, RefuseUnreadable,
                RefuseWithoutRate,
                AllowFirst, ThrowFirst, Throw, RefuseDuplicate, AllowNewer, RefuseOlder,
                RefuseSlip, AllowBackfill, Return, settings
  <2>2. UNCHANGED <<kind, timeVars>>
    BY <1>1 DEF DuplicateNext
  <2> QED BY <2>1, <2>2 DEF timeVars, Judged, endTime
<1>2. CASE SetTime
  <2>1. ~constructed /\ UNCHANGED <<kind, verdict, now>>
    BY <1>2 DEF SetTime, setMaxExpiredTime, setMaxFutureTime
  <2>2. verdict = NoVerdict
    BY <2>1 DEF Judged
  <2>3. mMaxExpiredTime' \in Nat \ {0} /\ mMaxFutureTime' \in Int
    BY <1>2, TimesAssumption DEF SetTime, setMaxExpiredTime, setMaxFutureTime
  <2> QED BY <2>1, <2>2, <2>3 DEF Judged
<1>3. CASE ConstructFromTime
  BY <1>3 DEF ConstructFromTime, Construct, timeVars, Judged
<1>4. CASE TimePasses
  BY <1>4, TimesAssumption DEF TimePasses, Tick, duplicateVars, settings, Judged
<1>5. ASSUME NEW h \in Headers, Ask(h)
      PROVE  TimeTypes' /\ Judged'
  <2>1. /\ constructed /\ kind' = kind /\ constructed' = constructed /\ now \in Nat
        /\ UNCHANGED <<mMaxExpiredTime, mMaxFutureTime, now>>
    BY <1>5, TimesAssumption
    DEF Ask, duplicateVars, settings, expiredAllow, futureAllow, Answer
  <2>2. CASE kind = "expired"
    <3>1. Answer(h, IF h.startTime >= now - mMaxExpiredTime THEN "allowed" ELSE "refused")
      BY <1>5, <2>2 DEF Ask, expiredAllow
    <3> QED BY <2>1, <2>2, <3>1 DEF Answer, Judged
  <2>3. CASE kind = "future"
    <3>1. futureAllow(h)
      BY <1>5, <2>3 DEF Ask
    <3>2. \E a : Answer(h, a) /\ (latestTime <= LargestTime =>
                   a = IF endTime(h) <= latestTime THEN "allowed" ELSE "refused")
      <4>1. latestTime \in Int /\ LargestTime \in Int
        BY <2>1, TimesAssumption DEF latestTime
      <4> QED BY <3>1, <4>1 DEF futureAllow
    <3> QED BY <2>1, <2>3, <3>2 DEF Answer, Judged, latestTime
  <2> QED BY <1>5, <2>2, <2>3 DEF Ask
<1>6. CASE AskWithoutRate
  BY <1>6 DEF AskWithoutRate, futureThrow, Judged
<1>7. CASE UNCHANGED vars
  BY <1>7 DEF vars, timeVars, duplicateVars, settings, Judged
<1> QED BY <1>1, <1>2, <1>3, <1>4, <1>5, <1>6, <1>7 DEF NextDetectors

\* A sample of a packet is at its start and k intervals, but for rounding.
LEMMA SampleIsNear ==
    ASSUME NEW h \in Headers, NEW k \in Nat
    PROVE  LET near == (h.startTime + k * Interval(h.samplingRate)) * h.samplingRate
           IN  /\ SampleTime(h, k) \in Int /\ near \in Int
               /\ 2 * SampleTime(h, k) <= 2 * near + k * h.samplingRate
               /\ 2 * near <= 2 * SampleTime(h, k) + k * h.samplingRate
<1> DEFINE r == h.samplingRate
           t == h.startTime
           i == Interval(r)
<1>1. r \in Nat \ {0} /\ t \in Nat /\ i \in Nat
  BY HeaderProperties
<1>2. 2 * r * i <= 2 * Second + r /\ 2 * Second + r < 2 * r * i + 2 * r
  BY <1>1, RoundProperties, SecondAssumption DEF Interval
<1> HIDE DEF r, t, i
<1>3. /\ k * (2 * r * i) <= k * (2 * Second + r)
      /\ k * (2 * Second + r) <= k * (2 * r * i + 2 * r)
  <2>1. \A x, y \in Int : x <= y => k * x <= k * y
    OBVIOUS
  <2> QED BY <1>1, <1>2, <2>1, SecondAssumption
<1>4. /\ 2 * ((t + k * i) * r) = 2 * (t * r) + k * (2 * r * i)
      /\ k * (2 * Second + r) = 2 * (k * Second) + k * r
      /\ k * (2 * r * i + 2 * r) = k * (2 * r * i) + 2 * (k * r)
  BY <1>1, SecondAssumption
<1>5. t * r \in Int /\ k * r \in Int /\ k * Second \in Int /\ k * (2 * r * i) \in Int
      /\ (t + k * i) * r \in Int
  BY <1>1, SecondAssumption
<1>6. /\ 2 * (t * r + k * Second) <= 2 * ((t + k * i) * r) + k * r
      /\ 2 * ((t + k * i) * r) <= 2 * (t * r + k * Second) + k * r
  BY <1>3, <1>4, <1>5
<1> QED BY <1>5, <1>6 DEF SampleTime, r, t, i

\* The judgement is right for every sample.
LEMMA JudgedSamples == ASSUME TimeTypes, Judged PROVE SamplesAreInTime
<1> DEFINE h == verdict.of
           r == h.samplingRate
           earliest == verdict.at - mMaxExpiredTime
           latest == verdict.at + mMaxFutureTime
<1> SUFFICES ASSUME verdict # NoVerdict, h.nSamples > 0
             PROVE  /\ kind = "expired" =>
                         (verdict.answer = "refused" <=>
                            \E k \in Samples(h) : SampleTime(h, k) < earliest * r)
                    /\ kind = "future" /\ latest <= LargestTime =>
                         /\ verdict.answer = "allowed" =>
                              \A k \in Samples(h) :
                                2 * SampleTime(h, k) <= (2 * latest + k) * r
                         /\ verdict.answer = "refused" =>
                              \E k \in Samples(h) :
                                2 * SampleTime(h, k) > (2 * latest - k) * r
  BY DEF SamplesAreInTime
<1>1. /\ h \in Headers /\ earliest \in Int /\ latest \in Int
      /\ kind = "expired" =>
           verdict.answer = IF h.startTime >= earliest THEN "allowed" ELSE "refused"
      /\ kind = "future" /\ latest <= LargestTime =>
           verdict.answer = IF endTime(h) <= latest THEN "allowed" ELSE "refused"
  BY DEF Judged, TimeTypes
<1> HIDE DEF h, earliest, latest
<1> DEFINE i == Interval(r)
           n == h.nSamples
           t == h.startTime
<1>2. /\ r \in Nat \ {0} /\ t \in Nat /\ i \in Nat /\ n \in Nat /\ n > 0
      /\ endTime(h) = t + (n - 1) * i
      /\ Samples(h) = 0..(n - 1)
  <2>1. n > 0
    OBVIOUS
  <2>2. endTime(h) = t + i * (n - 1) /\ i * (n - 1) = (n - 1) * i
    BY <1>1, <2>1, HeaderProperties
  <2> QED BY <1>1, <2>1, <2>2, HeaderProperties DEF Samples
<1>3. ASSUME NEW k \in 0..(n - 1)
      PROVE  /\ SampleTime(h, k) \in Int
             /\ 2 * SampleTime(h, k) <= 2 * ((t + k * i) * r) + k * r
             /\ 2 * ((t + k * i) * r) <= 2 * SampleTime(h, k) + k * r
  <2>1. k \in Nat
    BY <1>2
  <2> QED BY <1>1, <2>1, SampleIsNear
<1> HIDE DEF r, i, n, t
<1>4. \A x, y \in Int : x <= y => x * r <= y * r
  <2>1. r \in Nat
    BY <1>2
  <2> QED BY <2>1
<1>5. ASSUME NEW x \in Int, NEW y \in Int, x < y
      PROVE  x * r < y * r
  <2>1. (x + 1) * r <= y * r
    <3>1. x + 1 \in Int /\ x + 1 <= y
      BY <1>5
    <3> QED BY <1>4, <3>1
  <2>2. (x + 1) * r = x * r + r
    BY <1>2
  <2>3. x * r \in Int /\ y * r \in Int
    BY <1>2
  <2> QED BY <1>2, <2>1, <2>2, <2>3
<1>6. ASSUME kind = "expired"
      PROVE  verdict.answer = "refused" <=>
               \E k \in Samples(h) : SampleTime(h, k) < earliest * r
  <2>1. CASE t >= earliest
    <3>1. ASSUME NEW k \in Samples(h)
          PROVE  ~(SampleTime(h, k) < earliest * r)
      <4>1. earliest * r <= t * r
        BY <1>1, <1>2, <1>4, <2>1
      <4>2. k * Second \in Nat /\ t * r \in Int /\ earliest * r \in Int
        BY <1>1, <1>2, SecondAssumption
      <4> QED BY <4>1, <4>2 DEF SampleTime, r, t
    <3> QED BY <1>1, <1>6, <2>1, <3>1 DEF t
  <2>2. CASE t < earliest
    <3>1. t * r < earliest * r
      BY <1>1, <1>2, <1>5, <2>2
    <3>2. SampleTime(h, 0) = t * r
      BY <1>2, SecondAssumption DEF SampleTime, r, t
    <3>3. 0 \in Samples(h)
      BY <1>2
    <3> QED BY <1>1, <1>2, <1>6, <2>2, <3>1, <3>2, <3>3 DEF t
  <2> QED BY <1>1, <1>2, <2>1, <2>2
<1>7. ASSUME kind = "future", latest <= LargestTime, verdict.answer = "allowed",
             NEW k \in Samples(h)
      PROVE  2 * SampleTime(h, k) <= (2 * latest + k) * r
  <2>1. t + (n - 1) * i <= latest
    BY <1>1, <1>2, <1>7
  <2>2. k \in 0..(n - 1) /\ k * i <= (n - 1) * i
    <3>1. k \in Int /\ n - 1 \in Int /\ k <= n - 1
      BY <1>2
    <3> QED BY <1>2, <3>1
  <2>3. t + k * i <= latest
    BY <1>1, <1>2, <2>1, <2>2
  <2>4. (t + k * i) * r <= latest * r
    <3>1. t + k * i \in Int
      BY <1>2, <2>2
    <3> QED BY <1>1, <1>4, <2>3, <3>1
  <2>5. (2 * latest + k) * r = 2 * (latest * r) + k * r
    BY <1>1, <1>2, <2>2
  <2>6. (t + k * i) * r \in Int /\ latest * r \in Int /\ k * r \in Int
    BY <1>1, <1>2, <2>2
  <2> QED BY <1>3, <2>2, <2>4, <2>5, <2>6
<1>8. ASSUME kind = "future", latest <= LargestTime, verdict.answer = "refused"
      PROVE  \E k \in Samples(h) : 2 * SampleTime(h, k) > (2 * latest - k) * r
  <2> DEFINE k == n - 1
  <2>1. latest < t + k * i /\ k \in 0..(n - 1)
    BY <1>1, <1>2, <1>8
  <2> HIDE DEF k
  <2>2. latest * r < (t + k * i) * r
    <3>1. t + k * i \in Int
      BY <1>2, <2>1
    <3> QED BY <1>1, <1>5, <2>1, <3>1
  <2>3. (2 * latest - k) * r = 2 * (latest * r) - k * r
    BY <1>1, <1>2, <2>1
  <2>4. (t + k * i) * r \in Int /\ latest * r \in Int /\ k * r \in Int
    BY <1>1, <1>2, <2>1
  <2>5. 2 * SampleTime(h, k) > (2 * latest - k) * r
    BY <1>3, <2>1, <2>2, <2>3, <2>4
  <2> QED BY <1>2, <2>1, <2>5
<1> QED BY <1>6, <1>7, <1>8
-----------------------------------------------------------------------------
(***************************************************************************)
(* The circular buffer.                                                    *)
(***************************************************************************)
\* In the order of their start times, strictly.
Sorted(q) == \A i, j \in DOMAIN q : i < j => q[i].startTime < q[j].startTime

\* Remembered packets can be read, are of one rate, start at different times and
\* are not the same but for the tolerance.
Distinct(X) ==
    \A x, y \in X : /\ IsReadable(x) /\ x.samplingRate = y.samplingRate
                    /\ x # y => x.startTime # y.startTime /\ ~Equal(x, y)

\* They are equally long, and one ends before another starts.
Apart(X) ==
    \A x, y \in X : /\ x.nSamples = y.nSamples
                    /\ x.startTime < y.startTime => endTime(x) < y.startTime

\* What is in a sequence that grows at its end, or loses its front.
LEMMA AppendSet ==
    ASSUME NEW S, NEW q \in Seq(S), NEW h \in S
    PROVE  /\ Append(q, h) \in Seq(S) /\ Len(Append(q, h)) = Len(q) + 1
           /\ ToSet(Append(q, h)) = ToSet(q) \cup {h}
           /\ \A i \in 1..Len(q) : Append(q, h)[i] = q[i]
           /\ Append(q, h)[Len(q) + 1] = h
<1>1. /\ Append(q, h) \in Seq(S) /\ Len(Append(q, h)) = Len(q) + 1
      /\ \A i \in 1..Len(q) : Append(q, h)[i] = q[i]
      /\ Append(q, h)[Len(q) + 1] = h
  OBVIOUS
<1>2. Len(q) \in Nat /\ DOMAIN q = 1..Len(q)
      /\ DOMAIN Append(q, h) = 1..Len(q) \cup {Len(q) + 1}
  BY <1>1
<1> QED BY <1>1, <1>2 DEF ToSet

\* What is in a sequence without its front.
LEMMA TailSet ==
    ASSUME NEW S, NEW q \in Seq(S), q # <<>>
    PROVE  /\ Tail(q) \in Seq(S) /\ Len(Tail(q)) = Len(q) - 1 /\ Head(q) = q[1]
           /\ ToSet(Tail(q)) \subseteq ToSet(q)
           /\ ToSet(q) = ToSet(Tail(q)) \cup {Head(q)}
           /\ \A i \in 1..(Len(q) - 1) : Tail(q)[i] = q[i + 1]
<1>1. /\ Tail(q) \in Seq(S) /\ Len(Tail(q)) = Len(q) - 1 /\ Head(q) = q[1]
      /\ \A i \in 1..(Len(q) - 1) : Tail(q)[i] = q[i + 1]
  BY HeadTailProperties
<1>2. /\ Len(q) \in Nat \ {0} /\ DOMAIN q = 1..Len(q)
      /\ DOMAIN Tail(q) = 1..(Len(q) - 1)
  BY <1>1, LenProperties, EmptySeq
<1>3. ASSUME NEW x \in ToSet(Tail(q))
      PROVE  x \in ToSet(q)
  <2>1. PICK i \in 1..(Len(q) - 1) : x = Tail(q)[i]
    BY <1>2 DEF ToSet
  <2>2. x = q[i + 1] /\ i + 1 \in DOMAIN q
    BY <1>1, <1>2, <2>1
  <2> QED BY <2>2 DEF ToSet
<1>4. ASSUME NEW x \in ToSet(q)
      PROVE  x \in ToSet(Tail(q)) \cup {Head(q)}
  <2>1. PICK i \in 1..Len(q) : x = q[i]
    BY <1>2 DEF ToSet
  <2>2. CASE i = 1
    BY <1>1, <2>1, <2>2
  <2>3. CASE i # 1
    <3>1. i - 1 \in 1..(Len(q) - 1) /\ i - 1 + 1 = i
      BY <1>2, <2>3
    <3>2. x = Tail(q)[i - 1] /\ i - 1 \in DOMAIN Tail(q)
      BY <1>1, <1>2, <2>1, <3>1
    <3> QED BY <3>2 DEF ToSet
  <2> QED BY <2>2, <2>3
<1>5. Head(q) \in ToSet(q)
  BY <1>1, <1>2 DEF ToSet
<1> QED BY <1>1, <1>3, <1>4, <1>5

\* ... or grows at its front.
LEMMA PrependSet ==
    ASSUME NEW S, NEW q \in Seq(S), NEW h \in S
    PROVE  /\ <<h>> \o q \in Seq(S) /\ Len(<<h>> \o q) = Len(q) + 1
           /\ ToSet(<<h>> \o q) = ToSet(q) \cup {h}
           /\ (<<h>> \o q)[1] = h
           /\ \A i \in 2..(Len(q) + 1) : (<<h>> \o q)[i] = q[i - 1]
<1> DEFINE p == <<h>> \o q
<1>1. /\ p \in Seq(S) /\ Len(p) = Len(q) + 1 /\ Len(q) \in Nat
      /\ \A i \in 1..(Len(q) + 1) : p[i] = IF i <= 1 THEN h ELSE q[i - 1]
  <2>1. <<h>> \in Seq(S) /\ Len(<<h>>) = 1 /\ <<h>>[1] = h
    OBVIOUS
  <2>2. /\ p \in Seq(S) /\ Len(p) = 1 + Len(q)
        /\ \A i \in 1..(1 + Len(q)) : p[i] = IF i <= 1 THEN <<h>>[i] ELSE q[i - 1]
    BY <2>1, ConcatProperties
  <2>3. Len(q) \in Nat
    OBVIOUS
  <2> HIDE DEF p
  <2>4. \A i \in 1..(Len(q) + 1) : p[i] = IF i <= 1 THEN h ELSE q[i - 1]
    BY <2>1, <2>2, <2>3
  <2> QED BY <2>2, <2>3, <2>4
<1> HIDE DEF p
<1>2. DOMAIN p = 1..(Len(q) + 1) /\ DOMAIN q = 1..Len(q)
  BY <1>1, LenProperties
<1>3. p[1] = h /\ \A i \in 2..(Len(q) + 1) : p[i] = q[i - 1]
  BY <1>1
<1>4. ASSUME NEW x \in ToSet(p)
      PROVE  x \in ToSet(q) \cup {h}
  <2>1. PICK i \in 1..(Len(q) + 1) : x = p[i]
    BY <1>2 DEF ToSet
  <2>2. CASE i = 1
    BY <1>3, <2>1, <2>2
  <2>3. CASE i # 1
    <3>1. i - 1 \in DOMAIN q /\ x = q[i - 1]
      BY <1>1, <1>2, <1>3, <2>1, <2>3
    <3> QED BY <3>1 DEF ToSet
  <2> QED BY <2>2, <2>3
<1>5. ASSUME NEW x \in ToSet(q)
      PROVE  x \in ToSet(p)
  <2>1. PICK i \in 1..Len(q) : x = q[i]
    BY <1>2 DEF ToSet
  <2>2. i + 1 \in DOMAIN p /\ i + 1 \in 2..(Len(q) + 1) /\ i + 1 - 1 = i
    BY <1>1, <1>2
  <2>3. x = p[i + 1]
    BY <1>3, <2>1, <2>2
  <2> QED BY <2>2, <2>3 DEF ToSet
<1>6. h \in ToSet(p)
  <2>1. 1 \in DOMAIN p
    BY <1>1, <1>2
  <2> QED BY <1>3, <2>1 DEF ToSet
<1> QED BY <1>1, <1>3, <1>4, <1>5, <1>6 DEF p

\* A packet that is appended to a sorted buffer, and starts with none of those in
\* it, is sorted in: there is a permutation that puts them in order ...
LEMMA SortingOrder ==
    ASSUME NEW b \in Seq(Headers), Sorted(b), NEW h \in Headers,
           \A x \in ToSet(b) : x.startTime # h.startTime,
           NEW q, q = Append(b, h)
    PROVE  /\ DOMAIN q = 1..(Len(b) + 1)
           /\ \A i, j \in DOMAIN q : i # j => q[i].startTime # q[j].startTime
           /\ \E p \in Bijection(DOMAIN q, DOMAIN q) :
                \A i, j \in DOMAIN q :
                  i < j => q[p[i]].startTime <= q[p[j]].startTime
<1> DEFINE m == Len(b)
           n == m + 1
           K == {i \in 1..n : i = n \/ (i <= m /\ b[i].startTime > h.startTime)}
           k == Min(K)
           p == [i \in 1..n |-> IF i < k THEN i ELSE IF i = k THEN n ELSE i - 1]
<1>1. /\ m \in Nat /\ DOMAIN b = 1..m /\ \A i \in 1..m : b[i] \in Headers /\ b[i] \in ToSet(b)
  BY LenProperties, ElementOfSeq DEF ToSet
<1>2. /\ DOMAIN q = 1..n /\ q[n] = h /\ \A i \in 1..m : q[i] = b[i]
  <2>1. q \in Seq(Headers) /\ Len(q) = n
    BY AppendSet
  <2>2. DOMAIN q = 1..n
    BY <2>1, LenProperties
  <2> QED BY <2>2, AppendSet
<1> HIDE DEF m
<1>3. h.startTime \in Nat /\ \A i \in 1..m : b[i].startTime \in Nat
  BY <1>1, HeaderProperties
<1>4. /\ \A i, j \in 1..m : i < j => b[i].startTime < b[j].startTime
      /\ \A i \in 1..m : b[i].startTime # h.startTime
  BY <1>1 DEF Sorted
<1>5. k \in K /\ \A i \in K : k <= i
  <2>1. K \in SUBSET Nat /\ n \in K
    BY <1>1
  <2> QED BY <2>1, MinProperties
<1> HIDE DEF k
<1>6. k \in 1..n
  BY <1>5
<1>7. ASSUME NEW i \in 1..m
      PROVE  /\ i < k => b[i].startTime < h.startTime
             /\ i >= k => b[i].startTime > h.startTime
  <2>1. CASE i < k
    <3>1. i \notin K
      BY <1>1, <1>5, <1>6, <2>1
    <3>2. ~(b[i].startTime > h.startTime)
      BY <1>1, <3>1
    <3> QED BY <1>1, <1>3, <1>4, <1>6, <2>1, <3>2
  <2>2. CASE i >= k
    <3>1. k \in 1..m /\ b[k].startTime > h.startTime
      BY <1>1, <1>5, <1>6, <2>2
    <3>2. i = k \/ b[i].startTime > b[k].startTime
      BY <1>1, <1>4, <2>2, <3>1
    <3> QED BY <1>3, <2>2, <3>1, <3>2
  <2> QED BY <1>1, <1>6, <2>1, <2>2
<1>8. p \in Bijection(1..n, 1..n)
  <2>1. p \in [1..n -> 1..n]
    BY <1>1, <1>6
  <2>2. \A i, j \in 1..n : p[i] = p[j] => i = j
    BY <1>1, <1>6
  <2>3. ASSUME NEW j \in 1..n
        PROVE  \E i \in 1..n : p[i] = j
    <3>1. CASE j < k
      BY <1>1, <1>6, <3>1
    <3>2. CASE j = n
      BY <1>1, <1>6, <3>2
    <3>3. CASE j >= k /\ j # n
      <4>1. j + 1 \in 1..n /\ p[j + 1] = j
        BY <1>1, <1>6, <3>3
      <4> QED BY <4>1
    <3> QED BY <1>1, <1>6, <3>1, <3>2, <3>3
  <2> HIDE DEF p
  <2> QED BY <2>1, <2>2, <2>3 DEF Bijection, Injection, Surjection, IsInjective
<1>9. ASSUME NEW i \in 1..n, NEW j \in 1..n, i < j
      PROVE  q[p[i]].startTime <= q[p[j]].startTime
  <2>1. CASE j < k
    <3>1. p[i] = i /\ p[j] = j /\ i \in 1..m /\ j \in 1..m
      BY <1>1, <1>6, <1>9, <2>1
    <3> HIDE DEF p
    <3> QED BY <1>1, <1>2, <1>3, <1>6, <1>4, <1>9, <3>1
  <2>2. CASE j = k
    <3>1. p[i] = i /\ p[j] = n /\ i \in 1..m /\ i < k
      BY <1>1, <1>6, <1>9, <2>2
    <3> HIDE DEF p
    <3>2. q[p[i]] = b[i] /\ q[p[j]] = h
      BY <1>2, <3>1
    <3>3. b[i].startTime < h.startTime
      BY <1>7, <3>1
    <3> QED BY <1>3, <3>1, <3>2, <3>3
  <2>3. CASE j > k /\ i < k
    <3>1. p[i] = i /\ p[j] = j - 1 /\ i \in 1..m /\ j - 1 \in 1..m /\ i < j - 1
      BY <1>1, <1>6, <1>9, <2>3
    <3> HIDE DEF p
    <3> QED BY <1>1, <1>2, <1>3, <1>6, <1>4, <3>1
  <2>4. CASE j > k /\ i = k
    <3>1. p[i] = n /\ p[j] = j - 1 /\ j - 1 \in 1..m /\ j - 1 >= k
      BY <1>1, <1>6, <1>9, <2>4
    <3> HIDE DEF p
    <3>2. q[p[i]] = h /\ q[p[j]] = b[j - 1]
      BY <1>2, <3>1
    <3>3. b[j - 1].startTime > h.startTime
      BY <1>7, <3>1
    <3> QED BY <1>3, <3>1, <3>2, <3>3
  <2>5. CASE j > k /\ i > k
    <3>1. /\ p[i] = i - 1 /\ p[j] = j - 1
          /\ i - 1 \in 1..m /\ j - 1 \in 1..m /\ i - 1 < j - 1
      BY <1>1, <1>6, <1>9, <2>5
    <3> HIDE DEF p
    <3> QED BY <1>1, <1>2, <1>3, <1>6, <1>4, <3>1
  <2> QED BY <1>1, <1>6, <1>9, <2>1, <2>2, <2>3, <2>4, <2>5
<1>10. ASSUME NEW i \in 1..n, NEW j \in 1..n, i # j
       PROVE  q[i].startTime # q[j].startTime
  <2>1. CASE i = n
    <3>1. j \in 1..m
      BY <1>1, <1>10, <2>1
    <3> QED BY <1>2, <1>4, <2>1, <3>1
  <2>2. CASE j = n
    <3>1. i \in 1..m
      BY <1>1, <1>10, <2>2
    <3> QED BY <1>2, <1>4, <2>2, <3>1
  <2>3. CASE i # n /\ j # n
    <3>1. i \in 1..m /\ j \in 1..m /\ (i < j \/ j < i)
      BY <1>1, <1>10, <2>3
    <3>2. q[i] = b[i] /\ q[j] = b[j]
      BY <1>2, <3>1
    <3>3. b[i].startTime \in Nat /\ b[j].startTime \in Nat
      BY <1>3, <3>1
    <3>4. b[i].startTime < b[j].startTime \/ b[j].startTime < b[i].startTime
      BY <1>4, <3>1
    <3> QED BY <3>2, <3>3, <3>4
  <2> QED BY <2>1, <2>2, <2>3
<1> HIDE DEF p
<1> QED BY <1>2, <1>8, <1>9, <1>10 DEF m

\* ... so that what is left is sorted, and holds the same.
LEMMA SortAppended ==
    ASSUME NEW b \in Seq(Headers), Sorted(b), NEW h \in Headers,
           \A x \in ToSet(b) : x.startTime # h.startTime,
           NEW r, r = Sort(Append(b, h))
    PROVE  /\ r \in Seq(Headers) /\ Len(r) = Len(b) + 1
           /\ ToSet(r) = ToSet(b) \cup {h}
           /\ Sorted(r)
<1> DEFINE q == Append(b, h)
           D == DOMAIN q
           InOrder(p) == \A i, j \in D : i < j => q[p[i]].startTime <= q[p[j]].startTime
           order == CHOOSE p \in Bijection(D, D) : InOrder(p)
<1>1. /\ q \in Seq(Headers) /\ ToSet(q) = ToSet(b) \cup {h}
  BY AppendSet
<1>2. /\ D = 1..(Len(b) + 1)
      /\ \A i, j \in D : i # j => q[i].startTime # q[j].startTime
      /\ \E p \in Bijection(D, D) : InOrder(p)
  BY SortingOrder
<1>3. r = [i \in D |-> q[order[i]]]
  BY DEF Sort
<1>4. order \in Bijection(D, D) /\ InOrder(order)
  BY <1>2
<1> HIDE DEF order, q
<1>5. /\ \A i \in D : order[i] \in D
      /\ \A i, j \in D : i # j => order[i] # order[j]
      /\ \A j \in D : \E i \in D : order[i] = j
  BY <1>4 DEF Bijection, Injection, Surjection, IsInjective
<1>6. \A i \in D : q[i] \in Headers /\ q[i].startTime \in Nat
  <2>1. \A i \in D : q[i] \in Headers
    BY <1>1, ElementOfSeq, LenProperties
  <2> QED BY <2>1, HeaderProperties
<1>7. DOMAIN r = D /\ \A i \in D : r[i] = q[order[i]]
  BY <1>3
<1>8. r \in Seq(Headers) /\ Len(r) = Len(b) + 1
  <2>1. Len(b) \in Nat
    OBVIOUS
  <2>2. r \in [1..(Len(b) + 1) -> Headers]
    BY <1>2, <1>3, <1>5, <1>6
  <2> QED BY <2>1, <2>2, SeqDef
<1>9. ToSet(r) = ToSet(q)
  <2>1. ASSUME NEW x \in ToSet(q)
        PROVE  x \in ToSet(r)
    <3>1. PICK j \in D : x = q[j]
      BY DEF ToSet
    <3>2. PICK i \in D : order[i] = j
      BY <1>5
    <3> QED BY <1>7, <3>1, <3>2 DEF ToSet
  <2>2. ASSUME NEW x \in ToSet(r)
        PROVE  x \in ToSet(q)
    <3>1. PICK i \in D : x = q[order[i]]
      BY <1>7 DEF ToSet
    <3> QED BY <1>5, <3>1 DEF ToSet
  <2> QED BY <2>1, <2>2
<1>10. ASSUME NEW i \in D, NEW j \in D, i < j
       PROVE  r[i].startTime < r[j].startTime
  <2>1. q[order[i]].startTime <= q[order[j]].startTime
    BY <1>4, <1>10
  <2>2. i # j
    BY <1>2, <1>10
  <2>3. q[order[i]].startTime # q[order[j]].startTime
    BY <1>2, <1>5, <2>2
  <2>4. q[order[i]].startTime \in Nat /\ q[order[j]].startTime \in Nat
    BY <1>5, <1>6
  <2> QED BY <1>7, <2>1, <2>3, <2>4
<1> QED BY <1>1, <1>7, <1>8, <1>9, <1>10 DEF Sorted
-----------------------------------------------------------------------------
(***************************************************************************)
(* What the detector of duplicates remembers.                              *)
(***************************************************************************)
\* As long as all packets were equally long, those dropped end before those kept
\* start, and the capacity is what the duration asks for.
LongEnough ==
    LET first == Head(buffer)
    IN  /\ Apart(ToSet(buffer))
        /\ forgotten # Never => IsFull /\ forgotten + Span(first) < first.startTime
        /\ mEstimateCapacity /\ packetDuration(first) > 0 =>
             2 * packetDuration(first) * capacity > 3 * options.mCircularBufferDuration

\* One option replaces the other.
OneOption ==
    \/ options.mCircularBufferSize = Unset /\ options.mCircularBufferDuration \in Nat \ {0}
    \/ options.mCircularBufferSize \in Nat \ {0} /\ options.mCircularBufferDuration = Unset

Remembers ==
    /\ OneOption
    /\ Sorted(buffer) /\ Distinct(ToSet(buffer))
    /\ ~constructed => buffer = <<>>
    /\ buffer = <<>> => uniform /\ forgotten = Never
    /\ buffer # <<>> /\ uniform => LongEnough

\* The types of what is in the buffer.
LEMMA BufferTypes ==
    ASSUME TypeOK
    PROVE  /\ ToSet(buffer) \subseteq Headers
           /\ Len(buffer) \in Nat /\ DOMAIN buffer = 1..Len(buffer)
           /\ \A i \in 1..Len(buffer) : buffer[i] \in ToSet(buffer)
           /\ \A x \in ToSet(buffer) : \E i \in 1..Len(buffer) : x = buffer[i]
           /\ buffer # <<>> =>
                /\ Len(buffer) > 0 /\ capacity > 0
                /\ Head(buffer) = buffer[1] /\ Last(buffer) = buffer[Len(buffer)]
                /\ Head(buffer) \in ToSet(buffer) /\ Last(buffer) \in ToSet(buffer)
<1>1. /\ Len(buffer) \in Nat /\ DOMAIN buffer = 1..Len(buffer)
      /\ \A i \in 1..Len(buffer) : buffer[i] \in Headers
  BY LenProperties, ElementOfSeq DEF TypeOK
<1>2. buffer # <<>> => Len(buffer) > 0 /\ Head(buffer) = buffer[1]
  BY EmptySeq DEF TypeOK
<1> QED BY <1>1, <1>2 DEF TypeOK, ToSet, Last

\* What comes first, starts first; what comes last, last.
LEMMA Ends ==
    ASSUME TypeOK, Sorted(buffer), NEW x \in ToSet(buffer)
    PROVE  /\ buffer # <<>>
           /\ x = Head(buffer) \/ Head(buffer).startTime < x.startTime
           /\ x = Last(buffer) \/ x.startTime < Last(buffer).startTime
           /\ x = Head(buffer) \/ x \in ToSet(Tail(buffer))
<1>1. PICK i \in 1..Len(buffer) : x = buffer[i]
  BY BufferTypes
<1>2. buffer # <<>>
  BY <1>1, EmptySeq DEF TypeOK
<1>3. /\ i = 1 \/ buffer[1].startTime < buffer[i].startTime
      /\ i = Len(buffer) \/ buffer[i].startTime < buffer[Len(buffer)].startTime
  BY <1>1, BufferTypes DEF Sorted
<1>4. x = Head(buffer) \/ x \in ToSet(Tail(buffer))
  BY <1>2, TailSet DEF TypeOK
<1> QED BY <1>1, <1>2, <1>3, <1>4, BufferTypes

\* Packets behind the first start later.
LEMMA TailIsLater ==
    ASSUME TypeOK, Sorted(buffer), buffer # <<>>, NEW x \in ToSet(Tail(buffer))
    PROVE  Head(buffer).startTime < x.startTime
<1>1. /\ Tail(buffer) \in Seq(Headers) /\ Len(Tail(buffer)) = Len(buffer) - 1
      /\ \A i \in 1..(Len(buffer) - 1) : Tail(buffer)[i] = buffer[i + 1]
  BY TailSet DEF TypeOK
<1>2. PICK i \in 1..(Len(buffer) - 1) : x = Tail(buffer)[i]
  BY <1>1, LenProperties DEF ToSet
<1>3. i + 1 \in 1..Len(buffer) /\ 1 < i + 1 /\ 1 \in 1..Len(buffer)
  BY <1>2, BufferTypes
<1>4. x = buffer[i + 1]
  BY <1>1, <1>2
<1> QED BY <1>3, <1>4, BufferTypes DEF Sorted

\* A packet that std::find does not find is comparable with every remembered one,
\* and not the same.
LEMMA UnknownPackets ==
    ASSUME TypeOK, NEW h \in Headers, IsUnknown(h), NEW x \in ToSet(buffer)
    PROVE  x.samplingRate = h.samplingRate /\ ~Equal(x, h) /\ ~Equal(h, x) /\ x \in Headers
<1>1. PICK i \in DOMAIN buffer : x = buffer[i]
  BY DEF ToSet
<1>2. ~Incomparable(x, h) /\ ~Equal(x, h)
  BY <1>1 DEF IsUnknown, Matches
<1>3. x \in Headers /\ x.samplingRate = h.samplingRate
  BY <1>2, BufferTypes DEF Incomparable
<1>4. ~Equal(h, x)
  <2>1. /\ x.startTime \in Nat /\ h.startTime \in Nat
        /\ Tolerance[x.samplingRate] \in Nat
    BY <1>3, HeaderProperties, ToleranceAssumption
  <2> QED BY <1>2, <1>3, <2>1 DEF Equal
<1> QED BY <1>2, <1>3, <1>4

\* Packets with as many samples at the same rate are equally long.
LEMMA SameSpan ==
    ASSUME NEW x \in Headers, NEW y \in Headers, x.samplingRate = y.samplingRate
    PROVE  /\ Span(x) \in Nat /\ endTime(x) \in Nat
           /\ endTime(x) = x.startTime + Span(x)
           /\ x.nSamples = y.nSamples =>
                Span(x) = Span(y) /\ packetDuration(x) = packetDuration(y)
<1>1. \A z \in Headers : Span(z) = Extent(z.samplingRate, z.nSamples)
  BY HeaderProperties DEF Span
<1> QED BY <1>1, HeaderProperties DEF packetDuration

\* History keeps the latest start of what was dropped.
LEMMA ForgottenPackets ==
    ASSUME TypeOK, NEW q, Remember(q),
           NEW z \in Nat, \A x \in ToSet(buffer) \ ToSet(q) : x.startTime = z
    PROVE  /\ forgotten' \in {forgotten, z}
           /\ ToSet(buffer) \subseteq ToSet(q) => forgotten' = forgotten
<1> DEFINE dropped == {x.startTime : x \in ToSet(buffer) \ ToSet(q)}
<1>1. forgotten' = Max({forgotten} \cup dropped) /\ forgotten \in Int
  BY DEF Remember, TypeOK, Never
<1>2. dropped = {} \/ dropped = {z}
  OBVIOUS
<1>3. ToSet(buffer) \subseteq ToSet(q) => dropped = {}
  OBVIOUS
<1> HIDE DEF dropped
<1>4. CASE dropped = {}
  <2>1. {forgotten} \cup dropped = {forgotten, forgotten}
    BY <1>4
  <2>2. Max({forgotten, forgotten}) \in {forgotten, forgotten}
    BY <1>1, MaxOfTwo
  <2> QED BY <1>1, <2>1, <2>2
<1>5. CASE dropped = {z}
  <2>1. {forgotten} \cup dropped = {forgotten, z}
    BY <1>5
  <2>2. Max({forgotten, z}) \in {forgotten, z}
    BY <1>1, MaxOfTwo
  <2>3. dropped # {}
    BY <1>5
  <2> QED BY <1>1, <1>3, <2>1, <2>2, <2>3
<1> QED BY <1>2, <1>4, <1>5

\* Is h as long as the remembered packets, which are apart?
Alike(h) == Apart(ToSet(buffer)) /\ \A x \in ToSet(buffer) : x.nSamples = h.nSamples

\* h does not start when a remembered packet does, and, if it is like them,
\* touches none.
Clear(h) ==
    \A x \in ToSet(buffer) :
        /\ x.startTime # h.startTime
        /\ Alike(h) /\ x.startTime < h.startTime => endTime(x) < h.startTime
        /\ Alike(h) /\ h.startTime < x.startTime => endTime(h) < x.startTime

\* The buffer without h, or with h: in a place that was free ...
Kept(q, h) == /\ ToSet(buffer) \subseteq ToSet(q) /\ ToSet(q) \subseteq ToSet(buffer) \cup {h}
              /\ IsFull => q = buffer

\* ... or in the place of its first packet.
Replaced(q, h) == /\ IsFull /\ Len(q) = capacity
                  /\ ToSet(q) = ToSet(Tail(buffer)) \cup {h}
                  /\ Alike(h) => Head(buffer).startTime < h.startTime

\* The invariant holds of what is remembered then.
LEMMA RemembersMore ==
    ASSUME TypeOK, Remembers, buffer # <<>>, NEW h \in Headers, IsUnknown(h), Clear(h),
           NEW q \in Seq(Headers), q # <<>>, Sorted(q), Kept(q, h) \/ Replaced(q, h),
           Len(q) <= capacity, Remember(q), UNCHANGED settings, result' \in {"allowed", "refused"}
    PROVE  TypeOK' /\ Remembers'
<1> DEFINE X == ToSet(buffer)
           Y == ToSet(q)
           first == Head(buffer)
<1>1. /\ buffer' = q /\ UNCHANGED <<capacity, options, constructed>>
      /\ uniform' <=> \A x, y \in X \cup Y : uniform /\ x.nSamples = y.nSamples
      /\ uniform' \in BOOLEAN
  <2>1. uniform' = \A x, y \in X \cup Y : uniform /\ x.nSamples = y.nSamples
    BY DEF Remember
  <2> QED BY <2>1 DEF Remember, settings
<1>2. /\ X \subseteq Headers /\ first \in X /\ h \in Headers
      /\ \A x \in X : x = first \/ first.startTime < x.startTime
  BY BufferTypes, Ends DEF Remembers
<1>3. Y \subseteq X \cup {h}
  <2>1. ToSet(Tail(buffer)) \subseteq X
    BY TailSet DEF TypeOK
  <2> QED BY <2>1 DEF Kept, Replaced
<1>4. \A x \in X : /\ x.samplingRate = h.samplingRate /\ ~Equal(x, h) /\ ~Equal(h, x)
                   /\ x.startTime # h.startTime
  BY UnknownPackets DEF Clear
<1>5. Distinct(X) /\ Distinct(Y)
  <2>1. Distinct(X) /\ IsReadable(h)
    BY DEF Remembers, IsUnknown
  <2>2. Distinct(X \cup {h})
    <3> SUFFICES ASSUME NEW x \in X \cup {h}, NEW y \in X \cup {h}
                 PROVE  /\ IsReadable(x) /\ x.samplingRate = y.samplingRate
                        /\ x # y => x.startTime # y.startTime /\ ~Equal(x, y)
      BY DEF Distinct
    <3>1. CASE x \in X /\ y \in X
      BY <2>1, <3>1 DEF Distinct
    <3>2. CASE x \in X /\ y = h
      BY <1>4, <2>1, <3>2 DEF Distinct
    <3>3. CASE x = h /\ y \in X
      BY <1>4, <2>1, <3>3 DEF Distinct
    <3>4. CASE x = h /\ y = h
      BY <2>1, <3>4
    <3> QED BY <3>1, <3>2, <3>3, <3>4
  <2> QED BY <1>3, <2>1, <2>2 DEF Distinct
<1>6. first \in Headers /\ first.startTime \in Nat
  BY <1>2, HeaderProperties
<1>7. /\ forgotten' \in {forgotten, first.startTime}
      /\ X \subseteq Y => forgotten' = forgotten
  <2>1. \A x \in X \ Y : x.startTime = first.startTime
    BY Ends DEF Kept, Replaced, Remembers
  <2> QED BY <1>6, <2>1, ForgottenPackets
<1>8. forgotten' \in Nat \cup {Never}
  BY <1>6, <1>7 DEF TypeOK
<1>9. TypeOK'
  BY <1>1, <1>8 DEF TypeOK
<1>10. ASSUME uniform'
       PROVE  LongEnough'
  <2>1. /\ uniform /\ LongEnough
        /\ \A x, y \in X \cup Y : x.nSamples = y.nSamples
    BY <1>1, <1>2, <1>10 DEF Remembers
  <2>9. h \in X \cup Y => Alike(h)
    BY <2>1 DEF LongEnough, Alike
  <2>2. Apart(X \cup Y)
    <3> SUFFICES ASSUME NEW x \in X \cup Y, NEW y \in X \cup Y, x.startTime < y.startTime
                 PROVE  endTime(x) < y.startTime
      BY <2>1 DEF Apart
    <3>1. CASE x \in X /\ y \in X
      BY <2>1, <3>1 DEF LongEnough, Apart
    <3>2. CASE x \in X /\ y = h
      BY <2>9, <3>2 DEF Clear
    <3>3. CASE x = h /\ y \in X
      BY <2>9, <3>3 DEF Clear
    <3>4. CASE x = h /\ y = h
      BY <1>2, <3>4, HeaderProperties
    <3> QED BY <1>3, <3>1, <3>2, <3>3, <3>4
  <2> DEFINE second == Head(q)
  <2>3. second \in Y
    <3>1. second = q[1] /\ 1 \in DOMAIN q
      BY EmptySeq, LenProperties, HeadTailProperties
    <3> QED BY <3>1 DEF ToSet
  <2> HIDE DEF second
  <2>4. /\ second \in Headers /\ second.samplingRate = first.samplingRate
        /\ second.nSamples = first.nSamples
    BY <1>2, <1>3, <1>4, <2>1, <2>3
  <2>5. /\ Span(second) = Span(first) /\ packetDuration(second) = packetDuration(first)
        /\ Span(first) \in Nat /\ endTime(first) = first.startTime + Span(first)
    BY <1>6, <2>4, SameSpan
  <2>6. ASSUME forgotten' # Never
        PROVE  Len(q) = capacity /\ forgotten' + Span(second) < second.startTime
    <3>1. CASE Kept(q, h)
      <4>1. forgotten # Never /\ X \subseteq Y
        BY <1>7, <2>6, <3>1 DEF Kept
      <4>2. IsFull /\ q = buffer
        BY <2>1, <3>1, <4>1 DEF LongEnough, Kept
      <4> QED BY <1>7, <2>1, <4>1, <4>2 DEF LongEnough, IsFull, second
    <3>2. CASE Replaced(q, h)
      <4>1. first.startTime < second.startTime
        <5>1. CASE second \in ToSet(Tail(buffer))
          BY <5>1, TailIsLater DEF Remembers
        <5>2. CASE second = h
          BY <2>3, <2>9, <3>2, <5>2 DEF Replaced
        <5> QED BY <2>3, <3>2, <5>1, <5>2 DEF Replaced
      <4>2. endTime(first) < second.startTime
        BY <1>2, <2>2, <2>3, <4>1 DEF Apart
      <4>3. forgotten' <= first.startTime
        BY <1>6, <1>7, <2>1, <2>5, <2>6 DEF LongEnough, TypeOK
      <4>4. second.startTime \in Nat /\ forgotten' \in Nat
        BY <1>8, <2>4, <2>6, HeaderProperties
      <4> QED BY <1>6, <2>5, <3>2, <4>2, <4>3, <4>4 DEF Replaced
    <3> QED BY <3>1, <3>2
  <2>7. mEstimateCapacity /\ packetDuration(second) > 0 =>
          2 * packetDuration(second) * capacity > 3 * options.mCircularBufferDuration
    BY <2>1, <2>5 DEF LongEnough
  <2>8. Apart(Y)
    BY <2>2 DEF Apart
  <2> QED BY <1>1, <2>6, <2>7, <2>8
      DEF LongEnough, IsFull, mEstimateCapacity, second, Apart, endTime
<1>11. constructed
  BY DEF Remembers
<1> QED BY <1>1, <1>5, <1>9, <1>10, <1>11 DEF Remembers, OneOption, Sorted, Distinct, Equal

\* What push_back keeps, before it adds a packet.
Pushed == IF IsFull THEN Tail(buffer) ELSE buffer

\* A full buffer has lost its front before the packet is pushed.
LEMMA PushedProperties ==
    ASSUME TypeOK, Sorted(buffer), buffer # <<>>
    PROVE  /\ Pushed \in Seq(Headers) /\ Sorted(Pushed) /\ ToSet(Pushed) \subseteq ToSet(buffer)
           /\ Len(Pushed) \in Nat /\ Len(Pushed) + 1 <= capacity
           /\ IsFull => Len(Pushed) + 1 = capacity
<1>1. /\ Tail(buffer) \in Seq(Headers) /\ Len(Tail(buffer)) = Len(buffer) - 1
      /\ ToSet(Tail(buffer)) \subseteq ToSet(buffer)
      /\ \A i \in 1..(Len(buffer) - 1) : Tail(buffer)[i] = buffer[i + 1]
  BY TailSet DEF TypeOK
<1>2. Len(buffer) \in Nat /\ Len(buffer) > 0 /\ DOMAIN buffer = 1..Len(buffer)
  BY BufferTypes
<1>3. Sorted(Tail(buffer))
  <2>1. DOMAIN Tail(buffer) = 1..(Len(buffer) - 1)
    BY <1>1, LenProperties
  <2>2. ASSUME NEW i \in 1..(Len(buffer) - 1), NEW j \in 1..(Len(buffer) - 1), i < j
        PROVE  Tail(buffer)[i].startTime < Tail(buffer)[j].startTime
    <3>1. i + 1 \in 1..Len(buffer) /\ j + 1 \in 1..Len(buffer) /\ i + 1 < j + 1
      BY <1>2, <2>2
    <3> QED BY <1>1, <1>2, <3>1 DEF Sorted
  <2> QED BY <2>1, <2>2 DEF Sorted
<1>4. Len(buffer) <= capacity /\ capacity \in Nat /\ buffer \in Seq(Headers)
  BY DEF TypeOK
<1>5. CASE IsFull
  BY <1>1, <1>2, <1>3, <1>4, <1>5 DEF Pushed, IsFull
<1>6. CASE ~IsFull
  <2>1. Pushed = buffer
    BY <1>6 DEF Pushed
  <2>2. Len(buffer) # capacity
    BY <1>6 DEF IsFull
  <2>3. Len(buffer) + 1 <= capacity
    <3>1. \A x, y \in Nat : x <= y /\ x # y => x + 1 <= y
      OBVIOUS
    <3> QED BY <1>2, <1>4, <2>2, <3>1
  <2> QED BY <1>2, <1>4, <1>6, <2>1, <2>3
<1> QED BY <1>5, <1>6

\* With h it is Kept or Replaced.
LEMMA PushedIsKept ==
    ASSUME NEW q, NEW h, ToSet(q) = ToSet(Pushed) \cup {h}, IsFull => Len(q) = capacity,
           Alike(h) => Head(buffer).startTime < h.startTime
    PROVE  Kept(q, h) \/ Replaced(q, h)
BY DEF Pushed, Kept, Replaced

\* A packet is Clear if it is newer than all, ...
LEMMA NewerIsClear ==
    ASSUME TypeOK, Remembers, NEW h \in Headers, IsUnknown(h), IsNewer(h)
    PROVE  Clear(h) /\ \A x \in ToSet(buffer) : x.startTime < h.startTime
<1>1. /\ Last(buffer) \in Headers /\ h.startTime \in Nat
      /\ endTime(Last(buffer)) \in Nat /\ endTime(Last(buffer)) < h.startTime
      /\ Last(buffer).startTime \in Nat /\ Last(buffer).startTime <= endTime(Last(buffer))
  <2>1. Last(buffer) \in Headers
    BY BufferTypes DEF IsUnknown
  <2> QED BY <2>1, HeaderProperties DEF IsNewer
<1>2. ASSUME NEW x \in ToSet(buffer)
      PROVE  /\ x.startTime < h.startTime
             /\ Alike(h) => endTime(x) < h.startTime
  <2>1. x \in Headers /\ x.startTime \in Nat /\ endTime(x) \in Nat
    BY BufferTypes, HeaderProperties
  <2>2. CASE x = Last(buffer)
    BY <1>1, <2>2
  <2>3. CASE x.startTime < Last(buffer).startTime
    <3>1. Alike(h) => endTime(x) < Last(buffer).startTime
      BY <2>3, BufferTypes DEF Alike, Apart, IsUnknown
    <3> QED BY <1>1, <2>1, <2>3, <3>1
  <2> QED BY <2>2, <2>3, Ends DEF Remembers
<1>3. \A x \in ToSet(buffer) : x.startTime \in Nat
  BY BufferTypes, HeaderProperties
<1> QED BY <1>1, <1>2, <1>3 DEF Clear

\* ... older than all, ...
LEMMA OlderIsClear ==
    ASSUME TypeOK, Remembers, NEW h \in Headers, IsUnknown(h), IsOlder(h)
    PROVE  Clear(h) /\ \A x \in ToSet(buffer) : h.startTime < x.startTime
<1>1. /\ h.startTime \in Nat /\ endTime(h) \in Nat /\ h.startTime <= endTime(h)
      /\ endTime(h) < Head(buffer).startTime
  BY HeaderProperties DEF IsOlder
<1>2. \A x \in ToSet(buffer) : /\ x.startTime \in Nat
                               /\ x = Head(buffer) \/ Head(buffer).startTime < x.startTime
  BY BufferTypes, Ends, HeaderProperties DEF Remembers
<1>3. Head(buffer).startTime \in Nat
  BY <1>2, BufferTypes DEF IsUnknown
<1>4. \A x \in ToSet(buffer) : endTime(h) < x.startTime
  BY <1>1, <1>2, <1>3
<1> QED BY <1>1, <1>2, <1>4 DEF Clear

\* ... or has no end in a remembered one.
LEMMA BackfillIsClear ==
    ASSUME TypeOK, Remembers, NEW h \in Headers, IsUnknown(h), ~Slips(h), ~IsOlder(h)
    PROVE  Clear(h) /\ (Alike(h) => Head(buffer).startTime < h.startTime)
<1>1. /\ h.startTime \in Nat /\ endTime(h) \in Nat /\ h.startTime <= endTime(h)
  BY HeaderProperties
<1>2. ASSUME NEW x \in ToSet(buffer)
      PROVE  /\ x.startTime \in Nat /\ endTime(x) \in Nat /\ x.startTime <= endTime(x)
             /\ h.startTime < x.startTime \/ endTime(x) < h.startTime
             /\ endTime(h) < x.startTime \/ endTime(x) < endTime(h)
             /\ Alike(h) => endTime(x) - x.startTime = endTime(h) - h.startTime
  <2>1. x \in Headers /\ x.samplingRate = h.samplingRate
    BY UnknownPackets
  <2>2. x.startTime \in Nat /\ endTime(x) \in Nat /\ x.startTime <= endTime(x)
    BY <2>1, HeaderProperties
  <2>3. h.startTime \notin x.startTime..endTime(x) /\ endTime(h) \notin x.startTime..endTime(x)
    BY DEF Slips
  <2>4. Alike(h) => Span(x) = Span(h)
    BY <2>1, SameSpan DEF Alike
  <2> QED BY <1>1, <2>2, <2>3, <2>4 DEF Span
<1>3. Clear(h)
  BY <1>1, <1>2 DEF Clear
<1>4. Alike(h) => Head(buffer).startTime < h.startTime
  <2>1. Head(buffer) \in ToSet(buffer) /\ ~(endTime(h) < Head(buffer).startTime)
    BY BufferTypes DEF IsUnknown, IsOlder
  <2> QED BY <1>1, <1>2, <2>1
<1> QED BY <1>3, <1>4

\* A packet that is pushed back goes to the end, or is sorted in.
LEMMA PushesBack ==
    ASSUME TypeOK, Remembers, NEW h \in Headers, AllowNewer(h) \/ AllowBackfill(h)
    PROVE  TypeOK' /\ Remembers'
<1>1. /\ IsUnknown(h) /\ buffer # <<>> /\ result' \in {"allowed", "refused"}
      /\ UNCHANGED settings
  BY DEF AllowNewer, AllowBackfill, IsUnknown, Return
<1>2. /\ Pushed \in Seq(Headers) /\ Sorted(Pushed) /\ ToSet(Pushed) \subseteq ToSet(buffer)
      /\ Len(Pushed) \in Nat /\ Len(Pushed) + 1 <= capacity
      /\ IsFull => Len(Pushed) + 1 = capacity
  BY <1>1, PushedProperties DEF Remembers
<1>3. PushBack(h) = Append(Pushed, h)
  BY DEF PushBack, Pushed
<1>4. CASE AllowNewer(h)
  <2> DEFINE q == Append(Pushed, h)
             n == Len(Pushed) + 1
  <2>1. Clear(h) /\ \A x \in ToSet(buffer) : x.startTime < h.startTime
    BY <1>4, NewerIsClear DEF AllowNewer
  <2>2. /\ q \in Seq(Headers) /\ Len(q) = n /\ ToSet(q) = ToSet(Pushed) \cup {h}
        /\ \A i \in 1..Len(Pushed) : q[i] = Pushed[i]
        /\ q[n] = h
    BY <1>2, AppendSet
  <2>3. Remember(q)
    BY <1>3, <1>4 DEF AllowNewer
  <2> HIDE DEF q
  <2>4. DOMAIN q = 1..n /\ DOMAIN Pushed = 1..Len(Pushed)
    BY <1>2, <2>2, LenProperties
  <2>5. ASSUME NEW i \in 1..n, NEW j \in 1..n, i < j
        PROVE  q[i].startTime < q[j].startTime
    <3>1. i \in 1..Len(Pushed) /\ q[i] = Pushed[i] /\ Pushed[i] \in ToSet(Pushed)
      BY <1>2, <2>2, <2>4, <2>5 DEF ToSet
    <3>2. CASE j = n
      BY <1>2, <2>1, <2>2, <3>1, <3>2
    <3>3. CASE j # n
      BY <1>2, <2>2, <2>4, <2>5, <3>1, <3>3 DEF Sorted
    <3> QED BY <3>2, <3>3
  <2>6. Sorted(q) /\ q # <<>>
    BY <1>2, <2>2, <2>4, <2>5, EmptySeq DEF Sorted
  <2>7. Head(buffer).startTime < h.startTime
    BY <1>1, <2>1, BufferTypes
  <2>8. Kept(q, h) \/ Replaced(q, h)
    BY <1>2, <2>2, <2>7, PushedIsKept
  <2> QED BY <1>1, <1>2, <2>1, <2>2, <2>3, <2>6, <2>8, RemembersMore
<1>5. CASE AllowBackfill(h)
  <2> DEFINE q == Sort(Append(Pushed, h))
  <2>1. Clear(h) /\ (Alike(h) => Head(buffer).startTime < h.startTime)
    BY <1>5, BackfillIsClear DEF AllowBackfill
  <2>2. \A x \in ToSet(Pushed) : x.startTime # h.startTime
    BY <1>2, <2>1 DEF Clear
  <2>3. Remember(q)
    BY <1>3, <1>5 DEF AllowBackfill
  <2>4. /\ q \in Seq(Headers) /\ Len(q) = Len(Pushed) + 1
        /\ ToSet(q) = ToSet(Pushed) \cup {h} /\ Sorted(q)
    BY <1>2, <2>2, SortAppended
  <2> HIDE DEF q
  <2>5. q # <<>>
    BY <1>2, <2>4, EmptySeq
  <2>6. Kept(q, h) \/ Replaced(q, h)
    BY <1>2, <2>1, <2>4, PushedIsKept
  <2> QED BY <1>1, <1>2, <2>1, <2>3, <2>4, <2>5, <2>6, RemembersMore
<1> QED BY <1>4, <1>5

\* A packet older than all goes to the front, if there is space.
LEMMA PushesFront ==
    ASSUME TypeOK, Remembers, NEW h \in Headers, RefuseOlder(h)
    PROVE  TypeOK' /\ Remembers'
<1>1. /\ IsUnknown(h) /\ IsOlder(h) /\ buffer # <<>> /\ result' \in {"allowed", "refused"}
      /\ UNCHANGED settings /\ Remember(PushFront(h))
  BY DEF RefuseOlder, IsUnknown, Return
<1>2. Clear(h) /\ \A x \in ToSet(buffer) : h.startTime < x.startTime
  BY <1>1, OlderIsClear
<1>3. CASE IsFull
  <2>1. PushFront(h) = buffer /\ Kept(buffer, h) /\ Sorted(buffer)
    BY <1>3 DEF PushFront, Kept, Remembers
  <2> QED BY <1>1, <1>2, <2>1, RemembersMore DEF TypeOK
<1>4. CASE ~IsFull
  <2> DEFINE q == <<h>> \o buffer
             n == Len(buffer) + 1
  <2>1. /\ q \in Seq(Headers) /\ Len(q) = n /\ ToSet(q) = ToSet(buffer) \cup {h}
        /\ q[1] = h /\ \A i \in 2..n : q[i] = buffer[i - 1]
    BY PrependSet DEF TypeOK
  <2>2. Remember(q)
    BY <1>1, <1>4 DEF PushFront
  <2> HIDE DEF q
  <2>3. DOMAIN q = 1..n /\ Len(buffer) \in Nat /\ DOMAIN buffer = 1..Len(buffer)
    BY <2>1, LenProperties, BufferTypes
  <2>4. ASSUME NEW i \in 1..n, NEW j \in 1..n, i < j
        PROVE  q[i].startTime < q[j].startTime
    <3>1. j \in 2..n /\ j - 1 \in 1..Len(buffer) /\ q[j] = buffer[j - 1]
      BY <2>1, <2>3, <2>4
    <3>2. CASE i = 1
      BY <1>2, <2>1, <3>1, <3>2, BufferTypes
    <3>3. CASE i # 1
      <4>1. i - 1 \in 1..Len(buffer) /\ q[i] = buffer[i - 1] /\ i - 1 < j - 1
        BY <2>1, <2>3, <2>4, <3>3
      <4> QED BY <2>3, <3>1, <4>1 DEF Remembers, Sorted
    <3> QED BY <3>2, <3>3
  <2>5. Sorted(q) /\ q # <<>>
    BY <2>1, <2>3, <2>4, EmptySeq DEF Sorted
  <2>6. Kept(q, h) /\ Len(q) <= capacity
    <3>1. Len(buffer) <= capacity /\ capacity \in Nat
      BY DEF TypeOK
    <3>2. Len(buffer) # capacity
      BY <1>4 DEF IsFull
    <3>3. Len(q) <= capacity
      <4>1. \A x, y \in Nat : x <= y /\ x # y => x + 1 <= y
        OBVIOUS
      <4> QED BY <2>1, <2>3, <3>1, <3>2, <4>1
    <3> QED BY <1>4, <2>1, <3>3 DEF Kept
  <2> QED BY <1>1, <1>2, <2>1, <2>2, <2>5, <2>6, RemembersMore
<1> QED BY <1>3, <1>4

\* The options.
LEMMA OptionsAreSet ==
    ASSUME TypeOK, Remembers, NEW argument \in Int, NEW new, Set(argument, new),
           \/ /\ argument \in Sizes
              /\ new = [mCircularBufferSize |-> argument, mCircularBufferDuration |-> Unset]
           \/ /\ argument \in Durations
              /\ new = [mCircularBufferSize |-> Unset, mCircularBufferDuration |-> argument]
    PROVE  TypeOK' /\ Remembers'
<1>1. /\ buffer = <<>> /\ ~constructed /\ uniform /\ forgotten = Never
      /\ UNCHANGED <<constructed, memory>> /\ result' \in {"none", "threw"}
  BY DEF Set, Remembers
<1>2. /\ OneOption'
      /\ options'.mCircularBufferSize \in Sizes \cup {Unset}
      /\ options'.mCircularBufferDuration \in Durations \cup {DefaultDuration, Unset}
  <2>1. CASE argument > 0
    BY <2>1 DEF Set, OneOption
  <2>2. CASE ~(argument > 0)
    <3>1. UNCHANGED options
      BY <2>2 DEF Set
    <3> QED BY <3>1 DEF TypeOK, Remembers, OneOption
  <2> QED BY <2>1, <2>2
<1>3. ((options.mCircularBufferSize > 0) # (options.mCircularBufferDuration > 0))'
  BY <1>2 DEF OneOption, Unset
<1>4. TypeOK'
  BY <1>1, <1>2, <1>3 DEF TypeOK, memory
<1>5. Sorted(buffer)' /\ Distinct(ToSet(buffer))'
  BY <1>1 DEF memory, Remembers, Sorted, Distinct, Equal
<1> QED BY <1>1, <1>2, <1>4, <1>5 DEF Remembers, memory

\* The first packet of a buffer gets it a capacity of at least one, and enough for
\* the duration.
LEMMA FirstCapacity ==
    ASSUME TypeOK, Remembers, NEW h \in Headers, IsReadable(h),
           NEW n \in Capacities(h) \ {Unallocatable}
    PROVE  /\ n \in Nat \ {0}
           /\ mEstimateCapacity /\ packetDuration(h) > 0 =>
                2 * packetDuration(h) * n > 3 * options.mCircularBufferDuration
<1> DEFINE p == packetDuration(h)
           d == options.mCircularBufferDuration
<1>1. p \in Nat
  <2>1. h.nSamples - 1 \in Nat /\ h.samplingRate \in Nat \ {0}
    BY HeaderProperties DEF IsReadable
  <2> QED BY <2>1, RoundProperties DEF packetDuration
<1>2. CASE ~mEstimateCapacity
  <2>1. n = options.mCircularBufferSize
    BY <1>2 DEF Capacities
  <2> QED BY <1>2, <2>1 DEF Remembers, OneOption, mEstimateCapacity
<1>3. CASE mEstimateCapacity /\ p = 0
  <2>1. n = MinimumCapacity + 1
    BY <1>3 DEF Capacities, estimateCapacity
  <2> QED BY <1>3, <2>1, OptionsAssumption
<1>4. CASE mEstimateCapacity /\ p > 0
  <2> DEFINE e == (3 * d) \div (2 * p)
             m == Max({MinimumCapacity, e})
  <2>1. n = m + 1
    BY <1>1, <1>4 DEF Capacities, estimateCapacity
  <2>2. d \in Nat \ {0}
    BY <1>4 DEF Remembers, OneOption, mEstimateCapacity, Unset
  <2> HIDE DEF p, d
  <2>3. e \in Nat /\ 3 * d < 2 * p * e + 2 * p
    <3>1. \A x, y \in Nat : y > 0 => x \div y \in Nat /\ x < y * (x \div y) + y
      OBVIOUS
    <3>2. 3 * d \in Nat /\ 2 * p \in Nat /\ 2 * p > 0
      BY <1>1, <1>4, <2>2
    <3> QED BY <3>1, <3>2
  <2> HIDE DEF e
  <2>a. MinimumCapacity \in Nat \ {0} /\ MinimumCapacity \in Int /\ e \in Int
    BY <2>3, OptionsAssumption
  <2>b. m \in {MinimumCapacity, e} /\ m >= e
    BY <2>a, MaxOfTwo
  <2>4. m >= e /\ m \in {MinimumCapacity, e} /\ MinimumCapacity \in Nat \ {0}
    BY <2>a, <2>b
  <2> HIDE DEF m
  <2>5. m \in Nat /\ n \in Nat \ {0}
    BY <2>1, <2>3, <2>4
  <2>6. 2 * p * e <= 2 * p * m /\ 2 * p * n = 2 * p * m + 2 * p
    BY <1>1, <2>1, <2>3, <2>4, <2>5
  <2>7. 2 * p * e \in Int /\ 2 * p * m \in Int
    BY <1>1, <2>3, <2>5
  <2>8. 2 * p * n > 3 * d
    BY <1>1, <2>2, <2>3, <2>6, <2>7
  <2> QED BY <2>5, <2>8 DEF p, d
<1> QED BY <1>1, <1>2, <1>3, <1>4

\* The first packet makes the buffer.
LEMMA RemembersFirst ==
    ASSUME TypeOK, Remembers, constructed, NEW h \in Headers, AllowFirst(h)
    PROVE  TypeOK' /\ Remembers'
<1>1. /\ IsReadable(h) /\ buffer = <<>> /\ buffer' = <<h>>
      /\ UNCHANGED <<options, constructed, uniform, forgotten>> /\ result' = "allowed"
      /\ uniform /\ forgotten = Never
  BY DEF AllowFirst, Return, settings, Remembers
<1>2. PICK n \in Capacities(h) \ {Unallocatable} : capacity' = n
  BY DEF AllowFirst
<1>3. /\ n \in Nat \ {0}
      /\ mEstimateCapacity /\ packetDuration(h) > 0 =>
           2 * packetDuration(h) * n > 3 * options.mCircularBufferDuration
  BY <1>1, FirstCapacity
<1>4. /\ <<h>> \in Seq(Headers) /\ Len(<<h>>) = 1 /\ DOMAIN <<h>> = {1} /\ <<h>>[1] = h
      /\ <<h>> # <<>> /\ Head(<<h>>) = h
  OBVIOUS
<1>5. ToSet(<<h>>) = {h}
  BY <1>4 DEF ToSet
<1>6. TypeOK'
  <2>1. 1 <= n
    BY <1>3
  <2> QED BY <1>1, <1>2, <1>3, <1>4, <2>1 DEF TypeOK
<1>7. Sorted(<<h>>) /\ Distinct({h})' /\ Apart({h})'
  <2>1. h.startTime \in Nat
    BY HeaderProperties
  <2> QED BY <1>1, <1>4, <2>1 DEF Sorted, Distinct, Apart, IsReadable
<1>8. LongEnough'
  BY <1>1, <1>2, <1>3, <1>4, <1>5, <1>7
  DEF LongEnough, mEstimateCapacity, packetDuration
<1>9. OneOption'
  BY <1>1 DEF Remembers, OneOption
<1> QED BY <1>1, <1>4, <1>5, <1>6, <1>7, <1>8, <1>9 DEF Remembers, Sorted

\* Steps that leave the detector's memory alone.
LEMMA RemembersTheSame ==
    ASSUME TypeOK, Remembers, UNCHANGED memory, UNCHANGED options,
           constructed' \in {constructed, TRUE},
           result' \in {"none", "allowed", "refused", "threw"}
    PROVE  TypeOK' /\ Remembers'
<1>1. TypeOK'
  BY DEF TypeOK, memory
<1>2. Sorted(buffer)' /\ Distinct(ToSet(buffer))' /\ OneOption'
  BY DEF memory, Remembers, Sorted, Distinct, Equal, OneOption
<1>3. LongEnough => LongEnough'
  BY DEF memory, LongEnough, Apart, endTime, IsFull, mEstimateCapacity, packetDuration
<1> QED BY <1>1, <1>2, <1>3 DEF Remembers, memory

\* Each step keeps the types and what the detector remembers.
LEMMA NextRemembers ==
    ASSUME TypeOK, Remembers, [NextDetectors]_vars
    PROVE  TypeOK' /\ Remembers'
<1>1. CASE UNCHANGED duplicateVars
  BY <1>1, RemembersTheSame DEF duplicateVars, settings, TypeOK
<1>2. CASE Construct
  BY <1>2, RemembersTheSame DEF Construct
<1>3. ASSUME NEW n \in Sizes, setCircularBufferSize(n)
      PROVE  TypeOK' /\ Remembers'
  BY <1>3, OptionsAreSet, OptionsAssumption DEF setCircularBufferSize
<1>4. ASSUME NEW d \in Durations, setCircularBufferDuration(d)
      PROVE  TypeOK' /\ Remembers'
  BY <1>4, OptionsAreSet, OptionsAssumption DEF setCircularBufferDuration
<1>5. ASSUME constructed, NEW h \in Headers, allow(h)
      PROVE  TypeOK' /\ Remembers'
  <2>1. CASE AllowFirst(h)
    BY <1>5, <2>1, RemembersFirst
  <2>2. CASE AllowNewer(h) \/ AllowBackfill(h)
    BY <2>2, PushesBack
  <2>3. CASE RefuseOlder(h)
    BY <2>3, PushesFront
  <2>4. CASE RefuseUnreadable(h) \/ ThrowFirst(h) \/ Throw(h) \/ RefuseDuplicate(h)
               \/ RefuseSlip(h)
    BY <2>4, RemembersTheSame
    DEF RefuseUnreadable, ThrowFirst, Throw, RefuseDuplicate, RefuseSlip, Return, settings
  <2> QED BY <1>5, <2>1, <2>2, <2>3, <2>4 DEF allow
<1>6. CASE constructed /\ RefuseWithoutRate
  BY <1>6, RemembersTheSame DEF RefuseWithoutRate, Return, settings
<1>7. DuplicateNext => TypeOK' /\ Remembers'
  BY <1>2, <1>3, <1>4, <1>5, <1>6 DEF DuplicateNext, Next, Configure
<1> QED BY <1>1, <1>2, <1>7
    DEF NextDetectors, SetTime, ConstructFromTime, TimePasses, Ask, AskWithoutRate, vars

-----------------------------------------------------------------------------
(***************************************************************************)
(* The inductive invariant.                                                *)
(***************************************************************************)
IInv == TypeOK /\ Remembers /\ TimeTypes /\ Judged

\* Before the options are set, nothing is remembered and nothing was asked.
LEMMA InitInv == ASSUME InitDetectors PROVE IInv
<1>1. /\ options = [mCircularBufferSize |-> Unset,
                    mCircularBufferDuration |-> DefaultDuration]
      /\ constructed = FALSE /\ capacity = 0 /\ buffer = <<>> /\ result = "none"
      /\ uniform = TRUE /\ forgotten = Never
  BY DEF InitDetectors, Init
<1>2. DefaultDuration \in Nat \ {0}
  BY OptionsAssumption
<1>3. OneOption
  BY <1>1, <1>2 DEF OneOption
<1>4. (options.mCircularBufferSize > 0) # (options.mCircularBufferDuration > 0)
  BY <1>2, <1>3 DEF OneOption, Unset
<1>5. <<>> \in Seq(Headers) /\ Len(<<>>) = 0 /\ DOMAIN <<>> = {} /\ ToSet(<<>>) = {}
  BY DEF ToSet
<1>6. TypeOK
  <2>1. /\ options.mCircularBufferSize = Unset
        /\ options.mCircularBufferDuration = DefaultDuration
        /\ 0 <= 0 /\ 0 \in Nat
    BY <1>1
  <2>2. buffer \in Seq(Headers) /\ Len(buffer) <= capacity /\ capacity \in Nat
    BY <1>1, <1>5, <2>1
  <2> QED BY <1>1, <1>4, <2>1, <2>2 DEF TypeOK
<1>7. Remembers
  BY <1>1, <1>3, <1>5 DEF Remembers, Sorted, Distinct
<1>8. TimeTypes /\ Judged
  BY TimesAssumption DEF InitDetectors, InitTimes, TimeTypes, Judged
<1> QED BY <1>6, <1>7, <1>8 DEF IInv

\* The inductive invariant holds in every state.
THEOREM Invariance == SpecDetectors => []IInv
<1>1. InitDetectors => IInv
  BY InitInv
<1>2. IInv /\ [NextDetectors]_vars => IInv'
  BY NextRemembers, NextJudged DEF IInv
<1> QED BY <1>1, <1>2, PTL DEF SpecDetectors

-----------------------------------------------------------------------------
(***************************************************************************)
(* The properties.                                                         *)
(***************************************************************************)
\* Options, buffer, history and clock have their types, and exactly one of the two
\* options that size the buffer is set, whatever calls set them.
THEOREM TypeCorrect == SpecDetectors => []TypeOKDetectors
<1>1. IInv => TypeOKDetectors
  BY DEF IInv, TypeOKDetectors, TimeTypes
<1> QED BY <1>1, Invariance, PTL

\* A detector that looks at one end of a packet has judged every sample of it: an
\* expired packet is refused exactly if one of its samples is too old, a future
\* one up to the rounding of the interval between samples.
THEOREM SamplesAreJudged == SpecDetectors => []SamplesAreInTime
<1>1. IInv => SamplesAreInTime
  BY JudgedSamples DEF IInv
<1> QED BY <1>1, Invariance, PTL

\* The buffer is sorted by start time, no two packets in it the same, whatever
\* packets come and in whatever order.
THEOREM StaysSorted == SpecDetectors => []BufferIsSorted
<1>1. ASSUME IInv
      PROVE  BufferIsSorted
  <2>1. Sorted(buffer) /\ Distinct(ToSet(buffer)) /\ TypeOK
    BY <1>1 DEF IInv, Remembers
  <2>2. ASSUME NEW i \in DOMAIN buffer, NEW j \in DOMAIN buffer, i < j
        PROVE  buffer[i].startTime < buffer[j].startTime /\ ~Equal(buffer[i], buffer[j])
    <3>1. buffer[i].startTime < buffer[j].startTime
      BY <2>1, <2>2 DEF Sorted
    <3>2. /\ buffer[i] \in ToSet(buffer) /\ buffer[j] \in ToSet(buffer)
          /\ buffer[i].startTime \in Nat
      BY <2>1, BufferTypes, HeaderProperties
    <3>3. buffer[i] # buffer[j]
      BY <3>1, <3>2
    <3> QED BY <2>1, <3>1, <3>2, <3>3 DEF Distinct
  <2> QED BY <2>2 DEF BufferIsSorted
<1> QED BY <1>1, Invariance, PTL

\* With disjoint packets in the buffer, a packet that is newer than the last, or
\* neither older than the first nor with an end in one of those between, overlaps
\* only those it encloses; and the other way round.
THEOREM JudgedByItsEnds == SpecDetectors => []JudgesOverlaps
<1>1. ASSUME IInv, Disjoint(buffer), NEW h \in Headers, IsUnknown(h)
      PROVE  (IsNewer(h) \/ ~(IsOlder(h) \/ Slips(h))) <=>
               (/\ ~IsOlder(h)
                /\ \A x \in ToSet(buffer) : Overlap(x, h) => Encloses(h, x))
  <2>1. TypeOK /\ Sorted(buffer)
    BY <1>1 DEF IInv, Remembers
  <2> DEFINE last == Last(buffer)
             first == Head(buffer)
  <2>2. /\ last \in ToSet(buffer) /\ first \in ToSet(buffer)
        /\ DOMAIN buffer = 1..Len(buffer) /\ Len(buffer) \in Nat \ {0}
        /\ last = buffer[Len(buffer)]
    BY <1>1, <2>1, BufferTypes DEF IsUnknown
  <2>3. /\ h.startTime \in Nat /\ endTime(h) \in Nat /\ h.startTime <= endTime(h)
        /\ \A x \in ToSet(buffer) : /\ x.startTime \in Nat /\ endTime(x) \in Nat
                                    /\ x.startTime <= endTime(x)
    <3>1. ASSUME NEW x \in Headers
          PROVE  x.startTime \in Nat /\ endTime(x) \in Nat /\ x.startTime <= endTime(x)
      BY HeaderProperties
    <3> QED BY <2>1, <3>1, BufferTypes
  <2>4. ASSUME NEW x \in ToSet(buffer)
        PROVE  x = last \/ endTime(x) < last.startTime
    <3>1. PICK i \in 1..Len(buffer) : x = buffer[i]
      BY <2>1, BufferTypes
    <3>2. CASE i # Len(buffer)
      <4>1. ~Overlap(x, last)
        <5>1. i \in DOMAIN buffer /\ Len(buffer) \in DOMAIN buffer
          BY <2>2
        <5>2. ~Overlap(buffer[i], buffer[Len(buffer)])
          BY <1>1, <3>2, <5>1 DEF Disjoint
        <5> QED BY <2>2, <3>1, <5>2
      <4>2. x = last \/ x.startTime < last.startTime
        BY <2>1, Ends
      <4> QED BY <2>2, <2>3, <4>1, <4>2 DEF Overlap
    <3> QED BY <2>2, <3>1, <3>2
  <2>5. ASSUME NEW x \in ToSet(buffer)
        PROVE  first.startTime <= x.startTime
    <3>1. x = first \/ first.startTime < x.startTime
      BY <2>1, Ends
    <3> QED BY <2>2, <2>3, <3>1
  <2> HIDE DEF last, first
  <2>6. IsNewer(h) <=> h.startTime > endTime(last)
    BY DEF IsNewer, last
  <2>7. IsOlder(h) <=> endTime(h) < first.startTime
    BY DEF IsOlder, first
  <2>8. CASE IsNewer(h)
    <3>1. \A x \in ToSet(buffer) : ~Overlap(x, h)
      BY <2>2, <2>3, <2>4, <2>6, <2>8 DEF Overlap
    <3>2. ~IsOlder(h)
      BY <2>2, <2>3, <2>5, <2>6, <2>7, <2>8
    <3> QED BY <2>8, <3>1, <3>2
  <2>9. CASE ~IsNewer(h) /\ ~IsOlder(h)
    <3>1. ASSUME NEW x \in ToSet(buffer)
          PROVE  (\/ h.startTime \in x.startTime..endTime(x)
                  \/ endTime(h) \in x.startTime..endTime(x))
                   <=> (Overlap(x, h) /\ ~Encloses(h, x))
      BY <2>3 DEF Overlap, Encloses
    <3>2. Slips(h) <=> \E x \in ToSet(buffer) : Overlap(x, h) /\ ~Encloses(h, x)
      BY <3>1 DEF Slips
    <3> QED BY <2>9, <3>2
  <2>10. CASE ~IsNewer(h) /\ IsOlder(h)
    BY <2>10
  <2> QED BY <2>8, <2>9, <2>10
<1>2. IInv => JudgesOverlaps
  BY <1>1 DEF JudgesOverlaps
<1> QED BY <1>2, Invariance, PTL

\* Equally long packets, each ending before the next starts: each starts at least
\* their length and a tick after the one before it.
LEMMA Spaced ==
    ASSUME TypeOK, Remembers, buffer # <<>>, uniform,
           NEW w, w = Span(Head(buffer)) + 1, NEW n \in 1..Len(buffer)
    PROVE  buffer[n].startTime >= Head(buffer).startTime + (n - 1) * w
<1> DEFINE start(i) == buffer[i].startTime
           X == {i \in 1..Len(buffer) : ~(start(i) >= start(1) + (i - 1) * w)}
<1>1. /\ Len(buffer) \in Nat \ {0} /\ DOMAIN buffer = 1..Len(buffer)
      /\ Head(buffer) = buffer[1]
      /\ \A i \in 1..Len(buffer) : buffer[i] \in Headers /\ buffer[i] \in ToSet(buffer)
  BY BufferTypes
<1>2. /\ w \in Nat /\ \A i \in 1..Len(buffer) : start(i) \in Nat
  BY <1>1, HeaderProperties, SameSpan
<1>3. ASSUME NEW i \in 1..Len(buffer), NEW j \in 1..Len(buffer), j = i + 1
      PROVE  start(j) >= start(i) + w
  <2>1. start(i) < start(j)
    BY <1>1, <1>3 DEF Remembers, Sorted
  <2>2. endTime(buffer[i]) < start(j)
    BY <1>1, <2>1 DEF Remembers, LongEnough, Apart
  <2>3. endTime(buffer[i]) = start(i) + Span(buffer[i]) /\ Span(buffer[i]) = Span(buffer[1])
    <3>1. /\ buffer[i].samplingRate = buffer[1].samplingRate
          /\ buffer[i].nSamples = buffer[1].nSamples
          /\ buffer[1] \in Headers /\ buffer[i] \in Headers
      BY <1>1 DEF Remembers, LongEnough, Apart, Distinct
    <3> QED BY <3>1, SameSpan
  <2>4. Span(buffer[1]) \in Nat
    BY <1>1, SameSpan
  <2> QED BY <1>1, <1>2, <2>2, <2>3, <2>4
<1> HIDE DEF start
<1>4. X = {}
  <2> SUFFICES ASSUME X # {} PROVE FALSE
    OBVIOUS
  <2> DEFINE k == Min(X)
  <2>0. X \in SUBSET Nat
    BY <1>1
  <2>1. k \in X /\ \A i \in X : k <= i
    <3> HIDE DEF X
    <3> QED BY <2>0, MinProperties
  <2> HIDE DEF k
  <2>2. k \in 1..Len(buffer) /\ ~(start(k) >= start(1) + (k - 1) * w)
    BY <2>1
  <2>3. k # 1
    BY <1>1, <1>2, <2>2
  <2>4. k - 1 \in 1..Len(buffer) /\ k - 1 \notin X
    BY <1>1, <2>1, <2>2, <2>3
  <2>5. start(k - 1) >= start(1) + (k - 1 - 1) * w
    BY <2>4
  <2>6. start(k) >= start(k - 1) + w
    BY <1>3, <2>2, <2>4
  <2> DEFINE far == (k - 1) * w
             near == (k - 1 - 1) * w
  <2>7. far = near + w /\ far \in Int /\ near \in Int
    <3>1. \A x, y \in Int : x * y = (x - 1) * y + y /\ x * y \in Int /\ (x - 1) * y \in Int
      OBVIOUS
    <3>2. k - 1 \in Int /\ w \in Int
      BY <1>2, <2>2
    <3> QED BY <3>1, <3>2
  <2>8. start(k) \in Nat /\ start(k - 1) \in Nat /\ start(1) \in Nat
    <3>1. 1 \in 1..Len(buffer)
      BY <1>1
    <3> QED BY <1>2, <2>2, <2>4, <3>1
  <2>9. ~(start(k) >= start(1) + far) /\ start(k - 1) >= start(1) + near
    BY <2>2, <2>5
  <2>10. ASSUME NEW a \in Nat, NEW b \in Nat, NEW c \in Nat, NEW x \in Int, NEW y \in Int,
                NEW z \in Nat, x = y + z, b >= c + y, a >= b + z
         PROVE  a >= c + x
    BY <2>10
  <2>11. w \in Nat
    BY <1>2
  <2> HIDE DEF far, near, X
  <2> QED BY <2>6, <2>7, <2>8, <2>9, <2>10, <2>11
<1> QED BY <1>1, <1>4 DEF start

\* While packets are as long as the first, what is dropped is older than what is
\* kept, and no packet that starts within the duration the options ask for of the
\* newest one is dropped: for every rate, length and duration.
THEOREM DurationIsRemembered == SpecDetectors => []MemoryLasts
<1>1. ASSUME IInv, uniform, buffer # <<>>, forgotten # Never
      PROVE  LET h == Head(buffer)
             IN  /\ forgotten < h.startTime
                 /\ (/\ mEstimateCapacity
                     /\ packetDuration(h) > 0
                     /\ 3 * Span(h) >= 2 * packetDuration(h) * Second) =>
                      Last(buffer).startTime - forgotten >
                          options.mCircularBufferDuration * Second
  <2> DEFINE h == Head(buffer)
             last == Last(buffer)
             s == Span(h)
             p == packetDuration(h)
             d == options.mCircularBufferDuration
  <2>1. TypeOK /\ Remembers /\ LongEnough /\ forgotten \in Nat
    BY <1>1 DEF IInv, Remembers, TypeOK
  <2>2. /\ h \in Headers /\ last \in Headers /\ IsReadable(h)
        /\ Len(buffer) \in Nat \ {0} /\ last = buffer[Len(buffer)]
    BY <1>1, <2>1, BufferTypes DEF Remembers, Distinct
  <2>3. s \in Nat /\ h.startTime \in Nat /\ last.startTime \in Nat
    BY <2>2, SameSpan, HeaderProperties
  <2>4. forgotten + s < h.startTime /\ capacity = Len(buffer)
    BY <1>1, <2>1 DEF LongEnough, IsFull
  <2>5. last.startTime >= h.startTime + (Len(buffer) - 1) * (s + 1)
    BY <1>1, <2>1, <2>2, Spaced
  <2>6. ASSUME mEstimateCapacity, p > 0, 3 * s >= 2 * p * Second
        PROVE  last.startTime - forgotten > d * Second
    <3>1. 2 * p * capacity > 3 * d
      BY <2>1, <2>6 DEF LongEnough
    <3>2. d \in Nat
      BY <2>1, <2>6 DEF Remembers, OneOption, mEstimateCapacity, Unset
    <3>3. p \in Nat
      <4>1. h.nSamples - 1 \in Nat /\ h.samplingRate \in Nat \ {0}
        BY <2>2, HeaderProperties DEF IsReadable
      <4> QED BY <4>1, RoundProperties DEF packetDuration
    <3> HIDE DEF h, last, s, p, d
    <3> DEFINE c == Len(buffer)
    <3>4. c \in Nat \ {0} /\ Second \in Nat \ {0} /\ c = capacity
      BY <2>2, <2>4, SecondAssumption
    <3> HIDE DEF c
    <3>5. last.startTime - forgotten >= c * s + c
      <4>1. (c - 1) * (s + 1) = c * s + c - s - 1 /\ c * s \in Int
        BY <2>3, <3>4
      <4>2. last.startTime >= h.startTime + (c - 1) * (s + 1)
        BY <2>5 DEF c
      <4> QED BY <2>1, <2>3, <2>4, <3>4, <4>1, <4>2
    <3>6. 3 * (c * s) >= (2 * p * c) * Second
      <4>1. \A x, y \in Int : x >= y => x * c >= y * c
        BY <3>4
      <4>2. 3 * s \in Int /\ 2 * p * Second \in Int
        BY <2>3, <3>3, <3>4
      <4>3. (3 * s) * c >= (2 * p * Second) * c
        BY <2>6, <4>1, <4>2
      <4>4. (3 * s) * c = 3 * (c * s) /\ (2 * p * Second) * c = (2 * p * c) * Second
        BY <2>3, <3>3, <3>4
      <4> QED BY <4>3, <4>4
    <3>7. (2 * p * c) * Second > (3 * d) * Second
      <4>1. \A x, y \in Int : x > y => x * Second > y * Second
        BY <3>4
      <4>2. 2 * p * c \in Int /\ 3 * d \in Int /\ 2 * p * c > 3 * d
        BY <3>1, <3>2, <3>3, <3>4
      <4> QED BY <4>1, <4>2
    <3>8. (3 * d) * Second = 3 * (d * Second)
      BY <3>2, <3>4
    <3>9. c * s \in Int /\ d * Second \in Int /\ (2 * p * c) * Second \in Int
      BY <2>3, <3>2, <3>3, <3>4
    <3> QED BY <2>1, <2>3, <3>4, <3>5, <3>6, <3>7, <3>8, <3>9
  <2>7. forgotten < h.startTime
    BY <2>1, <2>3, <2>4
  <2> QED BY <2>6, <2>7
<1>2. IInv => MemoryLasts
  BY <1>1 DEF MemoryLasts
<1> QED BY <1>2, Invariance, PTL
================================================================================
