------------------------ MODULE DuplicatePacketDetector ------------------------
(***************************************************************************)
(* The detector of duplicate packets,                                      *)
(* src/src/duplicatePacketDetector.cpp, for the packets of one channel     *)
(* (those of another have a circular buffer of their own).                 *)
(***************************************************************************)
EXTENDS PacketTimes, SequencesExt

CONSTANTS Tolerance,        \* sampling rate -> a start time this much later or
                            \* earlier is another packet's; 0: not classified
          Sizes,            \* arguments of setCircularBufferSize
          Durations,        \* of setCircularBufferDuration, in seconds
          DefaultDuration,  \* of the options; 300 in the code
          MinimumCapacity   \* of an estimated capacity, less one; 10 in the code

ASSUME ToleranceAssumption ==
    \A h \in Headers : Tolerance[h.samplingRate] \in Nat
ASSUME OptionsAssumption == /\ Sizes \subseteq Int
                            /\ Durations \subseteq Int
                            /\ DefaultDuration \in Nat \ {0}
                            /\ MinimumCapacity \in Nat \ {0}

VARIABLES options,      \* what the detector is, or was, constructed with
          constructed,
          capacity,     \* of the circular buffer
          buffer,       \* the circular buffer; empty: there is none yet
          result,       \* of the last call
          uniform,      \* history: all remembered packets were equally long
          forgotten     \* history: latest start of a packet that was dropped

settings == <<options, constructed>>
memory == <<capacity, buffer, uniform, forgotten>>
duplicateVars == <<settings, memory, result>>

Unset == -1
Never == -1

Init == /\ options = [mCircularBufferSize |-> Unset,
                      mCircularBufferDuration |-> DefaultDuration]
        /\ constructed = FALSE
        /\ capacity = 0 /\ buffer = <<>>
        /\ result = "none"
        /\ uniform = TRUE /\ forgotten = Never

-----------------------------------------------------------------------------
(***************************************************************************)
(* The options, one of which replaces the other, and the constructor.      *)
(***************************************************************************)
\* The new options, unless the argument is refused by an exception.
Set(argument, new) ==
    /\ ~constructed
    /\ IF argument > 0 THEN options' = new /\ result' = "none"
                       ELSE UNCHANGED options /\ result' = "threw"
    /\ UNCHANGED <<constructed, memory>>

setCircularBufferSize(n) ==
    Set(n, [mCircularBufferSize |-> n, mCircularBufferDuration |-> Unset])

setCircularBufferDuration(d) ==
    Set(d, [mCircularBufferSize |-> Unset, mCircularBufferDuration |-> d])

\* It copies the options, the duration if it is set and the size otherwise; one
\* of them is.
Construct == /\ ~constructed
             /\ constructed' = TRUE
             /\ result' = "none"
             /\ UNCHANGED <<options, memory>>

mEstimateCapacity == options.mCircularBufferDuration # Unset

-----------------------------------------------------------------------------
(***************************************************************************)
(* The capacity of a new buffer.                                           *)
(***************************************************************************)
\* The packet's length in whole seconds.
packetDuration(h) == Round(h.nSamples - 1, h.samplingRate)

Unallocatable == 0

\* Fault: the packets that just fit, instead of half as many again and one.
estimateCapacity_NoMargin(h) ==
    {Max({MinimumCapacity,
          options.mCircularBufferDuration \div Max({1, packetDuration(h)})})}

\* For a packet shorter than half a second, infinity is converted to an integer:
\* the result is small, and the minimum is taken, or so large that adding 1
\* overflows and the buffer's constructor throws.
estimateCapacity(h) ==
    IF packetDuration(h) = 0
    THEN {MinimumCapacity + 1, Unallocatable}
    ELSE {Max({MinimumCapacity,
               (3 * options.mCircularBufferDuration) \div (2 * packetDuration(h))})
          + 1}

Capacities(h) == IF mEstimateCapacity THEN estimateCapacity(h)
                 ELSE {options.mCircularBufferSize}

-----------------------------------------------------------------------------
\* The header of a packet without samples cannot be made; nor if there are so many
\* that the conversion from unsigned to int makes the number negative.
IsReadable(h) == h.nSamples \in 1..(Counts \div 2 - 1)

\* operator==, which throws for different or unclassified rates ...
Incomparable(x, h) ==
    \/ x.samplingRate # h.samplingRate
    \/ x.nSamples = h.nSamples /\ Tolerance[h.samplingRate] = 0

\* ... and tolerates a little difference of the start times.
Equal(x, h) ==
    /\ x.samplingRate = h.samplingRate
    /\ x.nSamples = h.nSamples
    /\ x.startTime - h.startTime \in
         (1 - Tolerance[h.samplingRate])..(Tolerance[h.samplingRate] - 1)

\* Fault: nothing is ever found.
Matches_None(h) == {}

\* std::find compares from the front, and stops at the first of these.
Matches(h) == {i \in DOMAIN buffer : Incomparable(buffer[i], h) \/ Equal(buffer[i], h)}

IsNewer(h) == h.startTime > endTime(Last(buffer))
IsOlder(h) == endTime(h) < Head(buffer).startTime

\* Fault: only the start of the packet is looked at.
Slips_StartOnly(h) ==
    \E x \in ToSet(buffer) : h.startTime \in x.startTime..endTime(x)

\* Either end of the packet lies in a remembered one.
Slips(h) ==
    \E x \in ToSet(buffer) : \/ h.startTime \in x.startTime..endTime(x)
                             \/ endTime(h) \in x.startTime..endTime(x)

IsFull == Len(buffer) = capacity

\* Fault: the buffer grows beyond its capacity.
PushBack_Grows(h) == Append(buffer, h)

\* circular_buffer::push_back drops the front of a full buffer.
PushBack(h) == Append(IF IsFull THEN Tail(buffer) ELSE buffer, h)

\* Only a buffer with space is pushed to at the front.
PushFront(h) == IF IsFull THEN buffer ELSE <<h>> \o buffer

\* Fault: the buffer is not sorted.
Sort_Not(q) == q

\* std::sort leaves the same packets, none before an earlier one.
Sort(q) ==
    LET order == CHOOSE p \in Bijection(DOMAIN q, DOMAIN q) :
                   \A i, j \in DOMAIN q :
                     i < j => q[p[i]].startTime <= q[p[j]].startTime
    IN  [i \in DOMAIN q |-> q[order[i]]]

-----------------------------------------------------------------------------
(***************************************************************************)
(* allow, one action per return or throw.                                  *)
(***************************************************************************)
Return(answer) == result' = answer /\ UNCHANGED settings

\* The new contents of the buffer; history is brought up to date.
Remember(q) ==
    LET dropped == {x.startTime : x \in ToSet(buffer) \ ToSet(q)}
    IN  /\ buffer' = q
        /\ uniform' = \A x, y \in ToSet(buffer) \cup ToSet(q) :
                         uniform /\ x.nSamples = y.nSamples
        /\ forgotten' = Max({forgotten} \cup dropped)
        /\ UNCHANGED capacity

RefuseUnreadable(h) == /\ ~IsReadable(h)
                       /\ Return("refused")
                       /\ UNCHANGED memory

\* Nor can that of a packet without a positive sampling rate, which has no end.
RefuseWithoutRate == Return("refused") /\ UNCHANGED memory

\* The first packet gets a buffer made.
AllowFirst(h) == /\ IsReadable(h) /\ buffer = <<>>
                 /\ \E n \in Capacities(h) \ {Unallocatable} : capacity' = n
                 /\ buffer' = <<h>>
                 /\ Return("allowed")
                 /\ UNCHANGED <<uniform, forgotten>>

ThrowFirst(h) == /\ IsReadable(h) /\ buffer = <<>>
                 /\ Unallocatable \in Capacities(h)
                 /\ Return("threw")
                 /\ UNCHANGED memory

Throw(h) == /\ IsReadable(h)
            /\ Matches(h) # {} /\ Incomparable(buffer[Min(Matches(h))], h)
            /\ Return("threw")
            /\ UNCHANGED memory

RefuseDuplicate(h) == /\ IsReadable(h)
                      /\ Matches(h) # {} /\ Equal(buffer[Min(Matches(h))], h)
                      /\ Return("refused")
                      /\ UNCHANGED memory

IsUnknown(h) == IsReadable(h) /\ buffer # <<>> /\ Matches(h) = {}

AllowNewer(h) == /\ IsUnknown(h) /\ IsNewer(h)
                 /\ Remember(PushBack(h))
                 /\ Return("allowed")

RefuseOlder(h) == /\ IsUnknown(h) /\ ~IsNewer(h) /\ IsOlder(h)
                  /\ Remember(PushFront(h))
                  /\ Return("refused")

RefuseSlip(h) == /\ IsUnknown(h) /\ ~IsNewer(h) /\ ~IsOlder(h) /\ Slips(h)
                 /\ Return("refused")
                 /\ UNCHANGED memory

AllowBackfill(h) == /\ IsUnknown(h) /\ ~IsNewer(h) /\ ~IsOlder(h) /\ ~Slips(h)
                    /\ Remember(Sort(PushBack(h)))
                    /\ Return("allowed")

allow(h) == \/ RefuseUnreadable(h)
            \/ AllowFirst(h) \/ ThrowFirst(h) \/ Throw(h) \/ RefuseDuplicate(h)
            \/ AllowNewer(h) \/ RefuseOlder(h) \/ RefuseSlip(h)
            \/ AllowBackfill(h)

Configure == \/ \E n \in Sizes : setCircularBufferSize(n)
             \/ \E d \in Durations : setCircularBufferDuration(d)
             \/ Construct

Next == Configure \/ (constructed /\ (RefuseWithoutRate \/ \E h \in Headers : allow(h)))

Spec == Init /\ [][Next]_duplicateVars

-----------------------------------------------------------------------------
(***************************************************************************)
(* Properties.                                                             *)
(***************************************************************************)
TypeOK ==
    /\ options.mCircularBufferSize \in Sizes \cup {Unset}
    /\ options.mCircularBufferDuration \in Durations \cup {DefaultDuration, Unset}
    /\ (options.mCircularBufferSize > 0) # (options.mCircularBufferDuration > 0)
    /\ constructed \in BOOLEAN
    /\ capacity \in Nat
    /\ buffer \in Seq(Headers) /\ Len(buffer) <= capacity
    /\ result \in {"none", "allowed", "refused", "threw"}
    /\ uniform \in BOOLEAN
    /\ forgotten \in Nat \cup {Never}

Span(h) == endTime(h) - h.startTime
Overlap(x, h) == x.startTime <= endTime(h) /\ h.startTime <= endTime(x)
Encloses(h, x) == h.startTime < x.startTime /\ endTime(x) < endTime(h)

Disjoint(q) == \A i, j \in DOMAIN q : i # j => ~Overlap(q[i], q[j])

\* The buffer stays sorted by start time, as the code asserts, without two
\* packets that are the same but for the tolerance, in whatever order they came:
\* the tests against its front and back decide nothing otherwise.
BufferIsSorted ==
    \A i, j \in DOMAIN buffer : i < j =>
        /\ buffer[i].startTime < buffer[j].startTime
        /\ ~Equal(buffer[i], buffer[j])

\* As long as the remembered packets are disjoint, the tests against the front,
\* the back and the ends of each decide as a look at every sample would: an
\* unknown packet passes if and only if it is not older than all, and overlaps
\* only packets it encloses.  (Those it should not overlap either: the test for a
\* timing slip asks where the ends of the new packet lie, not those of the old.)
JudgesOverlaps ==
    Disjoint(buffer) => \A h \in Headers : IsUnknown(h) =>
        ((IsNewer(h) \/ ~(IsOlder(h) \/ Slips(h))) <=>
            (/\ ~IsOlder(h)
             /\ \A x \in ToSet(buffer) : Overlap(x, h) => Encloses(h, x)))

\* The duration the options ask for is remembered: while packets are as long as
\* the first, which the capacity was estimated from, one that starts within that
\* time of the newest is never dropped, and what is dropped is older than what is
\* kept.  Provided that rounding did not add half to the length of the first.
MemoryLasts ==
    uniform /\ buffer # <<>> /\ forgotten # Never =>
        LET h == Head(buffer)
        IN  /\ forgotten < h.startTime
            /\ (/\ mEstimateCapacity
                /\ packetDuration(h) > 0
                /\ 3 * Span(h) >= 2 * packetDuration(h) * Second) =>
                 Last(buffer).startTime - forgotten >
                     options.mCircularBufferDuration * Second

\* It is none of those remembered, nor overlaps one.
IsNew(h) == \A x \in ToSet(buffer) :
               ~Overlap(x, h) /\ ~Incomparable(x, h) /\ ~Equal(x, h)

\* What the test "Out of order with duplicates" requires (src/testing/
\* sanitizer.cpp:311): while the buffer has space a packet that overlaps none of
\* those before is allowed, in whatever order they come.
OutOfOrderIsAllowed ==
    [][\A h \in Headers :
         /\ IsReadable(h) /\ IsNew(h)
         /\ buffer # <<>> /\ ~IsFull
         /\ allow(h)
         => result' = "allowed"]_duplicateVars
================================================================================
