---------------------------- MODULE PacketDetectors ----------------------------
(***************************************************************************)
(* One of the three detectors, as a caller has it: the options are set, a  *)
(* detector is constructed from them, and then asked about packets.        *)
(* Nothing of the running service does so.                                 *)
(***************************************************************************)
EXTENDS DuplicatePacketDetector, TimeDetectors

VARIABLE kind      \* of the detector and its options

vars == <<kind, duplicateVars, timeVars>>

InitDetectors == /\ Init /\ InitTimes
                 /\ kind \in {"duplicate", "expired", "future"}

DuplicateNext == /\ kind = "duplicate"
                 /\ Next
                 /\ UNCHANGED <<kind, timeVars>>

\* The options of the others are copied by the constructor, too.
SetTime == /\ kind # "duplicate" /\ ~constructed
           /\ \/ \E d \in ExpiredTimes : kind = "expired" /\ setMaxExpiredTime(d)
              \/ \E d \in FutureTimes : kind = "future" /\ setMaxFutureTime(d)
           /\ UNCHANGED <<kind, duplicateVars>>

ConstructFromTime == /\ kind # "duplicate"
                     /\ Construct
                     /\ UNCHANGED <<kind, timeVars>>

TimePasses == /\ kind # "duplicate" /\ constructed
              /\ Tick
              /\ UNCHANGED <<kind, duplicateVars>>

Ask(h) == /\ constructed
          /\ \/ kind = "expired" /\ expiredAllow(h)
             \/ kind = "future" /\ futureAllow(h)
          /\ UNCHANGED <<kind, duplicateVars>>

AskWithoutRate == /\ constructed /\ kind = "future"
                  /\ futureThrow
                  /\ UNCHANGED <<kind, duplicateVars>>

NextDetectors ==
    \/ DuplicateNext
    \/ SetTime \/ ConstructFromTime \/ TimePasses
    \/ AskWithoutRate \/ \E h \in Headers : Ask(h)

SpecDetectors == InitDetectors /\ [][NextDetectors]_vars

-----------------------------------------------------------------------------
TypeOKDetectors ==
    /\ TypeOK
    /\ kind \in {"duplicate", "expired", "future"}
    /\ mMaxExpiredTime \in Nat \ {0} /\ mMaxFutureTime \in Int
    /\ now \in 0..LastTick

\* The time of sample k of packet h, counted from 0, times the rate.
SampleTime(h, k) == h.startTime * h.samplingRate + k * Second

Samples(h) == 0..(h.nSamples - 1)

\* "If any sample in the packet has a time that exceeds the current time plus
\* getMaxFutureTime() then the packet is rejected", and if one precedes the time
\* getMaxExpiredTime() ago: right for every sample, though each detector looks at
\* one end of the packet, and the future one at a rounded interval: half a tick
\* for each sample.  As long as the sum of the times fits in 64 bits.
SamplesAreInTime ==
    LET h        == verdict.of
        earliest == verdict.at - mMaxExpiredTime
        latest   == verdict.at + mMaxFutureTime
    IN  verdict # NoVerdict /\ h.nSamples > 0 =>
            /\ kind = "expired" =>
                 (verdict.answer = "refused" <=>
                    \E k \in Samples(h) :
                        SampleTime(h, k) < earliest * h.samplingRate)
            /\ kind = "future" /\ latest <= LargestTime =>
                 /\ verdict.answer = "allowed" =>
                      \A k \in Samples(h) :
                        2 * SampleTime(h, k) <= (2 * latest + k) * h.samplingRate
                 /\ verdict.answer = "refused" =>
                      \E k \in Samples(h) :
                        2 * SampleTime(h, k) > (2 * latest - k) * h.samplingRate
================================================================================
