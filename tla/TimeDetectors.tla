----------------------------- MODULE TimeDetectors -----------------------------
(***************************************************************************)
(* The detectors of packets that come too late or from the future,         *)
(* src/src/expiredPacketDetector.cpp and src/src/futurePacketDetector.cpp. *)
(* Either is made from options and compares a packet's times with the      *)
(* clock; it remembers nothing.                                            *)
(***************************************************************************)
EXTENDS PacketTimes

CONSTANTS ExpiredTimes,        \* arguments of setMaxExpiredTime
          FutureTimes,         \* of setMaxFutureTime
          DefaultExpiredTime,  \* of the options; five minutes in the code
          LargestTime,         \* that fits in the code's 64 bits
          LastTick             \* bound: of the clock

ASSUME TimesAssumption == /\ ExpiredTimes \subseteq Int
                          /\ FutureTimes \subseteq Int
                          /\ DefaultExpiredTime \in Nat \ {0}
                          /\ LargestTime \in Nat /\ LastTick \in 0..LargestTime

VARIABLES mMaxExpiredTime,     \* of the options, then of the expired detector
          mMaxFutureTime,      \* of the options, then of the future detector
          now,                 \* the system's clock
          verdict              \* the last answer, and history: to which packet
                               \* and when

timeVars == <<mMaxExpiredTime, mMaxFutureTime, now, verdict>>

NoVerdict == [answer |-> "none"]

InitTimes == /\ mMaxExpiredTime = DefaultExpiredTime
             /\ mMaxFutureTime = 0
             /\ now = 0
             /\ verdict = NoVerdict

\* A time that is not positive is refused by an exception.
setMaxExpiredTime(d) ==
    /\ mMaxExpiredTime' = IF d > 0 THEN d ELSE mMaxExpiredTime
    /\ UNCHANGED <<mMaxFutureTime, now, verdict>>

\* Any time will do, a negative one included.
setMaxFutureTime(d) ==
    /\ mMaxFutureTime' = d
    /\ UNCHANGED <<mMaxExpiredTime, now, verdict>>

Tick == /\ now < LastTick
        /\ now' = now + 1
        /\ UNCHANGED <<mMaxExpiredTime, mMaxFutureTime, verdict>>

-----------------------------------------------------------------------------
(***************************************************************************)
(* allow of either detector.                                               *)
(***************************************************************************)
Answer(h, answer) == /\ verdict' = [answer |-> answer, at |-> now, of |-> h]
                     /\ UNCHANGED <<mMaxExpiredTime, mMaxFutureTime, now>>

\* Fault: the end of the packet is looked at.
expiredAllow_AtEnd(h) ==
    Answer(h, IF endTime(h) >= now - mMaxExpiredTime THEN "allowed" ELSE "refused")

\* The packet's first sample is not too old.
expiredAllow(h) ==
    Answer(h, IF h.startTime >= now - mMaxExpiredTime THEN "allowed" ELSE "refused")

latestTime == now + mMaxFutureTime

\* A sum that does not fit is undefined, and so is the answer.
futureAllow(h) ==
    \/ Answer(h, IF endTime(h) <= latestTime THEN "allowed" ELSE "refused")
    \/ latestTime > LargestTime /\ \E a \in {"allowed", "refused"} : Answer(h, a)

\* A packet without a positive sampling rate has no end, nor an answer: an exception.
futureThrow == /\ verdict' = NoVerdict
               /\ UNCHANGED <<mMaxExpiredTime, mMaxFutureTime, now>>
================================================================================
