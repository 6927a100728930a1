------------------------------ MODULE PacketTimes ------------------------------
(***************************************************************************)
(* The times of a packet's samples, src/src/modules/utilities.cppm.  A     *)
(* packet is its header; times are counted in ticks, which are the code's  *)
(* microseconds.  Rates are whole numbers of samples per second; a packet  *)
(* without a positive rate has no times, and the modules that use this one *)
(* say what then happens.                                                  *)
(***************************************************************************)
EXTENDS Integers

CONSTANTS Second,       \* ticks in a second
          Counts,       \* numbers of samples a header can hold; 2^32 in the code
          Headers       \* of the packets that may come

ASSUME SecondAssumption == Second \in Nat \ {0}
ASSUME HeadersAssumption ==
    /\ Counts \in Nat \ {0}
    /\ Headers \subseteq [startTime : Nat, nSamples : 0..(Counts - 1),
                           samplingRate : Nat \ {0}]

\* a / b to the nearest integer, as std::round does for a >= 0.
Round(a, b) == (2 * a + b) \div (2 * b)

\* Fault: the interval is truncated.
Interval_Truncated(rate) == Second \div rate

\* Ticks from one sample to the next, in whole ticks.
Interval(rate) == Round(Second, rate)

\* The time of the last sample, as getEndTimeInMicroSeconds has it: one less than
\* no samples is the largest number of them.
endTime(h) ==
    h.startTime + Interval(h.samplingRate) * ((h.nSamples - 1) % Counts)
================================================================================
