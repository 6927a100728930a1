--------------------------- MODULE MCPacketDetectors ---------------------------
\* An instance of PacketDetectors for TLC.  A tick is half a second.
EXTENDS PacketDetectors

\* A rate of 3 samples per second is not classified.
MCTolerance == <<3, 1, 0>>

\* Packets of one to three samples, and longer ones at the higher rate; one
\* without samples, and one with the first number that an int of Counts values
\* does not hold.
MCHeaders == [startTime : 0..8, nSamples : 1..3, samplingRate : {1}]
     \cup [startTime : 0..8, nSamples : {1, 4}, samplingRate : {2}]
     \cup [startTime : {0, 4, 8}, nSamples : {1, 2}, samplingRate : {3}]
     \cup [startTime : {4}, nSamples : {0, 8}, samplingRate : {1}]

MCFutureTimes == {-3, 2, 6}
================================================================================
