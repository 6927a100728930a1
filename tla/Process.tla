-------------------------------- MODULE Process --------------------------------
(***************************************************************************)
(* The program, src/src/main.cpp: packets come from ImportSubscriber       *)
(* through addPacketCallback into mImportQueue, and the thread             *)
(* propagateImportPackets hands them to the server.  The main thread       *)
(* starts all this, watches the signals and the two threads' futures, and  *)
(* stops it.                                                               *)
(*                                                                         *)
(* A valid packet is its serial number.  The server is what it is asked:   *)
(* sent is the last packet it was given, and its stop, which AsyncWriter   *)
(* models, is one step.                                                    *)
(***************************************************************************)
EXTENDS Integers, Sequences

CONSTANTS nReconnect,                 \* of ImportSubscriber
          mMaximumImportQueueSize,
          MaximumPackets              \* bound on the valid packets received

ASSUME ScheduleAssumption == nReconnect \in Nat
ASSUME QueueAssumption == mMaximumImportQueueSize \in Nat \ {0}
ASSUME PacketsAssumption == MaximumPackets \in Nat

VARIABLES subscribing,                \* ImportSubscriber's mKeepRunning
          acquirer, kReconnect, reactor, call, fruitless,
          mKeepRunning,
          mImportQueue,
          adding,                     \* where addPacketCallback is
          propagator,                 \* where propagateImportPackets is,
                                      \* and the packet it has popped
          main,                       \* where the main thread is
          taken,                      \* the futures whose result was taken
          mInterrupted,               \* a signal came
          received, sent              \* newest packet of either end

Import == INSTANCE ImportSubscriber WITH mKeepRunning <- subscribing

import == <<subscribing, acquirer, kReconnect, reactor, call, fruitless>>
queue == <<mImportQueue, adding, propagator, received, sent>>
control == <<mKeepRunning, main, taken, mInterrupted>>
vars == <<import, queue, control>>

Futures == {"propagator", "acquirer"}

Init == /\ Import!Init
        /\ mKeepRunning = TRUE
        /\ mImportQueue = <<>>
        /\ adding = "idle"
        /\ propagator = [pc |-> "off", packet |-> 0]
        /\ main = "start"
        /\ taken = [t \in Futures |-> FALSE]
        /\ mInterrupted = FALSE
        /\ received = 0 /\ sent = 0

-----------------------------------------------------------------------------
(***************************************************************************)
(* addPacketCallback, between ReadPacket and CallbackReturns.              *)
(***************************************************************************)
\* A packet whose conversion succeeds; the queue is to be looked at.
ReceivePacket ==
    /\ received < MaximumPackets
    /\ Import!ReadPacket
    /\ received' = received + 1
    /\ adding' = "full?"
    /\ UNCHANGED <<control, mImportQueue, propagator, sent>>

\* Its conversion throws, and the packet is dropped.
ReceiveBadPacket ==
    /\ Import!ReadPacket
    /\ adding' = "done"
    /\ UNCHANGED <<control, mImportQueue, propagator, received, sent>>

\* Fault: the queue is a packet longer than allowed before it makes room.
TestQueue_OffByOne ==
    /\ adding = "full?"
    /\ adding' = IF Len(mImportQueue) > mMaximumImportQueueSize
                 THEN "pop" ELSE "push"
    /\ UNCHANGED <<import, control, mImportQueue, propagator, received, sent>>

TestQueue ==
    /\ adding = "full?"
    /\ adding' = IF Len(mImportQueue) >= mMaximumImportQueueSize
                 THEN "pop" ELSE "push"
    /\ UNCHANGED <<import, control, mImportQueue, propagator, received, sent>>

\* try_pop fails if the propagator has emptied the queue meanwhile.
PopOldest ==
    /\ adding = "pop"
    /\ IF mImportQueue = <<>>
       THEN /\ adding' = "push"
            /\ UNCHANGED mImportQueue
       ELSE /\ adding' = "full?"
            /\ mImportQueue' = Tail(mImportQueue)
    /\ UNCHANGED <<import, control, propagator, received, sent>>

\* try_push refuses a packet above the capacity.
PushPacket ==
    /\ adding = "push"
    /\ adding' = "done"
    /\ mImportQueue' = IF Len(mImportQueue) < mMaximumImportQueueSize
                       THEN Append(mImportQueue, received) ELSE mImportQueue
    /\ UNCHANGED <<import, control, propagator, received, sent>>

CallbackReturns ==
    /\ adding = "done"
    /\ Import!CallbackReturns
    /\ adding' = "idle"
    /\ UNCHANGED <<control, mImportQueue, propagator, received, sent>>

addPacketCallback == TestQueue \/ PopOldest \/ PushPacket \/ CallbackReturns

-----------------------------------------------------------------------------
(***************************************************************************)
(* propagateImportPackets.                                                 *)
(***************************************************************************)
TestKeepRunning ==
    /\ propagator.pc = "test"
    /\ propagator' = [propagator EXCEPT !.pc = IF mKeepRunning THEN "pop"
                                               ELSE "returned"]
    /\ UNCHANGED <<import, control, mImportQueue, adding, received, sent>>

\* Fault: the front is read first and popped after it was handed on.
PopPacket_Peeks ==
    /\ propagator.pc = "pop"
    /\ propagator' = IF mImportQueue = <<>>
                     THEN [propagator EXCEPT !.pc = "test"]
                     ELSE [pc |-> "enqueue", packet |-> Head(mImportQueue)]
    /\ UNCHANGED <<import, control, mImportQueue, adding, received, sent>>

PopPacket ==
    /\ propagator.pc = "pop"
    /\ IF mImportQueue = <<>>
       THEN /\ propagator' = [propagator EXCEPT !.pc = "test"]
            /\ UNCHANGED mImportQueue
       ELSE /\ propagator' = [pc |-> "enqueue", packet |-> Head(mImportQueue)]
            /\ mImportQueue' = Tail(mImportQueue)
    /\ UNCHANGED <<import, control, adding, received, sent>>

\* Server::enqueuePacket, before or after the server is stopped.
EnqueuePacket ==
    /\ propagator.pc = "enqueue"
    /\ sent' = propagator.packet
    /\ propagator' = [pc |-> "test", packet |-> 0]
    /\ UNCHANGED <<import, control, mImportQueue, adding, received>>

propagateImportPackets == TestKeepRunning \/ PopPacket \/ EnqueuePacket

-----------------------------------------------------------------------------
(***************************************************************************)
(* The main thread.                                                        *)
(***************************************************************************)
\* Process::start, to handleMainThread.
Start == /\ main = "start"
         /\ Import!start
         /\ mKeepRunning' = TRUE
         /\ propagator' = [propagator EXCEPT !.pc = "test"]
         /\ main' = "watch"
         /\ UNCHANGED <<mImportQueue, adding, received, sent, taken, mInterrupted>>

Signal == /\ ~mInterrupted
          /\ mInterrupted' = TRUE
          /\ UNCHANGED <<import, queue, mKeepRunning, main, taken>>

Watch == /\ main = "watch"
         /\ main' = IF mInterrupted THEN "stop" ELSE "check"
         /\ UNCHANGED <<import, queue, mKeepRunning, taken, mInterrupted>>

Ready(t) == IF t = "acquirer" THEN Import!Ended ELSE propagator.pc = "returned"
Threw(t) == t = "acquirer" /\ acquirer = "threw"

\* Fault: the result of a thread that failed is not looked at.
checkFuturesOkay_NeverGets ==
    /\ main = "check"
    /\ main' = "watch"
    /\ UNCHANGED <<import, queue, mKeepRunning, taken, mInterrupted>>

\* get takes the result of a future that is ready, and throws what the thread
\* threw.  To wait for a future once more after that throws too.
checkFuturesOkay ==
    /\ main = "check"
    /\ taken' = [t \in Futures |-> taken[t] \/ Ready(t)]
    /\ main' = IF \E t \in Futures : taken[t] \/ Threw(t) THEN "stop"
               ELSE "watch"
    /\ UNCHANGED <<import, queue, mKeepRunning, mInterrupted>>

\* Process::stop: first by the main loop ("stop"), then by the destructor
\* ("destroy").  Both flags are reset, the server is stopped, and then every
\* future that is still valid is waited for.
Stop == /\ main \in {"stop", "destroy"}
        /\ Import!stop
        /\ mKeepRunning' = FALSE
        /\ main' = IF main = "stop" THEN "join" ELSE "joinAgain"
        /\ UNCHANGED <<queue, taken, mInterrupted>>

\* Fault: only the propagating thread is waited for.
Joined_PropagatorOnly ==
    taken["propagator"] \/ Ready("propagator")

Joined == \A t \in Futures : taken[t] \/ Ready(t)

\* What the acquirer threw comes out of stop, and the destructor runs anyway.
Join == /\ main = "join"
        /\ Joined
        /\ taken' = [t \in Futures |-> TRUE]
        /\ main' = "destroy"
        /\ UNCHANGED <<import, queue, mKeepRunning, mInterrupted>>

\* An exception out of the destructor would terminate the program.
JoinAgain == /\ main = "joinAgain"
             /\ Joined
             /\ taken' = [t \in Futures |-> TRUE]
             /\ main' = IF \E t \in Futures : ~taken[t] /\ Threw(t)
                        THEN "terminated" ELSE "ended"
             /\ UNCHANGED <<import, queue, mKeepRunning, mInterrupted>>

mainThread == Start \/ Watch \/ checkFuturesOkay \/ Stop \/ Join \/ JoinAgain

-----------------------------------------------------------------------------
\* The steps of ImportSubscriber that leave the rest alone.
AcquirePackets == Import!acquirePackets /\ UNCHANGED <<queue, control>>
EndCall == /\ \E status \in Import!Status : Import!EndCall(status)
           /\ UNCHANGED <<queue, control>>
React == Import!Reactions /\ UNCHANGED <<queue, control>>

Terminated == main \in {"ended", "terminated"} /\ UNCHANGED vars

Next == \/ ReceivePacket \/ ReceiveBadPacket \/ addPacketCallback
        \/ propagateImportPackets \/ mainThread \/ Signal
        \/ AcquirePackets \/ EndCall \/ React \/ Terminated

\* Threads run, gRPC reports what it owes and ends a call it has cancelled; no
\* packet, no signal, and no end of a call that nobody cancels need come.
Fairness == /\ WF_vars(addPacketCallback)
            /\ WF_vars(propagateImportPackets)
            /\ WF_vars(mainThread)
            /\ WF_vars(AcquirePackets)
            /\ WF_vars(React)
            /\ WF_vars(/\ reactor.mTryCancel /\ Import!EndCall("CANCELLED")
                       /\ UNCHANGED <<queue, control>>)

Spec == Init /\ [][Next]_vars /\ Fairness

-----------------------------------------------------------------------------
TypeOK == /\ Import!TypeOK
          /\ mKeepRunning \in BOOLEAN
          /\ mImportQueue \in Seq(1..MaximumPackets)
          /\ adding \in {"idle", "full?", "pop", "push", "done"}
          /\ propagator \in [pc : {"off", "test", "pop", "enqueue", "returned"},
                             packet : 0..MaximumPackets]
          /\ main \in {"start", "watch", "check", "stop", "join", "destroy",
                       "joinAgain", "ended", "terminated"}
          /\ taken \in [Futures -> BOOLEAN]
          /\ mInterrupted \in BOOLEAN
          /\ received \in 0..MaximumPackets
          /\ sent \in 0..MaximumPackets

ReadsEndBeforeReactor == Import!ReadsEndBeforeReactor
GivesUpAfterSchedule == Import!GivesUpAfterSchedule

\* What is on its way to the server, oldest first.
OnItsWay == (IF propagator.pc = "enqueue" THEN <<propagator.packet>> ELSE <<>>)
            \o mImportQueue

\* Two threads pop the queue and one pushes, none under a lock: nothing is
\* handed to the server twice or out of order, and what waits is a run of
\* consecutive packets, because only the oldest are ever discarded.
PacketsInOrder ==
    /\ \A i \in 1..(Len(mImportQueue) - 1) :
            mImportQueue[i + 1] = mImportQueue[i] + 1
    /\ OnItsWay # <<>> => sent < Head(OnItsWay)
    /\ Len(OnItsWay) > 1 => OnItsWay[1] < OnItsWay[2]

\* Whenever addPacketCallback is done the newest packet is in the queue, or was
\* taken from it: room was made, and the push was not refused.
NewestIsKept ==
    adding \in {"idle", "done"} /\ received # 0 =>
        \/ mImportQueue # <<>> /\ mImportQueue[Len(mImportQueue)] = received
        \/ propagator.packet = received
        \/ sent = received

\* Once the process has been destroyed no thread and no reaction runs that would
\* use it; and no exception has left the destructor, although the subscriber's
\* thread may throw at any moment before it sees the stop.
EndsInOrder ==
    main \in {"ended", "terminated"} =>
        /\ main = "ended"
        /\ propagator.pc = "returned" /\ Import!Ended
        /\ adding = "idle" /\ ~call.reading

\* A signal ends the program, even when the import server is silent and the
\* call has to be cancelled, or is down and the thread waits to reconnect.
SignalEndsProcess == mInterrupted ~> main = "ended"

\* When the subscriber gives up, the program ends instead of serving nothing.
DeadImportEndsProcess == acquirer = "threw" ~> main = "ended"

\* A valid packet reaches the server unless newer ones push it out (and then
\* one of those does) or the program stops.
NewestIsSent ==
    \A n \in 1..MaximumPackets : received = n ~> sent >= n \/ ~mKeepRunning
===============================================================================
