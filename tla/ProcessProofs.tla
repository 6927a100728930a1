----------------------------- MODULE ProcessProofs -----------------------------
(***************************************************************************)
(* Theorems about Process, for every schedule, every capacity of the queue *)
(* and every number of packets.                                            *)
(***************************************************************************)
EXTENDS Process, TLAPS

Subscriber == INSTANCE ImportSubscriberProofs WITH mKeepRunning <- subscribing

\* The callback into the process runs exactly while gRPC waits for it.
AddingIsCallback == call.callback <=> adding # "idle"

\* The newest packet the queue was, or is not any more to be, given.
Newest == IF adding \in {"full?", "pop", "push"} THEN received - 1 ELSE received

\* The queue holds the packets up to the newest one, without a gap; what was
\* popped or sent is older than they are; and there is room for a push.
QueueEndsInNewest ==
    /\ adding \in {"full?", "pop", "push"} => received > 0
    /\ \A i \in 1..Len(mImportQueue) :
            mImportQueue[i] = Newest - Len(mImportQueue) + i
    /\ sent + Len(mImportQueue) <= Newest
    /\ propagator.packet + Len(mImportQueue) <= Newest
    /\ IF propagator.pc = "enqueue" THEN sent < propagator.packet
                                    ELSE propagator.packet = 0
    /\ adding = "push" => Len(mImportQueue) < mMaximumImportQueueSize
    /\ adding \in {"idle", "done"} /\ mImportQueue = <<>> =>
            propagator.packet = received \/ sent = received

\* A result is taken of a thread that has started and ended, and of both
\* threads before the destructor runs.
TakenHaveEnded ==
    /\ \A t \in Futures : taken[t] => Ready(t)
    /\ main = "start" => propagator.pc = "off" /\ \A t \in Futures : ~taken[t]
    /\ main \in {"destroy", "joinAgain", "ended"} => \A t \in Futures : taken[t]
    /\ main # "terminated"

\* The inductive invariant.
IInv == /\ Subscriber!IInv
        /\ TypeOK
        /\ AddingIsCallback /\ QueueEndsInNewest /\ TakenHaveEnded

USE ScheduleAssumption, QueueAssumption, PacketsAssumption

\* The two instances of the subscriber are one.
LEMMA SameNext ==
    [Import!Next]_(Import!vars) => [Subscriber!Next]_(Subscriber!vars)
BY DEF Import!Next, Import!vars, Import!start, Import!stop,
       Import!acquirePackets, Import!Loop, Import!EndWait, Import!Connect,
       Import!Await, Import!Pause, Import!HandleStatus, Import!End,
       Import!EndsLoop, Import!Goto, Import!Status, Import!EndCall,
       Import!NewReactor, Import!NewCall, Import!NoCall, Import!ReadPacket,
       Import!CallbackReturns, Import!Reactions, Import!ReadFails,
       Import!OnDone, Import!OnDoneReturns, Import!Alive,
       Subscriber!Next, Subscriber!vars, Subscriber!start, Subscriber!stop,
       Subscriber!acquirePackets, Subscriber!Loop, Subscriber!EndWait,
       Subscriber!Connect, Subscriber!Await, Subscriber!Pause,
       Subscriber!HandleStatus, Subscriber!End, Subscriber!EndsLoop,
       Subscriber!Goto, Subscriber!Status, Subscriber!EndCall,
       Subscriber!NewReactor, Subscriber!NewCall, Subscriber!NoCall,
       Subscriber!ReadPacket, Subscriber!CallbackReturns,
       Subscriber!Reactions, Subscriber!ReadFails, Subscriber!OnDone,
       Subscriber!OnDoneReturns, Subscriber!Alive

\* What of the subscriber's invariant the program uses.
LEMMA SameTypes ==
    ASSUME Subscriber!IInv
    PROVE  Import!TypeOK /\ ReadsEndBeforeReactor
BY DEF Subscriber!IInv, Subscriber!TypeOK, Subscriber!Status, Import!TypeOK,
       Import!Status, ReadsEndBeforeReactor, Import!ReadsEndBeforeReactor,
       Import!Alive, Subscriber!ReadsEndBeforeReactor, Subscriber!Alive

\* Every step of the program is a step of the subscriber or leaves it alone.
LEMMA ImportStep ==
    ASSUME [Next]_vars
    PROVE  [Import!Next]_(Import!vars)
<1> USE DEF import, Import!vars
<1>1. CASE ReceivePacket BY <1>1 DEF ReceivePacket, Import!Next
<1>2. CASE ReceiveBadPacket BY <1>2 DEF ReceiveBadPacket, Import!Next
<1>3. CASE addPacketCallback
  BY <1>3 DEF addPacketCallback, TestQueue, PopOldest, PushPacket,
              CallbackReturns, Import!Next
<1>4. CASE propagateImportPackets
  BY <1>4 DEF propagateImportPackets, TestKeepRunning, PopPacket, EnqueuePacket
<1>5. CASE mainThread
  BY <1>5 DEF mainThread, Start, Watch, checkFuturesOkay, Stop, Join, JoinAgain,
              Import!Next
<1>6. CASE Signal BY <1>6 DEF Signal
<1>7. CASE AcquirePackets BY <1>7 DEF AcquirePackets, Import!Next
<1>8. CASE EndCall BY <1>8 DEF EndCall, Import!Next
<1>9. CASE React BY <1>9 DEF React, Import!Next
<1>10. CASE Terminated \/ UNCHANGED vars BY <1>10 DEF Terminated, vars
<1> QED BY <1>1, <1>2, <1>3, <1>4, <1>5, <1>6, <1>7, <1>8, <1>9, <1>10 DEF Next

\* So the subscriber's invariant holds in the program.
LEMMA ImportInv ==
    ASSUME Subscriber!IInv, [Next]_vars
    PROVE  Subscriber!IInv' /\ Import!TypeOK' /\ ReadsEndBeforeReactor'
<1>1. Subscriber!IInv' BY ImportStep, SameNext, Subscriber!NextInv
<1> QED
  BY <1>1 DEF Subscriber!IInv, Subscriber!TypeOK, Subscriber!Status,
     Import!TypeOK, Import!Status, ReadsEndBeforeReactor,
     Import!ReadsEndBeforeReactor, Import!Alive,
     Subscriber!ReadsEndBeforeReactor, Subscriber!Alive

\* The invariant holds at first.
LEMMA InitInv == Init => IInv
<1> SUFFICES ASSUME Init PROVE IInv OBVIOUS
<1>1. Subscriber!Init
  BY DEF Init, Import!Init, Import!NewReactor, Import!NoCall,
         Subscriber!Init, Subscriber!NewReactor, Subscriber!NoCall
<1>2. Subscriber!IInv BY <1>1, Subscriber!InitInv
<1>3. <<>> \in Seq(1..MaximumPackets) OBVIOUS
<1>4. TypeOK
  <2>1. Import!TypeOK BY <1>2, SameTypes
  <2>2. taken \in [Futures -> BOOLEAN] BY DEF Init
  <2>3. propagator \in [pc : {"off", "test", "pop", "enqueue", "returned"},
                        packet : 0..MaximumPackets]
    BY DEF Init
  <2>4. /\ mKeepRunning \in BOOLEAN /\ mInterrupted \in BOOLEAN
        /\ adding = "idle" /\ main = "start"
        /\ received = 0 /\ sent = 0
    BY Zenon DEF Init
  <2>5. mImportQueue \in Seq(1..MaximumPackets) BY <1>3 DEF Init
  <2> QED BY <2>1, <2>2, <2>3, <2>4, <2>5 DEF TypeOK
<1>5. AddingIsCallback /\ QueueEndsInNewest /\ TakenHaveEnded
  BY DEF Init, AddingIsCallback, QueueEndsInNewest, TakenHaveEnded, Newest,
         Import!Init, Import!NoCall
<1> QED BY <1>2, <1>4, <1>5 DEF IInv

\* Every step keeps the variables of the process in their types.
LEMMA NextType ==
    ASSUME IInv, [Next]_vars
    PROVE  TypeOK'
<1>1. Import!TypeOK' BY ImportInv DEF IInv
<1> DEFINE Packets == 1..MaximumPackets
           QT == /\ mKeepRunning \in BOOLEAN
                 /\ mImportQueue \in Seq(Packets)
                 /\ adding \in {"idle", "full?", "pop", "push", "done"}
                 /\ propagator \in
                      [pc : {"off", "test", "pop", "enqueue", "returned"},
                       packet : 0..MaximumPackets]
                 /\ main \in {"start", "watch", "check", "stop", "join",
                              "destroy", "joinAgain", "ended", "terminated"}
                 /\ taken \in [Futures -> BOOLEAN]
                 /\ mInterrupted \in BOOLEAN
                 /\ received \in 0..MaximumPackets
                 /\ sent \in 0..MaximumPackets
<1> SUFFICES QT' BY <1>1 DEF TypeOK
<1>2. QT BY DEF IInv, TypeOK
<1> USE DEF queue, control
<1>3. CASE ReceivePacket BY <1>2, <1>3 DEF ReceivePacket
<1>4. CASE ReceiveBadPacket BY <1>2, <1>4 DEF ReceiveBadPacket
<1>5. CASE TestQueue BY <1>2, <1>5 DEF TestQueue
<1>6. CASE PopOldest
  <2>1. mImportQueue # <<>> => Tail(mImportQueue) \in Seq(Packets) BY <1>2
  <2> QED BY <1>2, <1>6, <2>1 DEF PopOldest
<1>7. CASE PushPacket
  <2>1. received \in Packets
    BY <1>2, <1>7 DEF IInv, QueueEndsInNewest, PushPacket
  <2>2. Append(mImportQueue, received) \in Seq(Packets) BY <1>2, <2>1
  <2> QED BY <1>2, <1>7, <2>2 DEF PushPacket
<1>8. CASE CallbackReturns BY <1>2, <1>8 DEF CallbackReturns
<1>9. CASE TestKeepRunning BY <1>2, <1>9 DEF TestKeepRunning
<1>10. CASE PopPacket
  <2>1. mImportQueue # <<>> => /\ Tail(mImportQueue) \in Seq(Packets)
                               /\ Head(mImportQueue) \in 0..MaximumPackets
    BY <1>2
  <2>2. CASE mImportQueue = <<>> BY <1>2, <1>10, <2>2 DEF PopPacket
  <2>3. CASE mImportQueue # <<>>
    <3>1. [pc |-> "enqueue", packet |-> Head(mImportQueue)] \in
            [pc : {"off", "test", "pop", "enqueue", "returned"},
             packet : 0..MaximumPackets]
      BY <2>1, <2>3
    <3> QED BY <1>2, <1>10, <2>1, <2>3, <3>1 DEF PopPacket
  <2> QED BY <2>2, <2>3
<1>11. CASE EnqueuePacket BY <1>2, <1>11 DEF EnqueuePacket
<1>12. CASE Start BY <1>2, <1>12 DEF Start
<1>13. CASE Watch BY <1>2, <1>13 DEF Watch
<1>14. CASE checkFuturesOkay
  <2>1. \A t \in Futures : (taken[t] \/ Ready(t)) \in BOOLEAN
    BY <1>2 DEF Ready, Import!Ended
  <2>2. [t \in Futures |-> taken[t] \/ Ready(t)] \in [Futures -> BOOLEAN]
    BY <2>1
  <2> QED BY <1>2, <1>14, <2>2 DEF checkFuturesOkay
<1>15. CASE Stop BY <1>2, <1>15 DEF Stop
<1>16. CASE Join
  <2>1. [t \in Futures |-> TRUE] \in [Futures -> BOOLEAN] OBVIOUS
  <2> QED BY <1>2, <1>16, <2>1 DEF Join
<1>17. CASE JoinAgain
  <2>1. [t \in Futures |-> TRUE] \in [Futures -> BOOLEAN] OBVIOUS
  <2> QED BY <1>2, <1>17, <2>1 DEF JoinAgain
<1>18. CASE Signal BY <1>2, <1>18 DEF Signal
<1>19. CASE AcquirePackets \/ EndCall \/ React \/ Terminated \/ UNCHANGED vars
  BY <1>2, <1>19 DEF AcquirePackets, EndCall, React, Terminated, vars
<1> QED
  BY <1>3, <1>4, <1>5, <1>6, <1>7, <1>8, <1>9, <1>10, <1>11, <1>12, <1>13,
     <1>14, <1>15, <1>16, <1>17, <1>18, <1>19
  DEF Next, addPacketCallback, propagateImportPackets, mainThread

\* Every step keeps the callback and gRPC's wait for it together.
LEMMA NextCallback ==
    ASSUME IInv, [Next]_vars
    PROVE  AddingIsCallback'
<1> USE DEF IInv, AddingIsCallback, queue, import
<1>1. CASE ReceivePacket
  BY <1>1 DEF ReceivePacket, Import!ReadPacket, TypeOK, Import!TypeOK
<1>2. CASE ReceiveBadPacket
  BY <1>2 DEF ReceiveBadPacket, Import!ReadPacket, TypeOK, Import!TypeOK
<1>3. CASE TestQueue \/ PopOldest \/ PushPacket
  BY <1>3 DEF TestQueue, PopOldest, PushPacket
<1>4. CASE CallbackReturns
  BY <1>4 DEF CallbackReturns, Import!CallbackReturns, TypeOK, Import!TypeOK
<1>5. CASE propagateImportPackets \/ Signal \/ Terminated \/ UNCHANGED vars
  BY <1>5 DEF propagateImportPackets, TestKeepRunning, PopPacket, EnqueuePacket,
              Signal, Terminated, vars
<1>6. CASE mainThread
  BY <1>6 DEF mainThread, Start, Watch, checkFuturesOkay, Stop, Join, JoinAgain,
              Import!start, Import!stop
<1>7. CASE AcquirePackets
  <2>1. ~Import!Alive => ~call.callback
    BY SameTypes DEF ReadsEndBeforeReactor, Import!ReadsEndBeforeReactor
  <2>2. CASE Import!Connect
    BY <1>7, <2>1, <2>2 DEF AcquirePackets, Import!Connect, Import!Alive,
       Import!NewCall, Import!NoCall
  <2>3. CASE UNCHANGED call BY <1>7, <2>3 DEF AcquirePackets
  <2> QED
    BY <1>7, <2>2, <2>3 DEF AcquirePackets, Import!acquirePackets, Import!Loop,
       Import!EndWait, Import!Await, Import!Pause, Import!HandleStatus,
       Import!End, Import!Goto
<1>8. CASE EndCall BY <1>8 DEF EndCall, Import!EndCall, TypeOK, Import!TypeOK
<1>9. CASE React
  BY <1>9 DEF React, Import!Reactions, Import!ReadFails, Import!OnDone,
              Import!OnDoneReturns, TypeOK, Import!TypeOK
<1> QED BY <1>1, <1>2, <1>3, <1>4, <1>5, <1>6, <1>7, <1>8, <1>9
        DEF Next, addPacketCallback

\* Every step of a thread that is ready leaves it so, and the main thread takes
\* results of such threads only.
LEMMA NextTaken ==
    ASSUME IInv, [Next]_vars
    PROVE  TakenHaveEnded'
<1> USE DEF IInv, TakenHaveEnded, queue, control, Ready, Futures
<1>1. CASE /\ UNCHANGED <<main, taken>>
           /\ \A t \in Futures : Ready(t) => Ready(t)'
           /\ propagator.pc = "off" => propagator'.pc = "off"
  BY <1>1
<1>2. CASE Start
  BY <1>2 DEF Start
<1>3. CASE Watch
  BY <1>3 DEF Watch, import, Import!Ended
<1>4. CASE checkFuturesOkay
  BY <1>4 DEF checkFuturesOkay, import, Import!Ended
<1>5. CASE Stop
  BY <1>5 DEF Stop, Import!stop, Import!Ended
<1>6. CASE Join
  BY <1>6 DEF Join, Joined, import, Import!Ended
<1>7. CASE JoinAgain
  BY <1>7 DEF JoinAgain, Joined, import, Import!Ended
<1>8. CASE ReceivePacket \/ ReceiveBadPacket \/ addPacketCallback \/ EndCall
           \/ React \/ Signal \/ Terminated \/ UNCHANGED vars
  <2>1. UNCHANGED <<main, taken, acquirer, propagator>>
    BY <1>8 DEF ReceivePacket, ReceiveBadPacket, addPacketCallback, TestQueue,
       PopOldest, PushPacket, CallbackReturns, EndCall, React, Signal,
       Terminated, vars, import, Import!ReadPacket, Import!CallbackReturns,
       Import!EndCall, Import!Reactions, Import!ReadFails, Import!OnDone,
       Import!OnDoneReturns
  <2> QED BY <2>1, <1>1 DEF Import!Ended
<1>9. CASE propagateImportPackets
  <2>1. /\ UNCHANGED <<main, taken, acquirer>>
        /\ propagator.pc \notin {"off", "returned"}
    BY <1>9 DEF propagateImportPackets, TestKeepRunning, PopPacket,
       EnqueuePacket, import
  <2> QED BY <2>1, <1>1 DEF Import!Ended
<1>10. CASE AcquirePackets
  <2>1. UNCHANGED <<main, taken, propagator>> /\ ~Import!Ended
    BY <1>10 DEF AcquirePackets, Import!acquirePackets, Import!Loop,
       Import!EndWait, Import!Connect, Import!Await, Import!Pause,
       Import!HandleStatus, Import!End, Import!Goto, Import!Ended
  <2> QED BY <2>1, <1>1
<1> QED BY <1>2, <1>3, <1>4, <1>5, <1>6, <1>7, <1>8, <1>9, <1>10
        DEF Next, mainThread

\* What Tail does to a run of consecutive numbers that ends in n.
LEMMA TailOfRun ==
    ASSUME NEW S, NEW s \in Seq(S), s # <<>>, NEW n \in Nat,
           \A i \in 1..Len(s) : s[i] = n - Len(s) + i
    PROVE  /\ Len(Tail(s)) = Len(s) - 1
           /\ \A i \in 1..Len(Tail(s)) : Tail(s)[i] = n - Len(Tail(s)) + i
           /\ Head(s) = n - Len(s) + 1
<1>1. Len(Tail(s)) = Len(s) - 1 /\ Len(s) \in Nat \ {0} OBVIOUS
<1>2. \A i \in 1..Len(Tail(s)) : Tail(s)[i] = s[i + 1] BY <1>1
<1>3. Head(s) = s[1] OBVIOUS
<1> QED BY <1>1, <1>2, <1>3

\* Every step keeps the queue a run that ends in the newest packet.
LEMMA NextQueue ==
    ASSUME IInv, [Next]_vars
    PROVE  QueueEndsInNewest'
<1> USE DEF IInv, queue, control
<1>0. /\ mImportQueue \in Seq(1..MaximumPackets) /\ Len(mImportQueue) \in Nat
      /\ received \in Nat /\ sent \in Nat /\ propagator.packet \in Nat
      /\ propagator = [pc |-> propagator.pc, packet |-> propagator.packet]
      /\ mMaximumImportQueueSize \in Nat \ {0}
      /\ Newest \in Nat
      /\ mImportQueue = <<>> <=> Len(mImportQueue) = 0
  BY DEF TypeOK, QueueEndsInNewest, Newest
<1>a. \A i \in 1..Len(mImportQueue) :
            mImportQueue[i] = Newest - Len(mImportQueue) + i
  BY DEF QueueEndsInNewest
<1>b. mImportQueue # <<>> /\ mImportQueue' = Tail(mImportQueue) =>
        /\ Len(mImportQueue') = Len(mImportQueue) - 1
        /\ \A i \in 1..Len(mImportQueue') :
              mImportQueue'[i] = Newest - Len(mImportQueue') + i
        /\ Head(mImportQueue) = Newest - Len(mImportQueue) + 1
  BY <1>0, <1>a, TailOfRun
<1>1. CASE UNCHANGED <<mImportQueue, adding, propagator, received, sent>>
  BY <1>1 DEF QueueEndsInNewest, Newest
<1>2. CASE ReceivePacket
  <2>1. adding = "idle"
    BY <1>2 DEF ReceivePacket, Import!ReadPacket, AddingIsCallback
  <2>2. Newest' = Newest BY <1>0, <1>2, <2>1 DEF ReceivePacket, Newest
  <2> QED BY <1>0, <1>2, <2>1, <2>2 DEF ReceivePacket, QueueEndsInNewest
<1>3. CASE ReceiveBadPacket
  <2>1. adding = "idle"
    BY <1>3 DEF ReceiveBadPacket, Import!ReadPacket, AddingIsCallback
  <2> QED BY <1>0, <1>3, <2>1 DEF ReceiveBadPacket, QueueEndsInNewest, Newest
<1>4. CASE TestQueue
  <2>1. Newest' = Newest BY <1>4 DEF TestQueue, Newest
  <2> QED BY <1>0, <1>4, <2>1 DEF TestQueue, QueueEndsInNewest
<1>5. CASE PopOldest
  <2>1. Newest' = Newest BY <1>5 DEF PopOldest, Newest
  <2>2. CASE mImportQueue = <<>>
    BY <1>0, <1>5, <2>1, <2>2 DEF PopOldest, QueueEndsInNewest
  <2>3. CASE mImportQueue # <<>>
    <3>1. /\ Len(mImportQueue') = Len(mImportQueue) - 1
          /\ \A i \in 1..Len(mImportQueue') :
                mImportQueue'[i] = Newest - Len(mImportQueue') + i
      BY <1>5, <1>b, <2>3 DEF PopOldest
    <3> QED BY <1>0, <1>5, <2>1, <2>3, <3>1 DEF PopOldest, QueueEndsInNewest
  <2> QED BY <2>2, <2>3
<1>6. CASE PushPacket
  <2>1. mImportQueue' = Append(mImportQueue, received)
    BY <1>6 DEF PushPacket, QueueEndsInNewest
  <2>2. Newest' = received /\ Newest = received - 1
    BY <1>6 DEF PushPacket, Newest
  <2>3. /\ Len(mImportQueue') = Len(mImportQueue) + 1
        /\ \A i \in 1..Len(mImportQueue) : mImportQueue'[i] = mImportQueue[i]
        /\ mImportQueue'[Len(mImportQueue) + 1] = received
        /\ mImportQueue' # <<>>
    BY <1>0, <2>1
  <2>4. \A i \in 1..Len(mImportQueue') :
            mImportQueue'[i] = Newest' - Len(mImportQueue') + i
    <3> TAKE i \in 1..Len(mImportQueue')
    <3>1. CASE i \in 1..Len(mImportQueue)
      <4>1. mImportQueue'[i] = Newest - Len(mImportQueue) + i
        BY <1>a, <2>3, <3>1
      <4> QED BY <1>0, <2>2, <2>3, <3>1, <4>1
    <3>2. CASE i = Len(mImportQueue) + 1
      <4>1. mImportQueue'[i] = received BY <2>3, <3>2
      <4>2. i = Len(mImportQueue') BY <2>3, <3>2
      <4>3. received - i + i = received BY <1>0, <3>2
      <4> QED BY <2>2, <4>1, <4>2, <4>3
    <3> QED BY <1>0, <2>3, <3>1, <3>2
  <2>5. adding' = "done" /\ UNCHANGED <<propagator, received, sent>>
    BY <1>6 DEF PushPacket
  <2>6. received' > 0 /\ sent' + Len(mImportQueue') <= Newest'
        /\ propagator'.packet + Len(mImportQueue') <= Newest'
    BY <1>0, <2>2, <2>3, <2>5 DEF QueueEndsInNewest
  <2>7. IF propagator'.pc = "enqueue" THEN sent' < propagator'.packet
                                      ELSE propagator'.packet = 0
    BY <2>5 DEF QueueEndsInNewest
  <2> QED BY <2>3, <2>4, <2>5, <2>6, <2>7 DEF QueueEndsInNewest
<1>7. CASE CallbackReturns
  BY <1>0, <1>7 DEF CallbackReturns, QueueEndsInNewest, Newest
<1>8. CASE PopPacket
  <2>1. Newest' = Newest BY <1>8 DEF PopPacket, Newest
  <2>2. CASE mImportQueue = <<>>
    BY <1>0, <1>8, <2>1, <2>2 DEF PopPacket, QueueEndsInNewest
  <2>3. CASE mImportQueue # <<>>
    <3>1. /\ Len(mImportQueue') = Len(mImportQueue) - 1
          /\ \A i \in 1..Len(mImportQueue') :
                mImportQueue'[i] = Newest - Len(mImportQueue') + i
      BY <1>8, <1>b, <2>3 DEF PopPacket
    <3>4. propagator' = [pc |-> "enqueue", packet |-> Head(mImportQueue)]
      BY <1>8, <2>3 DEF PopPacket
    <3>5. propagator'.packet = Newest - Len(mImportQueue')
      BY <1>0, <1>8, <1>b, <2>3, <3>1, <3>4 DEF PopPacket
    <3>2. adding \in {"idle", "done"} => Newest = received BY DEF Newest
    <3>3. mImportQueue' = <<>> => Len(mImportQueue') = 0 OBVIOUS
    <3> QED
      BY <1>0, <1>8, <2>1, <2>3, <3>1, <3>2, <3>3, <3>4, <3>5
      DEF PopPacket, QueueEndsInNewest
  <2> QED BY <2>2, <2>3
<1>9. CASE EnqueuePacket
  <2>1. Newest' = Newest BY <1>9 DEF EnqueuePacket, Newest
  <2>2. adding \in {"idle", "done"} => Newest = received BY DEF Newest
  <2> QED BY <1>0, <1>9, <2>1, <2>2 DEF EnqueuePacket, QueueEndsInNewest
<1>10. CASE TestKeepRunning
  BY <1>0, <1>10 DEF TestKeepRunning, QueueEndsInNewest, Newest
<1>11. CASE Start
  BY <1>0, <1>11 DEF Start, QueueEndsInNewest, Newest, TakenHaveEnded
<1>12. CASE Watch \/ checkFuturesOkay \/ Stop \/ Join \/ JoinAgain \/ Signal
            \/ AcquirePackets \/ EndCall \/ React \/ Terminated \/ UNCHANGED vars
  BY <1>1, <1>12 DEF Watch, checkFuturesOkay, Stop, Join, JoinAgain, Signal,
     AcquirePackets, EndCall, React, Terminated, vars
<1> QED
  BY <1>2, <1>3, <1>4, <1>5, <1>6, <1>7, <1>8, <1>9, <1>10, <1>11, <1>12
  DEF Next, addPacketCallback, propagateImportPackets, mainThread

\* The invariant is inductive.
LEMMA NextInv == IInv /\ [Next]_vars => IInv'
BY ImportInv, NextType, NextCallback, NextTaken, NextQueue DEF IInv

\* The invariant holds of the program.
THEOREM ProcessInvariant == Spec => []IInv
<1>1. Init => IInv BY InitInv
<1>2. IInv /\ [Next]_vars => IInv' BY NextInv
<1> QED BY <1>1, <1>2, PTL DEF Spec

\* The program keeps its variables in their types.
THEOREM TypeCorrect == Spec => []TypeOK
<1>1. IInv => TypeOK BY DEF IInv
<1> QED BY <1>1, ProcessInvariant, PTL

\* Packets reach the server in order and once, and what waits in the queue is a
\* run of consecutive packets, although two threads pop it.
THEOREM InOrder == Spec => []PacketsInOrder
<1>1. ASSUME IInv PROVE PacketsInOrder
  <2> USE <1>1 DEF IInv
  <2>0. /\ mImportQueue \in Seq(1..MaximumPackets) /\ Len(mImportQueue) \in Nat
        /\ received \in Nat /\ sent \in Nat /\ propagator.packet \in Nat
        /\ Newest \in Nat
    BY DEF TypeOK, QueueEndsInNewest, Newest
  <2>1. \A i \in 1..Len(mImportQueue) :
            mImportQueue[i] = Newest - Len(mImportQueue) + i
    BY DEF QueueEndsInNewest
  <2>2. \A i \in 1..(Len(mImportQueue) - 1) :
            mImportQueue[i + 1] = mImportQueue[i] + 1
    <3> TAKE i \in 1..(Len(mImportQueue) - 1)
    <3>1. /\ mImportQueue[i] = Newest - Len(mImportQueue) + i
          /\ mImportQueue[i + 1] = Newest - Len(mImportQueue) + (i + 1)
      BY <2>0, <2>1
    <3> QED BY <2>0, <3>1
  <2>3. mImportQueue # <<>> =>
          /\ Len(mImportQueue) > 0
          /\ mImportQueue[1] = Newest - Len(mImportQueue) + 1
    BY <2>0, <2>1
  <2>4. CASE propagator.pc = "enqueue"
    <3>1. /\ OnItsWay = <<propagator.packet>> \o mImportQueue
          /\ Len(OnItsWay) = Len(mImportQueue) + 1
          /\ Head(OnItsWay) = propagator.packet
          /\ OnItsWay[1] = propagator.packet
          /\ Len(OnItsWay) > 1 => OnItsWay[2] = mImportQueue[1]
      BY <2>0, <2>4 DEF OnItsWay
    <3>2. Len(OnItsWay) > 1 => mImportQueue # <<>> BY <2>0, <3>1
    <3> QED
      BY <2>0, <2>2, <2>3, <2>4, <3>1, <3>2
      DEF PacketsInOrder, QueueEndsInNewest
  <2>5. CASE propagator.pc # "enqueue"
    <3>1. OnItsWay = mImportQueue BY <2>0, <2>5 DEF OnItsWay
    <3>2. mImportQueue # <<>> => sent < Head(mImportQueue)
      BY <2>0, <2>3 DEF QueueEndsInNewest
    <3>3. Len(mImportQueue) > 1 => mImportQueue[1] < mImportQueue[2]
      <4> HAVE Len(mImportQueue) > 1
      <4>1. /\ mImportQueue[1] = Newest - Len(mImportQueue) + 1
            /\ mImportQueue[2] = Newest - Len(mImportQueue) + 2
        BY <2>0, <2>1
      <4> QED BY <2>0, <4>1
    <3> QED BY <2>2, <3>1, <3>2, <3>3 DEF PacketsInOrder
  <2> QED BY <2>4, <2>5
<1> QED BY <1>1, ProcessInvariant, PTL

\* The newest packet is never the one that is discarded.
THEOREM NewestStays == Spec => []NewestIsKept
<1>1. ASSUME IInv PROVE NewestIsKept
  <2> SUFFICES ASSUME adding \in {"idle", "done"}, mImportQueue # <<>>
               PROVE  mImportQueue[Len(mImportQueue)] = received
    BY <1>1 DEF IInv, NewestIsKept, QueueEndsInNewest
  <2>1. /\ Newest = received /\ received \in Nat
        /\ Len(mImportQueue) \in 1..Len(mImportQueue)
    BY <1>1 DEF IInv, TypeOK, Newest
  <2>2. mImportQueue[Len(mImportQueue)] =
            Newest - Len(mImportQueue) + Len(mImportQueue)
    BY <1>1, <2>1 DEF IInv, QueueEndsInNewest
  <2> QED BY <2>1, <2>2
<1> QED BY <1>1, ProcessInvariant, PTL

\* No reaction of the subscriber outlives the reactor.
THEOREM ReactorOutlivesReads == Spec => []ReadsEndBeforeReactor
<1>1. IInv => ReadsEndBeforeReactor BY SameTypes DEF IInv
<1> QED BY <1>1, ProcessInvariant, PTL

\* When the process is gone, so are its threads and its callback, and nothing
\* was thrown by the destructor.
THEOREM OrderlyEnd == Spec => []EndsInOrder
<1>1. ASSUME IInv PROVE EndsInOrder
  <2> SUFFICES ASSUME main = "ended"
               PROVE  /\ propagator.pc = "returned" /\ Import!Ended
                      /\ adding = "idle" /\ ~call.reading
    BY <1>1 DEF IInv, TakenHaveEnded, EndsInOrder
  <2>1. propagator.pc = "returned" /\ Import!Ended
    BY <1>1 DEF IInv, TakenHaveEnded, Futures, Ready
  <2>2. ~call.callback /\ ~call.reading
    BY <1>1, <2>1, SameTypes DEF IInv, ReadsEndBeforeReactor,
       Import!ReadsEndBeforeReactor, Import!Alive, Import!Ended
  <2> QED BY <1>1, <2>1, <2>2 DEF IInv, AddingIsCallback
<1> QED BY <1>1, ProcessInvariant, PTL

\* The subscriber gives up only for an unknown error or after its schedule.
THEOREM GivesUpLate == Spec => []GivesUpAfterSchedule
<1>1. IInv => GivesUpAfterSchedule
  BY DEF IInv, Subscriber!IInv, GivesUpAfterSchedule,
         Import!GivesUpAfterSchedule, Subscriber!GivesUpAfterSchedule
<1> QED BY <1>1, ProcessInvariant, PTL
================================================================================
