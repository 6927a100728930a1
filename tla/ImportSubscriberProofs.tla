------------------------ MODULE ImportSubscriberProofs -------------------------
(***************************************************************************)
(* Theorems about ImportSubscriber, for every length of the schedule.      *)
(***************************************************************************)
EXTENDS ImportSubscriber, TLAPS

\* What await waits for is the end of the call: once OnDone has run, no read of
\* the call is outstanding or being reported, and none can start.
DoneIsDone == /\ Alive /\ reactor.mDone =>
                   call.status \in Status /\ ~call.reading /\ ~call.callback
              /\ acquirer = "awaited" => reactor.mDone

\* The place in the schedule counts the fruitless calls, one behind them until
\* some call brings a packet; it has an entry wherever it is used; and what ends
\* the loop of a thread that keeps running is an error or the schedule's end.
PlaceCountsFruitless ==
    /\ kReconnect \in {fruitless - 1, fruitless}
    /\ acquirer \in {"wait", "connect"} \/ Alive => kReconnect < nReconnect
    /\ acquirer = "end" /\ mKeepRunning =>
         reactor.mStatus = "OTHER" \/ kReconnect >= nReconnect

\* The inductive invariant.
IInv == /\ TypeOK
        /\ DoneIsDone /\ ReadsEndBeforeReactor
        /\ PlaceCountsFruitless /\ GivesUpAfterSchedule

\* The invariant holds when the subscriber has not been started.
LEMMA InitInv ==
    ASSUME nReconnect \in Nat
    PROVE  Init => IInv
BY DEF Init, IInv, TypeOK, DoneIsDone, ReadsEndBeforeReactor,
       PlaceCountsFruitless, GivesUpAfterSchedule, Alive, NewReactor, NoCall,
       Status

USE DEF vars

\* Every step keeps the variables in their types.
LEMMA NextType ==
    ASSUME nReconnect \in Nat, IInv, [Next]_vars
    PROVE  TypeOK'
<1> USE DEF IInv, TypeOK
<1>1. CASE start BY <1>1 DEF start
<1>2. CASE stop BY <1>2 DEF stop
<1>3. CASE Loop BY <1>3 DEF Loop, Goto
<1>4. CASE EndWait BY <1>4 DEF EndWait, Goto
<1>5. CASE Connect BY <1>5 DEF Connect, NewReactor, NewCall, NoCall, Status
<1>6. CASE Await BY <1>6 DEF Await
<1>7. CASE Pause BY <1>7 DEF Pause, Goto
<1>8. CASE HandleStatus
  BY <1>8 DEF HandleStatus, PlaceCountsFruitless, Alive
<1>9. CASE End BY <1>9 DEF End, Goto
<1>10. CASE \E status \in Status : EndCall(status) BY <1>10 DEF EndCall
<1>11. CASE ReadPacket BY <1>11 DEF ReadPacket
<1>12. CASE CallbackReturns BY <1>12 DEF CallbackReturns
<1>13. CASE ReadFails BY <1>13 DEF ReadFails
<1>14. CASE OnDone BY <1>14 DEF OnDone
<1>15. CASE OnDoneReturns BY <1>15 DEF OnDoneReturns
<1>16. CASE UNCHANGED vars BY <1>16
<1> QED BY <1>1, <1>2, <1>3, <1>4, <1>5, <1>6, <1>7, <1>8, <1>9, <1>10, <1>11,
           <1>12, <1>13, <1>14, <1>15, <1>16
        DEF Next, acquirePackets, Reactions

\* Every step keeps the reactor alive for as long as a read may come.
LEMMA NextReads ==
    ASSUME nReconnect \in Nat, IInv, [Next]_vars
    PROVE  (DoneIsDone /\ ReadsEndBeforeReactor)'
<1> USE DEF IInv, TypeOK, DoneIsDone, ReadsEndBeforeReactor, Alive
<1>1. CASE start BY <1>1 DEF start
<1>2. CASE stop BY <1>2 DEF stop
<1>3. CASE Loop BY <1>3 DEF Loop, Goto
<1>4. CASE EndWait BY <1>4 DEF EndWait, Goto
<1>5. CASE Connect BY <1>5 DEF Connect, NewReactor
<1>6. CASE Await BY <1>6 DEF Await
<1>7. CASE Pause BY <1>7 DEF Pause, Goto
<1>8. CASE HandleStatus BY <1>8 DEF HandleStatus
<1>9. CASE End BY <1>9 DEF End, Goto
<1>10. CASE \E status \in Status : EndCall(status)
  BY <1>10 DEF EndCall, Status
<1>11. CASE ReadPacket BY <1>11 DEF ReadPacket, Status
<1>12. CASE CallbackReturns BY <1>12 DEF CallbackReturns
<1>13. CASE ReadFails BY <1>13 DEF ReadFails
<1>14. CASE OnDone BY <1>14 DEF OnDone
<1>15. CASE OnDoneReturns BY <1>15 DEF OnDoneReturns
<1>16. CASE UNCHANGED vars BY <1>16
<1> QED BY <1>1, <1>2, <1>3, <1>4, <1>5, <1>6, <1>7, <1>8, <1>9, <1>10, <1>11,
           <1>12, <1>13, <1>14, <1>15, <1>16
        DEF Next, acquirePackets, Reactions

\* Every step keeps the count of fruitless calls.
LEMMA NextSchedule ==
    ASSUME nReconnect \in Nat, IInv, [Next]_vars
    PROVE  (PlaceCountsFruitless /\ GivesUpAfterSchedule)'
<1> USE DEF IInv, TypeOK, PlaceCountsFruitless, GivesUpAfterSchedule, Alive
<1>1. CASE start BY <1>1 DEF start
<1>2. CASE stop BY <1>2 DEF stop
<1>3. CASE Loop BY <1>3 DEF Loop, Goto
<1>4. CASE EndWait BY <1>4 DEF EndWait, Goto
<1>5. CASE Connect BY <1>5 DEF Connect
<1>6. CASE Await BY <1>6 DEF Await
<1>7. CASE Pause BY <1>7 DEF Pause, Goto
<1>8. CASE HandleStatus BY <1>8 DEF HandleStatus, EndsLoop
<1>9. CASE End BY <1>9 DEF End, Goto
<1>10. CASE \E status \in Status : EndCall(status) BY <1>10 DEF EndCall
<1>11. CASE ReadPacket BY <1>11 DEF ReadPacket
<1>12. CASE CallbackReturns BY <1>12 DEF CallbackReturns
<1>13. CASE ReadFails BY <1>13 DEF ReadFails
<1>14. CASE OnDone BY <1>14 DEF OnDone
<1>15. CASE OnDoneReturns BY <1>15 DEF OnDoneReturns
<1>16. CASE UNCHANGED vars BY <1>16
<1> QED BY <1>1, <1>2, <1>3, <1>4, <1>5, <1>6, <1>7, <1>8, <1>9, <1>10, <1>11,
           <1>12, <1>13, <1>14, <1>15, <1>16
        DEF Next, acquirePackets, Reactions

\* The invariant is inductive.
LEMMA NextInv ==
    ASSUME nReconnect \in Nat, IInv, [Next]_vars
    PROVE  IInv'
BY NextType, NextReads, NextSchedule DEF IInv

\* Whatever its owner and the import server do, a subscriber is well typed,
\* keeps its reactor until no read can come, and gives up only after a schedule
\* of fruitless calls or an error it does not know.
THEOREM SubscriberInvariant ==
    ASSUME nReconnect \in Nat
    PROVE  Spec => []IInv
<1>1. Init => IInv BY InitInv
<1>2. IInv /\ [Next]_vars => IInv' BY NextInv
<1> QED BY <1>1, <1>2, PTL DEF Spec
================================================================================
