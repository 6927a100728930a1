--------------------------- MODULE ImportSubscriber ---------------------------
(***************************************************************************)
(* The subscriber to the import server, src/src/subscriber.cpp: the thread *)
(* acquirePackets, which calls the server again and again, and the reactor *)
(* AsyncPacketSubscriber of the current call, whose reactions gRPC runs on *)
(* threads of its own.                                                     *)
(*                                                                         *)
(* Time is left out: a wait ends when it ends.  So mShutdownRequested and  *)
(* its condition, which only cut the wait for a reconnection short, have no *)
(* place here; the flag that decides is mKeepRunning.                      *)
(***************************************************************************)
EXTENDS Integers

CONSTANT nReconnect     \* length of the reconnect schedule: a natural number,
                        \* as Process assumes; the schedule may be empty

VARIABLES mKeepRunning,
          acquirer,     \* where the thread of acquirePackets is
          kReconnect,   \* its place in the schedule, -1: the first attempt
          reactor,      \* the members of the current AsyncPacketSubscriber
          call,         \* gRPC's side of the call
          fruitless     \* history: calls since the last successful read

vars == <<mKeepRunning, acquirer, kReconnect, reactor, call, fruitless>>

\* What acquirePackets tells apart; OTHER is any other error.
Status == {"OK", "UNAVAILABLE", "CANCELLED", "OTHER"}

\* locked: OnDone holds mMutex.  (await holds it only to test mDone.)
NewReactor == [mDone |-> FALSE, mStatus |-> "OK", mHadSuccessfulRead |-> FALSE,
               mTryCancel |-> FALSE, locked |-> FALSE]

\* status: "open" until it is known how the call ended.  reading: a read was
\* started and has not been reported.  reading and callback are what keeps the
\* reactor in use.
NoCall  == [status |-> "none", reading |-> FALSE, callback |-> FALSE]
NewCall == [NoCall EXCEPT !.status = "open", !.reading = TRUE]

Init == /\ mKeepRunning = TRUE
        /\ acquirer = "off"
        /\ kReconnect = -1
        /\ reactor = NewReactor
        /\ call = NoCall
        /\ fruitless = 0

\* The loops of acquirePackets and await that the reactor lives through.
Alive == acquirer \in {"await", "pause", "awaited"}

Ended == acquirer \in {"returned", "threw"}

-----------------------------------------------------------------------------
(***************************************************************************)
(* The owner's calls.                                                      *)
(***************************************************************************)
start == /\ acquirer = "off"
         /\ acquirer' = "loop"
         /\ mKeepRunning' = TRUE
         /\ UNCHANGED <<kReconnect, reactor, call, fruitless>>

stop == /\ mKeepRunning' = FALSE
        /\ UNCHANGED <<acquirer, kReconnect, reactor, call, fruitless>>

-----------------------------------------------------------------------------
(***************************************************************************)
(* acquirePackets.                                                         *)
(***************************************************************************)
Goto(place) == /\ acquirer' = place
               /\ UNCHANGED <<mKeepRunning, reactor, call, fruitless>>

\* Fault: the schedule is one attempt longer than it is.
Loop_OneMore ==
    /\ acquirer = "loop"
    /\ Goto(IF kReconnect > nReconnect \/ ~mKeepRunning THEN "end"
            ELSE IF kReconnect >= 0 THEN "wait" ELSE "connect")
    /\ UNCHANGED kReconnect

\* The head of the loop.
Loop == /\ acquirer = "loop"
        /\ Goto(IF kReconnect >= nReconnect \/ ~mKeepRunning THEN "end"
                ELSE IF kReconnect >= 0 THEN "wait" ELSE "connect")
        /\ UNCHANGED kReconnect

\* The scheduled wait is over, or was cut short by a stop that has not yet
\* reset mKeepRunning: then the server is called once more.
EndWait == /\ acquirer = "wait"
           /\ Goto(IF mKeepRunning THEN "connect" ELSE "end")
           /\ UNCHANGED kReconnect

Connect == /\ acquirer = "connect"
           /\ acquirer' = "await"
           /\ reactor' = NewReactor
           /\ call' = NewCall
           /\ UNCHANGED <<mKeepRunning, kReconnect, fruitless>>

\* Fault: whoever cancels does not wait for the end of the call.
Await_LeavesWhenCancelled ==
    /\ acquirer = "await"
    /\ IF reactor.mDone \/ ~mKeepRunning
       THEN /\ acquirer' = "awaited"
            /\ UNCHANGED reactor
       ELSE /\ acquirer' = "pause"
            /\ UNCHANGED reactor
    /\ UNCHANGED <<mKeepRunning, kReconnect, call, fruitless>>

\* Fault: a stop is seen by the reactions only.
Await_NeverCancels ==
    /\ acquirer = "await"
    /\ acquirer' = IF reactor.mDone THEN "awaited" ELSE "pause"
    /\ UNCHANGED <<mKeepRunning, kReconnect, reactor, call, fruitless>>

\* await reads mDone without the mutex, and cancels the call to stop.
Await == /\ acquirer = "await"
         /\ IF reactor.mDone
            THEN /\ acquirer' = "awaited"
                 /\ UNCHANGED reactor
            ELSE /\ acquirer' = "pause"
                 /\ reactor' = [reactor EXCEPT !.mTryCancel = @ \/ ~mKeepRunning]
         /\ UNCHANGED <<mKeepRunning, kReconnect, call, fruitless>>

\* Its wait ends, after 250 ms or notified, with the mutex.
Pause == /\ acquirer = "pause" /\ ~reactor.locked
         /\ Goto("await")
         /\ UNCHANGED kReconnect

\* Which status ends the loop.
EndsLoop(status) == \/ status = "OTHER"
                    \/ status \in {"OK", "CANCELLED"} /\ ~mKeepRunning

\* Fault: a call that brought packets does not restart the schedule.
HandleStatus_KeepsPlace ==
    /\ acquirer = "awaited"
    /\ acquirer' = IF EndsLoop(reactor.mStatus) THEN "end" ELSE "loop"
    /\ kReconnect' = kReconnect + 1
    /\ fruitless' = IF reactor.mHadSuccessfulRead THEN 0 ELSE fruitless + 1
    /\ UNCHANGED <<mKeepRunning, reactor, call>>

\* After this step the reactor is destroyed (its last values are kept).
HandleStatus ==
    /\ acquirer = "awaited"
    /\ acquirer' = IF EndsLoop(reactor.mStatus) THEN "end" ELSE "loop"
    /\ kReconnect' = (IF reactor.mHadSuccessfulRead THEN -1 ELSE kReconnect) + 1
    /\ fruitless' = IF reactor.mHadSuccessfulRead THEN 0 ELSE fruitless + 1
    /\ UNCHANGED <<mKeepRunning, reactor, call>>

\* An exception reaches the owner through the future.
End == /\ acquirer = "end"
       /\ Goto(IF mKeepRunning THEN "threw" ELSE "returned")
       /\ UNCHANGED kReconnect

acquirePackets == \/ Loop \/ EndWait \/ Connect \/ Await \/ Pause
                  \/ HandleStatus \/ End

-----------------------------------------------------------------------------
(***************************************************************************)
(* gRPC and the reactions.  A read succeeds while the call is open, and    *)
(* fails after; reactions do not overlap; OnDone is the last.              *)
(***************************************************************************)
EndCall(status) ==
    /\ call.status = "open"
    /\ call' = [call EXCEPT !.status = status]
    /\ UNCHANGED <<mKeepRunning, acquirer, kReconnect, reactor, fruitless>>

\* OnReadDone(true), up to the call of mAddPacketCallback ...
ReadPacket ==
    /\ call.status = "open" /\ call.reading /\ ~call.callback
    /\ call' = [call EXCEPT !.reading = FALSE, !.callback = TRUE]
    /\ reactor' = [reactor EXCEPT !.mHadSuccessfulRead = TRUE]
    /\ UNCHANGED <<mKeepRunning, acquirer, kReconnect, fruitless>>

\* ... and from there.
CallbackReturns ==
    /\ call.callback
    /\ call' = [call EXCEPT !.callback = FALSE, !.reading = mKeepRunning]
    /\ reactor' = [reactor EXCEPT !.mTryCancel = @ \/ ~mKeepRunning]
    /\ UNCHANGED <<mKeepRunning, acquirer, kReconnect, fruitless>>

\* OnReadDone(false).
ReadFails ==
    /\ call.status \in Status /\ call.reading
    /\ call' = [call EXCEPT !.reading = FALSE]
    /\ reactor' = [reactor EXCEPT !.mTryCancel = @ \/ ~mKeepRunning]
    /\ UNCHANGED <<mKeepRunning, acquirer, kReconnect, fruitless>>

\* OnDone, under the mutex.
OnDone ==
    /\ call.status \in Status /\ ~call.reading /\ ~call.callback
    /\ Alive /\ ~reactor.mDone
    /\ reactor' = [reactor EXCEPT !.mDone = TRUE, !.mStatus = call.status,
                                  !.locked = TRUE]
    /\ UNCHANGED <<mKeepRunning, acquirer, kReconnect, call, fruitless>>

\* It notifies and releases the mutex, which may be gone with the reactor.
OnDoneReturns ==
    /\ reactor.locked
    /\ reactor' = [reactor EXCEPT !.locked = FALSE]
    /\ UNCHANGED <<mKeepRunning, acquirer, kReconnect, call, fruitless>>

Reactions == \/ ReadFails \/ OnDone \/ OnDoneReturns

Next == \/ start \/ stop \/ acquirePackets
        \/ \E status \in Status : EndCall(status)
        \/ ReadPacket \/ CallbackReturns \/ Reactions

Spec == Init /\ [][Next]_vars

-----------------------------------------------------------------------------
TypeOK == /\ mKeepRunning \in BOOLEAN
          /\ acquirer \in {"off", "loop", "wait", "connect", "await", "pause",
                           "awaited", "end", "returned", "threw"}
          /\ kReconnect \in -1..nReconnect
          /\ reactor \in [mDone : BOOLEAN, mStatus : Status,
                          mHadSuccessfulRead : BOOLEAN, mTryCancel : BOOLEAN,
                          locked : BOOLEAN]
          /\ call \in [status : Status \cup {"open", "none"},
                       reading : BOOLEAN, callback : BOOLEAN]
          /\ fruitless \in 0..(nReconnect + 1)

\* A call's reactor, and with it the callback into the owner and the buffer
\* gRPC reads a packet into, is destroyed only when the call is over and none
\* of its reads can come any more: the loop of await is what keeps it.  (OnDone
\* itself may still be about to notify and unlock: see the README.)
ReadsEndBeforeReactor == ~Alive => ~call.reading /\ ~call.callback

\* The thread dies of an error it does not know, or after as many fruitless
\* calls in a row as the schedule has entries; a call that brought a packet
\* restarts the schedule.
GivesUpAfterSchedule ==
    acquirer = "threw" => reactor.mStatus = "OTHER" \/ fruitless >= nReconnect
===============================================================================
