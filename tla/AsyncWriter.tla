----------------------------- MODULE AsyncWriter -----------------------------
(***************************************************************************)
(* The streaming RPCs, src/src/modules/asyncWriter.cppm, and the server    *)
(* that owns them, src/src/server.cpp.                                     *)
(*                                                                         *)
(* A client's call makes gRPC construct a reactor.  The constructor admits *)
(* the client, subscribes it and enters nextWrite, which polls the         *)
(* subscription manager until it has a packet to hand to gRPC and returns; *)
(* gRPC then reports the write with OnWriteDone, which polls again.  A     *)
(* cancelled call gets OnCancel, on a thread of its own; after Finish and  *)
(* the last reaction gRPC calls OnDone, which deletes the reactor.  Its    *)
(* address, the context, may be used again by a later call.                *)
(*                                                                         *)
(* The manager is PacketBroadcast, which SubscriptionManager implements.   *)
(***************************************************************************)
EXTENDS Integers, FiniteSetsExt, SequencesExt

CONSTANTS Contexts, Streams,
          MaximumQueueSize, MaximumPackets,   \* of the manager
          MaximumNumberOfSubscribers,         \* ServerOptions
          MaximumWriterQueueSize,             \* the reactor's mMaximumQueueSize
          Request                             \* context -> streams selected

\* subscribeToAll selects every stream; a selection may be empty by mistake.
ASSUME RequestAssumption == Request \in [Contexts -> SUBSET Streams]
ASSUME LimitsAssumption == /\ MaximumNumberOfSubscribers \in Nat
                           /\ MaximumWriterQueueSize \in Nat
\* The manager's queues have a positive size; what it returns is finite.
ASSUME ManagerAssumption == /\ MaximumQueueSize \in Nat \ {0}
                            /\ MaximumPackets \in Nat
                            /\ IsFiniteSet(Streams)

VARIABLES published, interest, outbox,   \* the subscription manager
          server,                        \* how far Server::stop has come
          mServer,                       \* is there a gRPC server?
          rpc,                           \* the reactor of each context
          flushed                        \* history: newest packet each client
                                         \* was sent, per stream

manager == <<published, interest, outbox>>
vars == <<manager, server, mServer, rpc, flushed>>

Manager == INSTANCE PacketBroadcast

Packet == [stream : Streams, number : 1..MaximumPackets]
Nothing == [stream |-> "none", number |-> 0]

(***************************************************************************)
(* A reactor: where its thread is, the members of the class, and on gRPC's *)
(* side whether the call was cancelled, how far OnCancel has come, whether *)
(* the constructor has returned, the packet being written, and the number  *)
(* of calls of Finish (2: several).  refused is history: gRPC was given a  *)
(* status that turns the client away.                                      *)
(***************************************************************************)
NoReactor ==
    [pc |-> "none", mSubscribed |-> FALSE, mWriteInProgress |-> FALSE,
     mPacketsQueue |-> <<>>, cancelled |-> FALSE, onCancel |-> "no",
     constructed |-> FALSE, writing |-> Nothing, finishes |-> 0,
     refused |-> FALSE]

Init == /\ Manager!Init
        /\ server = "running"
        /\ mServer = FALSE
        /\ rpc = [c \in Contexts |-> NoReactor]
        /\ flushed = [c \in Contexts |-> [s \in Streams |-> 0]]

mKeepRunning == server = "running"

Goto(c, label) == rpc' = [rpc EXCEPT ![c].pc = label]

\* n more calls of Finish.
Finish(n, finishes) == IF finishes + n > 2 THEN 2 ELSE finishes + n

-----------------------------------------------------------------------------
(***************************************************************************)
(* The constructor, up to nextWrite.                                       *)
(***************************************************************************)
\* gRPC accepts a call from the start of the server until it is shut down.
Connect(c) ==
    /\ rpc[c].pc = "none"
    /\ mServer /\ server \in {"running", "stopping", "purged"}
    /\ Goto(c, "admit")
    /\ flushed' = [flushed EXCEPT ![c] = [s \in Streams |-> 0]]
    /\ UNCHANGED <<manager, server, mServer>>

\* unsubscribeAll may leave purged subscribers in the count.
getNumberOfSubscribers(n) ==
    LET counted == Cardinality({c \in Contexts : interest[c] # {}})
    IN  IF server \in {"running", "stopping"} THEN n = counted
        ELSE n \in counted..Cardinality(Contexts)

\* Authentication and the limit: a refusal calls Finish, and goes on.
Admit(c) ==
    \E validated \in BOOLEAN, n \in 0..Cardinality(Contexts) :
        LET exhausted == n >= MaximumNumberOfSubscribers
            refusals  == (IF validated THEN 0 ELSE 1) + (IF exhausted THEN 1 ELSE 0)
        IN  /\ rpc[c].pc = "admit"
            /\ getNumberOfSubscribers(n)
            /\ rpc' = [rpc EXCEPT ![c].pc = "subscribe",
                                  ![c].finishes = Finish(refusals, @),
                                  ![c].refused = refusals > 0]
            /\ UNCHANGED <<manager, server, mServer, flushed>>

Subscribe(c) ==
    /\ rpc[c].pc = "subscribe"
    /\ Request[c] # {}
    /\ Manager!Want(c, Request[c])
    /\ rpc' = [rpc EXCEPT ![c].pc = "poll", ![c].mSubscribed = TRUE]
    /\ UNCHANGED <<server, mServer, flushed>>

\* No selections: Finish is called for the empty request, for the empty list
\* made of it, and for the exception the manager throws.
SubscribeToNothing(c) ==
    /\ rpc[c].pc = "subscribe"
    /\ Request[c] = {}
    /\ rpc' = [rpc EXCEPT ![c].pc = "poll", ![c].finishes = Finish(3, @),
                          ![c].refused = TRUE]
    /\ UNCHANGED <<manager, server, mServer, flushed>>

-----------------------------------------------------------------------------
(***************************************************************************)
(* nextWrite.                                                              *)
(***************************************************************************)
\* Fault: only the server ends the loop, or only the client.
Poll_UntilStop(c) ==
    /\ rpc[c].pc = "poll"
    /\ Goto(c, IF mKeepRunning THEN "work" ELSE "leave")
    /\ UNCHANGED <<manager, server, mServer, flushed>>

Poll_UntilCancel(c) ==
    /\ rpc[c].pc = "poll"
    /\ Goto(c, IF ~rpc[c].cancelled THEN "work" ELSE "leave")
    /\ UNCHANGED <<manager, server, mServer, flushed>>

\* The loop goes on until the server or the client quits.
Poll(c) ==
    /\ rpc[c].pc = "poll"
    /\ Goto(c, IF mKeepRunning /\ ~rpc[c].cancelled THEN "work" ELSE "leave")
    /\ UNCHANGED <<manager, server, mServer, flushed>>

\* Fault: the packet leaves the queue as it is handed to gRPC.
StartWrite_PopsFirst(c) ==
    /\ rpc[c].pc = "work"
    /\ rpc[c].mPacketsQueue # <<>> /\ ~rpc[c].mWriteInProgress
    /\ rpc' = [rpc EXCEPT ![c].pc = "idle", ![c].constructed = TRUE,
                          ![c].mWriteInProgress = TRUE,
                          ![c].writing = Head(rpc[c].mPacketsQueue),
                          ![c].mPacketsQueue = Tail(@)]
    /\ UNCHANGED <<manager, server, mServer, flushed>>

\* gRPC gets a reference to the front of the queue, and the thread back.  (With
\* a write in progress the loop would spin; NeverSpins says that it never does.)
StartWrite(c) ==
    /\ rpc[c].pc = "work"
    /\ rpc[c].mPacketsQueue # <<>> /\ ~rpc[c].mWriteInProgress
    /\ rpc' = [rpc EXCEPT ![c].pc = "idle", ![c].constructed = TRUE,
                          ![c].mWriteInProgress = TRUE,
                          ![c].writing = Head(rpc[c].mPacketsQueue)]
    /\ UNCHANGED <<manager, server, mServer, flushed>>

\* In what order getPackets may return a set of packets.
Ordered(q) == \A i, j \in DOMAIN q :
    i < j /\ q[i].stream = q[j].stream => q[i].number < q[j].number

\* Fault: the limit of the queue is not looked at.
Newest_Unbounded(q) == q

\* Fault: what does not fit is turned away.
Newest_KeepsOldest(q) == SubSeq(q, 1, Min({MaximumWriterQueueSize + 1, Len(q)}))

\* A queue longer than its maximum size makes room for each further packet.
Newest(q) ==
    SubSeq(q, Max({1, Len(q) - MaximumWriterQueueSize}), Len(q))

\* The queue is empty: it is filled with what the manager has.
GetPackets(c) ==
    /\ rpc[c].pc = "work"
    /\ rpc[c].mPacketsQueue = <<>>
    /\ Manager!Fetch(c)
    /\ \E q \in SetToSeqs({p \in Packet :
                    /\ p.number \in Range(outbox[c][p.stream])
                    /\ p.number \notin Range(outbox'[c][p.stream])}) :
         /\ Ordered(q)
         /\ rpc' = [rpc EXCEPT ![c].pc = "poll", ![c].mPacketsQueue = Newest(q)]
    /\ UNCHANGED <<server, mServer, flushed>>

\* The end of nextWrite: the client is unsubscribed unless it was already ...
Leave(c) ==
    /\ rpc[c].pc = "leave"
    /\ Goto(c, IF rpc[c].mSubscribed THEN "unsubscribe" ELSE "finish")
    /\ UNCHANGED <<manager, server, mServer, flushed>>

Unsubscribe(c) ==
    /\ rpc[c].pc = "unsubscribe"
    /\ Manager!Leave({c})
    /\ rpc' = [rpc EXCEPT ![c].pc = "finish", ![c].mSubscribed = FALSE]
    /\ UNCHANGED <<server, mServer, flushed>>

\* ... and the call finished.
FinishCall(c) ==
    /\ rpc[c].pc = "finish"
    /\ rpc' = [rpc EXCEPT ![c].pc = "idle", ![c].constructed = TRUE,
                          ![c].finishes = Finish(1, @)]
    /\ UNCHANGED <<manager, server, mServer, flushed>>

-----------------------------------------------------------------------------
(***************************************************************************)
(* The other reactions; gRPC decides when.                                 *)
(***************************************************************************)
\* Fault: after a failed write the reactor goes on.
OnWriteDone_FallsThrough(c) ==
    /\ rpc[c].pc = "idle" /\ rpc[c].writing # Nothing
    /\ \/ /\ rpc' = [rpc EXCEPT ![c].pc = "poll", ![c].writing = Nothing,
                                ![c].mWriteInProgress = FALSE,
                                ![c].mPacketsQueue = Tail(@)]
          /\ flushed' = [flushed EXCEPT
                           ![c][rpc[c].writing.stream] = rpc[c].writing.number]
       \/ /\ rpc' = [rpc EXCEPT ![c].pc = "poll", ![c].writing = Nothing,
                                ![c].finishes = Finish(1, @)]
          /\ UNCHANGED flushed
    /\ UNCHANGED <<manager, server, mServer>>

\* Fault: the flushed packet stays in the queue.
OnWriteDone_KeepsPacket(c) ==
    /\ rpc[c].pc = "idle" /\ rpc[c].writing # Nothing
    /\ rpc' = [rpc EXCEPT ![c].pc = "poll", ![c].writing = Nothing,
                          ![c].mWriteInProgress = FALSE]
    /\ flushed' = [flushed EXCEPT
                     ![c][rpc[c].writing.stream] = rpc[c].writing.number]
    /\ UNCHANGED <<manager, server, mServer>>

\* The packet is flushed, or the write failed and the call is finished.
OnWriteDone(c) ==
    /\ rpc[c].pc = "idle" /\ rpc[c].writing # Nothing
    /\ \/ /\ rpc' = [rpc EXCEPT ![c].pc = "poll", ![c].writing = Nothing,
                                ![c].mWriteInProgress = FALSE,
                                ![c].mPacketsQueue = Tail(@)]
          /\ flushed' = [flushed EXCEPT
                           ![c][rpc[c].writing.stream] = rpc[c].writing.number]
       \/ /\ rpc' = [rpc EXCEPT ![c].writing = Nothing,
                                ![c].finishes = Finish(1, @)]
          /\ UNCHANGED flushed
    /\ UNCHANGED <<manager, server, mServer>>

\* The client cancels, or its connection breaks.
Cancel(c) ==
    /\ rpc[c].pc # "none" /\ ~rpc[c].cancelled
    /\ rpc' = [rpc EXCEPT ![c].cancelled = TRUE]
    /\ UNCHANGED <<manager, server, mServer, flushed>>

\* OnCancel, concurrently with the reactor's other thread: the flag ...
OnCancel(c) ==
    /\ rpc[c].cancelled /\ rpc[c].constructed
    /\ rpc[c].onCancel = "no"
    /\ rpc' = [rpc EXCEPT ![c].onCancel =
                 IF rpc[c].mSubscribed THEN "unsubscribe" ELSE "done"]
    /\ UNCHANGED <<manager, server, mServer, flushed>>

\* ... and the unsubscription.
OnCancelUnsubscribe(c) ==
    /\ rpc[c].onCancel = "unsubscribe"
    /\ Manager!Leave({c})
    /\ rpc' = [rpc EXCEPT ![c].onCancel = "done", ![c].mSubscribed = FALSE]
    /\ UNCHANGED <<server, mServer, flushed>>

Completed(c) == /\ rpc[c].pc = "idle" /\ rpc[c].writing = Nothing
                /\ rpc[c].finishes > 0
                /\ rpc[c].onCancel # "unsubscribe"

\* Fault: the reactor counts on nextWrite to have unsubscribed the client.
OnDone_AssumesUnsubscribed(c) ==
    /\ Completed(c)
    /\ rpc' = [rpc EXCEPT ![c] = NoReactor]
    /\ UNCHANGED <<manager, server, mServer, flushed>>

\* The last reaction deletes the reactor.
OnDone(c) ==
    /\ Completed(c)
    /\ IF rpc[c].mSubscribed THEN Manager!Leave({c}) ELSE UNCHANGED manager
    /\ rpc' = [rpc EXCEPT ![c] = NoReactor]
    /\ UNCHANGED <<server, mServer, flushed>>

-----------------------------------------------------------------------------
(***************************************************************************)
(* The server.                                                             *)
(***************************************************************************)
enqueuePacket(s) == Manager!Publish(s) /\ UNCHANGED <<server, mServer, rpc, flushed>>

\* Packets may come before.  If it cannot listen start returns all the same, and
\* as there is no server it changes nothing: this step is then never taken.
start == /\ server = "running" /\ ~mServer
         /\ mServer' = TRUE
         /\ UNCHANGED <<manager, server, rpc, flushed>>

Advance(from, to) == /\ server = from
                     /\ server' = to
                     /\ UNCHANGED <<mServer, rpc, flushed>>

\* stop: the RPCs are told, the manager is purged, gRPC is shut down, if it runs;
\* Shutdown takes no further call and returns when every RPC is done.
StopRunning == Advance("running", "stopping") /\ UNCHANGED manager
PurgeSubscribers == Advance("stopping", "purged") /\ Manager!Leave(Contexts)
Shutdown == mServer /\ Advance("purged", "shutdown") /\ UNCHANGED manager
NoShutdown == ~mServer /\ Advance("purged", "stopped") /\ UNCHANGED manager
ShutdownReturns == /\ \A c \in Contexts : rpc[c].pc = "none"
                   /\ Advance("shutdown", "stopped")
                   /\ UNCHANGED manager

\* The destructor of the program, and the server's, stop it again.
StopAgain == Advance("stopped", "stopped") /\ Manager!Leave(Contexts)

Reactor(c) ==
    \/ Admit(c) \/ Subscribe(c) \/ SubscribeToNothing(c)
    \/ Poll(c) \/ StartWrite(c) \/ GetPackets(c)
    \/ Leave(c) \/ Unsubscribe(c) \/ FinishCall(c)

Reaction(c) == OnWriteDone(c) \/ OnCancel(c) \/ OnCancelUnsubscribe(c) \/ OnDone(c)

Stopping == PurgeSubscribers \/ Shutdown \/ NoShutdown \/ ShutdownReturns

Next ==
    \/ \E s \in Streams : enqueuePacket(s)
    \/ \E c \in Contexts : \/ Connect(c) \/ Cancel(c)
                            \/ Reactor(c) \/ Reaction(c)
    \/ start \/ StopRunning \/ Stopping \/ StopAgain

(***************************************************************************)
(* Threads run, stop goes on once called, and gRPC calls the reactions it  *)
(* owes: OnWriteDone among them, which supposes that a client reads or has *)
(* cancelled.  That packets arrive, that clients call or cancel, and that  *)
(* the server is started or stopped is left open.                          *)
(***************************************************************************)
Fairness ==
    /\ WF_vars(Stopping)
    /\ \A c \in Contexts : /\ WF_vars(Reactor(c))
                           /\ WF_vars(OnWriteDone(c))
                           /\ WF_vars(OnCancel(c) \/ OnCancelUnsubscribe(c))
                           /\ WF_vars(OnDone(c))

Spec == Init /\ [][Next]_vars /\ Fairness

-----------------------------------------------------------------------------
(***************************************************************************)
(* Properties.                                                             *)
(***************************************************************************)
Reactors ==
    [pc : {"none", "admit", "subscribe", "poll", "work", "idle", "leave",
           "unsubscribe", "finish"},
     mSubscribed : BOOLEAN, mWriteInProgress : BOOLEAN,
     mPacketsQueue : Seq(Packet), cancelled : BOOLEAN,
     onCancel : {"no", "unsubscribe", "done"}, constructed : BOOLEAN,
     writing : Packet \cup {Nothing}, finishes : 0..2, refused : BOOLEAN]

TypeOK ==
    /\ published \in [Streams -> 0..MaximumPackets]
    /\ interest \in [Contexts -> SUBSET Streams]
    /\ outbox \in [Contexts -> [Streams -> Seq(1..MaximumPackets)]]
    /\ server \in {"running", "stopping", "purged", "shutdown", "stopped"}
    /\ mServer \in BOOLEAN
    /\ rpc \in [Contexts -> Reactors]
    /\ \A c \in Contexts :
         Len(rpc[c].mPacketsQueue) <= MaximumWriterQueueSize + 1
    /\ flushed \in [Contexts -> [Streams -> 0..MaximumPackets]]

\* StartWrite was given a reference to the front of the queue: until OnWriteDone
\* that packet is still there, whatever the other reactions do.
WrittenPacketIsFront ==
    \A c \in Contexts : rpc[c].writing # Nothing =>
        rpc[c].mPacketsQueue # <<>> /\ Head(rpc[c].mPacketsQueue) = rpc[c].writing

\* nextWrite always has something to do: it is never entered while a write is in
\* progress, when it could neither write nor fetch nor sleep.
NeverSpins ==
    \A c \in Contexts : rpc[c].pc \in {"poll", "work"} => ~rpc[c].mWriteInProgress

\* When a reactor is deleted the manager has forgotten its context, however the
\* call ended: a later call at the same address inherits nothing.
GoneAreUnsubscribed ==
    \A c \in Contexts : rpc[c].pc = "none" =>
        interest[c] = {} /\ outbox[c] = Manager!EmptyOutbox

\* What a client was sent, what its reactor holds and what the manager holds for
\* it follow each other in every stream: packets reach it in order, none twice.
PacketsInOrder ==
    \A c \in Contexts, s \in Streams :
        LET held    == rpc[c].mPacketsQueue
            waiting == outbox[c][s]
            ofStream == {i \in DOMAIN held : held[i].stream = s}
        IN  /\ Ordered(held)
            /\ \A i, j \in DOMAIN waiting : i < j => waiting[i] < waiting[j]
            /\ \A i \in ofStream : flushed[c][s] < held[i].number
            /\ \A j \in DOMAIN waiting : flushed[c][s] < waiting[j]
            /\ \A i \in ofStream, j \in DOMAIN waiting :
                 held[i].number < waiting[j]

\* Finish is called once for a client that was admitted: by nextWrite or by
\* OnWriteDone, never by both.
AdmittedFinishOnce ==
    \A c \in Contexts : rpc[c].finishes > 1 => rpc[c].refused

\* Once the manager has queued something for a client, it is sent the newest packet
\* of the stream, when they come to an end for a while, unless the call is cancelled,
\* refused or failing, or the server stops: between nextWrite, gRPC and OnWriteDone
\* somebody always goes on, and neither queue drops the newest packet.  (With several
\* streams the reactor's queue may drop that of one for packets of another.)
QueuedIsSent ==
    \A c \in Contexts, s \in Streams :
        outbox[c][s] # <<>> ~>
            \/ flushed[c][s] = published[s]
            \/ rpc[c].cancelled \/ rpc[c].finishes > 0 \/ ~mKeepRunning

\* The call of a client that cancels comes to its end.
CancelledCallEnds ==
    \A c \in Contexts : rpc[c].cancelled ~> (rpc[c].pc = "none")

\* Server::stop returns: every RPC notices, is finished and done.
StopReturns == (server = "stopping") ~> (server = "stopped")

(***************************************************************************)
(* What the code says of a refusal, and does not do.                       *)
(***************************************************************************)

\* "Max subscribers hit - try again later", "No streams specified - check your
\* selections": the status of a refusal reaches the client, the call ends.
RejectedCallEnds ==
    \A c \in Contexts : rpc[c].refused ~> (rpc[c].pc = "none")
=============================================================================
