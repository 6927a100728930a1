# A verification of uDataPacketService

TLA+ specifications of the data packet service, the TLC runs that check them on
small instances, and TLAPS proofs of what matters most for every value of the
constants. Paths below are those of `PROJECT.json`: `src/` is the root of the
repository.

## 1. The system

The service imports seismic data packets from one gRPC server and broadcasts
them to many gRPC clients. A packet belongs to a *stream* (network, station,
channel, location). Clients subscribe to all streams or to a list of them.

```
 import server --> AsyncPacketSubscriber --> Process::addPacketCallback
                                              | mImportQueue (bounded)
                   Process::propagateImportPackets (thread)
                                              | Server::enqueuePacket
                                     SubscriptionManager -- Stream (one per name)
                                              ^ getPackets, (un)subscribe
        client <-- Subscribe / SubscribeToAll reactors (gRPC threads)
```

### Inventory

| component | source | state | operations |
|---|---|---|---|
| Stream | `stream.cpp` | most recent packet; concurrent map of subscribed contexts to bounded queues; a mutex | setNextPacket, getNextPacket, subscribe, unsubscribe, unsubscribeAll, isSubscribed |
| Subscription manager | `subscriptionManager.cpp` | concurrent maps: streams, active subscriptions, pending requests, pending requests for all; cached number of subscribers; a mutex | enqueuePacket, subscribe, subscribeToAll, getPackets, unsubscribeFromAll, getNumberOfSubscribers, unsubscribeAll |
| RPC reactors | `modules/asyncWriter.cppm` | queue of packets to write, mSubscribed, mWriteInProgress | constructor, nextWrite, OnWriteDone, OnCancel, OnDone |
| Server | `server.cpp` | mKeepRunning, the gRPC server | start, stop, the RPC factories, enqueuePacket |
| Process | `main.cpp` | import queue, futures, stop flags | start, stop, addPacketCallback, propagateImportPackets, checkFuturesOkay, handleMainThread |
| Import subscriber | `subscriber.cpp` | status of the read RPC, shutdown flags | start, stop, acquirePackets, OnReadDone, OnDone, await |
| Duplicate packet detector | `duplicatePacketDetector.cpp` | per channel a circular buffer of packet headers; its size, or the duration it is estimated from | setters of the options, constructor, allow |
| Expired, future detectors | `expiredPacketDetector.cpp`, `futurePacketDetector.cpp` | a tolerance | setters of the options, constructor, allow |
| Conversion, names | `modules/packetConverter.cppm`, `modules/utilities.cppm` | none | convert, toName, getEndTimeInMicroSeconds |
| Metrics | `modules/metrics.cppm` | atomic counters | increment, observe |
| Logging | `modules/logger.cppm`, `modules/otelSpdlogSink.cppm` | none | output |
| Options | `modules/programOptions.cppm`, the other `*Options.cpp` | settings | parsing, setters |

The detectors and a second subscription manager that `Process` creates
(`main.cpp`, 59) are not used by the running service.

### How the components interact, and what is hard

* The manager is called by the propagating thread (enqueuePacket), by a gRPC
  thread per RPC (subscribe, getPackets, unsubscribeFromAll) and by the main
  thread (unsubscribeAll, getNumberOfSubscribers). Its maps are TBB concurrent
  containers: one find or insert is safe beside another, while an erase is not
  (`unsafe_erase`), and nothing makes a *sequence* of them atomic. A stream's
  mutex covers setNextPacket and unsubscribe, not getNextPacket or subscribe.
* A reactor polls the manager in a loop on a gRPC thread and gives the thread
  back only to write. gRPC calls its reactions when it pleases: OnWriteDone
  after a write, OnCancel beside anything, OnDone last. Contexts are addresses,
  and addresses come back.
* Shutdown passes through every layer by flags, sleeps and waits without a
  deadline. The manager's part of it, unsubscribeAll, runs beside RPCs that have
  not yet heard of it.
* The importing thread, the propagating thread and the main thread meet at a
  bounded queue that discards its oldest packets.
* The detectors judge a packet by a few of its numbers (a start, a rounded
  interval, an unsigned number of samples), and one of them has a memory of
  bounded size whose order its tests rely on.

What must hold: the manager's maps agree with each other; a subscriber gets
every packet of its streams from the moment it is interested, in order and
once, except for the oldest ones of a full queue; nobody is subscribed who has
left; the count the admission of clients relies on is right; a packet being
written is not touched; every call, and the shutdown, come to an end.
`PROJECT.json` lists the hazards one by one, at their lines.

## 2. The modules

| module | what it is |
|---|---|
| `Stream` | operators: what one undisturbed call of `stream.cpp` does to the map of queues |
| `PacketBroadcast` | the abstract specification: what the manager promises its callers |
| `SubscriptionManager` | the manager, one action per public operation; refines `PacketBroadcast` |
| `SubscriptionManagerThreads` | the manager again, the same operations as interleaved steps of threads |
| `AsyncWriter` | the RPC reactors and the server, composed with the manager as `PacketBroadcast` |
| `ImportSubscriber` | the subscriber to the import server: its thread, its reactor, gRPC |
| `Process` | the program: `ImportSubscriber`, the import queue, the propagating and the main thread |
| `PacketTimes` | operators: the headers of packets and the time of the last sample |
| `DuplicatePacketDetector` | the detector of duplicates for one channel: options, constructor, capacity, `allow` |
| `TimeDetectors` | the detectors of expired packets and of packets from the future, with a clock |
| `PacketDetectors` | the three detectors, as a caller makes and asks one of them |
| `StreamProofs` | lemmas about the operators of `Stream`, for the next two |
| `SubscriptionManagerProofs` | theorems about `SubscriptionManager`: types, who is served, the queues, the count, who has left |
| `SubscriptionManagerThreadsProofs` | theorems about `SubscriptionManagerThreads` |
| `SubscriptionManagerRefinementProofs` | `SubscriptionManager` implements `PacketBroadcast` |
| `AsyncWriterProofs`, `ImportSubscriberProofs`, `ProcessProofs`, `PacketDetectorsProofs` | theorems about the modules they are named after |
| `MC*` | instances for TLC |

### Abstractions common to all

A stream name and a context are members of a set: a client's selection is taken
to be spelled like the converted packets' names. A packet is its serial number
in its stream, counted from 1: contents never matter, order and loss do. A
stream that does not exist has the most recent packet 0. Checks of a packet's
fields before anything happens (`SubscriptionManager::enqueuePacket`, lines
575-595) and the identifier check of `setNextPacket`, which the manager cannot
fail, are left out: they refuse a packet without a change of state.
Subscriptions are sets because `subscribe` removes duplicates first (lines
624-634), and it throws on an empty list, hence the guard `S # {}`.

Operators named `X_Something` under the comment "Fault:" are plausible mistakes
in `X`; no specification uses them. They are there to show that each property
fails when the code it is about is wrong.

### `Stream` and `SubscriptionManager`

Variables have the names of the members in the code. `mSubscribersMap[s]` is
the map inside the Stream `s`; a map entry with an empty set and a missing entry
of the active or pending maps are told apart nowhere in this module, where
calls do not interleave. One action is one call:

* `enqueuePacket` finds the stream and pushes the packet to every queue, or
  creates it, admits those who wait for it, with this first packet, and takes it
  off their requests.
* `subscribeToStreams` joins those streams that exist, with an empty queue, and
  files requests for the others; `subscribeToAll` joins every stream and waits.
  A second `subscribeToAll` returns early and is a stuttering step.
* `getPackets` visits the active subscriptions of *all* contexts (the loop of
  line 303 has no filter), so it takes `Turns(s)` packets from `s`, one per
  context that is active there, as far as there are any.
* `unsubscribeFromAll`, `getNumberOfSubscribers`, `unsubscribeAll`.

`delivered` is a history variable, for `LossOnlyByOverflow`.

### `PacketBroadcast`

Published packets, the interest of each context, and an outbox per context and
stream. A packet goes to the outbox of whoever is interested, a fetch takes at
least the first packet of each outbox, leaving empties everything. There are no
pending or active subscriptions: that a subscription may wait for a stream to
appear is invisible here. `SubscriptionManager!ImplementsBroadcast` is the
refinement, with `Interest` and `Outbox` as the mapping.

### `SubscriptionManagerThreads`

One step is one operation on a concurrent map, or the code under a lock when
nothing it touches is used elsewhere without that lock. `pc` and `at` hold a
thread's place and its locals. Where the code tests and then acts, these are two
steps: looking for a stream and filing a request; `contains` and the assignment
in addToActiveSubscriptionsMap; the size test of setNextPacket, its pop and its
push, for one queue after the other (`FanOut`, `TrimQueue`, `PushPacket`); the
test for an empty queue of getNextPacket, its front and its pop (`FindQueue`,
`TakePacket`, `PopPacket`); the size of a stream's map and the erasure. Iteration
is by key: an iterator at `x` sees what is then above `x`. The count of
subscribers is one step although subscriptions go on beside it: whatever it
misses, the subscription's end marks the count stale under the same mutex.

What C++ leaves undefined here (an iterator or a reference to an erased element,
a queue pushed and popped at once) is resolved in the mildest way a build can
produce: the thread carries on from the key where it was, and every call of a
std::queue (size, empty, front, pop, push) happens at once. A pop of an empty
queue, which readers and publisher can bring about between them, leaves the queue
in `underrun`: as libstdc++'s deque has it, there is nothing in it, it is not
empty(), its size() is enormous, and pushes are lost until they make up for the
pops. How many that takes is left open. A front read where there is none is not
taken for a packet. What fails in this model fails without any corrupted memory;
that memory can be corrupted at all is stated by `EraseIsExclusive` and
`NextPacketExists`. Two pops at the very same time, a data race within the deque,
and a crash that an underrun may cause, are below the grain of the model.

The thread `Stopper` calls unsubscribeAll, once, in instances where
`ServerStops`. (`CountIsAsked` says likewise whether anybody asks for the number of
subscribers.) It holds the manager's mutex for its whole length, and each
stream's mutex while it empties that stream's map. The steps of the others that
take the manager's mutex wait for it (`ManagerIsFree`); subscribing and
getPackets take no mutex and go on beside it.

Not in this module: several RPCs in sequence at one address. The whole-call
effect of that is in `SubscriptionManager`.

`disturbed[c]` records that a call of `c` overlapped with the creation of a
stream (or its departure with somebody's subscription), or that it subscribed,
or was admitted by the publisher, when unsubscribeAll had begun. The three
properties `...UnlessDisturbed` say that these overlaps are the *only* way to
miss a stream, to be left behind, or to survive unsubscribeAll; the violation
runs show what happens in the first two.

### `AsyncWriter`

`rpc[c]` is the reactor of the call with context `c`: `pc` says where the thread
is that runs its constructor or its reaction, `idle` meaning that gRPC has the
thread back. The fields whose names begin with an `m` are the members of the
class; `cancelled`, `onCancel`, `constructed`, `writing` and `finishes` are
gRPC's side. As the reactors use gRPC: a status or write given in the
constructor goes out when the constructor has returned; reactions other than
OnCancel do not overlap; OnCancel comes once, after the construction; OnDone
comes when something was finished and no write or reaction is left; then the
context may be reused.

The constructor is three steps (admission reads the count; the subscription;
nextWrite), nextWrite is the test of its loop, its body, and its end, with the
test of mSubscribed apart from the unsubscription. `server` is how far
`Server::stop` has come, and `mServer` says whether there is a gRPC server:
`ServerImpl::start` goes on without one when the port cannot be bound, which is
`start` not being taken. There are no calls then, and `NoShutdown` takes the
place of `Shutdown`. `StopAgain` is the second stop, by the destructors.

### `ImportSubscriber`

`acquirer` is the thread of acquirePackets: the head of its loop, the wait
before a reconnection, the construction of an AsyncPacketSubscriber, and the two
places of the loop in `await`: the test of mDone, which takes no mutex, and the
timed wait, which ends with the mutex. `reactor` has the members of the
AsyncPacketSubscriber, `call` gRPC's side: how the call ended, whether a read
is outstanding, whether a reaction is inside the owner's callback. A call may end
at any time with any status; a read succeeds while the call is open and fails
after; OnDone comes last. `fruitless` is history.

Time is left out. The wait before a reconnection ends when it ends, so that the
condition variable and mShutdownRequested, which make it end earlier, have
no place; the thread that wakes up before `stop` has cleared mKeepRunning, and
calls the server once more, is there. The data race on mDone is resolved in the
mildest way: `await` sees the value with the status. When it returns between
`OnDone` and `OnDoneReturns` the reactor's mutex is destroyed while it is
held; the model lets the rest of OnDone vanish, and no property covers it.

### `Process`

It has the variables of `ImportSubscriber` (whose mKeepRunning is called
`subscribing` here) and joins its actions with its own: `ReadPacket` with the
start of addPacketCallback, `CallbackReturns` with its end. In between, the
test of the queue's size, the pop and the push are separate steps beside the
propagating thread. `propagator` is that thread with the packet in its hands,
`main` the main thread from start to the second `stop`, in the destructor, and
`taken` which futures' results were taken. The server is `sent`, the last packet
it was given, and its stop is not seen here: `mc_rpcs` shows that it returns.

### The detectors: `PacketTimes`, `DuplicatePacketDetector`, `TimeDetectors`, `PacketDetectors`

Times are ticks, the code's microseconds, of which a second has `Second`. A
header has a start, a number of samples, unsigned (below `Counts`, 2^32 in the
code), and a whole positive rate; a packet without one is refused by the
duplicate detector (`RefuseWithoutRate`) and makes the future detector throw
(`futureThrow`), before either looks at anything else. `Interval` rounds to a
tick as the code does, and `endTime` counts samples as the code does: one less
than no samples is the largest number there is.

`DuplicatePacketDetector` has the options' two setters, each of which replaces
the other and refuses what is not positive; the constructor; the capacity of a
new buffer; and `allow`, one action per way out of it: a header that cannot be
made, the first packet (allowed, or the buffer cannot be), an exception of
operator==, duplicate, newer, older, slip, back-fill. `buffer` is the circular
buffer of one channel; `Tolerance` maps a rate to the limit in operator==, 0 for
rates that it refuses to classify. `uniform` and `forgotten` are history.
A number of samples of which the conversion to int makes a negative one is refused
as none is (`IsReadable`).
`Sort` is what std::sort promises and no more: some permutation that puts no
packet before an earlier one.

When the options give a duration, the capacity is estimated from the first
packet, whose duration is rounded to seconds before it divides. For a packet
shorter than half a second that is a division by zero and a conversion of
infinity to an integer, undefined in C++: the model takes either outcome a build
produces, the minimum or a size no memory has (`Unallocatable`: the constructor
of the buffer throws, and no packet of the channel is ever remembered). The same
rounding makes a whole second of packets between a half and two thirds of one;
fewer of them are remembered than the duration needs. `MemoryLasts` is stated for
packets to which rounding adds at most half, because the code adds half to the
capacity.

A detector's copy starts a behaviour of its own. The copy takes a mutex that
`allow` does not take; no caller shares a detector, and the model has one thread.

`TimeDetectors` has the options and the two comparisons with the clock `now`.
The sum of the clock and the future tolerance may not fit in 64 bits
(`LargestTime`), which is undefined and gives either answer. `PacketDetectors`
joins the three; `kind` says which one the caller uses.

## 3. The runs

| run | instance | result |
|---|---|---|
| `mc_manager` | 2 contexts, 2 streams, queue of 2, 3 packets per stream | 125 329 states; all nine properties hold |
| `mc_threads` | publisher and 2 RPCs (all; the second stream by name), 2 streams, queue of 1, 2 packets | 787 586 states; six invariants hold |
| `threads_every_call_returns` | the same with 1 stream, and unsubscribeAll | 475 407 states; `PurgedUnlessDisturbed` and `EveryCallReturns` hold |
| `mc_rpcs` | 2 calls (one of all, one of nothing), 1 stream, queues of 2 and 1, 3 packets, at most 1 subscriber | 78 964 states; six invariants, three liveness properties hold |
| `mc_process` | 1 entry in the reconnect schedule, import queue of 2, 3 valid packets | 75 397 states; six invariants, three liveness properties hold |
| `mc_detector` | headers of 0 to 4 and of 8 samples at 9 start times, 3 rates (one not classified), a buffer of 3 or one estimated for 2 seconds, a clock of 10 ticks | 42 277 states; five invariants hold |
| `out_of_order_allowed` | as `mc_detector` | violated, see below |
| `threads_interested_served`, `threads_gone_forgotten`, `threads_erase_exclusive`, `threads_next_packet_exists` | as `mc_threads`, both streams by name | violated |
| `rejected_call_ends` | as `mc_rpcs`, 1 packet | violated |

**Why the bounds are enough.** Two contexts give every interplay of a context
with itself and with another (the walk of `getPackets` over somebody else's
subscriptions, the admission of one while another leaves); operations treat a
third like the second. Two streams separate "exists" from "does not exist" and
give two creations by the publisher. With queues of 2 and 3 packets a queue is
empty, partly filled, full and overflowing. With threads, a queue of 1 and 2
packets still overflow, and every full queue is one that a reader can empty under
the publisher. The six invariants of `mc_threads` hold, too, when the second RPC
asks for both streams by name (`Request <- OneOfEach`, as in the violation runs:
2 899 627 states, which takes some minutes); one name is enough for every step
there is. In `mc_rpcs` the manager hands over up to two packets
and the writer's queue keeps one, so its overflow happens; the call that selects
nothing meets every refusal. In `mc_process` one entry in the schedule
gives a first attempt, a reconnection and the end of the schedule; calls need no
bound of their own, since only a packet starts the schedule over (or a packet
that cannot be converted, which leads back to the same states). unsubscribeAll
is added to the instance of one stream, where all the steps it can meet exist
(a subscription, a fetch, a departure, a creation, a packet); the traversal of a
second stream repeats them.

The duplicate detector's buffer of 3 has a front, a middle and a back; the
longer packets enclose others; with 9 start times it overflows, and so does a
buffer whose capacity was estimated, between 2 and 4 headers. A tick is half a
second, so there are packets whose duration rounds to zero, up, down and
exactly; a rate of 3 has an interval that is rounded. A packet without samples
meets the wrap of the unsigned count, which is why `Counts` is small (16), and
one of 8 that of the signed one. The clock runs past the last start plus the
tolerance, and `LargestTime` is within the reach of the clock plus the largest
tolerance, so the sum overflows. All bounds are guards of the packet's
publication (`MaximumPackets`) or the sizes of the instance.

**Fairness.** `SubscriptionManager` has none: a call is not owed to anybody.
`SubscriptionManagerThreads` assumes weak fairness of a thread that is inside a
call (the operating system runs it), and not that calls are made, nor that
unsubscribeAll is. Waiting for a mutex needs no more: the manager's is held over
several steps once, and a stream's once per packet, of which there are at most
`MaximumPackets`, and once per departure, so nobody finds a mutex taken for ever
unless its holder stops. `AsyncWriter` assumes it of the reactors' threads, of
the progress of `Server::stop`, though not of `start`, and of the reactions gRPC
owes. That a write completes is among them: gRPC fails it when the call is
cancelled, and otherwise it needs a client that reads. A client that neither
reads nor cancels does keep `Shutdown` waiting, since it is called without a
deadline; `StopReturns` says nothing of that client.

`Process` assumes it of its threads, of the reactions gRPC owes, and of the end
of a call that was cancelled; not of packets, signals or the end of any other
call. So `SignalEndsProcess` holds for an import server that stays silent.

**What holds** (`about` in `PROJECT.json`, comments at the definitions). For
whole calls: the maps agree (`PendingOnlyForFutureStreams`,
`SubscribedToAllMeansAll`, `SubscribersArePolled`), packets are lost only to
overflow and the newest survive (`QueueHoldsNewest`, `LossOnlyByOverflow`), the
cached count is right (`CachedCountIsFresh`), who leaves is forgotten
(`UnsubscribedIsForgotten`), and the manager implements the broadcast
(`ImplementsBroadcast`). For threads: queues stay runs of consecutive packets,
no longer than they may be, although readers pop without the lock, between the
publisher's size test and its pop too (`QueueIsRun`; a queue popped when empty
holds nothing), nothing is returned twice or out of order (`InOrder`), the count
covers every admitted RPC until unsubscribeAll begins (`CountCoversPolling`; it
clears the pending requests, so that who only waits is not counted from then
on), unsubscribeAll leaves nobody with a queue or a request who subscribed
before it began (`PurgedUnlessDisturbed`), and every call returns, whatever the
mutexes held (`EveryCallReturns`). Note what `InOrder` does not say: a pop of a
reader between the size test and the pop of setNextPacket, or a pop of the
publisher between the front and the pop of a reader, loses one packet more than
the overflow needed; and an underrun loses those that are pushed while it lasts.
For RPCs: what gRPC writes stays at the front of the queue
(`WrittenPacketIsFront`), nextWrite never spins (`NeverSpins`), clients are sent
packets in order and once (`PacketsInOrder`), a client for which
something is queued is sent the newest packet sooner or later, unless the call ends
(`QueuedIsSent`; in an instance
of one stream: with more, the reactor's queue may drop the newest packet of one
for that of another), an admitted call is finished once (`AdmittedFinishOnce`)
and one that has ended is subscribed to nothing (`GoneAreUnsubscribed`),
cancelled calls end (`CancelledCallEnds`) and so does `Server::stop`
(`StopReturns`). The manager there is the abstract one: how the real manager, in
a race with the creation of a stream, leaves a subscription behind is shown by
`GoneAreForgotten`, and `GoneAreUnsubscribed` says that the reactors do their
part. For the program: packets reach the server in order and once
(`PacketsInOrder`), the newest is never the one discarded (`NewestIsKept`) and
gets there (`NewestIsSent`), the reactor outlives its reads
(`ReadsEndBeforeReactor`), the subscriber gives up only after a full schedule of
fruitless calls (`GivesUpAfterSchedule`), and a signal or a dead subscriber ends
the program (`SignalEndsProcess`, `DeadImportEndsProcess`) with no thread left
and no exception out of the destructor (`EndsInOrder`). For the detectors: the
buffer of headers stays sorted and without two equal ones (`BufferIsSorted`), on
which every test against its front and back relies; those tests then decide as a
look at every sample would, except that a packet that encloses another is not
noticed (`JudgesOverlaps`: a packet that fits between two remembered ones is
allowed, as the code's comment on back-fills and the tests say; the header's
"contained between earlier process packets" can be read otherwise); the duration
that was asked for is remembered (`MemoryLasts`); and the time detectors, which
look at one end of a packet, are right for all of its samples up to the rounding
of the interval (`SamplesAreInTime`).

**What does not hold.**

* `InterestedAreServed`: a subscription overlapping with the creation of its
  stream can miss it for good.
* `GoneAreForgotten`: a departure overlapping with it can leave a subscription
  behind whose queue nobody reads and which is counted.
* `EraseIsExclusive`: a reader uses the map another thread erases from.
* `NextPacketExists`: a reader uses the front of a queue that the publisher has
  emptied since the reader's test; and either can pop a queue that is empty.
* `RejectedCallEnds`: a refused client does not learn of its refusal before it has
  been sent a packet. It is served, too: nothing returns after the refusal, so
  the maximum number of subscribers limits nothing.
* `OutOfOrderIsAllowed`: a packet older than all in the detector's buffer is
  stored and refused.

Seen while modelling, and in no run: unsubscribeAll leaves the active map, so
that those it purges are still counted; getPackets polls a stream once per
subscriber of it, not once for its caller (hence `Turns`; the refinement holds
with it); after a fatal error of the subscriber the program ends with
EXIT_SUCCESS, because checkFuturesOkay has taken the exception; when the
listening port cannot be bound, `ServerImpl::start` goes on without a server;
unsubscribeAll has the comment "Purge the active subscriptions"
(`subscriptionManager.cpp`, 498) and does not clear that map; printSummary
(`main.cpp`, 229) keeps the difference where it should keep the total, so that
its packets "since last update" are wrong from the second report on; the
reactors' check that a requested stream can be named (`asyncWriter.cppm`, 145)
refuses nothing, because toName does not throw; the conversion of a packet
trims and capitalizes its names and writes `--` for an empty location code
(`modules/packetConverter.cppm`, 55), which nobody does with a client's
selections, so that one whose location code was set to nothing, or in lower
case, waits for a stream that never comes.

## 4. The proofs

`SubscriptionManagerProofs`, for any finite set of contexts, any streams, any
positive queue size and any bound on packets (assumptions `ContextsAssumption`,
`QueueSizeAssumption`, `PacketsAssumption`):

* `TypeCorrect`: `Spec => []TypeOK`. One lemma per operator of `Stream`, one per
  action, and `NextType`. Finiteness of `Contexts` is needed for the counts
  (`Turns`, `getNumberOfSubscribers`).
* `PendingIsForTheFuture`, `AllMeansAll`, `EveryQueueIsPolled`:
  the three invariants that relate the maps. Their conjunction `Service` is
  inductive relative to `TypeOK`: `AllMeansAll` needs that a stream outside
  `mStreamsMap` has no subscriber (part of `SubscribersArePolled`), so they are
  proved together (`ServiceInvariant`) and taken apart.

The queues, from the same assumptions:

* `NewestAreQueued`, `OnlyOverflowLoses`: `Accounted` says of one queue what the
  two properties say of all; lemmas show that a push, a late join, a first
  packet and a fetch keep it. `OnlyOverflowLoses` needs that a stream that does
  not exist has published and delivered nothing (`FutureStreamsAreEmpty`):
  otherwise the first packet of a stream could find a queue in debt.
* `CountIsFresh`: inductive given `TypeOK`, the point being that the creation of
  a stream, which does not mark the count stale, leaves the same contexts to be
  counted.
* `LeaversAreForgotten`: the action property, from `SubscribersArePolled` and
  `PolledExist` (no context polls a stream that does not exist).

`SubscriptionManagerRefinementProofs`: `ManagerBroadcasts`,
`Spec => ImplementsBroadcast`. `Views` writes the two mapped variables entry by
entry; then one lemma per action names the abstract step it is: enqueuePacket is
Publish, either subscribe is Want, getPackets is Fetch (its witness takes what
the manager returns, at least one packet because whoever has a queue is polled),
unsubscribeFromAll and unsubscribeAll are Leave, and getNumberOfSubscribers is a
stutter. With this every property of the run `mc_manager` is proved.

`ImportSubscriberProofs`, for any length of the schedule (a hypothesis of its
theorem): `SubscriberInvariant`. Two facts are needed beside the properties.
`DoneIsDone`: what await waits for, mDone, is set only when no read of the call
is outstanding; this is why the reactor may go then. `PlaceCountsFruitless`: the
place in the schedule is the history variable `fruitless`, or one less.

`ProcessProofs`, for any schedule, any positive capacity of the import queue and
any bound on packets (`ScheduleAssumption`, `QueueAssumption`,
`PacketsAssumption`): every step of `Process` is a step of `ImportSubscriber` or
leaves its variables alone (`ImportStep`), so the subscriber's invariant carries
over. The inductive invariant adds

* `QueueEndsInNewest`: entry i of a queue of length n is `Newest - n + i`, and
  what was popped or sent is at most `Newest - n`. Order, consecutiveness and
  the newest packet's presence are arithmetic from there. While the callback
  makes room, `Newest` is one behind `received`; whether there is room when it
  pushes is part of it, because only the other popping thread can intervene.
* `AddingIsCallback`: the callback runs exactly while gRPC waits for it.
* `TakenHaveEnded`: the result of a future is taken of a thread that has ended,
  and of both before the destructor.

From it follow `TypeCorrect`, `InOrder`, `NewestStays`, `ReactorOutlivesReads`,
`OrderlyEnd` and `GivesUpLate`: the six invariants of the run `mc_process`.

`AsyncWriterProofs`, for any contexts, finitely many streams, any requests, any
limits of the reactor's queue and of subscribers, and any positive size of the
manager's queues (`RequestAssumption`, `LimitsAssumption`, `ManagerAssumption`):
all six invariants of the run `mc_rpcs`. The inductive invariant is `TypeOK`
with

* `Phases`: what a reactor's flags, gRPC's view of it and the place of its thread
  can be together. `WrittenPacketStays`, `NextWriteNeverSpins` and `FinishedOnce`
  follow from it: they are about one reactor, whose reactions gRPC orders.
* `Interests`: the manager knows of a context only while its reactor says it is
  subscribed. From it, `NothingIsInherited`: an address that is used again brings
  nothing of the call that had it.
* `AllSent`: for each stream, the last packet sent, those in the reactor's queue,
  those in the manager's outbox and the newest one published are in this order.
  `SentInOrder` is a part of it; the others are needed because packets move from
  one to the next, and a full queue drops some in between.

`SubscriptionManagerThreadsProofs`, for any contexts, streams, requests, queue
size and number of packets, with or without the thread that stops the server
(`QueueSizeAssumption`, `RequestAssumption`, `OrderAssumption`; the last says that
contexts and streams are positive numbers, contexts finitely many, because
traversals go by key): all seven invariants of the runs `mc_threads` and
`threads_every_call_returns`. TLC has checked the inductive invariant on the
instance of the latter. Its parts:

* `Places`: at each place of each thread's program, what its locals hold
  (a stream the publisher has found exists, and so on); `Mutexes`: who holds a
  stream's mutex is where the code holds it; `StreamsAreCreated`.
* `Runs`: a queue is a run of consecutive packets that ends with `Reach`, the
  newest packet setNextPacket has brought to it: one less than the newest of the
  stream for the contexts its traversal has yet to come to. This is what makes
  `QueueIsRun` inductive although readers pop without the mutex: a pop, wherever it
  falls, takes from the front of a run. `Room`: where the publisher is about to push,
  the queue is one short of its size or less, which only the other thread's pops
  can change, for the better. `Underruns`: a queue popped too often is empty.
  `Returns` says
  the same of what was returned, and that a context the publisher has yet to
  admit to a new stream was returned nothing of it; with both, `InOrder`.
* `Requests`: nobody is subscribed to or waits for a stream it has not come to
  in its own subscribe call (`Handled`), and waits for none it is on, but for the
  moment between the publisher's admission and its erasure of the request.
  `Registered`: whoever has dealt with a stream is in one of the maps that are
  counted. `CountIsEnough` follows from it: the cached count was computed from
  those maps, and a registration marks it stale.
* `Recorded`, `ServedSoFar`, `LeftSoFar`, `PurgedSoFar`: for a context that
  nothing disturbed, each stream it has dealt with has it as a subscriber, or
  will when the publisher's creation has come to it; each stream its departure
  has passed has not; nor has each that unsubscribeAll has passed. At the ends of
  the calls they are `UndisturbedAreServed`, `UndisturbedAreForgotten` and
  `UndisturbedArePurged`.

`PacketDetectorsProofs`, for any headers (rates, lengths, start times),
tolerances, options and clock (`SecondAssumption`, `HeadersAssumption`,
`ToleranceAssumption`, `OptionsAssumption`, `TimesAssumption`): all five invariants
of the run `mc_detector`.

* `SamplesAreJudged`: `Judged` relates a detector's answer to the one end of the
  packet it looked at; `SampleIsNear`, arithmetic of the rounded interval, takes it
  from there to every sample. The constructor matters: the tolerance does not
  change after an answer.
* `StaysSorted`: in `Remembers` the start times are strictly increasing and no two
  packets the same but for the tolerance. A back-fill needs that the permutation
  `Sort` chooses exists (`SortingOrder` gives one) and that start times which
  increase weakly and are all different increase strictly.
* `DurationIsRemembered`: `LongEnough`. While packets are equally long those in the
  buffer are apart, the buffer is full once something was dropped, and what was
  dropped ends before the first of them starts. So each of `capacity` packets
  starts at least its length and a tick after the one before (`Spaced`), and the
  capacity was estimated with half as many again (`FirstCapacity`).
* `JudgedByItsEnds`: follows from the order alone, for a disjoint buffer.

With these, every invariant that a passing run checks is proved for all values of
the constants, and so are the action property `UnsubscribedIsForgotten` and the
refinement.

Only model-checked:

* Liveness (`EveryCallReturns`, `CancelledCallEnds`, `StopReturns`, `QueuedIsSent`,
  `SignalEndsProcess`, `DeadImportEndsProcess`, `NewestIsSent`): the proof system
  does not treat ENABLED, hence not weak fairness.
* What is violated: TLC's counterexamples need no proof.
* That the models are those of the code: the numbers the assumptions leave open
  are the code's, but an abstraction is argued for in section 2 and in comments.

## 5. What is not modelled

* Options other than the detectors': values set before anything runs. What their
  setters refuse is what the modules assume of their constants.
* Logging and metrics, printSummary included: output that nothing reads back.
* Packet conversion: a stateless copy of fields. That it may throw is in
  `Process`, and the end time of a packet in `PacketTimes`.
* Channels, credentials and addresses, which are passed to gRPC; gRPC itself but
  for the order of its reactions.
* The length of sleeps and waits; failures to allocate, but for the one the
  detector's capacity provokes.
* Several RPCs in sequence at one address beside the other threads. Whole calls
  in sequence are in `SubscriptionManager`, a reused context in `AsyncWriter`.

## 6. Plan

1. Done: `Stream`, `SubscriptionManager`, its refinement of `PacketBroadcast`,
   its threads, with the one that stops the server; `AsyncWriter`, with a server
   that could not start; `ImportSubscriber` and `Process`; all three detectors.
2. Done: proofs of every safety property of `SubscriptionManager`, its refinement
   of `PacketBroadcast` included, of `ImportSubscriber` and of `Process`.
3. Done: proofs of every safety invariant of `AsyncWriter`,
   `SubscriptionManagerThreads` and the detectors.
4. Proofs and model: a refinement from the threads to the whole calls, where they
   do not overlap with the creation of a stream; which calls of the manager the
   reactors make, as a refinement of `AsyncWriter`'s part of `PacketBroadcast`.
5. Model: reused contexts beside the threads.
