# Verification of the Virtual Serial Port driver

This directory holds TLA+ models of the kernel extension in
`src/Virtual Serial Port for OSX/VirtualSerialPort`, TLC runs that check them
and TLAPS proofs about them. Line numbers are those of the source files; `VSP`
stands for `VirtualSerialPort.cpp`.

## 1. The system

```
serial tool (DTE)                                   VSPTester (DCE)
      |  /dev/tty.VirtualSerialPort                       |  IOConnectCallMethod
IOSerialBSDClient - IORS232SerialStreamSync          VSPUserClient
                              \                       /        ^ mach messages
                               VirtualSerialPort (driver) ----/
                                 fPort.State, RX queue, locks
```

The tester's bytes go through `VSPUserClient::send` and
`VirtualSerialPort::sendData` into the RX queue, and out of it by the serial
stream's `dequeueData`. The other direction does not work yet (`enqueueData`
stores nothing; the project's own "To Do and Done.txt" says so). Every change of
the state word is sent back to the tester as a message.

| component | state | operations | what is hard about it |
|---|---|---|---|
| circular queue (`SccQueue.cpp`) | buffer, `NextChar`, `LastChar`, `Size`, `InQueue` | add and get a byte, bulk add and remove, direct read in two calls, init, reset, close | full and empty look alike; wrap of the buffer, an unsigned count, a direct read with calls between its halves |
| port core (VSP) | `fPort.State`, `WatchStateMask`, `FlowControl`, RX queue, `RXBufferLock`, `serialRequestLock`, references | `acquirePort`, `releasePort`, `setState`, `getState`, `watchState`, `executeEvent`, `dequeueData`, `sendData` | any thread may be in any call; two locks; test and set in different critical sections; a read-modify-write of the state word without a lock; blocked watchers sharing one mask |
| configuration events (VSP 234-311, 317-326, 340-376) | UART parameters of `fPort` | `executeEvent`, `requestEvent` | scaling by 2 and 1000, ranges, 32-bit products |
| life cycle (VSP 15-62, 441-520, 736-759) | provider, locks, buffers | `start`, `stop` | a start that fails half way; a stop while calls are running, calls after it |
| user client (`VSPUserClient.cpp`) | `fProvider`, `m_notificationPort`, the driver's `client` | open, close, `clientDied`, `didTerminate`, send | one `client` pointer for several user clients, tested and used without a lock; processes that die or linger; an unload that waits for all of them |
| notifications (VSP 564, 818-827; `VSPUserClient.cpp` 285-350; `AppDelegate.mm` 17-31, 107-163) | the mach port's queue, what the tester shows | `sendPortState`, `sendPortInfo`, `getInfo` | a send that blocks under a lock; snapshots taken without one |
| tester application, Xcode projects, property lists, install script | - | - | no logic of their own |

What makes each correct:

- queue: pointers and count agree; bytes come out in the order they went in,
  each once; a bulk call says how much it did; a direct read's window is stable.
- port core: one owner at a time, and `ACQUIRED` says so; one retained reference
  per owner; the state word describes the queue; one thread at a time in the
  queue; no watcher forgotten; the tester told of every change; what was sent is
  read; every call returns.
- configuration: what is asked for depends on nothing but what was last set, or on
  the default restored since; what cannot be represented is refused or converted.
- life cycle and user client: nothing is used before it exists or after it was
  given back; nothing stays allocated after a failed start.
- notifications: what the tester shows becomes the driver's state once changes stop.

`PROJECT.json` lists the places where this can go wrong (`hazards`), each with
the properties that would catch it or the reason why none does.

## 2. Modules

| module | what it is |
|---|---|
| `ByteFifo` | abstract: a bounded FIFO with put, take and flush |
| `ExclusivePort` | abstract: one owner at a time, among the sessions that hold a reference to the driver; ask, take, give back, let go |
| `SccQueue` | the functions of `SccQueue.cpp` as operators on a `CirQueue` record, and what such a record stands for (`Contents`, `Coherent`) |
| `SccQueueSpec` | one queue and its callers: byte calls, bulk calls iteration by iteration, direct reads, reset, open and close; refines `ByteFifo` |
| `VirtualSerialPort` | the running driver with any number of threads; refines `ByteFifo` and `ExclusivePort` while opening and closing do not overlap other calls |
| `QueueStatus` | `VirtualSerialPort` with two history variables that say when the queue bits of the state word may be out of date |
| `MCVirtualSerialPort`, `MCQueueStatus` | argument sets and symmetry for TLC |
| `PortConfig` | the UART parameters: what an event refuses, stores and what a request answers, as operators on a record |
| `Notifications` | parameters and state word as the tester hears of them: the session's calls, the notification port, the tester's window |
| `MCNotifications` | the events a client sends, for TLC |
| `DriverLifecycle` | `start` and `stop`, resource by resource |
| `UserClient` | `DriverLifecycle` with the tester's connections to it: open, close, death, unload, `sendData` at any time |
| `SccQueueLemmas` | lemmas on the operators of `SccQueue` |
| `SccQueueProofs` | theorems about `SccQueueSpec` |
| `VirtualSerialPortProofs`, `OwnershipProofs`, `WakeupProofs`, `DeliveryProofs` | theorems about `VirtualSerialPort`, and `QueueStatus`; each module builds on the one before or on `OwnershipProofs` |
| `NotificationsProofs`, `UserClientProofs` | theorems about `Notifications` and `UserClient` |

`VirtualSerialPort` and `Notifications` describe two sides of one driver.
`VirtualSerialPort` has the races on the state word, and abstracts a message to the
tester as the value last sent (`notified`). `Notifications` keeps the bits that the
calls set for certain, and adds the parameters, the messages in the port and the
two threads that send them.

Operators named `X_Something` and marked "Mutant" are defective variants of `X`.
No specification uses them: they exist to show that the properties notice.

### `SccQueue` and the code

A pointer is its offset from `Start`; `Start` is 0 and `End` is `Size`.
`InQueue` is an unsigned number modulo `UInt32Mod`, so decrementing zero gives
`UInt32Mod - 1` as the C code's does. `GetBytetoQueue` returns two things: the
new queue is the operator of that name and `*Value` is `GotByte`. A byte of the
buffer that was never written is `Garbage`, so `Contents` shows a read of
uninitialised memory.

`SccQueueSpec` calls these functions one at a time, as their comments ("inGate")
say the driver does, and lets bytes be added between `BeginDirectReadFromQueue`
and `EndDirectReadFromQueue`. The direct read has no caller in the repository; its
contract is the one its description states: the reader finishes with no more than
the size it was given.

### `VirtualSerialPort` and the code

| code | model |
|---|---|
| `fPort.State` | `State`, the set of one bits; `ENABLE` stands for the four bits of `DEFAULT_STATE`, `CAR` for 0x40, `DSR` for 256 |
| `serialRequestLock` | not a variable: each of its critical sections is one step (`WritePortState`, a reading of `State`, a round of `privateWatchState`) |
| `RXBufferLock` | the thread that holds it; held across steps |
| the call stack of a thread | `pc` with the local variables `want`, `mask`, `used`, `size`, `data` |
| `retain()`, `release()` | `refs` |
| `client->sendPortState(state)` | `notified`, the value last sent |
| water marks | `marksSet`: zero until `setStructureDefaults` has run |
| `thread_wakeup_with_result` | `woken`, the blocked watchers it was issued for |

`acquirePort` is `AcquirePort`, `AcquireRead` (the test, 74), `AcquireSet` (77),
`AcquireWatch` and the watch steps (85), `AcquireDefaults` (96),
`AcquireResetQueue` (98, its three stores one by one), `AcquireReturn` (100).
`releasePort` is `ReleasePort`, `ReleaseClear`, `ReleaseReturn`. `checkQueues`
is `CheckState`, `CheckUsed`, `CheckFree`, `CheckDelta`, `Write`, with its copy of
the state word in `want` and the delta in `mask`. `sendData` is `SendData`,
`SendLock` (807), `SendAdd` per byte, `checkQueues`, `SendReturn`; `dequeueData` is
`DequeueData`, `DequeueLock`, `DequeueGet` per byte, `DequeueDone`, `checkQueues`.
`PD_E_FLOW_CONTROL` is `SetFlowControl` (the test of `ACQUIRED`, 216-218) and
`StoreFlowControl` (247), with any set of bits as data. In
`privateWatchState`, `thread_block` without `assert_wait` may return at once with
any left-over result: `WatchRestart` if it is `THREAD_RESTART`, `WatchBroken`
otherwise, both always possible.

Grain: adding or fetching one byte is a step, although an unlocked `ResetQueue`
could also fall inside one. The properties checked where a reset overlaps other
calls are types, the lock, references and progress; they do not depend on where
inside the byte operation the reset falls. The property that does,
`MatchMeansEmptyOrFull`, is already violated at this grain. A call that an early
return refuses, and that changes nothing, is left out.

`OpenMode` says what the driver's clients overlap. The source relies on them (it
has no gate of its own), so both worlds are modelled:

- `quiescent`: nothing runs while the port is taken or given back, except an
  `acquirePort` asleep for it. This is what the sleeping loop in `acquirePort`
  is written for, and where ownership, references, wake-ups, coherence and order of
  the queue are right. The queue bits of the state word are not, even here: `getState`
  and `setState` take part, and `StatusCurrent` says what they can spoil;
- `serial`: one `acquirePort` at a time, everything else overlaps;
- `any`: everything overlaps. What still holds here needs nothing of the clients.

### `QueueStatus` and the code

`Level` is the set of RX bits `checkQueues` would compute now, `RXBits` those the
state word has. `told` becomes true with the write of a `checkQueues` that was not
`overtaken`: since it read the count nobody has changed the queue or its water marks,
and since it took its difference nobody has changed the RX bits. `told` becomes
false with an overtaken one, and when a session resets the queue, sets the water marks
or writes RX bits. It does not become false when a sender or a reader moves
bytes: that these tell of it before they unlock is what is checked. Both variables
follow the driver's steps and forbid none.

### `PortConfig`, `Notifications` and the code

| code | model |
|---|---|
| the UART fields of `fPort` | `config`, a record; `SWspecial` is the set of its one bits; a latency is its nanoseconds modulo 2^32 |
| `executeEvent`'s range checks | `Refused`; after halving where the code halves |
| its assignments; `requestEvent`'s answers | `Stored`; `Requested` |
| `m_notificationPort` set by `registerNotificationPort` | `registered` |
| messages sent and not yet received | `queue` |
| the tester's labels | `shown`; `Blank` for empty strings |
| the notification `sendPortInfo` builds | `snap`; the state word read by `getInfo` is `seen` |

The session's thread runs `AcquirePort` (77), `AcquireDefaults` (96),
`AcquireReturn` (100), `ReleasePort`, `ExecuteEvent`, and for `PD_E_ACTIVE`
`SetActive`, `ActivateDefaults` (225), `Activate` (226); every event ends with
`InfoRead` and `InfoSend` (333), refused ones too. `GetState` is the
`checkQueues` of `getState`, which needs no open port: the member `QUEUE` of the
modelled state word stands for the bits `checkQueues` writes, of which at least one
is always set, so that a state word of 0 (which makes the tester blank the
parameters) is one `releasePort` has just written. The tester's thread registers
its port, then `getInfo` is `InfoRead`, `InfoSend`, `StateRead`, `StateSend`; after
that its run loop takes messages (`Drain`) between its calls: `SendData` for the
`checkQueues` of `sendData`, then `SendReturn` for its `writePortState(256, 256)`.
`writePortState` sends under `serialRequestLock`, hence in the step that changes the
state word; `getInfo` does not, hence in a step of its own.

Abstractions: `sendPortInfo` copies its fields in one step, so a message is never a
mixture of two configurations (the overtaking of one message by another is
modelled). `FlowControlState`, `RXOstate`, `TXOstate` never change after the
defaults and are left out. The events of queue sizes, water marks and flushes store
nothing. The notification port is unbounded: what a send to a full one does is the
kernel's. A `SPECIAL_BYTE` event is about a byte.

### `DriverLifecycle`, `UserClient` and the code

`held` is what `start` took (the provider's open, two buffers, two locks, the
stream) in the order `StartSteps`, and `StopSteps` is the order of
`releaseResources`; a failing step leaves `start` with `phase = "failed"` and
everything taken still held, as the code does. `client` is the driver's pointer, `opener`
what IOService records of `open` and `close`. A user client is `"started"` by
IOKit, `"dead"` once its process closed it or ended, `"inactive"` after `terminate`,
`"stopped"` after `didTerminate` and `stop`. `handles` are the processes that still have
their connection; they keep it when the driver goes. `clientClose` and
`didTerminate` call `closeUserClient`, in the same step.

External, and modelled from what the source relies on: that `open` is exclusive,
that IOKit starts a user client of this class for this driver only (so that the cast at
`VSPUserClient.cpp` 90 succeeds), that a driver being unloaded makes its clients
inactive, and that `stop` is called when each is stopped. It waits for no call: a
process that has its connection calls `sendData` in any phase, and the driver's
`stop` may begin and end while the call is inside (`SendTest` is the test of
`RXBufferLock` at VSP 806; `SendReturn` may come after `stop` freed it). What a call does
with a freed lock, and how long the driver object itself lives (the user client does
not retain `fProvider`), are not modelled.

## 3. Runs

| run | instance | shows |
|---|---|---|
| `queue_ops` | capacity 3, 2 byte values, requests up to 4 | queue invariants and refinement of `ByteFifo` |
| `port_quiescent` | 2 sessions, a reader, a tester, 2 messages, capacity 3 | `ExclusiveOwner`, `PortChangesHands` (refinement of `ExclusivePort`), `QueueCoherent`, `DeliversInOrder` (refinement of `ByteFifo`) |
| `watch_quiescent` | 2 sessions, 3 watchers with different masks | `NoLostWakeup`, `RefsBalanced`, `TesterSeesState` |
| `queue_status` | a session, a reader, a tester, a `getState` without the lock, a `setState` of a queue bit; capacity 3, a message longer than the queue | `StatusCurrent` |
| `data_live` | a session, a reader, a tester, everything overlapping; a message longer than the queue; with fairness | `TypeOK`, `OneInRXSection`, `NoOverRelease`, `DataDrains`, `CallsReturn` |
| `tester_view` | 4 calls, events with 14 values among them; the tester launches at any time; with fairness | `TypeOK`, `ConfigLegal`, `ReadsBack`, `DisplayCurrent`, `DisplayCatchesUp` |
| `kext_life` | a driver, 3 tester processes; with fairness | `TypeOK`, `PublishedIsReady`, `OpenerIsAlive`, `NoPointerLeftBehind`, `UnloadCompletes` |
| `acquire_race` | 2 sessions | refutes `NoReferenceLeaks` (VSP 72) |
| `stale_release` | a session, a poller | refutes `ReleasedPortIsFree` (VSP 122) |
| `release_mask` | a session, a watcher | refutes `MaskChangeWakes` (VSP 626) |
| `reset_race` | a session, a reader, a tester | refutes `MatchMeansEmptyOrFull` (`SccQueue.cpp` 37) |
| `pending_io` | a driver, a tester process | refutes `PendingIODefersStop` (`VSPUserClient.cpp` 173) |

The last five are disagreements between a comment and the code; `findings`
in `PROJECT.json` tells each of them. The first four are about calls that overlap; of
callers that do not, the comments are proved right (section 4). In short:

1. `acquirePort` tests and sets the busy bit in two critical sections; two
   callers can both succeed, and a reference is never released.
2. `checkQueues` writes back every bit that differs from a copy of the state word
   taken earlier. Called by `getState` without a lock it brings `ACQUIRED` back
   after a release (and in the same way takes `ACTIVE` away after an activation).
3. `releasePort` clears the watch mask after clearing the state and wakes nobody. With
   `assert_wait` commented out (VSP 640) a watcher comes back by itself and only the
   bookkeeping is wrong; one that does sleep would sleep on.
4. `acquirePort` resets the RX queue without its lock.
5. `didTerminate` never defers, so a user client in the middle of a `sendData` is
   stopped. Nothing then keeps the driver's `stop`, which frees the lock the call holds,
   from following.

What three properties except or restrict, and why they are still worth their run:

- `DisplayCurrent` is about what has settled: no call in progress, no message
  waiting. It excepts a kind of message whose last one was overtaken, that is, sent with
  a value another thread had changed since it was read (`stale`); only
  `getInfo`'s state and an information message can be. A stale state does not excuse
  wrong parameters of an active port, nor the other way round. "Usage.txt" 68 says of the
  tester "It will then show details of the Serial port settings as they change"; in
  that race what it shows is old, until the next change, and in no other.
- `ReadsBack` says what requestEvent answers, of every event and every value (`Answer`):
  an odd rate loses half a unit, a latency above 2^32 nanoseconds wraps, a number of stop
  bits comes back doubled (the tester halves it instead, so that its window shows 0 for
  the default that VSP 528 calls "1 Stop bit"), the receiver's parameters are answered 0.
  What is not obvious is that the answer depends on nothing else: no other event
  disturbs it, and what survives `setStructureDefaults` (the two latencies) is the last
  value accepted. This is about what is answered, not about what is stored:
  `PD_E_DATA_INTEGRITY` does reset what `PD_E_RX_DATA_INTEGRITY` stored (VSP 260, 292), which
  no request shows (364) but the tester's window does (`ConfigLegal`, `DisplayCurrent`).
- `StatusCurrent` excepts a last `checkQueues` that was overtaken, and a session that reset
  the queue, set its marks or wrote RX bits since. The first is the price of `getState`'s
  missing lock (VSP 169); in the second the bits stay wrong until the next `checkQueues`.

Also visible in the models, and not refuted by a run: `CloseQueue` leaves `InQueue`
(its description, `SccQueue.cpp` 132, says "Clear out all of the data structures");
what a tester sends while nobody has the port is stored, reported as sent, and
discarded by the next `acquirePort` (of a port that is not active VSP 422 says "there
should not be any chars"); a user client's `start` sets the driver's `client`, but its
closing clears it only if it opened the driver, so the pointer to one that did not
stays behind (`NoPointerLeftBehind` is about those that did); `privateWatchState` sets
bit 0x40 without telling anyone, and `TesterSeesState` and `NoLostWakeup` are stated up
to that bit; `assert_wait` is
commented out (VSP 640), so a watcher's `thread_block` comes back by itself, which the
model allows at any time; a parameter set between `acquirePort` and `PD_E_ACTIVE` is
overwritten with its default (VSP 225); a failed `start` gives nothing back; a
user client that closes and opens the driver again gets no more messages, since
only `start` sets the pointer; a `sendData` after `stop` finds no lock and reports success
and no count (VSP 814), although `VSPUserClient.cpp` 160 says that "any further requests
from the user process should be returned with an error"; the call
changes nothing, so the model leaves it out.

### Bounds

- `kMaxCirBufferSize` 3 (2 or 1 where bytes do not matter): the smallest capacity
  with an inner position, a wrap in the middle of a request, and distinct water
  marks (high 2, low 1). Requests go to capacity + 1, so a request can be too large.
- `UInt32Mod` 8 or 4: above the capacity, small enough for the wrap-around of an
  underflowing count to be reached (`data_live` does reach it).
- `queue_status` has one session in the quiescent mode: what matters to it are the reader,
  the tester and the poller, whose `checkQueues` overlap in every way. The theorem
  `StatusStaysCurrent` is about every mode.
- Two sessions make every race for the port; three watchers make a watcher that
  leaves while one waits and one blocks again. Sessions and watchers are used
  symmetrically, so permuting them is sound; no liveness is checked with symmetry.
- `MaxSends` bounds calls of `sendData`, `MaxRefs` the references when
  `acquirePort` is called (leaks would grow without bound). With `MaxRefs` above the
  number of sessions a leak can be followed by further correct acquisitions.
- `tester_view`: `UInt32Mod` 2^20, above twice the highest rate and just above
  1048 * 1000, so that 1048 is the last latency that fits and 1049 the first that wraps.
  The events' values lie on and beyond each limit. `MaxEvents` 4: acquire, activate,
  a parameter, and one more call that races the tester's `getInfo`; a send counts.
- `kext_life`: three processes make one that has the driver open, one that replaced the
  pointer, and one that comes after either is gone. An object is used once.
- `CHECK_DEADLOCK FALSE`: the environment may stop calling when its bounds are used
  up, and an unloaded driver stays unloaded. That no call gets stuck is `CallsReturn`,
  that a termination goes on is `UnloadCompletes`.

### Fairness

`Fairness` is weak fairness for each thread inside a call (the kernel schedules
it) and strong fairness for acquiring `RXBufferLock`, in `dequeueData` and in `sendData`
(an `IOLock` hands itself to waiters; weak fairness would let a reader starve behind a
stream of senders). A call that waits for the lock is one that has to return
(`CallsReturn`).
Nothing is assumed of a thread that is outside a call, with one exception:
`ReadersKeepReading` says `dequeueData` is called again and again while it can be,
which is what "To Do and Done.txt" reports ("dequeueData is called continuously -
hundreds of times per second"). `DataDrains` needs it, `CallsReturn` does not.
No fairness is given to a watcher: nothing wakes it for certain. `DataDrains` is
about ports that eventually stay active, and so is not about ports somebody
closes or deactivates again and again.

In `Notifications`, `FairSpec` lets a call that has begun go on, and the run loop
of a launched tester take what is in its port; nobody has to launch the tester or to
call. `DisplayCatchesUp` therefore also says that a driver without a tester never
waits for one. In `UserClient`, IOKit carries out a termination it has begun and
`sendData` returns; no process has to close, to end or to let go of its connection.

## 4. Proofs

Assumptions: those named `QueueAssumption`, `RequestAssumption`, `PortAssumption`,
`FiniteSessions`, `ConfigAssumption`, `EventAssumption` and `ClientAssumption`: a
positive capacity that a `UInt32` can hold, bytes different from `Garbage`, thread
roles that do not overlap, finitely many sessions (so that they can be counted),
arguments of the right type, a `UInt32` that holds twice the highest rate. They
bound no sizes: the theorems are about every capacity, number of threads, of
processes and of calls. The theorems about the environment of no overlap say so
with `ASSUME OpenMode = "quiescent"`.

`SccQueueProofs`. The properties of a queue follow from `Coherent`: `NextChar` is
`InQueue` places after `LastChar`, no more than `Size` bytes are counted, and only
stored ones. `AddByteAppends`, `GetByteTakesOldest` and `EndDirectReadDrops` say
what each operation does to `Contents`. The inductive invariant is

    IInv == TypeOK /\ (InUse => Coherent(queue)) /\ CallInv /\ WindowInv

where `CallInv` is what a bulk call has done so far (the contents it found, with a
prefix of its data appended, or with a prefix moved into its buffer) and
`WindowInv` is that the window of a direct read is a prefix of the contents lying in
one piece. `TypeOK` alone is not inductive: the pointers stay in the buffer by
themselves, but that a byte handed out is one that was stored, never `Garbage`, and
that `InQueue` never passes zero or `Size`, need `Coherent`. From `IInv` follow `TypeCorrect`, `StatusCorrect`,
`AddCorrect`, `RemoveCorrect`, `DirectReadCorrect`, and, action by action,
`FifoImplemented`: `Spec => ImplementsFifo`.

`VirtualSerialPortProofs`. The inductive invariant is

    IInv == TypeOK /\ RoleOK /\ OneInRXSection

`RoleOK` confines each thread to the labels of its role; without it a step such as
`Write`, which three kinds of threads share, could not be told to unlock rightly.
`TypeCorrect`, `OneAtATime` follow in every `OpenMode`. `TesterIsTold` uses one
lemma, that each step either leaves `State` and `notified` alone, or writes both
the same, or adds `CAR` to `State` only.

`OwnershipProofs`. `NeverOverReleased` holds in every `OpenMode`. Its invariant is

    RefInv == TypeOK /\ OpenedOK /\ NoOverRelease

and each step changes the set of sessions that hold a reference by at most the one
session that moves, so its cardinality by at most one. For the quiescent mode,

    OwnerInv == TypeOK /\ SessionsOK /\ Undisturbed /\ PendingOK /\ ExclusiveOwner

`Undisturbed` is the discipline turned into an invariant: for each phase of a
session that takes the port, waits for it or gives it back, where everybody else
can be (idle, asleep in `acquirePort`, or between the two stores of `releasePort`). `PendingOK` says that no pending write mentions `ACQUIRED`; it
rests on `Undisturbed`, since a `checkQueues` writes back a copy that may differ in
that bit only if somebody changed it meanwhile. This is the fact `stale_release`
shows to fail when calls overlap. `OnlyOneOwner` and `ReferencesBalance` follow, and
from them `NoReferenceIsLeft` and `ReleasedIsFree`. `PortIsExclusive` is the refinement,
`Spec => PortChangesHands`: with `OwnerInv` in this state and the next, setting the
state word in `acquirePort` is `Take`, clearing it is `GiveBack`, every way an
`acquirePort` fails and `releasePort`'s last step are `LetGo`, and every other step of
any thread leaves owners, holders and references as they are; that it leaves the busy bit
too is `ExclusiveOwner` before and after it.

`WakeupProofs`. `WakeInv == OwnerInv /\ Midway /\ Roused /\ NoLostWakeup`:
both are about a release between its two stores: `Roused`, that everyone blocked has
been woken; `Midway`, that a sleeping `acquirePort` then finds the port free. The case
that needs care is `releasePort` clearing the mask, which is harmless only because
all it can find asleep are `acquirePort`s waiting for the very bit it has just cleared.
The same invariant gives the action property `ClearedMaskWakes`.

`DeliveryProofs`. `QueueInv == OwnerInv /\ ResetInv /\ DataOK /\ QueueCoherent`:
what the three stores of a reset have done so far, and that the data of a call is
made of bytes. With the lemmas of `SccQueueLemmas` each step of the driver is a
step of `ByteFifo` or a stutter; the reset's first store is its flush. `PointersTell`
follows from `QueueCoherent`.

`StatusStaysCurrent` is about `StatusSpec`, in every `OpenMode`, and has an invariant of
its own,

    StatusInv == IInv /\ OvertakenOK /\ ToldOK
                   /\ \A t \in Checkers \ overtaken : ReadingOK(t)

`ReadingOK` follows a `checkQueues` that was not overtaken from label to label: the count
it read is still the count, the bits it computed are those of the queue, and what its
pending write will leave of the RX bits is right, although other bits of the word change
in between. `ToldOK` says that after such a write the bits are right whenever it is
`Quiet`: the lock is free, or its holder has not yet changed the queue, or has told of its
change. A sender or a reader that changes the queue ends the quiet (`QuietBefore`), and
only a `checkQueues` of its own, which counts as a new telling, brings it back; this is
where the lock is needed (`OneInRXSection`, part of `IInv`). `StatusCurrent` alone says
nothing of the steps in between.

`NotificationsProofs`. The inductive invariant is

    IInv == TypeOK /\ Shape /\ ConfigLegal /\ ReadsBack

`Shape` is where the threads are, that a thread about to send has an information
message, and the form of the queue's messages and of the window. The lemmas say
which field of the record each event may change.

`WindowIsCurrent` is proved from

    DisplayInv == IInv /\ CallsOK /\ StateComing /\ InfoComing

`DisplayCurrent` speaks only of an empty queue, so it says nothing of the steps before.
`StateComing` and `InfoComing` say of every state what the window will show once the
messages in the port are taken: the state of the last one that has a state, and what the
last one about parameters leaves of them (a state of 0 blanks them). Appending a
message and taking the oldest one keep both. `CallsOK` says in which phases of a call the
state word is 0 or active, and that the copy a session is about to send is current:
only `getInfo`'s can be overtaken. There are no assumptions beyond those of the modules.

`UserClientProofs`. The inductive invariant is

    IInv == TypeOK /\ DriverInv /\ LifeInv /\ PointerInv /\ OpenerIsAlive

Its parts say how far `start` and `stop` have got by what is held, which lives are
possible in each phase, and (`PointerInv`) that a pointer to a client that ever
opened the driver is to its present opener; since an opener has not been stopped,
`NoPointerLeftBehind` follows.

Only model-checked: liveness (`DataDrains`, `CallsReturn`, `DisplayCatchesUp`,
`UnloadCompletes`), which needs fairness and ENABLED and is beyond TLAPS. Every other
property that a passing run checks is stated by a theorem. The violation runs' properties
do not hold in general; the first four are theorems of the quiescent mode
(`NoReferenceIsLeft`, `ReleasedIsFree`, `ClearedMaskWakes`, `PointersTell`).

## 5. What could follow

1. What a call does with a lock that `stop` freed, and the window between testing and
   using `client`: `UserClient` shows calls inside the driver during and after `stop`, but
   not their use of the lock, because the code has nothing that would make any property
   of it true.
2. `VirtualSerialPort` and `Notifications` composed in one model, to see queue bits
   in the tester's window.

## 6. Not modelled

The TX queue, to which no code adds; `enqueueData`, `nextEvent` and `dequeueEvent`,
which change nothing; the readings of `requestEvent` that are not of a UART parameter;
the flow-control states, which nothing moves; the mach port's bound and what the kernel
does at it; the use of a freed lock; the life of the driver object; the unlocked test of `client`; the copying of
the parameters field by field; logging; IOKit's own bookkeeping (matching, registry,
reference counts of user clients); how the tester encodes the text it sends; the user
interface, the install script and the project files.
