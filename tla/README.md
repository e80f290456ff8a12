# TLA+ specifications of the NoC simulator and of the ns-3 simulator it runs in

The repository is a fork of the ns-3 network simulator with a model of
Networks-on-Chip in `src/src/noc`. That directory is the program's own core. The
modules `Noc...` specify its behaviour: how flits move from router to router, when
queues are retried, and what the network promises the processing elements. The
modules `Ns...` specify what it stands on: the event simulator (`src/src/simulator`)
with its exchangeable event lists, its realtime variant, in which threads schedule
events while the main thread waits for the wall clock, and the device whose read
thread does so (`src/src/devices/emu`).

Terms: the code treats every flit as an ns-3 packet; what it calls a *message* or
*packet* is a head flit followed by data flits, the last of which is a tail flit.

## 1. Inventory

| Component | State | Operations | Talks to |
|---|---|---|---|
| `NocNetDevice` | input queue `m_inQueue`, per flit `SrcDest` (`m_pktSrcDestMap`), `m_lastScheduledEvent`, `m_viaNetDevice` | `Receive`, `Send`/`SendFrom`, `ProcessBufferedPackets` (also scheduled), `DequeuePacketFromInQueue` | channel, node, switching protocol, simulator |
| `NocChannel` | per link `m_state`, `m_currentPkt`, `m_packetOriginalDevice`; power counters | `TransmitStart`, `Send`, `TransmitEnd` (scheduled), `IsBusy`, power measurement | both net devices |
| `NocNode` | its router | `InjectPacket`, `Send`, `DoSend` | router, net devices |
| `NocRouter`, `FourWayRouter`, `IrvineRouter` | devices, internal input/output device, load and power counters | `ManageFlit`, device search, load, power | routing protocol |
| `NocRoutingProtocol` | per head UID the devices of its route | `RequestRoute`; `RequestNewRoute` of XY, DOR, XYZ, SLB, SO | router, header |
| switching protocols | `m_flitCount`, `m_blockedHeadFlits` | `ApplyFlowControl` | tag and header of a flit |
| `NocHeader`, `NocPacketTag` | distance and source bytes; type, head UID, blocked, times | offsets, directions, `IsEmpty` | - |
| topologies | nodes, net devices, channels | `Install`, relative positions | everything above |
| `NocSyncApplication`, other generators | counters of bytes and flits, index in the packet | `SendFlit`, `ScheduleNextTx` | node |
| `NocCtgApplication` | task graph iteration, received flits per task | `FlitReceivedCallback`, `SendFlit`, `ScheduleStartEvent` | node, net device trace |
| `DefaultSimulatorImpl` | last event (`m_currentTs`, `m_currentUid`), `m_uid`, `m_unscheduledEvents`, `m_stop`, `m_destroyEvents` | schedule operations, `Remove`, `Cancel`, `IsExpired`, `Run`, `Stop`, `Destroy`, `SetScheduler` | scheduler, everybody's events |
| schedulers (list, map, heap, calendar) | the pending events in their data structure | `Insert`, `PeekNext`, `RemoveNext`, `Remove` | simulator |
| `RealtimeSimulatorImpl`, `WallClockSynchronizer`, `SystemCondition` | the same, `m_mutex`, origin of the wall clock, `m_condition` | the same, `ScheduleRealtime...` from any thread, `Synchronize`, `Signal`, `TimedWait` | all threads |
| `EmuNetDevice` | `m_sock`, `m_readThread`, `m_pendingReadCount`, start and stop events | `Start`, `Stop`, `StartDevice`, `StopDevice`, `ReadThread`, `ForwardUp` | realtime simulator, operating system |
| fault insertion | faulty elements, start times | `Schedule`, faulty variants of node, router, channel, device | simulator |
| traffic patterns, registry | attributes | bit permutations | applications |

The NoC model runs in one thread: the simulator takes one event after the other, and an
event runs with all the calls nested in it. What is hard is not parallelism but the
order of events. A `TransmitEnd` is scheduled when a transmission starts, and what
`TransmitStart` saw is used after other events have run. Retries are scheduled by a
comparison that tries to avoid duplicates. Flits of several packets are interleaved
in bounded queues that wait for each other. The realtime simulator and the emulated
device are different: there threads interleave, share counters and wait for each other.

What makes the components correct:

* net device and channel: a flit is never dropped, lost or duplicated; the flit on a
  link is the first of the queue of the device the channel holds as its sender; no
  assertion fails; a waiting flit is tried again in bounded time; queues never wait
  in a circle;
* routing and header: the header tells the distance that is left; body flits take
  the way of their head;
* switching: a head flit is held back as the protocol's documentation says;
* the network: what is injected arrives once, at the right node, in order;
* traffic generator: packets are injected whole, one flit per clock cycle, within the
  limits and until the stop; an attempt that fails does not end the attempts;
* task graph: every iteration starts once, after its data has arrived and the core is
  free, and sends all its data, however iterations overlap;
* simulator: the earliest event comes next, whatever the list; every event runs once or
  is withdrawn; an `EventId` tells whether it is still pending; time never goes back;
* realtime simulator: no event runs before its time, no wake-up is lost, no wait lasts
  for ever;
* emulated device: the count of pending reads is right, and stopping ends the thread
  unless it waits for a frame or for the main thread;
* power counters (planned): load within [0, 1]; faults (planned): the right element
  at the right time.

The hazards, each at its line, are listed in `PROJECT.json`.

## 2. The modules

| Module | What it models |
|---|---|
| `NocHeader` | the distance byte of a dimension, direction bit, offset, `IsEmpty`; bytes are taken modulo 256 |
| `NocTopology` | `Install` of the seven topologies (channels, net devices of every node) and their relative positions |
| `NocRouters` | the search for input, output and injection devices of `FourWayRouter` and `IrvineRouter` |
| `NocRouting` | `RequestNewRoute` of `XyRouting`, `XyzRouting`, `DorRouting`, `SoRouting`, `SlbRouting`, as the set of routes it can return |
| `NocWalk` | composes these four: the way of a head flit through one network |
| `MCWalk` | the networks of `NocWalk` for TLC |
| `NocTransport` | net device, channel, node, `ManageFlit`, `RequestRoute`, the three switching protocols; for any topology and routing (CONSTANTS); implements `NocDelivery` |
| `NocDelivery` | the abstract specification: what the network promises |
| `NocMesh` | `NocTransport` on any mesh of `NocTopology` with the dimension order routing of its class (`NocRouting`): the values that its constants have there |
| `MCMeshTransport` | two meshes and their traffic for TLC |
| `NocClock` | simulated time, and the clock edge at which the next event is scheduled; one formula in the net device and both applications |
| `NocWakeup` | the clocked scheduling of `ProcessBufferedPackets` in one net device, with simulated time |
| `NocSyncApplication` | the synchronous traffic generator of one node, with simulated time |
| `NocCtgApplication` | one node of a communication task graph, with simulated time; the flits of its predecessors are the environment |
| `MCCtg` | the applications (`Setting`) of the task graph for TLC |
| `NsSimulatorImpl` | the members of `DefaultSimulatorImpl` except the event list, and what its methods do to them |
| `NsSimulator` | the abstract specification: `NsSimulatorImpl` with a set of pending events, the earliest of which is next |
| `NsScheduler` | `ListScheduler`, `MapScheduler`, `HeapScheduler`, `CalendarScheduler` as operators |
| `NsEventQueue` | composes `NsSimulatorImpl` and `NsScheduler`; implements `NsSimulator` |
| `NsRealtime` | `RealtimeSimulatorImpl` with `WallClockSynchronizer` and `SystemCondition`, the main thread and others |
| `NsEmuDevice` | the read thread of `EmuNetDevice` and the main thread that starts and stops it |
| `NocTransportProofs`, `NocMeshProofs`, `NocNodeProofs`, `NocCtgApplicationProofs`, `NsSimulatorProofs`, `NsEventQueueProofs`, `NsRealtimeProofs`, `NsEmuDeviceProofs` | theorems |

### NocTransport and the code

| Variable | Code |
|---|---|
| `inQueue` | `m_inQueue` and `m_pktSrcDestMap` of every device; an entry is a flit, the output device `via` and the destination device `to` |
| `linkState` | `m_state` of each link; a link is the set of devices that send over it: one in full duplex, both in half duplex. TRANSMITTING only exists inside a call |
| `transmitEnd` | the pending `TransmitEnd` events, each with `m_currentPkt` |
| `originalDevice` | `m_packetOriginalDevice` |
| `routes` | `m_packetSourceNetDevices`, `m_packetDestinationNetDevices` |
| `injected`, `received`, `dropped` | what the traces would show (`Drop` is only a trace in the code) |
| `aborted` | the failed assertion that ended the program |

Actions are simulator events with everything nested in them. `InjectHead` and
`InjectBody` are `NocNode::InjectPacket`, `TransmitEnd` is that of the channel (it
dequeues at the sender, then `Receive` at the other end delivers the flit or routes
it and buffers it with `SendFrom`), `Retry` is the scheduled
`ProcessBufferedPackets`. The calls that are nested take as parameters the queues
and the other values computed so far in the event, in the order of the code. For
instance, the link is still PROPAGATING while `Receive` runs and idle afterwards
(`freed`).

`NocTransport` leaves out simulated time: any pending event may be next. This allows
all orders the code can produce, and more. `NocWakeup` covers the timing of retries.
It also leaves out addresses (a device is its address), traces, power and load
counters (the four way router has no load component), and the counting of data flits
by SAF and VCT: `SetDataFlitCount` is never called in `src/`, the tag's count is
therefore always 0, and both branches of the counting code let a data flit pass.

Operators marked *mutant* in the modules are the definition that follows with one
mistake; they document which property notices which mistake.

### NocTopology, NocRouters, NocRouting, NocWalk and the code

A topology is what `Install` leaves behind: the channels, from which follow the net devices
(`NetDevicesOf`), the devices of a node (`Devices`) and the other end of a device's channel (`Peers`). The loops of
`Install` remember the channel of the node before, or a channel for each column,
and add a BACK device when they come to its second node; the model names the two ends
at once. The order of creation matters only where two devices of a node
have the same direction; a `number` keeps it.

The operators of `NocRouting` return sets. They are empty where an assertion fails or an
empty vector is read, and have several elements for the adaptive protocols, which
depend on which channels are busy: any subset of the devices may be.

`NocWalk` follows one head flit. Its only action, `Hop`, is `ManageFlit` at the device
`at` and the arrival at the other end; `status` is "received" when that is the
destination device of the route on the destination node. Queues, the order of events and
the flits that follow the head are in `NocTransport`. The adaptive protocols are only
modelled on `FourWayRouter` and two dimensions; with flows that go forward in one dimension and back in the
other they meet the situation of the run `so_turns` (SLB: a detour), so that `walk`
has only their other flows. The Irvine mesh is only walked along its lines, for the reason that
the run `irvine` shows. `Torus2D` is only modelled with a vSize that fits.

### NocWakeup and the code

`queue` holds only the kind of each flit, since the speedup depends on it; `events`
counts the pending `ProcessBufferedPackets` by time; `transmitEndAt` is the pending
`TransmitEnd` of the first flit. `NextClock` allows the outcome one clock cycle later
that `ceil` of a floating point quotient can have at a clock edge. The other net
devices are the environment: flits may arrive at any time, and a start may be refused
at any time. The case of a zero `GlobalClock` is left out: `ManageFlit` and
`TransmitEnd` divide by it, so no flit can be transmitted with it.

### NocSyncApplication and the code

The variables are the members of the class (`sendEvent` is `m_sendEvent`: the time it
is due, or `Nothing`), the two events of `Application`, and `injected`, the sequence
of the flits `InjectPacket` was called for. `StartApplication`, `StopApplication`,
`StartSending` and `SendFlit` are the simulator's events with all that is nested in
them; a `SendFlit` that draws its own node is `SkipSelf`, one that the injection
probability refuses `SkipPacket`, the others `InjectFlit`. The uniform destination
is any node; the bit patterns map a node to one destination, a constant. The
injection probability is one of four classes that `rand () % 100 + 1 <= p * 100` can
tell apart: 0, less than a percent, in between, and 1. Events of one time run in the
order in which they were scheduled, which puts start and stop first.

### NocCtgApplication and the code

`setting` is what the helper sets up before the start: attributes, the list of data to
send, the predecessors with their flits; it never changes. The vectors of the class
are functions of the iteration. `started` records the start
events, `sent` the bytes each destination got in each iteration. The flits of a
predecessor arrive in their order, interleaved with those of the
others, at any time, also after the stop. All iterations are scheduled in
`StartApplication` when the node waits for nobody: `StartTimes` are the
times that this loop can compute, none of which is later than `LatestStart`. `ScheduleNextTx` cancels the events of all
iterations when one of them has reached a limit, as `StopApplication` does in the
code. Data is counted in bytes; the code's `double` holds bits.

### NsSimulatorImpl, NsSimulator, NsScheduler, NsEventQueue and the code

The variables are the members of `DefaultSimulatorImpl`; `issued`, `invoked` and
`withdrawn` are history. An event is its time and UID, and its `EventImpl` has the number
of the UID. The program's code runs between the steps: `phase` tells whether it is called from
the main program ("idle"), from an event ("run") or from a destroy event ("destroy"). An event that
makes several calls is several steps at the same `phase`. `HandleEvent` is `ProcessOneEvent`, from
the beginning of `Run`, from its loop, or from `RunOneEvent`. After `Destroy` has begun the
model does not run again; a simulator that is made anew by `Simulator` is a new
behaviour, in which old `EventId`s would be compared with new times and UIDs.

In `NsScheduler` a list is a record with its kind. The heap is the sequence `m_heap`
without its unused first item; the two parts of `TopDown` that treat one and two
children are one. A loop of the code is `Loop(Turn, s, n)`, n turns of which those after its
end change nothing; n is a number of turns that is always enough. The calendar has `m_buckets`, `m_width`, `m_lastPrio`,
`m_lastBucket`, `m_bucketTop`, `m_qSize`; its searches look at the buckets from
`lastBucket` on (`Found`). `NewWidth` takes the samples out and computes the width as the
code does, modulo `WidthModulus`, because it is returned as a `uint32_t`.

`m_uid` is a `uint32_t` and wraps around after 2^32 events, when an event could get UID 2 and
be taken for a destroy event; `MaxUid` excludes this.

### NsRealtime and the code

`pc` is where the main thread is in `Run`, `ProcessOneEvent`, `DoSynchronize`,
`TimedWait` and `SpinWait`; `waited`, `target`, `wait` and `deadline` are the locals it
carries. A critical section of `m_mutex` is one step of the main thread; a schedule
operation of another thread is three (insert, `SetCondition`, `Signal`), with the mutex held
(`mutex`), because `m_condition` is read without it. Between any two steps the wall clock
may go on. `TimedWait` sleeps at `asleep`; a `Signal` wakes it only there, and it tests the
condition again at `check`. The mutex of the condition variable is held from the test to the sleep, so
that the two are one step (`CheckCondition`).

`Run` sets `m_running` and then the origin, two steps that other threads can see; both are
read without a lock that `Run` holds, and each read or write is taken as atomic. `Remove` and
`Stop` are only called by the main thread (they signal nobody, and a `Stop` from elsewhere
would be seen after the next event). The default mode `SYNC_BEST_EFFORT` is modelled.
Contexts are left out (`ScheduleRealtimeWithContext` never sets that of its event), and cancelling,
destroy events and exchanging the list, which are as in `NsSimulator`.

### NsEmuDevice and the code

`reader` is where `ReadThread` is, `main` whether the main thread is in `Join`. The
simulator is reduced to what `NsRealtime` promises: the earliest event is taken when it
is due. `Start` and `Stop` are called by the main program or an event; the constructor calls
`Start`. `exits` counts the threads that ended with a read counted. A frame may arrive
whenever the thread is in `recvfrom`, also after the socket was closed: on a packet socket
`close` in another thread does not end a call that waits, which keeps the socket and returns
with the next frame. The call after it finds `m_sock` to be -1 and fails.

## 3. What the runs check

| Run | Configuration | Shows |
|---|---|---|
| `corners` | 2x2 `MeshND` with `DorRouting`, queues of one place, full duplex, virtual cut through, four flits between opposite corners | no drop; no failed assertion; `Flight`; `Conservation`; `NoWedge`. All four turns of the mesh are wanted at once by four flits and every queue has one place: the smallest situation in which a cyclic wait can arise |
| `line` | 3x1 `Mesh2D` with `XyRouting`, queues of two, half duplex, store and forward, three flits in packets, fair | body flits always find their route; implements `NocDelivery!DeliverySpec` (once, at the right node, in the order of the packet) and `DeliveryFairSpec` (every flit arrives) with two flows that share a link and one against them |
| `walk` | sixteen networks: 2D meshes (4x3, 1x4), 2D torus (4x5), 3D mesh (3x2x2), 3D torus (3x2x4), n dimensional mesh (2x3x2) and torus (5x4), Irvine mesh (4x2); XY and XYZ with every setting of the attributes that matters, DOR, SO, SLB; fair | `WalkTypeOK`, `RouteIsFound`, `HeaderTellsDistance`, `TakesShortestRoute`, `DimensionsInOrder`, `Arrives` for every flow |
| `wakeup` | clock 4, speedup 2, 3 clock cycles, queue of 3 | the retry is pending within two clock periods, since one is pending at `m_lastScheduledEvent` or later |
| `sync` | packets of three flits, uniform destinations among three nodes, attempts may fail, both limits, a stop at a clock edge | `PacketsAreWhole`, `OneFlitPerClock`, `RespectsLimits`, `StopIsFinal`, `StaysScheduled`: enough attempts for two packets with failures and own-node draws in between, and for the flit limit, the byte limit or the stop to come first |
| `ctg` | five applications: a source with three iterations that overlap and a destination on itself, two sources with both limits and a stop, of which one meets its flit limit and the other its byte limit first, a relay whose two predecessors have two iterations each (those of one overlap), a sink; fair | `SendsTheData`, `StartsOnce`, `ExecutionsApart`, `ExecutesInTurn`, `NoIterationLost`, `RespectsLimits`, `StopIsFinal`, `AllIsSent` |
| `events` | five events with delays 0, 2 and 4, a destroy event, one event removed or cancelled, the four lists, exchanged at any time | `NoAssertionFails`, `ExpiredIsExact`, `EventsAccounted`, and that `NsEventQueue` implements `NsSimulator` |
| `realtime` | one other thread, delays 0 and 5, two events, two calls of `Run`, a second of six nanoseconds; fair | `NoAssertionFails`, `NoWakeupIsLost`, `DueWhenTaken`, `EventsRun` |
| `emu` | three pending reads at most, three frames, three calls of `Start` or `Stop` with delays 0 and 1 besides the constructor's; fair | `PendingIsAccounted`, `StopReturns` |

The type invariants of `NocTransport`, `NocWakeup`, `NocSyncApplication`, `NsSimulator`,
`NsRealtime` and `NsEmuDevice` are not among the properties of the runs, because they are proved.

In `walk`, sizes 2 to 5 have odd and even rings, one half of which is a tie or is not,
lines of one node (where `Install` makes a superfluous channel, `noc-mesh-2d.cc:116`), and
inner nodes with all devices. `TakesShortestRoute` and `HeaderTellsDistance` compare with
`HopsBetween`, a breadth first search over the channels that knows neither coordinates nor
directions. `MaxHops` is 8; no distance in the networks is longer, and a flit that makes
8 hops has failed `Arrives`.

Bounds: `MaxInjected` (how many flits), `MaxTime` and `MaxPending` (simulated time
and arrivals while events accumulate in `NocWakeup`). Four flits are enough for the
circular wait of a 2x2 mesh, and three on the line for a packet with a head, a data
and a tail flit, or two packets whose flits interleave. `MaxPending = 2` allows the
duplicate events that the code makes. In the applications `EndTime` is the end of the
simulation, late enough for two packets of the generator (`MaxTries` attempts, which
matter because failed ones take no time) and for all iterations of the task graph.
Deadlock is not an error in any run: a
simulation ends when no event is left or the bounds are reached; `NoWedge` and
`DeliversEveryFlit` say that it does not end early.

In `events`, five events fill the calendar beyond twice its two buckets, so that it
grows to four and shrinks again to two and one, and from one to two with a third event. The
delays are 0, for events of one time, and 2 and 4: the width that is then computed is 1, or 6
for gaps that add up to 2, or 12 for gaps that add up to 4. `WidthModulus` is 8 instead of
2^32, so that 12 is truncated to 4: events are inserted, searched and removed in calendars
of two buckets of width 6 or 4 and of four buckets of width 4. No width becomes 0, at which the code would divide by zero: that
takes gaps that add up to a multiple of `WidthModulus`, in the code of 2^32. The heap is
excluded from `Remove` (`RemovingKinds`) because of what `heap_remove` shows. In
`realtime` the clock starts at 11 and stands still at `MaxClock` 17: a wait is longer than the
three jiffies that are spun (delay 5), it crosses a second and its nanoseconds reach the
number of a whole second; `EventsRun` speaks of events due before `MaxClock`. In `emu` up
to three reads are counted: the limit is met by three frames, and by a stop's leaked read with two frames, and
a stop after a leaked read also happens below the limit.

Three more runs check a comment or an assertion that the code contradicts:

* `heap_remove`: `NS_ASSERT (next.key.m_ts >= m_currentTs)`
  (`default-simulator-impl.cc:121`) fails after `HeapScheduler::Remove`, which puts the
  last event of the heap where the removed one was and moves it down only. With seven
  events this place can be below an event that is later.
* `irvine`: `NS_ASSERT (m_sourceNetDevice != 0)` (`xy-routing.cc:224`) fails for a flit
  between two lines of an Irvine mesh. Its vertical FORWARD devices lead to the earlier
  line, but the header says forward for a later one, so at the border the device does
  not exist.
* `so_turns`: "eliminate the direction from which the packet came"
  (`so-routing.cc:150`). The comparison leaves the dimension out: a flit that went west
  to node (0, 0) came in at a FORWARD device and may not leave through the FORWARD
  device of the other dimension either, which is the only one it could use. The
  selection then reads the first element of an empty vector.

Other differences between the code and its documentation, which no run checks:

* "The header flit is forwarded to the neighboring router after it receives the tail flit"
  (`saf-switching.h:39-40`). The scheduled retry passes no packet and so skips
  `ApplyFlowControl`, and the number of data flits is never put in the tag: with store and
  forward the head flit leaves before the tail flit is there.
* `IsEmpty` is meant to tell dummy headers (`noc-header.h:102-104`), but a head flit from
  node (0,0) has an all zero header once its offsets are used up, and the switching
  protocols take it for a data flit.
* `DataPacketSpeedup` is documented for data flits (`noc-registry.cc:68`); the code tests
  for head flits.
* "The number of flits composing a packet" (`noc-ctg-application.cc:73`); `SendFlit`
  makes it smaller for all iterations, and one that is in the middle of a packet then
  makes it longer. With 10 bytes for one destination, then one for another, and packets of three
  flits of 1, 2 and 2 bytes, an iteration that overlaps can so bring 11 bytes where the one before brought 10.
* `MaxBytes` and `MaxFlits`: "both constraints must be met for the application to
  stop" (`noc-sync-application.cc:131-132` and 138, `noc-ctg-application.cc:79` and 85); the
  first one that is reached stops it. `RespectsLimits` states what the code does, in both
  applications, and so the opposite of this help.
* `m_totFlits` is the "Total flits injected so far" (`noc-sync-application.h:152`); it
  also counts the attempts that inject nothing.
* The received data "obviously cannot exceed m_totalData" (`noc-ctg-application.h:287`);
  flits are counted whole and only the current iteration is cut, so a node can start
  with a part of its data missing when the flits of another predecessor carried more
  than its data.
* `m_lastScheduledEvent` is meant to prevent two events at the same time
  (`noc-net-device.h:426-427`). It holds the current time plus a clock period, not the
  clock edge of the event, so duplicates happen. They are harmless.
* "iterated, with the specified period" (`noc-ctg-application.cc:66`): the delay of i
  periods is added to the end of iteration i - 1, so the distance grows.
* The load that SO and SLB compute is set in a local copy of the tag
  (`slb-routing.cc:394`) and never reaches the packet: all neighbour loads are 0.
* `NocTorus2D` has an attribute vSize for distances that `Install` does not read.
* "Time at which the application will stop" (`application.cc:47`): flits that arrive
  after it start the next iteration of a task graph node.
* `DoSetOrigin` (`wall-clock-synchronizer.cc:91`) ignores the simulation time it is
  given, so that in a second `Run` real time begins at zero while `m_currentTs` goes
  on: the assertions of the realtime schedule operations fail. `NoAssertionFails` of
  `NsRealtime` has this exception.
* "Wait a maximum of ns nanoseconds" (`system-condition.h:93`): line 144 of
  `unix-system-condition.cc` compares with `>`. When the nanoseconds add up to exactly a
  second the time is invalid, and `TimedWait` loops without sleeping until somebody
  schedules an event. `EventsRun` has this exception.
* "Cancel any pending stop event and schedule a new one" (`emu-net-device.cc:254`): the
  event is stored in `m_startEvent`. Two stops both run, and the second fails an assertion; a
  later `Start` cancels a pending stop.
* `StopDevice` closes the socket and joins the read thread on the main thread (`emu-net-device.cc:621-627`),
  which can wait for ever in two ways. A `recvfrom` under way is not ended by `close`, so
  without a further frame `Join` hangs with the whole simulation. And while
  `m_pendingReadCount` is at its limit the read thread does not look at the socket but waits for
  `ForwardUp` on the main thread. `StopReturns` names both and excludes any other; without either
  alternative TLC finds the wait. Besides, the read that was counted before a failing `recvfrom` is never given
  back, so that after `RxQueueSize` stops the device does not read any more.
* With `hSize` 1 a mesh gets a horizontal channel after its first node
  (`noc-mesh-2d.cc:116`); no route uses it.

### Fairness

`FairSpec` assumes weak fairness of `TransmitEnd` for each output device, and of
`Retry` for each device. A `TransmitEnd` is scheduled a finite time ahead and
the simulator takes events in the order of time, so it happens. While its queue
is not empty, a device has a `ProcessBufferedPackets` pending at most two clock
periods ahead (theorem `WakeupInTime`), so one that can start its first flit from
some time on does start it. Injection is not assumed to be fair: the traffic
generators may stop.

`FairWalk` assumes weak fairness of `Hop`: a waiting flit is tried again, and other
traffic leaves, which is what `NocTransport` and `NocWakeup` are about.

`FairSpec` of `NocCtgApplication` assumes weak fairness of the whole next-state relation:
the simulator runs its events until none is left.

`FairSpec` of `NsRealtime` assumes weak fairness of the clock, of the steps of the main thread while
it is in `Run`, and of each thread's way to the end of a schedule operation: the operating
system runs every thread that can go on, and an event that the main thread handles returns.
Nothing obliges a thread to schedule anything. `Spec` of `NsEmuDevice` assumes the same of the
clock, of the events, of `Join` and of the read thread's own steps; frames need not arrive, so nothing
obliges a `recvfrom` that waits to return.

## 4. What is proved

`NocTransportProofs`, for every finite or infinite set of nodes and devices, every
pairing of devices by channels, every routing function whose routes have the right
types, every queue size of at least one, all three switching protocols, full and
half duplex. Assumptions: `TopologyAssumption`, `ConfigurationAssumption`,
`RoutingAssumption` of `NocTransport`.

* `TypeCorrect`: `Spec => []TypeOK`.
* `NoFlitDropped`: `Spec => []NoDrop`.
* `FlightCorrect`: `Spec => []Flight`.
* `FlitsConserved`: `Spec => []Conservation`.
* `TransmissionSucceeds`: the assertions of `TransmitEnd` never fail; what is left is
  a missing route.
* `NoAssertionEverFails`, `DeliveryImplemented`: if the routes lead to the destination (`RoutesLead`),
  `Spec => []NoAssertionFails` and `Spec => DeliversInOrder`.
* `NeverWedged`: if moreover the routes take the channels in an order (`RoutesAscend`), `Spec => []NoWedge`.

None of the first five properties is inductive alone. That nothing is dropped needs that the
room seen by `TransmitStart` is still free at `TransmitEnd`; this needs that nobody
else fills the queue, i.e. that a device receives from one link with one flit on it
at a time; that needs `linkState` to agree with the pending events; and dequeuing the
right flit needs that the sender a channel remembers for a UID is the device that has
this flit at the head of its queue, which needs that a UID is at one place only. The
invariant `IInv` is the conjunction. Its part `NetInv` is a relation of four
values (queues, remembered senders, flits in flight, link states), because one event
changes them in three steps and the values in between belong to no state. There is
one lemma for each step (`DequeueKeepsNetInv`, `AppendKeepsNetInv`,
`ProcessKeepsNetInv`), one for each handler built from them
(`SendFromKeepsNetInv`, `NodeSendKeepsNetInv`), one for each action, and `NextIInv`.

The last three depend on the routing algorithm, about which `RoutingAssumption` says
only that its routes have the right types. `RoutesLead (Way, Distance)` and `RoutesAscend (Way,
Rank, Highest)` are what they need: for a device with a flit for a node in `Way`
(where, with which header, to which node) there is a route; the device at its other
end is again in `Way`, one step nearer, or is the one that takes the flit; and the rank of
the channel grows from one hop to the next. Ports that are never used, and headers that never occur
there, are outside `Way`. No route is missing because the invariant says that every head is in `Way`
and that the nodes it has passed remember its route, each leading to the next (its *trail*), and that each body
flit is on the trail of its head. Flits arrive in order since all of
a packet take one trail, no two are at one place in the wrong order, and a queue is first in,
first out. `NoWedge` is shown with a waiting flit whose channel has the highest rank: nobody
holds the place it waits for. There is a highest one because ranks are bounded, and every
set of natural numbers has a least element (`NatLessThanWellFounded`).

`NocMeshProofs` on `NocMesh`, for every mesh with dimension order routing (`DimensionOrderMesh`) and all that `NocTransport`
leaves open: flows, queue size, switching protocol, full and half duplex (`MeshAssumption`, `ConfiguredAsMesh`). It is
a 2D mesh with XY routing and either value of `RouteXFirst`, a 3D mesh with XYZ routing and any values of its four
attributes, or an n dimensional mesh with DOR and any order of its dimensions; complete, with `FourWayRouter` and up to
128 nodes in each dimension, so that a distance fits in seven bits.

* `MeshMeetsAssumptions`: `TopologyAssumption` and `RoutingAssumption` of `NocTransport` hold for what `Install` makes and
  `XyRouting`, `XyzRouting` and `DorRouting` answer.
* `MeshRoutesLead`, `MeshRoutesAscend`: the hypotheses above hold, with the sum of the differences of the coordinates as
  the distance, and as rank the position of the dimension in the order (times 129), then the position along the direction of the channel.
* `MeshNeverAborts`, `MeshDeliversInOrder`, `MeshNeverWedged`: `Spec => []NoAssertionFails`, `Spec =>
  DeliversInOrder`, `Spec => []NoWedge`.

`MeshWay` says that the header points from this node to the destination (`Points`), and that a head that came over a channel neither
turns back nor has an offset left in a dimension that comes earlier in the order (`KeepsTurns`). The three kinds of mesh are
one `OrderedGrid`: coordinates are the digits of the node in
mixed bases, so that nodes and places correspond one to one, the channels join places that differ by one
in one dimension, and the routing function takes the first dimension of the order
in which the header has an offset left. For any grid one lemma gives the only route of a head and the node it leads to
(`HopOnGrid`); `HeadHops` is this lemma with the devices of the mesh, `HeadKeepsTurns` that the next device
is in `MeshWay` again, `HeadAscends` that the rank grows. `ConfiguredAsMesh` equates the constants of `NocTransport` with those of the
mesh; TLC evaluates it, and `MeshAssumption`, in `corners` and `line`, and `DimensionOrderMesh` for nine more networks in `walk`.

`NocMeshProofs` on `NocWalk`, with no assumption on the set `Noc` of networks: when the walk is through a
mesh with a dimension order (`MeshWithOrder`), from every node to every other,

* `WalkKeepsTypes`, `MeshRouteIsFound`: `[]WalkTypeOK`, `[]RouteIsFound`.
* `MeshHeaderTellsDistance`, `MeshTakesShortestRoute`: `[]HeaderTellsDistance`, `[]TakesShortestRoute`.
* `MeshDimensionsInOrder`: `DimensionsInOrder`.

`MeshWithOrder` is such a mesh (`DimensionOrderMesh`) whose record names the order of its protocol. The invariant `WalkInv` says that the header points
from the device to the destination, and that a dimension before the one of the device is done. `HopsBetween` is the distance
in steps of the grid since no channel changes that distance by more than one and from
every node one channel makes it smaller (`HopsAreManhattan`, by induction on sets of numbers). The sum of the
offsets in the header is a fold, which is computed by induction as well (`FoldsExist`, `TotalIs`).

`NocNodeProofs` on `NocWakeup`, for every clock, speedup, delay, queue size and bound
(`ClockAssumption`):

* `WakeupTypeCorrect`: `WakeupSpec => []WakeupTypeOK`.
* `WakeupInTime`: `WakeupSpec => []RetryWithinTwoClocks`. The invariant adds `LastIsPending`:
  when `m_lastScheduledEvent` lies ahead, an event is pending at that time or later,
  so leaving out another one is safe.
* `FilterIsBacked`: `WakeupSpec => []LastIsPending`.

`NocNodeProofs` on `NocSyncApplication`, for every set of nodes, pattern, probability, packet length,
limit and stop time (`ApplicationAssumption`, `GlobalClockAssumption`):

* `SyncTypeCorrect`: `Spec => []TypeOK`.
* `InjectsWholePackets`: `Spec => []PacketsAreWhole`. The invariant says what the members
  know of the last flit: it is flit number `currentFlitIndex - 1` of the packet whose head
  is `currentHeadFlit`, and went to the destination that is kept.
* `InjectsOneFlitPerClock`, `LimitsHold`, `NothingAfterStop`: `Spec => []OneFlitPerClock`,
  `[]RespectsLimits`, `[]StopIsFinal`. They need that at most one of the events is pending,
  that none lies in the past, that it lies a clock cycle after the last flit, and that
  an attempt is only pending while `MayContinue` holds.
* `AttemptsGoOn`: `Spec => []StaysScheduled`.
* `FirstFlitIsNotDelayed`: `Spec => []FirstFlitAtStart`. The first flit is injected at
  `StartTime`, since attempts are repeated in that instant until one succeeds.

`NocCtgApplicationProofs`, for every task graph, clock, packet length, limit and stop time
(`CtgAssumption`, `GlobalClockAssumption`). `m_totalData` is computed by a fold over the
predecessors. That it is a natural number and not smaller than any term is proved by
induction over the size of a subset, as a statement about the least size that fails: for every
subset there is a function that satisfies the equations of the fold (`SumsExist`), the fold is its
value (`SumIs`), and a sum bounds its terms (`SumsBound`).

* `CtgTypeCorrect`: `Spec => []TypeOK`.
* `DestinationsGetTheData`: `Spec => []SendsTheData`. The invariant adds what the destination being
  sent to has got (`SentSoFar`): exactly `m_totalTaskBytes`, which is less than its data, and zero
  for the later ones and for the node itself.
* `IterationsStartOnce`: `Spec => []StartsOnce`. An iteration that was not started has no event
  and has sent nothing (`EventsOfIteration`), and a node that waits has only started iterations before
  the current one (`StartedBeforeCurrent`), so `FlitReceivedCallback` cannot start one
  again; this needs that a node with a predecessor waits for some data.
* `CoreExecutesOne`, `SinkExecutesInTurn`: `Spec => []ExecutionsApart`, `[]ExecutesInTurn`. The
  core is available when the last started iteration begins to send (`StartedIsInjected`).
* `IterationsKeepLimits`: `Spec => []RespectsLimits`. A send event is pending only while
  `MayContinue` holds.
* `IterationsNotLost`: if of every predecessor an iteration has at any time got as much as a later one
  (`IterationsInOrder`), `Spec => []NoIterationLost`. Only the flit that completes the current iteration
  can complete it, and the next one has not got more (`ArrivesInOrder`), so is not complete either. The comparison is between
  sums over all predecessors. To avoid an induction, a sum is stated as the number of elements of a
  set in which each byte is an element, and compared by an injection (`SumsInOrder`). TLC evaluates the hypothesis
  for the settings of the run. Predecessors that cut packets in the middle (above) can fail it; then an
  iteration is overlooked until the next flit, and one whose data is not all there counts as complete.
* `SourceStops`: `Spec => StopIsFinal`. The stop comes at its time, and leaves no event of any iteration
  to a node that nobody sends to (`StopInTime`).

`NsSimulatorProofs`, for every set of delays and every number of events, removals and
destroy events (`BoundAssumption`, `DelayAssumption`):

* `SimulatorTypeCorrect`: `Spec => []TypeOK`.
* `SimulatorNeverAborts`, `ExpiryIsExact`, `AllEventsAccounted`: `Spec => []NoAssertionFails`,
  `[]ExpiredIsExact`, `[]EventsAccounted`. That `IsExpired` is exact needs that a pending event is ahead
  of the last event in the order of keys (`PendingIsAhead`), which needs that UIDs are
  smaller than `m_uid` and belong to one event (`UidsAreOld`, `UidsAreUnique`); that `Remove` finds its event
  needs `ExpiredIsExact`; that the count is right at the end of `Run` needs that
  it is the number of pending events (`Counted`, by the theorems about finite sets). The three properties are stated in `NsSimulatorImpl`, for both the set and the schedulers.

`NsEventQueueProofs`, for every set of delays and bound, and any subset of `ListScheduler`, `MapScheduler` and
`HeapScheduler` as `SchedulerKinds`:

* `SchedulersImplementSimulator`: `Spec => ImplementsSimulator`, when the program does not call `Remove` while its list
  is a heap, where it does fail (run `heap_remove`). The invariant (`QueueInv`) is that the list is
  well formed and that its events have UIDs below `m_uid`. Well formed is, for the list, that the sequence is sorted;
  for the heap, that no event comes before its parent (`HeapOrdered`), from which the first one is the earliest
  by induction along the parents (`HeadIsEarliest`). For each operation one lemma says that it keeps the list well
  formed and what it does to `Contents` (`InsertIs`, `NextIs`, `RemoveFromIs`, `MovedIs`).
* The loops of the heap and of `SetScheduler` need induction over their turns, which the library's theorems do not give (they take
  an operator): `Induction` is proved from the well-foundedness of the natural numbers for a set of
  numbers, `LoopExists` says that the recursive function of a loop exists. `BottomUpIs` has as invariant of the loop that only the
  event at `index` may come before its parent, and that its children come after that
  parent (`RisesTo`); `TopDownIs` that only the children of `index` may come before it
  (`SinksTo`); `MovedIs` that both lists together hold the same events.
* `SchedulersNeverAbort`, `SchedulersKnowExpired`, `SchedulersLoseNothing`: `Spec => []NoAssertionFails`,
  `[]ExpiredIsExact`, `[]EventsAccounted` for `NsEventQueue` with these schedulers, from the refinement and the theorems of
  `NsSimulatorProofs`, of which this module has an instance.

`NsRealtimeProofs`, for any number of threads, any delays, clock resolution and bounds
(`RealtimeAssumption`, `ThreadAssumption`):

* `RealtimeTypeCorrect`: `Spec => []TypeOK`.
* `WakeupsAreNotLost`: `Spec => []NoWakeupIsLost`.
* `EventsAreDue`: `Spec => []DueWhenTaken`. The event that is taken is the earliest; the one that was waited for is
  pending, or an earlier one is, and the target of the wait has passed.
* `RealtimeAssertionsHold`: `Spec => []NoAssertionFails`.

`NsEmuDeviceProofs`, for any delays, limit of pending reads and bounds (`EmuAssumption`):

* `EmuTypeCorrect`: `Spec => []TypeOK`.
* `ReadsAreAccounted`: `Spec => []PendingIsAccounted`. The count is the cardinality of the pending forward
  events (`Accounted`, by the theorems about finite sets). `Start` cancels the event that
  `m_startEvent` refers to, so the invariant says that this is never one of the
  read thread's (`CancelsNoForward`), and that a device without a thread object has no
  thread (`ThreadIsKnown`).

Model-checked only: in `NocWalk` the tori, the Irvine mesh and the adaptive protocols; the calendar in
the refinement `ImplementsSimulator`; and liveness (`DeliversEveryFlit`, `Arrives`, `AllIsSent`,
`EventsRun`, `StopReturns`), which is out of the prover's reach. `DeliversEveryFlit` would follow from `NeverWedged` and
`MeshRoutesLead`: some flit can move, and each move brings it one hop nearer.

## 5. Plan

In the order of importance. Each module is a further instance of what is there, or a
component beside it.

1. `NocSyncApplication` in place of `InjectHead` and `InjectBody` of `NocTransport`.
2. The asynchronous and the on-off application.
3. `NocPower`: the counters of channel and router and the load assertions.
4. Load components and `AddNeighborLoad` (`FourWayLoadRouter`, `IrvineLoadRouter`), and SO and
   SLB routing with them.
5. `NocTransport` on tori (where dimension order alone does not exclude circular waits)
   and on the Irvine mesh.
6. `FaultInsertion`; `TrafficPattern` against reference definitions.
7. `NocSwitching` with the counts a tag could carry.

The theorems of `NocTransportProofs` need `RoutesLead` and `RoutesAscend` for each new topology. On a
torus with a ring of four or more nodes and flows between all of them `RoutesAscend` cannot hold: going
around the ring the flits use each channel after the one before it.

## 6. Not modelled

Numerical power and area models (`orion`, vendored), saving topologies and statistics
to files, serialization of headers, logging and traces. Of ns-3: `Ns2CalendarScheduler`
(its `PeekNext` moves the clock of the calendar, which needs a state of its own), the hard limit of the
realtime simulator, `TapBridge` (a read thread like that of the emulated device, without the count), and the
protocol stacks, devices and mobility models, which the NoC model does not use. Components that the plan
names are listed as not modelled in `PROJECT.json` until then.
