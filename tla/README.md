# MFiWrapper: a TLA+ verification project

MFiWrapper makes Bluetooth and HID game pads look like MFi game controllers to
an application. It lives inside the application's process: a *manager thread*
(the backend) talks to the pads, the application's *main thread* (the frontend)
owns the `GCController` objects, and a socket pair connects the two. On iOS a
second tweak inside `BTServer` changes some HCI packets so that pads can pair.

## 1. Inventory

| Part | Source | State | Operations |
|---|---|---|---|
| Protocol, Connection | `include/protocol.h`, `src/common.cpp` | `Packet`, `Position` of the packet being read; the socket buffers | `Send*`, `Read`, `Parse` |
| Backend | `src/backend/backend.cpp` | `nextHandle`, `devices`, `thread` | `HACKStart`, `AttachController`, `DetachController`, `SendControllerState`, `SendPausePressed`, `HandlePacket` |
| HIDManager | `src/backend/hidmanager` | one `Connection` per device | `DeviceAttached`, `DeviceReport`, `DeviceRemoved`, `SetReport`, `GetReport` |
| Pad drivers | `src/backend/hidpad/HIDPad*.cpp` | `pauseHeld`, index or LED byte, `needSetReport`, calibration | constructors, `HandlePacket`, `SetPlayerIndex`, `SetReport` |
| Wii Remote handshake | `src/backend/hidpad/wiimote.cpp` | `handshake_state`, flags, `exp.type`, LEDs | `wiimote_handshake` and the commands it sends |
| Frontend | `src/frontend/frontend.mm` | `controllers`, `connection`, the discovery block | `Startup`, `GetControllers`, `SetControllerIndex`, four packet handlers, discovery |
| Controller objects | `src/frontend/MFiWrapper.mm` | `playerIndex`, elements and their values | `controllerForHandle`, `setPlayerIndex:`, `tweakUpdateButtons:` |
| iCade keyboard | `src/frontend/keyboard.mm` | one input packet, `initialized` | `Event` |
| Hooks | `src/frontend/GCController_Hook_*` | the time stamp of the last key event | call the frontend |
| BTServer filter | `btserverfilter/src/BTServerFilter.cpp` | `ctx`, `deviceNames`, `localAddress`, filter tables | `read` and `write` hooks, five filters |
| Logger, packet logger | `src/log.h`, `PacketLogger.cpp` | none | output only |

How they interact. A pad's arrival runs `DeviceAttached` on the manager thread;
the driver's constructor calls `AttachController`, which enters it in `devices`
and writes a Connect packet. Reports become PausePressed and InputState packets;
removal deletes the driver, whose destructor calls `DetachController`, which
writes Disconnect. The main thread's run loop parses the packets, keeps the
`controllers` array and posts notifications. An application that sets
`playerIndex` writes a SetPlayerIndex packet the other way, and `controllerForHandle`
does so itself for every new object.

What is hard here, in one sentence each (every item is a hazard in
`PROJECT.json` with its line and its properties):

- packets cross: an index is set for a pad that is being removed, a pad is gone
  while its reports are still queued;
- no `Send` function looks at the result of `write`, so a full socket buffer
  loses packets silently, and a nearly full one takes the beginning of a packet;
- packets arrive in pieces, and `HandlePacket` runs application code that may
  run the run loop again;
- the application's blocks run in the middle of the library's functions: the
  completion block of discovery starts and stops discovery, a handler of an
  element sees an update half done and may let another one in;
- UIKit calls the key hook twice for every event, and a handler may let another
  event in between the two calls;
- drivers may talk to a pad only when it reports, and share static buffers;
- the Wii Remote's handshake is a state machine resumed by reports, while the
  user plugs and unplugs expansions;
- calibration is learned from whatever positions come first;
- the HCI filter patches a byte stream it sees in pieces.

What makes each part correct: handles and table entries agree and a handle is
never used again (Backend); the application's list is the list of plugged-in
pads, in order, up to packets in transit or lost (Frontend with Backend); the
byte stream is a packet queue (Connection); lights follow players and pauses are
presses (drivers); the driver knows what is plugged into a remote and always
ends its handshake (Wii Remote); values are bounded, signed, monotone (axes);
every completion block is called or replaced, and owned exactly as long as it is
needed (discovery); elements, handlers and the keys held agree after every update
(elements, iCade);
the filter keeps its place among events and data and answers with the right PIN, as
far as the packets and the writes let it (BTServer filter).

## 2. Modules

| Module | Models | State | Composed with |
|---|---|---|---|
| `Protocol` | packets and the socket pair | `up`, `down`, history `lost` | extended by the next two |
| `Backend` | manager thread, handle table, HIDManager callbacks | `thread`, `nextHandle`, `devices`, `pads`, history `reported` | |
| `Frontend` | main thread, array and objects | `connected`, `controllers`, `objects`, `crashed` | |
| `MFiWrapper` | the whole library | all of the above | extends `Backend` and `Frontend` |
| `Lifecycle` | what an application is promised about controllers | `plug`, `view` | implemented by `MFiWrapper` |
| `Link` | `Connection`, byte by byte | `buffer`, `position`, `data`, `handling` | |
| `PacketChannel` | a packet queue | `queue`, `handled` | implemented by `Link` |
| `WiiMote` | handshake, LED, mode and the data of expansions, with the remote and its user | driver, remote, two queues | |
| `Discovery` | the completion block of wireless discovery, with the calls made from inside blocks | the variable, the call stack, references | |
| `Elements` | one controller's direction pad and a button, with their handlers | floats, values, what handlers were told, the call stack | extended by `ICade` |
| `ICade` | what feeds the elements: packets, or the iCade keyboard and its hook | `Elements` plus the statics of both files and the keys held | extends `Elements` |
| `Pads` | Sony and Wii U Pro drivers: player light, pause, start of reports | driver and pad records, the shared colour | |
| `Axis` | `CalculateAxis` and learned calibration | `calibration`, `raw`, `value` | |
| `BTFilter` | the tweak in BTServer | `context`, names, address, BTServer's view | |
| `MFiWrapperProofs`, `LinkProofs`, `WiiMoteProofs`, `PadsProofs`, `AxisProofs`, `BTFilterProofs`, `ICadeProofs`, `DiscoveryProofs` | theorems about the module each is named after, `ICadeProofs` also about `Elements` | | each extends its module |
| `*MC` | instances for TLC | | |

A definition has the name of the function it models wherever one function is
one definition. Each run loop runs a callback to its end, so one callback is one
action: `DeviceAttached` includes the constructor, the table entry and the write
of Connect; `DeviceRemoved` the destructor, the erase and the write of
Disconnect; `FrontendReceive` one turn of the loop in `Parse` with the packet's
handler and, for Connect, the SetPlayerIndex packet the new object sends.
Operators named `X_Something` under the heading "Seeded fault" are variants of
`X` with a plausible bug. No specification uses them; each is there to show that
the property it belongs to would notice the bug.

Choices that a reader should know:

- *Losses.* `Sent` appends a packet if fewer than `Capacity` are queued and
  otherwise drops it, as `write` on a full non-blocking socket does. `lost`
  records what was dropped, so that a property can say "unless the packet was
  lost" about exactly one packet type and handle; no property makes an exception
  for a lost PausePressed, so those are not recorded.
- *Short writes* are in `Link`: `write` takes any beginning of a packet that
  does not fit. The reader then completes the packet with bytes of the next, and
  from there on the stream means nothing. `Link` follows the reader up to the end
  of that mixed packet and shows that everything before it arrives whole; the
  modules above `Link` stop where the stream does.
- *Call stacks.* `Discovery` and `Elements` keep the frames of the calls under way,
  because there the application's code runs in the middle of a function and may
  call the library, or run the run loop, from inside. The step between two
  handlers is an action.
- *Time stamps* in `ICade` matter as far as they are equal: a new event takes one
  that is neither the last nor that of an event still being handled.
- *Packets and handlers.* In the usual build a `Parse` nested in a handler reads
  nothing (`Link`), so there an update is never begun inside another; in the iCade
  build it is.
- *The exception.* `removeObjectAtIndex:` with index -1 raises, and nothing
  catches it. `crashed` stops both threads. `CrashNeedsLostConnect` says that a
  lost Connect packet is the only way there.
- *Inputs.* An input state is an opaque value; the mapping of report bits to
  buttons is not modelled. `Axis` models the arithmetic of the sticks.
- *Null entries.* `devices[handle]` in `HandlePacket` inserts a null pointer for
  an unknown handle; the model does too.
- *Quotients.* A value in `Axis` is a pair numerator, denominator; floating
  point rounding is left out.
- *Uninitialised bytes.* `BTFilter` chooses arbitrary values for the length and
  event code that the filter reads past the end of `ctx.context`.
- *Framing.* The read hook knows the length of events (first byte 0x04) and of ACL
  data (0x02). For any other packet `pktSize` stays 0 (`BTServerFilter.cpp:127`), so
  every piece of it is dropped and the next one is looked at as if a packet began
  there. `BTFilter` has all three: `context` is BTServer's position in an event or
  in data, and 0 inside any other packet. When a later piece of such a packet begins
  with one of the two bytes, the filter may be out of step with BTServer for good.
  `strayed` records that, the reads are followed up to there, and the three properties
  are stated up to there; what the filter makes of that piece is left out. A packet
  read in one piece never strays.
- *Failed writes.* A filter that replaces a command writes it itself. If that write
  fails, the hook goes on as without a filter and writes the command unchanged
  (`BTServerFilter.cpp:102`). `WriteHook` has every outcome of the one or two writes;
  `failed` records that the filter's own write was the one that failed. A write sends
  a command whole or fails.
- *External parts.* The Wii Remote, the pads, their user, BTServer and the
  radio are modelled from what the source sends to them and expects of them.

## 3. Runs

| Run | Bounds | Checks |
|---|---|---|
| `core_safety` | 2 attachments, 2 packets a direction, 2 recognised pads and an unknown one, symmetric, 2 input states | `TypeOK`, `HandlesMatchPads`, `NullEntriesAreSpent`, `ControllersInOrder`, `CrashNeedsLostConnect`, `ListTracksDevices`, `InputSettles` |
| `core_live` | 1 pad attached twice, 2 indices, fair | `IndexSettles`, `KeepsPromise` (refinement of `Lifecycle`), `ListCatchesUp`, `IndexArrives` |
| `link` | 3 packets of the two smallest sizes, 30 bytes of buffer, reads of every length | `TypeOK`, `PacketsArriveWhole`, `ReadStaysInside`, `HandledPacketIsStable`, `IsAPacketChannel` (refinement of `PacketChannel`, with liveness) |
| `discovery` | 5 starts, nested in every way | `OwnedOnce`, `EveryBlockIsAnswered`, `ReplacedIsNeverCalled` |
| `discovery_dealloc` | 3 starts, dealloc methods call back | `ReplacedIsNeverCalled`, **violated** |
| `icade` | 6 buttons, 1 key event inside another, or packets with every input | `ElementsAreCurrent`, `StateIsHeld` |
| `wiimote` | 4 plug changes, indices -1, 0, 2, 2 queued commands | `TypeOK`, `ReadsAnswerTheirRequest`, `ExpansionIsFollowedUnlessMissed`, `StateIsOfThisExpansion`, `LedShowsPlayer`, `HandshakeEnds` |
| `wiimote_replug` | the same with indices -1, 1 and fewer plug changes | `ExpansionIsFollowed`, **violated** |
| `pads` | 2 pads of any two kinds, indices -1, 1, 256 | `TypeOK`, `LightShowsPlayer`, `PauseNeedsPress`, `ReportsStart`, `LightArrives` |
| `axis` | 16 positions | `TypeOK`, `CalibrationIsOrdered`, `ValueIsFaithful`, `AxisIsMonotone`, `LearningOnlyWeakens` |
| `btfilter` | 2 devices, pieces of 1, 12, 17, 32, 240 and 258 bytes, every kind of packet, failing writes | `TypeOK`, `InquiryIsPatched`, `PinFollowsName` |
| `btfilter_readme` | the same | `PeripheralsBecomeKeyboards`, **violated** |

Why the bounds are enough. Two attachments are the least with which a stale
packet of one controller can meet another, a device can come back with a new
handle, and the order of a list can be wrong. A buffer of two packets overflows
with every packet type, in both directions, and still lets a SetPlayerIndex
cross a removal. The only counters are handles, so more of them repeat the same
encounters; the handle theorems below hold for any number. Every offset of every
packet occurs in `link` and `btfilter`, since pieces of one byte are allowed.
Three writes are the least with which a short write follows a packet that
arrived whole and is completed by bytes of another. Four plug changes let two
Classic Controllers come and go one after the other, the second inside any state
of the first one's handshake. Five starts let a block that was started inside
another start, replace and stop further ones. One key event inside another is
all it takes for the hook to miss a time stamp, and for an update to overtake
another at every step; packets carry every value of both axes and the button.
Sixteen positions are more than twice the first range of an axis, and the
theorems about axes cover all integers.

`CHECK_DEADLOCK FALSE` is said only where the system may really stop: in the two
core runs, after the exception or once the attachments are used up, in `link`,
once the packets are, in the `discovery` runs, once the starts are, and in the
`wiimote` runs, once the user is done. In `icade`, `pads`, `axis` and `btfilter`
deadlock is checked.

### Fairness

`MFiWrapper` assumes that a created thread runs and that each run loop is woken
while its socket is readable, which is what `CFRunLoop` does with the socket
source. Weak fairness is enough, because a readable socket stays readable until
that loop reads it. Nothing is assumed of users, pads or applications.
`Link` assumes the same of one loop and that handlers return. `WiiMote` assumes
that the remote carries out commands and that the driver's loop reads reports.
`Pads` assumes that a status report that was asked for arrives and that the Sony
pads, which report continuously, keep reporting; nothing is assumed of the input
reports of a Wii U Pro, which the driver sets to report only changes.

### What the runs found

- `wiimote_replug`: in handshake states 4 and 5 every report but a memory read is
  dropped (`wiimote.cpp:276` and `302`). The status report of an expansion that
  was removed in between is lost, so the driver ends with the `EXP` flag set and a
  Classic Controller that is not there, and starts no further handshake until
  another removal is reported. The comment at line 179 says that inserting or
  removing an expansion starts a new handshake. `ExpansionIsFollowedUnlessMissed`
  shows that nothing else leads there.
- `btfilter_readme`: inquiry events of two responses are not patched, where
  `README.md:41` says that events that define a Peripheral are.
- `discovery_dealloc`: `StartWirelessControllerDiscovery` releases the old block
  before it replaces the pointer to it (`frontend.mm:103`). If the release frees
  something of the application whose `dealloc` stops discovery, the block that is
  being replaced and freed is called, which the comment above that line excludes.
  The run `discovery` shows that nothing else leads there: without such a
  `dealloc` a replaced block is never called, whatever blocks do.
- `icade`: `StateIsHeld` needs its exception. The hook keeps one time stamp, so
  when a handler lets a second key event in between the two calls for the first,
  the second call handles the first event again, after the one that followed it:
  a button the user has released meanwhile may stay pressed. The comment at
  `GCController_Hook_iOS.xm:75` tells of two calls only, so this is no finding.
- `PinFollowsName` needs both its exceptions. `README.md:43` says that PIN replies to
  Wii devices are replaced; when the filter's write of the new reply fails, the hook
  sends the one BTServer made, and before the local address was captured the PIN is
  all zeros. The README speaks of what the tweak is for, not of failing writes, so
  this is no finding.
- Seen while modelling and stated in no document, hence no finding: the HCI filter
  may lose its place after a packet that is neither an event nor data and is read in
  pieces (*Framing* above); a DualShock 4
  without a player shows the colour last sent to any DualShock 4, because the
  static buffer keeps it (`HIDPad_DualShock4.cpp:131`); it and the Wii U Pro take
  index 256 for player 1, because the index is stored in a `uint8_t`. START of an
  iCade pauses on press and on release, SELECT changes nothing, and a first key
  before `Startup` loses the keyboard for good (`keyboard.mm:89`, `74-99`, `53`).
  The `valueChangedHandler` of a gamepad is never called, and `delloc`
  (`MFiWrapper.mm:285`) is no `dealloc`, so the parts of a direction pad leak.
  A handler that runs the run loop until the next packet waits for ever, because
  the nested `Parse` asks for zero bytes (`common.cpp:104`).

## 4. Proofs

`MFiWrapperProofs` proves about `Spec` of `MFiWrapper`, for every set of pads and
inputs, every number of attachments and every buffer size:

- `TypeCorrect`: `TypeOK` is inductive. Its argument is the typing of the two
  queues (a sent packet is a packet, a tail of a queue is a queue) and of the
  partial functions `devices` and `objects`.
- `HandleInvariant`: `HandlesMatchPads` and `NullEntriesAreSpent` are not
  inductive alone. A SetPlayerIndex for a handle not given out yet would leave a
  null entry under the number of the next controller. `HandlesAreIssued` excludes
  that: every handle in a packet of either queue, in an object and in the table
  is below `nextHandle`, and a device without connection has handle 0. The
  conjunction `HandleInv` is inductive relative to `TypeOK`; `TableIsSound` and
  `NullEntriesAreHarmless` are its two readable parts.
- `ListIsInOrder`, `OnlyLostConnectsCrash`, `ListIsUpToDate`: the three properties
  of the list need each other and the contents of `up`. `ListInv` says of every
  Connect packet that its handle is newer than all before it and all objects; of
  every Disconnect packet that it is the only one for its handle, that the pad is
  gone, and that the controller is listed, its Connect packet is still ahead or was
  lost; of every handle that an attached pad is listed or on its way there and a
  removed one on its way out, unless the packet was lost. It is stated of a
  channel and a record of losses, because a report makes two writes and the
  argument is needed between them.
- `PromiseIsKept`: `MFiWrapper` implements `Lifecycle`. Under `ListInv` every step is
  a step of `Lifecycle` or a stutter: attaching and removing move `plug`, handling
  Connect and Disconnect move `view`, and all else leaves both.
- `InputIsCurrent`, `IndexIsCurrent`: "unless a packet is under way" makes both
  properties silent most of the time, so `InputInv` and `IndexInv` say what the last
  packet of its type under way carries: the value written last. For the input an
  object that does not exist yet matters too: it will start from `Released`, hence
  no report may have been received before its Connect packet. That is so because the
  packets of one pad keep their order.

`LinkProofs` proves about `Spec` of `Link`, for packets of any sizes from 12 bytes on
that `LinkAssumption` allows, any buffer and any way write() and read() cut the
stream:

- The inductive invariant `LinkInv` names, for every accepted packet, the offset it
  begins at, and says that the bytes read and the bytes in the socket together are
  the accepted packets from the current one on; after a short write, bytes follow
  that are each at most as far into a packet as the stream is into the rest. That a
  packet ends before all later ones begin is part of the invariant, as nothing could
  derive it by induction.
- The lemmas under it are about the header. `FourBytes` puts a size together from its
  bytes. `AnyHeader` shows that the size in a header of which only some bytes arrived
  is at least 4 already after the first byte, so a partial header is never taken
  for a whole packet; this is what `SizeOf[p] % 256 >= 4` is for.
- `PacketsArrive`, `ReadsStayInside`, `HandledIsStable` and `LinkTypeCorrect` follow.
  `LinkIsAQueue` is the step simulation for `PacketChannel`: an accepted write is a
  Put, the read that completes a packet is a Take, all else a stutter. It is the
  safety part of `IsAPacketChannel`; the fairness part stays with TLC.

`PadsProofs` proves the three invariants of `Pads`. `LightShowsPlayer` is not
inductive: SetReport looks at the index the driver stores, so `IndexIsStored` is added.
`PauseNeedsPress` needs that a press not yet reported counts as much as a pause
already sent (`PausesAreDue`). `Kept` and `OnePad` reduce every step to the pad it is
about.

`WiiMoteProofs` proves the four invariants of `WiiMote` and the action property about
its decoder, for any bounds on queues and plugs. `LedIsRight`: the LED commands under way end in that of the player.
`ReadsAreNotMistaken`: at most one read is under way, the one the handshake waits
for. `ExpansionIsKnown` and `StateIsItsOwn`: `ExpInv` relates what the driver has
seen to what is plugged in along the reports under way: only a status report tells of
a change, and no two changes of one type meet; it holds as long as no removal was
reported while the driver waited for a read (`missed`), as the properties say.

`BTFilterProofs` proves the two invariants of `BTFilter` and its action property, for
any devices and any sizes of pieces, up to the point where the filter strays
(`~strayed`, which is part of the properties), from `FilterInv`: the filter's framing is
BTServer's for events and data, and empty inside any other packet (`TypeOK`); once a
first piece held the class of device, the response is a keyboard's to its end
(`PatchSticks`); the filter and BTServer agree on names except while a name event is
in BTServer's buffer past byte 255 (`NamesAgree`); the local address is known to the
filter before BTServer has it (`AddressKnown`).

`ICadeProofs` proves the two invariants of `ICade` and `Elements`, for any nesting of
handlers that run updates and key events:

- `ElementsAreRight` from `ElementsInv`: a stale element is due, that is, some frame of
  the call stack will still come to it (`StaleIsDue`); and the keyboard's controller
  is not updated before it is connected (`PassedOn`).
- `FloatsAreThoseHeld` from `StateInv`: of the key events on the stack only the topmost
  may have its first call still to make, and an event in its first call has either met
  no other since, so the hook's time stamp will pass over the second call, or its
  input is among the disturbed (`HooksOK`).


`AxisProofs` proves about `CalculateAxis`, for every integer position and every
ordered calibration, that it is faithful and monotone, that the constant
calibration of the Sony drivers is ordered, and about `Spec` of `Axis` that
`TypeOK`, `CalibrationIsOrdered`, `ValueIsFaithful`, `AxisIsMonotone` and
`LearningOnlyWeakens` hold. The one lemma about nonlinear arithmetic is
`TimesMonotone`; the rest is a case split over the five regions of the range.

`DiscoveryProofs` proves all three properties of the run `discovery`, for every
number of calls of Start and so every depth of calls inside blocks, under the
explicit assumption `~DeallocCallsBack` (the violation `discovery_dealloc` shows that
`ReplacedIsNeverCalled` fails without it). Two facts carry the argument. `StackInv`:
only the topmost call can be one in which no code of the application runs, so
nothing happens between the release of the old block and the copy of the new one.
`FreshInv`: the block that Stop would call, and the one that Start is about to copy,
was neither called nor replaced. From them `BlocksAreAnswered` and
`ReplacedStaysSilent` follow. `BlocksAreOwned` adds `RefsInv`, which counts the calls
under way of each block: a push adds one to the count and a return takes one.

The assumptions are the named `ASSUME`s of `Protocol`, `Backend`, `Link`, `Pads`,
`WiiMote`, `Axis`, `BTFilter`, `ICade` and `Discovery`, and `~DeallocCallsBack` where a
theorem states it; TLC evaluates the named ones in the runs. Every invariant and
every action property of the passing runs is stated by a theorem.

Only model-checked: the liveness properties `ListCatchesUp`, `IndexArrives`,
`LightArrives`, `ReportsStart` and `HandshakeEnds`, and the fairness part of `IsAPacketChannel`, because liveness under
fairness and `ENABLED` are out of the prover's reach. What a recursive definition
computes for every input would be too; these modules have none.

## 5. Not modelled, and the plan

Not modelled for good: IOKit, Core Foundation and the Objective-C runtime beyond
what the code relies on, the tables that map report bits to buttons and device
names to drivers, logging, the packet logger (never instantiated), the stream
after a short write, what the HCI filter makes of a stream it is out of step with,
commands written in part or of a length its filters do not expect, application
threads other than the main one, the memory of the controller objects, and 2^32
attachments.

Next, in this order:

1. `Pads` and `WiiMote` below `MFiWrapper`: the `pads` record of `Backend` refined by
   the driver modules.
2. `MFiWrapper` over `Link` in place of its two queues: `LinkIsAQueue` shows that
   the queue is right up to a short write; a composition would carry that to the
   properties of the whole.
3. The buttons that `Elements` and `ICade` leave out, as a set in place of one.
