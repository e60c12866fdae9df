# Verification of sameness

TLA+ models, TLC checks and TLAPS proofs for *sameness*, which shares one
keyboard and mouse between two machines.  All paths below are relative to the
repository root.

## The system

Two programs and a library (`sameness_core`):

| Component | State | Operations | Hard part |
|---|---|---|---|
| `ScreenEdgeSwitcher` (`src/ScreenEdgeSwitcher.cpp`) | who is in control, HOST or CLIENT; the edge threshold | `setEdgeThreshold`, `update(x, y)` for each mouse move | two bands at the sides of the screen, from a threshold nobody validates; positions on other screens |
| `network_client` (`src/network_client.cpp`) on the host | the switcher; the TLS socket; whether a callback is in a write | `hook_callback` for each event of libuiohook; `main` | runs on the thread of the hook; blocks in a write; any exception ends the program |
| connection | the packets on the way; who has noticed that it is broken | write, read, close, reset, silent loss | bounded buffers; what is lost at the end |
| `network_server` (`src/network_server.cpp`) on the peer | the socket, one buffer | read, check, inject; `main` accepts one client | a read is taken for a packet; blocking accept, handshake and read without timeouts; one session per run |
| `EventPacket` (`src/EventPacket.cpp`) | - | `toBytes`, `fromBytes` | `fromBytes` trusts the declared size |
| injectors (`src/Injectors.cpp`) | the desktop of the peer | five `inject...` functions, in three versions | coordinates, buttons, payload layouts |
| `Event` (`event.h`) | - | `toBytes`, `fromBytes` | widths, signs, and a time that is cut; unused by the programs |
| `EventState`, `logger.c` | a flag; a function pointer | set | the flag is read nowhere |
| libuiohook, tests, certificates | external | | |

Calls: libuiohook calls `hook_callback` through `dispatch_hook`; the callback
asks the switcher, builds an `EventPacket` and writes it; the read loop of the
server parses it and calls an injector, which posts an event to the peer's
desktop.  Nothing flows back.  The user acts on the host all the while, and
the host's own desktop sees every event too.

A machine may run both programs.  What its server injects is then seen by the
hook of the same machine, whose client cannot tell it from its user's input
(`EventState::isInjectedEvent`, meant for this, is never read): injected moves
run through its switcher, and injected events may be forwarded again, back to
where they came from or to a third machine.

What makes the parts correct:

* switcher: control changes at its own edge, and not back and forth;
* client and server together: what the client forwards is applied once, in
  order, and the keys, buttons and pointer of the peer follow the host, for
  whatever interleaving of hook, writer and reader;
* read loop: packets are what was written;
* programs: never two clients on one desktop, no lost waiter, no wait for ever;
* injectors: the desktop changes as the event says;
* machines that share with one another: only a user takes control, and what is
  injected does not multiply or go round for ever, as far as that is so;
* codecs: what was written is read back.

## Modules

| Module | Models | Correspondence |
|---|---|---|
| `ScreenEdgeSwitcher` | the class | `Update(x)` is `update`; `NewState` its two `if`s; `SetEdgeThreshold` the one call of main. `lastX` is the function's static, `lastSwitch` a history |
| `EventPacket` | packet types and sizes | a packet is type, code and x; the timestamp is never read, y travels like x |
| `Channel` | the TLS connection | `wire` holds packets up to `Cap`; `conn` says who has closed what and who knows (see the module) |
| `Injectors` | the macOS injector | `Effect(desk, p)` is the event posted for packet p; x in half pixels, as the code multiplies by one half |
| `NetworkClient` | `hook_callback`, `safeWrite`, the user | one action per event type; `writing` is the packet inside the blocking write; `Throw` is an exception that ends main |
| `NetworkServer` | the read loop, one packet per read | `ReadPacket`, `InjectionFails`, `EndOfStream` |
| `Sameness` | composition of the five above | user, client, server and network interleave; `unsent` is a history |
| `RemoteDesk` | the abstract promise of sharing | a queue, a desktop and "open": applied in order, once, a tail may be lost at the end |
| `PacketStream` | the abstract promise of the read loop | packets come as sent, in order; the receiver ends last, with nothing left |
| `Framing` | the read loop on bytes | lengths 13 + 4, 8 or 9 as in the code; `ends` has the place of each packet in the stream; `boundary` says what one `read_some` returns |
| `Codec` | the bytes of `EventPacket` and of `Event` | shifts and masks as quotients and remainders; a C++ type is the set of numbers with nothing but the sign beyond its bytes |
| `Lending` | the abstract promise of the two `main`s | each time the desktop is opened it is lent once, to a client that waits; closed, nobody has it and nobody waits |
| `Session` | both `main`s | phases from start to exit, the kernel's queue, kills and restarts; `handshaking` and `replying` are the one call of `handshake` on the server before and after the client's last message; `Nobody` stands for a connection whose client is known to have gone, `Silent` for one that carries nothing more |
| `UiohookInjector` | the injector for other platforms | `EventOf(p)` is the event posted for p, its fields as they are read, not as they were written |
| `WindowsInjector` | the Windows injector | `Effect` is what all inputs sent to `SendInput` do, `PartialEffects` what some of them do; `Flags` is the button number, and the bytes of x above it, taken for flags |
| `WindowsPeer` | `Sameness` with a Windows peer | client and `EndOfStream` are those of `NetworkClient` and `NetworkServer` |
| `Echo` | machines that run both programs | one client, one server and one hook for each; `posted` are injected events its hook has not seen; `setup` says who is connected to whom, with which of the three injectors; `Reports` are the events an injected packet may cause |
| `MC...` | instances for TLC; `MCFraming` also evaluates samples of the codec | |
| `ScreenEdgeSwitcherProofs`, `SessionProofs`, `SamenessProofs`, `MirrorProofs`, `FramingProofs`, `CodecProofs`, `EchoProofs`, `WindowsProofs` | theorems, see Proofs | |

Modelling decisions:

* A point of the host's desktop is its x; -1 stands for every point with a
  negative coordinate, x or y, since the callback rejects both alike.
* libuiohook reports a move with a button down as a drag, which the callback
  ignores; keys repeat; button numbers start at 1; `VC_UNDEFINED` is 0.
* While the callback blocks, the hook delivers nothing else and holds later
  events back.  (If the operating system times a hook out, events pass unseen;
  that is outside the repository and not modelled.)
* macOS is the platform of `Sameness`: `Injectors.cpp` includes
  `CoreGraphics.h` before any `#if`, so that this commit compiles nowhere else.
  The other two injectors are modelled as they are written, for the day the
  include is moved.
* In `Sameness` a read returns one packet.  asio makes one TLS record of one
  write, and OpenSSL returns one record per read; `Framing` (record) shows
  that the loop is then exact, and what happens otherwise.
* A client that exits closes its socket without a TLS shutdown; the server may
  see the end of the stream or an error: both are modelled.
* In `Echo` the connections and the servers last: their ends, which `Sameness`
  has, can only silence an echo.  What the operating system makes of an injected
  event is left open where the repository does not say: it may be dropped, a
  position may be kept on the screen or reported as posted, a key may get
  another name or none.
* The end of the network is either a reset both ends see, or a cut nobody
  sees; either way a tail of the packets on the way is lost.  `Session` has both
  at every moment from connect on, in the queue and in the handshake as well as
  while the client shares.
* No program has a timeout or asks for keep-alives.  Whether the kernel gives a
  silent connection up some day is left open: the end of such a handshake or
  read is a step that may happen and that nothing depends on.
* What a Windows injector posts is seen by the hook as it is written: a press of
  a key as a press and a release, a button event as the flags it sends, which
  may move the pointer to the left border, and press or release the left button,
  or both, or nothing.

## Runs

| Run | Question and answer |
|---|---|
| `switcher` | Does control change only at its holder's edge (`ControlTakenAtEdge`), and are two changes at least the span between the bands apart (`SwitchesFarApart`)?  Yes, for every x on a 41 pixel screen and some beyond, and thresholds from negative to wider than the screen.  For CLIENT the edge is the right band, with both its limits; only a threshold beyond the upper one extends it (then the left band covers the whole screen, and the middle decides). |
| `sharing` | While the connection is up: is a forwarded key down on the peer exactly if it is held (`Mirror`), is no button stuck (`NoStuckButton`), is the peer's pointer where the host's is (`PointerTracksHost`) and on its screen (`PeerPointerOnScreen`, for a peer at least as wide), is no packet refused by an injector (`NoPacketRejected`)?  Yes. |
| `remote_desk` | Does the session implement `RemoteDesk`; does every write end, a forwarded press arrive, and the server return after its client?  Yes; but if the network dies silently first, the server never returns, which `ServerNoticesExit` says. |
| `framing` | If a read returns one record, the loop is exact (`ExactDelivery`) and complete (`EverythingInjected`); if it returns several packets some are lost, none garbled (`NeverGarbled`); if it returns any bytes, still none twice or out of order (`NoReplay`).  But for the last kind, the loop implements `PacketStream` (`ImplementsStream`). |
| `session` | At most one client acts on the peer (`LinkedMeansServed`), one per run of the server (`OneClientPerRun`); a waiting client is known to the server's machine (`QueuedIsKnown`), is let go when the server returns (`WaitersReleased`), unless the network has cut it off; and a server with a queue serves or returns (`QueueMovesOn`), unless the client in the handshake has gone silent: then, for want of a timeout, the server and everybody behind that client wait.  Together they implement `Lending` (`ImplementsLending`). |
| `echo` | Machines that share with each other, or with themselves.  Does only a user take control (`ControlTakenByUser`)?  Yes, as long as no screen lies so far to the right that a position on it, halved, is past the middle of another machine: the run has positions near the edge only, and `NearScreens` (see Proofs) says how near.  Are there never more events than users made (`NoAmplification`)?  Yes, with the macOS and the fallback injector.  Not with Windows: its injector makes a press and a release of each press of a key, and the property leaves those machines out.  Does all traffic end when the users stop, unless a whole circle of machines is under CLIENT (`EchoDies`), and do moves end even there (`MovesDie`)?  Yes, with any of the injectors, at the threshold of the run.  In a circle under CLIENT keys and buttons do go round for ever, since nothing reads `isInjectedEvent`, and with Windows in it keys multiply. |
| `right_button` | **Violated**: the injector announces the button it was sent, and presses the left one. |
| `stuck_key` | **Violated**: a key pressed under CLIENT and released under HOST stays down on the peer. |
| `narrow_peer` | **Violated**: with a peer narrower than the host, "screen coordinates" are negative. |
| `framing_mismatch` | **Violated**: the check of the declared payload size never rejects anything. |
| `windows_release` | **Violated**: "Convert DOWN to UP flags" shifts the number of the button; the release of button 1 is `MOUSEEVENTF_LEFTDOWN`, and presses the left button. |

Three more disagreements are seen from the code but have no run: `ScreenEdgeSwitcher.h`
(line 3) says that events are handled locally *or* forwarded, but the callback
never marks an event as consumed, so that the host's desktop handles every
forwarded event too (the models have the user's hands and no desktop of the host
apart from them); HYSTERESIS
("to prevent rapid switching") only widens the outer side of the bands, so that
with bands that meet in the middle one pixel is enough to switch to and fro
(`MinTravel` is then 1); and the example configuration's `auto_reconnect` has no
counterpart in the code (`Session!WriteFails` ends the client).

### Bounds

* `Positions` in `sharing` and `remote_desk`: off the screen, left band, right
  band, second screen.  The callback distinguishes no more than these.
* `Cap` 2 (1 in `remote_desk`): an empty, a partly filled and a full buffer, a
  packet in the write and packets that overtake one another in a mutant.
* one key, or one and `VC_UNDEFINED`: keys do not interact, each is followed on
  its own; two buttons, since they share one state on the peer.
* `MaxSent`: four packets of all types per stream, two if reads return any
  number of bytes: a cut inside the first packet and a whole second one.
* three clients and a queue of three: one served, one in handshake or queued,
  one that restarts; the queue can also fill with connections of gone clients.
* `echo`: four events of users in all, three with Windows (where keys multiply),
  and one place in each buffer, so that writes wait; `MaxPosted` 4: a server
  injects nothing while the hook of its machine has that many events to report,
  which is reached only where keys multiply; displays of 10 and 14 pixels, a threshold of
  2, and positions in the left band, in the middle, and in the right band of the
  wider display, which on the narrower one is a second screen; two machines that
  share with each other, with a macOS injector on both, or on one and one of the
  others on the other, and machines connected to themselves, with each injector.
  `MovesDie` and `EchoDies` are checked for this threshold only.
* `windows_release`: one button, three positions, which is enough for the
  counterexample.
* No state constraint is used; the models are finite by themselves.

Deadlock is checked in every run.  The one step that stutters, `Finished`, is
enabled only after both programs have returned (or the server waits on a dead
network, for ever), and in `Echo` when no event is left to be made or carried.

### Fairness

`Sameness`: the client's write ends if it can (`WriteReturns`, `WriteFails`),
and the server's loop reads what is there (`ReadPacket`, `EndOfStream`): both
are threads that do nothing else, blocked in one call that the kernel completes.
The user, CoreGraphics and the network owe nothing.  `Session`: the
accept, the hook's start and the end of a session go on; a handshake returns when
what it waits for arrives, the message of a client that lives or the end of the
connection.  Nothing ends a handshake with a silent end, and so no fairness is
assumed of it; users need not start, stop or use anything.  `Framing`: the server goes on reading.
`Echo`: each hook reports, or the desktop drops, what is posted; each write ends
once there is a place for it; each server reads and injects.  Hook, callback and
read loop are threads of their own that do nothing else; the users owe nothing.

## Proofs

Each theorem holds for every value of the constants that meets the named
assumptions of the modules (`SwitcherAssumption`, `CapAssumption`,
`ClientAssumption`, `PeerAssumption`, `SessionAssumption`, `FramingAssumption`,
`EchoAssumption`): a positive width, an integer threshold, positions that are
natural numbers or -1, key codes of 16 bits, buttons from 1, at least one place
in the buffers, servers with at most one client.  TLC evaluates them.

| Module | Theorem | Shows | Further hypothesis |
|---|---|---|---|
| `ScreenEdgeSwitcherProofs` | `TypeCorrect`, `TakenAtEdge`, `FarApart` | `TypeOK`, `ControlTakenAtEdge`, `SwitchesFarApart` | |
| `SessionProofs` | `TypeCorrect`, `LinkedIsServed`, `OneServed`, `QueuedIsNeverForgotten` | `TypeOK`, `LinkedMeansServed`, `OneClientPerRun`, `QueuedIsKnown` | |
| | `SessionImplementsLending` | `ImplementsLending` | |
| `SamenessProofs` | `TypeCorrect`, `EveryPacketAccepted` | `TypeOK`, `NoPacketRejected` | |
| | `PointerStaysOnScreen` | `PeerPointerOnScreen` | `Fits`: peer as wide as the host, no position beyond both widths |
| `MirrorProofs` | `KeysAreMirrored`, `ButtonsAreReleased`, `PointerFollows` | `Mirror`, `NoStuckButton`, `PointerTracksHost` | |
| | `HandsFreeLeavesNoKey` | `NoStuckKey` while the connection is up | `HandsFree`: control goes back to the host only while the user holds no key the peer was told of |
| | `OneButtonIsItself` | `InjectsThePressedButton` | `OnlyLeft`: no button but the left |
| | `SessionImplementsRemoteDesk` | `ImplementsRemoteDesk` | `OnlyLeft` |
| `FramingProofs` | `TypeCorrect`, `DeliveryIsExact`, `WholeWritesAreSafe`, `NothingIsReplayed` | `TypeOK`, `ExactDelivery`, `NeverGarbled`, `NoReplay` | |
| | `TheLoopIsAReceiver` | `ImplementsStream` | |
| | `TheLoopImplementsPacketStream` | every behaviour is one of `PacketStream` | reads return records or whole writes |
| | `RecordsAreNotMismatched` | `MismatchedPayloadSkipped` | each read returns one record |
| `CodecProofs` | `PacketReadBack`, `EventReadBack` | a packet, and an event with its time in whole milliseconds, is read back from its bytes | the declared size is that of the payload; the time in milliseconds fits 64 bits |
| `EchoProofs` | `TypeCorrect`, `NothingMultiplies` | `TypeOK`, `NoAmplification` (where no machine has the Windows injector) | |
| | `OnlyUsersTakeControl` | `ControlTakenByUser` | `NearScreens`: displays of at most 32768 pixels, and users who point at the main display or, on a second one, less far beyond its right edge than any display is wide, and than the space between the bands of any |
| `WindowsProofs` | `EveryPacketAccepted` | the server never ends with an exception about the payload size | `HasDisplay`: the peer's screen has a width |
| | `NoKeyIsHeld` | no key is down on the peer while the server runs | `HasDisplay` |
| | `LeftButtonSticks` | only a release presses the peer's left button, and nothing releases it | `HasDisplay`, `OnlyLeft` |
| | `PointerStaysAtTheBorder` | no packet puts the pointer right of the screen's left border | `HasDisplay`, `OneScreen`: no position of the host beyond its main display |

Four of the violated runs and a theorem belong together: the run finds the
fault, the theorem says when there is none.

| Violated claim | Holds under | Theorem |
|---|---|---|
| `NoStuckKey` (`stuck_key`) | `HandsFree` | `HandsFreeLeavesNoKey` |
| `InjectsThePressedButton` (`right_button`) | `OnlyLeft` | `OneButtonIsItself` |
| `PeerPointerOnScreen` (`narrow_peer`) | `Fits` | `PointerStaysOnScreen` |
| `MismatchedPayloadSkipped` (`framing_mismatch`) | `boundary = "record"` | `RecordsAreNotMismatched` |

Of the fifth, `windows_release`, the theorem says the opposite: with no button
but the left, only a release presses it, and nothing releases it
(`LeftButtonSticks`).

The arguments:

* *Switcher.*  Inductive: `TypeOK`, `ControlTakenAtEdge` and "no switch before
  `setEdgeThreshold`"; without the last part a change of the threshold could
  move the bands under a switch that was made at the old one.
  `SwitchesFarApart` follows from the same invariant: the last switch was at one
  band, this one is at the other.  The upper limit of the right band is part of
  `ControlTakenAtEdge`, but for a threshold beyond it, where the code's second
  branch takes control to CLIENT as well.
* *Session.*  `LinkedMeansServed` and `QueuedIsKnown` are inductive with
  `TypeOK`; `OneClientPerRun` needs to know as well where the server is in its
  run when it has served nobody yet (`ServedInv`).  The refinement needs more
  (`Places`): a client is in the queue once, waits there, and is not the peer of
  the server; without an acceptor the queue is empty.  Otherwise a step of the
  server could not be told from one that lends the desktop twice, or leaves a
  waiting client behind.  A step of a client maps to `Wait`, `GiveUp`,
  `GiveBack` or nothing (`ClientsLend`), one of the server to `Open`, `Lend`,
  `GiveBack`, `Close` or nothing (`ServerLends`); a kill of either program is
  among them.
* *Types of Sameness.*  Every event of the user ends in one of three outcomes,
  nothing, a packet of `Events`, or an exception (`UserEventOutcome`), which is
  also what the later proofs split on.  `NoPacketRejected` then is a fact about
  the packets in `Events`.
* *Mirror.*  `KeyAfter`, `LeftAfter` and `PointerAfter` say what the last pending
  packet about a key, the button or the pointer decides.  Two lemmas carry the
  proof: a packet added at the end decides (`AfterAppend`), and injecting the
  first packet changes nothing of the outlook (`AfterTail`).  That a set of
  indices has a largest one comes from well-foundedness of the naturals.  While
  the connection is up every other step leaves keys, buttons and pointer alone
  (`UpSteps`).  `Mirror` and `PointerTracksHost` are inductive; `NoStuckButton`
  is not: the button must also be up whenever the host is in control
  (`ButtonFree`), since buttons can be held there without the peer knowing.
  `HandsFreeLeavesNoKey` is alike: its invariant `KeysFree` says that the peer,
  when it has caught up, has no key down that was not told of, nor any while the
  host is in control.  `HandsFree` is used in one place, where control goes
  back: all the rest holds without it.
* *Refinement.*  Forwarding maps to `Forward`, `ReadPacket` to `Apply`, every
  way the connection ends to `End`, the return of a write to nothing.  It needs
  `UpMeansAlive`: the connection is up only while both programs run.

* *Framing.*  `StreamInv` adds to the properties where packets are (`Growing`,
  `Adjacent`: each begins where the one before ends), that the next byte is the
  first of a packet unless reads cut anywhere (`AtPacket`), and that the first
  byte of every packet injected has been read (`Behind`).  A loop turn injects
  nothing or one more entry, and if that is a packet it begins at `pos`, which is
  behind no packet injected before: hence `NoReplay`, for every kind of stream.
  `ends` keeps the places as state, since a sum over `sent` would need an
  induction over data.  `ImplementsStream` maps the bytes the loop has read to
  the number of packets taken, and what it has injected to those received; as
  long as reads end where writes end, a loop turn is one `Receive`, which leaves
  out what a longer read held behind its first packet.  The proof is one case for
  each kind of step; `TheLoopImplementsPacketStream` is the same as a
  specification.
* *Codec.*  Cutting off a byte and pushing it again gives the number back; four
  and eight bytes follow (`Push4`, `EightBytes`), up to what is above them, which
  is 0, or -1 for the sign.  `PacketReadBack` allows for bytes after the packet:
  the read loop passes on all it has read.
* *Echo.*  `EchoInv(In, Out)` says that only members of `In` are injected and
  only members of `Out` are sent, on each machine; it is kept if the sets are
  `Closed` under callback, injector and desktop.  With all packets for both this
  is `TypeOK`.  A move that leaves a machine is x counted from its right edge.
  If users point no further beyond that edge than `Reaches` allows (`Arriving`,
  `Leaving`), what the next machine posts is off both bands (`OffBand`: in the
  left half, or between the bands on the other side), and such a move leaves the
  control with the host and goes no further right than its own display.  On a
  second screen that reaches further this is false, hence `NearScreens`.
  The Windows injector is covered: its moves are put no further right than the
  packet's x, or than the left border if that is negative (`WindowsPixelBelow`), and the move a button event may cause goes to
  0, which no machine takes for its right edge.
  `NoAmplification` counts: `EventsUnderWay` has one element for each event
  between machines, a machine and a place in its traffic (`WhatIsUnderWay`), and
  a step lets the traffic of one machine grow by at most one event (`OneMore`),
  and unless that event is a user's, another's shrinks by one (`OneFewer`).  So
  no sum over the machines, and no induction, is needed.
* *Windows.*  `PeerOK` has the types of what is on the way and that no key is down
  while the server runs.  A release of button 1 sends the flag
  `1 << 1`, the press of the left button, and no packet sends the flag that
  releases it; moves are scaled from distances to the right edge, all negative,
  and a button event whose flags say so moves the pointer to 0, the left border.

Only model-checked: the liveness properties (`WriteEnds`, `PressArrives`,
`ServerNoticesExit`, `WaitersReleased`, `QueueMovesOn`, `EverythingInjected`,
`EchoDies`, `MovesDie`), which need fairness and ENABLED and are out of the
prover's reach.  Every safety property of a passing run is proved.

## Not modelled

* `EventState`: one flag, set by the fallback injector around `hook_post_event`
  and read nowhere, so that nothing depends on it.  `Echo` shows what follows.
* `logger.c`; the parsing of arguments, which gives the values of the constants;
  certificates and encryption.
* `uiohook.h` and `input_helper.h` are the interface of libuiohook, whose sources
  are not in the repository; it and the operating systems are modelled by what
  the callback sees of them and what the injectors ask of them.  The files under
  `src/tests` test libuiohook, not these programs.
* Of Windows: y, the flags of other buttons than the left one and of the wheel,
  and a relative move, which is by nothing.
* The time of packets in the composed models: written, never read.

## Plan

Done, in this order: `ScreenEdgeSwitcher`; `EventPacket`, `Channel`,
`Injectors`, `NetworkClient`, `NetworkServer`, composed in `Sameness`, refining
`RemoteDesk`; `Framing`; `Session`; their proofs; then the Windows and fallback
injectors, `WindowsPeer`, `Echo`, `Codec`, and the proofs of `Framing`, `Codec`
and `Echo`; then `PacketStream` and `Lending` as abstractions of `Framing` and
`Session`, the theorems of `Windows`, and those that say when a violated claim
holds.

Next:

1. A `Sameness` whose reads return several packets or parts of one: how many
   lost packets the mirror of keys and buttons survives.
2. The y coordinate, for the borders of screens that are above one another.
3. Proofs: the safety part of the liveness properties, that is what a
   blocked write or a waiting client must be waiting for.
