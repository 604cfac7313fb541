# A TLA+ model of the SynthModem gateway

SynthModem answers telephone calls that come in over SIP, runs a modem on the
call's audio (inside a small virtual machine, or in the process itself) and
connects the caller to telnet hosts.  This directory holds its formal model:
modules that follow the code, TLC configurations that check them on small
instances, and TLAPS proofs for instances of every size.

Source paths are relative to the repository (`src/index.js` is its main
program).

1. [The system](#1-the-system)
2. [The modules](#2-the-modules)
3. [What TLC checks](#3-what-tlc-checks)
4. [What is proved](#4-what-is-proved)
5. [What is left out](#5-what-is-left-out)
6. [What could come next](#6-what-could-come-next)

## 1. The system

### Components

| Component | Source | State | Operations | Model |
|---|---|---|---|---|
| Gateway program | `src/index.js` | `activeSession`, `modemPool`, where `main()` and `shutdown()` are | listeners of the SIP server, boot, SIGINT | `Gateway` |
| SIP server, dialogs | `src/sip/SipServer.js`, `SipDialog.js` | map Call-ID to dialog, dialog states, ACK timers, sockets | INVITE, ACK, BYE, CANCEL, `answerCall`, `sendBye`, `stop` | `SipServer` |
| Call session | `src/session/CallSession.js` | `_active`, backend, `_dspIsPooled`, RTP socket, telnet proxy | `setup`, `activate`, `hangup`, `onBye`, swap to native, post-train hold | `CallSession` |
| Modem backend pool | `src/backends/ModemBackendPool.js` | `_state`, warm backend, warm-up and recycle promises | `start`, `checkout`, `recycle`, `stop` | `ModemBackendPool` |
| PJSIP backend | `src/backends/PjsipBackend.js` | start-up phase, sockets, line buffer | `startAsync`, `activate`, `stop`, control frames, VM exit | `PjsipBackend`, `ModemControl` |
| Internal SIP client | `src/sip/SipUacInternal.js` | one transaction, one dialog | `invite`, `hangup`, `probe`, `close`, retransmission | `SipUacInternal` |
| VM registrar | `src/sip/VmRegistrar.js` | binding, waiter | REGISTER, wait, `stop` | `VmRegistrar` |
| UDP-over-TCP tunnel | `src/tunnel/UdpTcpTunnel.js`, `vm/tunnel/modemd-tunnel.c` | stage buffers, learned peers | framing, delivery, `stop` | `UdpTcpTunnel` |
| RTP bridge | `src/rtp/RtpBridge.js` | two peers, counters | forward, learn, `start`, `stop` | `RtpBridge` |
| RTP session | `src/rtp/RtpSession.js` | jitter buffer, play pointer, adopted socket | receive, playout, adopt, close | `RtpPlayout`, `RtpBridge` |
| Telnet proxy | `src/telnet/TelnetProxy.js` | menu / connecting / proxying, timers, socket | input, connect, close, `disconnect` | `TelnetProxy` |
| Modem control channel | `vm/ctrl/modemd-ctrl.c`, `vm/qemu-runner/wire.js` | command / data mode, held bytes, receive buffers | PTY and host input, frames | `ModemControl`, `Wire` |
| Handshake engine | `src/dsp/Handshake.js`, `ModemDSP.js` | state, probe queue, queue of silence, timers, silence counter | start, V.8's outcome, probe, select, `stop` | `HandshakeEngine` |
| V.8 | `src/dsp/V8Sequencer.js`, `V8.js` | state, timers, message queue; byte buffer | generate, receive, parse | `V8Sequencer`, `V8Parser` |
| V.22 / V.22bis answerer | `src/dsp/protocols/V22.js`, `V22Demodulator.js` | phase, receiver stage, rates, counters | receive a block, send a block | `V22Startup` |
| FSK modulations, codec, SIP text, resolver, capture, logger, configuration, VM contents, build, tests | the rest | -- | signal processing, text, debugging, third-party | -- |

`PROJECT.json` has the same list with what each part's model includes.

### How they interact

Everything on the Node side runs on one event loop.  Components call each
other's methods, emit events to listeners that run inside the emitter's step,
and await promises.  The VM is another machine: two TCP streams (control and
tunnel) and a process that may die.  A call goes like this.

1. INVITE: the SIP server makes a dialog and emits `invite`; `index.js` makes
   the session; `setup()` reserves a port and sends the 200 OK, which starts
   the ACK timer.
2. ACK: `index.js` calls `activate()`, which checks a VM out of the pool
   (waiting if one is being warmed) and tells it to take the call; in native
   mode it builds an in-process modem.
3. In the VM's case the backend sends `atInit`, waits for RING while its SIP
   client calls the VM's PJSIP through the tunnel, and sends ATA once; the
   bridge then forwards RTP between caller and VM.  The modem's bytes and result
   codes come over one PTY and are told apart by `modemd-ctrl`.
4. In the native case the handshake engine runs V.8, and without it a chain of
   probes (V.22bis, V.21, Bell 103).
5. The modem reports `connected`; after a quiet period the telnet proxy is
   attached.  In auto mode a VM that hears no V.8 is exchanged in mid-call for
   the in-process modem (`_swapToNative`), which adopts the caller's RTP socket.
6. The call ends by BYE, CANCEL, ACK time-out, user, silence, backend error or
   shutdown.  The session gives the VM back; the pool stops it and, when it is
   gone, boots the next.

### What is hard here

* **Awaits.** A coroutine resumes in a world that has moved: a call that ended
  during `checkout()`, a pool stopped during a recycle, a backend stopped during
  its start, a warm-up whose failure is awaited by three parties.
* **Microtask order.** Several coroutines become due by one promise.
* **Unreliable SIP.** UDP loses, repeats and delays every request; the ACK may
  come after the BYE, the peer's BYE before its 200 OK.
* **Byte streams.** TCP and the PTY cut anywhere: a frame in five pieces, three
  frames in one read, NO CARRIER over two reads.
* **One PTY for two things.** Result codes and the caller's bytes share it, so
  a byte that could start a result code has to be held back, and what is written
  at the wrong time is a command.
* **Wrapping numbers.** RTP sequence numbers wrap while packets are lost, late
  and repeated.
* **Timers.** ACK resend, warm-up, post-train hold, RING fallback, debounce,
  connect and idle time-outs, probe windows, training, each racing the event it
  stands in for; V.8's count received audio and stop with it.
* **Partial failure.** No RTP port, a VM that does not boot, one that dies warm
  or in a call, a client that is closed under a transaction.
* **Two rates.** A V.22bis answerer settles its rate by what the receiver has
  found so far, while that receiver may be anywhere in its training.
* **Shutdown** in the middle of any of it.

`PROJECT.json` lists each hazard at its line, with the properties that watch it.

### What makes each component correct

* Pool: one VM at a time; a VM serves one call; no running VM is forgotten;
  every wait ends; `stop()` leaves nothing but what a call holds.
* SIP server: a live dialog can be reached by its Call-ID; the ACK timer ends
  with the ACK; an answered call is confirmed or given up.
* Session and program: a call in progress can be ended from outside; it ends
  once and gives everything back; session and pool agree on who has the VM;
  shutdown exits.
* PJSIP backend, client, registrar: the life the pool counts on; ATA once and
  after `atInit`; nothing survives `stop()`; requests and waits settle; a
  registration is neither missed nor refused by the neighbour on its channel.
* Tunnel, control framing: the frames out are the frames in, in order, wherever
  the stream is cut; answers find who asked.
* Control channel: CONNECT and the end of a call reported once; the caller's
  bytes and nothing else reach the session; nothing is typed at a modem that
  would take it for a command.
* RTP: packets are played in order and once, none that is held is passed by;
  one modem hears the caller.
* Telnet proxy: one connection; a timer or socket of an earlier state has no
  effect on a later one; every attempt ends.
* Handshake, V.8, V.22: caller and answerer end up with one protocol and one
  rate; one outcome; whoever answers is reached.

## 2. The modules

| Module | Models | Uses |
|---|---|---|
| `BackendLease` | what the pool promises: VM slots that are off, booting, idle, leased, ending | -- |
| `ModemBackendPool` | `ModemBackendPool.js` | implements `BackendLease` |
| `SipServer` | `SipServer.js`, `SipDialog.js` | -- |
| `CallSession` | `CallSession.js`, as operations on one session | instances of `SipServer` and `ModemBackendPool` |
| `Gateway` | `index.js`: listeners, boot, shutdown, the event loop | extends `CallSession` |
| `VmLife` | what the pool takes for granted of a backend object | -- |
| `PjsipBackend` | `PjsipBackend.js`: start-up, one call, stop | instance of `SipUacInternal`; implements `VmLife` |
| `SipUacInternal` | `SipUacInternal.js`, with its peer and the lossy way there | -- |
| `VmRegistrar` | `VmRegistrar.js`, next to the SIP client, with PJSIP's registrations | -- |
| `FrameFifo` | what one direction of a framed stream promises | -- |
| `UdpTcpTunnel` | `UdpTcpTunnel.js` and `modemd-tunnel.c` | implements `FrameFifo`, twice |
| `Wire` | `wire.js` and the framing of `modemd-ctrl.c` | implements `FrameFifo` |
| `ModemControl` | `modemd-ctrl.c`'s PTY side and `PjsipBackend.js`'s line reader | -- |
| `TelnetProxy` | `TelnetProxy.js` | -- |
| `RtpPlayout` | the receiving half of `RtpSession.js` | -- |
| `RtpBridge` | `RtpBridge.js`, `adoptSocket()`, `close()` of `RtpSession.js`, the swap | -- |
| `HandshakeEngine` | `Handshake.js` under `ModemDSP.js` | -- |
| `V8Sequencer` | `V8Sequencer.js`, both roles, and the line between them | -- |
| `V8Parser` | `parseV8Bytes()` of `V8.js` | -- |
| `V22Startup` | the V.22 and V.22bis answerers of `V22.js` with the receiver of `V22Demodulator.js` | -- |
| `MCGateway` | symmetry for TLC | extends `Gateway` |
| `MCModemVm` | backend, client, registrar | extends `PjsipBackend` |
| `MCDatagrams` | tunnel, framing of the control channel, bridge, playout | extends `RtpBridge` |
| `MCModemData` | control channel, telnet proxy | extends `ModemControl` |
| `MCStartup` | handshake engine, V.22 start-up | extends `HandshakeEngine` |
| `MCV8` | sequencers on two lines, parser | extends `V8Sequencer` |
| `ModemBackendPool_proofs`, `SipServer_proofs` | proofs about the module of that name | extend it |
| `Gateway_proofs` | proofs about the whole program | extends `Gateway`, instances of the two above |
| `PjsipBackend_proofs` | proofs about backend, client and registrar | extends `MCModemVm` |
| `Datagrams_proofs` | proofs about bridge, playout, tunnel and framing | extends `MCDatagrams` |
| `ModemData_proofs` | proofs about control channel and telnet proxy | extends `MCModemData` |
| `Startup_proofs` | proofs about handshake engine and V.22 start-up | extends `MCStartup` |
| `V8Sequencer_proofs` | proofs about sequencers and parser | extends `MCV8` |

### Parts that share no state

An MC module checks several components that do not share a variable.  Its
variable `part` is chosen in the initial state and says which of them runs; the
others rest in an initial state.  So TLC explores the sum of their state spaces,
not the product, and every invariant, step property and liveness property is
checked of its component as if that were alone.  Fairness is either that of the
part that runs (`part = ...` is a conjunct of the action), or of actions that are
never enabled in the initial state of a part that rests.

Modules that are taken by INSTANCE have the conditions on their constants as
an operator, `ConstantsOK`, which the MC module assumes of its instance;
the others have an ASSUME.  A definition commented "Mutant" is a plausible bug
in the definition below it: with it in that place the property it is meant for
fails.

### The event loop

A step of a model is a piece of JavaScript between two awaits, with every
listener and every method it calls.  What an await keeps back is part of the
state.  When the awaited promise has settled, the rest is a microtask: it runs
before the next packet, timer or VM event (`Drained`, `Quiet` of the gateway).
The order among microtasks is left open; Node fixes one, so the models allow a
little more than Node does.

### ModemBackendPool

`state`, `backend`, `stopped`, `warmupPromise`, `recyclePromise` are the
object's fields; a promise is named by the backend object it is about.  The
coroutines in flight are `warming` (a `_warmupOne()` that boots, or stops what
did not boot), `recycling` (a `_recycleAsync()` that awaits the old VM, or a
warm-up), `waitsFor` (a `checkout()` that awaits a warm-up), `stopPc` and
`stopOn` (`stop()`).  `life` is the VM behind an object, `holds` is what a caller
got.  An object nothing refers to and whose VM is dead stands for a new one, so
that finitely many objects do for any number of calls (`Fresh`).

One action is one stretch of code: `Start`, `Checkout`, `Recycle`, `Stop` up to
their first await, `CheckoutResumes`, `RecycleStopped`, `RecycleSettled`,
`StopResumes`, `StopReturns` after it, `WarmupReady`, `WarmupFails`,
`WarmupAborted` for the race of `startAsync()` and the time-out, `Crash` for a VM
that dies by itself.

### SipServer

`dialogs` is the map; `callOf`, `dstate`, `resends` are the dialog objects, where
`resends` counts the 200 OK resends of an armed ACK timer and is `Off` without
one.  `sent` and `event` hold what the step sent and emitted.  Each of
`HandleInvite`, `HandleAck`, `HandleBye`, `HandleCancel` is a handler with all
its early returns.  Requests come in any order and number: that is UDP.

### CallSession and Gateway

A session is named by its dialog.  `act` is where `setup()` or `activate()` is:
`setup` (to answer), `failed`, `answered`, `checkout` (awaits the pool),
`rejected` (`checkout()` threw), `inviting` (awaits the VM), `up`, `over`.
`dsp` is `_dsp` with `_dspIsPooled`; `rtp` is who has the port (`raw` socket for
the VM, `pcm` for `RtpSession`, `port` for a reservation left behind); `line` is
the telnet side (`hold` during the post-train hold).  `ended` counts `ended`
events.

`setup()` awaits only callbacks that Node delivers before it polls for packets
(the bind of a literal address), so it is a microtask that follows the INVITE.
`_swapToNative()` and `_finalizeTeardown()` are `async` without an await and run
in the caller's step.  The VM's own `activate()` is one answer, one failure, or
none when the backend is stopped first; `PjsipBackend` has the inside of it.

`Gateway` puts the listeners of an event into the step that emits it
(`Listeners`), and adds `phase` and `starting` for `main()` and `shutdown()`,
`listens` for the SIP sockets and `tcp` for a SIP
client that keeps a TCP connection.  `SipServer.stop()` is two steps: the
dialogs at once (`StopSip`), the sockets when they have closed (`SipStopped`).  A
signal may come while `main()` still awaits the first VM: then the server is
stopped before it is started (`Started`), and takes calls while the pool stops.

### PjsipBackend, with VmLife

`state` is the field; `startP` and `activateP` are the promises of
`startAsync()` and `activate()`, `startAt` and `stopAt` what their code awaits.
The resources are sets and flags: chardev listeners and sockets (`servers`,
`accepted`, `control`), the registrar's listener, the UDP sockets, the bridge,
the client.  `ringWatch`, `ringSeen`, `fallback` and `answering` are the wait for
RING in `activate()`, its 3 s timer, and the commands `answerSequence()` still has
to send.  `vm` is the QEMU process, which may exit at any moment (`VmExits`),
`modem` what ATA has made of the modem.

`StartAsync`, `Accept`, `ChardevTimeout`, `Registered`, `RegisterTimeout` are
the start; `Activate`, `Ring`, `RingFallback`, `AnswerStep` the call, together
with every step of the SIP client (`ClientStep`) and of its peer (`PeerStep`);
`Stop` and `StopStep` the end, which may come between any two others.

`Life` is the refinement mapping to `VmLife`: dead, booting, live, lost,
stopping, gone.  `ModemBackendPool` works with exactly these lives, so the
refinement is the link between the two.  It comes in two halves: `LeadsLife`, every step
is one of `VmLife` (a backend is started once, becomes ready or is lost, is
stopped), and `StopEnds`, a stop comes to its end.

### SipUacInternal

`inflight` is the one transaction with its count of retransmissions, `options`
the pending probe, `remoteTag` and `closed` the fields; `invite`, `bye`, `probe`
are the promises the caller holds.  `toPeer` and `toUac` are messages under way:
what is sent may be lost, what arrives keeps its order (the tunnel).  The peer
answers as PJSIP does, may hang up at any time, and repeats its 200 OK and its
BYE.  `OnMessage` is the socket's listener with the handlers for responses and
requests.

### VmRegistrar

The registrar is shown every SIP frame of the VM; once the client has sent
something, the client gets the same frame and answers 405 to a REGISTER.
`toHost`, `toClient`, `toPjsip` are the three queues in between, `pjsip` is
PJSIP's registration transaction, which repeats a request that is not answered
and takes the first final response.  `wait` is the promise of
`waitForRegistration()`.

### UdpTcpTunnel, Wire and FrameFifo

The stream is a sequence of cells (two for the length, one for channel and
ports, then the payload) in the tunnel, of byte values in `Wire`.  A read
takes any prefix of what is on the way; the parsers' loops are recursive functions
over the stage buffer.  The tunnel has `state`, the TCP connection, the UDP
sockets and the learned peers of both ends; `re` marks a datagram that answers
another.  `Wire` has a header with a length no frame may have (`Desync`), and the
receive buffer of `modemd-ctrl`, whose parser returns a pointer into the bytes
that it then moves (`Memory`).

`FrameFifo` is the promise, in two halves.  `Order`: what was received is a prefix
of what was sent, extended by whole frames; one arrival may complete several, and
may make the other end send several.  `Arrival`: while the connection is up all
of it comes out.  Both directions of the tunnel implement it, and so does the
way from VM to host in `Wire`, where the connection is up until the parser meets a
bad length.  Towards the VM it does not, because of what `Memory` does to
payloads; there `ToVmSafe` states order, types and lengths.

`Wire` counts lengths in two bytes, low byte first, up to a payload of 65533
(`ConstantsOK`; the code's limit is 4093).  `UdpTcpTunnel` assumes that the VM's stage buffer
takes one frame of the largest size; the code's takes two.

### ModemControl

A byte is a token: half of a keyword (`CON`, `NECT`, `NO`, `CARRIER`), a rate, CR
or LF, a whole other result code, or a byte of the caller, who may also send what
could start NO CARRIER.  `dataMode` and `pending` are `S.data_mode` and
`S.pending_buf`; `toHost` and `toVm` the frames; `host` what the backend believes
and has emitted, `lineBuf` and `flushTimer` its line buffer and 150 ms timer.
`Hear` is the loop of `_onPtyText()`, a recursive function of the text and the host.
`VmReadsPty` takes any number of the PTY's bytes; `VmReadsFrame`, `HostReadsFrame` and
`FlushFires` are the two loops and the timer.  `typed` records what the modem
was doing when bytes were written to it.

### TelnetProxy

`p` has the fields of the object, with timers named after the socket they were
made for; `timers` and `idles` are the timers that really run, which is not the
same when a field is overwritten.  `conn` is every socket that was made.
`Receive` is `receive()` with its loop over the keys of one read; each callback of
a socket or a timer is an action.

### RtpPlayout and RtpBridge

Packet *n* of the sender has the number `(First + n) % Width`.  `buf` is the
jitter buffer in order of arrival, `next` the play pointer, `misses` the counter
of ticks without the packet that is due.  `Distance` is the signed 16-bit
difference of the code, at width `Width`.  `Tick` is `_playoutTick()` in its three
modes; `Deliver` is `_onPacket()` with the buffer's overflow.  A stream has fewer
packets than half the numbers (`ConstantsOK`; 32767 packets are 11 minutes), so
that a distance says which of two packets is the earlier.  The code does not see
to that: `StaleDropped` in section 3 is what happens in a longer call.

`RtpBridge` has the two peers, the counters, where the last packet went each
way, and `handled`: which listeners of the caller's socket got its last packet.
`SwapToNative` stops the bridge and has the RTP session adopt the socket, in
one step as in the code; `Teardown` is the end of the call.

### HandshakeEngine

Time goes in units of which each brings a received packet, a generated block and
the engine's timer, in any order (`todo`).  `h` is the engine: its state, the
protocol with its listeners (`live`), the rest of the probes, `timer` with its age,
the queued silence, what V.8 has used of its time.  `silent` is `ModemDSP`'s
counter of silent packets.  `line` is the call: role, configuration, who calls
and whether he has V.8, answers his modulation, and is still there.

### V8Sequencer and V8Parser

Both sides are kept in `side`, one record each with the object's fields.  In a
unit of time both generate (`Tick`) and then each receives what the other has
sent (`Rx`), a message damaged or not.  Timers count received units, as in
the code.  `Foreign` replaces a side by a modem that
sends in any order: an answerer tones, a caller CI, its one CM, and CJ.

The parser works on classes of bytes.  `Data` is one `'data'` event with any piece
of the stream; `Parse`, the loop over the buffer, is a recursive function that gives
what is left of it and the messages of this call.  `msgs` keeps those of all calls.

### V22Startup

`phase`, `inPhase`, `total`, `above`, `detected`, `s1Run`, `bps` are the fields of
the answerer; `rx` is the demodulator: its stage (acquisition, scrambled ones,
sustaining, wait, normal), a count, its rate, and whether the sixteen-way slicer
is on.  In every block the line carries nothing, a carrier, S1 or another sound
(`Packet`), or no packet comes (`Miss`); then a block is sent (`Send`), which is
what moves the phases.  Filters, equalizer and slicer are what their thresholds
say of such a block; `pick` is what the symbols of a block leave open.

## 3. What TLC checks

A run's property often is a conjunction: `BackendSafe`, `TunnelSafe` and the
like name everything of one kind that their component promises, and the module's
comments state each conjunct.  Safety and liveness are kept apart, so that section 4
can say which of the properties below are proved.

| Run | Question and properties | States |
|---|---|---|
| `pool` | the pool alone: `TypeOK`, `OneVm`, `NoOrphan`, `ExclusiveLease`, `StopLeavesOnlyLeased`; `WaitsEnd`, every `checkout()` and `stop()` settles; it implements `BackendLease` (`LeaseSpec`) | 883 |
| `sip` | the SIP server alone: `TypeOK`, `LiveDialogReachable`, `TimerOnlyWhileUnacked`, `AnswerSettles` | 3 987 |
| `gateway` | everything, auto mode, TCP callers: `TypeOK`, `ActiveIsReachable`, `LeaseMatches`, `EndsOnce`, `TeardownReturnsLease`; the composition keeps the pool's and the SIP server's specifications (`PartsSpec`) | 72 546 |
| `gateway_native` | without a pool, three calls: `CallSafe` | 12 413 |
| `gateway_live` | under fairness: `CallsSettle`, `ShutdownExits`; and `ExitLeavesNoVm` | 61 751 |
| `vm` | `BackendSafe` (`NothingLeft`, `AtaOnceAfterInit`, `BridgeMeansCall`); `LeadsLife`, the backend implements `VmLife`; `SipHolds`, the promises of client and registrar; `VmSettles`, start, stop, requests and waits end | 57 435 |
| `datagrams` | `TunnelSafe` (framing is never lost, the stage buffer never full, answers find the sender); `FramesInOrder`, both directions implement `FrameFifo`'s order; `WireHolds`, so does the framing of the control channel; `BridgeSafe`, `PlayoutHolds`; `DatagramsArrive`, and nothing stays on the way | 84 360 |
| `modemdata` | `ControlSafe`; `TelnetSafe`; `CallerIsServed`, results are reported, connection attempts and connections end | 9 614 |
| `startup` | `HandshakeSafe`, `V22Safe`, `StartupEnds` | 158 739 |
| `v8` | `V8Safe` (the parser's promises and the types), `NegotiationHolds`; `NegotiationEnds`, with the types of the clean line's sequencers | 329 620 |
| `gateway_lease` | violated: `LeaseReturned` | |
| `rtp_outage` | violated: `NeverStalls` | |

`PartsSpec` is what lets the pool and the SIP server be studied alone: every step
of the gateway is a step of the pool's specification and of the SIP server's, or
leaves them alone.  So the gateway never calls them in a way their own modules
do not allow, and what is proved of them for all sizes is about the pool and
the server that the gateway runs.  `LeadsLife` does the same one level
down: the VM lives that the pool's module assumes are those `PjsipBackend` leads.

### Where the code and what is said of it differ

Two runs show a property that the repository states and the code violates.

| Run | Violated | What happens |
|---|---|---|
| `gateway_lease` | `LeaseReturned` | The caller hangs up while `activate()` waits for a warm-up.  The teardown finds no backend; then the VM is checked out for the dead session and never returned.  Every later call fails. |
| `rtp_outage` | `NeverStalls` | More than `maxSeqGap` packets are lost in a row.  The fixed buffer's pointer never moves again; the buffer fills and drops, and the call hears nothing more. |

The modules state more such sentences, each with a quotation in its comment.  No
run checks them; a configuration of the module named here, with that property
alone, finds a counterexample at once.  Its constants are those of the
run the module belongs to unless the last column says otherwise.

| Property | Module | What happens | Constants |
|---|---|---|---|
| `OneVm` | `ModemBackendPool` | `start()` "as a no-op if already started" boots a second VM after a call; `index.js` calls it once | `MaxStarts = 2` |
| `ReturnStops` | `ModemBackendPool` | `recycle()` on a stopped pool drops a running VM | |
| `TerminatedIsFinal` | `SipServer` | a late ACK takes a dialog that the gateway ended with BYE back to CONFIRMED | |
| `SingleDialog` | `SipServer` | the same while the next call is up: two live dialogs | |
| `RecentCallWaits` | `MCGateway` | a call before the last VM is dead finds the pool `empty`, not `warming`, and is hung up although a comment says it waits | |
| `ShutdownExits` | `MCGateway` | `SipServer.stop()` waits for TCP connections to close before it destroys them | `SipOverTcp = TRUE` |
| `VmDeathFailsStart` | `PjsipBackend` | a VM that exits before its modem registers leaves the start pending until the time-out | |
| `RingWatchEnds` | `PjsipBackend` | `stop()` closes the client under its INVITE, whose promise never settles; the RING fallback fires on a stopped backend | |
| `StopIsFinal` | `UdpTcpTunnel` | `stop()` during the TCP connect: `start()` later makes the state `ready` | |
| `DroppedUntilLearned` | `UdpTcpTunnel` | the VM's end sends frames for an unknown peer to the port in the header | |
| `PayloadIntact` | `Wire` | two frames in one read: the first is handled with the second's bytes | `Sizes = {1}`, `Bytes` with two values, `MaxPayload = 5`, `HostFrames = 2`, `VmFrames = 0` |
| `DataDelivered` | `ModemControl` | a byte that could start NO CARRIER waits for the next one, without a timer | |
| `LineTravelsWhole` | `ModemControl` | what follows CONNECT in one read is not searched, so a NO CARRIER cut there is never seen | `Prompt = FALSE` |
| `ProxyIsBidirectional` | `TelnetProxy` | a read with two lines starts two connections | `Chunks` with two lines in a read |
| `BeatCancelled` | `TelnetProxy` | the connect timer, left running at the end of the call, arms the heartbeat | |
| `BeatNotDeferred` | `TelnetProxy` | every key arms the heartbeat anew | |
| `StaleDropped` | `RtpPlayout` | a packet that comes after its turn stays in the buffer and is played when the numbers have come round (22 minutes) and the new one is late | `PacedSpec`, `Modes = {"buffered"}`, `Width = 6`, `First = 5`, `InitDepth = 1`, `MaxDepth = 3`, `MissSkip = 1`, `SkipDepth = 2`, `MaxGap = 2`, `Packets = 8`, `Lost = {}`, `Late = 2`, `Twice = 1` |
| `Relearns` | `RtpBridge` | a later address changes nothing | |
| `RatesAgree` | `V22Startup` | a dip of the carrier after S1 puts the receiver back to 1200 for good | |
| `ProbeEnds` | `V22Startup` | a caller who was heard and never trains keeps the answerer in `u11` | |
| `SilenceFirst` | `HandshakeEngine` | the queued silence is dropped by the first block: `answerToneDelayMs` has no effect | |
| `NoTraining` | `HandshakeEngine` | `0 \|\| 600` turns the configured 0 into 600 ms | |
| `BellIsProbed` | `HandshakeEngine` | a silent caller is hung up before the chain comes to Bell 103 | |
| `FailureEndsCall` | `HandshakeEngine` | nobody listens for `handshake-failed` | `SilentMax = 20` |
| `DeadStreamEndsCall` | `HandshakeEngine` | without packets neither the silence counter nor V.8's timers count | |
| `ResultHasProtocol` | `V8Sequencer` | a CJ after a no-deal JM gives `result` with protocol null | `Foreign = "originate"` |
| `AdvertisedIsChosen` | `V8Sequencer` | V.22 and V.22bis share a bit, and V22bis comes first | `Protocols = {"V22bis", "V22"}` |
| `PlainIsDetected` | `V8Sequencer` | plain ANS is taken for ANSam; `non-v8` is emitted nowhere | `Foreign = "answer"` |
| `TwoZerosAreCJ` | `V8Parser` | two zeros behind a cut CM wait for a fourth byte | |

Some comments only speak of numbers that have changed (V.8's "we use 8s" stands
next to a `CM_WAIT_TIMEOUT_MS` of 5000); the models follow the code.

### Bounds

* **Pool and gateway.** Backend objects: 3.  Two can be alive in a faulty pool
  (the old VM and its replacement), a third is free so that a boot is never
  refused for want of an object; with 2 a replacement uses the other one
  (`gateway_live`).  Callers of the pool: 3, so that two can wait for one warm-up
  while a third has a VM or comes back with one.  Call-IDs: 2, the old call and
  the new one that a delayed request can confuse; dialogs: 2 or 3, which are never
  reused, so their number bounds the calls of a run.  `MaxResend`: 6 in the
  code, 1 or 2 here: none, some and all resends are told apart.  `MaxStarts`: 1.
* **`vm`.** One init command (ATA must still come last), 2 retransmissions (4 in
  the code), 1 probe, 2 messages under way in a direction; more are lost, which
  they may be anyway.  Registrar: 2 REGISTER transactions, so that an old copy
  can meet a newer one, with 2 addresses or none; 3 messages under way.
* **`datagrams`.** Tunnel: 2 frames down and 1 up with payloads of at most one cell,
  every cut of the stream; the VM's stage buffer takes one frame of the largest size
  and no more, so that a cut in the wrong place would fill it.  Framing: 2 frames
  each way, of a known and an unknown type, with payloads of 0, 3 (the maximum)
  and 4 bytes, one broken header that is too short or too long, all cuts.  4 packets over the
  bridge, a known and an unknown address each side.  Playout: 6 packets at
  width 14 from number 13, so that the second one wraps; 2 neighbours lost, one
  late copy, a packet on its way as long as there are any; depths of 2 and 3 make overflow and skips happen.
* **`modemdata`.** 1 byte of the caller (the empty line before NO CARRIER adds
  two), which may start a keyword, one unsolicited result, one frame to the VM;
  all cuts of the PTY.  Telnet: 3 connections (one that is forgotten,
  one in use, one more), reads with at most one line, one heartbeat.
* **`startup`.** Durations in packets, in the order they have in the code, which is
  what the races turn on.  The answerer's silence (75 ms) and the receiver's
  acquisition (67 ms) both end in the fourth packet of 20 ms, so they have one value.
  With a silence that is longer by a packet `CarrierIsAnswered` fails: S1 that ends
  in the silence puts the receiver at 2400 bit/s, which the answerer only takes note
  of in `u11`, where it then stays.  A caller sends S1 when it has heard the
  answerer's unscrambled ones, after the silence, so only noise could do this.  Handshake: two of the four forced protocols, one for
  each kind of path, and a caller for each probe.
* **`v8`.** The noisy line has two protocols, which is what a damaged CM can be
  mistaken in; the clean one has three, with one that has no bit of its own.  The
  timers are long enough for a negotiation without loss to finish, short enough to
  fire with one.  The parser sees every stream of up to 7 bytes of 5 classes,
  two more than the longest message it keeps, in pieces of 1 to 3 (`Bytes`, `MaxLen`,
  `MaxPiece`).
* Symmetry is used for invariants and step properties only, never with liveness.

Deadlock is checked in `startup`, where a call always goes on until its bound
variables come to rest in a loop.  Elsewhere the system may rest: nobody calls, a
run's dialogs, frames or packets are used up, the program has exited.

### Fairness

Weak fairness, on what the machine owes and nothing else.

* Gateway, pool, SIP: due microtasks run; armed timers fire; a VM start ends, by
  success, failure or the warm-up time-out; a VM stop ends (it kills the
  process and waits 200 ms); closed sockets report it.  Nothing is assumed of
  callers, users, TCP clients or the backend's events.
* Backend, client, registrar: their timers fire and the host reads its socket.
  Nothing is owed by the VM, the modem or PJSIP.
* Tunnel and framing: both ends read what has arrived.
* Control channel: the two loops run, the debounce timer fires, and a modem that
  trains gets to a result, as slmodemd's own time-outs have it.
* Telnet proxy: Node's timers fire, a destroyed socket closes.
* Playout: the timer fires, the sender goes on, what is not lost arrives.
* Handshake, V.22, V.8: time goes on.  `SF_vars(Trains)` says that a V.22 caller who is heard
  again and again trains in the end, which `CarrierIsAnswered` checks of
  `V22Startup`, there under strong fairness of packets: the stream may have
  gaps but does not end.

## 4. What is proved

The proofs are checked by TLAPS for constants of every size.  For each component
a `..._proofs` module has an inductive invariant (`IInv` or, where a module has
several, `...Inv`), a lemma that `Init` implies
it, one per action (or helper) that it is kept, and theorems that follow from it.

Every safety property of the passing runs, invariant or step property, is a
theorem.  Where a run is of several parts, the theorem is of
the composed specification or, for the component an MC module extends, of that
component's own.

* **Pool** (`ModemBackendPool_proofs`): `TypeCorrect`; and with `MaxStarts = 1` (the program
  calls `start()` once, and with 2 the claim is false) `OneVmAlways`,
  `NoOrphanAlways`, `ExclusiveLeaseAlways`, and `PoolImplementsLease`: every
  behaviour is one of `BackendLease`.
  `OneVm` is not inductive: the pool boots a VM whenever `_state` is `empty`, so
  one has to know what that state says about VMs.  `IInv` ties every field to the
  life of the VMs: a warm-up in flight is the one `warmupPromise` names and its VM
  the only one (`WarmingVm`, `PromiseVm`); a recycle that awaits the old VM is the
  only owner of the only VM (`RecyclingVm`); what `stop()` awaits is in flight or
  is the VM it stops (`StoppingVm`); a `ready` pool has its warm VM (`WarmVm`), a
  caller's VM is the only one and the state is `checked_out` (`LeasedVm`); before
  `start()` there is nothing (`NotStarted`).
* **SIP server** (`SipServer_proofs`): `TypeCorrect`, `LiveDialogAlwaysReachable`,
  `TimerOnlyBeforeAck`.  `MapSound`: a mapped dialog knows its Call-ID;
  `InviteFresh`: the event `invite` stands for a dialog that is EARLY and mapped,
  which is what `answerCall()` relies on.
* **Pool, its end** (the same module): `StopLeavesOnlyLeasedAlways`.  `stop()`
  awaits in stages, and between them a warm-up or a recycle goes on.  `StopInv`
  says what is left at each: one warm-up and one recycle at most (`OneWarmup`,
  `OneRecycle`), what the stage of `stop()` still has in hand (`StopStage`), and no VM
  that nobody names (`NoOrphanStopping`).
* **Gateway** (`Gateway_proofs`): `TypeCorrect`, `CallSafeAlways`, `ActiveAlwaysReachable`,
  `EndsOnceAlways`, `LeaseMatchesAlways`, `TeardownAlwaysReturnsLease`, `PartsKeepRules`,
  for any number of calls, dialogs and VMs and in every mode.  One assumption is
  about constants, `NamesAssumption`: no dialog or VM is called `none`.
  `IInv` takes over the pool's and the SIP server's invariants (instances of
  their proof modules), so their lemmas carry every step in which the program
  calls them.  `Core` adds what a session's fields are by what its `setup()` or
  `activate()` does next (`Stages`), that the session `index.js` routes to is the one
  the SIP server knows under its Call-ID (`Current`), and that only a session
  in `activate()` waits for a VM (`Waits`).  `Timing` is needed because the code
  relies on having the event loop to itself: while `setup()` runs nothing else
  is due (`SetupAlone`), between `hangup()` and `sipServer.stop()` no call is left
  (`HungupAlone`), and before the first VM nobody can call (`NoCallYet`).
* **Program end** (`ExitLeavesNoVmAlways`), with the hypothesis `~SipOverTcp`: with a TCP
  client the program does not get through `sipServer.stop()` (`ShutdownExits` in the
  table above), and a call can come in meanwhile.  `ExitInv` says that no call
  is up while the sockets close, that a stopped pool only ever refuses, and that
  the VMs left are those sessions hold.
* **SIP client** (`PjsipBackend_proofs`, about `Uac!Spec`): `ClientSafeAlways`,
  `ClientTerminatedStays`, `ClientCloseIsQuiet`, for all resend limits and queues.
  A confirmed client means a peer that answered, which is not inductive: a 200
  may have been on its way for long.  `ClientInv` therefore speaks of the queues:
  there is one INVITE (`OneInvite`), before it only probes (`Untouched`), while it is
  in flight neither ACK nor BYE (`NothingAfterAnswer`), and a 200 is from a peer that
  answered (`AnswerIsReal`).
* **Backend** (`PjsipBackend_proofs`): `BackendSafeAlways`; `BackendRunsClient`, every
  behaviour is one of the client's specification, so the client's theorems
  hold in it (`BackendClientKeepsRules`); and `BackendLeadsLife`, every step is one of
  `VmLife`'s or a stutter.  The invariant has where start-up, call and `stop()` are by
  `state` (`Stages`), what is open then (`Resources`), what each stage of `stop()` has
  done (`StopStages`), and that the answer sequence runs once (`AnswersOnce`).
  `ClientAssumption` passes the client's assumptions on its constants on.
* **Registrar** (the same module): `RegistrarSafeAlways`, for any number of
  addresses, transactions, copies and messages under way.  PJSIP's REGISTER is
  answered twice, 200 by the registrar and 405 by the client, and PJSIP takes the
  first.  `InOrder` and `OnlyCopiesFollow` say what is in the queues, `GrantedFirst`
  that the 200 is ahead of every 405 of its transaction, `GrantIsBinding` that it
  speaks of the binding the registrar has.  `SipHoldsAlways` puts the client's and the
  registrar's rules together as the run `vm` checks them.
* **Control channel** (`ModemData_proofs`): `ControlSafeAlways`, under `Prompt`: the VM
  has read a CONNECT line before the call can drop.  Without it the claim is
  false (`LineTravelsWhole` above); the line is read in milliseconds, a call lasts
  seconds.  The theorem is for PTY reads of any length, any number of the
  caller's bytes, result codes and frames.
  The difficulty is that host, frames, held bytes and unread bytes each lag
  behind the modem.  The invariant names two views of the call: `a`, what the
  host knows (`Sees`), and `b`, what it will know when it has read the frames under
  way; `Leads` is the path from one to the other, a frame at a time.
  `Foreseen` says what the held and unread bytes must be by the phase of the call:
  result codes (`Waiting`), and a CONNECT line (`Connecting`) or NO CARRIER (`Failing`)
  at their end; the caller's bytes (`Carrying`), then the last line (`Ending`).  A read
  may cut these anywhere, and a lemma for each phase (`WaitingRead`, `ConnectingRead`,
  and so on) says that what is sent on leads the host further and what is kept
  is still foreseen.  `Hear` is recursive, and the prover has no induction rule
  that takes a predicate; the rules are stated for sets (`SetInduction`, `Recursion`,
  `HearInduction`) and proved from well-founded minimality, for texts of any length.
* **Telnet proxy** (the same module): `TelnetSafeAlways`, for any keys, timeouts and number
  of connections, when a read ends one line at most (`OneLineARead`).  With two
  lines in a read the claim is false (`ProxyIsBidirectional` above), so this is where
  the code is right.  `Fits` has four stages: no connection and no timer of one
  (`Resting`); one being made, whose timer is the only one and is remembered
  (`Calling`); one in use, while all before it have said that they are closed
  (`Talking`); and the end of the call, after which a connect timer may still run.
  `receive()` goes through the keys of a read one at a time, so the invariant has to
  hold between keys, where the proxy may already be in another state.
* **Tunnel** (`Datagrams_proofs`): `TunnelSafeAlways`, `FramesKeepOrder`, for any channels,
  sizes and numbers of frames, and every way TCP may cut the stream.  `Carried` says
  of each direction that the cells in the far stage and on the wire are those of the
  frames that were sent and have not come out; `Peers`, that what was sent
  is to or from one who is known.  What a read makes of that is a lemma about cutting
  (`CutBetween`): if cells `s \o t` are those of some frames, the loop over `s` gives the
  first of them and leaves the beginning of the next, which is shorter than the
  largest frame, so that the stage never fills and no length is read from the
  middle of a frame.  For `FramesKeepOrder` a read that completes several frames, each of which may be
  answered at once, is one `Receive` of `FrameFifo` in one direction and one `Send` in the
  other.
* **Framing of the control channel** (the same module): `WireHoldsAlways`, for any types,
  bytes, sizes and numbers of frames, and every cut.  Lengths are two bytes,
  and `HeaderOctets` says that what is written is read.  The invariant is
  `Carried`'s with two additions.  Towards the host a bad header may follow the last
  frame that was parsed whole (`Underway`, `Junk`): when the parser comes to it, that is
  the end, and frames written later are never heard.  Towards the VM a
  frame keeps its type and its length, not its payload (`Alike`), because of
  what `wire_try_parse()` does to it.
  The parsers are recursive functions, and the prover knows nothing of such a
  function but that it is some value; that there is one that solves its equation, and
  only one, is proved once for loops that shorten their argument
  (`Recursive`, `Solves`) and used for every loop of tunnel and framing.
* **RTP bridge** (the same module): `BridgeSafeHolds`.  `Handed`: the bridge
  has let go of the socket whenever a session has it; `Counted`: every packet is
  counted once at most, and drops are among what was counted.
* **Playout** (the same module): `PlayoutAlways` and, as the run checks it,
  `PlayoutHoldsAlways`, for every width of the
  sequence numbers, every first number and all depths, with the packets fewer than
  half the numbers.
  Three lemmas take the arithmetic out of the way: counting on
  from a number is counting packets (`Onward`), the signed distance of two numbers
  is that of the packets (`Apart`), so no two have one number (`OneNumber`).  Then
  `PlayoutInv`: the pointer stands at a packet, and all that was played came before
  it (`Stands`); when nothing has set it yet, nothing was played.  `EarliestIsLeast`
  is about the scan that starts playout, a recursive function: its closed form
  satisfies its equation, so it exists, and induction shows that it is the only
  one.  `SkipsToNearest` is why a skip passes by nothing.
* **V.22 start-up** (`Startup_proofs`): `V22SafeAlways`, `V22ReportsOnce`, for all
  durations with one condition, `Silence + 1 < Scrambled`: the opening silence
  (75 ms) is over before the receiver can have heard 270 ms of scrambled ones.
  Why both directions have one rate is a matter of when the receiver can be
  where.  `Early`: while the answerer is still silent the receiver has not got
  past the scrambled ones, because it has heard no more blocks than that;
  `BeforeRate`: until the rate is settled a receiver in normal operation has the
  slicer of 2400 and one that is sustaining is at 1200; `AfterRate`: from then on
  the receiver keeps the rate, or has started over.  `FastIsHeard` and
  `PhaseOfKind` exclude a 2400 bit/s handshake that fails.
* **Handshake engine** (the same module): `HandshakeSafeHolds`, for
  all durations, windows and callers.  That an FSK caller gets his own protocol
  rests on `Listens` (an instance of the chain listens for the other protocol,
  too, and so notices that it is not meant) and `HeardHim` (what was heard came
  from the caller); one outcome on `Unreported`; one set of listeners on
  `Untried` and `Current`.
* **V.8** (`V8Sequencer_proofs`): `NegotiationAlways`, with `TypeCorrect`, for any protocols, durations and
  timeouts, a line that loses and damages messages, and a foreign modem on either
  side (an answerer that sends tones only, a caller that sends its CM, CI and CJ in
  any order).  Two sides agree because what travels is always one of two things: a whole CM
  is the caller's offer, a whole JM the modes it has in common with the answerer
  (`OnAir`), and so is what either side holds as the last or the pending message
  (`AnswerOK`, `CallerOK`).  The caller acts on a JM only when the answerer has settled
  on the deal (`Settled`), and no later CM can change that, since it is the same offer.
  `Goes` says what any handler may do to what a side reports: once, when it parks,
  and for good.
* **V.8's parser** (the same module): `V8SafeAlways`, for any bytes, streams of any
  length and every cut.  That the pieces do not matter is not a property of the loop
  alone: with other cuts it may use two zeros where it would have used three, and so
  come to other places of the stream.  But every sync byte comes to the front of the
  buffer (no turn uses one that is not its first byte, `StepUses`), a turn never
  decides about one before what decides it is there (`SyncStays`), and what it
  decides depends on the bytes from there on: `Own(s, n)`.  So the CMs and JMs found
  in the first `p` bytes are those of the sync bytes among them, in order (`Lists`,
  `AllCMs`), and there is a CJ when and only when there were two zeros in a row
  (`ZerosFor`, `ZerosSeen`).  `Found` says so; it is kept by every turn of the loop
  (`StepFinds`, `LoopFinds`) and by whatever arrives later (`FoundStays`), and
  `ParserInv` says that the parser waits at a place of which it is true.  Two parsers
  that wait have used the same, or one of them a last zero more (`SamePlace`), which
  makes no difference (`SameMessages`).  An undamaged message is decided where it
  stands and hence found (`CleanFound`); three zeros are more than what waits can hold
  (`CJFound`, from `WaitsFor`).  `Parse` and `CMs` are recursive functions, and
  `ParseEquation` and `CMsEquation` prove that they satisfy their equations: `Recursion`
  does it for functions over any set whose steps lower a rank.

Some definitions had to be put otherwise before they could be reasoned about:
`Life` and `RtpPlayout`'s `OnPacket` had CASEs with overlapping guards.  TLC takes
the first that is true, but the meaning is any of them; both are now IF chains, in
the order of the code.  `ConstantsOK` of `VmRegistrar` says that no address is the
value for "not bound".  `RtpPlayout` takes a packet out of the buffer by cutting the
sequence in two, where it had used `SelectSeq`, which the provers cannot expand.
`V8Parser`'s `Parse` had been a RECURSIVE operator, behind which the prover loses its
SMT backend, and its `CMs` a `SelectSeq`; both are recursive functions now.

**Only model-checked.**

* Liveness, which needs fairness and ENABLED: `WaitsEnd`, `AnswerSettles`, `CallsSettle`,
  `ShutdownExits`, `VmSettles`, `DatagramsArrive`, `CallerIsServed`, `StartupEnds` and
  `NegotiationEnds`.  (`StartupEnds` also says that V.22 reports once, which is
  `V22ReportsOnce`.)
* The types of the sequencers on the clean line, which are `V8Sequencer`'s with other
  constants: `TypeCorrect` is about all of them, and the run has those of
  that line in `NegotiationEnds`.
* What a proof assumes and the code does not see to: one call of the pool's `start()`,
  no TCP client at the program's end, `Prompt`, `OneLineARead`, a stream of fewer than half the
  sequence numbers.  What happens otherwise is in the tables of section 3.

## 5. What is left out

* **Within the modelled components**: message text, SDP, codec and address choice,
  100 Trying, the stateless answers to OPTIONS, REGISTER and unknown methods,
  statistics, capture, logging; the VM's serial ports and their reopening; IAC
  negotiation; RTP sending and redundancy; the calling side of V.22.
* **`main()` before its first await**: options, VM file checks, the timer addon.
* **V.8**: a damaged message never equals another damaged one, never passes for a
  CJ, and neither loses nor gains all mode bits in a way that a second copy
  repeats; so two equal copies in a row are the message that was sent.
* **V.22**: filters, equalizer and slicer are their thresholds; which of the
  symbols of a block are counted is a free choice.
* **Handshake**: V.8's time is the received audio it has counted; a caller who is
  willing is heard while his own modulation is listened for.
* **Tunnel**: one consumer per channel and end, as the program has it.
* **`modemd-ctrl`**: the 256 bytes of its pending buffer.  A start of a keyword and a
  result line fit (`TypeOK` of `ModemControl`: 5 tokens at most); it would take a
  complete keyword with some 250 bytes and no line end behind it to overflow.
* **Not modelled**: FSK modulations and signal primitives (floating-point
  arithmetic), codec tables, SIP text parsing, the address resolver (a lookup),
  capture and logging, configuration (constants), the QEMU runner for tests, test
  clients and tools, build scripts, the Windows timer addon, and code that is
  not this project's (slmodemd, PJSIP, QEMU, the kernel), which is the
  environment of the models.

## 6. What could come next

Models of `RtpSession`'s port allocator and sending side, of the reopening of the
VM's serial ports, and of the calling side of V.22.
