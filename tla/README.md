# WSBridge in TLA+

WSBridge is an iOS VPN extension. It takes the TCP packets that Telegram sends
to its data centres (DCs), terminates the TCP connections in an lwIP stack
inside the extension, and carries the bytes over WebSockets to Telegram's `kws`
gateways (direct mode), to a Cloudflare worker of the user (pipe mode) or to a
relay (relay mode). This directory holds TLA+ models of the parts where
threads, callbacks, reused identifiers and limits meet, the TLC runs that check
them, and TLAPS proofs for every size of the tables.

## The system

| part | state | operations | talks to |
|---|---|---|---|
| lwIP bridge (`Tunnel/lwip_bridge.c`, `LWIPBridge.swift`) | NAT table `g_nat` (client port → DC), connection table `g_conns` (id → pcb, DC) | `lwip_bridge_input/poll/write/close`, the callbacks lwIP makes | lwIP below, the provider above through `g_accept`, `g_recv`, `g_close`, `g_sent` |
| lwIP (`Tunnel/lwip`, vendored) | pcbs, pools, timer list | TCP, `sys_check_timeouts` | the bridge's callbacks |
| provider (`PacketTunnelProvider.swift`) | `sessions` by connection id | read loop, timers, `stopTunnel` | bridge, sessions; everything on `lwipQueue` |
| session (`TunnelSession.swift`) | `dead`, `pending`, its `WSClient`, init buffer, splitter | `handleData`, `handleSent`, `handleClose`, WebSocket callbacks | bridge by connection id; WebSocket callbacks come on other threads and queue jobs on `lwipQueue` |
| WebSocket client (`WSClient.swift`) | `task`, `TryState`, `firstRecv`, health cache, relay connection | `connect` (cascade), `connectPipe`, `connectRelay`, `send`, `close` | URLSession's delegate queue, global-queue timers, `lwipQueue` |
| splitter, init parser, AES-CTR | buffers, key stream position | `split`, `parse`, `update` | session |
| event log, journal server | entries, file | `append`, `flush`, `loadPrevious` | everyone; the app reads it over TCP |
| front domains | list of names | `update` | cascade |
| app (`TunnelManager.swift`, views) | VPN status, watchdogs | `toggle`, `reload`, `fetchStats` | system VPN API, journal |
| worker (`worker-pipe*.js`) | one TCP socket per WebSocket | message, close, read loop, connect timeout | client and DC |

What is hard here: connection ids and client ports are reused while jobs, pcbs
and packets of their former owners are still under way; TCP callbacks may
destroy the object they were called for; three kinds of threads run the
cascade with one lock between them; and pools that all connections share decide
whether a byte can be written. The hazards are listed line by line in
`PROJECT.json`.

What makes each part correct: the bridge gives every accepted connection its own
DC and slot, and keeps lwIP's callback rules; a session's bytes reach its own
connection, all of them, in order, and nobody else's; the cascade tries each
endpoint once and ends; pipe and relay keep the order of frames and report every
end; the splitter makes one frame of one packet; the journal survives a crash;
the switch of the app shows what the VPN does; and lwIP's timers never get lost,
since every timeout above hangs on them.

## Modules

- `ConnTable`: the abstract specification. A connection id belongs to one
  connection or to nobody; it is given away only while it is free, and between
  two owners everybody sees it free. `LwipBridge` implements it
  (`ImplementsConnTable`), with the owner of a slot as the refinement mapping;
  `TunnelSession` is written against the ids so promised.
- `LwipBridge`: the bridge, with the pcb life cycle of lwIP and the TCP of the
  device as its environment. A step is one job of `lwipQueue`: an input packet
  together with the callbacks lwIP makes for it, a timer poll, a write or a close.
  `g_nat`, `g_conns` are the C tables; `pcb`, `arg`, `unacked` are lwIP's side;
  `inq` holds the packets of the device; `out` and `cb` record the last packet
  sent and how the last callback ended. Packets to the device are delivered at
  once; packets from the device wait in `inq` as long as they like and are lost
  when it is full or memory fails. The client address is constant in the
  program, so a NAT key is a port.
- `Timeouts`: the timer list of `timeouts.c` that drives every retransmission
  and timeout of the bridge, with the 32-bit clock that wraps. A poll is several
  steps, so that time passes while a handler runs. This build has two timers
  (TCP on demand, IP reassembly always) and a pool for exactly these two.
- `TunnelSession`: sessions, the session table, the jobs that WebSocket
  callbacks queue, and writing with back-pressure. `tcp_write` takes a chunk
  whole or refuses it, for lack of send buffer or of memory that all connections
  share. The mode (`workerDomain`) is chosen in `Init`. WebSocket callbacks come
  in any order and number, before and after the WebSocket is cancelled; `startWS`
  may also find at once that it cannot connect.
- `Upstream`: the way of the client's bytes in direct mode, `tcp_recv_cb`,
  `handleData`, `InitParser`, `AESCTR` and `MsgSplitter`. A byte is a position
  and a plain value; the cipher returns the plain value while it stands at the
  right position and anything otherwise. Base, header length, unit and length of
  the init are constants.
- `WSCascade`: one `WSClient` in direct mode. Going from one endpoint to the
  next is four steps (claim, `task = nil`, `task = wsTask`, init frame), because
  `lwipQueue` runs beside the thread that takes them. Completions of URLSession
  are serial (`DelegateFree`); timers are not. Hosts whose address makes no URL are
  passed over, so they are left out of the list when it is made; if none is left,
  `connect` ends with `onClose`.
- `PipeWorker` and `StreamClient`: the worker's `fetch` with one action per
  stretch between two awaits, and the client of pipe and relay mode joined to it
  by `link`, `up`, `down`, `server`. A write that the closing stream refuses closes
  the WebSocket with 1011, as one that fails does. `send()` in relay mode and the `.ready`
  handler are split where they read and write the fields they share. The relay
  and the DC are external.
- `EventLog`, `TunnelManager` and `AppTunnel`: the journal of the extension with
  its file, the app's switch with one action per stretch between two awaits, and
  their composition with the VPN of the system (external), which starts, stops
  and loses the extension. `EventLog` has one step per call that takes its lock:
  `startTunnel` loads the old journal and then appends three lines, `stopTunnel`
  appends the reason and then flushes, and sessions may append between any two of
  these, those of an earlier run in the same process (`live`) included. A line is its run
  and its number in it. A write that the disk refuses (`try?`) is not modelled.
- `LwipBridgeProofs`, `TimeoutsProofs`, `TunnelSessionProofs`, `UpstreamProofs`,
  `WSCascadeProofs`, `StreamClientProofs`, `AppTunnelProofs`: the proofs about
  the module each is named for. `Induction` holds the lemmas they share.
- `MC*` modules and `.cfg` files: instances. Definitions named `X_Something`
  before a definition `X` are faulty variants of it; each property is shown to
  fail when its variant takes the place of the original.

The modules meet at these seams: the ids of `LwipBridge` are the ids of
`TunnelSession` (`ConnTable`); frames of `Upstream` are the arguments of `send` in
`WSCascade`; the `onMessage` and `onClose` calls of `WSCascade` and `StreamClient`
are the jobs of `TunnelSession`, which allows any number of them in any order
(`MaxCloses` and `MaxBytes` bound the number);
the polls of `Timeouts` are the poll steps of `LwipBridge`.

## Runs

| run | bounds | shows |
|---|---|---|
| `bridge_pool` | 3 connections and ports, one of them to a port nobody listens on, 2 NAT entries, 2 slots, 2 pcbs, 3 packets under way, failing allocations | tables consistent, ports unique, callback rule kept, every accepted connection has its DC and sends from it |
| `bridge_shared_port` | 3 connections on 2 ports, 2 NAT entries, 1 slot, 2 pcbs, 2 packets under way, sessions that close inside `g_recv` | never another connection's DC, ids as `ConnTable` says, attempts answered, pcbs reclaimed |
| `session` | 2 connections, 2 slots, 2 bytes each in frames of up to 2, 1 `onClose` each, chunk and send buffer 1, memory for both, either mode | ownership of ids, stream order, nothing lost, a late close closes its own connection only, waiting bytes woken and written |
| `cascade` | 2 endpoints, any of which may make no URL, 2 frames up, 1 down per gateway | no fork, first endpoint complete, the cascade settles, the end is reported |
| `streams` | 2 frames up, 2 down, pipe or relay | order upstream, clean close means complete, hangs and ends reported, DC released |
| `upstream` | bytes of 3 bits, headers of 1 or 3 bytes, init of 2, all streams of up to 8 bytes over 4 values in chunks of up to 4, 3 transports, failing allocations | one packet a frame, nothing lost or held back |
| `app` | 2 taps, 1 configuration, 2 reloads, 3 starts, 6 lines a run before `tunnel_stop`, journal of 2, flush every 2 | status, watchdog, journal across crashes; lines that push the reason out |
| `timeouts` | see `timeouts.cfg`: a clock of five bits, every start time | timers armed, sorted across the wrap, polls end, TCP timer runs |

The bounds are the smallest at which tables are full, ids and ports are reused,
a frame is cut, a header is split, a failover, a wrap, a crash between two
flushes and two overlapping toggles happen; more of each only repeats these
cases, and the proofs cover every size for the properties they state. `session`
has one `onClose` for each connection: a second job finds the session dead, like
one queued before `handleClose` runs (`session_stuck` has two, the theorems any
number). `app` has one configuration, because with a second one `StatusFollows`
and `WatchdogRight` promise nothing (`Single`) and the journal knows none. Deadlock
is checked in `timeouts` only: elsewhere connections, frames, endpoints and
starts are finite, so every behaviour may come to rest.

Runs that end in a violation show a difference between a statement of the
repository and the code; `findings` in `PROJECT.json` quotes both.

| run | the code |
|---|---|
| `bridge_nat_leak` | late packets put NAT entries back for good; a full table starves new connections |
| `bridge_nested_close` | closing inside `g_recv` breaks the rule of `tcp_abort` |
| `session_stuck` | bytes refused for shared memory wait for an acknowledgement that never comes |
| `cascade_in_sync` | after failover the gateway's cipher position is wrong |

### Observations

Behaviour the models contain and no property forbids, so that a hazard in
`PROJECT.json` which is about it either has no property or says in its note what
its property leaves out:

- `LwipBridge`: `lwip_bridge_close` removes the NAT entry before `tcp_abort` sends
  the RST (`lwip_bridge.c:418`), so the RST leaves with the source 198.18.0.2 and
  the device drops it: the client learns of the end from its own timeouts or
  from the RST that answers its next segment. `EstablishedRewritten` is about all other packets.
- `Upstream`: when `malloc` fails in `tcp_recv_cb` the bytes are gone
  (`lwip_bridge.c:260`); `StreamKept` then speaks of the order of the others only.
- `WSCascade`: after a failover a frame sent between `task = wsTask`
  (`WSClient.swift:154`) and the send of the init (178) precedes the init,
  although the comment at 79 says the init is the first frame on every endpoint;
  and a timer may claim an endpoint whose first data is on its way, so that a
  session gets data of two gateways (195).
- `StreamClient`: a relay `send()` that overlaps the `.ready` handler may put a
  frame before the first line, or leave it in `relayPending` (hence `~raced` in
  `RelayUpstream`); `finishOnce` may report twice.
- `PipeWorker`: Blobs may be written out of order (hence `blobs` in
  `PipeUpstream`).
- `AppTunnel`: a tap before the first `reload` has ended makes a second
  configuration, and the status of the one may be shown for the other (hence
  `Single`); a watchdog may complain because of a later start (`restarted`); and
  it does not unlock the button while the system still says `connecting`
  (`ContentView.swift:67`), although the comment at `TunnelManager.swift:359` says so.
- `Upstream`: `MsgSplitter.flush` has no caller, so the beginning of a packet that
  waits when the connection closes is dropped.

### Fairness

`LwipBridge`: `lwipQueue` runs its jobs, the 250 ms poll timer fires so lwIP's
retransmission limits take effect, and the device repeats unanswered segments;
sessions and users owe nothing. `TunnelSession`: queued jobs run (`FairJobsSpec`),
and a connected device acknowledges what it is sent (`AcksCome`, which with it
makes `FairSpec`). `WSCascade`: URLSession completes calls that can complete,
timers fire, threads go on; neither network nor gateway owes anything.
`StreamClient`: the same for callbacks, timers and a `send()` under way; the
runtime of the worker delivers events and settles promises, and an open socket
takes what is written to it; the network, the relay and the user owe nothing.
`Timeouts`: the poll timer keeps firing, a poll goes on, time passes.
`bridge_shared_port` and `session` assume that memory suffices (and the NAT table
has an entry per port); `bridge_nat_leak` and `session_stuck` show that they must.
`AppTunnel` states no liveness: what the system does with a VPN is its own affair.

## Proofs

All for arbitrary constants that satisfy the modules' ASSUMEs.

- `TypeCorrect`, `NatIsUnique`, `SlotsAreSound` (`LwipBridgeProofs`): the
  inductive invariant `Safe` is the conjunction of the three; they need each
  other, since `tcp_err_cb` finds its slot through `arg` and clears the NAT entry
  of whatever it finds there. `NextEffect` first reduces every action to its
  effect on the two tables and the pcbs.
- `BridgeImplementsConnTable`: from `Safe` and the same effects (`OwnerStep`),
  every step accepts one connection on a free id, releases one id, or leaves all
  owners as they are. That no connection has two ids is `SlotsSound`.
- `CallbacksKeepContract`: assumes `PcbPool <= MAX_CONNS` (32 and 64 in this
  build) and that sessions do not close inside `g_recv` (pipe and relay mode).
  The strengthening bounds the number of live pcbs by the pool: a handshake that
  completes has a pcb without a slot, so some slot is free and the abort of
  `tcp_accept_cb`, which returns `ERR_OK`, is never reached.
- `DcIsNeverWrong` (`LwipBridgeProofs`): `DcNeverWrong` speaks of the DC of a slot, which
  comes from the NAT table, which comes from packets. `DcInv` adds `Safe` and that
  packets under way, except a RST, carry the DC of their connection. It holds although ports
  are shared, because the packet that completes a handshake renews the entry the
  accept callback reads in the same step.
- `DcIsKnown`, `EstablishedIsRewritten` (`LwipBridgeProofs`): that nobody has a wrong DC
  does not say that he has one. Both assume `PortsOnce`, that no two connections
  share a client port, as in `bridge_pool`. `KnownInv` adds to `Safe` that the
  NAT table and the packets under way hold no wrong address and that whoever can
  still be accepted has his entry. Two things keep that true: a SYN refused by a
  full table gets an answer the device does not know, so no handshake completes
  (the theorems cover a full table), and a late copy of a SYN stays in front of
  the segments of its connection, so it cannot open a pcb again after the entry is gone.
- `SessionsOwnTheirIds` (`TunnelSessionProofs`): `OwnsItsId` is not inductive,
  because jobs and rejected inits also close slots. `Ownership` adds that
  connections and sessions sit in the slot of their id, that an active slot has
  its session in the table or a dead one, and that jobs exist only for sessions
  that started a WebSocket. `JobsCloseTheirOwn` needs two facts of it: a job that
  is not ignored belongs to a session that has its id still, so the one slot it
  clears is its own. Without the test of `dead` (`TunnelSession.swift:217`) it
  would clear the slot of whoever came after.
- `StreamsArePrefixes`, `LivingLoseNothing`, `WhatWaitsIsWoken`,
  `SessionTypeCorrect` (`TunnelSessionProofs`): `StreamInv` joins `Ownership`
  with a place for every byte. What was written and what waits are consecutive
  parts of the stream, for dead sessions too (or a dead one could hand its
  remains to the next owner of its id); for a living one the queue holds the
  rest; and no send buffer nor all of them together are over their limit
  (`Buffered`), or the room that `Taken` divides could be negative. `Ownership`
  is needed because `writeOrQueue` writes to an id. A step either writes nothing
  (`Quiet`) or moves bytes from the queue or from what waits (`WriteStep`).
  `WhatWaitsIsWoken` is an action property, because this build does not have
  memory for every send buffer: bytes may come to wait with nothing of their own
  connection unacknowledged, but only in a step that leaves the shared memory no
  room for the next chunk of them. The send buffer is never the reason, since it
  is empty then and takes a chunk (`Chunk <= SndBuf`, both 65535 here), and
  nothing but `handleSent` takes acknowledgements away. `session_stuck` shows the
  case that is left.
- `UpstreamTypes`, `UpstreamKeepsStream`, `UpstreamFramesPackets`,
  `UpstreamHoldsNoPacket` (`UpstreamProofs`): the four invariants of `Upstream`,
  from `UpInv`. `InLine` says that the last frames and whichever buffer is in use
  hold one line of positions, which begins after what went out before and, while
  nothing is lost, ends at the last byte received; `StreamKept` follows from it.
  That frames are packets needs more, because the cuts are found in `plainBuf`:
  `InStep` (the decrypted copy is true while no byte is lost) and `Phases` (the
  cipher has consumed exactly what came after the init, so that the next chunk is
  decrypted at its place; and the init went out in full, so that its frame is
  the only one that begins with byte 1). Below that, `CutsFound` says what
  the loop of `split` returns and `IsPacketIs` what a header says. `Upstream`
  assumes that `Base` is even, so that half of it is a bit, and that the client
  uses some value; a header may have any length and a byte any even number of values.
- `FramesIgnoreCuts` (`UpstreamProofs`): given some bytes and later the rest,
  `split` ends its frames where it would have ended them had all bytes come at
  once, and stops splitting if it would have stopped. The verdict on a whole header
  does not change when more bytes follow, so the loop over the joined bytes passes through the
  position where the first call stopped (`CutsContinue`) and goes on as the
  second call does from 0. Used again at every chunk it says that the frames of a
  stream depend on its bytes alone and not on how TCP cuts it.
- `TimersStayArmed` (`TimeoutsProofs`): `ArmedInv` is `TypeOK` and `TimersArmed`.
  The lemmas say what inserting into and taking from the list does to the set of
  timers in it; a list without two equal handlers has room for the timer that
  just left it, so the pool of two never drops one.
- `FirstExpiresFirst` (`TimeoutsProofs`): `OrderInv` adds that the list is sorted
  by how far each time is from now, that all times lie in one window of the clock
  (the two intervals and the lag), and that a poll under way began so lately that
  it sees that window the same way (`Near`); only there are the differences that
  `TIME_LESS_THAN` compares an order, and the wrap harmless.
- `CascadeNeverForks` (`WSCascadeProofs`): `Unforked` adds that a thread on its
  way to the next endpoint has claimed the present one, and that an attempt
  without such a thread past `tryConnect` has no successor.
- `FirstEndpointGetsAll`, `CascadeTypeCorrect` (`WSCascadeProofs`): `Complete` adds
  to `UpstreamComplete` what holds before `connect()`, and `CascadeTypeCorrect`
  that whatever still acts for an attempt is about one in the list, so that a
  thread which has started the next endpoint had one to start.
- `RelayGetsAll`, `PipeGetsAll`, `CleanCloseMeansComplete` (`StreamClientProofs`):
  what a relay or the DC has, what is on the wire, what waits in `relayPending`
  or in the worker's writer make up what was sent, in this order (`RelayLine`,
  one case per state of the `.ready` handler; `Piped`; with Blobs as a set in
  which each frame is once). Downstream `AllDown` is the same for what the DC
  sent, until a reset, and `Sockets` and `Clean` say in which order the worker
  closes the socket and the WebSocket: the code 1000 is sent after the read loop
  has seen the end of the stream, and comes after the data.
- `CrashCostsLittle`, `PreviousRunIsShown`, `ButtonFollowsVpn`,
  `WatchdogComplainsRightly` (`AppTunnelProofs`): for the journal, that the file
  ends with all entries but the unflushed ones (`Kept`), and that the last run
  which wrote it is at its end, with the reason if it was stopped (`FileShown`,
  `StopKept`). `CrashLosesLittle` bounds what is missing by `FlushEvery - 1` lines,
  which `append` keeps by flushing at the `FlushEvery`-th. A run may append any
  number of lines after its `tunnel_stop`, from sessions that live on in the
  process, so the reason may be pushed out of the `Keep` lines (200 in the code);
  `PreviousShown` allows exactly that: then every line shown is a later one of
  the same run (`PushedOut`). For the app, `AppInv`: a status other than the VPN's has a
  notification on its way, and an armed watchdog belongs to a start.

Sums, queues and folds are proved about although no induction principle can be
instantiated: `InductionUpTo` is induction for a set of numbers, and `LoopExists`
gives the recursive function of a loop, whose values a set then describes.
`JumpExists` does the same for a loop that jumps ahead by lengths it reads (`split`),
and `FoldExists` for a fold over indices (`LittleEndian`).

Only model-checked: the liveness properties, since fairness and ENABLED are out of
the prover's reach. Every safety invariant a run checks is also a theorem, for
some constants under the hypotheses named above.

## Not modelled

- Of the vendored lwIP, all but the timer list and the life of a pcb as the
  bridge sees it. `Tunnel/lwip` is a complete copy of the library, most of the
  lines of this repository; sockets, PPP, IPv6, HTTP, MDNS, MQTT and the like are
  not compiled into this program or never called, so models of them would say
  nothing about WSBridge, and the map therefore covers a small share of all lines.
  Sequence numbers, windows and congestion control are left to lwIP's own tests:
  TCP appears as an ordered stream that may stall.
- A second `lwip_bridge_init` in the same process (`lwip_bridge.c:307`): pools are
  rebuilt under live pointers, and what follows depends on the allocator.
- Checksums and header layout; the contents of frames; TLS and the trust check of
  gateways; AES arithmetic.
- `DNSForwarder`, which has no caller; `JournalServer`, which sends one string;
  `JournalReader` (a second `fetchStats` between `onText` and `onDone` of the first
  drops its reader, `TunnelManager.swift:294`); DNS presets, front domains and
  their download; views; diagnostic counters; probe scripts.

What would come next: an abstract client (frames in order, an end that is
reported) that `WSCascade` and `StreamClient` both implement and `TunnelSession`
uses as its environment.
