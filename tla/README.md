# TLA+ models of the satellite QUIC proxy

This directory holds TLA+ models of the proxy in `src/SatelliteQUICProxy`, the
TLC configurations that check them, and `PROJECT.json`, which records every
component, run, mutant, source mapping, finding and hazard.

## The system and how its parts interact

* **QUICProxy** (`proxy/src/quic_proxy.cpp`, `quic_proxy.h`): a UDP server.
  `start()` opens the socket and starts one accept thread. The thread loops:
  it cleans up inactive connections every 5 s, waits in `select()` with a 100 ms
  timeout, calls `recvfrom()`, finds or creates the `QUICHandler` for the
  client's `ip:port` under `m_connectionsMutex`, and hands it the datagram.
  `stop()`, called from the main thread, clears `m_running`, closes the socket,
  sets it to -1, joins the thread and clears the table.
* **QUICHandler** (`proxy/src/quic_handler.cpp`, members in `unnamed/part_006`):
  one connection. `processIncomingPacket` parses the packet, runs the handler
  for its type, sends replies through `sendPacket` or through the FPGA, and
  ends with `checkForRetransmissions`. `m_sentPackets` records every sent
  packet, and the ACK frame handler marks packets in it.
* **FPGAInterface** (`proxy/src/fpga_interface.cpp`) and
  **DMA::BufferManager** (`interface/src/buffer_manager.cpp`): the offload
  dispatcher. It runs a request in software (simulation mode) or on the
  device: allocate DMA buffers, write the registers, START, then poll until
  DONE, ERROR or the timeout.
* The **wire codec**: `QUICHandler::sendPacket` writes packets (software
  serialisation, or the accelerator's `PACKET_FRAMING`, simulated in
  `FPGAInterface::simulatePacketOperation`), and `QUICHandler::parsePacket`
  reads every datagram the handler receives.
* The **software codec** inside `FPGAInterface::simulateCompressionOperation`
  implements the "QCMP" run-length format.
* VHDL cores (`fpga/src/*.vhd`, `unnamed/part_001`, `part_002`), the DMA
  controller (`part_007`), the CLI (`part_005`), testbenches and
  documentation are listed in `PROJECT.json` with the reason each is or is
  not modelled.

## Modules

| Module | Models | State ↔ code |
|---|---|---|
| `QUICHandler` | one `QUICHandler` | `nextPacketNumber`, `sentPackets` (PacketInfo as `[pn, acked, age, retx]`), `destConnID`, `idle` (ticks since `m_lastActivity`); ghost `delivered` holds the packet numbers that reached the client |
| `QUICProxy` | `QUICProxy` start/stop and the accept thread | `running`, `serverSocket`, `sockOpen`, `connections` (handlers as `[key, idle, accel]`), `accelerationEnabled` and `accelPending` (a `setAccelerationEnabled()` between its two steps), `activeConnections`, `sinceCleanup`, the program counters of the two threads `mainPc` and `acceptPc`; ghost `badFd` is set when FD_SET/FD_ISSET gets -1 |
| `ProxyLifecycle` | what `QUICProxy` promises its caller | `phase` (stopped, running, stopping) and `conns`, the set of client keys with a handler; the accept thread and socket are hidden |
| `WireCodec` | `sendPacket`'s two writers and `parsePacket` | `sent` (type, path, DCID, packet number, payload), `wire` (the datagram bytes), `pc`/`off`/`hd` (the parser's position, offset and fields read so far); ghost `overread` is set when a read passes the end |
| `FPGAInterface` | `initialize()`, the three entry points (crypto, compression, packet) one request at a time, `shutdown()`; the DMA pool and the device are environment | `pc` of main and the caller (uninit, idle, poll, crashed, exited, down), `pool` = `m_buffers.size()`, `elapsed` polling ticks, `engine`/`status` of the device; ghost tags pair a result with its request |
| `CompressionCodec` | `simulateCompressionOperation` | `Compress`/`Decode` are recursive operators; the state machine compresses a payload and then decompresses it |

Each `MC_*.tla` module extends its specification and gives the constants
values. Each `.cfg` names the specification, the invariants and the
properties.

Modelling choices:

* **Each send path is its own operator** in `QUICHandler`: `SendFramed` is
  the accelerator branch of `handleInitialPacket`, `SendPacket` is
  `sendPacket`. A datagram's sends are folded over in order (`FoldLeft`).
* **One datagram is one step** in `QUICHandler`. The accept thread holds
  `m_connectionsMutex` for the whole `processIncomingPacket`, and no other
  thread touches a handler. So each action covers the whole handler:
  storing the DCID, the sends, and the trailing retransmission check.
* **Time is ages.** A packet's age counts ticks and saturates at RTO+1.
  That is all "elapsed > RETRANSMIT_TIMEOUT_MS" can tell apart.
* **Loss** is a choice of which transmissions reach the client
  (`\E got \in SUBSET wire`). The client acknowledges only packets it
  received, plus one number never sent.
* **The accept thread is split** at the points where `stop()` can come in
  between: the `m_running` check, FD_SET plus select, FD_ISSET, recvfrom,
  and lookup plus process. `stop()` is split at its statements: clear
  running, close, set -1, join, clear. `m_serverSocket` is a plain `int`
  read without a lock. The race is undefined behaviour, so the model lets
  the thread see either value.
* **The parser is one action per field.** Each action is guarded by the
  bounds check the code makes before that read. A read past the end is
  undefined behaviour; the model returns 0 for it and records it in
  `overread`. Bytes are numbers 0..255. The version and the packet number
  are kept as their 4 bytes, so no 32-bit value is ever computed.
  `m_connectionID` is `OurCid` read big-endian, so its 8 little-endian
  bytes are `Reverse(OurCid)`.
* **The network** may truncate the datagram or overwrite one byte
  (`MaxEdits` = 1) before it is parsed. Any datagram can arrive at the
  proxy, so this covers what `parsePacket` must survive.
* **`setAccelerationEnabled()`** is two steps of the thread that owns
  the proxy: the unlocked write of `m_accelerationEnabled`, then the
  locked loop over the handlers. The CLI (`part_005`) calls it once,
  before `start()`. The model lets the owner call it whenever it could
  call `start()` or `stop()`, which is what the class allows and why the
  loop takes the lock. `setupServerSocket()` is a single outcome: it
  either succeeds, or every failure path closes the socket and writes -1.
* **Refinement.** `QUICProxy` instantiates `ProxyLifecycle` with
  `phase` taken from `mainPc` (stopped, started, or inside `stop()`) and
  `conns` the keys in `connections`. `ImplementsLifecycle` checks the
  abstract specification, weak fairness on `EndStop` included, as a
  property of the detailed one.
* **The device at start** is as an earlier run of the program left it: a
  completion may still be flagged, or a request (ghost tag
  `PrevProcess`) may still be running. `initialize()` writes `CTRL_RESET`
  (`ResetFPGA`), and the device is assumed to abandon its request and
  clear the status when it gets it. Any register read while polling may fail (an ioctl
  error), and the request then fails.
* **DMA allocation** is counted, not addressed. When `AllocIoctlMayFail`
  holds, each `allocateBuffer` call of a request may fail in its
  `IOCTL_ALLOC_DMA_BUFFER` ioctl, which returns nullptr and tracks nothing.
  Otherwise the pool hands out buffers until it is full. The pool also refuses once it
  holds 64 buffers. `Allocated(n)` is the set of numbers of buffers
  that n calls can add. `shutdown()` destroys the `BufferManager`,
  whose destructor gives every buffer back (`ReleaseBuffers`).
  `BufferManager::freeBuffer` is never called, so the model has no
  action for it. What a null buffer does depends on its role
  (`CryptoNullUse`, `CompressionNullUse`, `PacketNullUse`):
  * an input, key or nonce is `memcpy`'d unchecked, so a null one crashes;
  * a null AAD buffer, or a packet-framing input, is skipped by an
    `if (buffer)` guard, so the request survives;
  * a null output crashes when `REG_RESULT_ADDR` is written, unless an
    earlier register write fails first and the request throws.
* **The device** completes its current request at any time, or never. It
  ignores START while busy. It is not reset after a timeout, and the code
  does not reset it either.

## Runs

| Run | Expect | Shows |
|---|---|---|
| `handler_safety` | pass | Each send path records its packet under a fresh number and advances `m_nextPacketNumber` itself: accelerator framing in `handleInitialPacket`, `sendPacket`, the Handshake's two sends, and software ACKs. Recorded numbers stay strictly increasing and below `m_nextPacketNumber`, under loss and retransmission. An offloaded ACK consumes no number. |
| `handler_retx_cap` | violation | A packet the client never acknowledges is resent more than 10 times. There is no retry cap (spec 4.3/8.4). |
| `handler_timer` | violation | If the client is silent, an expired packet is never resent. Retransmission is only driven by incoming datagrams (spec 4.4). |
| `proxy_lifecycle` | pass | Over two start/stop cycles racing the accept thread, `QUICProxy` implements `ProxyLifecycle`: handlers exist only while started or stopping, `stop()` leaves none, a handler created while `setAccelerationEnabled()` runs ends with the proxy's setting, and a begun `stop()` returns. A stopped proxy has no thread. An idle handler is eventually reaped, unless the accept thread has ended. Only `acceptLoop` runs the cleanup, and a `select()` error other than EINTR ends the loop while `m_running` stays set. No client address has two handlers, so the table is bounded by the source addresses seen. `m_activeConnections` never reports fewer handlers than the table holds. It does over-report after a restart, because `stop()` clears the table without resetting it. |
| `proxy_fd_race` | violation | `stop()` sets the socket to -1 while the thread is past its `m_running` check. FD_SET(-1) follows. |
| `offload_returns` | pass | Every device request returns, whatever the device does. A device left busy or DONE by an earlier run of the program never answers a request of this run, because `initialize()` resets it. |
| `offload_dma_exhaustion` | violation | Buffers are never freed. With a driver whose ioctl never fails (`AllocIoctlMayFail` FALSE), crypto requests fill the 64-buffer pool. The next request gets a null output buffer and dereferences it writing `REG_RESULT_ADDR`. |
| `offload_late_done` | violation | A request abandoned after a failed status read or a timeout leaves the device running. Its late DONE is read as the next request's result (spec 6 says it is discarded). |
| `codec_no_marker` | pass | Round trip holds for every payload up to 6 bytes without 0xFF, runs included. |
| `wire_codec_safety` | pass | `parsePacket` never reads past the datagram, whatever the network did to it. A software 1-RTT packet to an 8-byte DCID parses back to what was sent. |
| `wire_roundtrip` | violation | Spec 5 says packets round-trip through the codec, but the proxy's own packets do not. The long header's length is written in 2 bytes and read as 1, so an Initial with packet number 5 parses as number `<<4,0,0,0>>`. Short headers are parsed with an 8-byte DCID whatever length was written. Accelerator framing starts with 0xC0, which is read as a long-header Initial. |
| `wire_write_overflow` | violation | `sendPacket` allocates `payload.size() + 64` bytes. An Initial header is 22 bytes plus `m_destConnID`, which is copied from the client's first DCID (up to 255 bytes). A 43-byte DCID needs 65 bytes, and the write runs past the buffer. |

Each property of a passing run has a mutant in `PROJECT.json`: a plausible
bug in the mapped definition that TLC catches under the run's configuration.

## Bounds and why they are enough

* `QUICHandler`: RTO 1 and IdleTimeout 2 ticks; MaxSends 3 packet numbers.
  With 3 numbers, an Initial response, a Handshake pair, an ACK or echo, a
  loss, and a retransmission of an older packet after a newer one can all
  happen in the same behaviour. Accel "hw" enables both ACK paths (offloaded
  and software).
* `QUICProxy`: two client addresses, IdleTimeout 2, CleanupPeriod 2 (longer than one pass of the loop, as 5 s is longer than the 100 ms select timeout), at most
  2 `start()` calls and 2 `setAccelerationEnabled()` calls. That allows a
  restart after a stop with stale state left behind, and a switch off and
  on again while the accept thread creates handlers.
* `FPGAInterface`: 64 buffers (the real constant), a timeout of 2 polls, and
  3 cyclic request tags. That is enough for a late completion to meet a
  later request. `offload_returns` allows ioctl failures, which covers
  the partial-allocation paths. `offload_dma_exhaustion` rules them out,
  so the pool fills before the null dereference.
* `WireCodec`: DCIDs of 4 and 8 bytes; the overflow run adds one of 43 bytes.
  43 is the smallest length that overflows an Initial (a Handshake header
  is then exactly 64 bytes). Packet numbers 5 and 65793 (three non-zero
  bytes, so byte order shows). Payloads: empty and one byte. Edit bytes:
  0, 8 (a CID length), 64 (just above the 1-byte varint limit) and 255.
  One edit is enough for every bounds check to be reached on both sides.
* `CompressionCodec`: bytes {0, 7, 255}, payloads up to 6 bytes, a run cap of
  5 (the code's cap is 255). With cap 5, a 6-byte run splits across two
  triples.

## Fairness

* `QUICHandler`: only `Tick` is fair. Time advances, but the client may go
  silent.
* `QUICProxy`: the steps of `stop()` after the signal are fair, since they
  are straight-line code. The accept thread's loop is fair, because
  `recvfrom` returns once `select` reported readable. The locked loop of a
  begun `setAccelerationEnabled()` is fair. `Tick` is fair. Client
  datagrams and the user's calls are not.
* `FPGAInterface`: the polling loop is fair. The device is not.

`CHECK_DEADLOCK FALSE` is used in the places below, and each cfg says why.
In the `MC_FPGAInterface` configurations, the process ends after a crash,
a failed `initialize()` or `shutdown()`. In
`MC_CompressionCodec.cfg` and the `MC_WireCodec` configurations, a
behaviour is one exchange or one datagram.

`CompressionCodec` also defines `RoundTrip` without the marker
restriction. It fails on `<<0xFF, 0, 0>>`, which decompresses to the empty
payload. The failure was reproduced, but no run keeps it; the hazard for
`fpga_interface.cpp:1100` records it.

## Not modelled

* In `QUICHandler`, packets are still abstract: packet numbers and the
  first frame, not bytes. `WireCodec` models the bytes of one packet
  separately. Parsing of frames (`processFrames`) is not modelled byte by
  byte. Three simulated operations are not modelled either:
  * The crypto simulation runs OpenSSL AES-GCM, and `QUICHandler` never
    calls it. A model would have to assume an ideal AEAD, and its round
    trip would then hold by construction.
  * The accelerator's ACK framing sends a bare ACK frame with no packet
    header. That only repeats what `wire_roundtrip` shows for every
    accelerator-framed packet.
  * The retransmission framing is unreachable: `checkForRetransmissions`
    passes empty input, and validation rejects it.
* Two findings were reproduced while modelling, but no run keeps them:
  responses are addressed to the client's chosen DCID rather than its SCID,
  and any datagram from a new address creates a handler. Both are listed
  as hazards in `PROJECT.json`.
* The VHDL. The packet processor (`quic_packet_processor.vhd`) and the
  LZ77 core (`part_001`) do not elaborate. Each assigns `next_state`, a
  signal of an unresolved enumeration type, from both its clocked process
  and its next-state process. The packet processor's payload copy (line
  605) is also a `while` loop on signals, and signals do not change inside
  the loop. The top level `quic_accelerator_top` instantiates the packet
  processor, so it does not build either. The crypto core's waiting states
  leave only on `aes_done` or `gcm_done`, from `aes_core` and `gcm_module`,
  and neither is in the repository. The AXI interface's FIFOs
  (`axi_stream_fifo`) are also missing. The top level's register map
  (start is bit 9 of register 0; each core's done bit is readable at
  registers 5-7 only while the one-cycle `done` pulse lasts) is not the
  one `fpga_interface.cpp` drives (`CTRL_START`, then `STATUS_DONE` at
  0x0004). So the driver's device is modelled as an environment that
  honours the driver's register map, and no VHDL is composed with it.
* `DMA::Controller` transfers, which `FPGAInterface` never calls. The CLI and
  the testbenches.
* Statistics and logging.
