---------------------------- MODULE FPGAInterface ----------------------------
(***************************************************************************)
(* The offload dispatcher: class FPGAInterface (fpga_interface.cpp) with   *)
(* the DMA buffer pool it draws from (DMA::BufferManager,                  *)
(* buffer_manager.cpp).  One caller thread (the accept thread, through    *)
(* QUICHandler) runs one request at a time; the device runs concurrently.  *)
(*                                                                         *)
(* A request on the real device: validate, allocate DMA buffers, write the *)
(* registers under m_regMutex, write CTRL_START, then poll REG_STATUS      *)
(* until DONE, ERROR or more than FPGA_OPERATION_TIMEOUT_MS.  Any failure  *)
(* throws and is caught: the request fails.  In simulation mode the       *)
(* request is computed in software and never touches the device.           *)
(*                                                                         *)
(* The device is the environment: it completes the request it is working   *)
(* on at any time (or never), setting DONE or ERROR, and ignores a START   *)
(* while it is still busy.  Buffers are counted, not addressed.            *)
(***************************************************************************)
EXTENDS Naturals, FiniteSets, Sequences

CONSTANTS
    MaxDmaBuffers,   \* MAX_DMA_BUFFERS
    Timeout,         \* FPGA_OPERATION_TIMEOUT_MS, in polling ticks
    NumTags,         \* ghost request tags, reused cyclically
    SimulationMode,  \* m_simulationMode
    AllocIoctlMayFail \* the IOCTL_ALLOC_DMA_BUFFER ioctl may fail

ASSUME MaxDmaBuffers \in Nat /\ Timeout \in Nat /\ NumTags \in Nat \ {0}
ASSUME SimulationMode \in BOOLEAN /\ AllocIoctlMayFail \in BOOLEAN

VARIABLES
    pc,          \* main/caller: "uninit", "idle", "poll" (busy-waiting), "crashed",
                 \* "exited" (initialize() failed, main returns 1), "down" (after shutdown())
    pool,        \* BufferManager::m_buffers.size()
    elapsed,     \* polling ticks since startWait, saturating at Timeout+1
    tag,         \* ghost: tag of the current (or last) request
    engine,      \* the device: 0 when idle, else the tag of its request
    status,      \* REG_STATUS: "clear" (neither bit), "done" or "error"
    statusTag,   \* ghost: the request whose completion set status
    answer       \* ghost: <<request tag, tag of the completion>> of the
                 \* last successful result, <<0, 0>> before any

vars == <<pc, pool, elapsed, tag, engine, status, statusTag, answer>>

Tags == 1 .. NumTags

NextTag == (tag % NumTags) + 1

\* Ghost tag of a request started by an earlier run of the program, which
\* crashed or exited while the device was still working on it.
PrevProcess == NumTags + 1

\* Requests: AEAD seal/open (executeCryptoOperation), compression
\* (executeCompressionOperation), packet framing, ACK processing and
\* retransmission (executePacketOperation).  QUICHandler only issues
\* packet operations; the others are the class's public API.
CryptoOps == {"seal", "open"}
CompressionOps == {"compress", "decompress"}
PacketOps == {"frame", "ack", "retransmit"}
Ops == CryptoOps \cup CompressionOps \cup PacketOps

\* The AAD of a crypto request: none, within MAX_AAD_SIZE, or larger.
AadSizes == {"none", "small", "large"}

-----------------------------------------------------------------------------
(* Helpers                                                                 *)

\* Parameter validation of each entry point.  Key and nonce are taken
\* valid: an empty or oversized one is rejected exactly like empty input.
CryptoValid(empty, aad) == ~empty /\ aad # "large"
CompressionValid(empty) == ~empty
PacketValid(op, empty) == ~empty \/ op = "ack"

\* The DMA buffers a real request allocates, in allocation order: input,
\* key, nonce, AAD if any and output for crypto; input and output for
\* compression; input if non-empty, and output, for packet operations.
CryptoBuffers(aad) ==
    <<"input", "key", "nonce">> \o (IF aad = "none" THEN << >> ELSE <<"aad">>) \o <<"output">>
CompressionBuffers == <<"input", "output">>
PacketBuffers(empty) == (IF empty THEN << >> ELSE <<"input">>) \o <<"output">>

\* What an entry point does with a buffer allocateBuffer returned as
\* nullptr.  "copy": memcpy into it before any register write (a crash).
\* "reg": its address is written to a register after some other register
\* writes, any of which may fail and throw first.  "skip": it is checked,
\* and the request goes on without it.  A packet request then writes
\* REG_DATA_SIZE 0, and the device frames an empty payload.
CryptoNullUse ==
    [input |-> "copy", key |-> "copy", nonce |-> "copy", aad |-> "skip", output |-> "reg"]
CompressionNullUse == [input |-> "copy", output |-> "reg"]
PacketNullUse == [input |-> "skip", output |-> "reg"]

\* Mutant of Fits: only the room for one more buffer is checked.
FitsOne(n) == pool < MaxDmaBuffers

\* BufferManager::allocateBuffer returns nullptr once m_buffers holds
\* MAX_DMA_BUFFERS.  Buffers are never freed before shutdown():
\* FPGAInterface drops its shared_ptrs and ~Buffer does nothing.
Fits(n) == pool + n <= MaxDmaBuffers

\* The positions of the n allocateBuffer calls of a request that return a
\* buffer.  A call returns nullptr, tracking nothing, once m_buffers holds
\* MAX_DMA_BUFFERS or when the IOCTL_ALLOC_DMA_BUFFER ioctl fails
\* (allocatePhysicalBuffer).  Without ioctl failures, the calls that return
\* nullptr are the last ones, once the pool is full.  The sizes asked for
\* are within Controller::allocateBuffer's limits.
Allocated(n) ==
    IF AllocIoctlMayFail
    THEN {got \in SUBSET (1 .. n) : Fits(Cardinality(got))}
    ELSE {1 .. k : k \in {k \in 0 .. n : Fits(k) /\ (k = n \/ ~Fits(k + 1))}}

\* ~BufferManager, when shutdown() destroys the DMA controller: every
\* tracked buffer is given back with IOCTL_FREE_DMA_BUFFER.
ReleaseBuffers == pool' = 0

\* The common tail of the real path of every entry point, once it has
\* called allocateBuffer for each of bufs; use says what it does with a
\* null one.  A memcpy into a null buffer crashes.  A null buffer whose
\* address is written to a register crashes there, unless an earlier
\* writeRegister fails (an ioctl error) and throws.  Otherwise the register
\* writes run, any of which may fail and throw before START.  Else
\* CTRL_START is written, which the device takes only when idle.
StartRequest(bufs, use) ==
    /\ tag' = NextTag
    /\ \E got \in Allocated(Len(bufs)) :
          LET nulls == {use[bufs[i]] : i \in DOMAIN bufs \ got}
          IN  /\ pool' = pool + Cardinality(got)
              /\ CASE "copy" \in nulls ->
                        pc' = "crashed" /\ UNCHANGED <<elapsed, engine, status>>
                   [] "reg" \in nulls ->
                        pc' \in {"crashed", pc} /\ UNCHANGED <<elapsed, engine, status>>
                   [] OTHER ->
                        \/ UNCHANGED <<pc, elapsed, engine, status>>
                        \/ /\ pc' = "poll"
                           /\ elapsed' = 0
                           /\ IF engine = 0
                              THEN engine' = NextTag /\ status' = "clear"
                              ELSE UNCHANGED <<engine, status>>
    /\ UNCHANGED <<statusTag, answer>>

-----------------------------------------------------------------------------
(* Actions                                                                 *)

\* The device is as an earlier run of the program left it: a completion
\* may still be flagged, or a request may still be running.
Init ==
    /\ pc = "uninit"
    /\ pool = 0
    /\ elapsed = 0
    /\ tag = 0
    /\ engine \in {0, PrevProcess}
    /\ status \in {"clear", "done", "error"}
    /\ statusTag = PrevProcess
    /\ answer = <<0, 0>>

\* Mutant of ResetFPGA: the reset write is lost.
ResetFPGANoop == UNCHANGED <<engine, status>>

\* resetFPGA(): writeRegister(REG_CONTROL, CTRL_RESET) under m_regMutex.
\* The device abandons the request it is working on and clears the
\* status register.
ResetFPGA == engine' = 0 /\ status' = "clear"

\* initialize(): in simulation mode it only sets m_connected.  Otherwise
\* openDevice, the DMA controller's initialize and resetFPGA (CTRL_RESET)
\* may each fail, and main then returns 1.
Initialize ==
    /\ pc = "uninit"
    /\ IF SimulationMode
       THEN pc' = "idle" /\ UNCHANGED <<engine, status>>
       ELSE \/ pc' = "exited" /\ UNCHANGED <<engine, status>>
            \/ pc' = "idle" /\ ResetFPGA
    /\ UNCHANGED <<pool, elapsed, tag, statusTag, answer>>

\* shutdown(), after proxy.stop() has joined the caller: the DMA
\* controller, and with it the BufferManager and every buffer, is
\* destroyed; m_connected is cleared.
Shutdown ==
    /\ pc = "idle"
    /\ pc' = "down"
    /\ ReleaseBuffers
    /\ UNCHANGED <<elapsed, tag, engine, status, statusTag, answer>>

\* A request the validation rejects, or one computed in simulation mode:
\* it returns at once and never touches buffers or device.  (m_connected
\* holds whenever a caller exists: the proxy is built after initialize().)
CallSoftware(op, empty, aad) ==
    /\ pc = "idle"
    /\ \/ SimulationMode
       \/ op \in CryptoOps /\ ~CryptoValid(empty, aad)
       \/ op \in CompressionOps /\ ~CompressionValid(empty)
       \/ op \in PacketOps /\ ~PacketValid(op, empty)
    /\ tag' = NextTag
    /\ UNCHANGED <<pc, pool, elapsed, engine, status, statusTag, answer>>

\* executeCryptoOperation, real path up to CTRL_START.
CallCrypto(op, empty, aad) ==
    /\ pc = "idle" /\ ~SimulationMode
    /\ op \in CryptoOps /\ CryptoValid(empty, aad)
    /\ StartRequest(CryptoBuffers(aad), CryptoNullUse)

\* executeCompressionOperation, real path up to CTRL_START.
CallCompression(op, empty) ==
    /\ pc = "idle" /\ ~SimulationMode
    /\ op \in CompressionOps /\ CompressionValid(empty)
    /\ StartRequest(CompressionBuffers, CompressionNullUse)

\* executePacketOperation, real path up to CTRL_START.
CallPacket(op, empty) ==
    /\ pc = "idle" /\ ~SimulationMode
    /\ op \in PacketOps /\ PacketValid(op, empty)
    /\ StartRequest(PacketBuffers(empty), PacketNullUse)

\* A readRegister inside the polling loop or after DONE fails (an ioctl
\* error): the request throws and fails.
RegisterReadFails ==
    /\ pc = "poll"
    /\ pc' = "idle"
    /\ UNCHANGED <<pool, elapsed, tag, engine, status, statusTag, answer>>

\* Mutant of Poll: the loop waits for DONE or ERROR without a deadline.
PollNoDeadline ==
    /\ pc = "poll"
    /\ CASE status = "done" ->
              /\ pc' = "idle"
              /\ answer' = <<tag, statusTag>>
              /\ UNCHANGED elapsed
         [] status = "error" ->
              /\ pc' = "idle"
              /\ UNCHANGED <<elapsed, answer>>
         [] OTHER ->
              /\ elapsed' = IF elapsed > Timeout THEN elapsed ELSE elapsed + 1
              /\ UNCHANGED <<pc, answer>>
    /\ UNCHANGED <<pool, tag, engine, status, statusTag>>

\* One iteration of the polling loop.  DONE: the result is read from the
\* output buffer and returned as a success.  ERROR, or elapsed above the
\* timeout: the request fails.  Otherwise sleep and poll again.
Poll ==
    /\ pc = "poll"
    /\ CASE status = "done" ->
              /\ pc' = "idle"
              /\ answer' = <<tag, statusTag>>
              /\ UNCHANGED elapsed
         [] status = "error" \/ elapsed > Timeout ->
              /\ pc' = "idle"
              /\ UNCHANGED <<elapsed, answer>>
         [] OTHER ->
              /\ elapsed' = elapsed + 1
              /\ UNCHANGED <<pc, answer>>
    /\ UNCHANGED <<pool, tag, engine, status, statusTag>>

\* The device finishes the request it is working on.
DeviceComplete ==
    /\ engine # 0
    /\ status' \in {"done", "error"}
    /\ statusTag' = engine
    /\ engine' = 0
    /\ UNCHANGED <<pc, pool, elapsed, tag, answer>>

Next ==
    \/ Initialize \/ Shutdown
    \/ \E op \in Ops, empty \in BOOLEAN, aad \in AadSizes : CallSoftware(op, empty, aad)
    \/ \E op \in CryptoOps, empty \in BOOLEAN, aad \in AadSizes : CallCrypto(op, empty, aad)
    \/ \E op \in CompressionOps, empty \in BOOLEAN : CallCompression(op, empty)
    \/ \E op \in PacketOps, empty \in BOOLEAN : CallPacket(op, empty)
    \/ Poll \/ RegisterReadFails
    \/ DeviceComplete

Spec == Init /\ [][Next]_vars

\* The caller's polling loop always runs; the device is not assumed to
\* ever answer.
FairSpec == Spec /\ WF_vars(Poll)

-----------------------------------------------------------------------------
(* Properties                                                              *)

TypeOK ==
    /\ pc \in {"uninit", "idle", "poll", "crashed", "exited", "down"}
    /\ pool \in 0 .. MaxDmaBuffers
    /\ elapsed \in 0 .. Timeout + 1
    /\ tag \in {0} \cup Tags
    /\ engine \in {0, PrevProcess} \cup Tags
    /\ status \in {"clear", "done", "error"}
    /\ statusTag \in {PrevProcess} \cup Tags
    /\ answer \in ({0} \cup Tags) \X ({0, PrevProcess} \cup Tags)

\* Every request returns to its caller, whether or not the device ever
\* answers: the polling loop gives up after FPGA_OPERATION_TIMEOUT_MS, so
\* the accept thread, which holds m_connectionsMutex, is never stuck.
RequestsReturn ==
    pc = "poll" ~> pc # "poll"

\* No result of this run of the program is the device's answer to a
\* request of an earlier run.  The program may have died (a null
\* dereference, a signal) with the device busy or DONE flagged; the device
\* then ignores the first START and its old DONE would be read as the
\* answer.  Only the CTRL_RESET that initialize() writes prevents this.
NoResultFromEarlierProcess ==
    answer[2] # PrevProcess

\* No request dereferences a null DMA buffer.  Every real request allocates
\* fresh buffers that are never freed; once MAX_DMA_BUFFERS are in use,
\* allocateBuffer returns nullptr and the output buffer is used unchecked.
NoNullBufferUse ==
    pc # "crashed"

\* A successful result is the device's answer to that request (spec 6: a
\* result arriving after the deadline is discarded).  The driver neither
\* resets the device after a timeout nor tags requests, so a late DONE of
\* an abandoned request is read as the answer to the next one.
ResultsAnswerTheirRequest ==
    answer[1] = answer[2]
=============================================================================
