-------------------------------- MODULE LCML --------------------------------
(***************************************************************************)
(* LCML_DspCodec.c: the layer through which every OMX component of the      *)
(* tree talks to its DSP node.  The component's thread queues buffers and   *)
(* sends control commands; MessagingThread reads what the DSP answers and   *)
(* calls the component back.  Both share two rings of QUEUE_SIZE slots, a    *)
(* table of control blocks, flush_pending and one mutex.                    *)
(*                                                                          *)
(* The component is modelled by what it may call: one thread that, as the   *)
(* components do, waits for the answer to a flush or a stop before it goes  *)
(* on.  The DSP is an environment that takes messages in order, returns the *)
(* buffers of a stream in the order it got them, and may die of a fault.    *)
(***************************************************************************)
EXTENDS Naturals, FiniteSets, Sequences, SequencesExt, FiniteSetsExt, TLC

CONSTANTS
    Buffers,        \* data buffers of the component
    StreamOf,       \* the DSP stream of each: even for input, odd for output
    HasParam,       \* the buffers queued with a parameter block (auxInfo)
    QUEUE_SIZE,     \* slots of a ring and of a control table (20 in the code)
    MAX_DMM_BUFFERS,\* mappings kept for reuse (20 in the code)
    MaxMessages,    \* room in the queue towards the DSP node
    MaxCommands,    \* commands under way at a time, other than flush and stop
    MaxFaults,      \* failing bridge calls and DSP faults in one behaviour
    OverlapCtrl,    \* a stream control may be unanswered when a flush is sent
    NULL

ASSUME LCMLAssumption ==
    /\ StreamOf \in [Buffers -> 0..3]
    /\ HasParam \subseteq Buffers
    /\ {QUEUE_SIZE, MAX_DMM_BUFFERS, MaxMessages, MaxCommands} \subseteq Nat \ {0}
    /\ MaxFaults \in Nat
    /\ OverlapCtrl \in BOOLEAN
    /\ NULL \notin Buffers \union (0..3) \union (0 .. QUEUE_SIZE - 1)
    /\ NULL \notin {"ready", "flush", "stop", "error"}

Slots   == 0 .. QUEUE_SIZE - 1
Tables  == {"alg", "strm"}      \* pAlgcntlDmmBuf, pStrmcntlDmmBuf
In      == 0            \* Arminputstorage, InDmmBuffer, iBufinputcount
Out     == 1            \* Armoutputstorage, OutDmmBuffer, iBufoutputcount
Dirs    == {In, Out}
Dir(s)  == s % 2
Streams == { StreamOf[b] : b \in Buffers }

\* What DmmMap maps into the DSP's address space.  A mapping is known by what
\* it maps, and so is the address in a message: the structure of a buffer by
\* the buffer, a control block by its entry of the table.
Mappable == (Buffers \X {"data", "param", "struct"}) \union (Slots \X Tables)

VARIABLES
    codec,          \* how the component uses LCML: ReUseMap, TypeofDevice
    caller,         \* the component's thread: place, and message being put
    mutex,          \* phandle->mutex: "free" or "caller" between two steps
    lent,           \* history: queued and not yet given to the callback
    storage,        \* per direction and slot, a TArmDspCommunicationStruct
    dmm,            \* per direction and slot, pMapped of the DMM_BUFFER_OBJ
    count,          \* next slot per direction
    reused,         \* mapped_dmm_buffers
    flush_pending,
    control,        \* per table, the entries in use
    mapped,         \* how often the bridge has each thing mapped
    msg,            \* MessagingThread: place in its loops and pending event
    shutdown,       \* pshutdownFlag
    signal,         \* the notification object of the node
    toDsp, fromDsp, \* messages
    dspHeld,        \* per stream, what the DSP has taken and not returned, in order
    fault,          \* DSP_MMUFAULT: "none", "raised", "seen"
    faults          \* failures so far

tables   == <<storage, dmm, count>>
bridge   == <<reused, control, mapped>>
dspVars  == <<signal, toDsp, fromDsp, dspHeld, fault>>
vars     == <<codec, caller, mutex, lent, tables, bridge, flush_pending, msg, shutdown, dspVars, faults>>

Empty     == [d \in Dirs |-> [i \in Slots |-> NULL]]
NoControl == [k \in Tables |-> {}]
Unmapped  == [x \in Mappable |-> 0]
NoneHeld  == [s \in 0..3 |-> << >>]
Quiet     == [pc |-> "wait", event |-> NULL, arg |-> NULL, next |-> "read"]
At(place) == [pc |-> place, put |-> NULL, next |-> NULL, locked |-> FALSE]
Failing(m) == [At("error") EXCEPT !.put = m, !.next = "error"]  \* m was not complete
Putting(m, after, held) == [pc |-> "put", put |-> m, next |-> after, locked |-> held]
Message(c, s, a) == [cmd |-> c, stream |-> s, addr |-> a]

TypeOK ==
    /\ codec \in [reuse : BOOLEAN, dasf : BOOLEAN]
    /\ caller.pc \in {"none", "ready", "put", "error", "stop", "flush", "join"}
    /\ mutex \in {"free", "caller"}
    /\ lent \subseteq Buffers
    /\ \A d \in Dirs, i \in Slots : storage[d][i] = NULL \/ storage[d][i] \in Buffers
    /\ dmm \in [Dirs -> [Slots -> Buffers \union {NULL}]]
    /\ count \in [Dirs -> Slots]
    /\ reused \subseteq Buffers /\ Cardinality(reused) <= MAX_DMM_BUFFERS
    /\ flush_pending \in [0..3 -> BOOLEAN]
    /\ control \in [Tables -> SUBSET Slots]
    /\ mapped \in [Mappable -> Nat]
    /\ msg.pc \in {"wait", "read", "call", "exited"}
    /\ shutdown \in BOOLEAN
    /\ signal \in BOOLEAN
    /\ Len(toDsp) <= MaxMessages
    /\ fault \in {"none", "raised", "seen"}
    /\ faults \in 0..MaxFaults

Init ==
    /\ codec \in [reuse : BOOLEAN, dasf : BOOLEAN]
    /\ caller = At("none")
    /\ mutex = "free"
    /\ lent = {}
    /\ storage = Empty
    /\ dmm = Empty
    /\ count = [d \in Dirs |-> 0]
    /\ reused = {}
    /\ flush_pending = [s \in 0..3 |-> FALSE]
    /\ control = NoControl
    /\ mapped = Unmapped
    /\ msg = [Quiet EXCEPT !.pc = "exited"]
    /\ shutdown = FALSE
    /\ signal = FALSE
    /\ toDsp = << >>
    /\ fromDsp = << >>
    /\ dspHeld = NoneHeld
    /\ fault = "none"
    /\ faults = 0

---------------------------------------------------------------------------
(* The component's thread.                                                  *)

\* GetHandle and InitMMCodec or InitMMCodecEx: the node is allocated, created
\* and run, notifications are registered, MessagingThread is started.
InitMMCodec ==
    /\ caller.pc = "none"
    /\ caller' = At("ready")
    /\ msg' = Quiet
    /\ shutdown' = FALSE
    /\ storage' = Empty
    /\ count' = [d \in Dirs |-> 0]
    /\ control' = NoControl
    /\ UNCHANGED <<codec, mutex, lent, dmm, reused, flush_pending, mapped, dspVars, faults>>

\* DmmMap, and DmmUnMap of the set X.
Map(X)   == [x \in Mappable |-> mapped[x] + (IF x \in X THEN 1 ELSE 0)]
UnMap(X) == [x \in Mappable |-> IF x \in X /\ mapped[x] > 0 THEN mapped[x] - 1 ELSE mapped[x]]

\* The mapping of b's data is kept from an earlier call.
IsKept(b) == codec.reuse /\ b \in reused

Params(b) == IF b \in HasParam THEN { <<b, "param">> } ELSE {}
Parts(b) == Params(b) \union { <<b, "struct">> }
NewData(b) == IF IsKept(b) THEN {} ELSE { <<b, "data">> }

\* The data of b are mapped and the mapping is kept for reuse if there is room.
Keeping(b) == IF codec.reuse /\ Cardinality(reused) < MAX_DMM_BUFFERS
              THEN reused \union {b} ELSE reused

\* Mutant: the slot counter is not wrapped.
QueueBufferNoWrap(b) ==
    LET d == Dir(StreamOf[b])
    IN  /\ caller.pc = "ready"
        /\ mutex = "free"
        /\ b \notin lent
        /\ storage' = [storage EXCEPT ![d][count[d]] = b]
        /\ dmm' = [dmm EXCEPT ![d][count[d]] = b]
        /\ count' = [count EXCEPT ![d] = @ + 1]
        /\ reused' = IF codec.reuse THEN reused \union {b} ELSE reused
        /\ mapped' = Map(NewData(b) \union Parts(b))
        /\ lent' = lent \union {b}
        /\ mutex' = "caller"
        /\ caller' = Putting(Message("SETBUFF", StreamOf[b], b), "ready", TRUE)
        /\ UNCHANGED <<codec, flush_pending, control, msg, shutdown, dspVars, faults>>

\* QueueBuffer up to PutMessage, which may block while the mutex is held.  The
\* slot is taken without a look at what it holds.
QueueBuffer(b) ==
    LET s == StreamOf[b]
        d == Dir(s)
        i == count[d]
    IN  /\ caller.pc = "ready"
        /\ mutex = "free"
        /\ b \notin lent
        /\ storage' = [storage EXCEPT ![d][i] = b]
        /\ dmm' = [dmm EXCEPT ![d][i] = b]
        /\ count' = [count EXCEPT ![d] = (@ + 1) % QUEUE_SIZE]
        /\ reused' = Keeping(b)
        /\ mapped' = Map(NewData(b) \union Parts(b))
        /\ lent' = lent \union {b}
        /\ mutex' = "caller"
        /\ caller' = Putting(Message("SETBUFF", s, b), "ready", TRUE)
        /\ UNCHANGED <<codec, flush_pending, control, msg, shutdown, dspVars, faults>>

\* A bridge call fails: DmmMap of the data or the flush of a kept mapping, then
\* DmmMap of the parameters or of the structure.  The slot is taken all the same,
\* without the address of a structure, and what was mapped before stays mapped.
QueueBufferFails(b) ==
    LET s == StreamOf[b]
        d == Dir(s)
        i == count[d]
    IN  /\ caller.pc = "ready"
        /\ mutex = "free"
        /\ b \notin lent
        /\ faults < MaxFaults
        /\ faults' = faults + 1
        /\ storage' = [storage EXCEPT ![d][i] = b]
        /\ dmm' = [dmm EXCEPT ![d][i] = NULL]
        /\ count' = [count EXCEPT ![d] = (@ + 1) % QUEUE_SIZE]
        /\ \/ UNCHANGED <<reused, mapped>>
           \/ /\ reused' = Keeping(b)
              /\ \E done \in { {}, Params(b) } : mapped' = Map(NewData(b) \union done)
        /\ lent' = lent \union {b}
        /\ caller' = Failing(Message("SETBUFF", s, b))
        /\ UNCHANGED <<codec, mutex, control, flush_pending, msg, shutdown, dspVars>>

\* DSPNode_PutMessage: waits for room; fails once the DSP is gone.
PutMessage ==
    /\ caller.pc = "put"
    /\ Len(toDsp) < MaxMessages
    /\ toDsp' = Append(toDsp, caller.put)
    /\ caller' = IF caller.next = "ready" THEN At("ready")
                 ELSE [caller EXCEPT !.pc = caller.next, !.locked = FALSE]
    /\ mutex' = IF caller.locked THEN "free" ELSE mutex
    /\ UNCHANGED <<codec, lent, tables, bridge, flush_pending, msg, shutdown,
                   signal, fromDsp, dspHeld, fault, faults>>

PutMessageFails ==
    /\ caller.pc = "put"
    /\ fault # "none"
    /\ caller' = [caller EXCEPT !.pc = "error", !.locked = FALSE]
    /\ mutex' = IF caller.locked THEN "free" ELSE mutex
    /\ UNCHANGED <<codec, lent, tables, bridge, flush_pending, msg, shutdown, dspVars, faults>>

\* Commands on their way to the DSP or back, the blocks not answered included.
Commands == Cardinality(control["alg"]) + Cardinality(control["strm"])
    + Len(SelectSeq(toDsp \o fromDsp, LAMBDA m : m.cmd \in {"PLAY", "PAUSE"}))

\* ControlCodec for pause, start and stop: no lock.  The component waits for
\* the answer to a stop.
ControlState(cmd) ==
    /\ caller.pc = "ready"
    /\ cmd = "STOP" \/ Commands < MaxCommands
    /\ caller' = Putting(Message(cmd, 0, NULL), IF cmd = "STOP" THEN "stop" ELSE "ready", FALSE)
    /\ UNCHANGED <<codec, mutex, lent, tables, bridge, flush_pending, msg, shutdown, dspVars, faults>>

FreeControl(k) == Slots \ control[k]

\* The message that carries control block i of table k.
BlockMessage(k, i) == IF k = "alg" THEN Message("ALGCTRL", 0, i) ELSE Message("STRMCTRL", Out, i)

\* EMMCodecControlAlgCtrl, and EMMCodecControlStrmCtrl with a block of
\* parameters: the first free entry of the table.
ControlBlock(k) ==
    LET i == Min(FreeControl(k))
    IN  /\ caller.pc = "ready"
        /\ mutex = "free"
        /\ FreeControl(k) # {}
        /\ Commands < MaxCommands
        /\ control' = [control EXCEPT ![k] = @ \union {i}]
        /\ mapped' = Map({<<i, k>>})
        /\ mutex' = "caller"
        /\ caller' = Putting(BlockMessage(k, i), "ready", TRUE)
        /\ UNCHANGED <<codec, lent, tables, reused, flush_pending, msg, shutdown, dspVars, faults>>

\* DmmMap of the block fails: the entry stays in use with nothing mapped.
ControlBlockFails(k) ==
    LET i == Min(FreeControl(k))
    IN  /\ caller.pc = "ready"
        /\ mutex = "free"
        /\ FreeControl(k) # {}
        /\ Commands < MaxCommands
        /\ faults < MaxFaults
        /\ faults' = faults + 1
        /\ control' = [control EXCEPT ![k] = @ \union {i}]
        /\ caller' = Failing(BlockMessage(k, i))
        /\ UNCHANGED <<codec, mutex, lent, tables, reused, mapped, flush_pending, msg, shutdown, dspVars>>

\* EMMCodecControlAlgCtrl with a full table: the loop ends, the case breaks
\* and the mutex is never unlocked.
ControlBlockFull ==
    /\ caller.pc = "ready"
    /\ mutex = "free"
    /\ FreeControl("alg") = {}
    /\ mutex' = "caller"
    /\ UNCHANGED <<codec, caller, lent, tables, bridge, flush_pending, msg, shutdown, dspVars, faults>>

\* Mutant: the flush is sent and not noted.
ControlFlushUnnoted(s) ==
    /\ caller.pc = "ready"
    /\ mutex = "free"
    /\ OverlapCtrl \/ control["strm"] = {}
    /\ mutex' = "caller"
    /\ caller' = Putting(Message("FLUSH", s, NULL), "flush", TRUE)
    /\ UNCHANGED <<codec, lent, tables, bridge, flush_pending, msg, shutdown, dspVars, faults>>

\* EMMCodecControlStrmCtrl with USN_STRMCMD_FLUSH; the component then waits.
ControlFlush(s) ==
    /\ caller.pc = "ready"
    /\ mutex = "free"
    /\ OverlapCtrl \/ control["strm"] = {}
    /\ flush_pending' = [flush_pending EXCEPT ![s] = TRUE]
    /\ mutex' = "caller"
    /\ caller' = Putting(Message("FLUSH", s, NULL), "flush", TRUE)
    /\ UNCHANGED <<codec, lent, tables, bridge, msg, shutdown, dspVars, faults>>

\* EMMCodecControlDestroy up to pthread_join.
ControlDestroy ==
    /\ caller.pc \in {"ready", "error"}
    /\ shutdown' = TRUE
    /\ caller' = [caller EXCEPT !.pc = "join"]
    /\ UNCHANGED <<codec, mutex, lent, tables, bridge, flush_pending, msg, dspVars, faults>>

\* The rest of it: mappings kept for reuse are released, DeleteDspResource,
\* FreeResources.  Closing the DSP manager gives the bridge back the rest.
Destroyed ==
    /\ caller.pc = "join"
    /\ msg.pc = "exited"
    /\ mutex = "free"
    /\ caller' = At("none")
    /\ lent' = {}
    /\ storage' = Empty
    /\ dmm' = Empty
    /\ count' = [d \in Dirs |-> 0]
    /\ reused' = {}
    /\ flush_pending' = [s \in 0..3 |-> FALSE]
    /\ control' = NoControl
    /\ mapped' = Unmapped
    /\ signal' = FALSE
    /\ toDsp' = << >>
    /\ fromDsp' = << >>
    /\ dspHeld' = NoneHeld
    /\ fault' = "none"
    /\ shutdown' = FALSE
    /\ UNCHANGED <<codec, mutex, msg, faults>>

---------------------------------------------------------------------------
(* MessagingThread.                                                         *)

\* Mutant: the flag is looked at only when there is an event.
MsgLeaveOnEvent ==
    /\ msg.pc = "wait"
    /\ shutdown
    /\ signal
    /\ msg' = [msg EXCEPT !.pc = "exited"]
    /\ UNCHANGED <<codec, caller, mutex, lent, tables, bridge, flush_pending, shutdown, dspVars, faults>>

\* The top of the outer loop: leave, or see what DSPManager_WaitForEvents has.
MsgLeave ==
    /\ msg.pc = "wait"
    /\ shutdown
    /\ msg' = [msg EXCEPT !.pc = "exited"]
    /\ UNCHANGED <<codec, caller, mutex, lent, tables, bridge, flush_pending, shutdown, dspVars, faults>>

MsgWake ==
    /\ msg.pc = "wait"
    /\ ~shutdown
    /\ signal
    /\ signal' = FALSE
    /\ msg' = [msg EXCEPT !.pc = "read"]
    /\ UNCHANGED <<codec, caller, mutex, lent, tables, bridge, flush_pending, shutdown,
                   toDsp, fromDsp, dspHeld, fault, faults>>

\* LCML_ReportDspError.
MsgFault ==
    /\ msg.pc = "wait"
    /\ ~shutdown
    /\ fault = "raised"
    /\ fault' = "seen"
    /\ msg' = [pc |-> "call", event |-> "error", arg |-> NULL, next |-> "wait"]
    /\ UNCHANGED <<codec, caller, mutex, lent, tables, bridge, flush_pending, shutdown,
                   signal, toDsp, fromDsp, dspHeld, faults>>

\* The inner loop ends when there is no message.
MsgEmpty ==
    /\ msg.pc = "read"
    /\ fromDsp = << >>
    /\ msg' = [msg EXCEPT !.pc = "wait"]
    /\ UNCHANGED <<codec, caller, mutex, lent, tables, bridge, flush_pending, shutdown, dspVars, faults>>

\* Mutant: the parameters stay mapped.
ReleasedNoParam(d, i) ==
    LET b == storage[d][i]
    IN  {<<b, "struct">>} \union (IF codec.reuse THEN {} ELSE {<<b, "data">>})

\* What is unmapped for slot i of direction d: not the data if ReUseMap is set.
Released(d, i) ==
    LET b == storage[d][i]
    IN  (IF dmm[d][i] = NULL THEN {} ELSE Parts(b))
        \union (IF codec.reuse \/ dmm[d][i] = NULL THEN {} ELSE {<<b, "data">>})

\* Slots S of each direction are emptied and what they mapped is released.
ClearSlots(S) ==
    /\ storage' = [d \in Dirs |-> [i \in Slots |-> IF i \in S[d] THEN NULL ELSE storage[d][i]]]
    /\ dmm' = [d \in Dirs |-> [i \in Slots |->
                IF i \in S[d] THEN NULL ELSE dmm[d][i]]]

ReleasedBy(S) == UNION { UNION { Released(d, i) : i \in S[d] } : d \in Dirs }
HeldIn(S) == UNION { { storage[d][i] : i \in S[d] } : d \in Dirs }

Occupied(d) == { i \in Slots : storage[d][i] # NULL }

\* USN_DSPMSG_BUFF_FREE: the slot whose structure is at the address, searched
\* from count on; the callback follows after the mutex is unlocked.  A failed
\* invalidation of an output buffer ends the inner loop after that callback.
MsgBuffFree ==
    LET m == Head(fromDsp)
        d == Dir(m.stream)
        S == { i \in Occupied(d) : dmm[d][i] = m.addr }
        From(i) == (i + QUEUE_SIZE - count[d]) % QUEUE_SIZE
        i == CHOOSE j \in S : \A q \in S : From(j) <= From(q)
        T == [e \in Dirs |-> IF e = d THEN {i} ELSE {}]
    IN  /\ msg.pc = "read"
        /\ fromDsp # << >>
        /\ m.cmd = "BUFF_FREE"
        /\ mutex = "free"
        /\ fromDsp' = Tail(fromDsp)
        /\ IF S # {}
           THEN /\ ClearSlots(T)
                /\ mapped' = UnMap(ReleasedBy(T))
                /\ \/ /\ msg' = [pc |-> "call", event |-> "processed", arg |-> storage[d][i], next |-> "read"]
                      /\ UNCHANGED faults
                   \/ /\ d = Out
                      /\ faults < MaxFaults
                      /\ faults' = faults + 1
                      /\ msg' = [pc |-> "call", event |-> "processed", arg |-> storage[d][i], next |-> "wait"]
           ELSE /\ msg' = [pc |-> "call", event |-> "internal", arg |-> NULL, next |-> "read"]
                /\ UNCHANGED <<storage, dmm, mapped, faults>>
        /\ UNCHANGED <<codec, caller, mutex, lent, count, reused, control, flush_pending, shutdown,
                       signal, toDsp, dspHeld, fault>>

\* USN_DSPACK_STOP: unless the DSP renders itself, every buffer in the rings is
\* given back, with the mutex held; the event follows without it.
MsgStop ==
    LET S == [d \in Dirs |-> IF codec.dasf THEN {} ELSE Occupied(d)]
    IN  /\ msg.pc = "read"
        /\ fromDsp # << >>
        /\ Head(fromDsp).cmd = "STOP"
        /\ mutex = "free"
        /\ fromDsp' = Tail(fromDsp)
        /\ ClearSlots(S)
        /\ mapped' = UnMap(ReleasedBy(S))
        /\ lent' = lent \ HeldIn(S)
        /\ msg' = [pc |-> "call", event |-> "stopped", arg |-> NULL, next |-> "read"]
        /\ UNCHANGED <<codec, caller, mutex, count, reused, control, flush_pending, shutdown,
                       signal, toDsp, dspHeld, fault, faults>>

\* A control block that was answered is unmapped and its entry cleared.
ControlAfter(k, addr) == [control EXCEPT ![k] = @ \ {addr}]
ControlMapping(k, addr) == { <<i, k>> : i \in control[k] \intersect {addr} }

\* The two answers on a stream: dwArg1 is USN_ERR_NONE, or it is not.
StreamAnswers == {"STRMCTRL", "STRMERR"}

\* USN_DSPACK_ALGCTRL.
MsgAlgCtrl ==
    LET m == Head(fromDsp)
    IN  /\ msg.pc = "read"
        /\ fromDsp # << >>
        /\ m.cmd = "ALGCTRL"
        /\ mutex = "free"
        /\ fromDsp' = Tail(fromDsp)
        /\ mapped' = UnMap(ControlMapping("alg", m.addr))
        /\ control' = ControlAfter("alg", m.addr)
        /\ msg' = [pc |-> "call", event |-> "algack", arg |-> NULL, next |-> "read"]
        /\ UNCHANGED <<codec, caller, mutex, lent, tables, reused, flush_pending, shutdown,
                       signal, toDsp, dspHeld, fault, faults>>

\* Mutant: only input rings are emptied.
FlushedInput(s) == [d \in Dirs |-> IF d = Dir(s) /\ d = In THEN Occupied(d) ELSE {}]

\* The slots a flush of stream s empties: the whole ring for streams 0 and 1,
\* the entries of the stream for 2 and 3.
FlushedSlots(s) == [d \in Dirs |->
    IF d # Dir(s) THEN {}
    ELSE { i \in Occupied(d) : s \in {2, 3} => StreamOf[storage[d][i]] = s }]

\* Mutant: every acknowledgement is taken for one of a flush.
MsgStrmCtrlAlwaysFlush ==
    LET m == Head(fromDsp)
        S == FlushedSlots(m.stream)
    IN  /\ msg.pc = "read"
        /\ fromDsp # << >>
        /\ m.cmd = "STRMCTRL"
        /\ mutex = "free"
        /\ fromDsp' = Tail(fromDsp)
        /\ flush_pending' = [flush_pending EXCEPT ![Dir(m.stream)] = FALSE]
        /\ ClearSlots(S)
        /\ lent' = lent \ HeldIn(S)
        /\ mapped' = UnMap(ReleasedBy(S) \union ControlMapping("strm", m.addr))
        /\ control' = ControlAfter("strm", m.addr)
        /\ msg' = [pc |-> "call", event |-> "flushed", arg |-> m.stream, next |-> "read"]
        /\ UNCHANGED <<codec, caller, mutex, count, reused, shutdown,
                       signal, toDsp, dspHeld, fault, faults>>

\* USN_DSPACK_STRMCTRL.  Whether it answers a flush is read off flush_pending and
\* the absence of an error; the acknowledgements for streams 2 and 3 clear the flags
\* of 0 and 1.  What is taken for the answer to a flush frees no control block.
MsgStrmCtrl ==
    LET m     == Head(fromDsp)
        flush == m.cmd = "STRMCTRL" /\ flush_pending[m.stream]
        S     == IF flush THEN FlushedSlots(m.stream) ELSE [d \in Dirs |-> {}]
        addr  == IF flush THEN NULL ELSE m.addr
    IN  /\ msg.pc = "read"
        /\ fromDsp # << >>
        /\ m.cmd \in StreamAnswers
        /\ mutex = "free"
        /\ fromDsp' = Tail(fromDsp)
        /\ flush_pending' = IF flush THEN [flush_pending EXCEPT ![Dir(m.stream)] = FALSE]
                                     ELSE flush_pending
        /\ ClearSlots(S)
        /\ lent' = lent \ HeldIn(S)
        /\ mapped' = UnMap(ReleasedBy(S) \union ControlMapping("strm", addr))
        /\ control' = ControlAfter("strm", addr)
        /\ msg' = [pc |-> "call", event |-> IF flush THEN "flushed" ELSE "strmack",
                   arg |-> m.stream, next |-> "read"]
        /\ UNCHANGED <<codec, caller, mutex, count, reused, shutdown,
                       signal, toDsp, dspHeld, fault, faults>>

\* USN_DSPACK_PAUSE.
MsgPause ==
    /\ msg.pc = "read"
    /\ fromDsp # << >>
    /\ Head(fromDsp).cmd = "PAUSE"
    /\ fromDsp' = Tail(fromDsp)
    /\ msg' = [pc |-> "call", event |-> "paused", arg |-> NULL, next |-> "read"]
    /\ UNCHANGED <<codec, caller, mutex, lent, tables, bridge, flush_pending, shutdown,
                   signal, toDsp, dspHeld, fault, faults>>

\* LCML_Callback: a processed buffer is back with the component; the thread
\* that waits for this flush or stop goes on.
MsgCallback ==
    /\ msg.pc = "call"
    /\ msg' = [Quiet EXCEPT !.pc = msg.next]
    /\ lent' = IF msg.event = "processed" THEN lent \ {msg.arg} ELSE lent
    /\ caller' = IF \/ msg.event = "stopped" /\ caller.pc = "stop"
                    \/ msg.event = "flushed" /\ caller.pc = "flush" /\ caller.put.stream = msg.arg
                 THEN At("ready") ELSE caller
    /\ UNCHANGED <<codec, mutex, tables, bridge, flush_pending, shutdown, dspVars, faults>>

---------------------------------------------------------------------------
(* The DSP node, by what LCML expects of it.                                *)

Send(m) == fromDsp' = Append(fromDsp, m) /\ signal' = TRUE

Returns(h) == Message("BUFF_FREE", h.stream, h.addr)

\* A flush is answered with an error; the component's callback does nothing then.
DspFlushFails ==
    LET m == Head(toDsp)
    IN  /\ toDsp # << >>
        /\ m.cmd = "FLUSH"
        /\ fault = "none"
        /\ faults < MaxFaults
        /\ faults' = faults + 1
        /\ toDsp' = Tail(toDsp)
        /\ Send(Message("STRMERR", m.stream, NULL))
        /\ UNCHANGED <<codec, caller, mutex, lent, tables, bridge, flush_pending, msg, shutdown,
                       dspHeld, fault>>

\* A DSP that renders itself returns what it has before it answers a stop.
DspTake ==
    LET m == Head(toDsp)
    IN  /\ toDsp # << >>
        /\ fault = "none"
        /\ toDsp' = Tail(toDsp)
        /\ \/ /\ m.cmd = "SETBUFF"
              /\ dspHeld' = [dspHeld EXCEPT ![m.stream] = Append(@, m)]
              /\ UNCHANGED <<signal, fromDsp>>
           \/ /\ m.cmd = "FLUSH"
              /\ dspHeld' = [dspHeld EXCEPT ![m.stream] = << >>]
              /\ Send(Message("STRMCTRL", m.stream, NULL))
           \/ /\ m.cmd = "STOP"
              /\ codec.dasf => dspHeld = NoneHeld
              /\ dspHeld' = NoneHeld
              /\ Send(m)
           \/ /\ m.cmd = "PLAY"
              /\ UNCHANGED <<dspHeld, signal, fromDsp>>
           \/ /\ m.cmd \in {"PAUSE", "ALGCTRL", "STRMCTRL"}
              /\ Send(m)
              /\ UNCHANGED dspHeld
        /\ UNCHANGED <<codec, caller, mutex, lent, tables, bridge, flush_pending, msg, shutdown, fault, faults>>

\* The oldest buffer of a stream has been processed.
DspReturn(s) ==
    /\ fault = "none"
    /\ dspHeld[s] # << >>
    /\ dspHeld' = [dspHeld EXCEPT ![s] = Tail(@)]
    /\ Send(Returns(Head(dspHeld[s])))
    /\ UNCHANGED <<codec, caller, mutex, lent, tables, bridge, flush_pending, msg, shutdown,
                   toDsp, fault, faults>>

\* It is done with what it has, because of a stop.
DspDrain ==
    /\ codec.dasf
    /\ toDsp # << >>
    /\ Head(toDsp).cmd = "STOP"
    /\ \E s \in Streams : DspReturn(s)

DspFault ==
    /\ caller.pc # "none"
    /\ fault = "none"
    /\ faults < MaxFaults
    /\ faults' = faults + 1
    /\ fault' = "raised"
    /\ UNCHANGED <<codec, caller, mutex, lent, tables, bridge, flush_pending, msg, shutdown,
                   signal, toDsp, fromDsp, dspHeld>>

---------------------------------------------------------------------------
Caller ==
    \/ InitMMCodec
    \/ \E b \in Buffers : QueueBuffer(b) \/ QueueBufferFails(b)
    \/ PutMessage
    \/ PutMessageFails
    \/ \E cmd \in {"PLAY", "PAUSE", "STOP"} : ControlState(cmd)
    \/ \E k \in Tables : ControlBlock(k) \/ ControlBlockFails(k)
    \/ ControlBlockFull
    \/ \E s \in Streams : ControlFlush(s)
    \/ ControlDestroy
    \/ Destroyed

MessagingThread ==
    \/ MsgLeave \/ MsgWake \/ MsgFault \/ MsgEmpty
    \/ MsgBuffFree \/ MsgStop \/ MsgAlgCtrl \/ MsgStrmCtrl \/ MsgPause
    \/ MsgCallback

Dsp == DspTake \/ (\E s \in Streams : DspReturn(s)) \/ DspFlushFails \/ DspFault

Next == Caller \/ MessagingThread \/ Dsp

\* The threads run; the DSP reads its messages.  Nothing is assumed of how
\* soon the DSP is done with a buffer, or of what the component asks for.
Fairness ==
    /\ WF_vars(MessagingThread)
    /\ WF_vars(PutMessage \/ PutMessageFails)
    /\ WF_vars(Destroyed)
    /\ WF_vars(DspTake \/ DspDrain)

Spec == Init /\ [][Next]_vars /\ Fairness

---------------------------------------------------------------------------
(* Correctness.                                                             *)

\* What the DSP has, or is on its way to it or back.
IsData(m) == m.cmd \in {"SETBUFF", "BUFF_FREE"}
Putter == IF caller.pc = "put" THEN {caller.put} ELSE {}
InFlight == { m \in Range(fromDsp) \union (UNION { Range(dspHeld[s]) : s \in 0..3 })
                       \union Range(toDsp) \union Putter : IsData(m) }

\* Every address the DSP may hand back is the address of exactly one slot of
\* the ring that MessagingThread will search, and that slot's buffer is on
\* loan: the lookup of BUFF_FREE cannot miss and cannot find another buffer.
Tracked ==
    \A m \in InFlight :
        LET S == { i \in Occupied(Dir(m.stream)) : dmm[Dir(m.stream)][i] = m.addr }
        IN  /\ Cardinality(S) = 1
            /\ \A i \in S : storage[Dir(m.stream)][i] \in lent

\* The bridge has mapped, once each, what the rings, the kept mappings and the
\* control tables refer to and nothing else: DmmUnMap undoes DmmMap.
InRing == { b \in Buffers : \E d \in Dirs, i \in Slots : dmm[d][i] = b }
Referenced ==
    (UNION { Parts(b) : b \in InRing })
    \union { <<b, "data">> : b \in InRing \union reused }
    \union (UNION { { <<i, k>> : i \in control[k] } : k \in Tables })

\* What a message refers to by its address.
Refers(m) ==
    IF m.cmd = "SETBUFF" THEN {m.addr} \X {"data", "param", "struct"}
    ELSE { <<m.addr, IF m.cmd = "ALGCTRL" THEN "alg" ELSE "strm">> }

\* What the call that failed was mapping; the component's next call destroys all.
Unfinished == IF caller.next = "error" THEN Refers(caller.put) ELSE {}
MapsMatch ==
    \A x \in Mappable \ Unfinished : mapped[x] = IF x \in Referenced THEN 1 ELSE 0

\* EMMCodecControlAlgCtrl found its table full and left with the mutex locked.
\* Of the other paths only that of a TypeofRender other than 0 and 1 does so
\* (LCML_DspCodec.c:1510-1514), which no component of the tree sets.
Wedged == mutex = "caller" /\ ~caller.locked /\ FreeControl("alg") = {}

\* A component that waits for a flush or a stop hears of it, unless the bridge
\* or the DSP failed or the mutex was lost.
RequestEnds ==
    (caller.pc \in {"flush", "stop"})
        ~> (caller.pc = "ready" \/ faults > 0 \/ Wedged)

\* EMMCodecControlDestroy returns, faults or not, unless the mutex was lost.
DestroyEnds == (caller.pc = "join") ~> (caller.pc = "none" \/ Wedged)

\* The streams whose buffers the component waits for.
Asked ==
    CASE caller.next = "flush" -> {caller.put.stream}
      [] caller.next = "stop"  -> Streams
      [] OTHER                 -> {}

\* Seen from the component, LCML lends and gives back.
Loan == INSTANCE BufferLoan WITH asked <- Asked
ImplementsLoan == Loan!LoanSpec
=============================================================================
