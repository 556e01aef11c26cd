----------------------------- MODULE LCMLProofs -----------------------------
(***************************************************************************)
(* Proofs about LCML, for every set of buffers, every size of the rings    *)
(* and every number of messages, commands and faults.                      *)
(***************************************************************************)
EXTENDS LCML, LoopLemmas, FiniteSetTheorems

-----------------------------------------------------------------------------
(* Types.                                                                  *)

Cmds == {"SETBUFF", "BUFF_FREE", "FLUSH", "STOP", "PLAY", "PAUSE", "ALGCTRL", "STRMCTRL",
         "STRMERR"}
Msg  == [cmd : Cmds, stream : 0..3, addr : Buffers \union Slots \union {NULL}]

CodecType  == [reuse : BOOLEAN, dasf : BOOLEAN]
CallerType == { c \in [pc : {"none", "ready", "put", "error", "stop", "flush", "join"},
                       put : Msg \union {NULL},
                       next : {"ready", "flush", "stop", "error", NULL},
                       locked : BOOLEAN] :
                  c.pc \in {"put", "flush", "stop"} => c.put \in Msg /\ c.next \notin {"error", NULL} }
MutexType  == {"free", "caller"}
RingType   == [Dirs -> [Slots -> Buffers \union {NULL}]]
CountType  == [Dirs -> Slots]
ReusedType == { S \in SUBSET Buffers : IsFiniteSet(S) /\ Cardinality(S) <= MAX_DMM_BUFFERS }
FlagType   == [0..3 -> BOOLEAN]
TableType  == [Tables -> SUBSET Slots]
MappedType == [Mappable -> Nat]
MsgType    == [pc : {"wait", "read", "call", "exited"},
               event : {"error", "processed", "internal", "stopped", "algack", "flushed",
                        "strmack", "paused", NULL},
               arg : Buffers \union (0..3) \union {NULL},
               next : {"wait", "read"}]
ToType     == { q \in Seq(Msg) : Len(q) <= MaxMessages }
FromType   == Seq(Msg)
HeldType   == [0..3 -> Seq(Msg)]
FaultType  == {"none", "raised", "seen"}
FaultsType == 0..MaxFaults

Types ==
    /\ codec \in CodecType
    /\ caller \in CallerType
    /\ mutex \in MutexType
    /\ lent \in SUBSET Buffers
    /\ storage \in RingType
    /\ dmm \in RingType
    /\ count \in CountType
    /\ reused \in ReusedType
    /\ flush_pending \in FlagType
    /\ control \in TableType
    /\ mapped \in MappedType
    /\ msg \in MsgType
    /\ shutdown \in BOOLEAN
    /\ signal \in BOOLEAN
    /\ toDsp \in ToType
    /\ fromDsp \in FromType
    /\ dspHeld \in HeldType
    /\ fault \in FaultType
    /\ faults \in FaultsType

\* The streams of the buffers, and the direction of each.
LEMMA Directions ==
    /\ \A s \in 0..3 : Dir(s) \in Dirs
    /\ \A b \in Buffers : StreamOf[b] \in 0..3 /\ StreamOf[b] \in Streams
    /\ \A s \in Streams : s \in 0..3
    /\ 0 \in Slots /\ QUEUE_SIZE \in Nat \ {0}
<1>1. \A s \in 0..3 : Dir(s) \in Dirs
      BY DEF Dir, Dirs, In, Out
<1>2. \A b \in Buffers : StreamOf[b] \in 0..3 /\ StreamOf[b] \in Streams
      BY LCMLAssumption DEF Streams
<1>3. \A s \in Streams : s \in 0..3
      BY <1>2 DEF Streams
<1>4. 0 \in Slots /\ QUEUE_SIZE \in Nat \ {0}
      BY LCMLAssumption DEF Slots
<1> QED BY <1>1, <1>2, <1>3, <1>4

\* The place in the component's thread after an operation.
LEMMA CallerPlaces ==
    /\ At("none") \in CallerType /\ At("ready") \in CallerType
    /\ \A m \in Msg : Failing(m) \in CallerType
    /\ \A m \in Msg, h \in BOOLEAN : \A a \in {"ready", "flush", "stop"} :
          Putting(m, a, h) \in CallerType
    /\ \A c \in CallerType, h \in BOOLEAN :
          /\ [c EXCEPT !.pc = "error", !.locked = h] \in CallerType
          /\ [c EXCEPT !.pc = "join"] \in CallerType
          /\ c.pc = "put" => [c EXCEPT !.pc = c.next, !.locked = h] \in CallerType
<1> USE LCMLAssumption
<1>1. /\ At("none") \in CallerType /\ At("ready") \in CallerType
      /\ \A m \in Msg : Failing(m) \in CallerType
      BY DEF At, Failing, CallerType
<1>2. \A m \in Msg, h \in BOOLEAN : \A a \in {"ready", "flush", "stop"} :
          Putting(m, a, h) \in CallerType
      BY DEF Putting, CallerType
<1>3. ASSUME NEW c \in CallerType, NEW h \in BOOLEAN
      PROVE  /\ [c EXCEPT !.pc = "error", !.locked = h] \in CallerType
             /\ [c EXCEPT !.pc = "join"] \in CallerType
             /\ c.pc = "put" => [c EXCEPT !.pc = c.next, !.locked = h] \in CallerType
      BY DEF CallerType
<1> QED BY <1>1, <1>2, <1>3

\* When a slot was taken (0: longest ago, the slot QueueBuffer takes next), the
\* oldest of some slots, and the slots in use that hold an address.
Age(d, i) == (i + QUEUE_SIZE - count[d]) % QUEUE_SIZE
Oldest(d, S) == CHOOSE j \in S : \A q \in S : Age(d, j) <= Age(d, q)
SlotsWith(d, a) == { i \in Occupied(d) : dmm[d][i] = a }

\* The search of USN_DSPMSG_BUFF_FREE finds one of the matching slots.
LEMMA SearchFinds ==
    ASSUME Types, NEW d \in Dirs, NEW S \in SUBSET Slots, S # {}
    PROVE  Oldest(d, S) \in S
<1> DEFINE N == { Age(d, i) : i \in S }
<1>1. \A i \in S : Age(d, i) \in Nat
  <2>1. count[d] \in Nat /\ count[d] < QUEUE_SIZE
        BY Directions DEF Types, CountType, Slots
  <2> QED BY <2>1, Directions DEF Age, Slots
<1>2. N \in SUBSET Nat /\ N # {}
      BY <1>1
<1>3. PICK k \in N : \A j \in N : k <= j
      BY <1>2, LeastElement
<1>4. \E j \in S : \A q \in S : Age(d, j) <= Age(d, q)
      BY <1>3
<1> QED BY <1>4 DEF Oldest

\* What the helpers of the actions give back.
LEMMA HelperTypes ==
    ASSUME Types
    PROVE  /\ \A X : Map(X) \in MappedType /\ UnMap(X) \in MappedType
           /\ \A d \in Dirs, b \in Buffers \union {NULL}, i \in Slots :
                /\ [storage EXCEPT ![d][i] = b] \in RingType
                /\ [dmm EXCEPT ![d][i] = b] \in RingType
           /\ \A d \in Dirs : [count EXCEPT ![d] = (@ + 1) % QUEUE_SIZE] \in CountType
           /\ \A S : ClearSlots(S) => storage' \in RingType /\ dmm' \in RingType
           /\ \A k \in Tables, i \in Slots : [control EXCEPT ![k] = @ \union {i}] \in TableType
           /\ \A k \in Tables : \A a : ControlAfter(k, a) \in TableType
           /\ \A S : lent \ S \in SUBSET Buffers
           /\ \A s : \A v \in BOOLEAN : [flush_pending EXCEPT ![s] = v] \in FlagType
<1>1. \A X : Map(X) \in MappedType /\ UnMap(X) \in MappedType
      BY DEF Types, MappedType, Map, UnMap
<1>2. \A d \in Dirs, b \in Buffers \union {NULL}, i \in Slots :
         /\ [storage EXCEPT ![d][i] = b] \in RingType
         /\ [dmm EXCEPT ![d][i] = b] \in RingType
      BY DEF Types, RingType
<1>3. ASSUME NEW d \in Dirs
      PROVE  [count EXCEPT ![d] = (@ + 1) % QUEUE_SIZE] \in CountType
  <2>1. count[d] \in Nat
        BY DEF Types, CountType, Slots
  <2>2. (count[d] + 1) % QUEUE_SIZE \in Slots
        BY <2>1, Directions DEF Slots
  <2> QED BY <2>2 DEF Types, CountType
<1>4. \A S : ClearSlots(S) => storage' \in RingType /\ dmm' \in RingType
      BY DEF Types, RingType, ClearSlots
<1>5. \A k \in Tables, i \in Slots : [control EXCEPT ![k] = @ \union {i}] \in TableType
      BY DEF Types, TableType
<1>6. \A k \in Tables : \A a : ControlAfter(k, a) \in TableType
      BY DEF Types, TableType, ControlAfter
<1>7. \A S : lent \ S \in SUBSET Buffers
      BY DEF Types
<1>8. \A s : \A v \in BOOLEAN : [flush_pending EXCEPT ![s] = v] \in FlagType
      BY DEF Types, FlagType
<1> QED BY <1>1, <1>2, <1>3, <1>4, <1>5, <1>6, <1>7, <1>8

\* The messages of the component and of the DSP.
LEMMA Messages ==
    /\ \A b \in Buffers : Message("SETBUFF", StreamOf[b], b) \in Msg
    /\ \A cmd \in {"PLAY", "PAUSE", "STOP"} : Message(cmd, 0, NULL) \in Msg
    /\ \A k, i : i \in Slots => BlockMessage(k, i) \in Msg
    /\ \A s \in 0..3 : Message("FLUSH", s, NULL) \in Msg /\ Message("STRMCTRL", s, NULL) \in Msg
                      /\ Message("STRMERR", s, NULL) \in Msg
    /\ \A m \in Msg : Returns(m) \in Msg
BY Directions DEF Message, Msg, Cmds, Out, Returns, BlockMessage

\* Messages in a queue.
LEMMA Queues ==
    /\ \A q \in Seq(Msg), m \in Msg : Append(q, m) \in Seq(Msg) /\ Len(Append(q, m)) = Len(q) + 1
    /\ \A q \in Seq(Msg) : q # << >> =>
          Head(q) \in Msg /\ Tail(q) \in Seq(Msg) /\ Len(Tail(q)) = Len(q) - 1
    /\ \A q \in Seq(Msg) : Len(q) \in Nat
    /\ << >> \in Seq(Msg) /\ Len(<< >>) = 0
OBVIOUS

\* The control table's search finds a free entry.
LEMMA FreeEntry ==
    ASSUME NEW k, FreeControl(k) # {} PROVE Min(FreeControl(k)) \in FreeControl(k)
<1>1. FreeControl(k) \in SUBSET Nat
      BY Directions DEF FreeControl, Slots
<1>2. \E i \in FreeControl(k) : \A j \in FreeControl(k) : i <= j
      BY <1>1, LeastElement
<1> QED BY <1>2 DEF Min

\* Initially every variable has its type.
LEMMA TypeInit == Init => Types
<1> SUFFICES ASSUME Init PROVE Types
    OBVIOUS
<1>1. codec \in CodecType /\ caller \in CallerType /\ mutex \in MutexType /\ lent \in SUBSET Buffers
      BY CallerPlaces DEF Init, CodecType, MutexType
<1>2. storage \in RingType /\ dmm \in RingType /\ count \in CountType
      BY Directions DEF Init, Empty, RingType, CountType
<1>3. reused \in ReusedType
      BY FS_EmptySet, LCMLAssumption DEF Init, ReusedType
<1>4. flush_pending \in FlagType /\ control \in TableType /\ mapped \in MappedType
      BY DEF Init, FlagType, TableType, NoControl, MappedType, Unmapped
<1>5. msg \in MsgType /\ shutdown \in BOOLEAN /\ signal \in BOOLEAN
      BY DEF Init, MsgType, Quiet
<1>6. toDsp \in ToType /\ fromDsp \in FromType /\ dspHeld \in HeldType
      BY Queues, LCMLAssumption DEF Init, ToType, FromType, HeldType, NoneHeld
<1>7. fault \in FaultType /\ faults \in FaultsType
      BY LCMLAssumption DEF Init, FaultType, FaultsType
<1> QED BY <1>1, <1>2, <1>3, <1>4, <1>5, <1>6, <1>7 DEF Types

\* The buffer kept for reuse when one is queued.
LEMMA ReusedGrows ==
    ASSUME Types, NEW b \in Buffers
    PROVE  Keeping(b) \in ReusedType
<1>1. IsFiniteSet(reused) /\ reused \subseteq Buffers /\ Cardinality(reused) <= MAX_DMM_BUFFERS
      BY DEF Types, ReusedType
<1>2. Cardinality(reused) \in Nat
      BY <1>1, FS_CardinalityType
<1>3. IsFiniteSet(reused \union {b})
      BY <1>1, FS_AddElement
<1>4. Cardinality(reused \union {b}) \in {Cardinality(reused), Cardinality(reused) + 1}
      BY <1>1, FS_AddElement
<1>5. CASE codec.reuse /\ Cardinality(reused) < MAX_DMM_BUFFERS
  <2>1. Cardinality(reused \union {b}) <= MAX_DMM_BUFFERS
        BY <1>2, <1>4, <1>5, LCMLAssumption
  <2> QED BY <1>1, <1>3, <1>5, <2>1 DEF ReusedType, Keeping
<1>6. CASE ~ (codec.reuse /\ Cardinality(reused) < MAX_DMM_BUFFERS)
      BY <1>6 DEF Types, Keeping
<1> QED BY <1>5, <1>6

\* The component's thread keeps the types.
LEMMA CallerTypes ==
    ASSUME Types, Caller PROVE Types'
<1> USE DEF Types
<1>1. CASE InitMMCodec
      BY <1>1, CallerPlaces, Directions
      DEF InitMMCodec, dspVars, RingType, Empty, CountType, TableType, NoControl, MsgType, Quiet
<1>2. ASSUME NEW b \in Buffers, QueueBuffer(b) PROVE Types'
  <2>1. Dir(StreamOf[b]) \in Dirs /\ count[Dir(StreamOf[b])] \in Slots
        BY Directions DEF CountType
  <2>2. reused' \in ReusedType
        BY <1>2, ReusedGrows DEF QueueBuffer
  <2>3. caller' \in CallerType
        BY <1>2, Messages, CallerPlaces DEF QueueBuffer
  <2>4. storage' \in RingType /\ dmm' \in RingType /\ count' \in CountType /\ mapped' \in MappedType
        BY <1>2, <2>1, HelperTypes DEF QueueBuffer
  <2> QED BY <1>2, <2>2, <2>3, <2>4 DEF QueueBuffer, dspVars, MutexType
<1>3. ASSUME NEW b \in Buffers, QueueBufferFails(b) PROVE Types'
  <2>1. Dir(StreamOf[b]) \in Dirs /\ count[Dir(StreamOf[b])] \in Slots
        BY Directions DEF CountType
  <2>2. storage' \in RingType /\ dmm' \in RingType /\ count' \in CountType
        BY <1>3, <2>1, HelperTypes DEF QueueBufferFails
  <2>3. faults' \in FaultsType
        BY <1>3, LCMLAssumption DEF QueueBufferFails, FaultsType
  <2>4. caller' \in CallerType
        BY <1>3, Messages, CallerPlaces DEF QueueBufferFails
  <2>5. reused' \in ReusedType /\ mapped' \in MappedType
        BY <1>3, ReusedGrows, HelperTypes DEF QueueBufferFails
  <2> QED BY <1>3, <2>2, <2>3, <2>4, <2>5 DEF QueueBufferFails, dspVars
<1>4. CASE PutMessage
  <2>1. caller.put \in Msg /\ caller.next \notin {"error", NULL} /\ caller.locked \in BOOLEAN
        BY <1>4 DEF PutMessage, CallerType
  <2>2. toDsp' \in ToType
        BY <1>4, <2>1, Queues, LCMLAssumption DEF PutMessage, ToType
  <2>3. caller' \in CallerType
        BY <1>4, CallerPlaces DEF PutMessage
  <2> QED BY <1>4, <2>2, <2>3 DEF PutMessage, tables, bridge, MutexType
<1>5. CASE PutMessageFails
      BY <1>5, CallerPlaces DEF PutMessageFails, tables, bridge, dspVars, MutexType
<1>6. ASSUME NEW cmd \in {"PLAY", "PAUSE", "STOP"}, ControlState(cmd) PROVE Types'
  <2>1. caller' \in CallerType
        BY <1>6, Messages, CallerPlaces DEF ControlState
  <2> QED BY <1>6, <2>1 DEF ControlState, tables, bridge, dspVars
<1>7. ASSUME NEW k \in Tables, ControlBlock(k) PROVE Types'
  <2>1. Min(FreeControl(k)) \in Slots
        BY <1>7, FreeEntry DEF ControlBlock, FreeControl
  <2>2. caller' \in CallerType
        BY <1>7, <2>1, Messages, CallerPlaces DEF ControlBlock
  <2>3. control' \in TableType /\ mapped' \in MappedType
        BY <1>7, <2>1, HelperTypes DEF ControlBlock
  <2> QED BY <1>7, <2>2, <2>3 DEF ControlBlock, tables, dspVars, MutexType
<1>8. CASE ControlBlockFull
      BY <1>8 DEF ControlBlockFull, tables, bridge, dspVars, MutexType
<1>12. ASSUME NEW k \in Tables, ControlBlockFails(k) PROVE Types'
  <2>1. Min(FreeControl(k)) \in Slots
        BY <1>12, FreeEntry DEF ControlBlockFails, FreeControl
  <2>2. caller' \in CallerType
        BY <1>12, <2>1, Messages, CallerPlaces DEF ControlBlockFails
  <2>3. control' \in TableType
        BY <1>12, <2>1, HelperTypes DEF ControlBlockFails
  <2>4. faults' \in FaultsType
        BY <1>12, LCMLAssumption DEF ControlBlockFails, FaultsType
  <2> QED BY <1>12, <2>2, <2>3, <2>4 DEF ControlBlockFails, tables, dspVars
<1>9. ASSUME NEW s \in Streams, ControlFlush(s) PROVE Types'
  <2>1. caller' \in CallerType
        BY <1>9, Messages, Directions, CallerPlaces DEF ControlFlush
  <2>2. flush_pending' \in FlagType
        BY <1>9, HelperTypes DEF ControlFlush
  <2> QED BY <1>9, <2>1, <2>2 DEF ControlFlush, tables, bridge, dspVars, MutexType
<1>10. CASE ControlDestroy
      BY <1>10, CallerPlaces DEF ControlDestroy, tables, bridge, dspVars
<1>11. CASE Destroyed
  <2>1. reused' \in ReusedType
        BY <1>11, FS_EmptySet, LCMLAssumption DEF Destroyed, ReusedType
  <2>2. toDsp' \in ToType /\ fromDsp' \in FromType /\ dspHeld' \in HeldType
        BY <1>11, Queues, LCMLAssumption DEF Destroyed, ToType, FromType, HeldType, NoneHeld
  <2>3. storage' \in RingType /\ dmm' \in RingType /\ count' \in CountType
        BY <1>11, Directions DEF Destroyed, Empty, RingType, CountType
  <2>4. flush_pending' \in FlagType /\ control' \in TableType /\ mapped' \in MappedType
        BY <1>11 DEF Destroyed, FlagType, TableType, NoControl, MappedType, Unmapped
  <2> QED BY <1>11, <2>1, <2>2, <2>3, <2>4, CallerPlaces DEF Destroyed, FaultType
<1> QED BY <1>1, <1>2, <1>3, <1>4, <1>5, <1>6, <1>7, <1>8, <1>9, <1>10, <1>11, <1>12 DEF Caller

\* MessagingThread keeps the types.
LEMMA ThreadTypes ==
    ASSUME Types, MessagingThread PROVE Types'
<1> USE DEF Types
<1>0. fromDsp # << >> => /\ Head(fromDsp) \in Msg /\ Tail(fromDsp) \in FromType
                         /\ Head(fromDsp).stream \in 0..3 /\ Dir(Head(fromDsp).stream) \in Dirs
      BY Queues, Directions DEF FromType, Msg
<1>1. CASE MsgLeave
      BY <1>1 DEF MsgLeave, tables, bridge, dspVars, MsgType
<1>2. CASE MsgWake
      BY <1>2 DEF MsgWake, tables, bridge, MsgType
<1>3. CASE MsgFault
      BY <1>3 DEF MsgFault, tables, bridge, MsgType, FaultType
<1>4. CASE MsgEmpty
      BY <1>4 DEF MsgEmpty, tables, bridge, dspVars, MsgType
<1>5. CASE MsgBuffFree
  <2> DEFINE m == Head(fromDsp)
             d == Dir(m.stream)
             S == SlotsWith(d, m.addr)
             i == Oldest(d, S)
             T == [e \in Dirs |-> IF e = d THEN {i} ELSE {}]
  <2>0. d \in Dirs /\ S \in SUBSET Slots /\ fromDsp' \in FromType
        BY <1>0, <1>5 DEF MsgBuffFree, SlotsWith, Occupied
  <2>1. CASE S = {}
    <3>1. /\ msg' = [pc |-> "call", event |-> "internal", arg |-> NULL, next |-> "read"]
          /\ UNCHANGED <<storage, dmm, mapped, faults>>
          BY <1>5, <2>1 DEF MsgBuffFree, SlotsWith
    <3> HIDE DEF m, d, S
    <3>2. msg' \in MsgType
          BY <3>1 DEF MsgType
    <3> QED BY <1>5, <2>0, <3>1, <3>2 DEF MsgBuffFree
  <2>2. CASE S # {}
    <3>1. i \in S
          BY <2>0, <2>2, SearchFinds
    <3>2. storage[d][i] \in Buffers
          BY <2>0, <3>1 DEF SlotsWith, Occupied, RingType
    <3>3. /\ ClearSlots(T)
          /\ mapped' = UnMap(ReleasedBy(T))
          /\ \/ /\ msg' = [pc |-> "call", event |-> "processed", arg |-> storage[d][i], next |-> "read"]
                /\ UNCHANGED faults
             \/ /\ faults < MaxFaults
                /\ faults' = faults + 1
                /\ msg' = [pc |-> "call", event |-> "processed", arg |-> storage[d][i], next |-> "wait"]
          BY <1>5, <2>2 DEF MsgBuffFree, SlotsWith, Oldest, Age
    <3> HIDE DEF m, d, S, i, T
    <3>4. msg' \in MsgType
          BY <3>2, <3>3 DEF MsgType
    <3>5. faults' \in FaultsType
          BY <3>3, LCMLAssumption DEF FaultsType
    <3>6. storage' \in RingType /\ dmm' \in RingType /\ mapped' \in MappedType
          BY <3>3, HelperTypes
    <3> QED BY <1>5, <2>0, <3>4, <3>5, <3>6 DEF MsgBuffFree
  <2> QED BY <2>1, <2>2
<1>6. CASE MsgStop
  <2>1. msg' \in MsgType
        BY <1>6 DEF MsgStop, MsgType
  <2>2. storage' \in RingType /\ dmm' \in RingType /\ mapped' \in MappedType /\ lent' \in SUBSET Buffers
        BY <1>6, HelperTypes DEF MsgStop
  <2> QED BY <1>0, <1>6, <2>1, <2>2 DEF MsgStop
<1>7. CASE MsgAlgCtrl
  <2>1. msg' \in MsgType
        BY <1>7 DEF MsgAlgCtrl, MsgType
  <2>2. mapped' \in MappedType /\ control' \in TableType
        BY <1>7, HelperTypes DEF MsgAlgCtrl, Tables
  <2> QED BY <1>0, <1>7, <2>1, <2>2 DEF MsgAlgCtrl, tables
<1>8. CASE MsgStrmCtrl
  <2>1. msg' \in MsgType
        BY <1>0, <1>8 DEF MsgStrmCtrl, MsgType
  <2>2. mapped' \in MappedType /\ control' \in TableType /\ lent' \in SUBSET Buffers
        BY <1>8, HelperTypes DEF MsgStrmCtrl, Tables
  <2>3. storage' \in RingType /\ dmm' \in RingType /\ flush_pending' \in FlagType
        BY <1>8, HelperTypes DEF MsgStrmCtrl
  <2> QED BY <1>0, <1>8, <2>1, <2>2, <2>3 DEF MsgStrmCtrl
<1>9. CASE MsgPause
  <2>1. msg' \in MsgType
        BY <1>9 DEF MsgPause, MsgType
  <2> QED BY <1>0, <1>9, <2>1 DEF MsgPause, tables, bridge
<1>10. CASE MsgCallback
  <2>1. msg' \in MsgType
        BY <1>10 DEF MsgCallback, MsgType, Quiet
  <2>2. lent' \in SUBSET Buffers /\ caller' \in CallerType
        BY <1>10, CallerPlaces DEF MsgCallback
  <2> QED BY <1>10, <2>1, <2>2 DEF MsgCallback, tables, bridge, dspVars
<1> QED BY <1>1, <1>2, <1>3, <1>4, <1>5, <1>6, <1>7, <1>8, <1>9, <1>10 DEF MessagingThread

\* The DSP keeps the types.
LEMMA DspTypes ==
    ASSUME Types, Dsp PROVE Types'
<1> USE DEF Types
<1>1. CASE DspTake
  <2>0. toDsp \in Seq(Msg) /\ Len(toDsp) <= MaxMessages /\ toDsp # << >>
        BY <1>1 DEF DspTake, ToType
  <2>1. /\ Head(toDsp) \in Msg /\ Head(toDsp).stream \in 0..3 /\ Tail(toDsp) \in ToType
    <3>1. Head(toDsp) \in Msg /\ Tail(toDsp) \in Seq(Msg)
          BY <2>0, Queues
    <3>2. Len(Tail(toDsp)) = Len(toDsp) - 1 /\ Len(toDsp) \in Nat
          BY <2>0, Queues
    <3>3. Len(Tail(toDsp)) <= MaxMessages
          BY <2>0, <3>2, LCMLAssumption
    <3> QED BY <3>1, <3>3 DEF ToType, Msg
  <2>2. dspHeld' \in HeldType
    <3> DEFINE m == Head(toDsp)
    <3>1. m \in Msg /\ m.stream \in 0..3 /\ dspHeld[m.stream] \in Seq(Msg)
          BY <2>1 DEF HeldType
    <3>2. Append(dspHeld[m.stream], m) \in Seq(Msg) /\ << >> \in Seq(Msg)
          BY <3>1, Queues
    <3>3. \/ dspHeld' = [dspHeld EXCEPT ![m.stream] = Append(@, m)]
          \/ dspHeld' = [dspHeld EXCEPT ![m.stream] = << >>]
          \/ dspHeld' = NoneHeld
          \/ dspHeld' = dspHeld
          BY <1>1 DEF DspTake
    <3> HIDE DEF m
    <3> QED BY <3>1, <3>2, <3>3 DEF HeldType, NoneHeld
  <2>3. fromDsp' \in FromType /\ signal' \in BOOLEAN
        BY <1>1, <2>1, Queues, Messages DEF DspTake, FromType, Send
  <2> QED BY <1>1, <2>1, <2>2, <2>3 DEF DspTake, tables, bridge
<1>2. ASSUME NEW s \in Streams, DspReturn(s) PROVE Types'
  <2>1. dspHeld[s] \in Seq(Msg)
        BY Directions DEF HeldType
  <2>2. Head(dspHeld[s]) \in Msg /\ Tail(dspHeld[s]) \in Seq(Msg)
        BY <1>2, <2>1, Queues DEF DspReturn
  <2>3. dspHeld' \in HeldType
        BY <1>2, <2>2 DEF DspReturn, HeldType
  <2>4. fromDsp' \in FromType /\ signal' \in BOOLEAN
        BY <1>2, <2>2, Queues, Messages DEF DspReturn, FromType, Send
  <2> QED BY <1>2, <2>3, <2>4 DEF DspReturn, tables, bridge
<1>3. CASE DspFault
  <2>1. faults' \in FaultsType
        BY <1>3, LCMLAssumption DEF DspFault, FaultsType
  <2> QED BY <1>3, <2>1 DEF DspFault, tables, bridge, FaultType
<1>4. CASE DspFlushFails
  <2>1. Head(toDsp) \in Msg /\ toDsp' \in ToType
    <3>1. toDsp \in Seq(Msg) /\ Len(toDsp) <= MaxMessages /\ toDsp # << >>
          BY <1>4 DEF DspFlushFails, ToType
    <3>2. /\ Head(toDsp) \in Msg /\ Tail(toDsp) \in Seq(Msg)
          /\ Len(Tail(toDsp)) = Len(toDsp) - 1 /\ Len(toDsp) \in Nat
          BY <3>1, Queues
    <3>3. Len(Tail(toDsp)) <= MaxMessages
          BY <3>1, <3>2, LCMLAssumption
    <3>4. toDsp' = Tail(toDsp)
          BY <1>4 DEF DspFlushFails
    <3> QED BY <3>2, <3>3, <3>4 DEF ToType
  <2>2. fromDsp' \in FromType /\ signal' \in BOOLEAN
        BY <1>4, <2>1, Queues, Messages DEF DspFlushFails, FromType, Send, Msg
  <2>3. faults' \in FaultsType
        BY <1>4, LCMLAssumption DEF DspFlushFails, FaultsType
  <2> QED BY <1>4, <2>1, <2>2, <2>3 DEF DspFlushFails, tables, bridge
<1> QED BY <1>1, <1>2, <1>3, <1>4 DEF Dsp

\* Every step keeps the types.
LEMMA TypeStep == Types /\ [Next]_vars => Types'
<1> SUFFICES ASSUME Types, [Next]_vars PROVE Types'
    OBVIOUS
<1>1. CASE UNCHANGED vars
      BY <1>1 DEF vars, tables, bridge, dspVars, Types
<1> QED BY <1>1, CallerTypes, ThreadTypes, DspTypes DEF Next

\* Every variable of LCML has its type: a ring's next slot stays inside the
\* ring, no more mappings are kept than mapped_dmm_buffers has room for, and
\* the queue towards the DSP never overflows.
THEOREM TypeCorrect == Spec => []TypeOK
<1>1. Types => TypeOK
  <2> SUFFICES ASSUME Types PROVE TypeOK
      OBVIOUS
  <2> USE DEF Types
  <2>1. \A d \in Dirs, i \in Slots : storage[d][i] = NULL \/ storage[d][i] \in Buffers
        BY DEF RingType
  <2>2. caller.pc \in {"none", "ready", "put", "error", "stop", "flush", "join"}
        BY DEF CallerType
  <2>3. msg.pc \in {"wait", "read", "call", "exited"}
        BY DEF MsgType
  <2>4. reused \subseteq Buffers /\ Cardinality(reused) <= MAX_DMM_BUFFERS /\ Len(toDsp) <= MaxMessages
        BY DEF ReusedType, ToType
  <2> QED BY <2>1, <2>2, <2>3, <2>4
      DEF TypeOK, CodecType, MutexType, RingType, CountType, FlagType, TableType, MappedType,
          FaultType, FaultsType
<1> QED BY <1>1, TypeInit, TypeStep, PTL DEF Spec

-----------------------------------------------------------------------------
(* The inductive invariant.                                                *)

\* How a component may use LCML: one stream per direction, no more buffers of
\* a direction than the ring has slots, no flush while a stream control is
\* not answered.
Of(d) == { b \in Buffers : Dir(StreamOf[b]) = d }
OneStream == \A b, c \in Buffers : Dir(StreamOf[b]) = Dir(StreamOf[c]) => StreamOf[b] = StreamOf[c]
RingsFit  == \A d \in Dirs : IsFiniteSet(Of(d)) /\ Cardinality(Of(d)) <= QUEUE_SIZE
ProperUse == OneStream /\ RingsFit /\ ~OverlapCtrl

\* The component has not failed and has not given the handle up.
Running == caller.pc \notin {"error", "join"}

\* A slot's buffer is of the ring's direction and in no other slot.
Rings ==
    \A d \in Dirs : \A i \in Slots :
        /\ storage[d][i] # NULL => Dir(StreamOf[storage[d][i]]) = d
        /\ dmm[d][i] # NULL => dmm[d][i] = storage[d][i]
        /\ \A j \in Slots : storage[d][i] # NULL /\ storage[d][i] = storage[d][j] => i = j

\* On loan are the buffers in the rings and the one being given back.
InUse   == { b \in Buffers : \E d \in Dirs, i \in Slots : storage[d][i] = b }
Pending == IF msg.pc = "call" /\ msg.event = "processed" THEN {msg.arg} ELSE {}
Lending ==
    /\ lent = InUse \union Pending
    /\ InUse \intersect Pending = {}

\* The slots in use are the youngest ones: there is no gap.
Contiguous ==
    Running => \A d \in Dirs : \A i, j \in Slots :
        storage[d][i] # NULL /\ Age(d, i) < Age(d, j) => storage[d][j] # NULL

\* Before InitMMCodec there is nothing.
Idle == caller.pc = "none" =>
    /\ msg.pc = "exited" /\ storage = Empty /\ dmm = Empty /\ control = NoControl
    /\ count = [d \in Dirs |-> 0]
    /\ toDsp = << >> /\ fromDsp = << >> /\ dspHeld = NoneHeld

\* How far a slot is from being taken again.
LEMMA Ages ==
    ASSUME NEW c \in Slots, NEW i \in Slots
    PROVE  /\ (i + QUEUE_SIZE - c) % QUEUE_SIZE = (IF i >= c THEN i - c ELSE i - c + QUEUE_SIZE)
           /\ (c + 1) % QUEUE_SIZE = (IF c + 1 = QUEUE_SIZE THEN 0 ELSE c + 1)
<1> DEFINE Q == QUEUE_SIZE
<1>0. Q \in Nat \ {0} /\ c \in Nat /\ i \in Nat /\ c < Q /\ i < Q
      BY Directions DEF Slots
<1> HIDE DEF Q
<1>1. ASSUME NEW a \in Nat, a < Q PROVE a % Q = a
      BY <1>0, <1>1
<1>2. ASSUME NEW a \in Nat, a >= Q, a < 2 * Q PROVE a % Q = a - Q
      BY <1>0, <1>2
<1>3. i >= c => (i + Q - c) % Q = i - c
  <2> SUFFICES ASSUME i >= c PROVE (i + Q - c) % Q = i - c
      OBVIOUS
  <2>1. i + Q - c \in Nat /\ i + Q - c >= Q /\ i + Q - c < 2 * Q /\ (i + Q - c) - Q = i - c
        BY <1>0
  <2> QED BY <1>2, <2>1
<1>4. ~ (i >= c) => (i + Q - c) % Q = i - c + Q
  <2> SUFFICES ASSUME i < c PROVE (i + Q - c) % Q = i - c + Q
      BY <1>0
  <2>1. i + Q - c \in Nat /\ i + Q - c < Q /\ i + Q - c = i - c + Q
        BY <1>0
  <2> QED BY <1>1, <2>1
<1>5. (c + 1) % Q = IF c + 1 = Q THEN 0 ELSE c + 1
      BY <1>0, <1>1, <1>2
<1> QED BY <1>3, <1>4, <1>5 DEF Q

\* Taking the next slot makes it the youngest and every other one older.
LEMMA AgesShift ==
    ASSUME NEW c \in Slots, NEW i \in Slots
    PROVE  LET n == (c + 1) % QUEUE_SIZE
               new == (i + QUEUE_SIZE - n) % QUEUE_SIZE
               old == (i + QUEUE_SIZE - c) % QUEUE_SIZE
           IN  /\ n \in Slots /\ old \in Slots /\ new \in Slots
               /\ i = c => old = 0 /\ new = QUEUE_SIZE - 1
               /\ i # c => new = old - 1 /\ old > 0
<1> DEFINE Q == QUEUE_SIZE
           n == (c + 1) % Q
<1>0. Q \in Nat \ {0} /\ c \in 0..Q-1 /\ i \in 0..Q-1 /\ Slots = 0..Q-1
      BY Directions DEF Slots
<1>1. n = IF c + 1 = Q THEN 0 ELSE c + 1
      BY Ages
<1>2. n \in Slots
      BY <1>0, <1>1
<1>3. (i + Q - n) % Q = (IF i >= n THEN i - n ELSE i - n + Q)
      BY <1>2, Ages
<1>4. (i + Q - c) % Q = (IF i >= c THEN i - c ELSE i - c + Q)
      BY Ages
<1> HIDE DEF Q, n
<1>5. /\ (i + Q - c) % Q \in Slots /\ (i + Q - n) % Q \in Slots
      /\ i = c => (i + Q - c) % Q = 0 /\ (i + Q - n) % Q = Q - 1
      /\ i # c => (i + Q - n) % Q = ((i + Q - c) % Q) - 1 /\ (i + Q - c) % Q > 0
      BY <1>0, <1>1, <1>2, <1>3, <1>4
<1> QED BY <1>2, <1>5 DEF Q, n

\* The next slot is the oldest.
LEMMA AgeOfSlots ==
    ASSUME Types, NEW d \in Dirs, NEW i \in Slots
    PROVE  /\ Age(d, i) \in Nat /\ Age(d, i) < QUEUE_SIZE
           /\ Age(d, count[d]) = 0
           /\ i # count[d] => Age(d, i) > 0
           /\ \A j \in Slots : Age(d, i) = Age(d, j) => i = j
<1> DEFINE c == count[d]
<1>0. c \in Slots
      BY DEF Types, CountType
<1> HIDE DEF c
<1>1. \A j \in Slots : Age(d, j) = IF j >= c THEN j - c ELSE j - c + QUEUE_SIZE
      BY <1>0, Ages DEF Age, c
<1>2. c \in 0 .. QUEUE_SIZE - 1 /\ Slots = 0 .. QUEUE_SIZE - 1 /\ QUEUE_SIZE \in Nat \ {0}
      BY <1>0, Directions DEF Slots
<1> QED BY SMTT(30), <1>0, <1>1, <1>2 DEF c

\* The order of the slots when the next one of ring d is taken.
LEMMA AgesAfter ==
    ASSUME Types, NEW d \in Dirs, NEW i \in Slots,
           count' = [count EXCEPT ![d] = (@ + 1) % QUEUE_SIZE]
    PROVE  /\ i = count[d] => Age(d, i)' = QUEUE_SIZE - 1
           /\ i # count[d] => Age(d, i)' = Age(d, i) - 1
           /\ \A e \in Dirs : e # d => Age(e, i)' = Age(e, i)
<1>1. count[d] \in Slots /\ count'[d] = (count[d] + 1) % QUEUE_SIZE
      BY DEF Types, CountType
<1>2. \A e \in Dirs : e # d => count'[e] = count[e]
      BY DEF Types, CountType
<1>3. \A e \in Dirs : Age(e, i)' = (i + QUEUE_SIZE - count'[e]) % QUEUE_SIZE
      BY DEF Age
<1> QED BY <1>1, <1>2, <1>3, AgesShift DEF Age

\* The steps that change the rings.
LEMMA RingSteps ==
    ASSUME Types, Idle, [Next]_vars
    PROVE  \/ \E b \in Buffers : QueueBuffer(b) \/ QueueBufferFails(b)
           \/ MsgBuffFree \/ MsgStop \/ MsgStrmCtrl
           \/ Destroyed
           \/ UNCHANGED tables
<1>1. CASE InitMMCodec
      BY <1>1 DEF InitMMCodec, Idle, tables
<1>2. CASE UNCHANGED vars
      BY <1>2 DEF vars, tables
<1>3. ASSUME NEW cmd, ControlState(cmd) PROVE UNCHANGED tables
      BY <1>3 DEF ControlState
<1>4. ASSUME NEW k, ControlBlock(k) \/ ControlBlockFails(k) PROVE UNCHANGED tables
      BY <1>4 DEF ControlBlock, ControlBlockFails
<1>5. ASSUME NEW s, ControlFlush(s) \/ DspReturn(s) PROVE UNCHANGED tables
      BY <1>5 DEF ControlFlush, DspReturn
<1>6. CASE PutMessage \/ PutMessageFails \/ ControlBlockFull \/ ControlDestroy
      BY <1>6 DEF PutMessage, PutMessageFails, ControlBlockFull, ControlDestroy
<1>7. CASE MsgLeave \/ MsgWake \/ MsgFault \/ MsgEmpty \/ MsgAlgCtrl \/ MsgPause \/ MsgCallback
      BY <1>7 DEF MsgLeave, MsgWake, MsgFault, MsgEmpty, MsgAlgCtrl, MsgPause, MsgCallback
<1>8. CASE DspTake \/ DspFlushFails \/ DspFault
      BY <1>8 DEF DspTake, DspFlushFails, DspFault
<1> QED BY <1>1, <1>2, <1>3, <1>4, <1>5, <1>6, <1>7, <1>8
    DEF Next, Caller, MessagingThread, Dsp

\* MessagingThread empties slots and does nothing else to the rings.
LEMMA Emptied ==
    ASSUME Types, NEW S, ClearSlots(S)
    PROVE  \A d \in Dirs, i \in Slots :
             /\ i \in S[d] => storage'[d][i] = NULL /\ dmm'[d][i] = NULL
             /\ i \notin S[d] => storage'[d][i] = storage[d][i] /\ dmm'[d][i] = dmm[d][i]
BY DEF ClearSlots

\* The slot that a returned buffer empties.
FreedSlot == LET m == Head(fromDsp)
             IN  Oldest(Dir(m.stream), SlotsWith(Dir(m.stream), m.addr))
Freed == [e \in Dirs |-> IF e = Dir(Head(fromDsp).stream) THEN {FreedSlot} ELSE {}]

\* USN_DSPMSG_BUFF_FREE, in terms of the above.
LEMMA BuffFree ==
    ASSUME Types, MsgBuffFree
    PROVE  LET m == Head(fromDsp)
               d == Dir(m.stream)
               b == storage[d][FreedSlot]
           IN  /\ m \in Msg /\ d \in Dirs /\ fromDsp # << >> /\ fromDsp' = Tail(fromDsp)
               /\ m.cmd = "BUFF_FREE" /\ msg.pc = "read"
               /\ \/ /\ SlotsWith(d, m.addr) = {}
                     /\ msg' = [pc |-> "call", event |-> "internal", arg |-> NULL, next |-> "read"]
                     /\ UNCHANGED <<storage, dmm, mapped>>
                  \/ /\ SlotsWith(d, m.addr) # {}
                     /\ FreedSlot \in Slots /\ dmm[d][FreedSlot] = m.addr /\ b \in Buffers
                     /\ ClearSlots(Freed)
                     /\ mapped' = UnMap(ReleasedBy(Freed))
                     /\ msg'.pc = "call" /\ msg'.event = "processed" /\ msg'.arg = b
               /\ UNCHANGED <<codec, caller, mutex, lent, count, reused, control, flush_pending, toDsp, dspHeld>>
<1> DEFINE m == Head(fromDsp)
           d == Dir(m.stream)
           S == SlotsWith(d, m.addr)
<1>1. /\ m \in Msg /\ d \in Dirs /\ fromDsp # << >> /\ fromDsp' = Tail(fromDsp)
      /\ m.cmd = "BUFF_FREE" /\ msg.pc = "read"
      /\ UNCHANGED <<codec, caller, mutex, lent, count, reused, control, flush_pending, toDsp, dspHeld>>
  <2>1. /\ fromDsp # << >> /\ fromDsp' = Tail(fromDsp) /\ m.cmd = "BUFF_FREE" /\ msg.pc = "read"
        /\ UNCHANGED <<codec, caller, mutex, lent, count, reused, control, flush_pending, toDsp, dspHeld>>
        BY DEF MsgBuffFree
  <2>2. m \in Msg
        BY <2>1, Queues DEF Types, FromType
  <2>3. d \in Dirs
        BY <2>2, Directions DEF Msg
  <2> QED BY <2>1, <2>2, <2>3
<1>2. CASE S = {}
  <2>1. /\ msg' = [pc |-> "call", event |-> "internal", arg |-> NULL, next |-> "read"]
        /\ UNCHANGED <<storage, dmm, mapped>>
        BY <1>2 DEF MsgBuffFree, SlotsWith
  <2> QED BY <1>1, <1>2, <2>1
<1>3. CASE S # {}
  <2>1. FreedSlot = Oldest(d, S)
        BY DEF FreedSlot
  <2>2. S \in SUBSET Slots
        BY DEF SlotsWith, Occupied
  <2>3. FreedSlot \in S
        BY <1>1, <1>3, <2>1, <2>2, SearchFinds
  <2>4. FreedSlot \in Slots /\ dmm[d][FreedSlot] = m.addr /\ storage[d][FreedSlot] \in Buffers
        BY <1>1, <2>3 DEF SlotsWith, Occupied, Types, RingType
  <2>5. /\ ClearSlots(Freed) /\ mapped' = UnMap(ReleasedBy(Freed))
        /\ \/ msg' = [pc |-> "call", event |-> "processed", arg |-> storage[d][FreedSlot], next |-> "read"]
           \/ msg' = [pc |-> "call", event |-> "processed", arg |-> storage[d][FreedSlot], next |-> "wait"]
        BY <1>3 DEF MsgBuffFree, SlotsWith, Oldest, Age, FreedSlot, Freed
  <2>6. msg'.pc = "call" /\ msg'.event = "processed" /\ msg'.arg = storage[d][FreedSlot]
        BY <2>5
  <2> QED BY <1>1, <1>3, <2>4, <2>5, <2>6
<1> QED BY <1>2, <1>3

\* The slots that an acknowledgement of a flush or a stop empties.
Acked ==
    IF Head(fromDsp).cmd = "STOP"
    THEN [d \in Dirs |-> IF codec.dasf THEN {} ELSE Occupied(d)]
    ELSE IF Head(fromDsp).cmd = "STRMCTRL" /\ flush_pending[Head(fromDsp).stream]
         THEN FlushedSlots(Head(fromDsp).stream) ELSE [d \in Dirs |-> {}]

\* USN_DSPACK_STOP and USN_DSPACK_STRMCTRL, in terms of the above.
LEMMA Acks ==
    ASSUME Types, MsgStop \/ MsgStrmCtrl
    PROVE  /\ Head(fromDsp) \in Msg /\ fromDsp # << >> /\ fromDsp' = Tail(fromDsp) /\ msg.pc = "read"
           /\ IF MsgStop THEN Head(fromDsp).cmd = "STOP" ELSE Head(fromDsp).cmd \in StreamAnswers
           /\ ClearSlots(Acked) /\ lent' = lent \ HeldIn(Acked)
           /\ msg'.pc = "call" /\ msg'.event # "processed"
           /\ \A d \in Dirs : Acked[d] \subseteq Occupied(d)
           /\ UNCHANGED <<codec, caller, mutex, count, reused, toDsp, dspHeld>>
<1>1. CASE MsgStop
  <2>1. /\ fromDsp # << >> /\ fromDsp' = Tail(fromDsp) /\ Head(fromDsp).cmd = "STOP" /\ msg.pc = "read"
        /\ UNCHANGED <<codec, caller, mutex, count, reused, toDsp, dspHeld>>
        BY <1>1 DEF MsgStop
  <2>2. Acked = [d \in Dirs |-> IF codec.dasf THEN {} ELSE Occupied(d)]
        BY <2>1 DEF Acked
  <2>3. ClearSlots(Acked) /\ lent' = lent \ HeldIn(Acked)
        BY <1>1, <2>2 DEF MsgStop
  <2>4. msg'.pc = "call" /\ msg'.event # "processed"
        BY <1>1 DEF MsgStop
  <2>5. Head(fromDsp) \in Msg
        BY <2>1, Queues DEF Types, FromType
  <2>6. \A d \in Dirs : Acked[d] \subseteq Occupied(d)
        BY <2>2
  <2> QED BY <1>1, <2>1, <2>3, <2>4, <2>5, <2>6
<1>2. CASE MsgStrmCtrl
  <2>1. /\ fromDsp # << >> /\ fromDsp' = Tail(fromDsp) /\ msg.pc = "read"
        /\ Head(fromDsp).cmd \in StreamAnswers /\ Head(fromDsp).cmd # "STOP"
        /\ UNCHANGED <<codec, caller, mutex, count, reused, toDsp, dspHeld>>
        BY <1>2 DEF MsgStrmCtrl, StreamAnswers
  <2>2. Acked = IF Head(fromDsp).cmd = "STRMCTRL" /\ flush_pending[Head(fromDsp).stream]
                THEN FlushedSlots(Head(fromDsp).stream) ELSE [d \in Dirs |-> {}]
        BY <2>1 DEF Acked
  <2>3. ClearSlots(Acked) /\ lent' = lent \ HeldIn(Acked)
        BY <1>2, <2>2 DEF MsgStrmCtrl
  <2>4. msg'.pc = "call" /\ msg'.event # "processed"
        BY <1>2 DEF MsgStrmCtrl
  <2>5. Head(fromDsp) \in Msg
        BY <2>1, Queues DEF Types, FromType
  <2>6. \A d \in Dirs : Acked[d] \subseteq Occupied(d)
        BY <2>2 DEF FlushedSlots
  <2>7. ~MsgStop
        BY <2>1 DEF MsgStop
  <2> QED BY <1>2, <2>1, <2>3, <2>4, <2>5, <2>6, <2>7
<1> QED BY <1>1, <1>2

\* A buffer that is not on loan finds the next slot of its ring free.
LEMMA SlotFree ==
    ASSUME Types, RingsFit, Rings, Lending, Contiguous, caller.pc = "ready",
           NEW b \in Buffers, b \notin lent
    PROVE  LET d == Dir(StreamOf[b])
           IN  /\ d \in Dirs /\ count[d] \in Slots
               /\ storage[d][count[d]] = NULL /\ dmm[d][count[d]] = NULL
               /\ \A e \in Dirs, i \in Slots : storage[e][i] # b
<1> DEFINE d == Dir(StreamOf[b])
           c == count[d]
<1>1. d \in Dirs /\ c \in Slots
      BY Directions DEF Types, CountType
<1>2. \A e \in Dirs, i \in Slots : storage[e][i] # b
      BY DEF Lending, InUse
<1>3. ASSUME storage[d][c] # NULL PROVE FALSE
  <2>1. ASSUME NEW i \in Slots PROVE storage[d][i] # NULL
    <3>1. Age(d, c) = 0 /\ (i # c => Age(d, i) > 0) /\ Age(d, i) \in Nat
          BY <1>1, AgeOfSlots
    <3> QED BY <1>1, <1>3, <3>1 DEF Contiguous, Running
  <2> DEFINE T == Of(d) \ {b}
             f == [i \in Slots |-> storage[d][i]]
  <2>2. \A i \in Slots : f[i] \in T
    <3>1. ASSUME NEW i \in Slots PROVE f[i] \in T
      <4>1. storage[d][i] \in Buffers
            BY <1>1, <2>1 DEF Types, RingType
      <4> QED BY <1>1, <1>2, <2>1, <4>1 DEF Rings, Of
    <3> QED BY <3>1
  <2>3. \A i, j \in Slots : f[i] = f[j] => i = j
        BY <1>1, <2>1 DEF Rings
  <2>4. f \in Injection(Slots, T)
        BY <2>2, <2>3 DEF Injection, IsInjective
  <2>5. IsFiniteSet(Of(d)) /\ Cardinality(Of(d)) <= QUEUE_SIZE /\ b \in Of(d)
        BY <1>1 DEF RingsFit, Of
  <2>6. IsFiniteSet(T) /\ Cardinality(T) = Cardinality(Of(d)) - 1 /\ Cardinality(Of(d)) \in Nat
        BY <2>5, FS_RemoveElement, FS_CardinalityType
  <2>7. Cardinality(Slots) <= Cardinality(T)
        BY <2>4, <2>6, FS_Injection
  <2>8. Cardinality(Slots) = QUEUE_SIZE
    <3>1. 0 \in Int /\ QUEUE_SIZE - 1 \in Int
          BY Directions
    <3>2. Cardinality(0 .. (QUEUE_SIZE - 1)) = IF 0 > QUEUE_SIZE - 1 THEN 0 ELSE (QUEUE_SIZE - 1) - 0 + 1
          BY <3>1, FS_Interval
    <3> QED BY <3>2, Directions DEF Slots
  <2> QED BY <2>5, <2>6, <2>7, <2>8, Directions
<1>4. dmm[d][c] = NULL
      BY <1>1, <1>3 DEF Rings
<1> QED BY <1>1, <1>2, <1>3, <1>4

\* QueueBuffer, whether or not DmmMap succeeds.
LEMMA Queueing ==
    ASSUME Types, NEW b \in Buffers, QueueBuffer(b) \/ QueueBufferFails(b)
    PROVE  LET d == Dir(StreamOf[b])
               c == count[d]
           IN  /\ d \in Dirs /\ c \in Slots
               /\ caller.pc = "ready" /\ b \notin lent
               /\ \A e \in Dirs, i \in Slots :
                    IF e = d /\ i = c
                    THEN storage'[e][i] = b /\ dmm'[e][i] = IF QueueBuffer(b) THEN b ELSE NULL
                    ELSE storage'[e][i] = storage[e][i] /\ dmm'[e][i] = dmm[e][i]
               /\ count' = [count EXCEPT ![d] = (@ + 1) % QUEUE_SIZE]
               /\ lent' = lent \union {b}
               /\ UNCHANGED <<codec, msg, control, flush_pending, toDsp, fromDsp, dspHeld>>
<1> DEFINE d == Dir(StreamOf[b])
           c == count[d]
<1>1. d \in Dirs /\ c \in Slots
      BY Directions DEF Types, CountType
<1>2. storage \in RingType /\ dmm \in RingType
      BY DEF Types
<1>3. CASE QueueBuffer(b)
  <2>1. /\ storage' = [storage EXCEPT ![d][c] = b] /\ dmm' = [dmm EXCEPT ![d][c] = b]
        /\ caller.pc = "ready" /\ b \notin lent
        /\ count' = [count EXCEPT ![d] = (@ + 1) % QUEUE_SIZE]
        /\ lent' = lent \union {b}
        /\ UNCHANGED <<codec, msg, control, flush_pending, toDsp, fromDsp, dspHeld>>
        BY <1>3 DEF QueueBuffer, dspVars
  <2> HIDE DEF d, c
  <2>2. \A e \in Dirs, i \in Slots :
            IF e = d /\ i = c THEN storage'[e][i] = b /\ dmm'[e][i] = b
            ELSE storage'[e][i] = storage[e][i] /\ dmm'[e][i] = dmm[e][i]
        BY <1>1, <1>2, <2>1 DEF RingType
  <2> QED BY <1>1, <1>3, <2>1, <2>2 DEF d, c
<1>4. CASE QueueBufferFails(b) /\ ~QueueBuffer(b)
  <2>1. /\ storage' = [storage EXCEPT ![d][c] = b] /\ dmm' = [dmm EXCEPT ![d][c] = NULL]
        /\ caller.pc = "ready" /\ b \notin lent
        /\ count' = [count EXCEPT ![d] = (@ + 1) % QUEUE_SIZE]
        /\ lent' = lent \union {b}
        /\ UNCHANGED <<codec, msg, control, flush_pending, toDsp, fromDsp, dspHeld>>
        BY <1>4 DEF QueueBufferFails, dspVars, bridge
  <2> HIDE DEF d, c
  <2>2. \A e \in Dirs, i \in Slots :
            IF e = d /\ i = c THEN storage'[e][i] = b /\ dmm'[e][i] = NULL
            ELSE storage'[e][i] = storage[e][i] /\ dmm'[e][i] = dmm[e][i]
        BY <1>1, <1>2, <2>1 DEF RingType
  <2> QED BY <1>1, <1>4, <2>1, <2>2 DEF d, c
<1> QED BY <1>3, <1>4

\* NULL is no buffer, no stream and no entry of a table.
LEMMA NullApart ==
    /\ NULL \notin Buffers /\ NULL \notin 0..3 /\ NULL \notin Slots
    /\ NULL # "ready" /\ NULL # "flush" /\ NULL # "stop" /\ NULL # "error"
BY LCMLAssumption DEF Slots

\* QueueBuffer puts a buffer only into the ring of its direction, and once.
LEMMA RingsStep ==
    ASSUME Types, RingsFit, Idle, Rings, Lending, Contiguous, [Next]_vars PROVE Rings'
<1>1. ASSUME NEW b \in Buffers, QueueBuffer(b) \/ QueueBufferFails(b) PROVE Rings'
  <2> DEFINE d == Dir(StreamOf[b])
             c == count[d]
  <2>1. /\ d \in Dirs /\ c \in Slots /\ caller.pc = "ready" /\ b \notin lent
        /\ \A e \in Dirs, i \in Slots :
             IF e = d /\ i = c
             THEN storage'[e][i] = b /\ dmm'[e][i] \in {b, NULL}
             ELSE storage'[e][i] = storage[e][i] /\ dmm'[e][i] = dmm[e][i]
        BY <1>1, Queueing
  <2>2. \A e \in Dirs, i \in Slots : storage[e][i] # b
        BY <2>1, SlotFree
  <2> HIDE DEF c
  <2> SUFFICES ASSUME NEW e \in Dirs, NEW i \in Slots
               PROVE  /\ storage'[e][i] # NULL => Dir(StreamOf[storage'[e][i]]) = e
                      /\ dmm'[e][i] # NULL => dmm'[e][i] = storage'[e][i]
                      /\ \A j \in Slots : storage'[e][i] # NULL /\ storage'[e][i] = storage'[e][j] => i = j
      BY DEF Rings
  <2>3. /\ storage[e][i] # NULL => Dir(StreamOf[storage[e][i]]) = e
        /\ dmm[e][i] # NULL => dmm[e][i] = storage[e][i]
        /\ \A j \in Slots : storage[e][i] # NULL /\ storage[e][i] = storage[e][j] => i = j
        BY DEF Rings
  <2> QED BY <2>1, <2>2, <2>3
<1>2. ASSUME \A d \in Dirs, i \in Slots :
                \/ storage'[d][i] = NULL /\ dmm'[d][i] = NULL
                \/ storage'[d][i] = storage[d][i] /\ dmm'[d][i] = dmm[d][i]
      PROVE  Rings'
      BY <1>2 DEF Rings
<1>3. CASE MsgBuffFree
  <2>1. ClearSlots(Freed) \/ UNCHANGED <<storage, dmm>>
        BY <1>3, BuffFree
  <2> QED BY <1>2, <2>1, Emptied
<1>4. CASE MsgStop \/ MsgStrmCtrl
  <2>1. ClearSlots(Acked)
        BY <1>4, Acks
  <2> QED BY <1>2, <2>1, Emptied
<1>5. CASE Destroyed
  <2>1. \A d \in Dirs, i \in Slots : storage'[d][i] = NULL /\ dmm'[d][i] = NULL
        BY <1>5 DEF Destroyed, Empty
  <2> QED BY <1>2, <2>1
<1>6. CASE UNCHANGED tables
      BY <1>2, <1>6 DEF tables
<1> QED BY <1>1, <1>3, <1>4, <1>5, <1>6, RingSteps

\* Emptying slots takes their buffers, and no others, out of the rings.
LEMMA ClearUse ==
    ASSUME Types, Rings, NEW S, ClearSlots(S), \A d \in Dirs : S[d] \subseteq Occupied(d)
    PROVE  InUse' = InUse \ HeldIn(S) /\ HeldIn(S) \subseteq InUse
<1>0. \A d \in Dirs, i \in Slots : storage[d][i] \in Buffers \union {NULL}
      BY DEF Types, RingType
<1>1. \A d \in Dirs : \A i \in S[d] : i \in Slots /\ storage[d][i] # NULL
      BY DEF Occupied
<1>2. HeldIn(S) \subseteq InUse
      BY <1>0, <1>1 DEF HeldIn, InUse
<1>3. ASSUME NEW b \in InUse' PROVE b \in InUse /\ b \notin HeldIn(S)
  <2>1. PICK d \in Dirs, i \in Slots : storage'[d][i] = b /\ b \in Buffers
        BY <1>3 DEF InUse
  <2>2. b # NULL
        BY <2>1, NullApart
  <2>3. i \notin S[d] /\ storage[d][i] = b
        BY <2>1, <2>2, Emptied
  <2>4. b \in InUse
        BY <2>1, <2>3 DEF InUse
  <2>5. ASSUME b \in HeldIn(S) PROVE FALSE
    <3>1. PICK e \in Dirs : \E j \in S[e] : storage[e][j] = b
          BY <2>5 DEF HeldIn
    <3>2. PICK j \in S[e] : storage[e][j] = b
          BY <3>1
    <3>3. e = d
          BY <1>1, <2>2, <2>3, <3>2 DEF Rings
    <3>4. j = i
          BY <1>1, <2>2, <2>3, <3>2, <3>3 DEF Rings
    <3> QED BY <2>3, <3>2, <3>3, <3>4
  <2> QED BY <2>4, <2>5
<1>4. ASSUME NEW b \in InUse, b \notin HeldIn(S) PROVE b \in InUse'
  <2>1. PICK d \in Dirs, i \in Slots : storage[d][i] = b
        BY <1>4 DEF InUse
  <2>2. i \notin S[d]
        BY <1>4, <2>1 DEF HeldIn
  <2>3. storage'[d][i] = b
        BY <2>1, <2>2, Emptied
  <2> QED BY <1>4, <2>3 DEF InUse
<1> QED BY <1>2, <1>3, <1>4

\* The steps that change what the callback is given.
LEMMA LendingStep ==
    ASSUME Types, RingsFit, Idle, Rings, Lending, Contiguous, [Next]_vars PROVE Lending'
<1> USE DEF Pending
<1>1. ASSUME NEW b \in Buffers, QueueBuffer(b) \/ QueueBufferFails(b) PROVE Lending'
  <2> DEFINE d == Dir(StreamOf[b])
             c == count[d]
  <2>1. /\ d \in Dirs /\ c \in Slots /\ caller.pc = "ready" /\ b \notin lent
        /\ \A e \in Dirs, i \in Slots :
             storage'[e][i] = IF e = d /\ i = c THEN b ELSE storage[e][i]
        /\ lent' = lent \union {b} /\ msg' = msg
        BY <1>1, Queueing
  <2>2. storage[d][c] = NULL
        BY <2>1, SlotFree
  <2> HIDE DEF d, c
  <2>3. InUse' = InUse \union {b}
        BY <2>1, <2>2, NullApart DEF InUse
  <2> QED BY <2>1, <2>3 DEF Lending
<1>2. CASE MsgBuffFree
  <2> DEFINE d == Dir(Head(fromDsp).stream)
             b == storage[d][FreedSlot]
  <2>1. CASE UNCHANGED storage /\ msg'.event = "internal"
        BY <1>2, <2>1, BuffFree DEF Lending, InUse
  <2>2. CASE ~ (UNCHANGED storage /\ msg'.event = "internal")
    <3>1. /\ ClearSlots(Freed) /\ d \in Dirs /\ FreedSlot \in Slots /\ b \in Buffers
          /\ msg'.pc = "call" /\ msg'.event = "processed" /\ msg'.arg = b
          BY <1>2, <2>2, BuffFree
    <3>a. msg.pc = "read" /\ lent' = lent
          BY <1>2, BuffFree
    <3>2. \A e \in Dirs : Freed[e] \subseteq Occupied(e)
          BY <3>1, NullApart DEF Freed, Occupied
    <3>3. HeldIn(Freed) = {b}
          BY <3>1 DEF HeldIn, Freed
    <3>4. InUse' = InUse \ {b} /\ b \in InUse
          BY <3>1, <3>2, <3>3, ClearUse
    <3> HIDE DEF b
    <3> QED BY <3>1, <3>a, <3>4 DEF Lending
  <2> QED BY <2>1, <2>2
<1>3. CASE MsgStop \/ MsgStrmCtrl
  <2>1. /\ ClearSlots(Acked) /\ lent' = lent \ HeldIn(Acked) /\ msg.pc = "read"
        /\ msg'.event # "processed"
        /\ \A d \in Dirs : Acked[d] \subseteq Occupied(d)
        BY <1>3, Acks
  <2>2. InUse' = InUse \ HeldIn(Acked)
        BY <2>1, ClearUse
  <2> QED BY <2>1, <2>2 DEF Lending
<1>4. CASE Destroyed
  <2>1. InUse' = {} /\ lent' = {} /\ msg' = msg /\ msg.pc = "exited"
        BY <1>4, NullApart DEF Destroyed, Empty, InUse
  <2> QED BY <2>1 DEF Lending
<1>5. ASSUME UNCHANGED <<lent, storage>>, Pending' = Pending PROVE Lending'
      BY <1>5 DEF Lending, InUse
<1>6. CASE MsgCallback
  <2>1. lent' = lent \ Pending /\ Pending' = {} /\ UNCHANGED storage
        BY <1>6 DEF MsgCallback, tables, Quiet, Types, MsgType
  <2>2. InUse' = InUse
        BY <2>1 DEF InUse
  <2> HIDE DEF Pending
  <2> QED BY <2>1, <2>2 DEF Lending
<1>7. CASE InitMMCodec
      BY <1>5, <1>7 DEF InitMMCodec, Idle, Quiet
<1>8. CASE UNCHANGED vars
      BY <1>5, <1>8 DEF vars, tables
<1>9. ASSUME NEW cmd, ControlState(cmd) PROVE Lending'
      BY <1>5, <1>9 DEF ControlState, tables
<1>10. ASSUME NEW k, ControlBlock(k) \/ ControlBlockFails(k) PROVE Lending'
      BY <1>5, <1>10 DEF ControlBlock, ControlBlockFails, tables
<1>11. ASSUME NEW s, ControlFlush(s) \/ DspReturn(s) PROVE Lending'
      BY <1>5, <1>11 DEF ControlFlush, DspReturn, tables
<1>12. CASE PutMessage \/ PutMessageFails \/ ControlBlockFull \/ ControlDestroy
      BY <1>5, <1>12 DEF PutMessage, PutMessageFails, ControlBlockFull, ControlDestroy, tables
<1>13. CASE MsgLeave \/ MsgWake \/ MsgFault \/ MsgEmpty \/ MsgAlgCtrl \/ MsgPause
  <2>1. UNCHANGED <<lent, storage>>
        BY <1>13 DEF MsgLeave, MsgWake, MsgFault, MsgEmpty, MsgAlgCtrl, MsgPause, tables
  <2>2. msg.pc \in {"wait", "read"}
        BY <1>13 DEF MsgLeave, MsgWake, MsgFault, MsgEmpty, MsgAlgCtrl, MsgPause
  <2>3. msg'.pc # "call" \/ msg'.event # "processed"
        BY <1>13 DEF MsgLeave, MsgWake, MsgFault, MsgEmpty, MsgAlgCtrl, MsgPause, Types, MsgType
  <2> QED BY <1>5, <2>1, <2>2, <2>3
<1>14. CASE DspTake \/ DspFlushFails \/ DspFault
      BY <1>5, <1>14 DEF DspTake, DspFlushFails, DspFault, tables
<1> QED BY <1>1, <1>2, <1>3, <1>4, <1>6, <1>7, <1>8, <1>9, <1>10, <1>11, <1>12, <1>13, <1>14
    DEF Next, Caller, MessagingThread, Dsp

\* Nothing happens before InitMMCodec, and Destroyed leaves nothing.
LEMMA IdleStep ==
    ASSUME Types, Idle, [Next]_vars PROVE Idle'
<1> SUFFICES ASSUME caller'.pc = "none"
             PROVE  /\ msg'.pc = "exited" /\ storage' = Empty /\ dmm' = Empty /\ control' = NoControl
                    /\ count' = [d \in Dirs |-> 0]
                    /\ toDsp' = << >> /\ fromDsp' = << >> /\ dspHeld' = NoneHeld
    BY DEF Idle
<1>1. CASE Destroyed
      BY <1>1 DEF Destroyed
<1>2. CASE caller.pc = "none" /\ ~ Destroyed
  <2>1. /\ msg.pc = "exited" /\ storage = Empty /\ dmm = Empty /\ control = NoControl
        /\ count = [d \in Dirs |-> 0]
        /\ toDsp = << >> /\ fromDsp = << >> /\ dspHeld = NoneHeld
        BY <1>2 DEF Idle
  <2>2. CASE UNCHANGED vars
        BY <2>1, <2>2 DEF vars, tables, bridge, dspVars
  <2>3. ~ Caller
        BY <1>2, LCMLAssumption DEF Caller, InitMMCodec, QueueBuffer, QueueBufferFails, PutMessage,
           PutMessageFails, ControlState, ControlBlock, ControlBlockFails, ControlBlockFull, ControlFlush,
           ControlDestroy, At
  <2>4. ~ MessagingThread
        BY <2>1 DEF MessagingThread, MsgLeave, MsgWake, MsgFault, MsgEmpty, MsgBuffFree, MsgStop,
           MsgAlgCtrl, MsgStrmCtrl, MsgPause, MsgCallback
  <2>5. ~ Dsp
    <3>1. \A s \in Streams : ~ DspReturn(s)
          BY <2>1, Directions DEF DspReturn, NoneHeld
    <3> QED BY <1>2, <2>1, <3>1 DEF Dsp, DspTake, DspFlushFails, DspFault
  <2> QED BY <2>2, <2>3, <2>4, <2>5 DEF Next
<1>3. CASE caller.pc # "none" /\ ~ Destroyed
  <2>1. caller \in CallerType /\ caller' # caller
        BY <1>3 DEF Types
  <2>2. CASE Caller
    <3>1. ~ InitMMCodec /\ ~ ControlBlockFull
          BY <1>3, <2>1 DEF InitMMCodec, ControlBlockFull
    <3>0. \A m : Failing(m).pc = "error"
          BY DEF Failing, At
    <3>2. \A b \in Buffers : ~ QueueBuffer(b) /\ ~ QueueBufferFails(b)
      <4>1. \A b \in Buffers : ~ QueueBuffer(b)
            BY DEF QueueBuffer, Putting
      <4>2. \A b \in Buffers : ~ QueueBufferFails(b)
            BY <3>0 DEF QueueBufferFails
      <4> QED BY <4>1, <4>2
    <3>3. ASSUME PutMessage PROVE FALSE
      <4>0. caller.pc = "put"
            BY <3>3 DEF PutMessage
      <4>1. caller.next \in {"ready", "flush", "stop"}
            BY <2>1, <4>0 DEF CallerType
      <4>2. caller' = At("ready") \/ caller' = [caller EXCEPT !.pc = caller.next, !.locked = FALSE]
            BY <3>3 DEF PutMessage
      <4>3. At("ready").pc = "ready"
            BY DEF At
      <4>4. [caller EXCEPT !.pc = caller.next, !.locked = FALSE].pc = caller.next
            BY <2>1 DEF CallerType
      <4> QED BY <4>1, <4>2, <4>3, <4>4
    <3>4. ~ PutMessageFails /\ ~ ControlDestroy
          BY <2>1 DEF PutMessageFails, ControlDestroy, CallerType
    <3>5. \A x : ~ ControlState(x) /\ ~ ControlFlush(x) /\ ~ ControlBlock(x)
          BY DEF ControlState, ControlBlock, ControlFlush, Putting
    <3>6. \A x : ~ ControlBlockFails(x)
          BY <3>0 DEF ControlBlockFails
    <3> QED BY <1>3, <2>2, <3>1, <3>2, <3>3, <3>4, <3>5, <3>6 DEF Caller
  <2>3. CASE MessagingThread
    <3>1. ~ MsgBuffFree
          BY <2>1, BuffFree
    <3>2. ~ MsgStop /\ ~ MsgStrmCtrl
          BY <2>1, Acks
    <3>3. ~ MsgCallback
          BY <2>1 DEF MsgCallback, At
    <3> QED BY <2>1, <2>3, <3>1, <3>2, <3>3
        DEF MessagingThread, MsgLeave, MsgWake, MsgFault, MsgEmpty, MsgAlgCtrl, MsgPause
  <2>4. CASE Dsp
        BY <2>1, <2>4 DEF Dsp, DspTake, DspReturn, DspFlushFails, DspFault
  <2>5. CASE UNCHANGED vars
        BY <2>1, <2>5 DEF vars
  <2> QED BY <2>2, <2>3, <2>4, <2>5 DEF Next
<1> QED BY <1>1, <1>2, <1>3

-----------------------------------------------------------------------------
(* The messages under way, and which is ahead of which.                    *)

Held   == UNION { Range(dspHeld[s]) : s \in 0..3 }
Flight == Range(fromDsp) \union Held \union Range(toDsp) \union Putter

\* Which message reaches the messaging thread's queue first, as the queues are.
AheadIn(q, m, n) == \E i, j \in DOMAIN q : i < j /\ q[i] = m /\ q[j] = n
Ahead(m, n) ==
    \/ AheadIn(fromDsp, m, n)
    \/ \E s \in 0..3 : AheadIn(dspHeld[s], m, n)
    \/ AheadIn(toDsp, m, n)
    \/ m \in Range(fromDsp) /\ n \in Held \union Range(toDsp) \union Putter
    \/ m \in Held /\ n \in Range(toDsp) \union Putter
    \/ m \in Range(toDsp) /\ n \in Putter

\* A message joins a queue.
LEMMA AppendMessage ==
    ASSUME NEW q \in Seq(Msg), NEW x \in Msg
    PROVE  /\ Range(Append(q, x)) = Range(q) \union {x}
           /\ \A m, n : AheadIn(Append(q, x), m, n) => AheadIn(q, m, n) \/ (m \in Range(q) /\ n = x)
<1> DEFINE L == Len(q)
           t == Append(q, x)
<1>1. /\ L \in Nat /\ DOMAIN q = 1..L
      /\ DOMAIN t = 1..(L + 1) /\ t[L + 1] = x /\ \A i \in 1..L : t[i] = q[i]
      OBVIOUS
<1>2. 1..(L + 1) = 1..L \cup {L + 1}
      BY <1>1
<1> HIDE DEF L, t
<1>3. Range(t) = Range(q) \union {x}
      BY <1>1, <1>2 DEF Range
<1>4. ASSUME NEW m, NEW n, AheadIn(t, m, n) PROVE AheadIn(q, m, n) \/ (m \in Range(q) /\ n = x)
  <2>1. PICK i \in 1..(L + 1), j \in 1..(L + 1) : i < j /\ t[i] = m /\ t[j] = n
        BY <1>1, <1>4 DEF AheadIn
  <2>2. i \in 1..L
        BY <1>1, <2>1
  <2>3. CASE j = L + 1
        BY <1>1, <2>1, <2>2, <2>3 DEF Range
  <2>4. CASE j \in 1..L
        BY <1>1, <2>1, <2>2, <2>4 DEF AheadIn
  <2> QED BY <1>2, <2>3, <2>4
<1> QED BY <1>3, <1>4 DEF t

\* The first message leaves a queue.
LEMMA TailMessage ==
    ASSUME NEW q \in Seq(Msg), q # << >>
    PROVE  /\ Range(q) = Range(Tail(q)) \union {Head(q)}
           /\ \A m, n : AheadIn(Tail(q), m, n) => AheadIn(q, m, n)
           /\ \A n \in Range(Tail(q)) : AheadIn(q, Head(q), n)
<1> DEFINE L == Len(q)
           t == Tail(q)
<1>1. /\ L \in Nat /\ L > 0 /\ DOMAIN q = 1..L
      /\ DOMAIN t = 1..(L - 1) /\ Head(q) = q[1] /\ \A i \in 1..(L - 1) : t[i] = q[i + 1]
      OBVIOUS
<1> HIDE DEF L, t
<1>2. /\ \A i \in 1..(L - 1) : i + 1 \in 1..L /\ 1 < i + 1
      /\ \A i \in 1..L : i = 1 \/ (i - 1 \in 1..(L - 1) /\ (i - 1) + 1 = i)
      /\ 1 \in 1..L
      BY <1>1
<1>3. Range(q) = Range(t) \union {Head(q)}
  <2>1. ASSUME NEW m \in Range(q), m # Head(q) PROVE m \in Range(t)
    <3>1. PICK i \in 1..L : q[i] = m
          BY <1>1 DEF Range
    <3>2. i - 1 \in 1..(L - 1) /\ t[i - 1] = m
          BY <1>1, <1>2, <2>1, <3>1
    <3> QED BY <1>1, <3>2 DEF Range
  <2>2. ASSUME NEW m \in Range(t) PROVE m \in Range(q)
        BY <1>1, <1>2 DEF Range
  <2>3. Head(q) \in Range(q)
        BY <1>1, <1>2 DEF Range
  <2> QED BY <2>1, <2>2, <2>3
<1>4. ASSUME NEW m, NEW n, AheadIn(t, m, n) PROVE AheadIn(q, m, n)
  <2>1. PICK i \in 1..(L - 1), j \in 1..(L - 1) : i < j /\ t[i] = m /\ t[j] = n
        BY <1>1, <1>4 DEF AheadIn
  <2>2. i + 1 \in 1..L /\ j + 1 \in 1..L /\ i + 1 < j + 1 /\ q[i + 1] = m /\ q[j + 1] = n
        BY <1>1, <1>2, <2>1
  <2> QED BY <1>1, <2>2 DEF AheadIn
<1>5. ASSUME NEW n \in Range(t) PROVE AheadIn(q, Head(q), n)
  <2>1. PICK i \in 1..(L - 1) : t[i] = n
        BY <1>1 DEF Range
  <2>2. i + 1 \in 1..L /\ 1 < i + 1 /\ q[i + 1] = n
        BY <1>1, <1>2, <2>1
  <2> QED BY <1>1, <1>2, <2>2 DEF AheadIn
<1> QED BY <1>3, <1>4, <1>5 DEF t

\* An empty queue.
LEMMA EmptyMessages ==
    /\ Range(<< >>) = {}
    /\ \A m, n : ~ AheadIn(<< >>, m, n)
BY DEF Range, AheadIn

\* The messages under way are messages.
LEMMA FlightTypes ==
    ASSUME Types
    PROVE  /\ Flight \subseteq Msg
           /\ Range(fromDsp) \subseteq Msg /\ Range(toDsp) \subseteq Msg /\ Putter \subseteq Msg
           /\ \A s \in 0..3 : Range(dspHeld[s]) \subseteq Msg /\ dspHeld[s] \in Seq(Msg)
           /\ fromDsp \in Seq(Msg) /\ toDsp \in Seq(Msg)
           /\ \A m, n : Ahead(m, n) => m \in Flight /\ n \in Flight
<1>1. fromDsp \in Seq(Msg) /\ toDsp \in Seq(Msg) /\ \A s \in 0..3 : dspHeld[s] \in Seq(Msg)
      BY DEF Types, FromType, ToType, HeldType
<1>2. \A q \in Seq(Msg) : Range(q) \subseteq Msg
      BY DEF Range
<1>3. Putter \subseteq Msg
      BY DEF Types, CallerType, Putter
<1>4. \A q, m, n : AheadIn(q, m, n) => m \in Range(q) /\ n \in Range(q)
      BY DEF Range, AheadIn
<1>5. Held \subseteq Msg
      BY <1>1, <1>2 DEF Held
<1>6. Flight \subseteq Msg
      BY <1>1, <1>2, <1>3, <1>5 DEF Flight
<1>7. ASSUME NEW m, NEW n, Ahead(m, n) PROVE m \in Flight /\ n \in Flight
  <2>1. \A s \in 0..3 : AheadIn(dspHeld[s], m, n) => m \in Held /\ n \in Held
        BY <1>4 DEF Held
  <2>2. AheadIn(fromDsp, m, n) => m \in Range(fromDsp) /\ n \in Range(fromDsp)
        BY <1>4
  <2>3. AheadIn(toDsp, m, n) => m \in Range(toDsp) /\ n \in Range(toDsp)
        BY <1>4
  <2> QED BY <1>7, <2>1, <2>2, <2>3 DEF Ahead, Flight
<1> QED BY <1>1, <1>2, <1>3, <1>6, <1>7

\* Nothing moves; a message that could not be put is dropped.
LEMMA MotionNone ==
    ASSUME UNCHANGED <<fromDsp, dspHeld, toDsp>>, Putter' \subseteq Putter
    PROVE  /\ Flight' \subseteq Flight /\ Held' = Held
           /\ Flight = Flight' \union (Putter \ Putter')
           /\ \A m, n : Ahead(m, n)' => Ahead(m, n)
<1>1. Held' = Held
      BY DEF Held
<1>2. Flight' \subseteq Flight /\ Flight = Flight' \union (Putter \ Putter')
      BY <1>1 DEF Flight
<1>3. ASSUME NEW m, NEW n, Ahead(m, n)' PROVE Ahead(m, n)
      BY <1>1, <1>3 DEF Ahead
<1> QED BY <1>1, <1>2, <1>3

\* The component is about to put a message.
LEMMA MotionNew ==
    ASSUME UNCHANGED <<fromDsp, dspHeld, toDsp>>, Putter = {}, NEW x, Putter' = {x}
    PROVE  /\ Flight' = Flight \union {x} /\ Held' = Held
           /\ \A m, n : Ahead(m, n)' => Ahead(m, n) \/ (m \in Flight /\ n = x)
<1>1. Held' = Held
      BY DEF Held
<1>2. Flight' = Flight \union {x}
      BY <1>1 DEF Flight
<1>3. ASSUME NEW m, NEW n, Ahead(m, n)' PROVE Ahead(m, n) \/ (m \in Flight /\ n = x)
      BY <1>1, <1>3 DEF Ahead, Flight
<1> QED BY <1>1, <1>2, <1>3

\* The message joins the queue towards the DSP.
LEMMA MotionPut ==
    ASSUME Types, UNCHANGED <<fromDsp, dspHeld>>, NEW x \in Msg, Putter = {x}, Putter' = {},
           toDsp' = Append(toDsp, x)
    PROVE  /\ Flight' = Flight /\ Held' = Held
           /\ \A m, n : Ahead(m, n)' => Ahead(m, n)
<1>1. Held' = Held
      BY DEF Held
<1>2. /\ Range(toDsp)' = Range(toDsp) \union {x}
      /\ \A m, n : AheadIn(toDsp, m, n)' => AheadIn(toDsp, m, n) \/ (m \in Range(toDsp) /\ n = x)
  <2>1. toDsp \in Seq(Msg)
        BY FlightTypes
  <2>2. /\ Range(Append(toDsp, x)) = Range(toDsp) \union {x}
        /\ \A m, n : AheadIn(Append(toDsp, x), m, n) => AheadIn(toDsp, m, n) \/ (m \in Range(toDsp) /\ n = x)
        BY <2>1, AppendMessage
  <2> QED BY <2>2
<1>3. Range(fromDsp)' = Range(fromDsp) /\ \A m, n : AheadIn(fromDsp, m, n)' = AheadIn(fromDsp, m, n)
      OBVIOUS
<1>4. Flight' = Flight
      BY <1>1, <1>2, <1>3 DEF Flight
<1>5. ASSUME NEW m, NEW n, Ahead(m, n)' PROVE Ahead(m, n)
  <2>1. \/ AheadIn(fromDsp, m, n)
        \/ \E s \in 0..3 : AheadIn(dspHeld[s], m, n)
        \/ AheadIn(toDsp, m, n)' 
        \/ m \in Range(fromDsp) /\ n \in Held \union Range(toDsp)'
        \/ m \in Held /\ n \in Range(toDsp)'
        BY <1>1, <1>3, <1>5 DEF Ahead
  <2> QED BY <1>2, <2>1 DEF Ahead
<1> QED BY <1>1, <1>4, <1>5

\* The messages of one stream that the DSP has.
LEMMA HeldChange ==
    ASSUME Types, NEW s \in 0..3, NEW q, dspHeld' = [dspHeld EXCEPT ![s] = q]
    PROVE  /\ dspHeld'[s] = q
           /\ \A r \in 0..3 : r # s => dspHeld'[r] = dspHeld[r]
           /\ Held' = Range(q) \union UNION { Range(dspHeld[r]) : r \in (0..3) \ {s} }
           /\ Held = Range(dspHeld[s]) \union UNION { Range(dspHeld[r]) : r \in (0..3) \ {s} }
<1>1. /\ dspHeld'[s] = q
      /\ \A r \in 0..3 : r # s => dspHeld'[r] = dspHeld[r]
      BY DEF Types, HeldType
<1>2. Held' = UNION { Range(dspHeld'[r]) : r \in 0..3 }
      BY DEF Held
<1>3. Held' = Range(dspHeld'[s]) \union UNION { Range(dspHeld'[r]) : r \in (0..3) \ {s} }
      BY <1>2
<1>4. UNION { Range(dspHeld'[r]) : r \in (0..3) \ {s} } = UNION { Range(dspHeld[r]) : r \in (0..3) \ {s} }
      BY <1>1
<1>5. Held = Range(dspHeld[s]) \union UNION { Range(dspHeld[r]) : r \in (0..3) \ {s} }
      BY DEF Held
<1> QED BY <1>1, <1>3, <1>4, <1>5

\* The DSP takes a buffer.
LEMMA MotionTake ==
    ASSUME Types, UNCHANGED fromDsp, Putter' = Putter, toDsp # << >>, toDsp' = Tail(toDsp),
           dspHeld' = [dspHeld EXCEPT ![Head(toDsp).stream] = Append(@, Head(toDsp))]
    PROVE  /\ Flight' = Flight
           /\ \A m, n : Ahead(m, n)' => Ahead(m, n)
<1> DEFINE x == Head(toDsp)
           s == x.stream
           q == dspHeld[s]
           p == Append(q, x)
<1>1. x \in Msg /\ s \in 0..3 /\ q \in Seq(Msg) /\ toDsp \in Seq(Msg)
      BY FlightTypes, Queues DEF Msg
<1>2. /\ Range(toDsp) = Range(toDsp') \union {x}
      /\ \A m, n : AheadIn(toDsp', m, n) => AheadIn(toDsp, m, n)
      /\ \A n \in Range(toDsp') : AheadIn(toDsp, x, n)
      BY <1>1, TailMessage
<1>3. /\ Range(p) = Range(q) \union {x}
      /\ \A m, n : AheadIn(p, m, n) => AheadIn(q, m, n) \/ (m \in Range(q) /\ n = x)
      BY <1>1, AppendMessage
<1>4. dspHeld' = [dspHeld EXCEPT ![s] = p]
      OBVIOUS
<1> DEFINE O == UNION { Range(dspHeld[r]) : r \in (0..3) \ {s} }
<1> HIDE DEF x, s, p, q
<1>5. /\ dspHeld'[s] = p
      /\ \A r \in 0..3 : r # s => dspHeld'[r] = dspHeld[r]
      /\ Held' = Range(p) \union O
      /\ Held = Range(q) \union O
      BY <1>1, <1>4, HeldChange DEF q
<1> HIDE DEF O
<1>6. Held' = Held \union {x}
      BY <1>3, <1>5
<1>7. Flight' = Flight
      BY <1>2, <1>6 DEF Flight
<1>8. ASSUME NEW m, NEW n, Ahead(m, n)' PROVE Ahead(m, n)
  <2>1. CASE AheadIn(fromDsp, m, n)
        BY <2>1 DEF Ahead
  <2>2. ASSUME NEW r \in 0..3, AheadIn(dspHeld'[r], m, n) PROVE Ahead(m, n)
    <3>1. CASE r # s
          BY <1>5, <2>2, <3>1 DEF Ahead
    <3>2. CASE r = s
          BY <1>1, <1>2, <1>3, <1>5, <2>2, <3>2 DEF Ahead, q
    <3> QED BY <3>1, <3>2
  <2>3. CASE AheadIn(toDsp', m, n)
        BY <1>2, <2>3 DEF Ahead
  <2>4. CASE m \in Range(fromDsp) /\ n \in Held' \union Range(toDsp') \union Putter
        BY <1>2, <1>6, <2>4 DEF Ahead
  <2>5. CASE m \in Held' /\ n \in Range(toDsp') \union Putter
        BY <1>2, <1>6, <2>5 DEF Ahead
  <2>6. CASE m \in Range(toDsp') /\ n \in Putter
        BY <1>2, <2>6 DEF Ahead
  <2> QED BY <1>8, <2>1, <2>2, <2>3, <2>4, <2>5, <2>6 DEF Ahead
<1> QED BY <1>7, <1>8

\* The DSP takes a command; t is its answer, if it gives one.
LEMMA MotionAnswer ==
    ASSUME Types, Putter' = Putter, toDsp # << >>, toDsp' = Tail(toDsp),
           \A s \in 0..3 : dspHeld'[s] \in {<< >>, dspHeld[s]},
           NEW t \in Msg, fromDsp' = Append(fromDsp, t)
    PROVE  /\ Flight' \subseteq Flight \union {t} /\ Held' \subseteq Held
           /\ Flight \subseteq Flight' \union {Head(toDsp)} \union (Held \ Held')
           /\ \A m, n : Ahead(m, n)' =>
                \/ Ahead(m, n)
                \/ n = t /\ Ahead(m, Head(toDsp))
                \/ m = t /\ (n \in Held' \/ Ahead(Head(toDsp), n))
<1> DEFINE x == Head(toDsp)
<1>1. x \in Msg /\ toDsp \in Seq(Msg) /\ fromDsp \in Seq(Msg)
      BY FlightTypes, Queues
<1>2. /\ Range(toDsp) = Range(toDsp') \union {x}
      /\ \A m, n : AheadIn(toDsp', m, n) => AheadIn(toDsp, m, n)
      /\ \A n \in Range(toDsp') : AheadIn(toDsp, x, n)
      BY <1>1, TailMessage
<1>3. /\ Range(fromDsp') = Range(fromDsp) \union {t}
      /\ \A m, n : AheadIn(fromDsp', m, n) => AheadIn(fromDsp, m, n) \/ (m \in Range(fromDsp) /\ n = t)
      BY <1>1, AppendMessage
<1>4. Held' \subseteq Held
      BY EmptyMessages DEF Held
<1> HIDE DEF x
<1>5. Flight' \subseteq Flight \union {t} /\ Flight \subseteq Flight' \union {x} \union (Held \ Held')
      BY <1>2, <1>3, <1>4 DEF Flight
<1>6. ASSUME NEW m, NEW n, Ahead(m, n)'
      PROVE  \/ Ahead(m, n)
             \/ n = t /\ Ahead(m, x)
             \/ m = t /\ (n \in Held' \/ Ahead(x, n))
  <2>1. CASE AheadIn(fromDsp', m, n)
        BY <1>2, <1>3, <2>1 DEF Ahead
  <2>2. ASSUME NEW r \in 0..3, AheadIn(dspHeld'[r], m, n) PROVE Ahead(m, n)
        BY <2>2, EmptyMessages DEF Ahead
  <2>3. CASE AheadIn(toDsp', m, n)
        BY <1>2, <2>3 DEF Ahead
  <2>4. CASE m \in Range(fromDsp') /\ n \in Held' \union Range(toDsp') \union Putter
    <3>1. CASE m = t
          BY <1>2, <2>4, <3>1 DEF Ahead
    <3>2. CASE m \in Range(fromDsp)
          BY <1>2, <1>4, <2>4, <3>2 DEF Ahead
    <3> QED BY <1>3, <2>4, <3>1, <3>2
  <2>5. CASE m \in Held' /\ n \in Range(toDsp') \union Putter
        BY <1>2, <1>4, <2>5 DEF Ahead
  <2>6. CASE m \in Range(toDsp') /\ n \in Putter
        BY <1>2, <2>6 DEF Ahead
  <2> QED BY <1>6, <2>1, <2>2, <2>3, <2>4, <2>5, <2>6 DEF Ahead
<1> QED BY <1>4, <1>5, <1>6 DEF x

\* The DSP takes a command that it does not answer.
LEMMA MotionPlay ==
    ASSUME Types, Putter' = Putter, toDsp # << >>, toDsp' = Tail(toDsp), UNCHANGED <<dspHeld, fromDsp>>
    PROVE  /\ Flight' \subseteq Flight
           /\ Flight \subseteq Flight' \union {Head(toDsp)}
           /\ \A m, n : Ahead(m, n)' => Ahead(m, n)
<1>1. toDsp \in Seq(Msg) /\ Held' = Held
      BY FlightTypes DEF Held
<1>2. /\ Range(toDsp) = Range(toDsp') \union {Head(toDsp)}
      /\ \A m, n : AheadIn(toDsp', m, n) => AheadIn(toDsp, m, n)
      BY <1>1, TailMessage
<1>3. Flight' \subseteq Flight /\ Flight \subseteq Flight' \union {Head(toDsp)}
      BY <1>1, <1>2 DEF Flight
<1>4. ASSUME NEW m, NEW n, Ahead(m, n)' PROVE Ahead(m, n)
      BY <1>1, <1>2, <1>4 DEF Ahead
<1> QED BY <1>3, <1>4

\* The DSP returns its oldest buffer of a stream; t is the answer.
LEMMA MotionReturn ==
    ASSUME Types, Putter' = Putter, UNCHANGED toDsp, NEW s \in 0..3, dspHeld[s] # << >>,
           dspHeld' = [dspHeld EXCEPT ![s] = Tail(@)],
           NEW t \in Msg, fromDsp' = Append(fromDsp, t)
    PROVE  /\ Flight' \subseteq Flight \union {t}
           /\ Flight \subseteq Flight' \union {Head(dspHeld[s])}
           /\ t \in Range(fromDsp)' /\ Head(dspHeld[s]) \in Range(dspHeld[s])
           /\ \A m, n : Ahead(m, n)' =>
                \/ Ahead(m, n)
                \/ n = t /\ Ahead(m, Head(dspHeld[s]))
                \/ m = t /\ Ahead(Head(dspHeld[s]), n)
                \/ m = t /\ \E r \in 0..3 : r # s /\ n \in Range(dspHeld[r])
<1> DEFINE q == dspHeld[s]
           x == Head(q)
           p == Tail(q)
           O == UNION { Range(dspHeld[r]) : r \in (0..3) \ {s} }
<1>1. q \in Seq(Msg) /\ x \in Msg /\ fromDsp \in Seq(Msg)
      BY FlightTypes, Queues
<1>2. /\ Range(q) = Range(p) \union {x}
      /\ \A m, n : AheadIn(p, m, n) => AheadIn(q, m, n)
      /\ \A n \in Range(p) : AheadIn(q, x, n)
      BY <1>1, TailMessage
<1>3. /\ Range(fromDsp') = Range(fromDsp) \union {t}
      /\ \A m, n : AheadIn(fromDsp', m, n) => AheadIn(fromDsp, m, n) \/ (m \in Range(fromDsp) /\ n = t)
      BY <1>1, AppendMessage
<1>4. dspHeld' = [dspHeld EXCEPT ![s] = p]
      OBVIOUS
<1> HIDE DEF p, x
<1>5. /\ dspHeld'[s] = p
      /\ \A r \in 0..3 : r # s => dspHeld'[r] = dspHeld[r]
      /\ Held' = Range(p) \union O
      /\ Held = Range(q) \union O
      BY <1>4, HeldChange
<1>6. \A n \in O : \E r \in 0..3 : r # s /\ n \in Range(dspHeld[r])
      OBVIOUS
<1> HIDE DEF O
<1>7. Flight' \subseteq Flight \union {t} /\ Flight \subseteq Flight' \union {x}
      BY <1>2, <1>3, <1>5 DEF Flight
<1>8. ASSUME NEW m, NEW n, Ahead(m, n)'
      PROVE  \/ Ahead(m, n)
             \/ n = t /\ Ahead(m, x)
             \/ m = t /\ Ahead(x, n)
             \/ m = t /\ \E r \in 0..3 : r # s /\ n \in Range(dspHeld[r])
  <2>1. CASE AheadIn(fromDsp', m, n)
        BY <1>2, <1>3, <1>5, <2>1 DEF Ahead
  <2>2. ASSUME NEW r \in 0..3, AheadIn(dspHeld'[r], m, n) PROVE Ahead(m, n)
        BY <1>2, <1>5, <2>2 DEF Ahead
  <2>3. CASE AheadIn(toDsp, m, n)
        BY <2>3 DEF Ahead
  <2>4. CASE m \in Range(fromDsp') /\ n \in Held' \union Range(toDsp) \union Putter
    <3>1. CASE m = t
      <4>1. CASE n \in O
            BY <1>6, <3>1, <4>1
      <4>2. CASE n \in Range(p)
            BY <1>2, <3>1, <4>2 DEF Ahead
      <4>3. CASE n \in Range(toDsp) \union Putter
            BY <1>2, <1>5, <3>1, <4>3 DEF Ahead
      <4> QED BY <1>5, <2>4, <4>1, <4>2, <4>3
    <3>2. CASE m \in Range(fromDsp)
          BY <1>2, <1>5, <2>4, <3>2 DEF Ahead
    <3> QED BY <1>3, <2>4, <3>1, <3>2
  <2>5. CASE m \in Held' /\ n \in Range(toDsp) \union Putter
        BY <1>2, <1>5, <2>5 DEF Ahead
  <2>6. CASE m \in Range(toDsp) /\ n \in Putter
        BY <2>6 DEF Ahead
  <2> QED BY <1>8, <2>1, <2>2, <2>3, <2>4, <2>5, <2>6 DEF Ahead
<1>9. t \in Range(fromDsp)' /\ x \in Range(q)
      BY <1>2, <1>3
<1> QED BY <1>7, <1>8, <1>9 DEF x

\* MessagingThread reads a message.
LEMMA MotionRead ==
    ASSUME Types, Putter' = Putter, UNCHANGED <<dspHeld, toDsp>>,
           fromDsp # << >>, fromDsp' = Tail(fromDsp)
    PROVE  /\ Flight = Flight' \union {Head(fromDsp)} /\ Head(fromDsp) \in Range(fromDsp)
           /\ \A m, n : Ahead(m, n)' => Ahead(m, n)
           /\ \A n \in Flight' : Ahead(Head(fromDsp), n)
           /\ Range(fromDsp) = Range(fromDsp)' \union {Head(fromDsp)}
<1> DEFINE x == Head(fromDsp)
<1>1. fromDsp \in Seq(Msg) /\ Held' = Held
      BY FlightTypes DEF Held
<1>2. /\ Range(fromDsp) = Range(fromDsp') \union {x}
      /\ \A m, n : AheadIn(fromDsp', m, n) => AheadIn(fromDsp, m, n)
      /\ \A n \in Range(fromDsp') : AheadIn(fromDsp, x, n)
      BY <1>1, TailMessage
<1> HIDE DEF x
<1>3. Flight = Flight' \union {x} /\ x \in Range(fromDsp)
      BY <1>1, <1>2 DEF Flight
<1>4. ASSUME NEW m, NEW n, Ahead(m, n)' PROVE Ahead(m, n)
      BY <1>1, <1>2, <1>4 DEF Ahead
<1>5. ASSUME NEW n \in Flight' PROVE Ahead(x, n)
      BY <1>1, <1>2, <1>5 DEF Ahead, Flight
<1> QED BY <1>2, <1>3, <1>4, <1>5 DEF x

-----------------------------------------------------------------------------
(* The steps, by what they do to the messages.                             *)

\* Steps that move no message, that fail, that compose one, and that read one.
QuietStep ==
    \/ InitMMCodec \/ PutMessageFails \/ ControlBlockFull \/ ControlDestroy
    \/ MsgLeave \/ MsgWake \/ MsgFault \/ MsgEmpty \/ MsgCallback
    \/ DspFault \/ UNCHANGED vars
FailStep ==
    \/ \E b \in Buffers : QueueBufferFails(b)
    \/ \E k \in Tables : ControlBlockFails(k)
NewStep ==
    \/ \E b \in Buffers : QueueBuffer(b)
    \/ \E cmd \in {"PLAY", "PAUSE", "STOP"} : ControlState(cmd)
    \/ \E k \in Tables : ControlBlock(k)
    \/ \E s \in Streams : ControlFlush(s)
ReadStep == MsgBuffFree \/ MsgStop \/ MsgAlgCtrl \/ MsgStrmCtrl \/ MsgPause

\* Every step is of one of these kinds.
LEMMA StepKinds ==
    ASSUME [Next]_vars
    PROVE  \/ QuietStep \/ FailStep \/ NewStep \/ ReadStep \/ PutMessage \/ DspTake
           \/ (\E s \in Streams : DspReturn(s)) \/ DspFlushFails \/ Destroyed
BY DEF Next, Caller, MessagingThread, Dsp, QuietStep, FailStep, NewStep, ReadStep

queues == <<fromDsp, dspHeld, toDsp>>

\* A quiet step leaves the queues and the tables, and at most drops the message
\* that could not be put.
LEMMA QuietFacts ==
    ASSUME Types, Idle, QuietStep
    PROVE  /\ UNCHANGED <<queues, tables, control, codec, flush_pending>>
           /\ Putter' \subseteq Putter
           /\ Putter' = Putter \/ (PutMessageFails /\ caller'.pc = "error")
<1>0. caller \in CallerType
      BY DEF Types
<1>1. CASE InitMMCodec
      BY <1>1 DEF InitMMCodec, Idle, Putter, At, queues, tables, dspVars
<1>2. CASE PutMessageFails
      BY <1>0, <1>2 DEF PutMessageFails, Putter, queues, tables, dspVars, bridge, CallerType
<1>3. CASE ControlDestroy
      BY <1>0, <1>3 DEF ControlDestroy, Putter, queues, tables, dspVars, bridge, CallerType
<1>4. CASE MsgCallback
      BY <1>4 DEF MsgCallback, Putter, queues, tables, dspVars, bridge, At
<1>5. CASE ControlBlockFull \/ MsgLeave \/ MsgEmpty
      BY <1>5 DEF ControlBlockFull, MsgLeave, MsgEmpty, Putter, queues, tables, dspVars, bridge
<1>6. CASE MsgWake \/ MsgFault \/ DspFault
      BY <1>6 DEF MsgWake, MsgFault, DspFault, Putter, queues, tables, bridge
<1>7. CASE UNCHANGED vars
      BY <1>7 DEF vars, Putter, queues, tables, dspVars, bridge
<1> QED BY <1>1, <1>2, <1>3, <1>4, <1>5, <1>6, <1>7 DEF QuietStep

\* A call that fails puts nothing and the component is in error.
LEMMA FailFacts ==
    ASSUME Types, FailStep
    PROVE  /\ UNCHANGED <<queues, codec, flush_pending, msg>>
           /\ control["strm"] \subseteq control'["strm"]
           /\ Putter' = {} /\ Putter = {} /\ caller.pc = "ready"
           /\ caller'.pc = "error" /\ caller'.next = "error"
           /\ (\E b \in Buffers : QueueBufferFails(b)) \/ UNCHANGED <<tables, lent>>
<1> USE DEF queues, dspVars, Putter, Failing, At
<1>1. CASE \E b \in Buffers : QueueBufferFails(b)
      BY <1>1 DEF QueueBufferFails
<1>2. ASSUME NEW k \in Tables, ControlBlockFails(k)
      PROVE  /\ UNCHANGED <<queues, codec, flush_pending, msg, tables, lent>>
             /\ control["strm"] \subseteq control'["strm"]
             /\ Putter' = {} /\ Putter = {} /\ caller.pc = "ready"
             /\ caller'.pc = "error" /\ caller'.next = "error"
  <2>1. control["strm"] \subseteq control'["strm"]
        BY <1>2 DEF ControlBlockFails, Types, TableType
  <2> QED BY <1>2, <2>1 DEF ControlBlockFails
<1> QED BY <1>1, <1>2 DEF FailStep

\* A call that composes a message adds nothing to the queues yet.
LEMMA NewFacts ==
    ASSUME Types, NewStep
    PROVE  /\ UNCHANGED <<queues, codec, msg>>
           /\ Putter = {} /\ Putter' = {caller'.put} /\ caller.pc = "ready" /\ caller'.pc = "put"
<1> USE DEF Putting, Putter, queues, dspVars
<1>1. ASSUME NEW b, QueueBuffer(b)
      PROVE  /\ UNCHANGED <<queues, codec, msg>>
             /\ Putter = {} /\ Putter' = {caller'.put} /\ caller.pc = "ready" /\ caller'.pc = "put"
      BY <1>1 DEF QueueBuffer
<1>2. ASSUME NEW k, ControlState(k)
      PROVE  /\ UNCHANGED <<queues, codec, msg>>
             /\ Putter = {} /\ Putter' = {caller'.put} /\ caller.pc = "ready" /\ caller'.pc = "put"
      BY <1>2 DEF ControlState
<1>3. ASSUME NEW k, ControlBlock(k)
      PROVE  /\ UNCHANGED <<queues, codec, msg>>
             /\ Putter = {} /\ Putter' = {caller'.put} /\ caller.pc = "ready" /\ caller'.pc = "put"
      BY <1>3 DEF ControlBlock
<1>4. ASSUME NEW k, ControlFlush(k)
      PROVE  /\ UNCHANGED <<queues, codec, msg>>
             /\ Putter = {} /\ Putter' = {caller'.put} /\ caller.pc = "ready" /\ caller'.pc = "put"
      BY <1>4 DEF ControlFlush
<1> QED BY <1>1, <1>2, <1>3, <1>4 DEF NewStep

\* Putting a message appends it to the DSP's queue.
LEMMA PutFacts ==
    ASSUME Types, PutMessage
    PROVE  /\ UNCHANGED <<fromDsp, dspHeld, tables, control, codec, flush_pending, msg, lent>>
           /\ caller.put \in Msg /\ Putter = {caller.put} /\ Putter' = {}
           /\ toDsp' = Append(toDsp, caller.put)
           /\ caller.pc = "put" /\ caller.next \in {"ready", "flush", "stop"}
           /\ caller'.pc = caller.next
           /\ IF caller.next = "ready" THEN caller' = At("ready")
              ELSE caller'.next = caller.next /\ caller'.put = caller.put
<1>1. caller \in CallerType /\ caller.put \in Msg /\ caller.pc = "put"
      /\ caller.next \in {"ready", "flush", "stop"}
      BY DEF Types, PutMessage, CallerType
<1>2. caller' = IF caller.next = "ready" THEN At("ready")
                ELSE [caller EXCEPT !.pc = caller.next, !.locked = FALSE]
      BY DEF PutMessage
<1>3. CASE caller.next = "ready"
      BY <1>1, <1>2, <1>3 DEF PutMessage, Putter, At, bridge
<1>4. CASE caller.next # "ready"
  <2>1. caller'.pc = caller.next /\ caller'.next = caller.next /\ caller'.put = caller.put
        BY <1>1, <1>2, <1>4 DEF CallerType
  <2>2. Putter = {caller.put} /\ Putter' = {}
        BY <1>1, <2>1 DEF Putter
  <2> QED BY <1>1, <1>4, <2>1, <2>2 DEF PutMessage, bridge
<1> QED BY <1>3, <1>4

\* The DSP takes the first message of its queue.
LEMMA TakeFacts ==
    ASSUME Types, DspTake
    PROVE  /\ UNCHANGED <<tables, control, codec, flush_pending, msg, lent, caller>>
           /\ Putter' = Putter /\ toDsp # << >> /\ toDsp' = Tail(toDsp)
           /\ Head(toDsp) \in Msg /\ Head(toDsp) \in Range(toDsp) /\ Head(toDsp).stream \in 0..3
<1>1. /\ UNCHANGED <<tables, control, codec, flush_pending, msg, lent, caller>>
      /\ Putter' = Putter /\ toDsp # << >> /\ toDsp' = Tail(toDsp)
      BY DEF DspTake, bridge, Putter
<1>2. toDsp \in Seq(Msg)
      BY FlightTypes
<1>3. Head(toDsp) \in Msg
      BY <1>1, <1>2, Queues
<1>4. Head(toDsp) \in Range(toDsp)
      BY <1>1, <1>2, TailMessage
<1>5. Head(toDsp).stream \in 0..3
      BY <1>3 DEF Msg
<1> QED BY <1>1, <1>3, <1>4, <1>5

\* The DSP returns the first buffer that it holds for a stream.
LEMMA ReturnFacts ==
    ASSUME Types, NEW s \in Streams, DspReturn(s)
    PROVE  /\ UNCHANGED <<toDsp, tables, control, codec, flush_pending, msg, lent, caller>>
           /\ Putter' = Putter /\ s \in 0..3 /\ dspHeld[s] # << >>
           /\ dspHeld' = [dspHeld EXCEPT ![s] = Tail(@)]
           /\ Head(dspHeld[s]) \in Msg
           /\ Head(dspHeld[s]) \in Range(dspHeld[s]) /\ Head(dspHeld[s]) \in Flight
           /\ Returns(Head(dspHeld[s])) \in Msg
           /\ fromDsp' = Append(fromDsp, Returns(Head(dspHeld[s])))
<1>1. /\ UNCHANGED <<toDsp, tables, control, codec, flush_pending, msg, lent, caller>>
      /\ Putter' = Putter /\ dspHeld[s] # << >>
      /\ dspHeld' = [dspHeld EXCEPT ![s] = Tail(@)]
      /\ fromDsp' = Append(fromDsp, Returns(Head(dspHeld[s])))
      BY DEF DspReturn, bridge, Putter, Send
<1>2. s \in 0..3 /\ dspHeld[s] \in Seq(Msg)
      BY Directions, FlightTypes
<1>3. Head(dspHeld[s]) \in Msg /\ Returns(Head(dspHeld[s])) \in Msg
      BY <1>1, <1>2, Queues, Messages
<1>4. Head(dspHeld[s]) \in Range(dspHeld[s])
      BY <1>1, <1>2, TailMessage
<1>5. Head(dspHeld[s]) \in Flight
      BY <1>2, <1>4 DEF Flight, Held
<1> QED BY <1>1, <1>2, <1>3, <1>4, <1>5

\* The DSP answers a flush with an error and keeps what it holds.
Refusal == Message("STRMERR", Head(toDsp).stream, NULL)
LEMMA RefuseFacts ==
    ASSUME Types, DspFlushFails
    PROVE  /\ UNCHANGED <<tables, bridge, codec, flush_pending, msg, lent, caller, dspHeld>>
           /\ Putter' = Putter /\ Refusal \in Msg /\ Held' = Held
           /\ Flight' \subseteq Flight \union {Refusal}
           /\ \A m \in Flight : m \in Flight' \/ m.cmd = "FLUSH"
           /\ Range(toDsp)' \subseteq Range(toDsp)
           /\ Range(fromDsp)' = Range(fromDsp) \union {Refusal}
           /\ \A m, n : Ahead(m, n)' => Ahead(m, n) \/ n = Refusal \/ m = Refusal
<1>1. /\ UNCHANGED <<tables, bridge, codec, flush_pending, msg, lent, caller, dspHeld>>
      /\ toDsp # << >> /\ toDsp' = Tail(toDsp) /\ fromDsp' = Append(fromDsp, Refusal)
      /\ Head(toDsp).cmd = "FLUSH"
      BY DEF DspFlushFails, Send, Refusal
<1>2. toDsp \in Seq(Msg) /\ fromDsp \in Seq(Msg)
      BY FlightTypes
<1>3. Head(toDsp).stream \in 0..3
      BY <1>1, <1>2, Queues DEF Msg
<1>4. Refusal \in Msg /\ Putter' = Putter /\ Held' = Held
      BY <1>1, <1>3, Messages DEF Putter, Held, Refusal
<1> HIDE DEF Refusal
<1>5. Range(toDsp)' \subseteq Range(toDsp)
      BY <1>1, <1>2, TailMessage
<1>6. Range(fromDsp)' = Range(fromDsp) \union {Refusal}
      BY <1>1, <1>2, <1>4, AppendMessage
<1>7. /\ Flight' \subseteq Flight \union {Refusal}
      /\ Flight \subseteq Flight' \union {Head(toDsp)} \union (Held \ Held')
      /\ \A m, n : Ahead(m, n)' => Ahead(m, n) \/ n = Refusal \/ m = Refusal
      BY <1>1, <1>4, MotionAnswer
<1> QED BY <1>1, <1>4, <1>5, <1>6, <1>7

\* The messaging thread reads the first message and has a callback to make.
LEMMA ReadFacts ==
    ASSUME Types, ReadStep
    PROVE  /\ UNCHANGED <<dspHeld, toDsp, codec, caller, count>>
           /\ Putter' = Putter /\ fromDsp # << >> /\ fromDsp' = Tail(fromDsp)
           /\ msg.pc = "read" /\ msg'.pc = "call"
           /\ Head(fromDsp) \in Msg /\ Head(fromDsp) \in Range(fromDsp) /\ Head(fromDsp) \in Flight
<1>1. /\ UNCHANGED <<dspHeld, toDsp, codec, caller, count>>
      /\ fromDsp # << >> /\ fromDsp' = Tail(fromDsp)
      /\ msg.pc = "read" /\ msg'.pc = "call"
  <2>1. CASE MsgBuffFree
        BY <2>1, BuffFree
  <2>2. CASE MsgStop \/ MsgStrmCtrl
        BY <2>2, Acks
  <2>3. CASE MsgAlgCtrl \/ MsgPause
        BY <2>3 DEF MsgAlgCtrl, MsgPause, tables
  <2> QED BY <2>1, <2>2, <2>3 DEF ReadStep
<1>2. fromDsp \in Seq(Msg) /\ Putter' = Putter
      BY <1>1, FlightTypes DEF Putter
<1>3. Head(fromDsp) \in Msg
      BY <1>1, <1>2, Queues
<1>4. Head(fromDsp) \in Range(fromDsp)
      BY <1>1, <1>2, TailMessage
<1> QED BY <1>1, <1>2, <1>3, <1>4 DEF Flight

\* After ControlDestroy nothing is under way and the rings are empty.
LEMMA DestroyedFacts ==
    ASSUME Destroyed
    PROVE  /\ Flight' = {} /\ Held' = {} /\ Putter' = {} /\ \A m, n : ~ Ahead(m, n)'
           /\ Range(fromDsp)' = {} /\ Range(toDsp)' = {}
           /\ \A s \in 0..3 : Range(dspHeld[s])' = {}
           /\ caller' = At("none") /\ caller'.pc = "none" /\ caller'.next = NULL
           /\ msg' = msg /\ msg.pc = "exited" /\ lent' = {}
           /\ flush_pending' = [s \in 0..3 |-> FALSE]
           /\ \A d \in Dirs, i \in Slots : storage'[d][i] = NULL /\ dmm'[d][i] = NULL
<1>1. /\ fromDsp' = << >> /\ toDsp' = << >> /\ dspHeld' = NoneHeld /\ caller' = At("none")
      /\ msg' = msg /\ msg.pc = "exited" /\ lent' = {}
      /\ storage' = Empty /\ dmm' = Empty /\ flush_pending' = [s \in 0..3 |-> FALSE]
      BY DEF Destroyed
<1>2. caller'.pc = "none" /\ caller'.next = NULL /\ Putter' = {}
      BY <1>1 DEF At, Putter
<1>3. \A s \in 0..3 : dspHeld'[s] = << >>
      BY <1>1 DEF NoneHeld
<1>4. /\ Range(fromDsp)' = {} /\ Range(toDsp)' = {}
      /\ \A s \in 0..3 : Range(dspHeld[s])' = {}
      BY <1>1, <1>3, EmptyMessages
<1>5. Held' = {}
      BY <1>4 DEF Held
<1>6. Flight' = {}
      BY <1>2, <1>4, <1>5 DEF Flight
<1>7. \A m, n : ~ Ahead(m, n)'
      BY <1>1, <1>2, <1>3, <1>4, <1>5, EmptyMessages DEF Ahead
<1>8. \A d \in Dirs, i \in Slots : storage'[d][i] = NULL /\ dmm'[d][i] = NULL
      BY <1>1 DEF Empty
<1> QED BY <1>1, <1>2, <1>4, <1>5, <1>6, <1>7, <1>8

-----------------------------------------------------------------------------
(* What the messages look like.                                            *)

\* A request that the component waits for, or the acknowledgement of one.
IsToken(m) == m.cmd \in {"FLUSH", "STOP"} \/ (m.cmd = "STRMCTRL" /\ m.addr = NULL)

\* A stream control with a block of parameters, or its acknowledgement.
IsBlock(m) == m.cmd = "STRMCTRL" /\ m.addr # NULL

Shape(m) ==
    /\ IsData(m) => m.addr \in Buffers /\ m.stream = StreamOf[m.addr]
    /\ m.cmd = "FLUSH" => m.addr = NULL
    /\ IsToken(m) /\ m.cmd # "STOP" => m.stream \in Streams
    /\ IsBlock(m) => m.stream = Out /\ m.addr \in Slots
    /\ m.cmd = "STRMERR" => m.addr = NULL

Forms ==
    /\ \A s \in 0..3 : \A m \in Range(dspHeld[s]) : m.cmd = "SETBUFF" /\ m.stream = s
    /\ \A m \in Range(toDsp) \union Putter : m.cmd # "BUFF_FREE" /\ ~ (m.cmd = "STRMCTRL" /\ m.addr = NULL)
    /\ \A m \in Range(fromDsp) : m.cmd \notin {"FLUSH", "SETBUFF"}
    /\ \A m \in Flight : Shape(m)

\* An error is the answer to no request and to no stream control.
LEMMA RefusalMessage ==
    /\ ~ IsData(Refusal) /\ ~ IsToken(Refusal) /\ ~ IsBlock(Refusal) /\ Shape(Refusal)
    /\ Refusal.cmd = "STRMERR"
BY DEF Refusal, Message, IsData, IsToken, IsBlock, Shape

\* The messages that the component may put.
LEMMA NewMessage ==
    ASSUME Types, NewStep
    PROVE  LET x == caller'.put
           IN  /\ x \in Msg /\ Shape(x) /\ x.cmd # "BUFF_FREE" /\ ~ (x.cmd = "STRMCTRL" /\ x.addr = NULL)
               /\ IsToken(x) <=> caller'.next # "ready"
               /\ caller'.next \in {"ready", "flush", "stop"}
               /\ x.cmd = "STOP" <=> caller'.next = "stop"
               /\ \/ \E b \in Buffers : QueueBuffer(b) /\ IsData(x) /\ x.addr = b /\ x.stream = StreamOf[b]
                  \/ ~ IsData(x) /\ UNCHANGED <<tables, lent>>
               /\ \/ IsBlock(x) /\ ControlBlock("strm") /\ x.addr = Min(FreeControl("strm"))
                  \/ ~ IsBlock(x)
               /\ control' = control \/ ControlBlock("alg") \/ ControlBlock("strm")
               /\ \/ \E s \in Streams : ControlFlush(s) /\ x.cmd = "FLUSH" /\ x.stream = s
                  \/ x.cmd # "FLUSH" /\ UNCHANGED flush_pending
<1> DEFINE x == caller'.put
           Goal ==
               /\ x \in Msg /\ Shape(x) /\ x.cmd # "BUFF_FREE" /\ ~ (x.cmd = "STRMCTRL" /\ x.addr = NULL)
               /\ IsToken(x) <=> caller'.next # "ready"
               /\ caller'.next \in {"ready", "flush", "stop"}
               /\ x.cmd = "STOP" <=> caller'.next = "stop"
               /\ \/ \E b \in Buffers : QueueBuffer(b) /\ IsData(x) /\ x.addr = b /\ x.stream = StreamOf[b]
                  \/ ~ IsData(x) /\ UNCHANGED <<tables, lent>>
               /\ \/ IsBlock(x) /\ ControlBlock("strm") /\ x.addr = Min(FreeControl("strm"))
                  \/ ~ IsBlock(x)
               /\ control' = control \/ ControlBlock("alg") \/ ControlBlock("strm")
               /\ \/ \E s \in Streams : ControlFlush(s) /\ x.cmd = "FLUSH" /\ x.stream = s
                  \/ x.cmd # "FLUSH" /\ UNCHANGED flush_pending
<1> SUFFICES Goal
    OBVIOUS
<1>1. ASSUME NEW b \in Buffers, QueueBuffer(b) PROVE Goal
  <2>1. /\ x = Message("SETBUFF", StreamOf[b], b) /\ caller'.next = "ready"
        /\ UNCHANGED <<control, flush_pending>>
        BY <1>1 DEF QueueBuffer, Putting
  <2>2. x \in Msg
        BY <2>1, Messages
  <2>3. /\ IsData(x) /\ x.addr = b /\ x.stream = StreamOf[b] /\ ~ IsToken(x) /\ ~ IsBlock(x)
        /\ x.cmd = "SETBUFF"
        BY <2>1 DEF Message, IsData, IsToken, IsBlock
  <2>4. Shape(x)
        BY <2>3 DEF Shape
  <2> HIDE DEF x
  <2>5. x.cmd # "STOP" /\ x.cmd # "FLUSH" /\ x.cmd # "BUFF_FREE" /\ x.cmd # "STRMCTRL"
        BY <2>3
  <2> QED BY <1>1, <2>1, <2>2, <2>3, <2>4, <2>5
<1>2. ASSUME NEW cmd \in {"PLAY", "PAUSE", "STOP"}, ControlState(cmd) PROVE Goal
  <2>1. /\ x = Message(cmd, 0, NULL) /\ caller'.next = IF cmd = "STOP" THEN "stop" ELSE "ready"
        /\ UNCHANGED <<control, flush_pending, tables, lent>>
        BY <1>2 DEF ControlState, Putting, bridge
  <2>2. x \in Msg
        BY <2>1, Messages
  <2>3. ~ IsData(x) /\ (IsToken(x) <=> cmd = "STOP") /\ ~ IsBlock(x) /\ x.cmd = cmd
        BY <2>1 DEF Message, IsData, IsToken, IsBlock
  <2>4. Shape(x)
        BY <2>3 DEF Shape
  <2> HIDE DEF x
  <2>5. x.cmd # "FLUSH" /\ x.cmd # "BUFF_FREE" /\ x.cmd # "STRMCTRL"
        BY <2>3
  <2> QED BY <2>1, <2>2, <2>3, <2>4, <2>5
<1>3. ASSUME NEW k \in Tables, ControlBlock(k) PROVE Goal
  <2> DEFINE i == Min(FreeControl(k))
  <2>1. i \in Slots
        BY <1>3, FreeEntry DEF ControlBlock, FreeControl
  <2>2. /\ x = IF k = "alg" THEN Message("ALGCTRL", 0, i) ELSE Message("STRMCTRL", Out, i)
        /\ caller'.next = "ready"
        /\ UNCHANGED <<tables, lent, flush_pending>>
        BY <1>3 DEF ControlBlock, Putting, BlockMessage
  <2>3. x \in Msg
        BY <2>1, <2>2, Messages DEF BlockMessage
  <2> HIDE DEF i
  <2>5. ~ IsData(x) /\ x.cmd # "FLUSH" /\ x.cmd # "STOP" /\ ~ IsToken(x) /\ x.cmd # "BUFF_FREE"
        BY <2>1, <2>2, NullApart DEF Message, IsData, IsToken
  <2>4. Shape(x)
        BY <2>1, <2>2, <2>5, NullApart DEF Shape, Message, IsBlock
  <2>8. ~ (x.cmd = "STRMCTRL" /\ x.addr = NULL)
        BY <2>5 DEF IsToken
  <2>6. CASE k = "alg"
    <3>1. ~ IsBlock(x)
          BY <2>2, <2>6 DEF Message, IsBlock
    <3> HIDE DEF x
    <3> QED BY <1>3, <2>2, <2>3, <2>4, <2>5, <2>6, <2>8, <3>1
  <2>7. CASE k = "strm"
    <3>1. IsBlock(x) /\ x.addr = Min(FreeControl("strm"))
          BY <2>1, <2>2, <2>7, NullApart DEF Message, IsBlock, i
    <3> HIDE DEF x
    <3> QED BY <1>3, <2>2, <2>3, <2>4, <2>5, <2>7, <2>8, <3>1
  <2> QED BY <2>6, <2>7 DEF Tables
<1>4. ASSUME NEW s \in Streams, ControlFlush(s) PROVE Goal
  <2>1. /\ x = Message("FLUSH", s, NULL) /\ caller'.next = "flush"
        /\ UNCHANGED <<control, tables, lent>>
        BY <1>4 DEF ControlFlush, Putting, bridge
  <2>2. x \in Msg
        BY <2>1, Messages, Directions
  <2>3. ~ IsData(x) /\ IsToken(x) /\ ~ IsBlock(x) /\ x.cmd = "FLUSH" /\ x.addr = NULL /\ x.stream = s
        BY <2>1 DEF Message, IsData, IsToken, IsBlock
  <2>4. Shape(x)
        BY <2>3 DEF Shape
  <2> HIDE DEF x
  <2>5. x.cmd # "STOP" /\ x.cmd # "BUFF_FREE" /\ x.cmd # "STRMCTRL"
        BY <2>3
  <2> QED BY <1>4, <2>1, <2>2, <2>3, <2>4, <2>5
<1> HIDE DEF Goal
<1> QED BY <1>1, <1>2, <1>3, <1>4 DEF NewStep

\* The commands that the DSP answers, and their answers.
Answered(x, t) ==
    \/ x.cmd = "FLUSH" /\ t = Message("STRMCTRL", x.stream, NULL)
    \/ x.cmd = "STOP" /\ t = x
    \/ x.cmd \in {"PAUSE", "ALGCTRL", "STRMCTRL"} /\ t = x

\* What the DSP does with the message it takes: keeps, ignores or answers it.
LEMMA TakeKinds ==
    ASSUME Types, DspTake
    PROVE  LET x == Head(toDsp)
           IN  \/ /\ x.cmd = "SETBUFF" /\ UNCHANGED fromDsp
                  /\ dspHeld' = [dspHeld EXCEPT ![x.stream] = Append(@, x)]
               \/ x.cmd = "PLAY" /\ UNCHANGED <<dspHeld, fromDsp>>
               \/ \E t \in Msg :
                    /\ Answered(x, t) /\ fromDsp' = Append(fromDsp, t)
                    /\ \A s \in 0..3 : dspHeld'[s] \in {<< >>, dspHeld[s]}
                    /\ x.cmd = "FLUSH" => dspHeld'[x.stream] = << >>
                                          /\ \A s \in 0..3 : s # x.stream => dspHeld'[s] = dspHeld[s]
                    /\ x.cmd = "STOP" => /\ dspHeld' = NoneHeld
                                         /\ codec.dasf => dspHeld = NoneHeld
                    /\ x.cmd \notin {"FLUSH", "STOP"} => UNCHANGED dspHeld
<1> DEFINE x == Head(toDsp)
<1>1. x \in Msg /\ x.stream \in 0..3 /\ dspHeld \in [0..3 -> Seq(Msg)]
      BY TakeFacts DEF Types, HeldType
<1>2. CASE x.cmd = "SETBUFF"
      BY <1>2 DEF DspTake
<1>3. CASE x.cmd = "PLAY"
      BY <1>3 DEF DspTake
<1>4. CASE x.cmd = "FLUSH"
  <2> DEFINE t == Message("STRMCTRL", x.stream, NULL)
  <2>1. dspHeld' = [dspHeld EXCEPT ![x.stream] = << >>] /\ fromDsp' = Append(fromDsp, t)
        BY <1>4 DEF DspTake, Send
  <2>2. t \in Msg
        BY <1>1, Messages
  <2>3. Answered(x, t)
        BY <1>4 DEF Answered
  <2> HIDE DEF t, x
  <2>4. dspHeld'[x.stream] = << >> /\ \A s \in 0..3 : s # x.stream => dspHeld'[s] = dspHeld[s]
        BY <1>1, <2>1
  <2> QED BY <1>4, <2>1, <2>2, <2>3, <2>4 DEF x
<1>5. CASE x.cmd = "STOP"
  <2>1. dspHeld' = NoneHeld /\ fromDsp' = Append(fromDsp, x) /\ (codec.dasf => dspHeld = NoneHeld)
        BY <1>5 DEF DspTake, Send
  <2>2. Answered(x, x)
        BY <1>5 DEF Answered
  <2> HIDE DEF x
  <2> QED BY <1>1, <1>5, <2>1, <2>2 DEF NoneHeld, x
<1>6. CASE x.cmd \in {"PAUSE", "ALGCTRL", "STRMCTRL"}
  <2>1. dspHeld' = dspHeld /\ fromDsp' = Append(fromDsp, x)
        BY <1>6 DEF DspTake, Send
  <2>2. Answered(x, x)
        BY <1>6 DEF Answered
  <2> HIDE DEF x
  <2> QED BY <1>1, <1>6, <2>1, <2>2 DEF x
<1>7. CASE x.cmd \in {"BUFF_FREE", "STRMERR"}
      BY <1>7 DEF DspTake
<1> QED BY <1>1, <1>2, <1>3, <1>4, <1>5, <1>6, <1>7 DEF Msg, Cmds

\* A buffer's way back.
LEMMA ReturnedMessage ==
    ASSUME NEW x \in Msg, x.cmd = "SETBUFF", Shape(x)
    PROVE  /\ IsData(x) /\ IsData(Returns(x)) /\ Shape(Returns(x))
           /\ Returns(x).addr = x.addr /\ Returns(x).stream = x.stream /\ Returns(x).cmd = "BUFF_FREE"
           /\ ~ IsToken(x) /\ ~ IsToken(Returns(x)) /\ ~ IsBlock(x) /\ ~ IsBlock(Returns(x))
BY DEF Returns, Message, Shape, IsData, IsToken, IsBlock

\* An answer is about what the command was about.
LEMMA AnsweredMessage ==
    ASSUME NEW x \in Msg, NEW t \in Msg, Answered(x, t), Shape(x), ~ (x.cmd = "STRMCTRL" /\ x.addr = NULL)
    PROVE  /\ Shape(t) /\ ~ IsData(t) /\ ~ IsData(x) /\ t.cmd \notin {"FLUSH", "SETBUFF"}
           /\ IsToken(t) <=> IsToken(x)
           /\ IsBlock(t) => IsBlock(x) /\ t.addr = x.addr
           /\ IsBlock(x) => IsBlock(t) /\ t.addr = x.addr
           /\ t.stream = x.stream /\ (t.cmd = "STOP" <=> x.cmd = "STOP")
BY DEF Answered, Message, Shape, IsData, IsToken, IsBlock

\* Every step keeps the shapes of the messages of each queue.
LEMMA FormsStep ==
    ASSUME Types, Idle, Forms, [Next]_vars PROVE Forms'
<1> DEFINE F1 == \A s \in 0..3 : \A m \in Range(dspHeld[s]) : m.cmd = "SETBUFF" /\ m.stream = s
           F2 == \A m \in Range(toDsp) \union Putter : m.cmd # "BUFF_FREE" /\ ~ (m.cmd = "STRMCTRL" /\ m.addr = NULL)
           F3 == \A m \in Range(fromDsp) : m.cmd \notin {"FLUSH", "SETBUFF"}
           F4 == \A m \in Flight : Shape(m)
<1>0. F1 /\ F2 /\ F3 /\ F4
      BY DEF Forms
<1>1. CASE QuietStep
  <2>1. UNCHANGED queues /\ Putter' \subseteq Putter
        BY <1>1, QuietFacts
  <2>2. Flight' \subseteq Flight
        BY <2>1, MotionNone DEF queues
  <2>3. F1' /\ F2' /\ F3'
        BY <1>0, <2>1 DEF queues
  <2>4. F4'
        BY <1>0, <2>2 DEF Shape
  <2> QED BY <2>3, <2>4 DEF Forms
<1>2. CASE FailStep
  <2>1. UNCHANGED queues /\ Putter' \subseteq Putter
        BY <1>2, FailFacts DEF FailStep
  <2>2. Flight' \subseteq Flight
        BY <2>1, MotionNone DEF queues
  <2>3. F1' /\ F2' /\ F3'
        BY <1>0, <2>1 DEF queues
  <2>4. F4'
        BY <1>0, <2>2 DEF Shape
  <2> QED BY <2>3, <2>4 DEF Forms
<1>3. CASE NewStep
  <2> DEFINE x == caller'.put
  <2>1. UNCHANGED queues /\ Putter = {} /\ Putter' = {x}
        BY <1>3, NewFacts
  <2>2. Shape(x) /\ x.cmd # "BUFF_FREE" /\ ~ (x.cmd = "STRMCTRL" /\ x.addr = NULL)
        BY <1>3, NewMessage
  <2>3. Flight' = Flight \union {x}
        BY <2>1, MotionNew DEF queues
  <2>4. F1' /\ F2' /\ F3'
        BY <1>0, <2>1, <2>2 DEF queues
  <2>5. F4'
        BY <1>0, <2>2, <2>3 DEF Shape
  <2> QED BY <2>4, <2>5 DEF Forms
<1>4. CASE ReadStep
  <2>1. /\ Putter' = Putter /\ UNCHANGED <<dspHeld, toDsp>>
        /\ fromDsp # << >> /\ fromDsp' = Tail(fromDsp)
        BY <1>4, ReadFacts
  <2>2. Flight' \subseteq Flight /\ Range(fromDsp)' \subseteq Range(fromDsp)
        BY <2>1, MotionRead
  <2>3. F1' /\ F2' /\ F3'
        BY <1>0, <2>1, <2>2
  <2>4. F4'
        BY <1>0, <2>2 DEF Shape
  <2> QED BY <2>3, <2>4 DEF Forms
<1>5. CASE PutMessage
  <2> DEFINE x == caller.put
  <2>1. /\ x \in Msg /\ Putter = {x} /\ Putter' = {} /\ toDsp' = Append(toDsp, x)
        /\ UNCHANGED <<fromDsp, dspHeld>>
        BY <1>5, PutFacts
  <2> HIDE DEF x
  <2>2. Flight' = Flight
        BY <2>1, MotionPut
  <2>3. Range(toDsp') = Range(toDsp) \union {x}
        BY <2>1, FlightTypes, AppendMessage
  <2>4. F1' /\ F2' /\ F3'
        BY <1>0, <2>1, <2>3
  <2>5. F4'
        BY <1>0, <2>2 DEF Shape
  <2> QED BY <2>4, <2>5 DEF Forms
<1>6. CASE DspTake
  <2> DEFINE x == Head(toDsp)
  <2>1. /\ Putter' = Putter /\ toDsp # << >> /\ toDsp' = Tail(toDsp)
        /\ x \in Msg /\ x \in Range(toDsp) /\ x.stream \in 0..3
        BY <1>6, TakeFacts
  <2>2. Range(toDsp') \subseteq Range(toDsp)
        BY <2>1, FlightTypes, TailMessage
  <2>a. F2'
        BY <1>0, <2>1, <2>2
  <2>3. CASE x.cmd = "SETBUFF" /\ UNCHANGED fromDsp
             /\ dspHeld' = [dspHeld EXCEPT ![x.stream] = Append(@, x)]
    <3>1. Flight' = Flight
          BY <2>1, <2>3, MotionTake
    <3>2. Range(Append(dspHeld[x.stream], x)) = Range(dspHeld[x.stream]) \union {x}
          BY <2>1, FlightTypes, AppendMessage
    <3> HIDE DEF x
    <3>3. dspHeld'[x.stream] = Append(dspHeld[x.stream], x)
          /\ \A r \in 0..3 : r # x.stream => dspHeld'[r] = dspHeld[r]
          BY <2>1, <2>3 DEF Types, HeldType
    <3>4. F1'
          BY <1>0, <2>3, <3>2, <3>3
    <3>5. F3' /\ F4'
          BY <1>0, <2>3, <3>1 DEF Shape
    <3> QED BY <2>a, <3>4, <3>5 DEF Forms
  <2>4. CASE x.cmd = "PLAY" /\ UNCHANGED <<dspHeld, fromDsp>>
    <3>1. Flight' \subseteq Flight
          BY <2>1, <2>4, MotionPlay
    <3>2. F1' /\ F3'
          BY <1>0, <2>4
    <3>3. F4'
          BY <1>0, <3>1 DEF Shape
    <3> QED BY <2>a, <3>2, <3>3 DEF Forms
  <2>5. ASSUME NEW t \in Msg, Answered(x, t), fromDsp' = Append(fromDsp, t),
               \A s \in 0..3 : dspHeld'[s] \in {<< >>, dspHeld[s]}
        PROVE  Forms'
    <3>1. Flight' \subseteq Flight \union {t}
          BY <2>1, <2>5, MotionAnswer
    <3>2. Shape(x) /\ ~ (x.cmd = "STRMCTRL" /\ x.addr = NULL)
          BY <1>0, <2>1 DEF Flight
    <3>3. Shape(t) /\ t.cmd \notin {"FLUSH", "SETBUFF"}
          BY <2>1, <2>5, <3>2, AnsweredMessage
    <3>4. Range(fromDsp') = Range(fromDsp) \union {t}
          BY <2>5, FlightTypes, AppendMessage
    <3>5. F1'
          BY <1>0, <2>5, EmptyMessages
    <3>6. F3'
          BY <1>0, <3>3, <3>4
    <3>7. F4'
          BY <1>0, <3>1, <3>3 DEF Shape
    <3> QED BY <2>a, <3>5, <3>6, <3>7 DEF Forms
  <2> QED BY <1>6, <2>3, <2>4, <2>5, TakeKinds
<1>7. ASSUME NEW s \in Streams, DspReturn(s) PROVE Forms'
  <2> DEFINE x == Head(dspHeld[s])
             t == Returns(x)
  <2>1. /\ UNCHANGED toDsp /\ Putter' = Putter /\ s \in 0..3 /\ dspHeld[s] # << >>
        /\ dspHeld' = [dspHeld EXCEPT ![s] = Tail(@)]
        /\ x \in Msg /\ x \in Range(dspHeld[s]) /\ x \in Flight
        /\ t \in Msg /\ fromDsp' = Append(fromDsp, t)
        BY <1>7, ReturnFacts
  <2>2. Flight' \subseteq Flight \union {t}
        BY <2>1, MotionReturn
  <2>3. Shape(x) /\ x.cmd = "SETBUFF"
        BY <1>0, <2>1
  <2>4. Shape(t) /\ t.cmd = "BUFF_FREE"
        BY <2>1, <2>3, ReturnedMessage
  <2>5. Range(fromDsp') = Range(fromDsp) \union {t}
        BY <2>1, FlightTypes, AppendMessage
  <2>6. Range(Tail(dspHeld[s])) \subseteq Range(dspHeld[s])
        BY <2>1, FlightTypes, TailMessage
  <2> HIDE DEF x, t
  <2>7. dspHeld'[s] = Tail(dspHeld[s]) /\ \A r \in 0..3 : r # s => dspHeld'[r] = dspHeld[r]
        BY <2>1 DEF Types, HeldType
  <2>8. F1'
        BY <1>0, <2>6, <2>7
  <2>9. F2' /\ F3'
        BY <1>0, <2>1, <2>4, <2>5
  <2>10. F4'
        BY <1>0, <2>2, <2>4 DEF Shape
  <2> QED BY <2>8, <2>9, <2>10 DEF Forms
<1>8. CASE Destroyed
      BY <1>8, DestroyedFacts DEF Forms
<1>9. CASE DspFlushFails
  <2>1. /\ Putter' = Putter /\ UNCHANGED dspHeld /\ Flight' \subseteq Flight \union {Refusal}
        /\ Range(toDsp)' \subseteq Range(toDsp)
        /\ Range(fromDsp)' = Range(fromDsp) \union {Refusal}
        BY <1>9, RefuseFacts
  <2>2. Shape(Refusal) /\ Refusal.cmd = "STRMERR"
        BY RefusalMessage
  <2> HIDE DEF Refusal
  <2>3. F1' /\ F2' /\ F3'
        BY <1>0, <2>1, <2>2
  <2>4. F4'
        BY <1>0, <2>1, <2>2 DEF Shape
  <2> QED BY <2>3, <2>4 DEF Forms
<1> QED BY <1>1, <1>2, <1>3, <1>4, <1>5, <1>6, <1>7, <1>8, <1>9, StepKinds

-----------------------------------------------------------------------------
(* Flushes and stops: one at a time, and the component waits for it.       *)

Answering == msg.pc = "call" /\ msg.event \in {"stopped", "flushed"}

Tokens ==
    /\ caller.pc \in {"none", "ready"} => caller.next = NULL
    /\ caller.pc = "put" => (IsToken(caller.put) <=> caller.next # "ready")
    /\ caller.pc \in {"flush", "stop"} => caller.next = caller.pc
    /\ \A t \in Flight : IsToken(t) =>
         /\ IF t.cmd = "STOP" THEN caller.next = "stop"
            ELSE caller.next = "flush" /\ caller.put.stream = t.stream /\ flush_pending[t.stream]
         /\ ~ Answering
    /\ \A t \in Range(fromDsp) \union Range(toDsp) : IsToken(t) => caller.pc = caller.next

\* The flag of stream 1, which the acknowledgements of stream controls read.
Flags ==
    /\ flush_pending[Out] => /\ caller.next = "flush" /\ caller.put.stream = Out
                             /\ ~ (msg.pc = "call" /\ msg.event = "flushed")
    /\ \A m \in Flight : IsBlock(m) => ~ flush_pending[Out] /\ m.addr \in control["strm"]

\* What one message tells of those behind it, whatever the rings hold.
Apart(m, n) ==
    /\ ~ (IsToken(m) /\ IsToken(n))
    /\ IsToken(m) /\ IsData(n) => m.cmd # "STOP" /\ Dir(m.stream) # Dir(n.stream)
    /\ IsBlock(m) /\ IsBlock(n) => m.addr # n.addr
Ordered == \A m, n : Ahead(m, n) => Apart(m, n)

\* A component that may go on has no request under way.
LEMMA NoToken ==
    ASSUME Types, Forms, Tokens
    PROVE  /\ caller.pc = "ready" => \A m \in Flight : ~ IsToken(m)
           /\ caller.pc = "put" => \A m \in Flight : IsToken(m) => m \in Putter
<1>1. \A m \in Held : ~ IsToken(m)
      BY DEF Forms, Held, IsToken
<1>2. caller.pc = "ready" => Putter = {} /\ caller.next = NULL
      BY DEF Putter, Tokens
<1>3. caller.pc = "put" => caller.next # "put"
      BY NullApart DEF Types, CallerType
<1> QED BY <1>1, <1>2, <1>3, NullApart DEF Tokens, Flight

\* Every step keeps a buffer from being queued behind an unanswered request.
LEMMA OrderedStep ==
    ASSUME Types, OneStream, Idle, Forms, Tokens, Flags, Ordered, [Next]_vars PROVE Ordered'
<1>0. \A m, n : Apart(m, n)' = Apart(m, n)
      BY DEF Apart, IsToken, IsBlock, IsData
<1>1. ASSUME \A m, n : Ahead(m, n)' => Ahead(m, n) PROVE Ordered'
      BY <1>0, <1>1 DEF Ordered
<1>2. CASE QuietStep
      BY <1>1, <1>2, QuietFacts, MotionNone DEF queues
<1>3. CASE FailStep
      BY <1>1, <1>3, FailFacts, MotionNone DEF queues, FailStep
<1>4. CASE NewStep
  <2> DEFINE x == caller'.put
  <2>1. UNCHANGED queues /\ Putter = {} /\ Putter' = {x} /\ caller.pc = "ready"
        BY <1>4, NewFacts
  <2>2. \A m, n : Ahead(m, n)' => Ahead(m, n) \/ (m \in Flight /\ n = x)
        BY <2>1, MotionNew DEF queues
  <2>3. \A m \in Flight : ~ IsToken(m)
        BY <2>1, NoToken
  <2>4. \/ IsBlock(x) /\ ControlBlock("strm") /\ x.addr = Min(FreeControl("strm"))
        \/ ~ IsBlock(x)
        BY <1>4, NewMessage
  <2> HIDE DEF x
  <2>5. ASSUME NEW m \in Flight, IsBlock(m), IsBlock(x) PROVE m.addr # x.addr
    <3>1. x.addr \in FreeControl("strm")
          BY <2>4, <2>5, FreeEntry DEF ControlBlock
    <3>2. m.addr \in control["strm"]
          BY <2>5 DEF Flags
    <3> QED BY <3>1, <3>2 DEF FreeControl
  <2>6. \A m \in Flight : Apart(m, x)
        BY <2>3, <2>5 DEF Apart
  <2> QED BY <1>0, <2>2, <2>6 DEF Ordered
<1>5. CASE ReadStep
      BY <1>1, <1>5, ReadFacts, MotionRead
<1>6. CASE PutMessage
      BY <1>1, <1>6, PutFacts, MotionPut
<1>7. CASE DspTake
  <2> DEFINE x == Head(toDsp)
  <2>1. /\ Putter' = Putter /\ toDsp # << >> /\ toDsp' = Tail(toDsp)
        /\ x \in Msg /\ x \in Range(toDsp) /\ x.stream \in 0..3
        BY <1>7, TakeFacts
  <2>2. CASE x.cmd = "SETBUFF" /\ UNCHANGED fromDsp
             /\ dspHeld' = [dspHeld EXCEPT ![x.stream] = Append(@, x)]
        BY <1>1, <2>1, <2>2, MotionTake
  <2>3. CASE x.cmd = "PLAY" /\ UNCHANGED <<dspHeld, fromDsp>>
        BY <1>1, <2>1, <2>3, MotionPlay
  <2>4. ASSUME NEW t \in Msg, Answered(x, t), fromDsp' = Append(fromDsp, t),
               \A s \in 0..3 : dspHeld'[s] \in {<< >>, dspHeld[s]},
               x.cmd = "FLUSH" => dspHeld'[x.stream] = << >>,
               x.cmd = "STOP" => dspHeld' = NoneHeld
        PROVE  Ordered'
    <3>1. \A m, n : Ahead(m, n)' =>
                \/ Ahead(m, n)
                \/ n = t /\ Ahead(m, x)
                \/ m = t /\ (n \in Held' \/ Ahead(x, n))
          BY <2>1, <2>4, MotionAnswer
    <3>2. Shape(x) /\ ~ (x.cmd = "STRMCTRL" /\ x.addr = NULL)
          BY <2>1 DEF Forms, Flight
    <3>3. /\ ~ IsData(t) /\ ~ IsData(x) /\ (IsToken(t) <=> IsToken(x))
          /\ IsBlock(t) => IsBlock(x) /\ t.addr = x.addr
          /\ t.stream = x.stream /\ (t.cmd = "STOP" <=> x.cmd = "STOP")
          BY <2>1, <2>4, <3>2, AnsweredMessage
    <3> HIDE DEF x
    <3>4. \A m : Apart(m, x) => Apart(m, t)
          BY <3>3 DEF Apart
    <3>5. \A n : Apart(x, n) => Apart(t, n)
          BY <3>3 DEF Apart
    <3>6. ASSUME NEW n \in Held' PROVE Apart(t, n)
      <4>1. PICK r \in 0..3 : n \in Range(dspHeld'[r])
            BY <3>6 DEF Held
      <4>2. dspHeld'[r] = dspHeld[r] /\ n \in Range(dspHeld[r])
            BY <2>4, <4>1, EmptyMessages
      <4>3. n.cmd = "SETBUFF" /\ n.stream = r /\ Shape(n)
            BY <4>2 DEF Forms, Flight, Held
      <4>4. ~ IsToken(n) /\ ~ IsBlock(n) /\ IsData(n) /\ r = StreamOf[n.addr] /\ n.addr \in Buffers
            BY <4>3 DEF IsToken, IsBlock, IsData, Shape
      <4>5. CASE ~ IsToken(t)
            BY <4>4, <4>5 DEF Apart
      <4>6. CASE IsToken(t)
        <5>1. x.cmd = "FLUSH" \/ x.cmd = "STOP"
              BY <3>2, <3>3, <4>6 DEF IsToken
        <5>2. CASE x.cmd = "STOP"
              BY <2>4, <4>1, <5>2, EmptyMessages DEF NoneHeld
        <5>3. CASE x.cmd = "FLUSH"
          <6>1. r # x.stream
                BY <2>4, <4>1, <5>3, EmptyMessages
          <6>2. x.stream \in Streams
                BY <3>2, <5>3 DEF Shape, IsToken
          <6>3. Dir(x.stream) # Dir(r)
                BY <4>4, <6>1, <6>2 DEF OneStream, Streams
          <6> QED BY <3>3, <4>3, <4>4, <5>3, <6>3 DEF Apart
        <5> QED BY <5>1, <5>2, <5>3
      <4> QED BY <4>5, <4>6
    <3> QED BY <1>0, <3>1, <3>4, <3>5, <3>6 DEF Ordered
  <2> QED BY <1>7, <2>2, <2>3, <2>4, TakeKinds
<1>8. ASSUME NEW s \in Streams, DspReturn(s) PROVE Ordered'
  <2> DEFINE x == Head(dspHeld[s])
             t == Returns(x)
  <2>1. /\ UNCHANGED toDsp /\ Putter' = Putter /\ s \in 0..3 /\ dspHeld[s] # << >>
        /\ dspHeld' = [dspHeld EXCEPT ![s] = Tail(@)]
        /\ x \in Msg /\ x \in Range(dspHeld[s]) /\ x \in Flight
        /\ t \in Msg /\ fromDsp' = Append(fromDsp, t)
        BY <1>8, ReturnFacts
  <2>2. \A m, n : Ahead(m, n)' => Ahead(m, n) \/ (n = t /\ Ahead(m, x)) \/ m = t
        BY <2>1, MotionReturn
  <2>3. x.cmd = "SETBUFF" /\ Shape(x)
        BY <2>1 DEF Forms
  <2>4. /\ IsData(t) /\ t.stream = x.stream /\ ~ IsToken(t) /\ ~ IsBlock(t) /\ IsData(x)
        BY <2>1, <2>3, ReturnedMessage
  <2> HIDE DEF x, t
  <2>5. \A m : Apart(m, x) => Apart(m, t)
        BY <2>4 DEF Apart
  <2>6. \A n : Apart(t, n)
        BY <2>4 DEF Apart
  <2> QED BY <1>0, <2>2, <2>5, <2>6 DEF Ordered
<1>9. CASE Destroyed
      BY <1>9, DestroyedFacts DEF Ordered
<1>10. CASE DspFlushFails
  <2>1. \A m, n : Ahead(m, n)' => Ahead(m, n) \/ n = Refusal \/ m = Refusal
        BY <1>10, RefuseFacts
  <2>2. \A m : Apart(m, Refusal) /\ Apart(Refusal, m)
        BY RefusalMessage DEF Apart
  <2> QED BY <1>0, <2>1, <2>2 DEF Ordered
<1> QED BY <1>2, <1>3, <1>4, <1>5, <1>6, <1>7, <1>8, <1>9, <1>10, StepKinds

\* An answer is given to the request that the component waits for, when none
\* of the buffers it asked for is on loan any more.
Answers ==
    /\ msg.pc = "call" /\ msg.event = "stopped" => caller.pc = "stop" /\ lent = {}
    /\ msg.pc = "call" /\ msg.event = "flushed" =>
         /\ caller.pc = "flush" /\ caller.put.stream = msg.arg
         /\ \A b \in lent : StreamOf[b] # msg.arg

\* What the acknowledgement that MessagingThread reads is taken for.
LEMMA AckKinds ==
    ASSUME Types, Forms, Tokens, Flags, MsgStop \/ MsgStrmCtrl
    PROVE  LET h == Head(fromDsp)
           IN  /\ h \in Msg /\ h \in Range(fromDsp) /\ h \in Flight /\ Shape(h) /\ ~ IsData(h)
               /\ \/ /\ MsgStop /\ IsToken(h) /\ h.cmd = "STOP" /\ msg'.event = "stopped"
                     /\ UNCHANGED <<control, flush_pending>>
                     /\ Acked = [d \in Dirs |-> IF codec.dasf THEN {} ELSE Occupied(d)]
                     /\ caller.pc = "stop"
                  \/ /\ MsgStrmCtrl /\ IsToken(h) /\ h.cmd = "STRMCTRL"
                     /\ msg'.event = "flushed" /\ msg'.arg = h.stream
                     /\ flush_pending' = [flush_pending EXCEPT ![Dir(h.stream)] = FALSE]
                     /\ control' = control
                     /\ Acked = FlushedSlots(h.stream)
                     /\ caller.pc = "flush" /\ caller.put.stream = h.stream
                  \/ /\ MsgStrmCtrl /\ ~ IsToken(h) /\ msg'.event = "strmack"
                     /\ UNCHANGED flush_pending
                     /\ \/ IsBlock(h) /\ control' = [control EXCEPT !["strm"] = @ \ {h.addr}]
                        \/ ~ IsBlock(h) /\ control' = control
                     /\ Acked = [d \in Dirs |-> {}]
<1> DEFINE h == Head(fromDsp)
<1>1. h \in Msg /\ h \in Range(fromDsp) /\ h \in Flight
      BY ReadFacts DEF ReadStep
<1>2. Shape(h)
      BY <1>1 DEF Forms
<1>3. IF MsgStop THEN h.cmd = "STOP" ELSE h.cmd \in StreamAnswers
      BY Acks
<1>4. ~ IsData(h)
      BY <1>3 DEF IsData, StreamAnswers
<1>5. CASE MsgStop
  <2>1. h.cmd = "STOP" /\ IsToken(h)
        BY <1>3, <1>5 DEF IsToken
  <2>2. caller.pc = "stop"
        BY <1>1, <2>1 DEF Tokens
  <2>3. msg'.event = "stopped" /\ UNCHANGED <<control, flush_pending>>
        BY <1>5 DEF MsgStop
  <2>4. Acked = [d \in Dirs |-> IF codec.dasf THEN {} ELSE Occupied(d)]
        BY <2>1 DEF Acked
  <2> QED BY <1>1, <1>2, <1>4, <1>5, <2>1, <2>2, <2>3, <2>4
<1>a. ASSUME NEW a, a = NULL PROVE ControlAfter("strm", a) = control
  <2>1. control["strm"] \subseteq Slots /\ control \in [Tables -> SUBSET Slots]
        BY DEF Types, TableType, Tables
  <2>2. control["strm"] \ {NULL} = control["strm"]
        BY <2>1, NullApart
  <2> QED BY <1>a, <2>1, <2>2 DEF ControlAfter
<1>6. CASE MsgStrmCtrl /\ ~ MsgStop /\ h.cmd = "STRMCTRL" /\ h.addr = NULL
  <2>1. IsToken(h)
        BY <1>6 DEF IsToken
  <2>2. /\ caller.pc = caller.next /\ caller.next = "flush" /\ caller.put.stream = h.stream
        /\ flush_pending[h.stream]
        BY <1>1, <1>6, <2>1 DEF Tokens
  <2>3. /\ msg'.event = "flushed" /\ msg'.arg = h.stream
        /\ flush_pending' = [flush_pending EXCEPT ![Dir(h.stream)] = FALSE]
        BY <1>6, <2>2 DEF MsgStrmCtrl
  <2>4. Acked = FlushedSlots(h.stream)
        BY <1>6, <2>2 DEF Acked
  <2>5. control' = control
        BY <1>6, <1>a, <2>2 DEF MsgStrmCtrl
  <2> QED BY <1>1, <1>2, <1>4, <1>6, <2>1, <2>2, <2>3, <2>4, <2>5
<1>7. CASE MsgStrmCtrl /\ ~ MsgStop /\ h.cmd = "STRMCTRL" /\ h.addr # NULL
  <2>1. IsBlock(h) /\ ~ IsToken(h)
        BY <1>7 DEF IsToken, IsBlock
  <2>2. h.stream = Out /\ ~ flush_pending[h.stream]
        BY <1>1, <1>2, <2>1 DEF Flags, Shape
  <2>3. msg'.event = "strmack" /\ UNCHANGED flush_pending
        BY <1>7, <2>2 DEF MsgStrmCtrl
  <2>4. Acked = [d \in Dirs |-> {}]
        BY <1>7, <2>2 DEF Acked
  <2>5. control' = [control EXCEPT !["strm"] = @ \ {h.addr}]
        BY <1>7, <2>2 DEF MsgStrmCtrl, ControlAfter
  <2> QED BY <1>1, <1>2, <1>4, <1>7, <2>1, <2>2, <2>3, <2>4, <2>5
<1>8. CASE MsgStrmCtrl /\ ~ MsgStop /\ h.cmd # "STRMCTRL"
  <2>1. h.cmd = "STRMERR" /\ h.addr = NULL
        BY <1>2, <1>3, <1>8 DEF StreamAnswers, Shape
  <2>2. ~ IsBlock(h) /\ ~ IsToken(h)
        BY <2>1 DEF IsBlock, IsToken
  <2>3. msg'.event = "strmack" /\ UNCHANGED flush_pending
        BY <1>8 DEF MsgStrmCtrl
  <2>4. Acked = [d \in Dirs |-> {}]
        BY <2>1 DEF Acked
  <2>5. control' = control
        BY <1>8, <1>a, <2>1 DEF MsgStrmCtrl
  <2> QED BY <1>1, <1>2, <1>4, <1>8, <2>1, <2>2, <2>3, <2>4, <2>5
<1> QED BY <1>5, <1>6, <1>7, <1>8

\* The other messages that MessagingThread reads.
LEMMA OtherReads ==
    ASSUME Types, MsgBuffFree \/ MsgAlgCtrl \/ MsgPause
    PROVE  /\ ~ IsToken(Head(fromDsp)) /\ ~ IsBlock(Head(fromDsp))
           /\ ~ Answering' /\ UNCHANGED <<flush_pending, lent>>
           /\ control'["strm"] = control["strm"]
<1>1. CASE MsgBuffFree
      BY <1>1, BuffFree DEF IsToken, IsBlock, Answering
<1>2. CASE MsgAlgCtrl
  <2>1. Head(fromDsp).cmd = "ALGCTRL" /\ UNCHANGED <<flush_pending, lent>>
        /\ msg'.event = "algack" /\ control' = [control EXCEPT !["alg"] = @ \ {Head(fromDsp).addr}]
        BY <1>2 DEF MsgAlgCtrl, ControlAfter
  <2>2. control'["strm"] = control["strm"]
        BY <2>1 DEF Types, TableType, Tables
  <2> QED BY <2>1, <2>2 DEF IsToken, IsBlock, Answering
<1>3. CASE MsgPause
      BY <1>3 DEF MsgPause, bridge, IsToken, IsBlock, Answering
<1> QED BY <1>1, <1>2, <1>3

\* A request that MessagingThread has read was the only one.
LEMMA LastToken ==
    ASSUME Types, Ordered, ReadStep, IsToken(Head(fromDsp))
    PROVE  /\ \A m \in Flight' : ~ IsToken(m)
           /\ \A m \in Flight' : IsData(m) => /\ Head(fromDsp).cmd # "STOP"
                                              /\ Dir(Head(fromDsp).stream) # Dir(m.stream)
<1>1. \A n \in Flight' : Ahead(Head(fromDsp), n)
      BY ReadFacts, MotionRead
<1> QED BY <1>1 DEF Ordered, Apart

\* MessagingThread, where it reads no message, has no answer to give.
LEMMA NoAnswer ==
    ASSUME Types, MsgLeave \/ MsgWake \/ MsgFault \/ MsgEmpty
    PROVE  msg'.pc \in {"exited", "read", "wait"} \/ msg'.event = "error"
<1>1. \A p \in {"exited", "read", "wait"} : [msg EXCEPT !.pc = p].pc = p
      BY DEF Types, MsgType
<1>2. CASE MsgLeave
      BY <1>1, <1>2 DEF MsgLeave
<1>3. CASE MsgWake
      BY <1>1, <1>3 DEF MsgWake
<1>4. CASE MsgFault
      BY <1>4 DEF MsgFault
<1>5. CASE MsgEmpty
      BY <1>1, <1>5 DEF MsgEmpty
<1> QED BY <1>2, <1>3, <1>4, <1>5

\* Every step keeps at most one flush or stop unanswered, and its caller waiting.
LEMMA TokensStep ==
    ASSUME Types, Idle, Forms, Tokens, Flags, Ordered, Answers, [Next]_vars PROVE Tokens'
<1>a. \A m : IsToken(m)' = IsToken(m)
      BY DEF IsToken
<1>b. ASSUME Flight' \subseteq Flight,
             (Range(fromDsp) \union Range(toDsp))' \subseteq Range(fromDsp) \union Range(toDsp),
             caller' = caller, flush_pending' = flush_pending, Answering' => Answering
      PROVE  Tokens'
      BY <1>b, <1>a DEF Tokens
<1>c. ASSUME \A m \in Flight' : ~ IsToken(m),
             caller'.pc \in {"none", "ready"} => caller'.next = NULL,
             caller'.pc = "put" => (IsToken(caller'.put) <=> caller'.next # "ready"),
             caller'.pc \in {"flush", "stop"} => caller'.next = caller'.pc
      PROVE  Tokens'
  <2>1. (Range(fromDsp) \union Range(toDsp))' \subseteq Flight'
        BY DEF Flight
  <2> QED BY <1>c, <1>a, <2>1 DEF Tokens
<1>d. /\ caller.pc \in {"none", "ready"} => caller.next = NULL
      /\ caller.pc = "put" => (IsToken(caller.put) <=> caller.next # "ready")
      /\ caller.pc \in {"flush", "stop"} => caller.next = caller.pc
      /\ caller \in CallerType
      BY DEF Tokens, Types
<1>e. Answering => caller.pc \in {"flush", "stop"}
      BY DEF Answers, Answering
<1>1. CASE QuietStep
  <2>1. /\ UNCHANGED <<queues, flush_pending>> /\ Putter' \subseteq Putter
        BY <1>1, QuietFacts
  <2>2. Flight' \subseteq Flight
        BY <2>1, MotionNone DEF queues
  <2>3. (Range(fromDsp) \union Range(toDsp))' \subseteq Range(fromDsp) \union Range(toDsp)
        BY <2>1 DEF queues
  <2>4. CASE InitMMCodec
    <3>1. caller' = At("ready") /\ caller.pc = "none"
          BY <2>4 DEF InitMMCodec
    <3>2. Range(fromDsp) = {} /\ Range(toDsp) = {} /\ Putter = {}
          BY <3>1, EmptyMessages DEF Idle, Putter
    <3>3. \A m \in Held : ~ IsToken(m)
          BY DEF Forms, Held, IsToken
    <3>4. \A m \in Flight' : ~ IsToken(m)
          BY <2>2, <3>2, <3>3 DEF Flight
    <3>5. caller'.pc = "ready" /\ caller'.next = NULL
          BY <3>1 DEF At
    <3> QED BY <1>c, <3>4, <3>5
  <2>5. CASE PutMessageFails \/ ControlDestroy
    <3>1. /\ caller'.pc \in {"error", "join"} /\ caller'.next = caller.next /\ caller'.put = caller.put
          /\ caller.pc \in {"put", "ready", "error"} /\ msg' = msg
          BY <1>d, <2>5 DEF PutMessageFails, ControlDestroy, CallerType
    <3>2. \A t \in Range(fromDsp) \union Range(toDsp) : ~ IsToken(t)
      <4>1. Range(fromDsp) \union Range(toDsp) \subseteq Flight
            BY DEF Flight
      <4> QED BY <3>1, <4>1 DEF Tokens
    <3>3. Answering' => Answering
          BY <3>1 DEF Answering
    <3> QED BY <1>a, <2>1, <2>2, <2>3, <3>1, <3>2, <3>3 DEF Tokens
  <2>6. CASE MsgCallback
    <3>1. ~ Answering'
          BY <2>6 DEF MsgCallback, Answering, Quiet, Types, MsgType
    <3>2. CASE caller' = caller
          BY <1>b, <2>1, <2>2, <2>3, <3>1, <3>2
    <3>3. CASE caller' # caller
      <4>1. caller' = At("ready") /\ Answering
            BY <2>6, <3>3 DEF MsgCallback, Answering
      <4>2. \A m \in Flight' : ~ IsToken(m)
            BY <2>2, <4>1 DEF Tokens
      <4>3. caller'.pc = "ready" /\ caller'.next = NULL
            BY <4>1 DEF At
      <4> QED BY <1>c, <4>2, <4>3
    <3> QED BY <3>2, <3>3
  <2>7. CASE ControlBlockFull \/ MsgLeave \/ MsgWake \/ MsgFault \/ MsgEmpty \/ DspFault \/ UNCHANGED vars
    <3>1. caller' = caller
          BY <2>7 DEF ControlBlockFull, MsgLeave, MsgWake, MsgFault, MsgEmpty, DspFault, vars
    <3>2. Answering' => Answering
      <4>1. CASE ControlBlockFull \/ DspFault \/ UNCHANGED vars
            BY <4>1 DEF ControlBlockFull, DspFault, vars, Answering
      <4>2. CASE MsgLeave \/ MsgWake \/ MsgFault \/ MsgEmpty
            BY <4>2, NoAnswer DEF Answering
      <4> QED BY <2>7, <4>1, <4>2
    <3> QED BY <1>b, <2>1, <2>2, <2>3, <3>1, <3>2
  <2> QED BY <1>1, <2>4, <2>5, <2>6, <2>7 DEF QuietStep
<1>2. CASE FailStep
  <2>1. UNCHANGED queues /\ Putter' \subseteq Putter /\ caller'.pc = "error" /\ caller.pc = "ready"
        BY <1>2, FailFacts
  <2>2. Flight' \subseteq Flight
        BY <2>1, MotionNone DEF queues
  <2>3. \A m \in Flight' : ~ IsToken(m)
        BY <2>1, <2>2, NoToken
  <2> QED BY <1>c, <2>1, <2>3
<1>3. CASE NewStep
  <2> DEFINE x == caller'.put
  <2>1. /\ UNCHANGED <<queues, msg>> /\ Putter = {} /\ Putter' = {x} /\ caller.pc = "ready"
        /\ caller'.pc = "put"
        BY <1>3, NewFacts
  <2>2. Flight' = Flight \union {x}
        BY <2>1, MotionNew DEF queues
  <2>3. \A m \in Flight : ~ IsToken(m)
        BY <2>1, NoToken
  <2>4. /\ x \in Msg /\ ~ (x.cmd = "STRMCTRL" /\ x.addr = NULL)
        /\ IsToken(x) <=> caller'.next # "ready"
        /\ caller'.next \in {"ready", "flush", "stop"}
        /\ x.cmd = "STOP" <=> caller'.next = "stop"
        /\ \/ \E s \in Streams : ControlFlush(s) /\ x.cmd = "FLUSH" /\ x.stream = s
           \/ x.cmd # "FLUSH"
        BY <1>3, NewMessage
  <2> HIDE DEF x
  <2>5. CASE ~ IsToken(x)
        BY <1>c, <2>1, <2>2, <2>3, <2>4, <2>5 DEF x
  <2>6. CASE IsToken(x)
    <3>1. x.cmd # "STOP" => caller'.next = "flush" /\ flush_pending'[x.stream]
      <4> SUFFICES ASSUME x.cmd # "STOP" PROVE caller'.next = "flush" /\ flush_pending'[x.stream]
          OBVIOUS
      <4>1. x.cmd = "FLUSH" /\ caller'.next = "flush"
            BY <2>4, <2>6 DEF IsToken
      <4>2. PICK s \in Streams : ControlFlush(s) /\ x.stream = s
            BY <2>4, <4>1
      <4>3. s \in 0..3 /\ flush_pending' = [flush_pending EXCEPT ![s] = TRUE]
            BY <4>2, Directions DEF ControlFlush
      <4>4. flush_pending'[s] = TRUE
            BY <4>3 DEF Types, FlagType
      <4> QED BY <4>1, <4>2, <4>4
    <3>2. ~ Answering'
          BY <1>e, <2>1 DEF Answering
    <3>3. \A t \in Range(fromDsp)' \union Range(toDsp)' : ~ IsToken(t)
          BY <2>1, <2>3 DEF Flight, queues
    <3> QED BY <1>a, <2>1, <2>2, <2>3, <2>4, <2>6, <3>1, <3>2, <3>3 DEF Tokens, x
  <2> QED BY <2>5, <2>6
<1>4. CASE ReadStep
  <2>1. /\ Putter' = Putter /\ UNCHANGED <<dspHeld, toDsp, caller>>
        /\ fromDsp # << >> /\ fromDsp' = Tail(fromDsp)
        BY <1>4, ReadFacts
  <2>2. Flight' \subseteq Flight /\ Range(fromDsp)' \subseteq Range(fromDsp)
        BY <2>1, MotionRead
  <2>3. CASE MsgStop \/ MsgStrmCtrl
    <3>1. CASE IsToken(Head(fromDsp))
      <4>1. \A m \in Flight' : ~ IsToken(m)
            BY <1>4, <3>1, LastToken
      <4> QED BY <1>c, <1>d, <2>1, <4>1
    <3>2. CASE ~ IsToken(Head(fromDsp))
      <4>1. msg'.event = "strmack" /\ UNCHANGED flush_pending
            BY <2>3, <3>2, AckKinds
      <4> QED BY <1>b, <2>1, <2>2, <4>1 DEF Answering
    <3> QED BY <3>1, <3>2
  <2>4. CASE MsgBuffFree \/ MsgAlgCtrl \/ MsgPause
        BY <1>b, <2>1, <2>2, <2>4, OtherReads
  <2> QED BY <1>4, <2>3, <2>4 DEF ReadStep
<1>5. CASE PutMessage
  <2> DEFINE x == caller.put
  <2>1. /\ x \in Msg /\ Putter = {x} /\ Putter' = {} /\ toDsp' = Append(toDsp, x)
        /\ UNCHANGED <<fromDsp, dspHeld, flush_pending, msg>>
        /\ caller.pc = "put" /\ caller.next \in {"ready", "flush", "stop"} /\ caller'.pc = caller.next
        /\ IF caller.next = "ready" THEN caller' = At("ready")
           ELSE caller'.next = caller.next /\ caller'.put = x
        BY <1>5, PutFacts
  <2> HIDE DEF x
  <2>2. Flight' = Flight
        BY <2>1, MotionPut
  <2>3. \A m \in Flight : IsToken(m) => m = x
        BY <2>1, NoToken
  <2>4. CASE caller.next = "ready"
    <3>1. ~ IsToken(x)
          BY <1>d, <2>1, <2>4 DEF x
    <3>2. caller'.pc = "ready" /\ caller'.next = NULL
          BY <2>1, <2>4 DEF At
    <3> QED BY <1>c, <2>2, <2>3, <3>1, <3>2
  <2>5. CASE caller.next # "ready"
    <3>1. Answering' = Answering
          BY <2>1 DEF Answering
    <3>2. caller'.pc = caller.next /\ caller'.next = caller.next /\ caller'.put = x
          BY <2>1, <2>5
    <3> QED BY <1>a, <2>1, <2>2, <2>5, <3>1, <3>2 DEF Tokens, x
  <2> QED BY <2>4, <2>5
<1>6. CASE DspTake
  <2> DEFINE x == Head(toDsp)
  <2>1. /\ Putter' = Putter /\ toDsp # << >> /\ toDsp' = Tail(toDsp)
        /\ UNCHANGED <<caller, flush_pending, msg>>
        /\ x \in Msg /\ x \in Range(toDsp) /\ x.stream \in 0..3
        BY <1>6, TakeFacts
  <2>2. Range(toDsp') \subseteq Range(toDsp)
        BY <2>1, FlightTypes, TailMessage
  <2>3. Answering' = Answering
        BY <2>1 DEF Answering
  <2>4. CASE x.cmd = "SETBUFF" /\ UNCHANGED fromDsp
             /\ dspHeld' = [dspHeld EXCEPT ![x.stream] = Append(@, x)]
    <3>1. Flight' = Flight
          BY <2>1, <2>4, MotionTake
    <3> QED BY <1>b, <2>1, <2>2, <2>3, <2>4, <3>1
  <2>5. CASE x.cmd = "PLAY" /\ UNCHANGED <<dspHeld, fromDsp>>
    <3>1. Flight' \subseteq Flight
          BY <2>1, <2>5, MotionPlay
    <3> QED BY <1>b, <2>1, <2>2, <2>3, <2>5, <3>1
  <2>6. ASSUME NEW t \in Msg, Answered(x, t), fromDsp' = Append(fromDsp, t),
               \A s \in 0..3 : dspHeld'[s] \in {<< >>, dspHeld[s]}
        PROVE  Tokens'
    <3>1. Flight' \subseteq Flight \union {t}
          BY <2>1, <2>6, MotionAnswer
    <3>2. Shape(x) /\ ~ (x.cmd = "STRMCTRL" /\ x.addr = NULL) /\ x \in Flight
          BY <2>1 DEF Forms, Flight
    <3>3. (IsToken(t) <=> IsToken(x)) /\ t.stream = x.stream /\ (t.cmd = "STOP" <=> x.cmd = "STOP")
          BY <2>1, <2>6, <3>2, AnsweredMessage
    <3>4. Range(fromDsp') = Range(fromDsp) \union {t}
          BY <2>6, FlightTypes, AppendMessage
    <3> HIDE DEF x
    <3> QED BY <1>a, <2>1, <2>2, <2>3, <3>1, <3>2, <3>3, <3>4 DEF Tokens
  <2> QED BY <1>6, <2>4, <2>5, <2>6, TakeKinds
<1>7. ASSUME NEW s \in Streams, DspReturn(s) PROVE Tokens'
  <2> DEFINE x == Head(dspHeld[s])
             t == Returns(x)
  <2>1. /\ UNCHANGED <<toDsp, flush_pending, msg, caller>>
        /\ Putter' = Putter /\ s \in 0..3 /\ dspHeld[s] # << >>
        /\ dspHeld' = [dspHeld EXCEPT ![s] = Tail(@)]
        /\ x \in Msg /\ x \in Range(dspHeld[s]) /\ x \in Flight
        /\ t \in Msg /\ fromDsp' = Append(fromDsp, t)
        BY <1>7, ReturnFacts
  <2>2. Flight' \subseteq Flight \union {t}
        BY <2>1, MotionReturn
  <2>3. x.cmd = "SETBUFF" /\ Shape(x)
        BY <2>1 DEF Forms
  <2>4. ~ IsToken(t)
        BY <2>1, <2>3, ReturnedMessage
  <2>5. Range(fromDsp') = Range(fromDsp) \union {t}
        BY <2>1, FlightTypes, AppendMessage
  <2>6. Answering' = Answering
        BY <2>1 DEF Answering
  <2> HIDE DEF x, t
  <2> QED BY <1>a, <2>1, <2>2, <2>4, <2>5, <2>6 DEF Tokens
<1>8. CASE Destroyed
      BY <1>8, <1>c, DestroyedFacts
<1>9. CASE DspFlushFails
  <2>1. /\ UNCHANGED <<caller, msg, flush_pending>> /\ Flight' \subseteq Flight \union {Refusal}
        /\ Range(toDsp)' \subseteq Range(toDsp)
        /\ Range(fromDsp)' = Range(fromDsp) \union {Refusal}
        BY <1>9, RefuseFacts
  <2>2. ~ IsToken(Refusal) /\ Answering' = Answering
        BY <2>1, RefusalMessage DEF Answering
  <2> HIDE DEF Refusal
  <2> QED BY <1>a, <2>1, <2>2 DEF Tokens
<1> QED BY <1>1, <1>2, <1>3, <1>4, <1>5, <1>6, <1>7, <1>8, <1>9, StepKinds

\* A stream control is never taken for a flush, nor a flush for one.
LEMMA FlagsStep ==
    ASSUME Types, ~ OverlapCtrl, Idle, Forms, Tokens, Flags, Ordered, Answers, [Next]_vars
    PROVE  Flags'
<1> DEFINE flushed == msg.pc = "call" /\ msg.event = "flushed"
<1>a. \A m : IsBlock(m)' = IsBlock(m)
      BY DEF IsBlock
<1>b. /\ flush_pending[Out] => caller.next = "flush" /\ caller.put.stream = Out /\ ~ flushed
      /\ \A m \in Flight : IsBlock(m) => ~ flush_pending[Out] /\ m.addr \in control["strm"]
      BY DEF Flags
<1>c. /\ caller.pc \in {"none", "ready"} => ~ flush_pending[Out]
      /\ caller.pc = "stop" => ~ flush_pending[Out]
      BY <1>b, NullApart DEF Tokens
<1>d. ASSUME flush_pending'[Out] => caller'.next = "flush" /\ caller'.put.stream = Out /\ ~ flushed',
             \A m \in Flight' : IsBlock(m) => ~ flush_pending'[Out] /\ m.addr \in control'["strm"]
      PROVE  Flags'
      BY <1>a, <1>d DEF Flags
<1>e. ASSUME \A m \in Flight' : m \in Flight \/ ~ IsBlock(m),
             flush_pending' = flush_pending, control["strm"] \subseteq control'["strm"],
             flush_pending[Out] => caller'.next = caller.next /\ caller'.put = caller.put
                                   /\ (flushed' => flushed)
      PROVE  Flags'
  <2> HIDE DEF flushed
  <2> QED BY <1>b, <1>d, <1>e
<1> HIDE DEF flushed
<1>1. CASE QuietStep
  <2>1. UNCHANGED <<queues, flush_pending, control>> /\ Putter' \subseteq Putter
        BY <1>1, QuietFacts
  <2>2. Flight' \subseteq Flight
        BY <2>1, MotionNone DEF queues
  <2>3. ASSUME flush_pending[Out]
        PROVE  caller'.next = caller.next /\ caller'.put = caller.put /\ (flushed' => flushed)
    <3>1. CASE InitMMCodec
      <4>1. caller.pc = "none"
            BY <3>1 DEF InitMMCodec
      <4> QED BY <1>c, <2>3, <4>1
    <3>2. CASE PutMessageFails \/ ControlDestroy
      <4>1. caller \in CallerType
            BY DEF Types
      <4>2. caller'.next = caller.next /\ caller'.put = caller.put /\ msg' = msg
            BY <4>1, <3>2 DEF PutMessageFails, ControlDestroy, CallerType
      <4> QED BY <4>2 DEF flushed
    <3>3. CASE MsgCallback
      <4>1. msg'.pc \in {"wait", "read"} /\ msg.pc = "call"
            BY <3>3 DEF MsgCallback, Quiet, Types, MsgType
      <4>2. \/ caller' = caller
            \/ msg.event = "stopped" /\ caller.pc = "stop"
            \/ msg.event = "flushed"
            BY <3>3 DEF MsgCallback
      <4>3. caller' = caller
            BY <1>b, <1>c, <2>3, <4>1, <4>2 DEF flushed
      <4> QED BY <4>1, <4>3 DEF flushed
    <3>4. CASE ControlBlockFull \/ MsgLeave \/ MsgWake \/ MsgFault \/ MsgEmpty \/ DspFault \/ UNCHANGED vars
      <4>1. caller' = caller
            BY <3>4 DEF ControlBlockFull, MsgLeave, MsgWake, MsgFault, MsgEmpty, DspFault, vars
      <4>2. flushed' => flushed
        <5>1. CASE ControlBlockFull \/ DspFault \/ UNCHANGED vars
              BY <5>1 DEF ControlBlockFull, DspFault, vars, flushed
        <5>2. CASE MsgLeave \/ MsgWake \/ MsgFault \/ MsgEmpty
              BY <5>2, NoAnswer DEF flushed
        <5> QED BY <3>4, <5>1, <5>2
      <4> QED BY <4>1, <4>2
    <3> QED BY <1>1, <3>1, <3>2, <3>3, <3>4 DEF QuietStep
  <2> QED BY <1>e, <2>1, <2>2, <2>3
<1>2. CASE FailStep
  <2>1. /\ UNCHANGED <<queues, flush_pending>> /\ Putter' \subseteq Putter /\ caller.pc = "ready"
        /\ control["strm"] \subseteq control'["strm"]
        BY <1>2, FailFacts
  <2>2. Flight' \subseteq Flight
        BY <2>1, MotionNone DEF queues
  <2> QED BY <1>c, <1>e, <2>1, <2>2
<1>3. CASE NewStep
  <2> DEFINE x == caller'.put
  <2>1. /\ UNCHANGED <<queues, msg>> /\ Putter = {} /\ Putter' = {x} /\ caller.pc = "ready"
        BY <1>3, NewFacts
  <2>2. Flight' = Flight \union {x}
        BY <2>1, MotionNew DEF queues
  <2>3. ~ flush_pending[Out] /\ ~ flushed
        BY <1>c, <2>1 DEF Answers, flushed
  <2>4. /\ x.cmd \in {"FLUSH", "STOP"} => caller'.next # "ready"
        /\ caller'.next \in {"ready", "flush", "stop"}
        /\ x.cmd = "STOP" <=> caller'.next = "stop"
        /\ \/ IsBlock(x) /\ ControlBlock("strm") /\ x.addr = Min(FreeControl("strm"))
           \/ ~ IsBlock(x)
        /\ control' = control \/ ControlBlock("alg") \/ ControlBlock("strm")
        /\ \/ \E s \in Streams : ControlFlush(s) /\ x.cmd = "FLUSH" /\ x.stream = s
           \/ x.cmd # "FLUSH" /\ UNCHANGED flush_pending
        BY <1>3, NewMessage DEF IsToken
  <2> HIDE DEF x
  <2>5. CASE \E s \in Streams : ControlFlush(s) /\ x.cmd = "FLUSH" /\ x.stream = s
    <3>1. PICK s \in Streams : ControlFlush(s) /\ x.cmd = "FLUSH" /\ x.stream = s
          BY <2>5
    <3>2. control["strm"] = {} /\ flush_pending' = [flush_pending EXCEPT ![s] = TRUE]
          BY <3>1 DEF ControlFlush
    <3>3. \A m \in Flight' : ~ IsBlock(m)
          BY <1>b, <2>2, <3>1, <3>2 DEF IsBlock
    <3>4. flush_pending'[Out] => s = Out
          BY <2>3, <3>2 DEF Types, FlagType
    <3>5. caller'.next = "flush"
          BY <2>4, <3>1
    <3>6. ~ flushed'
          BY <2>1, <2>3 DEF flushed
    <3> QED BY <1>d, <3>1, <3>3, <3>4, <3>5, <3>6 DEF x
  <2>6. CASE UNCHANGED flush_pending
    <3>1. control["strm"] \subseteq control'["strm"]
          /\ (ControlBlock("strm") => Min(FreeControl("strm")) \in control'["strm"])
      <4>1. CASE control' = control /\ ~ ControlBlock("strm")
            BY <4>1
      <4>2. CASE ControlBlock("alg") \/ ControlBlock("strm")
        <5>1. PICK k \in Tables : ControlBlock(k) /\ (ControlBlock("strm") => k = "strm")
              BY <4>2 DEF Tables
        <5>2. control' = [control EXCEPT ![k] = @ \union {Min(FreeControl(k))}]
              BY <5>1 DEF ControlBlock
        <5>3. control \in [Tables -> SUBSET Slots]
              BY DEF Types, TableType
        <5> QED BY <5>1, <5>2, <5>3 DEF Tables
      <4> QED BY <2>4, <4>1, <4>2
    <3>2. \A m \in Flight' : IsBlock(m) => m.addr \in control'["strm"]
          BY <1>b, <2>2, <2>4, <3>1
    <3> QED BY <1>d, <2>3, <2>6, <3>2
  <2> QED BY <2>4, <2>5, <2>6
<1>4. CASE ReadStep
  <2> DEFINE h == Head(fromDsp)
  <2>1. /\ Putter' = Putter /\ UNCHANGED <<dspHeld, toDsp, caller>>
        /\ fromDsp # << >> /\ fromDsp' = Tail(fromDsp)
        BY <1>4, ReadFacts
  <2>2. Flight' \subseteq Flight /\ \A n \in Flight' : Ahead(h, n)
        BY <2>1, MotionRead
  <2>3. CASE MsgStop \/ MsgStrmCtrl
    <3>1. \/ msg'.event = "stopped" /\ UNCHANGED <<control, flush_pending>>
          \/ /\ flush_pending' = [flush_pending EXCEPT ![Dir(h.stream)] = FALSE]
             /\ control' = control /\ caller.put.stream = h.stream /\ h \in Msg
          \/ /\ IsBlock(h) /\ msg'.event = "strmack" /\ UNCHANGED flush_pending
             /\ control' = [control EXCEPT !["strm"] = @ \ {h.addr}]
          \/ msg'.event = "strmack" /\ UNCHANGED <<control, flush_pending>>
          BY <2>3, AckKinds
    <3> HIDE DEF h
    <3>2. CASE msg'.event \in {"stopped", "strmack"} /\ UNCHANGED <<control, flush_pending>>
          BY <1>e, <2>1, <2>2, <3>2 DEF flushed
    <3>3. CASE /\ flush_pending' = [flush_pending EXCEPT ![Dir(h.stream)] = FALSE]
               /\ control' = control /\ caller.put.stream = h.stream /\ h \in Msg
      <4>1. Dir(Out) = Out /\ Out \in 0..3 /\ Dir(h.stream) \in 0..3
            BY <3>3 DEF Dir, Out, Msg
      <4>2. flush_pending \in [0..3 -> BOOLEAN]
            BY DEF Types, FlagType
      <4>3. flush_pending'[Out] => flush_pending[Out] /\ Dir(h.stream) # Out
            BY <3>3, <4>1, <4>2
      <4>4. ~ flush_pending'[Out]
            BY <1>b, <3>3, <4>1, <4>3
      <4> QED BY <1>b, <1>d, <2>2, <3>3, <4>4
    <3>4. CASE /\ IsBlock(h) /\ msg'.event = "strmack" /\ UNCHANGED flush_pending
               /\ control' = [control EXCEPT !["strm"] = @ \ {h.addr}]
      <4>1. \A m \in Flight' : IsBlock(m) => m.addr # h.addr
            BY <2>2, <3>4 DEF Ordered, Apart
      <4>2. control'["strm"] = control["strm"] \ {h.addr}
            BY <3>4 DEF Types, TableType, Tables
      <4>3. ~ flushed'
            BY <3>4 DEF flushed
      <4> QED BY <1>b, <1>d, <2>1, <2>2, <3>4, <4>1, <4>2, <4>3
    <3> QED BY <3>1, <3>2, <3>3, <3>4
  <2>4. CASE MsgBuffFree \/ MsgAlgCtrl \/ MsgPause
    <3>1. ~ Answering' /\ UNCHANGED flush_pending /\ control'["strm"] = control["strm"]
          BY <2>4, OtherReads
    <3>2. ~ flushed'
          BY <3>1 DEF Answering, flushed
    <3> QED BY <1>e, <2>1, <2>2, <3>1, <3>2
  <2> QED BY <1>4, <2>3, <2>4 DEF ReadStep
<1>5. CASE PutMessage
  <2>1. /\ UNCHANGED <<fromDsp, dspHeld, flush_pending, control, msg>>
        /\ caller.put \in Msg /\ Putter = {caller.put} /\ Putter' = {}
        /\ toDsp' = Append(toDsp, caller.put)
        /\ caller.next # "ready" => caller'.next = caller.next /\ caller'.put = caller.put
        BY <1>5, PutFacts
  <2>2. Flight' = Flight
        BY <2>1, MotionPut
  <2>3. flushed' = flushed
        BY <2>1 DEF flushed
  <2> QED BY <1>b, <1>e, <2>1, <2>2, <2>3
<1>6. CASE DspTake
  <2> DEFINE x == Head(toDsp)
  <2>1. /\ Putter' = Putter /\ toDsp # << >> /\ toDsp' = Tail(toDsp)
        /\ UNCHANGED <<caller, flush_pending, control, msg>>
        /\ x \in Msg /\ x \in Range(toDsp) /\ x.stream \in 0..3
        BY <1>6, TakeFacts
  <2>2. flushed' = flushed
        BY <2>1 DEF flushed
  <2>3. CASE Flight' \subseteq Flight
        BY <1>e, <2>1, <2>2, <2>3
  <2>4. CASE x.cmd = "SETBUFF" /\ UNCHANGED fromDsp
             /\ dspHeld' = [dspHeld EXCEPT ![x.stream] = Append(@, x)]
        BY <2>1, <2>3, <2>4, MotionTake
  <2>5. CASE x.cmd = "PLAY" /\ UNCHANGED <<dspHeld, fromDsp>>
        BY <2>1, <2>3, <2>5, MotionPlay
  <2>6. ASSUME NEW t \in Msg, Answered(x, t), fromDsp' = Append(fromDsp, t),
               \A s \in 0..3 : dspHeld'[s] \in {<< >>, dspHeld[s]}
        PROVE  Flags'
    <3>1. Flight' \subseteq Flight \union {t}
          BY <2>1, <2>6, MotionAnswer
    <3>2. Shape(x) /\ ~ (x.cmd = "STRMCTRL" /\ x.addr = NULL) /\ x \in Flight
          BY <2>1 DEF Forms, Flight
    <3>3. IsBlock(t) => IsBlock(x) /\ t.addr = x.addr
          BY <2>1, <2>6, <3>2, AnsweredMessage
    <3> HIDE DEF x
    <3>4. \A m \in Flight' : IsBlock(m) => ~ flush_pending'[Out] /\ m.addr \in control'["strm"]
          BY <1>b, <2>1, <3>1, <3>2, <3>3
    <3> QED BY <1>b, <1>d, <2>1, <2>2, <3>4
  <2> QED BY <1>6, <2>4, <2>5, <2>6, TakeKinds
<1>7. ASSUME NEW s \in Streams, DspReturn(s) PROVE Flags'
  <2> DEFINE x == Head(dspHeld[s])
             t == Returns(x)
  <2>1. /\ UNCHANGED <<toDsp, flush_pending, control, msg, caller>>
        /\ Putter' = Putter /\ s \in 0..3 /\ dspHeld[s] # << >>
        /\ dspHeld' = [dspHeld EXCEPT ![s] = Tail(@)]
        /\ x \in Msg /\ x \in Range(dspHeld[s]) /\ x \in Flight
        /\ t \in Msg /\ fromDsp' = Append(fromDsp, t)
        BY <1>7, ReturnFacts
  <2>2. Flight' \subseteq Flight \union {t}
        BY <2>1, MotionReturn
  <2>3. x.cmd = "SETBUFF" /\ Shape(x)
        BY <2>1 DEF Forms
  <2>4. ~ IsBlock(t)
        BY <2>1, <2>3, ReturnedMessage
  <2>5. flushed' = flushed
        BY <2>1 DEF flushed
  <2> HIDE DEF x, t
  <2> QED BY <1>b, <1>d, <2>1, <2>2, <2>4, <2>5
<1>8. CASE Destroyed
  <2>1. Flight' = {} /\ flush_pending' = [r \in 0..3 |-> FALSE]
        BY <1>8, DestroyedFacts
  <2>2. ~ flush_pending'[Out]
        BY <2>1 DEF Out
  <2> QED BY <1>d, <2>1, <2>2
<1>9. CASE DspFlushFails
  <2>1. UNCHANGED <<caller, msg, flush_pending, control>> /\ Flight' \subseteq Flight \union {Refusal}
        BY <1>9, RefuseFacts DEF bridge
  <2>2. ~ IsBlock(Refusal) /\ flushed' = flushed
        BY <2>1, RefusalMessage DEF flushed
  <2> QED BY <1>e, <2>1, <2>2
<1> QED BY <1>1, <1>2, <1>3, <1>4, <1>5, <1>6, <1>7, <1>8, <1>9, StepKinds

-----------------------------------------------------------------------------
(* The rings and the messages under way.                                   *)

\* Every buffer under way is in a slot, with its mapping.
Found == \A m \in Flight : IsData(m) => \E i \in Slots : dmm[Dir(m.stream)][i] = m.addr

\* What is ahead was queued before.
Older(d, a, b) == \A i, j \in Slots :
    storage[d][i] = a /\ storage[d][j] = b => Age(d, i) < Age(d, j)
Aging == \A m, n :
    Ahead(m, n) /\ IsData(m) /\ IsData(n) /\ Dir(m.stream) = Dir(n.stream)
        => Older(Dir(m.stream), m.addr, n.addr)

\* A slot in use waits for its buffer to come back, or the DSP dropped the
\* buffer because of a request whose acknowledgement will empty the slot;
\* then every buffer of the direction still under way is older.
Takes(t, d) == IsToken(t) /\ (IF t.cmd = "STOP" THEN ~ codec.dasf ELSE Dir(t.stream) = d)
Lost(d) == \E t \in Range(fromDsp) : Takes(t, d)
Known(d, i) == \E m \in Flight : IsData(m) /\ m.addr = storage[d][i]
Youngest(d, i) == \A m \in Flight : IsData(m) /\ Dir(m.stream) = d =>
    \A j \in Slots : storage[d][j] = m.addr => Age(d, j) < Age(d, i)
Covered == Running => \A d \in Dirs, i \in Slots :
    storage[d][i] # NULL => Known(d, i) \/ (Lost(d) /\ Youngest(d, i))

\* A component that has not failed had not failed before.
LEMMA RunningBefore ==
    ASSUME Types, [Next]_vars, Running', ~ Destroyed PROVE Running
<1>1. CASE QuietStep
  <2>1. CASE InitMMCodec \/ ControlBlockFull
        BY <2>1 DEF InitMMCodec, ControlBlockFull, Running
  <2>2. CASE PutMessageFails
        BY <2>2 DEF PutMessageFails, Running
  <2>3. CASE ControlDestroy
    <3>1. caller'.pc = "join"
          BY <2>3 DEF ControlDestroy, Types, CallerType
    <3> QED BY <3>1 DEF Running
  <2>4. CASE MsgCallback
    <3>1. caller' = caller \/ caller.pc \in {"stop", "flush"}
          BY <2>4 DEF MsgCallback
    <3> QED BY <3>1 DEF Running
  <2>5. CASE MsgLeave \/ MsgWake \/ MsgFault \/ MsgEmpty \/ DspFault \/ UNCHANGED vars
    <3>1. caller' = caller
          BY <2>5 DEF MsgLeave, MsgWake, MsgFault, MsgEmpty, DspFault, vars
    <3> QED BY <3>1 DEF Running
  <2> QED BY <1>1, <2>1, <2>2, <2>3, <2>4, <2>5 DEF QuietStep
<1>2. CASE FailStep \/ NewStep
      BY <1>2, FailFacts, NewFacts DEF Running
<1>3. CASE ReadStep
      BY <1>3, ReadFacts DEF Running
<1>4. CASE PutMessage
      BY <1>4, PutFacts DEF Running
<1>5. CASE DspTake \/ DspFlushFails \/ \E s \in Streams : DspReturn(s)
      BY <1>5, TakeFacts, RefuseFacts, ReturnFacts DEF Running
<1> QED BY <1>1, <1>2, <1>3, <1>4, <1>5, StepKinds

\* The slots of a buffer under way: it is in the ring of its stream.
LEMMA DataSlots ==
    ASSUME Types, Forms, Rings, Found
    PROVE  /\ \A m \in Flight : IsData(m) =>
                /\ m.addr \in Buffers /\ m.addr # NULL /\ m.stream = StreamOf[m.addr]
                /\ m.stream \in 0..3 /\ m.stream \in Streams /\ Dir(m.stream) \in Dirs
                /\ \E i \in Slots : dmm[Dir(m.stream)][i] = m.addr /\ storage[Dir(m.stream)][i] = m.addr
           /\ \A m \in Flight : IsData(m) => \A d \in Dirs, i \in Slots :
                storage[d][i] = m.addr => d = Dir(m.stream)
<1>1. ASSUME NEW m \in Flight, IsData(m)
      PROVE  /\ m.addr \in Buffers /\ m.addr # NULL /\ m.stream = StreamOf[m.addr]
             /\ m.stream \in 0..3 /\ m.stream \in Streams /\ Dir(m.stream) \in Dirs
             /\ \E i \in Slots : dmm[Dir(m.stream)][i] = m.addr /\ storage[Dir(m.stream)][i] = m.addr
             /\ \A d \in Dirs, i \in Slots : storage[d][i] = m.addr => d = Dir(m.stream)
  <2>1. m.addr \in Buffers /\ m.addr # NULL /\ m.stream = StreamOf[m.addr]
        BY <1>1, NullApart DEF Forms, Shape
  <2>2. m.stream \in 0..3 /\ m.stream \in Streams /\ Dir(m.stream) \in Dirs
        BY <2>1, Directions
  <2>3. PICK i \in Slots : dmm[Dir(m.stream)][i] = m.addr
        BY <1>1 DEF Found
  <2>4. storage[Dir(m.stream)][i] = m.addr
        BY <2>1, <2>2, <2>3 DEF Rings
  <2>5. \A d \in Dirs, j \in Slots : storage[d][j] = m.addr => d = Dir(m.stream)
        BY <2>1 DEF Rings
  <2> QED BY <2>1, <2>2, <2>3, <2>4, <2>5
<1> QED BY <1>1

\* Emptying slots leaves the order of the others alone.
LEMMA OlderClear ==
    ASSUME NEW d \in Dirs, count' = count, \A i \in Slots : storage'[d][i] \in {NULL, storage[d][i]},
           NEW a, NEW b, a # NULL, b # NULL, Older(d, a, b)
    PROVE  Older(d, a, b)'
<1>1. \A i \in Slots : Age(d, i)' = Age(d, i)
      BY DEF Age
<1> QED BY <1>1 DEF Older

\* A buffer that is queued is younger than the ones before it.
LEMMA OlderQueue ==
    ASSUME Types, NEW x \in Buffers, QueueBuffer(x) \/ QueueBufferFails(x),
           \A e \in Dirs, i \in Slots : storage[e][i] # x,
           NEW d \in Dirs, NEW a, NEW b, a # x, b = x \/ Older(d, a, b)
    PROVE  Older(d, a, b)'
<1> DEFINE e == Dir(StreamOf[x])
           c == count[e]
<1>1. /\ e \in Dirs /\ c \in Slots
      /\ \A i \in Slots : IF d = e /\ i = c THEN storage'[d][i] = x ELSE storage'[d][i] = storage[d][i]
      /\ count' = [count EXCEPT ![e] = (@ + 1) % QUEUE_SIZE]
      BY Queueing
<1> HIDE DEF e
<1>2. \A i \in Slots : /\ d = e /\ i = c => Age(d, i)' = QUEUE_SIZE - 1
                       /\ d = e /\ i # c => Age(d, i)' = Age(d, i) - 1
                       /\ d # e => Age(d, i)' = Age(d, i)
      BY <1>1, AgesAfter
<1>3. \A i \in Slots : Age(d, i) \in Nat /\ Age(d, i) < QUEUE_SIZE
      BY AgeOfSlots
<1>4. QUEUE_SIZE \in Nat
      BY Directions
<1> HIDE DEF c
<1> SUFFICES ASSUME NEW i \in Slots, NEW j \in Slots, storage'[d][i] = a, storage'[d][j] = b
             PROVE  Age(d, i)' < Age(d, j)'
    BY DEF Older
<1>5. CASE d = e /\ j = c
  <2>1. i # c
        BY <1>1, <1>5
  <2> QED BY <1>2, <1>3, <1>4, <1>5, <2>1
<1>6. CASE ~ (d = e /\ j = c)
  <2>1. ~ (d = e /\ i = c)
        BY <1>1
  <2>2. storage[d][i] = a /\ storage[d][j] = b
        BY <1>1, <1>6, <2>1
  <2>3. Age(d, i) < Age(d, j)
        BY <2>2 DEF Older
  <2> QED BY <1>2, <1>3, <1>6, <2>1, <2>3
<1> QED BY <1>5, <1>6

\* A message about the same buffer.
Same(m, n) == IsData(m) /\ IsData(n) /\ n.addr = m.addr /\ n.stream = m.stream

\* Messages travel and keep their order: nothing but QueueBuffer makes a new
\* one about a buffer, and nothing but MessagingThread and QueueBuffer
\* changes the rings.
LEMMA Carried ==
    ASSUME Types, OneStream, Idle, Forms, [Next]_vars
    PROVE  \/ ReadStep \/ Destroyed \/ \E b \in Buffers : QueueBuffer(b) \/ QueueBufferFails(b)
           \/ /\ UNCHANGED <<tables, codec>>
              /\ \A m \in Flight' : IsData(m) => \E n \in Flight : Same(m, n)
              /\ \A m, n : Ahead(m, n)' /\ IsData(m) /\ IsData(n) /\ Dir(m.stream) = Dir(n.stream) =>
                    \E p, q : Ahead(p, q) /\ Same(m, p) /\ Same(n, q)
<1> DEFINE Goal == /\ \A m \in Flight' : IsData(m) => \E n \in Flight : Same(m, n)
                   /\ \A m, n : Ahead(m, n)' /\ IsData(m) /\ IsData(n) /\ Dir(m.stream) = Dir(n.stream) =>
                         \E p, q : Ahead(p, q) /\ Same(m, p) /\ Same(n, q)
<1>a. \A m : IsData(m) => Same(m, m)
      BY DEF Same
<1>b. ASSUME Flight' \subseteq Flight, \A m, n : Ahead(m, n)' => Ahead(m, n) PROVE Goal
      BY <1>a, <1>b
<1>1. CASE QuietStep
  <2>1. UNCHANGED <<queues, tables, codec>> /\ Putter' \subseteq Putter
        BY <1>1, QuietFacts
  <2>2. Flight' \subseteq Flight /\ \A m, n : Ahead(m, n)' => Ahead(m, n)
        BY <2>1, MotionNone DEF queues
  <2> QED BY <1>b, <2>1, <2>2
<1>2. CASE NewStep /\ ~ \E b \in Buffers : QueueBuffer(b)
  <2> DEFINE x == caller'.put
  <2>1. /\ UNCHANGED <<queues, codec>> /\ Putter = {} /\ Putter' = {x}
        BY <1>2, NewFacts
  <2>2. ~ IsData(x) /\ UNCHANGED tables
        BY <1>2, NewMessage
  <2>3. Flight' = Flight \union {x} /\ \A m, n : Ahead(m, n)' => Ahead(m, n) \/ (m \in Flight /\ n = x)
        BY <2>1, MotionNew DEF queues
  <2> HIDE DEF x
  <2>4. Goal
        BY <1>a, <2>2, <2>3
  <2> QED BY <2>1, <2>2, <2>4
<1>3. CASE PutMessage
  <2>1. /\ UNCHANGED <<fromDsp, dspHeld, tables, codec>>
        /\ caller.put \in Msg /\ Putter = {caller.put} /\ Putter' = {}
        /\ toDsp' = Append(toDsp, caller.put)
        BY <1>3, PutFacts
  <2>2. Flight' = Flight /\ \A m, n : Ahead(m, n)' => Ahead(m, n)
        BY <2>1, MotionPut
  <2> QED BY <1>b, <2>1, <2>2
<1>4. CASE DspTake
  <2> DEFINE x == Head(toDsp)
  <2>1. /\ Putter' = Putter /\ toDsp # << >> /\ toDsp' = Tail(toDsp)
        /\ UNCHANGED <<tables, codec>>
        /\ x \in Msg /\ x \in Range(toDsp) /\ x.stream \in 0..3
        BY <1>4, TakeFacts
  <2>2. CASE x.cmd = "SETBUFF" /\ UNCHANGED fromDsp
             /\ dspHeld' = [dspHeld EXCEPT ![x.stream] = Append(@, x)]
    <3>1. Flight' = Flight /\ \A m, n : Ahead(m, n)' => Ahead(m, n)
          BY <2>1, <2>2, MotionTake
    <3> QED BY <1>b, <2>1, <3>1
  <2>3. CASE x.cmd = "PLAY" /\ UNCHANGED <<dspHeld, fromDsp>>
    <3>1. Flight' \subseteq Flight /\ \A m, n : Ahead(m, n)' => Ahead(m, n)
          BY <2>1, <2>3, MotionPlay
    <3> QED BY <1>b, <2>1, <3>1
  <2>4. ASSUME NEW t \in Msg, Answered(x, t), fromDsp' = Append(fromDsp, t),
               \A s \in 0..3 : dspHeld'[s] \in {<< >>, dspHeld[s]}
        PROVE  Goal
    <3>1. /\ Flight' \subseteq Flight \union {t}
          /\ \A m, n : Ahead(m, n)' => Ahead(m, n) \/ n = t \/ m = t
          BY <2>1, <2>4, MotionAnswer
    <3>2. Shape(x) /\ ~ (x.cmd = "STRMCTRL" /\ x.addr = NULL)
          BY <2>1 DEF Forms, Flight
    <3>3. ~ IsData(t)
          BY <2>1, <2>4, <3>2, AnsweredMessage
    <3> HIDE DEF x
    <3> QED BY <1>a, <3>1, <3>3
  <2> HIDE DEF Goal
  <2>5. CASE \E t \in Msg : /\ Answered(x, t) /\ fromDsp' = Append(fromDsp, t)
                            /\ \A s \in 0..3 : dspHeld'[s] \in {<< >>, dspHeld[s]}
        BY <2>1, <2>4, <2>5 DEF Goal
  <2> QED BY <1>4, <2>2, <2>3, <2>5, TakeKinds
<1>5. ASSUME NEW s \in Streams, DspReturn(s) PROVE UNCHANGED <<tables, codec>> /\ Goal
  <2> DEFINE x == Head(dspHeld[s])
             t == Returns(x)
  <2>1. /\ UNCHANGED <<toDsp, tables, codec>>
        /\ Putter' = Putter /\ s \in 0..3 /\ dspHeld[s] # << >>
        /\ dspHeld' = [dspHeld EXCEPT ![s] = Tail(@)]
        /\ x \in Msg /\ x \in Range(dspHeld[s]) /\ x \in Flight
        /\ t \in Msg /\ fromDsp' = Append(fromDsp, t)
        BY <1>5, ReturnFacts
  <2>2. /\ Flight' \subseteq Flight \union {t}
        /\ \A m, n : Ahead(m, n)' =>
             \/ Ahead(m, n)
             \/ n = t /\ Ahead(m, x)
             \/ m = t /\ Ahead(x, n)
             \/ m = t /\ \E r \in 0..3 : r # s /\ n \in Range(dspHeld[r])
        BY <2>1, MotionReturn
  <2>3. x.cmd = "SETBUFF" /\ Shape(x) /\ x.stream = s
        BY <2>1 DEF Forms
  <2>4. Same(t, x) /\ t.stream = s /\ StreamOf[t.addr] = s /\ t.addr \in Buffers
        BY <2>1, <2>3, ReturnedMessage DEF Same, Shape
  <2> HIDE DEF x, t
  <2>5. ASSUME NEW n, NEW r \in 0..3, r # s, n \in Range(dspHeld[r]) PROVE Dir(n.stream) # Dir(t.stream)
    <3>1. n.stream = r /\ n.cmd = "SETBUFF" /\ n \in Held
          BY <2>5 DEF Forms, Held
    <3>2. n.addr \in Buffers /\ StreamOf[n.addr] = r
          BY <3>1 DEF Forms, Flight, Shape, IsData
    <3> QED BY <2>4, <2>5, <3>1, <3>2 DEF OneStream
  <2>6. \A m \in Flight' : IsData(m) => \E n \in Flight : Same(m, n)
        BY <1>a, <2>1, <2>2, <2>4
  <2>7. ASSUME NEW m, NEW n, Ahead(m, n)', IsData(m), IsData(n), Dir(m.stream) = Dir(n.stream)
        PROVE  \E p, q : Ahead(p, q) /\ Same(m, p) /\ Same(n, q)
    <3>1. CASE Ahead(m, n)
          BY <1>a, <2>7, <3>1
    <3>2. CASE n = t /\ Ahead(m, x)
          BY <1>a, <2>4, <2>7, <3>2
    <3>3. CASE m = t /\ Ahead(x, n)
          BY <1>a, <2>4, <2>7, <3>3
    <3>4. CASE m = t /\ \E r \in 0..3 : r # s /\ n \in Range(dspHeld[r])
          BY <2>5, <2>7, <3>4
    <3> QED BY <2>2, <2>7, <3>1, <3>2, <3>3, <3>4
  <2> QED BY <2>1, <2>6, <2>7
<1>6. CASE \E s \in Streams : DspReturn(s)
  <2>1. UNCHANGED <<tables, codec>> /\ Goal
        BY <1>5, <1>6
  <2> QED BY <2>1
<1>7. CASE FailStep /\ ~ \E b \in Buffers : QueueBufferFails(b)
  <2>1. UNCHANGED <<queues, tables, codec>> /\ Putter' \subseteq Putter
        BY <1>7, FailFacts
  <2>2. Flight' \subseteq Flight /\ \A m, n : Ahead(m, n)' => Ahead(m, n)
        BY <2>1, MotionNone DEF queues
  <2> QED BY <1>b, <2>1, <2>2
<1>8. CASE DspFlushFails
  <2>1. /\ UNCHANGED <<tables, codec>> /\ Flight' \subseteq Flight \union {Refusal}
        /\ \A m, n : Ahead(m, n)' => Ahead(m, n) \/ n = Refusal \/ m = Refusal
        BY <1>8, RefuseFacts
  <2>2. ~ IsData(Refusal)
        BY RefusalMessage
  <2>3. Goal
        BY <1>a, <2>1, <2>2
  <2> QED BY <2>1, <2>3
<1> HIDE DEF Goal
<1>9. CASE FailStep
      BY <1>7, <1>9
<1>10. CASE NewStep
      BY <1>2, <1>10
<1> QED BY <1>1, <1>3, <1>4, <1>6, <1>8, <1>9, <1>10, StepKinds DEF Goal

\* An acknowledgement empties a whole ring or leaves it alone, and leaves
\* alone the rings of the buffers that are still under way.
LEMMA AckedRings ==
    ASSUME Types, OneStream, Forms, Tokens, Flags, Ordered, Rings, MsgStop \/ MsgStrmCtrl
    PROVE  LET h == Head(fromDsp)
           IN  /\ \A d \in Dirs : IF Takes(h, d) THEN Acked[d] = Occupied(d) ELSE Acked[d] = {}
               /\ \A d \in Dirs : \A i \in Slots : storage'[d][i] = IF Takes(h, d) THEN NULL ELSE storage[d][i]
               /\ \A d \in Dirs : \A i \in Slots : dmm'[d][i] = IF Takes(h, d) THEN NULL ELSE dmm[d][i]
               /\ \A m \in Flight' : IsData(m) => ~ Takes(h, Dir(m.stream))
               /\ IsToken(h) => \A m \in Flight' : ~ IsToken(m)
               /\ IsToken(h) /\ h.cmd = "STOP" => \A m \in Flight' : ~ IsData(m)
<1> DEFINE h == Head(fromDsp)
<1>1. /\ h \in Msg /\ h \in Flight /\ Shape(h)
      /\ \/ /\ IsToken(h) /\ h.cmd = "STOP"
            /\ Acked = [d \in Dirs |-> IF codec.dasf THEN {} ELSE Occupied(d)]
         \/ /\ IsToken(h) /\ h.cmd = "STRMCTRL" /\ Acked = FlushedSlots(h.stream)
         \/ /\ ~ IsToken(h) /\ Acked = [d \in Dirs |-> {}]
      BY AckKinds
<1>2. ReadStep
      BY DEF ReadStep
<1>3. IsToken(h) => /\ \A m \in Flight' : ~ IsToken(m)
                    /\ \A m \in Flight' : IsData(m) => h.cmd # "STOP" /\ Dir(h.stream) # Dir(m.stream)
      BY <1>2, LastToken
<1>4. ClearSlots(Acked)
      BY Acks
<1> HIDE DEF h
<1>5. ASSUME NEW d \in Dirs PROVE IF Takes(h, d) THEN Acked[d] = Occupied(d) ELSE Acked[d] = {}
  <2>1. CASE IsToken(h) /\ h.cmd = "STOP" /\ Acked = [e \in Dirs |-> IF codec.dasf THEN {} ELSE Occupied(e)]
        BY <2>1 DEF Takes
  <2>2. CASE IsToken(h) /\ h.cmd = "STRMCTRL" /\ Acked = FlushedSlots(h.stream)
    <3>1. Takes(h, d) <=> d = Dir(h.stream)
          BY <2>2 DEF Takes
    <3>2. d # Dir(h.stream) => Acked[d] = {}
          BY <2>2 DEF FlushedSlots
    <3>3. d = Dir(h.stream) =>
            Acked[d] = { i \in Occupied(d) : h.stream \in {2, 3} => StreamOf[storage[d][i]] = h.stream }
          BY <2>2 DEF FlushedSlots
    <3>4. ASSUME d = Dir(h.stream), NEW i \in Occupied(d) PROVE StreamOf[storage[d][i]] = h.stream
      <4>1. i \in Slots /\ storage[d][i] \in Buffers /\ Dir(StreamOf[storage[d][i]]) = d
            BY <3>4 DEF Occupied, Rings, Types, RingType
      <4>2. h.stream \in Streams
            BY <1>1, <2>2 DEF Shape
      <4>3. PICK b \in Buffers : StreamOf[b] = h.stream
            BY <4>2 DEF Streams
      <4> QED BY <3>4, <4>1, <4>3 DEF OneStream
    <3> QED BY <3>1, <3>2, <3>3, <3>4
  <2>3. CASE ~ IsToken(h) /\ Acked = [e \in Dirs |-> {}]
        BY <2>3 DEF Takes
  <2> QED BY <1>1, <2>1, <2>2, <2>3
<1>6. \A d \in Dirs : \A i \in Slots : storage'[d][i] = IF Takes(h, d) THEN NULL ELSE storage[d][i]
  <2> SUFFICES ASSUME NEW d \in Dirs, NEW i \in Slots
               PROVE  storage'[d][i] = IF Takes(h, d) THEN NULL ELSE storage[d][i]
      OBVIOUS
  <2>1. storage'[d][i] = IF i \in Acked[d] THEN NULL ELSE storage[d][i]
        BY <1>4, Emptied
  <2> QED BY <1>5, <2>1 DEF Occupied
<1>7. \A d \in Dirs : \A i \in Slots : dmm'[d][i] = IF Takes(h, d) THEN NULL ELSE dmm[d][i]
  <2> SUFFICES ASSUME NEW d \in Dirs, NEW i \in Slots
               PROVE  dmm'[d][i] = IF Takes(h, d) THEN NULL ELSE dmm[d][i]
      OBVIOUS
  <2>1. dmm'[d][i] = IF i \in Acked[d] THEN NULL ELSE dmm[d][i]
        BY <1>4, Emptied
  <2>2. i \in Occupied(d) \/ dmm[d][i] = NULL
        BY DEF Occupied, Rings
  <2> QED BY <1>5, <2>1, <2>2
<1>8. \A m \in Flight' : IsData(m) => ~ Takes(h, Dir(m.stream))
      BY <1>3 DEF Takes
<1> QED BY <1>3, <1>5, <1>6, <1>7, <1>8 DEF h

\* MessagingThread's other acknowledgements leave the rings alone.
LEMMA OtherRings ==
    ASSUME Types, MsgAlgCtrl \/ MsgPause
    PROVE  UNCHANGED <<tables, codec>> /\ ~ IsData(Head(fromDsp)) /\ ~ IsToken(Head(fromDsp))
<1>1. CASE MsgAlgCtrl
      BY <1>1 DEF MsgAlgCtrl, IsData, IsToken
<1>2. CASE MsgPause
      BY <1>2 DEF MsgPause, IsData, IsToken
<1> QED BY <1>1, <1>2

\* A returned buffer is found, in one slot.
LEMMA FreedIsFound ==
    ASSUME Types, Forms, Rings, Found, MsgBuffFree
    PROVE  LET h == Head(fromDsp)
               d == Dir(h.stream)
           IN  /\ h \in Flight /\ IsData(h) /\ ~ IsToken(h) /\ h.addr \in Buffers
               /\ d \in Dirs /\ FreedSlot \in Slots
               /\ dmm[d][FreedSlot] = h.addr /\ storage[d][FreedSlot] = h.addr
               /\ \A e \in Dirs, i \in Slots :
                    IF e = d /\ i = FreedSlot THEN storage'[e][i] = NULL /\ dmm'[e][i] = NULL
                    ELSE storage'[e][i] = storage[e][i] /\ dmm'[e][i] = dmm[e][i]
               /\ mapped' = UnMap(ReleasedBy(Freed)) /\ ClearSlots(Freed)
<1> DEFINE h == Head(fromDsp)
           d == Dir(h.stream)
<1>1. ReadStep
      BY DEF ReadStep
<1>2. h \in Flight /\ h.cmd = "BUFF_FREE"
      BY <1>1, ReadFacts, BuffFree
<1>3. IsData(h) /\ ~ IsToken(h)
      BY <1>2 DEF IsData, IsToken
<1>4. h.addr \in Buffers /\ d \in Dirs /\ h.addr # NULL
      /\ \E i \in Slots : dmm[d][i] = h.addr /\ storage[d][i] = h.addr
      BY <1>2, <1>3, DataSlots
<1>5. SlotsWith(d, h.addr) # {}
      BY <1>4 DEF SlotsWith, Occupied
<1>6. /\ FreedSlot \in Slots /\ dmm[d][FreedSlot] = h.addr
      /\ ClearSlots(Freed) /\ mapped' = UnMap(ReleasedBy(Freed))
      BY <1>5, BuffFree
<1>7. storage[d][FreedSlot] = h.addr
      BY <1>4, <1>6 DEF Rings
<1>8. Freed = [e \in Dirs |-> IF e = d THEN {FreedSlot} ELSE {}]
      BY DEF Freed
<1>9. \A e \in Dirs, i \in Slots :
        IF e = d /\ i = FreedSlot THEN storage'[e][i] = NULL /\ dmm'[e][i] = NULL
        ELSE storage'[e][i] = storage[e][i] /\ dmm'[e][i] = dmm[e][i]
  <2> SUFFICES ASSUME NEW e \in Dirs, NEW i \in Slots
               PROVE  IF e = d /\ i = FreedSlot THEN storage'[e][i] = NULL /\ dmm'[e][i] = NULL
                      ELSE storage'[e][i] = storage[e][i] /\ dmm'[e][i] = dmm[e][i]
      OBVIOUS
  <2> HIDE DEF d
  <2>1. i \in Freed[e] <=> e = d /\ i = FreedSlot
        BY <1>8
  <2> QED BY <1>6, <2>1, Emptied
<1> QED BY <1>2, <1>3, <1>4, <1>6, <1>7, <1>9

\* QueueBuffer, and the messages under way.
LEMMA QueueMotion ==
    ASSUME Types, NEW b \in Buffers, QueueBuffer(b) \/ QueueBufferFails(b)
    PROVE  LET x == Message("SETBUFF", StreamOf[b], b)
           IN  /\ IsData(x) /\ x.addr = b /\ x.stream = StreamOf[b]
               /\ Flight \subseteq Flight'
               /\ \A m \in Flight' : m \in Flight \/ (QueueBuffer(b) /\ m = x)
               /\ QueueBuffer(b) => x \in Flight'
               /\ \A m, n : Ahead(m, n)' => Ahead(m, n) \/ (m \in Flight /\ n = x)
<1> DEFINE x == Message("SETBUFF", StreamOf[b], b)
<1>1. IsData(x) /\ x.addr = b /\ x.stream = StreamOf[b]
      BY DEF Message, IsData
<1> HIDE DEF x
<1>2. CASE QueueBufferFails(b) /\ ~ QueueBuffer(b)
  <2>1. UNCHANGED queues /\ Putter' = {} /\ Putter = {}
        BY <1>2, FailFacts DEF FailStep
  <2>2. Flight' = Flight /\ \A m, n : Ahead(m, n)' => Ahead(m, n)
        BY <2>1, MotionNone DEF queues
  <2> QED BY <1>1, <1>2, <2>2 DEF x
<1>3. CASE QueueBuffer(b)
  <2>1. NewStep
        BY <1>3 DEF NewStep
  <2>2. caller'.put = x
        BY <1>3 DEF QueueBuffer, Putting, x
  <2>3. UNCHANGED queues /\ Putter = {} /\ Putter' = {x}
        BY <2>1, <2>2, NewFacts
  <2>4. Flight' = Flight \union {x} /\ \A m, n : Ahead(m, n)' => Ahead(m, n) \/ (m \in Flight /\ n = x)
        BY <2>3, MotionNew DEF queues
  <2> QED BY <1>1, <1>3, <2>4 DEF x
<1> QED BY <1>2, <1>3

\* Every step keeps each buffer under way in a slot of its ring.
LEMMA FoundStep ==
    ASSUME Types, OneStream, RingsFit, Idle, Forms, Tokens, Flags, Ordered, Rings, Lending, Contiguous,
           Found, Aging, [Next]_vars
    PROVE  Found'
<1> SUFFICES ASSUME NEW m \in Flight', IsData(m) PROVE \E i \in Slots : dmm'[Dir(m.stream)][i] = m.addr
    BY DEF Found, IsData
<1>1. ASSUME NEW n \in Flight, Same(m, n)
      PROVE  /\ Dir(m.stream) \in Dirs /\ m.addr \in Buffers /\ m.addr # NULL
             /\ \E i \in Slots : dmm[Dir(m.stream)][i] = m.addr /\ storage[Dir(m.stream)][i] = m.addr
      BY <1>1, DataSlots DEF Same
<1>2. Same(m, m)
      BY DEF Same
<1>3. CASE Destroyed
      BY <1>3, DestroyedFacts
<1>4. CASE \E b \in Buffers : QueueBuffer(b) \/ QueueBufferFails(b)
  <2>1. PICK b \in Buffers : QueueBuffer(b) \/ QueueBufferFails(b)
        BY <1>4
  <2> DEFINE d == Dir(StreamOf[b])
             c == count[d]
  <2>2. /\ d \in Dirs /\ c \in Slots /\ caller.pc = "ready" /\ b \notin lent
        /\ \A e \in Dirs, i \in Slots :
             IF e = d /\ i = c THEN dmm'[e][i] = IF QueueBuffer(b) THEN b ELSE NULL
             ELSE dmm'[e][i] = dmm[e][i]
        BY <2>1, Queueing
  <2>3. dmm[d][c] = NULL
        BY <2>2, SlotFree
  <2>4. m \in Flight \/ (QueueBuffer(b) /\ m.addr = b /\ m.stream = StreamOf[b])
        BY <2>1, QueueMotion
  <2> HIDE DEF d, c
  <2>5. CASE m \in Flight
    <3>1. PICK i \in Slots : dmm[Dir(m.stream)][i] = m.addr
          BY <1>1, <1>2, <2>5
    <3>2. Dir(m.stream) \in Dirs /\ m.addr # NULL
          BY <1>1, <1>2, <2>5
    <3> QED BY <2>2, <2>3, <3>1, <3>2
  <2>6. CASE QueueBuffer(b) /\ m.addr = b /\ m.stream = StreamOf[b]
        BY <2>2, <2>6 DEF d
  <2> QED BY <2>4, <2>5, <2>6
<1>5. CASE ReadStep
  <2> DEFINE h == Head(fromDsp)
  <2>1. m \in Flight /\ Ahead(h, m)
        BY <1>5, ReadFacts, MotionRead
  <2>2. PICK i \in Slots : dmm[Dir(m.stream)][i] = m.addr /\ storage[Dir(m.stream)][i] = m.addr
        BY <1>1, <1>2, <2>1
  <2>3. Dir(m.stream) \in Dirs
        BY <1>1, <1>2, <2>1
  <2>4. CASE MsgBuffFree
    <3>1. ASSUME Dir(m.stream) = Dir(h.stream), i = FreedSlot PROVE FALSE
      <4>1. IsData(h) /\ storage[Dir(h.stream)][FreedSlot] = h.addr
            BY <2>4, FreedIsFound
      <4>2. Older(Dir(h.stream), h.addr, m.addr)
            BY <2>1, <3>1, <4>1 DEF Aging
      <4>3. Age(Dir(h.stream), i) < Age(Dir(h.stream), i)
            BY <2>2, <3>1, <4>1, <4>2 DEF Older
      <4>4. Age(Dir(h.stream), i) \in Nat
            BY <2>3, <3>1, AgeOfSlots
      <4> QED BY <4>3, <4>4
    <3>2. dmm'[Dir(m.stream)][i] = dmm[Dir(m.stream)][i]
          BY <2>3, <2>4, <3>1, FreedIsFound
    <3> QED BY <2>2, <3>2
  <2>5. CASE MsgStop \/ MsgStrmCtrl
        BY <2>2, <2>3, <2>5, AckedRings
  <2>6. CASE MsgAlgCtrl \/ MsgPause
        BY <2>2, <2>6, OtherRings DEF tables
  <2> QED BY <1>5, <2>4, <2>5, <2>6 DEF ReadStep
<1>6. CASE UNCHANGED tables /\ \E n \in Flight : Same(m, n)
  <2>1. dmm' = dmm
        BY <1>6 DEF tables
  <2> QED BY <1>1, <1>6, <2>1
<1> QED BY <1>3, <1>4, <1>5, <1>6, Carried

\* Every step keeps the order of the messages the order of the slots.
LEMMA AgingStep ==
    ASSUME Types, OneStream, RingsFit, Idle, Forms, Tokens, Flags, Ordered, Rings, Lending, Contiguous,
           Found, Aging, [Next]_vars
    PROVE  Aging'
<1> SUFFICES ASSUME NEW m, NEW n, Ahead(m, n)', IsData(m), IsData(n), Dir(m.stream) = Dir(n.stream)
             PROVE  Older(Dir(m.stream), m.addr, n.addr)'
    BY DEF Aging, IsData
<1> DEFINE d == Dir(m.stream)
<1>1. ASSUME NEW p, NEW q, Ahead(p, q), Same(m, p), Same(n, q)
      PROVE  /\ Older(d, m.addr, n.addr) /\ d \in Dirs /\ m.addr # NULL /\ n.addr # NULL
             /\ \E e \in Dirs, i \in Slots : storage[e][i] = m.addr
             /\ m.addr \in Buffers
  <2>1. p \in Flight /\ q \in Flight
        BY <1>1, FlightTypes
  <2>2. Older(Dir(p.stream), p.addr, q.addr)
        BY <1>1 DEF Aging, Same
  <2> QED BY <1>1, <2>1, <2>2, DataSlots DEF Same
<1>2. Same(m, m) /\ Same(n, n)
      BY DEF Same
<1> HIDE DEF d
<1>3. CASE Destroyed
      BY <1>3, DestroyedFacts
<1>4. CASE \E b \in Buffers : QueueBuffer(b) \/ QueueBufferFails(b)
  <2>1. PICK b \in Buffers : QueueBuffer(b) \/ QueueBufferFails(b)
        BY <1>4
  <2>2. caller.pc = "ready" /\ b \notin lent
        BY <2>1, Queueing
  <2>3. \A e \in Dirs, i \in Slots : storage[e][i] # b
        BY <2>2, SlotFree
  <2>4. Ahead(m, n) \/ (m \in Flight /\ n.addr = b)
        BY <2>1, QueueMotion
  <2>5. CASE Ahead(m, n)
    <3>1. Older(d, m.addr, n.addr) /\ d \in Dirs /\ m.addr # b
          BY <1>1, <1>2, <2>3, <2>5
    <3> QED BY <2>1, <2>3, <3>1, OlderQueue DEF d
  <2>6. CASE m \in Flight /\ n.addr = b
    <3>1. d \in Dirs /\ m.addr # b
          BY <2>3, <2>6, DataSlots DEF d
    <3> QED BY <2>1, <2>3, <2>6, <3>1, OlderQueue DEF d
  <2> QED BY <2>4, <2>5, <2>6
<1>5. CASE ReadStep
  <2>1. Ahead(m, n)
        BY <1>5, ReadFacts, MotionRead
  <2>2. Older(d, m.addr, n.addr) /\ d \in Dirs /\ m.addr # NULL /\ n.addr # NULL
        BY <1>1, <1>2, <2>1
  <2>3. \A i \in Slots : storage'[d][i] \in {NULL, storage[d][i]}
    <3>1. CASE MsgBuffFree
          BY <2>2, <3>1, FreedIsFound
    <3>2. CASE MsgStop \/ MsgStrmCtrl
          BY <2>2, <3>2, AckedRings
    <3>3. CASE MsgAlgCtrl \/ MsgPause
          BY <3>3, OtherRings DEF tables
    <3> QED BY <1>5, <3>1, <3>2, <3>3 DEF ReadStep
  <2>4. count' = count
        BY <1>5, ReadFacts
  <2> QED BY <2>2, <2>3, <2>4, OlderClear DEF d
<1>6. CASE UNCHANGED tables /\ \E p, q : Ahead(p, q) /\ Same(m, p) /\ Same(n, q)
  <2>1. Older(d, m.addr, n.addr) /\ d \in Dirs /\ m.addr # NULL /\ n.addr # NULL
        BY <1>1, <1>6
  <2>2. count' = count /\ storage' = storage
        BY <1>6 DEF tables
  <2> QED BY <2>1, <2>2, OlderClear DEF d
<1> QED BY <1>3, <1>4, <1>5, <1>6, Carried

\* A slot whose buffer is not under way waits for an acknowledgement that is.
LEMMA CoveredStep ==
    ASSUME Types, OneStream, RingsFit, Idle, Forms, Tokens, Flags, Ordered, Rings, Lending, Contiguous,
           Found, Aging, Covered, [Next]_vars
    PROVE  Covered'
<1>1. CASE Destroyed
      BY <1>1, DestroyedFacts DEF Covered
<1> SUFFICES ASSUME Running', ~ Destroyed, NEW d \in Dirs, NEW i \in Slots, storage'[d][i] # NULL
             PROVE  Known(d, i)' \/ (Lost(d)' /\ Youngest(d, i)')
    BY <1>1 DEF Covered
<1>2. Running
      BY RunningBefore
<1>3. storage[d][i] # NULL => Known(d, i) \/ (Lost(d) /\ Youngest(d, i))
      BY <1>2 DEF Covered
<1>a. ASSUME NEW m \in Flight', IsData(m), m.addr = storage'[d][i] PROVE Known(d, i)'
      BY <1>a DEF Known, IsData
<1>b. ASSUME codec' = codec, NEW t \in Range(fromDsp'), Takes(t, d) PROVE Lost(d)'
      BY <1>b DEF Lost, Takes, IsToken
<1>c. ASSUME count' = count, \A j \in Slots : storage'[d][j] \in {NULL, storage[d][j]}, storage[d][i] # NULL,
             \A m \in Flight' : IsData(m) => m.addr # NULL /\ \E n \in Flight : Same(m, n),
             Youngest(d, i)
      PROVE  Youngest(d, i)'
  <2>1. \A j \in Slots : Age(d, j)' = Age(d, j)
        BY <1>c DEF Age
  <2> SUFFICES ASSUME NEW m \in Flight', IsData(m), Dir(m.stream) = d, NEW j \in Slots,
                      storage'[d][j] = m.addr
               PROVE  Age(d, j)' < Age(d, i)'
      BY DEF Youngest, IsData
  <2>2. PICK n \in Flight : Same(m, n)
        BY <1>c
  <2>3. storage[d][j] = n.addr /\ IsData(n) /\ Dir(n.stream) = d
        BY <1>c, <2>2 DEF Same
  <2>4. Age(d, j) < Age(d, i)
        BY <1>c, <2>3 DEF Youngest
  <2> QED BY <2>1, <2>4
<1>d. \A m : IsData(m) => Same(m, m)
      BY DEF Same
<1>e. \A m \in Flight : IsData(m) => m.addr # NULL
      BY DataSlots
<1>f. ASSUME UNCHANGED <<tables, codec>>, Range(fromDsp) \subseteq Range(fromDsp'),
             \A m \in Flight' : IsData(m) => \E n \in Flight : Same(m, n),
             \A m \in Flight : IsData(m) => \E n \in Flight' : Same(m, n)
      PROVE  Known(d, i)' \/ (Lost(d)' /\ Youngest(d, i)')
  <2>1. storage' = storage /\ count' = count
        BY <1>f DEF tables
  <2>2. CASE Known(d, i)
    <3>1. PICK m \in Flight : IsData(m) /\ m.addr = storage[d][i]
          BY <2>2 DEF Known
    <3>2. PICK n \in Flight' : Same(m, n)
          BY <1>f, <3>1
    <3> QED BY <1>a, <2>1, <3>1, <3>2 DEF Same
  <2>3. CASE Lost(d) /\ Youngest(d, i)
    <3>1. Lost(d)'
          BY <1>b, <1>f, <2>3 DEF Lost
    <3>2. \A m \in Flight' : IsData(m) => m.addr # NULL
          BY <1>e, <1>f DEF Same
    <3>3. Youngest(d, i)'
          BY <1>c, <1>f, <2>1, <2>3, <3>2
    <3> QED BY <3>1, <3>3
  <2> QED BY <1>3, <2>1, <2>2, <2>3
<1>4. CASE QuietStep
  <2>1. UNCHANGED <<queues, tables, codec>> /\ (Putter' = Putter \/ caller'.pc = "error")
        BY <1>4, QuietFacts
  <2>2. Putter' = Putter
        BY <2>1 DEF Running
  <2>3. Flight' = Flight
        BY <2>1, <2>2, MotionNone DEF queues
  <2> QED BY <1>d, <1>f, <2>1, <2>3 DEF queues
<1>5. CASE FailStep
  <2>1. caller'.pc = "error"
        BY <1>5, FailFacts
  <2> QED BY <2>1 DEF Running
<1>12. CASE DspFlushFails
  <2>1. \A m \in Flight' : IsData(m) => m \in Flight
        BY <1>12, RefuseFacts, RefusalMessage
  <2>2. \A m \in Flight : IsData(m) => m \in Flight'
    <3>1. \A m \in Flight : m \in Flight' \/ m.cmd = "FLUSH"
          BY <1>12, RefuseFacts
    <3> QED BY <3>1 DEF IsData
  <2>3. UNCHANGED <<tables, codec>> /\ Range(fromDsp) \subseteq Range(fromDsp')
        BY <1>12, RefuseFacts
  <2> QED BY <1>d, <1>f, <2>1, <2>2, <2>3
<1>6. CASE \E b \in Buffers : QueueBuffer(b)
  <2>1. PICK b \in Buffers : QueueBuffer(b)
        BY <1>6
  <2> DEFINE x == Message("SETBUFF", StreamOf[b], b)
  <2>2. IsData(x) /\ x.addr = b /\ Flight \subseteq Flight' /\ x \in Flight'
        BY <2>1, QueueMotion
  <2> HIDE DEF x
  <2>3. /\ caller.pc = "ready"
        /\ storage'[d][i] = b \/ storage'[d][i] = storage[d][i]
        BY <2>1, Queueing
  <2>4. CASE storage'[d][i] = b
        BY <1>a, <2>2, <2>4
  <2>5. CASE storage'[d][i] = storage[d][i]
    <3>1. ~ Lost(d)
          BY <2>3, NoToken DEF Lost, Takes, Flight
    <3>2. PICK m \in Flight : IsData(m) /\ m.addr = storage[d][i]
          BY <1>3, <2>5, <3>1 DEF Known
    <3> QED BY <1>a, <2>2, <2>5, <3>2
  <2> QED BY <2>3, <2>4, <2>5
<1>7. CASE NewStep /\ ~ \E b \in Buffers : QueueBuffer(b)
  <2> DEFINE x == caller'.put
  <2>1. /\ UNCHANGED <<queues, codec>> /\ Putter = {} /\ Putter' = {x}
        BY <1>7, NewFacts
  <2>2. ~ IsData(x) /\ UNCHANGED tables
        BY <1>7, NewMessage
  <2>3. Flight' = Flight \union {x}
        BY <2>1, MotionNew DEF queues
  <2> HIDE DEF x
  <2> QED BY <1>d, <1>f, <2>1, <2>2, <2>3 DEF queues
<1>8. CASE PutMessage
  <2>1. /\ UNCHANGED <<fromDsp, dspHeld, tables, codec>>
        /\ caller.put \in Msg /\ Putter = {caller.put} /\ Putter' = {}
        /\ toDsp' = Append(toDsp, caller.put)
        BY <1>8, PutFacts
  <2>2. Flight' = Flight
        BY <2>1, MotionPut
  <2> QED BY <1>d, <1>f, <2>1, <2>2
<1>9. CASE DspTake
  <2> DEFINE x == Head(toDsp)
  <2>1. /\ Putter' = Putter /\ toDsp # << >> /\ toDsp' = Tail(toDsp)
        /\ UNCHANGED <<tables, codec>>
        /\ x \in Msg /\ x \in Range(toDsp) /\ x.stream \in 0..3
        BY <1>9, TakeFacts
  <2>2. CASE x.cmd = "SETBUFF" /\ UNCHANGED fromDsp
             /\ dspHeld' = [dspHeld EXCEPT ![x.stream] = Append(@, x)]
    <3>1. Flight' = Flight
          BY <2>1, <2>2, MotionTake
    <3> QED BY <1>d, <1>f, <2>1, <2>2, <3>1
  <2>3. CASE x.cmd = "PLAY" /\ UNCHANGED <<dspHeld, fromDsp>>
    <3>1. Flight' \subseteq Flight /\ Flight \subseteq Flight' \union {x}
          BY <2>1, <2>3, MotionPlay
    <3>2. ~ IsData(x)
          BY <2>3 DEF IsData
    <3> HIDE DEF x
    <3> QED BY <1>d, <1>f, <2>1, <2>3, <3>1, <3>2
  <2>4. ASSUME NEW t \in Msg, Answered(x, t), fromDsp' = Append(fromDsp, t),
               \A s \in 0..3 : dspHeld'[s] \in {<< >>, dspHeld[s]},
               x.cmd = "FLUSH" => dspHeld'[x.stream] = << >>
                                  /\ \A s \in 0..3 : s # x.stream => dspHeld'[s] = dspHeld[s],
               x.cmd = "STOP" => dspHeld' = NoneHeld /\ (codec.dasf => dspHeld = NoneHeld),
               x.cmd \notin {"FLUSH", "STOP"} => UNCHANGED dspHeld
        PROVE  Known(d, i)' \/ (Lost(d)' /\ Youngest(d, i)')
    <3>1. /\ Flight' \subseteq Flight \union {t} /\ Held' \subseteq Held
          /\ Flight \subseteq Flight' \union {x} \union (Held \ Held')
          BY <2>1, <2>4, MotionAnswer
    <3>2. Shape(x) /\ ~ (x.cmd = "STRMCTRL" /\ x.addr = NULL) /\ x \in Flight
          BY <2>1 DEF Forms, Flight
    <3>3. /\ ~ IsData(t) /\ ~ IsData(x) /\ (IsToken(t) <=> IsToken(x)) /\ t.stream = x.stream
          /\ (t.cmd = "STOP" <=> x.cmd = "STOP")
          BY <2>1, <2>4, <3>2, AnsweredMessage
    <3>4. Range(fromDsp') = Range(fromDsp) \union {t}
          BY <2>4, FlightTypes, AppendMessage
    <3>5. /\ storage' = storage /\ count' = count
          /\ \A n \in Range(toDsp') : AheadIn(toDsp, x, n)
          BY <2>1, TailMessage, FlightTypes DEF tables
    <3>6. /\ x.cmd \notin {"FLUSH", "STOP"} => Held' = Held
          /\ x.cmd = "STOP" => Held' = {}
          /\ x.cmd = "STOP" /\ codec.dasf => Held = {}
          /\ \A m \in Held' : m \in Held /\ IsData(m) /\ (x.cmd = "FLUSH" => m.stream # x.stream)
          /\ \A m \in Held : /\ IsData(m)
                             /\ x.cmd = "FLUSH" /\ m.stream # x.stream => m \in Held'
      <4>1. \A s \in 0..3 : Range(NoneHeld[s]) = {}
            BY EmptyMessages DEF NoneHeld
      <4>2. x.cmd \notin {"FLUSH", "STOP"} => Held' = Held
            BY <2>4 DEF Held
      <4>3. x.cmd = "STOP" => Held' = {} /\ (codec.dasf => Held = {})
        <5>1. ASSUME x.cmd = "STOP", NEW m \in Held' PROVE FALSE
          <6>1. PICK s \in 0..3 : m \in Range(dspHeld'[s])
                BY <5>1 DEF Held
          <6>2. dspHeld'[s] = NoneHeld[s]
                BY <2>4, <5>1
          <6> QED BY <4>1, <6>1, <6>2
        <5>2. ASSUME x.cmd = "STOP", codec.dasf, NEW m \in Held PROVE FALSE
          <6>1. PICK s \in 0..3 : m \in Range(dspHeld[s])
                BY <5>2 DEF Held
          <6>2. dspHeld[s] = NoneHeld[s]
                BY <2>4, <5>2
          <6> QED BY <4>1, <6>1, <6>2
        <5> QED BY <5>1, <5>2
      <4>4. ASSUME NEW m \in Held' PROVE m \in Held /\ IsData(m) /\ (x.cmd = "FLUSH" => m.stream # x.stream)
        <5>1. PICK s \in 0..3 : m \in Range(dspHeld'[s])
              BY <4>4 DEF Held
        <5>2. dspHeld'[s] # << >>
              BY <5>1, EmptyMessages
        <5>3. dspHeld'[s] = dspHeld[s] /\ (x.cmd = "FLUSH" => s # x.stream)
              BY <2>4, <5>2
        <5>4. m.cmd = "SETBUFF" /\ m.stream = s
              BY <5>1, <5>3 DEF Forms
        <5>5. m \in Held
              BY <5>1, <5>3 DEF Held
        <5> QED BY <5>3, <5>4, <5>5 DEF IsData
      <4>5. ASSUME NEW m \in Held
            PROVE  IsData(m) /\ (x.cmd = "FLUSH" /\ m.stream # x.stream => m \in Held')
        <5>1. PICK s \in 0..3 : m \in Range(dspHeld[s])
              BY <4>5 DEF Held
        <5>2. m.cmd = "SETBUFF" /\ m.stream = s
              BY <5>1 DEF Forms
        <5>3. x.cmd = "FLUSH" /\ m.stream # x.stream => dspHeld'[s] = dspHeld[s]
              BY <2>4, <5>2
        <5>4. x.cmd = "FLUSH" /\ m.stream # x.stream => m \in Held'
              BY <5>1, <5>3 DEF Held
        <5> QED BY <5>2, <5>4 DEF IsData
      <4> QED BY <4>2, <4>3, <4>4, <4>5
    <3> HIDE DEF x
    <3>7. \A m \in Flight' : IsData(m) => m \in Flight
          BY <3>1, <3>3
    <3>8. CASE Lost(d) /\ Youngest(d, i)
      <4>1. Lost(d)'
            BY <1>b, <2>1, <3>4, <3>8 DEF Lost
      <4>2. Youngest(d, i)'
            BY <1>c, <1>d, <1>e, <3>5, <3>7, <3>8
      <4> QED BY <4>1, <4>2
    <3>9. CASE Known(d, i)
      <4>1. PICK m \in Flight : IsData(m) /\ m.addr = storage[d][i]
            BY <3>9 DEF Known
      <4>2. CASE m \in Flight'
            BY <1>a, <3>5, <4>1, <4>2
      <4>3. CASE m \in Held \ Held'
        <5>1. d = Dir(m.stream) /\ m.addr \in Buffers /\ m.stream = StreamOf[m.addr]
              BY <4>1, DataSlots
        <5>2. x.cmd \in {"FLUSH", "STOP"} /\ IsToken(x) /\ IsToken(t)
              BY <3>3, <3>6, <4>3 DEF IsToken
        <5>3. x.cmd = "FLUSH" => m.stream = x.stream
              BY <3>6, <4>3
        <5>4. x.cmd = "STOP" => ~ codec.dasf
              BY <3>6, <4>3
        <5>5. Takes(t, d)
              BY <3>3, <5>1, <5>2, <5>3, <5>4 DEF Takes
        <5>6. Lost(d)'
              BY <1>b, <2>1, <3>4, <5>5
        <5>7. ASSUME NEW n \in Flight', IsData(n), Dir(n.stream) = d, NEW j \in Slots, storage'[d][j] = n.addr
              PROVE  Age(d, j)' < Age(d, i)'
          <6>1. n \in Range(fromDsp) \/ n \in Held' \/ n \in Range(toDsp') \/ n \in Putter
                BY <2>1, <3>3, <3>4, <5>7 DEF Flight
          <6>2. n \notin Held'
            <7>1. CASE x.cmd = "STOP"
                  BY <3>6, <7>1
            <7>2. CASE x.cmd = "FLUSH"
              <8>1. n.addr \in Buffers /\ n.stream = StreamOf[n.addr]
                    BY <3>7, <5>7, DataSlots
              <8>2. n.stream = m.stream
                    BY <5>1, <5>7, <8>1 DEF OneStream
              <8> QED BY <3>6, <5>3, <7>2, <8>2
            <7> QED BY <5>2, <7>1, <7>2
          <6>3. n \notin Range(toDsp') /\ n \notin Putter
            <7>1. ASSUME Ahead(x, n) PROVE FALSE
              <8>1. x.cmd # "STOP" /\ Dir(x.stream) # Dir(n.stream)
                    BY <5>2, <5>7, <7>1 DEF Ordered, Apart
              <8> QED BY <5>1, <5>2, <5>3, <5>7, <8>1
            <7>2. n \in Range(toDsp') \/ n \in Putter => Ahead(x, n)
                  BY <2>1, <3>5 DEF Ahead
            <7> QED BY <7>1, <7>2
          <6>4. Ahead(n, m)
                BY <4>3, <6>1, <6>2, <6>3 DEF Ahead
          <6>5. Older(d, n.addr, m.addr)
                BY <4>1, <5>1, <5>7, <6>4 DEF Aging
          <6>6. Age(d, j) < Age(d, i)
                BY <3>5, <4>1, <5>7, <6>5 DEF Older
          <6> QED BY <3>5, <6>6 DEF Age
        <5>8. Youngest(d, i)'
              BY <5>7 DEF Youngest, IsData
        <5> QED BY <5>6, <5>8
      <4> QED BY <3>1, <3>3, <4>1, <4>2, <4>3
    <3> QED BY <1>3, <3>5, <3>8, <3>9
  <2> QED BY <1>9, <2>2, <2>3, <2>4, TakeKinds
<1>10. ASSUME NEW s \in Streams, DspReturn(s) PROVE Known(d, i)' \/ (Lost(d)' /\ Youngest(d, i)')
  <2> DEFINE x == Head(dspHeld[s])
             t == Returns(x)
  <2>1. /\ UNCHANGED <<toDsp, tables, codec>>
        /\ Putter' = Putter /\ s \in 0..3 /\ dspHeld[s] # << >>
        /\ dspHeld' = [dspHeld EXCEPT ![s] = Tail(@)]
        /\ x \in Msg /\ x \in Range(dspHeld[s]) /\ x \in Flight
        /\ t \in Msg /\ fromDsp' = Append(fromDsp, t)
        BY <1>10, ReturnFacts
  <2>2. /\ Flight' \subseteq Flight \union {t} /\ Flight \subseteq Flight' \union {x}
        /\ t \in Range(fromDsp')
        BY <2>1, MotionReturn
  <2>3. x.cmd = "SETBUFF" /\ Shape(x)
        BY <2>1 DEF Forms
  <2>4. Same(t, x) /\ Same(x, t)
        BY <2>1, <2>3, ReturnedMessage DEF Same
  <2>5. Range(fromDsp') = Range(fromDsp) \union {t}
        BY <2>1, FlightTypes, AppendMessage
  <2> HIDE DEF x, t
  <2>6. t \in Flight'
        BY <2>2 DEF Flight
  <2> QED BY <1>d, <1>f, <2>1, <2>2, <2>4, <2>5, <2>6
<1>11. CASE ReadStep
  <2> DEFINE h == Head(fromDsp)
  <2>1. /\ Flight = Flight' \union {h} /\ Range(fromDsp) = Range(fromDsp') \union {h}
        /\ UNCHANGED <<codec, count>>
        BY <1>11, ReadFacts, MotionRead
  <2>2. Range(fromDsp') \subseteq Flight'
        BY DEF Flight
  <2>3. CASE MsgBuffFree
    <3> DEFINE e == Dir(h.stream)
               f == FreedSlot
    <3>1. /\ IsData(h) /\ ~ IsToken(h) /\ e \in Dirs /\ f \in Slots /\ storage[e][f] = h.addr /\ h \in Flight
          /\ \A g \in Dirs, j \in Slots :
               IF g = e /\ j = f THEN storage'[g][j] = NULL ELSE storage'[g][j] = storage[g][j]
          BY <2>3, FreedIsFound
    <3>2. storage'[d][i] = storage[d][i] /\ ~ (d = e /\ i = f)
          BY <3>1
    <3>3. ASSUME h.addr = storage[d][i] PROVE FALSE
      <4>1. d = e
            BY <3>1, <3>3, DataSlots
      <4>2. i = f
            BY <3>1, <3>2, <3>3, <4>1 DEF Rings
      <4> QED BY <3>2, <4>1, <4>2
    <3> HIDE DEF h, e, f
    <3>4. CASE Known(d, i)
      <4>1. PICK m \in Flight : IsData(m) /\ m.addr = storage[d][i]
            BY <3>4 DEF Known
      <4> QED BY <1>a, <2>1, <3>2, <3>3, <4>1
    <3>5. CASE Lost(d) /\ Youngest(d, i)
      <4>1. PICK u \in Range(fromDsp) : Takes(u, d)
            BY <3>5 DEF Lost
      <4>2. u # h
            BY <3>1, <4>1 DEF Takes
      <4>3. Lost(d)'
            BY <1>b, <2>1, <4>1, <4>2
      <4>4. \A j \in Slots : storage'[d][j] \in {NULL, storage[d][j]}
            BY <3>1
      <4>5. Youngest(d, i)'
            BY <1>c, <1>d, <1>e, <2>1, <3>2, <3>5, <4>4
      <4> QED BY <4>3, <4>5
    <3> QED BY <1>3, <3>2, <3>4, <3>5
  <2>4. CASE MsgStop \/ MsgStrmCtrl
    <3>1. /\ \A j \in Slots : storage'[d][j] = IF Takes(h, d) THEN NULL ELSE storage[d][j]
          /\ IsToken(h) => \A m \in Flight' : ~ IsToken(m)
          BY <2>4, AckedRings
    <3>2. ~ Takes(h, d) /\ storage'[d][i] = storage[d][i]
          BY <3>1
    <3>3. ~ IsData(h)
          BY <2>4, AckKinds
    <3> HIDE DEF h
    <3>4. CASE Known(d, i)
      <4>1. PICK m \in Flight : IsData(m) /\ m.addr = storage[d][i]
            BY <3>4 DEF Known
      <4> QED BY <1>a, <2>1, <3>2, <3>3, <4>1
    <3>5. CASE Lost(d) /\ Youngest(d, i)
      <4>1. PICK u \in Range(fromDsp) : Takes(u, d)
            BY <3>5 DEF Lost
      <4>2. u \in Range(fromDsp')
            BY <2>1, <3>2, <4>1
      <4>3. Lost(d)'
            BY <1>b, <2>1, <4>1, <4>2
      <4>4. Youngest(d, i)'
            BY <1>c, <1>d, <1>e, <2>1, <3>1, <3>2, <3>5
      <4> QED BY <4>3, <4>4
    <3> QED BY <1>3, <3>2, <3>4, <3>5
  <2>5. CASE MsgAlgCtrl \/ MsgPause
    <3>1. UNCHANGED tables /\ ~ IsData(h) /\ ~ IsToken(h)
          BY <2>5, OtherRings
    <3>2. storage' = storage
          BY <3>1 DEF tables
    <3> HIDE DEF h
    <3>3. CASE Known(d, i)
      <4>1. PICK m \in Flight : IsData(m) /\ m.addr = storage[d][i]
            BY <3>3 DEF Known
      <4> QED BY <1>a, <2>1, <3>1, <3>2, <4>1
    <3>4. CASE Lost(d) /\ Youngest(d, i)
      <4>1. PICK u \in Range(fromDsp) : Takes(u, d)
            BY <3>4 DEF Lost
      <4>2. u \in Range(fromDsp')
            BY <2>1, <3>1, <4>1 DEF Takes
      <4>3. Lost(d)'
            BY <1>b, <2>1, <4>1, <4>2
      <4>4. Youngest(d, i)'
            BY <1>c, <1>d, <1>e, <2>1, <3>2, <3>4
      <4> QED BY <4>3, <4>4
    <3> QED BY <1>3, <3>2, <3>3, <3>4
  <2> QED BY <1>11, <2>3, <2>4, <2>5 DEF ReadStep
<1> QED BY <1>4, <1>5, <1>6, <1>7, <1>8, <1>9, <1>10, <1>11, <1>12, StepKinds

\* The slot that a returned buffer empties is the oldest in use.
LEMMA FreedIsOldest ==
    ASSUME Types, Forms, Rings, Found, Aging, Covered, Running, MsgBuffFree,
           NEW i \in Slots, storage[Dir(Head(fromDsp).stream)][i] # NULL
    PROVE  ~ (Age(Dir(Head(fromDsp).stream), i) < Age(Dir(Head(fromDsp).stream), FreedSlot))
<1> DEFINE h == Head(fromDsp)
           d == Dir(h.stream)
           f == FreedSlot
<1>1. d \in Dirs /\ f \in Slots /\ h \in Flight /\ IsData(h) /\ storage[d][f] = h.addr
      BY FreedIsFound
<1>2. \A n \in Flight : n = h \/ Ahead(h, n)
  <2>1. ReadStep
        BY DEF ReadStep
  <2> QED BY <2>1, ReadFacts, MotionRead
<1>3. Age(d, i) \in Nat /\ Age(d, f) \in Nat
      BY <1>1, AgeOfSlots
<1> SUFFICES ~ (Age(d, i) < Age(d, f))
    OBVIOUS
<1>4. storage[d][i] # NULL
      OBVIOUS
<1>5. Known(d, i) \/ (Lost(d) /\ Youngest(d, i))
      BY <1>1, <1>4 DEF Covered
<1> HIDE DEF h, d, f
<1>6. CASE Known(d, i)
  <2>1. PICK m \in Flight : IsData(m) /\ m.addr = storage[d][i]
        BY <1>6 DEF Known
  <2>2. CASE m = h
        BY <1>1, <1>3, <1>4, <2>1, <2>2 DEF Rings
  <2>3. CASE Ahead(h, m)
    <3>1. Dir(m.stream) = d
          BY <1>1, <2>1, DataSlots
    <3>2. Older(d, h.addr, m.addr)
          BY <1>1, <2>1, <2>3, <3>1 DEF Aging, d
    <3>3. Age(d, f) < Age(d, i)
          BY <1>1, <2>1, <3>2 DEF Older
    <3> QED BY <1>3, <3>3
  <2> QED BY <1>2, <2>1, <2>2, <2>3
<1>7. CASE Lost(d) /\ Youngest(d, i)
  <2>1. Age(d, f) < Age(d, i)
        BY <1>1, <1>7 DEF Youngest, d
  <2> QED BY <1>3, <2>1
<1> QED BY <1>5, <1>6, <1>7

\* The rings never have a gap: the next slot is taken last of all.
LEMMA ContiguousStep ==
    ASSUME Types, OneStream, RingsFit, Idle, Forms, Tokens, Flags, Ordered, Rings, Lending, Contiguous,
           Found, Aging, Covered, [Next]_vars
    PROVE  Contiguous'
<1>1. CASE Destroyed
      BY <1>1, DestroyedFacts DEF Contiguous
<1> SUFFICES ASSUME Running', ~ Destroyed, NEW d \in Dirs, NEW i \in Slots, NEW j \in Slots,
                    storage'[d][i] # NULL, Age(d, i)' < Age(d, j)'
             PROVE  storage'[d][j] # NULL
    BY <1>1 DEF Contiguous
<1>2. Running
      BY RunningBefore
<1>3. storage[d][i] # NULL /\ Age(d, i) < Age(d, j) => storage[d][j] # NULL
      BY <1>2 DEF Contiguous
<1>4. CASE UNCHANGED tables
      BY <1>3, <1>4 DEF tables, Age
<1>5. CASE \E b \in Buffers : QueueBuffer(b) \/ QueueBufferFails(b)
  <2>1. PICK b \in Buffers : QueueBuffer(b) \/ QueueBufferFails(b)
        BY <1>5
  <2> DEFINE e == Dir(StreamOf[b])
             c == count[e]
  <2>2. /\ e \in Dirs /\ c \in Slots
        /\ \A g \in Dirs, k \in Slots : storage'[g][k] = IF g = e /\ k = c THEN b ELSE storage[g][k]
        /\ count' = [count EXCEPT ![e] = (@ + 1) % QUEUE_SIZE]
        BY <2>1, Queueing
  <2> HIDE DEF e
  <2>3. \A k \in Slots : /\ d = e /\ k = c => Age(d, k)' = QUEUE_SIZE - 1
                         /\ d = e /\ k # c => Age(d, k)' = Age(d, k) - 1
                         /\ d # e => Age(d, k)' = Age(d, k)
        BY <2>2, AgesAfter
  <2>4. \A k \in Slots : Age(d, k) \in Nat /\ Age(d, k) < QUEUE_SIZE
        BY AgeOfSlots
  <2>5. QUEUE_SIZE \in Nat /\ b # NULL
        BY Directions, NullApart
  <2> HIDE DEF c
  <2>6. CASE d = e /\ j = c
        BY <2>2, <2>5, <2>6
  <2>7. CASE ~ (d = e /\ j = c)
    <3>1. ~ (d = e /\ i = c)
          BY <2>3, <2>4, <2>5, <2>7
    <3>2. storage[d][i] # NULL /\ storage'[d][j] = storage[d][j]
          BY <2>2, <2>7, <3>1
    <3>3. Age(d, i) < Age(d, j)
          BY <2>3, <2>4, <2>7, <3>1
    <3> QED BY <1>3, <3>2, <3>3
  <2> QED BY <2>6, <2>7
<1>6. CASE MsgBuffFree
  <2> DEFINE e == Dir(Head(fromDsp).stream)
             f == FreedSlot
  <2>1. /\ e \in Dirs /\ f \in Slots
        /\ \A g \in Dirs, k \in Slots : storage'[g][k] = IF g = e /\ k = f THEN NULL ELSE storage[g][k]
        BY <1>6, FreedIsFound
  <2>2. storage[d][i] # NULL
        BY <2>1
  <2>3. count' = count
        BY <1>6, BuffFree
  <2>4. Age(d, i) < Age(d, j)
        BY <2>3 DEF Age
  <2>5. ~ (d = e /\ j = f)
        BY <1>2, <1>6, <2>2, <2>4, FreedIsOldest
  <2> QED BY <1>3, <2>1, <2>2, <2>4, <2>5
<1>7. CASE MsgStop \/ MsgStrmCtrl
  <2>1. \A k \in Slots : storage'[d][k] = IF Takes(Head(fromDsp), d) THEN NULL ELSE storage[d][k]
        BY <1>7, AckedRings
  <2>2. count' = count
        BY <1>7, Acks
  <2>3. Age(d, i) < Age(d, j)
        BY <2>2 DEF Age
  <2> QED BY <1>3, <2>1, <2>3
<1> QED BY <1>4, <1>5, <1>6, <1>7, RingSteps

\* A request is answered when its buffers are back.
LEMMA AnswersStep ==
    ASSUME Types, OneStream, Idle, Forms, Tokens, Flags, Ordered, Rings, Lending, Answers,
           Found, Aging, Covered, Rings', Lending', [Next]_vars
    PROVE  Answers'
<1>a. Answering => caller.pc \in {"flush", "stop"}
      BY DEF Answers, Answering
<1>b. ASSUME ~ Answering' PROVE Answers'
      BY <1>b DEF Answers, Answering
<1>c. ASSUME UNCHANGED <<caller, msg, lent>> PROVE Answers'
      BY <1>c DEF Answers
<1>1. CASE QuietStep
  <2>1. CASE InitMMCodec
    <3>1. msg' = Quiet
          BY <2>1 DEF InitMMCodec
    <3> QED BY <1>b, <3>1 DEF Quiet, Answering
  <2>2. CASE PutMessageFails \/ ControlDestroy
    <3>1. caller.pc \in {"put", "ready", "error"} /\ msg' = msg
          BY <2>2 DEF PutMessageFails, ControlDestroy
    <3> QED BY <1>a, <1>b, <3>1 DEF Answering
  <2>3. CASE MsgCallback
    <3>1. ~ Answering'
          BY <2>3 DEF MsgCallback, Answering, Quiet, Types, MsgType
    <3> QED BY <1>b, <3>1
  <2>4. CASE MsgLeave \/ MsgWake \/ MsgFault \/ MsgEmpty
        BY <1>b, <2>4, NoAnswer DEF Answering
  <2>5. CASE ControlBlockFull \/ DspFault \/ UNCHANGED vars
        BY <1>c, <2>5 DEF ControlBlockFull, DspFault, vars
  <2> QED BY <1>1, <2>1, <2>2, <2>3, <2>4, <2>5 DEF QuietStep
<1>2. CASE FailStep \/ NewStep \/ PutMessage
  <2>1. caller.pc \in {"ready", "put"} /\ msg' = msg
        BY <1>2, FailFacts, NewFacts, PutFacts
  <2> QED BY <1>a, <1>b, <2>1 DEF Answering
<1>3. CASE DspTake \/ DspFlushFails \/ \E s \in Streams : DspReturn(s)
      BY <1>3, <1>c, TakeFacts, RefuseFacts, ReturnFacts
<1>4. CASE Destroyed
      BY <1>4, <1>b, DestroyedFacts DEF Answering
<1>5. CASE MsgBuffFree \/ MsgAlgCtrl \/ MsgPause
      BY <1>5, <1>b, OtherReads
<1>6. CASE MsgStop \/ MsgStrmCtrl
  <2> DEFINE h == Head(fromDsp)
  <2>1. /\ h \in Flight /\ ~ IsData(h) /\ h \in Msg
        /\ \/ /\ IsToken(h) /\ h.cmd = "STOP" /\ msg'.event = "stopped" /\ caller.pc = "stop"
           \/ /\ IsToken(h) /\ h.cmd = "STRMCTRL" /\ msg'.event = "flushed" /\ msg'.arg = h.stream
              /\ caller.pc = "flush" /\ caller.put.stream = h.stream
           \/ msg'.event = "strmack"
        BY <1>6, AckKinds
  <2>2. /\ \A d \in Dirs : \A i \in Slots : storage'[d][i] = IF Takes(h, d) THEN NULL ELSE storage[d][i]
        /\ IsToken(h) => \A m \in Flight' : ~ IsToken(m)
        /\ IsToken(h) /\ h.cmd = "STOP" => \A m \in Flight' : ~ IsData(m)
        BY <1>6, AckedRings
  <2>3. /\ Flight = Flight' \union {h} /\ Range(fromDsp) = Range(fromDsp') \union {h} /\ caller' = caller
    <3>1. ReadStep
          BY <1>6 DEF ReadStep
    <3> QED BY <3>1, ReadFacts, MotionRead
  <2>4. lent' = InUse'
    <3>1. msg'.event # "processed"
          BY <2>1
    <3> QED BY <3>1 DEF Lending, Pending
  <2>5. Range(fromDsp') \subseteq Flight'
        BY DEF Flight
  <2> HIDE DEF h
  <2>6. CASE IsToken(h) /\ h.cmd = "STOP" /\ msg'.event = "stopped" /\ caller.pc = "stop"
    <3>1. ASSUME NEW d \in Dirs, NEW i \in Slots PROVE storage'[d][i] = NULL
      <4>1. CASE ~ codec.dasf
            BY <2>2, <2>6, <4>1 DEF Takes
      <4>2. CASE codec.dasf
        <5>1. ~ Takes(h, d)
              BY <2>6, <4>2 DEF Takes
        <5>2. ~ Lost(d)
              BY <2>2, <2>3, <2>5, <2>6, <5>1 DEF Lost, Takes
        <5>3. ~ Known(d, i)
              BY <2>1, <2>2, <2>3, <2>6 DEF Known
        <5>4. storage[d][i] = NULL
              BY <2>6, <5>2, <5>3 DEF Covered, Running
        <5> QED BY <2>2, <5>1, <5>4
      <4> QED BY <4>1, <4>2
    <3>2. InUse' = {}
          BY <3>1, NullApart DEF InUse
    <3> QED BY <2>3, <2>4, <2>6, <3>2 DEF Answers
  <2>7. CASE /\ IsToken(h) /\ h.cmd = "STRMCTRL" /\ msg'.event = "flushed" /\ msg'.arg = h.stream
             /\ caller.pc = "flush" /\ caller.put.stream = h.stream
    <3>1. ASSUME NEW b \in lent', StreamOf[b] = h.stream PROVE FALSE
      <4>1. b \in InUse'
            BY <2>4, <3>1
      <4>2. PICK d \in Dirs : \E i \in Slots : storage'[d][i] = b
            BY <4>1 DEF InUse
      <4>3. PICK i \in Slots : storage'[d][i] = b
            BY <4>2
      <4>4. b # NULL
            BY <4>1, NullApart DEF InUse
      <4>5. Dir(StreamOf[b]) = d
            BY <4>3, <4>4 DEF Rings
      <4>6. Takes(h, d)
            BY <2>7, <3>1, <4>5 DEF Takes
      <4> QED BY <2>2, <4>3, <4>4, <4>6
    <3> QED BY <2>3, <2>7, <3>1 DEF Answers
  <2>8. CASE msg'.event = "strmack"
        BY <1>b, <2>8 DEF Answering
  <2> QED BY <2>1, <2>6, <2>7, <2>8
<1> QED BY <1>1, <1>2, <1>3, <1>4, <1>5, <1>6, StepKinds DEF ReadStep

\* The inductive invariant.
IInv ==
    /\ Types /\ Idle
    /\ Rings /\ Lending /\ Contiguous
    /\ Forms /\ Tokens /\ Flags /\ Ordered /\ Answers
    /\ Found /\ Aging /\ Covered

\* It holds before InitMMCodec.
LEMMA InvariantInit == Init => IInv
<1> SUFFICES ASSUME Init PROVE IInv
    OBVIOUS
<1>1. Types
      BY TypeInit
<1>2. /\ caller = At("none") /\ msg.pc = "exited" /\ storage = Empty /\ dmm = Empty /\ lent = {}
      /\ control = NoControl /\ count = [d \in Dirs |-> 0] /\ toDsp = << >> /\ fromDsp = << >>
      /\ dspHeld = NoneHeld /\ flush_pending = [s \in 0..3 |-> FALSE]
      BY DEF Init, Quiet
<1>3. caller.pc = "none" /\ caller.next = NULL
      BY <1>2 DEF At
<1>4. /\ Range(fromDsp) = {} /\ Range(toDsp) = {} /\ Putter = {}
      /\ \A s \in 0..3 : dspHeld[s] = << >>
      BY <1>2, <1>3, EmptyMessages DEF Putter, NoneHeld
<1>5. Held = {}
      BY <1>4, EmptyMessages DEF Held
<1>6. Flight = {} /\ \A m, n : ~ Ahead(m, n)
  <2>1. Flight = {}
        BY <1>4, <1>5 DEF Flight
  <2> QED BY <1>1, <2>1, FlightTypes
<1>7. \A d \in Dirs, i \in Slots : storage[d][i] = NULL /\ dmm[d][i] = NULL
      BY <1>2 DEF Empty
<1>8. Idle
      BY <1>2 DEF Idle
<1>9. Rings /\ Contiguous /\ Covered
      BY <1>7 DEF Rings, Contiguous, Covered
<1>10. Lending
  <2>1. InUse = {} /\ Pending = {}
        BY <1>2, <1>7, NullApart DEF InUse, Pending
  <2> QED BY <1>2, <2>1 DEF Lending
<1>11. Forms
  <2>1. \A s \in 0..3 : Range(dspHeld[s]) = {}
        BY <1>4, EmptyMessages
  <2> QED BY <1>4, <1>6, <2>1 DEF Forms
<1>12. Tokens
      BY <1>3, <1>4, <1>6 DEF Tokens
<1>13. Flags
  <2>1. ~ flush_pending[Out]
        BY <1>2 DEF Out
  <2> QED BY <1>6, <2>1 DEF Flags
<1>14. Ordered /\ Found /\ Aging
      BY <1>6 DEF Ordered, Found, Aging
<1>15. Answers
      BY <1>2 DEF Answers
<1> QED BY <1>1, <1>8, <1>9, <1>10, <1>11, <1>12, <1>13, <1>14, <1>15 DEF IInv

\* Every step keeps it.
LEMMA InvariantStep == ASSUME ProperUse, IInv, [Next]_vars PROVE IInv'
<1> USE DEF IInv, ProperUse
<1>1. Types' /\ Idle'
      BY TypeStep, IdleStep
<1>2. Rings' /\ Lending'
      BY RingsStep, LendingStep
<1>3. Forms' /\ Tokens'
      BY FormsStep, TokensStep
<1>4. Flags' /\ Ordered'
      BY FlagsStep, OrderedStep
<1>5. Found' /\ Aging'
      BY FoundStep, AgingStep
<1>6. Covered' /\ Contiguous'
      BY CoveredStep, ContiguousStep
<1>7. Answers'
      BY <1>2, AnswersStep
<1> QED BY <1>1, <1>2, <1>3, <1>4, <1>5, <1>6, <1>7

\* It holds throughout when LCML is used as its components use it.
LEMMA Invariant == ASSUME ProperUse PROVE Spec => []IInv
<1>1. Init => IInv
      BY InvariantInit
<1>2. IInv /\ [Next]_vars => IInv'
      BY InvariantStep
<1> QED BY <1>1, <1>2, PTL DEF Spec

\* The lookup of BUFF_FREE cannot miss and cannot find another buffer, for
\* rings of every size and components with any number of buffers that fit,
\* whatever fails: every address under way is that of one slot, and the
\* buffer of that slot is on loan.
THEOREM EveryAddressTracked == ASSUME ProperUse PROVE Spec => []Tracked
<1>0. \A m \in InFlight : m \in Flight /\ IsData(m)
  <2>1. ASSUME NEW m \in InFlight
        PROVE  /\ IsData(m)
               /\ m \in Range(fromDsp) \/ (\E s \in 0..3 : m \in Range(dspHeld[s]))
                  \/ m \in Range(toDsp) \/ m \in Putter
        BY <2>1 DEF InFlight
  <2>2. ASSUME NEW m, NEW s \in 0..3, m \in Range(dspHeld[s]) PROVE m \in Held
        BY <2>2 DEF Held
  <2> QED BY <2>1, <2>2 DEF Flight
<1>1. ASSUME IInv PROVE Tracked
  <2> USE <1>1 DEF IInv
  <2>1. ASSUME NEW m \in InFlight
        PROVE  LET S == { i \in Occupied(Dir(m.stream)) : dmm[Dir(m.stream)][i] = m.addr }
               IN  Cardinality(S) = 1 /\ \A i \in S : storage[Dir(m.stream)][i] \in lent
    <3> DEFINE d == Dir(m.stream)
               S == { i \in Occupied(d) : dmm[d][i] = m.addr }
    <3>1. m \in Flight /\ IsData(m)
          BY <1>0, <2>1
    <3>2. d \in Dirs /\ m.addr \in Buffers /\ m.addr # NULL
          BY <3>1, DataSlots
    <3>3. PICK i \in Slots : dmm[d][i] = m.addr /\ storage[d][i] = m.addr
          BY <3>1, DataSlots
    <3> HIDE DEF d
    <3>4. i \in S
          BY <3>2, <3>3 DEF Occupied
    <3>5. \A j \in S : j \in Slots /\ storage[d][j] = m.addr
          BY <3>2 DEF Occupied, Rings
    <3>6. \A j \in S : j = i
          BY <3>2, <3>3, <3>5 DEF Rings
    <3>7. S = {i}
          BY <3>4, <3>6
    <3>8. Cardinality(S) = 1
          BY <3>7, FS_Singleton
    <3>9. m.addr \in lent
          BY <3>2, <3>3 DEF Lending, InUse
    <3> QED BY <3>5, <3>8, <3>9 DEF d
  <2> QED BY <2>1 DEF Tracked
<1> QED BY <1>1, Invariant, PTL

-----------------------------------------------------------------------------
(* The mappings.                                                           *)

\* mapped_dmm_buffers has room for every buffer of the component.
KeptFit == IsFiniteSet(Buffers) /\ Cardinality(Buffers) <= MAX_DMM_BUFFERS

\* Mappings are kept by the components that ask for it, and then those of all
\* the buffers in the rings.
Reuses ==
    /\ ~ codec.reuse => reused = {}
    /\ codec.reuse => InRing \subseteq reused

\* MapsMatch, thing by thing: with what a failed call was mapping left out,
\* and without that exception.
Counts ==
    /\ \A b \in Buffers :
         /\ <<b, "struct">> \notin Unfinished =>
                mapped[<<b, "struct">>] = (IF b \in InRing THEN 1 ELSE 0)
         /\ <<b, "param">> \notin Unfinished =>
                mapped[<<b, "param">>] = (IF b \in InRing /\ b \in HasParam THEN 1 ELSE 0)
         /\ <<b, "data">> \notin Unfinished =>
                mapped[<<b, "data">>] = (IF b \in InRing \/ b \in reused THEN 1 ELSE 0)
    /\ \A k \in Tables, i \in Slots : <<i, k>> \notin Unfinished =>
                mapped[<<i, k>>] = (IF i \in control[k] THEN 1 ELSE 0)
Exact ==
    /\ \A b \in Buffers :
         /\ mapped[<<b, "struct">>] = (IF b \in InRing THEN 1 ELSE 0)
         /\ mapped[<<b, "param">>] = (IF b \in InRing /\ b \in HasParam THEN 1 ELSE 0)
         /\ mapped[<<b, "data">>] = (IF b \in InRing \/ b \in reused THEN 1 ELSE 0)
    /\ \A k \in Tables, i \in Slots : mapped[<<i, k>>] = (IF i \in control[k] THEN 1 ELSE 0)

\* What is mapped for a buffer besides its data.
LEMMA PartsOf ==
    \A b, x : x \in Parts(b) <=> x = <<b, "struct">> \/ (b \in HasParam /\ x = <<b, "param">>)
BY DEF Parts, Params

\* What the tables refer to, by kind of mapping.
LEMMA References ==
    ASSUME Types
    PROVE  /\ \A b \in Buffers :
                /\ <<b, "struct">> \in Referenced <=> b \in InRing
                /\ <<b, "param">> \in Referenced <=> b \in InRing /\ b \in HasParam
                /\ <<b, "data">> \in Referenced <=> b \in InRing \/ b \in reused
           /\ \A k \in Tables, i \in Slots : <<i, k>> \in Referenced <=> i \in control[k]
<1>1. \A x : x \in Referenced <=>
         \/ \E b \in InRing : x \in Parts(b)
         \/ \E b \in InRing \union reused : x = <<b, "data">>
         \/ \E k \in Tables : \E i \in control[k] : x = <<i, k>>
  <2> DEFINE A == UNION { Parts(b) : b \in InRing }
             B == { <<b, "data">> : b \in InRing \union reused }
             C == UNION { { <<i, k>> : i \in control[k] } : k \in Tables }
  <2>1. Referenced = (A \union B) \union C
        BY DEF Referenced
  <2>2. \A x : x \in A <=> \E b \in InRing : x \in Parts(b)
        OBVIOUS
  <2>3. \A x : x \in B <=> \E b \in InRing \union reused : x = <<b, "data">>
        OBVIOUS
  <2>4. \A x : x \in C <=> \E k \in Tables : \E i \in control[k] : x = <<i, k>>
        OBVIOUS
  <2> HIDE DEF A, B, C
  <2> QED BY <2>1, <2>2, <2>3, <2>4
<1>2. \A x : x \in Referenced <=>
         \/ \E b \in InRing : x = <<b, "struct">> \/ (b \in HasParam /\ x = <<b, "param">>)
         \/ \E b \in InRing \union reused : x = <<b, "data">>
         \/ \E k \in Tables : \E i \in control[k] : x = <<i, k>>
      BY <1>1, PartsOf
<1>3. \A k \in Tables : k # "struct" /\ k # "param" /\ k # "data"
      BY DEF Tables
<1>4. ASSUME NEW b \in Buffers
      PROVE  /\ <<b, "struct">> \in Referenced <=> b \in InRing
             /\ <<b, "param">> \in Referenced <=> b \in InRing /\ b \in HasParam
             /\ <<b, "data">> \in Referenced <=> b \in InRing \/ b \in reused
      BY <1>2, <1>3
<1>5. ASSUME NEW k \in Tables, NEW i \in Slots PROVE <<i, k>> \in Referenced <=> i \in control[k]
      BY <1>2, <1>3
<1> QED BY <1>4, <1>5

\* MapsMatch, by kind of mapping.
LEMMA MapsCounts == ASSUME Types, Counts PROVE MapsMatch
<1> DEFINE P == {"data", "param", "struct"}
<1>1. \A x : x \in Mappable <=> (\E b \in Buffers : \E p \in P : x = <<b, p>>)
                             \/ (\E i \in Slots : \E k \in Tables : x = <<i, k>>)
      BY DEF Mappable
<1>2. ASSUME NEW x \in Mappable, x \notin Unfinished PROVE mapped[x] = IF x \in Referenced THEN 1 ELSE 0
  <2>1. CASE \E b \in Buffers : \E p \in P : x = <<b, p>>
    <3>1. PICK b \in Buffers : x = <<b, "data">> \/ x = <<b, "param">> \/ x = <<b, "struct">>
          BY <2>1
    <3>2. CASE x = <<b, "data">>
          BY <1>2, <3>2, References DEF Counts
    <3>3. CASE x = <<b, "param">>
          BY <1>2, <3>3, References DEF Counts
    <3>4. CASE x = <<b, "struct">>
          BY <1>2, <3>4, References DEF Counts
    <3> QED BY <3>1, <3>2, <3>3, <3>4
  <2>2. CASE \E i \in Slots : \E k \in Tables : x = <<i, k>>
    <3>1. PICK i \in Slots : \E k \in Tables : x = <<i, k>>
          BY <2>2
    <3>2. PICK k \in Tables : x = <<i, k>>
          BY <3>1
    <3> QED BY <1>2, <3>2, References DEF Counts
  <2> QED BY <1>1, <1>2, <2>1, <2>2
<1> QED BY <1>2 DEF MapsMatch

\* The buffers whose mappings go when slots S are emptied.
Gone(S) == { b \in Buffers : \E d \in Dirs : \E i \in S[d] : dmm[d][i] = b }

\* What emptying slots unmaps, by kind of mapping.
LEMMA WhatIsReleased ==
    ASSUME Types, Rings, NEW S, \A d \in Dirs : S[d] \subseteq Slots
    PROVE  /\ \A b \in Buffers :
                /\ <<b, "struct">> \in ReleasedBy(S) <=> b \in Gone(S)
                /\ <<b, "param">> \in ReleasedBy(S) <=> b \in Gone(S) /\ b \in HasParam
                /\ <<b, "data">> \in ReleasedBy(S) <=> b \in Gone(S) /\ ~ codec.reuse
           /\ \A k \in Tables : \A i : <<i, k>> \notin ReleasedBy(S)
<1>1. \A x : x \in ReleasedBy(S) <=> \E d \in Dirs : \E i \in S[d] : x \in Released(d, i)
      BY DEF ReleasedBy
<1>2. ASSUME NEW d \in Dirs, NEW i \in Slots, NEW x
      PROVE  x \in Released(d, i) <=>
                /\ dmm[d][i] # NULL
                /\ \/ x = <<dmm[d][i], "struct">>
                   \/ dmm[d][i] \in HasParam /\ x = <<dmm[d][i], "param">>
                   \/ ~ codec.reuse /\ x = <<dmm[d][i], "data">>
  <2>1. dmm[d][i] # NULL => storage[d][i] = dmm[d][i]
        BY DEF Rings
  <2>2. CASE dmm[d][i] = NULL
        BY <2>2 DEF Released
  <2>3. CASE dmm[d][i] # NULL
    <3>1. Released(d, i) = Parts(dmm[d][i]) \union (IF codec.reuse THEN {} ELSE {<<dmm[d][i], "data">>})
          BY <2>1, <2>3 DEF Released
    <3> QED BY <2>3, <3>1, PartsOf
  <2> QED BY <2>2, <2>3
<1>3. \A x : x \in ReleasedBy(S) <=> \E d \in Dirs : \E i \in S[d] :
                /\ dmm[d][i] # NULL
                /\ \/ x = <<dmm[d][i], "struct">>
                   \/ dmm[d][i] \in HasParam /\ x = <<dmm[d][i], "param">>
                   \/ ~ codec.reuse /\ x = <<dmm[d][i], "data">>
  <2>1. \A d \in Dirs : \A i \in S[d] : i \in Slots
        OBVIOUS
  <2> QED BY <1>1, <1>2, <2>1
<1>4. \A b \in Buffers : b # NULL
      BY NullApart
<1>5. \A b \in Buffers : b \in Gone(S) <=> \E d \in Dirs : \E i \in S[d] : dmm[d][i] = b
      BY DEF Gone
<1>6. \A k \in Tables : k # "struct" /\ k # "param" /\ k # "data"
      BY DEF Tables
<1>7. ASSUME NEW b \in Buffers
      PROVE  /\ <<b, "struct">> \in ReleasedBy(S) <=> b \in Gone(S)
             /\ <<b, "param">> \in ReleasedBy(S) <=> b \in Gone(S) /\ b \in HasParam
             /\ <<b, "data">> \in ReleasedBy(S) <=> b \in Gone(S) /\ ~ codec.reuse
  <2>1. b # NULL /\ (b \in Gone(S) <=> \E d \in Dirs : \E i \in S[d] : dmm[d][i] = b)
        BY <1>4, <1>5
  <2>2. <<b, "struct">> \in ReleasedBy(S) <=> b \in Gone(S)
        BY <1>3, <2>1
  <2>3. <<b, "param">> \in ReleasedBy(S) <=> b \in Gone(S) /\ b \in HasParam
        BY <1>3, <2>1
  <2>4. <<b, "data">> \in ReleasedBy(S) <=> b \in Gone(S) /\ ~ codec.reuse
        BY <1>3, <2>1
  <2> QED BY <2>2, <2>3, <2>4
<1>8. \A k \in Tables : \A i : <<i, k>> \notin ReleasedBy(S)
      BY <1>3, <1>6
<1> QED BY <1>7, <1>8

\* Emptying slots and control blocks undoes the mappings that go with them.
LEMMA ClearMaps ==
    ASSUME Types, Rings, Reuses, Counts, NEW S, \A d \in Dirs : S[d] \subseteq Slots, ClearSlots(S),
           NEW C \in SUBSET (Slots \X Tables), mapped' = UnMap(ReleasedBy(S) \union C),
           UNCHANGED <<caller, reused, codec>>,
           \A k \in Tables, i \in Slots : i \in control'[k] <=> i \in control[k] /\ <<i, k>> \notin C,
           \A k \in Tables, i \in Slots : <<i, k>> \in C => i \in control[k]
    PROVE  Counts' /\ Reuses'
<1>1. \A b \in Buffers : b \in InRing' <=> b \in InRing /\ b \notin Gone(S)
  <2> SUFFICES ASSUME NEW b \in Buffers PROVE b \in InRing' <=> b \in InRing /\ b \notin Gone(S)
      OBVIOUS
  <2>1. b # NULL
        BY NullApart
  <2>2. b \in InRing' <=> \E d \in Dirs, i \in Slots : dmm'[d][i] = b
        BY DEF InRing
  <2>3. b \in InRing <=> \E d \in Dirs, i \in Slots : dmm[d][i] = b
        BY DEF InRing
  <2>4. b \in Gone(S) <=> \E d \in Dirs : \E i \in S[d] : dmm[d][i] = b
        BY DEF Gone
  <2>5. \A d \in Dirs, i \in Slots : dmm'[d][i] = IF i \in S[d] THEN NULL ELSE dmm[d][i]
        BY Emptied
  <2>6. ASSUME NEW d \in Dirs, NEW i \in Slots, NEW e \in Dirs, NEW j \in Slots, dmm[d][i] = b, dmm[e][j] = b
        PROVE  d = e /\ i = j
    <3>1. storage[d][i] = b /\ storage[e][j] = b
          BY <2>1, <2>6 DEF Rings
    <3>2. d = e
          BY <2>1, <3>1 DEF Rings
    <3> QED BY <2>1, <3>1, <3>2 DEF Rings
  <2>7. ASSUME b \in InRing' PROVE b \in InRing /\ b \notin Gone(S)
    <3>1. PICK d \in Dirs : \E i \in Slots : dmm'[d][i] = b
          BY <2>2, <2>7
    <3>2. PICK i \in Slots : dmm'[d][i] = b
          BY <3>1
    <3>3. i \notin S[d] /\ dmm[d][i] = b
          BY <2>1, <2>5, <3>2
    <3>4. b \notin Gone(S)
          BY <2>4, <2>6, <3>3
    <3> QED BY <2>3, <3>3, <3>4
  <2>8. ASSUME b \in InRing, b \notin Gone(S) PROVE b \in InRing'
        BY <2>2, <2>3, <2>4, <2>5, <2>8
  <2> QED BY <2>7, <2>8
<1>2. /\ \A b \in Buffers :
           /\ <<b, "struct">> \in ReleasedBy(S) <=> b \in Gone(S)
           /\ <<b, "param">> \in ReleasedBy(S) <=> b \in Gone(S) /\ b \in HasParam
           /\ <<b, "data">> \in ReleasedBy(S) <=> b \in Gone(S) /\ ~ codec.reuse
      /\ \A k \in Tables : \A i : <<i, k>> \notin ReleasedBy(S)
      BY WhatIsReleased
<1>3. \A b \in Gone(S) : b \in InRing
      BY DEF Gone, InRing
<1>4. \A x \in Mappable : /\ x \notin ReleasedBy(S) \union C => mapped'[x] = mapped[x]
                          /\ x \in ReleasedBy(S) \union C /\ mapped[x] \in {0, 1} => mapped'[x] = 0
      BY DEF UnMap
<1>5. /\ \A b \in Buffers : <<b, "struct">> \in Mappable /\ <<b, "param">> \in Mappable
                            /\ <<b, "data">> \in Mappable
      /\ \A k \in Tables, i \in Slots : <<i, k>> \in Mappable
      BY DEF Mappable
<1>6. \A b : <<b, "struct">> \notin C /\ <<b, "param">> \notin C /\ <<b, "data">> \notin C
  <2>1. "struct" \notin Tables /\ "param" \notin Tables /\ "data" \notin Tables
        BY DEF Tables
  <2> QED BY <2>1
<1>u. Unfinished' = Unfinished
      BY DEF Unfinished
<1>7. ASSUME NEW b \in Buffers
      PROVE  /\ <<b, "struct">> \notin Unfinished' =>
                    mapped'[<<b, "struct">>] = (IF b \in InRing' THEN 1 ELSE 0)
             /\ <<b, "param">> \notin Unfinished' =>
                    mapped'[<<b, "param">>] = (IF b \in InRing' /\ b \in HasParam THEN 1 ELSE 0)
             /\ <<b, "data">> \notin Unfinished' =>
                    mapped'[<<b, "data">>] = (IF b \in InRing' \/ b \in reused' THEN 1 ELSE 0)
  <2>1. /\ <<b, "struct">> \notin Unfinished => mapped[<<b, "struct">>] = (IF b \in InRing THEN 1 ELSE 0)
        /\ <<b, "param">> \notin Unfinished =>
               mapped[<<b, "param">>] = (IF b \in InRing /\ b \in HasParam THEN 1 ELSE 0)
        /\ <<b, "data">> \notin Unfinished =>
               mapped[<<b, "data">>] = (IF b \in InRing \/ b \in reused THEN 1 ELSE 0)
        BY DEF Counts
  <2>2. /\ b \in InRing' <=> b \in InRing /\ b \notin Gone(S)
        /\ b \in Gone(S) => b \in InRing
        BY <1>1, <1>3
  <2>3. /\ <<b, "struct">> \in ReleasedBy(S) \union C <=> b \in Gone(S)
        /\ <<b, "param">> \in ReleasedBy(S) \union C <=> b \in Gone(S) /\ b \in HasParam
        /\ <<b, "data">> \in ReleasedBy(S) \union C <=> b \in Gone(S) /\ ~ codec.reuse
        BY <1>2, <1>6
  <2>a. \A p \in {"struct", "param", "data"} : <<b, p>> \notin Unfinished =>
           /\ <<b, p>> \notin ReleasedBy(S) \union C => mapped'[<<b, p>>] = mapped[<<b, p>>]
           /\ <<b, p>> \in ReleasedBy(S) \union C => mapped'[<<b, p>>] = 0
    <3>1. \A p \in {"struct", "param", "data"} :
             <<b, p>> \in Mappable /\ (<<b, p>> \notin Unfinished => mapped[<<b, p>>] \in {0, 1})
          BY <1>5, <2>1
    <3> QED BY <1>4, <3>1
  <2>4. <<b, "struct">> \notin Unfinished => mapped'[<<b, "struct">>] = (IF b \in InRing' THEN 1 ELSE 0)
        BY <2>1, <2>2, <2>3, <2>a
  <2>5. <<b, "param">> \notin Unfinished =>
           mapped'[<<b, "param">>] = (IF b \in InRing' /\ b \in HasParam THEN 1 ELSE 0)
        BY <2>1, <2>2, <2>3, <2>a
  <2>6. /\ codec.reuse /\ b \in InRing => b \in reused
        /\ ~ codec.reuse => b \notin reused
        BY DEF Reuses
  <2>7. <<b, "data">> \notin Unfinished =>
           mapped'[<<b, "data">>] = (IF b \in InRing' \/ b \in reused' THEN 1 ELSE 0)
        BY <2>1, <2>2, <2>3, <2>6, <2>a
  <2> QED BY <1>u, <2>4, <2>5, <2>7
<1>8. ASSUME NEW k \in Tables, NEW i \in Slots, <<i, k>> \notin Unfinished'
      PROVE  mapped'[<<i, k>>] = (IF i \in control'[k] THEN 1 ELSE 0)
  <2>1. mapped[<<i, k>>] = (IF i \in control[k] THEN 1 ELSE 0)
        BY <1>u, <1>8 DEF Counts
  <2>2. <<i, k>> \in ReleasedBy(S) \union C <=> <<i, k>> \in C
        BY <1>2
  <2>3. <<i, k>> \in Mappable /\ mapped[<<i, k>>] \in {0, 1}
        BY <1>5, <2>1
  <2> QED BY <1>4, <2>1, <2>2, <2>3
<1>9. Counts'
      BY <1>7, <1>8 DEF Counts
<1>10. Reuses'
  <2>1. InRing' \subseteq InRing
    <3>1. InRing' \subseteq Buffers
          BY DEF InRing
    <3> QED BY <1>1, <3>1
  <2> QED BY <2>1 DEF Reuses
<1> QED BY <1>9, <1>10

\* A buffer that is queued is mapped, unless its mapping was kept.
LEMMA QueueMaps ==
    ASSUME Types, RingsFit, KeptFit, Rings, Lending, Contiguous, Reuses, Exact,
           NEW b \in Buffers, QueueBuffer(b)
    PROVE  Exact' /\ Reuses'
<1>1. /\ caller.pc = "ready" /\ b \notin lent
      /\ \A e \in Dirs, i \in Slots :
           IF e = Dir(StreamOf[b]) /\ i = count[e] THEN dmm'[e][i] = b ELSE dmm'[e][i] = dmm[e][i]
      /\ UNCHANGED <<codec, control>>
      BY Queueing
<1>2. /\ Dir(StreamOf[b]) \in Dirs /\ count[Dir(StreamOf[b])] \in Slots
      /\ dmm[Dir(StreamOf[b])][count[Dir(StreamOf[b])]] = NULL
      /\ \A e \in Dirs, i \in Slots : storage[e][i] # b
      BY <1>1, SlotFree
<1>3. b \notin InRing
      BY <1>2, NullApart DEF InRing, Rings
<1>4. \A c \in Buffers : c \in InRing' <=> c \in InRing \/ c = b
  <2> SUFFICES ASSUME NEW c \in Buffers PROVE c \in InRing' <=> c \in InRing \/ c = b
      OBVIOUS
  <2>1. c \in InRing' <=> \E d \in Dirs, i \in Slots : dmm'[d][i] = c
        BY DEF InRing
  <2>2. c \in InRing <=> \E d \in Dirs, i \in Slots : dmm[d][i] = c
        BY DEF InRing
  <2>3. c # NULL
        BY NullApart
  <2>4. CASE c = b
        BY <1>1, <1>2, <2>1, <2>4
  <2>5. CASE c # b
    <3>1. \A d \in Dirs, i \in Slots : dmm'[d][i] = c <=> dmm[d][i] = c
          BY <1>1, <1>2, <2>3, <2>5
    <3> QED BY <2>1, <2>2, <2>5, <3>1
  <2> QED BY <2>4, <2>5
<1> DEFINE X == NewData(b) \union Parts(b)
<1>5. reused' = Keeping(b) /\ mapped' = Map(X)
      BY DEF QueueBuffer
<1>6. IF codec.reuse THEN reused' = reused \union {b} ELSE reused' = reused /\ reused = {}
  <2>1. ASSUME codec.reuse, ~ (Cardinality(reused) < MAX_DMM_BUFFERS) PROVE b \in reused
    <3>1. reused \subseteq Buffers /\ IsFiniteSet(Buffers) /\ IsFiniteSet(reused)
          BY DEF Types, ReusedType, KeptFit
    <3>2. Cardinality(reused) \in Nat /\ Cardinality(Buffers) \in Nat /\ MAX_DMM_BUFFERS \in Nat
          BY <3>1, FS_CardinalityType, LCMLAssumption
    <3>3. Cardinality(Buffers) <= Cardinality(reused)
          BY <2>1, <3>2 DEF KeptFit
    <3>4. Cardinality(reused) <= Cardinality(Buffers) /\ (Cardinality(reused) = Cardinality(Buffers) => reused = Buffers)
          BY <3>1, FS_Subset
    <3> QED BY <3>2, <3>3, <3>4
  <2>2. ~ codec.reuse => reused = {}
        BY DEF Reuses
  <2> QED BY <1>5, <2>1, <2>2 DEF Keeping
<1>7. \A c \in Buffers : c \in InRing' \/ c \in reused' <=> c \in InRing \/ c \in reused \/ c = b
      BY <1>4, <1>6
<1>8. /\ \A x : x \in X <=> \/ x = <<b, "struct">> \/ (b \in HasParam /\ x = <<b, "param">>)
                            \/ (b \notin reused /\ x = <<b, "data">>)
  <2>1. IsKept(b) <=> b \in reused
        BY DEF IsKept, Reuses
  <2> QED BY <2>1, PartsOf DEF NewData
<1> HIDE DEF X
<1>9. \A x \in Mappable : /\ x \in X => mapped'[x] = mapped[x] + 1
                          /\ x \notin X => mapped'[x] = mapped[x]
  <2>1. mapped \in [Mappable -> Nat]
        BY DEF Types, MappedType
  <2> QED BY <1>5, <2>1 DEF Map
<1>10. /\ \A c \in Buffers : <<c, "struct">> \in Mappable /\ <<c, "param">> \in Mappable
                            /\ <<c, "data">> \in Mappable
       /\ \A k \in Tables, i \in Slots : <<i, k>> \in Mappable
      BY DEF Mappable
<1>11. ASSUME NEW c \in Buffers
       PROVE  /\ mapped'[<<c, "struct">>] = (IF c \in InRing' THEN 1 ELSE 0)
              /\ mapped'[<<c, "param">>] = (IF c \in InRing' /\ c \in HasParam THEN 1 ELSE 0)
              /\ mapped'[<<c, "data">>] = (IF c \in InRing' \/ c \in reused' THEN 1 ELSE 0)
  <2>1. /\ mapped[<<c, "struct">>] = (IF c \in InRing THEN 1 ELSE 0)
        /\ mapped[<<c, "param">>] = (IF c \in InRing /\ c \in HasParam THEN 1 ELSE 0)
        /\ mapped[<<c, "data">>] = (IF c \in InRing \/ c \in reused THEN 1 ELSE 0)
        BY DEF Exact
  <2>2. /\ <<c, "struct">> \in X <=> c = b
        /\ <<c, "param">> \in X <=> c = b /\ b \in HasParam
        /\ <<c, "data">> \in X <=> c = b /\ b \notin reused
        BY <1>8
  <2>3. /\ c \in InRing' <=> c \in InRing \/ c = b
        /\ c \in InRing' \/ c \in reused' <=> c \in InRing \/ c \in reused \/ c = b
        BY <1>4, <1>7
  <2>4. CASE c = b
    <3>1. /\ mapped[<<c, "struct">>] = 0 /\ mapped[<<c, "param">>] = 0
          /\ mapped[<<c, "data">>] = IF b \in reused THEN 1 ELSE 0
          BY <1>3, <2>1, <2>4
    <3>2. /\ mapped'[<<c, "struct">>] = 0 + 1
          BY <1>9, <1>10, <2>2, <2>4, <3>1
    <3>3. mapped'[<<c, "param">>] = IF b \in HasParam THEN 0 + 1 ELSE 0
          BY <1>9, <1>10, <2>2, <2>4, <3>1
    <3>4. mapped'[<<c, "data">>] = 1
      <4>1. CASE b \in reused
            BY <1>9, <1>10, <2>2, <2>4, <3>1, <4>1
      <4>2. CASE b \notin reused
            BY <1>9, <1>10, <2>2, <2>4, <3>1, <4>2
      <4> QED BY <4>1, <4>2
    <3> QED BY <2>3, <2>4, <3>2, <3>3, <3>4
  <2>5. CASE c # b
    <3>1. /\ mapped'[<<c, "struct">>] = mapped[<<c, "struct">>]
          /\ mapped'[<<c, "param">>] = mapped[<<c, "param">>]
          /\ mapped'[<<c, "data">>] = mapped[<<c, "data">>]
          BY <1>9, <1>10, <2>2, <2>5
    <3> QED BY <2>1, <2>3, <2>5, <3>1
  <2> QED BY <2>4, <2>5
<1>12. ASSUME NEW k \in Tables, NEW i \in Slots PROVE mapped'[<<i, k>>] = (IF i \in control'[k] THEN 1 ELSE 0)
  <2>1. k # "struct" /\ k # "param" /\ k # "data"
        BY DEF Tables
  <2>2. <<i, k>> \notin X
        BY <1>8, <2>1
  <2>3. mapped'[<<i, k>>] = mapped[<<i, k>>]
        BY <1>9, <1>10, <2>2
  <2> QED BY <1>1, <2>3 DEF Exact
<1>13. Reuses'
  <2>1. InRing' \subseteq Buffers
        BY DEF InRing
  <2> QED BY <1>1, <1>4, <1>6, <2>1 DEF Reuses
<1> QED BY <1>11, <1>12, <1>13 DEF Exact

\* A control block is mapped once.
LEMMA BlockMaps ==
    ASSUME Types, Reuses, Exact, NEW k \in Tables, ControlBlock(k) PROVE Exact' /\ Reuses'
<1> DEFINE i == Min(FreeControl(k))
<1>1. /\ FreeControl(k) # {} /\ control' = [control EXCEPT ![k] = @ \union {i}]
      /\ mapped' = Map({<<i, k>>}) /\ UNCHANGED <<codec, tables, reused>>
      BY DEF ControlBlock
<1>2. i \in Slots /\ i \notin control[k]
      BY <1>1, FreeEntry DEF FreeControl
<1> HIDE DEF i
<1>3. InRing' = InRing
      BY <1>1 DEF InRing, tables
<1>4. \A x \in Mappable : /\ x = <<i, k>> => mapped'[x] = mapped[x] + 1
                          /\ x # <<i, k>> => mapped'[x] = mapped[x]
  <2>1. mapped \in [Mappable -> Nat]
        BY DEF Types, MappedType
  <2> QED BY <1>1, <2>1 DEF Map
<1>5. /\ \A c \in Buffers : <<c, "struct">> \in Mappable /\ <<c, "param">> \in Mappable
                            /\ <<c, "data">> \in Mappable
      /\ \A t \in Tables, j \in Slots : <<j, t>> \in Mappable
      BY DEF Mappable
<1>6. \A c \in Buffers : /\ mapped'[<<c, "struct">>] = mapped[<<c, "struct">>]
                         /\ mapped'[<<c, "param">>] = mapped[<<c, "param">>]
                         /\ mapped'[<<c, "data">>] = mapped[<<c, "data">>]
  <2>1. k # "struct" /\ k # "param" /\ k # "data"
        BY DEF Tables
  <2>2. ASSUME NEW c \in Buffers
        PROVE  /\ mapped'[<<c, "struct">>] = mapped[<<c, "struct">>]
               /\ mapped'[<<c, "param">>] = mapped[<<c, "param">>]
               /\ mapped'[<<c, "data">>] = mapped[<<c, "data">>]
    <3>1. /\ <<c, "struct">> # <<i, k>> /\ <<c, "param">> # <<i, k>> /\ <<c, "data">> # <<i, k>>
          /\ <<c, "struct">> \in Mappable /\ <<c, "param">> \in Mappable /\ <<c, "data">> \in Mappable
          BY <1>5, <2>1
    <3>2. mapped'[<<c, "struct">>] = mapped[<<c, "struct">>]
          BY <1>4, <3>1
    <3>3. mapped'[<<c, "param">>] = mapped[<<c, "param">>]
          BY <1>4, <3>1
    <3>4. mapped'[<<c, "data">>] = mapped[<<c, "data">>]
          BY <1>4, <3>1
    <3> QED BY <3>2, <3>3, <3>4
  <2> QED BY <2>2, Zenon
<1>7. ASSUME NEW t \in Tables, NEW j \in Slots PROVE mapped'[<<j, t>>] = (IF j \in control'[t] THEN 1 ELSE 0)
  <2>1. mapped[<<j, t>>] = (IF j \in control[t] THEN 1 ELSE 0)
        BY DEF Exact
  <2>2. control \in [Tables -> SUBSET Slots]
        BY DEF Types, TableType
  <2>3. j \in control'[t] <=> j \in control[t] \/ (t = k /\ j = i)
        BY <1>1, <2>2
  <2>4. CASE t = k /\ j = i
    <3>0. mapped[<<i, k>>] = (IF i \in control[k] THEN 1 ELSE 0)
          BY <1>2 DEF Exact
    <3>1. mapped[<<i, k>>] = 0 /\ <<i, k>> \in Mappable
          BY <1>2, <1>5, <3>0
    <3>2. mapped'[<<i, k>>] = 0 + 1
          BY <1>4, <3>1
    <3> QED BY <2>3, <2>4, <3>2
  <2>5. CASE ~ (t = k /\ j = i)
    <3>1. <<j, t>> # <<i, k>> /\ <<j, t>> \in Mappable
          BY <1>5, <2>5
    <3>2. mapped'[<<j, t>>] = mapped[<<j, t>>]
          BY <1>4, <3>1
    <3> QED BY <2>1, <2>3, <2>5, <3>2
  <2> QED BY <2>4, <2>5
<1>8. Exact'
      BY <1>1, <1>3, <1>6, <1>7 DEF Exact
<1>9. Reuses'
      BY <1>1, <1>3 DEF Reuses
<1> QED BY <1>8, <1>9

\* A buffer that could not be mapped leaves the rings and every other mapping.
LEMMA FailedMaps ==
    ASSUME Types, RingsFit, Rings, Lending, Contiguous, Reuses, Exact,
           NEW b \in Buffers, QueueBufferFails(b)
    PROVE  Counts' /\ Reuses'
<1> DEFINE d == Dir(StreamOf[b])
           c == count[d]
<1>1. caller.pc = "ready" /\ b \notin lent
      BY DEF QueueBufferFails
<1>2. d \in Dirs /\ c \in Slots /\ dmm[d][c] = NULL
      BY <1>1, SlotFree
<1>3. /\ dmm' = [dmm EXCEPT ![d][c] = NULL] /\ UNCHANGED <<codec, control>>
      /\ caller' = Failing(Message("SETBUFF", StreamOf[b], b))
      /\ \/ UNCHANGED <<reused, mapped>>
         \/ reused' = Keeping(b) /\ \E X \in { {}, Params(b) } : mapped' = Map(NewData(b) \union X)
      BY DEF QueueBufferFails
<1> HIDE DEF d, c
<1>4. InRing' = InRing
  <2>1. dmm \in [Dirs -> [Slots -> Buffers \union {NULL}]]
        BY DEF Types, RingType
  <2>2. [dmm[d] EXCEPT ![c] = NULL] = dmm[d]
        BY <1>2, <2>1
  <2>3. dmm' = dmm
        BY <1>2, <1>3, <2>1, <2>2
  <2> QED BY <2>3 DEF InRing
<1>5. \A p \in {"data", "param", "struct"} : <<b, p>> \in Unfinished'
      BY <1>3 DEF Unfinished, Failing, At, Refers, Message
<1>6. reused \subseteq reused' /\ reused' \subseteq reused \union {b} /\ (~ codec.reuse => reused' = reused)
      BY <1>3 DEF Keeping
<1>7. \A x \in Mappable : x \notin {<<b, "data">>, <<b, "param">>} => mapped'[x] = mapped[x]
  <2>1. mapped \in [Mappable -> Nat]
        BY DEF Types, MappedType
  <2>2. \A x : x \in NewData(b) \union Params(b) => x \in {<<b, "data">>, <<b, "param">>}
        BY DEF NewData, Params
  <2>3. CASE UNCHANGED mapped
        BY <2>3
  <2>4. ASSUME NEW X \in { {}, Params(b) }, mapped' = Map(NewData(b) \union X)
        PROVE  \A x \in Mappable : x \notin {<<b, "data">>, <<b, "param">>} => mapped'[x] = mapped[x]
    <3>1. \A x \in Mappable : x \notin NewData(b) \union X => mapped'[x] = mapped[x]
          BY <2>1, <2>4 DEF Map
    <3> QED BY <2>2, <3>1
  <2> QED BY <1>3, <2>3, <2>4
<1>8. ASSUME NEW e \in Buffers, e # b
      PROVE  /\ mapped'[<<e, "struct">>] = (IF e \in InRing' THEN 1 ELSE 0)
             /\ mapped'[<<e, "param">>] = (IF e \in InRing' /\ e \in HasParam THEN 1 ELSE 0)
             /\ mapped'[<<e, "data">>] = (IF e \in InRing' \/ e \in reused' THEN 1 ELSE 0)
  <2>1. \A p \in {"data", "param", "struct"} :
            <<e, p>> \in Mappable /\ <<e, p>> \notin {<<b, "data">>, <<b, "param">>}
        BY <1>8 DEF Mappable
  <2>2. \A p \in {"data", "param", "struct"} : mapped'[<<e, p>>] = mapped[<<e, p>>]
        BY <1>7, <2>1
  <2>3. e \in reused' <=> e \in reused
        BY <1>6, <1>8
  <2> QED BY <1>4, <2>2, <2>3 DEF Exact
<1>9. ASSUME NEW k \in Tables, NEW i \in Slots PROVE mapped'[<<i, k>>] = (IF i \in control'[k] THEN 1 ELSE 0)
  <2>1. k # "data" /\ k # "param"
        BY DEF Tables
  <2>2. <<i, k>> \in Mappable /\ <<i, k>> \notin {<<b, "data">>, <<b, "param">>}
        BY <2>1 DEF Mappable
  <2> QED BY <1>3, <1>7, <2>2 DEF Exact
<1>10. Counts'
       BY <1>5, <1>8, <1>9 DEF Counts
<1>11. Reuses'
       BY <1>3, <1>4, <1>6 DEF Reuses
<1> QED BY <1>10, <1>11

\* A control block that could not be mapped leaves every other mapping.
LEMMA FailedBlock ==
    ASSUME Types, Reuses, Exact, NEW k \in Tables, ControlBlockFails(k) PROVE Counts' /\ Reuses'
<1> DEFINE i == Min(FreeControl(k))
<1>1. /\ control' = [control EXCEPT ![k] = @ \union {i}]
      /\ UNCHANGED <<codec, tables, reused, mapped>>
      /\ caller' = Failing(BlockMessage(k, i))
      BY DEF ControlBlockFails
<1> HIDE DEF i
<1>2. InRing' = InRing
      BY <1>1 DEF InRing, tables
<1>3. <<i, k>> \in Unfinished'
      BY <1>1 DEF Unfinished, Failing, At, Refers, BlockMessage, Message, Tables
<1>4. ASSUME NEW t \in Tables, NEW j \in Slots, <<j, t>> \notin Unfinished'
      PROVE  mapped'[<<j, t>>] = (IF j \in control'[t] THEN 1 ELSE 0)
  <2>1. control \in [Tables -> SUBSET Slots]
        BY DEF Types, TableType
  <2>2. ~ (t = k /\ j = i)
        BY <1>3, <1>4
  <2>3. j \in control'[t] <=> j \in control[t]
        BY <1>1, <2>1, <2>2
  <2> QED BY <1>1, <2>3 DEF Exact
<1>5. Counts'
      BY <1>1, <1>2, <1>4 DEF Counts, Exact
<1>6. Reuses'
      BY <1>1, <1>2 DEF Reuses
<1> QED BY <1>5, <1>6

\* The acknowledgements and the mappings.
LEMMA AckMaps ==
    ASSUME Types, Rings, Reuses, Counts, MsgStop \/ MsgStrmCtrl PROVE Counts' /\ Reuses'
<1> DEFINE m == Head(fromDsp)
           flush == m.cmd = "STRMCTRL" /\ flush_pending[m.stream]
           a == IF flush THEN NULL ELSE m.addr
           C == IF MsgStop THEN {} ELSE ControlMapping("strm", a)
<1>1. /\ ClearSlots(Acked) /\ \A d \in Dirs : Acked[d] \subseteq Occupied(d)
      /\ UNCHANGED <<codec, caller, reused>>
      /\ IF MsgStop THEN m.cmd = "STOP" ELSE m.cmd \in StreamAnswers
      BY Acks
<1>2. /\ mapped' = UnMap(ReleasedBy(Acked) \union C)
      /\ control' = IF MsgStop THEN control ELSE ControlAfter("strm", a)
  <2>1. CASE MsgStop
    <3>1. Acked = [d \in Dirs |-> IF codec.dasf THEN {} ELSE Occupied(d)]
          BY <1>1, <2>1 DEF Acked
    <3>2. mapped' = UnMap(ReleasedBy(Acked)) /\ control' = control
          BY <2>1, <3>1 DEF MsgStop
    <3>3. ReleasedBy(Acked) \union C = ReleasedBy(Acked)
          BY <2>1
    <3> QED BY <2>1, <3>2, <3>3
  <2>2. CASE MsgStrmCtrl /\ ~ MsgStop
    <3>1. Acked = IF flush THEN FlushedSlots(m.stream) ELSE [d \in Dirs |-> {}]
          BY <1>1, <2>2 DEF Acked, StreamAnswers
    <3>2. /\ mapped' = UnMap(ReleasedBy(Acked) \union ControlMapping("strm", a))
          /\ control' = ControlAfter("strm", a)
          BY <2>2, <3>1 DEF MsgStrmCtrl
    <3> QED BY <2>2, <3>2
  <2> QED BY <2>1, <2>2
<1>3. \A d \in Dirs : Acked[d] \subseteq Slots
      BY <1>1 DEF Occupied
<1>4. control \in [Tables -> SUBSET Slots] /\ "strm" \in Tables
      BY DEF Types, TableType, Tables
<1>5. \A x : x \in ControlMapping("strm", a) <=> a \in control["strm"] /\ x = <<a, "strm">>
      BY DEF ControlMapping
<1>6. \A x : x \in C <=> ~ MsgStop /\ a \in control["strm"] /\ x = <<a, "strm">>
      BY <1>5
<1>7. \A k \in Tables : control'[k] = IF ~ MsgStop /\ k = "strm" THEN control[k] \ {a} ELSE control[k]
      BY <1>2, <1>4 DEF ControlAfter
<1> HIDE DEF a, C, flush, m
<1>8. C \in SUBSET (Slots \X Tables)
      BY <1>4, <1>6
<1>9. /\ \A k \in Tables, i \in Slots : i \in control'[k] <=> i \in control[k] /\ <<i, k>> \notin C
      /\ \A k \in Tables, i \in Slots : <<i, k>> \in C => i \in control[k]
  <2> SUFFICES ASSUME NEW k \in Tables, NEW i \in Slots
               PROVE  /\ i \in control'[k] <=> i \in control[k] /\ <<i, k>> \notin C
                      /\ <<i, k>> \in C => i \in control[k]
      OBVIOUS
  <2>1. <<i, k>> \in C <=> ~ MsgStop /\ a \in control["strm"] /\ i = a /\ k = "strm"
        BY <1>6
  <2> QED BY <1>7, <2>1
<1> QED BY <1>1, <1>2, <1>3, <1>8, <1>9, ClearMaps

\* The acknowledgement of an algorithm control and the mappings.
LEMMA AlgMaps ==
    ASSUME Types, Rings, Reuses, Counts, MsgAlgCtrl PROVE Counts' /\ Reuses'
<1> DEFINE a == Head(fromDsp).addr
           S == [d \in Dirs |-> {}]
           C == ControlMapping("alg", a)
<1>1. /\ UNCHANGED <<codec, caller, reused, tables>>
      /\ mapped' = UnMap(C) /\ control' = ControlAfter("alg", a)
      BY DEF MsgAlgCtrl
<1>2. ReleasedBy(S) = {}
      BY DEF ReleasedBy
<1>3. ClearSlots(S)
  <2>1. /\ storage = [d \in Dirs |-> [i \in Slots |-> storage[d][i]]]
        /\ dmm = [d \in Dirs |-> [i \in Slots |-> dmm[d][i]]]
        BY DEF Types, RingType
  <2>2. \A d \in Dirs : \A i : i \notin S[d]
        OBVIOUS
  <2> QED BY <1>1, <2>1, <2>2 DEF ClearSlots, tables
<1>4. mapped' = UnMap(ReleasedBy(S) \union C)
  <2>1. ReleasedBy(S) \union C = C
        BY <1>2
  <2> QED BY <1>1, <2>1
<1>5. control \in [Tables -> SUBSET Slots] /\ "alg" \in Tables
      BY DEF Types, TableType, Tables
<1>6. \A x : x \in C <=> a \in control["alg"] /\ x = <<a, "alg">>
      BY DEF ControlMapping
<1>7. \A k \in Tables : control'[k] = IF k = "alg" THEN control[k] \ {a} ELSE control[k]
      BY <1>1, <1>5 DEF ControlAfter
<1>8. \A d \in Dirs : S[d] \subseteq Slots
      OBVIOUS
<1> HIDE DEF a, C, S
<1>9. C \in SUBSET (Slots \X Tables)
      BY <1>5, <1>6
<1>10. /\ \A k \in Tables, i \in Slots : i \in control'[k] <=> i \in control[k] /\ <<i, k>> \notin C
       /\ \A k \in Tables, i \in Slots : <<i, k>> \in C => i \in control[k]
  <2> SUFFICES ASSUME NEW k \in Tables, NEW i \in Slots
               PROVE  /\ i \in control'[k] <=> i \in control[k] /\ <<i, k>> \notin C
                      /\ <<i, k>> \in C => i \in control[k]
      OBVIOUS
  <2>1. <<i, k>> \in C <=> a \in control["alg"] /\ i = a /\ k = "alg"
        BY <1>6
  <2> QED BY <1>7, <2>1
<1> QED BY <1>1, <1>3, <1>4, <1>8, <1>9, <1>10, ClearMaps

\* Every step keeps the mappings in step with the rings.
LEMMA MapsStep ==
    ASSUME ProperUse, KeptFit, IInv, Reuses, Counts, [Next]_vars PROVE Counts' /\ Reuses'
<1> USE DEF IInv, ProperUse
<1>a. ASSUME UNCHANGED <<codec, bridge, tables>>, Unfinished \subseteq Unfinished'
      PROVE  Counts' /\ Reuses'
  <2>1. InRing' = InRing
        BY <1>a DEF InRing, tables
  <2> QED BY <1>a, <2>1 DEF Counts, Reuses, bridge
<1>b. ASSUME UNCHANGED <<codec, bridge, tables, caller>> PROVE Counts' /\ Reuses'
      BY <1>a, <1>b DEF Unfinished
<1>c. ASSUME caller.pc \in {"none", "ready", "put", "flush", "stop"} PROVE Unfinished = {}
  <2>1. caller.next # "error"
        BY <1>c, NullApart DEF Types, CallerType, Tokens
  <2> QED BY <2>1 DEF Unfinished
<1>d. Unfinished = {} /\ Counts => Exact
      BY DEF Counts, Exact
<1>e. Exact' => Counts'
      BY DEF Counts, Exact
<1>1. CASE InitMMCodec
  <2>1. UNCHANGED <<tables, control, codec>>
    <3>1. QuietStep
          BY <1>1 DEF QuietStep
    <3> QED BY <3>1, QuietFacts
  <2>2. UNCHANGED <<reused, mapped>> /\ caller.pc = "none"
        BY <1>1 DEF InitMMCodec
  <2> QED BY <1>a, <1>c, <2>1, <2>2 DEF bridge
<1>2. ASSUME NEW b \in Buffers, QueueBuffer(b) PROVE Counts' /\ Reuses'
  <2>1. caller.pc = "ready"
        BY <1>2 DEF QueueBuffer
  <2> QED BY <1>2, <1>c, <1>d, <1>e, <2>1, QueueMaps
<1>3. ASSUME NEW b \in Buffers, QueueBufferFails(b) PROVE Counts' /\ Reuses'
  <2>1. caller.pc = "ready"
        BY <1>3 DEF QueueBufferFails
  <2> QED BY <1>3, <1>c, <1>d, <2>1, FailedMaps
<1>4. CASE PutMessage \/ PutMessageFails
      BY <1>4, <1>a, <1>c DEF PutMessage, PutMessageFails
<1>5. ASSUME NEW cmd, ControlState(cmd) PROVE Counts' /\ Reuses'
      BY <1>5, <1>a, <1>c DEF ControlState
<1>6. ASSUME NEW s, ControlFlush(s) PROVE Counts' /\ Reuses'
      BY <1>6, <1>a, <1>c DEF ControlFlush
<1>7. ASSUME NEW k \in Tables, ControlBlock(k) \/ ControlBlockFails(k) PROVE Counts' /\ Reuses'
  <2>1. caller.pc = "ready"
        BY <1>7 DEF ControlBlock, ControlBlockFails
  <2> QED BY <1>7, <1>c, <1>d, <1>e, <2>1, BlockMaps, FailedBlock
<1>15. CASE ControlDestroy
  <2>1. caller'.next = caller.next /\ caller'.put = caller.put
        BY <1>15 DEF ControlDestroy, Types, CallerType
  <2>2. Unfinished' = Unfinished
        BY <2>1 DEF Unfinished
  <2> QED BY <1>15, <1>a, <2>2 DEF ControlDestroy
<1>16. CASE MsgCallback
  <2>1. caller' = caller \/ caller.pc \in {"flush", "stop"}
        BY <1>16 DEF MsgCallback
  <2>2. Unfinished \subseteq Unfinished'
        BY <1>c, <2>1 DEF Unfinished
  <2> QED BY <1>16, <1>a, <2>2 DEF MsgCallback
<1>8. CASE MsgLeave \/ MsgWake \/ MsgFault \/ MsgEmpty \/ MsgPause \/ ControlBlockFull
      BY <1>8, <1>b DEF MsgLeave, MsgWake, MsgFault, MsgEmpty, MsgPause, ControlBlockFull
<1>9. ASSUME NEW s, DspTake \/ DspReturn(s) \/ DspFlushFails \/ DspFault PROVE Counts' /\ Reuses'
      BY <1>9, <1>b DEF DspTake, DspReturn, DspFlushFails, DspFault
<1>10. CASE UNCHANGED vars
      BY <1>10, <1>b DEF vars
<1>11. CASE MsgBuffFree
  <2>1. mapped' = UnMap(ReleasedBy(Freed)) /\ ClearSlots(Freed) /\ FreedSlot \in Slots
        BY <1>11, FreedIsFound
  <2>2. UNCHANGED <<codec, caller, reused, control>>
        BY <1>11, BuffFree
  <2>3. \A d \in Dirs : Freed[d] \subseteq Slots
        BY <2>1 DEF Freed
  <2>4. ReleasedBy(Freed) \union {} = ReleasedBy(Freed) /\ {} \in SUBSET (Slots \X Tables)
        OBVIOUS
  <2> QED BY <2>1, <2>2, <2>3, <2>4, ClearMaps
<1>12. CASE MsgStop \/ MsgStrmCtrl
      BY <1>12, AckMaps
<1>13. CASE MsgAlgCtrl
      BY <1>13, AlgMaps
<1>14. CASE Destroyed
  <2>1. /\ dmm' = Empty /\ reused' = {} /\ control' = NoControl /\ mapped' = Unmapped
        BY <1>14 DEF Destroyed
  <2>2. InRing' = {}
        BY <2>1, NullApart DEF InRing, Empty
  <2>3. /\ \A b \in Buffers : <<b, "struct">> \in Mappable /\ <<b, "param">> \in Mappable
                              /\ <<b, "data">> \in Mappable
        /\ \A k \in Tables, i \in Slots : <<i, k>> \in Mappable
        BY DEF Mappable
  <2>4. \A x \in Mappable : mapped'[x] = 0
        BY <2>1 DEF Unmapped
  <2>5. \A k \in Tables : control'[k] = {}
        BY <2>1 DEF NoControl
  <2>6. Counts'
        BY <2>1, <2>2, <2>3, <2>4, <2>5 DEF Counts
  <2>7. Reuses'
        BY <2>1, <2>2 DEF Reuses
  <2> QED BY <2>6, <2>7
<1> HIDE DEF IInv, ProperUse
<1> QED BY <1>1, <1>2, <1>3, <1>4, <1>5, <1>6, <1>7, <1>8, <1>9, <1>10, <1>11, <1>12, <1>13, <1>14, <1>15, <1>16
    DEF Next, Caller, MessagingThread, Dsp

\* DmmUnMap undoes DmmMap: the bridge has mapped, once each, what the rings,
\* the kept mappings and the control tables refer to, and nothing else, for
\* every component whose buffers fit the rings and mapped_dmm_buffers.
THEOREM MappingsMatch == ASSUME ProperUse, KeptFit PROVE Spec => []MapsMatch
<1>1. Init => Reuses /\ Counts
  <2> SUFFICES ASSUME Init PROVE Reuses /\ Counts
      OBVIOUS
  <2>1. /\ dmm = Empty /\ reused = {} /\ control = NoControl /\ mapped = Unmapped
        BY DEF Init
  <2>2. InRing = {}
        BY <2>1, NullApart DEF InRing, Empty
  <2>3. /\ \A b \in Buffers : <<b, "struct">> \in Mappable /\ <<b, "param">> \in Mappable
                              /\ <<b, "data">> \in Mappable
        /\ \A k \in Tables, i \in Slots : <<i, k>> \in Mappable
        BY DEF Mappable
  <2>4. \A x \in Mappable : mapped[x] = 0
        BY <2>1 DEF Unmapped
  <2>5. \A k \in Tables : control[k] = {}
        BY <2>1 DEF NoControl
  <2>6. Counts
        BY <2>1, <2>2, <2>3, <2>4, <2>5 DEF Counts
  <2>7. Reuses
        BY <2>1, <2>2 DEF Reuses
  <2> QED BY <2>6, <2>7
<1>2. IInv /\ Reuses /\ Counts /\ [Next]_vars => (Reuses /\ Counts)'
      BY MapsStep
<1>3. IInv /\ Counts => MapsMatch
      BY MapsCounts DEF IInv
<1> QED BY <1>1, <1>2, <1>3, Invariant, PTL DEF Spec

-----------------------------------------------------------------------------
(* The refinement of BufferLoan.                                           *)

\* What the component waits for.
LEMMA AskedCases ==
    /\ caller.next = "flush" => Asked = {caller.put.stream}
    /\ caller.next = "stop" => Asked = Streams
    /\ caller.next \notin {"flush", "stop"} => Asked = {}
    /\ Asked' = IF caller'.next = "flush" THEN {caller'.put.stream}
                ELSE IF caller'.next = "stop" THEN Streams ELSE {}
<1>1. "flush" # "stop"
      OBVIOUS
<1>2. Asked = IF caller.next = "flush" THEN {caller.put.stream}
              ELSE IF caller.next = "stop" THEN Streams ELSE {}
      BY <1>1 DEF Asked
<1>3. Asked' = IF caller'.next = "flush" THEN {caller'.put.stream}
               ELSE IF caller'.next = "stop" THEN Streams ELSE {}
      BY <1>1 DEF Asked
<1> QED BY <1>2, <1>3

\* Every step is a step of BufferLoan, or changes nothing that it sees.
LEMMA LoanStep ==
    ASSUME IInv, [Next]_vars PROVE Loan!LoanNext \/ UNCHANGED <<lent, Asked>>
<1> USE DEF IInv
<1>a. /\ caller.next = "flush" => Asked = {caller.put.stream}
      /\ caller.next = "stop" => Asked = Streams
      /\ caller.next \notin {"flush", "stop"} => Asked = {}
      /\ caller'.next = "flush" => Asked' = {caller'.put.stream}
      /\ caller'.next = "stop" => Asked' = Streams
      /\ caller'.next \notin {"flush", "stop"} => Asked' = {}
      BY AskedCases
<1>b. caller.pc \in {"none", "ready"} => Asked = {}
      BY <1>a, NullApart DEF Tokens
<1>c. NULL \notin {"flush", "stop"} /\ \A place : At(place).next = NULL
      BY NullApart DEF At
<1>d. lent \subseteq Buffers
      BY DEF Types
<1>e. ASSUME caller'.next = caller.next, caller'.put = caller.put PROVE Asked' = Asked
      BY <1>a, <1>e
<1>f. ASSUME NEW b \in Buffers, b \notin lent, lent' = lent \union {b}, Asked' = Asked PROVE Loan!LoanNext
  <2>1. {b} \in SUBSET Buffers /\ {b} # {} /\ {b} \intersect lent = {}
        BY <1>f
  <2>2. Loan!Lend({b})
        BY <1>f, <2>1 DEF Loan!Lend
  <2> QED BY <2>1, <2>2 DEF Loan!LoanNext
<1>g. ASSUME NEW X, lent' = lent \ X, Asked' = Asked PROVE Loan!LoanNext \/ UNCHANGED <<lent, Asked>>
  <2> DEFINE B == lent \intersect X
  <2>1. CASE B = {}
    <3>1. lent' = lent
          BY <1>g, <2>1
    <3> QED BY <1>g, <3>1
  <2>2. CASE B # {}
    <3>1. B \in SUBSET lent /\ lent' = lent \ B
          BY <1>g
    <3> HIDE DEF B
    <3>2. Loan!GiveBack(B)
          BY <1>g, <2>2, <3>1 DEF Loan!GiveBack
    <3> QED BY <3>1, <3>2 DEF Loan!LoanNext
  <2> QED BY <2>1, <2>2
<1>h. Loan!Streams = Streams
      BY DEF Loan!Streams, Streams
<1>i. ASSUME NEW R \in SUBSET Streams, Asked = {}, Asked' = R, lent' = lent
      PROVE  Loan!LoanNext \/ UNCHANGED <<lent, Asked>>
  <2>1. CASE R = {}
        BY <1>i, <2>1
  <2>2. CASE R # {}
    <3>1. Loan!Ask(R) /\ R \in (SUBSET Loan!Streams) \ {{}}
          BY <1>h, <1>i, <2>2 DEF Loan!Ask
    <3> QED BY <3>1 DEF Loan!LoanNext
  <2> QED BY <2>1, <2>2
<1>j. ASSUME Asked' = {}, lent' = lent, \A b \in lent : StreamOf[b] \notin Asked
      PROVE  Loan!LoanNext \/ UNCHANGED <<lent, Asked>>
  <2>1. CASE Asked = {}
        BY <1>j, <2>1
  <2>2. CASE Asked # {}
    <3>1. lent \intersect Loan!Concerned(Asked) = {}
          BY <1>j DEF Loan!Concerned
    <3>2. Loan!Answer
          BY <1>j, <2>2, <3>1 DEF Loan!Answer
    <3> QED BY <3>2 DEF Loan!LoanNext
  <2> QED BY <2>1, <2>2
<1>1. CASE QuietStep
  <2>1. CASE InitMMCodec
    <3>1. caller.pc = "none" /\ caller' = At("ready") /\ lent' = lent
          BY <2>1 DEF InitMMCodec
    <3>2. caller'.next = NULL
          BY <1>c, <3>1
    <3>3. Asked' = {} /\ Asked = {}
          BY <1>a, <1>b, <1>c, <3>1, <3>2
    <3> QED BY <3>1, <3>3
  <2>2. CASE PutMessageFails \/ ControlDestroy
    <3>1. caller \in CallerType
          BY DEF Types
    <3>2. caller'.next = caller.next /\ caller'.put = caller.put /\ lent' = lent
          BY <3>1, <2>2 DEF PutMessageFails, ControlDestroy, CallerType
    <3> QED BY <1>e, <3>2
  <2>3. CASE MsgCallback
    <3>1. /\ msg.pc = "call"
          /\ lent' = IF msg.event = "processed" THEN lent \ {msg.arg} ELSE lent
          /\ caller' = IF \/ msg.event = "stopped" /\ caller.pc = "stop"
                          \/ msg.event = "flushed" /\ caller.pc = "flush" /\ caller.put.stream = msg.arg
                       THEN At("ready") ELSE caller
          BY <2>3 DEF MsgCallback
    <3>2. CASE msg.event = "processed"
      <4>1. caller' = caller /\ lent' = lent \ {msg.arg}
            BY <3>1, <3>2
      <4> QED BY <1>e, <1>g, <4>1
    <3>3. CASE msg.event = "stopped" \/ msg.event = "flushed"
      <4>1. caller' = At("ready") /\ lent' = lent
            BY <3>1, <3>3 DEF Answers
      <4>2. caller'.next = NULL
            BY <1>c, <4>1
      <4>3. Asked' = {}
            BY <1>a, <1>c, <4>2
      <4>4. \A b \in lent : StreamOf[b] \notin Asked
        <5>1. CASE msg.event = "stopped"
              BY <3>1, <5>1 DEF Answers
        <5>2. CASE msg.event = "flushed"
          <6>1. caller.pc = "flush" /\ caller.put.stream = msg.arg /\ \A b \in lent : StreamOf[b] # msg.arg
                BY <3>1, <5>2 DEF Answers
          <6>2. Asked = {msg.arg}
                BY <1>a, <6>1 DEF Tokens
          <6> QED BY <6>1, <6>2
        <5> QED BY <3>3, <5>1, <5>2
      <4> QED BY <1>j, <4>1, <4>3, <4>4
    <3>4. CASE msg.event \notin {"processed", "stopped", "flushed"}
      <4>1. caller' = caller /\ lent' = lent
            BY <3>1, <3>4
      <4> QED BY <1>e, <4>1
    <3> QED BY <3>2, <3>3, <3>4
  <2>4. CASE ControlBlockFull \/ MsgLeave \/ MsgWake \/ MsgFault \/ MsgEmpty \/ DspFault \/ UNCHANGED vars
    <3>1. caller' = caller /\ lent' = lent
          BY <2>4 DEF ControlBlockFull, MsgLeave, MsgWake, MsgFault, MsgEmpty, DspFault, vars
    <3> QED BY <1>e, <3>1
  <2> QED BY <1>1, <2>1, <2>2, <2>3, <2>4 DEF QuietStep
<1>2. CASE FailStep
  <2>1. caller.pc = "ready" /\ caller'.next = "error"
        BY <1>2, FailFacts
  <2>2. Asked' = {} /\ Asked = {}
        BY <1>a, <1>b, <2>1
  <2>3. CASE \E b \in Buffers : QueueBufferFails(b)
    <3>1. PICK b \in Buffers : QueueBufferFails(b)
          BY <2>3
    <3>2. b \notin lent /\ lent' = lent \union {b}
          BY <3>1 DEF QueueBufferFails
    <3> QED BY <1>f, <2>2, <3>2
  <2>4. CASE UNCHANGED <<tables, lent>>
        BY <2>2, <2>4
  <2> QED BY <1>2, <2>3, <2>4, FailFacts
<1>3. CASE NewStep
  <2> DEFINE x == caller'.put
  <2>1. caller.pc = "ready"
        BY <1>3, NewFacts
  <2>2. /\ IsToken(x) <=> caller'.next # "ready"
        /\ caller'.next \in {"ready", "flush", "stop"}
        /\ x.cmd = "STOP" <=> caller'.next = "stop"
        /\ ~ (x.cmd = "STRMCTRL" /\ x.addr = NULL)
        /\ (\E b \in Buffers : QueueBuffer(b) /\ IsData(x)) \/ UNCHANGED lent
        /\ (\E s \in Streams : ControlFlush(s) /\ x.cmd = "FLUSH" /\ x.stream = s) \/ x.cmd # "FLUSH"
        BY <1>3, NewMessage
  <2> HIDE DEF x
  <2>3. Asked = {}
        BY <1>b, <2>1
  <2>4. CASE \E b \in Buffers : QueueBuffer(b)
    <3>1. PICK b \in Buffers : QueueBuffer(b)
          BY <2>4
    <3>2. b \notin lent /\ lent' = lent \union {b} /\ caller'.next = "ready"
          BY <3>1 DEF QueueBuffer, Putting
    <3>3. Asked' = {}
          BY <1>a, <3>2
    <3> QED BY <1>f, <2>3, <3>2, <3>3
  <2>5. CASE ~ \E b \in Buffers : QueueBuffer(b)
    <3>1. lent' = lent
          BY <2>2, <2>5
    <3>2. CASE caller'.next = "ready"
      <4>1. Asked' = {}
            BY <1>a, <3>2
      <4> QED BY <2>3, <3>1, <4>1
    <3>3. CASE caller'.next = "stop"
      <4>1. Asked' = Streams
            BY <1>a, <3>3
      <4> QED BY <1>i, <2>3, <3>1, <4>1
    <3>4. CASE caller'.next = "flush"
      <4>1. x.cmd = "FLUSH"
            BY <2>2, <3>4 DEF IsToken
      <4>2. x.stream \in Streams
            BY <2>2, <4>1
      <4>3. Asked' = {x.stream}
            BY <1>a, <3>4 DEF x
      <4> QED BY <1>i, <2>3, <3>1, <4>2, <4>3
    <3> QED BY <2>2, <3>2, <3>3, <3>4
  <2> QED BY <2>4, <2>5
<1>4. CASE ReadStep
  <2>1. caller' = caller
        BY <1>4, ReadFacts
  <2>2. Asked' = Asked
        BY <1>e, <2>1
  <2>3. CASE MsgStop \/ MsgStrmCtrl
    <3>1. lent' = lent \ HeldIn(Acked)
          BY <2>3, Acks
    <3> QED BY <1>g, <2>2, <3>1
  <2>4. CASE MsgBuffFree \/ MsgAlgCtrl \/ MsgPause
        BY <2>2, <2>4, OtherReads
  <2> QED BY <1>4, <2>3, <2>4 DEF ReadStep
<1>5. CASE PutMessage
  <2>1. /\ lent' = lent
        /\ IF caller.next = "ready" THEN caller' = At("ready")
           ELSE caller'.next = caller.next /\ caller'.put = caller.put
        BY <1>5, PutFacts
  <2>2. CASE caller.next = "ready"
    <3>1. caller'.next = NULL
          BY <1>c, <2>1, <2>2
    <3>2. Asked = {} /\ Asked' = {}
          BY <1>a, <1>c, <2>2, <3>1
    <3> QED BY <2>1, <3>2
  <2>3. CASE caller.next # "ready"
        BY <1>e, <2>1, <2>3
  <2> QED BY <2>2, <2>3
<1>6. CASE DspTake \/ DspFlushFails \/ \E s \in Streams : DspReturn(s)
  <2>1. caller' = caller /\ lent' = lent
        BY <1>6, TakeFacts, RefuseFacts, ReturnFacts
  <2> QED BY <1>e, <2>1
<1>7. CASE Destroyed
  <2>1. lent' = {} /\ caller'.next = NULL
        BY <1>7, DestroyedFacts
  <2>2. Asked' = {}
        BY <1>a, <1>c, <2>1
  <2>3. Loan!Close
        BY <2>1, <2>2 DEF Loan!Close
  <2> QED BY <2>3 DEF Loan!LoanNext
<1> QED BY <1>1, <1>2, <1>3, <1>4, <1>5, <1>6, <1>7, StepKinds

\* LCML implements BufferLoan: what is queued is on loan until it is given
\* back, it is given back once, and a flush or a stop is answered only when
\* none of the buffers it is about is on loan.
THEOREM LCMLImplementsLoan == ASSUME ProperUse PROVE Spec => ImplementsLoan
<1>1. Init => Loan!LoanInit
  <2> SUFFICES ASSUME Init PROVE Loan!LoanInit
      OBVIOUS
  <2>1. lent = {} /\ caller = At("none")
        BY DEF Init
  <2>2. caller.next = NULL
        BY <2>1 DEF At
  <2>3. Asked = {}
        BY <2>2, AskedCases, NullApart
  <2> QED BY <2>1, <2>3 DEF Loan!LoanInit
<1>2. IInv /\ [Next]_vars => [Loan!LoanNext]_(Loan!loanVars)
  <2> SUFFICES ASSUME IInv, [Next]_vars PROVE Loan!LoanNext \/ UNCHANGED Loan!loanVars
      OBVIOUS
  <2>1. Loan!LoanNext \/ UNCHANGED <<lent, Asked>>
        BY LoanStep
  <2> QED BY <2>1 DEF Loan!loanVars
<1> QED BY <1>1, <1>2, Invariant, PTL DEF Spec, ImplementsLoan, Loan!LoanSpec
=============================================================================
