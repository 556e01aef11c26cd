-------------------------- MODULE Mp3DecoderProofs --------------------------
(***************************************************************************)
(* Proofs about Mp3Decoder, for every set of buffers of the two ports, all *)
(* commands and every bound on what the client and the DSP do.             *)
(***************************************************************************)
EXTENDS Mp3Decoder, FiniteSetTheorems, TLAPS

-----------------------------------------------------------------------------
(* Types.                                                                  *)

Cmd == ({"StateSet"} \X States) \union ({"Flush", "PortDisable", "PortEnable"} \X {In, Out, All})
Req == ({"STOP", "PAUSE"} \X {All}) \union ({"FLUSH"} \X Ports)

ClientType == [pc : {"ready", "count", "alloc"}, buf : Buffers \union {NULL}, told : States,
               cmd : Cmd \union {NULL}, owed : SUBSET Cmd, late : 0..MaxLate,
               quiet : SUBSET Ports, sent : 0..MaxSent]
DecType    == [SendAfterEOS : BOOLEAN, bConfigData : BOOLEAN, reconfigOutputPort : BOOLEAN,
               bBypassDSP : BOOLEAN, bDspStopped : BOOLEAN, disabling : BOOLEAN,
               enabling : BOOLEAN, enableParam : {In, Out, All}]
ThreadType == { t \in [pc : {"select", "command", "inLoaded", "stop", "inIdle", "destroy", "flush",
                             "flushing", "exited"},
                       todo : SUBSET Ports] : t.pc \in {"flush", "flushing"} => t.todo # {} }
HistType   == [missed : BOOLEAN, twice : BOOLEAN, unwoken : BOOLEAN, lost : SUBSET Buffers]
PortFlags  == [Ports -> BOOLEAN]
PortCounts == [Ports -> Int]
OwnerType  == [Buffers -> {"none", "client", "comp"}]
SigType    == [Sigs -> BOOLEAN]
CmdPipeType  == Seq(Cmd)
DataPipeType == Seq([buf : Buffers, kind : Kinds])
RequestsType == Seq(Req)

\* The types of the variables; a command is handled only while it is in the
\* pipe.
Types ==
    /\ client \in ClientType
    /\ curState \in States
    /\ enabled \in PortFlags
    /\ owner \in OwnerType
    /\ dec \in DecType
    /\ sent \in PortFlags
    /\ deferred \in PortFlags
    /\ sig \in SigType
    /\ unhandled \in PortCounts
    /\ unreturned \in PortCounts
    /\ pend \in SUBSET Buffers
    /\ flagged \in SUBSET Buffers
    /\ cmdPipe \in CmdPipeType
    /\ dataPipe \in DataPipeType
    /\ thread \in ThreadType
    /\ lent \in SUBSET Buffers
    /\ requests \in RequestsType
    /\ callback \in {"idle", "stopping", "check", "asleep"}
    /\ hist \in HistType
    /\ faults \in 0..MaxFaults
    /\ thread.pc = "command" => cmdPipe # << >>

-----------------------------------------------------------------------------
(* The state that the client was told of.                                  *)

\* The client knows the state, unless LCML's thread is about to report Idle.
Agreed == client.told # "Invalid" /\ callback = "idle" => client.told = curState

-----------------------------------------------------------------------------
(* One command at a time.                                                  *)

Has(q, c)   == \E i \in 1..Len(q) : q[i] = c
Sole(q, c)  == \A i, j \in 1..Len(q) : q[i] = c /\ q[j] = c => i = j
Answered    == {"StateSet", "PortDisable"}
Unread      == { i \in 1..Len(cmdPipe) : cmdPipe[i][1] \in Answered }

\* A stop is under way only where there is something to stop.
Stopping ==
    /\ Has(requests, <<"STOP", All>>) \/ callback # "idle" => curState \notin {"Loaded", "WaitForResources"}
    /\ callback \in {"check", "asleep"} => curState # "Pause"

\* The client still waits for what is in the pipe, and for what the thread and
\* LCML do about a command that was read; it is one command.
Awaits(c) == client.cmd = c /\ client.owed = Completions(c)

AwaitedWhenTrusted ==
    /\ \A i \in Unread : Awaits(cmdPipe[i])
    /\ thread.pc = "inLoaded" =>
        /\ Unread = {}
        /\ Awaits(SetState("Idle"))
        /\ curState \in {"Loaded", "WaitForResources"}
    /\ thread.pc \in {"inIdle", "destroy"} => Unread = {} /\ Awaits(SetState("Loaded"))
    /\ Sole(requests, <<"PAUSE", All>>)
    /\ Has(requests, <<"PAUSE", All>>) => Unread = {} /\ Awaits(SetState("Pause"))
    /\ dec.disabling =>
        /\ Unread = {}
        /\ client.cmd \in {"PortDisable"} \X {In, Out, All}
        /\ client.owed # {} /\ client.owed \subseteq Completions(client.cmd)

\* The client sends no second state or disabling command before the first is
\* answered, and while trust lasts it waits for it.
OneCommand ==
    /\ \A i, j \in Unread : i = j
    /\ Trusted => AwaitedWhenTrusted

-----------------------------------------------------------------------------
(* Where the buffers are.                                                  *)

Held      == { b \in Buffers : owner[b] = "comp" }
Uncounted(p) == IF client.pc = "count" /\ PortOf[client.buf] = p THEN 1 ELSE 0

\* What a call of the client is about.
Calling ==
    /\ client.pc = "count" => client.buf \in Buffers
    /\ client.pc = "alloc" => client.buf \in Buffers /\ owner[client.buf] = "none"

\* No buffer is twice in the data pipe.
Distinct == \A i, j \in 1..Len(dataPipe) : dataPipe[i].buf = dataPipe[j].buf => i = j

\* What the component has is in the pipe, kept back, with LCML or lost, and in
\* one of them only; bBufferPending is set for what LCML has, and stays set for
\* what was lost.
Places ==
    /\ Distinct
    /\ Held = Piped \union pend \union lent \union (hist.lost \intersect Held)
    /\ Piped \intersect pend = {}
    /\ Piped \intersect flagged = {}
    /\ pend \intersect flagged = {}
    /\ hist.lost \intersect (Piped \union pend \union lent) = {}
    /\ lent \subseteq flagged
    /\ flagged \intersect Allocated \subseteq lent \union hist.lost
    /\ hist.lost = {} \/ Has(cmdPipe, <<"PortDisable", In>>) => flagged \intersect Allocated \subseteq Held

\* The counts are those of the buffers that the component has and of those in
\* the pipe, but for one that the client's call has not counted.
Counts ==
    \A p \in Ports :
        /\ unreturned[p] = Cardinality(Held \intersect BufsOf(p)) - Uncounted(p)
        /\ unhandled[p] = Cardinality(Piped \intersect BufsOf(p)) - Uncounted(p)

-----------------------------------------------------------------------------
(* A flush of the input port goes before the command that disables it.     *)

FlushIn    == {<<"Flush", In>>, <<"Flush", All>>}
PipedIn    == Piped \intersect BufsOf(In)
ClearIn    == (Piped \union pend \union lent) \intersect BufsOf(In) = {}
CountedIn  == ~(client.pc = "count" /\ PortOf[client.buf] = In)

\* Where the flushes of the input port are in the command pipe, one that is
\* read too early excepted, and where the commands that disable it are.
FlushAt    == { i \in 1..Len(cmdPipe) : cmdPipe[i] \in FlushIn /\ (i = 1 /\ thread.pc = "command" => PipedIn = {}) }
DisableAt  == { i \in 1..Len(cmdPipe) : cmdPipe[i] = <<"PortDisable", In>> }

\* A flush of the input port has passed the pipe, and will empty the port.
FlushRunning ==
    /\ PipedIn = {}
    /\ (thread.pc = "flush" /\ In \in thread.todo) \/ Has(requests, <<"FLUSH", In>>)

\* One flush at a time, and its answer wakes the thread that waits for it.
FlushRequests ==
    /\ \A p \in Ports : Has(requests, <<"FLUSH", p>>) => sent[p] /\ thread.pc = "flushing" /\ ~sig["codecFlush"]
    /\ \A i, j \in 1..Len(requests) : requests[i][1] = "FLUSH" /\ requests[j][1] = "FLUSH" => i = j
    /\ sig["codecFlush"] => thread.pc = "flushing"

\* A port that was flushed stays empty, or its flush is still to come before
\* the command that disables the port.
Flushed ==
    /\ In \in client.quiet => CountedIn
    /\ Trusted /\ In \in client.quiet => ClearIn \/ FlushRunning \/ FlushAt # {}
    /\ Trusted /\ In \in client.quiet /\ <<"Flush", In>> \notin client.owed => ClearIn \/ sent[In]
    /\ \A n \in DisableAt :
            ClearIn \/ (sent[In] /\ CountedIn /\ (FlushRunning \/ \E i \in FlushAt : i < n))

Flushing == FlushRequests /\ Flushed

-----------------------------------------------------------------------------
(* What an event does to the client.                                       *)

\* The fields of client.
LEMMA ClientFields ==
    ASSUME client \in ClientType
    PROVE  /\ client.pc \in {"ready", "count", "alloc"}
           /\ client.buf \in Buffers \union {NULL}
           /\ client.told \in States
           /\ client.cmd \in Cmd \union {NULL}
           /\ client.owed \in SUBSET Cmd
           /\ client.late \in 0..MaxLate
           /\ client.quiet \in SUBSET Ports
           /\ client.sent \in 0..MaxSent
  BY DEF ClientType

\* The fields that an event leaves alone.
Kept == /\ client'.pc = client.pc
        /\ client'.buf = client.buf
        /\ client'.cmd = client.cmd
        /\ client'.late = client.late
        /\ client'.quiet = client.quiet
        /\ client'.sent = client.sent

\* Complete: what was awaited is no longer, and the client knows the new state.
LEMMA CompleteFacts ==
    ASSUME client \in ClientType, NEW C, Complete(C)
    PROVE  /\ client' \in ClientType
           /\ Kept
           /\ client'.owed = client.owed \ C
           /\ client.told = "Invalid" => client'.told = "Invalid"
           /\ (\A s \in States : <<"StateSet", s>> \notin C) => client'.told = client.told
           /\ client'.told \in States
  <1> DEFINE t == IF client.told # "Invalid" /\ \E s \in States : <<"StateSet", s>> \in C
                  THEN CHOOSE s \in States : <<"StateSet", s>> \in C ELSE client.told
  <1>1. client' = [client EXCEPT !.owed = client.owed \ C, !.told = t]
    BY DEF Complete
  <1>2. t \in States
    BY DEF ClientType
  <1>3. /\ client.told = "Invalid" => t = "Invalid"
        /\ (\A s \in States : <<"StateSet", s>> \notin C) => t = client.told
    OBVIOUS
  <1> HIDE DEF t
  <1>4. QED
    BY <1>1, <1>2, <1>3 DEF ClientType, Kept

\* The state reported is the state known, unless the client has given up.
LEMMA CompleteState ==
    ASSUME client \in ClientType, NEW s \in States, Complete({SetState(s)})
    PROVE  client'.told = IF client.told = "Invalid" THEN "Invalid" ELSE s
  <1> DEFINE t == IF client.told # "Invalid" /\ \E x \in States : <<"StateSet", x>> \in {<<"StateSet", s>>}
                  THEN CHOOSE x \in States : <<"StateSet", x>> \in {<<"StateSet", s>>} ELSE client.told
  <1>1. client' = [client EXCEPT !.owed = client.owed \ {<<"StateSet", s>>}, !.told = t]
    BY DEF Complete, SetState
  <1>2. \A x : <<"StateSet", x>> \in {<<"StateSet", s>>} <=> x = s
    OBVIOUS
  <1>3. t = IF client.told = "Invalid" THEN "Invalid" ELSE s
    BY <1>2
  <1> HIDE DEF t
  <1>4. client'.told = t
    BY <1>1 DEF ClientType
  <1>5. QED
    BY <1>3, <1>4

\* A command is refused: the client waits for nothing more.
LEMMA RefuseFacts ==
    ASSUME client \in ClientType, Refuse
    PROVE  client' \in ClientType /\ Kept /\ client'.owed = {} /\ client'.told = client.told
  BY DEF ClientType, Refuse, Kept

\* The client learns that the component is Invalid, and waits for nothing more.
LEMMA InvalidateFacts ==
    ASSUME client \in ClientType, Invalidate
    PROVE  client' \in ClientType /\ Kept /\ client'.owed = {} /\ client'.told = "Invalid"
  BY DEF ClientType, Invalidate, Kept, States

\* The command c, with what it promises.
LEMMA SendFacts ==
    ASSUME client \in ClientType, NEW c \in Commands, SendCommand(c)
    PROVE  /\ client' \in ClientType
           /\ client'.pc = "ready" /\ client.pc = "ready"
           /\ client'.told = client.told
           /\ client'.cmd = c
           /\ client'.owed = Completions(c) /\ client.owed = {}
           /\ client'.quiet = client.quiet \union (IF c[1] = "Flush" THEN Names(c[2]) ELSE {})
  <1> DEFINE q == client.quiet \union (IF c[1] = "Flush" THEN Names(c[2]) ELSE {})
             o == Completions(c)
  <1>1. c \in Cmd
    BY Mp3Assumption DEF Cmd
  <1>2. o \in SUBSET Cmd
    BY <1>1 DEF Completions, Cmd, Names, Ports, In, Out, All, States
  <1>3. q \in SUBSET Ports
    BY <1>1 DEF ClientType, Cmd, Names, Ports, In, Out, All, States
  <1>4. client' = [client EXCEPT !.cmd = c, !.owed = o, !.late = 0, !.sent = @ + 1, !.quiet = q]
    BY DEF SendCommand
  <1>5. client.sent + 1 \in 0..MaxSent /\ 0 \in 0..MaxLate
    BY Mp3Assumption DEF SendCommand, MaySend, ClientType
  <1>6. client.pc = "ready" /\ client.owed = {}
    BY DEF SendCommand, MaySend
  <1> HIDE DEF q, o
  <1>7. QED
    <2>1. client' \in ClientType
      BY <1>1, <1>2, <1>3, <1>4, <1>5 DEF ClientType
    <2>2. /\ client'.pc = client.pc /\ client'.told = client.told /\ client'.cmd = c
          /\ client'.owed = o /\ client'.quiet = q
      BY <1>4 DEF ClientType
    <2>3. QED
      BY <2>1, <2>2, <1>6 DEF q, o

\* EmptyThisBuffer or FillThisBuffer has written the buffer to the data pipe,
\* and has not counted it yet.
LEMMA ThisBufferFacts ==
    ASSUME client \in ClientType, NEW b \in Buffers, NEW k, ThisBuffer(b, k)
    PROVE  /\ client' \in ClientType
           /\ client'.pc = "count" /\ client.pc = "ready"
           /\ client'.buf = b
           /\ client'.told = client.told
           /\ client'.cmd = client.cmd
           /\ client'.owed = client.owed
           /\ client'.quiet = client.quiet \ {PortOf[b]}
  <1> DEFINE l == IF client.owed = {} THEN client.late ELSE client.late + 1
             q == client.quiet \ {PortOf[b]}
  <1>1. client' = [client EXCEPT !.pc = "count", !.buf = b, !.quiet = q, !.late = l]
    BY DEF ThisBuffer
  <1>2. l \in 0..MaxLate
    BY Mp3Assumption DEF ThisBuffer, MayFill, ClientType
  <1>3. q \in SUBSET Ports
    BY DEF ClientType
  <1>4. client.pc = "ready"
    BY DEF ThisBuffer, MayFill
  <1> HIDE DEF l, q
  <1>5. QED
    <2>1. client' \in ClientType
      BY <1>1, <1>2, <1>3 DEF ClientType
    <2>2. /\ client'.pc = "count" /\ client'.buf = b /\ client'.told = client.told
          /\ client'.cmd = client.cmd /\ client'.owed = client.owed /\ client'.quiet = q
      BY <1>1 DEF ClientType
    <2>3. QED
      BY <2>1, <2>2, <1>4 DEF q

\* A call of the client returns, or waits.
LEMMA CallFacts ==
    ASSUME client \in ClientType, NEW pc \in {"ready", "alloc"}, NEW b \in Buffers \union {NULL},
           client' = [client EXCEPT !.pc = pc, !.buf = b]
    PROVE  /\ client' \in ClientType
           /\ client'.pc = pc
           /\ client'.told = client.told
           /\ client'.cmd = client.cmd
           /\ client'.owed = client.owed
           /\ client'.quiet = client.quiet
  BY DEF ClientType

-----------------------------------------------------------------------------
(* Helpers: sequences, the thread, counts.                                 *)

\* The first message of a pipe is read.
LEMMA TailFacts ==
    ASSUME NEW S, NEW q \in Seq(S), q # << >>
    PROVE  /\ Tail(q) \in Seq(S)
           /\ Len(q) \in Nat /\ Len(q) > 0
           /\ Len(Tail(q)) = Len(q) - 1
           /\ Head(q) = q[1] /\ Head(q) \in S
           /\ \A i \in 1..Len(q) - 1 : Tail(q)[i] = q[i + 1]
  OBVIOUS

\* A message is written to a pipe.
LEMMA AppendFacts ==
    ASSUME NEW S, NEW q \in Seq(S), NEW x \in S
    PROVE  /\ Append(q, x) \in Seq(S)
           /\ Append(q, x) # << >>
           /\ Len(q) \in Nat
           /\ Len(Append(q, x)) = Len(q) + 1
           /\ \A i \in 1..Len(q) : Append(q, x)[i] = q[i]
           /\ Append(q, x)[Len(q) + 1] = x
  OBVIOUS

\* The head of the command pipe is read.
LEMMA ReadingFacts ==
    ASSUME Types, NEW c, Reading(c)
    PROVE  /\ c \in Cmd
           /\ c = cmdPipe[1]
           /\ cmdPipe # << >>
           /\ thread.pc = "command"
           /\ cmdPipe' = Tail(cmdPipe)
           /\ cmdPipe' \in CmdPipeType
  BY TailFacts DEF Types, Reading, CmdPipeType

\* The places of the component's thread.
LEMMA ThreadFacts ==
    ASSUME thread \in ThreadType
    PROVE  /\ thread.todo \in SUBSET Ports
           /\ thread.pc \in {"flush", "flushing"} => thread.todo # {}
           /\ Select \in ThreadType
           /\ \A pc \in {"command", "inLoaded", "inIdle", "destroy", "exited"} :
                [thread EXCEPT !.pc = pc] \in ThreadType
           /\ thread.todo # {} => [thread EXCEPT !.pc = "flushing"] \in ThreadType
           /\ thread.todo # {} => \A p \in Ports : FlushDone(p) \in ThreadType
  BY DEF ThreadType, Select, FlushDone

\* Counts less the buffers B.
LEMMA CountFacts ==
    ASSUME NEW c \in PortCounts, NEW B \in SUBSET Buffers
    PROVE  /\ \A p \in Ports : IsFiniteSet(B \intersect BufsOf(p)) /\ Cardinality(B \intersect BufsOf(p)) \in Nat
           /\ CountAfter(c, B) \in PortCounts
           /\ \A p \in Ports : CountAfter(c, B)[p] = c[p] - Cardinality(B \intersect BufsOf(p))
  <1>1. ASSUME NEW p \in Ports
        PROVE  IsFiniteSet(B \intersect BufsOf(p)) /\ Cardinality(B \intersect BufsOf(p)) \in Nat
    BY Mp3Assumption, FS_Subset, FS_CardinalityType
  <1>2. QED
    BY <1>1 DEF CountAfter, PortCounts

\* The buffers B go back: only their owner and the counts change, and LCML's
\* thread, if it sleeps, may be woken.
LEMMA ReturnFacts ==
    ASSUME Types, NEW B \in SUBSET Buffers
    PROVE  /\ OwnerAfter(B) \in OwnerType
           /\ CountAfter(unreturned, B) \in PortCounts
           /\ Awakened(B) \in {"idle", "stopping", "check", "asleep"}
           /\ Awakened(B) = callback \/ (callback = "asleep" /\ Awakened(B) = "check")
  BY CountFacts DEF Types, OwnerAfter, OwnerType, Awakened

-----------------------------------------------------------------------------
(* The types are kept.                                                     *)

USE DEF places, flags, counts, pipes, lcml

\* Init has the types.
LEMMA TypesInit == Init => Types
<1> SUFFICES ASSUME Init PROVE Types
  OBVIOUS
<1>1. client \in ClientType
  BY Mp3Assumption DEF Init, ClientType, States
<1>2. /\ dec \in DecType
      /\ hist \in HistType
      /\ thread \in ThreadType
  BY DEF Init, DecType, HistType, ThreadType, Select, In, Out, All
<1>3. /\ enabled \in PortFlags /\ sent \in PortFlags /\ deferred \in PortFlags
      /\ unhandled \in PortCounts /\ unreturned \in PortCounts
      /\ sig \in SigType /\ owner \in OwnerType
  BY DEF Init, PortFlags, PortCounts, SigType, OwnerType, EachPort
<1>4. cmdPipe \in CmdPipeType /\ dataPipe \in DataPipeType /\ requests \in RequestsType
  BY DEF Init, CmdPipeType, DataPipeType, RequestsType
<1>5. curState \in States /\ faults \in 0..MaxFaults /\ thread.pc # "command"
  BY Mp3Assumption DEF Init, States, Select
<1>6. QED
  BY <1>1, <1>2, <1>3, <1>4, <1>5 DEF Init, Types

\* The client's calls keep the types.
LEMMA TypesClient == Types /\ Client => Types'
<1> SUFFICES ASSUME Types, Client PROVE Types'
  OBVIOUS
<1>0. client \in ClientType
  BY DEF Types
<1>1. ASSUME NEW c \in Commands, SendCommand(c) PROVE Types'
  <2>1. client' \in ClientType
    BY <1>0, <1>1, SendFacts
  <2>2. cmdPipe' \in CmdPipeType /\ cmdPipe' # << >>
    BY <1>1, AppendFacts, Mp3Assumption DEF Types, SendCommand, CmdPipeType, Cmd
  <2>3. QED
    BY <1>1, <2>1, <2>2 DEF SendCommand, Types
<1>2. CASE SendInvalid
  BY <1>0, <1>2, InvalidateFacts DEF SendInvalid, Types, States
<1>3. ASSUME NEW b \in Buffers, NEW k \in Kinds, ThisBuffer(b, k) PROVE Types'
  <2>1. client' \in ClientType
    BY <1>0, <1>3, ThisBufferFacts
  <2>2. dataPipe' \in DataPipeType
    BY <1>3, AppendFacts DEF Types, ThisBuffer, DataPipeType
  <2>3. owner' \in OwnerType
    BY <1>3 DEF Types, ThisBuffer, OwnerType
  <2>4. QED
    BY <1>3, <2>1, <2>2, <2>3 DEF ThisBuffer, Types
<1>4. CASE ThisBufferCount
  <2>1. client' \in ClientType
    BY <1>0, <1>4, CallFacts DEF ThisBufferCount
  <2>2. unhandled' \in PortCounts /\ unreturned' \in PortCounts
    <3>1. ASSUME NEW c \in PortCounts, NEW p PROVE [c EXCEPT ![p] = @ + 1] \in PortCounts
      <4>1. CASE p \in Ports
        BY <4>1 DEF PortCounts
      <4>2. CASE p \notin Ports
        <5>1. [c EXCEPT ![p] = @ + 1] = c
          BY <4>2 DEF PortCounts
        <5>2. QED
          BY <5>1
      <4>3. QED
        BY <4>1, <4>2
    <3>2. QED
      BY <1>4, <3>1 DEF Types, ThisBufferCount
  <2>3. hist' \in HistType
    BY <1>4 DEF Types, ThisBufferCount, HistType
  <2>4. QED
    BY <1>4, <2>1, <2>2, <2>3 DEF ThisBufferCount, Types
<1>5. ASSUME NEW b \in Buffers, AllocateBufferWaits(b) PROVE Types'
  <2>1. client' \in ClientType
    BY <1>0, <1>5, CallFacts DEF AllocateBufferWaits
  <2>2. QED
    BY <1>5, <2>1 DEF AllocateBufferWaits, Types
<1>6. ASSUME NEW b \in Buffers, NEW use \in BOOLEAN, AllocateBuffer(b, use) PROVE Types'
  <2>1. client' \in ClientType
    BY <1>0, <1>6, CallFacts DEF AllocateBuffer
  <2>2. owner' \in OwnerType
    BY <1>6 DEF Types, AllocateBuffer, OwnerType
  <2>3. sig' \in SigType
    BY <1>6 DEF Types, AllocateBuffer, SigType
  <2>4. cmdPipe' = cmdPipe \/ (cmdPipe' \in CmdPipeType /\ cmdPipe' # << >>)
    <3>1. <<"PortEnable", dec.enableParam>> \in Cmd
      BY DEF Types, DecType, Cmd
    <3>2. QED
      BY <1>6, <3>1, AppendFacts DEF Types, AllocateBuffer, CmdPipeType
  <2>5. QED
    BY <1>6, <2>1, <2>2, <2>3, <2>4 DEF AllocateBuffer, Types
<1>7. CASE UseBufferRefused
  <2>1. client' \in ClientType
    BY <1>0, <1>7, CallFacts DEF UseBufferRefused
  <2>2. sig' \in SigType
    BY <1>7 DEF Types, UseBufferRefused, SigType, Consume
  <2>3. QED
    BY <1>7, <2>1, <2>2 DEF UseBufferRefused, Types
<1>8. ASSUME NEW b \in Buffers, FreeBuffer(b) PROVE Types'
  <2>1. client' \in ClientType
    BY <1>0, <1>8, CompleteFacts DEF FreeBuffer
  <2>2. owner' \in OwnerType
    BY <1>8 DEF Types, FreeBuffer, OwnerType
  <2>3. sig' \in SigType
    BY <1>8 DEF Types, FreeBuffer, SigType
  <2>4. dec' \in DecType
    BY <1>8 DEF Types, FreeBuffer, DecType
  <2>5. QED
    BY <1>8, <2>1, <2>2, <2>3, <2>4 DEF FreeBuffer, Types
<1>9. QED
  BY <1>1, <1>2, <1>3, <1>4, <1>5, <1>6, <1>7, <1>8 DEF Client, Allocating, Freeing

\* The commands that set a state keep the types.
LEMMA TypesThread ==
    ASSUME Types,
           \/ SelectCommand
           \/ \E s \in States : HandleWrongState(s) \/ HandleWaiting(s)
           \/ \E c \in Commands : HandleFails(c)
           \/ HandleIdleFromLoaded \/ LoadedToIdle \/ HandleStop \/ Stopped
           \/ HandleExecuting \/ HandlePause \/ HandleLoaded \/ IdleToLoaded \/ Destroy \/ HandleInvalid
    PROVE  Types'
<1>0. client \in ClientType /\ thread \in ThreadType
  BY DEF Types
<1>a. ASSUME NEW s PROVE Consume(s) => sig' \in SigType
  BY DEF Consume, Types, SigType
<1>1. CASE SelectCommand
  BY <1>0, <1>1, ThreadFacts DEF SelectCommand, Types
<1>2. ASSUME NEW s \in States, HandleWrongState(s) PROVE Types'
  <2>1. client' \in ClientType
    BY <1>0, <1>2, RefuseFacts DEF HandleWrongState
  <2>2. cmdPipe' \in CmdPipeType
    BY <1>2, ReadingFacts DEF HandleWrongState
  <2>3. thread' \in ThreadType /\ thread'.pc # "command"
    BY <1>0, <1>2, ThreadFacts DEF HandleWrongState, Select
  <2>4. QED
    BY <1>2, <2>1, <2>2, <2>3 DEF HandleWrongState, Types
<1>3. ASSUME NEW s \in States, HandleWaiting(s) PROVE Types'
  <2>1. client' \in ClientType
    BY <1>0, <1>3, CompleteFacts DEF HandleWaiting
  <2>2. cmdPipe' \in CmdPipeType
    BY <1>3, ReadingFacts DEF HandleWaiting
  <2>3. thread' \in ThreadType /\ thread'.pc # "command"
    BY <1>0, <1>3, ThreadFacts DEF HandleWaiting, Select
  <2>4. QED
    BY <1>3, <2>1, <2>2, <2>3 DEF HandleWaiting, Types
<1>4. ASSUME NEW c \in Commands, HandleFails(c) PROVE Types'
  <2>1. client' \in ClientType
    BY <1>0, <1>4, InvalidateFacts DEF HandleFails
  <2>2. cmdPipe' \in CmdPipeType
    BY <1>4, ReadingFacts DEF HandleFails
  <2>3. thread' \in ThreadType /\ thread'.pc # "command"
    BY <1>0, <1>4, ThreadFacts DEF HandleFails, Select
  <2>4. faults' \in 0..MaxFaults /\ curState' \in States
    BY <1>4, Mp3Assumption DEF HandleFails, Types, States
  <2>5. QED
    BY <1>4, <2>1, <2>2, <2>3, <2>4 DEF HandleFails, Types
<1>b. ASSUME SetUp PROVE client' \in ClientType /\ curState' \in States /\ faults' \in 0..MaxFaults
  BY <1>0, <1>b, CompleteFacts, InvalidateFacts, Mp3Assumption DEF SetUp, Types, States
<1>5. CASE HandleIdleFromLoaded
  <2>1. client' \in ClientType /\ curState' \in States /\ faults' \in 0..MaxFaults
    BY <1>b, <1>5 DEF HandleIdleFromLoaded, Types
  <2>2. cmdPipe' \in CmdPipeType
    BY <1>5, ReadingFacts DEF HandleIdleFromLoaded
  <2>3. thread' \in ThreadType /\ thread'.pc # "command"
    BY <1>0, <1>5, ThreadFacts DEF HandleIdleFromLoaded, Select, ThreadType
  <2>4. QED
    BY <1>5, <2>1, <2>2, <2>3 DEF HandleIdleFromLoaded, Types
<1>6. CASE LoadedToIdle
  <2>1. thread' \in ThreadType /\ thread'.pc # "command"
    BY <1>0, <1>6, ThreadFacts DEF LoadedToIdle, Select
  <2>2. QED
    BY <1>6, <1>a, <1>b, <2>1 DEF LoadedToIdle, Types
<1>7. CASE HandleStop
  <2>1. dec' \in DecType
    BY <1>7 DEF HandleStop, Types, DecType
  <2>2. requests' \in RequestsType
    BY <1>7 DEF HandleStop, Types, RequestsType, Req
  <2>3. cmdPipe' \in CmdPipeType
    BY <1>7, ReadingFacts DEF HandleStop
  <2>4. thread' \in ThreadType /\ thread'.pc # "command"
    BY <1>7 DEF HandleStop, ThreadType, Ports
  <2>5. QED
    BY <1>7, <2>1, <2>2, <2>3, <2>4 DEF HandleStop, Types
<1>8. CASE Stopped
  <2>1. thread' \in ThreadType /\ thread'.pc # "command"
    BY <1>0, <1>8, ThreadFacts DEF Stopped, Select
  <2>2. client' \in ClientType /\ curState' \in States
    BY <1>0, <1>8, CompleteFacts DEF Stopped, Types, States
  <2>3. hist' \in HistType
    BY <1>8 DEF Stopped, Types, HistType, Unasked
  <2>4. QED
    BY <1>8, <1>a, <2>1, <2>2, <2>3 DEF Stopped, Types
<1>9. CASE HandleExecuting
  <2>1. dec' \in DecType
    BY <1>9 DEF HandleExecuting, Types, DecType
  <2>2. client' \in ClientType /\ curState' \in States
    BY <1>0, <1>9, CompleteFacts DEF HandleExecuting, Types, States
  <2>3. cmdPipe' \in CmdPipeType
    BY <1>9, ReadingFacts DEF HandleExecuting
  <2>4. thread' \in ThreadType /\ thread'.pc # "command"
    BY <1>0, <1>9, ThreadFacts DEF HandleExecuting, Select
  <2>5. QED
    BY <1>9, <2>1, <2>2, <2>3, <2>4 DEF HandleExecuting, Types
<1>10. CASE HandlePause
  <2>1. requests' \in RequestsType
    BY <1>10 DEF HandlePause, Types, RequestsType, Req
  <2>2. cmdPipe' \in CmdPipeType
    BY <1>10, ReadingFacts DEF HandlePause
  <2>3. thread' \in ThreadType /\ thread'.pc # "command"
    BY <1>0, <1>10, ThreadFacts DEF HandlePause, Select
  <2>4. QED
    BY <1>10, <2>1, <2>2, <2>3 DEF HandlePause, Types
<1>11. CASE HandleLoaded
  <2>1. cmdPipe' \in CmdPipeType
    BY <1>11, ReadingFacts DEF HandleLoaded
  <2>2. thread' \in ThreadType /\ thread'.pc # "command"
    BY <1>0, <1>11 DEF HandleLoaded, ThreadType
  <2>3. QED
    BY <1>11, <2>1, <2>2 DEF HandleLoaded, Types
<1>12. CASE IdleToLoaded
  <2>1. thread' \in ThreadType /\ thread'.pc # "command"
    BY <1>0, <1>12 DEF IdleToLoaded, ThreadType
  <2>2. QED
    BY <1>12, <1>a, <2>1 DEF IdleToLoaded, Types
<1>13. CASE Destroy
  <2>1. thread' \in ThreadType /\ thread'.pc # "command"
    BY <1>0, <1>13, ThreadFacts DEF Destroy, Select
  <2>2. client' \in ClientType /\ curState' \in States
    BY <1>0, <1>13, CompleteFacts DEF Destroy, Types, States
  <2>3. hist' \in HistType
    BY <1>13 DEF Destroy, Types, HistType
  <2>4. requests' \in RequestsType
    BY <1>13 DEF Destroy, RequestsType
  <2>5. QED
    BY <1>13, <2>1, <2>2, <2>3, <2>4 DEF Destroy, Types
<1>14. CASE HandleInvalid
  <2>1. thread' \in ThreadType /\ thread'.pc # "command"
    BY <1>0, <1>14, ThreadFacts DEF HandleInvalid, Select
  <2>2. client' \in ClientType /\ curState' \in States
    BY <1>0, <1>14, InvalidateFacts DEF HandleInvalid, Types, States
  <2>3. hist' \in HistType
    BY <1>14 DEF HandleInvalid, Types, HistType
  <2>4. requests' \in RequestsType
    <3>1. requests' = requests \/ requests' = << >>
      BY <1>14 DEF HandleInvalid
    <3>2. << >> \in RequestsType
      BY DEF RequestsType
    <3>3. QED
      BY <3>1, <3>2 DEF Types
  <2>5. cmdPipe' \in CmdPipeType
    BY <1>14, ReadingFacts DEF HandleInvalid
  <2>6. QED
    BY <1>14, <2>1, <2>2, <2>3, <2>4, <2>5 DEF HandleInvalid, Types
<1>15. QED
  BY <1>1, <1>2, <1>3, <1>4, <1>5, <1>6, <1>7, <1>8, <1>9, <1>10, <1>11, <1>12, <1>13, <1>14

\* The commands of ports keep the types.
LEMMA TypesPorts ==
    ASSUME Types,
           \/ \E x \in {In, Out, All} : HandlePortDisable(x) \/ HandlePortEnable(x) \/ HandleFlush(x)
           \/ \E p \in Ports : FlushDeferred(p) \/ FlushSent(p) \/ FlushPending(p) \/ FlushAcked(p)
    PROVE  Types'
<1>0. client \in ClientType /\ thread \in ThreadType
  BY DEF Types
<1>1. ASSUME NEW x \in {In, Out, All}, HandlePortDisable(x) PROVE Types'
  <2> DEFINE forced == IF x = In /\ ~dec.disabling THEN flagged \intersect BufsOf(In) \intersect Allocated ELSE {}
  <2>1. ReturnAll(forced) /\ forced \in SUBSET Buffers
    BY <1>1 DEF HandlePortDisable, BufsOf
  <2> HIDE DEF forced
  <2>2. /\ owner' \in OwnerType /\ unreturned' \in PortCounts
        /\ callback' \in {"idle", "stopping", "check", "asleep"}
    BY <2>1, ReturnFacts DEF ReturnAll
  <2>3. enabled' \in PortFlags
    BY <1>1 DEF HandlePortDisable, Types, PortFlags
  <2>4. dec' \in DecType
    BY <1>1 DEF HandlePortDisable, Types, DecType
  <2>5. client' \in ClientType
    BY <1>0, <1>1, CompleteFacts DEF HandlePortDisable
  <2>6. cmdPipe' \in CmdPipeType
    BY <1>1, ReadingFacts DEF HandlePortDisable
  <2>7. thread' \in ThreadType /\ thread'.pc # "command"
    BY <1>0, <1>1, ThreadFacts DEF HandlePortDisable, Select
  <2>8. QED
    BY <1>1, <2>2, <2>3, <2>4, <2>5, <2>6, <2>7 DEF HandlePortDisable, Types
<1>2. ASSUME NEW x \in {In, Out, All}, HandlePortEnable(x) PROVE Types'
  <2>1. enabled' \in PortFlags
    BY <1>2 DEF HandlePortEnable, Types, PortFlags
  <2>2. sig' \in SigType
    BY <1>2 DEF HandlePortEnable, Types, SigType, Sigs
  <2>3. dec' \in DecType
    BY ZenonT(40), <1>2 DEF HandlePortEnable, Types, DecType
  <2>4. client' \in ClientType
    BY <1>0, <1>2, CompleteFacts DEF HandlePortEnable
  <2>5. cmdPipe' \in CmdPipeType
    BY <1>2, ReadingFacts DEF HandlePortEnable
  <2>6. thread' \in ThreadType /\ thread'.pc # "command"
    BY <1>0, <1>2, ThreadFacts DEF HandlePortEnable, Select
  <2>7. flagged' \in SUBSET Buffers /\ lent' \in SUBSET Buffers /\ pend' \in SUBSET Buffers
    BY <1>2 DEF HandlePortEnable, Types
  <2>8. QED
    BY <1>2, <2>1, <2>2, <2>3, <2>4, <2>5, <2>6, <2>7 DEF HandlePortEnable, Types
<1>3. ASSUME NEW x \in {In, Out, All}, HandleFlush(x) PROVE Types'
  <2>1. cmdPipe' \in CmdPipeType
    BY <1>3, ReadingFacts DEF HandleFlush
  <2>2. thread' \in ThreadType /\ thread'.pc # "command"
    BY <1>3 DEF HandleFlush, ThreadType, Names, Ports, In, Out, All
  <2>3. QED
    BY <1>3, <2>1, <2>2 DEF HandleFlush, Types
<1>4. ASSUME NEW p \in Ports, thread.pc \in {"flush", "flushing"}, thread' = FlushDone(p)
      PROVE  thread' \in ThreadType /\ thread'.pc # "command"
  BY <1>0, <1>4, ThreadFacts DEF FlushDone, Select
<1>5. ASSUME NEW p \in Ports, FlushDeferred(p) PROVE Types'
  <2>1. deferred' \in PortFlags
    BY <1>5 DEF FlushDeferred, Types, PortFlags
  <2>2. QED
    BY <1>5, <1>4, <2>1 DEF FlushDeferred, Types
<1>6. ASSUME NEW p \in Ports, FlushSent(p) PROVE Types'
  <2>1. deferred' \in PortFlags
    BY <1>6 DEF FlushSent, Types, PortFlags
  <2>2. requests' \in RequestsType
    BY <1>6 DEF FlushSent, Types, RequestsType, Req
  <2>3. thread' \in ThreadType /\ thread'.pc # "command"
    BY <1>0, <1>6 DEF FlushSent, ThreadType
  <2>4. QED
    BY <1>6, <2>1, <2>2, <2>3 DEF FlushSent, Types
<1>7. ASSUME NEW p \in Ports, FlushPending(p) PROVE Types'
  <2>1. deferred' \in PortFlags
    BY <1>7 DEF FlushPending, Types, PortFlags
  <2>2. /\ owner' \in OwnerType /\ unreturned' \in PortCounts
        /\ callback' \in {"idle", "stopping", "check", "asleep"}
    <3>1. KeptBack(p) \in SUBSET Buffers
      BY DEF KeptBack, BufsOf
    <3>2. QED
      BY <1>7, <3>1, ReturnFacts DEF FlushPending, ReturnAll
  <2>3. client' \in ClientType
    BY <1>0, <1>7, CompleteFacts DEF FlushPending
  <2>4. hist' \in HistType
    BY <1>7 DEF FlushPending, Types, HistType
  <2>5. pend' \in SUBSET Buffers
    BY <1>7 DEF FlushPending, Types
  <2>6. QED
    BY <1>7, <1>4, <2>1, <2>2, <2>3, <2>4, <2>5 DEF FlushPending, Types
<1>8. ASSUME NEW p \in Ports, FlushAcked(p) PROVE Types'
  <2>1. sig' \in SigType
    BY <1>8 DEF FlushAcked, Consume, Types, SigType
  <2>2. QED
    BY <1>8, <1>4, <2>1 DEF FlushAcked, Types
<1>9. QED
  BY <1>1, <1>2, <1>3, <1>5, <1>6, <1>7, <1>8

\* A buffer is handled: what HandleInput and HandleOutput have in common.
DataHandled(b) ==
    /\ thread.pc = "select"
    /\ dataPipe # << >>
    /\ Head(dataPipe).buf = b
    /\ dataPipe' = Tail(dataPipe)
    /\ Handled(b)
    /\ GoesBack(b) \/ GoesToDsp(b) \/ IsKept(b) \/ IsDropped(b) \/ (b \in flagged /\ IsCounted(b))
    /\ cmdPipe' \in {cmdPipe, Append(cmdPipe, <<"Flush", PortOf[b]>>)}
    /\ sent' \in PortFlags /\ \A p \in Ports : sent[p] => sent'[p]
    /\ dec' \in DecType /\ dec'.disabling = dec.disabling
    /\ UNCHANGED <<client, curState, enabled, deferred, sig, thread, requests, faults>>

\* An output buffer goes back, to the DSP, or is kept.
LEMMA OutputFacts ==
    ASSUME Types, NEW b \in Buffers, HandleOutput(b)
    PROVE  DataHandled(b)
<1> DEFINE executing == curState = "Executing" /\ ~dec.bBypassDSP
           now       == executing /\ ~dec.reconfigOutputPort
<1>1. GoesBack(b) \/ GoesToDsp(b) \/ IsKept(b) \/ IsDropped(b) \/ (b \in flagged /\ IsCounted(b))
  <2>1. (CASE curState = "Idle" -> GoesBack(b)
          [] now /\ b \in flagged -> IsCounted(b)
          [] now /\ b \notin flagged /\ dec.bDspStopped -> GoesBack(b)
          [] now /\ b \notin flagged /\ ~dec.bDspStopped -> GoesToDsp(b)
          [] executing /\ dec.reconfigOutputPort -> IsKept(b)
          [] curState = "Pause" /\ ~dec.bBypassDSP -> IsKept(b)
          [] OTHER -> IsDropped(b))
    BY DEF HandleOutput
  <2> HIDE DEF executing, now
  <2>2. QED
    BY <2>1
<1>2. cmdPipe' \in {cmdPipe, Append(cmdPipe, <<"Flush", PortOf[b]>>)}
  BY DEF HandleOutput, Resend
<1>3. sent' \in PortFlags /\ \A p \in Ports : sent[p] => sent'[p]
  BY DEF HandleOutput, Types, PortFlags
<1>4. QED
  BY <1>1, <1>2, <1>3 DEF HandleOutput, DataHandled, Types, DecType

\* An input buffer goes back, to the DSP, is kept, or is dropped.
LEMMA InputFacts ==
    ASSUME Types, NEW b \in Buffers, NEW k \in Kinds, NEW changed \in BOOLEAN, HandleInput(b, k, changed)
    PROVE  DataHandled(b)
<1>0. Head(dataPipe).buf = b /\ PortOf[b] = In
  BY DEF HandleInput
<1>1. CASE curState = "Idle"
  <2>1. GoesBack(b) /\ UNCHANGED <<flags, cmdPipe>>
    BY <1>1 DEF HandleInput
  <2>2. QED
    BY <1>0, <2>1 DEF HandleInput, DataHandled, Types, DecType, PortFlags
<1>2. CASE curState # "Idle" /\ k = "empty"
  <2>1. /\ GoesBack(b)
        /\ dec' = [dec EXCEPT !.bBypassDSP = TRUE]
        /\ cmdPipe' = Resend(In)
        /\ UNCHANGED <<sent, deferred>>
    BY <1>2 DEF HandleInput
  <2>2. dec' \in DecType /\ dec'.disabling = dec.disabling
    BY <2>1 DEF Types, DecType
  <2>3. QED
    BY <1>0, <2>1, <2>2 DEF HandleInput, DataHandled, Types, Resend
<1>3. CASE curState # "Idle" /\ k # "empty"
  <2> DEFINE start    == dec.SendAfterEOS /\ k # "empty"
             parse    == start /\ (k = "config" \/ dec.bConfigData)
             reconfig == dec.reconfigOutputPort \/ changed
             stopped  == dec.bDspStopped /\ ~start
  <2>1. /\ dec' = [dec EXCEPT !.bBypassDSP = FALSE, !.SendAfterEOS = (k = "eos"),
                              !.reconfigOutputPort = reconfig,
                              !.bConfigData = @ /\ ~parse, !.bDspStopped = stopped]
        /\ sent' = [sent EXCEPT ![In] = @ \/ (curState = "Executing" /\ b \notin flagged)]
        /\ cmdPipe' = Resend(In)
        /\ CASE curState = "Executing" /\ b \in flagged -> IsCounted(b)
             [] curState = "Executing" /\ b \notin flagged /\ stopped -> GoesBack(b)
             [] curState = "Executing" /\ b \notin flagged /\ ~stopped /\ reconfig -> IsKept(b)
             [] curState = "Executing" /\ b \notin flagged /\ ~stopped /\ ~reconfig -> GoesToDsp(b)
             [] curState = "Pause" -> IsKept(b)
             [] OTHER -> IsDropped(b)
        /\ UNCHANGED deferred
    BY <1>3 DEF HandleInput
  <2>2. start \in BOOLEAN /\ parse \in BOOLEAN /\ reconfig \in BOOLEAN /\ stopped \in BOOLEAN
    BY DEF Types, DecType
  <2> HIDE DEF start, parse, reconfig, stopped
  <2>3. dec' \in DecType /\ dec'.disabling = dec.disabling
    BY ZenonT(40), <2>1, <2>2 DEF Types, DecType
  <2>4. sent' \in PortFlags /\ \A p \in Ports : sent[p] => sent'[p]
    BY <2>1 DEF Types, PortFlags
  <2>5. GoesBack(b) \/ GoesToDsp(b) \/ IsKept(b) \/ IsDropped(b) \/ (b \in flagged /\ IsCounted(b))
    BY <2>1
  <2>6. cmdPipe' \in {cmdPipe, Append(cmdPipe, <<"Flush", PortOf[b]>>)}
    BY <1>0, <2>1 DEF Resend
  <2>7. QED
    BY <1>0, <2>1, <2>3, <2>4, <2>5, <2>6 DEF HandleInput, DataHandled
<1>4. QED
  BY <1>1, <1>2, <1>3

\* The first message of the data pipe.
LEMMA HeadFacts ==
    ASSUME Types, dataPipe # << >>
    PROVE  /\ Head(dataPipe).buf \in Buffers
           /\ Tail(dataPipe) \in DataPipeType
  <1> DEFINE S == [buf : Buffers, kind : Kinds]
  <1>1. dataPipe \in Seq(S)
    BY DEF Types, DataPipeType
  <1>2. Head(dataPipe) \in S /\ Tail(dataPipe) \in Seq(S)
    BY <1>1, TailFacts
  <1>3. QED
    BY <1>2 DEF DataPipeType

\* A buffer handled is one less in the pipe of its port.
LEMMA HandledType ==
    ASSUME Types, NEW b \in Buffers, Handled(b)
    PROVE  /\ unhandled' \in PortCounts
           /\ \A p \in Ports : unhandled'[p] = unhandled[p] - (IF p = PortOf[b] THEN 1 ELSE 0)
  <1>1. PortOf[b] \in Ports /\ unhandled \in [Ports -> Int]
    BY Mp3Assumption DEF Types, PortCounts
  <1>2. unhandled' = [unhandled EXCEPT ![PortOf[b]] = unhandled[PortOf[b]] - 1]
    BY DEF Handled
  <1>3. unhandled[PortOf[b]] - 1 \in Int
    BY <1>1
  <1>4. QED
    BY <1>1, <1>2, <1>3 DEF PortCounts

\* The handling of a buffer keeps the types.
LEMMA TypesData ==
    ASSUME Types,
           \/ \E b \in Buffers : HandleOutput(b) \/ (\E k \in Kinds, changed \in BOOLEAN : HandleInput(b, k, changed))
           \/ HandleDataFails
    PROVE  Types'
<1>1. ASSUME NEW b \in Buffers, DataHandled(b) PROVE Types'
  <2>1. dataPipe' \in DataPipeType /\ unhandled' \in PortCounts
    BY <1>1, HeadFacts, HandledType DEF DataHandled
  <2>2. cmdPipe' \in CmdPipeType /\ (cmdPipe' = cmdPipe \/ cmdPipe' # << >>)
    <3>0. PortOf[b] \in {In, Out, All}
      BY Mp3Assumption DEF Ports
    <3>1. <<"Flush", PortOf[b]>> \in Cmd
      BY <3>0 DEF Cmd
    <3>2. Append(cmdPipe, <<"Flush", PortOf[b]>>) \in CmdPipeType /\ Append(cmdPipe, <<"Flush", PortOf[b]>>) # << >>
      BY <3>1, AppendFacts DEF Types, CmdPipeType
    <3>3. cmdPipe' = cmdPipe \/ cmdPipe' = Append(cmdPipe, <<"Flush", PortOf[b]>>)
      BY <1>1 DEF DataHandled
    <3>4. QED
      BY <3>2, <3>3 DEF Types
  <2>3. /\ owner' \in OwnerType /\ unreturned' \in PortCounts
        /\ callback' \in {"idle", "stopping", "check", "asleep"}
    BY <1>1, ReturnFacts DEF DataHandled, Types, GoesBack, GoesToDsp, IsKept, IsDropped, IsCounted, ReturnAll
  <2>4. pend' \in SUBSET Buffers /\ flagged' \in SUBSET Buffers /\ lent' \in SUBSET Buffers
    BY <1>1 DEF DataHandled, Types, GoesBack, GoesToDsp, IsKept, IsDropped, IsCounted
  <2>5. hist' \in HistType
    BY <1>1 DEF DataHandled, Types, GoesBack, GoesToDsp, IsKept, IsDropped, IsCounted, HistType
  <2>6. QED
    BY <1>1, <2>1, <2>2, <2>3, <2>4, <2>5 DEF DataHandled, Types
<1>2. CASE HandleDataFails
  <2>1. dataPipe' \in DataPipeType /\ unhandled' \in PortCounts
    BY <1>2, HeadFacts, HandledType DEF HandleDataFails
  <2>2. client' \in ClientType /\ curState' \in States
    BY <1>2, InvalidateFacts DEF HandleDataFails, Types, States
  <2>3. hist' \in HistType
    BY <1>2, HeadFacts DEF HandleDataFails, Types, HistType
  <2>4. thread' \in ThreadType /\ thread'.pc # "command"
    BY <1>2 DEF HandleDataFails, Types, ThreadType
  <2>5. faults' \in 0..MaxFaults
    BY <1>2, Mp3Assumption DEF HandleDataFails, Types
  <2>6. QED
    BY <1>2, <2>1, <2>2, <2>3, <2>4, <2>5 DEF HandleDataFails, Types
<1>3. QED
  BY <1>1, <1>2, OutputFacts, InputFacts

\* The next request, and the port of a flush.
LEMMA RequestFacts ==
    ASSUME Types, requests # << >>
    PROVE  /\ Head(requests) \in Req
           /\ Head(requests) = requests[1]
           /\ Tail(requests) \in RequestsType
           /\ Head(requests)[1] = "FLUSH" => Head(requests)[2] \in Ports /\ Head(requests) = <<"FLUSH", Head(requests)[2]>>
           /\ Head(requests)[1] = "STOP" => Head(requests) = <<"STOP", All>>
           /\ Head(requests)[1] = "PAUSE" => Head(requests) = <<"PAUSE", All>>
  <1>1. Head(requests) \in Req /\ Tail(requests) \in RequestsType /\ Head(requests) = requests[1]
    BY TailFacts DEF Types, RequestsType
  <1>2. QED
    BY <1>1 DEF Req

\* LCML's thread keeps the types.
LEMMA TypesCallback ==
    ASSUME Types, Callback \/ (\E b \in lent : Processed(b)) \/ DspError
    PROVE  Types'
<1>0. client \in ClientType
  BY DEF Types
<1>1. CASE FlushAck
  <2> DEFINE p == Head(requests)[2]
  <2>1. p \in Ports /\ requests' \in RequestsType
    BY <1>1, RequestFacts DEF FlushAck
  <2>2. KeptBack(p) \in SUBSET Buffers
    BY DEF KeptBack, BufsOf
  <2>3. /\ owner' = OwnerAfter(KeptBack(p)) /\ unreturned' = CountAfter(unreturned, KeptBack(p))
        /\ pend' = pend \ KeptBack(p) /\ Complete({<<"Flush", p>>})
    BY <1>1 DEF FlushAck
  <2> HIDE DEF p
  <2>4. owner' \in OwnerType /\ unreturned' \in PortCounts
    BY <2>2, <2>3, ReturnFacts
  <2>5. sig' \in SigType
    BY <1>1 DEF FlushAck, Signal, Types, SigType
  <2>6. client' \in ClientType
    BY <1>0, <2>3, CompleteFacts
  <2>7. pend' \in SUBSET Buffers
    BY <2>3 DEF Types
  <2>8. QED
    BY <1>1, <2>1, <2>4, <2>5, <2>6, <2>7 DEF FlushAck, Types
<1>2. CASE StopAck
  <2>1. requests' \in RequestsType
    BY <1>2, RequestFacts DEF StopAck
  <2>2. owner' \in OwnerType /\ unreturned' \in PortCounts
    BY <1>2, ReturnFacts DEF StopAck, Types
  <2>3. sig' \in SigType
    BY <1>2 DEF StopAck, Signal, Types, SigType
  <2>4. QED
    BY <1>2, <2>1, <2>2, <2>3 DEF StopAck, Types
<1>3. CASE StopState
  BY <1>3 DEF StopState, Types, States
<1>4. CASE AllReturned
  <2>1. client' \in ClientType
    BY <1>0, <1>4, CompleteFacts DEF AllReturned
  <2>2. hist' \in HistType
    BY <1>4 DEF AllReturned, Types, HistType, Unasked
  <2>3. QED
    BY <1>4, <2>1, <2>2 DEF AllReturned, Types
<1>5. CASE WaitForReturn
  BY <1>5 DEF WaitForReturn, Types
<1>6. CASE PauseAck
  <2>1. client' \in ClientType
    BY <1>0, <1>6, CompleteFacts DEF PauseAck
  <2>2. requests' \in RequestsType
    BY <1>6, RequestFacts DEF PauseAck
  <2>3. QED
    BY <1>6, <2>1, <2>2 DEF PauseAck, Types, States
<1>7. ASSUME NEW b \in lent, Processed(b) PROVE Types'
  <2>1. owner' \in OwnerType /\ unreturned' \in PortCounts
    BY <1>7, ReturnFacts DEF Processed, Types
  <2>2. QED
    BY <1>7, <2>1 DEF Processed, Types
<1>8. CASE DspError
  BY <1>0, <1>8, InvalidateFacts, Mp3Assumption DEF DspError, Types, States
<1>9. ASSUME NEW b \in Due, Processed(b) PROVE Types'
  BY <1>7, <1>9 DEF Processed
<1>10. QED
  BY <1>1, <1>2, <1>3, <1>4, <1>5, <1>6, <1>7, <1>8, <1>9 DEF Callback

\* Every step keeps the types.
LEMMA TypesStep == Types /\ [Next]_vars => Types'
<1> SUFFICES ASSUME Types, [Next]_vars PROVE Types'
  OBVIOUS
<1>1. CASE Client
  BY <1>1, TypesClient
<1>2. CASE ComponentThread
  BY <1>2, TypesThread, TypesPorts, TypesData DEF ComponentThread
<1>3. CASE Callback \/ (\E b \in lent : Processed(b)) \/ DspError
  BY <1>3, TypesCallback
<1>4. CASE UNCHANGED vars
  BY <1>4 DEF vars, Types
<1>5. QED
  BY <1>1, <1>2, <1>3, <1>4 DEF Next

-----------------------------------------------------------------------------
(* The state that the client was told of.                                  *)

\* No step but AllReturned ends the callback of a stop.
LEMMA AgreedStep == Types /\ Agreed /\ [Next]_vars => Agreed'
<1> SUFFICES ASSUME Types, Agreed, [Next]_vars PROVE Agreed'
  OBVIOUS
<1>0. client \in ClientType
  BY DEF Types
<1>1. CASE Client
  <2>1. ASSUME UNCHANGED <<curState, callback>>, client'.told = client.told PROVE Agreed'
    BY <2>1 DEF Agreed
  <2>2. ASSUME NEW c \in Commands, SendCommand(c) PROVE Agreed'
    BY <1>0, <2>1, <2>2, SendFacts DEF SendCommand
  <2>3. CASE SendInvalid
    BY <1>0, <2>3, InvalidateFacts DEF SendInvalid, Agreed
  <2>4. ASSUME NEW b \in Buffers, NEW k \in Kinds, ThisBuffer(b, k) PROVE Agreed'
    BY <1>0, <2>1, <2>4, ThisBufferFacts DEF ThisBuffer
  <2>5. CASE ThisBufferCount
    BY <1>0, <2>1, <2>5, CallFacts DEF ThisBufferCount
  <2>6. ASSUME NEW b \in Buffers, AllocateBufferWaits(b) PROVE Agreed'
    BY <1>0, <2>1, <2>6, CallFacts DEF AllocateBufferWaits
  <2>7. ASSUME NEW b \in Buffers, NEW use \in BOOLEAN, AllocateBuffer(b, use) PROVE Agreed'
    BY <1>0, <2>1, <2>7, CallFacts DEF AllocateBuffer
  <2>8. CASE UseBufferRefused
    BY <1>0, <2>1, <2>8, CallFacts DEF UseBufferRefused
  <2>9. ASSUME NEW b \in Buffers, FreeBuffer(b) PROVE Agreed'
    <3>1. \A s \in States : <<"StateSet", s>> \notin {<<"PortDisable", PortOf[b]>>}
      OBVIOUS
    <3>2. QED
      BY <1>0, <2>1, <2>9, <3>1, CompleteFacts DEF FreeBuffer
  <2>10. QED
    BY <1>1, <2>2, <2>3, <2>4, <2>5, <2>6, <2>7, <2>8, <2>9 DEF Client, Allocating, Freeing
<1>2. CASE ComponentThread
  <2>1. ASSUME UNCHANGED <<client, curState, callback>> PROVE Agreed'
    BY <2>1 DEF Agreed
  <2>2. ASSUME UNCHANGED curState, callback' = "idle" => callback = "idle", client'.told = client.told PROVE Agreed'
    BY <2>2 DEF Agreed
  <2>3. ASSUME NEW s \in States, Complete({SetState(s)}), curState' = s PROVE Agreed'
    BY <1>0, <2>3, CompleteState DEF Agreed
  <2>4. ASSUME Invalidate PROVE Agreed'
    BY <1>0, <2>4, InvalidateFacts DEF Agreed
  <2>5. ASSUME NEW x, \A s \in States : <<"StateSet", s>> \notin x, Complete(x) PROVE client'.told = client.told
    BY <1>0, <2>5, CompleteFacts
  <2>6. CASE SelectCommand \/ HandleStop \/ HandlePause \/ HandleLoaded \/ IdleToLoaded
    BY <2>1, <2>6 DEF SelectCommand, HandleStop, HandlePause, HandleLoaded, IdleToLoaded
  <2>7. ASSUME NEW s \in States, HandleWrongState(s) PROVE Agreed'
    BY <1>0, <2>2, <2>7, RefuseFacts DEF HandleWrongState
  <2>8. ASSUME NEW s \in States, HandleWaiting(s) PROVE Agreed'
    BY <2>3, <2>8 DEF HandleWaiting
  <2>9. ASSUME NEW c \in Commands, HandleFails(c) PROVE Agreed'
    BY <2>4, <2>9 DEF HandleFails
  <2>10. CASE HandleIdleFromLoaded
    BY <2>1, <2>3, <2>4, <2>10 DEF HandleIdleFromLoaded, SetUp, States
  <2>11. CASE LoadedToIdle
    BY <2>3, <2>4, <2>11 DEF LoadedToIdle, SetUp, States
  <2>12. CASE Stopped
    BY <2>1, <2>3, <2>12 DEF Stopped, States
  <2>13. CASE HandleExecuting
    BY <2>3, <2>13 DEF HandleExecuting, States
  <2>14. CASE Destroy
    BY <2>3, <2>14 DEF Destroy, States
  <2>15. CASE HandleInvalid \/ HandleDataFails
    BY <2>4, <2>15 DEF HandleInvalid, HandleDataFails
  <2>16. ASSUME NEW B \in SUBSET Buffers, ReturnAll(B) PROVE callback' = "idle" => callback = "idle"
    BY <2>16, ReturnFacts DEF ReturnAll
  <2>17. ASSUME NEW x \in {In, Out, All}, HandlePortDisable(x) PROVE Agreed'
    <3> DEFINE forced == IF x = In /\ ~dec.disabling THEN flagged \intersect BufsOf(In) \intersect Allocated ELSE {}
    <3>1. ReturnAll(forced) /\ forced \in SUBSET Buffers
      BY <2>17 DEF HandlePortDisable, BufsOf
    <3>2. \A s \in States : <<"StateSet", s>> \notin Completions(<<"PortDisable", x>>)
      BY DEF Completions
    <3>3. client'.told = client.told
      BY <2>5, <2>17, <3>2 DEF HandlePortDisable
    <3> HIDE DEF forced
    <3>4. QED
      BY <2>2, <2>16, <2>17, <3>1, <3>3 DEF HandlePortDisable
  <2>18. ASSUME NEW x \in {In, Out, All}, HandlePortEnable(x) PROVE Agreed'
    <3>1. \A s \in States : <<"StateSet", s>> \notin Completions(<<"PortEnable", x>>)
      BY DEF Completions
    <3>2. client'.told = client.told
      BY <2>5, <2>18, <3>1 DEF HandlePortEnable
    <3>3. QED
      BY <2>2, <2>18, <3>2 DEF HandlePortEnable
  <2>19. ASSUME NEW x \in {In, Out, All}, HandleFlush(x) PROVE Agreed'
    BY <2>1, <2>19 DEF HandleFlush
  <2>20. ASSUME NEW p \in Ports, FlushDeferred(p) \/ FlushSent(p) \/ FlushAcked(p) PROVE Agreed'
    BY <2>1, <2>20 DEF FlushDeferred, FlushSent, FlushAcked
  <2>21. ASSUME NEW p \in Ports, FlushPending(p) PROVE Agreed'
    <3>1. \A s \in States : <<"StateSet", s>> \notin {<<"Flush", p>>}
      OBVIOUS
    <3>2. KeptBack(p) \in SUBSET Buffers
      BY DEF KeptBack, BufsOf
    <3>3. QED
      BY <2>2, <2>5, <2>16, <2>21, <3>1, <3>2 DEF FlushPending
  <2>22. ASSUME NEW b \in Buffers, DataHandled(b) PROVE Agreed'
    <3>1. callback' = "idle" => callback = "idle"
      BY <2>22, ReturnFacts DEF DataHandled, GoesBack, GoesToDsp, IsKept, IsDropped, IsCounted, ReturnAll
    <3>2. QED
      BY <2>2, <2>22, <3>1 DEF DataHandled
  <2>23. QED
    BY <1>2, <2>6, <2>7, <2>8, <2>9, <2>10, <2>11, <2>12, <2>13, <2>14, <2>15, <2>17, <2>18, <2>19, <2>20,
       <2>21, <2>22, OutputFacts, InputFacts DEF ComponentThread
<1>3. CASE Callback \/ (\E b \in lent : Processed(b)) \/ DspError
  <2>1. ASSUME UNCHANGED <<curState, callback>>, client'.told = client.told PROVE Agreed'
    BY <2>1 DEF Agreed
  <2>2. CASE FlushAck
    <3>1. \A s \in States : <<"StateSet", s>> \notin {<<"Flush", Head(requests)[2]>>}
      OBVIOUS
    <3>2. QED
      BY <1>0, <2>1, <2>2, <3>1, CompleteFacts DEF FlushAck
  <2>3. CASE StopAck \/ StopState \/ WaitForReturn
    BY <2>3 DEF StopAck, StopState, WaitForReturn, Agreed
  <2>4. CASE AllReturned
    BY <1>0, <2>4, CompleteState DEF AllReturned, Agreed, Types
  <2>5. CASE PauseAck
    BY <1>0, <2>5, CompleteState DEF PauseAck, Agreed, States
  <2>6. ASSUME NEW b, Processed(b) PROVE Agreed'
    BY <2>1, <2>6 DEF Processed
  <2>7. CASE DspError
    BY <1>0, <2>7, InvalidateFacts DEF DspError, Agreed
  <2>8. QED
    BY <1>3, <2>2, <2>3, <2>4, <2>5, <2>6, <2>7 DEF Callback
<1>4. CASE UNCHANGED vars
  BY <1>4 DEF vars, Agreed
<1>5. QED
  BY <1>1, <1>2, <1>3, <1>4 DEF Next

-----------------------------------------------------------------------------
(* Sequences as queues.                                                    *)

\* What is in a queue to which a message is added.
LEMMA HasAppend ==
    ASSUME NEW S, NEW q \in Seq(S), NEW x \in S
    PROVE  /\ \A c : Has(Append(q, x), c) <=> Has(q, c) \/ c = x
           /\ \A c : Sole(q, c) /\ x # c => Sole(Append(q, x), c)
           /\ \A c : ~Has(q, c) => Sole(Append(q, x), c)
  <1>1. Len(q) \in Nat
    OBVIOUS
  <1>2. ASSUME NEW c PROVE Has(Append(q, x), c) <=> Has(q, c) \/ c = x
    BY <1>1, AppendFacts DEF Has
  <1>3. ASSUME NEW c, Sole(q, c), x # c PROVE Sole(Append(q, x), c)
    BY <1>1, <1>3, AppendFacts DEF Sole
  <1>4. ASSUME NEW c, ~Has(q, c) PROVE Sole(Append(q, x), c)
    BY <1>1, <1>4, AppendFacts DEF Sole, Has
  <1>5. QED
    BY <1>2, <1>3, <1>4

\* What is in a queue from which the oldest message is taken.
LEMMA HasTail ==
    ASSUME NEW S, NEW q \in Seq(S), q # << >>
    PROVE  /\ \A c : Has(Tail(q), c) => Has(q, c)
           /\ \A c : Has(q, c) /\ Head(q) # c => Has(Tail(q), c)
           /\ Has(q, Head(q))
           /\ \A c : Sole(q, c) => Sole(Tail(q), c)
           /\ Sole(q, Head(q)) => ~Has(Tail(q), Head(q))
  <1>1. Len(q) \in Nat /\ Len(q) > 0 /\ Len(Tail(q)) = Len(q) - 1 /\ Head(q) = q[1]
    BY TailFacts
  <1>2. \A i \in 1..Len(Tail(q)) : i + 1 \in 1..Len(q) /\ i + 1 # 1 /\ Tail(q)[i] = q[i + 1]
    BY <1>1, TailFacts
  <1>3. \A i \in 1..Len(q) : i # 1 => i - 1 \in 1..Len(Tail(q)) /\ Tail(q)[i - 1] = q[i]
    BY <1>1, <1>2
  <1>4. 1 \in 1..Len(q)
    BY <1>1
  <1>5. ASSUME NEW c PROVE Has(Tail(q), c) => Has(q, c)
    BY <1>2 DEF Has
  <1>6. ASSUME NEW c, Has(q, c), Head(q) # c PROVE Has(Tail(q), c)
    BY <1>1, <1>3, <1>6 DEF Has
  <1>7. Has(q, Head(q))
    BY <1>1, <1>4 DEF Has
  <1>8. ASSUME NEW c, Sole(q, c) PROVE Sole(Tail(q), c)
    <2> SUFFICES ASSUME NEW i \in 1..Len(Tail(q)), NEW j \in 1..Len(Tail(q)), Tail(q)[i] = c, Tail(q)[j] = c
                 PROVE  i = j
      BY DEF Sole
    <2>1. i + 1 = j + 1
      BY <1>2, <1>8 DEF Sole
    <2>2. QED
      BY <1>1, <2>1
  <1>9. ASSUME Sole(q, Head(q)) PROVE ~Has(Tail(q), Head(q))
    BY <1>1, <1>2, <1>4, <1>9 DEF Sole, Has
  <1>10. QED
    BY <1>5, <1>6, <1>7, <1>8, <1>9

\* The request x is new, or the oldest is answered.
LEMMA RequestAppend ==
    ASSUME Types, NEW x \in Req, requests' = Append(requests, x)
    PROVE  /\ \A c : Has(requests', c) <=> Has(requests, c) \/ c = x
           /\ \A c : Sole(requests, c) /\ x # c => Sole(requests', c)
           /\ \A c : ~Has(requests, c) => Sole(requests', c)
  BY HasAppend DEF Types, RequestsType

\* LCML answers the oldest request.
LEMMA RequestTail ==
    ASSUME Types, requests # << >>, requests' = Tail(requests)
    PROVE  /\ \A c : Has(requests', c) => Has(requests, c)
           /\ \A c : Has(requests, c) /\ Head(requests) # c => Has(requests', c)
           /\ Has(requests, Head(requests))
           /\ \A c : Sole(requests, c) => Sole(requests', c)
           /\ Sole(requests, Head(requests)) => ~Has(requests', Head(requests))
  BY HasTail DEF Types, RequestsType

\* Nothing is in an empty queue.
LEMMA RequestsEmpty ==
    ASSUME NEW c
    PROVE  ~Has(<< >>, c) /\ Sole(<< >>, c)
  BY DEF Has, Sole

-----------------------------------------------------------------------------
(* Trust, once lost, does not come back.                                   *)

\* The history only grows, and a client that has given up does not go on.
HistGrows ==
    /\ hist.missed => hist'.missed
    /\ hist.twice => hist'.twice
    /\ hist.lost \subseteq hist'.lost

\* Every step keeps what the history has recorded.
LEMMA HistStep == Types /\ [Next]_vars => HistGrows
<1> SUFFICES ASSUME Types, [Next]_vars PROVE HistGrows
  OBVIOUS
<1>0. hist \in [missed : BOOLEAN, twice : BOOLEAN, unwoken : BOOLEAN, lost : SUBSET Buffers]
  BY DEF Types, HistType
<1>1. CASE UNCHANGED hist
  BY <1>1 DEF HistGrows
<1>2. CASE ThisBufferCount
  BY <1>0, <1>2 DEF ThisBufferCount, HistGrows
<1>3. CASE Stopped
  BY <1>0, <1>1, <1>3 DEF Stopped, HistGrows
<1>4. CASE AllReturned
  BY <1>0, <1>4 DEF AllReturned, HistGrows
<1>5. CASE Destroy
  BY <1>0, <1>5 DEF Destroy, HistGrows
<1>6. CASE HandleInvalid
  BY <1>0, <1>1, <1>6 DEF HandleInvalid, HistGrows
<1>7. ASSUME NEW p \in Ports, FlushPending(p) PROVE HistGrows
  BY <1>0, <1>7 DEF FlushPending, HistGrows
<1>8. ASSUME NEW b \in Buffers, DataHandled(b) PROVE HistGrows
  BY <1>0, <1>8 DEF DataHandled, GoesBack, GoesToDsp, IsKept, IsDropped, IsCounted, HistGrows
<1>9. CASE HandleDataFails
  BY <1>0, <1>9 DEF HandleDataFails, HistGrows
<1>10. CASE Client
  BY <1>1, <1>2, <1>10 DEF Client, SendCommand, SendInvalid, ThisBuffer, Allocating, AllocateBufferWaits,
     AllocateBuffer, UseBufferRefused, Freeing, FreeBuffer
<1>11. CASE ComponentThread
  <2>1. ASSUME NEW s \in States, HandleWrongState(s) \/ HandleWaiting(s) PROVE UNCHANGED hist
    BY <2>1 DEF HandleWrongState, HandleWaiting
  <2>2. ASSUME NEW c \in Commands, HandleFails(c) PROVE UNCHANGED hist
    BY <2>2 DEF HandleFails
  <2>3. CASE SelectCommand \/ HandleIdleFromLoaded \/ LoadedToIdle \/ HandleStop \/ HandleExecuting \/ HandlePause
             \/ HandleLoaded \/ IdleToLoaded
    BY <1>1, <2>3 DEF SelectCommand, HandleIdleFromLoaded, LoadedToIdle, HandleStop, HandleExecuting, HandlePause,
       HandleLoaded, IdleToLoaded
  <2>4. ASSUME NEW x \in {In, Out, All}, HandlePortDisable(x) \/ HandlePortEnable(x) \/ HandleFlush(x)
        PROVE  UNCHANGED hist
    BY <2>4 DEF HandlePortDisable, HandlePortEnable, HandleFlush
  <2>5. ASSUME NEW p \in Ports, FlushDeferred(p) \/ FlushSent(p) \/ FlushAcked(p) PROVE UNCHANGED hist
    BY <2>5 DEF FlushDeferred, FlushSent, FlushAcked
  <2>6. QED
    BY <1>1, <1>3, <1>5, <1>6, <1>7, <1>8, <1>9, <1>11, <2>1, <2>2, <2>3, <2>4, <2>5, OutputFacts, InputFacts
       DEF ComponentThread
<1>12. CASE Callback \/ (\E b \in lent : Processed(b)) \/ DspError
  BY <1>1, <1>4, <1>12 DEF Callback, FlushAck, StopAck, StopState, WaitForReturn, PauseAck, Processed, DspError
<1>13. CASE UNCHANGED vars
  BY <1>1, <1>13 DEF vars
<1>14. QED
  BY <1>10, <1>11, <1>12, <1>13 DEF Next

\* Trust does not come back when a client that has given up does not go on.
LEMMA TrustedStep ==
    ASSUME Types, [Next]_vars, client.told = "Invalid" => client'.told = "Invalid"
    PROVE  Trusted' => Trusted
<1>1. HistGrows
  BY HistStep
<1>2. QED
  BY <1>1 DEF HistGrows, Trusted

-----------------------------------------------------------------------------
(* A stop is under way.                                                    *)

STOP  == <<"STOP", All>>
PAUSE == <<"PAUSE", All>>

\* Every step keeps Stopping.
LEMMA StoppingStep == Types /\ Stopping /\ [Next]_vars => Stopping'
<1> SUFFICES ASSUME Types, Stopping, [Next]_vars PROVE Stopping'
  OBVIOUS
<1>0. /\ Stopping <=> /\ Has(requests, STOP) \/ callback # "idle" => curState \notin {"Loaded", "WaitForResources"}
                      /\ callback \in {"check", "asleep"} => curState # "Pause"
      /\ Stopping' <=> /\ Has(requests', STOP) \/ callback' # "idle" => curState' \notin {"Loaded", "WaitForResources"}
                       /\ callback' \in {"check", "asleep"} => curState' # "Pause"
  BY DEF Stopping, STOP
<1>a. ASSUME UNCHANGED curState, Has(requests', STOP) => Has(requests, STOP), UNCHANGED callback PROVE Stopping'
  BY <1>0, <1>a
<1>b. ASSUME curState' \in {"Idle", "Executing", "Invalid"} PROVE Stopping'
  BY <1>0, <1>b
<1>c. ASSUME NEW x \in Req, x # STOP, requests' = Append(requests, x), UNCHANGED <<curState, callback>> PROVE Stopping'
  BY <1>a, <1>c, RequestAppend
<1>d. ASSUME NEW B \in SUBSET Buffers, ReturnAll(B) \/ UNCHANGED callback \/ callback' = Awakened(B),
             UNCHANGED <<curState, requests>>
      PROVE  Stopping'
  <2>1. callback' = callback \/ (callback = "asleep" /\ callback' = "check")
    BY <1>d, ReturnFacts DEF ReturnAll
  <2>2. QED
    BY <1>0, <1>d, <2>1
<1>1. CASE Client
  BY <1>1, <1>a, <1>b DEF Client, SendCommand, SendInvalid, ThisBuffer, ThisBufferCount, Allocating,
     AllocateBufferWaits, AllocateBuffer, UseBufferRefused, Freeing, FreeBuffer
<1>2. CASE ComponentThread
  <2>1. ASSUME NEW s \in States, HandleWrongState(s) PROVE Stopping'
    BY <1>a, <2>1 DEF HandleWrongState
  <2>2. ASSUME NEW s \in States, HandleWaiting(s) PROVE Stopping'
    BY <1>0, <2>2 DEF HandleWaiting
  <2>3. ASSUME NEW c \in Commands, HandleFails(c) PROVE Stopping'
    BY <1>b, <2>3 DEF HandleFails
  <2>4. CASE SelectCommand \/ HandleLoaded \/ IdleToLoaded
    BY <1>a, <2>4 DEF SelectCommand, HandleLoaded, IdleToLoaded
  <2>5. CASE HandleIdleFromLoaded \/ LoadedToIdle
    BY <1>a, <1>b, <2>5 DEF HandleIdleFromLoaded, LoadedToIdle, SetUp
  <2>6. CASE HandleStop
    BY <1>0, <2>6 DEF HandleStop
  <2>7. CASE Stopped \/ HandleExecuting \/ HandleInvalid \/ HandleDataFails
    BY <1>a, <1>b, <2>7 DEF Stopped, HandleExecuting, HandleInvalid, HandleDataFails
  <2>8. CASE HandlePause
    <3>1. <<"PAUSE", All>> \in Req /\ <<"PAUSE", All>> # STOP
      BY DEF Req, STOP
    <3>2. QED
      BY <1>c, <2>8, <3>1 DEF HandlePause
  <2>9. CASE Destroy
    BY <1>0, <2>9, RequestsEmpty DEF Destroy
  <2>10. ASSUME NEW x \in {In, Out, All}, HandlePortDisable(x) PROVE Stopping'
    <3> DEFINE forced == IF x = In /\ ~dec.disabling THEN flagged \intersect BufsOf(In) \intersect Allocated ELSE {}
    <3>1. ReturnAll(forced) /\ forced \in SUBSET Buffers
      BY <2>10 DEF HandlePortDisable, BufsOf
    <3> HIDE DEF forced
    <3>2. QED
      BY <1>d, <2>10, <3>1 DEF HandlePortDisable
  <2>11. ASSUME NEW x \in {In, Out, All}, HandlePortEnable(x) \/ HandleFlush(x) PROVE Stopping'
    BY <1>a, <2>11 DEF HandlePortEnable, HandleFlush
  <2>12. ASSUME NEW p \in Ports, FlushDeferred(p) \/ FlushAcked(p) PROVE Stopping'
    BY <1>a, <2>12 DEF FlushDeferred, FlushAcked
  <2>13. ASSUME NEW p \in Ports, FlushSent(p) PROVE Stopping'
    <3>1. <<"FLUSH", p>> \in Req /\ <<"FLUSH", p>> # STOP
      BY DEF Req, STOP
    <3>2. QED
      BY <1>c, <2>13, <3>1 DEF FlushSent
  <2>14. ASSUME NEW p \in Ports, FlushPending(p) PROVE Stopping'
    <3>1. KeptBack(p) \in SUBSET Buffers
      BY DEF KeptBack, BufsOf
    <3>2. QED
      BY <1>d, <2>14, <3>1 DEF FlushPending
  <2>15. ASSUME NEW b \in Buffers, DataHandled(b) PROVE Stopping'
    BY <1>d, <2>15 DEF DataHandled, GoesBack, GoesToDsp, IsKept, IsDropped, IsCounted
  <2>16. QED
    BY <1>2, <2>1, <2>2, <2>3, <2>4, <2>5, <2>6, <2>7, <2>8, <2>9, <2>10, <2>11, <2>12, <2>13, <2>14, <2>15,
       OutputFacts, InputFacts DEF ComponentThread
<1>3. CASE Callback \/ (\E b \in lent : Processed(b)) \/ DspError
  <2>1. CASE FlushAck
    BY <1>a, <2>1, RequestTail DEF FlushAck
  <2>2. CASE StopAck
    <3>1. Has(requests, STOP)
      BY <2>2, RequestFacts, RequestTail DEF StopAck, STOP
    <3>2. QED
      BY <1>0, <2>2, <3>1 DEF StopAck
  <2>3. CASE StopState \/ DspError
    BY <1>b, <2>3 DEF StopState, DspError
  <2>4. CASE AllReturned \/ WaitForReturn
    BY <1>0, <2>4 DEF AllReturned, WaitForReturn
  <2>5. CASE PauseAck
    BY <1>0, <2>5 DEF PauseAck
  <2>6. ASSUME NEW b, Processed(b) PROVE Stopping'
    BY <1>a, <2>6 DEF Processed
  <2>7. QED
    BY <1>3, <2>1, <2>2, <2>3, <2>4, <2>5, <2>6 DEF Callback
<1>4. CASE UNCHANGED vars
  BY <1>4, <1>a DEF vars
<1>5. QED
  BY <1>1, <1>2, <1>3, <1>4 DEF Next

Sticky == client.told = "Invalid" => client'.told = "Invalid"

\* No step brings trust back.
LEMMA TrustKept == Types /\ [Next]_vars => (Trusted' => Trusted)
<1> SUFFICES ASSUME Types, [Next]_vars PROVE Sticky
  BY TrustedStep DEF Sticky
<1>0. client \in ClientType
  BY DEF Types
<1>1. ASSUME UNCHANGED client PROVE Sticky
  BY <1>1 DEF Sticky
<1>2. ASSUME NEW C, Complete(C) PROVE Sticky
  BY <1>0, <1>2, CompleteFacts DEF Sticky
<1>3. ASSUME Refuse \/ Invalidate PROVE Sticky
  BY <1>0, <1>3, RefuseFacts, InvalidateFacts DEF Sticky
<1>4. ASSUME NEW pc \in {"ready", "alloc"}, NEW b \in Buffers \union {NULL},
             client' = [client EXCEPT !.pc = pc, !.buf = b]
      PROVE  Sticky
  BY <1>0, <1>4, CallFacts DEF Sticky
<1>5. CASE Client
  <2>1. ASSUME NEW c \in Commands, SendCommand(c) PROVE Sticky
    BY <1>0, <2>1, SendFacts DEF Sticky
  <2>2. ASSUME NEW b \in Buffers, NEW k \in Kinds, ThisBuffer(b, k) PROVE Sticky
    BY <1>0, <2>2, ThisBufferFacts DEF Sticky
  <2>3. CASE SendInvalid \/ ThisBufferCount \/ UseBufferRefused
    BY <1>3, <1>4, <2>3 DEF SendInvalid, ThisBufferCount, UseBufferRefused
  <2>4. ASSUME NEW b \in Buffers, AllocateBufferWaits(b) \/ (\E use \in BOOLEAN : AllocateBuffer(b, use)) PROVE Sticky
    BY <1>4, <2>4 DEF AllocateBufferWaits, AllocateBuffer
  <2>5. ASSUME NEW b \in Buffers, FreeBuffer(b) PROVE Sticky
    BY <1>1, <1>2, <2>5 DEF FreeBuffer
  <2>6. QED
    BY <1>5, <2>1, <2>2, <2>3, <2>4, <2>5 DEF Client, Allocating, Freeing
<1>6. CASE ComponentThread
  <2>1. ASSUME NEW s \in States, HandleWrongState(s) \/ HandleWaiting(s) PROVE Sticky
    BY <1>2, <1>3, <2>1 DEF HandleWrongState, HandleWaiting
  <2>2. ASSUME NEW c \in Commands, HandleFails(c) PROVE Sticky
    BY <1>3, <2>2 DEF HandleFails
  <2>3. CASE SelectCommand \/ HandleStop \/ HandlePause \/ HandleLoaded \/ IdleToLoaded
    BY <1>1, <2>3 DEF SelectCommand, HandleStop, HandlePause, HandleLoaded, IdleToLoaded
  <2>4. CASE HandleIdleFromLoaded \/ LoadedToIdle \/ Stopped
    BY <1>1, <1>2, <1>3, <2>4 DEF HandleIdleFromLoaded, LoadedToIdle, Stopped, SetUp
  <2>5. CASE HandleExecuting \/ Destroy \/ HandleInvalid \/ HandleDataFails
    BY <1>2, <1>3, <2>5 DEF HandleExecuting, Destroy, HandleInvalid, HandleDataFails
  <2>6. ASSUME NEW x \in {In, Out, All}, HandlePortDisable(x) \/ HandlePortEnable(x) \/ HandleFlush(x) PROVE Sticky
    BY <1>1, <1>2, <2>6 DEF HandlePortDisable, HandlePortEnable, HandleFlush
  <2>7. ASSUME NEW p \in Ports, FlushDeferred(p) \/ FlushSent(p) \/ FlushPending(p) \/ FlushAcked(p) PROVE Sticky
    BY <1>1, <1>2, <2>7 DEF FlushDeferred, FlushSent, FlushPending, FlushAcked
  <2>8. ASSUME NEW b \in Buffers, DataHandled(b) PROVE Sticky
    BY <1>1, <2>8 DEF DataHandled
  <2>9. QED
    BY <1>6, <2>1, <2>2, <2>3, <2>4, <2>5, <2>6, <2>7, <2>8, OutputFacts, InputFacts DEF ComponentThread
<1>7. CASE Callback \/ (\E b \in lent : Processed(b)) \/ DspError
  BY <1>1, <1>2, <1>3, <1>7 DEF Callback, FlushAck, StopAck, StopState, AllReturned, WaitForReturn, PauseAck,
     Processed, DspError
<1>8. CASE UNCHANGED vars
  BY <1>1, <1>8 DEF vars
<1>9. QED
  BY <1>5, <1>6, <1>7, <1>8 DEF Next

-----------------------------------------------------------------------------
(* One command at a time.                                                  *)

\* The head of the pipe is read: what is unread was so before, one further.
LEMMA UnreadTail ==
    ASSUME Types, NEW c, Reading(c)
    PROVE  /\ \A i \in Unread' : i + 1 \in Unread /\ cmdPipe'[i] = cmdPipe[i + 1]
           /\ c[1] \in Answered => 1 \in Unread
           /\ (\A i, j \in Unread : i = j) => \A i, j \in Unread' : i = j
           /\ c[1] \in Answered /\ (\A i, j \in Unread : i = j) => Unread' = {}
  <1>1. /\ c = cmdPipe[1] /\ cmdPipe \in Seq(Cmd) /\ cmdPipe # << >> /\ cmdPipe' = Tail(cmdPipe)
    BY ReadingFacts DEF Types, CmdPipeType
  <1>2. /\ Len(cmdPipe) \in Nat /\ Len(cmdPipe) > 0 /\ Len(cmdPipe') = Len(cmdPipe) - 1
        /\ \A i \in 1..Len(cmdPipe) - 1 : cmdPipe'[i] = cmdPipe[i + 1]
    BY <1>1, TailFacts
  <1>3. \A i \in Unread' : i \in Nat /\ i # 0 /\ i + 1 \in Unread /\ cmdPipe'[i] = cmdPipe[i + 1]
    BY <1>2 DEF Unread
  <1>4. c[1] \in Answered => 1 \in Unread
    BY <1>1, <1>2 DEF Unread
  <1>5. ASSUME \A i, j \in Unread : i = j, NEW i \in Unread', NEW j \in Unread' PROVE i = j
    <2>1. i + 1 = j + 1 /\ i \in Nat /\ j \in Nat
      BY <1>3, <1>5
    <2>2. QED
      BY <2>1
  <1>6. ASSUME \A i, j \in Unread : i = j, c[1] \in Answered, NEW i \in Unread' PROVE FALSE
    <2>1. i + 1 = 1 /\ i \in Nat /\ i # 0
      BY <1>3, <1>4, <1>6
    <2>2. QED
      BY <2>1
  <1>7. QED
    BY <1>3, <1>4, <1>5, <1>6

\* A command is written to the pipe.
LEMMA UnreadAppend ==
    ASSUME Types, NEW c \in Cmd, cmdPipe' = Append(cmdPipe, c)
    PROVE  /\ \A i \in Unread' : (i \in Unread /\ cmdPipe'[i] = cmdPipe[i]) \/ (i = Len(cmdPipe) + 1 /\ cmdPipe'[i] = c)
           /\ c[1] \notin Answered => \A i \in Unread' : i \in Unread /\ cmdPipe'[i] = cmdPipe[i]
  <1>1. cmdPipe \in Seq(Cmd)
    BY DEF Types, CmdPipeType
  <1>2. /\ Len(cmdPipe) \in Nat /\ Len(cmdPipe') = Len(cmdPipe) + 1
        /\ \A i \in 1..Len(cmdPipe) : cmdPipe'[i] = cmdPipe[i]
        /\ cmdPipe'[Len(cmdPipe) + 1] = c
    BY <1>1, AppendFacts
  <1>3. ASSUME NEW i \in Unread'
        PROVE  (i \in Unread /\ cmdPipe'[i] = cmdPipe[i]) \/ (i = Len(cmdPipe) + 1 /\ cmdPipe'[i] = c)
    BY <1>2, <1>3 DEF Unread
  <1>4. ASSUME c[1] \notin Answered, NEW i \in Unread' PROVE i \in Unread /\ cmdPipe'[i] = cmdPipe[i]
    BY <1>2, <1>3, <1>4 DEF Unread
  <1>5. QED
    BY <1>3, <1>4

\* What completes a command of the client: its own kind.
LEMMA CompletionKinds ==
    ASSUME NEW c
    PROVE  /\ \A x \in Completions(c) : x[1] = c[1]
           /\ \A s : c = SetState(s) => Completions(c) = {c}
  BY DEF Completions, SetState

\* No command is in the pipe, and none that was read is unfinished.
NothingAwaited ==
    /\ Unread = {}
    /\ thread.pc \notin {"inLoaded", "inIdle", "destroy"}
    /\ ~Has(requests, PAUSE)
    /\ ~dec.disabling

\* OneCommand holds where no command is in the component.
LEMMA NoneAwaited ==
    ASSUME \A i, j \in Unread' : i = j, Trusted' => NothingAwaited'
    PROVE  OneCommand'
  <1>1. ASSUME Trusted' PROVE AwaitedWhenTrusted'
    <2>1. NothingAwaited'
      BY <1>1
    <2>2. ~Has(requests', PAUSE)
      BY <2>1 DEF NothingAwaited
    <2>3. Sole(requests', PAUSE)
      BY <2>2 DEF Has, Sole
    <2>4. QED
      BY <2>1, <2>2, <2>3 DEF NothingAwaited, AwaitedWhenTrusted, PAUSE
  <1>2. QED
    BY <1>1 DEF OneCommand

\* A command is complete only when the client waits for something.
LEMMA NotEmpty ==
    ASSUME NEW c \in Cmd
    PROVE  Completions(c) # {}
  <1>1. CASE c[1] = "StateSet"
    BY <1>1 DEF Completions
  <1>2. CASE c[1] # "StateSet"
    <2>1. Names(c[2]) # {}
      BY DEF Names, Ports
    <2>2. PICK p \in Names(c[2]) : TRUE
      BY <2>1
    <2>3. <<c[1], p>> \in Completions(c)
      BY <1>2 DEF Completions
    <2>4. QED
      BY <2>3
  <1>3. QED
    BY <1>1, <1>2

\* A client that waits for nothing has no command in the component.
LEMMA NothingOwed ==
    ASSUME Types, OneCommand, Trusted, client.owed = {}
    PROVE  NothingAwaited
  <1>1. AwaitedWhenTrusted
    BY DEF OneCommand
  <1>2. \A i \in Unread : cmdPipe[i] \in Cmd
    BY DEF Types, CmdPipeType, Unread
  <1>3. Unread = {}
    BY <1>1, <1>2, NotEmpty DEF AwaitedWhenTrusted, Awaits
  <1>4. ASSUME NEW s \in States PROVE ~Awaits(SetState(s))
    <2>1. SetState(s) \in Cmd
      BY DEF SetState, Cmd
    <2>2. QED
      BY <2>1, NotEmpty DEF Awaits
  <1>5. "Idle" \in States /\ "Loaded" \in States /\ "Pause" \in States
    BY DEF States
  <1>6. QED
    BY <1>1, <1>3, <1>4, <1>5 DEF AwaitedWhenTrusted, NothingAwaited, PAUSE

\* The client's own command is read: it was the only one.
LEMMA OwnRead ==
    ASSUME Types, OneCommand, NEW c, Reading(c), c[1] \in Answered
    PROVE  /\ Unread' = {}
           /\ Trusted => Awaits(c) /\ ~Has(requests, PAUSE) /\ ~dec.disabling
  <1>1. 1 \in Unread /\ Unread' = {} /\ c = cmdPipe[1]
    BY UnreadTail, ReadingFacts DEF OneCommand
  <1>2. QED
    BY <1>1 DEF OneCommand, AwaitedWhenTrusted, PAUSE

\* A step that only moves what is unread, or completes something else.
LEMMA QuietStep ==
    ASSUME OneCommand, Trusted' => Trusted,
           NEW C, client'.cmd = client.cmd, client'.owed = client.owed \ C, \A x \in C : x[1] \notin Answered,
           \A i \in Unread' : \E j \in Unread : cmdPipe'[i] = cmdPipe[j],
           \A i, j \in Unread' : i = j,
           Sole(requests, PAUSE) => Sole(requests', PAUSE), Has(requests', PAUSE) => Has(requests, PAUSE),
           Trusted /\ thread'.pc = "inLoaded" => thread.pc = "inLoaded" /\ UNCHANGED curState,
           thread'.pc \in {"inIdle", "destroy"} => thread.pc \in {"inIdle", "destroy"},
           dec'.disabling => dec.disabling
    PROVE  OneCommand'
  <1> SUFFICES ASSUME Trusted' PROVE AwaitedWhenTrusted'
    BY DEF OneCommand
  <1>0. AwaitedWhenTrusted /\ Trusted
    BY DEF OneCommand
  <1>1. ASSUME NEW c, Awaits(c), c[1] \in Answered PROVE Awaits(c)'
    <2>1. \A x \in client.owed : x \notin C
      BY <1>1, CompletionKinds DEF Awaits
    <2>2. client'.owed = client.owed
      BY <2>1
    <2>3. QED
      BY <1>1, <2>2 DEF Awaits
  <1>2. ASSUME Unread = {} PROVE Unread' = {}
    BY <1>2
  <1>3. ASSUME NEW i \in Unread' PROVE Awaits(cmdPipe[i])'
    <2>1. PICK j \in Unread : cmdPipe'[i] = cmdPipe[j]
      BY <1>3
    <2>2. Awaits(cmdPipe[j]) /\ cmdPipe[j][1] \in Answered
      BY <1>0 DEF AwaitedWhenTrusted, Unread
    <2>3. client'.cmd = cmdPipe[j] /\ client'.owed = Completions(cmdPipe[j])
      BY <1>1, <2>2 DEF Awaits
    <2>4. QED
      BY <2>1, <2>3 DEF Awaits
  <1>4. \A s : SetState(s)[1] \in Answered
    BY DEF SetState, Answered
  <1>5. ASSUME thread'.pc = "inLoaded"
        PROVE  Unread' = {} /\ Awaits(SetState("Idle"))' /\ curState' \in {"Loaded", "WaitForResources"}
    BY <1>0, <1>1, <1>2, <1>4, <1>5 DEF AwaitedWhenTrusted
  <1>6. ASSUME thread'.pc \in {"inIdle", "destroy"} PROVE Unread' = {} /\ Awaits(SetState("Loaded"))'
    BY <1>0, <1>1, <1>2, <1>4, <1>6 DEF AwaitedWhenTrusted
  <1>7. ASSUME Has(requests', PAUSE) PROVE Unread' = {} /\ Awaits(SetState("Pause"))'
    BY <1>0, <1>1, <1>2, <1>4, <1>7 DEF AwaitedWhenTrusted, PAUSE
  <1>8. ASSUME dec'.disabling
        PROVE  /\ Unread' = {}
               /\ client'.cmd \in {"PortDisable"} \X {In, Out, All}
               /\ client'.owed # {} /\ client'.owed \subseteq Completions(client'.cmd)
    <2>1. /\ Unread = {}
          /\ client.cmd \in {"PortDisable"} \X {In, Out, All}
          /\ client.owed # {} /\ client.owed \subseteq Completions(client.cmd)
      BY <1>0, <1>8 DEF AwaitedWhenTrusted
    <2>2. client.cmd[1] \in Answered
      BY <2>1 DEF Answered
    <2>3. \A x \in client.owed : x \notin C
      BY <2>1, <2>2, CompletionKinds
    <2>4. client'.owed = client.owed
      BY <2>3
    <2>5. QED
      BY <1>2, <2>1, <2>4
  <1>9. Sole(requests', PAUSE)
    BY <1>0 DEF AwaitedWhenTrusted, PAUSE
  <1>10. QED
    BY <1>3, <1>5, <1>6, <1>7, <1>8, <1>9 DEF AwaitedWhenTrusted, PAUSE

\* A step that completes nothing, and starts nothing that is awaited.
LEMMA SameStep ==
    ASSUME OneCommand, Trusted' => Trusted,
           client'.cmd = client.cmd, client'.owed = client.owed,
           \A i \in Unread' : \E j \in Unread : cmdPipe'[i] = cmdPipe[j],
           \A i, j \in Unread' : i = j,
           Sole(requests, PAUSE) => Sole(requests', PAUSE), Has(requests', PAUSE) => Has(requests, PAUSE),
           Trusted /\ thread'.pc = "inLoaded" => thread.pc = "inLoaded" /\ UNCHANGED curState,
           thread'.pc \in {"inIdle", "destroy"} => thread.pc \in {"inIdle", "destroy"},
           dec'.disabling => dec.disabling
    PROVE  OneCommand'
  <1>1. PICK C : C = {}
    OBVIOUS
  <1>2. client'.owed = client.owed \ C /\ \A x \in C : x[1] \notin Answered
    BY <1>1
  <1>3. QED
    BY <1>2, QuietStep

\* The pipe keeps its unread commands: it is the same, or a command that needs
\* no answer was read or written.
PipeKept ==
    /\ \A i \in Unread' : \E j \in Unread : cmdPipe'[i] = cmdPipe[j]
    /\ (\A i, j \in Unread : i = j) => \A i, j \in Unread' : i = j

\* The pipe is not touched.
LEMMA PipeSame == UNCHANGED cmdPipe => PipeKept
  BY DEF PipeKept, Unread

\* A command is read.
LEMMA PipeRead ==
    ASSUME Types, NEW c, Reading(c)
    PROVE  PipeKept
  BY UnreadTail DEF PipeKept

\* A command that needs no answer is written.
LEMMA PipeWritten ==
    ASSUME Types, NEW c \in Cmd, c[1] \notin Answered, cmdPipe' = Append(cmdPipe, c)
    PROVE  PipeKept
  BY UnreadAppend DEF PipeKept

\* The client's calls keep OneCommand.
LEMMA OneCommandClient ==
    ASSUME Types, OneCommand, Client, Trusted' => Trusted
    PROVE  OneCommand'
<1>0. client \in ClientType
  BY DEF Types
<1>a. ASSUME PipeKept, UNCHANGED <<requests, thread, curState>>, dec'.disabling => dec.disabling,
             client'.cmd = client.cmd, client'.owed = client.owed
      PROVE  OneCommand'
  BY <1>a, SameStep DEF PipeKept, OneCommand
<1>1. ASSUME NEW c \in Commands, SendCommand(c) PROVE OneCommand'
  <2>1. NothingAwaited
    BY <1>1, NothingOwed DEF SendCommand, MaySend
  <2>2. client'.cmd = c /\ client'.owed = Completions(c)
    BY <1>0, <1>1, SendFacts
  <2>3. c \in Cmd
    BY Mp3Assumption DEF Cmd
  <2>4. \A i \in Unread' : i = Len(cmdPipe) + 1 /\ cmdPipe'[i] = c
    BY <1>1, <2>1, <2>3, UnreadAppend DEF SendCommand, NothingAwaited
  <2>5. ASSUME NEW i \in Unread' PROVE Awaits(cmdPipe[i])'
    BY <2>2, <2>4 DEF Awaits
  <2>6. UNCHANGED <<requests, thread, dec>>
    BY <1>1 DEF SendCommand
  <2>7. Sole(requests', PAUSE) /\ ~Has(requests', PAUSE)
    BY <2>1, <2>6 DEF NothingAwaited, Has, Sole
  <2>8. AwaitedWhenTrusted'
    BY <2>1, <2>5, <2>6, <2>7 DEF AwaitedWhenTrusted, NothingAwaited, PAUSE
  <2>9. QED
    BY <2>4, <2>8 DEF OneCommand
<1>2. CASE SendInvalid
  <2>1. ~Trusted'
    BY <1>0, <1>2, InvalidateFacts DEF SendInvalid, Trusted
  <2>2. PipeKept
    BY <1>2, PipeSame DEF SendInvalid
  <2>3. QED
    BY <2>1, <2>2, NoneAwaited DEF PipeKept, OneCommand
<1>3. ASSUME NEW b \in Buffers, NEW k \in Kinds, ThisBuffer(b, k) PROVE OneCommand'
  BY <1>0, <1>a, <1>3, ThisBufferFacts, PipeSame DEF ThisBuffer
<1>4. CASE ThisBufferCount
  BY <1>0, <1>a, <1>4, CallFacts, PipeSame DEF ThisBufferCount
<1>5. ASSUME NEW b \in Buffers, AllocateBufferWaits(b) PROVE OneCommand'
  BY <1>0, <1>a, <1>5, CallFacts, PipeSame DEF AllocateBufferWaits
<1>6. ASSUME NEW b \in Buffers, NEW use \in BOOLEAN, AllocateBuffer(b, use) PROVE OneCommand'
  <2>1. <<"PortEnable", dec.enableParam>> \in Cmd /\ <<"PortEnable", dec.enableParam>>[1] \notin Answered
    BY DEF Types, DecType, Cmd, Answered
  <2>2. cmdPipe' = cmdPipe \/ cmdPipe' = Append(cmdPipe, <<"PortEnable", dec.enableParam>>)
    BY <1>6 DEF AllocateBuffer
  <2>3. PipeKept
    BY <2>1, <2>2, PipeSame, PipeWritten
  <2>4. QED
    BY <1>0, <1>a, <1>6, <2>3, CallFacts DEF AllocateBuffer
<1>7. CASE UseBufferRefused
  BY <1>0, <1>a, <1>7, CallFacts, PipeSame DEF UseBufferRefused
<1>8. ASSUME NEW b \in Buffers, FreeBuffer(b) PROVE OneCommand'
  <2> DEFINE last == dec.disabling /\ (Allocated \ {b}) \intersect BufsOf(PortOf[b]) = {}
  <2>1. /\ dec' = [dec EXCEPT !.disabling = dec.disabling /\ ~last]
        /\ IF last THEN Complete({<<"PortDisable", PortOf[b]>>}) ELSE UNCHANGED client
        /\ UNCHANGED <<cmdPipe, requests, thread, curState>>
    BY <1>8 DEF FreeBuffer
  <2>2. dec'.disabling = (dec.disabling /\ ~last)
    BY <2>1 DEF Types, DecType
  <2>3. CASE last
    <3>1. PipeKept
      BY <2>1, PipeSame
    <3>2. ASSUME Trusted' PROVE NothingAwaited'
      <4>1. AwaitedWhenTrusted /\ dec.disabling
        BY <2>3, <3>2 DEF OneCommand
      <4>2. Unread = {} /\ client.cmd[1] = "PortDisable"
        BY <4>1 DEF AwaitedWhenTrusted
      <4>3. \A s : ~Awaits(SetState(s))
        BY <4>2 DEF Awaits, SetState
      <4>4. thread.pc \notin {"inLoaded", "inIdle", "destroy"} /\ ~Has(requests, PAUSE)
        BY <4>1, <4>3 DEF AwaitedWhenTrusted, PAUSE
      <4>5. ~dec'.disabling
        BY <2>2, <2>3
      <4>6. Unread' = {}
        BY <3>1, <4>2 DEF PipeKept
      <4>7. QED
        BY <2>1, <4>4, <4>5, <4>6 DEF NothingAwaited
    <3>3. QED
      BY <3>1, <3>2, NoneAwaited DEF PipeKept, OneCommand
  <2>4. CASE ~last
    <3> HIDE DEF last
    <3>1. QED
      BY <1>a, <2>1, <2>2, <2>4, PipeSame
  <2>5. QED
    BY <2>3, <2>4
<1>9. QED
  BY <1>1, <1>2, <1>3, <1>4, <1>5, <1>6, <1>7, <1>8 DEF Client, Allocating, Freeing

\* The component's thread keeps OneCommand.
LEMMA OneCommandThread ==
    ASSUME Types, OneCommand, ComponentThread, Trusted' => Trusted
    PROVE  OneCommand'
<1>0. client \in ClientType
  BY DEF Types
<1>a. ASSUME PipeKept, UNCHANGED requests, thread'.pc \notin {"inLoaded", "inIdle", "destroy"},
             dec'.disabling => dec.disabling, client'.cmd = client.cmd,
             NEW C, \A x \in C : x[1] \notin Answered, client'.owed = client.owed \ C
      PROVE  OneCommand'
  BY <1>a, QuietStep DEF PipeKept, OneCommand
<1>b. ASSUME PipeKept, UNCHANGED <<requests, client>>, thread'.pc \notin {"inLoaded", "inIdle", "destroy"},
             dec'.disabling => dec.disabling
      PROVE  OneCommand'
  BY <1>b, SameStep DEF PipeKept, OneCommand
\* The client's own command is read and done with.
<1>c. ASSUME NEW c, Reading(c), c[1] \in Answered, thread'.pc \notin {"inLoaded", "inIdle", "destroy"},
             Has(requests', PAUSE) => Has(requests, PAUSE), dec'.disabling => dec.disabling
      PROVE  OneCommand'
  <2>1. Unread' = {} /\ (Trusted => ~Has(requests, PAUSE) /\ ~dec.disabling)
    BY <1>c, OwnRead
  <2>2. Trusted' => NothingAwaited'
    BY <1>c, <2>1 DEF NothingAwaited
  <2>3. QED
    BY <2>1, <2>2, NoneAwaited
<1>d. ASSUME PipeKept, ~Trusted' PROVE OneCommand'
  BY <1>d, NoneAwaited DEF PipeKept, OneCommand
<1>e. ASSUME Invalidate PROVE ~Trusted'
  BY <1>0, <1>e, InvalidateFacts DEF Trusted
<1>f. \A s : SetState(s)[1] \in Answered
  BY DEF SetState, Answered
<1>g. Select.pc = "select"
  BY DEF Select
<1>1. CASE SelectCommand
  <2>1. thread'.pc = "command"
    BY <1>1 DEF SelectCommand, Types, ThreadType
  <2>2. QED
    BY <1>b, <1>1, <2>1, PipeSame DEF SelectCommand
<1>2. ASSUME NEW s \in States, HandleWrongState(s) PROVE OneCommand'
  BY <1>c, <1>f, <1>g, <1>2 DEF HandleWrongState
<1>3. ASSUME NEW s \in States, HandleWaiting(s) PROVE OneCommand'
  BY <1>c, <1>f, <1>g, <1>3 DEF HandleWaiting
<1>4. ASSUME NEW c \in Commands, HandleFails(c) PROVE OneCommand'
  BY <1>d, <1>e, <1>4, PipeRead DEF HandleFails
<1>5. CASE HandleIdleFromLoaded
  <2>1. Reading(SetState("Idle")) /\ UNCHANGED <<requests, dec>>
    BY <1>5 DEF HandleIdleFromLoaded
  <2>2. CASE thread' = Select
    BY <1>c, <1>f, <1>g, <2>1, <2>2
  <2>3. CASE thread' # Select
    <3>1. /\ thread' = [thread EXCEPT !.pc = "inLoaded"] /\ UNCHANGED <<client, curState>>
          /\ curState \in {"Loaded", "WaitForResources"}
      BY <1>5, <2>3 DEF HandleIdleFromLoaded
    <3>2. thread'.pc = "inLoaded"
      BY <3>1 DEF Types, ThreadType
    <3>3. Unread' = {} /\ (Trusted => Awaits(SetState("Idle")) /\ ~Has(requests, PAUSE) /\ ~dec.disabling)
      BY <1>f, <2>1, OwnRead
    <3>4. ASSUME Trusted PROVE AwaitedWhenTrusted'
      <4>1. Awaits(SetState("Idle"))'
        BY <3>1, <3>3, <3>4 DEF Awaits
      <4>2. ~Has(requests', PAUSE) /\ ~dec'.disabling
        BY <2>1, <3>3, <3>4
      <4>3. Sole(requests', PAUSE)
        BY <4>2 DEF Has, Sole
      <4>4. QED
        BY <3>1, <3>2, <3>3, <4>1, <4>2, <4>3 DEF AwaitedWhenTrusted, PAUSE
    <3>5. QED
      BY <3>3, <3>4 DEF OneCommand
  <2>4. QED
    BY <2>2, <2>3
<1>6. CASE LoadedToIdle
  <2>1. UNCHANGED <<cmdPipe, requests, dec>> /\ thread.pc = "inLoaded" /\ thread' = Select
    BY <1>6 DEF LoadedToIdle
  <2>2. PipeKept
    BY <2>1, PipeSame
  <2>3. ASSUME Trusted' PROVE NothingAwaited'
    <3>1. AwaitedWhenTrusted
      BY <2>3 DEF OneCommand
    <3>2. Unread = {} /\ client.cmd = <<"StateSet", "Idle">>
      BY <2>1, <3>1 DEF AwaitedWhenTrusted, Awaits, SetState
    <3>3. ~Has(requests, PAUSE) /\ ~dec.disabling
      BY <3>1, <3>2 DEF AwaitedWhenTrusted, Awaits, SetState, PAUSE
    <3>4. Unread' = {}
      BY <2>2, <3>2 DEF PipeKept
    <3>5. QED
      BY <1>g, <2>1, <3>3, <3>4 DEF NothingAwaited
  <2>4. QED
    BY <2>2, <2>3, NoneAwaited DEF PipeKept, OneCommand
<1>7. CASE HandleStop
  <2>1. Has(requests', PAUSE) => Has(requests, PAUSE)
    <3>1. <<"STOP", All>> \in Req /\ <<"STOP", All>> # PAUSE
      BY DEF Req, PAUSE
    <3>2. QED
      BY <1>7, <3>1, RequestAppend DEF HandleStop
  <2>2. dec'.disabling = dec.disabling /\ thread'.pc = "stop"
    BY <1>7 DEF HandleStop, Types, DecType
  <2>3. QED
    BY <1>c, <1>f, <1>7, <2>1, <2>2 DEF HandleStop
<1>8. CASE Stopped
  <2>1. UNCHANGED <<cmdPipe, requests, dec>> /\ thread.pc = "stop" /\ thread' = Select
    BY <1>8 DEF Stopped
  <2>2. PipeKept
    BY <2>1, PipeSame
  <2>3. CASE thread.todo = {}
    BY <1>b, <1>g, <1>8, <2>1, <2>2, <2>3 DEF Stopped
  <2>4. CASE thread.todo # {}
    <3>1. hist' = [hist EXCEPT !.twice = hist.twice \/ Unasked(SetState("Idle"))]
      BY <1>8, <2>4 DEF Stopped
    <3>2. ASSUME Trusted' PROVE NothingAwaited'
      <4>1. ~Unasked(SetState("Idle"))
        BY <3>1, <3>2 DEF Trusted, Types, HistType
      <4>2. SetState("Idle") \in client.owed /\ \A i \in 1..Len(cmdPipe) : cmdPipe[i] # SetState("Idle")
        BY <4>1 DEF Unasked
      <4>3. AwaitedWhenTrusted
        BY <3>2 DEF OneCommand
      <4>4. Unread = {}
        <5> SUFFICES ASSUME NEW i \in Unread PROVE FALSE
          OBVIOUS
        <5>1. Awaits(cmdPipe[i]) /\ i \in 1..Len(cmdPipe)
          BY <4>3 DEF AwaitedWhenTrusted, Unread
        <5>2. SetState("Idle") \in Completions(cmdPipe[i])
          BY <4>2, <5>1 DEF Awaits
        <5>3. cmdPipe[i] = SetState("Idle")
          BY <5>2 DEF Completions, SetState
        <5>4. QED
          BY <4>2, <5>1, <5>3
      <4>5. ~Has(requests, PAUSE)
        BY <4>2, <4>3, CompletionKinds DEF AwaitedWhenTrusted, Awaits, SetState, PAUSE
      <4>6. ~dec.disabling
        <5> SUFFICES ASSUME dec.disabling PROVE FALSE
          OBVIOUS
        <5>1. client.cmd \in {"PortDisable"} \X {In, Out, All} /\ client.owed \subseteq Completions(client.cmd)
          BY <4>3 DEF AwaitedWhenTrusted
        <5>2. SetState("Idle")[1] = "PortDisable"
          BY <4>2, <5>1, CompletionKinds
        <5>3. QED
          BY <5>2 DEF SetState
      <4>7. Unread' = {}
        BY <2>2, <4>4 DEF PipeKept
      <4>8. QED
        BY <1>g, <2>1, <4>5, <4>6, <4>7 DEF NothingAwaited
    <3>3. QED
      BY <2>2, <3>2, NoneAwaited DEF PipeKept, OneCommand
  <2>5. QED
    BY <2>3, <2>4
<1>9. CASE HandleExecuting
  <2>1. dec'.disabling = dec.disabling
    BY <1>9 DEF HandleExecuting, Types, DecType
  <2>2. QED
    BY <1>c, <1>f, <1>g, <1>9, <2>1 DEF HandleExecuting
<1>10. CASE HandlePause
  <2>1. /\ Reading(SetState("Pause")) /\ requests' = Append(requests, PAUSE) /\ thread' = Select
        /\ UNCHANGED <<client, dec>>
    BY <1>10 DEF HandlePause, PAUSE
  <2>2. Unread' = {} /\ (Trusted => Awaits(SetState("Pause")) /\ ~Has(requests, PAUSE) /\ ~dec.disabling)
    BY <1>f, <2>1, OwnRead
  <2>3. ASSUME Trusted PROVE AwaitedWhenTrusted'
    <3>1. PAUSE \in Req
      BY DEF Req, PAUSE
    <3>2. Sole(requests', PAUSE)
      BY <2>1, <2>2, <2>3, <3>1, RequestAppend
    <3>3. Awaits(SetState("Pause"))'
      BY <2>1, <2>2, <2>3 DEF Awaits
    <3>4. QED
      BY <1>g, <2>1, <2>2, <2>3, <3>2, <3>3 DEF AwaitedWhenTrusted, PAUSE
  <2>4. QED
    BY <2>2, <2>3 DEF OneCommand
<1>11. CASE HandleLoaded
  <2>1. Reading(SetState("Loaded")) /\ UNCHANGED <<requests, dec, client>>
    BY <1>11 DEF HandleLoaded
  <2>2. thread'.pc \in {"inIdle", "destroy"}
    BY <1>11 DEF HandleLoaded, Types, ThreadType
  <2>3. Unread' = {} /\ (Trusted => Awaits(SetState("Loaded")) /\ ~Has(requests, PAUSE) /\ ~dec.disabling)
    BY <1>f, <2>1, OwnRead
  <2>4. ASSUME Trusted PROVE AwaitedWhenTrusted'
    <3>1. Awaits(SetState("Loaded"))'
      BY <2>1, <2>3, <2>4 DEF Awaits
    <3>2. ~Has(requests', PAUSE) /\ ~dec'.disabling
      BY <2>1, <2>3, <2>4
    <3>3. Sole(requests', PAUSE)
      BY <3>2 DEF Has, Sole
    <3>4. QED
      BY <2>2, <2>3, <3>1, <3>2, <3>3 DEF AwaitedWhenTrusted, PAUSE
  <2>5. QED
    BY <2>3, <2>4 DEF OneCommand
<1>12. CASE IdleToLoaded
  <2>1. thread.pc = "inIdle" /\ thread'.pc = "destroy"
    BY <1>12 DEF IdleToLoaded, Types, ThreadType
  <2>2. PipeKept /\ UNCHANGED <<requests, dec, client, curState>>
    BY <1>12, PipeSame DEF IdleToLoaded
  <2>3. QED
    BY <2>1, <2>2, SameStep DEF PipeKept, OneCommand
<1>13. CASE Destroy
  <2>1. UNCHANGED <<cmdPipe, dec>> /\ thread.pc = "destroy" /\ thread' = Select /\ requests' = << >>
    BY <1>13 DEF Destroy
  <2>2. PipeKept
    BY <2>1, PipeSame
  <2>3. ASSUME Trusted' PROVE NothingAwaited'
    <3>1. AwaitedWhenTrusted
      BY <2>3 DEF OneCommand
    <3>2. Unread = {} /\ client.cmd = <<"StateSet", "Loaded">>
      BY <2>1, <3>1 DEF AwaitedWhenTrusted, Awaits, SetState
    <3>3. ~Has(requests', PAUSE) /\ ~dec.disabling
      BY <2>1, <3>1, <3>2, RequestsEmpty DEF AwaitedWhenTrusted
    <3>4. Unread' = {}
      BY <2>2, <3>2 DEF PipeKept
    <3>5. QED
      BY <1>g, <2>1, <3>3, <3>4 DEF NothingAwaited
  <2>4. QED
    BY <2>2, <2>3, NoneAwaited DEF PipeKept, OneCommand
<1>14. CASE HandleInvalid
  BY <1>d, <1>e, <1>14, PipeRead DEF HandleInvalid
<1>15. ASSUME NEW x \in {In, Out, All}, HandlePortDisable(x) PROVE OneCommand'
  <2> DEFINE done == \A p \in Names(x) : ~Populated(p)
             c    == <<"PortDisable", x>>
  <2>1. /\ Reading(c) /\ dec' = [dec EXCEPT !.disabling = ~done] /\ thread' = Select /\ UNCHANGED requests
        /\ ~done => UNCHANGED client
    BY <1>15 DEF HandlePortDisable
  <2>2. c[1] \in Answered /\ c \in Cmd
    BY DEF Answered, Cmd
  <2>3. dec'.disabling = ~done
    BY <2>1 DEF Types, DecType
  <2> HIDE DEF done, c
  <2>4. CASE done
    BY <1>c, <1>g, <2>1, <2>2, <2>3, <2>4
  <2>5. CASE ~done
    <3>1. Unread' = {} /\ (Trusted => Awaits(c) /\ ~Has(requests, PAUSE) /\ ~dec.disabling)
      BY <2>1, <2>2, OwnRead
    <3>2. ASSUME Trusted PROVE AwaitedWhenTrusted'
      <4>1. client'.cmd = c /\ client'.owed = Completions(client'.cmd) /\ client'.owed # {}
        BY <2>1, <2>2, <2>5, <3>1, <3>2, NotEmpty DEF Awaits
      <4>2. client'.cmd \in {"PortDisable"} \X {In, Out, All}
        BY <4>1 DEF c
      <4>3. ~Has(requests', PAUSE)
        BY <2>1, <3>1, <3>2
      <4>4. Sole(requests', PAUSE)
        BY <4>3 DEF Has, Sole
      <4>5. QED
        BY <1>g, <2>1, <3>1, <4>1, <4>2, <4>3, <4>4 DEF AwaitedWhenTrusted, PAUSE
    <3>3. QED
      BY <3>1, <3>2 DEF OneCommand
  <2>6. QED
    BY <2>4, <2>5
<1>16. ASSUME NEW x \in {In, Out, All}, HandlePortEnable(x) PROVE OneCommand'
  <2>1. /\ Reading(<<"PortEnable", x>>) /\ UNCHANGED requests /\ thread' = Select
        /\ Complete(Completions(<<"PortEnable", x>>)) \/ UNCHANGED client
    BY <1>16 DEF HandlePortEnable
  <2>2. dec'.disabling = dec.disabling
    BY <1>16 DEF HandlePortEnable, Types, DecType
  <2>3. \A y \in Completions(<<"PortEnable", x>>) : y[1] \notin Answered
    BY CompletionKinds DEF Answered
  <2>4. CASE UNCHANGED client
    BY <1>b, <1>g, <2>1, <2>2, <2>4, PipeRead
  <2>5. CASE Complete(Completions(<<"PortEnable", x>>))
    <3>1. client'.cmd = client.cmd /\ client'.owed = client.owed \ Completions(<<"PortEnable", x>>)
      BY <1>0, <2>5, CompleteFacts DEF Kept
    <3>2. QED
      BY <1>a, <1>g, <2>1, <2>2, <2>3, <3>1, PipeRead
  <2>6. QED
    BY <2>1, <2>4, <2>5
<1>17. ASSUME NEW x \in {In, Out, All}, HandleFlush(x) PROVE OneCommand'
  BY <1>b, <1>17, PipeRead DEF HandleFlush
<1>18. ASSUME NEW p \in Ports, thread' = FlushDone(p) PROVE thread'.pc \notin {"inLoaded", "inIdle", "destroy"}
  BY <1>18 DEF FlushDone, Select
<1>19. ASSUME NEW p \in Ports, FlushDeferred(p) \/ FlushAcked(p) PROVE OneCommand'
  BY <1>b, <1>18, <1>19, PipeSame DEF FlushDeferred, FlushAcked
<1>20. ASSUME NEW p \in Ports, FlushSent(p) PROVE OneCommand'
  <2>1. <<"FLUSH", p>> \in Req /\ <<"FLUSH", p>> # PAUSE
    BY DEF Req, PAUSE
  <2>2. /\ Sole(requests, PAUSE) => Sole(requests', PAUSE)
        /\ Has(requests', PAUSE) => Has(requests, PAUSE)
    BY <1>20, <2>1, RequestAppend DEF FlushSent
  <2>3. thread'.pc = "flushing"
    BY <1>20 DEF FlushSent, Types, ThreadType
  <2>4. PipeKept /\ UNCHANGED <<client, dec>>
    BY <1>20, PipeSame DEF FlushSent
  <2>5. QED
    BY <2>2, <2>3, <2>4, SameStep DEF PipeKept, OneCommand
<1>21. ASSUME NEW p \in Ports, FlushPending(p) PROVE OneCommand'
  <2>1. Complete({<<"Flush", p>>}) /\ UNCHANGED <<requests, dec, cmdPipe>> /\ thread' = FlushDone(p)
    BY <1>21 DEF FlushPending
  <2>2. client'.cmd = client.cmd /\ client'.owed = client.owed \ {<<"Flush", p>>}
    BY <1>0, <2>1, CompleteFacts DEF Kept
  <2>3. \A x \in {<<"Flush", p>>} : x[1] \notin Answered
    BY DEF Answered
  <2>4. QED
    BY <1>a, <1>18, <2>1, <2>2, <2>3, PipeSame
<1>22. ASSUME NEW b \in Buffers, DataHandled(b) PROVE OneCommand'
  <2>1. PortOf[b] \in {In, Out, All}
    BY Mp3Assumption DEF Ports
  <2>2. <<"Flush", PortOf[b]>> \in Cmd /\ <<"Flush", PortOf[b]>>[1] \notin Answered
    BY <2>1 DEF Cmd, Answered
  <2>3. cmdPipe' = cmdPipe \/ cmdPipe' = Append(cmdPipe, <<"Flush", PortOf[b]>>)
    BY <1>22 DEF DataHandled
  <2>4. PipeKept
    BY <2>2, <2>3, PipeSame, PipeWritten
  <2>5. QED
    BY <1>b, <1>22, <2>4 DEF DataHandled
<1>23. CASE HandleDataFails
  BY <1>d, <1>e, <1>23, PipeSame DEF HandleDataFails
<1>24. QED
  BY <1>1, <1>2, <1>3, <1>4, <1>5, <1>6, <1>7, <1>8, <1>9, <1>10, <1>11, <1>12, <1>13, <1>14, <1>15, <1>16, <1>17,
     <1>19, <1>20, <1>21, <1>22, <1>23, OutputFacts, InputFacts DEF ComponentThread

\* LCML's thread keeps OneCommand.
LEMMA OneCommandCallback ==
    ASSUME Types, Stopping, OneCommand, Callback \/ (\E b \in lent : Processed(b)) \/ DspError, Trusted' => Trusted
    PROVE  OneCommand'
<1>0. client \in ClientType
  BY DEF Types
<1>a. ASSUME UNCHANGED <<cmdPipe, thread, dec, client>>, Trusted /\ thread.pc = "inLoaded" => UNCHANGED curState,
             Sole(requests, PAUSE) => Sole(requests', PAUSE), Has(requests', PAUSE) => Has(requests, PAUSE)
      PROVE  OneCommand'
  BY <1>a, SameStep, PipeSame DEF PipeKept, OneCommand
<1>1. CASE FlushAck
  <2> DEFINE p == Head(requests)[2]
  <2>1. /\ Complete({<<"Flush", p>>}) /\ UNCHANGED <<cmdPipe, thread, dec, curState>>
        /\ requests # << >> /\ requests' = Tail(requests)
    BY <1>1 DEF FlushAck
  <2> HIDE DEF p
  <2>2. client'.cmd = client.cmd /\ client'.owed = client.owed \ {<<"Flush", p>>}
    BY <1>0, <2>1, CompleteFacts DEF Kept
  <2>3. \A x \in {<<"Flush", p>>} : x[1] \notin Answered
    BY DEF Answered
  <2>4. PipeKept
    BY <2>1, PipeSame
  <2>5. /\ Sole(requests, PAUSE) => Sole(requests', PAUSE)
        /\ Has(requests', PAUSE) => Has(requests, PAUSE)
    BY <2>1, RequestTail
  <2>6. QED
    BY <2>1, <2>2, <2>3, <2>4, <2>5, QuietStep DEF PipeKept, OneCommand
<1>2. CASE StopAck
  BY <1>a, <1>2, RequestTail DEF StopAck
\* The thread cannot wait for the buffers of Loaded while LCML stops.
<1>3. CASE StopState
  <2>1. ASSUME Trusted PROVE thread.pc # "inLoaded"
    BY <1>3, <2>1 DEF StopState, Stopping, OneCommand, AwaitedWhenTrusted
  <2>2. QED
    BY <1>a, <1>3, <2>1 DEF StopState
<1>4. CASE AllReturned
  <2>1. /\ UNCHANGED <<cmdPipe, requests, dec, thread>>
        /\ curState \notin {"Loaded", "WaitForResources", "Pause"}
        /\ hist' = [hist EXCEPT !.twice = hist.twice \/ Unasked(SetState(curState))]
    BY <1>4 DEF AllReturned, Stopping
  <2>2. PipeKept
    BY <2>1, PipeSame
  <2>3. ASSUME Trusted' PROVE NothingAwaited'
    <3>1. ~Unasked(SetState(curState))
      BY <2>1, <2>3 DEF Trusted, Types, HistType
    <3>2. SetState(curState) \in client.owed /\ \A i \in 1..Len(cmdPipe) : cmdPipe[i] # SetState(curState)
      BY <3>1 DEF Unasked
    <3>3. AwaitedWhenTrusted
      BY <2>3 DEF OneCommand
    <3>4. Unread = {}
      <4> SUFFICES ASSUME NEW i \in Unread PROVE FALSE
        OBVIOUS
      <4>1. Awaits(cmdPipe[i]) /\ i \in 1..Len(cmdPipe)
        BY <3>3 DEF AwaitedWhenTrusted, Unread
      <4>2. SetState(curState) \in Completions(cmdPipe[i])
        BY <3>2, <4>1 DEF Awaits
      <4>3. cmdPipe[i] = SetState(curState)
        BY <4>2 DEF Completions, SetState
      <4>4. QED
        BY <3>2, <4>1, <4>3
    <3>5. ASSUME NEW s, Awaits(SetState(s)) PROVE s = curState
      BY <3>2, <3>5, CompletionKinds DEF Awaits, SetState
    <3>6. thread.pc \notin {"inLoaded", "inIdle", "destroy"} /\ ~Has(requests, PAUSE)
      BY <2>1, <3>3, <3>5 DEF AwaitedWhenTrusted, PAUSE
    <3>7. ~dec.disabling
      <4> SUFFICES ASSUME dec.disabling PROVE FALSE
        OBVIOUS
      <4>1. client.cmd \in {"PortDisable"} \X {In, Out, All} /\ client.owed \subseteq Completions(client.cmd)
        BY <3>3 DEF AwaitedWhenTrusted
      <4>2. SetState(curState)[1] = "PortDisable"
        BY <3>2, <4>1, CompletionKinds
      <4>3. QED
        BY <4>2 DEF SetState
    <3>8. Unread' = {}
      BY <2>2, <3>4 DEF PipeKept
    <3>9. QED
      BY <2>1, <3>6, <3>7, <3>8 DEF NothingAwaited
  <2>4. QED
    BY <2>2, <2>3, NoneAwaited DEF PipeKept, OneCommand
<1>5. CASE WaitForReturn
  BY <1>a, <1>5 DEF WaitForReturn
<1>6. CASE PauseAck
  <2>1. UNCHANGED <<cmdPipe, dec, thread>> /\ requests # << >> /\ requests' = Tail(requests) /\ Head(requests) = PAUSE
    BY <1>6, RequestFacts DEF PauseAck, PAUSE
  <2>2. PipeKept
    BY <2>1, PipeSame
  <2>3. ASSUME Trusted' PROVE NothingAwaited'
    <3>1. AwaitedWhenTrusted
      BY <2>3 DEF OneCommand
    <3>2. Has(requests, PAUSE)
      BY <2>1, RequestTail
    <3>3. Unread = {} /\ client.cmd = <<"StateSet", "Pause">> /\ Sole(requests, PAUSE)
      BY <3>1, <3>2 DEF AwaitedWhenTrusted, Awaits, SetState, PAUSE
    <3>4. ~Has(requests', PAUSE)
      BY <2>1, <3>3, RequestTail
    <3>5. thread.pc \notin {"inLoaded", "inIdle", "destroy"} /\ ~dec.disabling
      BY <3>1, <3>3 DEF AwaitedWhenTrusted, Awaits, SetState
    <3>6. Unread' = {}
      BY <2>2, <3>3 DEF PipeKept
    <3>7. QED
      BY <2>1, <3>4, <3>5, <3>6 DEF NothingAwaited
  <2>4. QED
    BY <2>2, <2>3, NoneAwaited DEF PipeKept, OneCommand
<1>7. ASSUME NEW b, Processed(b) PROVE OneCommand'
  BY <1>a, <1>7 DEF Processed
<1>8. CASE DspError
  <2>1. ~Trusted' /\ UNCHANGED cmdPipe
    BY <1>0, <1>8, InvalidateFacts DEF DspError, Trusted
  <2>2. QED
    BY <2>1, NoneAwaited, PipeSame DEF PipeKept, OneCommand
<1>9. QED
  BY <1>1, <1>2, <1>3, <1>4, <1>5, <1>6, <1>7, <1>8 DEF Callback

\* Every step keeps OneCommand.
LEMMA OneCommandStep == Types /\ Stopping /\ OneCommand /\ [Next]_vars => OneCommand'
<1> SUFFICES ASSUME Types, Stopping, OneCommand, [Next]_vars PROVE OneCommand'
  OBVIOUS
<1>1. Trusted' => Trusted
  BY TrustKept
<1>2. CASE Client
  BY <1>1, <1>2, OneCommandClient
<1>3. CASE ComponentThread
  BY <1>1, <1>3, OneCommandThread
<1>4. CASE Callback \/ (\E b \in lent : Processed(b)) \/ DspError
  BY <1>1, <1>4, OneCommandCallback
<1>5. CASE UNCHANGED vars
  BY <1>1, <1>5, SameStep, PipeSame DEF PipeKept, OneCommand, vars
<1>6. QED
  BY <1>2, <1>3, <1>4, <1>5 DEF Next

-----------------------------------------------------------------------------
(* Where the buffers are.                                                  *)

PDIn == <<"PortDisable", In>>

\* The data pipe is not touched.
LEMMA PipedSame == UNCHANGED dataPipe => Piped' = Piped /\ (Distinct => Distinct')
  BY DEF Piped, Distinct

\* The buffers in the data pipe, by place.
LEMMA PipedIndex ==
    ASSUME Types
    PROVE  /\ Len(dataPipe) \in Nat
           /\ \A b : b \in Piped <=> \E i \in 1..Len(dataPipe) : dataPipe[i].buf = b
           /\ Piped \subseteq Buffers
  <1>1. dataPipe \in Seq([buf : Buffers, kind : Kinds])
    BY DEF Types, DataPipeType
  <1>2. ASSUME NEW i \in 1..Len(dataPipe) PROVE dataPipe[i].buf \in Buffers
    <2> DEFINE S == [buf : Buffers, kind : Kinds]
    <2>1. dataPipe \in Seq(S)
      BY <1>1
    <2>2. dataPipe[i] \in S
      <3> HIDE DEF S
      <3>1. QED
        BY <2>1
    <2>3. QED
      BY <2>2
  <1>3. QED
    BY <1>1, <1>2 DEF Piped

\* The first buffer leaves the data pipe.
LEMMA PipedPop ==
    ASSUME Types, Distinct, dataPipe # << >>, dataPipe' = Tail(dataPipe)
    PROVE  /\ Head(dataPipe).buf \in Piped
           /\ Piped' = Piped \ {Head(dataPipe).buf}
           /\ Distinct'
  <1> DEFINE S == [buf : Buffers, kind : Kinds]
             h == Head(dataPipe).buf
  <1>1. dataPipe \in Seq(S)
    BY DEF Types, DataPipeType
  <1> HIDE DEF S
  <1>2. /\ Len(dataPipe) \in Nat /\ Len(dataPipe) > 0 /\ Len(dataPipe') = Len(dataPipe) - 1
        /\ h = dataPipe[1].buf
        /\ \A i \in 1..Len(dataPipe) - 1 : dataPipe'[i] = dataPipe[i + 1]
    BY <1>1, TailFacts
  <1> HIDE DEF h
  <1>3. h \in Piped
    BY <1>2 DEF Piped
  <1>4. ASSUME NEW b \in Piped' PROVE b \in Piped \ {h}
    <2>1. PICK i \in 1..Len(dataPipe') : dataPipe'[i].buf = b
      BY <1>4 DEF Piped
    <2>2. i + 1 \in 1..Len(dataPipe) /\ dataPipe[i + 1].buf = b /\ i + 1 # 1 /\ 1 \in 1..Len(dataPipe)
      BY <1>2, <2>1
    <2>3. b \in Piped
      BY <2>2 DEF Piped
    <2>4. b # h
      BY <1>2, <2>2 DEF Distinct
    <2>5. QED
      BY <2>3, <2>4
  <1>5. ASSUME NEW b \in Piped \ {h} PROVE b \in Piped'
    <2>1. PICK i \in 1..Len(dataPipe) : dataPipe[i].buf = b
      BY <1>5 DEF Piped
    <2>2. i # 1
      BY <1>2, <1>5, <2>1
    <2>3. i - 1 \in 1..Len(dataPipe') /\ dataPipe'[i - 1].buf = b
      BY <1>2, <2>1, <2>2
    <2>4. QED
      BY <2>3 DEF Piped
  <1>6. Distinct'
    <2> SUFFICES ASSUME NEW i \in 1..Len(dataPipe'), NEW j \in 1..Len(dataPipe'), dataPipe'[i].buf = dataPipe'[j].buf
                 PROVE  i = j
      BY DEF Distinct
    <2>1. i + 1 \in 1..Len(dataPipe) /\ j + 1 \in 1..Len(dataPipe) /\ dataPipe[i + 1].buf = dataPipe[j + 1].buf
      BY <1>2
    <2>2. i + 1 = j + 1
      BY <2>1 DEF Distinct
    <2>3. QED
      BY <1>2, <2>2
  <1>7. Piped' = Piped \ {h}
    BY <1>4, <1>5
  <1>8. QED
    BY <1>3, <1>6, <1>7 DEF h

\* A buffer that is not in the data pipe is written to it.
LEMMA PipedPush ==
    ASSUME Types, Distinct, NEW b \in Buffers, NEW k \in Kinds, b \notin Piped,
           dataPipe' = Append(dataPipe, [buf |-> b, kind |-> k])
    PROVE  Piped' = Piped \union {b} /\ Distinct'
  <1> DEFINE S == [buf : Buffers, kind : Kinds]
  <1>1. dataPipe \in Seq(S) /\ [buf |-> b, kind |-> k] \in S
    BY DEF Types, DataPipeType
  <1> HIDE DEF S
  <1>2. /\ Len(dataPipe) \in Nat /\ Len(dataPipe') = Len(dataPipe) + 1
        /\ \A i \in 1..Len(dataPipe) : dataPipe'[i] = dataPipe[i]
        /\ dataPipe'[Len(dataPipe) + 1] = [buf |-> b, kind |-> k]
    BY <1>1, AppendFacts
  <1>3. dataPipe'[Len(dataPipe) + 1].buf = b
    BY <1>2
  <1>4. ASSUME NEW x \in Piped' PROVE x \in Piped \union {b}
    BY <1>2, <1>3, <1>4 DEF Piped
  <1>5. ASSUME NEW x \in Piped \union {b} PROVE x \in Piped'
    <2>1. CASE x \in Piped
      BY <1>2, <2>1 DEF Piped
    <2>2. CASE x = b
      BY <1>2, <1>3, <2>2 DEF Piped
    <2>3. QED
      BY <1>5, <2>1, <2>2
  <1>6. \A i \in 1..Len(dataPipe) : dataPipe[i].buf # b
    BY DEF Piped
  <1>7. Distinct'
    BY <1>2, <1>3, <1>6 DEF Distinct
  <1>8. QED
    BY <1>4, <1>5, <1>7

\* The buffers B go back to the client.
LEMMA HeldReturned ==
    ASSUME Types, NEW B \in SUBSET Buffers, owner' = OwnerAfter(B)
    PROVE  Held' = Held \ B /\ Allocated' = Allocated
  BY DEF Types, OwnerType, OwnerAfter, Held, Allocated

\* No buffer changes hands.
LEMMA HeldSame == UNCHANGED owner => Held' = Held /\ Allocated' = Allocated
  BY DEF Held, Allocated

\* The component has only buffers that are allocated.
LEMMA HeldAllocated ==
    ASSUME Types
    PROVE  Held \subseteq Allocated /\ Allocated \subseteq Buffers
  BY DEF Held, Allocated

\* The command that disables the input port comes into the pipe only from the
\* client.
LEMMA PDInRead ==
    ASSUME Types, NEW c, Reading(c)
    PROVE  Has(cmdPipe', PDIn) => Has(cmdPipe, PDIn)
  BY ReadingFacts, HasTail DEF Types, CmdPipeType

\* Another command is written.
LEMMA PDInWritten ==
    ASSUME Types, NEW c \in Cmd, c # PDIn, cmdPipe' = Append(cmdPipe, c)
    PROVE  Has(cmdPipe', PDIn) => Has(cmdPipe, PDIn)
  BY HasAppend DEF Types, CmdPipeType

-----------------------------------------------------------------------------
(* The moves of buffers.                                                   *)

\* The buffers stay where they are.
LEMMA PlacesSame ==
    ASSUME Places, UNCHANGED <<owner, pend, flagged, lent, dataPipe>>, hist'.lost = hist.lost,
           Has(cmdPipe', PDIn) => Has(cmdPipe, PDIn) \/ hist.lost = {}
    PROVE  Places'
  <1>1. Held' = Held /\ Allocated' = Allocated /\ Piped' = Piped /\ (Distinct => Distinct')
    BY HeldSame, PipedSame
  <1>2. QED
    BY <1>1 DEF Places, PDIn

\* Kept buffers go back.
LEMMA PlacesReturn ==
    ASSUME Types, Places, NEW B \in SUBSET pend, owner' = OwnerAfter(B), pend' = pend \ B,
           UNCHANGED <<flagged, lent, dataPipe, cmdPipe>>, hist'.lost = hist.lost
    PROVE  Places'
  <1>1. Held' = Held \ B /\ Allocated' = Allocated
    BY HeldReturned DEF Types
  <1>2. Piped' = Piped /\ (Distinct => Distinct')
    BY PipedSame
  <1>3. QED
    BY <1>1, <1>2 DEF Places

\* Kept buffers go to LCML.
LEMMA PlacesQueue ==
    ASSUME Types, Places, NEW Q \in SUBSET pend, flagged' = flagged \union Q, lent' = lent \union Q, pend' = pend \ Q,
           UNCHANGED <<owner, dataPipe>>, hist'.lost = hist.lost,
           Has(cmdPipe', PDIn) => Has(cmdPipe, PDIn)
    PROVE  Places'
  <1>1. Held' = Held /\ Allocated' = Allocated /\ Piped' = Piped /\ (Distinct => Distinct')
    BY HeldSame, PipedSame
  <1>2. Q \subseteq Held
    BY DEF Places
  <1>3. QED
    BY <1>1, <1>2 DEF Places, PDIn

\* LCML is gone, with the buffers it had.
LEMMA PlacesGone ==
    ASSUME Types, Places, lent' = {}, hist'.lost = hist.lost \union lent,
           UNCHANGED <<owner, pend, flagged, dataPipe>>,
           Has(cmdPipe', PDIn) => Has(cmdPipe, PDIn)
    PROVE  Places'
  <1>1. Held' = Held /\ Allocated' = Allocated /\ Piped' = Piped /\ (Distinct => Distinct')
    BY HeldSame, PipedSame
  <1>2. QED
    BY <1>1 DEF Places, PDIn

\* A buffer comes from LCML.
LEMMA PlacesProcessed ==
    ASSUME Types, Places, NEW b, Processed(b)
    PROVE  Places'
  <1>1. b \in lent /\ lent' = lent \ {b} /\ flagged' = flagged \ {b} /\ UNCHANGED <<pend, dataPipe, cmdPipe, hist>>
    BY DEF Processed
  <1>2. Held' = Held \ {b} /\ Allocated' = Allocated
    BY HeldReturned DEF Processed, Types
  <1>3. Piped' = Piped /\ (Distinct => Distinct')
    BY <1>1, PipedSame
  <1>4. QED
    BY <1>1, <1>2, <1>3 DEF Places

\* A buffer is allocated or freed.
LEMMA PlacesAllocate ==
    ASSUME Types, Places, NEW b \in Buffers, owner[b] # "comp",
           \/ owner' = [owner EXCEPT ![b] = "client"] /\ flagged' = flagged \ {b}
           \/ owner' = [owner EXCEPT ![b] = "none"] /\ UNCHANGED flagged,
           UNCHANGED <<pend, lent, dataPipe>>, hist'.lost = hist.lost,
           Has(cmdPipe', PDIn) => Has(cmdPipe, PDIn)
    PROVE  Places'
  <1>1. Held' = Held /\ b \notin Held
    BY DEF Held, Types, OwnerType
  <1>2. flagged' \intersect Allocated' \subseteq flagged \intersect Allocated
    BY DEF Allocated, Types, OwnerType
  <1>3. Piped' = Piped /\ (Distinct => Distinct')
    BY PipedSame
  <1>4. flagged' \subseteq flagged /\ lent \subseteq flagged'
    BY <1>1 DEF Places
  <1>5. QED
    BY <1>1, <1>2, <1>3, <1>4 DEF Places, PDIn

\* A buffer is sent.
LEMMA PlacesSent ==
    ASSUME Types, Places, NEW b \in Buffers, NEW k \in Kinds, ThisBuffer(b, k)
    PROVE  Places'
  <1>1. /\ owner[b] = "client" /\ hist.lost = {} /\ owner' = [owner EXCEPT ![b] = "comp"]
        /\ UNCHANGED <<pend, flagged, lent, hist, cmdPipe>>
    BY DEF ThisBuffer, MayFill, Trusted
  <1>2. b \notin Held /\ b \in Allocated /\ Held' = Held \union {b} /\ Allocated' = Allocated
    BY <1>1 DEF Held, Allocated, Types, OwnerType
  <1>3. b \notin flagged /\ b \notin Piped /\ b \notin pend /\ b \notin lent
    BY <1>1, <1>2 DEF Places
  <1>4. Piped' = Piped \union {b} /\ Distinct'
    BY <1>3, PipedPush DEF ThisBuffer, Places
  <1>5. QED
    BY <1>1, <1>2, <1>3, <1>4 DEF Places

\* A buffer is handled; none that LCML has.
LEMMA PlacesHandled ==
    ASSUME Types, Places, NEW b \in Buffers, DataHandled(b)
    PROVE  /\ Places'
           /\ b \in Piped /\ b \notin flagged
           /\ Piped' = Piped \ {b}
  <1>1. b \in Piped /\ Piped' = Piped \ {b} /\ Distinct' /\ b \notin flagged
    BY PipedPop DEF DataHandled, Places
  <1>2. b \in Held /\ b \notin pend /\ b \notin lent /\ b \notin hist.lost
    BY <1>1 DEF Places
  <1>3. Has(cmdPipe', PDIn) => Has(cmdPipe, PDIn)
    <2>1. PortOf[b] \in {In, Out, All}
      BY Mp3Assumption DEF Ports
    <2>2. <<"Flush", PortOf[b]>> \in Cmd /\ <<"Flush", PortOf[b]>> # PDIn
      BY <2>1 DEF Cmd, PDIn
    <2>3. cmdPipe' = cmdPipe \/ cmdPipe' = Append(cmdPipe, <<"Flush", PortOf[b]>>)
      BY DEF DataHandled
    <2>4. QED
      BY <2>2, <2>3, PDInWritten
  <1>4. CASE GoesBack(b)
    <2>1. Held' = Held \ {b} /\ Allocated' = Allocated
      BY <1>4, HeldReturned DEF GoesBack, ReturnAll
    <2>2. UNCHANGED <<pend, flagged, lent, hist>>
      BY <1>4 DEF GoesBack
    <2>3. Places'
      BY <1>1, <1>2, <1>3, <2>1, <2>2 DEF Places, PDIn
    <2>4. QED
      BY <1>1, <2>3
  <1>5. CASE GoesToDsp(b)
    <2>1. Held' = Held /\ Allocated' = Allocated
      BY <1>5, HeldSame DEF GoesToDsp
    <2>2. flagged' = flagged \union {b} /\ lent' = lent \union {b} /\ UNCHANGED <<pend, hist>>
      BY <1>5 DEF GoesToDsp
    <2>3. Places'
      BY <1>1, <1>2, <1>3, <2>1, <2>2 DEF Places, PDIn
    <2>4. QED
      BY <1>1, <2>3
  <1>6. CASE IsKept(b)
    <2>1. Held' = Held /\ Allocated' = Allocated
      BY <1>6, HeldSame DEF IsKept
    <2>2. pend' = pend \union {b} /\ UNCHANGED <<flagged, lent, hist>>
      BY <1>6 DEF IsKept
    <2>3. Places'
      BY <1>1, <1>2, <1>3, <2>1, <2>2 DEF Places, PDIn
    <2>4. QED
      BY <1>1, <2>3
  <1>7. CASE IsDropped(b)
    <2>1. Held' = Held /\ Allocated' = Allocated
      BY <1>7, HeldSame DEF IsDropped
    <2>2. hist'.lost = hist.lost \union {b} /\ UNCHANGED <<flagged, lent, pend>>
      BY <1>7 DEF IsDropped, Types, HistType
    <2>3. Places'
      BY <1>1, <1>2, <1>3, <2>1, <2>2 DEF Places, PDIn
    <2>4. QED
      BY <1>1, <2>3
  <1>8. QED
    BY <1>1, <1>4, <1>5, <1>6, <1>7 DEF DataHandled

\* Queueing fails: the buffer is lost.
LEMMA PlacesFails ==
    ASSUME Types, Places, HandleDataFails
    PROVE  /\ Places'
           /\ Head(dataPipe).buf \in Piped
           /\ Piped' = Piped \ {Head(dataPipe).buf}
           /\ Held' = Held
  <1> DEFINE b == Head(dataPipe).buf
  <1>1. b \in Piped /\ Piped' = Piped \ {b} /\ Distinct'
    BY PipedPop DEF HandleDataFails, Places
  <1>2. b \in Held /\ b \notin pend /\ b \notin lent /\ b \notin hist.lost
    BY <1>1 DEF Places
  <1>3. Held' = Held /\ Allocated' = Allocated
    BY HeldSame DEF HandleDataFails
  <1>4. hist'.lost = hist.lost \union {b} /\ UNCHANGED <<flagged, lent, pend, cmdPipe>>
    BY DEF HandleDataFails, Types, HistType
  <1> HIDE DEF b
  <1>5. Places'
    BY <1>1, <1>2, <1>3, <1>4 DEF Places
  <1>6. QED
    BY <1>1, <1>3, <1>5 DEF b

\* The input port is disabled when nothing of it is in the pipe, kept back or
\* with LCML: what is returned on the spot was lost before.
LEMMA DisabledClear ==
    ASSUME Types, Flushing, Reading(PDIn)
    PROVE  ClearIn
  <1>1. /\ 1 \in 1..Len(cmdPipe) /\ cmdPipe[1] = PDIn /\ thread.pc = "command"
    <2>1. /\ cmdPipe \in Seq(Cmd) /\ cmdPipe # << >> /\ cmdPipe[1] = PDIn /\ thread.pc = "command"
      BY ReadingFacts DEF Types, CmdPipeType
    <2>2. Len(cmdPipe) \in Nat /\ Len(cmdPipe) > 0
      BY <2>1, TailFacts
    <2>3. QED
      BY <2>1, <2>2
  <1>2. In \in Ports
    BY DEF Ports
  <1>3. ~FlushRunning
    <2>1. ~Has(requests, <<"FLUSH", In>>)
      BY <1>1, <1>2 DEF Flushing, FlushRequests
    <2>2. QED
      BY <1>1, <2>1 DEF FlushRunning
  <1>4. 1 \in DisableAt /\ ~\E i \in FlushAt : i < 1
    BY <1>1 DEF DisableAt, FlushAt, PDIn
  <1>5. QED
    BY <1>3, <1>4 DEF Flushing, Flushed

\* PortDisable keeps Places, and counts what it returns.
LEMMA PlacesDisabled ==
    ASSUME Types, OneCommand, Flushing, Places, NEW x \in {In, Out, All}, HandlePortDisable(x)
    PROVE  /\ Places'
           /\ \E F \in SUBSET Held : owner' = OwnerAfter(F) /\ unreturned' = CountAfter(unreturned, F)
  <1> DEFINE F == IF x = In /\ ~dec.disabling THEN flagged \intersect BufsOf(In) \intersect Allocated ELSE {}
  <1>1. /\ owner' = OwnerAfter(F) /\ unreturned' = CountAfter(unreturned, F)
        /\ Reading(<<"PortDisable", x>>)
        /\ UNCHANGED <<pend, flagged, dataPipe, lent, hist>>
    BY DEF HandlePortDisable, ReturnAll
  <1>2. ~Has(cmdPipe', PDIn)
    <2>1. Unread' = {}
      BY <1>1, OwnRead DEF Answered
    <2>2. QED
      BY <2>1 DEF Unread, Has, PDIn, Answered
  <1>3. F \subseteq Held /\ F \intersect (Piped \union pend \union lent) = {}
    <2>1. CASE F = {}
      BY <2>1
    <2>2. CASE F # {}
      <3>1. x = In /\ F = flagged \intersect BufsOf(In) \intersect Allocated
        BY <2>2
      <3>2. Reading(PDIn) /\ ClearIn
        BY <1>1, <3>1, DisabledClear DEF PDIn
      <3>3. cmdPipe # << >> /\ cmdPipe \in Seq(Cmd) /\ PDIn = Head(cmdPipe)
        BY <3>2, ReadingFacts DEF Types, CmdPipeType, Reading
      <3>4. Has(cmdPipe, PDIn)
        BY <3>3, HasTail
      <3>5. flagged \intersect Allocated \subseteq Held
        BY <3>4 DEF Places, PDIn
      <3> HIDE DEF F
      <3>6. QED
        BY <3>1, <3>2, <3>5 DEF ClearIn
    <2>3. QED
      BY <2>1, <2>2
  <1> HIDE DEF F
  <1>4. F \in SUBSET Buffers
    BY <1>3 DEF Held
  <1>5. Held' = Held \ F /\ Allocated' = Allocated
    BY <1>1, <1>4, HeldReturned
  <1>6. Piped' = Piped /\ (Distinct => Distinct')
    BY <1>1, PipedSame
  <1>7. hist.lost = {} => F = {}
    BY <1>3 DEF Places
  <1>8. Places'
    BY <1>1, <1>2, <1>3, <1>5, <1>6, <1>7 DEF Places, PDIn
  <1>9. QED
    BY <1>1, <1>3, <1>8

-----------------------------------------------------------------------------
(* The client's call, while the other threads run.                         *)

\* Only the client's own calls change what it is in.
LEMMA OthersKeep ==
    ASSUME Types, ComponentThread \/ Callback \/ (\E b \in lent : Processed(b)) \/ DspError
    PROVE  Kept
<1>0. client \in ClientType
  BY DEF Types
<1>a. ASSUME UNCHANGED client PROVE Kept
  BY <1>a DEF Kept
<1>b. ASSUME NEW C, Complete(C) PROVE Kept
  BY <1>0, <1>b, CompleteFacts
<1>c. ASSUME SetUp PROVE Kept
  BY <1>0, <1>b, <1>c, InvalidateFacts DEF SetUp
<1>1. ASSUME NEW s \in States, HandleWrongState(s) \/ HandleWaiting(s) PROVE Kept
  BY <1>0, <1>1, <1>b, RefuseFacts DEF HandleWrongState, HandleWaiting
<1>2. ASSUME NEW c, HandleFails(c) PROVE Kept
  BY <1>0, <1>2, InvalidateFacts DEF HandleFails
<1>3. CASE SelectCommand \/ HandleStop \/ HandlePause \/ HandleLoaded \/ IdleToLoaded
  BY <1>3, <1>a DEF SelectCommand, HandleStop, HandlePause, HandleLoaded, IdleToLoaded
<1>4. CASE HandleIdleFromLoaded \/ LoadedToIdle
  BY <1>4, <1>a, <1>c DEF HandleIdleFromLoaded, LoadedToIdle
<1>5. CASE Stopped \/ HandleExecuting \/ Destroy
  BY <1>5, <1>a, <1>b DEF Stopped, HandleExecuting, Destroy
<1>6. CASE HandleInvalid
  BY <1>0, <1>6, InvalidateFacts DEF HandleInvalid
<1>7. ASSUME NEW x, HandlePortDisable(x) \/ HandlePortEnable(x) \/ HandleFlush(x) PROVE Kept
  BY <1>7, <1>a, <1>b DEF HandlePortDisable, HandlePortEnable, HandleFlush
<1>8. ASSUME NEW p, FlushDeferred(p) \/ FlushSent(p) \/ FlushPending(p) \/ FlushAcked(p) PROVE Kept
  BY <1>8, <1>a, <1>b DEF FlushDeferred, FlushSent, FlushPending, FlushAcked
<1>9. ASSUME NEW b \in Buffers, HandleOutput(b) \/ (\E k \in Kinds, changed \in BOOLEAN : HandleInput(b, k, changed))
      PROVE  Kept
  <2>1. DataHandled(b)
    BY <1>9, OutputFacts, InputFacts
  <2>2. QED
    BY <2>1, <1>a DEF DataHandled
<1>10. CASE HandleDataFails \/ DspError
  BY <1>0, <1>10, InvalidateFacts DEF HandleDataFails, DspError
<1>11. CASE FlushAck \/ AllReturned \/ PauseAck
  BY <1>11, <1>b DEF FlushAck, AllReturned, PauseAck
<1>12. CASE StopAck \/ StopState \/ WaitForReturn
  BY <1>12, <1>a DEF StopAck, StopState, WaitForReturn
<1>13. ASSUME NEW b, Processed(b) PROVE Kept
  BY <1>13, <1>a DEF Processed
<1>14. QED
  BY <1>1, <1>2, <1>3, <1>4, <1>5, <1>6, <1>7, <1>8, <1>9, <1>10, <1>11, <1>12, <1>13
     DEF ComponentThread, Callback

\* They allocate nothing.
NoneKept == \A b \in Buffers : owner[b] = "none" => owner'[b] = "none"

\* Neither the component's thread nor LCML's allocates or frees a buffer.
LEMMA OthersAllocate ==
    ASSUME Types, ComponentThread \/ Callback \/ (\E b \in lent : Processed(b)) \/ DspError
    PROVE  NoneKept
<1>a. ASSUME UNCHANGED owner PROVE NoneKept
  BY <1>a DEF NoneKept
<1>b. ASSUME NEW B, owner' = OwnerAfter(B) PROVE NoneKept
  BY <1>b DEF NoneKept, OwnerAfter
<1>1. ASSUME NEW s \in States, HandleWrongState(s) \/ HandleWaiting(s) PROVE NoneKept
  BY <1>1, <1>a DEF HandleWrongState, HandleWaiting
<1>2. ASSUME NEW c, HandleFails(c) PROVE NoneKept
  BY <1>2, <1>a DEF HandleFails
<1>3. CASE SelectCommand \/ HandleStop \/ HandlePause \/ HandleLoaded \/ IdleToLoaded
  BY <1>3, <1>a DEF SelectCommand, HandleStop, HandlePause, HandleLoaded, IdleToLoaded
<1>4. CASE HandleIdleFromLoaded \/ LoadedToIdle
  BY <1>4, <1>a DEF HandleIdleFromLoaded, LoadedToIdle
<1>5. CASE Stopped \/ HandleExecuting \/ Destroy \/ HandleInvalid
  BY <1>5, <1>a DEF Stopped, HandleExecuting, Destroy, HandleInvalid
<1>6. ASSUME NEW x, HandlePortDisable(x) PROVE NoneKept
  BY <1>6, <1>b DEF HandlePortDisable, ReturnAll
<1>7. ASSUME NEW x, HandlePortEnable(x) \/ HandleFlush(x) PROVE NoneKept
  BY <1>7, <1>a DEF HandlePortEnable, HandleFlush
<1>8. ASSUME NEW p, FlushDeferred(p) \/ FlushSent(p) \/ FlushPending(p) \/ FlushAcked(p) PROVE NoneKept
  BY <1>8, <1>a, <1>b DEF FlushDeferred, FlushSent, FlushPending, FlushAcked, ReturnAll
<1>9. ASSUME NEW b \in Buffers, HandleOutput(b) \/ (\E k \in Kinds, changed \in BOOLEAN : HandleInput(b, k, changed))
      PROVE  NoneKept
  <2>1. DataHandled(b)
    BY <1>9, OutputFacts, InputFacts
  <2>2. QED
    BY <2>1, <1>a, <1>b DEF DataHandled, GoesBack, GoesToDsp, IsKept, IsDropped, IsCounted, ReturnAll
<1>10. CASE HandleDataFails \/ DspError
  BY <1>10, <1>a DEF HandleDataFails, DspError
<1>11. CASE FlushAck \/ StopAck
  BY <1>11, <1>b DEF FlushAck, StopAck
<1>12. CASE AllReturned \/ PauseAck \/ StopState \/ WaitForReturn
  BY <1>12, <1>a DEF AllReturned, PauseAck, StopState, WaitForReturn
<1>13. ASSUME NEW b, Processed(b) PROVE NoneKept
  BY <1>13, <1>b DEF Processed
<1>14. QED
  BY <1>1, <1>2, <1>3, <1>4, <1>5, <1>6, <1>7, <1>8, <1>9, <1>10, <1>11, <1>12, <1>13
     DEF ComponentThread, Callback

\* Every step keeps Calling.
LEMMA CallingStep == Types /\ Calling /\ [Next]_vars => Calling'
<1> SUFFICES ASSUME Types, Calling, [Next]_vars PROVE Calling'
  OBVIOUS
<1>0. client \in ClientType
  BY DEF Types
<1>a. ASSUME client'.pc = client.pc, client'.buf = client.buf, NoneKept PROVE Calling'
  BY <1>a DEF Calling, NoneKept
<1>b. ASSUME UNCHANGED owner PROVE NoneKept
  BY <1>b DEF NoneKept
<1>1. ASSUME NEW c \in Commands, SendCommand(c) PROVE Calling'
  BY <1>0, <1>1, SendFacts DEF Calling
<1>2. CASE SendInvalid
  BY <1>0, <1>2, <1>a, <1>b, InvalidateFacts DEF SendInvalid, Kept
<1>3. ASSUME NEW b \in Buffers, NEW k \in Kinds, ThisBuffer(b, k) PROVE Calling'
  BY <1>0, <1>3, ThisBufferFacts DEF Calling
<1>4. CASE ThisBufferCount
  <2>1. client' = [client EXCEPT !.pc = "ready", !.buf = NULL]
    BY <1>4 DEF ThisBufferCount
  <2>2. client'.pc = "ready"
    BY <1>0, <2>1 DEF ClientType
  <2>3. QED
    BY <2>2 DEF Calling
<1>5. ASSUME NEW b \in Buffers, AllocateBufferWaits(b) PROVE Calling'
  <2>1. client'.pc = "alloc" /\ client'.buf = b
    BY <1>0, <1>5 DEF AllocateBufferWaits, ClientType
  <2>2. owner[b] = "none" /\ UNCHANGED owner
    BY <1>5 DEF AllocateBufferWaits, Wanted
  <2>3. QED
    BY <2>1, <2>2 DEF Calling
<1>6. ASSUME NEW b \in Buffers, NEW use \in BOOLEAN, AllocateBuffer(b, use) PROVE Calling'
  <2>1. client' = [client EXCEPT !.pc = "ready", !.buf = NULL]
    BY <1>6 DEF AllocateBuffer
  <2>2. client'.pc = "ready"
    BY <1>0, <2>1 DEF ClientType
  <2>3. QED
    BY <2>2 DEF Calling
<1>7. CASE UseBufferRefused
  <2>1. client' = [client EXCEPT !.pc = "ready", !.buf = NULL]
    BY <1>7 DEF UseBufferRefused
  <2>2. client'.pc = "ready"
    BY <1>0, <2>1 DEF ClientType
  <2>3. QED
    BY <2>2 DEF Calling
<1>8. ASSUME NEW b \in Buffers, FreeBuffer(b) PROVE Calling'
  <2>1. client'.pc = client.pc /\ client.pc = "ready"
    BY <1>0, <1>8, CompleteFacts DEF FreeBuffer, Kept
  <2>2. QED
    BY <2>1 DEF Calling
<1>9. CASE ComponentThread \/ Callback \/ (\E b \in lent : Processed(b)) \/ DspError
  BY <1>9, <1>a, OthersKeep, OthersAllocate DEF Kept
<1>10. CASE UNCHANGED vars
  BY <1>10, <1>a, <1>b DEF vars
<1>11. QED
  BY <1>1, <1>2, <1>3, <1>4, <1>5, <1>6, <1>7, <1>8, <1>9, <1>10 DEF Next, Client, Allocating, Freeing

-----------------------------------------------------------------------------
(* No buffer is in two places.                                             *)

\* The client's calls keep Places.
LEMMA PlacesClient == Types /\ Calling /\ Places /\ Client => Places'
<1> SUFFICES ASSUME Types, Calling, Places, Client PROVE Places'
  OBVIOUS
<1>a. ASSUME UNCHANGED <<owner, pend, flagged, lent, dataPipe, cmdPipe>>, hist'.lost = hist.lost PROVE Places'
  BY <1>a, PlacesSame
<1>1. ASSUME NEW c \in Commands, SendCommand(c) PROVE Places'
  <2>1. hist.lost = {} /\ UNCHANGED <<owner, pend, flagged, lent, dataPipe, hist>>
    BY <1>1 DEF SendCommand, MaySend, Trusted
  <2>2. QED
    BY <2>1, PlacesSame
<1>2. CASE SendInvalid
  BY <1>2, <1>a DEF SendInvalid
<1>3. ASSUME NEW b \in Buffers, NEW k \in Kinds, ThisBuffer(b, k) PROVE Places'
  BY <1>3, PlacesSent
<1>4. CASE ThisBufferCount
  <2>1. hist'.lost = hist.lost
    BY <1>4 DEF ThisBufferCount, Types, HistType
  <2>2. QED
    BY <1>4, <1>a, <2>1 DEF ThisBufferCount
<1>5. ASSUME NEW b \in Buffers, AllocateBufferWaits(b) PROVE Places'
  BY <1>5, <1>a DEF AllocateBufferWaits
<1>6. ASSUME NEW b \in Buffers, NEW use \in BOOLEAN, AllocateBuffer(b, use) PROVE Places'
  <2>1. <<"PortEnable", dec.enableParam>> \in Cmd /\ <<"PortEnable", dec.enableParam>> # PDIn
    BY DEF Types, DecType, Cmd, PDIn
  <2>2. cmdPipe' = cmdPipe \/ cmdPipe' = Append(cmdPipe, <<"PortEnable", dec.enableParam>>)
    BY <1>6 DEF AllocateBuffer
  <2>3. Has(cmdPipe', PDIn) => Has(cmdPipe, PDIn)
    BY <2>1, <2>2, PDInWritten
  <2>4. owner[b] # "comp"
    <3>1. CASE client.pc = "ready" /\ Wanted(b)
      BY <3>1 DEF Wanted
    <3>2. CASE client.pc = "alloc" /\ client.buf = b
      BY <3>2 DEF Calling
    <3>3. QED
      BY <1>6, <3>1, <3>2 DEF AllocateBuffer
  <2>5. QED
    BY <1>6, <2>3, <2>4, PlacesAllocate DEF AllocateBuffer
<1>7. CASE UseBufferRefused
  BY <1>7, <1>a DEF UseBufferRefused
<1>8. ASSUME NEW b \in Buffers, FreeBuffer(b) PROVE Places'
  <2>1. owner[b] # "comp" /\ owner' = [owner EXCEPT ![b] = "none"] /\ UNCHANGED <<flagged, pend, lent, dataPipe, cmdPipe, hist>>
    BY <1>8 DEF FreeBuffer
  <2>2. QED
    BY <2>1, PlacesAllocate
<1>9. QED
  BY <1>1, <1>2, <1>3, <1>4, <1>5, <1>6, <1>7, <1>8 DEF Client, Allocating, Freeing

\* The component's thread keeps Places.
LEMMA PlacesThread ==
    ASSUME Types, OneCommand, Flushing, Places, ComponentThread
    PROVE  Places'
<1>a. ASSUME UNCHANGED <<owner, pend, flagged, lent, dataPipe, cmdPipe>>, hist'.lost = hist.lost PROVE Places'
  BY <1>a, PlacesSame
<1>b. ASSUME NEW c, Reading(c), UNCHANGED <<owner, pend, flagged, lent, dataPipe, hist>> PROVE Places'
  BY <1>b, PlacesSame, PDInRead
<1>1. ASSUME NEW s \in States, HandleWrongState(s) \/ HandleWaiting(s) PROVE Places'
  BY <1>1, <1>b DEF HandleWrongState, HandleWaiting
<1>2. ASSUME NEW c, HandleFails(c) PROVE Places'
  BY <1>2, <1>b DEF HandleFails
<1>3. CASE SelectCommand \/ LoadedToIdle \/ IdleToLoaded
  BY <1>3, <1>a DEF SelectCommand, LoadedToIdle, IdleToLoaded
<1>4. CASE HandleIdleFromLoaded \/ HandleStop \/ HandlePause \/ HandleLoaded
  BY <1>4, <1>b DEF HandleIdleFromLoaded, HandleStop, HandlePause, HandleLoaded
<1>5. CASE Stopped
  <2>1. hist'.lost = hist.lost
    BY <1>5 DEF Stopped, Types, HistType
  <2>2. QED
    BY <1>5, <1>a, <2>1 DEF Stopped
<1>6. CASE HandleExecuting
  <2>1. CASE curState = "Idle"
    BY <1>6, <1>b, <2>1 DEF HandleExecuting
  <2>2. CASE curState # "Idle"
    <3>1. /\ flagged' = flagged \union pend /\ lent' = lent \union pend /\ pend' = pend \ pend
          /\ Reading(SetState("Executing")) /\ UNCHANGED <<owner, dataPipe, hist>>
      BY <1>6, <2>2 DEF HandleExecuting
    <3>2. Has(cmdPipe', PDIn) => Has(cmdPipe, PDIn)
      BY <3>1, PDInRead
    <3>3. PICK Q \in SUBSET pend : Q = pend
      OBVIOUS
    <3>4. QED
      BY <3>1, <3>2, <3>3, PlacesQueue
  <2>3. QED
    BY <2>1, <2>2
<1>7. CASE Destroy
  <2>1. hist'.lost = hist.lost \union lent
    BY <1>7 DEF Destroy, Types, HistType
  <2>2. QED
    BY <1>7, <2>1, PlacesGone DEF Destroy
<1>8. CASE HandleInvalid
  <2>1. Has(cmdPipe', PDIn) => Has(cmdPipe, PDIn)
    BY <1>8, PDInRead DEF HandleInvalid
  <2>2. CASE curState \in {"Loaded", "WaitForResources"}
    BY <1>8, <1>b, <2>2 DEF HandleInvalid
  <2>3. CASE curState \notin {"Loaded", "WaitForResources"}
    <3>1. hist'.lost = hist.lost \union lent
      BY <1>8, <2>3 DEF HandleInvalid, Types, HistType
    <3>2. QED
      BY <1>8, <2>1, <2>3, <3>1, PlacesGone DEF HandleInvalid
  <2>4. QED
    BY <2>2, <2>3
<1>9. ASSUME NEW x \in {In, Out, All}, HandlePortDisable(x) PROVE Places'
  BY <1>9, PlacesDisabled
<1>10. ASSUME NEW x, HandlePortEnable(x) PROVE Places'
  <2>1. PICK Q \in SUBSET pend : flagged' = flagged \union Q /\ lent' = lent \union Q /\ pend' = pend \ Q
    <3> DEFINE done == curState = "Loaded" \/ \A p \in Names(x) : Populated(p)
               Q == IF ~done THEN {} ELSE IF x = In THEN pend \intersect BufsOf(In) ELSE pend
    <3>1. flagged' = flagged \union Q /\ lent' = lent \union Q /\ pend' = pend \ Q
      BY <1>10 DEF HandlePortEnable
    <3>2. Q \in SUBSET pend
      OBVIOUS
    <3> HIDE DEF Q
    <3>3. QED
      BY <3>1, <3>2
  <2>2. Has(cmdPipe', PDIn) => Has(cmdPipe, PDIn)
    BY <1>10, PDInRead DEF HandlePortEnable
  <2>3. QED
    BY <1>10, <2>1, <2>2, PlacesQueue DEF HandlePortEnable
<1>11. ASSUME NEW x, HandleFlush(x) PROVE Places'
  BY <1>11, <1>b DEF HandleFlush
<1>12. ASSUME NEW p, FlushDeferred(p) \/ FlushSent(p) \/ FlushAcked(p) PROVE Places'
  BY <1>12, <1>a DEF FlushDeferred, FlushSent, FlushAcked
<1>13. ASSUME NEW p, FlushPending(p) PROVE Places'
  <2>1. hist'.lost = hist.lost
    BY <1>13 DEF FlushPending, Types, HistType
  <2>2. KeptBack(p) \in SUBSET pend
    BY DEF KeptBack
  <2>3. QED
    BY <1>13, <2>1, <2>2, PlacesReturn DEF FlushPending, ReturnAll
<1>14. ASSUME NEW b \in Buffers, HandleOutput(b) \/ (\E k \in Kinds, changed \in BOOLEAN : HandleInput(b, k, changed))
       PROVE  Places'
  BY <1>14, OutputFacts, InputFacts, PlacesHandled
<1>15. CASE HandleDataFails
  BY <1>15, PlacesFails
<1>16. QED
  BY <1>1, <1>2, <1>3, <1>4, <1>5, <1>6, <1>7, <1>8, <1>9, <1>10, <1>11, <1>12, <1>13, <1>14, <1>15
     DEF ComponentThread

\* Every step keeps Places.
LEMMA PlacesStep == Types /\ OneCommand /\ Flushing /\ Calling /\ Places /\ [Next]_vars => Places'
<1> SUFFICES ASSUME Types, OneCommand, Flushing, Calling, Places, [Next]_vars PROVE Places'
  OBVIOUS
<1>a. ASSUME UNCHANGED <<owner, pend, flagged, lent, dataPipe, cmdPipe, hist>> PROVE Places'
  BY <1>a, PlacesSame
<1>1. CASE FlushAck
  <2>1. KeptBack(Head(requests)[2]) \in SUBSET pend
    BY DEF KeptBack
  <2>2. QED
    BY <1>1, <2>1, PlacesReturn DEF FlushAck
<1>2. CASE StopAck
  <2>1. owner' = OwnerAfter(pend) /\ pend' = pend \ pend
    BY <1>2 DEF StopAck
  <2>2. PICK B \in SUBSET pend : B = pend
    OBVIOUS
  <2>3. QED
    BY <1>2, <2>1, <2>2, PlacesReturn DEF StopAck
<1>3. CASE AllReturned
  <2>1. hist'.lost = hist.lost
    BY <1>3 DEF AllReturned, Types, HistType
  <2>2. QED
    BY <1>3, <2>1, PlacesSame DEF AllReturned
<1>4. CASE StopState \/ WaitForReturn \/ PauseAck \/ DspError
  BY <1>4, <1>a DEF StopState, WaitForReturn, PauseAck, DspError
<1>5. ASSUME NEW b, Processed(b) PROVE Places'
  BY <1>5, PlacesProcessed
<1>6. CASE UNCHANGED vars
  BY <1>6, <1>a DEF vars
<1>7. QED
  BY <1>1, <1>2, <1>3, <1>4, <1>5, <1>6, PlacesClient, PlacesThread DEF Next, Callback

-----------------------------------------------------------------------------
(* The counts.                                                             *)

\* Buffers are taken away: so many less of each port.
LEMMA CardRemoved ==
    ASSUME NEW S \in SUBSET Buffers, NEW B \in SUBSET S, NEW p \in Ports
    PROVE  /\ Cardinality((S \ B) \intersect BufsOf(p))
                = Cardinality(S \intersect BufsOf(p)) - Cardinality(B \intersect BufsOf(p))
           /\ Cardinality(S \intersect BufsOf(p)) \in Nat
           /\ Cardinality(B \intersect BufsOf(p)) \in Nat
  <1> DEFINE T == S \intersect BufsOf(p)
             C == B \intersect BufsOf(p)
  <1>1. IsFiniteSet(T) /\ IsFiniteSet(C)
    BY Mp3Assumption, FS_Subset
  <1>2. (S \ B) \intersect BufsOf(p) = T \ C /\ T \intersect C = C
    OBVIOUS
  <1> HIDE DEF T, C
  <1>3. Cardinality(T \ C) = Cardinality(T) - Cardinality(T \intersect C)
    BY <1>1, FS_Difference
  <1>4. Cardinality(T) \in Nat /\ Cardinality(C) \in Nat
    BY <1>1, FS_CardinalityType
  <1>5. QED
    BY <1>2, <1>3, <1>4 DEF T, C

\* A buffer is added: one more of its port.
LEMMA CardAdded ==
    ASSUME NEW S \in SUBSET Buffers, NEW b \in Buffers, b \notin S, NEW p \in Ports
    PROVE  /\ Cardinality((S \union {b}) \intersect BufsOf(p))
                = Cardinality(S \intersect BufsOf(p)) + (IF PortOf[b] = p THEN 1 ELSE 0)
           /\ Cardinality(S \intersect BufsOf(p)) \in Nat
  <1> DEFINE T == S \intersect BufsOf(p)
  <1>1. IsFiniteSet(T) /\ b \notin T
    BY Mp3Assumption, FS_Subset
  <1>2. Cardinality(T) \in Nat
    BY <1>1, FS_CardinalityType
  <1>3. CASE PortOf[b] = p
    <2>1. (S \union {b}) \intersect BufsOf(p) = T \union {b}
      BY <1>3 DEF BufsOf
    <2> HIDE DEF T
    <2>2. Cardinality(T \union {b}) = Cardinality(T) + 1
      BY <1>1, FS_AddElement
    <2>3. QED
      BY <1>2, <1>3, <2>1, <2>2 DEF T
  <1>4. CASE PortOf[b] # p
    <2>1. (S \union {b}) \intersect BufsOf(p) = T
      BY <1>4 DEF BufsOf
    <2> HIDE DEF T
    <2>2. Cardinality((S \union {b}) \intersect BufsOf(p)) = Cardinality(T) + 0
      BY <1>2, <2>1
    <2>3. QED
      BY <1>2, <1>4, <2>2 DEF T
  <1>5. QED
    BY <1>3, <1>4

\* One buffer counts for its own port.
LEMMA CardOne ==
    ASSUME NEW b \in Buffers, NEW p \in Ports
    PROVE  Cardinality({b} \intersect BufsOf(p)) = IF PortOf[b] = p THEN 1 ELSE 0
  <1>1. CASE PortOf[b] = p
    <2>1. {b} \intersect BufsOf(p) = {b}
      BY <1>1 DEF BufsOf
    <2>2. Cardinality({b}) = 1
      BY FS_Singleton
    <2>3. QED
      BY <1>1, <2>1, <2>2
  <1>2. CASE PortOf[b] # p
    <2>1. {b} \intersect BufsOf(p) = {}
      BY <1>2 DEF BufsOf
    <2>2. Cardinality({}) = 0
      BY FS_EmptySet
    <2>3. QED
      BY <1>2, <2>1, <2>2
  <1>3. QED
    BY <1>1, <1>2

CallKept == \A p \in Ports : Uncounted(p)' = Uncounted(p)

\* The client's call stays where it is.
LEMMA CallKeptSame ==
    ASSUME client'.pc = client.pc, client'.buf = client.buf
    PROVE  CallKept
  BY DEF CallKept, Uncounted

\* The client does not count a buffer.
LEMMA CallKeptReady ==
    ASSUME client'.pc # "count", client.pc # "count"
    PROVE  CallKept
  BY DEF CallKept, Uncounted

\* No buffer moves.
LEMMA CountsSame ==
    ASSUME Counts, Held' = Held, Piped' = Piped, UNCHANGED <<unhandled, unreturned>>, CallKept
    PROVE  Counts'
  BY DEF Counts, CallKept

\* Buffers go back, and are counted.
LEMMA CountsReturn ==
    ASSUME Types, Counts, NEW B \in SUBSET Held, owner' = OwnerAfter(B), unreturned' = CountAfter(unreturned, B),
           UNCHANGED <<unhandled, dataPipe>>, CallKept
    PROVE  Counts'
  <1>1. B \in SUBSET Buffers /\ Held \in SUBSET Buffers
    BY DEF Held
  <1>2. Held' = Held \ B
    BY <1>1, HeldReturned
  <1>3. Piped' = Piped
    BY PipedSame
  <1> SUFFICES ASSUME NEW p \in Ports
               PROVE  /\ unreturned'[p] = Cardinality(Held' \intersect BufsOf(p)) - Uncounted(p)'
                      /\ unhandled'[p] = Cardinality(Piped' \intersect BufsOf(p)) - Uncounted(p)'
    BY DEF Counts
  <1>4. Uncounted(p)' = Uncounted(p) /\ Uncounted(p) \in Int
    BY DEF CallKept, Uncounted
  <1>5. unreturned'[p] = unreturned[p] - Cardinality(B \intersect BufsOf(p))
    BY <1>1, CountFacts DEF Types
  <1>6. /\ Cardinality(Held' \intersect BufsOf(p))
            = Cardinality(Held \intersect BufsOf(p)) - Cardinality(B \intersect BufsOf(p))
        /\ Cardinality(Held \intersect BufsOf(p)) \in Nat
        /\ Cardinality(B \intersect BufsOf(p)) \in Nat
    BY <1>1, <1>2, CardRemoved
  <1>7. unreturned[p] = Cardinality(Held \intersect BufsOf(p)) - Uncounted(p)
    BY DEF Counts
  <1>8. unreturned'[p] = Cardinality(Held' \intersect BufsOf(p)) - Uncounted(p)'
    BY <1>4, <1>5, <1>6, <1>7
  <1>9. unhandled'[p] = Cardinality(Piped' \intersect BufsOf(p)) - Uncounted(p)'
    BY <1>3, <1>4 DEF Counts
  <1>10. QED
    BY <1>8, <1>9

\* A buffer is sent, and counted later.
LEMMA CountsSent ==
    ASSUME Types, Places, Counts, NEW b \in Buffers, NEW k \in Kinds, ThisBuffer(b, k)
    PROVE  Counts'
  <1>1. client'.pc = "count" /\ client.pc = "ready" /\ client'.buf = b
    BY ThisBufferFacts DEF Types
  <1>2. b \notin Held /\ Held' = Held \union {b}
    BY DEF ThisBuffer, Held, Types, OwnerType
  <1>3. b \notin Piped
    BY <1>2 DEF Places
  <1>4. Piped' = Piped \union {b}
    BY <1>3, PipedPush DEF ThisBuffer, Places
  <1>5. Held \in SUBSET Buffers /\ Piped \in SUBSET Buffers
    BY PipedIndex DEF Held
  <1> SUFFICES ASSUME NEW p \in Ports
               PROVE  /\ unreturned'[p] = Cardinality(Held' \intersect BufsOf(p)) - Uncounted(p)'
                      /\ unhandled'[p] = Cardinality(Piped' \intersect BufsOf(p)) - Uncounted(p)'
    BY DEF Counts
  <1>6. Uncounted(p)' = (IF PortOf[b] = p THEN 1 ELSE 0) /\ Uncounted(p) = 0
    BY <1>1 DEF Uncounted
  <1>7. /\ Cardinality(Held' \intersect BufsOf(p)) = Cardinality(Held \intersect BufsOf(p)) + (IF PortOf[b] = p THEN 1 ELSE 0)
        /\ Cardinality(Held \intersect BufsOf(p)) \in Nat
    BY <1>2, <1>5, CardAdded
  <1>8. /\ Cardinality(Piped' \intersect BufsOf(p)) = Cardinality(Piped \intersect BufsOf(p)) + (IF PortOf[b] = p THEN 1 ELSE 0)
        /\ Cardinality(Piped \intersect BufsOf(p)) \in Nat
    BY <1>3, <1>4, <1>5, CardAdded
  <1>9. unreturned'[p] = Cardinality(Held \intersect BufsOf(p)) /\ unhandled'[p] = Cardinality(Piped \intersect BufsOf(p))
    <2>1. UNCHANGED <<unreturned, unhandled>>
      BY DEF ThisBuffer
    <2>2. /\ unreturned[p] = Cardinality(Held \intersect BufsOf(p)) - Uncounted(p)
          /\ unhandled[p] = Cardinality(Piped \intersect BufsOf(p)) - Uncounted(p)
      BY DEF Counts
    <2>3. QED
      BY <1>6, <1>7, <1>8, <2>1, <2>2
  <1>10. QED
    BY <1>6, <1>7, <1>8, <1>9

\* The client's call counts the buffer it wrote to the pipe.
LEMMA CountsCounted ==
    ASSUME Types, Calling, Counts, ThisBufferCount
    PROVE  Counts'
  <1> DEFINE b == client.buf
  <1>0. client.pc = "count" /\ b \in Buffers
    BY DEF Calling, ThisBufferCount
  <1>1. client.pc = "count" /\ b \in Buffers /\ PortOf[b] \in Ports
    BY <1>0, Mp3Assumption
  <1>2. client'.pc = "ready"
    <2>1. client' = [client EXCEPT !.pc = "ready", !.buf = NULL]
      BY DEF ThisBufferCount
    <2>2. QED
      BY <2>1 DEF Types, ClientType
  <1>3. Held' = Held /\ Piped' = Piped
    BY HeldSame, PipedSame DEF ThisBufferCount
  <1>4. /\ unhandled' = [unhandled EXCEPT ![PortOf[b]] = @ + 1]
        /\ unreturned' = [unreturned EXCEPT ![PortOf[b]] = @ + 1]
    BY DEF ThisBufferCount
  <1> SUFFICES ASSUME NEW p \in Ports
               PROVE  /\ unreturned'[p] = Cardinality(Held \intersect BufsOf(p)) - Uncounted(p)'
                      /\ unhandled'[p] = Cardinality(Piped \intersect BufsOf(p)) - Uncounted(p)'
    BY <1>3 DEF Counts
  <1>5. Uncounted(p)' = 0 /\ Uncounted(p) = (IF PortOf[b] = p THEN 1 ELSE 0)
    BY <1>1, <1>2 DEF Uncounted
  <1> HIDE DEF b
  <1>6. /\ unhandled'[p] = unhandled[p] + (IF PortOf[b] = p THEN 1 ELSE 0)
        /\ unreturned'[p] = unreturned[p] + (IF PortOf[b] = p THEN 1 ELSE 0)
        /\ unhandled[p] \in Int /\ unreturned[p] \in Int
    BY <1>1, <1>4 DEF Types, PortCounts
  <1>7. Held \in SUBSET Buffers /\ Piped \in SUBSET Buffers
    BY PipedIndex DEF Held
  <1>8. Cardinality(Held \intersect BufsOf(p)) \in Nat /\ Cardinality(Piped \intersect BufsOf(p)) \in Nat
    BY <1>7, CardRemoved
  <1>9. /\ unreturned[p] = Cardinality(Held \intersect BufsOf(p)) - Uncounted(p)
        /\ unhandled[p] = Cardinality(Piped \intersect BufsOf(p)) - Uncounted(p)
    BY DEF Counts
  <1>10. QED
    BY <1>5, <1>6, <1>8, <1>9

\* A buffer leaves the pipe, and goes back or does not.
LEMMA CountsHandled ==
    ASSUME Types, Counts, NEW b \in Buffers, b \in Piped, b \in Held, Piped' = Piped \ {b}, Handled(b), CallKept,
           \/ Held' = Held /\ UNCHANGED unreturned
           \/ Held' = Held \ {b} /\ unreturned' = CountAfter(unreturned, {b})
    PROVE  Counts'
  <1>1. Held \in SUBSET Buffers /\ Piped \in SUBSET Buffers /\ {b} \in SUBSET Piped /\ {b} \in SUBSET Held
    BY PipedIndex DEF Held
  <1> SUFFICES ASSUME NEW p \in Ports
               PROVE  /\ unreturned'[p] = Cardinality(Held' \intersect BufsOf(p)) - Uncounted(p)'
                      /\ unhandled'[p] = Cardinality(Piped' \intersect BufsOf(p)) - Uncounted(p)'
    BY DEF Counts
  <1> DEFINE one == Cardinality({b} \intersect BufsOf(p))
             h == Cardinality(Held \intersect BufsOf(p))
             q == Cardinality(Piped \intersect BufsOf(p))
             u == Uncounted(p)
  <1>2. Uncounted(p)' = u /\ u \in Int
    BY DEF CallKept, Uncounted
  <1>3. unreturned[p] = h - u /\ unhandled[p] = q - u
    BY DEF Counts
  <1>4. Cardinality((Piped \ {b}) \intersect BufsOf(p)) = q - one /\ q \in Nat /\ one \in Nat
    <2>1. PICK B : B = {b}
      OBVIOUS
    <2>2. B \in SUBSET Piped
      BY <1>1, <2>1
    <2>3. QED
      BY ZenonT(40), <1>1, <2>1, <2>2, CardRemoved
  <1>5. Cardinality((Held \ {b}) \intersect BufsOf(p)) = h - one /\ h \in Nat
    <2>1. PICK B : B = {b}
      OBVIOUS
    <2>2. B \in SUBSET Held
      BY <1>1, <2>1
    <2>3. QED
      BY ZenonT(40), <1>1, <2>1, <2>2, CardRemoved
  <1>6. one = IF PortOf[b] = p THEN 1 ELSE 0
    BY CardOne
  <1>7. unhandled'[p] = unhandled[p] - one
    BY <1>6, HandledType
  <1>8. unhandled'[p] = Cardinality(Piped' \intersect BufsOf(p)) - Uncounted(p)'
    <2>1. Cardinality(Piped' \intersect BufsOf(p)) = q - one
      BY <1>4
    <2> HIDE DEF one, q, u
    <2>2. QED
      BY <1>2, <1>3, <1>4, <1>7, <2>1
  <1>9. CASE Held' = Held /\ UNCHANGED unreturned
    <2>1. Cardinality(Held' \intersect BufsOf(p)) = h
      BY <1>9
    <2> HIDE DEF h, u
    <2>2. unreturned'[p] = Cardinality(Held' \intersect BufsOf(p)) - Uncounted(p)'
      BY <1>2, <1>3, <1>9, <2>1
    <2>3. QED
      BY <1>8, <2>2
  <1>10. CASE Held' = Held \ {b} /\ unreturned' = CountAfter(unreturned, {b})
    <2>1. Cardinality(Held' \intersect BufsOf(p)) = h - one
      BY <1>5, <1>10
    <2>2. unreturned'[p] = unreturned[p] - one
      BY <1>1, <1>10, CountFacts DEF Types
    <2> HIDE DEF h, u, one
    <2>3. unreturned'[p] = Cardinality(Held' \intersect BufsOf(p)) - Uncounted(p)'
      BY <1>2, <1>3, <1>4, <1>5, <2>1, <2>2
    <2>4. QED
      BY <1>8, <2>3
  <1>11. QED
    BY <1>9, <1>10

\* The client's calls keep Counts.
LEMMA CountsClient == Types /\ Calling /\ Places /\ Counts /\ Client => Counts'
<1> SUFFICES ASSUME Types, Calling, Places, Counts, Client PROVE Counts'
  OBVIOUS
<1>0. client \in ClientType
  BY DEF Types
<1>a. ASSUME UNCHANGED <<owner, dataPipe, unhandled, unreturned>>, CallKept PROVE Counts'
  BY <1>a, HeldSame, PipedSame, CountsSame
<1>1. ASSUME NEW c \in Commands, SendCommand(c) PROVE Counts'
  <2>1. CallKept
    BY <1>0, <1>1, SendFacts, CallKeptReady
  <2>2. QED
    BY <1>1, <1>a, <2>1 DEF SendCommand
<1>2. CASE SendInvalid
  <2>1. CallKept
    BY <1>0, <1>2, InvalidateFacts, CallKeptSame DEF SendInvalid, Kept
  <2>2. QED
    BY <1>2, <1>a, <2>1 DEF SendInvalid
<1>3. ASSUME NEW b \in Buffers, NEW k \in Kinds, ThisBuffer(b, k) PROVE Counts'
  BY <1>3, CountsSent
<1>4. CASE ThisBufferCount
  BY <1>4, CountsCounted
<1>5. ASSUME NEW b \in Buffers, AllocateBufferWaits(b) PROVE Counts'
  <2>1. client'.pc = "alloc" /\ client.pc = "ready"
    BY <1>0, <1>5 DEF AllocateBufferWaits, ClientType
  <2>2. CallKept
    BY <2>1, CallKeptReady
  <2>3. QED
    BY <1>5, <1>a, <2>2 DEF AllocateBufferWaits
<1>6. ASSUME NEW b \in Buffers, NEW use \in BOOLEAN, AllocateBuffer(b, use) PROVE Counts'
  <2>1. client' = [client EXCEPT !.pc = "ready", !.buf = NULL] /\ client.pc # "count"
    BY <1>6 DEF AllocateBuffer
  <2>2. client'.pc = "ready"
    BY <1>0, <2>1 DEF ClientType
  <2>3. CallKept
    BY <2>1, <2>2, CallKeptReady
  <2>4. owner[b] # "comp"
    <3>1. CASE client.pc = "ready" /\ Wanted(b)
      BY <3>1 DEF Wanted
    <3>2. CASE client.pc = "alloc" /\ client.buf = b
      BY <3>2 DEF Calling
    <3>3. QED
      BY <1>6, <3>1, <3>2 DEF AllocateBuffer
  <2>5. Held' = Held
    BY <1>6, <2>4 DEF AllocateBuffer, Held, Types, OwnerType
  <2>6. Piped' = Piped /\ UNCHANGED <<unhandled, unreturned>>
    BY <1>6, PipedSame DEF AllocateBuffer
  <2>7. QED
    BY <2>3, <2>5, <2>6, CountsSame
<1>7. CASE UseBufferRefused
  <2>1. client' = [client EXCEPT !.pc = "ready", !.buf = NULL] /\ client.pc # "count"
    BY <1>7 DEF UseBufferRefused
  <2>2. client'.pc = "ready"
    BY <1>0, <2>1 DEF ClientType
  <2>3. CallKept
    BY <2>1, <2>2, CallKeptReady
  <2>4. QED
    BY <1>7, <1>a, <2>3 DEF UseBufferRefused
<1>8. ASSUME NEW b \in Buffers, FreeBuffer(b) PROVE Counts'
  <2>1. client'.pc = client.pc /\ client.pc = "ready"
    BY <1>0, <1>8, CompleteFacts DEF FreeBuffer, Kept
  <2>2. CallKept
    BY <2>1, CallKeptReady
  <2>3. Held' = Held
    BY <1>8 DEF FreeBuffer, Held, Types, OwnerType
  <2>4. Piped' = Piped /\ UNCHANGED <<unhandled, unreturned>>
    BY <1>8, PipedSame DEF FreeBuffer
  <2>5. QED
    BY <2>2, <2>3, <2>4, CountsSame
<1>9. QED
  BY <1>1, <1>2, <1>3, <1>4, <1>5, <1>6, <1>7, <1>8 DEF Client, Allocating, Freeing

\* Every step keeps Counts.
LEMMA CountsStep ==
    Types /\ OneCommand /\ Flushing /\ Calling /\ Places /\ Counts /\ [Next]_vars => Counts'
<1> SUFFICES ASSUME Types, OneCommand, Flushing, Calling, Places, Counts, [Next]_vars PROVE Counts'
  OBVIOUS
<1>1. CASE Client
  BY <1>1, CountsClient
<1>2. CASE UNCHANGED vars
  <2>1. CallKept
    BY <1>2, CallKeptSame DEF vars
  <2>2. QED
    BY <1>2, <2>1, HeldSame, PipedSame, CountsSame DEF vars
<1>3. CASE ComponentThread \/ Callback \/ (\E b \in lent : Processed(b)) \/ DspError
  <2>0. CallKept
    BY <1>3, OthersKeep, CallKeptSame DEF Kept
  <2>a. ASSUME UNCHANGED <<owner, dataPipe, unhandled, unreturned>> PROVE Counts'
    BY <2>0, <2>a, HeldSame, PipedSame, CountsSame
  <2>b. ASSUME NEW B \in SUBSET Held, owner' = OwnerAfter(B), unreturned' = CountAfter(unreturned, B),
               UNCHANGED <<unhandled, dataPipe>>
        PROVE  Counts'
    BY <2>0, <2>b, CountsReturn
  <2>p. pend \subseteq Held /\ lent \subseteq Held
    BY DEF Places
  <2>1. ASSUME NEW s \in States, HandleWrongState(s) \/ HandleWaiting(s) PROVE Counts'
    BY <2>1, <2>a DEF HandleWrongState, HandleWaiting
  <2>2. ASSUME NEW c, HandleFails(c) PROVE Counts'
    BY <2>2, <2>a DEF HandleFails
  <2>3. CASE SelectCommand \/ HandleStop \/ HandlePause \/ HandleLoaded \/ IdleToLoaded
    BY <2>3, <2>a DEF SelectCommand, HandleStop, HandlePause, HandleLoaded, IdleToLoaded
  <2>4. CASE HandleIdleFromLoaded \/ LoadedToIdle
    BY <2>4, <2>a DEF HandleIdleFromLoaded, LoadedToIdle
  <2>5. CASE Stopped \/ HandleExecuting \/ Destroy \/ HandleInvalid
    BY <2>5, <2>a DEF Stopped, HandleExecuting, Destroy, HandleInvalid
  <2>6. ASSUME NEW x \in {In, Out, All}, HandlePortDisable(x) PROVE Counts'
    BY <2>6, <2>b, PlacesDisabled DEF HandlePortDisable
  <2>7. ASSUME NEW x, HandlePortEnable(x) \/ HandleFlush(x) PROVE Counts'
    BY <2>7, <2>a DEF HandlePortEnable, HandleFlush
  <2>8. ASSUME NEW p, FlushDeferred(p) \/ FlushSent(p) \/ FlushAcked(p) PROVE Counts'
    BY <2>8, <2>a DEF FlushDeferred, FlushSent, FlushAcked
  <2>9. ASSUME NEW p, FlushPending(p) PROVE Counts'
    <3>1. KeptBack(p) \in SUBSET Held
      BY <2>p DEF KeptBack
    <3>2. QED
      BY <2>9, <2>b, <3>1 DEF FlushPending, ReturnAll
  <2>10. ASSUME NEW b \in Buffers, HandleOutput(b) \/ (\E k \in Kinds, changed \in BOOLEAN : HandleInput(b, k, changed))
         PROVE  Counts'
    <3>1. DataHandled(b)
      BY <2>10, OutputFacts, InputFacts
    <3>2. b \in Piped /\ b \notin flagged /\ Piped' = Piped \ {b}
      BY <3>1, PlacesHandled
    <3>3. b \in Held
      BY <3>2 DEF Places
    <3>4. \/ Held' = Held /\ UNCHANGED unreturned
          \/ Held' = Held \ {b} /\ unreturned' = CountAfter(unreturned, {b})
      <4>1. CASE GoesBack(b)
        <5>1. owner' = OwnerAfter({b}) /\ unreturned' = CountAfter(unreturned, {b})
          BY <4>1 DEF GoesBack, ReturnAll
        <5>2. QED
          BY <5>1, HeldReturned
      <4>2. CASE GoesToDsp(b) \/ IsKept(b) \/ IsDropped(b)
        BY <4>2, HeldSame DEF GoesToDsp, IsKept, IsDropped
      <4>3. QED
        BY <3>1, <3>2, <4>1, <4>2 DEF DataHandled
    <3>5. Handled(b)
      BY <3>1 DEF DataHandled
    <3>6. QED
      BY <2>0, <3>2, <3>3, <3>4, <3>5, CountsHandled
  <2>11. CASE HandleDataFails
    <3>1. Head(dataPipe).buf \in Buffers
      BY <2>11, HeadFacts DEF HandleDataFails
    <3>2. /\ Head(dataPipe).buf \in Piped /\ Piped' = Piped \ {Head(dataPipe).buf} /\ Held' = Held
          /\ Handled(Head(dataPipe).buf) /\ UNCHANGED unreturned
      BY <2>11, PlacesFails DEF HandleDataFails
    <3>3. Head(dataPipe).buf \in Held
      BY <3>2 DEF Places
    <3>4. QED
      BY <2>0, <3>1, <3>2, <3>3, CountsHandled
  <2>12. CASE FlushAck
    <3>1. KeptBack(Head(requests)[2]) \in SUBSET Held
      BY <2>p DEF KeptBack
    <3>2. QED
      BY <2>12, <2>b, <3>1 DEF FlushAck
  <2>13. CASE StopAck
    <3>1. pend \in SUBSET Held
      BY <2>p
    <3>2. QED
      BY <2>13, <2>b, <3>1 DEF StopAck
  <2>14. CASE AllReturned \/ PauseAck \/ StopState \/ WaitForReturn \/ DspError
    BY <2>14, <2>a DEF AllReturned, PauseAck, StopState, WaitForReturn, DspError
  <2>15. ASSUME NEW b, Processed(b) PROVE Counts'
    <3>1. {b} \in SUBSET Held
      BY <2>15, <2>p DEF Processed
    <3>2. QED
      BY <2>15, <2>b, <3>1 DEF Processed
  <2>16. QED
    BY <1>3, <2>1, <2>2, <2>3, <2>4, <2>5, <2>6, <2>7, <2>8, <2>9, <2>10, <2>11, <2>12, <2>13, <2>14, <2>15
       DEF ComponentThread, Callback
<1>4. QED
  BY <1>1, <1>2, <1>3 DEF Next

-----------------------------------------------------------------------------
(* One flush at a time.                                                    *)

FLUSH(p) == <<"FLUSH", p>>

\* The flag, the requests and the thread, where a step does not flush.
LEMMA RequestsKept ==
    ASSUME FlushRequests, \A p \in Ports : sent[p] => sent'[p], sig'["codecFlush"] = sig["codecFlush"],
           thread.pc = "flushing" => UNCHANGED thread,
           \/ UNCHANGED requests
           \/ Types /\ requests # << >> /\ requests' = Tail(requests)
           \/ Types /\ requests' \in {Append(requests, STOP), Append(requests, PAUSE)}
           \/ requests' = << >>
    PROVE  FlushRequests'
  <1>1. CASE UNCHANGED requests
    BY <1>1 DEF FlushRequests, Has
  <1>2. CASE Types /\ requests # << >> /\ requests' = Tail(requests)
    <2>1. \A c : Has(requests', c) => Has(requests, c)
      BY <1>2, RequestTail
    <2>2. /\ Len(requests) \in Nat /\ Len(requests') = Len(requests) - 1
          /\ \A i \in 1..Len(requests) - 1 : requests'[i] = requests[i + 1]
      BY <1>2, TailFacts DEF Types, RequestsType
    <2>3. ASSUME NEW i \in 1..Len(requests'), NEW j \in 1..Len(requests'),
                 requests'[i][1] = "FLUSH", requests'[j][1] = "FLUSH"
          PROVE  i = j
      <3>0. /\ i + 1 \in 1..Len(requests) /\ j + 1 \in 1..Len(requests)
            /\ requests'[i] = requests[i + 1] /\ requests'[j] = requests[j + 1]
        BY <2>2
      <3>1. requests[i + 1][1] = "FLUSH" /\ requests[j + 1][1] = "FLUSH"
        BY <2>3, <3>0
      <3>2. i + 1 = j + 1
        BY <3>0, <3>1 DEF FlushRequests
      <3>3. QED
        BY <2>2, <3>2
    <2>4. QED
      BY <2>1, <2>3 DEF FlushRequests
  <1>3. CASE Types /\ requests' \in {Append(requests, STOP), Append(requests, PAUSE)}
    <2>1. PICK x : requests' = Append(requests, x) /\ x \in {STOP, PAUSE}
      BY <1>3
    <2>2. x \in Req /\ x[1] # "FLUSH"
      BY <2>1 DEF STOP, PAUSE, Req
    <2>3. \A c : Has(requests', c) <=> Has(requests, c) \/ c = x
      BY <1>3, <2>1, <2>2, RequestAppend
    <2>4. /\ Len(requests) \in Nat /\ Len(requests') = Len(requests) + 1
          /\ \A i \in 1..Len(requests) : requests'[i] = requests[i]
          /\ requests'[Len(requests) + 1] = x
      BY <1>3, <2>1, <2>2, AppendFacts DEF Types, RequestsType
    <2>5. ASSUME NEW i \in 1..Len(requests'), requests'[i][1] = "FLUSH"
          PROVE  i \in 1..Len(requests) /\ requests[i][1] = "FLUSH"
      BY <2>2, <2>4, <2>5
    <2>6. \A p \in Ports : Has(requests', <<"FLUSH", p>>) => Has(requests, <<"FLUSH", p>>)
      BY <2>2, <2>3
    <2>7. \A i, j \in 1..Len(requests') : requests'[i][1] = "FLUSH" /\ requests'[j][1] = "FLUSH" => i = j
      BY <2>5 DEF FlushRequests
    <2>8. QED
      BY <2>6, <2>7 DEF FlushRequests
  <1>4. CASE requests' = << >>
    <2>1. \A c : ~Has(requests', c)
      BY <1>4, RequestsEmpty
    <2>2. Len(requests') = 0
      BY <1>4
    <2>3. QED
      BY <2>1, <2>2 DEF FlushRequests
  <1>5. QED
    BY <1>1, <1>2, <1>3, <1>4

\* The thread does not flush: LCML has nothing to flush.
LEMMA NoneFlushing ==
    ASSUME FlushRequests, Types, thread.pc # "flushing"
    PROVE  /\ ~sig["codecFlush"]
           /\ \A i \in 1..Len(requests) : requests[i][1] # "FLUSH"
  <1>1. ASSUME NEW i \in 1..Len(requests), requests[i][1] = "FLUSH" PROVE FALSE
    <2>1. requests[i] \in Req
      BY DEF Types, RequestsType
    <2>2. PICK p \in Ports : requests[i] = <<"FLUSH", p>>
      BY <1>1, <2>1 DEF Req
    <2>3. Has(requests, <<"FLUSH", p>>)
      BY <2>2 DEF Has
    <2>4. QED
      BY <2>3 DEF FlushRequests
  <1>2. QED
    BY <1>1 DEF FlushRequests

\* A flush is sent to LCML: it is the only one.
LEMMA RequestFlush ==
    ASSUME FlushRequests, Types, NEW p \in Ports, FlushSent(p)
    PROVE  FlushRequests'
  <1>1. /\ thread.pc = "flush" /\ sent[p] /\ thread'.pc = "flushing" /\ requests' = Append(requests, <<"FLUSH", p>>)
        /\ UNCHANGED <<sent, sig>>
    BY DEF FlushSent, DspFlushed, Types, ThreadType
  <1>2. ~sig["codecFlush"] /\ \A i \in 1..Len(requests) : requests[i][1] # "FLUSH"
    BY <1>1, NoneFlushing
  <1>3. <<"FLUSH", p>> \in Req
    BY DEF Req
  <1>4. /\ Len(requests) \in Nat /\ Len(requests') = Len(requests) + 1
        /\ \A i \in 1..Len(requests) : requests'[i] = requests[i]
        /\ requests'[Len(requests) + 1] = <<"FLUSH", p>>
    BY <1>1, <1>3, AppendFacts DEF Types, RequestsType
  <1>5. ASSUME NEW i \in 1..Len(requests'), requests'[i][1] = "FLUSH" PROVE i = Len(requests) + 1
    BY <1>2, <1>4, <1>5
  <1>6. ASSUME NEW q \in Ports, Has(requests', <<"FLUSH", q>>) PROVE sent[q]
    <2>1. PICK i \in 1..Len(requests') : requests'[i] = <<"FLUSH", q>>
      BY <1>6 DEF Has
    <2>2. <<"FLUSH", q>> = <<"FLUSH", p>>
      BY <1>4, <1>5, <2>1
    <2>3. QED
      BY <1>1, <2>2
  <1>7. QED
    BY <1>1, <1>2, <1>5, <1>6 DEF FlushRequests

\* A flush is answered: it was the only one.
LEMMA RequestFlushed ==
    ASSUME FlushRequests, Types, FlushAck
    PROVE  /\ FlushRequests'
           /\ Head(requests)[2] \in Ports
           /\ sent[Head(requests)[2]]
           /\ thread.pc = "flushing"
  <1>1. /\ requests # << >> /\ Head(requests)[1] = "FLUSH" /\ requests' = Tail(requests)
        /\ UNCHANGED <<sent, thread>>
    BY DEF FlushAck
  <1>2. Head(requests)[2] \in Ports /\ Head(requests) = <<"FLUSH", Head(requests)[2]>> /\ Head(requests) = requests[1]
    BY <1>1, RequestFacts
  <1>3. Has(requests, Head(requests))
    BY <1>1, RequestTail
  <1>4. sent[Head(requests)[2]] /\ thread.pc = "flushing"
    BY <1>2, <1>3 DEF FlushRequests
  <1>5. /\ Len(requests) \in Nat /\ Len(requests) > 0 /\ Len(requests') = Len(requests) - 1
        /\ \A i \in 1..Len(requests) - 1 : requests'[i] = requests[i + 1]
    BY <1>1, TailFacts DEF Types, RequestsType
  <1>6. ASSUME NEW i \in 1..Len(requests') PROVE requests'[i][1] # "FLUSH"
    <2>1. i + 1 \in 1..Len(requests) /\ 1 \in 1..Len(requests) /\ i + 1 # 1 /\ requests'[i] = requests[i + 1]
      BY <1>5
    <2>2. QED
      BY <1>1, <1>2, <2>1 DEF FlushRequests
  <1>7. \A p \in Ports : ~Has(requests', <<"FLUSH", p>>)
    BY <1>6 DEF Has
  <1>8. FlushRequests'
    BY <1>1, <1>4, <1>6, <1>7 DEF FlushRequests
  <1>9. QED
    BY <1>2, <1>4, <1>8

\* The thread has seen that its flush is answered.
LEMMA RequestAcked ==
    ASSUME FlushRequests, Types, NEW p \in Ports, FlushAcked(p)
    PROVE  FlushRequests'
  <1>1. sig["codecFlush"] /\ ~sig'["codecFlush"] /\ UNCHANGED <<requests, sent>>
    BY DEF FlushAcked, Consume, Types, SigType, Sigs
  <1>2. ASSUME NEW q \in Ports PROVE ~Has(requests', <<"FLUSH", q>>)
    <2>1. ~Has(requests, <<"FLUSH", q>>)
      BY <1>1 DEF FlushRequests
    <2>2. QED
      BY <1>1, <2>1 DEF Has
  <1>3. \A q \in Ports : ~Has(requests', <<"FLUSH", q>>)
    BY <1>2 DEF Has
  <1>4. \A i, j \in 1..Len(requests') : requests'[i][1] = "FLUSH" /\ requests'[j][1] = "FLUSH" => i = j
    <2>1. requests' = requests
      BY <1>1
    <2>2. \A i, j \in 1..Len(requests) : requests[i][1] = "FLUSH" /\ requests[j][1] = "FLUSH" => i = j
      BY DEF FlushRequests
    <2>3. QED
      BY <2>1, <2>2
  <1>5. ~sig'["codecFlush"]
    BY <1>1
  <1>6. QED
    BY <1>3, <1>4, <1>5 DEF FlushRequests

\* Every step keeps FlushRequests.
LEMMA FlushRequestsStep == Types /\ FlushRequests /\ [Next]_vars => FlushRequests'
<1> SUFFICES ASSUME Types, FlushRequests, [Next]_vars PROVE FlushRequests'
  OBVIOUS
<1>s. ASSUME NEW s, s # "codecFlush", NEW v, sig' = [sig EXCEPT ![s] = v] PROVE sig'["codecFlush"] = sig["codecFlush"]
  BY <1>s DEF Types, SigType, Sigs
<1>a. ASSUME UNCHANGED <<requests, sent, thread>>, sig'["codecFlush"] = sig["codecFlush"] PROVE FlushRequests'
  BY <1>a, RequestsKept
<1>b. ASSUME thread.pc # "flushing", UNCHANGED <<requests, sent>>, sig'["codecFlush"] = sig["codecFlush"] PROVE FlushRequests'
  BY <1>b, RequestsKept
<1>r. ASSUME NEW c, Reading(c), UNCHANGED <<requests, sent, sig>> PROVE FlushRequests'
  <2>1. thread.pc # "flushing"
    BY <1>r DEF Reading
  <2>2. QED
    BY <1>b, <1>r, <2>1
<1>0. ASSUME NEW c, SendCommand(c) PROVE FlushRequests'
  BY <1>0, <1>a DEF SendCommand
<1>1. CASE SendInvalid \/ ThisBufferCount
  BY <1>1, <1>a DEF SendInvalid, ThisBufferCount
<1>2. ASSUME NEW b, NEW k, ThisBuffer(b, k) PROVE FlushRequests'
  BY <1>2, <1>a DEF ThisBuffer
<1>3. ASSUME NEW b, AllocateBufferWaits(b) PROVE FlushRequests'
  BY <1>3, <1>a DEF AllocateBufferWaits
<1>4. ASSUME NEW b, NEW use, AllocateBuffer(b, use) PROVE FlushRequests'
  <2>1. sig'["codecFlush"] = sig["codecFlush"]
    BY <1>4 DEF AllocateBuffer, Types, SigType, Sigs
  <2>2. QED
    BY <1>4, <1>a, <2>1 DEF AllocateBuffer
<1>5. CASE UseBufferRefused
  <2>1. sig'["codecFlush"] = sig["codecFlush"]
    BY <1>5, <1>s DEF UseBufferRefused, Consume
  <2>2. QED
    BY <1>5, <1>a, <2>1 DEF UseBufferRefused
<1>6. ASSUME NEW b, FreeBuffer(b) PROVE FlushRequests'
  <2>1. sig'["codecFlush"] = sig["codecFlush"]
    BY <1>6, <1>s DEF FreeBuffer
  <2>2. QED
    BY <1>6, <1>a, <2>1 DEF FreeBuffer
<1>7. CASE SelectCommand
  BY <1>7, <1>b DEF SelectCommand
<1>8. ASSUME NEW s \in States, HandleWrongState(s) \/ HandleWaiting(s) PROVE FlushRequests'
  BY <1>8, <1>r DEF HandleWrongState, HandleWaiting
<1>9. ASSUME NEW c, HandleFails(c) PROVE FlushRequests'
  BY <1>9, <1>r DEF HandleFails
<1>10. CASE HandleIdleFromLoaded \/ HandleExecuting \/ HandleLoaded
  BY <1>10, <1>r DEF HandleIdleFromLoaded, HandleExecuting, HandleLoaded
<1>11. CASE LoadedToIdle \/ Stopped \/ IdleToLoaded
  <2>1. sig'["codecFlush"] = sig["codecFlush"] /\ thread.pc # "flushing"
    BY <1>11, <1>s DEF LoadedToIdle, Stopped, IdleToLoaded, Consume
  <2>2. QED
    BY <1>11, <1>b, <2>1 DEF LoadedToIdle, Stopped, IdleToLoaded
<1>12. CASE HandleStop \/ HandlePause
  <2>1. thread.pc # "flushing" /\ UNCHANGED <<sent, sig>>
    BY <1>12 DEF HandleStop, HandlePause, Reading
  <2>2. requests' \in {Append(requests, STOP), Append(requests, PAUSE)}
    BY <1>12 DEF HandleStop, HandlePause, STOP, PAUSE
  <2>3. QED
    BY <2>1, <2>2, RequestsKept
<1>13. CASE Destroy
  <2>1. thread.pc # "flushing" /\ UNCHANGED <<sent, sig>> /\ requests' = << >>
    BY <1>13 DEF Destroy
  <2>2. QED
    BY <2>1, RequestsKept
<1>14. CASE HandleInvalid
  <2>1. thread.pc # "flushing" /\ UNCHANGED <<sent, sig>>
    BY <1>14 DEF HandleInvalid, Reading
  <2>2. UNCHANGED requests \/ requests' = << >>
    BY <1>14 DEF HandleInvalid
  <2>3. QED
    BY <2>1, <2>2, RequestsKept
<1>15. ASSUME NEW x, HandlePortDisable(x) \/ HandleFlush(x) PROVE FlushRequests'
  BY <1>15, <1>r DEF HandlePortDisable, HandleFlush
<1>16. ASSUME NEW x, HandlePortEnable(x) PROVE FlushRequests'
  <2>1. sig'["codecFlush"] = sig["codecFlush"] /\ thread.pc # "flushing"
    BY <1>16, <1>s DEF HandlePortEnable, Reading
  <2>2. QED
    BY <1>16, <1>b, <2>1 DEF HandlePortEnable
<1>17. ASSUME NEW p, FlushDeferred(p) \/ FlushPending(p) PROVE FlushRequests'
  BY <1>17, <1>b DEF FlushDeferred, FlushPending
<1>18. ASSUME NEW p \in Ports, FlushSent(p) \/ FlushAcked(p) PROVE FlushRequests'
  BY <1>18, RequestFlush, RequestAcked
<1>19. ASSUME NEW b \in Buffers, HandleOutput(b) \/ (\E k \in Kinds, changed \in BOOLEAN : HandleInput(b, k, changed))
       PROVE  FlushRequests'
  <2>1. DataHandled(b)
    BY <1>19, OutputFacts, InputFacts
  <2>2. QED
    BY <2>1, RequestsKept DEF DataHandled
<1>20. CASE HandleDataFails
  BY <1>20, <1>b DEF HandleDataFails
<1>21. CASE FlushAck
  BY <1>21, RequestFlushed
<1>22. CASE StopAck
  <2>1. sig'["codecFlush"] = sig["codecFlush"]
    BY <1>22, <1>s DEF StopAck, Signal
  <2>2. QED
    BY <1>22, <2>1, RequestsKept DEF StopAck
<1>23. CASE PauseAck
  BY <1>23, RequestsKept DEF PauseAck
<1>24. CASE StopState \/ AllReturned \/ WaitForReturn \/ DspError
  BY <1>24, <1>a DEF StopState, AllReturned, WaitForReturn, DspError
<1>25. ASSUME NEW b, Processed(b) PROVE FlushRequests'
  BY <1>25, <1>a DEF Processed
<1>26. CASE UNCHANGED vars
  BY <1>26, <1>a DEF vars
<1>27. CASE Client
  BY <1>27, <1>0, <1>1, <1>2, <1>3, <1>4, <1>5, <1>6 DEF Client, Allocating, Freeing
<1>28. CASE ComponentThread
  BY <1>28, <1>7, <1>8, <1>9, <1>10, <1>11, <1>12, <1>13, <1>14, <1>15, <1>16, <1>17, <1>18, <1>19, <1>20
     DEF ComponentThread
<1>29. QED
  BY <1>21, <1>22, <1>23, <1>24, <1>25, <1>26, <1>27, <1>28 DEF Next, Callback

-----------------------------------------------------------------------------
(* A flushed port.                                                         *)

\* A step does not bring a buffer of the input port back into the component,
\* and a flush that runs goes on or has emptied the port.
Undisturbed ==
    /\ Trusted' => Trusted
    /\ ClearIn => ClearIn'
    /\ sent[In] => sent'[In]
    /\ CountedIn => CountedIn'
    /\ In \in client'.quiet => In \in client.quiet
    /\ Trusted' /\ In \in client.quiet /\ <<"Flush", In>> \in client.owed /\ <<"Flush", In>> \notin client'.owed
            => ClearIn' \/ sent'[In]
    /\ CountedIn /\ (sent[In] \/ Trusted') /\ FlushRunning => FlushRunning' \/ ClearIn'

\* The flushes and the disabling keep their places in the pipe.
LEMMA FlushedKept ==
    ASSUME Flushed, Undisturbed, DisableAt' \subseteq DisableAt, FlushAt \subseteq FlushAt'
    PROVE  Flushed'
  <1>1. In \in client'.quiet => CountedIn'
    BY DEF Flushed, Undisturbed
  <1>2. ASSUME Trusted', In \in client'.quiet PROVE ClearIn' \/ FlushRunning' \/ FlushAt' # {}
    BY <1>2 DEF Flushed, Undisturbed
  <1>3. ASSUME Trusted', In \in client'.quiet, <<"Flush", In>> \notin client'.owed PROVE ClearIn' \/ sent'[In]
    <2>1. Trusted /\ In \in client.quiet
      BY <1>3 DEF Undisturbed
    <2>2. CASE <<"Flush", In>> \in client.owed
      BY <1>3, <2>1, <2>2 DEF Undisturbed
    <2>3. CASE <<"Flush", In>> \notin client.owed
      BY <1>3, <2>1, <2>3 DEF Undisturbed, Flushed
    <2>4. QED
      BY <2>2, <2>3
  <1>4. ASSUME NEW n \in DisableAt', ~ClearIn'
        PROVE  sent'[In] /\ CountedIn' /\ (FlushRunning' \/ \E i \in FlushAt' : i < n)
    <2>1. n \in DisableAt /\ ~ClearIn
      BY <1>4 DEF Undisturbed
    <2>2. sent[In] /\ CountedIn /\ (FlushRunning \/ \E i \in FlushAt : i < n)
      BY <2>1 DEF Flushed
    <2>3. sent'[In] /\ CountedIn'
      BY <2>2 DEF Undisturbed
    <2>4. CASE FlushRunning
      BY <1>4, <2>2, <2>3, <2>4 DEF Undisturbed
    <2>5. CASE \E i \in FlushAt : i < n
      BY <2>3, <2>5
    <2>6. QED
      BY <2>2, <2>4, <2>5
  <1>5. QED
    BY <1>1, <1>2, <1>3, <1>4 DEF Flushed

\* The same, where the head of the command pipe is read.
LEMMA FlushedRead ==
    ASSUME Flushed, Undisturbed,
           \A n \in DisableAt' : n \in Nat /\ n + 1 \in DisableAt,
           \A i \in FlushAt : i \in Nat /\ (i = 1 => FlushRunning') /\ (i # 1 => i - 1 \in FlushAt')
    PROVE  Flushed'
  <1>1. In \in client'.quiet => CountedIn'
    BY DEF Flushed, Undisturbed
  <1>2. ASSUME Trusted', In \in client'.quiet PROVE ClearIn' \/ FlushRunning' \/ FlushAt' # {}
    <2>1. ClearIn \/ FlushRunning \/ FlushAt # {}
      BY <1>2 DEF Flushed, Undisturbed
    <2>2. CASE ClearIn \/ FlushRunning
      BY <1>2, <2>2 DEF Flushed, Undisturbed
    <2>3. CASE FlushAt # {}
      <3>1. PICK i \in FlushAt : TRUE
        BY <2>3
      <3>2. QED
        BY <3>1
    <2>4. QED
      BY <2>1, <2>2, <2>3
  <1>3. ASSUME Trusted', In \in client'.quiet, <<"Flush", In>> \notin client'.owed PROVE ClearIn' \/ sent'[In]
    <2>1. Trusted /\ In \in client.quiet
      BY <1>3 DEF Undisturbed
    <2>2. CASE <<"Flush", In>> \in client.owed
      BY <1>3, <2>1, <2>2 DEF Undisturbed
    <2>3. CASE <<"Flush", In>> \notin client.owed
      BY <1>3, <2>1, <2>3 DEF Undisturbed, Flushed
    <2>4. QED
      BY <2>2, <2>3
  <1>4. ASSUME NEW n \in DisableAt', ~ClearIn'
        PROVE  sent'[In] /\ CountedIn' /\ (FlushRunning' \/ \E i \in FlushAt' : i < n)
    <2>1. n \in Nat /\ n + 1 \in DisableAt /\ ~ClearIn
      BY <1>4 DEF Undisturbed
    <2>2. sent[In] /\ CountedIn /\ (FlushRunning \/ \E i \in FlushAt : i < n + 1)
      BY <2>1 DEF Flushed
    <2>3. sent'[In] /\ CountedIn'
      BY <2>2 DEF Undisturbed
    <2>4. CASE FlushRunning
      BY <1>4, <2>2, <2>3, <2>4 DEF Undisturbed
    <2>5. CASE \E i \in FlushAt : i < n + 1
      <3>1. PICK i \in FlushAt : i < n + 1
        BY <2>5
      <3>2. CASE i = 1
        BY <2>3, <3>1, <3>2
      <3>3. CASE i # 1
        <4>1. i - 1 \in FlushAt' /\ i - 1 < n
          BY <2>1, <3>1, <3>3
        <4>2. QED
          BY <2>3, <4>1
      <3>4. QED
        BY <3>2, <3>3
    <2>6. QED
      BY <2>2, <2>4, <2>5
  <1>5. QED
    BY <1>1, <1>2, <1>3, <1>4 DEF Flushed

\* Where the flushes and the disabling are in the command pipe: it is the
\* same, a command is written, or one is read.
LEMMA AtSame ==
    ASSUME UNCHANGED cmdPipe,
           thread'.pc = "command" => PipedIn' = {} \/ (thread.pc = "command" /\ PipedIn' \subseteq PipedIn)
    PROVE  DisableAt' \subseteq DisableAt /\ FlushAt \subseteq FlushAt'
  <1>1. DisableAt' \subseteq DisableAt
    BY DEF DisableAt
  <1>2. ASSUME NEW i \in FlushAt PROVE i \in FlushAt'
    <2>1. i \in 1..Len(cmdPipe) /\ cmdPipe[i] \in FlushIn /\ (i = 1 /\ thread.pc = "command" => PipedIn = {})
      BY DEF FlushAt
    <2>2. i = 1 /\ thread'.pc = "command" => PipedIn' = {}
      BY <2>1
    <2>3. QED
      BY <2>1, <2>2 DEF FlushAt
  <1>3. QED
    BY <1>1, <1>2

\* A command is written behind them.
LEMMA AtWritten ==
    ASSUME Types, NEW c \in Cmd, c # PDIn, cmdPipe' = Append(cmdPipe, c),
           thread'.pc = "command" => PipedIn' = {} \/ (thread.pc = "command" /\ PipedIn' \subseteq PipedIn)
    PROVE  DisableAt' \subseteq DisableAt /\ FlushAt \subseteq FlushAt'
  <1>0. /\ Len(cmdPipe) \in Nat /\ Len(cmdPipe') = Len(cmdPipe) + 1
        /\ \A i \in 1..Len(cmdPipe) : cmdPipe'[i] = cmdPipe[i]
        /\ cmdPipe'[Len(cmdPipe) + 1] = c
    BY AppendFacts DEF Types, CmdPipeType
  <1>1. ASSUME NEW i \in DisableAt' PROVE i \in DisableAt
    <2>1. i \in 1..Len(cmdPipe') /\ cmdPipe'[i] = PDIn
      BY DEF DisableAt, PDIn
    <2>2. i \in 1..Len(cmdPipe)
      BY <1>0, <2>1
    <2>3. QED
      BY <1>0, <2>1, <2>2 DEF DisableAt, PDIn
  <1>2. ASSUME NEW i \in FlushAt PROVE i \in FlushAt'
    <2>1. i \in 1..Len(cmdPipe) /\ cmdPipe[i] \in FlushIn /\ (i = 1 /\ thread.pc = "command" => PipedIn = {})
      BY DEF FlushAt
    <2>2. i = 1 /\ thread'.pc = "command" => PipedIn' = {}
      BY <2>1
    <2>3. i \in 1..Len(cmdPipe') /\ cmdPipe'[i] \in FlushIn
      BY <1>0, <2>1
    <2>4. QED
      BY <2>2, <2>3 DEF FlushAt
  <1>3. QED
    BY <1>1, <1>2

\* A command is read before them: each is one place nearer.
LEMMA AtRead ==
    ASSUME Types, NEW c, Reading(c), thread'.pc # "command", c \in FlushIn /\ PipedIn = {} => FlushRunning'
    PROVE  /\ \A n \in DisableAt' : n \in Nat /\ n + 1 \in DisableAt
           /\ \A i \in FlushAt : i \in Nat /\ (i = 1 => FlushRunning') /\ (i # 1 => i - 1 \in FlushAt')
  <1>1. /\ c = cmdPipe[1] /\ cmdPipe \in Seq(Cmd) /\ cmdPipe # << >> /\ cmdPipe' = Tail(cmdPipe) /\ thread.pc = "command"
    BY ReadingFacts DEF Types, CmdPipeType
  <1>2. /\ Len(cmdPipe) \in Nat /\ Len(cmdPipe) > 0 /\ Len(cmdPipe') = Len(cmdPipe) - 1
        /\ \A i \in 1..Len(cmdPipe) - 1 : cmdPipe'[i] = cmdPipe[i + 1]
    BY <1>1, TailFacts
  <1>3. ASSUME NEW n \in DisableAt' PROVE n \in Nat /\ n + 1 \in DisableAt
    <2>1. n \in 1..Len(cmdPipe') /\ cmdPipe'[n] = <<"PortDisable", In>>
      BY DEF DisableAt
    <2>2. n \in Nat /\ n + 1 \in 1..Len(cmdPipe) /\ cmdPipe[n + 1] = cmdPipe'[n]
      BY <1>2, <2>1
    <2>3. QED
      BY <2>1, <2>2 DEF DisableAt
  <1>4. ASSUME NEW i \in FlushAt PROVE i \in Nat /\ (i = 1 => FlushRunning') /\ (i # 1 => i - 1 \in FlushAt')
    <2>1. i \in 1..Len(cmdPipe) /\ cmdPipe[i] \in FlushIn /\ (i = 1 /\ thread.pc = "command" => PipedIn = {})
      BY DEF FlushAt
    <2>2. CASE i = 1
      BY <1>1, <2>1, <2>2
    <2>3. CASE i # 1
      <3>1. i \in Nat /\ i - 1 \in 1..Len(cmdPipe') /\ cmdPipe'[i - 1] = cmdPipe[i]
        BY <1>2, <2>1, <2>3
      <3>2. i - 1 \in FlushAt'
        BY <2>1, <3>1 DEF FlushAt
      <3>3. QED
        BY <2>3, <3>1, <3>2
    <2>4. QED
      BY <2>2, <2>3
  <1>5. QED
    BY <1>3, <1>4

\* The thread does not flush.
LEMMA NotRunning ==
    ASSUME FlushRequests, thread.pc \notin {"flush", "flushing"}
    PROVE  ~FlushRunning
  <1>1. In \in Ports
    BY DEF Ports
  <1>2. QED
    BY <1>1 DEF FlushRequests, FlushRunning

\* Buffers that were kept back go to LCML or to the client.
LEMMA ClearSame ==
    ASSUME UNCHANGED dataPipe, pend' \subseteq pend, lent' \subseteq lent \union pend
    PROVE  PipedIn' = PipedIn /\ (ClearIn => ClearIn')
  <1>1. Piped' = Piped
    BY PipedSame
  <1>2. QED
    BY <1>1 DEF PipedIn, ClearIn

\* The client sends nothing.
Quieter == client'.quiet = client.quiet /\ (CountedIn => CountedIn')

\* An event leaves the client's port quiet.
LEMMA KeptQuieter == Kept => Quieter
  BY DEF Kept, Quieter, CountedIn

\* So does a call that sends no buffer.
LEMMA ReadyQuieter ==
    ASSUME client'.quiet = client.quiet, client'.pc # "count"
    PROVE  Quieter
  BY DEF Quieter, CountedIn

\* The parts of a step that does not disturb the input port.
LEMMA CalmStep ==
    ASSUME Quieter, Trusted' => Trusted, sent[In] => sent'[In], ClearIn => ClearIn',
           Trusted' /\ <<"Flush", In>> \in client.owed => <<"Flush", In>> \in client'.owed,
           FlushRunning => FlushRunning'
    PROVE  Undisturbed
  <1>1. client'.quiet = client.quiet /\ (CountedIn => CountedIn')
    BY DEF Quieter, CountedIn
  <1>2. QED
    BY <1>1 DEF Undisturbed

\* A command that is no flush of the input port is read.
LEMMA FlushedCommand ==
    ASSUME Types, FlushRequests, Flushed, Quieter, Trusted' => Trusted, NEW c, Reading(c), c \notin FlushIn,
           thread'.pc # "command", sent[In] => sent'[In], ClearIn => ClearIn',
           Trusted' /\ <<"Flush", In>> \in client.owed => <<"Flush", In>> \in client'.owed
    PROVE  Flushed'
  <1>1. ~FlushRunning
    BY NotRunning, ReadingFacts
  <1>2. Undisturbed
    BY <1>1, CalmStep
  <1>3. QED
    BY <1>2, AtRead, FlushedRead

\* The thread goes on, and neither reads nor flushes.
LEMMA FlushedOn ==
    ASSUME FlushRequests, Flushed, Quieter, Trusted' => Trusted, UNCHANGED cmdPipe,
           thread.pc \notin {"flush", "flushing"}, thread'.pc # "command", sent[In] => sent'[In], ClearIn => ClearIn',
           Trusted' /\ <<"Flush", In>> \in client.owed => <<"Flush", In>> \in client'.owed
    PROVE  Flushed'
  <1>1. ~FlushRunning
    BY NotRunning
  <1>2. Undisturbed
    BY <1>1, CalmStep
  <1>3. QED
    BY <1>2, AtSame, FlushedKept

\* The thread does nothing.
LEMMA FlushedCalm ==
    ASSUME Flushed, Quieter, Trusted' => Trusted, UNCHANGED <<cmdPipe, dataPipe, thread>>, sent[In] => sent'[In],
           pend' \subseteq pend, lent' \subseteq lent, Has(requests, FLUSH(In)) => Has(requests', FLUSH(In)),
           Trusted' /\ <<"Flush", In>> \in client.owed => <<"Flush", In>> \in client'.owed
    PROVE  Flushed'
  <1>1. PipedIn' = PipedIn /\ (ClearIn => ClearIn')
    BY ClearSame
  <1>2. FlushRunning => FlushRunning'
    BY <1>1 DEF FlushRunning, FLUSH
  <1>3. Undisturbed
    BY <1>1, <1>2, CalmStep
  <1>4. QED
    BY <1>1, <1>3, AtSame, FlushedKept

\* The client sends a command.
LEMMA FlushedSend ==
    ASSUME Types, OneCommand, Places, Flushed, NEW c \in Commands, SendCommand(c)
    PROVE  Flushed'
  <1>0. c \in Cmd
    BY Mp3Assumption DEF Cmd
  <1>1. /\ client'.pc = "ready" /\ client.owed = {} /\ client'.owed = Completions(c)
        /\ client'.quiet = client.quiet \union (IF c[1] = "Flush" THEN Names(c[2]) ELSE {})
    BY SendFacts DEF Types
  <1>2. /\ Trusted /\ cmdPipe' = Append(cmdPipe, c)
        /\ UNCHANGED <<dataPipe, pend, lent, thread, requests, sent>>
    BY DEF SendCommand, MaySend
  <1>3. PipedIn' = PipedIn /\ (ClearIn => ClearIn') /\ (FlushRunning => FlushRunning')
    <2>1. PipedIn' = PipedIn /\ (ClearIn => ClearIn')
      BY <1>2, ClearSame
    <2>2. QED
      BY <1>2, <2>1 DEF FlushRunning
  <1>4. /\ Len(cmdPipe) \in Nat /\ Len(cmdPipe') = Len(cmdPipe) + 1
        /\ \A i \in 1..Len(cmdPipe) : cmdPipe'[i] = cmdPipe[i]
        /\ cmdPipe'[Len(cmdPipe) + 1] = c
        /\ thread.pc = "command" => Len(cmdPipe) # 0
    <2>1. cmdPipe \in Seq(Cmd) /\ (thread.pc = "command" => cmdPipe # << >>)
      BY DEF Types, CmdPipeType
    <2>2. QED
      BY <1>0, <1>2, <2>1, AppendFacts, TailFacts
  <1>5. FlushAt \subseteq FlushAt'
    <2>1. ASSUME NEW i \in FlushAt PROVE i \in FlushAt'
      <3>1. i \in 1..Len(cmdPipe) /\ cmdPipe[i] \in FlushIn /\ (i = 1 /\ thread.pc = "command" => PipedIn = {})
        BY DEF FlushAt
      <3>2. i \in 1..Len(cmdPipe') /\ cmdPipe'[i] \in FlushIn /\ (i = 1 /\ thread'.pc = "command" => PipedIn' = {})
        BY <1>2, <1>3, <1>4, <3>1
      <3>3. QED
        BY <3>2 DEF FlushAt
    <2>2. QED
      BY <2>1
  <1>6. CountedIn'
    BY <1>1 DEF CountedIn
  <1>7. In \in client'.quiet => In \in client.quiet \/ c \in FlushIn
    <2>1. CASE In \notin client.quiet /\ In \in client'.quiet
      <3>1. c[1] = "Flush" /\ In \in Names(c[2])
        BY <1>1, <2>1
      <3>2. c \in {"Flush"} \X {In, Out, All} /\ c[2] \in {In, All}
        BY <1>0, <3>1 DEF Cmd, Names, In, Out, All
      <3>3. QED
        BY <3>2 DEF FlushIn
    <2>2. QED
      BY <2>1
  <1>8. ASSUME c \in FlushIn PROVE Len(cmdPipe) + 1 \in FlushAt' /\ <<"Flush", In>> \in client'.owed
    <2>1. Len(cmdPipe) + 1 \in 1..Len(cmdPipe') /\ cmdPipe'[Len(cmdPipe) + 1] \in FlushIn
          /\ ~(Len(cmdPipe) + 1 = 1 /\ thread'.pc = "command")
      BY <1>2, <1>4, <1>8
    <2>2. In \in Names(c[2]) /\ c[1] = "Flush"
      BY <1>8 DEF FlushIn, Names, Ports
    <2>3. QED
      BY <1>1, <2>1, <2>2 DEF FlushAt, Completions
  <1>9. In \in client'.quiet => ClearIn' \/ FlushRunning' \/ FlushAt' # {}
    BY <1>2, <1>3, <1>5, <1>7, <1>8 DEF Flushed
  <1>10. In \in client'.quiet /\ <<"Flush", In>> \notin client'.owed => ClearIn' \/ sent'[In]
    BY <1>1, <1>2, <1>3, <1>7, <1>8 DEF Flushed
  <1>11. ASSUME NEW n \in DisableAt'
         PROVE  ClearIn' \/ (sent'[In] /\ CountedIn' /\ (FlushRunning' \/ \E i \in FlushAt' : i < n))
    <2>1. n \in 1..Len(cmdPipe') /\ cmdPipe'[n] = PDIn
      BY DEF DisableAt, PDIn
    <2>2. Unread = {}
      BY <1>1, <1>2, NothingOwed DEF NothingAwaited
    <2>3. n = Len(cmdPipe) + 1 /\ c = PDIn
      <3>1. CASE n \in 1..Len(cmdPipe)
        <4>1. cmdPipe[n] = PDIn
          BY <1>4, <2>1, <3>1
        <4>2. n \in Unread
          BY <3>1, <4>1 DEF Unread, Answered, PDIn
        <4>3. QED
          BY <2>2, <4>2
      <3>2. CASE n \notin 1..Len(cmdPipe)
        BY <1>4, <2>1, <3>2
      <3>3. QED
        BY <3>1, <3>2
    <2>4. In \in client.quiet \/ \A b \in BufsOf(In) : owner[b] # "comp"
      BY <2>3 DEF SendCommand, MaySend, PDIn, Names, In, All
    <2>5. CASE \A b \in BufsOf(In) : owner[b] # "comp"
      <3>1. ClearIn
        BY <2>5 DEF Places, ClearIn, Held
      <3>2. QED
        BY <1>3, <3>1
    <2>6. CASE In \in client.quiet
      <3>1. ClearIn \/ (sent[In] /\ (FlushRunning \/ FlushAt # {}))
        BY <1>1, <1>2, <2>6 DEF Flushed
      <3>2. \A i \in FlushAt : i < n
        BY <1>4, <2>3 DEF FlushAt
      <3>3. QED
        BY <1>2, <1>3, <1>5, <1>6, <3>1, <3>2
    <2>7. QED
      BY <2>4, <2>5, <2>6
  <1>12. QED
    BY <1>6, <1>9, <1>10, <1>11 DEF Flushed

\* The client sends a buffer: the port is no longer quiet.
LEMMA FlushedBuffer ==
    ASSUME Types, OneCommand, Places, Flushed, NEW b \in Buffers, NEW k \in Kinds, ThisBuffer(b, k), Trusted' => Trusted
    PROVE  Flushed'
  <1>1. /\ client'.pc = "count" /\ client'.buf = b /\ client'.owed = client.owed
        /\ client'.quiet = client.quiet \ {PortOf[b]}
    BY ThisBufferFacts DEF Types
  <1>2. /\ Trusted /\ MayFill(PortOf[b]) /\ owner[b] = "client" /\ UNCHANGED <<cmdPipe, thread, requests, sent, pend, lent>>
    BY DEF ThisBuffer, MayFill
  <1>3. PortOf[b] \in {In, Out} /\ In # Out
    BY Mp3Assumption DEF Ports, In, Out
  <1>4. Piped' = Piped \union {b}
    <2>1. b \notin Piped
      BY <1>2 DEF Places, Held
    <2>2. QED
      BY <2>1, PipedPush DEF ThisBuffer, Places
  <1>5. CASE PortOf[b] = Out
    <2>1. PipedIn' = PipedIn /\ (ClearIn => ClearIn')
      BY <1>2, <1>3, <1>4, <1>5 DEF PipedIn, ClearIn, BufsOf
    <2>2. FlushRunning => FlushRunning'
      BY <1>2, <2>1 DEF FlushRunning
    <2>3. CountedIn' /\ (In \in client'.quiet => In \in client.quiet)
      BY <1>1, <1>3, <1>5 DEF CountedIn
    <2>4. Undisturbed
      BY <1>1, <1>2, <2>1, <2>2, <2>3 DEF Undisturbed
    <2>5. QED
      BY <1>2, <2>1, <2>4, AtSame, FlushedKept
  <1>6. CASE PortOf[b] = In
    <2>1. In \notin client'.quiet
      BY <1>1, <1>6
    <2>2. ASSUME NEW n \in DisableAt PROVE FALSE
      <3>1. n \in 1..Len(cmdPipe) /\ cmdPipe[n] = PDIn
        BY DEF DisableAt, PDIn
      <3>2. n \in Unread
        BY <3>1 DEF Unread, Answered, PDIn
      <3>3. client.cmd = PDIn /\ client.owed = Completions(PDIn)
        BY <1>2, <3>1, <3>2 DEF OneCommand, AwaitedWhenTrusted, Awaits
      <3>4. PDIn \in Cmd
        BY DEF PDIn, Cmd
      <3>5. client.owed # {}
        BY <3>3, <3>4, NotEmpty
      <3>6. ~(client.cmd[1] \in {"PortDisable", "PortEnable"} /\ In \in Names(client.cmd[2]))
        BY <1>2, <1>6, <3>5 DEF MayFill
      <3>7. QED
        BY <3>3, <3>6 DEF PDIn, Names, Ports
    <2>3. DisableAt' = DisableAt
      BY <1>2 DEF DisableAt
    <2>4. QED
      BY <2>1, <2>2, <2>3 DEF Flushed
  <1>7. QED
    BY <1>3, <1>5, <1>6

\* The input port is flushed first.
LEMMA InFirst ==
    ASSUME NEW S \in SUBSET Ports, In \in S
    PROVE  Min(S) = In
  <1>1. In \in S /\ \A y \in S : In <= y
    BY DEF Ports, In, Out
  <1>2. \A x \in S : (\A y \in S : x <= y) => x = In
    BY DEF Ports, In, Out
  <1>3. QED
    BY <1>1, <1>2 DEF Min

\* The flush that runs is of the input port, whose part of the pipe is empty.
LEMMA RunningIn ==
    ASSUME Types, FlushRequests, FlushRunning, thread.pc = "flush"
    PROVE  Min(thread.todo) = In /\ PipedIn = {}
  <1>1. In \in Ports /\ thread.todo \in SUBSET Ports
    BY ThreadFacts DEF Types, Ports
  <1>2. In \in thread.todo /\ PipedIn = {}
    BY <1>1 DEF FlushRunning, FlushRequests
  <1>3. QED
    BY <1>1, <1>2, InFirst

\* The count of what is in the pipe is right once everything is counted.
LEMMA PipedCounted ==
    ASSUME Types, Counts, CountedIn
    PROVE  unhandled[In] = 0 <=> PipedIn = {}
  <1>1. In \in Ports
    BY DEF Ports
  <1>2. Uncounted(In) = 0
    BY DEF Uncounted, CountedIn
  <1>3. IsFiniteSet(PipedIn) /\ Cardinality(PipedIn) \in Nat
    BY Mp3Assumption, PipedIndex, FS_Subset, FS_CardinalityType DEF PipedIn
  <1>4. unhandled[In] = Cardinality(PipedIn)
    <2>1. unhandled[In] = Cardinality(PipedIn) - Uncounted(In)
      BY <1>1 DEF Counts, PipedIn
    <2>2. QED
      BY <1>2, <1>3, <2>1
  <1>5. Cardinality(PipedIn) = 0 <=> PipedIn = {}
    BY <1>3, FS_EmptySet
  <1>6. QED
    BY <1>4, <1>5

\* A flush that is put off keeps Flushed.
LEMMA FlushedDeferred ==
    ASSUME Types, FlushRequests, Counts, Flushed, Kept, Trusted' => Trusted, NEW p \in Ports, FlushDeferred(p)
    PROVE  Flushed'
  <1>1. /\ thread.pc = "flush" /\ p = Min(thread.todo) /\ unhandled[p] # 0 /\ thread'.pc # "command"
        /\ UNCHANGED <<client, dataPipe, pend, lent, sent, cmdPipe>>
    BY DEF FlushDeferred, FlushDone, Select
  <1>2. ~(CountedIn /\ FlushRunning)
    BY <1>1, RunningIn, PipedCounted
  <1>3. ClearIn => ClearIn'
    BY <1>1, ClearSame
  <1>4. Quieter
    BY KeptQuieter
  <1>5. Undisturbed
    BY <1>1, <1>2, <1>3, <1>4 DEF Undisturbed, Quieter
  <1>6. QED
    BY <1>1, <1>5, AtSame, FlushedKept

\* A flush that goes to LCML keeps Flushed.
LEMMA FlushedSent ==
    ASSUME Types, FlushRequests, Flushed, Kept, Trusted' => Trusted, NEW p \in Ports, FlushSent(p)
    PROVE  Flushed'
  <1>1. /\ thread.pc = "flush" /\ p = Min(thread.todo) /\ requests' = Append(requests, FLUSH(p)) /\ thread'.pc = "flushing"
        /\ UNCHANGED <<client, dataPipe, pend, lent, sent, cmdPipe>>
    BY DEF FlushSent, FLUSH, Types, ThreadType
  <1>2. ClearIn => ClearIn' /\ PipedIn' = PipedIn
    BY <1>1, ClearSame
  <1>3. ASSUME FlushRunning PROVE FlushRunning'
    <2>1. p = In /\ PipedIn = {}
      BY <1>1, <1>3, RunningIn
    <2>2. FLUSH(p) \in Req
      BY DEF FLUSH, Req
    <2>3. Has(requests', FLUSH(In))
      BY <1>1, <2>1, <2>2, RequestAppend
    <2>4. PipedIn' = {}
      BY <1>1, <2>1, ClearSame
    <2>5. QED
      BY <2>3, <2>4 DEF FlushRunning, FLUSH
  <1>4. Undisturbed
    BY <1>1, <1>2, <1>3, KeptQuieter, CalmStep
  <1>5. QED
    BY <1>1, <1>4, AtSame, FlushedKept

\* A flush that returns what was kept back keeps Flushed.
LEMMA FlushedPending ==
    ASSUME Types, FlushRequests, Counts, Flushed, Kept, Trusted' => Trusted, NEW p \in Ports, FlushPending(p)
    PROVE  Flushed'
  <1>1. /\ thread.pc = "flush" /\ p = Min(thread.todo) /\ unhandled[p] = 0 /\ ~DspFlushed(p) /\ thread'.pc # "command"
        /\ pend' = pend \ KeptBack(p) /\ Complete({<<"Flush", p>>})
        /\ hist' = [hist EXCEPT !.missed = hist.missed \/ lent \intersect BufsOf(p) # {}]
        /\ UNCHANGED <<dataPipe, lent, sent, cmdPipe>>
    BY DEF FlushPending, FlushDone, Select
  <1>2. Trusted' => lent \intersect BufsOf(p) = {}
    BY <1>1 DEF Trusted, Types, HistType
  <1>3. PipedIn' = PipedIn /\ (ClearIn => ClearIn')
    BY <1>1, ClearSame
  <1>4. client'.owed = client.owed \ {<<"Flush", p>>}
    BY <1>1, CompleteFacts DEF Types
  <1>5. CASE p = In
    <2>1. ~sent[In]
      BY <1>1, <1>5 DEF DspFlushed, In, Out
    <2>2. ASSUME CountedIn, Trusted' PROVE ClearIn'
      <3>1. PipedIn = {}
        BY <1>1, <1>5, <2>2, PipedCounted
      <3>2. Piped' = Piped
        BY <1>1, PipedSame
      <3>3. QED
        BY <1>1, <1>2, <1>5, <2>2, <3>1, <3>2 DEF ClearIn, PipedIn, KeptBack
    <2>3. In \in client.quiet => CountedIn
      BY DEF Flushed
    <2>4. Undisturbed
      BY <1>1, <1>3, <2>1, <2>2, <2>3, KeptQuieter DEF Undisturbed, Quieter
    <2>5. QED
      BY <1>1, <2>4, AtSame, FlushedKept
  <1>6. CASE p # In
    <2>1. ~FlushRunning
      BY <1>1, <1>6, RunningIn
    <2>2. <<"Flush", In>> \in client.owed => <<"Flush", In>> \in client'.owed
      BY <1>4, <1>6
    <2>3. Undisturbed
      BY <1>1, <1>3, <2>1, <2>2, KeptQuieter, CalmStep
    <2>4. QED
      BY <1>1, <2>3, AtSame, FlushedKept
  <1>7. QED
    BY <1>5, <1>6

\* The end of a flush keeps Flushed.
LEMMA FlushedAcked ==
    ASSUME Types, FlushRequests, Flushed, Kept, Trusted' => Trusted, NEW p \in Ports, FlushAcked(p)
    PROVE  Flushed'
  <1>1. /\ thread.pc = "flushing" /\ sig["codecFlush"] /\ thread'.pc # "command"
        /\ UNCHANGED <<client, dataPipe, pend, lent, sent, cmdPipe>>
    BY DEF FlushAcked, Consume, FlushDone, Select
  <1>2. In \in Ports
    BY DEF Ports
  <1>3. ~FlushRunning
    BY <1>1, <1>2 DEF FlushRunning, FlushRequests
  <1>4. ClearIn => ClearIn'
    BY <1>1, ClearSame
  <1>5. Undisturbed
    BY <1>1, <1>3, <1>4, KeptQuieter, CalmStep
  <1>6. QED
    BY <1>1, <1>5, AtSame, FlushedKept

\* LCML's answer to a flush keeps Flushed.
LEMMA FlushedAck ==
    ASSUME Types, FlushRequests, Flushed, Kept, Trusted' => Trusted, FlushAck
    PROVE  Flushed'
  <1> DEFINE p == Head(requests)[2]
  <1>1. /\ requests # << >> /\ Head(requests)[1] = "FLUSH" /\ Due = {} /\ requests' = Tail(requests)
        /\ pend' = pend \ KeptBack(p) /\ Complete({<<"Flush", p>>})
        /\ UNCHANGED <<dataPipe, lent, sent, cmdPipe, thread>>
    BY DEF FlushAck
  <1>2. p \in Ports /\ Head(requests) = FLUSH(p) /\ sent[p] /\ thread.pc = "flushing"
    BY <1>1, RequestFacts, RequestFlushed DEF FLUSH
  <1>3. lent \intersect BufsOf(p) = {}
    BY <1>1 DEF Due
  <1>4. client'.owed = client.owed \ {<<"Flush", p>>}
    BY <1>1, CompleteFacts DEF Types
  <1> HIDE DEF p
  <1>5. Piped' = Piped
    BY <1>1, PipedSame
  <1>6. PipedIn' = PipedIn /\ (ClearIn => ClearIn')
    BY <1>1, ClearSame
  <1>7. CASE p = In
    <2>1. FlushRunning => ClearIn'
      BY <1>1, <1>3, <1>5, <1>7 DEF FlushRunning, ClearIn, PipedIn, KeptBack
    <2>2. Undisturbed
      BY <1>1, <1>2, <1>6, <1>7, <2>1, KeptQuieter DEF Undisturbed, Quieter
    <2>3. QED
      BY <1>1, <1>2, <2>2, AtSame, FlushedKept
  <1>8. CASE p # In
    <2>1. Head(requests) # FLUSH(In)
      BY <1>2, <1>8 DEF FLUSH
    <2>2. Has(requests, FLUSH(In)) => Has(requests', FLUSH(In))
      BY <1>1, <2>1, RequestTail
    <2>3. <<"Flush", In>> \in client.owed => <<"Flush", In>> \in client'.owed
      BY <1>4, <1>8
    <2>4. QED
      BY <1>1, <2>2, <2>3, KeptQuieter, FlushedCalm
  <1>9. QED
    BY <1>7, <1>8

\* A buffer is handled.
LEMMA FlushedHandled ==
    ASSUME Types, FlushRequests, Flushed, Places, Trusted' => Trusted, NEW b \in Buffers, DataHandled(b)
    PROVE  Flushed'
  <1>1. thread.pc = "select" /\ UNCHANGED <<client, thread, requests>>
    BY DEF DataHandled
  <1>2. In \in Ports
    BY DEF Ports
  <1>3. sent[In] => sent'[In]
    BY <1>2 DEF DataHandled
  <1>4. ~FlushRunning
    BY <1>1, NotRunning
  <1>5. b \in Piped /\ Piped' = Piped \ {b}
    BY PlacesHandled
  <1>6. pend' \subseteq pend \union {b} /\ lent' \subseteq lent \union {b}
    BY DEF DataHandled, GoesBack, GoesToDsp, IsKept, IsDropped, IsCounted
  <1>7. ClearIn => ClearIn'
    BY <1>5, <1>6 DEF ClearIn
  <1>8. Quieter
    BY <1>1 DEF Quieter, CountedIn
  <1>9. Undisturbed
    BY <1>1, <1>3, <1>4, <1>7, <1>8, CalmStep
  <1>10. CASE UNCHANGED cmdPipe
    BY <1>1, <1>9, <1>10, AtSame, FlushedKept
  <1>11. CASE cmdPipe' = Append(cmdPipe, <<"Flush", PortOf[b]>>)
    <2>1. PortOf[b] \in {In, Out, All}
      BY Mp3Assumption DEF Ports
    <2>2. <<"Flush", PortOf[b]>> \in Cmd /\ <<"Flush", PortOf[b]>> # PDIn
      BY <2>1 DEF Cmd, PDIn
    <2>3. QED
      BY <1>1, <1>9, <1>11, <2>2, AtWritten, FlushedKept
  <1>12. QED
    BY <1>10, <1>11 DEF DataHandled

\* A flush is read.
LEMMA FlushedFlush ==
    ASSUME Types, FlushRequests, Flushed, Kept, Trusted' => Trusted, NEW x \in {In, Out, All}, HandleFlush(x)
    PROVE  Flushed'
  <1>1. /\ Reading(<<"Flush", x>>) /\ thread'.pc = "flush" /\ thread'.todo = Names(x)
        /\ UNCHANGED <<client, dataPipe, pend, lent, sent>>
    BY DEF HandleFlush
  <1>2. PipedIn' = PipedIn /\ (ClearIn => ClearIn')
    BY <1>1, ClearSame
  <1>3. ~FlushRunning
    BY <1>1, NotRunning DEF Reading
  <1>4. Undisturbed
    BY <1>1, <1>2, <1>3, KeptQuieter, CalmStep
  <1>5. <<"Flush", x>> \in FlushIn /\ PipedIn = {} => FlushRunning'
    <2>1. <<"Flush", x>> \in FlushIn => In \in Names(x)
      BY DEF FlushIn, Names, Ports
    <2>2. QED
      BY <1>1, <1>2, <2>1 DEF FlushRunning
  <1>6. QED
    BY <1>1, <1>4, <1>5, AtRead, FlushedRead

\* The client's calls keep Flushed.
LEMMA FlushedClient ==
    ASSUME Types, OneCommand, Places, Flushed, Client, Trusted' => Trusted
    PROVE  Flushed'
<1>0. client \in ClientType
  BY DEF Types
<1>a. ASSUME Quieter, UNCHANGED <<cmdPipe, dataPipe, thread, sent, pend, lent, requests>>,
             Trusted' /\ <<"Flush", In>> \in client.owed => <<"Flush", In>> \in client'.owed
      PROVE  Flushed'
  BY <1>a, FlushedCalm
<1>1. ASSUME NEW c \in Commands, SendCommand(c) PROVE Flushed'
  BY <1>1, FlushedSend
<1>2. CASE SendInvalid
  <2>1. Quieter /\ ~Trusted'
    BY <1>0, <1>2, InvalidateFacts, KeptQuieter DEF SendInvalid, Trusted
  <2>2. QED
    BY <1>2, <1>a, <2>1 DEF SendInvalid
<1>3. ASSUME NEW b \in Buffers, NEW k \in Kinds, ThisBuffer(b, k) PROVE Flushed'
  BY <1>3, FlushedBuffer
<1>4. CASE ThisBufferCount
  <2>1. client' = [client EXCEPT !.pc = "ready", !.buf = NULL]
    BY <1>4 DEF ThisBufferCount
  <2>2. Quieter /\ client'.owed = client.owed
    <3>1. client'.pc # "count" /\ client'.quiet = client.quiet /\ client'.owed = client.owed
      BY <1>0, <2>1 DEF ClientType
    <3>2. QED
      BY <3>1, ReadyQuieter
  <2>3. QED
    BY <1>4, <1>a, <2>2 DEF ThisBufferCount
<1>5. ASSUME NEW b \in Buffers, AllocateBufferWaits(b) PROVE Flushed'
  <2>1. client' = [client EXCEPT !.pc = "alloc", !.buf = b]
    BY <1>5 DEF AllocateBufferWaits
  <2>2. Quieter /\ client'.owed = client.owed
    <3>1. client'.pc # "count" /\ client'.quiet = client.quiet /\ client'.owed = client.owed
      BY <1>0, <2>1 DEF ClientType
    <3>2. QED
      BY <3>1, ReadyQuieter
  <2>3. QED
    BY <1>5, <1>a, <2>2 DEF AllocateBufferWaits
<1>6. ASSUME NEW b \in Buffers, NEW use \in BOOLEAN, AllocateBuffer(b, use) PROVE Flushed'
  <2>1. client' = [client EXCEPT !.pc = "ready", !.buf = NULL]
    BY <1>6 DEF AllocateBuffer
  <2>2. Quieter /\ client'.owed = client.owed
    <3>1. client'.pc # "count" /\ client'.quiet = client.quiet /\ client'.owed = client.owed
      BY <1>0, <2>1 DEF ClientType
    <3>2. QED
      BY <3>1, ReadyQuieter
  <2>3. <<"PortEnable", dec.enableParam>> \in Cmd /\ <<"PortEnable", dec.enableParam>> # PDIn
    BY DEF Types, DecType, Cmd, PDIn
  <2>4. UNCHANGED <<dataPipe, thread, sent, pend, lent, requests>>
    BY <1>6 DEF AllocateBuffer
  <2>5. PipedIn' = PipedIn /\ (ClearIn => ClearIn')
    BY <2>4, ClearSame
  <2>6. FlushRunning => FlushRunning'
    BY <2>4, <2>5 DEF FlushRunning
  <2>7. Undisturbed
    BY <2>2, <2>4, <2>5, <2>6, CalmStep
  <2>8. CASE UNCHANGED cmdPipe
    BY <1>a, <2>2, <2>4, <2>8
  <2>9. CASE cmdPipe' = Append(cmdPipe, <<"PortEnable", dec.enableParam>>)
    BY <2>3, <2>4, <2>5, <2>7, <2>9, AtWritten, FlushedKept
  <2>10. QED
    BY <1>6, <2>8, <2>9 DEF AllocateBuffer
<1>7. CASE UseBufferRefused
  <2>1. client' = [client EXCEPT !.pc = "ready", !.buf = NULL]
    BY <1>7 DEF UseBufferRefused
  <2>2. Quieter /\ client'.owed = client.owed
    <3>1. client'.pc # "count" /\ client'.quiet = client.quiet /\ client'.owed = client.owed
      BY <1>0, <2>1 DEF ClientType
    <3>2. QED
      BY <3>1, ReadyQuieter
  <2>3. QED
    BY <1>7, <1>a, <2>2 DEF UseBufferRefused
<1>8. ASSUME NEW b \in Buffers, FreeBuffer(b) PROVE Flushed'
  <2>1. Complete({<<"PortDisable", PortOf[b]>>}) \/ UNCHANGED client
    BY <1>8 DEF FreeBuffer
  <2>2. Quieter /\ (<<"Flush", In>> \in client.owed => <<"Flush", In>> \in client'.owed)
    <3>1. CASE Complete({<<"PortDisable", PortOf[b]>>})
      <4>1. Kept /\ client'.owed = client.owed \ {<<"PortDisable", PortOf[b]>>}
        BY <1>0, <3>1, CompleteFacts
      <4>2. QED
        BY <4>1, KeptQuieter
    <3>2. CASE UNCHANGED client
      BY <3>2 DEF Quieter, CountedIn
    <3>3. QED
      BY <2>1, <3>1, <3>2
  <2>3. QED
    BY <1>8, <1>a, <2>2 DEF FreeBuffer
<1>9. QED
  BY <1>1, <1>2, <1>3, <1>4, <1>5, <1>6, <1>7, <1>8 DEF Client, Allocating, Freeing

\* Only a flush answers a flush.
LEMMA FlushOwed ==
    ASSUME client \in ClientType, NEW C, \A x \in C : x[1] # "Flush", Complete(C) \/ UNCHANGED client
    PROVE  <<"Flush", In>> \in client.owed => <<"Flush", In>> \in client'.owed
  <1>1. CASE Complete(C)
    <2>1. client'.owed = client.owed \ C
      BY <1>1, CompleteFacts
    <2>2. <<"Flush", In>> \notin C
      OBVIOUS
    <2>3. QED
      BY <2>1, <2>2
  <1>2. CASE UNCHANGED client
    BY <1>2
  <1>3. QED
    BY <1>1, <1>2

\* The component's thread keeps Flushed.
LEMMA FlushedThread ==
    ASSUME Types, OneCommand, FlushRequests, Places, Counts, Flushed, ComponentThread, Trusted' => Trusted
    PROVE  Flushed'
<1>0. client \in ClientType
  BY DEF Types
<1>k. Kept /\ Quieter
  BY OthersKeep, KeptQuieter
<1> DEFINE OwedKept == Trusted' /\ <<"Flush", In>> \in client.owed => <<"Flush", In>> \in client'.owed
<1>o. ASSUME NEW s, Complete({SetState(s)}) \/ UNCHANGED client PROVE OwedKept
  <2>1. \A x \in {SetState(s)} : x[1] # "Flush"
    BY DEF SetState
  <2>2. QED
    BY <1>0, <1>o, <2>1, FlushOwed
<1>i. ASSUME Invalidate PROVE OwedKept
  BY <1>0, <1>i, InvalidateFacts DEF Trusted
<1>u. ASSUME SetUp \/ UNCHANGED client PROVE OwedKept
  BY <1>o, <1>i, <1>u DEF SetUp
<1>s. \A s : SetState(s) \notin FlushIn
  BY DEF SetState, FlushIn
<1>c. ASSUME UNCHANGED dataPipe, pend' \subseteq pend, lent' \subseteq lent \union pend PROVE ClearIn => ClearIn'
  BY <1>c, ClearSame
<1> HIDE DEF OwedKept
<1>r. ASSUME NEW c, Reading(c), c \notin FlushIn, thread'.pc # "command", UNCHANGED <<sent, dataPipe>>,
             pend' \subseteq pend, lent' \subseteq lent \union pend, OwedKept
      PROVE  Flushed'
  BY <1>k, <1>c, <1>r, FlushedCommand DEF OwedKept
<1>n. ASSUME UNCHANGED <<cmdPipe, sent, dataPipe, pend>>, lent' \subseteq lent,
             thread.pc \notin {"flush", "flushing"}, thread'.pc # "command", OwedKept
      PROVE  Flushed'
  <2>1. ClearIn => ClearIn'
    BY <1>c, <1>n
  <2>2. QED
    BY <1>k, <1>n, <2>1, FlushedOn DEF OwedKept
<1>1. CASE SelectCommand
  <2>1. /\ thread.pc = "select" /\ dataPipe = << >> /\ UNCHANGED <<cmdPipe, sent, dataPipe, pend, lent, client, requests>>
    BY <1>1 DEF SelectCommand
  <2>2. PipedIn' = {}
    BY <2>1 DEF PipedIn, Piped
  <2>3. ~FlushRunning
    BY <2>1, NotRunning
  <2>4. Undisturbed
    BY <1>k, <2>1, <2>3, ClearSame, CalmStep
  <2>5. QED
    BY <2>1, <2>2, <2>4, AtSame, FlushedKept
<1>2. ASSUME NEW s \in States, HandleWrongState(s) PROVE Flushed'
  <2>1. OwedKept
    <3>1. SetState(s)[1] \in Answered /\ Reading(SetState(s))
      BY <1>2 DEF SetState, Answered, HandleWrongState
    <3>2. Trusted => client.owed = {SetState(s)}
      BY <3>1, OwnRead, CompletionKinds DEF Awaits
    <3>3. QED
      BY <3>2 DEF OwedKept, SetState
  <2>2. QED
    BY <1>2, <1>r, <1>s, <2>1 DEF HandleWrongState, Select
<1>3. ASSUME NEW s \in States, HandleWaiting(s) PROVE Flushed'
  BY <1>3, <1>o, <1>r, <1>s DEF HandleWaiting, Select
<1>4. ASSUME NEW c, HandleFails(c) PROVE Flushed'
  <2>1. c \notin FlushIn
    BY <1>4 DEF HandleFails, FlushIn, SetState
  <2>2. QED
    BY <1>4, <1>i, <1>r, <2>1 DEF HandleFails, Select
<1>5. CASE HandleIdleFromLoaded
  <2>1. thread'.pc # "command"
    BY <1>5 DEF HandleIdleFromLoaded, Select, Types, ThreadType
  <2>2. OwedKept
    BY <1>5, <1>u DEF HandleIdleFromLoaded
  <2>3. QED
    BY <1>5, <1>r, <1>s, <2>1, <2>2 DEF HandleIdleFromLoaded
<1>6. CASE LoadedToIdle
  BY <1>6, <1>n, <1>u DEF LoadedToIdle, Select
<1>7. CASE HandleStop
  <2>1. OwedKept
    BY <1>7, <1>u DEF HandleStop
  <2>2. QED
    BY <1>7, <1>r, <1>s, <2>1 DEF HandleStop
<1>8. CASE Stopped
  <2>1. OwedKept
    BY <1>8, <1>o, <1>u DEF Stopped
  <2>2. QED
    BY <1>8, <1>n, <2>1 DEF Stopped, Select
<1>9. CASE HandleExecuting
  <2>1. OwedKept
    BY <1>9, <1>o DEF HandleExecuting
  <2>2. pend' \subseteq pend /\ lent' \subseteq lent \union pend
    BY <1>9 DEF HandleExecuting
  <2>3. QED
    BY <1>9, <1>r, <1>s, <2>1, <2>2 DEF HandleExecuting, Select
<1>10. CASE HandlePause
  BY <1>10, <1>r, <1>s, <1>u DEF HandlePause, Select
<1>11. CASE HandleLoaded
  <2>1. thread'.pc # "command"
    BY <1>11 DEF HandleLoaded, Types, ThreadType
  <2>2. QED
    BY <1>11, <1>r, <1>s, <1>u, <2>1 DEF HandleLoaded
<1>12. CASE IdleToLoaded
  <2>1. thread'.pc # "command"
    BY <1>12 DEF IdleToLoaded, Types, ThreadType
  <2>2. QED
    BY <1>12, <1>n, <1>u, <2>1 DEF IdleToLoaded
<1>13. CASE Destroy
  <2>1. OwedKept /\ lent' \subseteq lent
    BY <1>13, <1>o DEF Destroy
  <2>2. QED
    BY <1>13, <1>n, <2>1 DEF Destroy, Select
<1>14. CASE HandleInvalid
  <2>1. OwedKept /\ lent' \subseteq lent
    BY <1>14, <1>i DEF HandleInvalid
  <2>2. QED
    BY <1>14, <1>r, <1>s, <2>1 DEF HandleInvalid, Select
<1>15. ASSUME NEW x, HandlePortDisable(x) PROVE Flushed'
  <2>1. OwedKept
    <3>1. \A y \in Completions(<<"PortDisable", x>>) : y[1] # "Flush"
      BY CompletionKinds
    <3>2. Complete(Completions(<<"PortDisable", x>>)) \/ UNCHANGED client
      BY <1>15 DEF HandlePortDisable
    <3>3. QED
      BY <1>0, <3>1, <3>2, FlushOwed DEF OwedKept
  <2>2. <<"PortDisable", x>> \notin FlushIn
    BY DEF FlushIn
  <2>3. QED
    BY <1>15, <1>r, <2>1, <2>2 DEF HandlePortDisable, Select
<1>16. ASSUME NEW x, HandlePortEnable(x) PROVE Flushed'
  <2>1. OwedKept
    <3>1. \A y \in Completions(<<"PortEnable", x>>) : y[1] # "Flush"
      BY CompletionKinds
    <3>2. Complete(Completions(<<"PortEnable", x>>)) \/ UNCHANGED client
      BY <1>16 DEF HandlePortEnable
    <3>3. QED
      BY <1>0, <3>1, <3>2, FlushOwed DEF OwedKept
  <2>2. <<"PortEnable", x>> \notin FlushIn
    BY DEF FlushIn
  <2>3. pend' \subseteq pend /\ lent' \subseteq lent \union pend
    BY <1>16 DEF HandlePortEnable
  <2>4. QED
    BY <1>16, <1>r, <2>1, <2>2, <2>3 DEF HandlePortEnable, Select
<1>17. ASSUME NEW x \in {In, Out, All}, HandleFlush(x) PROVE Flushed'
  BY <1>k, <1>17, FlushedFlush
<1>18. ASSUME NEW p \in Ports, FlushDeferred(p) \/ FlushSent(p) \/ FlushPending(p) \/ FlushAcked(p) PROVE Flushed'
  BY <1>k, <1>18, FlushedDeferred, FlushedSent, FlushedPending, FlushedAcked
<1>19. ASSUME NEW b \in Buffers, HandleOutput(b) \/ (\E k \in Kinds, changed \in BOOLEAN : HandleInput(b, k, changed))
       PROVE  Flushed'
  BY <1>19, OutputFacts, InputFacts, FlushedHandled
<1>20. CASE HandleDataFails
  <2>1. Piped' \subseteq Piped
    BY <1>20, PlacesFails
  <2>2. ClearIn => ClearIn'
    BY <1>20, <2>1 DEF ClearIn, HandleDataFails
  <2>3. thread'.pc # "command"
    BY <1>20 DEF HandleDataFails, Types, ThreadType
  <2>4. OwedKept
    BY <1>20, <1>i DEF HandleDataFails
  <2>5. QED
    BY <1>k, <1>20, <2>2, <2>3, <2>4, FlushedOn DEF HandleDataFails, OwedKept
<1>21. QED
  BY <1>1, <1>2, <1>3, <1>4, <1>5, <1>6, <1>7, <1>8, <1>9, <1>10, <1>11, <1>12, <1>13, <1>14, <1>15, <1>16,
     <1>17, <1>18, <1>19, <1>20 DEF ComponentThread

\* Every step keeps Flushed.
LEMMA FlushedStep ==
    Types /\ OneCommand /\ FlushRequests /\ Places /\ Counts /\ Flushed /\ [Next]_vars => Flushed'
<1> SUFFICES ASSUME Types, OneCommand, FlushRequests, Places, Counts, Flushed, [Next]_vars PROVE Flushed'
  OBVIOUS
<1>0. client \in ClientType
  BY DEF Types
<1>t. Trusted' => Trusted
  BY TrustKept
<1>a. ASSUME Callback \/ (\E b \in lent : Processed(b)) \/ DspError,
             UNCHANGED <<cmdPipe, dataPipe, thread, sent>>, pend' \subseteq pend, lent' \subseteq lent,
             Has(requests, FLUSH(In)) => Has(requests', FLUSH(In)),
             Trusted' /\ <<"Flush", In>> \in client.owed => <<"Flush", In>> \in client'.owed
      PROVE  Flushed'
  <2>1. Quieter
    BY <1>a, OthersKeep, KeptQuieter
  <2>2. QED
    BY <1>a, <1>t, <2>1, FlushedCalm
<1>1. CASE FlushAck
  <2>1. Kept
    BY <1>1, OthersKeep DEF Callback
  <2>2. QED
    BY <1>1, <1>t, <2>1, FlushedAck
<1>2. CASE StopAck \/ PauseAck
  <2>1. /\ requests # << >> /\ Head(requests)[1] # "FLUSH" /\ requests' = Tail(requests)
        /\ UNCHANGED <<cmdPipe, dataPipe, thread, sent, lent>> /\ pend' \subseteq pend
    BY <1>2 DEF StopAck, PauseAck
  <2>2. Has(requests, FLUSH(In)) => Has(requests', FLUSH(In))
    <3>1. Head(requests) # FLUSH(In)
      BY <2>1 DEF FLUSH
    <3>2. QED
      BY <2>1, <3>1, RequestTail
  <2>3. <<"Flush", In>> \in client.owed => <<"Flush", In>> \in client'.owed
    <3>1. Complete({SetState("Pause")}) \/ UNCHANGED client
      BY <1>2 DEF StopAck, PauseAck
    <3>2. \A x \in {SetState("Pause")} : x[1] # "Flush"
      BY DEF SetState
    <3>3. QED
      BY <1>0, <3>1, <3>2, FlushOwed
  <2>4. QED
    BY <1>2, <1>a, <2>1, <2>2, <2>3 DEF Callback
<1>3. CASE StopState \/ WaitForReturn
  BY <1>3, <1>a DEF Callback, StopState, WaitForReturn
<1>4. CASE AllReturned
  <2>1. <<"Flush", In>> \in client.owed => <<"Flush", In>> \in client'.owed
    <3>1. Complete({SetState(curState)})
      BY <1>4 DEF AllReturned
    <3>2. \A x \in {SetState(curState)} : x[1] # "Flush"
      BY DEF SetState
    <3>3. QED
      BY <1>0, <3>1, <3>2, FlushOwed
  <2>2. QED
    BY <1>4, <1>a, <2>1 DEF Callback, AllReturned
<1>5. CASE DspError
  <2>1. ~Trusted'
    BY <1>0, <1>5, InvalidateFacts DEF DspError, Trusted
  <2>2. QED
    BY <1>5, <1>a, <2>1 DEF DspError
<1>6. ASSUME NEW b \in lent, Processed(b) PROVE Flushed'
  BY <1>6, <1>a DEF Processed
<1>7. ASSUME NEW b \in Due, Processed(b) PROVE Flushed'
  <2>1. b \in lent
    BY <1>7 DEF Processed
  <2>2. QED
    BY <1>6, <1>7, <2>1
<1>8. CASE UNCHANGED vars
  <2>1. Quieter
    BY <1>8 DEF vars, Quieter, CountedIn
  <2>2. QED
    BY <1>8, <1>t, <2>1, FlushedCalm DEF vars
<1>9. CASE Client
  BY <1>9, <1>t, FlushedClient
<1>10. CASE ComponentThread
  BY <1>10, <1>t, FlushedThread
<1>11. QED
  BY <1>1, <1>2, <1>3, <1>4, <1>5, <1>6, <1>7, <1>8, <1>9, <1>10 DEF Next, Callback

-----------------------------------------------------------------------------
(* The inductive invariant.                                                *)

\* The invariant: the parts depend on each other (Places on OneCommand and
\* Flushing where a port is disabled, Flushed on Counts where a flush is put
\* off).
IInv == Types /\ Agreed /\ Stopping /\ OneCommand /\ Calling /\ Places /\ Counts /\ Flushing

\* The initial state is in the invariant.
LEMMA Initially == Init => IInv
<1> SUFFICES ASSUME Init PROVE IInv
  OBVIOUS
<1>1. Types
  BY TypesInit
<1>2. /\ client.pc = "ready" /\ client.told = "Loaded" /\ client.quiet = {} /\ curState = "Loaded"
      /\ owner = [b \in Buffers |-> "none"] /\ dec.disabling = FALSE
      /\ unhandled = [p \in Ports |-> 0] /\ unreturned = [p \in Ports |-> 0] /\ pend = {} /\ flagged = {}
      /\ cmdPipe = << >> /\ dataPipe = << >> /\ thread.pc = "select" /\ lent = {} /\ requests = << >>
      /\ callback = "idle" /\ hist.lost = {} /\ sig["codecFlush"] = FALSE
  BY DEF Init, EachPort, Select, Sigs
<1>3. /\ Len(cmdPipe) = 0 /\ Len(dataPipe) = 0 /\ Len(requests) = 0
      /\ \A c : ~Has(requests, c) /\ Sole(requests, c)
  BY <1>2, RequestsEmpty
<1>4. Held = {} /\ Piped = {} /\ Unread = {} /\ FlushAt = {} /\ DisableAt = {} /\ Distinct
  BY <1>2, <1>3 DEF Held, Piped, Unread, FlushAt, DisableAt, Distinct
<1>5. Agreed
  BY <1>2 DEF Agreed
<1>6. Stopping
  BY <1>2, <1>3 DEF Stopping
<1>7. OneCommand
  BY <1>2, <1>3, <1>4 DEF OneCommand, AwaitedWhenTrusted
<1>8. Calling
  BY <1>2 DEF Calling
<1>9. Places
  BY <1>2, <1>3, <1>4 DEF Places
<1>10. Counts
  <2>1. \A p \in Ports : Held \intersect BufsOf(p) = {} /\ Piped \intersect BufsOf(p) = {} /\ Uncounted(p) = 0
    BY <1>2, <1>4 DEF Uncounted
  <2>2. Cardinality({}) = 0
    BY FS_EmptySet
  <2>3. ASSUME NEW p \in Ports
        PROVE  /\ Cardinality(Held \intersect BufsOf(p)) = 0 /\ Cardinality(Piped \intersect BufsOf(p)) = 0
               /\ unreturned[p] = 0 /\ unhandled[p] = 0 /\ Uncounted(p) = 0
    BY <1>2, <2>1, <2>2
  <2>4. ASSUME NEW p \in Ports
        PROVE  /\ unreturned[p] = Cardinality(Held \intersect BufsOf(p)) - Uncounted(p)
               /\ unhandled[p] = Cardinality(Piped \intersect BufsOf(p)) - Uncounted(p)
    <3>1. PICK h, k, u : /\ h = Cardinality(Held \intersect BufsOf(p)) /\ k = Cardinality(Piped \intersect BufsOf(p))
                         /\ u = Uncounted(p)
      OBVIOUS
    <3>2. h = 0 /\ k = 0 /\ u = 0 /\ unreturned[p] = 0 /\ unhandled[p] = 0
      BY <2>3, <3>1
    <3>3. unreturned[p] = h - u /\ unhandled[p] = k - u
      BY <3>2
    <3>4. QED
      BY <3>1, <3>3
  <2>5. QED
    BY <2>4 DEF Counts
<1>11. FlushRequests
  BY <1>2, <1>3 DEF FlushRequests
<1>12. Flushed
  BY <1>2, <1>4 DEF Flushed
<1>13. QED
  BY <1>1, <1>5, <1>6, <1>7, <1>8, <1>9, <1>10, <1>11, <1>12 DEF IInv, Flushing

\* Every step keeps the invariant.
LEMMA Inductive == IInv /\ [Next]_vars => IInv'
  BY TypesStep, AgreedStep, StoppingStep, OneCommandStep, CallingStep, PlacesStep, CountsStep,
     FlushRequestsStep, FlushedStep DEF IInv, Flushing

\* The invariant holds in every behaviour of the specification.
LEMMA Invariant == Spec => []IInv
  BY Initially, Inductive, PTL DEF Spec

-----------------------------------------------------------------------------
(* What a client may rely on.                                              *)

\* The buffers of a port that the component has, or that are in the pipe, are
\* some of the buffers of the port.
LEMMA PartCounts ==
    ASSUME IInv, NEW p \in Ports
    PROVE  /\ Cardinality(Held \intersect BufsOf(p)) \in 0 .. Cardinality(BufsOf(p))
           /\ Cardinality(Piped \intersect BufsOf(p)) \in 0 .. Cardinality(BufsOf(p))
           /\ Cardinality(BufsOf(p)) \in Nat
           /\ IsFiniteSet(Held \intersect BufsOf(p)) /\ Cardinality(Held \intersect BufsOf(p)) \in Nat
  <1> DEFINE P == BufsOf(p)
  <1>1. IsFiniteSet(P)
    BY Mp3Assumption, FS_Subset DEF BufsOf
  <1>2. Held \intersect P \in SUBSET P /\ Piped \intersect P \in SUBSET P
    OBVIOUS
  <1> HIDE DEF P
  <1>3. /\ IsFiniteSet(Held \intersect P) /\ Cardinality(Held \intersect P) <= Cardinality(P)
        /\ IsFiniteSet(Piped \intersect P) /\ Cardinality(Piped \intersect P) <= Cardinality(P)
    BY <1>1, <1>2, FS_Subset
  <1>4. /\ Cardinality(P) \in Nat /\ Cardinality(Held \intersect P) \in Nat /\ Cardinality(Piped \intersect P) \in Nat
    BY <1>1, <1>3, FS_CardinalityType
  <1>5. QED
    BY <1>3, <1>4 DEF P

\* The private structure of the component and its three threads keep their
\* types, and neither count of buffers runs below -1 or above the number of
\* buffers, however late EmptyThisBuffer and FillThisBuffer count.
THEOREM TypeCorrect == Spec => []TypeOK
<1>1. IInv => TypeOK
  <2> SUFFICES ASSUME IInv PROVE TypeOK
    OBVIOUS
  <2>1. Types
    BY DEF IInv
  <2>2. /\ client.pc \in {"ready", "count", "alloc"} /\ client.told \in States
        /\ client.late \in 0..MaxLate /\ client.sent \in 0..MaxSent
    BY <2>1, ClientFields DEF Types
  <2>3. /\ thread.pc \in {"select", "command", "inLoaded", "stop", "inIdle", "destroy", "flush", "flushing", "exited"}
        /\ thread.todo \subseteq Ports
    BY <2>1 DEF Types, ThreadType
  <2>4. ASSUME NEW p \in Ports
        PROVE  {unhandled[p], unreturned[p]} \subseteq -1 .. Cardinality(BufsOf(p))
    <3>1. /\ unreturned[p] = Cardinality(Held \intersect BufsOf(p)) - Uncounted(p)
          /\ unhandled[p] = Cardinality(Piped \intersect BufsOf(p)) - Uncounted(p)
      BY DEF IInv, Counts
    <3>2. Uncounted(p) \in {0, 1}
      BY DEF Uncounted
    <3>3. PICK h, k, n \in Nat : /\ h = Cardinality(Held \intersect BufsOf(p)) /\ h <= n
                                 /\ k = Cardinality(Piped \intersect BufsOf(p)) /\ k <= n
                                 /\ n = Cardinality(BufsOf(p))
      BY PartCounts
    <3>4. unhandled[p] \in -1 .. n /\ unreturned[p] \in -1 .. n
      BY <3>1, <3>2, <3>3
    <3>5. QED
      BY <3>3, <3>4
  <2>5. /\ curState \in States /\ enabled \in PortFlags /\ owner \in OwnerType /\ sent \in PortFlags
        /\ deferred \in PortFlags /\ sig \in SigType /\ pend \subseteq Buffers /\ flagged \subseteq Buffers
        /\ lent \subseteq Buffers /\ callback \in {"idle", "stopping", "check", "asleep"} /\ faults \in 0..MaxFaults
    BY <2>1 DEF Types
  <2>6. QED
    BY <2>2, <2>3, <2>4, <2>5 DEF TypeOK, PortFlags, OwnerType, SigType
<1>2. QED
  BY <1>1, Invariant, PTL

\* The component is in the state that it told the client of, whatever commands
\* are unanswered, unless LCML's thread is on its way to report Idle.
THEOREM StatesAgree == Spec => []StateAgreed
<1>1. IInv => StateAgreed
  BY DEF IInv, Agreed, StateAgreed
<1>2. QED
  BY <1>1, Invariant, PTL

\* No flush, stop or disabled port gives the client a buffer that LCML and the
\* DSP still have.
THEOREM DspOwnership == Spec => []DspOwns
<1>1. IInv => DspOwns
  BY DEF IInv, Places, Held, DspOwns
<1>2. QED
  BY <1>1, Invariant, PTL

\* A buffer the component has is in the data pipe, kept back or with LCML, in
\* one of them only, unless it is recorded as lost; and bBufferPending marks
\* exactly those that LCML has.
THEOREM BuffersAccounted == Spec => []Accounted
<1>1. IInv => Accounted
  <2> SUFFICES ASSUME IInv PROVE Accounted
    OBVIOUS
  <2> DEFINE held == [pipe |-> Piped, kept |-> pend, lcml |-> lent]
             in(b) == { x \in DOMAIN held : b \in held[x] }
  <2>1. Types /\ Places
    BY DEF IInv
  <2>2. /\ Cardinality({}) = 0
        /\ \A x : Cardinality({x}) = 1
    BY FS_EmptySet, FS_Singleton
  <2>3. ASSUME NEW b \in Buffers, owner[b] = "comp"
        PROVE  Cardinality(in(b)) = IF b \in hist.lost THEN 0 ELSE 1
    <3>1. b \in Held
      BY <2>3 DEF Held
    <3>2. in(b) = { x \in {"pipe", "kept", "lcml"} :
                        (x = "pipe" /\ b \in Piped) \/ (x = "kept" /\ b \in pend) \/ (x = "lcml" /\ b \in lent) }
      OBVIOUS
    <3> HIDE DEF in
    <3>3. CASE b \in hist.lost
      <4>1. b \notin Piped /\ b \notin pend /\ b \notin lent
        BY <2>1, <3>3 DEF Places
      <4>2. in(b) = {}
        BY <3>2, <4>1
      <4>3. QED
        BY <2>2, <3>3, <4>2
    <3>4. CASE b \notin hist.lost
      <4>1. b \in Piped \/ b \in pend \/ b \in lent
        BY <2>1, <3>1, <3>4 DEF Places
      <4>2. CASE b \in Piped
        <5>1. b \notin pend /\ b \notin lent
          BY <2>1, <4>2 DEF Places
        <5>2. in(b) = {"pipe"}
          BY <3>2, <4>2, <5>1
        <5>3. QED
          BY <2>2, <3>4, <5>2
      <4>3. CASE b \in pend
        <5>1. b \notin Piped /\ b \notin lent
          BY <2>1, <4>3 DEF Places
        <5>2. in(b) = {"kept"}
          BY <3>2, <4>3, <5>1
        <5>3. QED
          BY <2>2, <3>4, <5>2
      <4>4. CASE b \in lent
        <5>1. b \notin Piped /\ b \notin pend
          BY <2>1, <4>4 DEF Places
        <5>2. in(b) = {"lcml"}
          BY <3>2, <4>4, <5>1
        <5>3. QED
          BY <2>2, <3>4, <5>2
      <4>5. QED
        BY <4>1, <4>2, <4>3, <4>4
    <3>5. QED
      BY <3>3, <3>4
  <2>4. (flagged \intersect Allocated) \ hist.lost = lent
    <3>1. lent \subseteq Held /\ Held \subseteq Allocated
      BY <2>1, HeldAllocated DEF Places
    <3>2. QED
      BY <2>1, <3>1 DEF Places
  <2>5. QED
    BY <2>3, <2>4 DEF Accounted
<1>2. QED
  BY <1>1, Invariant, PTL

\* unreturned, the difference of nEmptyThisBufferCount (nFillThisBufferCount)
\* and the matching count of buffers done, is the number of buffers of the
\* port that the component has, but for one that is not counted yet.
THEOREM CountsRight == Spec => []CountsMatch
<1>1. IInv => CountsMatch
  <2> SUFFICES ASSUME IInv, NEW p \in Ports
               PROVE  unreturned[p] = Cardinality({ b \in BufsOf(p) : owner[b] = "comp" })
                        - (IF client.pc = "count" /\ PortOf[client.buf] = p THEN 1 ELSE 0)
    BY DEF CountsMatch
  <2>1. { b \in BufsOf(p) : owner[b] = "comp" } = Held \intersect BufsOf(p)
    BY DEF Held, BufsOf
  <2>2. unreturned[p] = Cardinality(Held \intersect BufsOf(p)) - Uncounted(p)
    BY DEF IInv, Counts
  <2>3. QED
    BY <2>1, <2>2 DEF Uncounted
<1>2. QED
  BY <1>1, Invariant, PTL

\* Only MP3DEC_waitForAllBuffersToReturn takes LCML's thread from the check to
\* its next message.
LEMMA ReportedBy ==
    ASSUME Types, [Next]_vars, callback = "check", callback' = "idle"
    PROVE  AllReturned
<1>a. ASSUME NEW B, callback' = Awakened(B) PROVE FALSE
  BY <1>a DEF Awakened
<1>1. CASE Client
  BY <1>1 DEF Client, SendCommand, SendInvalid, ThisBuffer, ThisBufferCount, Allocating, AllocateBufferWaits,
     AllocateBuffer, UseBufferRefused, Freeing, FreeBuffer
<1>2. CASE ComponentThread
  <2>1. ASSUME NEW s \in States, HandleWrongState(s) \/ HandleWaiting(s) PROVE FALSE
    BY <2>1 DEF HandleWrongState, HandleWaiting
  <2>2. ASSUME NEW c, HandleFails(c) PROVE FALSE
    BY <2>2 DEF HandleFails
  <2>3. CASE SelectCommand \/ HandleStop \/ HandlePause \/ HandleLoaded \/ IdleToLoaded
    BY <2>3 DEF SelectCommand, HandleStop, HandlePause, HandleLoaded, IdleToLoaded
  <2>4. CASE HandleIdleFromLoaded \/ LoadedToIdle \/ Stopped \/ HandleExecuting \/ Destroy \/ HandleInvalid
    BY <2>4 DEF HandleIdleFromLoaded, LoadedToIdle, Stopped, HandleExecuting, Destroy, HandleInvalid
  <2>5. ASSUME NEW x, HandlePortDisable(x) \/ HandlePortEnable(x) \/ HandleFlush(x) PROVE FALSE
    BY <1>a, <2>5 DEF HandlePortDisable, HandlePortEnable, HandleFlush, ReturnAll
  <2>6. ASSUME NEW p, FlushDeferred(p) \/ FlushSent(p) \/ FlushPending(p) \/ FlushAcked(p) PROVE FALSE
    BY <1>a, <2>6 DEF FlushDeferred, FlushSent, FlushPending, FlushAcked, ReturnAll
  <2>7. ASSUME NEW b \in Buffers, HandleOutput(b) \/ (\E k \in Kinds, changed \in BOOLEAN : HandleInput(b, k, changed))
        PROVE  FALSE
    <3>1. DataHandled(b)
      BY <2>7, OutputFacts, InputFacts
    <3>2. QED
      BY <1>a, <3>1 DEF DataHandled, GoesBack, GoesToDsp, IsKept, IsDropped, IsCounted, ReturnAll
  <2>8. CASE HandleDataFails
    BY <2>8 DEF HandleDataFails
  <2>9. QED
    BY <1>2, <2>1, <2>2, <2>3, <2>4, <2>5, <2>6, <2>7, <2>8 DEF ComponentThread
<1>3. CASE FlushAck \/ StopAck \/ StopState \/ WaitForReturn \/ PauseAck \/ DspError
  BY <1>3 DEF FlushAck, StopAck, StopState, WaitForReturn, PauseAck, DspError
<1>4. ASSUME NEW b, Processed(b) PROVE FALSE
  BY <1>4 DEF Processed
<1>5. CASE UNCHANGED vars
  BY <1>5 DEF vars
<1>6. QED
  BY <1>1, <1>2, <1>3, <1>4, <1>5 DEF Next, Callback

\* Idle after Executing is reported only when every buffer of both ports is
\* back with the client, but for one that is not counted yet
\* (MP3DEC_waitForAllBuffersToReturn).
THEOREM IdleMeansEmpty == Spec => IdleEmpty
<1>1. ASSUME IInv, [Next]_vars, callback = "check", callback' = "idle", client.pc # "count", NEW b \in Buffers
      PROVE  owner[b] # "comp"
  <2>1. unreturned = EachPort(0)
    BY <1>1, ReportedBy DEF IInv, AllReturned
  <2>2. PICK p \in Ports : p = PortOf[b]
    BY Mp3Assumption
  <2>3. unreturned[p] = 0 /\ Uncounted(p) = 0
    BY <1>1, <2>1 DEF EachPort, Uncounted
  <2>4. unreturned[p] = Cardinality(Held \intersect BufsOf(p)) - Uncounted(p)
    BY <1>1 DEF IInv, Counts
  <2>5. IsFiniteSet(Held \intersect BufsOf(p)) /\ Cardinality(Held \intersect BufsOf(p)) \in Nat
    BY <1>1, PartCounts
  <2>6. Cardinality(Held \intersect BufsOf(p)) = 0
    BY <2>3, <2>4, <2>5
  <2> PICK S : S = Held \intersect BufsOf(p)
    OBVIOUS
  <2>7. S = {}
    BY <2>5, <2>6, FS_EmptySet
  <2>8. QED
    BY <2>2, <2>7 DEF Held, BufsOf
<1>2. IInv /\ [Next]_vars
        => [callback = "check" /\ callback' = "idle" /\ client.pc # "count" => \A b \in Buffers : owner[b] # "comp"]_vars
  BY <1>1
<1>3. QED
  BY <1>2, Invariant, PTL DEF Spec, IdleEmpty

-----------------------------------------------------------------------------
(* LCML's loan.                                                            *)

\* One stop at a time, and its answer wakes the thread that waits for it.
StopRequests ==
    /\ Has(requests, STOP) => thread.pc = "stop" /\ ~sig["codecStop"]
    /\ Sole(requests, STOP)
    /\ sig["codecStop"] => thread.pc = "stop"

\* The signal, the requests and the thread, where a step does not stop the
\* codec.
LEMMA StopKept ==
    ASSUME Types, StopRequests, sig'["codecStop"] = sig["codecStop"],
           thread.pc = "stop" => UNCHANGED thread,
           \/ UNCHANGED requests
           \/ requests # << >> /\ requests' = Tail(requests)
           \/ \E x \in Req : x # STOP /\ requests' = Append(requests, x)
           \/ requests' = << >>
    PROVE  StopRequests'
  <1>1. CASE UNCHANGED requests
    BY <1>1 DEF StopRequests, Has, Sole
  <1>2. CASE requests # << >> /\ requests' = Tail(requests)
    <2>1. (Has(requests', STOP) => Has(requests, STOP)) /\ (Sole(requests, STOP) => Sole(requests', STOP))
      BY <1>2, RequestTail
    <2>2. QED
      BY <2>1 DEF StopRequests
  <1>3. ASSUME NEW x \in Req, x # STOP, requests' = Append(requests, x) PROVE StopRequests'
    <2>1. (Has(requests', STOP) => Has(requests, STOP)) /\ (Sole(requests, STOP) => Sole(requests', STOP))
      BY <1>3, RequestAppend
    <2>2. QED
      BY <2>1 DEF StopRequests
  <1>4. CASE requests' = << >>
    <2>1. ~Has(requests', STOP) /\ Sole(requests', STOP)
      BY <1>4, RequestsEmpty
    <2>2. QED
      BY <2>1 DEF StopRequests
  <1>5. QED
    BY <1>1, <1>2, <1>3, <1>4

\* Every step keeps StopRequests.
LEMMA StopRequestsStep == Types /\ StopRequests /\ [Next]_vars => StopRequests'
<1> SUFFICES ASSUME Types, StopRequests, [Next]_vars PROVE StopRequests'
  OBVIOUS
<1>s. ASSUME NEW s, s # "codecStop", NEW v, sig' = [sig EXCEPT ![s] = v] PROVE sig'["codecStop"] = sig["codecStop"]
  BY <1>s DEF Types, SigType, Sigs
<1>a. ASSUME UNCHANGED <<requests, thread>>, sig'["codecStop"] = sig["codecStop"] PROVE StopRequests'
  BY <1>a, StopKept
<1>b. ASSUME thread.pc # "stop", UNCHANGED requests, sig'["codecStop"] = sig["codecStop"] PROVE StopRequests'
  BY <1>b, StopKept
<1>r. ASSUME NEW c, Reading(c), UNCHANGED <<requests, sig>> PROVE StopRequests'
  <2>1. thread.pc # "stop"
    BY <1>r DEF Reading
  <2>2. QED
    BY <1>b, <1>r, <2>1
<1>0. ASSUME NEW c, SendCommand(c) PROVE StopRequests'
  BY <1>0, <1>a DEF SendCommand
<1>1. CASE SendInvalid \/ ThisBufferCount
  BY <1>1, <1>a DEF SendInvalid, ThisBufferCount
<1>2. ASSUME NEW b, NEW k, ThisBuffer(b, k) PROVE StopRequests'
  BY <1>2, <1>a DEF ThisBuffer
<1>3. ASSUME NEW b, AllocateBufferWaits(b) PROVE StopRequests'
  BY <1>3, <1>a DEF AllocateBufferWaits
<1>4. ASSUME NEW b, NEW use, AllocateBuffer(b, use) PROVE StopRequests'
  <2>1. sig'["codecStop"] = sig["codecStop"]
    BY <1>4 DEF AllocateBuffer, Types, SigType, Sigs
  <2>2. QED
    BY <1>4, <1>a, <2>1 DEF AllocateBuffer
<1>5. CASE UseBufferRefused
  <2>1. sig'["codecStop"] = sig["codecStop"]
    BY <1>5, <1>s DEF UseBufferRefused, Consume
  <2>2. QED
    BY <1>5, <1>a, <2>1 DEF UseBufferRefused
<1>6. ASSUME NEW b, FreeBuffer(b) PROVE StopRequests'
  <2>1. sig'["codecStop"] = sig["codecStop"]
    BY <1>6, <1>s DEF FreeBuffer
  <2>2. QED
    BY <1>6, <1>a, <2>1 DEF FreeBuffer
<1>7. CASE SelectCommand
  BY <1>7, <1>b DEF SelectCommand
<1>8. ASSUME NEW s \in States, HandleWrongState(s) \/ HandleWaiting(s) PROVE StopRequests'
  BY <1>8, <1>r DEF HandleWrongState, HandleWaiting
<1>9. ASSUME NEW c, HandleFails(c) PROVE StopRequests'
  BY <1>9, <1>r DEF HandleFails
<1>10. CASE HandleIdleFromLoaded \/ HandleExecuting \/ HandleLoaded
  BY <1>10, <1>r DEF HandleIdleFromLoaded, HandleExecuting, HandleLoaded
<1>11. CASE LoadedToIdle \/ IdleToLoaded
  <2>1. sig'["codecStop"] = sig["codecStop"] /\ thread.pc # "stop"
    BY <1>11, <1>s DEF LoadedToIdle, IdleToLoaded, Consume
  <2>2. QED
    BY <1>11, <1>b, <2>1 DEF LoadedToIdle, IdleToLoaded
<1>12. CASE HandleStop
  <2>1. thread.pc # "stop" /\ thread'.pc = "stop" /\ UNCHANGED sig /\ requests' = Append(requests, STOP)
    BY <1>12 DEF HandleStop, Reading, STOP
  <2>2. ~Has(requests, STOP) /\ ~sig["codecStop"]
    BY <2>1 DEF StopRequests
  <2>3. STOP \in Req
    BY DEF STOP, Req
  <2>4. Sole(requests', STOP)
    BY <2>1, <2>2, <2>3, RequestAppend
  <2>5. QED
    BY <2>1, <2>2, <2>4 DEF StopRequests
<1>13. CASE HandlePause
  <2>1. thread.pc # "stop" /\ UNCHANGED sig /\ requests' = Append(requests, PAUSE)
    BY <1>13 DEF HandlePause, Reading, PAUSE
  <2>2. PAUSE \in Req /\ PAUSE # STOP
    BY DEF STOP, PAUSE, Req
  <2>3. QED
    BY <2>1, <2>2, StopKept
<1>14. CASE Stopped
  <2>1. sig["codecStop"] /\ ~sig'["codecStop"] /\ UNCHANGED requests
    BY <1>14 DEF Stopped, Consume, Types, SigType, Sigs
  <2>2. ~Has(requests', STOP) /\ Sole(requests', STOP)
    BY <2>1 DEF StopRequests, Has, Sole
  <2>3. QED
    BY <2>1, <2>2 DEF StopRequests
<1>15. CASE Destroy \/ HandleInvalid
  <2>1. thread.pc # "stop" /\ UNCHANGED sig
    BY <1>15 DEF Destroy, HandleInvalid, Reading
  <2>2. UNCHANGED requests \/ requests' = << >>
    BY <1>15 DEF Destroy, HandleInvalid
  <2>3. QED
    BY <2>1, <2>2, StopKept
<1>16. ASSUME NEW x, HandlePortDisable(x) \/ HandleFlush(x) PROVE StopRequests'
  BY <1>16, <1>r DEF HandlePortDisable, HandleFlush
<1>17. ASSUME NEW x, HandlePortEnable(x) PROVE StopRequests'
  <2>1. sig'["codecStop"] = sig["codecStop"] /\ thread.pc # "stop"
    BY <1>17, <1>s DEF HandlePortEnable, Reading
  <2>2. QED
    BY <1>17, <1>b, <2>1 DEF HandlePortEnable
<1>18. ASSUME NEW p, FlushDeferred(p) \/ FlushPending(p) PROVE StopRequests'
  BY <1>18, <1>b DEF FlushDeferred, FlushPending
<1>19. ASSUME NEW p \in Ports, FlushSent(p) PROVE StopRequests'
  <2>1. thread.pc # "stop" /\ UNCHANGED sig /\ requests' = Append(requests, <<"FLUSH", p>>)
    BY <1>19 DEF FlushSent
  <2>2. <<"FLUSH", p>> \in Req /\ <<"FLUSH", p>> # STOP
    BY DEF STOP, Req
  <2>3. QED
    BY <2>1, <2>2, StopKept
<1>20. ASSUME NEW p, FlushAcked(p) PROVE StopRequests'
  <2>1. sig'["codecStop"] = sig["codecStop"] /\ thread.pc # "stop"
    BY <1>20, <1>s DEF FlushAcked, Consume
  <2>2. QED
    BY <1>20, <1>b, <2>1 DEF FlushAcked
<1>21. ASSUME NEW b \in Buffers, HandleOutput(b) \/ (\E k \in Kinds, changed \in BOOLEAN : HandleInput(b, k, changed))
       PROVE  StopRequests'
  <2>1. DataHandled(b)
    BY <1>21, OutputFacts, InputFacts
  <2>2. QED
    BY <1>b, <2>1 DEF DataHandled
<1>22. CASE HandleDataFails
  BY <1>22, <1>b DEF HandleDataFails
<1>23. CASE FlushAck
  <2>1. sig'["codecStop"] = sig["codecStop"]
    BY <1>23, <1>s DEF FlushAck, Signal
  <2>2. QED
    BY <1>23, <2>1, StopKept DEF FlushAck
<1>24. CASE PauseAck
  BY <1>24, StopKept DEF PauseAck
<1>25. CASE StopAck
  <2>1. requests # << >> /\ Head(requests)[1] = "STOP" /\ requests' = Tail(requests) /\ UNCHANGED thread
    BY <1>25 DEF StopAck
  <2>2. Head(requests) \in Req
    BY <2>1, TailFacts DEF Types, RequestsType
  <2>3. Head(requests) = STOP
    BY <2>1, <2>2 DEF STOP, Req
  <2>4. Has(requests, STOP) /\ ~Has(requests', STOP) /\ Sole(requests', STOP)
    BY <2>1, <2>3, RequestTail DEF StopRequests
  <2>5. QED
    BY <2>1, <2>4 DEF StopRequests
<1>26. CASE StopState \/ AllReturned \/ WaitForReturn \/ DspError
  BY <1>26, <1>a DEF StopState, AllReturned, WaitForReturn, DspError
<1>27. ASSUME NEW b, Processed(b) PROVE StopRequests'
  BY <1>27, <1>a DEF Processed
<1>28. CASE UNCHANGED vars
  BY <1>28, <1>a DEF vars
<1>29. CASE Client
  BY <1>29, <1>0, <1>1, <1>2, <1>3, <1>4, <1>5, <1>6 DEF Client, Allocating, Freeing
<1>30. CASE ComponentThread
  BY <1>30, <1>7, <1>8, <1>9, <1>10, <1>11, <1>12, <1>13, <1>14, <1>15, <1>16, <1>17, <1>18, <1>19, <1>20,
     <1>21, <1>22 DEF ComponentThread
<1>31. QED
  BY <1>23, <1>24, <1>25, <1>26, <1>27, <1>28, <1>29, <1>30 DEF Next, Callback

\* What LCML was asked and has not answered, a pause aside.
AskedBy(q) ==
    IF \E i \in 1..Len(q) : q[i][1] # "PAUSE"
    THEN Names(q[CHOOSE i \in 1..Len(q) : q[i][1] # "PAUSE"][2]) ELSE {}
Single(q) == \A i, j \in 1..Len(q) : q[i][1] # "PAUSE" /\ q[j][1] # "PAUSE" => i = j
Asked == AskedBy(requests)

\* The one thing asked, or nothing.
LEMMA AskedIs ==
    ASSUME NEW q, Single(q)
    PROVE  /\ \A i \in 1..Len(q) : q[i][1] # "PAUSE" => AskedBy(q) = Names(q[i][2])
           /\ (\A i \in 1..Len(q) : q[i][1] = "PAUSE") => AskedBy(q) = {}
  <1>1. ASSUME NEW i \in 1..Len(q), q[i][1] # "PAUSE" PROVE AskedBy(q) = Names(q[i][2])
    <2>1. PICK k : k = CHOOSE j \in 1..Len(q) : q[j][1] # "PAUSE"
      OBVIOUS
    <2>2. k \in 1..Len(q) /\ q[k][1] # "PAUSE"
      BY <1>1, <2>1
    <2>3. k = i
      BY <1>1, <2>2 DEF Single
    <2>4. QED
      BY <1>1, <2>1, <2>3 DEF AskedBy
  <1>2. QED
    BY <1>1 DEF AskedBy

\* One thing is asked at a time.
LEMMA OneAsked ==
    ASSUME Types, FlushRequests, StopRequests
    PROVE  /\ Single(requests)
           /\ thread.pc \notin {"stop", "flushing"} => \A i \in 1..Len(requests) : requests[i][1] = "PAUSE"
  <1>1. ASSUME NEW i \in 1..Len(requests), requests[i][1] # "PAUSE"
        PROVE  \/ requests[i] = STOP /\ thread.pc = "stop"
               \/ requests[i][1] = "FLUSH" /\ thread.pc = "flushing"
    <2>1. requests[i] \in Req
      BY DEF Types, RequestsType
    <2>2. CASE requests[i] = STOP
      <3>1. Has(requests, STOP)
        BY <2>2 DEF Has
      <3>2. QED
        BY <2>2, <3>1 DEF StopRequests
    <2>3. CASE \E p \in Ports : requests[i] = <<"FLUSH", p>>
      <3>1. PICK p \in Ports : requests[i] = <<"FLUSH", p>>
        BY <2>3
      <3>2. Has(requests, <<"FLUSH", p>>)
        BY <3>1 DEF Has
      <3>3. QED
        BY <3>1, <3>2 DEF FlushRequests
    <2>4. QED
      BY <1>1, <2>1, <2>2, <2>3 DEF Req, STOP
  <1>2. ASSUME NEW i \in 1..Len(requests), NEW j \in 1..Len(requests), requests[i][1] # "PAUSE", requests[j][1] # "PAUSE"
        PROVE  i = j
    <2>1. CASE thread.pc = "stop"
      <3>1. requests[i] = STOP /\ requests[j] = STOP
        BY <1>1, <1>2, <2>1
      <3>2. QED
        BY <3>1 DEF StopRequests, Sole
    <2>2. CASE thread.pc # "stop"
      <3>1. requests[i][1] = "FLUSH" /\ requests[j][1] = "FLUSH"
        BY <1>1, <1>2, <2>2
      <3>2. QED
        BY <3>1 DEF FlushRequests
    <2>3. QED
      BY <2>1, <2>2
  <1>3. QED
    BY <1>1, <1>2 DEF Single

\* LCML is asked.
LEMMA AskedAppend ==
    ASSUME NEW q \in Seq(Req), NEW x \in Req, Single(q)
    PROVE  /\ x[1] = "PAUSE" => AskedBy(Append(q, x)) = AskedBy(q)
           /\ x[1] # "PAUSE" /\ (\A i \in 1..Len(q) : q[i][1] = "PAUSE")
                => AskedBy(q) = {} /\ AskedBy(Append(q, x)) = Names(x[2])
  <1>1. PICK r : r = Append(q, x)
    OBVIOUS
  <1>2. /\ Len(q) \in Nat /\ Len(r) = Len(q) + 1 /\ \A i \in 1..Len(q) : r[i] = q[i]
        /\ r[Len(q) + 1] = x
    BY <1>1, AppendFacts
  <1>3. ASSUME x[1] = "PAUSE" PROVE AskedBy(r) = AskedBy(q)
    <2>1. \A i \in 1..Len(r) : r[i][1] # "PAUSE" => i \in 1..Len(q) /\ q[i][1] # "PAUSE"
      BY <1>2, <1>3
    <2>2. Single(r)
      BY <2>1 DEF Single
    <2>3. CASE \E i \in 1..Len(q) : q[i][1] # "PAUSE"
      <3>1. PICK i \in 1..Len(q) : q[i][1] # "PAUSE"
        BY <2>3
      <3>2. i \in 1..Len(r) /\ r[i] = q[i]
        BY <1>2
      <3>3. AskedBy(q) = Names(q[i][2]) /\ AskedBy(r) = Names(r[i][2])
        BY <2>2, <3>1, <3>2, AskedIs
      <3>4. QED
        BY <3>2, <3>3
    <2>4. CASE \A i \in 1..Len(q) : q[i][1] = "PAUSE"
      <3>1. \A i \in 1..Len(r) : r[i][1] = "PAUSE"
        BY <2>1, <2>4
      <3>2. QED
        BY <2>2, <2>4, <3>1, AskedIs
    <2>5. QED
      BY <2>3, <2>4
  <1>4. ASSUME x[1] # "PAUSE", \A i \in 1..Len(q) : q[i][1] = "PAUSE"
        PROVE  AskedBy(q) = {} /\ AskedBy(r) = Names(x[2])
    <2>1. \A i \in 1..Len(r) : r[i][1] # "PAUSE" => i = Len(q) + 1
      BY <1>2, <1>4
    <2>2. Single(r)
      BY <2>1 DEF Single
    <2>3. Len(q) + 1 \in 1..Len(r) /\ r[Len(q) + 1][1] # "PAUSE"
      BY <1>2, <1>4
    <2>4. AskedBy(r) = Names(r[Len(q) + 1][2])
      BY <2>2, <2>3, AskedIs
    <2>5. QED
      BY <1>2, <1>4, <2>4, AskedIs
  <1>5. QED
    BY <1>1, <1>3, <1>4

\* LCML answers.
LEMMA AskedTail ==
    ASSUME NEW q \in Seq(Req), q # << >>, Single(q)
    PROVE  /\ Head(q)[1] = "PAUSE" => AskedBy(Tail(q)) = AskedBy(q)
           /\ Head(q)[1] # "PAUSE" => AskedBy(q) = Names(Head(q)[2]) /\ AskedBy(Tail(q)) = {}
  <1>1. PICK r : r = Tail(q)
    OBVIOUS
  <1>2. /\ Len(q) \in Nat /\ Len(q) > 0 /\ Len(r) = Len(q) - 1 /\ Head(q) = q[1]
        /\ \A i \in 1..Len(q) - 1 : r[i] = q[i + 1]
    BY <1>1, TailFacts
  <1>3. /\ \A i \in 1..Len(r) : i + 1 \in 1..Len(q) /\ i + 1 # 1 /\ r[i] = q[i + 1]
        /\ \A i \in 1..Len(q) : i # 1 => i - 1 \in 1..Len(r) /\ r[i - 1] = q[i]
        /\ 1 \in 1..Len(q)
    BY <1>2
  <1>4. Single(r)
    <2> SUFFICES ASSUME NEW i \in 1..Len(r), NEW j \in 1..Len(r), r[i][1] # "PAUSE", r[j][1] # "PAUSE" PROVE i = j
      BY DEF Single
    <2>1. i + 1 = j + 1
      BY <1>3 DEF Single
    <2>2. QED
      BY <1>2, <2>1
  <1>5. ASSUME Head(q)[1] = "PAUSE" PROVE AskedBy(r) = AskedBy(q)
    <2>1. CASE \E i \in 1..Len(q) : q[i][1] # "PAUSE"
      <3>1. PICK i \in 1..Len(q) : q[i][1] # "PAUSE"
        BY <2>1
      <3>2. i - 1 \in 1..Len(r) /\ r[i - 1] = q[i]
        BY <1>2, <1>3, <1>5, <3>1
      <3>3. r[i - 1][1] # "PAUSE"
        BY <3>1, <3>2
      <3>4. AskedBy(q) = Names(q[i][2]) /\ AskedBy(r) = Names(r[i - 1][2])
        BY <1>4, <3>1, <3>2, <3>3, AskedIs
      <3>5. QED
        BY <3>2, <3>4
    <2>2. CASE \A i \in 1..Len(q) : q[i][1] = "PAUSE"
      <3>1. \A i \in 1..Len(r) : r[i][1] = "PAUSE"
        BY <1>3, <2>2
      <3>2. QED
        BY <1>4, <2>2, <3>1, AskedIs
    <2>3. QED
      BY <2>1, <2>2
  <1>6. ASSUME Head(q)[1] # "PAUSE" PROVE AskedBy(q) = Names(Head(q)[2]) /\ AskedBy(r) = {}
    <2>1. q[1][1] # "PAUSE" /\ 1 \in 1..Len(q)
      BY <1>2, <1>3, <1>6
    <2>2. AskedBy(q) = Names(q[1][2])
      BY <2>1, AskedIs
    <2>3. ASSUME NEW i \in 1..Len(r) PROVE r[i][1] = "PAUSE"
      BY <1>3, <2>1 DEF Single
    <2>4. AskedBy(r) = {}
      BY <1>4, <2>3, AskedIs
    <2>5. QED
      BY <1>2, <2>2, <2>4
  <1>7. QED
    BY <1>1, <1>5, <1>6

\* Every step is a step of BufferLoan, or changes nothing that it sees.
LEMMA LoanStep ==
    ASSUME Types, FlushRequests, StopRequests, Places, [Next]_vars
    PROVE  Loan!LoanNext \/ UNCHANGED <<lent, Asked>>
<1>1. /\ Single(requests) /\ requests \in Seq(Req) /\ lent \in SUBSET Buffers /\ pend \in SUBSET Buffers
      /\ thread.pc \notin {"stop", "flushing"} => \A i \in 1..Len(requests) : requests[i][1] = "PAUSE"
  BY OneAsked DEF Types, RequestsType
<1>2. ASSUME NEW B \in SUBSET Buffers, B \intersect lent = {}, lent' = lent \union B, UNCHANGED requests
      PROVE  Loan!LoanNext \/ UNCHANGED <<lent, Asked>>
  <2>1. Asked' = Asked
    BY <1>2 DEF Asked, AskedBy
  <2>2. CASE B = {}
    BY <1>2, <2>1, <2>2
  <2>3. CASE B # {}
    <3>1. Loan!Lend(B)
      BY <1>2, <2>1, <2>3 DEF Loan!Lend, Asked, AskedBy
    <3>2. QED
      BY <3>1 DEF Loan!LoanNext
  <2>4. QED
    BY <2>2, <2>3
<1>3. ASSUME NEW R \in SUBSET Ports, R # {}, Asked = {}, Asked' = R, UNCHANGED lent PROVE Loan!LoanNext
  <2>1. R \in (SUBSET Loan!Streams) \ {{}}
    BY <1>3, EachPortHasBuffers DEF Loan!Streams, BufsOf
  <2>2. Loan!Ask(R)
    BY <1>3 DEF Loan!Ask, Asked, AskedBy
  <2>3. QED
    BY <2>1, <2>2 DEF Loan!LoanNext
<1>4. ASSUME NEW R \in SUBSET Ports, R # {}, Asked = R, Asked' = {}, UNCHANGED lent,
             \A b \in lent : PortOf[b] \notin R
      PROVE  Loan!LoanNext
  <2>1. lent \intersect Loan!Concerned(R) = {}
    BY <1>4 DEF Loan!Concerned
  <2>2. Loan!Answer
    BY <1>4, <2>1 DEF Loan!Answer, Asked, AskedBy
  <2>3. QED
    BY <2>2 DEF Loan!LoanNext
<1>5. ASSUME lent' = {}, requests' = << >> PROVE Loan!LoanNext
  <2>1. Asked' = {}
    BY <1>5 DEF Asked, AskedBy
  <2>2. Loan!Close
    BY <1>5, <2>1 DEF Loan!Close, Asked, AskedBy
  <2>3. QED
    BY <2>2 DEF Loan!LoanNext
<1>6. ASSUME UNCHANGED <<lent, requests>> PROVE UNCHANGED <<lent, Asked>>
  BY <1>6 DEF Asked, AskedBy
<1>7. CASE Client
  <2>1. ASSUME NEW c, SendCommand(c) PROVE UNCHANGED <<lent, requests>>
    BY <2>1 DEF SendCommand, lcml
  <2>2. ASSUME NEW b, NEW k, ThisBuffer(b, k) PROVE UNCHANGED <<lent, requests>>
    BY <2>2 DEF ThisBuffer, lcml
  <2>3. ASSUME NEW b, AllocateBufferWaits(b) \/ FreeBuffer(b) PROVE UNCHANGED <<lent, requests>>
    BY <2>3 DEF AllocateBufferWaits, FreeBuffer, lcml
  <2>4. ASSUME NEW b, NEW use, AllocateBuffer(b, use) PROVE UNCHANGED <<lent, requests>>
    BY <2>4 DEF AllocateBuffer, lcml
  <2>5. CASE SendInvalid \/ ThisBufferCount \/ UseBufferRefused
    BY <1>6, <2>5 DEF SendInvalid, ThisBufferCount, UseBufferRefused, lcml
  <2>6. QED
    BY <1>6, <1>7, <2>1, <2>2, <2>3, <2>4, <2>5 DEF Client, Allocating, Freeing
<1>8. CASE ComponentThread
  <2>1. ASSUME NEW s \in States, HandleWrongState(s) \/ HandleWaiting(s) PROVE UNCHANGED <<lent, requests>>
    BY <2>1 DEF HandleWrongState, HandleWaiting, lcml
  <2>2. ASSUME NEW c, HandleFails(c) PROVE UNCHANGED <<lent, requests>>
    BY <2>2 DEF HandleFails, lcml
  <2>3. CASE SelectCommand \/ HandleIdleFromLoaded \/ LoadedToIdle \/ Stopped \/ HandleLoaded \/ IdleToLoaded
    BY <1>6, <2>3 DEF SelectCommand, HandleIdleFromLoaded, LoadedToIdle, Stopped, HandleLoaded, IdleToLoaded, lcml
  <2>4. CASE HandleStop
    <3>1. requests' = Append(requests, STOP) /\ thread.pc = "command" /\ UNCHANGED lent
      BY <2>4 DEF HandleStop, Reading, STOP
    <3>2. STOP \in Req /\ STOP[1] # "PAUSE" /\ Names(STOP[2]) = Ports
      BY DEF STOP, Req, Names
    <3>3. Asked = {} /\ Asked' = Ports
      BY <1>1, <3>1, <3>2, AskedAppend DEF Asked
    <3>4. QED
      BY <1>3, <3>1, <3>3 DEF Ports
  <2>5. CASE HandlePause
    <3>1. requests' = Append(requests, PAUSE) /\ UNCHANGED lent
      BY <2>5 DEF HandlePause, PAUSE
    <3>2. PAUSE \in Req /\ PAUSE[1] = "PAUSE"
      BY DEF PAUSE, Req
    <3>3. Asked' = Asked
      BY <1>1, <3>1, <3>2, AskedAppend DEF Asked
    <3>4. QED
      BY <3>1, <3>3
  <2>6. CASE HandleExecuting
    <3>1. UNCHANGED <<lent, requests>> \/ (lent' = lent \union pend /\ UNCHANGED requests)
      BY <2>6 DEF HandleExecuting
    <3>2. pend \intersect lent = {}
      BY DEF Places
    <3>3. QED
      BY <1>1, <1>2, <1>6, <3>1, <3>2
  <2>7. CASE Destroy
    BY <1>5, <2>7 DEF Destroy
  <2>8. CASE HandleInvalid
    BY <1>5, <1>6, <2>8 DEF HandleInvalid, lcml
  <2>9. ASSUME NEW x, HandlePortDisable(x) \/ HandleFlush(x) PROVE UNCHANGED <<lent, requests>>
    BY <2>9 DEF HandlePortDisable, HandleFlush, lcml
  <2>10. ASSUME NEW x, HandlePortEnable(x) PROVE Loan!LoanNext \/ UNCHANGED <<lent, Asked>>
    <3>1. PICK B \in SUBSET pend : lent' = lent \union B /\ UNCHANGED requests
      BY <2>10 DEF HandlePortEnable
    <3>2. B \in SUBSET Buffers /\ B \intersect lent = {}
      BY <1>1, <3>1 DEF Places
    <3>3. QED
      BY <1>2, <3>1, <3>2
  <2>11. ASSUME NEW p, FlushDeferred(p) \/ FlushPending(p) \/ FlushAcked(p) PROVE UNCHANGED <<lent, requests>>
    BY <2>11 DEF FlushDeferred, FlushPending, FlushAcked, lcml
  <2>12. ASSUME NEW p \in Ports, FlushSent(p) PROVE Loan!LoanNext
    <3>1. PICK x : x = <<"FLUSH", p>>
      OBVIOUS
    <3>2. requests' = Append(requests, x) /\ thread.pc = "flush" /\ UNCHANGED lent
      BY <2>12, <3>1 DEF FlushSent
    <3>3. x \in Req /\ x[1] # "PAUSE" /\ Names(x[2]) = {p}
      BY <3>1 DEF Req, Names, Ports, In, Out, All
    <3>4. Asked = {} /\ Asked' = {p}
      BY <1>1, <3>2, <3>3, AskedAppend DEF Asked
    <3>5. QED
      BY <1>3, <3>2, <3>4
  <2>13. ASSUME NEW b \in Buffers, HandleOutput(b) \/ (\E k \in Kinds, changed \in BOOLEAN : HandleInput(b, k, changed))
         PROVE  Loan!LoanNext \/ UNCHANGED <<lent, Asked>>
    <3>1. DataHandled(b)
      BY <2>13, OutputFacts, InputFacts
    <3>2. UNCHANGED requests /\ (UNCHANGED lent \/ lent' = lent \union {b})
      BY <3>1 DEF DataHandled, GoesBack, GoesToDsp, IsKept, IsDropped, IsCounted
    <3>3. b \in Piped
      BY <3>1, PipedPop DEF DataHandled, Places
    <3>4. {b} \in SUBSET Buffers /\ {b} \intersect lent = {}
      BY <3>3 DEF Places
    <3>5. QED
      BY <1>2, <1>6, <3>2, <3>4
  <2>14. CASE HandleDataFails
    BY <1>6, <2>14 DEF HandleDataFails, lcml
  <2>15. QED
    BY <1>6, <1>8, <2>1, <2>2, <2>3, <2>4, <2>5, <2>6, <2>7, <2>8, <2>9, <2>10, <2>11, <2>12, <2>13, <2>14
       DEF ComponentThread
<1>9. CASE FlushAck
  <2>1. requests # << >> /\ Head(requests)[1] = "FLUSH" /\ requests' = Tail(requests) /\ UNCHANGED lent /\ Due = {}
    BY <1>9 DEF FlushAck
  <2>2. PICK p \in Ports : Head(requests)[2] = p /\ Names(p) = {p}
    BY <2>1, RequestFacts DEF Names, Ports, In, Out, All
  <2>3. Asked = {p} /\ Asked' = {}
    BY <1>1, <2>1, <2>2, AskedTail DEF Asked
  <2>4. lent \intersect BufsOf(p) = {}
    BY <2>1, <2>2 DEF Due
  <2>5. \A b \in lent : PortOf[b] \notin {p}
    BY <1>1, <2>4 DEF BufsOf
  <2>6. {p} \in SUBSET Ports /\ {p} # {}
    OBVIOUS
  <2>7. QED
    BY <1>4, <2>1, <2>3, <2>5, <2>6
<1>10. CASE StopAck
  <2>1. requests # << >> /\ Head(requests)[1] = "STOP" /\ requests' = Tail(requests) /\ UNCHANGED lent /\ Due = {}
    BY <1>10 DEF StopAck
  <2>2. Head(requests) \in Req
    BY <1>1, <2>1, TailFacts
  <2>3. Names(Head(requests)[2]) = Ports
    BY <2>1, <2>2 DEF Req, Names
  <2>4. Asked = Ports /\ Asked' = {}
    BY <1>1, <2>1, <2>3, AskedTail DEF Asked
  <2>5. lent = {}
    BY <2>1 DEF Due
  <2>6. QED
    BY <1>4, <2>1, <2>4, <2>5 DEF Ports
<1>11. CASE PauseAck
  <2>1. requests # << >> /\ Head(requests)[1] = "PAUSE" /\ requests' = Tail(requests) /\ UNCHANGED lent
    BY <1>11 DEF PauseAck
  <2>2. Asked' = Asked
    BY <1>1, <2>1, AskedTail DEF Asked
  <2>3. QED
    BY <2>1, <2>2
<1>12. CASE StopState \/ AllReturned \/ WaitForReturn \/ DspError
  BY <1>6, <1>12 DEF StopState, AllReturned, WaitForReturn, DspError, lcml
<1>13. ASSUME NEW b, Processed(b) PROVE Loan!LoanNext
  <2>1. b \in lent /\ lent' = lent \ {b} /\ UNCHANGED requests
    BY <1>13 DEF Processed
  <2>2. Asked' = Asked
    BY <2>1 DEF Asked, AskedBy
  <2>3. Loan!GiveBack({b})
    BY <2>1, <2>2 DEF Loan!GiveBack, Asked, AskedBy
  <2>4. {b} \in SUBSET lent
    BY <2>1
  <2>5. QED
    BY <2>3, <2>4 DEF Loan!LoanNext
<1>14. CASE UNCHANGED vars
  BY <1>6, <1>14 DEF vars, lcml
<1>15. CASE Callback
  BY <1>9, <1>10, <1>11, <1>12, <1>13, <1>15 DEF Callback
<1>16. CASE \E b \in lent : Processed(b)
  BY <1>13, <1>16
<1>17. QED
  BY <1>7, <1>8, <1>12, <1>14, <1>15, <1>16 DEF Next

\* The decoder uses LCML as BufferLoan allows, which is what LCML is proved to
\* implement: it queues no buffer that LCML has, has one stop or flush
\* unanswered, and takes LCML to answer only when nothing it asked about is on
\* loan.
THEOREM DecoderUsesLoan == Spec => UsesLoan
<1>1. Init => StopRequests
  <2> SUFFICES ASSUME Init PROVE StopRequests
    OBVIOUS
  <2>1. requests = << >> /\ sig["codecStop"] = FALSE
    BY DEF Init, Sigs
  <2>2. QED
    BY <2>1, RequestsEmpty DEF StopRequests
<1>2. IInv /\ StopRequests /\ [Next]_vars => StopRequests'
  BY StopRequestsStep DEF IInv
<1>3. Init => Loan!LoanInit
  BY DEF Init, Loan!LoanInit
<1>4. IInv /\ StopRequests /\ [Next]_vars => [Loan!LoanNext]_(Loan!loanVars)
  <2> SUFFICES ASSUME IInv, StopRequests, [Next]_vars PROVE Loan!LoanNext \/ UNCHANGED Loan!loanVars
    OBVIOUS
  <2>1. Loan!LoanNext \/ UNCHANGED <<lent, Asked>>
    BY LoanStep DEF IInv, Flushing
  <2>2. QED
    BY <2>1 DEF Loan!loanVars, Asked, AskedBy
<1>5. QED
  BY <1>1, <1>2, <1>3, <1>4, Invariant, PTL DEF Spec, UsesLoan, Loan!LoanSpec
=============================================================================
