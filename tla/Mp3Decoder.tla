----------------------------- MODULE Mp3Decoder -----------------------------
(***************************************************************************)
(* The MP3 decoder component: OMX_Mp3Decoder.c (the entry points a client   *)
(* calls), OMX_Mp3Dec_CompThread.c (the component's thread) and             *)
(* OMX_Mp3Dec_Utils.c (the handlers of that thread and the callback that    *)
(* LCML's thread runs).  Three threads share the private structure almost   *)
(* without locks; flag-and-condition pairs make them wait for each other.   *)
(*                                                                          *)
(* LCML is used through BufferLoan, the specification that module LCML is   *)
(* checked to implement.  The client sends one command at a time, frees     *)
(* only buffers it owns, and flushes a port before it disables it.          *)
(* nBufferCountMin and nBufferCountActual are equal, as ComponentInit sets  *)
(* them, so a port is populated when all of its buffers are allocated.      *)
(***************************************************************************)
EXTENDS Integers, FiniteSets, Sequences, FiniteSetsExt, SequencesExt

CONSTANTS
    Buffers,        \* buffer headers
    PortOf,         \* MP3D_INPUT_PORT (0) or MP3D_OUTPUT_PORT (1)
    Kinds,          \* what input may hold: "data", "config", "eos", "empty"
    Commands,       \* what the client may send
    MaxLate,        \* buffers the client sends while a command is unanswered
    MaxCommands,    \* room left in the command pipe for those buffers' effects
    MaxSent,        \* commands the client sends in one behaviour
    MaxFaults,      \* failures of LCML and the DSP in one behaviour
    NULL

In    == 0
Out   == 1
All   == -1         \* both ports
Ports == {In, Out}
States == {"Loaded", "WaitForResources", "Idle", "Executing", "Pause", "Invalid"}

Names(x)  == IF x = All THEN Ports ELSE {x}
BufsOf(p) == { b \in Buffers : PortOf[b] = p }

ASSUME Mp3Assumption ==
    /\ IsFiniteSet(Buffers)
    /\ PortOf \in [Buffers -> Ports]
    /\ Kinds \subseteq {"data", "config", "eos", "empty"}
    /\ Commands \subseteq ({"StateSet"} \X States)
            \union ({"Flush", "PortDisable", "PortEnable"} \X {In, Out, All})
    /\ {MaxLate, MaxCommands, MaxSent, MaxFaults} \subseteq Nat

\* MP3D_NUM_INPUT_BUFFERS and MP3D_NUM_OUTPUT_BUFFERS are not zero.
ASSUME EachPortHasBuffers == \A p \in Ports : BufsOf(p) # {}

VARIABLES
    client,     \* the client's thread and what it knows
    curState,
    enabled,    \* bEnabled of each port
    owner,      \* who has each buffer: "none" (not allocated), "client", "comp"
    dec,        \* flags of MP3DEC_COMPONENT_PRIVATE
    sent,       \* num_Sent_Ip_Buff > 0, num_Op_Issued > 0
    deferred,   \* bFlushInputPortCommandPending, bFlushOutputPortCommandPending
    sig,        \* the signals of omx_mutex_signal and omx_mutex_wait
    unhandled,  \* n...ThisBufferCount - nHandled...ThisBuffers
    unreturned, \* n...ThisBufferCount - n...BufferDoneCount
    pend,       \* pInputBufHdrPending, pOutputBufHdrPending
    flagged,    \* the buffers with bBufferPending
    cmdPipe, dataPipe,
    thread,     \* the component's thread
    lent,       \* the buffers LCML has
    requests,   \* the commands LCML has to acknowledge
    callback,   \* LCML's thread: "idle", or a place in LCML_Callback
    hist,       \* history: what the component got wrong
    faults

Sigs    == {"codecStop", "codecFlush", "inLoaded", "inIdle", "alloBuf"}
lcml    == <<lent, requests>>
counts  == <<unhandled, unreturned>>
pipes   == <<cmdPipe, dataPipe>>
flags   == <<dec, sent, deferred>>
places  == <<owner, pend, flagged>>
vars    == <<client, curState, enabled, places, flags, sig, counts, pipes, thread, lcml,
             callback, hist, faults>>

Select     == [pc |-> "select", todo |-> {}]
Allocated  == { b \in Buffers : owner[b] # "none" }
Populated(p) == BufsOf(p) \subseteq Allocated
EachPort(x) == [p \in Ports |-> x]

\* The values of MP3DEC_COMPONENT_PRIVATE and of the three threads; no count
\* of buffers runs away, however late EmptyThisBuffer counts.
TypeOK ==
    /\ client.pc \in {"ready", "count", "alloc"}
    /\ client.told \in States
    /\ client.late \in 0..MaxLate
    /\ client.sent \in 0..MaxSent
    /\ curState \in States
    /\ enabled \in [Ports -> BOOLEAN]
    /\ owner \in [Buffers -> {"none", "client", "comp"}]
    /\ sent \in [Ports -> BOOLEAN]
    /\ deferred \in [Ports -> BOOLEAN]
    /\ sig \in [Sigs -> BOOLEAN]
    /\ \A p \in Ports :
        {unhandled[p], unreturned[p]} \subseteq -1 .. Cardinality(BufsOf(p))
    /\ pend \subseteq Buffers
    /\ flagged \subseteq Buffers
    /\ lent \subseteq Buffers
    /\ thread.pc \in {"select", "command", "inLoaded", "stop", "inIdle", "destroy", "flush",
                      "flushing", "exited"}
    /\ thread.todo \subseteq Ports
    /\ callback \in {"idle", "stopping", "check", "asleep"}
    /\ faults \in 0..MaxFaults

\* ComponentInit.
Init ==
    /\ client = [pc |-> "ready", buf |-> NULL, told |-> "Loaded", cmd |-> NULL, owed |-> {},
                 late |-> 0, quiet |-> {}, sent |-> 0]
    /\ curState = "Loaded"
    /\ enabled = EachPort(TRUE)
    /\ owner = [b \in Buffers |-> "none"]
    /\ dec = [SendAfterEOS |-> FALSE, bConfigData |-> TRUE, reconfigOutputPort |-> TRUE,
              bBypassDSP |-> FALSE, bDspStopped |-> FALSE,
              disabling |-> FALSE, enabling |-> FALSE, enableParam |-> In]
    /\ sent = EachPort(FALSE)
    /\ deferred = EachPort(FALSE)
    /\ sig = [s \in Sigs |-> FALSE]
    /\ unhandled = EachPort(0)
    /\ unreturned = EachPort(0)
    /\ pend = {}
    /\ flagged = {}
    /\ cmdPipe = << >>
    /\ dataPipe = << >>
    /\ thread = Select
    /\ lent = {}
    /\ requests = << >>
    /\ callback = "idle"
    /\ hist = [missed |-> FALSE, twice |-> FALSE, unwoken |-> FALSE, lost |-> {}]
    /\ faults = 0

---------------------------------------------------------------------------
(* What the client is told: EventHandler, EmptyBufferDone, FillBufferDone.  *)

\* OMX_EventCmdComplete for the completions C.
Complete(C) ==
    client' = [client EXCEPT
        !.owed = @ \ C,
        !.told = IF @ # "Invalid" /\ \E s \in States : <<"StateSet", s>> \in C
                 THEN CHOOSE s \in States : <<"StateSet", s>> \in C ELSE @]

\* OMX_EventError in answer to a command.
Refuse == client' = [client EXCEPT !.owed = {}]

\* OMX_EventError with OMX_ErrorInvalidState: the client gives up.
Invalidate == client' = [client EXCEPT !.owed = {}, !.told = "Invalid"]

\* The buffers B go back, each with MP3DEC_SignalIfAllBuffersAreReturned.
OwnerAfter(B)   == [b \in Buffers |-> IF b \in B /\ owner[b] # "none" THEN "client" ELSE owner[b]]

\* Mutant: a buffer goes back and is not counted.
CountAfterNone(c, B) == c

\* MP3DEC_SignalIfAllBuffersAreReturned counts them.
CountAfter(c, B) == [p \in Ports |-> c[p] - Cardinality(B \intersect BufsOf(p))]

\* Mutant: the broadcast is forgotten.
AwakenedNever(B) == callback

\* The counts meet while B, buffers of one port, goes back: the broadcast.
Awakened(B) ==
    IF /\ callback = "asleep"
       /\ \E p \in Ports :
            /\ B \intersect BufsOf(p) # {}
            /\ unreturned[1 - p] = 0
            /\ 0 \in CountAfter(unreturned, B)[p] .. unreturned[p] - 1
    THEN "check" ELSE callback

ReturnAll(B) ==
    /\ owner' = OwnerAfter(B)
    /\ unreturned' = CountAfter(unreturned, B)
    /\ callback' = Awakened(B)

Signal(s) == sig' = [sig EXCEPT ![s] = TRUE]
Consume(s) == sig[s] /\ sig' = [sig EXCEPT ![s] = FALSE]

---------------------------------------------------------------------------
(* Entry points, called from the client's thread.                           *)

\* The states from which the switch of HandleCommand goes to s.
From(s) ==
    CASE s = "Idle"             -> {"Loaded", "WaitForResources", "Executing", "Pause"}
      [] s = "Executing"        -> {"Idle", "Pause"}
      [] s = "Loaded"           -> {"Idle", "WaitForResources"}
      [] s = "Pause"            -> {"Idle", "Executing"}
      [] s = "WaitForResources" -> {"Loaded"}
      [] s = "Invalid"          -> States \ {"Invalid"}

\* What the client hears of when the command is done.
Completions(c) ==
    IF c[1] = "StateSet" THEN {c} ELSE { <<c[1], p>> : p \in Names(c[2]) }

\* A behaviour is followed until the component has lost a buffer, has reported
\* a flush that left a buffer with the DSP, has answered a command twice or has
\* said that it is Invalid: the client then sends nothing more.
Trusted == ~hist.missed /\ ~hist.twice /\ hist.lost = {} /\ client.told # "Invalid"

\* The client's side of a command: one at a time; a port is disabled when it
\* has been flushed and enabled when it is disabled.
MaySend(c) ==
    /\ Trusted
    /\ client.sent < MaxSent
    /\ client.pc = "ready"
    /\ client.owed = {}
    /\ c[1] = "StateSet" => client.told \in From(c[2])
    /\ c[1] = "Flush" => client.told \in {"Executing", "Pause"}
    /\ c[1] = "PortDisable" => \A p \in Names(c[2]) :
            enabled[p] /\ (p \in client.quiet \/ \A b \in BufsOf(p) : owner[b] # "comp")
    /\ c[1] = "PortEnable" => \A p \in Names(c[2]) : ~enabled[p]

\* SendCommand: written to the pipes, unless the state forbids it.
SendCommand(c) ==
    /\ MaySend(c)
    /\ curState # "Invalid"
    /\ ~(curState = "Loaded" /\ c \in {"StateSet"} \X {"Executing", "Pause", "Invalid"})
    /\ client' = [client EXCEPT !.cmd = c, !.owed = Completions(c), !.late = 0, !.sent = @ + 1,
                                !.quiet = @ \union (IF c[1] = "Flush" THEN Names(c[2]) ELSE {})]
    /\ cmdPipe' = Append(cmdPipe, c)
    /\ UNCHANGED <<curState, enabled, places, flags, sig, counts, dataPipe, thread, lcml, callback,
                   hist, faults>>

\* SendCommand of the state Invalid in the state Loaded is done at once.
SendInvalid ==
    /\ <<"StateSet", "Invalid">> \in Commands
    /\ MaySend(<<"StateSet", "Invalid">>)
    /\ curState = "Loaded"
    /\ curState' = "Invalid"
    /\ Invalidate
    /\ UNCHANGED <<enabled, places, flags, sig, counts, pipes, thread, lcml, callback, hist, faults>>

\* The client has a use for the port: nothing it has asked for will take the
\* buffers away, and it does not send without end while it waits.
MayFill(p) ==
    /\ Trusted
    /\ client.pc = "ready"
    /\ client.owed # {} =>
        /\ client.late < MaxLate
        /\ Len(cmdPipe) < MaxCommands
        /\ client.cmd # <<"StateSet", "Loaded">>
        /\ ~(client.cmd[1] \in {"PortDisable", "PortEnable"} /\ p \in Names(client.cmd[2]))

\* EmptyThisBuffer and FillThisBuffer up to the write to the data pipe.
ThisBuffer(b, k) ==
    LET p == PortOf[b]
    IN  /\ MayFill(p)
        /\ owner[b] = "client"
        /\ enabled[p]
        /\ curState \in {"Executing", "Pause"} \union (IF p = In THEN {"Idle"} ELSE {})
        /\ dataPipe' = Append(dataPipe, [buf |-> b, kind |-> k])
        /\ owner' = [owner EXCEPT ![b] = "comp"]
        /\ client' = [client EXCEPT !.pc = "count", !.buf = b, !.quiet = @ \ {p},
                                    !.late = IF client.owed = {} THEN @ ELSE @ + 1]
        /\ UNCHANGED <<curState, enabled, pend, flagged, flags, sig, counts, cmdPipe, thread, lcml,
                       callback, hist, faults>>

\* The rest of the two: the count goes up after the write, without the mutex.
ThisBufferCount ==
    LET p == PortOf[client.buf]
    IN  /\ client.pc = "count"
        /\ client' = [client EXCEPT !.pc = "ready", !.buf = NULL]
        /\ unhandled' = [unhandled EXCEPT ![p] = @ + 1]
        /\ unreturned' = [unreturned EXCEPT ![p] = @ + 1]
        /\ hist' = [hist EXCEPT !.unwoken = @ \/ (callback = "asleep" /\ unreturned' = EachPort(0))]
        /\ UNCHANGED <<curState, enabled, places, flags, sig, pipes, thread, lcml, callback, faults>>

\* The client has to allocate b for the command it waits for.
Wanted(b) ==
    /\ client.owed # {}
    /\ owner[b] = "none"
    /\ \/ client.cmd = <<"StateSet", "Idle">> /\ client.told \in {"Loaded", "WaitForResources"}
            /\ enabled[PortOf[b]]
       \/ client.cmd[1] = "PortEnable" /\ client.told # "Loaded" /\ PortOf[b] \in Names(client.cmd[2])

\* AllocateBuffer on a disabled port waits for AlloBuf.
AllocateBufferWaits(b) ==
    /\ client.pc = "ready"
    /\ Wanted(b)
    /\ curState # "Invalid"
    /\ ~enabled[PortOf[b]]
    /\ client' = [client EXCEPT !.pc = "alloc", !.buf = b]
    /\ UNCHANGED <<curState, enabled, places, flags, sig, counts, pipes, thread, lcml, callback,
                   hist, faults>>

\* AllocateBuffer, and UseBuffer, which sends the enable command again for each
\* buffer where AllocateBuffer waits until the port is populated.
AllocateBuffer(b, use) ==
    LET p     == PortOf[b]
        all   == Allocated \union {b}
        ready == \A q \in Ports : enabled[q] <=> BufsOf(q) \subseteq all
    IN  /\ \/ client.pc = "ready" /\ Wanted(b) /\ enabled[p] /\ sig' = [sig EXCEPT !["inLoaded"] = @ \/ ready]
           \/ client.pc = "alloc" /\ client.buf = b /\ sig["alloBuf"]
                /\ sig' = [sig EXCEPT !["alloBuf"] = FALSE, !["inLoaded"] = @ \/ ready]
        /\ curState # "Invalid"
        /\ use => enabled[p]
        /\ owner' = [owner EXCEPT ![b] = "client"]
        /\ flagged' = flagged \ {b}
        /\ client' = [client EXCEPT !.pc = "ready", !.buf = NULL]
        /\ cmdPipe' = IF dec.enabling /\ (use \/ BufsOf(p) \subseteq all)
                      THEN Append(cmdPipe, <<"PortEnable", dec.enableParam>>) ELSE cmdPipe
        /\ UNCHANGED <<curState, enabled, pend, flags, counts, dataPipe, thread, lcml,
                       callback, hist, faults>>

\* UseBuffer is woken and the port is still disabled: it fails, and the client
\* tries again.
UseBufferRefused ==
    /\ client.pc = "alloc"
    /\ ~enabled[PortOf[client.buf]]
    /\ Consume("alloBuf")
    /\ client' = [client EXCEPT !.pc = "ready", !.buf = NULL]
    /\ UNCHANGED <<curState, enabled, places, flags, counts, pipes, thread, lcml, callback, hist, faults>>

\* FreeBuffer.  The client frees what it has when it goes to Loaded or waits
\* for a port to be disabled.  The event OMX_ErrorPortUnpopulated, and the flag
\* bLoadedCommandPending that only serves to suppress it, are left out.
FreeBuffer(b) ==
    LET p    == PortOf[b]
        left == Allocated \ {b}
        last == dec.disabling /\ left \intersect BufsOf(p) = {}
    IN  /\ client.pc = "ready"
        /\ client.owed # {}
        /\ owner[b] = "client"
        /\ \/ client.cmd = <<"StateSet", "Loaded">>
           \/ client.cmd[1] = "PortDisable" /\ p \in Names(client.cmd[2])
        /\ owner' = [owner EXCEPT ![b] = "none"]
        /\ sig' = [sig EXCEPT !["inIdle"] = @ \/ left = {}]
        /\ dec' = [dec EXCEPT !.disabling = @ /\ ~last]
        /\ IF last THEN Complete({<<"PortDisable", p>>}) ELSE UNCHANGED client
        /\ UNCHANGED <<curState, enabled, pend, flagged, sent, deferred, counts, pipes, thread, lcml,
                       callback, hist, faults>>

---------------------------------------------------------------------------
(* MP3DEC_ComponentThread: data before commands, then MP3DEC_HandleCommand. *)

SelectCommand ==
    /\ thread.pc = "select"
    /\ dataPipe = << >>
    /\ cmdPipe # << >>
    /\ thread' = [thread EXCEPT !.pc = "command"]
    /\ UNCHANGED <<client, curState, enabled, places, flags, sig, counts, pipes, lcml, callback, hist,
                   faults>>

\* The command at the head of the pipe is c, and is read.
Reading(c) ==
    /\ thread.pc = "command"
    /\ Head(cmdPipe) = c
    /\ cmdPipe' = Tail(cmdPipe)

SetState(s) == <<"StateSet", s>>

\* The completion c answers no command that was read: the client does not wait
\* for it, or what it waits for is still in the pipe.
Unasked(c) == c \notin client.owed \/ \E i \in 1..Len(cmdPipe) : cmdPipe[i] = c

\* OMX_ErrorSameState, OMX_ErrorIncorrectStateTransition.
HandleWrongState(s) ==
    /\ Reading(SetState(s))
    /\ curState \notin From(s)
    /\ Refuse
    /\ thread' = Select
    /\ UNCHANGED <<curState, enabled, places, flags, sig, counts, dataPipe, lcml, callback, hist, faults>>

\* LCML is set up and the state becomes Idle, or LCML cannot be set up.
SetUp ==
    \/ /\ curState' = "Idle"
       /\ Complete({SetState("Idle")})
       /\ UNCHANGED faults
    \/ /\ faults < MaxFaults
       /\ faults' = faults + 1
       /\ curState' = "Invalid"
       /\ Invalidate

\* OMX_StateIdle from Loaded or WaitForResources: waits for the buffers unless
\* both ports are populated if they are enabled.
HandleIdleFromLoaded ==
    /\ Reading(SetState("Idle"))
    /\ curState \in {"Loaded", "WaitForResources"}
    /\ IF \A p \in Ports : enabled[p] <=> Populated(p)
       THEN SetUp /\ thread' = Select
       ELSE thread' = [thread EXCEPT !.pc = "inLoaded"] /\ UNCHANGED <<client, curState, faults>>
    /\ UNCHANGED <<enabled, places, flags, sig, counts, dataPipe, lcml, callback, hist>>

LoadedToIdle ==
    /\ thread.pc = "inLoaded"
    /\ Consume("inLoaded")
    /\ SetUp
    /\ thread' = Select
    /\ UNCHANGED <<enabled, places, flags, counts, pipes, lcml, callback, hist>>

\* OMX_StateIdle from Executing or Pause: stop, then wait for codecStop.
HandleStop ==
    /\ Reading(SetState("Idle"))
    /\ curState \in {"Executing", "Pause"}
    /\ dec' = [dec EXCEPT !.bDspStopped = @ \/ curState = "Executing"]
    /\ requests' = Append(requests, <<"STOP", All>>)
    /\ thread' = [pc |-> "stop", todo |-> IF curState = "Pause" THEN {In} ELSE {}]
    /\ UNCHANGED <<client, curState, enabled, places, sent, deferred, sig, counts, dataPipe, lent,
                   callback, hist, faults>>

\* From Executing the callback does the rest; from Pause this thread reports
\* Idle too.
Stopped ==
    /\ thread.pc = "stop"
    /\ Consume("codecStop")
    /\ thread' = Select
    /\ IF thread.todo = {}
       THEN UNCHANGED <<client, curState, hist>>
       ELSE /\ curState' = "Idle"
            /\ Complete({SetState("Idle")})
            /\ hist' = [hist EXCEPT !.twice = @ \/ Unasked(SetState("Idle"))]
    /\ UNCHANGED <<enabled, places, flags, counts, pipes, lcml, callback, faults>>

\* OMX_StateExecuting: from Idle the codec is started unless SendAfterEOS says
\* that the next input buffer will; from Pause what came meanwhile is queued.
HandleExecuting ==
    /\ Reading(SetState("Executing"))
    /\ curState \in {"Idle", "Pause"}
    /\ curState' = "Executing"
    /\ Complete({SetState("Executing")})
    /\ dec' = [dec EXCEPT !.SendAfterEOS = @ \/ curState = "Idle", !.bDspStopped = FALSE]
    /\ IF curState = "Idle"
       THEN UNCHANGED <<pend, flagged, lent>>
       ELSE /\ flagged' = flagged \union pend
            /\ lent' = lent \union pend
            /\ pend' = {}
    /\ thread' = Select
    /\ UNCHANGED <<enabled, owner, sent, deferred, sig, counts, dataPipe, requests, callback, hist, faults>>

\* OMX_StatePause: the callback changes the state.
HandlePause ==
    /\ Reading(SetState("Pause"))
    /\ curState \in From("Pause")
    /\ requests' = Append(requests, <<"PAUSE", All>>)
    /\ thread' = Select
    /\ UNCHANGED <<client, curState, enabled, places, flags, sig, counts, dataPipe, lent, callback,
                   hist, faults>>

\* A command to LCML fails: Invalid.  PortEnable starts the codec again if a
\* stop came from Executing.
HandleFails(c) ==
    /\ Reading(c)
    /\ \/ c \in {SetState("Executing"), SetState("Pause")} /\ curState \in From(c[2])
       \/ c[1] = "PortEnable" /\ dec.bDspStopped
    /\ faults < MaxFaults
    /\ faults' = faults + 1
    /\ curState' = "Invalid"
    /\ Invalidate
    /\ thread' = Select
    /\ UNCHANGED <<enabled, places, flags, sig, counts, dataPipe, lcml, callback, hist>>

\* OMX_StateWaitForResources from Loaded, and OMX_StateLoaded from there.
HandleWaiting(s) ==
    /\ Reading(SetState(s))
    /\ <<curState, s>> \in {<<"Loaded", "WaitForResources">>, <<"WaitForResources", "Loaded">>}
    /\ curState' = s
    /\ Complete({SetState(s)})
    /\ thread' = Select
    /\ UNCHANGED <<enabled, places, flags, sig, counts, dataPipe, lcml, callback, hist, faults>>

\* OMX_StateLoaded from Idle: waits for the buffers to be freed.
HandleLoaded ==
    /\ Reading(SetState("Loaded"))
    /\ curState = "Idle"
    /\ thread' = [thread EXCEPT !.pc = IF Allocated = {} THEN "destroy" ELSE "inIdle"]
    /\ UNCHANGED <<client, curState, enabled, places, flags, sig, counts, dataPipe, lcml, callback,
                   hist, faults>>

IdleToLoaded ==
    /\ thread.pc = "inIdle"
    /\ Consume("inIdle")
    /\ thread' = [thread EXCEPT !.pc = "destroy"]
    /\ UNCHANGED <<client, curState, enabled, places, flags, counts, pipes, lcml, callback, hist,
                   faults>>

\* EMMCodecControlDestroy joins LCML's thread; EXIT_COMPONENT_THRD then makes
\* ComponentThread report Loaded.
Destroy ==
    /\ thread.pc = "destroy"
    /\ callback = "idle"
    /\ lent' = {}
    /\ requests' = << >>
    /\ curState' = "Loaded"
    /\ Complete({SetState("Loaded")})
    /\ hist' = [hist EXCEPT !.lost = @ \union lent]
    /\ thread' = Select
    /\ UNCHANGED <<enabled, places, flags, sig, counts, pipes, callback, faults>>

\* OMX_StateInvalid.
HandleInvalid ==
    /\ Reading(SetState("Invalid"))
    /\ curState # "Invalid"
    /\ curState \in {"Loaded", "WaitForResources"} \/ callback = "idle"
    /\ IF curState \in {"Loaded", "WaitForResources"}
       THEN UNCHANGED <<lcml, hist>>
       ELSE lent' = {} /\ requests' = << >> /\ hist' = [hist EXCEPT !.lost = @ \union lent]
    /\ curState' = "Invalid"
    /\ Invalidate
    /\ thread' = Select
    /\ UNCHANGED <<enabled, places, flags, sig, counts, dataPipe, callback, faults>>

\* OMX_CommandPortDisable.  Input buffers that the DSP still has are reported
\* done on the spot.
HandlePortDisable(x) ==
    LET forced == IF x = In /\ ~dec.disabling THEN flagged \intersect BufsOf(In) \intersect Allocated
                                             ELSE {}
        done   == \A p \in Names(x) : ~Populated(p)
    IN  /\ Reading(<<"PortDisable", x>>)
        /\ ReturnAll(forced)
        /\ enabled' = IF dec.disabling THEN enabled
                      ELSE [p \in Ports |-> enabled[p] /\ p \notin Names(x)]
        /\ dec' = [dec EXCEPT !.disabling = ~done]
        /\ IF done THEN Complete(Completions(<<"PortDisable", x>>)) ELSE UNCHANGED client
        /\ thread' = Select
        /\ UNCHANGED <<curState, pend, flagged, sent, deferred, sig, unhandled, dataPipe, lcml, hist, faults>>

\* OMX_CommandPortEnable.  It is sent again by AllocateBuffer when the port is
\* not populated yet.  The input port does not signal AlloBuf before that.
HandlePortEnable(x) ==
    LET done  == curState = "Loaded" \/ \A p \in Names(x) : Populated(p)
        queue == IF ~done THEN {} ELSE IF x = In THEN pend \intersect BufsOf(In) ELSE pend
    IN  /\ Reading(<<"PortEnable", x>>)
        /\ enabled' = IF dec.enabling THEN enabled
                      ELSE [p \in Ports |-> enabled[p] \/ p \in Names(x)]
        /\ sig' = [sig EXCEPT !["alloBuf"] = done \/ (IF dec.enabling THEN @ ELSE Out \in Names(x))]
        /\ dec' = [dec EXCEPT !.bDspStopped = FALSE, !.enabling = ~done,
                              !.enableParam = IF done THEN @ ELSE x,
                              !.reconfigOutputPort = @ /\ ~(done /\ x = Out)]
        /\ flagged' = flagged \union queue
        /\ lent' = lent \union queue
        /\ pend' = pend \ queue
        /\ IF done THEN Complete(Completions(<<"PortEnable", x>>)) ELSE UNCHANGED client
        /\ thread' = Select
        /\ UNCHANGED <<curState, owner, sent, deferred, counts, dataPipe, requests, callback, hist, faults>>

\* OMX_CommandFlush: the ports one after the other, input first.
HandleFlush(x) ==
    /\ Reading(<<"Flush", x>>)
    /\ thread' = [pc |-> "flush", todo |-> Names(x)]
    /\ UNCHANGED <<client, curState, enabled, places, flags, sig, counts, dataPipe, lcml, callback,
                   hist, faults>>

FlushDone(p) == IF thread.todo = {p} THEN Select ELSE [pc |-> "flush", todo |-> thread.todo \ {p}]

\* The flush of p waits for the buffers sent before it to be handled.
FlushDeferred(p) ==
    /\ thread.pc = "flush"
    /\ p = Min(thread.todo)
    /\ unhandled[p] # 0
    /\ deferred' = [deferred EXCEPT ![p] = TRUE]
    /\ thread' = FlushDone(p)
    /\ UNCHANGED <<client, curState, enabled, places, dec, sent, sig, counts, pipes, lcml, callback,
                   hist, faults>>

\* Mutant: the flush hands out the buffers of the DSP too.
KeptBackAndFlagged(p) == (pend \union flagged) \intersect BufsOf(p)

\* What waits in the component while the output port is reconfigured or the
\* state is Pause.
KeptBack(p) == pend \intersect BufsOf(p)

\* The DSP has been given buffers of p since the component started.
DspFlushed(p) == sent[p] /\ ~(p = Out /\ dec.reconfigOutputPort)

FlushSent(p) ==
    /\ thread.pc = "flush"
    /\ p = Min(thread.todo)
    /\ unhandled[p] = 0
    /\ DspFlushed(p)
    /\ deferred' = [deferred EXCEPT ![p] = FALSE]
    /\ requests' = Append(requests, <<"FLUSH", p>>)
    /\ thread' = [thread EXCEPT !.pc = "flushing"]
    /\ UNCHANGED <<client, curState, enabled, places, dec, sent, sig, counts, pipes, lent, callback,
                   hist, faults>>

\* Nothing to flush at the DSP: only the buffers kept back are returned.
FlushPending(p) ==
    LET B == KeptBack(p)
    IN  /\ thread.pc = "flush"
        /\ p = Min(thread.todo)
        /\ unhandled[p] = 0
        /\ ~DspFlushed(p)
        /\ deferred' = [deferred EXCEPT ![p] = FALSE]
        /\ ReturnAll(B)
        /\ pend' = pend \ B
        /\ hist' = [hist EXCEPT !.missed = @ \/ lent \intersect BufsOf(p) # {}]
        /\ Complete({<<"Flush", p>>})
        /\ thread' = FlushDone(p)
        /\ UNCHANGED <<curState, enabled, flagged, dec, sent, sig, unhandled, pipes, lcml, faults>>

FlushAcked(p) ==
    /\ thread.pc = "flushing"
    /\ p = Min(thread.todo)
    /\ Consume("codecFlush")
    /\ thread' = FlushDone(p)
    /\ UNCHANGED <<client, curState, enabled, places, flags, counts, pipes, lcml, callback, hist, faults>>

---------------------------------------------------------------------------
(* MP3DEC_HandleDataBuf_FromApp.                                            *)

\* A flush that was put off is sent again.
Resend(p) == IF deferred[p] /\ curState # "Invalid" THEN Append(cmdPipe, <<"Flush", p>>) ELSE cmdPipe

(* What becomes of the buffer b: handled, and then one of five.            *)

\* Mutant: a buffer is handled and not counted.
HandledNever(b) == UNCHANGED unhandled

Handled(b) == unhandled' = [unhandled EXCEPT ![PortOf[b]] = @ - 1]

GoesBack(b) ==
    /\ ReturnAll({b})
    /\ UNCHANGED <<pend, flagged, lent, hist>>

GoesToDsp(b) ==
    /\ flagged' = flagged \union {b}
    /\ lent' = lent \union {b}
    /\ UNCHANGED <<owner, unreturned, callback, pend, hist>>

\* Mutant: the number of buffers kept back does not grow.
IsKeptNot(b) == UNCHANGED <<owner, unreturned, callback, pend, flagged, lent, hist>>

IsKept(b) ==
    /\ pend' = pend \union {b}
    /\ UNCHANGED <<owner, unreturned, callback, flagged, lent, hist>>

\* Counted as returned, and not returned.
IsCounted(b) ==
    /\ unreturned' = CountAfter(unreturned, {b})
    /\ callback' = Awakened({b})
    /\ hist' = [hist EXCEPT !.lost = @ \union {b}]
    /\ UNCHANGED <<owner, pend, flagged, lent>>

\* Neither queued, kept nor returned.
IsDropped(b) ==
    /\ hist' = [hist EXCEPT !.lost = @ \union {b}]
    /\ UNCHANGED <<owner, unreturned, callback, pend, flagged, lent>>

\* An input buffer; its header, when it is parsed, may ask for another output
\* format.
HandleInput(b, k, changed) ==
    LET start    == dec.SendAfterEOS /\ k # "empty"
        parse    == start /\ (k = "config" \/ dec.bConfigData)
        reconfig == dec.reconfigOutputPort \/ changed
        stopped  == dec.bDspStopped /\ ~start
    IN  /\ thread.pc = "select"
        /\ dataPipe # << >>
        /\ Head(dataPipe) = [buf |-> b, kind |-> k]
        /\ PortOf[b] = In
        /\ changed => parse /\ curState # "Idle"
        /\ dataPipe' = Tail(dataPipe)
        /\ Handled(b)
        /\ CASE curState = "Idle" ->
                    GoesBack(b) /\ UNCHANGED <<flags, cmdPipe>>
             [] curState # "Idle" /\ k = "empty" ->
                    /\ GoesBack(b)
                    /\ dec' = [dec EXCEPT !.bBypassDSP = TRUE]
                    /\ cmdPipe' = Resend(In)
                    /\ UNCHANGED <<sent, deferred>>
             [] OTHER ->
                    /\ dec' = [dec EXCEPT !.bBypassDSP = FALSE, !.SendAfterEOS = (k = "eos"),
                                          !.reconfigOutputPort = reconfig,
                                          !.bConfigData = @ /\ ~parse, !.bDspStopped = stopped]
                    /\ sent' = [sent EXCEPT ![In] = @ \/ (curState = "Executing" /\ b \notin flagged)]
                    /\ cmdPipe' = Resend(In)
                    /\ CASE curState = "Executing" /\ b \in flagged -> IsCounted(b)
                         [] curState = "Executing" /\ b \notin flagged /\ stopped -> GoesBack(b)
                         [] curState = "Executing" /\ b \notin flagged /\ ~stopped /\ reconfig -> IsKept(b)
                         [] curState = "Executing" /\ b \notin flagged /\ ~stopped /\ ~reconfig -> GoesToDsp(b)
                         [] curState = "Pause" -> IsKept(b)
                         [] OTHER -> IsDropped(b)
                    /\ UNCHANGED deferred
        /\ UNCHANGED <<client, curState, enabled, sig, thread, requests, faults>>

\* An output buffer.  numPendingBuffers is 0 as long as no buffer is freed
\* that the DSP has.
HandleOutput(b) ==
    LET executing == curState = "Executing" /\ ~dec.bBypassDSP
        now       == executing /\ ~dec.reconfigOutputPort
    IN  /\ thread.pc = "select"
        /\ dataPipe # << >>
        /\ Head(dataPipe).buf = b
        /\ PortOf[b] = Out
        /\ dataPipe' = Tail(dataPipe)
        /\ Handled(b)
        /\ cmdPipe' = IF curState = "Idle" THEN cmdPipe ELSE Resend(Out)
        /\ sent' = [sent EXCEPT ![Out] = @ \/ (now /\ b \notin flagged /\ ~dec.bDspStopped)]
        /\ CASE curState = "Idle" -> GoesBack(b)
             [] now /\ b \in flagged -> IsCounted(b)
             [] now /\ b \notin flagged /\ dec.bDspStopped -> GoesBack(b)
             [] now /\ b \notin flagged /\ ~dec.bDspStopped -> GoesToDsp(b)
             [] executing /\ dec.reconfigOutputPort -> IsKept(b)
             [] curState = "Pause" /\ ~dec.bBypassDSP -> IsKept(b)
             [] OTHER -> IsDropped(b)
        /\ UNCHANGED <<client, curState, enabled, dec, deferred, sig, thread, requests, faults>>

\* LCML_QueueBuffer fails: MP3DEC_FatalErrorRecover, and the thread ends.
HandleDataFails ==
    /\ thread.pc = "select"
    /\ dataPipe # << >>
    /\ curState = "Executing"
    /\ faults < MaxFaults
    /\ faults' = faults + 1
    /\ dataPipe' = Tail(dataPipe)
    /\ Handled(Head(dataPipe).buf)
    /\ curState' = "Invalid"
    /\ Invalidate
    /\ hist' = [hist EXCEPT !.lost = @ \union {Head(dataPipe).buf}]
    /\ thread' = [thread EXCEPT !.pc = "exited"]
    /\ UNCHANGED <<enabled, places, flags, sig, unreturned, cmdPipe, lcml, callback>>

---------------------------------------------------------------------------
(* MP3DEC_LCML_Callback, run by LCML's thread.                              *)

\* Mutant: LCML answers a flush without giving the buffers back.
DueForStop == IF requests = << >> \/ Head(requests)[1] # "STOP" THEN {} ELSE lent

\* The buffers LCML must give back before it acknowledges its next request.
Due ==
    IF requests = << >> THEN {}
    ELSE CASE Head(requests)[1] = "STOP"  -> lent
           [] Head(requests)[1] = "FLUSH" -> lent \intersect BufsOf(Head(requests)[2])
           [] OTHER                       -> {}

\* EMMCodecBufferProcessed.
Processed(b) ==
    /\ callback = "idle"
    /\ b \in lent
    /\ lent' = lent \ {b}
    /\ flagged' = flagged \ {b}
    /\ owner' = OwnerAfter({b})
    /\ unreturned' = CountAfter(unreturned, {b})
    /\ UNCHANGED <<client, curState, enabled, pend, flags, sig, unhandled, pipes, thread, requests,
                   callback, hist, faults>>

\* EMMCodecStrmCtrlAck of a flush.
FlushAck ==
    LET p == Head(requests)[2]
        B == KeptBack(p)
    IN  /\ callback = "idle"
        /\ requests # << >>
        /\ Head(requests)[1] = "FLUSH"
        /\ Due = {}
        /\ requests' = Tail(requests)
        /\ owner' = OwnerAfter(B)
        /\ unreturned' = CountAfter(unreturned, B)
        /\ pend' = pend \ B
        /\ Signal("codecFlush")
        /\ Complete({<<"Flush", p>>})
        /\ UNCHANGED <<curState, enabled, flagged, flags, unhandled, pipes, thread, lent, callback, hist, faults>>

\* EMMCodecProcessingStoped up to the signal ...
StopAck ==
    /\ callback = "idle"
    /\ requests # << >>
    /\ Head(requests)[1] = "STOP"
    /\ Due = {}
    /\ requests' = Tail(requests)
    /\ owner' = OwnerAfter(pend)
    /\ unreturned' = CountAfter(unreturned, pend)
    /\ pend' = {}
    /\ Signal("codecStop")
    /\ callback' = "stopping"
    /\ UNCHANGED <<client, curState, enabled, flagged, flags, unhandled, pipes, thread, lent, hist, faults>>

\* ... the state ...
StopState ==
    /\ callback = "stopping"
    /\ curState' = "Idle"
    /\ callback' = "check"
    /\ UNCHANGED <<client, enabled, places, flags, sig, counts, pipes, thread, lcml, hist, faults>>

\* Mutant: Idle is reported without waiting for the buffers.
AllReturnedNoWait ==
    /\ callback = "check"
    /\ callback' = "idle"
    /\ Complete({SetState(curState)})
    /\ UNCHANGED <<curState, enabled, places, flags, sig, counts, pipes, thread, lcml, hist, faults>>

\* ... MP3DEC_waitForAllBuffersToReturn, then the event.
AllReturned ==
    /\ callback = "check"
    /\ unreturned = EachPort(0)
    /\ callback' = "idle"
    /\ Complete({SetState(curState)})
    /\ hist' = [hist EXCEPT !.twice = @ \/ Unasked(SetState(curState))]
    /\ UNCHANGED <<curState, enabled, places, flags, sig, counts, pipes, thread, lcml, faults>>

WaitForReturn ==
    /\ callback = "check"
    /\ unreturned # EachPort(0)
    /\ callback' = "asleep"
    /\ UNCHANGED <<client, curState, enabled, places, flags, sig, counts, pipes, thread, lcml, hist, faults>>

\* Mutant: Pause is reported and not entered.
PauseAckOnly ==
    /\ callback = "idle"
    /\ requests # << >>
    /\ Head(requests)[1] = "PAUSE"
    /\ requests' = Tail(requests)
    /\ Complete({SetState("Pause")})
    /\ UNCHANGED <<curState, enabled, places, flags, sig, counts, pipes, thread, lent, callback, hist, faults>>

\* EMMCodecProcessingPaused.
PauseAck ==
    /\ callback = "idle"
    /\ requests # << >>
    /\ Head(requests)[1] = "PAUSE"
    /\ requests' = Tail(requests)
    /\ curState' = "Pause"
    /\ Complete({SetState("Pause")})
    /\ UNCHANGED <<enabled, places, flags, sig, counts, pipes, thread, lent, callback, hist, faults>>

\* EMMCodecDspError and EMMCodecInternalError: MP3DEC_HandleUSNError,
\* MP3DEC_FatalErrorRecover.
DspError ==
    /\ callback = "idle"
    /\ curState \in {"Idle", "Executing", "Pause"}
    /\ faults < MaxFaults
    /\ faults' = faults + 1
    /\ curState' = "Invalid"
    /\ Invalidate
    /\ UNCHANGED <<enabled, places, flags, sig, counts, pipes, thread, lcml, callback, hist>>

---------------------------------------------------------------------------
Allocating ==
    \/ \E b \in Buffers : AllocateBufferWaits(b) \/ (\E use \in BOOLEAN : AllocateBuffer(b, use))
    \/ UseBufferRefused
Freeing    == \E b \in Buffers : FreeBuffer(b)

Client ==
    \/ \E c \in Commands : SendCommand(c)
    \/ SendInvalid
    \/ \E b \in Buffers, k \in Kinds : (PortOf[b] = Out => k = "data") /\ ThisBuffer(b, k)
    \/ ThisBufferCount
    \/ Allocating
    \/ Freeing

ComponentThread ==
    \/ SelectCommand
    \/ \E s \in States : HandleWrongState(s) \/ HandleWaiting(s)
    \/ \E c \in Commands : HandleFails(c)
    \/ HandleIdleFromLoaded \/ LoadedToIdle \/ HandleStop \/ Stopped
    \/ HandleExecuting \/ HandlePause \/ HandleLoaded \/ IdleToLoaded \/ Destroy \/ HandleInvalid
    \/ \E x \in {In, Out, All} : HandlePortDisable(x) \/ HandlePortEnable(x) \/ HandleFlush(x)
    \/ \E p \in Ports : FlushDeferred(p) \/ FlushSent(p) \/ FlushPending(p) \/ FlushAcked(p)
    \/ \E b \in Buffers : HandleOutput(b) \/ (\E k \in Kinds, changed \in BOOLEAN : HandleInput(b, k, changed))
    \/ HandleDataFails

\* What LCML's thread does without the DSP being done with a buffer.
Callback ==
    \/ FlushAck \/ StopAck \/ StopState \/ AllReturned \/ WaitForReturn \/ PauseAck
    \/ \E b \in Due : Processed(b)

Next ==
    \/ Client
    \/ ComponentThread
    \/ Callback
    \/ \E b \in lent : Processed(b)
    \/ DspError

\* Threads run, a request to LCML is answered, and the client does its part of
\* a command it waits for.  Nothing is assumed of when the DSP is done with a
\* buffer that no request is about.
Fairness ==
    /\ WF_vars(ComponentThread)
    /\ WF_vars(Callback)
    /\ WF_vars(ThisBufferCount)
    /\ WF_vars(Allocating)
    /\ WF_vars(Freeing)

Spec == Init /\ [][Next]_vars /\ Fairness

---------------------------------------------------------------------------
(* What a client may rely on.                                               *)

\* The client never owns a buffer that LCML and the DSP still have: neither a
\* flush, a stop nor a disabled port hands one out early (FlushPending,
\* FlushAck, StopAck, HandlePortDisable).
DspOwns == \A b \in lent : owner[b] = "comp"

Piped == { dataPipe[i].buf : i \in 1..Len(dataPipe) }

\* A buffer the component has is in one place of it and only one: the data
\* pipe, the list of those kept back, or LCML.  Otherwise it was dropped by
\* one of the paths that record it as lost.  bBufferPending says which are with
\* LCML.
Accounted ==
    LET held == [pipe |-> Piped, kept |-> pend, lcml |-> lent]
    IN  /\ \A b \in Buffers : owner[b] = "comp" =>
            Cardinality({ x \in DOMAIN held : b \in held[x] }) = IF b \in hist.lost THEN 0 ELSE 1
        /\ (flagged \intersect Allocated) \ hist.lost = lent

\* The counts say how many buffers of each port the component has, but for the
\* one EmptyThisBuffer or FillThisBuffer has not counted yet.
CountsMatch ==
    \A p \in Ports :
        unreturned[p] = Cardinality({ b \in BufsOf(p) : owner[b] = "comp" })
                            - (IF client.pc = "count" /\ PortOf[client.buf] = p THEN 1 ELSE 0)

\* Idle after Executing is reported when every buffer that was counted is back
\* with the client (MP3DEC_waitForAllBuffersToReturn).
IdleEmpty ==
    [][callback = "check" /\ callback' = "idle" /\ client.pc # "count" =>
        \A b \in Buffers : owner[b] # "comp"]_vars

\* The component is in the state the client was told of, whatever commands are
\* unanswered, but for the time that LCML's thread takes to report Idle.
StateAgreed == client.told # "Invalid" /\ callback = "idle" => client.told = curState

Loan == INSTANCE BufferLoan WITH
    StreamOf <- PortOf,
    asked <- IF \E i \in 1..Len(requests) : requests[i][1] # "PAUSE"
             THEN Names(requests[CHOOSE i \in 1..Len(requests) : requests[i][1] # "PAUSE"][2]) ELSE {}

\* LCML as this module uses it is LCML as module BufferLoan specifies it, and
\* the component queues no buffer twice and asks for one thing at a time.
UsesLoan == Loan!LoanSpec

\* The client sleeps in AllocateBuffer on a port that was enabled meanwhile.
WaitsForAlloBuf == client.pc = "alloc" /\ enabled[PortOf[client.buf]] /\ ~sig["alloBuf"]

\* A flush was put off because the count of a buffer came late, and no further
\* buffer comes that would send it again.
FlushForgotten == \E p \in Ports : deferred[p] /\ unhandled[p] = 0 /\ dataPipe = << >> /\ cmdPipe = << >>

\* LCML's thread sleeps in waitForAllBuffersToReturn: the counts met when a
\* buffer was counted and not when one was returned, what is out is its own to
\* return, or the component's thread waits for it in turn.
Overslept ==
    /\ callback = "asleep"
    /\ \/ hist.unwoken
       \/ lent \union pend # {}
       \/ thread.pc = "stop" /\ ~sig["codecStop"]
       \/ thread.pc = "flushing" /\ ~sig["codecFlush"]
       \/ thread.pc = "destroy"
       \/ thread.pc = "command" /\ Head(cmdPipe) = SetState("Invalid")

\* The component waits for the client to free a buffer that it has itself: one
\* that came with the stop and was not counted in time.
Stranded == thread.pc = "inIdle" /\ \E b \in lent \union pend : owner[b] = "comp"

\* FreeBuffer has completed the disabling of one of two ports and forgets about
\* the other.
OneDisabled == client.cmd = <<"PortDisable", All>> /\ cmdPipe = << >> /\ ~dec.disabling

\* UseBuffer has sent the enable command once too often, and the surplus one has
\* set bEnableCommandPending: the next enable command enables nothing.
EnableLost ==
    /\ dec.enabling
    /\ client.cmd[1] = "PortEnable"
    /\ \E p \in Names(client.cmd[2]) : ~enabled[p]

\* HandleOutput dropped a buffer because of bBypassDSP or the state: no stop or
\* free can be complete without it.
Swallowed == hist.lost # {}

\* Every command is answered, unless one of the seven above has happened.
CommandEnds ==
    client.owed # {} ~> \/ client.owed = {}
                        \/ WaitsForAlloBuf \/ FlushForgotten \/ Overslept \/ Stranded
                        \/ OneDisabled \/ EnableLost \/ Swallowed
=============================================================================
