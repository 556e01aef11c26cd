-------------------------- MODULE ResourceManager --------------------------
(***************************************************************************)
(* The OMX resource manager, resource_manager/src/ResourceManager.c: one   *)
(* process that reads commands of the proxies from RM_SERVER_IN (toRM),    *)
(* asks the policy manager (toPM, fromPM), asks the DSP for its load and   *)
(* answers into one FIFO per client process (rmPipe).  A second thread     *)
(* waits for DSP faults and tells every registered component to close.     *)
(*                                                                         *)
(* Both threads use the globals cmd_data and componentList without a lock. *)
(* A handler of the main thread is one step, cut in two where the code     *)
(* uses a global again after a long call: rmPc = "remove" between          *)
(* HandleFreeResource and the removal that rereads cmd_data, rmPc = "qos"  *)
(* while RM_GetQos talks to the DSP.  The fault thread takes one step to   *)
(* fill cmd_data and one to write it.                                      *)
(***************************************************************************)
EXTENDS Integers, Sequences, FiniteSetsExt

CONSTANTS
    Handles,       \* OMX_HANDLETYPE values
    Pids,          \* client processes
    Components,    \* component kinds, param1 of the commands
    TypeOf,        \* RM_AUDIO, RM_VIDEO... of a kind; kinds outside its domain
                   \* are the ones HandleStateSet does not know
    Types,         \* the component types with a CPU total
    CycleLevels,   \* values of cyclesAvailable that the DSP load can give
    Wrap,          \* 2^32, the modulus of OMX_U32
    MaxComponents, \* RM_MAXCOMPONENTS, 100 in the code
    MaxFds,        \* bound: descriptors open for replies
    MaxFaults,     \* bound: DSP faults in a behaviour
    MaxTries       \* bound: polls for the list to empty, 5 in the code

Inst == [h : Handles, pid : Pids]
NoInst == "none"

ASSUME RMAssumption ==
    /\ Wrap \in Nat /\ Wrap > 5   \* an OMX_U32 holds an OMX_STATETYPE
    /\ MaxComponents \in Nat /\ MaxFds \in Nat /\ MaxFaults \in Nat /\ MaxTries \in Nat
    /\ TypeOf \in [DOMAIN TypeOf -> Types] /\ DOMAIN TypeOf \subseteq Components

VARIABLES
    toRM,            \* commands in the FIFO RM_SERVER_IN
    rmPipe,          \* replies in RM_SERVER_OUT_<pid>, per process
    toPM, fromPM,    \* the two pipes to and from the policy manager
    componentList,   \* registered components, in order
    openPipes,       \* open descriptors, and the process whose FIFO each is
    cmd_data,        \* the last command, and scratch space for replies
    globalrequest_cmd_data,   \* the one request whose decision is awaited
    stub_mode,       \* dynamic stub mode
    mmuRecoveryInProgress,
    totalCpu,        \* per type, what rm_set_vdd1_constraint is given the sum of
    cyclesAvailable, \* cpuStruct.cyclesAvailable
    rmPc,            \* where the main thread is
    rmExit,          \* Exitflag of main()
    watch            \* the fault thread: where it is, loop index, counters

rmVars == <<toRM, rmPipe, toPM, fromPM, componentList, openPipes, cmd_data,
            globalrequest_cmd_data, stub_mode, mmuRecoveryInProgress, totalCpu,
            cyclesAvailable, rmPc, rmExit, watch>>

(* OMX_STATETYPE, as sent in param2 of RM_StateSet.                        *)
OMX_StateIdle == 2
OMX_StateExecuting == 3
OMX_StatePause == 4
OMX_StateWaitForResources == 5

Command(cmd, inst, param1, param2, param4) ==
    [RM_Cmd |-> cmd, inst |-> inst, param1 |-> param1, param2 |-> param2,
     param4 |-> param4, rm_status |-> "RM_ErrorNone"]

Reply(status, inst) == [rm_status |-> status, inst |-> inst]

-----------------------------------------------------------------------------
(* componentList.                                                          *)

N == Len(componentList)

\* Mutant: the process is not compared.
IndexByHandle(inst) ==
    {i \in 1..N : /\ componentList[i].inst.h = inst.h
                  /\ \A j \in 1..(i - 1) : componentList[j].inst.h # inst.h}

\* RM_GetListIndex: the set holds the index of the first match, or nothing.
RM_GetListIndex(inst) ==
    {i \in 1..N : /\ componentList[i].inst = inst
                  /\ \A j \in 1..(i - 1) : componentList[j].inst # inst}

\* RM_GetPipe: the descriptor an instance's replies go to; {} stands for -1.
RM_GetPipe(inst) == {componentList[i].pipe : i \in RM_GetListIndex(inst)}

\* write(RM_GetPipe(to), &reply, ...), which fails on -1 and on a descriptor
\* that was closed.
Write(to, reply) ==
    rmPipe' = [p \in Pids |->
        IF \E fd \in RM_GetPipe(to) \cap DOMAIN openPipes : openPipes[fd] = p
        THEN Append(rmPipe[p], reply) ELSE rmPipe[p]]

RM_SetStatus(inst, status) ==
    [i \in 1..N |-> IF i \in RM_GetListIndex(inst)
                    THEN [componentList[i] EXCEPT !.status = status]
                    ELSE componentList[i]]

\* Mutant: no search for an entry of the same component.
AddPipeAgain(cmd, pipe) ==
    /\ N < MaxComponents
    /\ componentList' = Append(componentList,
           [inst |-> cmd.inst, pipe |-> pipe, state |-> OMX_StateIdle,
            cpu |-> cmd.param2, status |-> "unset"])

\* RM_AddPipe does not set the status of a new entry.
RM_AddPipe(cmd, pipe) ==
    IF RM_GetListIndex(cmd.inst) # {}
    THEN UNCHANGED componentList
    ELSE /\ N < MaxComponents
         /\ componentList' = Append(componentList,
                [inst |-> cmd.inst, pipe |-> pipe, state |-> OMX_StateIdle,
                 cpu |-> cmd.param2, status |-> "unset"])

RM_RemoveComponentFromList(inst) ==
    componentList' =
        IF RM_GetListIndex(inst) = {} THEN componentList
        ELSE LET n == CHOOSE i \in RM_GetListIndex(inst) : TRUE
             IN  [i \in 1..(N - 1) |->
                     IF i >= n THEN componentList[i + 1] ELSE componentList[i]]

RM_ClosePipe(inst) ==
    openPipes' = [fd \in DOMAIN openPipes \ RM_GetPipe(inst) |-> openPipes[fd]]

-----------------------------------------------------------------------------
(* Commands of the proxies.                                                *)

\* Mutant: the DSP is asked without waiting for the policy manager.
RequestAsksDsp(cmd) ==
    /\ toPM' = Append(toPM, [PM_Cmd |-> "PM_RequestPolicy",
                             inst |-> cmd.inst, param1 |-> cmd.param1])
    /\ globalrequest_cmd_data' = [inst |-> cmd.inst, param1 |-> cmd.param1]
    /\ cmd_data' = cmd
    /\ rmPc' = "qos"
    /\ UNCHANGED <<rmPipe, componentList, openPipes, totalCpu>>

\* In stub mode a request is neither forwarded nor answered.
HandleRequestResource(cmd) ==
    /\ IF stub_mode
       THEN UNCHANGED <<toPM, globalrequest_cmd_data>>
       ELSE /\ toPM' = Append(toPM, [PM_Cmd |-> "PM_RequestPolicy",
                                     inst |-> cmd.inst, param1 |-> cmd.param1])
            /\ globalrequest_cmd_data' = [inst |-> cmd.inst, param1 |-> cmd.param1]
    /\ cmd_data' = cmd
    /\ rmPc' = "select"
    /\ UNCHANGED <<rmPipe, componentList, openPipes, totalCpu>>

\* No reason is ever set, so the status stays; the command is echoed.
HandleWaitForResource(cmd) ==
    Write(cmd.inst, Reply(cmd.rm_status, cmd.inst))

\* The entries that HandleFreeResource tells: the last entry is not looked at.
Waiting == {i \in 1..(N - 1) : componentList[i].state = OMX_StateWaitForResources}

\* The members of a set of indices in the order in which a loop meets them.
InOrder(S) == [k \in 1..Cardinality(S) |->
                  CHOOSE i \in S : Cardinality({j \in S : j <= i}) = k]

\* Mutant: the test for stub mode is inverted.
FreePolicyInStub(cmd) ==
    toPM' = IF stub_mode
            THEN Append(toPM, [PM_Cmd |-> "PM_FreePolicy", inst |-> cmd.inst,
                               param1 |-> cmd.param1])
            ELSE toPM

\* The policy manager is told, except in stub mode.
FreePolicy(cmd) ==
    toPM' = IF stub_mode THEN toPM
            ELSE Append(toPM, [PM_Cmd |-> "PM_FreePolicy", inst |-> cmd.inst,
                               param1 |-> cmd.param1])

\* Replies keep the nPid of the command; the handle in cmd_data is overwritten.
HandleFreeResource(cmd) ==
    LET acquired(i) == Reply("RM_RESOURCEACQUIRED",
                             [h |-> componentList[i].inst.h, pid |-> cmd.inst.pid])
        told(p) == InOrder({i \in Waiting : /\ componentList[i].pipe \in DOMAIN openPipes
                                            /\ openPipes[componentList[i].pipe] = p})
    IN  /\ FreePolicy(cmd)
        /\ rmPipe' = [p \in Pids |-> rmPipe[p] \o
                         [k \in DOMAIN told(p) |-> acquired(told(p)[k])]]
        /\ cmd_data' = IF Waiting = {} THEN cmd
                       ELSE [cmd EXCEPT !.inst.h = componentList[Max(Waiting)].inst.h,
                                        !.rm_status = "RM_RESOURCEACQUIRED"]
        /\ rmPc' = "remove"
        /\ UNCHANGED <<globalrequest_cmd_data, componentList, openPipes, totalCpu>>

\* What main() does after HandleFreeResource, with cmd_data as it is now.
RemoveFreed ==
    /\ rmPc = "remove"
    /\ IF cmd_data.RM_Cmd = "RM_FreeAndCloseResource"
       THEN RM_ClosePipe(cmd_data.inst)
       ELSE UNCHANGED openPipes
    /\ RM_RemoveComponentFromList(cmd_data.inst)
    /\ rmPc' = "select"
    /\ UNCHANGED <<toRM, rmPipe, toPM, fromPM, cmd_data, globalrequest_cmd_data,
                   stub_mode, mmuRecoveryInProgress, totalCpu, cyclesAvailable,
                   rmExit, watch>>

Starts(old, new) == old \in {OMX_StateIdle, OMX_StatePause} /\ new = OMX_StateExecuting

\* Mutant: leaving Executing for Pause is forgotten.
StopsIdle(old, new) == old = OMX_StateExecuting /\ new = OMX_StateIdle

Stops(old, new) == old = OMX_StateExecuting /\ new \in {OMX_StateIdle, OMX_StatePause}

\* The CPU share of entry e, if its kind has a type.
CpuDelta(cmd, e) ==
    IF cmd.param1 \notin DOMAIN TypeOf THEN 0
    ELSE IF Starts(e.state, cmd.param2) THEN e.cpu
    ELSE IF Stops(e.state, cmd.param2) THEN -e.cpu
    ELSE 0

\* The totals are OMX_U32.
AddCpu(total, delta) == (total + delta) % Wrap

HandleStateSet(cmd) ==
    /\ \/ /\ RM_GetListIndex(cmd.inst) = {}
          /\ UNCHANGED <<componentList, totalCpu, rmPipe>>
       \/ \E i \in RM_GetListIndex(cmd.inst) :
             /\ componentList' = [componentList EXCEPT ![i].state = cmd.param2]
             /\ totalCpu' = [t \in Types |->
                    IF cmd.param1 \in DOMAIN TypeOf /\ TypeOf[cmd.param1] = t
                    THEN AddCpu(totalCpu[t], CpuDelta(cmd, componentList[i]))
                    ELSE totalCpu[t]]
             /\ IF cmd.param2 = OMX_StateWaitForResources
                THEN HandleWaitForResource(cmd)
                ELSE UNCHANGED rmPipe
    /\ cmd_data' = cmd
    /\ rmPc' = "select"
    /\ UNCHANGED <<toPM, globalrequest_cmd_data, openPipes>>

\* Opening a FIFO for writing blocks until it is open for reading; the proxy
\* that sent the command is in open() itself, or has the FIFO open already.
\* open() returns the lowest free descriptor number.
FreeFds == (1..MaxFds) \ DOMAIN openPipes

\* Mutant: the FIFO is opened without waiting for a reader, which fails.
CreatePipeNonblocking(cmd) ==
    /\ cmd_data' = cmd
    /\ rmPc' = "select"
    /\ UNCHANGED <<toPM, rmPipe, globalrequest_cmd_data, openPipes, componentList,
                   totalCpu>>

RM_CreatePipe(cmd) ==
    /\ FreeFds # {}
    /\ LET fd == CHOOSE f \in FreeFds : \A g \in FreeFds : f <= g
       IN  /\ openPipes' = [f \in DOMAIN openPipes \cup {fd} |->
                               IF f = fd THEN cmd.inst.pid ELSE openPipes[f]]
           /\ RM_AddPipe(cmd, fd)
    /\ cmd_data' = cmd
    /\ rmPc' = "select"
    /\ UNCHANGED <<toPM, rmPipe, globalrequest_cmd_data, totalCpu>>

RM_ReusePipe(cmd) ==
    LET reuse == RM_GetPipe([h |-> cmd.param4, pid |-> cmd.inst.pid])
    IN  IF reuse = {} THEN RM_CreatePipe(cmd)
        ELSE /\ \E pipe \in reuse : RM_AddPipe(cmd, pipe)
             /\ cmd_data' = cmd
             /\ rmPc' = "select"
             /\ UNCHANGED <<toPM, rmPipe, globalrequest_cmd_data, openPipes, totalCpu>>

\* RM_CancelWaitForResource, RM_Init and RM_Exit.
IgnoredRMCommand(cmd) ==
    /\ cmd_data' = cmd
    /\ rmPc' = "select"
    /\ UNCHANGED <<toPM, rmPipe, globalrequest_cmd_data, componentList, openPipes,
                   totalCpu>>

\* One turn of main()'s loop that finds a command: commands go before the
\* responses of the policy manager.
ReadCommand ==
    /\ ~ rmExit /\ rmPc = "select" /\ toRM # <<>>
    /\ LET cmd == Head(toRM) IN
       \/ cmd.RM_Cmd = "RM_RequestResource" /\ HandleRequestResource(cmd)
       \/ /\ cmd.RM_Cmd = "RM_WaitForResource"
          /\ HandleWaitForResource(cmd)
          /\ cmd_data' = cmd
          /\ rmPc' = "select"
          /\ UNCHANGED <<toPM, globalrequest_cmd_data, componentList, openPipes, totalCpu>>
       \/ /\ cmd.RM_Cmd \in {"RM_FreeResource", "RM_FreeAndCloseResource"}
          /\ HandleFreeResource(cmd)
       \/ cmd.RM_Cmd = "RM_StateSet" /\ HandleStateSet(cmd)
       \/ cmd.RM_Cmd = "RM_OpenPipe" /\ RM_CreatePipe(cmd)
       \/ cmd.RM_Cmd = "RM_ReusePipe" /\ RM_ReusePipe(cmd)
       \/ cmd.RM_Cmd = "RM_CancelWaitForResource" /\ IgnoredRMCommand(cmd)
       \/ cmd.RM_Cmd = "RM_ExitTI" /\ IgnoredRMCommand(cmd)
    /\ toRM' = Tail(toRM)
    /\ rmExit' = (Head(toRM).RM_Cmd = "RM_ExitTI")
    /\ UNCHANGED <<fromPM, stub_mode, mmuRecoveryInProgress, cyclesAvailable, watch>>

-----------------------------------------------------------------------------
(* Responses of the policy manager; g is the request on record.            *)

ReadResponse(cmd) ==
    /\ ~ rmExit /\ rmPc = "select"
    /\ toRM = <<>> /\ ~ stub_mode
    /\ fromPM # <<>> /\ Head(fromPM).PM_Cmd = cmd
    /\ fromPM' = Tail(fromPM)

\* The status is set for the handle of the response and the nPid of the last
\* command; the reply carries that nPid too.
PolicyPreempted ==
    LET victim == Head(fromPM).inst
        mixed == [h |-> victim.h, pid |-> cmd_data.inst.pid]
    IN  /\ ReadResponse("PM_PREEMPTED")
        /\ cmd_data' = [cmd_data EXCEPT !.inst = mixed, !.rm_status = "RM_PREEMPT"]
        /\ componentList' = RM_SetStatus(mixed, "RM_WaitingForClient")
        /\ Write(victim, Reply("RM_PREEMPT", mixed))
        /\ UNCHANGED <<toRM, toPM, openPipes, globalrequest_cmd_data, stub_mode,
                       mmuRecoveryInProgress, totalCpu, cyclesAvailable, rmPc,
                       rmExit, watch>>

\* A decision goes to the request on record, whomever the response names.
Answer(status, newStatus) ==
    LET g == globalrequest_cmd_data.inst
    IN  /\ componentList' = RM_SetStatus(g, newStatus)
        /\ Write(g, Reply(status, g))

\* Mutant: the denial is not passed on.
DeniedSilently ==
    /\ ReadResponse("PM_DENYPOLICY")
    /\ UNCHANGED <<toRM, toPM, rmPipe, componentList, openPipes, cmd_data,
                   globalrequest_cmd_data, stub_mode, mmuRecoveryInProgress, totalCpu,
                   cyclesAvailable, rmPc, rmExit, watch>>

PolicyDenied ==
    /\ ReadResponse("PM_DENYPOLICY")
    /\ Answer("RM_DENY", "RM_WaitingForClient")
    /\ UNCHANGED <<toRM, toPM, openPipes, cmd_data, globalrequest_cmd_data, stub_mode,
                   mmuRecoveryInProgress, totalCpu, cyclesAvailable, rmPc, rmExit, watch>>

PolicyGrantedInRecovery ==
    /\ ReadResponse("PM_GRANTPOLICY")
    /\ mmuRecoveryInProgress
    /\ Answer("RM_RESOURCEFATALERROR", "RM_WaitingForClient")
    /\ UNCHANGED <<toRM, toPM, openPipes, cmd_data, globalrequest_cmd_data, stub_mode,
                   mmuRecoveryInProgress, totalCpu, cyclesAvailable, rmPc, rmExit, watch>>

PolicyGranted ==
    /\ ReadResponse("PM_GRANTPOLICY")
    /\ ~ mmuRecoveryInProgress
    /\ rmPc' = "qos"
    /\ UNCHANGED <<toRM, rmPipe, toPM, componentList, openPipes, cmd_data,
                   globalrequest_cmd_data, stub_mode, mmuRecoveryInProgress, totalCpu,
                   cyclesAvailable, rmExit, watch>>

\* The grant branch after RM_GetQos() == QOS_OK.
QosGrant ==
    /\ Answer("RM_GRANT", "RM_ComponentActive")
    /\ UNCHANGED toPM

\* Mutant: the client is refused although the policy manager will decide.
QosDenyAndFree ==
    /\ toPM' = Append(toPM, [PM_Cmd |-> "PM_FreeResources",
                             inst |-> globalrequest_cmd_data.inst,
                             param1 |-> globalrequest_cmd_data.param1])
    /\ Answer("RM_DENY", "RM_WaitingForClient")

\* The other branch: the policy manager is asked to make room.
QosFreeResources ==
    /\ toPM' = Append(toPM, [PM_Cmd |-> "PM_FreeResources",
                             inst |-> globalrequest_cmd_data.inst,
                             param1 |-> globalrequest_cmd_data.param1])
    /\ UNCHANGED <<rmPipe, componentList>>

\* Mutant: only the sign is tested.
CyclesLeft(cycles) == cycles % Wrap >= 0

\* cyclesAvailable (int) is compared with param2 (OMX_U32) of cmd_data.
CyclesSuffice(cycles) == cycles % Wrap >= cmd_data.param2

\* RM_GetQos: the DSP answers with its load, and enough memory...
GetQosOk ==
    /\ rmPc = "qos"
    /\ \E cycles \in CycleLevels :
          /\ CyclesSuffice(cycles)
          /\ cyclesAvailable' = cycles
    /\ QosGrant
    /\ rmPc' = "select"
    /\ UNCHANGED <<toRM, fromPM, openPipes, cmd_data, globalrequest_cmd_data, stub_mode,
                   mmuRecoveryInProgress, totalCpu, rmExit, watch>>

\* ...or there is too little of one of the two.
GetQosDeny ==
    /\ rmPc = "qos"
    /\ \E cycles \in CycleLevels, memoryAvailable \in BOOLEAN :
          /\ ~ (memoryAvailable /\ CyclesSuffice(cycles))
          /\ cyclesAvailable' = cycles
    /\ QosFreeResources
    /\ rmPc' = "select"
    /\ UNCHANGED <<toRM, fromPM, openPipes, cmd_data, globalrequest_cmd_data, stub_mode,
                   mmuRecoveryInProgress, totalCpu, rmExit, watch>>

\* A DSP call fails: QOS_DENY.
GetQosFails ==
    /\ rmPc = "qos"
    /\ QosFreeResources
    /\ rmPc' = "select"
    /\ UNCHANGED <<toRM, fromPM, openPipes, cmd_data, globalrequest_cmd_data, stub_mode,
                   mmuRecoveryInProgress, totalCpu, cyclesAvailable, rmExit, watch>>

\* InitializeQos fails: from now on the process is in stub mode.
InitializeQosFails ==
    /\ rmPc = "qos"
    /\ stub_mode' = TRUE
    /\ QosGrant
    /\ rmPc' = "select"
    /\ UNCHANGED <<toRM, fromPM, openPipes, cmd_data, globalrequest_cmd_data,
                   mmuRecoveryInProgress, totalCpu, cyclesAvailable, rmExit, watch>>

-----------------------------------------------------------------------------
(* RM_FatalErrorWatchThread.                                               *)

WatchAt(pc, i) == [pc |-> pc, i |-> i, faults |-> watch.faults]

WatchStep(from, to) == watch.pc = from /\ watch' = WatchAt(to, watch.i)

MainUnchanged == UNCHANGED <<toRM, toPM, fromPM, openPipes, globalrequest_cmd_data,
                             stub_mode, totalCpu, cyclesAvailable, rmPc, rmExit>>

\* DSPManager_WaitForEvents returns an MMU fault or a system error.
Fault ==
    /\ watch.pc = "monitor" /\ watch.faults < MaxFaults
    /\ watch' = [pc |-> "loop", i |-> 1, faults |-> watch.faults + 1]
    /\ mmuRecoveryInProgress' = TRUE
    /\ MainUnchanged /\ UNCHANGED <<rmPipe, componentList, cmd_data>>

\* The loop over componentList: cmd_data is filled from entry i...
WatchFill ==
    /\ watch.i <= N
    /\ WatchStep("loop", "write")
    /\ cmd_data' = [cmd_data EXCEPT !.inst = componentList[watch.i].inst,
                                    !.rm_status = "RM_RESOURCEFATALERROR"]
    /\ MainUnchanged /\ UNCHANGED <<rmPipe, componentList, mmuRecoveryInProgress>>

\* ...and written to the pipe of whatever instance it names by then.
WatchWrite ==
    /\ watch.pc = "write"
    /\ watch' = WatchAt("loop", watch.i + 1)
    /\ componentList' = RM_SetStatus(cmd_data.inst, "RM_WaitingForClient")
    /\ Write(cmd_data.inst, Reply(cmd_data.rm_status, cmd_data.inst))
    /\ MainUnchanged /\ UNCHANGED <<cmd_data, mmuRecoveryInProgress>>

\* The loop is over; if DspManager_Close fails, so is the thread.
WatchLoopEnds ==
    /\ watch.pc = "loop" /\ watch.i > N
    /\ \E next \in {"poll", "exit"} : watch' = WatchAt(next, 0)
    /\ MainUnchanged
    /\ UNCHANGED <<rmPipe, componentList, cmd_data, mmuRecoveryInProgress>>

\* Mutant: the number of polls is not limited.
WatchPollForever ==
    /\ watch.pc = "poll"
    /\ watch' = IF N = 0 THEN WatchAt("reopen", 0) ELSE watch
    /\ MainUnchanged
    /\ UNCHANGED <<rmPipe, componentList, cmd_data, mmuRecoveryInProgress>>

\* At most MaxTries polls for the components to go away, then on regardless.
WatchPoll ==
    /\ watch.pc = "poll"
    /\ watch' = IF N = 0 \/ watch.i + 1 >= MaxTries
                THEN WatchAt("reopen", 0)
                ELSE WatchAt("poll", watch.i + 1)
    /\ MainUnchanged
    /\ UNCHANGED <<rmPipe, componentList, cmd_data, mmuRecoveryInProgress>>

\* DspManager_Open succeeds within MAX_TRIES: requests are admitted again.
DspReopened ==
    /\ WatchStep("reopen", "monitor")
    /\ mmuRecoveryInProgress' = FALSE
    /\ MainUnchanged /\ UNCHANGED <<rmPipe, componentList, cmd_data>>

\* It fails MAX_TRIES times, then DSPProcessor_Attach fails and the thread ends
\* with mmuRecoveryInProgress as it is; or the open succeeds and the attach or
\* the registration for events fails.
DspLost ==
    /\ WatchStep("reopen", "exit")
    /\ mmuRecoveryInProgress' \in {mmuRecoveryInProgress, FALSE}
    /\ MainUnchanged
    /\ UNCHANGED <<rmPipe, componentList, cmd_data>>

WatchNext == Fault \/ WatchFill \/ WatchWrite \/ WatchLoopEnds \/ WatchPoll
             \/ DspReopened \/ DspLost

MainNext ==
    \/ ReadCommand \/ RemoveFreed
    \/ PolicyPreempted \/ PolicyDenied \/ PolicyGrantedInRecovery \/ PolicyGranted
    \/ GetQosOk \/ GetQosDeny \/ GetQosFails \/ InitializeQosFails

RMInit ==
    /\ toRM = <<>>
    /\ rmPipe = [p \in Pids |-> <<>>]
    /\ toPM = <<>> /\ fromPM = <<>>
    /\ componentList = <<>> /\ openPipes = [fd \in {} |-> NoInst]
    /\ cmd_data = [RM_Cmd |-> "none", inst |-> [h |-> NoInst, pid |-> NoInst],
                   param1 |-> NoInst, param2 |-> 0, param4 |-> NoInst,
                   rm_status |-> "RM_ErrorNone"]
    /\ globalrequest_cmd_data = [inst |-> [h |-> NoInst, pid |-> NoInst],
                                 param1 |-> NoInst]
    /\ stub_mode = FALSE
    /\ mmuRecoveryInProgress = FALSE
    /\ totalCpu = [t \in Types |-> 0]
    /\ cyclesAvailable = 0
    /\ rmPc = "select"
    /\ rmExit = FALSE
    /\ watch = [pc |-> "reopen", i |-> 0, faults |-> 0]
=============================================================================
