------------------------------ MODULE RMSystem ------------------------------
(***************************************************************************)
(* The resource management of the OMX components as one system: the        *)
(* resource manager, the policy manager and the client processes with      *)
(* their components and their proxy thread.                                *)
(*                                                                         *)
(* The components follow the template all TI codecs share, taken here from *)
(* the MP3 decoder: HandleCommand asks for resources on Loaded -> Idle,    *)
(* reports the later states, reacts to the proxy's callback and frees its  *)
(* resources in ComponentDeInit.  The proxy is modelled by what it sends   *)
(* and by what it does with each reply; the variables its thread shares    *)
(* with the components (RM_Error, sem) are left out, and a process that    *)
(* waits for a decision sends nothing (responsePending).                   *)
(*                                                                         *)
(* The constant Usage says how far a run goes beyond the simplest use.     *)
(***************************************************************************)
EXTENDS ResourceManager

CONSTANTS
    policyCombinationTable,
    KindOf,       \* the component index of each client
    CpuOf,        \* the MHz each client asks for (param2 of its request)
    Usage,        \* what happens beyond the simplest use, see below
    FifoBound,    \* bound: messages in a FIFO before its writer waits
    MaxRequests   \* bound: numClients of a process

Clients == DOMAIN KindOf

(* Usage may contain                                                       *)
(*   "overlap"      two processes have a request under way at once         *)
(*   "waiting"      a client sends a component to WaitForResources         *)
(*   "unusedFrees"  a component that never asked for resources is destroyed*)
(*   "qosInitFails" InitializeQos fails                                    *)
(*   "foreign"      some process sends commands that no component sends    *)
Usages == {"overlap", "waiting", "unusedFrees", "qosInitFails", "foreign"}

ASSUME ClientAssumption ==
    /\ Clients \subseteq Inst
    /\ KindOf \in [Clients -> Components]
    /\ CpuOf \in [Clients -> 0..(Wrap - 1)]
    /\ Usage \subseteq Usages
    /\ FifoBound \in Nat \ {0} /\ MaxRequests \in Nat

VARIABLES
    activePolicyCombination, pComponentList, activeComponentList,
    pPendingComponentList, pmExit, running,   \* see PolicyManager
    curState,        \* OMX state of each component, or where its request is
    idleQueued,      \* components with the preemption's Idle in their cmdPipe
    used,            \* components that asked for resources since created
    numClients,      \* per process: requests minus frees, floored at 0
    threadhandle,    \* per process: the component whose pipe is reused
    rmDataPid,       \* per process: nPid left in the proxy thread's rm_data
    fatalErrorHandled

pmLocal == <<activePolicyCombination, pComponentList, activeComponentList,
             pPendingComponentList, pmExit, running>>
clientVars == <<curState, idleQueued, used, numClients, threadhandle, rmDataPid,
                fatalErrorHandled>>
vars == <<rmVars, pmLocal, clientVars>>

PM == INSTANCE PolicyManager WITH MaxRegistered <- 100, MaxPending <- 100

-----------------------------------------------------------------------------
(* Clients.                                                                *)

InRequest == {"connecting", "sending", "requesting"}

\* The component of process p whose request is under way.
Requester(p) == {c \in Clients : c.pid = p /\ curState[c] \in InRequest}
responsePending(p) == Requester(p) # {}

\* RMProxy_NewSendCommand waits for the process's own request to complete, and
\* the proxy's write() for room in the FIFO.
CanSend(c) == ~ responsePending(c.pid) /\ Len(toRM) < FifoBound

Send(c, cmd, param2, param4) ==
    toRM' = Append(toRM, Command(cmd, c, KindOf[c], param2, param4))

RMUnchangedButIn == UNCHANGED <<rmPipe, toPM, fromPM, componentList, openPipes,
                        cmd_data, globalrequest_cmd_data, stub_mode,
                        mmuRecoveryInProgress, totalCpu, cyclesAvailable, rmPc,
                        rmExit, watch>>

\* OMX_CommandStateSet(Idle) in Loaded: the proxy thread first has the resource
\* manager open, or share, the process's FIFO.  For the sharing it sends the
\* nPid that happens to be in rm_data.
RequestConnects(c) ==
    /\ curState[c] = "Loaded"
    /\ CanSend(c)
    /\ numClients[c.pid] < MaxRequests
    /\ Cardinality(DOMAIN openPipes) < MaxFds
    /\ "overlap" \in Usage \/ \A p \in Pids : ~ responsePending(p)
    /\ IF numClients[c.pid] = 0
       THEN /\ Send(c, "RM_OpenPipe", CpuOf[c], NoInst)
            /\ threadhandle' = [threadhandle EXCEPT ![c.pid] = c.h]
            /\ rmDataPid' = [rmDataPid EXCEPT ![c.pid] = c.pid]
            /\ curState' = [curState EXCEPT ![c] = "connecting"]
       ELSE /\ toRM' = Append(toRM,
                          Command("RM_ReusePipe", [c EXCEPT !.pid = rmDataPid[c.pid]],
                                  KindOf[c], CpuOf[c], threadhandle[c.pid]))
            /\ curState' = [curState EXCEPT ![c] = "sending"]
            /\ UNCHANGED <<threadhandle, rmDataPid>>
    /\ used' = used \cup {c}
    /\ RMUnchangedButIn
    /\ UNCHANGED <<pmLocal, idleQueued, numClients, fatalErrorHandled>>

\* The proxy's open() of the FIFO returns when the resource manager has opened
\* its end.
PipeOpened(c) ==
    /\ curState[c] = "connecting"
    /\ \E fd \in DOMAIN openPipes : openPipes[fd] = c.pid
    /\ curState' = [curState EXCEPT ![c] = "sending"]
    /\ UNCHANGED <<rmVars, pmLocal, idleQueued, used, numClients, threadhandle,
                   rmDataPid, fatalErrorHandled>>

RequestResource(c) ==
    /\ curState[c] = "sending"
    /\ Len(toRM) < FifoBound
    /\ Send(c, "RM_RequestResource", CpuOf[c], NoInst)
    /\ numClients' = [numClients EXCEPT ![c.pid] = @ + 1]
    /\ curState' = [curState EXCEPT ![c] = "requesting"]
    /\ RMUnchangedButIn
    /\ UNCHANGED <<pmLocal, idleQueued, used, threadhandle, rmDataPid,
                   fatalErrorHandled>>

\* A commanded state change that is reported with RMProxy_StateSet.
StateCode == [Idle |-> OMX_StateIdle, Executing |-> OMX_StateExecuting,
              Pause |-> OMX_StatePause,
              WaitForResources |-> OMX_StateWaitForResources]

ReportedChanges == {<<"Idle", "Executing">>, <<"Pause", "Executing">>,
                    <<"Idle", "Pause">>, <<"Executing", "Pause">>,
                    <<"Executing", "Idle">>, <<"Pause", "Idle">>,
                    <<"WaitForResources", "Idle">>, <<"Loaded", "WaitForResources">>}

StateSet(c, new) ==
    /\ <<curState[c], new>> \in ReportedChanges
    /\ "waiting" \in Usage \/ "WaitForResources" \notin {curState[c], new}
    /\ CanSend(c)
    /\ Send(c, "RM_StateSet", StateCode[new], NoInst)
    /\ curState' = [curState EXCEPT ![c] = new]
    /\ RMUnchangedButIn
    /\ UNCHANGED <<pmLocal, idleQueued, used, numClients, threadhandle, rmDataPid,
                   fatalErrorHandled>>

\* The Idle command that the preemption callback wrote is read; in Idle it is
\* the same state, in any other state than these it is refused.
PreemptedGoesIdle(c) ==
    /\ c \in idleQueued
    /\ curState[c] \notin InRequest
    /\ idleQueued' = idleQueued \ {c}
    /\ IF curState[c] \in {"Executing", "Pause"}
       THEN /\ CanSend(c)
            /\ Send(c, "RM_StateSet", OMX_StateIdle, NoInst)
            /\ curState' = [curState EXCEPT ![c] = "Idle"]
       ELSE UNCHANGED <<toRM, curState>>
    /\ RMUnchangedButIn
    /\ UNCHANGED <<pmLocal, used, numClients, threadhandle, rmDataPid,
                   fatalErrorHandled>>

\* Idle -> Loaded, or WaitForResources -> Loaded, reports nothing.
GoesLoaded(c) ==
    /\ curState[c] \in {"Idle", "WaitForResources"}
    /\ curState' = [curState EXCEPT ![c] = "Loaded"]
    /\ UNCHANGED <<rmVars, pmLocal, idleQueued, used, numClients, threadhandle,
                   rmDataPid, fatalErrorHandled>>

\* Mutant: every client closes the FIFO.
FreeAlwaysCloses(p) == "RM_FreeAndCloseResource"

\* RM_FreeResource: the last client of a process also closes the FIFO.
FreeCommand(p) == IF numClients[p] > 1 THEN "RM_FreeResource"
                  ELSE "RM_FreeAndCloseResource"

\* Mutant: the counter is not tested first.
FloorMissing(n) == n - 1

Floor(n) == IF n > 0 THEN n - 1 ELSE 0

\* ComponentDeInit, and a new component is created under the same handle.
DeInit(c) ==
    /\ curState[c] \in {"Loaded", "Invalid"}
    /\ "unusedFrees" \in Usage \/ c \in used
    /\ CanSend(c)
    /\ Send(c, FreeCommand(c.pid), 0, NoInst)
    /\ numClients' = [numClients EXCEPT ![c.pid] = Floor(@)]
    /\ curState' = [curState EXCEPT ![c] = "Loaded"]
    /\ used' = used \ {c}
    /\ idleQueued' = idleQueued \ {c}
    /\ RMUnchangedButIn
    /\ UNCHANGED <<pmLocal, threadhandle, rmDataPid, fatalErrorHandled>>

\* Commands of ResourceManagerAPI.h that the components do not use.
ForeignCommand(c) ==
    /\ "foreign" \in Usage
    /\ toRM = <<>>
    /\ \E cmd \in {"RM_WaitForResource", "RM_CancelWaitForResource", "RM_ExitTI"} :
          Send(c, cmd, 0, NoInst)
    /\ RMUnchangedButIn
    /\ UNCHANGED <<pmLocal, clientVars>>

-----------------------------------------------------------------------------
(* Replies, handled by the proxy thread of process p.                      *)

ReadReply(p, status) ==
    /\ rmPipe[p] # <<>>
    /\ Head(rmPipe[p]).rm_status = status
    /\ rmPipe' = [rmPipe EXCEPT ![p] = Tail(@)]
    /\ rmDataPid' = [rmDataPid EXCEPT ![p] = Head(rmPipe[p]).inst.pid]
    /\ UNCHANGED <<toPM, fromPM, componentList, openPipes, cmd_data,
                   globalrequest_cmd_data, stub_mode, mmuRecoveryInProgress,
                   totalCpu, cyclesAvailable, rmPc, rmExit, watch,
                   pmLocal, threadhandle>>

\* The component whose callback a reply leads to: only the handle is compared.
Named(p) == {c \in Clients : c.pid = p /\ c.h = Head(rmPipe[p]).inst.h}

\* A decision goes to whoever waits on the process's semaphore.
Granted(p) ==
    /\ ReadReply(p, "RM_GRANT")
    /\ \/ /\ Requester(p) = {}
          /\ UNCHANGED <<curState, toRM>>
       \/ \E c \in Requester(p) :
             /\ curState' = [curState EXCEPT ![c] = "Idle"]
             /\ Send(c, "RM_StateSet", OMX_StateIdle, NoInst)
    /\ UNCHANGED <<idleQueued, used, numClients, fatalErrorHandled>>

Denied(p) ==
    /\ ReadReply(p, "RM_DENY")
    /\ curState' = [c \in Clients |->
           IF c \in Requester(p) THEN "WaitForResources" ELSE curState[c]]
    /\ UNCHANGED <<toRM, idleQueued, used, numClients, fatalErrorHandled>>

Preempted(p) ==
    /\ ReadReply(p, "RM_PREEMPT")
    /\ idleQueued' = idleQueued \cup
           {c \in Named(p) : curState[c] \in {"Executing", "Pause"}}
    /\ UNCHANGED <<toRM, curState, used, numClients, fatalErrorHandled>>

\* RM_RESOURCEACQUIRED is passed on to the application, and the echo of a
\* RM_StateSet(WaitForResources) has a status that no branch looks for.
Informed(p) ==
    /\ \E status \in {"RM_RESOURCEACQUIRED", "RM_ErrorNone"} : ReadReply(p, status)
    /\ UNCHANGED <<toRM, curState, idleQueued, used, numClients, fatalErrorHandled>>

\* The first fatal error of a process fails its request under way, or frees
\* the component named.
FatalError(p) ==
    /\ ~ fatalErrorHandled[p]
    /\ ReadReply(p, "RM_RESOURCEFATALERROR")
    /\ fatalErrorHandled' = [fatalErrorHandled EXCEPT ![p] = TRUE]
    /\ IF responsePending(p)
       THEN /\ curState' = [c \in Clients |->
                   IF c \in Requester(p) THEN "Loaded" ELSE curState[c]]
            /\ UNCHANGED <<toRM, numClients>>
       ELSE \/ /\ Named(p) \cap used = {}
               /\ UNCHANGED <<curState, toRM, numClients>>
            \/ \E c \in Named(p) \cap used :
                  /\ Send(c, FreeCommand(p), 0, NoInst)
                  /\ numClients' = [numClients EXCEPT ![p] = Floor(@)]
                  /\ curState' = [curState EXCEPT ![c] = "Invalid"]
    /\ UNCHANGED <<idleQueued, used>>

FatalErrorIgnored(p) ==
    /\ fatalErrorHandled[p]
    /\ ReadReply(p, "RM_RESOURCEFATALERROR")
    /\ UNCHANGED <<toRM, curState, idleQueued, used, numClients, fatalErrorHandled>>

-----------------------------------------------------------------------------
(* The system.                                                             *)

\* The main thread goes on when its readers' FIFOs have room; what the fault
\* thread writes is bounded by the faults.
Room == Len(toPM) < FifoBound /\ \A p \in Pids : Len(rmPipe[p]) < FifoBound

ResourceManagerStep ==
    /\ Room
    /\ MainNext
    /\ "qosInitFails" \in Usage \/ ~ stub_mode'
    /\ UNCHANGED <<pmLocal, clientVars>>

WatchThreadStep ==
    /\ WatchNext
    /\ UNCHANGED <<pmLocal, clientVars>>

PolicyManagerStep ==
    /\ toPM # <<>>
    /\ PM!HandleCommand(Head(toPM))
    /\ toPM' = Tail(toPM)
    /\ UNCHANGED <<toRM, rmPipe, componentList, openPipes, cmd_data,
                   globalrequest_cmd_data, stub_mode, mmuRecoveryInProgress,
                   totalCpu, cyclesAvailable, rmPc, rmExit, watch, clientVars>>

ComponentStep(c) ==
    \/ RequestConnects(c) \/ PipeOpened(c) \/ RequestResource(c)
    \/ \E new \in DOMAIN StateCode : StateSet(c, new)
    \/ PreemptedGoesIdle(c) \/ GoesLoaded(c) \/ DeInit(c) \/ ForeignCommand(c)

ProxyStep(p) ==
    \/ Granted(p) \/ Denied(p) \/ Preempted(p) \/ Informed(p)
    \/ FatalError(p) \/ FatalErrorIgnored(p)

Init ==
    /\ RMInit
    /\ PM!PMInit
    /\ curState = [c \in Clients |-> "Loaded"]
    /\ idleQueued = {} /\ used = {}
    /\ numClients = [p \in Pids |-> 0]
    /\ threadhandle = [p \in Pids |-> NoInst]
    /\ rmDataPid = [p \in Pids |-> NoInst]
    /\ fatalErrorHandled = [p \in Pids |-> FALSE]

Next ==
    \/ ResourceManagerStep \/ WatchThreadStep \/ PolicyManagerStep
    \/ \E c \in Clients : ComponentStep(c)
    \/ \E p \in Pids : ProxyStep(p)

Spec == Init /\ [][Next]_vars

\* Every thread is scheduled: each select() loop takes the messages that wait
\* for it, and a component whose request is under way goes on.  What the
\* application commands is under no obligation.  The DSP's answer is up to the
\* DSP: liveness is stated for one that does not refuse a request for ever.
Fairness ==
    /\ WF_vars(ResourceManagerStep)
    /\ WF_vars(WatchThreadStep)
    /\ WF_vars(PolicyManagerStep)
    /\ \A c \in Clients : WF_vars(PipeOpened(c) \/ RequestResource(c))
    /\ \A p \in Pids : WF_vars(ProxyStep(p))
    /\ SF_vars(ResourceManagerStep /\ GetQosOk)

FairSpec == Spec /\ Fairness

-----------------------------------------------------------------------------
(* Properties.                                                             *)

Entries == {componentList[i] : i \in 1..N}

\* The types of the state, as far as the code's declarations go.
TypeOK ==
    /\ \A i \in DOMAIN toRM : toRM[i].inst \in Inst /\ toRM[i].param2 \in 0..(Wrap - 1)
    /\ \A p \in Pids : \A i \in DOMAIN rmPipe[p] : rmPipe[p][i].inst \in Inst
    /\ DOMAIN openPipes \subseteq 1..MaxFds
    /\ N <= MaxComponents
    /\ totalCpu \in [Types -> 0..(Wrap - 1)]
    /\ rmPc \in {"select", "remove", "qos"}
    /\ watch.pc \in {"reopen", "monitor", "loop", "write", "poll", "exit"}
    /\ {stub_mode, mmuRecoveryInProgress, rmExit} \subseteq BOOLEAN
    /\ curState \in [Clients -> InRequest \cup DOMAIN StateCode \cup {"Loaded", "Invalid"}]
    /\ numClients \in [Pids -> 0..MaxRequests]

\* RM_AddPipe enters a component once, however often it goes from Loaded to
\* Idle and back (each time its proxy sends RM_OpenPipe or RM_ReusePipe), and
\* whatever the fault thread does meanwhile: RM_RemoveComponentFromList removes
\* one entry, so a second one would outlive the component.
RegisteredOnce ==
    \A i, j \in 1..N : componentList[i].inst = componentList[j].inst => i = j

\* Has the resource manager read the request of c, and not answered it?
Taken(c) ==
    /\ curState[c] = "requesting"
    /\ \A i \in DOMAIN toRM : toRM[i].inst = c => toRM[i].RM_Cmd # "RM_RequestResource"

\* A reply can be delivered: the pipe of every registered component is open and
\* leads to the component's own process, although components share the pipe and
\* the last one to be freed closes it (RM_ReusePipe, RM_ClosePipe); and a
\* component whose request was taken from RM_SERVER_IN is registered, or its
\* RM_GetPipe would give -1 and RMProxy_NewSendCommand wait for ever
\* (ResourceManagerProxy.c:509).
Reachable ==
    /\ \A e \in Entries : e.pipe \in DOMAIN openPipes /\ openPipes[e.pipe] = e.inst.pid
    /\ \A c \in Clients : Taken(c) => \E e \in Entries : e.inst = c

Decisions == {"RM_GRANT", "RM_DENY"}

\* Every request gets one decision at most, and the component that asked gets
\* it: a RM_GRANT or RM_DENY in a FIFO is for a component whose request is under
\* way.  The proxy posts the semaphore for any decision, whomever it names, so a
\* second one would answer the next request of that process.
AnswerAwaited ==
    \A p \in Pids : \A i \in DOMAIN rmPipe[p] :
        rmPipe[p][i].rm_status \in Decisions =>
            rmPipe[p][i].inst \in Clients /\ curState[rmPipe[p][i].inst] = "requesting"

\* The replies that a step writes to process p.
Written(p) == {rmPipe'[p][i] : i \in (DOMAIN rmPipe'[p]) \ DOMAIN rmPipe[p]}

\* The resource manager grants only what the policy manager granted and has not
\* taken back since ("if policy request is granted then check...",
\* ResourceManager.c:309): decisions carry no request number and are matched
\* with the one request in globalrequest_cmd_data.
GrantBacked ==
    [][\A p \in Pids : \A reply \in Written(p) :
          reply.rm_status = "RM_GRANT" => reply.inst \in running]_vars

\* The policy manager's list does not outlive the resource manager's: whoever
\* is registered there is registered here, or its PM_FreePolicy is on its way.
\* Otherwise a combination would stay blocked by a component that is gone.
PolicyFreeable ==
    \A i \in DOMAIN pComponentList :
        \/ \E e \in Entries : e.inst = pComponentList[i]
        \/ \E k \in DOMAIN toPM : /\ toPM[k].inst = pComponentList[i]
                                  /\ toPM[k].PM_Cmd = "PM_FreePolicy"

Busy(t) == {i \in 1..N : /\ componentList[i].state = OMX_StateExecuting
                         /\ KindOf[componentList[i].inst] \in DOMAIN TypeOf
                         /\ TypeOf[KindOf[componentList[i].inst]] = t}

Shares(t) == [i \in 1..N |-> IF i \in Busy(t) THEN componentList[i].cpu ELSE 0]

\* The sum of the first n values of f.
Total(f, n) == LET upTo[k \in 0..n] == IF k = 0 THEN 0 ELSE upTo[k - 1] + f[k]
               IN  upTo[n]

\* The total that HandleStateSet keeps per type, from which the VDD1 constraint
\* is set, is the sum over the components of the type that execute: what is
\* added on start is taken off again on stop, before the entry goes away.
CpuAccounted == \A t \in Types : totalCpu[t] = Total(Shares(t), N) % Wrap

\* The grants to p that a step decides by the DSP's load.
GrantedOn(p) == {reply \in Written(p) : reply.rm_status = "RM_GRANT" /\ ~ stub_mode'}

\* A grant is decided by the cycles that its own component has asked for, although
\* RM_GetQos looks them up in whatever command was read last (ResourceManager.c:1247):
\* the cycles left, as an OMX_U32, are not less.
QosFits ==
    [][\A p \in Pids : \A reply \in GrantedOn(p) :
          cyclesAvailable' % Wrap >= CpuOf[reply.inst]]_vars

\* "If memory is available and DSP cycles are available grant request"
\* (ResourceManager.c:1246): what is granted is there.
CyclesThere ==
    [][\A p \in Pids : \A reply \in GrantedOn(p) :
          cyclesAvailable' >= CpuOf[reply.inst]]_vars

\* RMProxy_NewSendCommand waits "for response back from resource manager server"
\* (ResourceManagerProxy.c:509), with the component's command thread blocked:
\* every request is decided at last, by a grant, a denial or a fatal error.
RequestAnswered ==
    \A c \in Clients : curState[c] \in InRequest ~> curState[c] \notin InRequest

\* Recovery from a DSP fault does not wait for the components for ever: after
\* the limited number of polls the DSP is opened again or given up.
RecoveryEnds == mmuRecoveryInProgress ~> watch.pc \in {"monitor", "exit"}

\* The rendezvous on the FIFO RM_SERVER_OUT_<pid>, which both sides open and
\* each open() waits for the other side, is always completed: a proxy does not
\* stay in open() because the resource manager waits for it elsewhere.
ConnectsEventually ==
    \A c \in Clients : curState[c] = "connecting" ~> curState[c] # "connecting"
=============================================================================
