--------------------------- MODULE PolicyManager ---------------------------
(***************************************************************************)
(* The OMX policy manager, omx_policy_manager/src/PolicyManager.c: a       *)
(* single-threaded server that the resource manager asks whether an OMX    *)
(* component may run beside the ones already running.  The answer comes    *)
(* from the policy table, a list of combinations of components with a      *)
(* priority each, most important combination first.                        *)
(*                                                                         *)
(* One action is one command read from the pipe PM_SERVER_IN, handled to   *)
(* its end.  The handler reads nothing but its command and the tables, so  *)
(* the instant at which the resource manager reads each response cannot    *)
(* influence it; responses go to the sequence fromPM (PM_SERVER_OUT).      *)
(*                                                                         *)
(* The C arrays pComponentList and activeComponentList share one length,   *)
(* registeredComponents; they are two sequences here, each handler changes *)
(* them as the array loops do.  Array index i of the code is i + 1 here.   *)
(***************************************************************************)
EXTENDS Integers, Sequences, FiniteSets

CONSTANTS
    Handles,                  \* OMX_HANDLETYPE values, meaningful per process
    Pids,                     \* processes that own components
    Components,               \* OMX_COMPONENTINDEXTYPE, the kinds of component
    policyCombinationTable,   \* the parsed table, sorted as in the file
    MaxRegistered,            \* bound on pComponentList (100 slots in the code)
    MaxPending                \* bound on pPendingComponentList (100 slots)

Instances == [h : Handles, pid : Pids]
PriorityEntry == [component : Components, priority : 0..255]

ASSUME TableAssumption ==
    policyCombinationTable \in Seq(Seq(PriorityEntry))
ASSUME CapacityAssumption == MaxRegistered \in Nat /\ MaxPending \in Nat

VARIABLES
    activePolicyCombination,  \* index of the combination in force
    pComponentList,           \* (handle, pid) of the registered instances
    activeComponentList,      \* (component, priority), parallel to the above
    pPendingComponentList,    \* instances that asked to wait (never served)
    fromPM,                   \* responses written and not yet read by the RM
    pmExit,                   \* Exitflag of main()
    running                   \* history: instances granted, and since then
                              \* neither preempted nor freed

pmVars == <<activePolicyCombination, pComponentList, activeComponentList,
            pPendingComponentList, fromPM, pmExit, running>>

Combinations == DOMAIN policyCombinationTable
registeredComponents == Len(pComponentList)
Registered == {pComponentList[i] : i \in DOMAIN pComponentList}

-----------------------------------------------------------------------------
(* The policy table.                                                       *)

IsComponentSupported(x, k) ==
    /\ k \in Combinations
    /\ \E i \in DOMAIN policyCombinationTable[k] :
          policyCombinationTable[k][i].component = x

\* The first entry of combination k for component x.
EntryFor(x, k) ==
    CHOOSE i \in DOMAIN policyCombinationTable[k] :
        /\ policyCombinationTable[k][i].component = x
        /\ \A j \in 1..(i - 1) : policyCombinationTable[k][j].component # x

GetPriority(x, k) ==
    IF IsComponentSupported(x, k)
    THEN policyCombinationTable[k][EntryFor(x, k)].priority
    ELSE -1

GetSupportingCombinations(x) ==
    {k \in Combinations : IsComponentSupported(x, k)}

\* Does the combination in force allow component x?
CheckActiveCombination(x) == IsComponentSupported(x, activePolicyCombination)

\* Mutant: the loop over activeComponentList stops one entry early.
CoexistButLast(x) ==
    {k \in GetSupportingCombinations(x) :
        \A j \in 1..(Len(activeComponentList) - 1) :
            IsComponentSupported(activeComponentList[j].component, k)}

\* The combinations with room for x and for every entry of activeComponentList.
CoexistCombinations(x) ==
    {k \in GetSupportingCombinations(x) :
        \A j \in DOMAIN activeComponentList :
            IsComponentSupported(activeComponentList[j].component, k)}

IsFirst(k, S) == k \in S /\ \A j \in S : k <= j
IsLast(k, S)  == k \in S /\ \A j \in S : j <= k

-----------------------------------------------------------------------------
(* Responses and the two lists.                                            *)

Response(cmd, inst) == [PM_Cmd |-> cmd, inst |-> inst]

\* Mutant: the search for an existing entry is missing.
RegisterTwice(inst, x, priority) ==
    /\ registeredComponents < MaxRegistered
    /\ pComponentList' = Append(pComponentList, inst)
    /\ activeComponentList' =
           Append(activeComponentList,
                  [component |-> x, priority |-> priority % 256])

\* GrantPolicy's second half: an instance is entered once.  aPriority is an
\* OMX_U8, so a priority of -1 is stored as 255.
Register(inst, x, priority) ==
    IF inst \in Registered
    THEN UNCHANGED <<pComponentList, activeComponentList>>
    ELSE /\ registeredComponents < MaxRegistered
         /\ pComponentList' = Append(pComponentList, inst)
         /\ activeComponentList' =
                Append(activeComponentList,
                       [component |-> x, priority |-> priority % 256])

GrantPolicy(inst, x, priority, preempted) ==
    /\ fromPM' = fromPM \o preempted \o <<Response("PM_GRANTPOLICY", inst)>>
    /\ Register(inst, x, priority)
    /\ running' = (running \ {preempted[i].inst : i \in DOMAIN preempted})
                      \cup {inst}

DenyPolicy(inst) ==
    /\ fromPM' = Append(fromPM, Response("PM_DENYPOLICY", inst))
    /\ UNCHANGED <<activePolicyCombination, pComponentList,
                   activeComponentList, running>>

PreemptComponent(inst) == Response("PM_PREEMPTED", inst)

\* The element at m leaves the array, the ones after it move up, and the last
\* slot keeps its old content.
ShiftUp(list, m) ==
    [i \in DOMAIN list |->
        IF i >= m /\ i < Len(list) THEN list[i + 1] ELSE list[i]]

Truncate(list) == [i \in 1..(Len(list) - 1) |-> list[i]]

FirstWithComponent(x) ==
    {m \in DOMAIN activeComponentList :
        /\ activeComponentList[m].component = x
        /\ \A j \in 1..(m - 1) : activeComponentList[j].component # x}

FirstWithInstance(inst) ==
    {m \in DOMAIN pComponentList :
        /\ pComponentList[m] = inst
        /\ \A j \in 1..(m - 1) : pComponentList[j] # inst}

\* Mutant: activeComponentList is not shortened together with pComponentList.
RemoveFromOneList(inst, x) ==
    /\ UNCHANGED activeComponentList
    /\ pComponentList' =
           IF FirstWithInstance(inst) = {} THEN pComponentList
           ELSE Truncate(ShiftUp(pComponentList,
                                 CHOOSE m \in FirstWithInstance(inst) : TRUE))

\* Mutant: activeComponentList loses its last entry, not the one of kind x.
RemoveLastKind(inst, x) ==
    /\ activeComponentList' = IF FirstWithInstance(inst) = {} THEN activeComponentList
                              ELSE Truncate(activeComponentList)
    /\ pComponentList' =
           IF FirstWithInstance(inst) = {} THEN pComponentList
           ELSE Truncate(ShiftUp(pComponentList,
                                 CHOOSE m \in FirstWithInstance(inst) : TRUE))

\* activeComponentList is searched by component kind, pComponentList by
\* instance, and the common length shrinks only if the instance was found.
RemoveComponentFromList(inst, x) ==
    LET shifted == IF FirstWithComponent(x) = {} THEN activeComponentList
                   ELSE ShiftUp(activeComponentList,
                                CHOOSE m \in FirstWithComponent(x) : TRUE)
    IN  IF FirstWithInstance(inst) = {}
        THEN /\ activeComponentList' = shifted
             /\ UNCHANGED pComponentList
        ELSE /\ activeComponentList' = Truncate(shifted)
             /\ pComponentList' =
                    Truncate(ShiftUp(pComponentList,
                                     CHOOSE m \in FirstWithInstance(inst) : TRUE))

-----------------------------------------------------------------------------
(* HandleRequestPolicy, one action per way it can end.                     *)

FirstRequestGranted(inst, x) ==
    /\ registeredComponents = 0
    /\ \E k \in Combinations :
          /\ IsFirst(k, GetSupportingCombinations(x))
          /\ activePolicyCombination' = k
          /\ GrantPolicy(inst, x, GetPriority(x, k), <<>>)
    /\ UNCHANGED <<pPendingComponentList, pmExit>>

FirstRequestDenied(inst, x) ==
    /\ registeredComponents = 0
    /\ GetSupportingCombinations(x) = {}
    /\ DenyPolicy(inst)
    /\ UNCHANGED <<pPendingComponentList, pmExit>>

GrantedByActiveCombination(inst, x) ==
    /\ registeredComponents > 0
    /\ CheckActiveCombination(x)
    /\ GrantPolicy(inst, x, GetPriority(x, activePolicyCombination), <<>>)
    /\ UNCHANGED <<activePolicyCombination, pPendingComponentList, pmExit>>

GrantedByCoexistence(inst, x) ==
    /\ registeredComponents > 0
    /\ ~ CheckActiveCombination(x)
    /\ \E k \in Combinations :
          /\ IsFirst(k, CoexistCombinations(x))
          /\ GrantPolicy(inst, x, GetPriority(x, k), <<>>)
          /\ activePolicyCombination' = k
    /\ UNCHANGED <<pPendingComponentList, pmExit>>

\* CheckAllCombinations leaves the last combination that has x; only one that
\* stands before the active one is worth preempting everybody for.  The
\* preempted instances stay in the lists.
MayPreempt(x) ==
    \E k \in Combinations :
        /\ IsLast(k, GetSupportingCombinations(x))
        /\ k < activePolicyCombination

GrantedByPreemption(inst, x) ==
    /\ registeredComponents > 0
    /\ ~ CheckActiveCombination(x)
    /\ CoexistCombinations(x) = {}
    /\ MayPreempt(x)
    /\ \E k \in Combinations :
          /\ IsLast(k, GetSupportingCombinations(x))
          /\ GrantPolicy(inst, x, GetPriority(x, k),
                         [i \in DOMAIN pComponentList |->
                             PreemptComponent(pComponentList[i])])
          /\ activePolicyCombination' = k
    /\ UNCHANGED <<pPendingComponentList, pmExit>>

RequestDenied(inst, x) ==
    /\ registeredComponents > 0
    /\ ~ CheckActiveCombination(x)
    /\ CoexistCombinations(x) = {}
    /\ ~ MayPreempt(x)
    /\ DenyPolicy(inst)
    /\ UNCHANGED <<pPendingComponentList, pmExit>>

HandleRequestPolicy(inst, x) ==
    \/ FirstRequestGranted(inst, x)
    \/ FirstRequestDenied(inst, x)
    \/ GrantedByActiveCombination(inst, x)
    \/ GrantedByCoexistence(inst, x)
    \/ GrantedByPreemption(inst, x)
    \/ RequestDenied(inst, x)

-----------------------------------------------------------------------------
(* The other commands.                                                     *)

HandleWaitForPolicy(inst) ==
    /\ Len(pPendingComponentList) < MaxPending
    /\ pPendingComponentList' = Append(pPendingComponentList, inst)
    /\ UNCHANGED <<activePolicyCombination, pComponentList,
                   activeComponentList, fromPM, pmExit, running>>

HandleFreePolicy(inst, x) ==
    /\ RemoveComponentFromList(inst, x)
    /\ running' = running \ {inst}
    /\ UNCHANGED <<activePolicyCombination, pPendingComponentList, fromPM, pmExit>>

\* The registered instances that the loop of HandleFreeResources considers:
\* not the requester (only handles are compared) and no more important.
PreemptionCandidates(inst, x) ==
    {i \in DOMAIN pComponentList :
        /\ pComponentList[i].h # inst.h
        /\ activeComponentList[i].priority
               <= GetPriority(x, activePolicyCombination)}

\* The loop keeps the last of the candidates with the smallest priority.
LowestPriorityIndex(i, candidates) ==
    /\ i \in candidates
    /\ \A j \in candidates :
          \/ activeComponentList[i].priority < activeComponentList[j].priority
          \/ /\ activeComponentList[i].priority = activeComponentList[j].priority
             /\ j <= i

HandleFreeResources(inst, x) ==
    /\ IF PreemptionCandidates(inst, x) = {}
       THEN DenyPolicy(inst)
       ELSE \E i \in DOMAIN pComponentList :
               /\ LowestPriorityIndex(i, PreemptionCandidates(inst, x))
               /\ GrantPolicy(inst, x, GetPriority(x, activePolicyCombination),
                              <<PreemptComponent(pComponentList[i])>>)
               /\ UNCHANGED activePolicyCombination
    /\ UNCHANGED <<pPendingComponentList, pmExit>>

\* PM_CancelWaitForPolicy, PM_StateSet, PM_OpenPipe, PM_Init and PM_Exit.
IgnoredCommand == UNCHANGED pmVars

HandleExitTI ==
    /\ pmExit' = TRUE
    /\ UNCHANGED <<activePolicyCombination, pComponentList, activeComponentList,
                   pPendingComponentList, fromPM, running>>

\* The switch of main(): cmd is one POLICYMANAGER_COMMANDDATATYPE.
HandleCommand(cmd) ==
    /\ ~ pmExit
    /\ \/ cmd.PM_Cmd = "PM_RequestPolicy" /\ HandleRequestPolicy(cmd.inst, cmd.param1)
       \/ cmd.PM_Cmd = "PM_WaitForPolicy" /\ HandleWaitForPolicy(cmd.inst)
       \/ cmd.PM_Cmd = "PM_FreePolicy"    /\ HandleFreePolicy(cmd.inst, cmd.param1)
       \/ cmd.PM_Cmd = "PM_FreeResources" /\ HandleFreeResources(cmd.inst, cmd.param1)
       \/ cmd.PM_Cmd = "PM_CancelWaitForPolicy" /\ IgnoredCommand
       \/ cmd.PM_Cmd = "PM_ExitTI" /\ HandleExitTI

\* The globals of the process before its first command.
PMInit ==
    /\ activePolicyCombination = 1
    /\ pComponentList = <<>>
    /\ activeComponentList = <<>>
    /\ pPendingComponentList = <<>>
    /\ fromPM = <<>>
    /\ pmExit = FALSE
    /\ running = {}
=============================================================================
