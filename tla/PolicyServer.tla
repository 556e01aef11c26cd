---------------------------- MODULE PolicyServer ----------------------------
(***************************************************************************)
(* The policy manager with a most general client: the resource manager may *)
(* send any command for any component instance at any time.  The instances *)
(* that are freed without being registered are real: every OMX component   *)
(* sends RMProxy_FreeResource from its ComponentDeInit, whether or not its *)
(* request was granted (for instance OMX_Mp3Decoder.c:1707), and again     *)
(* after a fatal error.  Such a free may shift activeComponentList alone;  *)
(* the history variable misfreed tells that it has.                        *)
(***************************************************************************)
EXTENDS PolicyManager

CONSTANTS
    KindOf,      \* the component index each instance sends as param1
    PipeBound    \* a command is read when at most so many responses wait

ASSUME KindAssumption == KindOf \in [Instances -> Components]

VARIABLE misfreed    \* history: since nobody was registered, the free of an
                     \* instance that was not has changed activeComponentList

vars == <<pmVars, misfreed>>

Command(cmd, inst) == [PM_Cmd |-> cmd, inst |-> inst, param1 |-> KindOf[inst]]

\* read() on PM_SERVER_IN returns a command of the given kind.
Receive(cmd, inst) ==
    /\ Len(fromPM) <= PipeBound
    /\ HandleCommand(Command(cmd, inst))
    /\ misfreed' = /\ registeredComponents' > 0
                   /\ \/ misfreed
                      \/ cmd = "PM_FreePolicy" /\ inst \notin Registered
                         /\ activeComponentList' # activeComponentList

RequestPolicy(inst) == Receive("PM_RequestPolicy", inst)

WaitForPolicy(inst) == Receive("PM_WaitForPolicy", inst)

CancelWaitForPolicy(inst) == Receive("PM_CancelWaitForPolicy", inst)

FreePolicy(inst) == Receive("PM_FreePolicy", inst)

FreeResources(inst) == Receive("PM_FreeResources", inst)

ExitTI(inst) == Receive("PM_ExitTI", inst)

\* The resource manager reads one response.
ReadResponse ==
    /\ fromPM # <<>>
    /\ fromPM' = Tail(fromPM)
    /\ UNCHANGED <<activePolicyCombination, pComponentList, activeComponentList,
                   pPendingComponentList, pmExit, running, misfreed>>

Next ==
    \/ \E inst \in Instances :
          \/ RequestPolicy(inst)
          \/ WaitForPolicy(inst)
          \/ CancelWaitForPolicy(inst)
          \/ FreePolicy(inst)
          \/ FreeResources(inst)
          \/ ExitTI(inst)
    \/ ReadResponse

Init == PMInit /\ misfreed = FALSE

Spec == Init /\ [][Next]_vars

-----------------------------------------------------------------------------

ResponseTypes == [PM_Cmd : {"PM_GRANTPOLICY", "PM_DENYPOLICY", "PM_PREEMPTED"},
                  inst : Instances]

\* The types of the policy manager's globals (PolicyManager.c:64-85), and the
\* two arrays have the one length registeredComponents.
TypeOK ==
    /\ activePolicyCombination \in Nat
    /\ pComponentList \in Seq(Instances)
    /\ activeComponentList \in Seq(PriorityEntry)
    /\ Len(activeComponentList) = Len(pComponentList)
    /\ pPendingComponentList \in Seq(Instances)
    /\ fromPM \in Seq(ResponseTypes)
    /\ pmExit \in BOOLEAN
    /\ running \subseteq Instances
    /\ misfreed \in BOOLEAN

\* GrantPolicy's "do not add the same component twice" (PolicyManager.c:409):
\* no instance is registered twice, and whoever holds a grant is registered,
\* so that a later HandleFreePolicy or preemption can find it.
RegisteredOnce ==
    /\ \A i, j \in DOMAIN pComponentList :
          pComponentList[i] = pComponentList[j] => i = j
    /\ running \subseteq Registered

\* "This combination supports all existing components" (PolicyManager.c:650): all
\* components that hold a grant at the same time are components of the combination
\* in force.
CombinationFits == \A inst \in running : CheckActiveCombination(KindOf[inst])

\* What the policy manager is for, and keeps up until the free of an unregistered
\* instance has shifted activeComponentList.
RunningSupported == misfreed \/ CombinationFits

\* Every registered instance has an entry of its kind in activeComponentList
\* that it shares with no other, although that array is searched by kind and
\* pComponentList by instance.
Matched ==
    \E f \in [DOMAIN pComponentList -> DOMAIN activeComponentList] :
        /\ \A i, j \in DOMAIN pComponentList : f[i] = f[j] => i = j
        /\ \A i \in DOMAIN pComponentList :
              activeComponentList[f[i]].component = KindOf[pComponentList[i]]

\* CanAllComponentsCoexist, which only looks at activeComponentList, overlooks
\* nobody.  Frees of unregistered instances do no harm as long as they find no
\* entry of their kind or only the last one.
KindsMatched == misfreed \/ Matched

\* The instances that each combination of the table has room for.
AllowedIn == [k \in Combinations |-> {inst \in Instances : IsComponentSupported(KindOf[inst], k)}]

\* Seen from the resource manager, the policy manager admits, displaces and
\* refuses: whatever the two arrays, the searches and the shifts do, and whoever is
\* freed, each command ends in at most one decision, nobody loses the right to run
\* without being told, nobody is told twice, a free takes the instance off for good
\* and nobody else, and the combination changes only if everybody registered fits,
\* is displaced or has been overlooked because of a shifted list.
Arbiter == INSTANCE PolicyArbiter WITH
    Allowed <- AllowedIn,
    combination <- activePolicyCombination,
    admitted <- Registered,
    holders <- running,
    told <- fromPM,
    mistaken <- misfreed
ImplementsArbiter == Arbiter!ArbSpec
=============================================================================
