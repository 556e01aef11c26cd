----------------------------- MODULE OMXClients -----------------------------
(***************************************************************************)
(* The OpenMAX core with the two kinds of client that share it in one      *)
(* process: TIOMXPlugin (libstagefrighthw/TIOMXPlugin.cpp), which loads a  *)
(* component for each node of the media framework, and the JpegEncoder of  *)
(* the camera (camera/JpegEncoder.cpp), which loads one component and      *)
(* keeps its handle in the member pOMXHandle, also after it is freed.      *)
(* Every call of the core is one step; the calls of different clients      *)
(* interleave.                                                             *)
(***************************************************************************)
EXTENDS OMXCore

CONSTANTS
    Plugins,        \* TIOMXPlugin objects
    Nodes,          \* nodes of the media framework
    PluginOf,       \* the plugin of a node
    Encoders,       \* JpegEncoder objects
    NameOf,         \* the component a node or an encoder asks for
    UnsetVariables, \* may a node's variable still hold an old handle?
    DeInitFails,    \* may ComponentDeInit report an error?
    MaxCount        \* bound on count

Clients == Nodes \cup Encoders

ASSUME ClientsAssumption ==
    /\ IsFiniteSet(Plugins)
    /\ Nodes \cap Encoders = {}
    /\ PluginOf \in [Nodes -> Plugins]
    /\ UnsetVariables \in BOOLEAN /\ DeInitFails \in BOOLEAN
    /\ MaxCount \in Nat
    /\ NULL \notin Clients
    /\ \A c \in Clients : NameOf[c] # NULL

VARIABLES
    up,          \* the plugins that exist
    pc,          \* where each client is
    pOMXHandle,  \* the variable each client passes to TIOMX_GetHandle
    owner,       \* history: the client that got the component at an address,
                 \* until its ComponentDeInit succeeds
    torn         \* history: the rows in which an instance was freed that had two
                 \* or more created after it

clientVars == <<up, pc, pOMXHandle, owner, torn>>
vars == <<coreVars, clientVars>>

Goto(c, there) == pc' = [pc EXCEPT ![c] = there]

InitCalled == count < MaxCount /\ TIOMX_Init

\* TIOMX_GetHandle(&pOMXHandle, NameOf[c]): the ways it can fail...
NotObtained(c) ==
    /\ \/ /\ GetHandleRefused(NameOf[c]) \/ DlopenFails(NameOf[c])
          /\ UNCHANGED pOMXHandle
       \/ /\ CleanUpEarly(NameOf[c], pOMXHandle[c]) \/ CleanUp(NameOf[c])
          /\ pOMXHandle' = [pOMXHandle EXCEPT ![c] = NULL]
    /\ UNCHANGED <<up, owner, torn>>

\* ...and the component it returns.
Obtained(c) ==
    \E h \in Handles :
        /\ GetHandleSucceeds(NameOf[c], h)
        /\ pOMXHandle' = [pOMXHandle EXCEPT ![c] = h]
        /\ owner' = [owner EXCEPT ![h] = c]
        /\ UNCHANGED <<up, torn>>

\* Does the client keep its variable as it is when the component is freed?
Keeps(c) == c \in Encoders \/ UnsetVariables

\* TIOMX_FreeHandle(pOMXHandle): ComponentDeInit runs, or it does not.
TornBy(h) == {r \in Rows : \E k \in 0..(refCount[r] - 3) : FirstPlace(r, k, h)}

Released(c) ==
    /\ FreeHandleSucceeds(pOMXHandle[c]) \/ FreeHandleNotFound(pOMXHandle[c])
    /\ owner' = [owner EXCEPT ![pOMXHandle[c]] = NULL]
    /\ torn' = torn \cup TornBy(pOMXHandle[c])
    /\ pOMXHandle' = IF Keeps(c) THEN pOMXHandle ELSE [pOMXHandle EXCEPT ![c] = NULL]
    /\ UNCHANGED up

NotReleased(c) ==
    /\ \/ FreeHandleUnknown(pOMXHandle[c])
       \/ DeInitFails /\ ComponentDeInitFails(pOMXHandle[c])
    /\ UNCHANGED <<up, pOMXHandle, owner, torn>>

-----------------------------------------------------------------------------
(* TIOMXPlugin.                                                            *)

\* The constructor.
TIOMXPlugin(p) ==
    /\ p \notin up
    /\ up' = up \cup {p}
    /\ InitCalled
    /\ UNCHANGED <<pc, pOMXHandle, owner, torn>>

makeComponentInstance(n) ==
    /\ pc[n] = "idle" /\ PluginOf[n] \in up
    /\ \/ Obtained(n) /\ Goto(n, "using")
       \/ NotObtained(n) /\ UNCHANGED pc

destroyComponentInstance(n) ==
    /\ pc[n] = "using"
    /\ \/ Released(n) /\ Goto(n, "idle")
       \/ NotReleased(n) /\ UNCHANGED pc

\* The destructor, when the framework has destroyed the nodes.
DestroyPlugin(p) ==
    /\ p \in up
    /\ \A n \in Nodes : PluginOf[n] = p => pc[n] = "idle"
    /\ up' = up \ {p}
    /\ TIOMX_Deinit
    /\ UNCHANGED <<pc, pOMXHandle, owner, torn>>

-----------------------------------------------------------------------------
(* JpegEncoder: StartFromLoadedState, and Run from STATE_LOADED or         *)
(* STATE_ERROR on.  The result of TIOMX_FreeHandle is only logged.         *)

\* An image whose parameters differ from the last one's.
encodeImage(e) ==
    /\ pc[e] \in {"idle", "using"}
    /\ IF pOMXHandle[e] # NULL
       THEN TIOMX_Deinit /\ Goto(e, "restart")
       ELSE InitCalled /\ Goto(e, "obtain")
    /\ UNCHANGED <<up, pOMXHandle, owner, torn>>

RestartFrees(e) ==
    /\ pc[e] = "restart"
    /\ Released(e) \/ NotReleased(e)
    /\ Goto(e, "init")

RestartInits(e) ==
    /\ pc[e] = "init"
    /\ InitCalled
    /\ Goto(e, "obtain")
    /\ UNCHANGED <<up, pOMXHandle, owner, torn>>

\* A component that is obtained is then configured; if that fails, or if its
\* commands fail later, it stays in use until Run or a restart frees it.
StartObtains(e) ==
    /\ pc[e] = "obtain"
    /\ \/ Obtained(e) /\ Goto(e, "using")
       \/ NotObtained(e) /\ Goto(e, "idle")

RunFrees(e) ==
    /\ pc[e] = "using"
    /\ Released(e) \/ NotReleased(e)
    /\ Goto(e, "deinit")

RunDeinits(e) ==
    /\ pc[e] = "deinit"
    /\ TIOMX_Deinit
    /\ Goto(e, "idle")
    /\ UNCHANGED <<up, pOMXHandle, owner, torn>>

-----------------------------------------------------------------------------

Init ==
    /\ CoreInit
    /\ up = {}
    /\ pc = [c \in Clients |-> "idle"]
    /\ pOMXHandle = [c \in Clients |-> NULL]
    /\ owner = [h \in Handles |-> NULL]
    /\ torn = {}

Next ==
    \/ \E p \in Plugins : TIOMXPlugin(p) \/ DestroyPlugin(p)
    \/ \E n \in Nodes : makeComponentInstance(n) \/ destroyComponentInstance(n)
    \/ \E e \in Encoders :
          \/ encodeImage(e) \/ RestartFrees(e) \/ RestartInits(e)
          \/ StartObtains(e) \/ RunFrees(e) \/ RunDeinits(e)

Spec == Init /\ [][Next]_vars

-----------------------------------------------------------------------------
(* Properties.                                                             *)

HandleOrNull == Handles \cup {NULL}

\* The elements of pHandle that are compared with the handle to free, and the element
\* pHandle[refCount] that TIOMX_GetHandle would write, are in the array.
WritesInTable ==
    \A r \in Rows : /\ Listed(r) \subseteq Indices
                    /\ ~ LimitReached(r) => refCount[r] \in Indices

\* The types of the core's globals (OMX_Core.c:70-84) and of the clients.  An array
\* pHandle may have holes, and refCount may be -1 once the shift has overwritten it;
\* whatever the clients do, the accesses to the arrays stay in bounds, but for those
\* that the shift itself makes.
TypeOK ==
    /\ count \in Nat
    /\ tableBuilt \in BOOLEAN
    /\ pModules \in [Slots -> {NameOf[c] : c \in Clients} \cup {NULL}]
    /\ pComponents \in [Slots -> HandleOrNull]
    /\ pHandle \in [Rows -> [Indices -> HandleOrNull \cup {Wild}]]
    /\ refCount \in [Rows -> -1..MAX_CONCURRENT_INSTANCES]
    /\ heap \subseteq Handles
    /\ up \subseteq Plugins
    /\ pc \in [Clients -> {"idle", "using", "restart", "init", "obtain", "deinit"}]
    /\ pOMXHandle \in [Clients -> HandleOrNull]
    /\ owner \in [Handles -> Clients \cup {NULL}]
    /\ torn \subseteq Rows
    /\ WritesInTable

Live == {h \in Handles : owner[h] # NULL}

\* The components in use of the kind of a row.
InUse(r) == {h \in Live : NameOf[owner[h]] = BuiltTable[r].name}

\* A component that TIOMX_GetHandle returned and that has not been
\* deinitialised can be freed: its memory is allocated (no other path has
\* freed it), one slot holds it, and it has one place in componentTable,
\* although TIOMX_Init resets the table and TIOMX_FreeHandle shifts it.  Only
\* in a row that is torn may it have lost that place.
LiveFreeable ==
    /\ \A h \in Live :
          /\ h \in heap
          /\ \E i \in Slots : \A j \in Slots : pComponents[j] = h <=> j = i
          /\ \A p, q \in Places(h) : p = q
    /\ \A r \in Rows \ torn : \A h \in InUse(r) : Places(h) # {}

\* What the core holds on to belongs to a component in use: a slot, a place in
\* the table or memory whose component was deinitialised would never be given
\* back, and TIOMX_GetHandle would soon find no empty slot.  Only components of a
\* torn row stay in their slots.
NothingLeaks ==
    /\ \A h \in heap : \E i \in Slots : pComponents[i] = h
    /\ \A i \in Slots :
          /\ pModules[i] = NULL <=> pComponents[i] = NULL
          /\ pComponents[i] \in Live \cup {NULL} \/ RowOf(pModules[i]) \cap torn # {}
    /\ \A r \in Rows : \A k \in Listed(r) :
          pHandle[r][k] \in InUse(r) \/ (r \in torn /\ pHandle[r][k] = NULL)

\* "limit the number of max occuring instances of same component"
\* (OMX_ComponentRegistry.h:8): refCount bounds the components in use, also when a
\* shift has lost some of them or refCount itself.
InstancesLimited ==
    \A r \in Rows : Cardinality(InUse(r)) <= BuiltTable[r].maxinstances

\* "the rest of the instances will be shifted in the array" (OMX_Core.c:416): no
\* component in use drops out of componentTable when another one is freed.
RestShifted == \A h \in Live : Places(h) # {}
=============================================================================
