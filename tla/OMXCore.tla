------------------------------ MODULE OMXCore ------------------------------
(***************************************************************************)
(* The OpenMAX core, omx_core/src/OMX_Core.c: it loads components by name, *)
(* keeps the loaded ones in the slots pModules / pComponents, and per kind *)
(* the handles of its instances in componentTable.  TIOMX_Init,            *)
(* TIOMX_GetHandle, TIOMX_FreeHandle and TIOMX_Deinit run under one mutex, *)
(* so each is one step; each way TIOMX_GetHandle and TIOMX_FreeHandle can  *)
(* end is an action of its own.                                            *)
(*                                                                         *)
(* What TIOMX_BuildComponentTable makes of tComponentName never changes;   *)
(* it is the constant operator BuiltTable.  The fields of componentTable   *)
(* that change are the variables pHandle and refCount.                     *)
(*                                                                         *)
(* Two assignments go to pHandle[MAX_CONCURRENT_INSTANCES], one element    *)
(* beyond the array.  The struct has refCount there                        *)
(* (OMX_ComponentRegistry.h:17), and a pointer and an int are one word on  *)
(* this 32-bit machine: NULL written there is refCount = 0, and refCount   *)
(* read there is an address that no component has (Wild).                  *)
(***************************************************************************)
EXTENDS Integers, Sequences, FiniteSets

CONSTANTS
    tComponentName,   \* rows of a name, a role (or NULL) and maxinstances
    Handles,          \* addresses that malloc can return
    MAXCOMP,          \* slots, 50 in the code
    MAX_TABLE_SIZE,   \* rows of componentTable, 30 in the code
    MAX_CONCURRENT_INSTANCES,   \* length of pHandle in a row, 4 in the code
    NULL,
    Wild              \* a small number taken for an address

ASSUME CoreAssumption ==
    /\ MAXCOMP \in Nat /\ MAX_TABLE_SIZE \in Nat
    /\ MAX_CONCURRENT_INSTANCES \in Nat
    /\ NULL \notin Handles /\ Wild \notin Handles /\ Wild # NULL
    /\ Len(tComponentName) \in Nat
    /\ \A i \in 1..Len(tComponentName) :
          tComponentName[i].maxinstances \in 0..MAX_CONCURRENT_INSTANCES

VARIABLES
    count,         \* reference counter of TIOMX_Init
    tableBuilt,    \* has TIOMX_BuildComponentTable run (tableCount > 0)?
    pModules,      \* per slot: the library loaded
    pComponents,   \* per slot: the component's handle
    pHandle,       \* per row of the table: the array of its instances' handles
    refCount,      \* per row: the number of elements in use, once -1
    heap           \* handles that are allocated

coreVars == <<count, tableBuilt, pModules, pComponents, pHandle, refCount, heap>>

Slots == 1..MAXCOMP
Indices == 0..(MAX_CONCURRENT_INSTANCES - 1)

-----------------------------------------------------------------------------
(* TIOMX_BuildComponentTable.                                              *)

RowsNamed(table, name) == {j \in DOMAIN table : table[j].name = name}

\* A full table takes no further row, and no further role either.  A role that is
\* added to a row also clears the element of pHandle with the role's number.
InsertRow(table, row) ==
    IF Len(table) >= MAX_TABLE_SIZE THEN table
    ELSE IF RowsNamed(table, row.name) = {}
    THEN Append(table, [name |-> row.name, maxinstances |-> row.maxinstances,
                        roles |-> IF row.role = NULL THEN <<>> ELSE <<row.role>>,
                        cleared |-> {}])
    ELSE [j \in DOMAIN table |->
             IF j \in RowsNamed(table, row.name) /\ row.role # NULL
             THEN [table[j] EXCEPT !.roles = Append(@, row.role),
                                   !.cleared = @ \cup {Len(table[j].roles)}]
             ELSE table[j]]

TableAfter[n \in Nat] ==
    IF n = 0 THEN <<>> ELSE InsertRow(TableAfter[n - 1], tComponentName[n])

BuiltTable == TableAfter[Len(tComponentName)]
Rows == DOMAIN BuiltTable

\* Clearing reaches refCount at most, which is 0 then, and not maxinstances behind
\* it: no component has more than five roles.
ASSUME RolesAssumption ==
    \A r \in Rows : BuiltTable[r].cleared \subseteq 0..MAX_CONCURRENT_INSTANCES

BuildComponentTable ==
    /\ tableBuilt' = TRUE
    /\ refCount' = [r \in Rows |-> 0]
    /\ pHandle' = [r \in Rows |-> [k \in Indices |->
                      IF k \in BuiltTable[r].cleared THEN NULL ELSE pHandle[r][k]]]

-----------------------------------------------------------------------------
(* TIOMX_Init and TIOMX_Deinit.                                            *)

\* Mutant: every initialisation builds the table.
InitAlways ==
    /\ count' = count + 1
    /\ BuildComponentTable
    /\ UNCHANGED <<pModules, pComponents, heap>>

\* The first initialisation builds the table and resets every refCount.
TIOMX_Init ==
    /\ count' = count + 1
    /\ IF count = 0 THEN BuildComponentTable
       ELSE UNCHANGED <<tableBuilt, pHandle, refCount>>
    /\ UNCHANGED <<pModules, pComponents, heap>>

\* Nothing but the counter changes; what is loaded stays loaded.
TIOMX_Deinit ==
    /\ count' = IF count > 0 THEN count - 1 ELSE 0
    /\ UNCHANGED <<tableBuilt, pModules, pComponents, pHandle, refCount, heap>>

-----------------------------------------------------------------------------
(* TIOMX_GetHandle(&var, name).                                            *)

\* The first empty slot, and the row of a name.
FirstEmpty(i) == i \in Slots /\ pModules[i] = NULL
                 /\ \A j \in 1..(i - 1) : pModules[j] # NULL
RowOf(name) == RowsNamed(BuiltTable, name)

\* Mutant: one more instance than is allowed.
LimitPassed(r) == refCount[r] < 0 \/ refCount[r] > BuiltTable[r].maxinstances

\* Mutant: refCount is compared as a signed number.
LimitSigned(r) == refCount[r] >= BuiltTable[r].maxinstances

\* maxinstances is an OMX_U32, so that a refCount of -1 is above it.
LimitReached(r) == refCount[r] < 0 \/ refCount[r] >= BuiltTable[r].maxinstances

\* No slot, or the limit of the kind: nothing happens.
GetHandleRefused(name) ==
    /\ \/ \A i \in Slots : pModules[i] # NULL
       \/ \E r \in RowOf(name) : LimitReached(r)
    /\ UNCHANGED coreVars

\* The component may be loaded: a slot is empty and the limit not reached.
Loadable(i, r, name) == FirstEmpty(i) /\ r \in RowOf(name) /\ ~ LimitReached(r)

DlopenFails(name) ==
    /\ \E i \in Slots, r \in Rows : Loadable(i, r, name)
    /\ UNCHANGED coreVars

\* CLEAN_UP before the malloc, for an unknown name or a library without
\* OMX_ComponentInit: what the caller's variable points to is freed, and the
\* variable becomes NULL.
CleanUpEarly(name, old) ==
    /\ \E i \in Slots : FirstEmpty(i)
    /\ \A r \in RowOf(name) : ~ LimitReached(r)
    /\ heap' = heap \ {old}
    /\ UNCHANGED <<count, tableBuilt, pModules, pComponents, pHandle, refCount>>

\* CLEAN_UP after it, since malloc, OMX_ComponentInit or SetCallbacks failed;
\* the variable becomes NULL too.
CleanUp(name) ==
    /\ \E i \in Slots, r \in Rows : Loadable(i, r, name)
    /\ UNCHANGED coreVars

\* The component is loaded, at address h.
GetHandleSucceeds(name, h) ==
    \E i \in Slots, r \in Rows :
        /\ Loadable(i, r, name)
        /\ h \in Handles \ heap
        /\ heap' = heap \cup {h}
        /\ pModules' = [pModules EXCEPT ![i] = name]
        /\ pComponents' = [pComponents EXCEPT ![i] = h]
        /\ pHandle' = [pHandle EXCEPT ![r][refCount[r]] = h]
        /\ refCount' = [refCount EXCEPT ![r] = @ + 1]
        /\ UNCHANGED <<count, tableBuilt>>

-----------------------------------------------------------------------------
(* TIOMX_FreeHandle(h).                                                    *)

SlotOf(h) == {i \in Slots : /\ pComponents[i] = h
                            /\ \A j \in 1..(i - 1) : pComponents[j] # h}

\* The places of h in the table, as <<row, index>>.
Listed(r) == 0..(refCount[r] - 1)
Places(h) == {q \in UNION {{r} \X Listed(r) : r \in Rows} : pHandle[q[1]][q[2]] = h}

\* The first of them in the order of the two loops.
FirstPlace(r, k, h) ==
    /\ <<r, k>> \in Places(h)
    /\ \A q \in Places(h) : r < q[1] \/ (r = q[1] /\ k <= q[2])

\* The handle is in no slot.
FreeHandleUnknown(h) ==
    /\ SlotOf(h) = {}
    /\ UNCHANGED coreVars

\* ComponentDeInit reports an error.
ComponentDeInitFails(h) ==
    /\ SlotOf(h) # {}
    /\ UNCHANGED coreVars

\* The loop that moves up the instances behind the freed one, at index k.  It
\* moves an element into index j, unless j is NULL, and then clears j + 1; so it
\* finds NULL at j + 1, skips that, and what was at j + 2 stays there.
Skipping(r, k, moved) ==
    /\ k \in moved
    /\ \A j \in (k + 1)..(refCount[r] - 1) :
          j \in moved <=> j - 1 \notin moved /\ pHandle[r][j] # NULL

\* The last element has that beyond the array moved into it.  Clearing the word there
\* makes refCount 0, and -1 in the end, unless it was in a register.
Behind(r, j) == IF j + 1 \in Indices THEN pHandle[r][j + 1] ELSE Wild

ShiftHandles(r, k) ==
    \E moved \in SUBSET (k..(refCount[r] - 1)) :
        /\ Skipping(r, k, moved)
        /\ pHandle' = [pHandle EXCEPT ![r] = [j \in Indices |->
               IF j \in moved THEN Behind(r, j)
               ELSE IF j - 1 \in moved THEN NULL ELSE pHandle[r][j]]]
        /\ \/ refCount' = [refCount EXCEPT ![r] = @ - 1]
           \/ /\ MAX_CONCURRENT_INSTANCES - 1 \in moved
              /\ refCount' = [refCount EXCEPT ![r] = -1]

ClearLast(r, k) ==
    /\ pHandle' = [pHandle EXCEPT ![r][k] = NULL]
    /\ refCount' = [refCount EXCEPT ![r] = @ - 1]

RemoveHandle(r, k) ==
    IF k < refCount[r] - 1 THEN ShiftHandles(r, k) ELSE ClearLast(r, k)

\* Mutant: the slot keeps the handle.
FreeKeepsSlot(h) ==
    \E i \in SlotOf(h), r \in Rows :
        \E k \in Listed(r) :
            /\ FirstPlace(r, k, h)
            /\ RemoveHandle(r, k)
            /\ pModules' = [pModules EXCEPT ![i] = NULL]
            /\ heap' = heap \ {h}
            /\ UNCHANGED <<count, tableBuilt, pComponents>>

FreeHandleSucceeds(h) ==
    \E i \in SlotOf(h), r \in Rows :
        \E k \in Listed(r) :
            /\ FirstPlace(r, k, h)
            /\ RemoveHandle(r, k)
            /\ pModules' = [pModules EXCEPT ![i] = NULL]
            /\ pComponents' = [pComponents EXCEPT ![i] = NULL]
            /\ heap' = heap \ {h}
            /\ UNCHANGED <<count, tableBuilt>>

\* The component has been deinitialised and is not in the table: the slot and
\* the memory stay occupied.
FreeHandleNotFound(h) ==
    /\ SlotOf(h) # {}
    /\ Places(h) = {}
    /\ UNCHANGED coreVars

CoreInit ==
    /\ count = 0
    /\ tableBuilt = FALSE
    /\ pModules = [i \in Slots |-> NULL]
    /\ pComponents = [i \in Slots |-> NULL]
    /\ pHandle = [r \in Rows |-> [k \in Indices |-> NULL]]
    /\ refCount = [r \in Rows |-> 0]
    /\ heap = {}
=============================================================================
