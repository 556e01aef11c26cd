-------------------------- MODULE OMXClientsProofs --------------------------
(***************************************************************************)
(* Proofs about the OpenMAX core and its clients, for every table of       *)
(* component names, every number of slots and every set of clients.        *)
(***************************************************************************)
EXTENDS OMXClients, LoopLemmas, FiniteSetTheorems

-----------------------------------------------------------------------------
(* The table that TIOMX_BuildComponentTable leaves.  TableAfter is defined *)
(* by recursion on the rows of tComponentName read so far; that such a     *)
(* function exists is shown first, from its finite beginnings.             *)

Named == 1..Len(tComponentName)
RowType == [name : {tComponentName[i].name : i \in Named},
            maxinstances : 0..MAX_CONCURRENT_INSTANCES,
            roles : Seq({tComponentName[i].role : i \in Named}),
            cleared : SUBSET Nat]

Step(f, n) == IF n = 0 THEN <<>> ELSE InsertRow(f[n - 1], tComponentName[n])
Beginning(n, f) == f = [i \in 0..n |-> Step(f, i)]

\* The table after n rows exists, for every n.
LEMMA BeginningExists == \A n \in Nat : \E f : Beginning(n, f)
<1> DEFINE Bad == {n \in Nat : ~ \E f : Beginning(n, f)}
<1> SUFFICES ASSUME Bad # {} PROVE FALSE
    OBVIOUS
<1>1. PICK k \in Bad : \A j \in Bad : k <= j
      BY LeastElement, Bad \in SUBSET Nat
<1>2. k # 0
  <2> DEFINE f == [i \in 0..0 |-> <<>>]
  <2>1. f = [i \in 0..0 |-> Step(f, i)]
        BY DEF Step
  <2> QED BY <2>1 DEF Beginning
<1>3. k - 1 \in Nat /\ k - 1 \notin Bad
      BY <1>1, <1>2
<1>4. PICK f : Beginning(k - 1, f)
      BY <1>3
<1> DEFINE g == [i \in 0..k |-> IF i = k THEN Step(f, k) ELSE f[i]]
<1>5. ASSUME NEW i \in 0..k PROVE g[i] = Step(g, i)
  <2>1. CASE i = 0
        BY <1>2, <1>3, <1>4, <2>1 DEF Beginning, Step
  <2>2. CASE i # 0
    <3>1. i - 1 \in 0..(k - 1) /\ i - 1 # k
          BY <2>2, <1>3
    <3>2. g[i - 1] = f[i - 1]
          BY <3>1
    <3>3. g[i] = Step(f, i)
          BY <1>4, <1>3 DEF Beginning
    <3> QED BY <2>2, <3>2, <3>3 DEF Step
  <2> QED BY <2>1, <2>2
<1>6. Beginning(k, g)
      BY <1>5 DEF Beginning
<1> QED BY <1>1, <1>6

\* Two such beginnings agree.
LEMMA BeginningsAgree ==
    ASSUME NEW m \in Nat, NEW n \in Nat, NEW f, NEW g,
           Beginning(m, f), Beginning(n, g),
           NEW i \in Nat, i <= m, i <= n
    PROVE  f[i] = g[i]
<1> DEFINE Bad == {j \in Nat : j <= m /\ j <= n /\ f[j] # g[j]}
<1> SUFFICES ASSUME Bad # {} PROVE FALSE
    OBVIOUS
<1>1. PICK k \in Bad : \A j \in Bad : k <= j
      BY LeastElement, Bad \in SUBSET Nat
<1>2. f[k] = Step(f, k) /\ g[k] = Step(g, k)
  <2>1. k \in 0..m /\ k \in 0..n
        OBVIOUS
  <2>2. [j \in 0..m |-> Step(f, j)][k] = Step(f, k)
        BY <2>1
  <2>3. [j \in 0..n |-> Step(g, j)][k] = Step(g, k)
        BY <2>1
  <2> QED BY <2>2, <2>3 DEF Beginning
<1>3. k # 0
      BY <1>1, <1>2 DEF Step
<1>4. f[k - 1] = g[k - 1]
      BY <1>1, <1>3
<1> QED BY <1>1, <1>2, <1>3, <1>4 DEF Step

\* TableAfter satisfies its defining equation.
LEMMA TableAfterDef ==
    \A n \in Nat : TableAfter[n] = IF n = 0 THEN <<>>
                                   ELSE InsertRow(TableAfter[n - 1], tComponentName[n])
<1> DEFINE part(n) == CHOOSE f : Beginning(n, f)
           whole == [n \in Nat |-> part(n)[n]]
           P(f) == f = [n \in Nat |-> IF n = 0 THEN <<>>
                                      ELSE InsertRow(f[n - 1], tComponentName[n])]
<1>1. \A n \in Nat : Beginning(n, part(n))
      BY BeginningExists
<1> HIDE DEF part
<1>2. ASSUME NEW n \in Nat
      PROVE  whole[n] = IF n = 0 THEN <<>>
                        ELSE InsertRow(whole[n - 1], tComponentName[n])
  <2>1. part(n)[n] = Step(part(n), n)
        BY <1>1 DEF Beginning
  <2>2. ASSUME n # 0 PROVE part(n)[n - 1] = part(n - 1)[n - 1]
    <3>1. n - 1 \in Nat /\ n - 1 <= n /\ n - 1 <= n - 1
          BY <2>2
    <3>2. Beginning(n, part(n)) /\ Beginning(n - 1, part(n - 1))
          BY <1>1, <3>1
    <3> QED BY <3>1, <3>2, BeginningsAgree
  <2> QED BY <2>1, <2>2 DEF Step
<1>3. P(whole)
      BY <1>2
<1>4. TableAfter = CHOOSE f : P(f)
      BY DEF TableAfter
<1>5. P(TableAfter)
      BY <1>3, <1>4
<1> QED BY <1>5

\* A table with room for its rows, each kind in one of them.
WellFormed(table) ==
    /\ table \in Seq(RowType)
    /\ Len(table) <= MAX_TABLE_SIZE
    /\ \A i, j \in DOMAIN table : table[i].name = table[j].name => i = j

\* Reading one more row of tComponentName keeps the table well formed.
LEMMA InsertRowWellFormed ==
    ASSUME NEW table, WellFormed(table), NEW n \in Named
    PROVE  WellFormed(InsertRow(table, tComponentName[n]))
<1> DEFINE row == tComponentName[n]
           new == [name |-> row.name, maxinstances |-> row.maxinstances,
                   roles |-> IF row.role = NULL THEN <<>> ELSE <<row.role>>,
                   cleared |-> {}]
<1>0. table \in Seq(RowType) /\ Len(table) \in Nat /\ DOMAIN table = 1..Len(table)
      BY DEF WellFormed
<1>1. CASE Len(table) >= MAX_TABLE_SIZE
      BY <1>1 DEF InsertRow
<1>2. CASE ~ (Len(table) >= MAX_TABLE_SIZE) /\ RowsNamed(table, row.name) = {}
  <2>1. new \in RowType
    <3>1. row.name \in {tComponentName[i].name : i \in Named}
          OBVIOUS
    <3>2. row.role \in {tComponentName[i].role : i \in Named}
          OBVIOUS
    <3>3. row.maxinstances \in 0..MAX_CONCURRENT_INSTANCES
          BY CoreAssumption DEF Named
    <3>4. <<>> \in Seq({tComponentName[i].role : i \in Named})
          OBVIOUS
    <3>5. <<row.role>> \in Seq({tComponentName[i].role : i \in Named})
          BY <3>2
    <3> QED BY <3>1, <3>3, <3>4, <3>5 DEF RowType
  <2>2. InsertRow(table, row) = Append(table, new)
        BY <1>2 DEF InsertRow
  <2>3. \A i \in DOMAIN table : table[i].name # row.name
        BY <1>2 DEF RowsNamed
  <2> HIDE DEF new
  <2>4. new.name = row.name
        BY DEF new
  <2>5. Append(table, new) \in Seq(RowType) /\ Len(Append(table, new)) = Len(table) + 1
        BY <1>0, <2>1
  <2>6. Len(Append(table, new)) <= MAX_TABLE_SIZE
        BY <1>0, <1>2, <2>5, CoreAssumption
  <2>7. \A i \in 1..(Len(table) + 1) :
           Append(table, new)[i] = IF i <= Len(table) THEN table[i] ELSE new
        BY <1>0, <2>1
  <2>8. ASSUME NEW i \in 1..(Len(table) + 1), NEW j \in 1..(Len(table) + 1),
               Append(table, new)[i].name = Append(table, new)[j].name
        PROVE  i = j
        BY <1>0, <2>3, <2>4, <2>7, <2>8 DEF WellFormed
  <2> QED BY <2>2, <2>5, <2>6, <2>8 DEF WellFormed
<1>3. CASE ~ (Len(table) >= MAX_TABLE_SIZE) /\ RowsNamed(table, row.name) # {}
  <2> DEFINE after == [j \in DOMAIN table |->
                          IF j \in RowsNamed(table, row.name) /\ row.role # NULL
                          THEN [table[j] EXCEPT !.roles = Append(@, row.role),
                                   !.cleared = @ \cup {Len(table[j].roles)}]
                          ELSE table[j]]
  <2>1. InsertRow(table, row) = after
        BY <1>3 DEF InsertRow
  <2>2. ASSUME NEW j \in DOMAIN table
        PROVE  after[j] \in RowType /\ after[j].name = table[j].name
    <3>1. table[j] \in RowType
          BY <1>0
    <3>2. row.role \in {tComponentName[i].role : i \in Named}
          OBVIOUS
    <3>3. Append(table[j].roles, row.role)
             \in Seq({tComponentName[i].role : i \in Named})
          BY <3>1, <3>2 DEF RowType
    <3>4. table[j].cleared \cup {Len(table[j].roles)} \in SUBSET Nat
          BY <3>1 DEF RowType
    <3>5. [table[j] EXCEPT !.roles = Append(@, row.role),
              !.cleared = @ \cup {Len(table[j].roles)}] \in RowType
          BY <3>1, <3>3, <3>4 DEF RowType
    <3>6. [table[j] EXCEPT !.roles = Append(@, row.role),
              !.cleared = @ \cup {Len(table[j].roles)}].name = table[j].name
          BY <3>1 DEF RowType
    <3> QED BY <3>1, <3>5, <3>6
  <2>3. after \in Seq(RowType) /\ Len(after) = Len(table)
    <3>1. DOMAIN after = 1..Len(table) /\ \A j \in 1..Len(table) : after[j] \in RowType
          BY <1>0, <2>2
    <3>2. after = [j \in 1..Len(table) |-> after[j]]
          BY <1>0
    <3> HIDE DEF after
    <3>3. [j \in 1..Len(table) |-> after[j]] \in Seq(RowType)
          BY <1>0, <3>1
    <3>4. Len([j \in 1..Len(table) |-> after[j]]) = Len(table)
          BY <1>0
    <3> QED BY <3>2, <3>3, <3>4
  <2>4. DOMAIN after = DOMAIN table
        OBVIOUS
  <2> HIDE DEF after
  <2> QED BY <2>1, <2>2, <2>3, <2>4 DEF WellFormed
<1> QED BY <1>1, <1>2, <1>3

\* Whatever the order and repetition of names in tComponentName, the table
\* that TIOMX_BuildComponentTable builds has at most MAX_TABLE_SIZE rows, each
\* name in one row, and numbers of instances that the comparison with refCount
\* is defined for.
THEOREM TableWellFormed == WellFormed(BuiltTable)
<1> DEFINE N == Len(tComponentName)
           Bad == {n \in 0..N : ~ WellFormed(TableAfter[n])}
<1>0. N \in Nat
      BY CoreAssumption
<1> HIDE DEF N
<1>1. SUFFICES ASSUME Bad # {} PROVE FALSE
      BY <1>0 DEF BuiltTable, N
<1>2. PICK k \in Bad : \A j \in Bad : k <= j
      BY <1>0, <1>1, LeastElement, Bad \in SUBSET Nat
<1>3. k # 0
  <2>1. TableAfter[0] = <<>>
        BY TableAfterDef
  <2>2. WellFormed(<<>>)
        BY CoreAssumption DEF WellFormed
  <2> QED BY <2>1, <2>2
<1>4. k - 1 \in Nat /\ k - 1 \in 0..N /\ WellFormed(TableAfter[k - 1])
      BY <1>0, <1>2, <1>3
<1>5. TableAfter[k] = InsertRow(TableAfter[k - 1], tComponentName[k])
      BY <1>0, <1>3, TableAfterDef
<1>6. k \in Named
      BY <1>0, <1>3 DEF Named, N
<1> QED BY <1>4, <1>5, <1>6, InsertRowWellFormed

-----------------------------------------------------------------------------
(* Types and bounds, for all clients and whatever their variables hold.    *)

\* The limit of a row is a number of instances that its array can hold.
LEMMA LimitIsNumber ==
    /\ MAX_CONCURRENT_INSTANCES \in Nat
    /\ \A r \in Rows : BuiltTable[r].maxinstances \in 0..MAX_CONCURRENT_INSTANCES
<1>1. \A r \in Rows : BuiltTable[r] \in RowType
      BY TableWellFormed DEF WellFormed, Rows
<1> QED BY <1>1, CoreAssumption DEF RowType

\* The steps of the clients, as calls of the core with what the client keeps.
LEMMA ClientSteps ==
    ASSUME [Next]_vars
    PROVE  \/ \E p \in Plugins : TIOMXPlugin(p) \/ DestroyPlugin(p)
           \/ \E n \in Nodes : makeComponentInstance(n)
           \/ \E n \in Nodes : destroyComponentInstance(n)
           \/ \E e \in Encoders : encodeImage(e)
           \/ \E e \in Encoders : RestartFrees(e) \/ RunFrees(e)
           \/ \E e \in Encoders : RestartInits(e) \/ RunDeinits(e)
           \/ \E e \in Encoders : StartObtains(e)
           \/ UNCHANGED vars
BY DEF Next

Element == HandleOrNull \cup {Wild}

CoreTypeOK ==
    /\ count \in Nat
    /\ tableBuilt \in BOOLEAN
    /\ pModules \in [Slots -> {NameOf[c] : c \in Clients} \cup {NULL}]
    /\ pComponents \in [Slots -> HandleOrNull]
    /\ pHandle \in [Rows -> [Indices -> Element]]
    /\ refCount \in [Rows -> -1..MAX_CONCURRENT_INSTANCES]
    /\ heap \subseteq Handles

\* TIOMX_Init and TIOMX_Deinit keep the core's types.
LEMMA InitDeinitOK ==
    ASSUME CoreTypeOK, TIOMX_Init \/ TIOMX_Deinit
    PROVE  CoreTypeOK'
<1>1. CASE TIOMX_Init /\ count = 0
  <2>1. refCount' = [r \in Rows |-> 0] /\ tableBuilt' = TRUE
        BY <1>1 DEF TIOMX_Init, BuildComponentTable
  <2>2. \A r \in Rows :
           [k \in Indices |-> IF k \in BuiltTable[r].cleared THEN NULL ELSE pHandle[r][k]]
              \in [Indices -> Element]
        BY DEF CoreTypeOK, Element, HandleOrNull
  <2>3. pHandle' \in [Rows -> [Indices -> Element]]
        BY <1>1, <2>2 DEF TIOMX_Init, BuildComponentTable
  <2>4. refCount' \in [Rows -> -1..MAX_CONCURRENT_INSTANCES]
        BY <2>1, LimitIsNumber
  <2> QED BY <1>1, <2>1, <2>3, <2>4 DEF TIOMX_Init, CoreTypeOK
<1>2. CASE (TIOMX_Init /\ count # 0) \/ TIOMX_Deinit
      BY <1>2 DEF TIOMX_Init, TIOMX_Deinit, CoreTypeOK
<1> QED BY <1>1, <1>2

\* TIOMX_GetHandle writes the element that refCount counts next.
LEMMA GetHandleOK ==
    ASSUME CoreTypeOK, NEW c \in Clients, NEW h \in Handles,
           GetHandleSucceeds(NameOf[c], h)
    PROVE  CoreTypeOK'
<1>1. PICK i \in Slots, r \in Rows :
           /\ ~ LimitReached(r)
           /\ heap' = heap \cup {h}
           /\ pModules' = [pModules EXCEPT ![i] = NameOf[c]]
           /\ pComponents' = [pComponents EXCEPT ![i] = h]
           /\ pHandle' = [pHandle EXCEPT ![r][refCount[r]] = h]
           /\ refCount' = [refCount EXCEPT ![r] = @ + 1]
           /\ UNCHANGED <<count, tableBuilt>>
      BY DEF GetHandleSucceeds, Loadable
<1>2. refCount[r] \in Indices /\ refCount[r] + 1 \in -1..MAX_CONCURRENT_INSTANCES
      BY <1>1, LimitIsNumber DEF LimitReached, CoreTypeOK, Indices
<1>3. h \in Element
      BY DEF Element, HandleOrNull
<1>4. pHandle' \in [Rows -> [Indices -> Element]]
      BY <1>1, <1>3 DEF CoreTypeOK
<1>5. refCount' \in [Rows -> -1..MAX_CONCURRENT_INSTANCES]
      BY <1>1, <1>2 DEF CoreTypeOK
<1>6. /\ pModules' \in [Slots -> {NameOf[d] : d \in Clients} \cup {NULL}]
      /\ pComponents' \in [Slots -> HandleOrNull]
      /\ heap' \subseteq Handles /\ count' \in Nat /\ tableBuilt' \in BOOLEAN
      BY <1>1 DEF CoreTypeOK, HandleOrNull
<1> QED BY <1>4, <1>5, <1>6 DEF CoreTypeOK

\* What is behind an element of the array is one of it, or Wild.
LEMMA BehindType ==
    ASSUME CoreTypeOK, NEW r \in Rows, NEW j \in Indices
    PROVE  Behind(r, j) \in Element
BY DEF CoreTypeOK, Behind, Element

\* Removing a handle leaves an array, and a refCount that is lower.
LEMMA RemoveHandleOK ==
    ASSUME CoreTypeOK, NEW r \in Rows, NEW k \in Listed(r), RemoveHandle(r, k)
    PROVE  /\ pHandle' \in [Rows -> [Indices -> Element]]
           /\ refCount' \in [Rows -> -1..MAX_CONCURRENT_INSTANCES]
<1>0. /\ refCount[r] \in -1..MAX_CONCURRENT_INSTANCES /\ k \in Int
      /\ 0 <= k /\ k < refCount[r] /\ k \in Indices
      BY LimitIsNumber DEF CoreTypeOK, Listed, Indices
<1>1. CASE k < refCount[r] - 1
  <2>1. PICK moved \in SUBSET (k..(refCount[r] - 1)) :
           /\ pHandle' = [pHandle EXCEPT ![r] = [j \in Indices |->
                  IF j \in moved THEN Behind(r, j)
                  ELSE IF j - 1 \in moved THEN NULL ELSE pHandle[r][j]]]
           /\ \/ refCount' = [refCount EXCEPT ![r] = @ - 1]
              \/ refCount' = [refCount EXCEPT ![r] = -1]
        BY <1>1 DEF RemoveHandle, ShiftHandles
  <2> DEFINE new == [j \in Indices |-> IF j \in moved THEN Behind(r, j)
                     ELSE IF j - 1 \in moved THEN NULL ELSE pHandle[r][j]]
  <2>2. new \in [Indices -> Element]
        BY BehindType DEF CoreTypeOK, Element, HandleOrNull
  <2>3. pHandle' = [pHandle EXCEPT ![r] = new]
        BY <2>1
  <2> HIDE DEF new
  <2>4. pHandle' \in [Rows -> [Indices -> Element]]
        BY <2>2, <2>3 DEF CoreTypeOK
  <2>5. refCount' \in [Rows -> -1..MAX_CONCURRENT_INSTANCES]
        BY <1>0, <2>1, LimitIsNumber DEF CoreTypeOK
  <2> QED BY <2>4, <2>5
<1>2. CASE ~ (k < refCount[r] - 1)
      BY <1>0, <1>2, LimitIsNumber
         DEF RemoveHandle, ClearLast, CoreTypeOK, Element, HandleOrNull
<1> QED BY <1>1, <1>2

\* TIOMX_FreeHandle keeps the core's types.
LEMMA FreeHandleOK ==
    ASSUME CoreTypeOK, NEW h, FreeHandleSucceeds(h)
    PROVE  CoreTypeOK'
<1>1. PICK i \in SlotOf(h), r \in Rows : \E k \in Listed(r) :
           /\ RemoveHandle(r, k)
           /\ pModules' = [pModules EXCEPT ![i] = NULL]
           /\ pComponents' = [pComponents EXCEPT ![i] = NULL]
           /\ heap' = heap \ {h}
           /\ UNCHANGED <<count, tableBuilt>>
      BY DEF FreeHandleSucceeds
<1>2. PICK k \in Listed(r) : RemoveHandle(r, k)
      BY <1>1
<1>3. /\ pHandle' \in [Rows -> [Indices -> Element]]
      /\ refCount' \in [Rows -> -1..MAX_CONCURRENT_INSTANCES]
      BY <1>2, RemoveHandleOK
<1>4. /\ pModules' \in [Slots -> {NameOf[d] : d \in Clients} \cup {NULL}]
      /\ pComponents' \in [Slots -> HandleOrNull]
      /\ heap' \subseteq Handles /\ count' \in Nat /\ tableBuilt' \in BOOLEAN
      BY <1>1 DEF CoreTypeOK, HandleOrNull, SlotOf
<1> QED BY <1>3, <1>4 DEF CoreTypeOK

ClientTypeOK ==
    /\ up \subseteq Plugins
    /\ pc \in [Clients -> {"idle", "using", "restart", "init", "obtain", "deinit"}]
    /\ pOMXHandle \in [Clients -> HandleOrNull]
    /\ owner \in [Handles -> Clients \cup {NULL}]
    /\ torn \subseteq Rows

\* What a call does, whichever client makes it.
LEMMA CallsOK ==
    ASSUME CoreTypeOK, ClientTypeOK, NEW c \in Clients,
           NEW place \in {"idle", "using", "restart", "init", "obtain", "deinit"},
           UNCHANGED pc \/ Goto(c, place),
           Obtained(c) \/ NotObtained(c) \/ Released(c) \/ NotReleased(c)
    PROVE  CoreTypeOK' /\ ClientTypeOK'
<1>0. UNCHANGED coreVars => CoreTypeOK'
      BY DEF coreVars, CoreTypeOK
<1>1. CASE Obtained(c)
      BY <1>1, GetHandleOK DEF Obtained, ClientTypeOK, Goto, HandleOrNull
<1>2. CASE NotObtained(c)
  <2>1. CoreTypeOK'
        BY <1>0, <1>2 DEF NotObtained, GetHandleRefused, DlopenFails, CleanUpEarly,
              CleanUp, CoreTypeOK
  <2> QED BY <1>2, <2>1 DEF NotObtained, ClientTypeOK, Goto, HandleOrNull
<1>3. CASE Released(c)
  <2>1. CoreTypeOK'
        BY <1>0, <1>3, FreeHandleOK DEF Released, FreeHandleNotFound
  <2> QED BY <1>3, <2>1 DEF Released, TornBy, ClientTypeOK, Goto, HandleOrNull
<1>4. CASE NotReleased(c)
      BY <1>0, <1>4 DEF NotReleased, FreeHandleUnknown, ComponentDeInitFails,
            ClientTypeOK, Goto
<1> QED BY <1>1, <1>2, <1>3, <1>4

\* The initial state has the types.
LEMMA InitialOK == Init => CoreTypeOK /\ ClientTypeOK
<1> SUFFICES ASSUME Init PROVE CoreTypeOK /\ ClientTypeOK
    OBVIOUS
<1>1. [k \in Indices |-> NULL] \in [Indices -> Element]
      BY DEF Element, HandleOrNull
<1>2. pHandle \in [Rows -> [Indices -> Element]]
      BY <1>1 DEF Init, CoreInit
<1>3. refCount \in [Rows -> -1..MAX_CONCURRENT_INSTANCES]
      BY LimitIsNumber DEF Init, CoreInit
<1>4. CoreTypeOK
      BY <1>2, <1>3 DEF Init, CoreInit, CoreTypeOK, HandleOrNull
<1> QED BY <1>4 DEF Init, ClientTypeOK, HandleOrNull

\* Every step keeps them.
LEMMA StepOK ==
    CoreTypeOK /\ ClientTypeOK /\ [Next]_vars => CoreTypeOK' /\ ClientTypeOK'
<1> SUFFICES ASSUME CoreTypeOK, ClientTypeOK, [Next]_vars
             PROVE  CoreTypeOK' /\ ClientTypeOK'
    OBVIOUS
<1>0. Nodes \subseteq Clients /\ Encoders \subseteq Clients
      BY DEF Clients
<1>1. ASSUME NEW p \in Plugins, TIOMXPlugin(p) \/ DestroyPlugin(p)
      PROVE  CoreTypeOK' /\ ClientTypeOK'
  <2>1. CoreTypeOK'
        BY <1>1, InitDeinitOK DEF TIOMXPlugin, DestroyPlugin, InitCalled
  <2> QED BY <1>1, <2>1 DEF TIOMXPlugin, DestroyPlugin, ClientTypeOK
<1>2. ASSUME NEW n \in Nodes, makeComponentInstance(n)
      PROVE  CoreTypeOK' /\ ClientTypeOK'
      BY <1>0, <1>2, CallsOK DEF makeComponentInstance
<1>3. ASSUME NEW n \in Nodes, destroyComponentInstance(n)
      PROVE  CoreTypeOK' /\ ClientTypeOK'
      BY <1>0, <1>3, CallsOK DEF destroyComponentInstance
<1>4. ASSUME NEW e \in Encoders, encodeImage(e) PROVE CoreTypeOK' /\ ClientTypeOK'
  <2>1. CoreTypeOK'
        BY <1>4, InitDeinitOK DEF encodeImage, InitCalled
  <2> QED BY <1>0, <1>4, <2>1 DEF encodeImage, ClientTypeOK, Goto
<1>5. ASSUME NEW e \in Encoders, RestartFrees(e) \/ RunFrees(e)
      PROVE  CoreTypeOK' /\ ClientTypeOK'
      BY <1>0, <1>5, CallsOK DEF RestartFrees, RunFrees
<1>6. ASSUME NEW e \in Encoders, RestartInits(e) \/ RunDeinits(e)
      PROVE  CoreTypeOK' /\ ClientTypeOK'
  <2>1. CoreTypeOK'
        BY <1>6, InitDeinitOK DEF RestartInits, RunDeinits, InitCalled
  <2> QED BY <1>0, <1>6, <2>1 DEF RestartInits, RunDeinits, ClientTypeOK, Goto
<1>7. ASSUME NEW e \in Encoders, StartObtains(e) PROVE CoreTypeOK' /\ ClientTypeOK'
      BY <1>0, <1>7, CallsOK DEF StartObtains
<1>8. CASE UNCHANGED vars
      BY <1>8 DEF vars, coreVars, clientVars, CoreTypeOK, ClientTypeOK
<1> QED BY <1>1, <1>2, <1>3, <1>4, <1>5, <1>6, <1>7, <1>8, ClientSteps

\* What is compared and where a new handle is written follows from the range of
\* refCount: -1 is above every limit, as an unsigned number.
LEMMA TableBounded == CoreTypeOK => WritesInTable
<1> SUFFICES ASSUME CoreTypeOK PROVE WritesInTable
    OBVIOUS
<1>1. ASSUME NEW r \in Rows PROVE Listed(r) \subseteq Indices
      BY LimitIsNumber DEF CoreTypeOK, Listed, Indices
<1>2. ASSUME NEW r \in Rows, ~ LimitReached(r) PROVE refCount[r] \in Indices
      BY <1>2, LimitIsNumber DEF CoreTypeOK, LimitReached, Indices
<1> QED BY <1>1, <1>2 DEF WritesInTable

\* The globals of the core and the variables of the clients keep their types,
\* with restarts, stale handles and failing ComponentDeInits included; holes and
\* a wild element in pHandle and a refCount of -1 are as far as the shift goes, and
\* no later access is outside the array because of it.
THEOREM TypeCorrect == Spec => []TypeOK
<1>1. CoreTypeOK /\ ClientTypeOK => TypeOK
      BY TableBounded DEF TypeOK, CoreTypeOK, ClientTypeOK, Element
<1> QED BY <1>1, InitialOK, StepOK, PTL DEF Spec

-----------------------------------------------------------------------------
(* Plugins alone: no JpegEncoder in the process, and nodes that pass a     *)
(* cleared variable.  The slots and the heap then hold each component in   *)
(* use once, and so does the table; only a row that is torn may have lost  *)
(* some of its components, which keep their slots when they go.            *)

SlotsAgree ==
    /\ \A i \in Slots : /\ pComponents[i] # NULL => pComponents[i] \in heap
                        /\ pModules[i] = NULL <=> pComponents[i] = NULL
    /\ \A i, j \in Slots :
          pComponents[i] = pComponents[j] /\ pComponents[i] # NULL => i = j
    /\ \A h \in heap : \E i \in Slots : pComponents[i] = h
    /\ Live \subseteq heap
    /\ \A i \in Slots : IF pComponents[i] \in Live
                        THEN pModules[i] = NameOf[owner[pComponents[i]]]
                        ELSE pComponents[i] = NULL \/ RowOf(pModules[i]) \cap torn # {}

TableAgrees ==
    /\ \A r \in Rows : \A k \in Listed(r) :
          pHandle[r][k] \in InUse(r) \/ (r \in torn /\ pHandle[r][k] = NULL)
    /\ \A r \in Rows : \A k, m \in Listed(r) :
          pHandle[r][k] = pHandle[r][m] /\ pHandle[r][k] # NULL => k = m
    /\ \A r \in Rows \ torn : \A h \in InUse(r) : \E k \in Listed(r) : pHandle[r][k] = h
    /\ \A h \in Live : \E r \in Rows : h \in InUse(r)

\* refCount counts every component in use, also those that lost their place.
CountsAgree ==
    \A r \in Rows :
        /\ IsFiniteSet(InUse(r))
        /\ Cardinality(InUse(r)) <= BuiltTable[r].maxinstances
        /\ refCount[r] # -1 => Cardinality(InUse(r)) <= refCount[r]

\* A node in use owns the component in its variable, and its plugin exists; no
\* component belongs to anybody else; count is the number of plugins, so that
\* TIOMX_Init resets the table only when no component is in use.
NodesAgree ==
    /\ \A n \in Nodes : pc[n] \in {"idle", "using"}
    /\ \A n \in Nodes : pc[n] = "idle" => pOMXHandle[n] = NULL
    /\ \A n \in Nodes : pc[n] = "using" => /\ pOMXHandle[n] \in Handles
                                           /\ owner[pOMXHandle[n]] = n
                                           /\ PluginOf[n] \in up
    /\ \A h \in Live : pc[owner[h]] = "using" /\ pOMXHandle[owner[h]] = h

Agreed ==
    /\ CoreTypeOK /\ ClientTypeOK
    /\ SlotsAgree /\ TableAgrees /\ CountsAgree /\ NodesAgree
    /\ count = Cardinality(up)

\* A name has one row at most, so a component in use is of one kind.
LEMMA OneRow ==
    /\ \A r, s \in Rows : BuiltTable[r].name = BuiltTable[s].name => r = s
    /\ \A r, s \in Rows : \A h \in InUse(r) : h \in InUse(s) => r = s
<1>1. \A r, s \in Rows : BuiltTable[r].name = BuiltTable[s].name => r = s
      BY TableWellFormed DEF WellFormed, Rows
<1> QED BY <1>1 DEF InUse

\* What Places means.
LEMMA PlacesFound ==
    ASSUME NEW h
    PROVE  \A q : q \in Places(h) <=> \E r \in Rows : \E k \in Listed(r) :
                                          q = <<r, k>> /\ pHandle[r][k] = h
<1>1. ASSUME NEW q, q \in Places(h)
      PROVE  \E r \in Rows : \E k \in Listed(r) : q = <<r, k>> /\ pHandle[r][k] = h
  <2>1. PICK r \in Rows : q \in {r} \X Listed(r)
        BY <1>1 DEF Places
  <2>2. PICK k \in Listed(r) : q = <<r, k>>
        BY <2>1
  <2> QED BY <1>1, <2>2 DEF Places
<1>2. ASSUME NEW r \in Rows, NEW k \in Listed(r), pHandle[r][k] = h
      PROVE  <<r, k>> \in Places(h)
      BY <1>2 DEF Places
<1> QED BY <1>1, <1>2

\* A component in use has one place, in the row of its kind, if any.
LEMMA PlaceOfLive ==
    ASSUME Agreed, NEW h \in Live, NEW q \in Places(h), NEW r \in Rows, h \in InUse(r)
    PROVE  \E k \in Listed(r) : pHandle[r][k] = h /\ q = <<r, k>> /\ Places(h) = {<<r, k>>}
<1>0. h # NULL
      BY CoreAssumption DEF Live
<1>1. ASSUME NEW p \in Places(h)
      PROVE  \E k \in Listed(r) : pHandle[r][k] = h /\ p = <<r, k>>
  <2>1. PICK s \in Rows : \E k \in Listed(s) : p = <<s, k>> /\ pHandle[s][k] = h
        BY PlacesFound
  <2>2. PICK k \in Listed(s) : p = <<s, k>> /\ pHandle[s][k] = h
        BY <2>1
  <2>3. h \in InUse(s)
        BY <1>0, <2>2 DEF Agreed, TableAgrees
  <2>4. s = r
        BY <2>3, OneRow
  <2> QED BY <2>2, <2>4
<1>2. PICK k \in Listed(r) : pHandle[r][k] = h /\ q = <<r, k>>
      BY <1>1
<1>3. ASSUME NEW p \in Places(h) PROVE p = <<r, k>>
  <2>1. PICK m \in Listed(r) : pHandle[r][m] = h /\ p = <<r, m>>
        BY <1>1
  <2>2. m = k
        BY <1>0, <1>2, <2>1 DEF Agreed, TableAgrees
  <2> QED BY <2>1, <2>2
<1> QED BY <1>2, <1>3

\* The agreement is what the invariants say.
LEMMA AgreementSuffices == Agreed => LiveFreeable /\ NothingLeaks /\ InstancesLimited
<1> SUFFICES ASSUME Agreed PROVE LiveFreeable /\ NothingLeaks /\ InstancesLimited
    OBVIOUS
<1>1. NothingLeaks
      BY DEF Agreed, SlotsAgree, TableAgrees, NothingLeaks
<1>2. InstancesLimited
      BY DEF Agreed, CountsAgree, InstancesLimited
<1>3. ASSUME NEW h \in Live
      PROVE  /\ h \in heap
             /\ \E i \in Slots : \A j \in Slots : pComponents[j] = h <=> j = i
             /\ \A p, q \in Places(h) : p = q
  <2>1. h # NULL
        BY CoreAssumption DEF Live
  <2>2. h \in heap
        BY DEF Agreed, SlotsAgree
  <2>3. \E i \in Slots : \A j \in Slots : pComponents[j] = h <=> j = i
        BY <2>1, <2>2 DEF Agreed, SlotsAgree
  <2>4. PICK r \in Rows : h \in InUse(r)
        BY DEF Agreed, TableAgrees
  <2>5. \A p, q \in Places(h) : p = q
        BY <2>4, PlaceOfLive
  <2> QED BY <2>2, <2>3, <2>5
<1>4. ASSUME NEW r \in Rows \ torn, NEW h \in InUse(r) PROVE Places(h) # {}
  <2>1. PICK k \in Listed(r) : pHandle[r][k] = h
        BY DEF Agreed, TableAgrees
  <2> QED BY <2>1, PlacesFound
<1> QED BY <1>1, <1>2, <1>3, <1>4 DEF LiveFreeable

\* What the loop of TIOMX_FreeHandle makes of a row.  Each element that is left is
\* one of the others, and none is there twice; none is lost if the freed one was
\* the last or the last but one.
LEMMA RemoveHandleMoves ==
    ASSUME CoreTypeOK, NEW r \in Rows, NEW k \in Listed(r), RemoveHandle(r, k)
    PROVE  /\ \A s \in Rows \ {r} : pHandle'[s] = pHandle[s] /\ refCount'[s] = refCount[s]
           /\ refCount'[r] \in {-1, refCount[r] - 1}
           /\ \E from \in [Indices -> Int] :
                 /\ \A j \in 0..(refCount'[r] - 1) :
                       \/ pHandle'[r][j] = NULL
                       \/ /\ from[j] \in Listed(r) \ {k}
                          /\ pHandle'[r][j] = pHandle[r][from[j]]
                 /\ \A i, j \in 0..(refCount'[r] - 1) :
                       /\ pHandle'[r][i] # NULL /\ pHandle'[r][j] # NULL
                       /\ from[i] = from[j]
                       => i = j
           /\ k >= refCount[r] - 2 =>
                 \A m \in Listed(r) \ {k} :
                    \E j \in 0..(refCount'[r] - 1) : pHandle'[r][j] = pHandle[r][m]
           /\ k >= refCount[r] - 2 =>
                 \A j \in 0..(refCount'[r] - 1) :
                    \E m \in Listed(r) \ {k} : pHandle'[r][j] = pHandle[r][m]
<1> DEFINE n == refCount[r]
<1>0. /\ n \in Int /\ n <= MAX_CONCURRENT_INSTANCES /\ MAX_CONCURRENT_INSTANCES \in Nat
      /\ k \in Int /\ 0 <= k /\ k < n
      /\ \A j \in Int : j \in Listed(r) <=> 0 <= j /\ j < n
      /\ \A j \in Int : j \in Indices <=> 0 <= j /\ j < MAX_CONCURRENT_INSTANCES
      BY LimitIsNumber DEF CoreTypeOK, Listed, Indices
<1>1. CASE k < n - 1
  <2>1. PICK moved \in SUBSET (k..(n - 1)) :
           /\ Skipping(r, k, moved)
           /\ pHandle' = [pHandle EXCEPT ![r] = [j \in Indices |->
                  IF j \in moved THEN Behind(r, j)
                  ELSE IF j - 1 \in moved THEN NULL ELSE pHandle[r][j]]]
           /\ \/ refCount' = [refCount EXCEPT ![r] = @ - 1]
              \/ /\ MAX_CONCURRENT_INSTANCES - 1 \in moved
                 /\ refCount' = [refCount EXCEPT ![r] = -1]
        BY <1>1 DEF RemoveHandle, ShiftHandles
  <2>2. /\ \A s \in Rows \ {r} : pHandle'[s] = pHandle[s] /\ refCount'[s] = refCount[s]
        /\ \A j \in Indices : pHandle'[r][j] =
              IF j \in moved THEN Behind(r, j)
              ELSE IF j - 1 \in moved THEN NULL ELSE pHandle[r][j]
        /\ refCount'[r] = n - 1
           \/ (MAX_CONCURRENT_INSTANCES - 1 \in moved /\ refCount'[r] = -1)
        BY <2>1 DEF CoreTypeOK
  <2>3. /\ \A j \in moved : j \in Int /\ k <= j /\ j < n
        /\ k \in moved
        /\ \A j \in (k + 1)..(n - 1) : j \in moved => j - 1 \notin moved
        BY <1>0, <2>1 DEF Skipping
  <2> HIDE DEF n
  <2>4. refCount'[r] \in {-1, n - 1}
        BY <2>2
  <2>5. ASSUME NEW j \in 0..(refCount'[r] - 1)
        PROVE  j \in Int /\ 0 <= j /\ j < n - 1 /\ j \in Indices /\ j + 1 \in Indices
        BY <1>0, <2>4
  <2> DEFINE from == [j \in Indices |-> IF j \in moved THEN j + 1 ELSE j]
  <2>6. \A j \in Indices : j \in Int /\ from[j] = IF j \in moved THEN j + 1 ELSE j
        BY DEF Indices
  <2>7. from \in [Indices -> Int]
        BY <2>6
  <2> HIDE DEF from
  <2>8. ASSUME NEW j \in 0..(refCount'[r] - 1), pHandle'[r][j] # NULL
        PROVE  /\ from[j] \in Listed(r) \ {k}
               /\ pHandle'[r][j] = pHandle[r][from[j]]
               /\ j \in moved \/ j - 1 \notin moved
    <3>1. CASE j \in moved
      <4>1. pHandle'[r][j] = pHandle[r][j + 1] /\ from[j] = j + 1
            BY <2>2, <2>5, <2>6, <3>1 DEF Behind
      <4>2. j + 1 \in Listed(r) /\ j + 1 # k
            BY <1>0, <2>3, <2>5, <3>1
      <4> QED BY <3>1, <4>1, <4>2
    <3>2. CASE j \notin moved
      <4>1. j - 1 \notin moved /\ pHandle'[r][j] = pHandle[r][j] /\ from[j] = j
            BY <2>2, <2>5, <2>6, <2>8, <3>2
      <4>2. j \in Listed(r) /\ j # k
            BY <1>0, <2>3, <2>5, <3>2
      <4> QED BY <4>1, <4>2
    <3> QED BY <3>1, <3>2
  <2>9. ASSUME NEW i \in 0..(refCount'[r] - 1), NEW j \in 0..(refCount'[r] - 1),
               pHandle'[r][i] # NULL, pHandle'[r][j] # NULL, from[i] = from[j]
        PROVE  i = j
    <3>1. /\ i \in moved \/ i - 1 \notin moved
          /\ j \in moved \/ j - 1 \notin moved
          BY <2>8, <2>9
    <3>2. /\ from[i] = IF i \in moved THEN i + 1 ELSE i
          /\ from[j] = IF j \in moved THEN j + 1 ELSE j
          /\ i \in Int /\ j \in Int
          BY <2>5, <2>6
    <3>0. i \in Int /\ j \in Int
          BY <2>5
    <3> DEFINE fi == from[i]
               fj == from[j]
    <3>3. fi = fj
          BY <2>9
    <3> HIDE DEF fi, fj
    <3>4. CASE i \in moved /\ j \in moved
      <4>1. fi = i + 1 /\ fj = j + 1
            BY <3>2, <3>4 DEF fi, fj
      <4>2. i + 1 = j + 1
            BY <3>3, <4>1
      <4> QED BY <3>0, <4>2
    <3>5. CASE i \notin moved /\ j \notin moved
      <4>1. fi = i /\ fj = j
            BY <3>2, <3>5 DEF fi, fj
      <4> QED BY <3>3, <4>1
    <3>6. CASE i \in moved /\ j \notin moved
      <4>1. fi = i + 1 /\ fj = j
            BY <3>2, <3>6 DEF fi, fj
      <4>2. i + 1 = j
            BY <3>3, <4>1
      <4>3. j - 1 = i
            BY <3>0, <4>2
      <4> QED BY <3>1, <3>6, <4>3
    <3>7. CASE j \in moved /\ i \notin moved
      <4>1. fi = i /\ fj = j + 1
            BY <3>2, <3>7 DEF fi, fj
      <4>2. i = j + 1
            BY <3>3, <4>1
      <4>3. i - 1 = j
            BY <3>0, <4>2
      <4> QED BY <3>1, <3>7, <4>3
    <3> QED BY <3>4, <3>5, <3>6, <3>7
  <2>10. ASSUME k >= n - 2
         PROVE  moved = {k} /\ k = n - 2 /\ refCount'[r] = n - 1
    <3>1. k = n - 2
          BY <1>0, <1>1, <2>10 DEF n
    <3>2. n - 1 \notin moved
      <4>1. n - 1 \in (k + 1)..(n - 1) /\ (n - 1) - 1 = k
            BY <1>0, <3>1
      <4> QED BY <2>3, <4>1
    <3>3. moved = {k}
      <4>1. \A j \in moved : j \in Int /\ k <= j /\ j < k + 2 /\ j # k + 1
            BY <1>0, <2>3, <3>1, <3>2
      <4>2. \A j \in moved : j = k
            BY <1>0, <4>1
      <4> QED BY <2>3, <4>2
    <3> QED BY <1>0, <2>2, <3>1, <3>3
  <2>11. ASSUME k >= n - 2, NEW m \in Listed(r) \ {k}
         PROVE  \E j \in 0..(refCount'[r] - 1) : pHandle'[r][j] = pHandle[r][m]
    <3>0. m \in Int /\ 0 <= m /\ m < n
          BY <1>0 DEF Listed
    <3>1. moved = {k} /\ k = n - 2 /\ refCount'[r] = n - 1
          BY <2>10, <2>11
    <3>2. CASE m < k
      <4>1. m \in 0..(refCount'[r] - 1) /\ m \notin moved /\ m - 1 \notin moved
            BY <1>0, <3>0, <3>1, <3>2
      <4> QED BY <2>2, <2>5, <4>1
    <3>3. CASE m = k + 1
      <4>1. k \in 0..(refCount'[r] - 1) /\ k \in moved
            BY <1>0, <3>1
      <4>2. pHandle'[r][k] = pHandle[r][k + 1]
            BY <2>2, <2>5, <4>1 DEF Behind
      <4> QED BY <3>3, <4>1, <4>2
    <3> QED BY <1>0, <3>0, <3>1, <3>2, <3>3
  <2>12. ASSUME k >= n - 2, NEW j \in 0..(refCount'[r] - 1)
         PROVE  \E m \in Listed(r) \ {k} : pHandle'[r][j] = pHandle[r][m]
    <3>1. moved = {k} /\ k = n - 2 /\ refCount'[r] = n - 1
          BY <2>10, <2>12
    <3>2. CASE j = k
      <4>1. k + 1 \in Listed(r) \ {k} /\ pHandle'[r][k] = pHandle[r][k + 1]
            BY <1>0, <2>2, <2>5, <3>1, <3>2 DEF Behind
      <4> QED BY <3>2, <4>1
    <3>3. CASE j # k
      <4>1. j \in Listed(r) \ {k} /\ j \notin moved /\ j - 1 \notin moved
            BY <1>0, <2>5, <3>1, <3>3
      <4> QED BY <2>2, <2>5, <4>1
    <3> QED BY <3>2, <3>3
  <2> QED BY <2>2, <2>4, <2>7, <2>8, <2>9, <2>11, <2>12 DEF n
<1>2. CASE k = n - 1
  <2>1. /\ \A s \in Rows \ {r} : pHandle'[s] = pHandle[s] /\ refCount'[s] = refCount[s]
        /\ \A j \in Indices \ {k} : pHandle'[r][j] = pHandle[r][j]
        /\ refCount'[r] = n - 1
        BY <1>0, <1>2 DEF RemoveHandle, ClearLast, CoreTypeOK
  <2> HIDE DEF n
  <2>2. ASSUME NEW j \in 0..(refCount'[r] - 1)
        PROVE  j \in Listed(r) \ {k} /\ pHandle'[r][j] = pHandle[r][j] /\ j \in Indices
        BY <1>0, <1>2, <2>1
  <2>3. ASSUME NEW m \in Listed(r) \ {k} PROVE m \in 0..(refCount'[r] - 1)
        BY <1>0, <1>2, <2>1 DEF Listed, n
  <2> DEFINE from == [j \in Indices |-> j]
  <2>4. from \in [Indices -> Int] /\ \A j \in Indices : from[j] = j
        BY DEF Indices
  <2> HIDE DEF from
  <2> QED BY <2>1, <2>2, <2>3, <2>4 DEF n
<1> QED BY <1>0, <1>1, <1>2

\* A component is loaded into an empty slot at an address nobody has.
LEMMA ObtainedAgrees ==
    ASSUME Agreed, CoreTypeOK', ClientTypeOK', NEW n \in Nodes,
           pc[n] = "idle", PluginOf[n] \in up, Obtained(n), Goto(n, "using")
    PROVE  Agreed'
<1>0. n \in Clients /\ n # NULL /\ NameOf[n] # NULL
      BY ClientsAssumption DEF Clients
<1>1. PICK h \in Handles :
           /\ GetHandleSucceeds(NameOf[n], h)
           /\ pOMXHandle' = [pOMXHandle EXCEPT ![n] = h]
           /\ owner' = [owner EXCEPT ![h] = n]
           /\ UNCHANGED <<up, torn>>
      BY DEF Obtained
<1>2. PICK i \in Slots, r \in Rows :
           /\ FirstEmpty(i) /\ r \in RowOf(NameOf[n]) /\ ~ LimitReached(r)
           /\ h \in Handles \ heap
           /\ heap' = heap \cup {h}
           /\ pModules' = [pModules EXCEPT ![i] = NameOf[n]]
           /\ pComponents' = [pComponents EXCEPT ![i] = h]
           /\ pHandle' = [pHandle EXCEPT ![r][refCount[r]] = h]
           /\ refCount' = [refCount EXCEPT ![r] = @ + 1]
           /\ UNCHANGED <<count, tableBuilt>>
      BY <1>1 DEF GetHandleSucceeds, Loadable
<1>3. h # NULL /\ h \notin Live
      BY <1>2, CoreAssumption DEF Agreed, SlotsAgree
<1>4. pModules[i] = NULL /\ pComponents[i] = NULL
      BY <1>2 DEF FirstEmpty, Agreed, SlotsAgree
<1>5. /\ Live' = Live \cup {h}
      /\ owner'[h] = n /\ \A g \in Live : g # h /\ owner'[g] = owner[g]
      BY <1>0, <1>1, <1>3 DEF Live, Agreed, ClientTypeOK
<1>6. BuiltTable[r].name = NameOf[n] /\ refCount[r] \in Int /\ 0 <= refCount[r]
      /\ refCount[r] < BuiltTable[r].maxinstances
      /\ BuiltTable[r].maxinstances \in Int /\ refCount[r] \in Indices
      BY <1>2, LimitIsNumber
         DEF RowOf, RowsNamed, LimitReached, Agreed, CoreTypeOK, Indices
<1>7. /\ InUse(r)' = InUse(r) \cup {h}
      /\ \A s \in Rows \ {r} : InUse(s)' = InUse(s)
      /\ \A s \in Rows : h \notin InUse(s)
  <2>1. \A s \in Rows \ {r} : BuiltTable[s].name # NameOf[n]
        BY <1>6, OneRow
  <2> QED BY <1>3, <1>5, <1>6, <2>1 DEF InUse
<1>8. SlotsAgree'
  <2>1. /\ pComponents'[i] = h /\ pModules'[i] = NameOf[n]
        /\ \A j \in Slots : j # i => /\ pComponents'[j] = pComponents[j]
                                    /\ pModules'[j] = pModules[j]
        BY <1>2 DEF Agreed, CoreTypeOK
  <2>2. \A j \in Slots : pComponents[j] # h
        BY <1>2, <1>3 DEF Agreed, SlotsAgree
  <2>3. \A g \in heap' : \E j \in Slots : pComponents'[j] = g
    <3>1. ASSUME NEW g \in heap PROVE \E j \in Slots : pComponents'[j] = g
      <4>1. PICK j \in Slots : pComponents[j] = g
            BY DEF Agreed, SlotsAgree
      <4>2. j # i
            BY <4>1, <1>4, CoreAssumption DEF Agreed, CoreTypeOK
      <4> QED BY <2>1, <4>1, <4>2
    <3>2. \E j \in Slots : pComponents'[j] = h
          BY <2>1
    <3> QED BY <1>2, <3>1, <3>2
  <2>4. \A j \in Slots : /\ pComponents'[j] # NULL => pComponents'[j] \in heap'
                         /\ pModules'[j] = NULL <=> pComponents'[j] = NULL
        BY <1>0, <1>2, <1>3, <2>1 DEF Agreed, SlotsAgree
  <2>5. ASSUME NEW j \in Slots, NEW k \in Slots,
               pComponents'[j] = pComponents'[k], pComponents'[j] # NULL
        PROVE  j = k
    <3>1. CASE j = i \/ k = i
          BY <2>1, <2>2, <2>5, <3>1
    <3>2. CASE j # i /\ k # i
          BY <2>1, <2>5, <3>2 DEF Agreed, SlotsAgree
    <3> QED BY <3>1, <3>2
  <2>6. Live' \subseteq heap'
        BY <1>2, <1>5 DEF Agreed, SlotsAgree
  <2>7. ASSUME NEW j \in Slots
        PROVE  IF pComponents'[j] \in Live'
               THEN pModules'[j] = NameOf[owner'[pComponents'[j]]]
               ELSE pComponents'[j] = NULL \/ RowOf(pModules'[j]) \cap torn' # {}
    <3>1. CASE j = i
          BY <1>5, <2>1, <3>1
    <3>2. CASE j # i
      <4>1. pComponents'[j] \in Live' <=> pComponents[j] \in Live
            BY <1>5, <2>1, <2>2, <3>2
      <4> QED BY <1>1, <1>5, <2>1, <3>2, <4>1 DEF Agreed, SlotsAgree
    <3> QED BY <3>1, <3>2
  <2>8. \A j \in Slots : (RowOf(pModules[j]))' = RowOf(pModules'[j])
        BY DEF RowOf, RowsNamed
  <2> QED BY <2>3, <2>4, <2>5, <2>6, <2>7 DEF SlotsAgree
<1>9. TableAgrees'
  <2> DEFINE n0 == refCount[r]
  <2>0. /\ n0 \in Int /\ 0 <= n0 /\ n0 \in Indices
        /\ \A k : k \in Listed(r)' <=> k \in Listed(r) \/ k = n0
        /\ n0 \notin Listed(r)
        /\ \A s \in Rows \ {r} : Listed(s)' = Listed(s)
        /\ \A s \in Rows : Listed(s) \subseteq Indices
    <3>1. refCount'[r] = n0 + 1 /\ \A s \in Rows \ {r} : refCount'[s] = refCount[s]
          BY <1>2 DEF Agreed, CoreTypeOK
    <3>2. n0 \in Int /\ 0 <= n0 /\ n0 \in Indices
          BY <1>6
    <3>3. \A k : k \in 0..((n0 + 1) - 1) <=> k \in 0..(n0 - 1) \/ k = n0
          BY <3>2
    <3>4. n0 \notin 0..(n0 - 1)
          BY <3>2
    <3>5. \A s \in Rows : Listed(s) \subseteq Indices
          BY LimitIsNumber DEF Agreed, CoreTypeOK, Listed, Indices
    <3> QED BY <3>1, <3>2, <3>3, <3>4, <3>5 DEF Listed
  <2>1. /\ \A s \in Rows \ {r} : pHandle'[s] = pHandle[s]
        /\ pHandle'[r][n0] = h
        /\ \A k \in Listed(r) : pHandle'[r][k] = pHandle[r][k]
        BY <1>2, <2>0 DEF Agreed, CoreTypeOK
  <2> HIDE DEF n0
  <2>2. ASSUME NEW s \in Rows, NEW k \in Listed(s)'
        PROVE  pHandle'[s][k] \in InUse(s)' \/ (s \in torn' /\ pHandle'[s][k] = NULL)
    <3>1. CASE s = r /\ k = n0
          BY <1>7, <2>1, <3>1
    <3>2. CASE ~ (s = r /\ k = n0)
      <4>1. k \in Listed(s) /\ pHandle'[s][k] = pHandle[s][k]
            BY <2>0, <2>1, <2>2, <3>2
      <4> QED BY <1>1, <1>7, <4>1 DEF Agreed, TableAgrees
    <3> QED BY <3>1, <3>2
  <2>3. ASSUME NEW s \in Rows, NEW k \in Listed(s)', NEW m \in Listed(s)',
               pHandle'[s][k] = pHandle'[s][m], pHandle'[s][k] # NULL
        PROVE  k = m
    <3>1. \A j \in Listed(s) : pHandle[s][j] # h
          BY <1>3, <1>7 DEF Agreed, TableAgrees
    <3>2. CASE s # r
          BY <2>0, <2>1, <2>3, <3>2 DEF Agreed, TableAgrees
    <3>3. CASE s = r
          BY <2>0, <2>1, <2>3, <3>1, <3>3 DEF Agreed, TableAgrees
    <3> QED BY <3>2, <3>3
  <2>4. ASSUME NEW s \in Rows \ torn', NEW g \in InUse(s)'
        PROVE  \E k \in Listed(s)' : pHandle'[s][k] = g
    <3>1. CASE s = r /\ g = h
          BY <2>0, <2>1, <3>1
    <3>2. CASE ~ (s = r /\ g = h)
      <4>1. g \in InUse(s)
            BY <1>7, <3>2
      <4>2. PICK k \in Listed(s) : pHandle[s][k] = g
            BY <1>1, <4>1 DEF Agreed, TableAgrees
      <4> QED BY <2>0, <2>1, <4>2
    <3> QED BY <3>1, <3>2
  <2>5. ASSUME NEW g \in Live' PROVE \E s \in Rows : g \in InUse(s)'
        BY <1>5, <1>7 DEF Agreed, TableAgrees
  <2> QED BY <2>2, <2>3, <2>4, <2>5 DEF TableAgrees
<1>10. CountsAgree'
  <2>1. IsFiniteSet(InUse(r)) /\ Cardinality(InUse(r)) \in Nat
        BY FS_CardinalityType DEF Agreed, CountsAgree
  <2>2. IsFiniteSet(InUse(r)') /\ Cardinality(InUse(r)') = Cardinality(InUse(r)) + 1
        BY <1>7, <2>1, FS_AddElement
  <2>3. Cardinality(InUse(r)) <= refCount[r]
        BY <1>6 DEF Agreed, CountsAgree
  <2>4. refCount'[r] = refCount[r] + 1 /\ \A s \in Rows \ {r} : refCount'[s] = refCount[s]
        BY <1>2 DEF Agreed, CoreTypeOK
  <2>5. ASSUME NEW s \in Rows
        PROVE  /\ IsFiniteSet(InUse(s)')
               /\ Cardinality(InUse(s)') <= BuiltTable[s].maxinstances
               /\ refCount'[s] # -1 => Cardinality(InUse(s)') <= refCount'[s]
    <3>1. CASE s = r
      <4>1. Cardinality(InUse(r)) + 1 <= BuiltTable[r].maxinstances
            /\ Cardinality(InUse(r)) + 1 <= refCount[r] + 1
            BY <1>6, <2>1, <2>3
      <4> QED BY <2>2, <2>4, <3>1, <4>1
    <3>2. CASE s # r
          BY <1>7, <2>4, <3>2 DEF Agreed, CountsAgree
    <3> QED BY <3>1, <3>2
  <2> QED BY <2>5 DEF CountsAgree
<1>11. NodesAgree'
  <2>1. /\ pc'[n] = "using" /\ pOMXHandle'[n] = h /\ owner'[h] = n
        /\ \A m \in Clients \ {n} : pc'[m] = pc[m] /\ pOMXHandle'[m] = pOMXHandle[m]
        /\ \A g \in Handles \ {h} : owner'[g] = owner[g]
        BY <1>0, <1>1 DEF Agreed, ClientTypeOK, Goto
  <2>2. \A g \in Live : owner[g] \in Clients \ {n} /\ g \in Handles \ {h}
        BY <1>3 DEF Agreed, ClientTypeOK, NodesAgree, Live
  <2>3. \A g \in Live' : pc'[owner'[g]] = "using" /\ pOMXHandle'[owner'[g]] = g
        BY <1>5, <2>1, <2>2 DEF Agreed, NodesAgree
  <2>4. ASSUME NEW m \in Nodes, m # n, pc'[m] = "using"
        PROVE  /\ pOMXHandle'[m] \in Handles /\ owner'[pOMXHandle'[m]] = m
               /\ PluginOf[m] \in up'
    <3>1. m \in Clients \ {n}
          BY <2>4 DEF Clients
    <3>2. pc[m] = "using" /\ pOMXHandle[m] \in Handles /\ owner[pOMXHandle[m]] = m
          BY <2>1, <2>4, <3>1 DEF Agreed, NodesAgree
    <3>3. pOMXHandle[m] # h
          BY <1>3, <3>1, <3>2, ClientsAssumption DEF Live
    <3> QED BY <1>1, <2>1, <3>1, <3>2, <3>3 DEF Agreed, NodesAgree
  <2>5. \A m \in Nodes : /\ pc'[m] \in {"idle", "using"}
                         /\ pc'[m] = "idle" => pOMXHandle'[m] = NULL
        BY <2>1 DEF Agreed, NodesAgree, Clients
  <2> QED BY <1>1, <2>1, <2>3, <2>4, <2>5 DEF NodesAgree
<1> QED BY <1>1, <1>2, <1>8, <1>9, <1>10, <1>11 DEF Agreed

\* A component goes: what that does to the sets of components and to the nodes.
LEMMA GoneAgrees ==
    ASSUME Agreed, ClientTypeOK', NEW n \in Nodes, Encoders = {}, ~ UnsetVariables,
           pc[n] = "using", Released(n), Goto(n, "idle")
    PROVE  LET h == pOMXHandle[n]
           IN  /\ h \in Live /\ h \in Handles /\ h # NULL /\ owner[h] = n
               /\ Live' = Live \ {h}
               /\ \A g \in Live \ {h} : owner'[g] = owner[g]
               /\ \A r \in Rows : InUse(r)' = InUse(r) \ {h}
               /\ NodesAgree'
               /\ UNCHANGED up
<1> DEFINE h == pOMXHandle[n]
<1>0. n \in Clients /\ n # NULL
      BY ClientsAssumption DEF Clients
<1>1. h \in Handles /\ owner[h] = n /\ h \in Live /\ h # NULL
      BY <1>0, CoreAssumption DEF Agreed, NodesAgree, Live
<1>2. ~ Keeps(n)
      BY DEF Keeps
<1>3. /\ owner' = [owner EXCEPT ![h] = NULL]
      /\ pOMXHandle' = [pOMXHandle EXCEPT ![n] = NULL]
      /\ UNCHANGED up
      BY <1>2 DEF Released
<1> HIDE DEF h
<1>4. Live' = Live \ {h} /\ \A g \in Live \ {h} : owner'[g] = owner[g]
      BY <1>1, <1>3 DEF Live, Agreed, ClientTypeOK
<1>5. \A r \in Rows : InUse(r)' = InUse(r) \ {h}
      BY <1>4 DEF InUse
<1>6. NodesAgree'
  <2>1. /\ pc'[n] = "idle" /\ pOMXHandle'[n] = NULL
        /\ \A m \in Clients \ {n} : pc'[m] = pc[m] /\ pOMXHandle'[m] = pOMXHandle[m]
        /\ \A g \in Handles \ {h} : owner'[g] = owner[g]
        BY <1>0, <1>3 DEF Agreed, ClientTypeOK, Goto
  <2>2. \A g \in Live \ {h} : owner[g] \in Clients \ {n} /\ g \in Handles \ {h}
        BY DEF Agreed, ClientTypeOK, NodesAgree, Live, h
  <2>3. \A g \in Live' : pc'[owner'[g]] = "using" /\ pOMXHandle'[owner'[g]] = g
        BY <1>4, <2>1, <2>2 DEF Agreed, NodesAgree
  <2>4. ASSUME NEW m \in Nodes, m # n
        PROVE  /\ pc'[m] \in {"idle", "using"}
               /\ pc'[m] = "idle" => pOMXHandle'[m] = NULL
               /\ pc'[m] = "using" => /\ pOMXHandle'[m] \in Handles
                                      /\ owner'[pOMXHandle'[m]] = m
                                      /\ PluginOf[m] \in up'
    <3>1. m \in Clients \ {n}
          BY <2>4 DEF Clients
    <3>2. pc[m] = "using" => pOMXHandle[m] # h
          BY <1>1, <2>4 DEF Agreed, NodesAgree
    <3> QED BY <1>3, <2>1, <3>1, <3>2 DEF Agreed, NodesAgree
  <2> QED BY <2>1, <2>3, <2>4 DEF NodesAgree
<1> QED BY <1>1, <1>3, <1>4, <1>5, <1>6 DEF h

\* The counts keep up when refCount falls by one with a component that goes.
LEMMA GoneCounts ==
    ASSUME Agreed, NEW h \in Live, \A r \in Rows : InUse(r)' = InUse(r) \ {h},
           \A r \in Rows : \/ refCount'[r] = refCount[r] \/ refCount'[r] = -1
                           \/ /\ h \in InUse(r) /\ refCount[r] # -1
                              /\ refCount'[r] = refCount[r] - 1
    PROVE  CountsAgree'
<1> SUFFICES ASSUME NEW r \in Rows
             PROVE  /\ IsFiniteSet(InUse(r)')
                    /\ Cardinality(InUse(r)') <= BuiltTable[r].maxinstances
                    /\ refCount'[r] # -1 => Cardinality(InUse(r)') <= refCount'[r]
    BY DEF CountsAgree
<1>1. IsFiniteSet(InUse(r)) /\ Cardinality(InUse(r)) \in Nat
      BY FS_CardinalityType DEF Agreed, CountsAgree
<1>2. refCount[r] \in Int /\ BuiltTable[r].maxinstances \in Int
      BY LimitIsNumber DEF Agreed, CoreTypeOK
<1>3. /\ Cardinality(InUse(r)) <= BuiltTable[r].maxinstances
      /\ refCount[r] # -1 => Cardinality(InUse(r)) <= refCount[r]
      BY DEF Agreed, CountsAgree
<1>4. CASE h \in InUse(r)
  <2>1. IsFiniteSet(InUse(r)') /\ Cardinality(InUse(r)') = Cardinality(InUse(r)) - 1
        BY <1>1, <1>4, FS_RemoveElement
  <2>2. Cardinality(InUse(r)) # 0
        BY <1>1, <1>4, FS_EmptySet
  <2> DEFINE c == Cardinality(InUse(r))
             c1 == Cardinality(InUse(r)')
             m == BuiltTable[r].maxinstances
  <2>3. c1 = c - 1 /\ c \in Nat /\ c # 0 /\ m \in Int /\ c <= m
        /\ (refCount[r] # -1 => c <= refCount[r])
        BY <1>1, <1>2, <1>3, <2>1, <2>2
  <2> HIDE DEF c, c1, m
  <2>4. c1 <= m
        BY <2>3
  <2>5. CASE refCount'[r] = refCount[r]
    <3>1. refCount'[r] # -1 => c1 <= refCount'[r]
          BY <1>2, <2>3, <2>5
    <3> QED BY <2>1, <2>4, <3>1 DEF c1, m
  <2>6. CASE refCount'[r] = -1
        BY <2>1, <2>4, <2>6 DEF c1, m
  <2>7. CASE refCount[r] # -1 /\ refCount'[r] = refCount[r] - 1
    <3>1. refCount[r] # -1 => c1 <= refCount'[r]
          BY <1>2, <2>3, <2>7
    <3> QED BY <2>1, <2>4, <2>7, <3>1 DEF c1, m
  <2> QED BY <2>5, <2>6, <2>7
<1>5. CASE h \notin InUse(r)
  <2>1. InUse(r)' = InUse(r)
        BY <1>5
  <2> QED BY <1>1, <1>3, <1>5, <2>1
<1> QED BY <1>4, <1>5

\* A component is freed from its slot and its place in the table.
LEMMA FreedAgrees ==
    ASSUME Agreed, CoreTypeOK', ClientTypeOK', NEW n \in Nodes,
           Encoders = {}, ~ UnsetVariables,
           pc[n] = "using", Released(n), FreeHandleSucceeds(pOMXHandle[n]),
           Goto(n, "idle")
    PROVE  Agreed'
<1> DEFINE h == pOMXHandle[n]
<1>1. /\ h \in Live /\ h \in Handles /\ h # NULL /\ owner[h] = n
      /\ Live' = Live \ {h}
      /\ \A g \in Live \ {h} : owner'[g] = owner[g]
      /\ \A s \in Rows : InUse(s)' = InUse(s) \ {h}
      /\ NodesAgree'
      /\ UNCHANGED up
      BY GoneAgrees
<1>2. FreeHandleSucceeds(h) /\ torn' = torn \cup TornBy(h)
      BY DEF Released
<1> HIDE DEF h
<1>3. PICK i \in SlotOf(h), r \in Rows : \E k \in Listed(r) :
           /\ FirstPlace(r, k, h)
           /\ RemoveHandle(r, k)
           /\ pModules' = [pModules EXCEPT ![i] = NULL]
           /\ pComponents' = [pComponents EXCEPT ![i] = NULL]
           /\ heap' = heap \ {h}
           /\ UNCHANGED <<count, tableBuilt>>
      BY <1>2 DEF FreeHandleSucceeds
<1>4. PICK k \in Listed(r) : FirstPlace(r, k, h) /\ RemoveHandle(r, k)
      BY <1>3
<1>5. i \in Slots /\ pComponents[i] = h
      BY DEF SlotOf
<1>6. pHandle[r][k] = h /\ h \in InUse(r)
  <2>1. pHandle[r][k] = h
        BY <1>4 DEF FirstPlace, Places
  <2> QED BY <1>1, <2>1 DEF Agreed, TableAgrees
<1>7. refCount[r] \in Int /\ k \in Int /\ 0 <= k /\ k < refCount[r]
      BY DEF Agreed, CoreTypeOK, Listed
<1>8. /\ \A s \in Rows \ {r} : pHandle'[s] = pHandle[s] /\ refCount'[s] = refCount[s]
      /\ refCount'[r] \in {-1, refCount[r] - 1}
      BY <1>4, RemoveHandleMoves DEF Agreed
<1>9. r \in torn' \/ (k >= refCount[r] - 2 /\ r \notin torn)
  <2>1. CASE k >= refCount[r] - 2
        BY <1>2, <2>1
  <2>2. CASE ~ (k >= refCount[r] - 2)
    <3>1. k \in 0..(refCount[r] - 3)
          BY <1>7, <2>2
    <3> QED BY <1>2, <1>4, <3>1 DEF TornBy
  <2> QED BY <2>1, <2>2
<1>10. SlotsAgree'
  <2>1. /\ pComponents'[i] = NULL /\ pModules'[i] = NULL
        /\ \A j \in Slots : j # i => /\ pComponents'[j] = pComponents[j]
                                    /\ pModules'[j] = pModules[j]
        BY <1>3, <1>5 DEF Agreed, CoreTypeOK
  <2>2. \A j \in Slots : j # i => pComponents[j] # h
        BY <1>1, <1>5 DEF Agreed, SlotsAgree
  <2>3. ASSUME NEW g \in heap' PROVE \E j \in Slots : pComponents'[j] = g
    <3>1. g \in heap /\ g # h
          BY <1>3
    <3>2. PICK j \in Slots : pComponents[j] = g
          BY <3>1 DEF Agreed, SlotsAgree
    <3> QED BY <1>5, <2>1, <3>1, <3>2
  <2>4. \A j \in Slots : /\ pComponents'[j] # NULL => pComponents'[j] \in heap'
                         /\ pModules'[j] = NULL <=> pComponents'[j] = NULL
        BY <1>3, <2>1, <2>2 DEF Agreed, SlotsAgree
  <2>5. \A j, m \in Slots :
           pComponents'[j] = pComponents'[m] /\ pComponents'[j] # NULL => j = m
        BY <2>1 DEF Agreed, SlotsAgree
  <2>6. Live' \subseteq heap'
        BY <1>1, <1>3 DEF Agreed, SlotsAgree
  <2>7. ASSUME NEW j \in Slots
        PROVE  IF pComponents'[j] \in Live'
               THEN pModules'[j] = NameOf[owner'[pComponents'[j]]]
               ELSE pComponents'[j] = NULL \/ RowOf(pModules'[j]) \cap torn' # {}
    <3>1. CASE j = i
          BY <1>1, <2>1, <3>1, CoreAssumption DEF Live
    <3>2. CASE j # i
      <4>1. /\ pComponents'[j] = pComponents[j] /\ pModules'[j] = pModules[j]
            /\ pComponents[j] # h
            BY <2>1, <2>2, <3>2
      <4>2. IF pComponents[j] \in Live
            THEN pModules[j] = NameOf[owner[pComponents[j]]]
            ELSE pComponents[j] = NULL \/ RowOf(pModules[j]) \cap torn # {}
            BY DEF Agreed, SlotsAgree
      <4> QED BY <1>1, <1>2, <4>1, <4>2
    <3> QED BY <3>1, <3>2
  <2> QED BY <2>3, <2>4, <2>5, <2>6, <2>7 DEF SlotsAgree
<1>11. TableAgrees'
  <2>1. PICK from \in [Indices -> Int] :
           /\ \A j \in 0..(refCount'[r] - 1) :
                 \/ pHandle'[r][j] = NULL
                 \/ /\ from[j] \in Listed(r) \ {k}
                    /\ pHandle'[r][j] = pHandle[r][from[j]]
           /\ \A a, b \in 0..(refCount'[r] - 1) :
                 /\ pHandle'[r][a] # NULL /\ pHandle'[r][b] # NULL
                 /\ from[a] = from[b]
                 => a = b
        BY <1>4, RemoveHandleMoves DEF Agreed
  <2>2. k >= refCount[r] - 2 =>
           /\ \A m \in Listed(r) \ {k} :
                 \E j \in 0..(refCount'[r] - 1) : pHandle'[r][j] = pHandle[r][m]
           /\ \A j \in 0..(refCount'[r] - 1) :
                 \E m \in Listed(r) \ {k} : pHandle'[r][j] = pHandle[r][m]
        BY <1>4, RemoveHandleMoves DEF Agreed
  <2>3. /\ Listed(r)' = 0..(refCount'[r] - 1)
        /\ \A s \in Rows \ {r} : Listed(s)' = Listed(s)
        BY <1>8 DEF Listed
  <2>4. \A m \in Listed(r) \ {k} : pHandle[r][m] # h
        BY <1>1, <1>6 DEF Agreed, TableAgrees
  <2>5. \A s \in Rows \ {r} : h \notin InUse(s)
        BY <1>6, OneRow
  <2>6. \A s \in Rows \ {r} : InUse(s)' = InUse(s)
        BY <1>1, <2>5
  <2>7. ASSUME NEW s \in Rows, NEW j \in Listed(s)'
        PROVE  pHandle'[s][j] \in InUse(s)' \/ (s \in torn' /\ pHandle'[s][j] = NULL)
    <3>1. CASE s # r
          BY <1>2, <1>8, <2>3, <2>6, <3>1 DEF Agreed, TableAgrees
    <3>2. CASE s = r /\ r \in torn'
      <4>1. CASE pHandle'[r][j] = NULL
            BY <3>2, <4>1
      <4>2. CASE pHandle'[r][j] # NULL
        <5>1. from[j] \in Listed(r) \ {k} /\ pHandle'[r][j] = pHandle[r][from[j]]
              BY <2>1, <2>3, <2>7, <3>2, <4>2
        <5>2. pHandle[r][from[j]] \in InUse(r) /\ pHandle[r][from[j]] # h
              BY <2>4, <4>2, <5>1 DEF Agreed, TableAgrees
        <5> QED BY <1>1, <3>2, <5>1, <5>2
      <4> QED BY <4>1, <4>2
    <3>3. CASE s = r /\ r \notin torn'
      <4>1. PICK m \in Listed(r) \ {k} : pHandle'[r][j] = pHandle[r][m]
            BY <1>9, <2>2, <2>3, <2>7, <3>3
      <4>2. pHandle[r][m] \in InUse(r) /\ pHandle[r][m] # h
            BY <1>2, <2>4, <3>3 DEF Agreed, TableAgrees
      <4> QED BY <1>1, <3>3, <4>1, <4>2
    <3> QED BY <3>1, <3>2, <3>3
  <2>8. ASSUME NEW s \in Rows, NEW a \in Listed(s)', NEW b \in Listed(s)',
               pHandle'[s][a] = pHandle'[s][b], pHandle'[s][a] # NULL
        PROVE  a = b
    <3>1. CASE s # r
          BY <1>8, <2>3, <2>8, <3>1 DEF Agreed, TableAgrees
    <3>2. CASE s = r
      <4>1. /\ from[a] \in Listed(r) /\ pHandle'[r][a] = pHandle[r][from[a]]
            /\ from[b] \in Listed(r) /\ pHandle'[r][b] = pHandle[r][from[b]]
            BY <2>1, <2>3, <2>8, <3>2
      <4>2. from[a] = from[b]
            BY <2>8, <3>2, <4>1 DEF Agreed, TableAgrees
      <4> QED BY <2>1, <2>3, <2>8, <3>2, <4>2
    <3> QED BY <3>1, <3>2
  <2>9. ASSUME NEW s \in Rows \ torn', NEW g \in InUse(s)'
        PROVE  \E j \in Listed(s)' : pHandle'[s][j] = g
    <3>0. g \in InUse(s) /\ g # h /\ s \notin torn
          BY <1>1, <1>2
    <3>1. PICK m \in Listed(s) : pHandle[s][m] = g
          BY <3>0 DEF Agreed, TableAgrees
    <3>2. CASE s # r
          BY <1>8, <2>3, <3>1, <3>2
    <3>3. CASE s = r
      <4>1. k >= refCount[r] - 2 /\ m # k
            BY <1>6, <1>9, <3>0, <3>1, <3>3
      <4> QED BY <2>2, <2>3, <3>1, <3>3, <4>1
    <3> QED BY <3>2, <3>3
  <2>10. ASSUME NEW g \in Live' PROVE \E s \in Rows : g \in InUse(s)'
        BY <1>1 DEF Agreed, TableAgrees
  <2> QED BY <2>7, <2>8, <2>9, <2>10 DEF TableAgrees
<1>12. CountsAgree'
  <2>1. refCount[r] # -1
        BY <1>7
  <2>2. \A s \in Rows : \/ refCount'[s] = refCount[s] \/ refCount'[s] = -1
                        \/ /\ h \in InUse(s) /\ refCount[s] # -1
                           /\ refCount'[s] = refCount[s] - 1
        BY <1>6, <1>8, <2>1
  <2> QED BY <1>1, <2>2, GoneCounts
<1> QED BY <1>1, <1>3, <1>10, <1>11, <1>12 DEF Agreed

\* A component that lost its place stays in its slot, and its row is torn.
LEMMA LostAgrees ==
    ASSUME Agreed, CoreTypeOK', ClientTypeOK', NEW n \in Nodes,
           Encoders = {}, ~ UnsetVariables,
           pc[n] = "using", Released(n), FreeHandleNotFound(pOMXHandle[n]),
           Goto(n, "idle")
    PROVE  Agreed'
<1> DEFINE h == pOMXHandle[n]
<1>1. /\ h \in Live /\ h \in Handles /\ h # NULL /\ owner[h] = n
      /\ Live' = Live \ {h}
      /\ \A g \in Live \ {h} : owner'[g] = owner[g]
      /\ \A s \in Rows : InUse(s)' = InUse(s) \ {h}
      /\ NodesAgree'
      /\ UNCHANGED up
      BY GoneAgrees
<1>2. /\ UNCHANGED <<count, tableBuilt, pModules, pComponents, pHandle, refCount, heap>>
      /\ Places(h) = {}
      BY DEF FreeHandleNotFound, coreVars
<1>3. torn' = torn
  <2>1. TornBy(h) = {}
        BY <1>2 DEF TornBy, FirstPlace
  <2> QED BY <2>1 DEF Released
<1> HIDE DEF h
<1>4. PICK r \in Rows : h \in InUse(r)
      BY <1>1 DEF Agreed, TableAgrees
<1>5. r \in torn
  <2> SUFFICES ASSUME r \notin torn PROVE FALSE
      OBVIOUS
  <2>1. PICK k \in Listed(r) : pHandle[r][k] = h
        BY <1>4 DEF Agreed, TableAgrees
  <2> QED BY <1>2, <2>1, PlacesFound
<1>6. ASSUME NEW s \in Rows, NEW k \in Listed(s) PROVE pHandle[s][k] # h
      BY <1>2, PlacesFound
<1>7. SlotsAgree'
  <2>1. ASSUME NEW j \in Slots
        PROVE  IF pComponents'[j] \in Live'
               THEN pModules'[j] = NameOf[owner'[pComponents'[j]]]
               ELSE pComponents'[j] = NULL \/ RowOf(pModules'[j]) \cap torn' # {}
    <3>1. CASE pComponents[j] = h
      <4>1. pModules[j] = NameOf[n]
            BY <1>1, <3>1 DEF Agreed, SlotsAgree
      <4>2. r \in RowOf(pModules[j])
            BY <1>1, <1>4, <4>1 DEF InUse, RowOf, RowsNamed, Rows
      <4> QED BY <1>1, <1>2, <1>3, <1>5, <3>1, <4>2
    <3>2. CASE pComponents[j] # h
          BY <1>1, <1>2, <1>3, <3>2 DEF Agreed, SlotsAgree
    <3> QED BY <3>1, <3>2
  <2>2. Live' \subseteq heap'
        BY <1>1, <1>2 DEF Agreed, SlotsAgree
  <2> QED BY <1>2, <2>1, <2>2 DEF Agreed, SlotsAgree
<1>8. TableAgrees'
  <2>1. \A s \in Rows : Listed(s)' = Listed(s)
        BY <1>2 DEF Listed
  <2>2. ASSUME NEW s \in Rows, NEW k \in Listed(s)
        PROVE  pHandle'[s][k] \in InUse(s)' \/ (s \in torn' /\ pHandle'[s][k] = NULL)
        BY <1>1, <1>2, <1>3, <1>6 DEF Agreed, TableAgrees
  <2>3. \A g \in Live' : \E s \in Rows : g \in InUse(s)'
        BY <1>1 DEF Agreed, TableAgrees
  <2>4. \A s \in Rows \ torn' : \A g \in InUse(s)' :
           \E k \in Listed(s)' : pHandle'[s][k] = g
        BY <1>1, <1>2, <1>3, <2>1 DEF Agreed, TableAgrees
  <2>5. \A s \in Rows : \A k, m \in Listed(s)' :
           pHandle'[s][k] = pHandle'[s][m] /\ pHandle'[s][k] # NULL => k = m
        BY <1>2, <2>1 DEF Agreed, TableAgrees
  <2> QED BY <2>1, <2>2, <2>3, <2>4, <2>5 DEF TableAgrees
<1>9. CountsAgree'
      BY <1>1, <1>2, GoneCounts
<1> QED BY <1>1, <1>2, <1>7, <1>8, <1>9 DEF Agreed

\* The constructor and the destructor of a plugin move count with up.
LEMMA PluginAgrees ==
    ASSUME Agreed, CoreTypeOK', ClientTypeOK', Encoders = {},
           NEW p \in Plugins, TIOMXPlugin(p) \/ DestroyPlugin(p)
    PROVE  Agreed'
<1>1. IsFiniteSet(up) /\ Cardinality(up) \in Nat
      BY ClientsAssumption, FS_Subset, FS_CardinalityType DEF Agreed, ClientTypeOK
<1>2. /\ UNCHANGED <<pc, pOMXHandle, owner, pModules, pComponents, heap, torn>>
      /\ Live' = Live
      BY DEF TIOMXPlugin, DestroyPlugin, InitCalled, TIOMX_Init, TIOMX_Deinit, Live
<1>3. SlotsAgree' /\ \A r \in Rows : InUse(r)' = InUse(r)
      BY <1>2 DEF Agreed, SlotsAgree, InUse
<1>4. CASE TIOMXPlugin(p)
  <2>1. p \notin up /\ up' = up \cup {p} /\ TIOMX_Init
        BY <1>4 DEF TIOMXPlugin, InitCalled
  <2>2. count' = Cardinality(up')
        BY <1>1, <2>1, FS_AddElement DEF TIOMX_Init, Agreed
  <2>3. NodesAgree'
        BY <1>2, <2>1 DEF Agreed, NodesAgree
  <2>4. CASE count # 0
    <3>1. UNCHANGED <<pHandle, refCount>>
          BY <2>1, <2>4 DEF TIOMX_Init
    <3>2. TableAgrees' /\ CountsAgree'
          BY <1>2, <1>3, <3>1 DEF Agreed, TableAgrees, CountsAgree, Listed
    <3> QED BY <1>3, <2>2, <2>3, <3>2 DEF Agreed
  <2>5. CASE count = 0
    <3>1. up = {}
          BY <1>1, <2>5, FS_EmptySet DEF Agreed
    <3>2. Live = {}
      <4> SUFFICES ASSUME NEW h \in Live PROVE FALSE
          OBVIOUS
      <4>1. owner[h] \in Nodes
            BY DEF Live, Agreed, ClientTypeOK, Clients
      <4> QED BY <3>1, <4>1 DEF Agreed, NodesAgree
    <3>3. \A r \in Rows : InUse(r)' = {} /\ InUse(r) = {}
          BY <1>3, <3>2 DEF InUse
    <3>4. \A r \in Rows : refCount'[r] = 0
          BY <2>1, <2>5 DEF TIOMX_Init, BuildComponentTable
    <3>5. \A r \in Rows : Listed(r)' = {}
          BY <3>4 DEF Listed
    <3>6. TableAgrees'
          BY <1>2, <3>2, <3>3, <3>5 DEF TableAgrees
    <3>7. CountsAgree'
          BY <3>3, <3>4, FS_EmptySet DEF Agreed, CountsAgree
    <3> QED BY <1>3, <2>2, <2>3, <3>6, <3>7 DEF Agreed
  <2> QED BY <2>4, <2>5
<1>5. CASE DestroyPlugin(p)
  <2>1. /\ p \in up /\ up' = up \ {p} /\ TIOMX_Deinit
        /\ \A n \in Nodes : PluginOf[n] = p => pc[n] = "idle"
        BY <1>5 DEF DestroyPlugin
  <2>2. Cardinality(up') = Cardinality(up) - 1 /\ Cardinality(up) # 0
        BY <1>1, <2>1, FS_RemoveElement, FS_EmptySet
  <2>3. count' = Cardinality(up')
        BY <1>1, <2>1, <2>2 DEF TIOMX_Deinit, Agreed
  <2>4. NodesAgree'
        BY <1>2, <2>1 DEF Agreed, NodesAgree
  <2>5. UNCHANGED <<pHandle, refCount>>
        BY <2>1 DEF TIOMX_Deinit
  <2>6. TableAgrees' /\ CountsAgree'
        BY <1>2, <1>3, <2>5 DEF Agreed, TableAgrees, CountsAgree, Listed
  <2> QED BY <1>3, <2>3, <2>4, <2>6 DEF Agreed
<1> QED BY <1>4, <1>5

\* A call that fails changes nothing the agreement is about: the memory that
\* CLEAN_UP frees is what the variable points to, and that of an idle node is NULL.
LEMMA FailureAgrees ==
    ASSUME Agreed, CoreTypeOK', ClientTypeOK', NEW n \in Nodes,
           Encoders = {}, UNCHANGED pc,
           (pc[n] = "idle" /\ NotObtained(n)) \/ NotReleased(n)
    PROVE  Agreed'
<1>0. n \in Clients
      BY DEF Clients
<1>1. pc[n] = "idle" => pOMXHandle[n] = NULL
      BY DEF Agreed, NodesAgree
<1>2. UNCHANGED <<up, owner, torn, count, pModules, pComponents, pHandle, refCount, heap>>
      BY ZenonT(40), <1>1, CoreAssumption
         DEF NotObtained, NotReleased, GetHandleRefused, DlopenFails, CleanUpEarly,
             CleanUp, FreeHandleUnknown, ComponentDeInitFails, coreVars, Agreed,
             CoreTypeOK
<1>3. \A m \in Nodes : /\ pc[m] = "using" => pOMXHandle'[m] = pOMXHandle[m]
                       /\ pc[m] = "idle" => pOMXHandle'[m] = NULL
      BY <1>0, <1>1 DEF NotObtained, NotReleased, Agreed, ClientTypeOK, NodesAgree, Clients
<1>4. Live' = Live /\ \A r \in Rows : InUse(r)' = InUse(r)
      BY <1>2 DEF Live, InUse
<1>5. NodesAgree'
  <2>1. \A h \in Live : owner[h] \in Nodes
        BY DEF Live, Agreed, ClientTypeOK, Clients
  <2> QED BY <1>2, <1>3, <1>4, <2>1 DEF Agreed, NodesAgree
<1>6. SlotsAgree'
      BY <1>2, <1>4 DEF Agreed, SlotsAgree
<1>7. TableAgrees' /\ CountsAgree'
      BY <1>2, <1>4 DEF Agreed, TableAgrees, CountsAgree, Listed
<1> QED BY <1>2, <1>5, <1>6, <1>7 DEF Agreed

\* The agreement is an invariant of a process with plugins alone.
LEMMA AgreementHolds ==
    ASSUME Encoders = {}, ~ UnsetVariables
    PROVE  Spec => []Agreed
<1>1. Init => Agreed
  <2> SUFFICES ASSUME Init PROVE Agreed
      OBVIOUS
  <2>1. CoreTypeOK /\ ClientTypeOK
        BY InitialOK
  <2>2. Live = {} /\ heap = {} /\ \A r \in Rows : InUse(r) = {}
        BY DEF Init, CoreInit, Live, InUse
  <2>3. \A r \in Rows : refCount[r] = 0
        BY DEF Init, CoreInit
  <2>4. \A r \in Rows : Listed(r) = {}
        BY <2>3 DEF Listed
  <2>5. SlotsAgree
        BY <2>2 DEF Init, CoreInit, SlotsAgree
  <2>6. TableAgrees
        BY <2>2, <2>4 DEF TableAgrees
  <2>7. CountsAgree
        BY <2>2, <2>3, FS_EmptySet, LimitIsNumber DEF CountsAgree
  <2>8. NodesAgree
        BY <2>2 DEF Init, NodesAgree, Clients
  <2>9. count = Cardinality(up)
        BY FS_EmptySet DEF Init, CoreInit
  <2> QED BY <2>1, <2>5, <2>6, <2>7, <2>8, <2>9 DEF Agreed
<1>2. Agreed /\ [Next]_vars => Agreed'
  <2> SUFFICES ASSUME Agreed, [Next]_vars PROVE Agreed'
      OBVIOUS
  <2>0. CoreTypeOK' /\ ClientTypeOK'
        BY StepOK DEF Agreed
  <2>1. ASSUME NEW p \in Plugins, TIOMXPlugin(p) \/ DestroyPlugin(p) PROVE Agreed'
        BY <2>0, <2>1, PluginAgrees
  <2>2. ASSUME NEW n \in Nodes, makeComponentInstance(n) PROVE Agreed'
        BY <2>0, <2>2, ObtainedAgrees, FailureAgrees DEF makeComponentInstance
  <2>3. ASSUME NEW n \in Nodes, destroyComponentInstance(n) PROVE Agreed'
    <3>1. CASE Released(n) /\ Goto(n, "idle")
          BY <2>0, <2>3, <3>1, FreedAgrees, LostAgrees
             DEF destroyComponentInstance, Released
    <3>2. CASE NotReleased(n) /\ UNCHANGED pc
          BY <2>0, <3>2, FailureAgrees
    <3> QED BY <2>3, <3>1, <3>2 DEF destroyComponentInstance
  <2>4. CASE UNCHANGED vars
    <3>1. /\ UNCHANGED <<count, pModules, pComponents, pHandle, refCount, heap>>
          /\ UNCHANGED <<up, pc, pOMXHandle, owner, torn>>
          BY <2>4 DEF vars, coreVars, clientVars
    <3>2. Live' = Live /\ \A r \in Rows : InUse(r)' = InUse(r) /\ Listed(r)' = Listed(r)
          BY <3>1 DEF Live, InUse, Listed
    <3>3. SlotsAgree' /\ NodesAgree'
          BY <3>1, <3>2 DEF Agreed, SlotsAgree, NodesAgree
    <3>4. TableAgrees' /\ CountsAgree'
          BY <3>1, <3>2 DEF Agreed, TableAgrees, CountsAgree
    <3> QED BY <2>0, <3>1, <3>3, <3>4 DEF Agreed
  <2> QED BY <2>1, <2>2, <2>3, <2>4, ClientSteps
<1> QED BY <1>1, <1>2, PTL DEF Spec

\* In a process with plugins alone, a component that TIOMX_GetHandle returned
\* keeps its memory and its one slot, and its place in the table unless two
\* instances or more were created after one that is freed: neither the reset of the
\* table by TIOMX_Init nor the reuse of slots and addresses loses one.
THEOREM LiveAreFreeable ==
    ASSUME Encoders = {}, ~ UnsetVariables
    PROVE  Spec => []LiveFreeable
BY AgreementHolds, AgreementSuffices, PTL

\* In such a process the core keeps no slot, no place in the table and no
\* memory of a component that was deinitialised, unless its row is torn.
THEOREM CoreKeepsNothing ==
    ASSUME Encoders = {}, ~ UnsetVariables
    PROVE  Spec => []NothingLeaks
BY AgreementHolds, AgreementSuffices, PTL

\* In such a process no kind has more instances in use than maxinstances, also after
\* the shift has lost some of them, or has set refCount to -1.
THEOREM LimitKept ==
    ASSUME Encoders = {}, ~ UnsetVariables
    PROVE  Spec => []InstancesLimited
BY AgreementHolds, AgreementSuffices, PTL
=============================================================================
