--------------------------- MODULE RMSystemProofs ---------------------------
(***************************************************************************)
(* Proofs about the resource manager, the policy manager and their clients *)
(* as one system, for every policy table, every set of components and      *)
(* processes and every bound.                                              *)
(***************************************************************************)
EXTENDS RMSystem, LoopLemmas, FiniteSetTheorems

-----------------------------------------------------------------------------
(* Types.                                                                  *)

CmdNames == {"RM_OpenPipe", "RM_ReusePipe", "RM_RequestResource", "RM_StateSet",
             "RM_FreeResource", "RM_FreeAndCloseResource", "RM_WaitForResource",
             "RM_CancelWaitForResource", "RM_ExitTI"}
Statuses == {"RM_ErrorNone", "RM_GRANT", "RM_DENY", "RM_PREEMPT", "RM_RESOURCEACQUIRED",
             "RM_RESOURCEFATALERROR"}
ListStatuses == {"unset", "RM_WaitingForClient", "RM_ComponentActive"}
Word  == 0..(Wrap - 1)
Cmd   == [RM_Cmd : CmdNames, inst : Inst, param1 : Components, param2 : Word,
          param4 : Handles \cup {NoInst}, rm_status : Statuses]
Rep   == [rm_status : Statuses, inst : Inst]
Entry == [inst : Inst, pipe : 1..MaxFds, state : Word, cpu : Word, status : ListStatuses]
PMCmd == [PM_Cmd : {"PM_RequestPolicy", "PM_FreePolicy", "PM_FreeResources"},
          inst : Inst, param1 : Components]
PMRsp == [PM_Cmd : {"PM_GRANTPOLICY", "PM_DENYPOLICY", "PM_PREEMPTED"}, inst : Inst]
Req   == [inst : Inst, param1 : Components]
Watch == [pc : {"reopen", "monitor", "loop", "write", "poll", "exit"}, i : Nat, faults : Nat]
States == InRequest \cup DOMAIN StateCode \cup {"Loaded", "Invalid"}

\* The list of components, the FIFOs, and the flags of the resource manager.
ListOK == componentList \in Seq(Entry) /\ N <= MaxComponents /\ RegisteredOnce
FifosOK ==
    /\ toRM \in Seq(Cmd)
    /\ rmPipe \in [Pids -> Seq(Rep)]
    /\ toPM \in Seq(PMCmd)
    /\ fromPM \in Seq(PMRsp)
    /\ pComponentList \in Seq(Inst)
ManagerOK ==
    /\ DOMAIN openPipes \subseteq 1..MaxFds
    /\ totalCpu \in [Types -> Word]
    /\ rmPc \in {"select", "remove", "qos"}
    /\ watch \in Watch /\ (watch.pc \in {"loop", "write"} => watch.i > 0)
    /\ stub_mode \in BOOLEAN /\ mmuRecoveryInProgress \in BOOLEAN /\ rmExit \in BOOLEAN

\* The globals cmd_data and globalrequest_cmd_data are used only when a command,
\* or a request, has been read.
DataOK ==
    /\ \/ cmd_data \in Cmd
       \/ toPM = <<>> /\ fromPM = <<>> /\ componentList = <<>> /\ rmPc = "select"
          /\ cmd_data = [RM_Cmd |-> "none", inst |-> [h |-> NoInst, pid |-> NoInst],
                         param1 |-> NoInst, param2 |-> 0, param4 |-> NoInst,
                         rm_status |-> "RM_ErrorNone"]
    /\ \/ globalrequest_cmd_data \in Req
       \/ /\ fromPM = <<>> /\ rmPc # "qos"
          /\ \A i \in DOMAIN toPM : toPM[i].PM_Cmd = "PM_FreePolicy"

\* The proxies: one request of a process at a time, counted below the bound,
\* and a process that has a request has put its own number into rm_data.
ClientOK ==
    /\ curState \in [Clients -> States]
    /\ numClients \in [Pids -> 0..MaxRequests]
    /\ threadhandle \in [Pids -> Handles \cup {NoInst}]
    /\ rmDataPid \in [Pids -> Pids \cup {NoInst}]
Asking ==
    /\ \A p \in Pids : numClients[p] > 0 => rmDataPid[p] \in Pids
    /\ \A c \in Clients : curState[c] \in {"connecting", "sending"} =>
          rmDataPid[c.pid] \in Pids /\ numClients[c.pid] < MaxRequests
    /\ \A c, d \in Clients : curState[c] \in InRequest /\ curState[d] \in InRequest /\ c.pid = d.pid
          => c = d

Typed == ListOK /\ FifosOK /\ ManagerOK /\ DataOK /\ ClientOK /\ Asking

-----------------------------------------------------------------------------
(* Constants and small helpers.                                            *)

\* The assumptions, as the proofs use them.
LEMMA Constants ==
    /\ Wrap \in Nat /\ Wrap > 5 /\ MaxComponents \in Nat /\ MaxFds \in Nat
    /\ MaxRequests \in Nat /\ FifoBound \in Nat /\ FifoBound > 0
    /\ Clients \subseteq Inst /\ KindOf \in [Clients -> Components]
    /\ CpuOf \in [Clients -> Word]
    /\ \A c \in Clients : c.pid \in Pids /\ c.h \in Handles
BY RMAssumption, ClientAssumption DEF Word, Inst

\* What RM_StateSet carries is an OMX_STATETYPE.
LEMMA Codes ==
    /\ \A new \in DOMAIN StateCode : StateCode[new] \in Word
    /\ \A pair \in ReportedChanges : pair[2] \in DOMAIN StateCode
    /\ OMX_StateIdle \in Word
BY Constants DEF StateCode, Word, OMX_StateIdle, OMX_StateExecuting, OMX_StatePause,
       OMX_StateWaitForResources, ReportedChanges

\* A set of indices in order.
LEMMA InOrderMembers ==
    ASSUME NEW n \in Nat, NEW S \in SUBSET (1..n)
    PROVE  /\ Cardinality(S) \in Nat
           /\ \A k \in 1..Cardinality(S) : InOrder(S)[k] \in S
<1> DEFINE upTo(m) == {j \in S : j <= m}
<1>0. IsFiniteSet(S) /\ Cardinality(S) \in Nat
  <2>1. IsFiniteSet(1..n)
        BY FS_Interval
  <2>2. IsFiniteSet(S)
        BY <2>1, FS_Subset
  <2> QED BY <2>2, FS_CardinalityType
<1>a. \A j \in S : j \in Nat /\ 1 <= j /\ j <= n
      OBVIOUS
<1>b. \A m, j : j \in upTo(m) <=> j \in S /\ j <= m
      OBVIOUS
<1>c. \A m : upTo(m) \in SUBSET S
      OBVIOUS
<1> HIDE DEF upTo
<1>1. ASSUME NEW m \in Nat PROVE IsFiniteSet(upTo(m)) /\ Cardinality(upTo(m)) \in Nat
      BY <1>0, <1>c, FS_Subset, FS_CardinalityType
<1>2. ASSUME NEW k \in 1..Cardinality(S) PROVE \E i \in S : Cardinality(upTo(i)) = k
  <2> DEFINE Enough == {m \in Nat : Cardinality(upTo(m)) >= k}
  <2>0. k \in Nat /\ 1 <= k /\ k <= Cardinality(S)
        BY <1>0
  <2>1. upTo(n) = S
        BY <1>a, <1>b
  <2>2. n \in Enough
        BY <2>0, <2>1, <1>0
  <2>3. PICK m \in Enough : \A j \in Enough : m <= j
        BY <2>2, LeastElement, Enough \in SUBSET Nat
  <2>4. m \in Nat /\ Cardinality(upTo(m)) >= k
        BY <2>3
  <2>5. m # 0
    <3>1. ASSUME NEW j \in upTo(0) PROVE FALSE
      <4>1. j \in S /\ j <= 0
            BY <3>1, <1>b
      <4> QED BY <4>1, <1>a
    <3>2. Cardinality(upTo(0)) = 0
          BY <3>1, FS_EmptySet, upTo(0) = {}
    <3> QED BY <2>0, <2>4, <3>2
  <2>6. m - 1 \in Nat
        BY <2>4, <2>5
  <2>7. Cardinality(upTo(m - 1)) < k
    <3>1. m - 1 \notin Enough
          BY <2>3, <2>4, <2>6
    <3> QED BY <2>0, <2>6, <3>1, <1>1
  <2>8. \A j \in S : j <= m <=> j <= m - 1 \/ j = m
        BY <2>4, <1>a
  <2>9. m \notin upTo(m - 1)
        BY <2>4, <1>b
  <2>10. m \in S
    <3> SUFFICES ASSUME m \notin S PROVE FALSE
        OBVIOUS
    <3>1. upTo(m) = upTo(m - 1)
          BY <2>8, <1>b
    <3> QED BY <2>0, <2>4, <2>6, <2>7, <3>1, <1>1
  <2>11. upTo(m) = upTo(m - 1) \cup {m}
        BY <2>8, <2>10, <1>b
  <2>12. Cardinality(upTo(m)) = Cardinality(upTo(m - 1)) + 1
        BY <2>6, <2>9, <2>11, <1>1, FS_AddElement
  <2> QED BY <2>0, <2>4, <2>6, <2>7, <2>10, <2>12, <1>1
<1>3. ASSUME NEW k \in 1..Cardinality(S)
      PROVE  (CHOOSE i \in S : Cardinality(upTo(i)) = k) \in S
      BY <1>2
<1> USE DEF upTo
<1> QED BY <1>0, <1>3 DEF InOrder

-----------------------------------------------------------------------------
(* componentList and the replies.                                          *)

\* The entries of the list.
LEMMA EntriesTyped ==
    ASSUME ListOK
    PROVE  N \in Nat /\ DOMAIN componentList = 1..N /\ \A i \in 1..N : componentList[i] \in Entry
<1>1. N \in Nat /\ DOMAIN componentList = 1..N
      BY DEF ListOK, N
<1> QED BY <1>1 DEF ListOK

\* The loop of RM_GetListIndex finds an entry if there is one, and one only.
LEMMA ListIndex ==
    ASSUME ListOK, NEW inst
    PROVE  /\ N \in Nat /\ DOMAIN componentList = 1..N
           /\ RM_GetListIndex(inst) = {} => \A i \in 1..N : componentList[i].inst # inst
           /\ \A i \in RM_GetListIndex(inst) : i \in 1..N /\ componentList[i].inst = inst
           /\ \A i \in RM_GetListIndex(inst) : inst \in Inst
<1> DEFINE M == {i \in 1..N : componentList[i].inst = inst}
<1>1. N \in Nat /\ DOMAIN componentList = 1..N
      BY DEF ListOK, N
<1>2. \A i \in RM_GetListIndex(inst) : i \in 1..N /\ componentList[i].inst = inst
      BY DEF RM_GetListIndex
<1>3. ASSUME M # {} PROVE RM_GetListIndex(inst) # {}
  <2>1. PICK m \in M : \A j \in 1..(m - 1) : j \notin M
        BY <1>1, <1>3, FirstMatch, M \in SUBSET (1..N)
  <2>2. \A j \in 1..(m - 1) : j \in 1..N
        BY <1>1
  <2>3. m \in RM_GetListIndex(inst)
        BY <2>1, <2>2 DEF RM_GetListIndex
  <2> QED BY <2>3
<1>4. ASSUME NEW i \in RM_GetListIndex(inst) PROVE inst \in Inst
  <2>1. i \in 1..N /\ componentList[i].inst = inst
        BY <1>2
  <2>2. componentList[i] \in Entry
        BY <1>1, <2>1 DEF ListOK
  <2> QED BY <2>1, <2>2 DEF Entry
<1> QED BY <1>1, <1>2, <1>3, <1>4

\* A change of entries that keeps their instances.
LEMMA SameInstances ==
    ASSUME ListOK, NEW list, componentList' = list, DOMAIN list = 1..N,
           list = [i \in 1..N |-> list[i]],
           \A i \in 1..N : list[i] \in Entry /\ list[i].inst = componentList[i].inst
    PROVE  ListOK'
<1>1. N \in Nat
      BY DEF ListOK, N
<1>2. list \in Seq(Entry) /\ Len(list) = N
      BY <1>1
<1>3. N' = N
      BY <1>2 DEF N
<1> QED BY <1>1, <1>2, <1>3 DEF ListOK, RegisteredOnce

\* RM_SetStatus changes the status of one entry.
LEMMA SetStatusOK ==
    ASSUME ListOK, NEW inst, NEW status \in ListStatuses, componentList' = RM_SetStatus(inst, status)
    PROVE  ListOK'
<1> DEFINE list == RM_SetStatus(inst, status)
<1>1. N \in Nat /\ DOMAIN componentList = 1..N
      BY DEF ListOK, N
<1>2. ASSUME NEW i \in 1..N PROVE list[i] \in Entry /\ list[i].inst = componentList[i].inst
  <2>1. componentList[i] \in Entry
        BY <1>1 DEF ListOK
  <2>2. [componentList[i] EXCEPT !.status = status] \in Entry
        /\ [componentList[i] EXCEPT !.status = status].inst = componentList[i].inst
        BY <2>1 DEF Entry
  <2> QED BY <2>1, <2>2 DEF RM_SetStatus
<1>3. DOMAIN list = 1..N /\ list = [i \in 1..N |-> list[i]]
      BY DEF RM_SetStatus
<1> HIDE DEF list
<1>4. componentList' = list
      BY DEF list
<1> QED BY <1>2, <1>3, <1>4, SameInstances

\* HandleStateSet changes the state of one entry.
LEMMA SetStateOK ==
    ASSUME ListOK, NEW i \in 1..N, NEW s \in Word,
           componentList' = [componentList EXCEPT ![i].state = s]
    PROVE  ListOK'
<1> DEFINE list == [componentList EXCEPT ![i].state = s]
<1>1. N \in Nat /\ DOMAIN componentList = 1..N
      BY DEF ListOK, N
<1>2. ASSUME NEW j \in 1..N PROVE list[j] \in Entry /\ list[j].inst = componentList[j].inst
  <2>1. componentList[j] \in Entry
        BY <1>1 DEF ListOK
  <2>2. [componentList[j] EXCEPT !.state = s] \in Entry
        /\ [componentList[j] EXCEPT !.state = s].inst = componentList[j].inst
        BY <2>1 DEF Entry
  <2>3. list[j] = IF j = i THEN [componentList[j] EXCEPT !.state = s] ELSE componentList[j]
        BY <1>1
  <2> QED BY <2>1, <2>2, <2>3
<1>3. DOMAIN list = 1..N /\ list = [j \in 1..N |-> list[j]]
      BY <1>1
<1> HIDE DEF list
<1>4. componentList' = list
      BY DEF list
<1> QED BY <1>2, <1>3, <1>4, SameInstances

\* RM_AddPipe enters an instance that is not in the list.
LEMMA AddPipeOK ==
    ASSUME ListOK, NEW cmd \in Cmd, NEW pipe \in 1..MaxFds, RM_AddPipe(cmd, pipe)
    PROVE  ListOK'
<1>1. CASE UNCHANGED componentList
      BY <1>1 DEF ListOK, N, RegisteredOnce
<1>2. CASE RM_GetListIndex(cmd.inst) = {}
  <2> DEFINE e == [inst |-> cmd.inst, pipe |-> pipe, state |-> OMX_StateIdle,
                   cpu |-> cmd.param2, status |-> "unset"]
  <2>1. e \in Entry /\ e.inst = cmd.inst
        BY Codes DEF Entry, Cmd, ListStatuses
  <2>2. N < MaxComponents /\ componentList' = Append(componentList, e)
        BY <1>2 DEF RM_AddPipe
  <2>3. N \in Nat /\ \A i \in 1..N : componentList[i].inst # cmd.inst
        BY <1>2, ListIndex
  <2> HIDE DEF e
  <2>4. /\ componentList' \in Seq(Entry) /\ N' = N + 1
        /\ \A i \in 1..N : componentList'[i] = componentList[i]
        /\ componentList'[N + 1] = e
        BY <2>1, <2>2, <2>3 DEF ListOK, N
  <2>5. N' <= MaxComponents
        BY <2>2, <2>3, <2>4, Constants
  <2>6. ASSUME NEW i \in 1..N', NEW j \in 1..N', componentList'[i].inst = componentList'[j].inst
        PROVE  i = j
    <3>1. (i \in 1..N \/ i = N + 1) /\ (j \in 1..N \/ j = N + 1)
          BY <2>3, <2>4
    <3>2. CASE i \in 1..N /\ j \in 1..N
          BY <2>4, <2>6, <3>2 DEF ListOK, RegisteredOnce
    <3>3. CASE i \in 1..N /\ j = N + 1
          BY <2>1, <2>3, <2>4, <2>6, <3>3
    <3>4. CASE i = N + 1 /\ j \in 1..N
          BY <2>1, <2>3, <2>4, <2>6, <3>4
    <3> QED BY <3>1, <3>2, <3>3, <3>4
  <2> QED BY <2>4, <2>5, <2>6 DEF ListOK, RegisteredOnce
<1> QED BY <1>1, <1>2 DEF RM_AddPipe

\* RM_RemoveComponentFromList moves the entries behind the one found up.
LEMMA RemoveOK ==
    ASSUME ListOK, NEW inst, RM_RemoveComponentFromList(inst)
    PROVE  ListOK'
<1>1. CASE RM_GetListIndex(inst) = {}
      BY <1>1 DEF ListOK, N, RegisteredOnce, RM_RemoveComponentFromList
<1>2. CASE RM_GetListIndex(inst) # {}
  <2> DEFINE n == CHOOSE i \in RM_GetListIndex(inst) : TRUE
             list == [i \in 1..(N - 1) |-> IF i >= n THEN componentList[i + 1] ELSE componentList[i]]
  <2>1. n \in 1..N /\ N \in Nat /\ DOMAIN componentList = 1..N
        BY <1>2, ListIndex
  <2>2. componentList' = list
        BY <1>2 DEF RM_RemoveComponentFromList
  <2> HIDE DEF n
  <2>3. N - 1 \in Nat
        BY <2>1
  <2>4. ASSUME NEW i \in 1..(N - 1)
        PROVE  /\ i \in 1..N /\ i + 1 \in 1..N
               /\ list[i] = componentList[IF i >= n THEN i + 1 ELSE i]
               /\ list[i] \in Entry
    <3>1. i \in 1..N /\ i + 1 \in 1..N
          BY <2>1
    <3>2. list[i] = componentList[IF i >= n THEN i + 1 ELSE i]
          OBVIOUS
    <3> QED BY <3>1, <3>2, <2>1 DEF ListOK
  <2>5. list \in Seq(Entry) /\ Len(list) = N - 1
        BY <2>3, <2>4
  <2>6. ASSUME NEW i \in 1..(N - 1), NEW j \in 1..(N - 1), list[i].inst = list[j].inst PROVE i = j
    <3> DEFINE a == IF i >= n THEN i + 1 ELSE i
               b == IF j >= n THEN j + 1 ELSE j
    <3>1. a \in 1..N /\ b \in 1..N /\ list[i] = componentList[a] /\ list[j] = componentList[b]
          BY <2>4
    <3>2. a = b
          BY <2>6, <3>1 DEF ListOK, RegisteredOnce
    <3> QED BY <2>1, <3>2
  <2> HIDE DEF list
  <2>7. N' = N - 1 /\ N' <= MaxComponents
        BY <2>1, <2>2, <2>5, Constants DEF N, ListOK
  <2> QED BY <2>2, <2>5, <2>6, <2>7 DEF ListOK, RegisteredOnce
<1> QED BY <1>1, <1>2

\* A reply is written only to a registered instance.
LEMMA WriteOK ==
    ASSUME ListOK, rmPipe \in [Pids -> Seq(Rep)], NEW to, NEW status \in Statuses, NEW inst,
           to \in Inst => inst \in Inst, Write(to, Reply(status, inst))
    PROVE  rmPipe' \in [Pids -> Seq(Rep)]
<1>1. CASE RM_GetPipe(to) = {}
      BY <1>1 DEF Write
<1>2. CASE RM_GetPipe(to) # {}
  <2>1. RM_GetListIndex(to) # {}
        BY <1>2 DEF RM_GetPipe
  <2>2. inst \in Inst
        BY <2>1, ListIndex
  <2>3. Reply(status, inst) \in Rep
        BY <2>2 DEF Reply, Rep
  <2> HIDE DEF Rep
  <2>4. \A p \in Pids : rmPipe[p] \in Seq(Rep) /\ Append(rmPipe[p], Reply(status, inst)) \in Seq(Rep)
        BY <2>3
  <2> QED BY <2>4 DEF Write
<1> QED BY <1>1, <1>2

-----------------------------------------------------------------------------
(* Every step keeps the types and the list.                                *)

\* What a handler of the main thread leaves, besides what it never touches.
OnlyFrees(q) == \A i \in DOMAIN q : q[i].PM_Cmd = "PM_FreePolicy"
Handled ==
    /\ ListOK' /\ rmPipe' \in [Pids -> Seq(Rep)] /\ toPM' \in Seq(PMCmd)
    /\ DOMAIN openPipes' \subseteq 1..MaxFds /\ totalCpu' \in [Types -> Word]
    /\ rmPc' \in {"select", "remove"} /\ cmd_data' \in Cmd
    /\ \/ globalrequest_cmd_data' \in Req
       \/ globalrequest_cmd_data' = globalrequest_cmd_data /\ (OnlyFrees(toPM) => OnlyFrees(toPM)')

\* ListOK speaks of componentList alone.
LEMMA ListSame ==
    ASSUME ListOK, UNCHANGED componentList PROVE ListOK'
BY DEF ListOK, N, RegisteredOnce

\* A request, to the policy manager.
LEMMA RequestOK ==
    ASSUME Typed, NEW cmd \in Cmd, HandleRequestResource(cmd) PROVE Handled
<1>1. ListOK'
      BY ListSame DEF HandleRequestResource, Typed
<1>2. /\ rmPipe' \in [Pids -> Seq(Rep)] /\ totalCpu' \in [Types -> Word]
      /\ DOMAIN openPipes' \subseteq 1..MaxFds /\ rmPc' = "select" /\ cmd_data' \in Cmd
      BY DEF HandleRequestResource, Typed, FifosOK, ManagerOK
<1>3. CASE stub_mode
      BY <1>1, <1>2, <1>3 DEF HandleRequestResource, Handled, Typed, FifosOK
<1>4. CASE ~ stub_mode
  <2> DEFINE m == [PM_Cmd |-> "PM_RequestPolicy", inst |-> cmd.inst, param1 |-> cmd.param1]
  <2>1. m \in PMCmd /\ [inst |-> cmd.inst, param1 |-> cmd.param1] \in Req
        BY DEF PMCmd, Req, Cmd
  <2>2. toPM' = Append(toPM, m) /\ globalrequest_cmd_data' \in Req
        BY <1>4, <2>1 DEF HandleRequestResource
  <2> HIDE DEF m
  <2>3. toPM' \in Seq(PMCmd)
        BY <2>1, <2>2 DEF Typed, FifosOK
  <2> QED BY <1>1, <1>2, <2>2, <2>3 DEF Handled
<1> QED BY <1>3, <1>4

\* An echo of the command.
LEMMA WaitOK ==
    ASSUME Typed, NEW cmd \in Cmd, HandleWaitForResource(cmd) PROVE rmPipe' \in [Pids -> Seq(Rep)]
<1>1. cmd.rm_status \in Statuses /\ cmd.inst \in Inst
      BY DEF Cmd
<1> QED BY <1>1, WriteOK DEF HandleWaitForResource, Typed, FifosOK

\* The entry that HandleFreeResource tells last.
LEMMA LastWaiting ==
    ASSUME ListOK, Waiting # {}
    PROVE  Max(Waiting) \in Waiting /\ Max(Waiting) \in 1..N
<1>1. N \in Nat
      BY EntriesTyped
<1>2. Waiting \in SUBSET (1..N)
  <2>1. \A i \in 1..(N - 1) : i \in 1..N
        BY <1>1
  <2> QED BY <2>1 DEF Waiting
<1> DEFINE Back == {k \in Nat : N - k \in Waiting}
<1>3. PICK i \in Waiting : TRUE
      OBVIOUS
<1>4. N - i \in Nat /\ N - (N - i) = i
      BY <1>1, <1>2
<1>5. N - i \in Back
      BY <1>4
<1>6. PICK k \in Back : \A j \in Back : k <= j
      BY <1>5, LeastElement, Back \in SUBSET Nat
<1>7. ASSUME NEW j \in Waiting PROVE N - k >= j
  <2>1. N - j \in Nat /\ N - (N - j) = j
        BY <1>1, <1>2
  <2>2. k <= N - j /\ k \in Nat
        BY <2>1, <1>6
  <2> QED BY <1>1, <1>2, <2>2
<1>8. \E m \in Waiting : \A j \in Waiting : m >= j
      BY <1>6, <1>7
<1>9. Max(Waiting) \in Waiting
      BY <1>8 DEF Max
<1> QED BY <1>2, <1>9

\* The waiting components are told, in order.
LEMMA FreeOK ==
    ASSUME Typed, NEW cmd \in Cmd, HandleFreeResource(cmd) PROVE Handled
<1> DEFINE acquired(i) == Reply("RM_RESOURCEACQUIRED",
                             [h |-> componentList[i].inst.h, pid |-> cmd.inst.pid])
           mine(p) == {i \in Waiting : /\ componentList[i].pipe \in DOMAIN openPipes
                                       /\ openPipes[componentList[i].pipe] = p}
           told(p) == InOrder(mine(p))
<1>1. ListOK'
      BY ListSame DEF HandleFreeResource, Typed
<1>2. /\ totalCpu' \in [Types -> Word] /\ globalrequest_cmd_data' = globalrequest_cmd_data
      /\ DOMAIN openPipes' \subseteq 1..MaxFds /\ rmPc' = "remove"
      BY DEF HandleFreeResource, Typed, ManagerOK
<1>3. N \in Nat /\ \A i \in 1..N : componentList[i] \in Entry
  <2>1. N \in Nat /\ DOMAIN componentList = 1..N
        BY DEF Typed, ListOK, N
  <2> QED BY <2>1 DEF Typed, ListOK
<1>4. Waiting \in SUBSET (1..N)
  <2>1. \A i \in 1..(N - 1) : i \in 1..N
        BY <1>3
  <2> QED BY <2>1 DEF Waiting
<1>5. ASSUME NEW i \in Waiting PROVE componentList[i].inst.h \in Handles /\ acquired(i) \in Rep
  <2>1. componentList[i].inst \in Inst /\ cmd.inst \in Inst
        BY <1>3, <1>4 DEF Entry, Cmd
  <2>2. componentList[i].inst.h \in Handles /\ cmd.inst.pid \in Pids
        BY <2>1 DEF Inst
  <2>3. [h |-> componentList[i].inst.h, pid |-> cmd.inst.pid] \in Inst
        BY <2>2 DEF Inst
  <2> QED BY <2>2, <2>3 DEF Reply, Rep, Statuses
<1>6. cmd_data' \in Cmd
  <2>1. CASE Waiting = {}
        BY <2>1 DEF HandleFreeResource
  <2>2. CASE Waiting # {}
    <3>2. Max(Waiting) \in Waiting
          BY <2>2, LastWaiting DEF Typed
    <3>3. cmd_data' = [cmd EXCEPT !.inst.h = componentList[Max(Waiting)].inst.h,
                                  !.rm_status = "RM_RESOURCEACQUIRED"]
          BY <2>2 DEF HandleFreeResource
    <3>4. componentList[Max(Waiting)].inst.h \in Handles
          BY <3>2, <1>5
    <3>5. ASSUME NEW h \in Handles
          PROVE  [cmd EXCEPT !.inst.h = h, !.rm_status = "RM_RESOURCEACQUIRED"] \in Cmd
          BY DEF Cmd, Inst, Statuses
    <3> QED BY <3>3, <3>4, <3>5
  <2> QED BY <2>1, <2>2
<1>7. ASSUME NEW p \in Pids
      PROVE  [k \in DOMAIN told(p) |-> acquired(told(p)[k])] \in Seq(Rep)
  <2>1. mine(p) \in SUBSET (1..N) /\ mine(p) \subseteq Waiting
        BY <1>4
  <2>2. /\ Cardinality(mine(p)) \in Nat
        /\ \A k \in 1..Cardinality(mine(p)) : told(p)[k] \in mine(p)
        BY <1>3, <2>1, InOrderMembers
  <2>3. DOMAIN told(p) = 1..Cardinality(mine(p))
        BY DEF InOrder
  <2> HIDE DEF mine, told, acquired
  <2>4. \A k \in DOMAIN told(p) : acquired(told(p)[k]) \in Rep
        BY <2>1, <2>2, <2>3, <1>5
  <2> QED BY <2>2, <2>3, <2>4
<1>8. rmPipe' = [p \in Pids |-> rmPipe[p] \o [k \in DOMAIN told(p) |-> acquired(told(p)[k])]]
      BY DEF HandleFreeResource
<1> HIDE DEF told, acquired
<1>9. rmPipe' \in [Pids -> Seq(Rep)]
  <2>1. ASSUME NEW p \in Pids
        PROVE  rmPipe[p] \o [k \in DOMAIN told(p) |-> acquired(told(p)[k])] \in Seq(Rep)
        BY <1>7 DEF Typed, FifosOK
  <2> QED BY <2>1, <1>8
<1>10. toPM' \in Seq(PMCmd) /\ (OnlyFrees(toPM) => OnlyFrees(toPM)')
  <2> DEFINE m == [PM_Cmd |-> "PM_FreePolicy", inst |-> cmd.inst, param1 |-> cmd.param1]
  <2>1. m \in PMCmd /\ m.PM_Cmd = "PM_FreePolicy"
        BY DEF PMCmd, Cmd
  <2>2. toPM' = toPM \/ toPM' = Append(toPM, m)
        BY DEF HandleFreeResource, FreePolicy
  <2> HIDE DEF m
  <2>3. toPM \in Seq(PMCmd)
        BY DEF Typed, FifosOK
  <2>4. CASE toPM' = toPM
        BY <2>3, <2>4 DEF OnlyFrees
  <2>5. CASE toPM' = Append(toPM, m)
        BY <2>1, <2>3, <2>5 DEF OnlyFrees
  <2> QED BY <2>2, <2>4, <2>5
<1> QED BY <1>1, <1>2, <1>6, <1>9, <1>10 DEF Handled

\* A state change, in the list and in the totals.
LEMMA StateSetOK ==
    ASSUME Typed, NEW cmd \in Cmd, HandleStateSet(cmd) PROVE Handled
<1>1. /\ toPM' = toPM /\ globalrequest_cmd_data' = globalrequest_cmd_data /\ openPipes' = openPipes
      /\ cmd_data' = cmd /\ rmPc' = "select"
      BY DEF HandleStateSet
<1>2. /\ toPM' \in Seq(PMCmd) /\ DOMAIN openPipes' \subseteq 1..MaxFds
      /\ OnlyFrees(toPM) => OnlyFrees(toPM)'
      BY <1>1 DEF Typed, FifosOK, ManagerOK, OnlyFrees
<1>3. CASE UNCHANGED <<componentList, totalCpu, rmPipe>>
  <2>1. ListOK' /\ totalCpu' \in [Types -> Word] /\ rmPipe' \in [Pids -> Seq(Rep)]
        BY <1>3, ListSame DEF Typed, FifosOK, ManagerOK
  <2> QED BY <1>1, <1>2, <2>1 DEF Handled
<1>4. ASSUME NEW i \in RM_GetListIndex(cmd.inst),
             componentList' = [componentList EXCEPT ![i].state = cmd.param2],
             totalCpu' = [t \in Types |->
                    IF cmd.param1 \in DOMAIN TypeOf /\ TypeOf[cmd.param1] = t
                    THEN AddCpu(totalCpu[t], CpuDelta(cmd, componentList[i]))
                    ELSE totalCpu[t]],
             IF cmd.param2 = OMX_StateWaitForResources
             THEN HandleWaitForResource(cmd) ELSE UNCHANGED rmPipe
      PROVE  Handled
  <2>1. i \in 1..N /\ DOMAIN componentList = 1..N
        BY ListIndex DEF Typed
  <2>2. cmd.param2 \in Word
        BY DEF Cmd
  <2>3. ListOK'
        BY <1>4, <2>1, <2>2, SetStateOK DEF Typed
  <2>4. componentList[i] \in Entry
        BY <2>1, EntriesTyped DEF Typed
  <2>5. CpuDelta(cmd, componentList[i]) \in Int
    <3>1. componentList[i].cpu \in 0..(Wrap - 1)
          BY <2>4 DEF Entry, Word
    <3>2. componentList[i].cpu \in Int /\ -componentList[i].cpu \in Int /\ 0 \in Int
          BY <3>1, Constants
    <3> QED BY <3>2 DEF CpuDelta
  <2>6. ASSUME NEW a \in Word, NEW b \in Int PROVE AddCpu(a, b) \in Word
    <3>1. a + b \in Int /\ Wrap \in Nat /\ Wrap > 0
          BY Constants DEF Word
    <3>2. \A x \in Int : x % Wrap \in 0..(Wrap - 1)
          BY <3>1
    <3> QED BY <3>1, <3>2 DEF AddCpu, Word
  <2>7. \A t \in Types : totalCpu[t] \in Word
        BY DEF Typed, ManagerOK
  <2>8. \A t \in Types : AddCpu(totalCpu[t], CpuDelta(cmd, componentList[i])) \in Word
        BY <2>5, <2>6, <2>7
  <2>9. totalCpu' \in [Types -> Word]
        BY <1>4, <2>7, <2>8
  <2>10. rmPipe' \in [Pids -> Seq(Rep)]
        BY <1>4, WaitOK DEF Typed, FifosOK
  <2> QED BY <1>1, <1>2, <2>3, <2>9, <2>10 DEF Handled
<1> QED BY <1>3, <1>4 DEF HandleStateSet

\* A FIFO is opened under a free number.
LEMMA CreateOK ==
    ASSUME Typed, NEW cmd \in Cmd, RM_CreatePipe(cmd) PROVE Handled
<1> DEFINE fd == CHOOSE f \in FreeFds : \A g \in FreeFds : f <= g
<1>1. FreeFds \in SUBSET Nat /\ FreeFds # {} /\ FreeFds \subseteq 1..MaxFds
      BY DEF FreeFds, RM_CreatePipe
<1>2. \E f \in FreeFds : \A g \in FreeFds : f <= g
      BY <1>1, LeastElement
<1>3. fd \in 1..MaxFds
      BY <1>1, <1>2
<1>4. /\ openPipes' = [f \in DOMAIN openPipes \cup {fd} |->
                          IF f = fd THEN cmd.inst.pid ELSE openPipes[f]]
      /\ RM_AddPipe(cmd, fd)
      BY DEF RM_CreatePipe
<1> HIDE DEF fd
<1>5. DOMAIN openPipes' \subseteq 1..MaxFds
      BY <1>3, <1>4 DEF Typed, ManagerOK
<1>6. ListOK'
      BY <1>3, <1>4, AddPipeOK DEF Typed
<1>7. /\ toPM' \in Seq(PMCmd) /\ rmPipe' \in [Pids -> Seq(Rep)] /\ totalCpu' \in [Types -> Word]
      /\ globalrequest_cmd_data' = globalrequest_cmd_data /\ cmd_data' \in Cmd /\ rmPc' = "select"
      /\ OnlyFrees(toPM) => OnlyFrees(toPM)'
      BY DEF RM_CreatePipe, Typed, FifosOK, ManagerOK, OnlyFrees
<1> QED BY <1>5, <1>6, <1>7 DEF Handled

\* A FIFO is shared, or opened after all.
LEMMA ReuseOK ==
    ASSUME Typed, NEW cmd \in Cmd, RM_ReusePipe(cmd) PROVE Handled
<1> DEFINE other == [h |-> cmd.param4, pid |-> cmd.inst.pid]
<1>1. CASE RM_GetPipe(other) = {}
      BY <1>1, CreateOK DEF RM_ReusePipe
<1>2. CASE RM_GetPipe(other) # {}
  <2>1. PICK pipe \in RM_GetPipe(other) : RM_AddPipe(cmd, pipe)
        BY <1>2 DEF RM_ReusePipe
  <2>2. pipe \in 1..MaxFds
    <3>1. PICK i \in RM_GetListIndex(other) : pipe = componentList[i].pipe
          BY <2>1 DEF RM_GetPipe
    <3> HIDE DEF other
    <3>2. i \in 1..N /\ DOMAIN componentList = 1..N
      <4>1. ListOK
            BY DEF Typed
      <4> QED BY <3>1, <4>1, ListIndex
    <3>3. componentList[i] \in Entry
          BY <3>2, EntriesTyped DEF Typed
    <3> QED BY <3>1, <3>3 DEF Entry
  <2>3. ListOK'
        BY <2>1, <2>2, AddPipeOK DEF Typed
  <2>4. /\ toPM' \in Seq(PMCmd) /\ rmPipe' \in [Pids -> Seq(Rep)] /\ totalCpu' \in [Types -> Word]
        /\ globalrequest_cmd_data' = globalrequest_cmd_data /\ cmd_data' \in Cmd /\ rmPc' = "select"
        /\ OnlyFrees(toPM) => OnlyFrees(toPM)'
        /\ DOMAIN openPipes' \subseteq 1..MaxFds
        BY <1>2 DEF RM_ReusePipe, Typed, FifosOK, ManagerOK, OnlyFrees
  <2> QED BY <2>3, <2>4 DEF Handled
<1> QED BY <1>1, <1>2

\* A turn of main() that finds a command.
LEMMA ReadCommandOK ==
    ASSUME Typed, ReadCommand, UNCHANGED <<pmLocal, clientVars>> PROVE Typed'
<1> DEFINE cmd == Head(toRM)
<1>1. cmd \in Cmd /\ toRM' \in Seq(Cmd)
  <2>1. toRM \in Seq(Cmd) /\ toRM # <<>> /\ toRM' = Tail(toRM)
        BY DEF ReadCommand, Typed, FifosOK
  <2> QED BY <2>1
<1>2. Handled
  <2>1. CASE HandleRequestResource(cmd)
        BY <1>1, <2>1, RequestOK
  <2>2. CASE HandleFreeResource(cmd)
        BY <1>1, <2>2, FreeOK
  <2>3. CASE HandleStateSet(cmd)
        BY <1>1, <2>3, StateSetOK
  <2>4. CASE RM_CreatePipe(cmd)
        BY <1>1, <2>4, CreateOK
  <2>5. CASE RM_ReusePipe(cmd)
        BY <1>1, <2>5, ReuseOK
  <2>6. CASE IgnoredRMCommand(cmd)
    <3>1. ListOK'
          BY <2>6, ListSame DEF IgnoredRMCommand, Typed
    <3> QED BY <1>1, <2>6, <3>1
            DEF IgnoredRMCommand, Handled, Typed, FifosOK, ManagerOK, OnlyFrees
  <2>7. CASE /\ HandleWaitForResource(cmd) /\ cmd_data' = cmd /\ rmPc' = "select"
             /\ UNCHANGED <<toPM, globalrequest_cmd_data, componentList, openPipes, totalCpu>>
    <3>1. ListOK'
          BY <2>7, ListSame DEF Typed
    <3>2. rmPipe' \in [Pids -> Seq(Rep)]
          BY <1>1, <2>7, WaitOK
    <3> QED BY <1>1, <2>7, <3>1, <3>2 DEF Handled, Typed, FifosOK, ManagerOK, OnlyFrees
  <2> QED BY <2>1, <2>2, <2>3, <2>4, <2>5, <2>6, <2>7 DEF ReadCommand
<1>3. /\ fromPM' = fromPM /\ stub_mode' = stub_mode
      /\ mmuRecoveryInProgress' = mmuRecoveryInProgress /\ watch' = watch /\ rmExit' \in BOOLEAN
      BY DEF ReadCommand
<1>4. ClientOK' /\ Asking' /\ pComponentList' = pComponentList
      BY DEF Typed, ClientOK, Asking, clientVars, pmLocal
<1>5. FifosOK'
      BY <1>1, <1>2, <1>3, <1>4 DEF Handled, FifosOK, Typed
<1>6. ManagerOK'
      BY <1>2, <1>3 DEF Handled, ManagerOK, Typed
<1>7. DataOK'
      BY <1>2, <1>3 DEF Handled, DataOK, Typed, OnlyFrees
<1>8. ListOK'
      BY <1>2 DEF Handled
<1> QED BY <1>4, <1>5, <1>6, <1>7, <1>8 DEF Typed

\* The removal after a free.
LEMMA RemoveFreedOK ==
    ASSUME Typed, RemoveFreed, UNCHANGED <<pmLocal, clientVars>> PROVE Typed'
<1>1. ListOK'
      BY RemoveOK DEF RemoveFreed, Typed
<1>2. /\ toRM' = toRM /\ rmPipe' = rmPipe /\ toPM' = toPM /\ fromPM' = fromPM
      /\ cmd_data' = cmd_data /\ globalrequest_cmd_data' = globalrequest_cmd_data
      /\ stub_mode' = stub_mode /\ mmuRecoveryInProgress' = mmuRecoveryInProgress
      /\ totalCpu' = totalCpu /\ rmExit' = rmExit /\ watch' = watch /\ rmPc' = "select"
      /\ rmPc = "remove"
      BY DEF RemoveFreed
<1>3. DOMAIN openPipes' \subseteq 1..MaxFds
  <2>1. openPipes' = openPipes
        \/ openPipes' = [fd \in DOMAIN openPipes \ RM_GetPipe(cmd_data.inst) |-> openPipes[fd]]
        BY DEF RemoveFreed, RM_ClosePipe
  <2> QED BY <2>1 DEF Typed, ManagerOK
<1>4. ClientOK' /\ Asking' /\ FifosOK'
      BY <1>2 DEF Typed, ClientOK, Asking, FifosOK, clientVars, pmLocal
<1>5. ManagerOK' /\ DataOK'
      BY <1>2, <1>3 DEF Typed, ManagerOK, DataOK
<1> QED BY <1>1, <1>4, <1>5 DEF Typed

\* A response that is read.
LEMMA ResponseRead ==
    ASSUME Typed, NEW cmd, ReadResponse(cmd)
    PROVE  /\ Head(fromPM) \in PMRsp /\ fromPM' \in Seq(PMRsp) /\ rmPc = "select"
           /\ cmd_data \in Cmd /\ globalrequest_cmd_data \in Req
<1>1. fromPM \in Seq(PMRsp) /\ fromPM # <<>> /\ fromPM' = Tail(fromPM) /\ rmPc = "select"
      BY DEF ReadResponse, Typed, FifosOK
<1>2. cmd_data \in Cmd /\ globalrequest_cmd_data \in Req
      BY <1>1 DEF Typed, DataOK
<1> QED BY <1>1, <1>2

\* An answer to the request on record.
LEMMA AnswerOK ==
    ASSUME Typed, globalrequest_cmd_data \in Req, NEW status \in Statuses, NEW new \in ListStatuses,
           Answer(status, new)
    PROVE  ListOK' /\ rmPipe' \in [Pids -> Seq(Rep)]
<1> DEFINE g == globalrequest_cmd_data.inst
<1>1. componentList' = RM_SetStatus(g, new) /\ Write(g, Reply(status, g))
      BY DEF Answer
<1> HIDE DEF g
<1>2. ListOK'
      BY <1>1, SetStatusOK DEF Typed
<1>3. rmPipe' \in [Pids -> Seq(Rep)]
      BY <1>1, WriteOK DEF Typed, FifosOK
<1> QED BY <1>2, <1>3

\* The branches of main() that read a response.
LEMMA PolicyStepOK ==
    ASSUME Typed, UNCHANGED <<pmLocal, clientVars>>,
           PolicyPreempted \/ PolicyDenied \/ PolicyGrantedInRecovery \/ PolicyGranted
    PROVE  Typed'
<1>0. ClientOK' /\ Asking' /\ pComponentList' = pComponentList
      BY DEF Typed, ClientOK, Asking, clientVars, pmLocal
<1>1. ASSUME cmd_data' \in Cmd, globalrequest_cmd_data' \in Req, ListOK', fromPM' \in Seq(PMRsp),
             rmPipe' \in [Pids -> Seq(Rep)], rmPc' \in {"select", "qos"},
             UNCHANGED <<toRM, toPM, openPipes, stub_mode, mmuRecoveryInProgress, totalCpu, rmExit, watch>>
      PROVE  Typed'
  <2>1. FifosOK'
        BY <1>0, <1>1 DEF Typed, FifosOK
  <2>2. ManagerOK' /\ DataOK'
        BY <1>1 DEF Typed, ManagerOK, DataOK
  <2> QED BY <1>0, <1>1, <2>1, <2>2 DEF Typed
<1>2. CASE PolicyPreempted
  <2> DEFINE victim == Head(fromPM).inst
             mixed == [h |-> victim.h, pid |-> cmd_data.inst.pid]
  <2>1. /\ ReadResponse("PM_PREEMPTED")
        /\ cmd_data' = [cmd_data EXCEPT !.inst = mixed, !.rm_status = "RM_PREEMPT"]
        /\ componentList' = RM_SetStatus(mixed, "RM_WaitingForClient")
        /\ Write(victim, Reply("RM_PREEMPT", mixed))
        /\ globalrequest_cmd_data' = globalrequest_cmd_data /\ rmPc' = rmPc
        /\ UNCHANGED <<toRM, toPM, openPipes, stub_mode, mmuRecoveryInProgress, totalCpu, rmExit, watch>>
        BY <1>2 DEF PolicyPreempted
  <2>2. /\ Head(fromPM) \in PMRsp /\ fromPM' \in Seq(PMRsp) /\ rmPc = "select"
        /\ cmd_data \in Cmd /\ globalrequest_cmd_data \in Req
        BY <2>1, ResponseRead
  <2>3. mixed \in Inst
        BY <2>2 DEF PMRsp, Inst, Cmd
  <2> HIDE DEF mixed, victim
  <2>4. cmd_data' \in Cmd
        BY <2>1, <2>2, <2>3 DEF Cmd, Statuses
  <2>5. ListOK'
        BY <2>1, SetStatusOK DEF Typed, ListStatuses
  <2>6. rmPipe' \in [Pids -> Seq(Rep)]
        BY <2>1, <2>3, WriteOK DEF Typed, FifosOK, Statuses
  <2> QED BY <1>1, <2>1, <2>2, <2>4, <2>5, <2>6
<1>3. CASE PolicyDenied
  <2>1. /\ Head(fromPM) \in PMRsp /\ fromPM' \in Seq(PMRsp) /\ rmPc = "select"
        /\ cmd_data \in Cmd /\ globalrequest_cmd_data \in Req
        BY <1>3, ResponseRead DEF PolicyDenied
  <2>2. ListOK' /\ rmPipe' \in [Pids -> Seq(Rep)]
        BY <1>3, <2>1, AnswerOK DEF PolicyDenied, Statuses, ListStatuses
  <2> QED BY <1>1, <1>3, <2>1, <2>2 DEF PolicyDenied
<1>4. CASE PolicyGrantedInRecovery
  <2>1. /\ Head(fromPM) \in PMRsp /\ fromPM' \in Seq(PMRsp) /\ rmPc = "select"
        /\ cmd_data \in Cmd /\ globalrequest_cmd_data \in Req
        BY <1>4, ResponseRead DEF PolicyGrantedInRecovery
  <2>2. ListOK' /\ rmPipe' \in [Pids -> Seq(Rep)]
        BY <1>4, <2>1, AnswerOK DEF PolicyGrantedInRecovery, Statuses, ListStatuses
  <2> QED BY <1>1, <1>4, <2>1, <2>2 DEF PolicyGrantedInRecovery
<1>5. CASE PolicyGranted
  <2>1. /\ Head(fromPM) \in PMRsp /\ fromPM' \in Seq(PMRsp) /\ rmPc = "select"
        /\ cmd_data \in Cmd /\ globalrequest_cmd_data \in Req
        BY <1>5, ResponseRead DEF PolicyGranted
  <2>2. ListOK' /\ rmPipe' \in [Pids -> Seq(Rep)]
        BY <1>5, ListSame DEF PolicyGranted, Typed, FifosOK
  <2> QED BY <1>1, <1>5, <2>1, <2>2 DEF PolicyGranted
<1> QED BY <1>2, <1>3, <1>4, <1>5

\* RM_GetQos and what follows it.
LEMMA QosOK ==
    ASSUME Typed, UNCHANGED <<pmLocal, clientVars>>,
           GetQosOk \/ GetQosDeny \/ GetQosFails \/ InitializeQosFails
    PROVE  Typed'
<1>0. /\ rmPc = "qos" /\ rmPc' = "select" /\ stub_mode' \in {stub_mode, TRUE}
      /\ UNCHANGED <<toRM, fromPM, openPipes, cmd_data, globalrequest_cmd_data,
                     mmuRecoveryInProgress, totalCpu, rmExit, watch>>
      /\ QosGrant \/ QosFreeResources
      BY DEF GetQosOk, GetQosDeny, GetQosFails, InitializeQosFails
<1>1. globalrequest_cmd_data \in Req /\ cmd_data \in Cmd
      BY <1>0 DEF Typed, DataOK
<1>2. ListOK' /\ rmPipe' \in [Pids -> Seq(Rep)] /\ toPM' \in Seq(PMCmd)
  <2>1. CASE QosGrant
        BY <1>1, <2>1, AnswerOK DEF QosGrant, Statuses, ListStatuses, Typed, FifosOK
  <2>2. CASE QosFreeResources
    <3> DEFINE m == [PM_Cmd |-> "PM_FreeResources", inst |-> globalrequest_cmd_data.inst,
                     param1 |-> globalrequest_cmd_data.param1]
    <3>1. m \in PMCmd
          BY <1>1 DEF PMCmd, Req
    <3>2. toPM' = Append(toPM, m) /\ UNCHANGED <<rmPipe, componentList>>
          BY <2>2 DEF QosFreeResources
    <3> HIDE DEF m
    <3>3. toPM' \in Seq(PMCmd)
          BY <3>1, <3>2 DEF Typed, FifosOK
    <3> QED BY <3>2, <3>3, ListSame DEF Typed, FifosOK
  <2> QED BY <1>0, <2>1, <2>2
<1>3. ClientOK' /\ Asking' /\ pComponentList' = pComponentList
      BY DEF Typed, ClientOK, Asking, clientVars, pmLocal
<1>4. FifosOK'
      BY <1>0, <1>2, <1>3 DEF Typed, FifosOK
<1>5. ManagerOK' /\ DataOK'
      BY <1>0, <1>1 DEF Typed, ManagerOK, DataOK
<1> QED BY <1>2, <1>3, <1>4, <1>5 DEF Typed

\* The fault thread.
LEMMA WatchOK ==
    ASSUME Typed, UNCHANGED <<pmLocal, clientVars>>, WatchNext PROVE Typed'
<1>0. ClientOK' /\ Asking' /\ pComponentList' = pComponentList
      BY DEF Typed, ClientOK, Asking, clientVars, pmLocal
<1>1. MainUnchanged
      BY DEF WatchNext, Fault, WatchFill, WatchWrite, WatchLoopEnds, WatchPoll, DspReopened, DspLost
<1>2. /\ watch' \in Watch /\ mmuRecoveryInProgress' \in BOOLEAN
      /\ watch'.pc \in {"loop", "write"} => watch'.i > 0
  <2>0. watch \in Watch /\ (watch.pc \in {"loop", "write"} => watch.i > 0)
        /\ mmuRecoveryInProgress \in BOOLEAN
        BY DEF Typed, ManagerOK
  <2>a. watch.i \in Nat /\ watch.faults \in Nat
        BY <2>0 DEF Watch
  <2> USE <2>0, <2>a DEF Watch, WatchAt
  <2>1. CASE Fault
        BY <2>1 DEF Fault
  <2>2. CASE WatchFill
        BY <2>2 DEF WatchFill, WatchStep
  <2>3. CASE WatchWrite
        BY <2>3 DEF WatchWrite
  <2>4. CASE WatchLoopEnds
        BY <2>4 DEF WatchLoopEnds
  <2>5. CASE WatchPoll
    <3>1. mmuRecoveryInProgress' = mmuRecoveryInProgress
          /\ (watch' = WatchAt("reopen", 0) \/ watch' = WatchAt("poll", watch.i + 1))
          BY <2>5 DEF WatchPoll
    <3>2. CASE watch' = WatchAt("reopen", 0)
          BY <3>1, <3>2
    <3>3. CASE watch' = WatchAt("poll", watch.i + 1)
          BY <3>1, <3>3
    <3> QED BY <3>1, <3>2, <3>3
  <2>6. CASE DspReopened \/ DspLost
    <3>1. /\ watch' = WatchAt("monitor", watch.i) \/ watch' = WatchAt("exit", watch.i)
          /\ mmuRecoveryInProgress' \in {mmuRecoveryInProgress, FALSE}
          BY <2>6 DEF DspReopened, DspLost, WatchStep
    <3>2. CASE watch' = WatchAt("monitor", watch.i)
          BY <3>1, <3>2
    <3>3. CASE watch' = WatchAt("exit", watch.i)
          BY <3>1, <3>3
    <3> QED BY <3>1, <3>2, <3>3
  <2> QED BY <2>1, <2>2, <2>3, <2>4, <2>5, <2>6 DEF WatchNext
<1>3. ManagerOK'
      BY <1>1, <1>2 DEF Typed, ManagerOK, MainUnchanged
<1>4. toRM' = toRM /\ toPM' = toPM /\ fromPM' = fromPM /\ rmPc' = rmPc
      /\ globalrequest_cmd_data' = globalrequest_cmd_data
      BY <1>1 DEF MainUnchanged
<1>5. CASE WatchFill
  <2>1. watch.i \in 1..N /\ N > 0 /\ UNCHANGED <<rmPipe, componentList>>
    <3>1. watch.i \in Nat /\ watch.i > 0 /\ watch.i <= N /\ N \in Nat
          BY <1>5, EntriesTyped DEF WatchFill, WatchStep, Typed, ManagerOK, Watch
    <3> QED BY <1>5, <3>1 DEF WatchFill
  <2>2. componentList[watch.i].inst \in Inst
        BY <2>1, EntriesTyped DEF Typed, Entry
  <2>3. componentList # <<>>
        BY <2>1 DEF N
  <2>4. cmd_data \in Cmd
        BY <2>3 DEF Typed, DataOK
  <2>5. cmd_data' \in Cmd
        BY <1>5, <2>2, <2>4 DEF WatchFill, Cmd, Statuses
  <2>6. DataOK'
        BY <1>4, <2>5 DEF Typed, DataOK
  <2>7. FifosOK' /\ ListOK'
        BY <1>0, <1>4, <2>1, ListSame DEF Typed, FifosOK
  <2> QED BY <1>0, <1>3, <2>6, <2>7 DEF Typed
<1>6. CASE WatchWrite
  <2>1. cmd_data.rm_status \in Statuses /\ cmd_data' = cmd_data
        BY <1>6 DEF WatchWrite, Typed, DataOK, Cmd, Statuses
  <2>2. rmPipe' \in [Pids -> Seq(Rep)]
        BY <1>6, <2>1, WriteOK DEF WatchWrite, Typed, FifosOK
  <2>3. ListOK'
        BY <1>6, SetStatusOK DEF WatchWrite, Typed, ListStatuses
  <2>4. FifosOK'
        BY <1>0, <1>4, <2>2 DEF Typed, FifosOK
  <2>5. componentList = <<>> => componentList' = <<>>
    <3>1. componentList' = RM_SetStatus(cmd_data.inst, "RM_WaitingForClient")
          BY <1>6 DEF WatchWrite
    <3>2. componentList = <<>> => N = 0
          BY DEF N
    <3>3. ASSUME N = 0 PROVE componentList' = <<>>
      <4>1. DOMAIN componentList' = 1..0 /\ componentList' = [i \in 1..0 |-> componentList'[i]]
            BY <3>1, <3>3 DEF RM_SetStatus
      <4> QED BY <4>1
    <3> QED BY <3>2, <3>3
  <2>6. DataOK'
        BY <1>4, <2>1, <2>5 DEF Typed, DataOK
  <2> QED BY <1>0, <1>3, <2>3, <2>4, <2>6 DEF Typed
<1>7. CASE Fault \/ WatchLoopEnds \/ WatchPoll \/ DspReopened \/ DspLost
  <2>1. UNCHANGED <<rmPipe, componentList, cmd_data>>
        BY <1>7 DEF Fault, WatchLoopEnds, WatchPoll, DspReopened, DspLost
  <2>2. FifosOK' /\ ListOK'
        BY <1>0, <1>4, <2>1, ListSame DEF Typed, FifosOK
  <2>3. DataOK'
        BY <1>4, <2>1 DEF Typed, DataOK
  <2> QED BY <1>0, <1>3, <2>2, <2>3 DEF Typed
<1> QED BY <1>5, <1>6, <1>7 DEF WatchNext

-----------------------------------------------------------------------------
(* The policy manager.                                                     *)

\* The list of the policy manager holds instances, and so do its responses.
LEMMA GrantOK ==
    ASSUME fromPM \in Seq(PMRsp), pComponentList \in Seq(Inst), NEW inst \in Inst, NEW x, NEW priority,
           NEW preempted \in Seq(PMRsp), PM!GrantPolicy(inst, x, priority, preempted)
    PROVE  fromPM' \in Seq(PMRsp) /\ pComponentList' \in Seq(Inst)
<1> DEFINE r == PM!Response("PM_GRANTPOLICY", inst)
<1>1. r \in PMRsp
      BY DEF PM!Response, PMRsp
<1>2. fromPM' = fromPM \o preempted \o <<r>>
      BY DEF PM!GrantPolicy
<1> HIDE DEF r
<1>3. fromPM' \in Seq(PMRsp)
  <2>1. fromPM \o preempted \in Seq(PMRsp) /\ <<r>> \in Seq(PMRsp)
        BY <1>1
  <2> QED BY <1>2, <2>1
<1>4. pComponentList' = pComponentList \/ pComponentList' = Append(pComponentList, inst)
      BY DEF PM!GrantPolicy, PM!Register
<1>5. CASE pComponentList' = pComponentList
      BY <1>3, <1>5
<1>6. CASE pComponentList' = Append(pComponentList, inst)
      BY <1>3, <1>6
<1> QED BY <1>4, <1>5, <1>6

\* A denial changes nothing but the pipe.
LEMMA DenyOK ==
    ASSUME fromPM \in Seq(PMRsp), pComponentList \in Seq(Inst), NEW inst \in Inst, PM!DenyPolicy(inst)
    PROVE  fromPM' \in Seq(PMRsp) /\ pComponentList' \in Seq(Inst)
<1> DEFINE r == PM!Response("PM_DENYPOLICY", inst)
<1>1. r \in PMRsp
      BY DEF PM!Response, PMRsp
<1>2. fromPM' = Append(fromPM, r) /\ pComponentList' = pComponentList
      BY DEF PM!DenyPolicy
<1> HIDE DEF r
<1> QED BY <1>1, <1>2

\* The policy manager's handling of one command.
LEMMA PolicyHandled ==
    ASSUME fromPM \in Seq(PMRsp), pComponentList \in Seq(Inst), NEW cmd \in PMCmd,
           PM!HandleCommand(cmd)
    PROVE  /\ fromPM' \in Seq(PMRsp) /\ pComponentList' \in Seq(Inst)
           /\ cmd.PM_Cmd = "PM_FreePolicy" => fromPM' = fromPM
<1> DEFINE inst == cmd.inst
           x == cmd.param1
           all == [i \in DOMAIN pComponentList |-> PM!PreemptComponent(pComponentList[i])]
<1>0. inst \in Inst /\ cmd.PM_Cmd \in {"PM_RequestPolicy", "PM_FreePolicy", "PM_FreeResources"}
      BY DEF PMCmd
<1>1. ASSUME NEW i \in DOMAIN pComponentList
      PROVE  PM!PreemptComponent(pComponentList[i]) \in PMRsp
      BY DEF PM!PreemptComponent, PM!Response, PMRsp
<1>2. all \in Seq(PMRsp)
  <2>1. Len(pComponentList) \in Nat /\ DOMAIN pComponentList = 1..Len(pComponentList)
        OBVIOUS
  <2> QED BY <1>1, <2>1
<1>3. <<>> \in Seq(PMRsp)
      OBVIOUS
<1>4. CASE cmd.PM_Cmd = "PM_RequestPolicy"
  <2>1. PM!HandleRequestPolicy(inst, x)
        BY <1>4 DEF PM!HandleCommand
  <2>2. PM!DenyPolicy(inst) \/ \E priority : PM!GrantPolicy(inst, x, priority, <<>>)
                                          \/ PM!GrantPolicy(inst, x, priority, all)
        BY <2>1 DEF PM!HandleRequestPolicy, PM!FirstRequestGranted, PM!FirstRequestDenied,
               PM!GrantedByActiveCombination, PM!GrantedByCoexistence, PM!GrantedByPreemption,
               PM!RequestDenied
  <2> HIDE DEF inst, x, all
  <2> QED BY <1>0, <1>2, <1>3, <1>4, <2>2, GrantOK, DenyOK
<1>5. CASE cmd.PM_Cmd = "PM_FreeResources"
  <2>1. PM!HandleFreeResources(inst, x)
        BY <1>5 DEF PM!HandleCommand
  <2>2. PM!DenyPolicy(inst) \/ \E i \in DOMAIN pComponentList : \E priority :
            PM!GrantPolicy(inst, x, priority, <<PM!PreemptComponent(pComponentList[i])>>)
        BY <2>1 DEF PM!HandleFreeResources
  <2>3. \A i \in DOMAIN pComponentList : <<PM!PreemptComponent(pComponentList[i])>> \in Seq(PMRsp)
        BY <1>1
  <2> HIDE DEF inst, x
  <2> QED BY <1>0, <1>5, <2>2, <2>3, GrantOK, DenyOK
<1>6. CASE cmd.PM_Cmd = "PM_FreePolicy"
  <2>1. PM!RemoveComponentFromList(inst, x) /\ fromPM' = fromPM
        BY <1>6 DEF PM!HandleCommand, PM!HandleFreePolicy
  <2>2. pComponentList' \in Seq(Inst)
    <3>1. CASE PM!FirstWithInstance(inst) = {}
          BY <2>1, <3>1 DEF PM!RemoveComponentFromList
    <3>2. CASE PM!FirstWithInstance(inst) # {}
      <4> DEFINE m == CHOOSE i \in PM!FirstWithInstance(inst) : TRUE
                 n == Len(pComponentList)
      <4>1. m \in DOMAIN pComponentList
            BY <3>2 DEF PM!FirstWithInstance
      <4>2. pComponentList' = PM!Truncate(PM!ShiftUp(pComponentList, m))
            BY <2>1, <3>2 DEF PM!RemoveComponentFromList
      <4> HIDE DEF m
      <4>3. n \in Nat /\ DOMAIN pComponentList = 1..n /\ m \in 1..n /\ n - 1 \in Nat
            BY <4>1
      <4> DEFINE s == PM!ShiftUp(pComponentList, m)
      <4>4. s = [i \in 1..n |-> IF i >= m /\ i < n THEN pComponentList[i + 1] ELSE pComponentList[i]]
            BY <4>3 DEF PM!ShiftUp
      <4>5. s \in Seq(Inst) /\ Len(s) = n
        <5>1. ASSUME NEW i \in 1..n
              PROVE (IF i >= m /\ i < n THEN pComponentList[i + 1] ELSE pComponentList[i]) \in Inst
          <6>1. i < n => i + 1 \in 1..n
                BY <4>3
          <6> QED BY <4>3, <6>1
        <5> HIDE DEF n
        <5> QED BY <4>3, <4>4, <5>1
      <4> HIDE DEF s, n
      <4>6. pComponentList' = [i \in 1..(n - 1) |-> s[i]]
            BY <4>2, <4>5 DEF PM!Truncate, s
      <4>7. \A i \in 1..(n - 1) : s[i] \in Inst
            BY <4>3, <4>5
      <4> QED BY <4>3, <4>6, <4>7
    <3> QED BY <3>1, <3>2
  <2> QED BY <2>1, <2>2
<1> QED BY <1>0, <1>4, <1>5, <1>6

\* The policy manager takes a command of the resource manager.
LEMMA PolicyManagerOK ==
    ASSUME Typed, PolicyManagerStep PROVE Typed'
<1> DEFINE cmd == Head(toPM)
<1>1. toPM # <<>> /\ toPM \in Seq(PMCmd) /\ toPM' = Tail(toPM) /\ PM!HandleCommand(cmd)
      BY DEF PolicyManagerStep, Typed, FifosOK
<1>2. cmd \in PMCmd /\ toPM' \in Seq(PMCmd) /\ cmd = toPM[1] /\ 1 \in DOMAIN toPM
      /\ \A i \in DOMAIN toPM' : i + 1 \in DOMAIN toPM /\ toPM'[i] = toPM[i + 1]
      BY <1>1
<1> HIDE DEF cmd
<1>3. /\ fromPM' \in Seq(PMRsp) /\ pComponentList' \in Seq(Inst)
      /\ cmd.PM_Cmd = "PM_FreePolicy" => fromPM' = fromPM
      BY <1>1, <1>2, PolicyHandled DEF Typed, FifosOK
<1>4. UNCHANGED <<toRM, rmPipe, componentList, openPipes, cmd_data,
                  globalrequest_cmd_data, stub_mode, mmuRecoveryInProgress,
                  totalCpu, cyclesAvailable, rmPc, rmExit, watch, clientVars>>
      BY DEF PolicyManagerStep
<1>5. ListOK' /\ ManagerOK'
      BY <1>4, ListSame DEF Typed, ManagerOK
<1>6. FifosOK'
      BY <1>2, <1>3, <1>4 DEF Typed, FifosOK
<1>7. ClientOK' /\ Asking'
      BY <1>4 DEF Typed, ClientOK, Asking, clientVars
<1>8. DataOK'
  <2>1. cmd_data \in Cmd
        BY <1>1 DEF Typed, DataOK
  <2>2. CASE globalrequest_cmd_data \in Req
        BY <1>4, <2>1, <2>2 DEF DataOK
  <2>3. CASE /\ fromPM = <<>> /\ rmPc # "qos"
             /\ \A i \in DOMAIN toPM : toPM[i].PM_Cmd = "PM_FreePolicy"
        BY <1>2, <1>3, <1>4, <2>1, <2>3 DEF DataOK
  <2> QED BY <2>2, <2>3 DEF Typed, DataOK
<1> QED BY <1>5, <1>6, <1>7, <1>8 DEF Typed

-----------------------------------------------------------------------------
(* The clients.                                                            *)

\* A step that touches the command pipe, the replies and the clients only.
ClientSide ==
    /\ UNCHANGED <<toPM, fromPM, componentList, openPipes, cmd_data, globalrequest_cmd_data,
                   stub_mode, mmuRecoveryInProgress, totalCpu, rmPc, rmExit, watch, pmLocal>>
    /\ toRM' \in Seq(Cmd)
    /\ rmPipe' \in [Pids -> Seq(Rep)]

\* What is left to show for such a step.
LEMMA ClientSideOK ==
    ASSUME Typed, ClientSide, ClientOK', Asking' PROVE Typed'
<1>1. ListOK' /\ ManagerOK'
      BY ListSame DEF Typed, ManagerOK, ClientSide
<1>2. FifosOK' /\ DataOK'
      BY DEF Typed, FifosOK, DataOK, ClientSide, pmLocal
<1> QED BY <1>1, <1>2 DEF Typed

\* A command that is sent.
LEMMA SendOK ==
    ASSUME Typed, NEW cmd \in CmdNames, NEW inst \in Inst, NEW kind \in Components,
           NEW param2 \in Word, NEW param4 \in Handles \cup {NoInst},
           toRM' = Append(toRM, Command(cmd, inst, kind, param2, param4))
    PROVE  toRM' \in Seq(Cmd)
<1> DEFINE m == Command(cmd, inst, kind, param2, param4)
<1>1. m \in Cmd
      BY DEF Command, Cmd, Statuses
<1> HIDE DEF m
<1>2. toRM' = Append(toRM, m) /\ toRM \in Seq(Cmd)
      BY DEF m, Typed, FifosOK
<1> QED BY <1>1, <1>2

\* A command of a component itself.
LEMMA ClientSendOK ==
    ASSUME Typed, NEW c \in Clients, NEW cmd \in CmdNames, NEW param2 \in Word, Send(c, cmd, param2, NoInst)
    PROVE  toRM' \in Seq(Cmd)
<1>1. c \in Inst /\ KindOf[c] \in Components /\ NoInst \in Handles \cup {NoInst}
      BY Constants
<1> QED BY <1>1, SendOK DEF Send

\* A component takes its first step of a request: no other of its process has one.
LEMMA ConnectsOK ==
    ASSUME Typed, NEW c \in Clients, RequestConnects(c) PROVE Typed'
<1>0. c \in Inst /\ c.pid \in Pids /\ c.h \in Handles /\ KindOf[c] \in Components /\ CpuOf[c] \in Word
      BY Constants
<1>1. /\ \A d \in Clients : d.pid = c.pid => curState[d] \notin InRequest
      /\ numClients[c.pid] < MaxRequests
      /\ UNCHANGED <<rmPipe, toPM, fromPM, componentList, openPipes, cmd_data,
                     globalrequest_cmd_data, stub_mode, mmuRecoveryInProgress, totalCpu, rmPc,
                     rmExit, watch, pmLocal, numClients>>
      BY DEF RequestConnects, CanSend, responsePending, Requester, RMUnchangedButIn
<1>2. CASE numClients[c.pid] = 0
  <2>1. /\ Send(c, "RM_OpenPipe", CpuOf[c], NoInst)
        /\ threadhandle' = [threadhandle EXCEPT ![c.pid] = c.h]
        /\ rmDataPid' = [rmDataPid EXCEPT ![c.pid] = c.pid]
        /\ curState' = [curState EXCEPT ![c] = "connecting"]
        BY <1>2 DEF RequestConnects
  <2>2. toRM' \in Seq(Cmd)
        BY <1>0, <2>1, ClientSendOK DEF CmdNames
  <2>3. ClientSide
        BY <1>1, <2>2 DEF ClientSide, Typed, FifosOK
  <2>4. ClientOK'
        BY <1>0, <1>1, <2>1 DEF Typed, ClientOK, States, InRequest
  <2>5. Asking'
        BY <1>0, <1>1, <2>1 DEF Typed, ClientOK, Asking, InRequest
  <2> QED BY <2>3, <2>4, <2>5, ClientSideOK
<1>3. CASE numClients[c.pid] # 0
  <2>1. /\ toRM' = Append(toRM, Command("RM_ReusePipe", [c EXCEPT !.pid = rmDataPid[c.pid]],
                                        KindOf[c], CpuOf[c], threadhandle[c.pid]))
        /\ curState' = [curState EXCEPT ![c] = "sending"]
        /\ UNCHANGED <<threadhandle, rmDataPid>>
        BY <1>3 DEF RequestConnects
  <2>2. rmDataPid[c.pid] \in Pids /\ threadhandle[c.pid] \in Handles \cup {NoInst}
    <3>1. numClients[c.pid] \in Nat
          BY <1>0, Constants DEF Typed, ClientOK
    <3> QED BY <1>0, <1>3, <3>1 DEF Typed, Asking, ClientOK
  <2>3. [c EXCEPT !.pid = rmDataPid[c.pid]] \in Inst
        BY <1>0, <2>2 DEF Inst
  <2>4. toRM' \in Seq(Cmd)
        BY <1>0, <2>1, <2>2, <2>3, SendOK DEF CmdNames
  <2>5. ClientSide
        BY <1>1, <2>4 DEF ClientSide, Typed, FifosOK
  <2>6. ClientOK'
        BY <1>0, <1>1, <2>1 DEF Typed, ClientOK, States, InRequest
  <2>7. Asking'
        BY <1>0, <1>1, <2>1, <2>2 DEF Typed, ClientOK, Asking, InRequest
  <2> QED BY <2>5, <2>6, <2>7, ClientSideOK
<1> QED BY <1>2, <1>3

\* A component whose request is under way takes its next step.
LEMMA RequestStepOK ==
    ASSUME Typed, NEW c \in Clients, PipeOpened(c) \/ RequestResource(c) PROVE Typed'
<1>0. c \in Inst /\ c.pid \in Pids /\ CpuOf[c] \in Word
      BY Constants
<1>1. CASE PipeOpened(c)
  <2>1. /\ curState[c] = "connecting" /\ curState' = [curState EXCEPT ![c] = "sending"]
        /\ UNCHANGED <<rmVars, pmLocal, numClients, threadhandle, rmDataPid>>
        BY <1>1 DEF PipeOpened
  <2>2. ClientSide
        BY <2>1 DEF ClientSide, Typed, FifosOK, rmVars
  <2>3. ClientOK' /\ Asking'
        BY <1>0, <2>1 DEF Typed, ClientOK, Asking, InRequest, States
  <2> QED BY <2>2, <2>3, ClientSideOK
<1>2. CASE RequestResource(c)
  <2>1. /\ curState[c] = "sending" /\ curState' = [curState EXCEPT ![c] = "requesting"]
        /\ Send(c, "RM_RequestResource", CpuOf[c], NoInst)
        /\ numClients' = [numClients EXCEPT ![c.pid] = @ + 1]
        /\ UNCHANGED <<pmLocal, threadhandle, rmDataPid>> /\ RMUnchangedButIn
        BY <1>2 DEF RequestResource
  <2>2. toRM' \in Seq(Cmd)
        BY <1>0, <2>1, ClientSendOK DEF CmdNames
  <2>3. ClientSide
        BY <2>1, <2>2 DEF ClientSide, Typed, FifosOK, RMUnchangedButIn
  <2>4. numClients[c.pid] \in Nat /\ numClients[c.pid] < MaxRequests /\ rmDataPid[c.pid] \in Pids
        BY <1>0, <2>1, Constants DEF Typed, ClientOK, Asking
  <2>5. ClientOK'
        BY <1>0, <2>1, <2>4, Constants DEF Typed, ClientOK, InRequest, States
  <2>6. \A d \in Clients : curState'[d] \in {"connecting", "sending"} => d.pid # c.pid
        BY <2>1 DEF Typed, ClientOK, Asking, InRequest
  <2>7. Asking'
        BY <1>0, <2>1, <2>4, <2>6 DEF Typed, ClientOK, Asking, InRequest
  <2> QED BY <2>3, <2>5, <2>7, ClientSideOK
<1> QED BY <1>1, <1>2

\* A component that leaves a state or goes to one that is no request.
LEMMA LeavesOK ==
    ASSUME ClientOK, Asking, UNCHANGED <<numClients, threadhandle, rmDataPid>>,
           NEW C \in SUBSET Clients, NEW s \in States \ InRequest,
           curState' = [c \in Clients |-> IF c \in C THEN s ELSE curState[c]]
    PROVE  ClientOK' /\ Asking'
<1>1. \A c \in Clients : curState'[c] \in InRequest => curState'[c] = curState[c]
      OBVIOUS
<1>2. "connecting" \in InRequest /\ "sending" \in InRequest
      BY DEF InRequest
<1>3. ClientOK'
      BY DEF ClientOK
<1>4. Asking'
      BY <1>1, <1>2 DEF Asking
<1> QED BY <1>3, <1>4

\* The steps of a component that change no counter.
LEMMA PlainStepOK ==
    ASSUME Typed, NEW c \in Clients,
           \/ \E new \in DOMAIN StateCode : StateSet(c, new)
           \/ PreemptedGoesIdle(c) \/ GoesLoaded(c) \/ ForeignCommand(c)
    PROVE  Typed'
<1>0. c \in Inst /\ c.pid \in Pids /\ ClientOK /\ Asking
      BY Constants DEF Typed
<1>1. ASSUME NEW s \in States \ InRequest, curState' = [curState EXCEPT ![c] = s],
             UNCHANGED <<numClients, threadhandle, rmDataPid>>
      PROVE  ClientOK' /\ Asking'
  <2>1. curState' = [d \in Clients |-> IF d \in {c} THEN s ELSE curState[d]]
        BY <1>0, <1>1 DEF ClientOK
  <2>2. {c} \in SUBSET Clients
        OBVIOUS
  <2> QED BY <1>0, <1>1, <2>1, <2>2, LeavesOK
<1>2. ASSUME UNCHANGED <<curState, numClients, threadhandle, rmDataPid>> PROVE ClientOK' /\ Asking'
      BY <1>0, <1>2 DEF ClientOK, Asking
<1>3. DOMAIN StateCode \subseteq States \ InRequest /\ "Idle" \in States \ InRequest
      /\ "Loaded" \in States \ InRequest
      BY DEF StateCode, States, InRequest
<1>4. toRM \in Seq(Cmd) /\ rmPipe \in [Pids -> Seq(Rep)]
      BY DEF Typed, FifosOK
<1>5. ASSUME NEW new \in DOMAIN StateCode, StateSet(c, new) PROVE Typed'
  <2>1. /\ Send(c, "RM_StateSet", StateCode[new], NoInst) /\ curState' = [curState EXCEPT ![c] = new]
        /\ RMUnchangedButIn /\ UNCHANGED <<pmLocal, numClients, threadhandle, rmDataPid>>
        BY <1>5 DEF StateSet
  <2>2. toRM' \in Seq(Cmd)
        BY <2>1, Codes, ClientSendOK DEF CmdNames
  <2>3. ClientSide
        BY <1>4, <2>1, <2>2 DEF ClientSide, RMUnchangedButIn
  <2> QED BY <1>1, <1>3, <2>1, <2>3, ClientSideOK
<1>6. CASE PreemptedGoesIdle(c)
  <2>1. RMUnchangedButIn /\ UNCHANGED <<pmLocal, numClients, threadhandle, rmDataPid>>
        BY <1>6 DEF PreemptedGoesIdle
  <2>2. CASE UNCHANGED <<toRM, curState>>
    <3>1. ClientSide
          BY <1>4, <2>1, <2>2 DEF ClientSide, RMUnchangedButIn
    <3> QED BY <1>2, <2>1, <2>2, <3>1, ClientSideOK
  <2>3. CASE /\ Send(c, "RM_StateSet", OMX_StateIdle, NoInst)
             /\ curState' = [curState EXCEPT ![c] = "Idle"]
    <3>1. toRM' \in Seq(Cmd)
          BY <2>3, Codes, ClientSendOK DEF CmdNames
    <3>2. ClientSide
          BY <1>4, <2>1, <3>1 DEF ClientSide, RMUnchangedButIn
    <3> QED BY <1>1, <1>3, <2>1, <2>3, <3>2, ClientSideOK
  <2> QED BY <1>6, <2>2, <2>3 DEF PreemptedGoesIdle
<1>7. CASE GoesLoaded(c)
  <2>1. curState' = [curState EXCEPT ![c] = "Loaded"]
        /\ UNCHANGED <<rmVars, pmLocal, numClients, threadhandle, rmDataPid>>
        BY <1>7 DEF GoesLoaded
  <2>2. ClientSide
        BY <1>4, <2>1 DEF ClientSide, rmVars
  <2> QED BY <1>1, <1>3, <2>1, <2>2, ClientSideOK
<1>8. CASE ForeignCommand(c)
  <2>1. /\ \E cmd \in {"RM_WaitForResource", "RM_CancelWaitForResource", "RM_ExitTI"} :
               Send(c, cmd, 0, NoInst)
        /\ RMUnchangedButIn /\ UNCHANGED <<pmLocal, clientVars>>
        BY <1>8 DEF ForeignCommand
  <2>2. toRM' \in Seq(Cmd)
        BY <2>1, ClientSendOK, Constants DEF CmdNames, Word
  <2>3. ClientSide
        BY <1>4, <2>1, <2>2 DEF ClientSide, RMUnchangedButIn
  <2> QED BY <1>2, <2>1, <2>3, ClientSideOK DEF clientVars
<1> QED BY <1>5, <1>6, <1>7, <1>8

\* The counter of a process that frees.
LEMMA FloorOK ==
    ASSUME NEW n \in 0..MaxRequests
    PROVE  Floor(n) \in 0..MaxRequests /\ (Floor(n) > 0 => n > 0)
BY Constants DEF Floor

\* A process without a request frees a component of its own.
LEMMA FreesOK ==
    ASSUME Typed, NEW c \in Clients, NEW s \in States \ InRequest, ~ responsePending(c.pid),
           numClients' = [numClients EXCEPT ![c.pid] = Floor(@)],
           curState' = [curState EXCEPT ![c] = s], threadhandle' = threadhandle,
           rmDataPid' \in [Pids -> Pids \cup {NoInst}],
           \A p \in Pids : rmDataPid[p] \in Pids => rmDataPid'[p] \in Pids
    PROVE  ClientOK' /\ Asking'
<1>0. c.pid \in Pids /\ MaxRequests \in Nat /\ \A d \in Clients : d.pid \in Pids
      BY Constants
<1>1. \A d \in Clients : d.pid = c.pid => curState[d] \notin InRequest
      BY DEF responsePending, Requester
<1>2. /\ \A p \in Pids : numClients[p] \in 0..MaxRequests
      /\ curState \in [Clients -> States] /\ numClients \in [Pids -> 0..MaxRequests]
      /\ threadhandle \in [Pids -> Handles \cup {NoInst}]
      BY DEF Typed, ClientOK
<1>3. Floor(numClients[c.pid]) \in 0..MaxRequests /\ (Floor(numClients[c.pid]) > 0 => numClients[c.pid] > 0)
      BY <1>0, <1>2, FloorOK
<1>4. ClientOK'
      BY <1>0, <1>2, <1>3 DEF ClientOK
<1>5. \A d \in Clients : curState'[d] \in InRequest => curState'[d] = curState[d] /\ d.pid # c.pid
      BY <1>1, <1>2
<1>6. \A p \in Pids : numClients'[p] > 0 => numClients[p] > 0
      BY <1>0, <1>2, <1>3
<1>7. \A p \in Pids : p # c.pid => numClients'[p] = numClients[p]
      BY <1>0, <1>2
<1>8. "connecting" \in InRequest /\ "sending" \in InRequest
      BY DEF InRequest
<1>9. Asking'
  <2>1. \A p \in Pids : numClients'[p] > 0 => rmDataPid'[p] \in Pids
        BY <1>6 DEF Typed, Asking
  <2>2. ASSUME NEW d \in Clients, curState'[d] \in {"connecting", "sending"}
        PROVE  rmDataPid'[d.pid] \in Pids /\ numClients'[d.pid] < MaxRequests
    <3>1. curState'[d] = curState[d] /\ d.pid # c.pid /\ d.pid \in Pids
          BY <1>0, <1>5, <1>8, <2>2
    <3>2. rmDataPid[d.pid] \in Pids /\ numClients[d.pid] < MaxRequests
          BY <2>2, <3>1 DEF Typed, Asking
    <3> QED BY <1>7, <3>1, <3>2
  <2>3. \A d, e \in Clients : curState'[d] \in InRequest /\ curState'[e] \in InRequest
            /\ d.pid = e.pid => d = e
        BY <1>5 DEF Typed, Asking
  <2> QED BY <2>1, <2>2, <2>3 DEF Asking
<1> QED BY <1>4, <1>9

\* ComponentDeInit.
LEMMA DeInitOK ==
    ASSUME Typed, NEW c \in Clients, DeInit(c) PROVE Typed'
<1>1. /\ ~ responsePending(c.pid) /\ Send(c, FreeCommand(c.pid), 0, NoInst)
      /\ numClients' = [numClients EXCEPT ![c.pid] = Floor(@)]
      /\ curState' = [curState EXCEPT ![c] = "Loaded"]
      /\ RMUnchangedButIn /\ UNCHANGED <<pmLocal, threadhandle, rmDataPid>>
      BY DEF DeInit, CanSend
<1>2. FreeCommand(c.pid) \in CmdNames /\ 0 \in Word /\ "Loaded" \in States \ InRequest
      BY Constants DEF FreeCommand, CmdNames, Word, States, InRequest
<1>3. toRM' \in Seq(Cmd)
      BY <1>1, <1>2, ClientSendOK
<1>4. ClientSide
      BY <1>1, <1>3 DEF ClientSide, RMUnchangedButIn, Typed, FifosOK
<1>5. rmDataPid' \in [Pids -> Pids \cup {NoInst}]
      /\ \A p \in Pids : rmDataPid[p] \in Pids => rmDataPid'[p] \in Pids
      BY <1>1 DEF Typed, ClientOK
<1>6. ClientOK' /\ Asking'
      BY <1>1, <1>2, <1>5, FreesOK
<1> QED BY <1>4, <1>6, ClientSideOK

-----------------------------------------------------------------------------
(* The proxy threads.                                                      *)

\* A reply that is read leaves the number of a process in rm_data.
LEMMA ReplyRead ==
    ASSUME Typed, NEW p \in Pids, NEW status, ReadReply(p, status)
    PROVE  /\ rmPipe' \in [Pids -> Seq(Rep)]
           /\ rmDataPid' \in [Pids -> Pids \cup {NoInst}]
           /\ \A q \in Pids : rmDataPid[q] \in Pids => rmDataPid'[q] \in Pids
           /\ threadhandle' = threadhandle
           /\ UNCHANGED <<toPM, fromPM, componentList, openPipes, cmd_data, globalrequest_cmd_data,
                          stub_mode, mmuRecoveryInProgress, totalCpu, rmPc, rmExit, watch, pmLocal>>
<1>1. /\ rmPipe[p] # <<>> /\ rmPipe' = [rmPipe EXCEPT ![p] = Tail(@)]
      /\ rmDataPid' = [rmDataPid EXCEPT ![p] = Head(rmPipe[p]).inst.pid]
      /\ rmPipe \in [Pids -> Seq(Rep)] /\ rmDataPid \in [Pids -> Pids \cup {NoInst}]
      BY DEF ReadReply, Typed, FifosOK, ClientOK
<1>2. Head(rmPipe[p]) \in Rep /\ Tail(rmPipe[p]) \in Seq(Rep)
      BY <1>1
<1>3. Head(rmPipe[p]).inst.pid \in Pids
      BY <1>2 DEF Rep, Inst
<1>4. rmPipe' \in [Pids -> Seq(Rep)]
      BY <1>1, <1>2
<1>5. rmDataPid' \in [Pids -> Pids \cup {NoInst}]
      /\ \A q \in Pids : rmDataPid[q] \in Pids => rmDataPid'[q] \in Pids
      BY <1>1, <1>3
<1> QED BY <1>4, <1>5 DEF ReadReply

\* A reply that moves some components out of a request and frees none.
LEMMA ReplyOK ==
    ASSUME Typed, NEW p \in Pids, NEW status, ReadReply(p, status), numClients' = numClients,
           toRM' \in Seq(Cmd), NEW C \in SUBSET Clients, NEW s \in States \ InRequest,
           curState' = [c \in Clients |-> IF c \in C THEN s ELSE curState[c]]
    PROVE  Typed'
<1>1. /\ rmPipe' \in [Pids -> Seq(Rep)]
      /\ rmDataPid' \in [Pids -> Pids \cup {NoInst}]
      /\ \A q \in Pids : rmDataPid[q] \in Pids => rmDataPid'[q] \in Pids
      /\ threadhandle' = threadhandle
      /\ UNCHANGED <<toPM, fromPM, componentList, openPipes, cmd_data, globalrequest_cmd_data,
                     stub_mode, mmuRecoveryInProgress, totalCpu, rmPc, rmExit, watch, pmLocal>>
      BY ReplyRead
<1>2. ClientSide
      BY <1>1 DEF ClientSide
<1>3. ClientOK'
      BY <1>1 DEF Typed, ClientOK
<1>4. \A c \in Clients : curState'[c] \in InRequest => curState'[c] = curState[c]
      OBVIOUS
<1>5. "connecting" \in InRequest /\ "sending" \in InRequest /\ \A c \in Clients : c.pid \in Pids
      BY Constants DEF InRequest
<1>6. Asking'
      BY <1>1, <1>4, <1>5 DEF Typed, Asking
<1> QED BY <1>2, <1>3, <1>6, ClientSideOK

\* The proxy thread of a process.
LEMMA ProxyOK ==
    ASSUME Typed, NEW p \in Pids, ProxyStep(p) PROVE Typed'
<1>0. /\ {"Idle", "WaitForResources", "Loaded", "Invalid"} \subseteq States \ InRequest
      /\ curState \in [Clients -> States] /\ toRM \in Seq(Cmd) /\ Requester(p) \in SUBSET Clients
      BY DEF States, InRequest, StateCode, Typed, ClientOK, FifosOK, Requester
<1>1. ASSUME NEW status, ReadReply(p, status), UNCHANGED <<toRM, curState, numClients>> PROVE Typed'
  <2>1. curState' = [c \in Clients |-> IF c \in {} THEN "Idle" ELSE curState[c]]
        BY <1>0, <1>1
  <2>2. {} \in SUBSET Clients /\ "Idle" \in States \ InRequest
        BY <1>0
  <2> QED BY <1>0, <1>1, <2>1, <2>2, ReplyOK
<1>2. CASE Granted(p)
  <2>1. CASE UNCHANGED <<curState, toRM>>
        BY <1>1, <1>2, <2>1 DEF Granted
  <2>2. ASSUME NEW c \in Requester(p), curState' = [curState EXCEPT ![c] = "Idle"],
               Send(c, "RM_StateSet", OMX_StateIdle, NoInst)
        PROVE  Typed'
    <3>1. c \in Clients /\ {c} \in SUBSET Clients /\ "Idle" \in States \ InRequest
          BY <1>0
    <3>2. curState' = [d \in Clients |-> IF d \in {c} THEN "Idle" ELSE curState[d]]
          BY <1>0, <2>2, <3>1
    <3>3. toRM' \in Seq(Cmd)
          BY <2>2, <3>1, Codes, ClientSendOK DEF CmdNames
    <3>4. ReadReply(p, "RM_GRANT") /\ numClients' = numClients
          BY <1>2 DEF Granted
    <3> QED BY <3>1, <3>2, <3>3, <3>4, ReplyOK
  <2> QED BY <1>2, <2>1, <2>2 DEF Granted
<1>3. CASE Denied(p)
  <2>1. /\ ReadReply(p, "RM_DENY") /\ toRM' = toRM /\ numClients' = numClients
        /\ curState' = [c \in Clients |->
               IF c \in Requester(p) THEN "WaitForResources" ELSE curState[c]]
        BY <1>3 DEF Denied
  <2> QED BY <1>0, <2>1, ReplyOK
<1>4. CASE Preempted(p)
      BY <1>1, <1>4 DEF Preempted
<1>5. CASE Informed(p)
      BY <1>1, <1>5 DEF Informed
<1>6. CASE FatalErrorIgnored(p)
      BY <1>1, <1>6 DEF FatalErrorIgnored
<1>7. CASE FatalError(p)
  <2>1. ReadReply(p, "RM_RESOURCEFATALERROR")
        BY <1>7 DEF FatalError
  <2>2. CASE responsePending(p)
    <3>1. /\ curState' = [c \in Clients |-> IF c \in Requester(p) THEN "Loaded" ELSE curState[c]]
          /\ UNCHANGED <<toRM, numClients>>
          BY <1>7, <2>2 DEF FatalError
    <3> QED BY <1>0, <2>1, <3>1, ReplyOK
  <2>3. CASE UNCHANGED <<curState, toRM, numClients>>
        BY <1>1, <2>1, <2>3
  <2>4. ASSUME ~ responsePending(p), NEW c \in Named(p) \cap used, Send(c, FreeCommand(p), 0, NoInst),
               numClients' = [numClients EXCEPT ![p] = Floor(@)],
               curState' = [curState EXCEPT ![c] = "Invalid"]
        PROVE  Typed'
    <3>1. c \in Clients /\ c.pid = p /\ "Invalid" \in States \ InRequest
          BY <1>0, <2>4 DEF Named
    <3>2. FreeCommand(p) \in CmdNames /\ 0 \in Word
          BY Constants DEF FreeCommand, CmdNames, Word
    <3>3. toRM' \in Seq(Cmd)
          BY <2>4, <3>1, <3>2, ClientSendOK
    <3>4. /\ rmPipe' \in [Pids -> Seq(Rep)]
          /\ rmDataPid' \in [Pids -> Pids \cup {NoInst}]
          /\ \A q \in Pids : rmDataPid[q] \in Pids => rmDataPid'[q] \in Pids
          /\ threadhandle' = threadhandle
          /\ UNCHANGED <<toPM, fromPM, componentList, openPipes, cmd_data, globalrequest_cmd_data,
                         stub_mode, mmuRecoveryInProgress, totalCpu, rmPc, rmExit, watch, pmLocal>>
          BY <2>1, ReplyRead
    <3>5. ClientSide
          BY <3>3, <3>4 DEF ClientSide
    <3>6. ClientOK' /\ Asking'
          BY <2>4, <3>1, <3>4, FreesOK
    <3> QED BY <3>5, <3>6, ClientSideOK
  <2> QED BY <1>7, <2>2, <2>3, <2>4 DEF FatalError
<1> QED BY <1>2, <1>3, <1>4, <1>5, <1>6, <1>7 DEF ProxyStep

-----------------------------------------------------------------------------
(* The theorems.                                                           *)

\* Nothing is registered and nothing has been sent at the start.
LEMMA InitTyped == Init => Typed
<1> SUFFICES ASSUME Init PROVE Typed
    OBVIOUS
<1>1. /\ toRM = <<>> /\ rmPipe = [p \in Pids |-> <<>>] /\ toPM = <<>> /\ fromPM = <<>>
      /\ componentList = <<>> /\ openPipes = [fd \in {} |-> NoInst]
      /\ cmd_data = [RM_Cmd |-> "none", inst |-> [h |-> NoInst, pid |-> NoInst],
                     param1 |-> NoInst, param2 |-> 0, param4 |-> NoInst,
                     rm_status |-> "RM_ErrorNone"]
      /\ stub_mode = FALSE /\ mmuRecoveryInProgress = FALSE /\ totalCpu = [t \in Types |-> 0]
      /\ rmPc = "select" /\ rmExit = FALSE /\ watch = [pc |-> "reopen", i |-> 0, faults |-> 0]
      /\ pComponentList = <<>>
      BY DEF Init, RMInit, PM!PMInit
<1>2. ListOK
  <2>1. N = 0
        BY <1>1 DEF N
  <2> QED BY <1>1, <2>1, Constants DEF ListOK, RegisteredOnce
<1>3. FifosOK
      BY <1>1 DEF FifosOK
<1>4. ManagerOK
  <2>1. 0 \in Word
        BY Constants DEF Word
  <2>2. DOMAIN openPipes = {}
        BY <1>1
  <2>3. watch \in Watch /\ watch.pc = "reopen"
        BY <1>1 DEF Watch
  <2> QED BY <1>1, <2>1, <2>2, <2>3 DEF ManagerOK
<1>5. DataOK
      BY <1>1 DEF DataOK
<1>6. ClientOK /\ Asking
      BY Constants DEF Init, ClientOK, Asking, States, InRequest
<1> QED BY <1>2, <1>3, <1>4, <1>5, <1>6 DEF Typed

\* Every step keeps the types and the uniqueness of the entries.
LEMMA NextTyped == Typed /\ [Next]_vars => Typed'
<1> SUFFICES ASSUME Typed, [Next]_vars PROVE Typed'
    OBVIOUS
<1>1. CASE ResourceManagerStep
      BY <1>1, ReadCommandOK, RemoveFreedOK, PolicyStepOK, QosOK DEF ResourceManagerStep, MainNext
<1>2. CASE WatchThreadStep
      BY <1>2, WatchOK DEF WatchThreadStep
<1>3. CASE PolicyManagerStep
      BY <1>3, PolicyManagerOK
<1>4. ASSUME NEW c \in Clients, ComponentStep(c) PROVE Typed'
      BY <1>4, ConnectsOK, RequestStepOK, PlainStepOK, DeInitOK DEF ComponentStep
<1>5. ASSUME NEW p \in Pids, ProxyStep(p) PROVE Typed'
      BY <1>5, ProxyOK
<1>6. CASE UNCHANGED vars
  <2>1. UNCHANGED rmVars /\ UNCHANGED pmLocal /\ UNCHANGED clientVars
        BY <1>6 DEF vars
  <2>2. ClientSide
        BY <2>1 DEF ClientSide, rmVars, Typed, FifosOK
  <2>3. ClientOK' /\ Asking'
        BY <2>1 DEF clientVars, Typed, ClientOK, Asking
  <2> QED BY <2>2, <2>3, ClientSideOK
<1> QED BY <1>1, <1>2, <1>3, <1>4, <1>5, <1>6 DEF Next

\* Typed is an invariant.
LEMMA AlwaysTyped == Spec => []Typed
<1> QED BY InitTyped, NextTyped, PTL DEF Spec

\* Type correctness of the whole system, for every Usage: with DSP faults, stub
\* mode, overlapping requests, components that wait and commands no component
\* sends.  Among it: a reply never names anything but an instance, although
\* cmd_data is scratch space of two threads; the totals stay OMX_U32; and the
\* counter of a process stays between 0 and its bound.
THEOREM TypeCorrect == Spec => []TypeOK
<1>1. Typed => TypeOK
  <2> SUFFICES ASSUME Typed PROVE TypeOK
      OBVIOUS
  <2>1. \A i \in DOMAIN toRM : toRM[i].inst \in Inst /\ toRM[i].param2 \in 0..(Wrap - 1)
    <3>1. \A i \in DOMAIN toRM : toRM[i] \in Cmd
          BY DEF Typed, FifosOK
    <3> QED BY <3>1 DEF Cmd, Word
  <2>2. \A p \in Pids : \A i \in DOMAIN rmPipe[p] : rmPipe[p][i].inst \in Inst
    <3>1. \A p \in Pids : rmPipe[p] \in Seq(Rep)
          BY DEF Typed, FifosOK
    <3>2. \A p \in Pids : \A i \in DOMAIN rmPipe[p] : rmPipe[p][i] \in Rep
          BY <3>1
    <3> QED BY <3>2 DEF Rep
  <2>3. watch.pc \in {"reopen", "monitor", "loop", "write", "poll", "exit"}
        BY DEF Typed, ManagerOK, Watch
  <2>4. N <= MaxComponents /\ totalCpu \in [Types -> 0..(Wrap - 1)]
        BY DEF Typed, ManagerOK, ListOK, Word
  <2>5. {stub_mode, mmuRecoveryInProgress, rmExit} \subseteq BOOLEAN
        BY DEF Typed, ManagerOK
  <2>6. /\ DOMAIN openPipes \subseteq 1..MaxFds /\ rmPc \in {"select", "remove", "qos"}
        /\ curState \in [Clients -> InRequest \cup DOMAIN StateCode \cup {"Loaded", "Invalid"}]
        /\ numClients \in [Pids -> 0..MaxRequests]
        BY DEF Typed, ManagerOK, ClientOK, States
  <2> QED BY <2>1, <2>2, <2>3, <2>4, <2>5, <2>6 DEF TypeOK
<1> QED BY <1>1, AlwaysTyped, PTL

\* RM_AddPipe and RM_RemoveComponentFromList, called by the main thread while the
\* fault thread writes into the entries, keep one entry at most per component,
\* for every number of components and processes and every Usage.
THEOREM RegisteredUnique == Spec => []RegisteredOnce
<1>1. Typed => RegisteredOnce
      BY DEF Typed, ListOK
<1> QED BY <1>1, AlwaysTyped, PTL

-----------------------------------------------------------------------------
(* One decision per request.                                               *)

\* No message of s is in T; one at most is; none that is in F comes after one
\* that is in T.
None(s, T)     == \A i \in DOMAIN s : s[i] \notin T
AtMost(s, T)   == \A i, j \in DOMAIN s : s[i] \in T /\ s[j] \in T => i = j
Ahead(s, T, F) == \A i, j \in DOMAIN s : s[i] \in T /\ s[j] \in F => j < i

\* A message is put at the end.
LEMMA Appended ==
    ASSUME NEW S, NEW s \in Seq(S), NEW m \in S, NEW T, NEW F
    PROVE  /\ None(s, T) /\ m \notin T => None(Append(s, m), T)
           /\ AtMost(s, T) /\ m \notin T => AtMost(Append(s, m), T)
           /\ None(s, T) => AtMost(Append(s, m), T)
           /\ Ahead(s, T, F) /\ m \notin F => Ahead(Append(s, m), T, F)
           /\ None(s, T) => Ahead(s, T, F)
<1> DEFINE t == Append(s, m)
           n == Len(s)
<1>1. /\ n \in Nat /\ DOMAIN s = 1..n /\ DOMAIN t = 1..(n + 1)
      /\ \A i \in 1..n : t[i] = s[i]
      /\ t[n + 1] = m
      OBVIOUS
<1> HIDE DEF t, n
<1>2. \A i \in 1..(n + 1) : i \in 1..n \/ i = n + 1
      BY <1>1
<1>3. None(s, T) /\ m \notin T => None(t, T)
      BY <1>1, <1>2 DEF None
<1>4. AtMost(s, T) /\ m \notin T => AtMost(t, T)
      BY <1>1, <1>2 DEF AtMost
<1>5. None(s, T) => AtMost(t, T)
      BY <1>1, <1>2 DEF None, AtMost
<1>6. Ahead(s, T, F) /\ m \notin F => Ahead(t, T, F)
  <2> SUFFICES ASSUME Ahead(s, T, F), m \notin F, NEW i \in DOMAIN t, NEW j \in DOMAIN t,
                      t[i] \in T, t[j] \in F
               PROVE  j < i
      BY DEF Ahead
  <2>1. j \in 1..n
        BY <1>1, <1>2
  <2>2. CASE i = n + 1
        BY <1>1, <2>1, <2>2
  <2>3. CASE i \in 1..n
        BY <1>1, <2>1, <2>3 DEF Ahead
  <2> QED BY <1>1, <1>2, <2>2, <2>3
<1>7. None(s, T) => Ahead(s, T, F)
      BY DEF None, Ahead
<1> QED BY <1>3, <1>4, <1>5, <1>6, <1>7 DEF t

\* The first message is taken.
LEMMA Taking ==
    ASSUME NEW S, NEW s \in Seq(S), s # <<>>, NEW T, NEW F
    PROVE  /\ None(s, T) => None(Tail(s), T) /\ Head(s) \notin T
           /\ AtMost(s, T) => AtMost(Tail(s), T)
           /\ AtMost(s, T) /\ Head(s) \in T => None(Tail(s), T)
           /\ Ahead(s, T, F) => Ahead(Tail(s), T, F)
           /\ Ahead(s, T, F) /\ Head(s) \in T => None(Tail(s), F)
<1> DEFINE t == Tail(s)
           n == Len(s)
<1>1. /\ n \in Nat /\ n > 0 /\ DOMAIN s = 1..n /\ DOMAIN t = 1..(n - 1)
      /\ \A i \in 1..(n - 1) : t[i] = s[i + 1]
      /\ Head(s) = s[1]
      OBVIOUS
<1> HIDE DEF t, n
<1>2. 1 \in 1..n /\ \A i \in 1..(n - 1) : i + 1 \in 1..n /\ i \in Nat /\ i >= 1
      BY <1>1
<1>3. None(s, T) => None(t, T) /\ Head(s) \notin T
      BY <1>1, <1>2 DEF None
<1>4. AtMost(s, T) => AtMost(t, T)
  <2> SUFFICES ASSUME AtMost(s, T), NEW i \in DOMAIN t, NEW j \in DOMAIN t, t[i] \in T, t[j] \in T
               PROVE  i = j
      BY DEF AtMost
  <2>1. i + 1 = j + 1
        BY <1>1, <1>2 DEF AtMost
  <2> QED BY <1>1, <1>2, <2>1
<1>5. AtMost(s, T) /\ Head(s) \in T => None(t, T)
  <2> SUFFICES ASSUME AtMost(s, T), Head(s) \in T, NEW i \in DOMAIN t, t[i] \in T PROVE FALSE
      BY DEF None
  <2>1. i + 1 = 1
        BY <1>1, <1>2 DEF AtMost
  <2> QED BY <1>1, <1>2, <2>1
<1>6. Ahead(s, T, F) => Ahead(t, T, F)
  <2> SUFFICES ASSUME Ahead(s, T, F), NEW i \in DOMAIN t, NEW j \in DOMAIN t, t[i] \in T, t[j] \in F
               PROVE  j < i
      BY DEF Ahead
  <2>1. j + 1 < i + 1
        BY <1>1, <1>2 DEF Ahead
  <2> QED BY <1>1, <1>2, <2>1
<1>7. Ahead(s, T, F) /\ Head(s) \in T => None(t, F)
  <2> SUFFICES ASSUME Ahead(s, T, F), Head(s) \in T, NEW i \in DOMAIN t, t[i] \in F PROVE FALSE
      BY DEF None
  <2>1. i + 1 < 1
        BY <1>1, <1>2 DEF Ahead
  <2> QED BY <1>1, <1>2, <2>1
<1> QED BY <1>3, <1>4, <1>5, <1>6, <1>7 DEF t

\* Messages that are not in T are put at the end.
LEMMA Joined ==
    ASSUME NEW S, NEW s \in Seq(S), NEW t \in Seq(S), NEW T, None(t, T)
    PROVE  /\ \A i \in DOMAIN (s \o t) : (s \o t)[i] \in T => i \in DOMAIN s /\ (s \o t)[i] = s[i]
           /\ None(s, T) => None(s \o t, T)
           /\ AtMost(s, T) => AtMost(s \o t, T)
<1> DEFINE u == s \o t
           n == Len(s)
           k == Len(t)
<1>1. /\ n \in Nat /\ k \in Nat /\ DOMAIN s = 1..n /\ DOMAIN t = 1..k /\ DOMAIN u = 1..(n + k)
      /\ \A i \in 1..n : u[i] = s[i]
      /\ \A i \in 1..(n + k) : i > n => u[i] = t[i - n]
      OBVIOUS
<1> HIDE DEF u, n, k
<1>2. \A i \in DOMAIN u : (i \in 1..n /\ u[i] = s[i]) \/ (i - n \in 1..k /\ u[i] = t[i - n])
      BY <1>1
<1>3. \A i \in DOMAIN u : u[i] \in T => i \in DOMAIN s /\ u[i] = s[i]
      BY <1>1, <1>2 DEF None
<1>4. None(s, T) => None(u, T)
      BY <1>3 DEF None
<1>5. AtMost(s, T) => AtMost(u, T)
      BY <1>3 DEF AtMost
<1> QED BY <1>3, <1>4, <1>5 DEF u

\* One component at a time has a request under way, and the DSP does not fail.
OneProcess == \A p, q \in Pids : p = q
OneAtATime == ("overlap" \notin Usage \/ OneProcess) /\ MaxFaults = 0

Asker         == globalrequest_cmd_data.inst
Requesting(c) == c \in Clients /\ curState[c] = "requesting"

(* The messages that carry a request, or the decision on it, and those that *)
(* withdraw one.                                                            *)
ReqCmd      == {m \in Cmd : m.RM_Cmd = "RM_RequestResource"}
ReqOf(c)    == {m \in ReqCmd : m.inst = c}
FreeOf(c)   == {m \in Cmd : /\ m.RM_Cmd \in {"RM_FreeResource", "RM_FreeAndCloseResource"}
                            /\ m.inst = c}
AskPM       == {m \in PMCmd : m.PM_Cmd # "PM_FreePolicy"}
AskOf(c)    == {m \in AskPM : m.inst = c}
PMFreeOf(c) == {m \in PMCmd : m.PM_Cmd = "PM_FreePolicy" /\ m.inst = c}
Said        == {m \in PMRsp : m.PM_Cmd # "PM_PREEMPTED"}
Grants      == {m \in PMRsp : m.PM_Cmd = "PM_GRANTPOLICY"}
Told        == {m \in Rep : m.rm_status \in Decisions}
ToldOf(c)   == {m \in Told : m.inst = c}
Fatal       == {m \in Rep : m.rm_status = "RM_RESOURCEFATALERROR"}
Marked      == {m \in Cmd : m.rm_status # "RM_ErrorNone"}

(* A request is in one place: in RM_SERVER_IN, with the policy manager, back *)
(* from it, with the DSP, or answered.                                       *)
Asked  == {"pm", "said", "qos"}
Stages == Asked \cup {"rm", "told"}

\* RM_SERVER_IN: what a component that waits sent last is its request.
RmSide(st) ==
    /\ AtMost(toRM, ReqCmd)
    /\ None(toRM, Marked)
    /\ st # "rm" => None(toRM, ReqCmd)
    /\ \A c \in Inst : Requesting(c) \/ None(toRM, ReqOf(c))
    /\ \A c \in Inst : Ahead(toRM, ReqOf(c), FreeOf(c))
    /\ st \in Asked => None(toRM, FreeOf(Asker))
\* The pipe to the policy manager.
PmSide(st) ==
    /\ AtMost(toPM, AskPM)
    /\ st # "pm" => None(toPM, AskPM)
    /\ st = "pm" => \A c \in Inst : c = Asker \/ None(toPM, AskOf(c))
    /\ st = "pm" => Ahead(toPM, AskPM, PMFreeOf(Asker))
    /\ st \in {"said", "qos"} => None(toPM, PMFreeOf(Asker))
\* The pipe from it; what it granted is still granted.
SaidSide(st) ==
    /\ AtMost(fromPM, Said)
    /\ st # "said" => None(fromPM, Said)
    /\ st = "said" => Asker \in running \/ None(fromPM, Grants)
    /\ st = "qos" => Asker \in running
\* The main thread, and the component that waits.
WaitSide(st) ==
    /\ st # "qos" => rmPc # "qos"
    /\ st \in Asked => Requesting(Asker)
\* The replies.
PipeSide(st) ==
    /\ \A p \in Pids : AtMost(rmPipe[p], Told)
    /\ \A p, q \in Pids : p = q \/ None(rmPipe[p], Told) \/ None(rmPipe[q], Told)
    /\ st # "told" => \A p \in Pids : None(rmPipe[p], Told)
    /\ \A c \in Inst : Requesting(c) \/ \A p \in Pids : None(rmPipe[p], ToldOf(c))

Stage(st) == RmSide(st) /\ PmSide(st) /\ SaidSide(st) /\ WaitSide(st) /\ PipeSide(st)
Lone      == \A c, d \in Clients : curState[c] \in InRequest /\ curState[d] \in InRequest => c = d
NoFault   == /\ mmuRecoveryInProgress = FALSE
             /\ watch.pc \notin {"loop", "write"}
             /\ \A p \in Pids : None(rmPipe[p], Fatal)

\* The inductive invariant, beside Typed.
Staged == Lone /\ NoFault /\ \E st \in Stages : Stage(st)

\* A command that is no request goes into RM_SERVER_IN.
LEMMA RmAppended ==
    ASSUME toRM \in Seq(Cmd), NEW st \in Stages, RmSide(st), WaitSide(st),
           NEW m \in Cmd, m \notin ReqCmd, m \notin Marked,
           toRM' = Append(toRM, m), globalrequest_cmd_data' = globalrequest_cmd_data,
           \A c \in Inst : m \in FreeOf(c) => ~ Requesting(c),
           \A c \in Inst : Requesting(c)' \/ None(toRM, ReqOf(c))
    PROVE  RmSide(st)'
<1>1. \A c : m \notin ReqOf(c)
      BY DEF ReqOf
<1>2. AtMost(toRM, ReqCmd)' /\ None(toRM, Marked)' /\ (st # "rm" => None(toRM, ReqCmd)')
      BY Appended DEF RmSide
<1>3. ASSUME NEW c \in Inst PROVE Requesting(c)' \/ None(toRM, ReqOf(c))'
      BY <1>1, Appended
<1>4. ASSUME NEW c \in Inst PROVE Ahead(toRM, ReqOf(c), FreeOf(c))'
  <2>1. CASE m \notin FreeOf(c)
        BY <2>1, Appended DEF RmSide
  <2>2. CASE m \in FreeOf(c)
    <3>1. None(toRM, ReqOf(c))
          BY <2>2 DEF RmSide
    <3>2. None(toRM', ReqOf(c)) /\ toRM' \in Seq(Cmd)
          BY <1>1, <3>1, Appended
    <3> QED BY <3>2, Appended
  <2> QED BY <2>1, <2>2
<1>5. ASSUME st \in Asked PROVE None(toRM, FreeOf(Asker))'
  <2>1. Asker' = Asker
        BY DEF Asker
  <2>2. Requesting(Asker) /\ Asker \in Inst
        BY <1>5, Constants DEF WaitSide, Requesting
  <2>3. m \notin FreeOf(Asker)
        BY <2>2
  <2>4. None(toRM', FreeOf(Asker))
        BY <1>5, <2>3, Appended DEF RmSide
  <2> QED BY <2>1, <2>4
<1> QED BY <1>2, <1>3, <1>4, <1>5 DEF RmSide

\* The main thread takes a command.
LEMMA RmTaken ==
    ASSUME toRM \in Seq(Cmd), toRM # <<>>, NEW st \in Stages, RmSide(st), toRM' = Tail(toRM),
           globalrequest_cmd_data' = globalrequest_cmd_data, curState' = curState
    PROVE  /\ RmSide(st)' /\ Head(toRM) \notin Marked
           /\ Head(toRM) \in ReqCmd => st = "rm" /\ None(toRM, ReqCmd)'
<1>1. AtMost(toRM, ReqCmd)' /\ None(toRM, Marked)' /\ (st # "rm" => None(toRM, ReqCmd)')
      BY Taking DEF RmSide
<1>2. \A c \in Inst : Requesting(c)' \/ None(toRM, ReqOf(c))'
      BY Taking DEF RmSide, Requesting
<1>3. \A c \in Inst : Ahead(toRM, ReqOf(c), FreeOf(c))'
      BY Taking DEF RmSide
<1>4. st \in Asked => None(toRM, FreeOf(Asker))'
      BY Taking DEF RmSide, Asker
<1>5. Head(toRM) \notin Marked /\ (Head(toRM) \in ReqCmd => st = "rm" /\ None(toRM, ReqCmd)')
      BY Taking DEF RmSide
<1> QED BY <1>1, <1>2, <1>3, <1>4, <1>5 DEF RmSide

\* RM_SERVER_IN stays as it is.
LEMMA RmSame ==
    ASSUME NEW st \in Stages, RmSide(st), toRM' = toRM,
           globalrequest_cmd_data' = globalrequest_cmd_data,
           \A c \in Inst : Requesting(c)' \/ None(toRM, ReqOf(c))
    PROVE  RmSide(st)'
BY DEF RmSide, Asker

\* The pipe to the policy manager stays as it is.
LEMMA PmSame ==
    ASSUME NEW st, PmSide(st), toPM' = toPM, globalrequest_cmd_data' = globalrequest_cmd_data
    PROVE  PmSide(st)'
BY DEF PmSide, Asker

\* Neither does the pipe from the policy manager change...
LEMMA SaidSame ==
    ASSUME NEW st, SaidSide(st), fromPM' = fromPM, globalrequest_cmd_data' = globalrequest_cmd_data,
           running' = running
    PROVE  SaidSide(st)'
BY DEF SaidSide, Asker

\* ...nor who waits for a decision.
LEMMA WaitSame ==
    ASSUME NEW st, WaitSide(st), globalrequest_cmd_data' = globalrequest_cmd_data, rmPc' = rmPc,
           st \in Asked => (Requesting(Asker) => Requesting(Asker)')
    PROVE  WaitSide(st)'
BY DEF WaitSide, Asker

-----------------------------------------------------------------------------
(* The replies.                                                            *)

\* No reply that a step writes decides anything.
NoneDecides ==
    \A p \in Pids : \A i \in DOMAIN rmPipe'[p] :
        rmPipe'[p][i] \in Told \cup Fatal => i \in DOMAIN rmPipe[p] /\ rmPipe'[p][i] = rmPipe[p][i]

\* Then what is known of the replies stays.
LEMMA PipesStay ==
    ASSUME NEW st, PipeSide(st), NoneDecides,
           \A c \in Inst : Requesting(c)' \/ \A p \in Pids : None(rmPipe[p], ToldOf(c))
    PROVE  PipeSide(st)'
<1>1. \A p \in Pids : AtMost(rmPipe[p], Told)' /\ (None(rmPipe[p], Told) => None(rmPipe[p], Told)')
      BY DEF NoneDecides, PipeSide, None, AtMost
<1>2. \A c \in Inst : Requesting(c)' \/ \A p \in Pids : None(rmPipe[p], ToldOf(c))'
      BY DEF NoneDecides, None, ToldOf
<1> QED BY <1>1, <1>2 DEF PipeSide

\* A step that writes nothing decides nothing.
LEMMA NothingWritten ==
    ASSUME rmPipe' = rmPipe PROVE NoneDecides
BY DEF NoneDecides

\* Nor does one that writes another reply.
LEMMA OneWritten ==
    ASSUME rmPipe \in [Pids -> Seq(Rep)], NEW r \in Rep, r \notin Told \cup Fatal, NEW p \in Pids,
           rmPipe' = [rmPipe EXCEPT ![p] = Append(@, r)]
    PROVE  NoneDecides
<1> SUFFICES ASSUME NEW q \in Pids, NEW i \in DOMAIN rmPipe'[q], rmPipe'[q][i] \in Told \cup Fatal
             PROVE  i \in DOMAIN rmPipe[q] /\ rmPipe'[q][i] = rmPipe[q][i]
    BY DEF NoneDecides
<1>1. CASE q # p
      BY <1>1
<1>2. CASE q = p
  <2>1. rmPipe'[q] = Append(rmPipe[q], r) /\ rmPipe[q] \in Seq(Rep)
        BY <1>2
  <2> QED BY <2>1
<1> QED BY <1>1, <1>2

\* A reply is written once, to the pipe of the instance, or not at all.
LEMMA WriteOne ==
    ASSUME ListOK, rmPipe \in [Pids -> Seq(Rep)], NEW to, NEW r, Write(to, r)
    PROVE  \/ rmPipe' = rmPipe
           \/ \E p \in Pids : rmPipe' = [rmPipe EXCEPT ![p] = Append(@, r)]
<1>1. rmPipe' = [p \in Pids |->
         IF \E fd \in RM_GetPipe(to) \cap DOMAIN openPipes : openPipes[fd] = p
         THEN Append(rmPipe[p], r) ELSE rmPipe[p]]
      BY DEF Write
<1>2. \A i, j \in RM_GetListIndex(to) : i = j
      BY ListIndex DEF ListOK, RegisteredOnce
<1>3. \A x, y \in RM_GetPipe(to) : x = y
      BY <1>2 DEF RM_GetPipe
<1>4. CASE \A p \in Pids : ~ \E fd \in RM_GetPipe(to) \cap DOMAIN openPipes : openPipes[fd] = p
      BY <1>1, <1>4
<1>5. ASSUME NEW p \in Pids, NEW fd \in RM_GetPipe(to) \cap DOMAIN openPipes, openPipes[fd] = p
      PROVE  rmPipe' = [rmPipe EXCEPT ![p] = Append(@, r)]
  <2>1. \A q \in Pids : (\E x \in RM_GetPipe(to) \cap DOMAIN openPipes : openPipes[x] = q) <=> q = p
        BY <1>3, <1>5
  <2> QED BY <1>1, <2>1
<1> QED BY <1>4, <1>5

-----------------------------------------------------------------------------
(* Every step keeps a request in one place.                                *)

\* The grants that a step writes are backed by the policy manager and the DSP.
Backed == \A p \in Pids : \A reply \in Written(p) : reply.rm_status = "RM_GRANT" =>
             reply.inst \in running /\ reply.inst = Asker /\ (GetQosOk \/ InitializeQosFails)

\* A step that decides nothing keeps the pipes free of fatal errors and grants nothing.
LEMMA QuietReplies ==
    ASSUME NoneDecides, rmPipe' \in [Pids -> Seq(Rep)], \A p \in Pids : None(rmPipe[p], Fatal)
    PROVE  Backed /\ \A p \in Pids : None(rmPipe[p], Fatal)'
<1>1. \A p \in Pids : \A i \in DOMAIN rmPipe'[p] : rmPipe'[p][i] \in Rep
  <2>1. \A p \in Pids : rmPipe'[p] \in Seq(Rep)
        OBVIOUS
  <2> QED BY <2>1
<1>2. \A r \in Rep : r.rm_status = "RM_GRANT" => r \in Told
      BY DEF Told, Decisions
<1>3. Backed
      BY <1>1, <1>2 DEF Backed, Written, NoneDecides
<1> QED BY <1>3 DEF NoneDecides, None

\* PM_FreePolicy is sent for a component that is not the one that asks.
LEMMA PmFreed ==
    ASSUME toPM \in Seq(PMCmd), NEW st \in Stages, PmSide(st), NEW m \in PMCmd, m.PM_Cmd = "PM_FreePolicy",
           st \in Asked => m.inst # Asker,
           toPM' = Append(toPM, m), globalrequest_cmd_data' = globalrequest_cmd_data
    PROVE  PmSide(st)'
<1>1. m \notin AskPM /\ \A c : m \notin AskOf(c)
      BY DEF AskPM, AskOf
<1>2. Asker' = Asker
      BY DEF Asker
<1>3. AtMost(toPM', AskPM) /\ (None(toPM, AskPM) => None(toPM', AskPM))
      BY <1>1, Appended DEF PmSide
<1>4. \A c : None(toPM, AskOf(c)) => None(toPM', AskOf(c))
      BY <1>1, Appended
<1>5. ASSUME st \in Asked
      PROVE  /\ None(toPM, PMFreeOf(Asker)) => None(toPM', PMFreeOf(Asker))
             /\ Ahead(toPM, AskPM, PMFreeOf(Asker)) => Ahead(toPM', AskPM, PMFreeOf(Asker))
  <2>1. m \notin PMFreeOf(Asker)
        BY <1>5 DEF PMFreeOf
  <2> QED BY <2>1, Appended
<1>6. (st = "pm" => st \in Asked) /\ (st \in {"said", "qos"} => st \in Asked)
      BY DEF Asked
<1> QED BY <1>2, <1>3, <1>4, <1>5, <1>6 DEF PmSide

\* A reply without a decision in it, or none.
LEMMA WriteDecidesNothing ==
    ASSUME Typed, NEW to, NEW status \in Statuses \ (Decisions \cup {"RM_RESOURCEFATALERROR"}),
           NEW inst \in Inst, Write(to, Reply(status, inst))
    PROVE  NoneDecides
<1> DEFINE r == Reply(status, inst)
<1>1. r \in Rep /\ r \notin Told \cup Fatal
      BY DEF Reply, Rep, Told, Fatal
<1>2. ListOK /\ rmPipe \in [Pids -> Seq(Rep)]
      BY DEF Typed, FifosOK
<1>3. Write(to, r)
      OBVIOUS
<1> HIDE DEF r
<1>4. rmPipe' = rmPipe \/ \E p \in Pids : rmPipe' = [rmPipe EXCEPT ![p] = Append(@, r)]
      BY <1>2, <1>3, WriteOne
<1>5. CASE rmPipe' = rmPipe
      BY <1>5, NothingWritten
<1>6. ASSUME NEW p \in Pids, rmPipe' = [rmPipe EXCEPT ![p] = Append(@, r)] PROVE NoneDecides
      BY <1>1, <1>2, <1>6, OneWritten
<1> QED BY <1>4, <1>5, <1>6

\* The notices of HandleFreeResource.
LEMMA FreeDecidesNothing ==
    ASSUME Typed, NEW cmd \in Cmd, HandleFreeResource(cmd) PROVE NoneDecides
<1> DEFINE acquired(i) == Reply("RM_RESOURCEACQUIRED",
                             [h |-> componentList[i].inst.h, pid |-> cmd.inst.pid])
           mine(p) == {i \in Waiting : /\ componentList[i].pipe \in DOMAIN openPipes
                                       /\ openPipes[componentList[i].pipe] = p}
           told(p) == InOrder(mine(p))
           more(p) == [k \in DOMAIN told(p) |-> acquired(told(p)[k])]
<1>1. rmPipe' = [p \in Pids |-> rmPipe[p] \o more(p)]
      BY DEF HandleFreeResource
<1>2. N \in Nat /\ \A i \in 1..N : componentList[i] \in Entry
      BY EntriesTyped DEF Typed
<1>3. Waiting \in SUBSET (1..N)
  <2>1. \A i \in 1..(N - 1) : i \in 1..N
        BY <1>2
  <2> QED BY <2>1 DEF Waiting
<1>4. ASSUME NEW i \in Waiting PROVE acquired(i) \in Rep /\ acquired(i) \notin Told \cup Fatal
  <2>1. componentList[i].inst \in Inst /\ cmd.inst \in Inst
        BY <1>2, <1>3 DEF Entry, Cmd
  <2>2. [h |-> componentList[i].inst.h, pid |-> cmd.inst.pid] \in Inst
        BY <2>1 DEF Inst
  <2>3. ASSUME NEW x \in Inst
        PROVE  /\ Reply("RM_RESOURCEACQUIRED", x) \in Rep
               /\ Reply("RM_RESOURCEACQUIRED", x) \notin Told \cup Fatal
        BY DEF Reply, Rep, Statuses, Told, Fatal, Decisions
  <2> QED BY <2>2, <2>3
<1>5. ASSUME NEW p \in Pids PROVE more(p) \in Seq(Rep) /\ None(more(p), Told \cup Fatal)
  <2>1. mine(p) \in SUBSET (1..N) /\ mine(p) \subseteq Waiting
        BY <1>3
  <2> HIDE DEF mine, acquired
  <2>2. /\ Cardinality(mine(p)) \in Nat
        /\ \A k \in 1..Cardinality(mine(p)) : told(p)[k] \in mine(p)
        BY <1>2, <2>1, InOrderMembers
  <2>3. DOMAIN told(p) = 1..Cardinality(mine(p))
        BY DEF InOrder
  <2> HIDE DEF told
  <2>4. \A k \in DOMAIN told(p) : acquired(told(p)[k]) \in Rep /\ acquired(told(p)[k]) \notin Told \cup Fatal
        BY <2>1, <2>2, <2>3, <1>4
  <2>5. more(p) \in Seq(Rep)
        BY <2>2, <2>3, <2>4
  <2> QED BY <2>4, <2>5 DEF None
<1> HIDE DEF more
<1> SUFFICES ASSUME NEW p \in Pids, NEW i \in DOMAIN rmPipe'[p], rmPipe'[p][i] \in Told \cup Fatal
             PROVE  i \in DOMAIN rmPipe[p] /\ rmPipe'[p][i] = rmPipe[p][i]
    BY DEF NoneDecides
<1>6. rmPipe'[p] = rmPipe[p] \o more(p) /\ rmPipe[p] \in Seq(Rep)
      BY <1>1 DEF Typed, FifosOK
<1> QED BY <1>5, <1>6, Joined

\* What is left to show for a step of the servers that decides nothing.
LEMMA QuietStep ==
    ASSUME Typed', Lone, NoFault, NoneDecides, curState' = curState,
           mmuRecoveryInProgress' = FALSE, watch'.pc \notin {"loop", "write"},
           NEW st \in Stages, PipeSide(st), RmSide(st)', PmSide(st)', SaidSide(st)', WaitSide(st)'
    PROVE  Staged' /\ Backed
<1>1. rmPipe' \in [Pids -> Seq(Rep)]
      BY DEF Typed, FifosOK
<1>2. Backed /\ \A p \in Pids : None(rmPipe[p], Fatal)'
      BY <1>1, QuietReplies DEF NoFault
<1>3. PipeSide(st)'
  <2>1. \A c \in Inst : Requesting(c)' \/ \A p \in Pids : None(rmPipe[p], ToldOf(c))
        BY DEF PipeSide, Requesting
  <2> QED BY <2>1, PipesStay
<1>4. Stage(st)'
      BY <1>3 DEF Stage
<1>5. Lone' /\ NoFault'
      BY <1>2 DEF Lone, NoFault
<1> QED BY <1>2, <1>4, <1>5 DEF Staged

\* A request is read and goes to the policy manager.
LEMMA RequestStaged ==
    ASSUME Typed, Typed', Lone, NoFault, NEW st \in Stages, Stage(st), ReadCommand, ~ stub_mode,
           Head(toRM).RM_Cmd = "RM_RequestResource", HandleRequestResource(Head(toRM)),
           UNCHANGED <<pmLocal, clientVars>>
    PROVE  Staged' /\ Backed
<1> DEFINE cmd == Head(toRM)
           m == [PM_Cmd |-> "PM_RequestPolicy", inst |-> cmd.inst, param1 |-> cmd.param1]
<1>1. toRM \in Seq(Cmd) /\ toRM # <<>> /\ toRM' = Tail(toRM) /\ toPM \in Seq(PMCmd)
      BY DEF ReadCommand, Typed, FifosOK
<1>2. cmd \in Cmd /\ cmd.inst \in Inst
  <2>1. cmd \in Cmd
        BY <1>1
  <2> QED BY <2>1 DEF Cmd
<1>3. cmd \in ReqCmd /\ cmd \in ReqOf(cmd.inst)
      BY <1>2 DEF ReqCmd, ReqOf
<1>4. /\ toPM' = Append(toPM, m) /\ Asker' = cmd.inst /\ rmPc' = "select" /\ rmPipe' = rmPipe
      /\ fromPM' = fromPM /\ curState' = curState /\ running' = running
      /\ mmuRecoveryInProgress' = mmuRecoveryInProgress /\ watch' = watch
      BY DEF HandleRequestResource, ReadCommand, clientVars, pmLocal, Asker
<1>5. /\ m \in PMCmd /\ m \in AskPM /\ m \in AskOf(cmd.inst) /\ m \notin PMFreeOf(cmd.inst)
      /\ \A c : m \in AskOf(c) => c = cmd.inst
  <2>1. m \in PMCmd /\ m.PM_Cmd = "PM_RequestPolicy" /\ m.inst = cmd.inst
        BY <1>2 DEF Cmd, PMCmd
  <2> HIDE DEF m, cmd
  <2> QED BY <2>1 DEF AskPM, AskOf, PMFreeOf
<1> HIDE DEF m, cmd
<1>6. /\ None(toRM', ReqCmd) /\ None(toRM', Marked) /\ None(toRM', FreeOf(cmd.inst))
      /\ Requesting(cmd.inst) /\ st = "rm"
  <2>1. AtMost(toRM, ReqCmd) /\ None(toRM, Marked) /\ Ahead(toRM, ReqOf(cmd.inst), FreeOf(cmd.inst))
        BY <1>2 DEF Stage, RmSide
  <2>2. Requesting(cmd.inst) \/ None(toRM, ReqOf(cmd.inst))
        BY <1>2 DEF Stage, RmSide
  <2>3. st = "rm" \/ None(toRM, ReqCmd)
        BY DEF Stage, RmSide
  <2> QED BY <1>1, <1>3, <2>1, <2>2, <2>3, Taking DEF cmd
<1>7. RmSide("pm")'
  <2>1. AtMost(toRM', ReqCmd) /\ \A c \in Inst : None(toRM', ReqOf(c)) /\ Ahead(toRM', ReqOf(c), FreeOf(c))
        BY <1>6 DEF None, AtMost, Ahead, ReqOf
  <2> QED BY <1>4, <1>6, <2>1 DEF RmSide
<1>8. PmSide("pm")'
  <2>1. None(toPM, AskPM)
        BY <1>6 DEF Stage, PmSide
  <2>2. AtMost(toPM', AskPM) /\ Ahead(toPM', AskPM, PMFreeOf(cmd.inst))
        BY <1>1, <1>4, <1>5, <2>1, Appended
  <2>3. \A c : c = cmd.inst \/ None(toPM', AskOf(c))
    <3>1. \A c : None(toPM, AskOf(c))
          BY <2>1 DEF None, AskOf
    <3> QED BY <1>1, <1>4, <1>5, <3>1, Appended
  <2> QED BY <1>4, <2>2, <2>3 DEF PmSide
<1>9. SaidSide("pm")' /\ WaitSide("pm")' /\ PipeSide("pm")
      BY <1>4, <1>6 DEF Stage, SaidSide, WaitSide, PipeSide, Requesting
<1>10. NoneDecides
      BY <1>4, NothingWritten
<1> QED BY <1>4, <1>7, <1>8, <1>9, <1>10, QuietStep DEF NoFault, Stages, Asked

\* HandleFreeResource tells the policy manager and goes on to the removal.
LEMMA FreeSends ==
    ASSUME NEW cmd \in Cmd, HandleFreeResource(cmd)
    PROVE  /\ \/ toPM' = toPM
              \/ toPM' = Append(toPM, [PM_Cmd |-> "PM_FreePolicy", inst |-> cmd.inst,
                                       param1 |-> cmd.param1])
           /\ globalrequest_cmd_data' = globalrequest_cmd_data /\ rmPc' = "remove"
<1>1. FreePolicy(cmd)
      BY Zenon DEF HandleFreeResource
<1>2. globalrequest_cmd_data' = globalrequest_cmd_data /\ rmPc' = "remove"
      BY Zenon DEF HandleFreeResource
<1> QED BY <1>1, <1>2 DEF FreePolicy

\* Any other command leaves the request where it is.
LEMMA CommandStaged ==
    ASSUME Typed, Typed', Staged, ReadCommand, UNCHANGED <<pmLocal, clientVars>>
    PROVE  Staged' /\ Backed
<1> DEFINE cmd == Head(toRM)
<1>0. PICK st \in Stages : Stage(st)
      BY DEF Staged
<1>1. toRM \in Seq(Cmd) /\ toRM # <<>> /\ toRM' = Tail(toRM) /\ toPM \in Seq(PMCmd)
      BY DEF ReadCommand, Typed, FifosOK
<1>2. cmd \in Cmd /\ cmd.inst \in Inst /\ cmd.rm_status \in Statuses
  <2>1. cmd \in Cmd
        BY <1>1
  <2> QED BY <2>1 DEF Cmd
<1>3. /\ fromPM' = fromPM /\ curState' = curState /\ running' = running
      /\ mmuRecoveryInProgress' = mmuRecoveryInProgress /\ watch' = watch /\ rmPc = "select"
      /\ Lone /\ NoFault
      BY DEF ReadCommand, clientVars, pmLocal, Staged
<1>4. cmd \notin Marked /\ cmd.rm_status = "RM_ErrorNone"
  <2>1. cmd \notin Marked
        BY <1>0, <1>1, Taking DEF Stage, RmSide
  <2> QED BY <1>2, <2>1 DEF Marked
<1>5. ASSUME globalrequest_cmd_data' = globalrequest_cmd_data, rmPc' # "qos", NoneDecides, PmSide(st)'
      PROVE  Staged' /\ Backed
  <2>1. RmSide(st)'
        BY <1>0, <1>1, <1>3, <1>5, RmTaken DEF Stage
  <2>2. SaidSide(st)'
        BY <1>0, <1>3, <1>5, SaidSame DEF Stage
  <2>3. WaitSide(st)'
        BY <1>0, <1>3, <1>5 DEF Stage, WaitSide, Requesting, Asker
  <2> QED BY <1>0, <1>3, <1>5, <2>1, <2>2, <2>3, QuietStep DEF Stage, NoFault
<1>6. ASSUME globalrequest_cmd_data' = globalrequest_cmd_data, rmPc' # "qos", NoneDecides, toPM' = toPM
      PROVE  Staged' /\ Backed
      BY <1>0, <1>5, <1>6, PmSame DEF Stage
<1>7. ASSUME HandleWaitForResource(cmd) PROVE NoneDecides
  <2>1. Write(cmd.inst, Reply("RM_ErrorNone", cmd.inst))
        BY <1>4, <1>7 DEF HandleWaitForResource
  <2> QED BY <1>2, <2>1, WriteDecidesNothing DEF Statuses, Decisions
<1> HIDE DEF cmd
<1>8. CASE cmd.RM_Cmd = "RM_RequestResource" /\ HandleRequestResource(cmd)
  <2>1. CASE stub_mode
        BY <1>6, <1>8, <2>1, NothingWritten DEF HandleRequestResource
  <2>2. CASE ~ stub_mode
        BY <1>0, <1>3, <1>8, <2>2, RequestStaged DEF cmd
  <2> QED BY <2>1, <2>2
<1>9. CASE /\ cmd.RM_Cmd \in {"RM_FreeResource", "RM_FreeAndCloseResource"} /\ HandleFreeResource(cmd)
  <2> DEFINE m == [PM_Cmd |-> "PM_FreePolicy", inst |-> cmd.inst, param1 |-> cmd.param1]
  <2>1. /\ toPM' = toPM \/ toPM' = Append(toPM, m)
        /\ globalrequest_cmd_data' = globalrequest_cmd_data /\ rmPc' = "remove"
        BY <1>2, <1>9, FreeSends
  <2>2. m \in PMCmd /\ m.PM_Cmd = "PM_FreePolicy" /\ m.inst = cmd.inst
        BY <1>2 DEF PMCmd, Cmd
  <2> HIDE DEF m
  <2>3. NoneDecides
        BY <1>2, <1>9, FreeDecidesNothing
  <2>4. st \in Asked => cmd.inst # Asker
    <3>1. cmd \in FreeOf(cmd.inst)
          BY <1>2, <1>9 DEF FreeOf
    <3>2. st \in Asked => cmd \notin FreeOf(Asker)
          BY <1>0, <1>1, Taking DEF Stage, RmSide, cmd
    <3> QED BY <3>1, <3>2
  <2>5. CASE toPM' = toPM
        BY <1>6, <2>1, <2>3, <2>5
  <2>6. CASE toPM' = Append(toPM, m)
    <3>1. PmSide(st)'
          BY <1>0, <1>1, <2>1, <2>2, <2>4, <2>6, PmFreed DEF Stage
    <3> QED BY <1>5, <2>1, <2>3, <3>1
  <2> QED BY <2>1, <2>5, <2>6
<1>10. CASE HandleStateSet(cmd)
  <2>1. rmPipe' = rmPipe \/ HandleWaitForResource(cmd)
        BY <1>10 DEF HandleStateSet
  <2>2. NoneDecides
        BY <1>7, <2>1, NothingWritten
  <2> QED BY <1>6, <1>10, <2>2 DEF HandleStateSet
<1>11. CASE RM_CreatePipe(cmd) \/ RM_ReusePipe(cmd) \/ IgnoredRMCommand(cmd)
  <2>1. /\ globalrequest_cmd_data' = globalrequest_cmd_data /\ rmPc' = "select" /\ rmPipe' = rmPipe
        /\ toPM' = toPM
        BY <1>11 DEF RM_CreatePipe, RM_ReusePipe, IgnoredRMCommand
  <2> QED BY <1>6, <2>1, NothingWritten
<1>12. CASE /\ HandleWaitForResource(cmd) /\ cmd_data' = cmd /\ rmPc' = "select"
            /\ UNCHANGED <<toPM, globalrequest_cmd_data, componentList, openPipes, totalCpu>>
      BY <1>6, <1>7, <1>12
<1> QED BY <1>8, <1>9, <1>10, <1>11, <1>12 DEF ReadCommand, cmd

\* The removal after a free, and the fault thread without a fault.
LEMMA IdleStaged ==
    ASSUME Typed, Typed', Staged, MaxFaults = 0, RemoveFreed \/ WatchNext, UNCHANGED <<pmLocal, clientVars>>
    PROVE  Staged' /\ Backed
<1>0. PICK st \in Stages : Stage(st)
      BY DEF Staged
<1>1. Lone /\ NoFault /\ curState' = curState /\ running' = running
      BY DEF Staged, clientVars, pmLocal
<1>2. ASSUME UNCHANGED <<toRM, rmPipe, toPM, fromPM, globalrequest_cmd_data>>, rmPc' \in {rmPc, "select"},
             rmPc' = "qos" => rmPc = "qos",
             mmuRecoveryInProgress' = FALSE, watch'.pc \notin {"loop", "write"}
      PROVE  Staged' /\ Backed
  <2>1. \A c \in Inst : Requesting(c)' \/ None(toRM, ReqOf(c))
        BY <1>0, <1>1 DEF Stage, RmSide, Requesting
  <2>2. RmSide(st)' /\ PmSide(st)' /\ SaidSide(st)'
        BY <1>0, <1>1, <1>2, <2>1, RmSame, PmSame, SaidSame DEF Stage
  <2>3. WaitSide(st)'
        BY <1>0, <1>1, <1>2 DEF Stage, WaitSide, Requesting, Asker
  <2>4. NoneDecides
        BY <1>2, NothingWritten
  <2> QED BY <1>0, <1>1, <1>2, <2>2, <2>3, <2>4, QuietStep DEF Stage
<1>3. CASE RemoveFreed
      BY <1>1, <1>2, <1>3 DEF RemoveFreed, NoFault
<1>4. CASE WatchNext
  <2>1. ~ Fault /\ ~ WatchFill /\ ~ WatchWrite /\ ~ WatchLoopEnds
    <3>1. watch.faults \in Nat
          BY DEF Typed, ManagerOK, Watch
    <3> QED BY <1>1, <3>1 DEF Fault, WatchFill, WatchStep, WatchWrite, WatchLoopEnds, NoFault
  <2>2. /\ UNCHANGED <<toRM, rmPipe, toPM, fromPM, globalrequest_cmd_data, rmPc>>
        /\ mmuRecoveryInProgress' = FALSE
        BY <1>1, <1>4, <2>1 DEF WatchNext, WatchPoll, DspReopened, DspLost, MainUnchanged, NoFault
  <2>3. watch'.pc \notin {"loop", "write"}
    <3>1. \E next \in {"reopen", "poll", "monitor", "exit"} : \E i : watch' = WatchAt(next, i)
          BY <1>4, <2>1 DEF WatchNext, WatchPoll, DspReopened, DspLost, WatchStep
    <3> QED BY <3>1 DEF WatchAt
  <2> QED BY <1>2, <2>2, <2>3
<1> QED BY <1>3, <1>4

\* The answer to the request on record is written.
LEMMA Decided ==
    ASSUME Typed, Typed', Lone, NoFault, NEW st \in Asked, Stage(st), NEW status \in Decisions, NEW new,
           Answer(status, new), Requesting(Asker),
           status = "RM_GRANT" => Asker \in running /\ (GetQosOk \/ InitializeQosFails),
           curState' = curState, globalrequest_cmd_data' = globalrequest_cmd_data, toRM' = toRM,
           toPM' = toPM, st = "pm" => None(toPM, AskPM), None(fromPM, Said)', rmPc' = "select",
           mmuRecoveryInProgress' = mmuRecoveryInProgress, watch' = watch
    PROVE  Staged' /\ Backed
<1> DEFINE r == Reply(status, Asker)
<1>1. Asker \in Inst /\ Asker' = Asker /\ (Requesting(Asker))'
      BY Constants DEF Requesting, Asker
<1>2. r \in Rep /\ r \in Told /\ r \notin Fatal /\ r.inst = Asker /\ r.rm_status = status
      BY <1>1 DEF Reply, Rep, Told, Fatal, Decisions, Statuses
<1>3. Write(Asker, r)
      BY DEF Answer, Asker
<1> HIDE DEF r
<1>4. ListOK /\ rmPipe \in [Pids -> Seq(Rep)]
      BY DEF Typed, FifosOK
<1>5. \A c : r \in ToldOf(c) => c = Asker
      BY <1>2 DEF ToldOf
<1>6. \A p \in Pids : None(rmPipe[p], Told) /\ None(rmPipe[p], Fatal)
      BY DEF Stage, PipeSide, Asked, NoFault
<1>7. \A p \in Pids : \A c : None(rmPipe[p], ToldOf(c))
      BY <1>6 DEF None, ToldOf
<1>8. /\ PipeSide("told")' /\ Backed
      /\ \A p \in Pids : None(rmPipe[p], Fatal)'
  <2>1. CASE rmPipe' = rmPipe
        BY <1>6, <1>7, <2>1 DEF PipeSide, Backed, Written, None, AtMost
  <2>2. ASSUME NEW p \in Pids, rmPipe' = [rmPipe EXCEPT ![p] = Append(@, r)]
        PROVE  PipeSide("told")' /\ Backed /\ \A q \in Pids : None(rmPipe[q], Fatal)'
    <3>1. /\ rmPipe'[p] = Append(rmPipe[p], r) /\ rmPipe[p] \in Seq(Rep)
          /\ \A q \in Pids : q = p \/ rmPipe'[q] = rmPipe[q]
          BY <1>4, <2>2
    <3>2. /\ AtMost(rmPipe'[p], Told) /\ None(rmPipe'[p], Fatal)
          /\ \A c : c = Asker \/ None(rmPipe'[p], ToldOf(c))
      <4> DEFINE s == rmPipe[p]
      <4>1. None(s, Told) /\ None(s, Fatal) /\ (\A c : None(s, ToldOf(c))) /\ s \in Seq(Rep)
            BY <1>6, <1>7, <3>1
      <4>2. rmPipe'[p] = Append(s, r)
            BY <3>1
      <4> HIDE DEF s
      <4>3. AtMost(Append(s, r), Told) /\ None(Append(s, r), Fatal)
            BY <1>2, <4>1, Appended
      <4>4. ASSUME NEW c, c # Asker PROVE None(Append(s, r), ToldOf(c))
            BY <1>2, <1>5, <4>1, <4>4, Appended
      <4> QED BY <4>2, <4>3, <4>4
    <3>3. \A q \in Pids : q = p \/ (None(rmPipe'[q], Told) /\ None(rmPipe'[q], Fatal)
                                   /\ \A c : None(rmPipe'[q], ToldOf(c)))
          BY <1>6, <1>7, <3>1
    <3>4. \A q \in Pids : AtMost(rmPipe'[q], Told)
          BY <3>2, <3>3 DEF None, AtMost
    <3>5. \A c \in Inst : Requesting(c)' \/ \A q \in Pids : None(rmPipe'[q], ToldOf(c))
          BY <1>1, <3>2, <3>3
    <3>6. PipeSide("told")'
          BY <3>3, <3>4, <3>5 DEF PipeSide
    <3>7. \A i \in DOMAIN rmPipe'[p] : i \in DOMAIN rmPipe[p] \/ rmPipe'[p][i] = r
          BY <3>1
    <3>8. Backed
          BY <1>2, <3>1, <3>7 DEF Backed, Written
    <3> QED BY <3>2, <3>3, <3>6, <3>8
  <2> QED BY <1>3, <1>4, <2>1, <2>2, WriteOne
<1>9. RmSide("told")'
      BY <1>1 DEF Stage, RmSide, Asked, Requesting
<1>10. PmSide("told")' /\ SaidSide("told")' /\ WaitSide("told")'
      BY DEF Stage, PmSide, SaidSide, WaitSide, Asked, None, AtMost
<1>11. Lone' /\ NoFault'
      BY <1>8 DEF Lone, NoFault
<1> QED BY <1>8, <1>9, <1>10, <1>11 DEF Staged, Stage, Stages

\* The responses of the policy manager are read.
LEMMA ResponseStaged ==
    ASSUME Typed, Typed', Staged, UNCHANGED <<pmLocal, clientVars>>,
           PolicyPreempted \/ PolicyDenied \/ PolicyGrantedInRecovery \/ PolicyGranted
    PROVE  Staged' /\ Backed
<1>0. PICK st \in Stages : Stage(st)
      BY DEF Staged
<1>1. /\ Lone /\ NoFault /\ curState' = curState /\ running' = running
      /\ UNCHANGED <<toRM, toPM, globalrequest_cmd_data, mmuRecoveryInProgress, watch>>
      /\ fromPM # <<>> /\ fromPM' = Tail(fromPM) /\ rmPc = "select"
      BY DEF Staged, clientVars, pmLocal, PolicyPreempted, PolicyDenied, PolicyGrantedInRecovery,
             PolicyGranted, ReadResponse
<1>2. fromPM \in Seq(PMRsp)
      BY DEF Typed, FifosOK
<1>3. Head(fromPM) \in PMRsp
      BY <1>1, <1>2
<1>4. \A c \in Inst : Requesting(c)' \/ None(toRM, ReqOf(c))
      BY <1>0, <1>1 DEF Stage, RmSide, Requesting
<1>5. RmSide(st)' /\ PmSide(st)'
      BY <1>0, <1>1, <1>4, RmSame, PmSame DEF Stage
<1>6. SaidSide(st)'
  <2>1. AtMost(fromPM', Said) /\ (None(fromPM, Said) => None(fromPM', Said))
        /\ (None(fromPM, Grants) => None(fromPM', Grants))
        BY <1>0, <1>1, <1>2, Taking DEF Stage, SaidSide
  <2> QED BY <1>0, <1>1, <2>1 DEF Stage, SaidSide, Asker
<1>7. ASSUME Head(fromPM).PM_Cmd # "PM_PREEMPTED"
      PROVE  /\ st = "said" /\ st \in Asked /\ None(fromPM', Said) /\ Requesting(Asker)
             /\ Head(fromPM).PM_Cmd = "PM_GRANTPOLICY" => Asker \in running
  <2>1. Head(fromPM) \in Said /\ (Head(fromPM).PM_Cmd = "PM_GRANTPOLICY" => Head(fromPM) \in Grants)
        BY <1>3, <1>7 DEF Said, Grants
  <2>2. st = "said" \/ None(fromPM, Said)
        BY <1>0 DEF Stage, SaidSide
  <2>3. st = "said" => Asker \in running \/ None(fromPM, Grants)
        BY <1>0 DEF Stage, SaidSide
  <2>4. st = "said" /\ None(fromPM', Said)
        BY <1>0, <1>1, <1>2, <2>1, <2>2, Taking DEF Stage, SaidSide
  <2>5. Head(fromPM) \in Grants => ~ None(fromPM, Grants)
        BY <1>1, <1>2, Taking
  <2>6. st \in Asked /\ Requesting(Asker)
        BY <1>0, <2>4 DEF Asked, Stage, WaitSide
  <2> QED BY <2>1, <2>3, <2>4, <2>5, <2>6
<1>8. CASE PolicyPreempted
  <2> DEFINE mixed == [h |-> Head(fromPM).inst.h, pid |-> cmd_data.inst.pid]
  <2>1. Write(Head(fromPM).inst, Reply("RM_PREEMPT", mixed)) /\ rmPc' = rmPc
        BY <1>8 DEF PolicyPreempted
  <2>2. mixed \in Inst
    <3>1. cmd_data \in Cmd
          BY <1>8, ResponseRead DEF PolicyPreempted
    <3> QED BY <1>3, <3>1 DEF PMRsp, Inst, Cmd
  <2> HIDE DEF mixed
  <2>3. NoneDecides
        BY <2>1, <2>2, WriteDecidesNothing DEF Statuses, Decisions
  <2>4. WaitSide(st)'
        BY <1>0, <1>1, <2>1 DEF Stage, WaitSide, Requesting, Asker
  <2> QED BY <1>0, <1>1, <1>5, <1>6, <2>3, <2>4, QuietStep DEF Stage, NoFault
<1>9. CASE PolicyDenied
  <2>1. Head(fromPM).PM_Cmd = "PM_DENYPOLICY" /\ Answer("RM_DENY", "RM_WaitingForClient") /\ rmPc' = "select"
        BY <1>1, <1>9 DEF PolicyDenied, ReadResponse
  <2>2. "RM_DENY" \in Decisions /\ "RM_DENY" # "RM_GRANT"
        BY DEF Decisions
  <2> QED BY <1>0, <1>1, <1>7, <2>1, <2>2, Decided
<1>10. CASE PolicyGrantedInRecovery
      BY <1>1, <1>10 DEF PolicyGrantedInRecovery, NoFault
<1>11. CASE PolicyGranted
  <2>1. Head(fromPM).PM_Cmd = "PM_GRANTPOLICY" /\ rmPc' = "qos" /\ rmPipe' = rmPipe
        BY <1>11 DEF PolicyGranted, ReadResponse
  <2>2. st = "said" /\ None(fromPM', Said) /\ Requesting(Asker) /\ Asker \in running
        BY <1>7, <2>1
  <2>3. RmSide("qos")' /\ PmSide("qos")'
        BY <1>5, <2>2 DEF RmSide, PmSide, Asked
  <2>4. SaidSide("qos")' /\ WaitSide("qos")' /\ PipeSide("qos")
        BY <1>0, <1>1, <2>2 DEF Stage, SaidSide, WaitSide, PipeSide, Requesting, Asker, None, AtMost
  <2>5. NoneDecides
        BY <2>1, NothingWritten
  <2> QED BY <1>1, <2>3, <2>4, <2>5, QuietStep DEF NoFault, Stages, Asked
<1> QED BY <1>8, <1>9, <1>10, <1>11

\* The DSP's answer: a grant, or the policy manager is asked again.
LEMMA QosStaged ==
    ASSUME Typed, Typed', Staged, UNCHANGED <<pmLocal, clientVars>>,
           GetQosOk \/ GetQosDeny \/ GetQosFails \/ InitializeQosFails
    PROVE  Staged' /\ Backed
<1>0. PICK st \in Stages : Stage(st)
      BY DEF Staged
<1>1. /\ rmPc = "qos" /\ rmPc' = "select"
      /\ UNCHANGED <<toRM, fromPM, globalrequest_cmd_data, mmuRecoveryInProgress, watch>>
      /\ curState' = curState /\ running' = running /\ Lone /\ NoFault
      BY DEF GetQosOk, GetQosDeny, GetQosFails, InitializeQosFails, clientVars, pmLocal, Staged
<1>2. st = "qos" /\ st \in Asked /\ Requesting(Asker) /\ Asker \in running /\ None(fromPM, Said)'
      BY <1>0, <1>1 DEF Stage, WaitSide, SaidSide, Asked
<1>3. CASE GetQosOk \/ InitializeQosFails
  <2>1. Answer("RM_GRANT", "RM_ComponentActive") /\ toPM' = toPM
        BY <1>3 DEF GetQosOk, InitializeQosFails, QosGrant
  <2>2. "RM_GRANT" \in Decisions
        BY DEF Decisions
  <2> QED BY <1>0, <1>1, <1>2, <1>3, <2>1, <2>2, Decided
<1>4. CASE GetQosDeny \/ GetQosFails
  <2> DEFINE m == [PM_Cmd |-> "PM_FreeResources", inst |-> globalrequest_cmd_data.inst,
                   param1 |-> globalrequest_cmd_data.param1]
  <2>1. toPM' = Append(toPM, m) /\ rmPipe' = rmPipe
        BY <1>4 DEF GetQosDeny, GetQosFails, QosFreeResources
  <2>2. m \in PMCmd /\ m.PM_Cmd = "PM_FreeResources" /\ m.inst = Asker
    <3>1. globalrequest_cmd_data \in Req
          BY <1>1 DEF Typed, DataOK
    <3> QED BY <3>1 DEF PMCmd, Req, Asker
  <2> HIDE DEF m
  <2>3. m \notin PMFreeOf(Asker) /\ \A c : m \in AskOf(c) => c = Asker
        BY <2>2 DEF PMFreeOf, AskOf
  <2>4. toPM \in Seq(PMCmd) /\ None(toPM, AskPM) /\ Asker' = Asker
        BY <1>0, <1>1, <1>2 DEF Typed, FifosOK, Stage, PmSide, Asker
  <2>5. PmSide("pm")'
    <3>1. AtMost(toPM', AskPM) /\ Ahead(toPM', AskPM, PMFreeOf(Asker))
          BY <2>1, <2>2, <2>3, <2>4, Appended
    <3>2. ASSUME NEW c, c # Asker PROVE None(toPM', AskOf(c))
      <4>1. None(toPM, AskOf(c)) /\ m \notin AskOf(c)
            BY <2>3, <2>4, <3>2 DEF None, AskOf
      <4> QED BY <2>1, <2>2, <2>4, <4>1, Appended
    <3> QED BY <2>4, <3>1, <3>2 DEF PmSide
  <2>6. RmSide("pm")'
    <3>1. \A c \in Inst : Requesting(c)' \/ None(toRM, ReqOf(c))
          BY <1>0, <1>1 DEF Stage, RmSide, Requesting
    <3>2. RmSide(st)'
          BY <1>0, <1>1, <3>1, RmSame DEF Stage
    <3> QED BY <1>2, <3>2 DEF RmSide, Asked
  <2>7. SaidSide("pm")' /\ WaitSide("pm")' /\ PipeSide("pm")
        BY <1>0, <1>1, <1>2 DEF Stage, SaidSide, WaitSide, PipeSide, Requesting, Asker
  <2>8. NoneDecides
        BY <2>1, NothingWritten
  <2> QED BY <1>1, <2>5, <2>6, <2>7, <2>8, QuietStep DEF NoFault, Stages, Asked
<1> QED BY <1>3, <1>4

\* What the policy manager says to a request: one decision, after the victims.
LEMMA SaysOnce ==
    ASSUME fromPM \in Seq(PMRsp), pComponentList \in Seq(Inst), None(fromPM, Said), NEW cmd \in AskPM,
           PM!HandleCommand(cmd)
    PROVE  /\ AtMost(fromPM', Said)
           /\ cmd.inst \in running' \/ None(fromPM', Grants)
<1> DEFINE inst == cmd.inst
           x == cmd.param1
           all == [i \in DOMAIN pComponentList |-> PM!PreemptComponent(pComponentList[i])]
<1>0. inst \in Inst /\ cmd.PM_Cmd \in {"PM_RequestPolicy", "PM_FreeResources"}
      BY DEF AskPM, PMCmd
<1>1. ASSUME NEW v \in Inst PROVE PM!PreemptComponent(v) \in PMRsp /\ PM!PreemptComponent(v) \notin Said
      BY DEF PM!PreemptComponent, PM!Response, PMRsp, Said
<1>2. Len(pComponentList) \in Nat /\ DOMAIN pComponentList = 1..Len(pComponentList)
      /\ \A i \in DOMAIN pComponentList : pComponentList[i] \in Inst
      OBVIOUS
<1>3. all \in Seq(PMRsp) /\ None(all, Said)
  <2>1. all \in Seq(PMRsp)
        BY <1>1, <1>2
  <2> QED BY <1>1, <1>2 DEF None
<1>4. <<>> \in Seq(PMRsp) /\ None(<<>>, Said)
      BY DEF None
<1>5. ASSUME NEW i \in DOMAIN pComponentList
      PROVE  LET one == <<PM!PreemptComponent(pComponentList[i])>>
             IN  one \in Seq(PMRsp) /\ None(one, Said)
  <2> DEFINE v == PM!PreemptComponent(pComponentList[i])
  <2>1. v \in PMRsp /\ v \notin Said
        BY <1>1, <1>2
  <2> HIDE DEF v
  <2>2. <<v>> \in Seq(PMRsp) /\ DOMAIN <<v>> = {1} /\ <<v>>[1] = v
        BY <2>1
  <2> QED BY <2>1, <2>2 DEF None, v
<1>6. ASSUME PM!DenyPolicy(inst) PROVE AtMost(fromPM', Said) /\ None(fromPM', Grants)
  <2> DEFINE r == PM!Response("PM_DENYPOLICY", inst)
  <2>1. r \in PMRsp /\ r \notin Grants
        BY <1>0 DEF PM!Response, PMRsp, Grants
  <2>2. fromPM' = Append(fromPM, r)
        BY <1>6 DEF PM!DenyPolicy
  <2> HIDE DEF r
  <2>3. None(fromPM, Grants)
        BY DEF None, Grants, Said
  <2> QED BY <2>1, <2>2, <2>3, Appended
<1>7. ASSUME NEW priority, NEW before \in Seq(PMRsp), None(before, Said),
             PM!GrantPolicy(inst, x, priority, before)
      PROVE  AtMost(fromPM', Said) /\ inst \in running'
  <2> DEFINE r == PM!Response("PM_GRANTPOLICY", inst)
  <2>1. r \in PMRsp
        BY <1>0 DEF PM!Response, PMRsp
  <2>2. fromPM' = (fromPM \o before) \o <<r>> /\ inst \in running'
        BY <1>7 DEF PM!GrantPolicy
  <2> HIDE DEF r
  <2>3. fromPM \o before \in Seq(PMRsp) /\ None(fromPM \o before, Said)
        BY <1>7, Joined
  <2>4. ASSUME NEW s \in Seq(PMRsp) PROVE s \o <<r>> = Append(s, r)
        BY <2>1
  <2>5. fromPM' = Append(fromPM \o before, r)
        BY <2>2, <2>3, <2>4
  <2>6. AtMost(Append(fromPM \o before, r), Said)
        BY <2>1, <2>3, Appended
  <2> QED BY <2>2, <2>5, <2>6
<1>8. CASE cmd.PM_Cmd = "PM_RequestPolicy"
  <2>1. PM!HandleRequestPolicy(inst, x)
        BY <1>8 DEF PM!HandleCommand
  <2>2. PM!DenyPolicy(inst) \/ \E priority : PM!GrantPolicy(inst, x, priority, <<>>)
                                          \/ PM!GrantPolicy(inst, x, priority, all)
        BY <2>1 DEF PM!HandleRequestPolicy, PM!FirstRequestGranted, PM!FirstRequestDenied,
               PM!GrantedByActiveCombination, PM!GrantedByCoexistence, PM!GrantedByPreemption,
               PM!RequestDenied
  <2> HIDE DEF x, all, inst
  <2>3. CASE PM!DenyPolicy(inst)
        BY <1>6, <2>3 DEF inst
  <2>4. ASSUME NEW priority, PM!GrantPolicy(inst, x, priority, <<>>)
        PROVE  AtMost(fromPM', Said) /\ inst \in running'
        BY <1>4, <1>7, <2>4
  <2>5. ASSUME NEW priority, PM!GrantPolicy(inst, x, priority, all)
        PROVE  AtMost(fromPM', Said) /\ inst \in running'
        BY <1>3, <1>7, <2>5
  <2> QED BY <2>2, <2>3, <2>4, <2>5 DEF inst
<1>9. CASE cmd.PM_Cmd = "PM_FreeResources"
  <2>1. PM!HandleFreeResources(inst, x)
        BY <1>9 DEF PM!HandleCommand
  <2>2. PM!DenyPolicy(inst) \/ \E i \in DOMAIN pComponentList : \E priority :
            PM!GrantPolicy(inst, x, priority, <<PM!PreemptComponent(pComponentList[i])>>)
        BY <2>1 DEF PM!HandleFreeResources
  <2> HIDE DEF x
  <2> QED BY <1>5, <1>6, <1>7, <2>2
<1> QED BY <1>0, <1>8, <1>9

\* The policy manager takes a command.
LEMMA PolicyStaged ==
    ASSUME Typed, Typed', Staged, PolicyManagerStep PROVE Staged' /\ Backed
<1> DEFINE cmd == Head(toPM)
<1>0. PICK st \in Stages : Stage(st)
      BY DEF Staged
<1>1. /\ toPM # <<>> /\ toPM \in Seq(PMCmd) /\ toPM' = Tail(toPM) /\ PM!HandleCommand(cmd)
      /\ fromPM \in Seq(PMRsp) /\ pComponentList \in Seq(Inst)
      BY DEF PolicyManagerStep, Typed, FifosOK
<1>2. cmd \in PMCmd
      BY <1>1
<1>3. /\ UNCHANGED <<toRM, rmPipe, globalrequest_cmd_data, mmuRecoveryInProgress, rmPc, watch, curState>>
      /\ Lone /\ NoFault /\ Asker' = Asker /\ NoneDecides
      BY NothingWritten DEF PolicyManagerStep, clientVars, Staged, Asker
<1>4. \A c \in Inst : Requesting(c)' \/ None(toRM, ReqOf(c))
      BY <1>0, <1>3 DEF Stage, RmSide, Requesting
<1>5. RmSide(st)' /\ WaitSide(st)'
  <2>1. RmSide(st)'
        BY <1>0, <1>3, <1>4, RmSame DEF Stage
  <2> QED BY <1>0, <1>3, <2>1 DEF Stage, WaitSide, Requesting
<1>6. CASE cmd.PM_Cmd = "PM_FreePolicy"
  <2>1. fromPM' = fromPM /\ running' = running \ {cmd.inst}
        BY <1>1, <1>6 DEF PM!HandleCommand, PM!HandleFreePolicy
  <2>2. cmd \in PMFreeOf(cmd.inst)
        BY <1>2, <1>6 DEF PMFreeOf
  <2> HIDE DEF cmd
  <2>3. /\ AtMost(toPM', AskPM) /\ (None(toPM, AskPM) => None(toPM', AskPM))
        /\ \A c : None(toPM, AskOf(c)) => None(toPM', AskOf(c))
        /\ Ahead(toPM, AskPM, PMFreeOf(Asker)) => Ahead(toPM', AskPM, PMFreeOf(Asker))
        /\ None(toPM, PMFreeOf(Asker)) => None(toPM', PMFreeOf(Asker)) /\ cmd \notin PMFreeOf(Asker)
        BY <1>0, <1>1, Taking DEF Stage, PmSide, cmd
  <2>4. PmSide(st)'
        BY <1>0, <1>3, <2>3 DEF Stage, PmSide
  <2>5. st \in {"said", "qos"} => cmd.inst # Asker
        BY <1>0, <2>2, <2>3 DEF Stage, PmSide
  <2>6. SaidSide(st)'
        BY <1>0, <1>3, <2>1, <2>5 DEF Stage, SaidSide
  <2> QED BY <1>0, <1>3, <1>5, <2>4, <2>6, QuietStep DEF Stage, NoFault
<1>7. CASE cmd.PM_Cmd # "PM_FreePolicy"
  <2>1. cmd \in AskPM /\ cmd \in AskOf(cmd.inst) /\ cmd.inst \in Inst
    <3>1. cmd \in AskPM
          BY <1>2, <1>7 DEF AskPM
    <3> QED BY <1>2, <3>1 DEF AskOf, PMCmd
  <2> HIDE DEF cmd
  <2>2. st = "pm"
    <3>1. st = "pm" \/ None(toPM, AskPM)
          BY <1>0 DEF Stage, PmSide
    <3> QED BY <1>1, <2>1, <3>1, Taking DEF cmd
  <2>3. cmd.inst = Asker
    <3>1. cmd.inst = Asker \/ None(toPM, AskOf(cmd.inst))
          BY <1>0, <2>1, <2>2 DEF Stage, PmSide
    <3> QED BY <1>1, <2>1, <3>1, Taking DEF cmd
  <2>4. None(toPM', AskPM) /\ None(toPM', PMFreeOf(Asker))
    <3>1. AtMost(toPM, AskPM) /\ Ahead(toPM, AskPM, PMFreeOf(Asker))
          BY <1>0, <2>2 DEF Stage, PmSide
    <3> QED BY <1>1, <2>1, <3>1, Taking DEF cmd
  <2>5. None(fromPM, Said)
        BY <1>0, <2>2 DEF Stage, SaidSide
  <2>6. AtMost(fromPM', Said) /\ (Asker \in running' \/ None(fromPM', Grants))
        BY <1>1, <2>1, <2>3, <2>5, SaysOnce
  <2>7. RmSide("said")' /\ WaitSide("said")' /\ PipeSide("said")
        BY <1>0, <1>5, <2>2 DEF RmSide, WaitSide, Stage, PipeSide, Asked
  <2>8. PmSide("said")' /\ SaidSide("said")'
        BY <1>3, <2>4, <2>6 DEF PmSide, SaidSide, None, AtMost
  <2> QED BY <1>3, <2>7, <2>8, QuietStep DEF NoFault, Stages, Asked
<1> QED BY <1>6, <1>7

\* A command that is none of the marked ones.
LEMMA CommandPlain ==
    ASSUME NEW cmd \in CmdNames, NEW inst \in Inst, NEW kind \in Components, NEW param2 \in Word,
           NEW param4 \in Handles \cup {NoInst}
    PROVE  LET m == Command(cmd, inst, kind, param2, param4)
           IN  /\ m \in Cmd /\ m \notin Marked /\ m.RM_Cmd = cmd /\ m.inst = inst
               /\ cmd # "RM_RequestResource" => m \notin ReqCmd
               /\ cmd \notin {"RM_FreeResource", "RM_FreeAndCloseResource"} => \A c : m \notin FreeOf(c)
               /\ \A c : m \in FreeOf(c) \/ m \in ReqOf(c) => c = inst
<1> DEFINE m == Command(cmd, inst, kind, param2, param4)
<1>1. /\ m \in Cmd /\ m.rm_status = "RM_ErrorNone" /\ m.RM_Cmd = cmd /\ m.inst = inst
      BY DEF Command, Cmd, Statuses
<1> HIDE DEF m
<1>2. /\ m \in Cmd /\ m \notin Marked /\ m.RM_Cmd = cmd /\ m.inst = inst
      /\ cmd # "RM_RequestResource" => m \notin ReqCmd
      /\ cmd \notin {"RM_FreeResource", "RM_FreeAndCloseResource"} => \A c : m \notin FreeOf(c)
      /\ \A c : m \in FreeOf(c) \/ m \in ReqOf(c) => c = inst
      BY <1>1 DEF Marked, ReqCmd, ReqOf, FreeOf
<1> QED BY <1>2 DEF m

\* What is left to show for a step of a component that sends no request and
\* changes nothing for one that waits.
LEMMA ComponentStaged ==
    ASSUME Typed, Typed', Staged, UNCHANGED <<rmPipe, toPM, fromPM, globalrequest_cmd_data,
                                      mmuRecoveryInProgress, watch, rmPc, pmLocal>>,
           \A c \in Clients : curState'[c] = "requesting" <=> curState[c] = "requesting",
           Lone',
           \/ toRM' = toRM
           \/ \E m \in Cmd : /\ m \notin ReqCmd /\ m \notin Marked /\ toRM' = Append(toRM, m)
                             /\ \A c \in Inst : m \in FreeOf(c) => ~ Requesting(c)
    PROVE  Staged' /\ Backed
<1>0. PICK st \in Stages : Stage(st)
      BY DEF Staged
<1>1. /\ toRM \in Seq(Cmd) /\ NoFault /\ running' = running
      /\ \A c : Requesting(c)' <=> Requesting(c)
      BY DEF Typed, FifosOK, Staged, pmLocal, Requesting
<1>2. \A c \in Inst : Requesting(c)' \/ None(toRM, ReqOf(c))
      BY <1>0, <1>1 DEF Stage, RmSide
<1>3. RmSide(st)'
  <2>1. CASE toRM' = toRM
        BY <1>0, <1>2, <2>1, RmSame DEF Stage
  <2>2. ASSUME NEW m \in Cmd, m \notin ReqCmd, m \notin Marked, toRM' = Append(toRM, m),
               \A c \in Inst : m \in FreeOf(c) => ~ Requesting(c)
        PROVE  RmSide(st)'
        BY <1>0, <1>1, <1>2, <2>2, RmAppended DEF Stage
  <2> QED BY <2>1, <2>2
<1>4. PmSide(st)' /\ SaidSide(st)'
      BY <1>0, <1>1, PmSame, SaidSame DEF Stage
<1>5. WaitSide(st)'
  <2>1. Asker' = Asker
        BY DEF Asker
  <2> QED BY <1>0, <1>1, <2>1 DEF Stage, WaitSide
<1>6. NoneDecides
      BY NothingWritten
<1>7. PipeSide(st)'
  <2>1. \A c \in Inst : Requesting(c)' \/ \A p \in Pids : None(rmPipe[p], ToldOf(c))
        BY <1>0, <1>1 DEF Stage, PipeSide
  <2> QED BY <1>0, <1>6, <2>1, PipesStay DEF Stage
<1>8. Backed /\ \A p \in Pids : None(rmPipe[p], Fatal)'
  <2>1. rmPipe' \in [Pids -> Seq(Rep)]
        BY DEF Typed, FifosOK
  <2> QED BY <1>1, <1>6, <2>1, QuietReplies DEF NoFault
<1>9. NoFault' /\ Stage(st)'
      BY <1>1, <1>3, <1>4, <1>5, <1>7, <1>8 DEF NoFault, Stage
<1> QED BY <1>8, <1>9 DEF Staged

\* A component begins a request while no other has one.
LEMMA ConnectsStaged ==
    ASSUME OneAtATime, Typed, Typed', Staged, NEW c \in Clients, RequestConnects(c)
    PROVE  Staged' /\ Backed
<1>0. c \in Inst /\ c.pid \in Pids /\ KindOf[c] \in Components /\ CpuOf[c] \in Word
      /\ NoInst \in Handles \cup {NoInst}
      BY Constants
<1>1. /\ UNCHANGED <<rmPipe, toPM, fromPM, globalrequest_cmd_data, mmuRecoveryInProgress, watch, rmPc, pmLocal>>
      /\ curState[c] = "Loaded" /\ curState \in [Clients -> States]
      BY DEF RequestConnects, RMUnchangedButIn, Typed, ClientOK
<1>2. \A d \in Clients : curState[d] \notin InRequest
  <2>1. \A p \in Pids : ~ responsePending(p)
        BY <1>0 DEF RequestConnects, CanSend, OneAtATime, OneProcess
  <2> QED BY <2>1, Constants DEF responsePending, Requester
<1>3. ASSUME NEW s \in {"connecting", "sending"}, curState' = [curState EXCEPT ![c] = s]
      PROVE  Lone' /\ \A d \in Clients : curState'[d] = "requesting" <=> curState[d] = "requesting"
      BY <1>1, <1>2, <1>3 DEF Lone
<1>4. CASE numClients[c.pid] = 0
  <2>1. Send(c, "RM_OpenPipe", CpuOf[c], NoInst) /\ curState' = [curState EXCEPT ![c] = "connecting"]
        BY <1>4 DEF RequestConnects
  <2>2. \E m \in Cmd : /\ m \notin ReqCmd /\ m \notin Marked /\ toRM' = Append(toRM, m)
                       /\ \A d \in Inst : m \in FreeOf(d) => ~ Requesting(d)
        BY <1>0, <2>1, CommandPlain DEF Send, CmdNames
  <2> QED BY <1>1, <1>3, <2>1, <2>2, ComponentStaged
<1>5. CASE numClients[c.pid] # 0
  <2> DEFINE other == [c EXCEPT !.pid = rmDataPid[c.pid]]
  <2>1. /\ toRM' = Append(toRM, Command("RM_ReusePipe", other, KindOf[c], CpuOf[c], threadhandle[c.pid]))
        /\ curState' = [curState EXCEPT ![c] = "sending"]
        BY <1>5 DEF RequestConnects
  <2>2. other \in Inst /\ threadhandle[c.pid] \in Handles \cup {NoInst}
    <3>1. numClients[c.pid] \in Nat
          BY <1>0, Constants DEF Typed, ClientOK
    <3>2. rmDataPid[c.pid] \in Pids /\ threadhandle[c.pid] \in Handles \cup {NoInst}
          BY <1>0, <1>5, <3>1 DEF Typed, Asking, ClientOK
    <3> QED BY <1>0, <3>2 DEF Inst
  <2> HIDE DEF other
  <2>3. \E m \in Cmd : /\ m \notin ReqCmd /\ m \notin Marked /\ toRM' = Append(toRM, m)
                       /\ \A d \in Inst : m \in FreeOf(d) => ~ Requesting(d)
        BY <1>0, <2>1, <2>2, CommandPlain DEF CmdNames
  <2> QED BY <1>1, <1>3, <2>1, <2>3, ComponentStaged
<1> QED BY <1>4, <1>5

\* The other steps of a component but the sending of the request.
LEMMA PlainStaged ==
    ASSUME Typed, Typed', Staged, NEW c \in Clients,
           \/ PipeOpened(c) \/ PreemptedGoesIdle(c) \/ GoesLoaded(c) \/ DeInit(c) \/ ForeignCommand(c)
           \/ \E new \in DOMAIN StateCode : StateSet(c, new)
    PROVE  Staged' /\ Backed
<1> DEFINE Sent(cmd) == /\ toRM' = Append(toRM, cmd) /\ cmd \in Cmd /\ cmd \notin ReqCmd
                        /\ cmd \notin Marked
                        /\ \A d \in Inst : cmd \in FreeOf(d) => ~ Requesting(d)
           Sends == toRM' = toRM \/ \E cmd \in Cmd : Sent(cmd)
<1>0. c \in Inst /\ KindOf[c] \in Components /\ NoInst \in Handles \cup {NoInst}
      /\ curState \in [Clients -> States] /\ Lone
      BY Constants DEF Typed, ClientOK, Staged
<1>1. UNCHANGED <<rmPipe, toPM, fromPM, globalrequest_cmd_data, mmuRecoveryInProgress, watch, rmPc, pmLocal>>
      BY DEF PipeOpened, PreemptedGoesIdle, GoesLoaded, DeInit, ForeignCommand, StateSet,
             RMUnchangedButIn, rmVars
<1>2. ASSUME NEW s \in States \ {"requesting"}, curState' = [curState EXCEPT ![c] = s],
             curState[c] # "requesting", s \in InRequest => curState[c] \in InRequest
      PROVE  Lone' /\ \A d \in Clients : curState'[d] = "requesting" <=> curState[d] = "requesting"
      BY <1>0, <1>2 DEF Lone
<1>3. ASSUME NEW cmd \in CmdNames \ {"RM_RequestResource"}, NEW param2 \in Word, Send(c, cmd, param2, NoInst),
             curState[c] = "requesting" => cmd \notin {"RM_FreeResource", "RM_FreeAndCloseResource"}
      PROVE  Sends
  <2> DEFINE m == Command(cmd, c, KindOf[c], param2, NoInst)
  <2>1. /\ m \in Cmd /\ m \notin Marked /\ m \notin ReqCmd
        /\ cmd \notin {"RM_FreeResource", "RM_FreeAndCloseResource"} => \A d : m \notin FreeOf(d)
        /\ \A d : m \in FreeOf(d) => d = c
        BY <1>0, CommandPlain
  <2>2. toRM' = Append(toRM, m)
        BY <1>3 DEF Send
  <2> HIDE DEF m
  <2>3. \A d \in Inst : m \in FreeOf(d) => ~ Requesting(d)
        BY <1>3, <2>1 DEF Requesting
  <2> QED BY <2>1, <2>2, <2>3
<1>4. ASSUME Sends, Lone', \A d \in Clients : curState'[d] = "requesting" <=> curState[d] = "requesting"
      PROVE  Staged' /\ Backed
      BY <1>1, <1>4, ComponentStaged
<1> HIDE DEF Sends
<1>5. /\ DOMAIN StateCode \subseteq States \ {"requesting"} /\ DOMAIN StateCode \cap InRequest = {}
      /\ {"sending", "Idle", "Loaded"} \subseteq States \ {"requesting"}
      /\ {"connecting", "sending", "requesting"} = InRequest
      /\ "Idle" \notin InRequest /\ "Loaded" \notin InRequest
      BY DEF StateCode, States, InRequest
<1>6. {"RM_StateSet", "RM_WaitForResource", "RM_CancelWaitForResource", "RM_ExitTI", "RM_FreeResource",
       "RM_FreeAndCloseResource"} \subseteq CmdNames \ {"RM_RequestResource"} /\ 0 \in Word
      BY Constants DEF CmdNames, Word
<1>7. CASE PipeOpened(c)
  <2>1. toRM' = toRM /\ curState[c] = "connecting" /\ curState' = [curState EXCEPT ![c] = "sending"]
        BY <1>7 DEF PipeOpened, rmVars
  <2>2. Sends
        BY <2>1 DEF Sends
  <2> QED BY <1>2, <1>4, <1>5, <2>1, <2>2
<1>8. CASE GoesLoaded(c)
  <2>1. /\ toRM' = toRM /\ curState[c] # "requesting" /\ curState' = [curState EXCEPT ![c] = "Loaded"]
        BY <1>8 DEF GoesLoaded, rmVars
  <2>2. Sends
        BY <2>1 DEF Sends
  <2> QED BY <1>2, <1>4, <1>5, <2>1, <2>2
<1>9. CASE DeInit(c)
  <2>1. /\ Send(c, FreeCommand(c.pid), 0, NoInst) /\ curState[c] # "requesting"
        /\ curState' = [curState EXCEPT ![c] = "Loaded"]
        BY <1>9 DEF DeInit
  <2>2. FreeCommand(c.pid) \in CmdNames \ {"RM_RequestResource"}
        BY <1>6 DEF FreeCommand
  <2>3. Sends
        BY <1>3, <1>6, <2>1, <2>2
  <2> QED BY <1>2, <1>4, <1>5, <2>1, <2>3
<1>10. CASE ForeignCommand(c)
  <2>1. PICK cmd \in {"RM_WaitForResource", "RM_CancelWaitForResource", "RM_ExitTI"} : Send(c, cmd, 0, NoInst)
        BY <1>10 DEF ForeignCommand
  <2>2. curState' = curState
        BY <1>10 DEF ForeignCommand, clientVars
  <2>3. Sends
        BY <1>3, <1>6, <2>1
  <2> QED BY <1>0, <1>4, <2>2, <2>3 DEF Lone
<1>11. ASSUME NEW new \in DOMAIN StateCode, StateSet(c, new) PROVE Staged' /\ Backed
  <2>1. /\ Send(c, "RM_StateSet", StateCode[new], NoInst) /\ curState' = [curState EXCEPT ![c] = new]
        /\ <<curState[c], new>> \in ReportedChanges
        BY <1>11 DEF StateSet
  <2>2. curState[c] # "requesting"
        BY <2>1 DEF ReportedChanges
  <2>3. Sends
        BY <1>3, <1>6, <2>1, <2>2, Codes
  <2> QED BY <1>2, <1>4, <1>5, <2>1, <2>2, <2>3
<1>12. CASE PreemptedGoesIdle(c)
  <2>1. curState[c] # "requesting"
        BY <1>5, <1>12 DEF PreemptedGoesIdle
  <2>2. CASE UNCHANGED <<toRM, curState>>
    <3>1. Sends
          BY <2>2 DEF Sends
    <3> QED BY <1>0, <1>4, <2>2, <3>1 DEF Lone
  <2>3. CASE Send(c, "RM_StateSet", OMX_StateIdle, NoInst) /\ curState' = [curState EXCEPT ![c] = "Idle"]
    <3>1. Sends
          BY <1>3, <1>6, <2>1, <2>3, Codes
    <3> QED BY <1>2, <1>4, <1>5, <2>1, <2>3, <3>1
  <2> QED BY <1>12, <2>2, <2>3 DEF PreemptedGoesIdle
<1> QED BY <1>7, <1>8, <1>9, <1>10, <1>11, <1>12

\* The request itself is sent: every earlier one has been answered.
LEMMA RequestSent ==
    ASSUME Typed, Typed', Staged, NEW c \in Clients, RequestResource(c) PROVE Staged' /\ Backed
<1> DEFINE m == Command("RM_RequestResource", c, KindOf[c], CpuOf[c], NoInst)
<1>0. PICK st \in Stages : Stage(st)
      BY DEF Staged
<1>1. /\ UNCHANGED <<rmPipe, toPM, fromPM, globalrequest_cmd_data, mmuRecoveryInProgress, watch, rmPc, pmLocal>>
      /\ curState[c] = "sending" /\ curState \in [Clients -> States] /\ toRM' = Append(toRM, m)
      /\ curState' = [curState EXCEPT ![c] = "requesting"] /\ running' = running
      /\ Lone /\ NoFault /\ toRM \in Seq(Cmd)
      BY DEF RequestResource, RMUnchangedButIn, Typed, ClientOK, Send, Staged, pmLocal, FifosOK
<1>2. c \in Inst /\ KindOf[c] \in Components /\ NoInst \in Handles \cup {NoInst} /\ CpuOf[c] \in Word
      BY Constants
<1>3. m \in Cmd /\ m \notin Marked /\ m.RM_Cmd = "RM_RequestResource" /\ m.inst = c
      BY <1>2, CommandPlain DEF CmdNames
<1> HIDE DEF m
<1>4. (\A d : m \notin FreeOf(d)) /\ \A d : m \in ReqOf(d) => d = c
      BY <1>3 DEF FreeOf, ReqOf
<1>5. \A d : ~ Requesting(d)
      BY <1>1 DEF Lone, Requesting, InRequest
<1>6. Requesting(c)' /\ Lone'
      BY <1>1 DEF Requesting, Lone, InRequest
<1>7. st \notin Asked
      BY <1>0, <1>5 DEF Stage, WaitSide
<1>8. None(toRM, ReqCmd) /\ \A d : None(toRM, ReqOf(d))
  <2>1. \A d \in Inst : None(toRM, ReqOf(d))
        BY <1>0, <1>5 DEF Stage, RmSide
  <2>2. \A x \in ReqCmd : x.inst \in Inst /\ x \in ReqOf(x.inst)
        BY DEF ReqCmd, ReqOf, Cmd
  <2>3. None(toRM, ReqCmd)
        BY <2>1, <2>2 DEF None
  <2> QED BY <2>3 DEF None, ReqOf
<1>9. \A p \in Pids : None(rmPipe[p], Told)
  <2>1. \A d \in Inst : \A p \in Pids : None(rmPipe[p], ToldOf(d))
        BY <1>0, <1>5 DEF Stage, PipeSide
  <2>2. \A x \in Told : x.inst \in Inst /\ x \in ToldOf(x.inst)
        BY DEF Told, ToldOf, Rep
  <2> QED BY <2>1, <2>2 DEF None
<1>10. RmSide("rm")'
  <2>1. AtMost(toRM', ReqCmd) /\ None(toRM', Marked)
        BY <1>0, <1>1, <1>3, <1>8, Appended DEF Stage, RmSide
  <2>2. ASSUME NEW d \in Inst PROVE Requesting(d)' \/ None(toRM', ReqOf(d))
        BY <1>1, <1>3, <1>4, <1>6, <1>8, Appended
  <2>3. ASSUME NEW d \in Inst PROVE Ahead(toRM', ReqOf(d), FreeOf(d))
        BY <1>1, <1>3, <1>4, <1>8, Appended
  <2> QED BY <2>1, <2>2, <2>3 DEF RmSide, Asked
<1>11. PmSide("rm")' /\ SaidSide("rm")' /\ WaitSide("rm")'
      BY <1>0, <1>1, <1>7 DEF Stage, PmSide, SaidSide, WaitSide, Asked
<1>12. \A p \in Pids : \A d : None(rmPipe[p], ToldOf(d))
      BY <1>9 DEF None, ToldOf
<1>13. PipeSide("rm")'
      BY <1>1, <1>9, <1>12 DEF PipeSide, None, AtMost
<1>14. Stage("rm")' /\ NoFault'
      BY <1>1, <1>10, <1>11, <1>13 DEF Stage, NoFault
<1>15. Backed
      BY <1>1 DEF Backed, Written
<1> QED BY <1>6, <1>14, <1>15 DEF Staged, Stages

\* The proxy takes a reply.
LEMMA ReplyTaken ==
    ASSUME Typed, NEW st \in Stages, PipeSide(st), NoFault, NEW p \in Pids, NEW status, ReadReply(p, status)
    PROVE  /\ Backed /\ \A q \in Pids : None(rmPipe[q], Fatal)'
           /\ status # "RM_RESOURCEFATALERROR"
           /\ UNCHANGED curState => PipeSide(st)'
           /\ status \in Decisions => st = "told" /\ PipeSide("told")' /\ \A q \in Pids : None(rmPipe[q], Told)'
<1> DEFINE s == rmPipe[p]
           r == Head(s)
<1>1. /\ s # <<>> /\ s \in Seq(Rep) /\ r.rm_status = status /\ rmPipe \in [Pids -> Seq(Rep)]
      /\ rmPipe' = [rmPipe EXCEPT ![p] = Tail(s)]
      BY DEF ReadReply, Typed, FifosOK
<1>2. r \in Rep
      BY <1>1
<1>3. rmPipe'[p] = Tail(s) /\ \A q \in Pids : q = p \/ rmPipe'[q] = rmPipe[q]
      BY <1>1
<1> HIDE DEF r
<1>4. ASSUME NEW T
      PROVE  /\ None(s, T) => None(rmPipe'[p], T) /\ r \notin T
             /\ AtMost(s, T) => AtMost(rmPipe'[p], T)
             /\ AtMost(s, T) /\ r \in T => None(rmPipe'[p], T)
      BY <1>1, <1>3, Taking DEF r
<1>5. Backed
  <2>1. \A i \in DOMAIN Tail(s) : i \in DOMAIN s
        BY <1>1
  <2> QED BY <1>3, <2>1 DEF Backed, Written
<1>6. status # "RM_RESOURCEFATALERROR" /\ \A q \in Pids : None(rmPipe'[q], Fatal)
  <2>1. \A q \in Pids : None(rmPipe[q], Fatal)
        BY DEF NoFault
  <2>2. r \notin Fatal /\ None(rmPipe'[p], Fatal)
        BY <1>4, <2>1
  <2>3. status # "RM_RESOURCEFATALERROR"
        BY <1>1, <1>2, <2>2 DEF Fatal
  <2> QED BY <1>3, <2>1, <2>2, <2>3
<1>7. /\ \A q \in Pids : AtMost(rmPipe'[q], Told) /\ (None(rmPipe[q], Told) => None(rmPipe'[q], Told))
      /\ \A q \in Pids : \A c : None(rmPipe[q], ToldOf(c)) => None(rmPipe'[q], ToldOf(c))
      BY <1>3, <1>4 DEF PipeSide
<1> HIDE DEF s
<1>8. ASSUME UNCHANGED curState PROVE PipeSide(st)'
  <2>1. \A c \in Inst : Requesting(c)' \/ \A q \in Pids : None(rmPipe'[q], ToldOf(c))
        BY <1>7, <1>8 DEF PipeSide, Requesting
  <2> QED BY <1>7, <2>1 DEF PipeSide
<1>9. ASSUME status \in Decisions
      PROVE  st = "told" /\ PipeSide("told")' /\ \A q \in Pids : None(rmPipe'[q], Told)
  <2>1. r \in Told
        BY <1>1, <1>2, <1>9 DEF Told
  <2>2. ~ None(rmPipe[p], Told) /\ None(rmPipe'[p], Told)
        BY <1>4, <2>1 DEF s, PipeSide
  <2>3. st = "told" /\ \A q \in Pids : q = p \/ None(rmPipe[q], Told)
        BY <2>2 DEF PipeSide
  <2>4. \A q \in Pids : None(rmPipe'[q], Told)
        BY <1>3, <2>2, <2>3
  <2>5. \A q \in Pids : \A c : None(rmPipe'[q], ToldOf(c))
        BY <2>4 DEF None, ToldOf
  <2> QED BY <1>7, <2>3, <2>4, <2>5 DEF PipeSide
<1> QED BY <1>5, <1>6, <1>8, <1>9

\* The proxy thread of a process.
LEMMA ProxyStaged ==
    ASSUME Typed, Typed', Staged, NEW p \in Pids, ProxyStep(p) PROVE Staged' /\ Backed
<1>0. PICK st \in Stages : Stage(st)
      BY DEF Staged
<1>1. PICK status : ReadReply(p, status)
      BY DEF ProxyStep, Granted, Denied, Preempted, Informed, FatalError, FatalErrorIgnored
<1>2. /\ UNCHANGED <<toPM, fromPM, globalrequest_cmd_data, mmuRecoveryInProgress, watch, rmPc, pmLocal>>
      /\ running' = running /\ Lone /\ NoFault /\ curState \in [Clients -> States] /\ toRM \in Seq(Cmd)
      /\ Asker' = Asker
      BY <1>1 DEF ReadReply, pmLocal, Staged, Typed, ClientOK, FifosOK, Asker
<1>3. Backed /\ NoFault' /\ ~ FatalError(p) /\ ~ FatalErrorIgnored(p)
      BY <1>0, <1>1, <1>2, ReplyTaken DEF Stage, NoFault, FatalError, FatalErrorIgnored
<1>4. PmSide(st)' /\ SaidSide(st)'
      BY <1>0, <1>2, PmSame, SaidSame DEF Stage
<1>5. CASE UNCHANGED <<toRM, curState>>
  <2>1. PipeSide(st)'
        BY <1>0, <1>1, <1>2, <1>5, ReplyTaken DEF Stage
  <2>2. \A c \in Inst : Requesting(c)' \/ None(toRM, ReqOf(c))
        BY <1>0, <1>5 DEF Stage, RmSide, Requesting
  <2>3. RmSide(st)'
        BY <1>0, <1>2, <1>5, <2>2, RmSame DEF Stage
  <2>4. WaitSide(st)' /\ Lone'
        BY <1>0, <1>2, <1>5 DEF Stage, WaitSide, Requesting, Lone
  <2> QED BY <1>3, <1>4, <2>1, <2>3, <2>4 DEF Staged, Stage
<1>6. ASSUME NEW answer \in Decisions, ReadReply(p, answer),
             \A c \in Clients : curState'[c] \in InRequest => curState[c] \in InRequest,
             \/ toRM' = toRM
             \/ \E m \in Cmd : /\ m \notin ReqCmd /\ m \notin Marked /\ toRM' = Append(toRM, m)
                               /\ \A c : m \notin FreeOf(c)
      PROVE  Staged'
  <2>1. st = "told" /\ PipeSide("told")'
        BY <1>0, <1>2, <1>6, ReplyTaken DEF Stage
  <2>2. None(toRM, ReqCmd) /\ RmSide(st) /\ WaitSide(st)
        BY <1>0, <2>1 DEF Stage, RmSide
  <2>3. \A c \in Inst : Requesting(c)' \/ None(toRM, ReqOf(c))
        BY <2>2 DEF None, ReqOf
  <2>4. RmSide(st)'
    <3>1. CASE toRM' = toRM
          BY <1>2, <2>2, <2>3, <3>1, RmSame
    <3>2. ASSUME NEW m \in Cmd, m \notin ReqCmd, m \notin Marked, toRM' = Append(toRM, m),
                 \A c : m \notin FreeOf(c)
          PROVE  RmSide(st)'
          BY <1>2, <2>2, <2>3, <3>2, RmAppended
    <3> QED BY <1>6, <3>1, <3>2
  <2>5. WaitSide(st)' /\ Lone'
        BY <1>2, <1>6, <2>1, <2>2 DEF WaitSide, Asked, Lone
  <2> QED BY <1>3, <1>4, <2>1, <2>4, <2>5 DEF Staged, Stage
<1>7. "Idle" \notin InRequest /\ "WaitForResources" \notin InRequest
      /\ "RM_GRANT" \in Decisions /\ "RM_DENY" \in Decisions
      BY DEF InRequest, Decisions
<1>8. CASE Granted(p)
  <2>1. ASSUME NEW c \in Requester(p), curState' = [curState EXCEPT ![c] = "Idle"],
               Send(c, "RM_StateSet", OMX_StateIdle, NoInst)
        PROVE  Staged'
    <3>1. c \in Clients /\ c \in Inst /\ KindOf[c] \in Components /\ NoInst \in Handles \cup {NoInst}
          BY <2>1, Constants DEF Requester
    <3>2. \E m \in Cmd : /\ m \notin ReqCmd /\ m \notin Marked /\ toRM' = Append(toRM, m)
                         /\ \A d : m \notin FreeOf(d)
          BY <2>1, <3>1, Codes, CommandPlain DEF Send, CmdNames
    <3>3. \A d \in Clients : curState'[d] \in InRequest => curState[d] \in InRequest
          BY <1>2, <1>7, <2>1
    <3> QED BY <1>6, <1>7, <1>8, <3>2, <3>3 DEF Granted
  <2> QED BY <1>3, <1>5, <1>8, <2>1 DEF Granted
<1>9. CASE Denied(p)
  <2>1. \A d \in Clients : curState'[d] \in InRequest => curState[d] \in InRequest
        BY <1>7, <1>9 DEF Denied
  <2> QED BY <1>3, <1>6, <1>7, <1>9, <2>1 DEF Denied
<1>10. CASE Preempted(p) \/ Informed(p)
      BY <1>5, <1>10 DEF Preempted, Informed
<1> QED BY <1>3, <1>8, <1>9, <1>10 DEF ProxyStep

\* At the start no request has been sent.
LEMMA InitStaged == Init => Staged
<1> SUFFICES ASSUME Init PROVE Staged
    OBVIOUS
<1>1. /\ toRM = <<>> /\ rmPipe = [p \in Pids |-> <<>>] /\ toPM = <<>> /\ fromPM = <<>> /\ rmPc = "select"
      /\ mmuRecoveryInProgress = FALSE /\ watch = [pc |-> "reopen", i |-> 0, faults |-> 0]
      /\ curState = [c \in Clients |-> "Loaded"]
      BY DEF Init, RMInit, PM!PMInit
<1>2. \A T, F : None(<<>>, T) /\ AtMost(<<>>, T) /\ Ahead(<<>>, T, F)
      BY DEF None, AtMost, Ahead
<1>3. RmSide("told") /\ PmSide("told") /\ SaidSide("told") /\ WaitSide("told") /\ PipeSide("told")
      BY <1>1, <1>2 DEF RmSide, PmSide, SaidSide, WaitSide, PipeSide, Asked
<1>4. Lone /\ NoFault
      BY <1>1, <1>2 DEF Lone, NoFault, InRequest
<1> QED BY <1>3, <1>4 DEF Staged, Stage, Stages

\* Every step keeps a request in one place, and grants what the policy manager granted.
LEMMA NextStaged ==
    ASSUME OneAtATime PROVE Typed /\ Typed' /\ Staged /\ [Next]_vars => Staged' /\ [Backed]_vars
<1> SUFFICES ASSUME Typed, Typed', Staged, [Next]_vars PROVE Staged' /\ [Backed]_vars
    OBVIOUS
<1>1. CASE ResourceManagerStep
      BY <1>1, CommandStaged, IdleStaged, ResponseStaged, QosStaged
         DEF ResourceManagerStep, MainNext, OneAtATime
<1>2. CASE WatchThreadStep
      BY <1>2, IdleStaged DEF WatchThreadStep, OneAtATime
<1>3. CASE PolicyManagerStep
      BY <1>3, PolicyStaged
<1>4. ASSUME NEW c \in Clients, ComponentStep(c) PROVE Staged' /\ Backed
      BY <1>4, ConnectsStaged, PlainStaged, RequestSent DEF ComponentStep
<1>5. ASSUME NEW p \in Pids, ProxyStep(p) PROVE Staged' /\ Backed
      BY <1>5, ProxyStaged
<1>6. CASE UNCHANGED vars
  <2>1. UNCHANGED <<rmPipe, toRM, toPM, fromPM, globalrequest_cmd_data, mmuRecoveryInProgress, watch, rmPc,
                    pmLocal, curState>>
        BY <1>6 DEF vars, rmVars, clientVars
  <2>2. Lone'
        BY <2>1 DEF Staged, Lone
  <2>3. Staged'
        BY <2>1, <2>2, ComponentStaged
  <2> QED BY <1>6, <2>3
<1> QED BY <1>1, <1>2, <1>3, <1>4, <1>5, <1>6 DEF Next

\* While one component at a time asks and the DSP does not fail, each request gets
\* one decision at most, and the component that asked gets it: with components that
\* wait, that are destroyed unused, with stub mode and with commands no component
\* sends, for every policy table and any number of processes.
THEOREM AnswersAwaited ==
    ASSUME OneAtATime PROVE Spec => []AnswerAwaited
<1>1. Typed /\ Staged => AnswerAwaited
  <2> SUFFICES ASSUME Typed, Staged, NEW p \in Pids, NEW i \in DOMAIN rmPipe[p],
                      rmPipe[p][i].rm_status \in Decisions
               PROVE  rmPipe[p][i].inst \in Clients /\ curState[rmPipe[p][i].inst] = "requesting"
      BY DEF AnswerAwaited
  <2>1. PICK st \in Stages : PipeSide(st)
        BY DEF Staged, Stage
  <2>2. rmPipe[p][i] \in Rep
    <3>1. rmPipe[p] \in Seq(Rep)
          BY DEF Typed, FifosOK
    <3> QED BY <3>1
  <2>3. rmPipe[p][i].inst \in Inst /\ rmPipe[p][i] \in ToldOf(rmPipe[p][i].inst)
        BY <2>2 DEF Rep, Told, ToldOf
  <2> QED BY <2>1, <2>3 DEF PipeSide, None, Requesting
<1> QED BY <1>1, InitStaged, NextStaged, AlwaysTyped, PTL DEF Spec

\* And the resource manager then grants only what the policy manager granted and
\* has not taken back, whatever other commands and preemptions come in between.
THEOREM GrantsBacked ==
    ASSUME OneAtATime PROVE Spec => GrantBacked
<1>1. [Backed]_vars => [\A p \in Pids : \A reply \in Written(p) :
          reply.rm_status = "RM_GRANT" => reply.inst \in running]_vars
      BY DEF Backed
<1>2. Spec => [][Backed]_vars
      BY InitStaged, NextStaged, AlwaysTyped, PTL DEF Spec
<1> QED BY <1>1, <1>2, PTL DEF GrantBacked

-----------------------------------------------------------------------------
(* The cycles a grant needs.                                               *)

\* A request is under way between the servers.
Deciding == rmPc = "qos" \/ ~ None(toPM, AskPM) \/ ~ None(fromPM, Said)

\* With one process nothing follows a request in RM_SERVER_IN, and param2 of
\* cmd_data stays the one of the request until it is decided.
Alone ==
    /\ \A i \in DOMAIN toRM : toRM[i] \in ReqCmd =>
          i = Len(toRM) /\ toRM[i].param2 = CpuOf[toRM[i].inst]
    /\ Deciding => toRM = <<>> /\ cmd_data.param2 = CpuOf[Asker]

\* A component waits while the servers decide, or while its request is in RM_SERVER_IN.
LEMMA NobodyAsks ==
    ASSUME Typed, Staged, \A c \in Clients : curState[c] # "requesting"
    PROVE  ~ Deciding /\ None(toRM, ReqCmd)
<1>0. PICK st \in Stages : Stage(st)
      BY DEF Staged
<1>1. \A c : ~ Requesting(c)
      BY DEF Requesting
<1>2. st \notin Asked
      BY <1>0, <1>1 DEF Stage, WaitSide
<1>3. ~ Deciding
      BY <1>0, <1>2 DEF Deciding, Stage, PmSide, SaidSide, WaitSide, Asked
<1>4. \A d \in Inst : None(toRM, ReqOf(d))
      BY <1>0, <1>1 DEF Stage, RmSide
<1>5. \A x \in ReqCmd : x.inst \in Inst /\ x \in ReqOf(x.inst)
      BY DEF ReqCmd, ReqOf, Cmd
<1> QED BY <1>3, <1>4, <1>5 DEF None

\* A command is sent while no request is in RM_SERVER_IN and none is being decided.
LEMMA AloneSent ==
    ASSUME toRM \in Seq(Cmd), ~ Deciding, None(toRM, ReqCmd), NEW m \in Cmd, toRM' = Append(toRM, m),
           m \in ReqCmd => m.param2 = CpuOf[m.inst], UNCHANGED <<rmPc, toPM, fromPM>>
    PROVE  Alone'
<1>1. ~ Deciding'
      BY DEF Deciding
<1>2. ASSUME NEW i \in DOMAIN toRM', toRM'[i] \in ReqCmd
      PROVE  i = Len(toRM') /\ toRM'[i] = m
  <2>1. /\ Len(toRM') = Len(toRM) + 1 /\ DOMAIN toRM' = 1..(Len(toRM) + 1) /\ Len(toRM) \in Nat
        /\ toRM'[Len(toRM) + 1] = m /\ DOMAIN toRM = 1..Len(toRM)
        /\ \A j \in 1..Len(toRM) : toRM'[j] = toRM[j]
        OBVIOUS
  <2>2. i \notin 1..Len(toRM)
        BY <1>2, <2>1 DEF None
  <2> QED BY <2>1, <2>2
<1> QED BY <1>1, <1>2 DEF Alone

\* A step that sends nothing and reads nothing from RM_SERVER_IN.
LEMMA AloneSame ==
    ASSUME Alone, toRM' = toRM, Deciding' => Deciding,
           Deciding => cmd_data'.param2 = cmd_data.param2,
           globalrequest_cmd_data' = globalrequest_cmd_data
    PROVE  Alone'
BY DEF Alone, Asker

\* While the servers decide, cmd_data holds a command.
LEMMA DecidingData ==
    ASSUME Typed, Deciding PROVE cmd_data \in Cmd
<1>1. toPM # <<>> \/ fromPM # <<>> \/ rmPc = "qos"
      BY DEF Deciding, None
<1> QED BY <1>1 DEF Typed, DataOK

\* A reply put together in cmd_data leaves param2 as it is.
LEMMA ReplyKeepsParam ==
    ASSUME NEW cmd \in Cmd, NEW x, NEW status
    PROVE  [cmd EXCEPT !.inst = x, !.rm_status = status].param2 = cmd.param2
BY DEF Cmd

\* The steps of the servers, the fault thread's included.
LEMMA ServersAlone ==
    ASSUME Typed, Alone, MainNext \/ WatchNext \/ PolicyManagerStep PROVE Alone'
<1>t. toRM \in Seq(Cmd) /\ toPM \in Seq(PMCmd) /\ fromPM \in Seq(PMRsp)
      BY DEF Typed, FifosOK
<1>1. CASE ReadCommand
  <2> DEFINE cmd == Head(toRM)
             n == Len(toRM)
  <2>1. toRM # <<>> /\ toRM' = Tail(toRM) /\ fromPM' = fromPM
        BY <1>1 DEF ReadCommand
  <2>2. ~ Deciding
        BY <2>1 DEF Alone
  <2>3. /\ n \in Nat /\ n > 0 /\ DOMAIN toRM = 1..n /\ 1 \in DOMAIN toRM /\ cmd = toRM[1] /\ cmd \in Cmd
        /\ Len(toRM') = n - 1 /\ DOMAIN toRM' = 1..(n - 1)
        /\ \A i \in 1..(n - 1) : i + 1 \in 1..n /\ toRM'[i] = toRM[i + 1]
        BY <1>t, <2>1
  <2> HIDE DEF n, cmd
  <2>4. \A i \in DOMAIN toRM' : toRM'[i] \in ReqCmd =>
            i = Len(toRM') /\ toRM'[i].param2 = CpuOf[toRM'[i].inst]
    <3> SUFFICES ASSUME NEW i \in 1..(n - 1), toRM'[i] \in ReqCmd
                 PROVE  i = n - 1 /\ toRM'[i].param2 = CpuOf[toRM'[i].inst]
        BY <2>3
    <3>1. toRM[i + 1] \in ReqCmd /\ i + 1 \in DOMAIN toRM /\ toRM'[i] = toRM[i + 1]
          BY <2>3
    <3>2. i + 1 = n /\ toRM[i + 1].param2 = CpuOf[toRM[i + 1].inst]
          BY <3>1 DEF Alone, n
    <3> QED BY <2>3, <3>1, <3>2
  <2>5. CASE cmd.RM_Cmd = "RM_RequestResource" /\ HandleRequestResource(cmd) /\ ~ stub_mode
    <3>1. cmd_data' = cmd /\ Asker' = cmd.inst
          BY <2>5 DEF HandleRequestResource, Asker
    <3>2. cmd \in ReqCmd
          BY <2>3, <2>5 DEF ReqCmd
    <3>3. n = 1 /\ cmd.param2 = CpuOf[cmd.inst]
          BY <2>3, <3>2 DEF Alone, n
    <3>4. toRM' = <<>>
          BY <1>t, <2>1, <3>3 DEF n
    <3> QED BY <2>4, <3>1, <3>3, <3>4 DEF Alone
  <2>6. ASSUME rmPc' # "qos", None(toPM', AskPM) PROVE Alone'
        BY <2>1, <2>2, <2>4, <2>6 DEF Alone, Deciding
  <2>7. CASE HandleRequestResource(cmd) /\ stub_mode
        BY <2>2, <2>6, <2>7 DEF HandleRequestResource, Deciding
  <2>8. CASE HandleFreeResource(cmd)
    <3> DEFINE m == [PM_Cmd |-> "PM_FreePolicy", inst |-> cmd.inst, param1 |-> cmd.param1]
    <3>1. rmPc' = "remove" /\ (toPM' = toPM \/ toPM' = Append(toPM, m))
          BY <2>3, <2>8, FreeSends
    <3>2. m \in PMCmd /\ m \notin AskPM
          BY <2>3 DEF PMCmd, Cmd, AskPM
    <3> HIDE DEF m
    <3>3. None(toPM, AskPM)
          BY <2>2 DEF Deciding
    <3>4. CASE toPM' = toPM
          BY <2>6, <3>1, <3>3, <3>4
    <3>5. CASE toPM' = Append(toPM, m)
      <4>1. None(Append(toPM, m), AskPM)
            BY <1>t, <3>2, <3>3, Appended
      <4> QED BY <2>6, <3>1, <3>5, <4>1
    <3> QED BY <3>1, <3>4, <3>5
  <2>9. CASE HandleStateSet(cmd) \/ RM_CreatePipe(cmd) \/ RM_ReusePipe(cmd) \/ IgnoredRMCommand(cmd)
             \/ (rmPc' = "select" /\ toPM' = toPM)
    <3>1. rmPc' = "select" /\ toPM' = toPM
          BY <2>9 DEF HandleStateSet, RM_CreatePipe, RM_ReusePipe, IgnoredRMCommand
    <3> QED BY <2>2, <2>6, <3>1 DEF Deciding
  <2> QED BY <1>1, <2>5, <2>7, <2>8, <2>9 DEF ReadCommand, cmd
<1>2. CASE RemoveFreed
      BY <1>2, AloneSame DEF RemoveFreed, Deciding
<1>3. CASE PolicyPreempted \/ PolicyDenied \/ PolicyGrantedInRecovery \/ PolicyGranted
  <2>1. /\ toRM' = toRM /\ toPM' = toPM /\ globalrequest_cmd_data' = globalrequest_cmd_data
        /\ fromPM # <<>> /\ fromPM' = Tail(fromPM)
        BY <1>3 DEF PolicyPreempted, PolicyDenied, PolicyGrantedInRecovery, PolicyGranted, ReadResponse
  <2>2. None(fromPM, Said) => None(fromPM', Said) /\ Head(fromPM) \notin Said
        BY <1>t, <2>1, Taking
  <2>3. rmPc' = rmPc \/ Head(fromPM) \in Said
    <3>1. Head(fromPM) \in PMRsp
          BY <1>t, <2>1
    <3> QED BY <1>3, <3>1 DEF PolicyPreempted, PolicyDenied, PolicyGrantedInRecovery, PolicyGranted,
                              ReadResponse, Said
  <2>4. Deciding' => Deciding
        BY <2>1, <2>2, <2>3 DEF Deciding
  <2>5. Deciding => cmd_data'.param2 = cmd_data.param2
    <3>1. CASE PolicyPreempted
      <4> DEFINE mixed == [h |-> Head(fromPM).inst.h, pid |-> cmd_data.inst.pid]
      <4>1. cmd_data' = [cmd_data EXCEPT !.inst = mixed, !.rm_status = "RM_PREEMPT"]
            BY <3>1 DEF PolicyPreempted
      <4> HIDE DEF mixed
      <4> QED BY <4>1, DecidingData, ReplyKeepsParam
    <3>2. CASE PolicyDenied \/ PolicyGrantedInRecovery \/ PolicyGranted
          BY <3>2 DEF PolicyDenied, PolicyGrantedInRecovery, PolicyGranted
    <3> QED BY <1>3, <3>1, <3>2
  <2> QED BY <2>1, <2>4, <2>5, AloneSame
<1>4. CASE GetQosOk \/ GetQosDeny \/ GetQosFails \/ InitializeQosFails
  <2>1. rmPc = "qos" /\ UNCHANGED <<toRM, cmd_data, globalrequest_cmd_data>>
        BY <1>4 DEF GetQosOk, GetQosDeny, GetQosFails, InitializeQosFails
  <2> QED BY <2>1, AloneSame DEF Deciding
<1>5. CASE WatchNext
  <2>1. UNCHANGED <<toRM, toPM, fromPM, rmPc, globalrequest_cmd_data>>
        BY <1>5 DEF WatchNext, Fault, WatchFill, WatchWrite, WatchLoopEnds, WatchPoll, DspReopened,
                    DspLost, MainUnchanged
  <2>2. Deciding' => Deciding
        BY <2>1 DEF Deciding
  <2>3. CASE WatchFill
    <3>1. cmd_data' = [cmd_data EXCEPT !.inst = componentList[watch.i].inst,
                                       !.rm_status = "RM_RESOURCEFATALERROR"]
          BY <2>3 DEF WatchFill
    <3>2. Deciding => cmd_data'.param2 = cmd_data.param2
          BY <3>1, DecidingData, ReplyKeepsParam
    <3> QED BY <2>1, <2>2, <3>2, AloneSame
  <2>4. CASE ~ WatchFill
    <3>1. cmd_data' = cmd_data
          BY <1>5, <2>4 DEF WatchNext, Fault, WatchWrite, WatchLoopEnds, WatchPoll, DspReopened, DspLost
    <3> QED BY <2>1, <2>2, <3>1, AloneSame
  <2> QED BY <2>3, <2>4
<1>6. CASE PolicyManagerStep
  <2> DEFINE cmd == Head(toPM)
  <2>1. /\ toPM # <<>> /\ toPM' = Tail(toPM) /\ PM!HandleCommand(cmd)
        /\ UNCHANGED <<toRM, cmd_data, rmPc, globalrequest_cmd_data>>
        BY <1>6 DEF PolicyManagerStep
  <2>2. cmd \in PMCmd
        BY <1>t, <2>1
  <2>3. None(toPM, AskPM) => None(toPM', AskPM) /\ cmd \notin AskPM
        BY <1>t, <2>1, Taking
  <2>4. cmd \notin AskPM => fromPM' = fromPM
        BY <2>1, <2>2 DEF AskPM, PM!HandleCommand, PM!HandleFreePolicy
  <2> HIDE DEF cmd
  <2>5. Deciding' => Deciding
        BY <2>1, <2>3, <2>4 DEF Deciding
  <2> QED BY <2>1, <2>5, AloneSame
<1> QED BY <1>1, <1>2, <1>3, <1>4, <1>5, <1>6 DEF MainNext

\* The steps of the components, in one process whose components send what they send.
LEMMA ComponentAlone ==
    ASSUME OneProcess, "foreign" \notin Usage, Typed, Staged, Alone, NEW c \in Clients, ComponentStep(c)
    PROVE  Alone'
<1>0. /\ c \in Inst /\ c.pid \in Pids /\ KindOf[c] \in Components /\ NoInst \in Handles \cup {NoInst}
      /\ CpuOf[c] \in Word /\ toRM \in Seq(Cmd) /\ Lone
      BY Constants DEF Typed, FifosOK, Staged
<1>1. ~ ForeignCommand(c)
      BY DEF ForeignCommand
<1>2. UNCHANGED <<toPM, fromPM, globalrequest_cmd_data, rmPc, cmd_data>>
      BY <1>1 DEF ComponentStep, RequestConnects, PipeOpened, RequestResource, StateSet, PreemptedGoesIdle,
                  GoesLoaded, DeInit, RMUnchangedButIn, rmVars
<1>3. ASSUME toRM' = toRM PROVE Alone'
      BY <1>2, <1>3, AloneSame DEF Deciding
<1>4. ASSUME CanSend(c) PROVE ~ Deciding /\ None(toRM, ReqCmd)
  <2>1. \A d \in Clients : curState[d] \notin InRequest
        BY <1>0, <1>4, Constants DEF CanSend, OneProcess, responsePending, Requester
  <2> QED BY <2>1, NobodyAsks DEF InRequest
<1>5. ASSUME NEW cmd \in CmdNames, NEW inst \in Inst, NEW param2 \in Word, NEW param4 \in Handles \cup {NoInst},
             toRM' = Append(toRM, Command(cmd, inst, KindOf[c], param2, param4)),
             cmd = "RM_RequestResource" => param2 = CpuOf[inst], ~ Deciding, None(toRM, ReqCmd)
      PROVE  Alone'
  <2> DEFINE m == Command(cmd, inst, KindOf[c], param2, param4)
  <2>1. m \in Cmd /\ m.RM_Cmd = cmd /\ m.inst = inst /\ m.param2 = param2
        BY <1>0 DEF Command, Cmd, Statuses
  <2>2. toRM' = Append(toRM, m)
        BY <1>5
  <2> HIDE DEF m
  <2>3. m \in ReqCmd => m.param2 = CpuOf[m.inst]
        BY <1>5, <2>1 DEF ReqCmd
  <2> QED BY <1>0, <1>2, <1>5, <2>1, <2>2, <2>3, AloneSent
<1>6. {"RM_StateSet", "RM_OpenPipe", "RM_ReusePipe", "RM_RequestResource", "RM_FreeResource",
       "RM_FreeAndCloseResource"} \subseteq CmdNames /\ 0 \in Word
      BY Constants DEF CmdNames, Word
<1>7. CASE RequestConnects(c)
  <2>1. ~ Deciding /\ None(toRM, ReqCmd)
        BY <1>4, <1>7 DEF RequestConnects
  <2>2. CASE numClients[c.pid] = 0
    <3>1. toRM' = Append(toRM, Command("RM_OpenPipe", c, KindOf[c], CpuOf[c], NoInst))
          BY <1>7, <2>2 DEF RequestConnects, Send
    <3> QED BY <1>0, <1>5, <1>6, <2>1, <3>1
  <2>3. CASE numClients[c.pid] # 0
    <3> DEFINE other == [c EXCEPT !.pid = rmDataPid[c.pid]]
    <3>1. toRM' = Append(toRM, Command("RM_ReusePipe", other, KindOf[c], CpuOf[c], threadhandle[c.pid]))
          BY <1>7, <2>3 DEF RequestConnects
    <3>2. rmDataPid[c.pid] \in Pids /\ threadhandle[c.pid] \in Handles \cup {NoInst}
      <4>1. numClients[c.pid] \in Nat
            BY <1>0, Constants DEF Typed, ClientOK
      <4> QED BY <1>0, <2>3, <4>1 DEF Typed, Asking, ClientOK
    <3>3. other \in Inst
          BY <1>0, <3>2 DEF Inst
    <3> HIDE DEF other
    <3> QED BY <1>0, <1>5, <1>6, <2>1, <3>1, <3>2, <3>3
  <2> QED BY <2>2, <2>3
<1>8. CASE PipeOpened(c) \/ GoesLoaded(c)
      BY <1>3, <1>8 DEF PipeOpened, GoesLoaded, rmVars
<1>9. CASE RequestResource(c)
  <2>1. /\ curState[c] = "sending"
        /\ toRM' = Append(toRM, Command("RM_RequestResource", c, KindOf[c], CpuOf[c], NoInst))
        BY <1>9 DEF RequestResource, Send
  <2>2. \A d \in Clients : curState[d] # "requesting"
        BY <1>0, <2>1 DEF Lone, InRequest
  <2>3. ~ Deciding /\ None(toRM, ReqCmd)
        BY <2>2, NobodyAsks
  <2> QED BY <1>0, <1>5, <1>6, <2>1, <2>3
<1>10. ASSUME NEW new \in DOMAIN StateCode, StateSet(c, new) PROVE Alone'
  <2>1. /\ toRM' = Append(toRM, Command("RM_StateSet", c, KindOf[c], StateCode[new], NoInst))
        /\ ~ Deciding /\ None(toRM, ReqCmd)
        BY <1>4, <1>10 DEF StateSet, Send
  <2> QED BY <1>0, <1>5, <1>6, <2>1, Codes
<1>11. CASE PreemptedGoesIdle(c)
  <2>1. CASE toRM' = toRM
        BY <1>3, <2>1
  <2>2. CASE CanSend(c) /\ Send(c, "RM_StateSet", OMX_StateIdle, NoInst)
    <3>1. /\ toRM' = Append(toRM, Command("RM_StateSet", c, KindOf[c], OMX_StateIdle, NoInst))
          /\ ~ Deciding /\ None(toRM, ReqCmd)
          BY <1>4, <2>2 DEF Send
    <3> QED BY <1>0, <1>5, <1>6, <3>1, Codes
  <2> QED BY <1>11, <2>1, <2>2 DEF PreemptedGoesIdle
<1>12. CASE DeInit(c)
  <2>1. /\ toRM' = Append(toRM, Command(FreeCommand(c.pid), c, KindOf[c], 0, NoInst))
        /\ ~ Deciding /\ None(toRM, ReqCmd)
        BY <1>4, <1>12 DEF DeInit, Send
  <2>2. FreeCommand(c.pid) \in CmdNames /\ FreeCommand(c.pid) # "RM_RequestResource"
        BY <1>6 DEF FreeCommand
  <2> QED BY <1>0, <1>5, <1>6, <2>1, <2>2
<1> QED BY <1>1, <1>7, <1>8, <1>9, <1>10, <1>11, <1>12 DEF ComponentStep

\* The proxy reports the new state only after a decision.
LEMMA ProxyAlone ==
    ASSUME Typed, Staged, Alone, NEW p \in Pids, ProxyStep(p) PROVE Alone'
<1>0. PICK st \in Stages : Stage(st)
      BY DEF Staged
<1>1. PICK status : ReadReply(p, status)
      BY DEF ProxyStep, Granted, Denied, Preempted, Informed, FatalError, FatalErrorIgnored
<1>2. UNCHANGED <<toPM, fromPM, globalrequest_cmd_data, rmPc, cmd_data>> /\ NoFault /\ toRM \in Seq(Cmd)
      BY <1>1 DEF ReadReply, Staged, Typed, FifosOK
<1>3. ASSUME toRM' = toRM PROVE Alone'
      BY <1>2, <1>3, AloneSame DEF Deciding
<1>4. ~ FatalError(p)
      BY <1>0, <1>2, ReplyTaken DEF Stage, FatalError
<1>5. CASE Granted(p)
  <2>1. ASSUME NEW c \in Requester(p), Send(c, "RM_StateSet", OMX_StateIdle, NoInst) PROVE Alone'
    <3>1. c \in Inst /\ KindOf[c] \in Components /\ NoInst \in Handles \cup {NoInst}
          BY <2>1, Constants DEF Requester
    <3> DEFINE m == Command("RM_StateSet", c, KindOf[c], OMX_StateIdle, NoInst)
    <3>2. m \in Cmd /\ m \notin ReqCmd
          BY <3>1, Codes, CommandPlain DEF CmdNames
    <3>3. toRM' = Append(toRM, m)
          BY <2>1 DEF Send
    <3> HIDE DEF m
    <3>4. "RM_GRANT" \in Decisions
          BY DEF Decisions
    <3>5. st = "told"
          BY <1>0, <1>2, <1>5, <3>4, ReplyTaken DEF Stage, Granted
    <3>6. ~ Deciding /\ None(toRM, ReqCmd)
          BY <1>0, <3>5 DEF Deciding, Stage, RmSide, PmSide, SaidSide, WaitSide
    <3> QED BY <1>2, <3>2, <3>3, <3>6, AloneSent
  <2> QED BY <1>3, <1>5, <2>1 DEF Granted
<1>6. CASE Denied(p) \/ Preempted(p) \/ Informed(p) \/ FatalErrorIgnored(p)
      BY <1>3, <1>6 DEF Denied, Preempted, Informed, FatalErrorIgnored
<1> QED BY <1>4, <1>5, <1>6 DEF ProxyStep

\* Alone is kept.
LEMMA NextAlone ==
    ASSUME OneProcess, "foreign" \notin Usage
    PROVE  Typed /\ Staged /\ Alone /\ [Next]_vars => Alone'
<1> SUFFICES ASSUME Typed, Staged, Alone, [Next]_vars PROVE Alone'
    OBVIOUS
<1>1. CASE ResourceManagerStep \/ WatchThreadStep \/ PolicyManagerStep
      BY <1>1, ServersAlone DEF ResourceManagerStep, WatchThreadStep
<1>2. ASSUME NEW c \in Clients, ComponentStep(c) PROVE Alone'
      BY <1>2, ComponentAlone
<1>3. ASSUME NEW p \in Pids, ProxyStep(p) PROVE Alone'
      BY <1>3, ProxyAlone
<1>4. CASE UNCHANGED vars
      BY <1>4, AloneSame DEF vars, rmVars, Deciding
<1> QED BY <1>1, <1>2, <1>3, <1>4 DEF Next

\* In one process a grant is decided by what its own component asked for: cmd_data,
\* from which RM_GetQos takes the number of cycles, is then still the request's,
\* although preemptions write into it meanwhile.  Whatever the DSP reports, the code
\* compares it as OMX_U32.
THEOREM CyclesFit ==
    ASSUME OneProcess, MaxFaults = 0, "foreign" \notin Usage
    PROVE  Spec => QosFits
<1>1. OneAtATime
      BY DEF OneAtATime
<1>2. Init => Alone
  <2>1. Init => toRM = <<>> /\ toPM = <<>> /\ fromPM = <<>> /\ rmPc = "select"
        BY DEF Init, RMInit, PM!PMInit
  <2> QED BY <2>1 DEF Alone, Deciding, None
<1>3. Alone /\ [Backed]_vars => [\A p \in Pids : \A reply \in GrantedOn(p) :
                                     cyclesAvailable' % Wrap >= CpuOf[reply.inst]]_vars
  <2> SUFFICES ASSUME Alone, Backed, NEW p \in Pids, NEW reply \in Written(p),
                      reply.rm_status = "RM_GRANT", ~ stub_mode'
               PROVE  cyclesAvailable' % Wrap >= CpuOf[reply.inst]
      BY DEF GrantedOn
  <2>1. reply.inst = Asker /\ GetQosOk
        BY DEF Backed, InitializeQosFails
  <2>2. PICK cycles \in CycleLevels : cycles % Wrap >= cmd_data.param2 /\ cyclesAvailable' = cycles
        BY <2>1 DEF GetQosOk, CyclesSuffice
  <2>3. cmd_data.param2 = CpuOf[Asker]
        BY <2>1 DEF Alone, Deciding, GetQosOk
  <2> QED BY <2>1, <2>2, <2>3
<1>4. Spec => []Staged /\ [][Backed]_vars
      BY <1>1, InitStaged, NextStaged, AlwaysTyped, PTL DEF Spec
<1>5. Spec => []Alone
      BY <1>2, <1>4, NextAlone, AlwaysTyped, PTL DEF Spec
<1> QED BY <1>3, <1>4, <1>5, PTL DEF QosFits
=============================================================================
