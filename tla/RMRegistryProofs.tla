-------------------------- MODULE RMRegistryProofs --------------------------
(***************************************************************************)
(* Proofs about the registration of the components: the resource manager's *)
(* list, the FIFOs its entries share, and the policy manager's list.       *)
(*                                                                         *)
(* RM_SERVER_IN is read as a log: the components write what the resource   *)
(* manager's list will be when it has read as far as that.  The same log   *)
(* tells which of its entries execute, and so what its CPU totals sum.     *)
(***************************************************************************)
EXTENDS RMSystemProofs

-----------------------------------------------------------------------------
(* A log of entries (O) and removals (F).                                  *)

\* Something entered in the first k messages is not removed in them again.
OpenIn(s, O, F, k) == \E i \in 1..k : s[i] \in O /\ \A j \in (i + 1)..k : s[j] \notin F
\* The first k messages remove nothing.
Clear(s, F, k) == \A j \in 1..k : s[j] \notin F

\* Nothing has been read yet.
LEMMA LogStart ==
    ASSUME NEW s, NEW O, NEW F PROVE ~ OpenIn(s, O, F, 0) /\ Clear(s, F, 0)
BY DEF OpenIn, Clear

\* A message is put at the end.
LEMMA LogAppended ==
    ASSUME NEW S, NEW s \in Seq(S), NEW m \in S, NEW O, NEW F
    PROVE  /\ \A k \in 0..Len(s) : /\ OpenIn(Append(s, m), O, F, k) <=> OpenIn(s, O, F, k)
                                   /\ Clear(Append(s, m), F, k) <=> Clear(s, F, k)
           /\ OpenIn(Append(s, m), O, F, Len(s) + 1) <=> m \in O \/ (OpenIn(s, O, F, Len(s)) /\ m \notin F)
           /\ Clear(Append(s, m), F, Len(s) + 1) <=> Clear(s, F, Len(s)) /\ m \notin F
<1> DEFINE t == Append(s, m)
           n == Len(s)
<1>1. n \in Nat /\ t[n + 1] = m /\ \A i \in 1..n : t[i] = s[i]
      OBVIOUS
<1> HIDE DEF t, n
<1>2. ASSUME NEW k \in 0..n PROVE OpenIn(t, O, F, k) <=> OpenIn(s, O, F, k)
  <2>1. \A i \in 1..k : t[i] = s[i] /\ \A j \in (i + 1)..k : t[j] = s[j]
        BY <1>1
  <2> QED BY <2>1 DEF OpenIn
<1>3. ASSUME NEW k \in 0..n PROVE Clear(t, F, k) <=> Clear(s, F, k)
  <2>1. \A i \in 1..k : t[i] = s[i]
        BY <1>1
  <2> QED BY <2>1 DEF Clear
<1>4. Clear(t, F, n + 1) <=> Clear(s, F, n) /\ m \notin F
  <2>1. \A j : j \in 1..(n + 1) <=> j \in 1..n \/ j = n + 1
        BY <1>1
  <2> QED BY <1>1, <2>1 DEF Clear
<1>5. OpenIn(t, O, F, n + 1) <=> m \in O \/ (OpenIn(s, O, F, n) /\ m \notin F)
  <2>1. ASSUME m \in O PROVE OpenIn(t, O, F, n + 1)
    <3>1. n + 1 \in 1..(n + 1) /\ ~ \E j \in (n + 1 + 1)..(n + 1) : TRUE
          BY <1>1
    <3> QED BY <1>1, <2>1, <3>1 DEF OpenIn
  <2>2. ASSUME OpenIn(s, O, F, n), m \notin F PROVE OpenIn(t, O, F, n + 1)
    <3>1. PICK i \in 1..n : s[i] \in O /\ \A j \in (i + 1)..n : s[j] \notin F
          BY <2>2 DEF OpenIn
    <3>2. i \in 1..(n + 1) /\ \A j \in (i + 1)..(n + 1) : (j \in (i + 1)..n /\ j \in 1..n) \/ j = n + 1
          BY <1>1
    <3>3. t[i] \in O /\ \A j \in (i + 1)..(n + 1) : t[j] \notin F
          BY <1>1, <2>2, <3>1, <3>2
    <3> QED BY <3>2, <3>3 DEF OpenIn
  <2>3. ASSUME OpenIn(t, O, F, n + 1), m \notin O PROVE OpenIn(s, O, F, n) /\ m \notin F
    <3>1. PICK i \in 1..(n + 1) : t[i] \in O /\ \A j \in (i + 1)..(n + 1) : t[j] \notin F
          BY <2>3 DEF OpenIn
    <3>2. i \in 1..n
          BY <1>1, <2>3, <3>1
    <3>3. n + 1 \in (i + 1)..(n + 1) /\ \A j \in (i + 1)..n : j \in (i + 1)..(n + 1) /\ j \in 1..n
          BY <1>1, <3>2
    <3> QED BY <1>1, <3>1, <3>2, <3>3 DEF OpenIn
  <2> QED BY <2>1, <2>2, <2>3
<1> QED BY <1>2, <1>3, <1>4, <1>5 DEF t, n

\* The first message is read.
LEMMA LogTaken ==
    ASSUME NEW S, NEW s \in Seq(S), s # <<>>, NEW O, NEW F, NEW k \in 0..(Len(s) - 1)
    PROVE  /\ OpenIn(s, O, F, k + 1) <=> OpenIn(Tail(s), O, F, k) \/ (Head(s) \in O /\ Clear(Tail(s), F, k))
           /\ Clear(s, F, k + 1) <=> Head(s) \notin F /\ Clear(Tail(s), F, k)
<1> DEFINE t == Tail(s)
           n == Len(s)
<1>1. /\ n \in Nat /\ n > 0 /\ k \in 0..(n - 1) /\ Head(s) = s[1]
      /\ \A i \in 1..(n - 1) : t[i] = s[i + 1]
      OBVIOUS
<1> HIDE DEF t, n
<1>2. \A i \in 1..k : t[i] = s[i + 1] /\ i + 1 \in 1..(k + 1)
      BY <1>1
<1>3. \A i \in 1..(k + 1) : i = 1 \/ (i - 1 \in 1..k /\ s[i] = t[i - 1])
  <2>1. ASSUME NEW i \in 1..(k + 1), i # 1 PROVE i - 1 \in 1..k /\ i - 1 \in 1..(n - 1) /\ i - 1 + 1 = i
        BY <1>1, <2>1
  <2> QED BY <1>1, <2>1
<1>4. Clear(s, F, k + 1) <=> Head(s) \notin F /\ Clear(t, F, k)
  <2>1. 1 \in 1..(k + 1)
        BY <1>1
  <2> QED BY <1>1, <1>2, <1>3, <2>1 DEF Clear
<1>5. ASSUME Head(s) \in O, Clear(t, F, k) PROVE OpenIn(s, O, F, k + 1)
  <2>1. 1 \in 1..(k + 1) /\ \A j \in (1 + 1)..(k + 1) : j \in 1..(k + 1) /\ j # 1
        BY <1>1
  <2> QED BY <1>1, <1>3, <1>5, <2>1 DEF OpenIn, Clear
<1>6. ASSUME OpenIn(t, O, F, k) PROVE OpenIn(s, O, F, k + 1)
  <2>1. PICK i \in 1..k : t[i] \in O /\ \A j \in (i + 1)..k : t[j] \notin F
        BY <1>6 DEF OpenIn
  <2>2. i + 1 \in 1..(k + 1) /\ \A j \in (i + 1 + 1)..(k + 1) : j \in 1..(k + 1) /\ j # 1 /\ j - 1 \in (i + 1)..k
        BY <1>1
  <2> QED BY <1>2, <1>3, <2>1, <2>2 DEF OpenIn
<1>7. ASSUME OpenIn(s, O, F, k + 1) PROVE OpenIn(t, O, F, k) \/ (Head(s) \in O /\ Clear(t, F, k))
  <2>1. PICK i \in 1..(k + 1) : s[i] \in O /\ \A j \in (i + 1)..(k + 1) : s[j] \notin F
        BY <1>7 DEF OpenIn
  <2>2. CASE i = 1
    <3>1. \A j \in 1..k : j + 1 \in (i + 1)..(k + 1)
          BY <1>1, <2>2
    <3> QED BY <1>1, <1>2, <2>1, <2>2, <3>1 DEF Clear
  <2>3. CASE i # 1
    <3>1. i - 1 \in 1..k /\ s[i] = t[i - 1]
          BY <1>3, <2>3
    <3>2. \A j \in (i - 1 + 1)..k : j \in 1..k /\ j + 1 \in (i + 1)..(k + 1)
          BY <1>1, <3>1
    <3> QED BY <1>2, <2>1, <3>1, <3>2 DEF OpenIn
  <2> QED BY <2>2, <2>3
<1> QED BY <1>4, <1>5, <1>6, <1>7 DEF t

-----------------------------------------------------------------------------
(* The invariant.                                                          *)

\* One process, whose components are freed only if they asked for something and
\* never wait for resources, and a DSP that does not fail.
SimpleUse == OneProcess /\ MaxFaults = 0 /\ "waiting" \notin Usage /\ "unusedFrees" \notin Usage

OpenOf(d) == {m \in Cmd : m.RM_Cmd \in {"RM_OpenPipe", "RM_ReusePipe"} /\ m.inst = d}
Closing   == {m \in Cmd : m.RM_Cmd = "RM_FreeAndCloseResource"}
WaitSet   == {m \in Cmd : m.RM_Cmd = "RM_StateSet" /\ m.param2 = OMX_StateWaitForResources}

\* In the list, and not about to be removed from it.
Listed(d)   == \E i \in 1..N : componentList[i].inst = d
Removing(d) == rmPc = "remove" /\ cmd_data.inst = d
Here(d)     == Listed(d) /\ ~ Removing(d)

\* Will d be in the list when the first k commands of RM_SERVER_IN have been read?
Live(d, k) == OpenIn(toRM, OpenOf(d), FreeOf(d), k) \/ (Here(d) /\ Clear(toRM, FreeOf(d), k))

\* It will be as the components believe; and when the last one closes the FIFO
\* the list will be empty.
LogAgrees == \A d \in Inst : d \in used <=> Live(d, Len(toRM))
LastCloses ==
    /\ \A k \in DOMAIN toRM : toRM[k] \in Closing => \A d \in Inst : ~ Live(d, k)
    /\ rmPc = "remove" /\ cmd_data.RM_Cmd = "RM_FreeAndCloseResource" => \A d \in Inst : ~ Here(d)

\* The pipe of an entry is open and leads to the entry's process.
PipesOpen == \A i \in 1..N : /\ componentList[i].pipe \in DOMAIN openPipes
                             /\ openPipes[componentList[i].pipe] = componentList[i].inst.pid
\* Nobody waits for resources.
NobodyWaits ==
    /\ \A i \in 1..N : componentList[i].state # OMX_StateWaitForResources
    /\ None(toRM, WaitSet)

\* A request is behind the command that enters its component.
EnteredFirst ==
    \A c \in Clients : curState[c] = "requesting" =>
        \A i \in DOMAIN toRM : toRM[i] \in OpenOf(c) => \E j \in DOMAIN toRM : j > i /\ toRM[j] \in ReqOf(c)

\* The counter covers the components that will still be freed.
Counted == {c \in used : curState[c] \notin {"connecting", "sending"}}
CountCovers ==
    /\ used \subseteq Clients
    /\ \A c \in Clients : curState[c] \in InRequest => c \in used
    /\ IsFiniteSet(Counted)
    /\ \A p \in Pids : Cardinality(Counted) <= numClients[p]

Registry == LogAgrees /\ LastCloses /\ PipesOpen /\ NobodyWaits /\ EnteredFirst /\ CountCovers

-----------------------------------------------------------------------------
(* The log.                                                                *)

\* Nothing is sent, read, entered or removed.
LEMMA LogSame ==
    ASSUME LogAgrees, LastCloses, toRM' = toRM, used' = used, \A d \in Inst : Here(d)' <=> Here(d),
           rmPc' = "remove" => rmPc = "remove" /\ cmd_data' = cmd_data
    PROVE  LogAgrees' /\ LastCloses'
<1>1. \A d \in Inst : \A k : Live(d, k)' <=> Live(d, k)
      BY DEF Live
<1>2. LogAgrees'
      BY <1>1 DEF LogAgrees
<1> QED BY <1>1, <1>2 DEF LastCloses

\* A command is read, and has its effect on the list.
LEMMA LogRead ==
    ASSUME toRM \in Seq(Cmd), LogAgrees, LastCloses, toRM # <<>>, toRM' = Tail(toRM), used' = used,
           \A d \in Inst : Here(d)' <=> Head(toRM) \in OpenOf(d) \/ (Here(d) /\ Head(toRM) \notin FreeOf(d)),
           rmPc' = "remove" /\ cmd_data'.RM_Cmd = "RM_FreeAndCloseResource" => Head(toRM) \in Closing
    PROVE  LogAgrees' /\ LastCloses'
<1>0. PICK n \in Nat : n = Len(toRM)
      OBVIOUS
<1>1. /\ n \in Nat /\ n > 0 /\ Len(toRM') = n - 1 /\ DOMAIN toRM' = 1..(n - 1) /\ DOMAIN toRM = 1..n
      /\ Head(toRM) = toRM[1] /\ \A k \in 1..(n - 1) : toRM'[k] = toRM[k + 1]
      BY <1>0
<1>2. ASSUME NEW d \in Inst, NEW k \in 0..(n - 1) PROVE Live(d, k)' <=> Live(d, k + 1)
  <2>1. /\ OpenIn(toRM, OpenOf(d), FreeOf(d), k + 1) <=>
              OpenIn(toRM', OpenOf(d), FreeOf(d), k) \/ (Head(toRM) \in OpenOf(d) /\ Clear(toRM', FreeOf(d), k))
        /\ Clear(toRM, FreeOf(d), k + 1) <=> Head(toRM) \notin FreeOf(d) /\ Clear(toRM', FreeOf(d), k)
        BY <1>0, LogTaken
  <2>2. Live(d, k)' <=> OpenIn(toRM', OpenOf(d), FreeOf(d), k) \/ (Here(d)' /\ Clear(toRM', FreeOf(d), k))
        BY DEF Live
  <2> QED BY <2>1, <2>2 DEF Live
<1>3. LogAgrees'
  <2>1. n - 1 \in 0..(n - 1) /\ n - 1 + 1 = n
        BY <1>1
  <2>2. \A d \in Inst : Live(d, n - 1)' <=> Live(d, n)
        BY <1>2, <2>1
  <2> QED BY <1>0, <1>1, <2>2 DEF LogAgrees
<1>4. ASSUME NEW k \in DOMAIN toRM', toRM'[k] \in Closing, NEW d \in Inst PROVE ~ Live(d, k)'
  <2>1. k \in 0..(n - 1) /\ k + 1 \in DOMAIN toRM /\ toRM[k + 1] \in Closing
        BY <1>1, <1>4
  <2> QED BY <1>2, <2>1 DEF LastCloses
<1>5. ASSUME rmPc' = "remove" /\ cmd_data'.RM_Cmd = "RM_FreeAndCloseResource", NEW d \in Inst
      PROVE  ~ Here(d)'
  <2>1. ~ Live(d, 1)
        BY <1>1, <1>5 DEF LastCloses
  <2>2. 0 \in 0..(n - 1) /\ 0 + 1 = 1
        BY <1>1
  <2>3. ~ Live(d, 0)'
        BY <1>2, <2>1, <2>2
  <2> QED BY <2>3, LogStart DEF Live
<1> QED BY <1>3, <1>4, <1>5 DEF LastCloses

\* A command is sent.
LEMMA LogSent ==
    ASSUME toRM \in Seq(Cmd), LogAgrees, LastCloses, NEW m \in Cmd, toRM' = Append(toRM, m),
           \A d \in Inst : Here(d)' <=> Here(d), rmPc' = rmPc, cmd_data' = cmd_data,
           \A d \in Inst : d \in used' <=> m \in OpenOf(d) \/ (d \in used /\ m \notin FreeOf(d)),
           m \in Closing => used' = {}
    PROVE  LogAgrees' /\ LastCloses'
<1>0. PICK n \in Nat : n = Len(toRM)
      OBVIOUS
<1>1. /\ n \in Nat /\ Len(toRM') = n + 1 /\ DOMAIN toRM' = 1..(n + 1) /\ DOMAIN toRM = 1..n
      /\ toRM'[n + 1] = m /\ \A k \in 1..n : toRM'[k] = toRM[k]
      BY <1>0
<1>2. ASSUME NEW d \in Inst
      PROVE  /\ \A k \in 0..n : Live(d, k)' <=> Live(d, k)
             /\ Live(d, n + 1)' <=> m \in OpenOf(d) \/ (Live(d, n) /\ m \notin FreeOf(d))
  <2> DEFINE O == OpenOf(d)
             F == FreeOf(d)
  <2>1. /\ \A k \in 0..n : /\ OpenIn(toRM', O, F, k) <=> OpenIn(toRM, O, F, k)
                           /\ Clear(toRM', F, k) <=> Clear(toRM, F, k)
        /\ OpenIn(toRM', O, F, n + 1) <=> m \in O \/ (OpenIn(toRM, O, F, n) /\ m \notin F)
        /\ Clear(toRM', F, n + 1) <=> Clear(toRM, F, n) /\ m \notin F
        BY <1>0, LogAppended
  <2>2. \A k : Live(d, k)' <=> OpenIn(toRM', O, F, k) \/ (Here(d)' /\ Clear(toRM', F, k))
        BY DEF Live
  <2>3. \A k : Live(d, k) <=> OpenIn(toRM, O, F, k) \/ (Here(d) /\ Clear(toRM, F, k))
        BY DEF Live
  <2> HIDE DEF O, F
  <2> QED BY <2>1, <2>2, <2>3 DEF O, F
<1>3. LogAgrees'
  <2>1. \A d \in Inst : d \in used <=> Live(d, n)
        BY <1>0 DEF LogAgrees
  <2> QED BY <1>1, <1>2, <2>1 DEF LogAgrees
<1>4. ASSUME NEW k \in DOMAIN toRM', toRM'[k] \in Closing, NEW d \in Inst PROVE ~ Live(d, k)'
  <2>1. CASE k = n + 1
        BY <1>1, <1>3, <1>4, <2>1 DEF LogAgrees
  <2>2. CASE k \in 1..n
    <3>1. k \in 0..n /\ toRM[k] \in Closing /\ k \in DOMAIN toRM
          BY <1>1, <1>4, <2>2
    <3> QED BY <1>2, <3>1 DEF LastCloses
  <2> QED BY <1>1, <2>1, <2>2
<1> QED BY <1>3, <1>4 DEF LastCloses

-----------------------------------------------------------------------------
(* The list.                                                               *)

\* Entries keep all but their status.
KeepsEntries ==
    /\ N' = N
    /\ \A i \in 1..N : /\ componentList'[i].inst = componentList[i].inst
                       /\ componentList'[i].pipe = componentList[i].pipe
                       /\ componentList'[i].state = componentList[i].state
                       /\ componentList'[i].cpu = componentList[i].cpu

\* RM_SetStatus does.
LEMMA StatusKeeps ==
    ASSUME ListOK, NEW inst, NEW status, componentList' = RM_SetStatus(inst, status) PROVE KeepsEntries
<1> DEFINE list == RM_SetStatus(inst, status)
<1>1. N \in Nat /\ \A i \in 1..N : componentList[i] \in Entry
      BY EntriesTyped
<1>2. ASSUME NEW i \in 1..N
      PROVE  /\ list[i].inst = componentList[i].inst /\ list[i].pipe = componentList[i].pipe
             /\ list[i].state = componentList[i].state /\ list[i].cpu = componentList[i].cpu
  <2>1. /\ [componentList[i] EXCEPT !.status = status].inst = componentList[i].inst
        /\ [componentList[i] EXCEPT !.status = status].pipe = componentList[i].pipe
        /\ [componentList[i] EXCEPT !.status = status].state = componentList[i].state
        /\ [componentList[i] EXCEPT !.status = status].cpu = componentList[i].cpu
        BY <1>1 DEF Entry
  <2>2. list[i] = IF i \in RM_GetListIndex(inst) THEN [componentList[i] EXCEPT !.status = status]
                                                 ELSE componentList[i]
        BY DEF RM_SetStatus
  <2> HIDE DEF list
  <2>3. CASE list[i] = [componentList[i] EXCEPT !.status = status]
        BY <2>1, <2>3
  <2>4. CASE list[i] = componentList[i]
        BY <2>4
  <2> QED BY <2>2, <2>3, <2>4
<1>3. Len(list) = N
      BY <1>1 DEF RM_SetStatus
<1> HIDE DEF list
<1>4. componentList' = list
      BY DEF list
<1>5. N' = N
      BY <1>3, <1>4 DEF N
<1> QED BY <1>2, <1>4, <1>5 DEF KeepsEntries

\* The list stays, up to statuses; nothing is being removed; no FIFO is closed.
LEMMA ListKept ==
    ASSUME PipesOpen, NobodyWaits, KeepsEntries, openPipes' = openPipes, toRM' = toRM
    PROVE  PipesOpen' /\ NobodyWaits' /\ \A d : Listed(d)' <=> Listed(d)
<1>1. PipesOpen'
      BY DEF PipesOpen, KeepsEntries
<1>2. NobodyWaits'
      BY DEF NobodyWaits, KeepsEntries
<1>3. \A d : Listed(d)' <=> Listed(d)
      BY DEF Listed, KeepsEntries
<1> QED BY <1>1, <1>2, <1>3

\* RM_AddPipe.
LEMMA PipeAdded ==
    ASSUME ListOK, NEW cmd \in Cmd, NEW pipe, RM_AddPipe(cmd, pipe)
    PROVE  /\ \A d : Listed(d)' <=> Listed(d) \/ d = cmd.inst
           /\ \A i \in 1..N' : \/ i \in 1..N /\ componentList'[i] = componentList[i]
                               \/ /\ componentList'[i].inst = cmd.inst /\ componentList'[i].pipe = pipe
                                  /\ componentList'[i].state = OMX_StateIdle
<1>1. CASE RM_GetListIndex(cmd.inst) # {}
  <2>1. componentList' = componentList /\ N' = N
        BY <1>1 DEF RM_AddPipe, N
  <2>2. Listed(cmd.inst)
        BY <1>1, ListIndex DEF Listed
  <2> QED BY <2>1, <2>2 DEF Listed
<1>2. CASE RM_GetListIndex(cmd.inst) = {}
  <2> DEFINE e == [inst |-> cmd.inst, pipe |-> pipe, state |-> OMX_StateIdle,
                   cpu |-> cmd.param2, status |-> "unset"]
  <2>1. e.inst = cmd.inst /\ e.pipe = pipe /\ e.state = OMX_StateIdle
        OBVIOUS
  <2>2. componentList' = Append(componentList, e)
        BY <1>2 DEF RM_AddPipe
  <2> HIDE DEF e
  <2>3. /\ N \in Nat /\ N' = N + 1 /\ componentList'[N + 1] = e
        /\ \A i \in 1..N : componentList'[i] = componentList[i]
        BY <2>2 DEF ListOK, N
  <2>4. \A i : i \in 1..(N + 1) <=> i \in 1..N \/ i = N + 1
        BY <2>3
  <2> QED BY <2>1, <2>3, <2>4 DEF Listed
<1> QED BY <1>1, <1>2

\* RM_RemoveComponentFromList.
LEMMA EntryRemoved ==
    ASSUME ListOK, NEW inst, RM_RemoveComponentFromList(inst)
    PROVE  /\ \A d : Listed(d)' <=> Listed(d) /\ d # inst
           /\ \A i \in 1..N' : \E j \in 1..N : componentList'[i] = componentList[j]
<1>1. CASE RM_GetListIndex(inst) = {}
  <2>1. componentList' = componentList /\ N' = N
        BY <1>1 DEF RM_RemoveComponentFromList, N
  <2>2. ~ Listed(inst)
        BY <1>1, ListIndex DEF Listed
  <2> QED BY <2>1, <2>2 DEF Listed
<1>2. CASE RM_GetListIndex(inst) # {}
  <2> DEFINE n == CHOOSE i \in RM_GetListIndex(inst) : TRUE
             list == [i \in 1..(N - 1) |-> IF i >= n THEN componentList[i + 1] ELSE componentList[i]]
  <2>1. n \in 1..N /\ N \in Nat /\ componentList[n].inst = inst
        BY <1>2, ListIndex
  <2>2. componentList' = list
        BY <1>2 DEF RM_RemoveComponentFromList
  <2> HIDE DEF n
  <2>3. N - 1 \in Nat
        BY <2>1
  <2>4. Len(list) = N - 1
        BY <2>3
  <2>5. ASSUME NEW i \in 1..(N - 1)
        PROVE  /\ i < n => list[i] = componentList[i] /\ i \in 1..N
               /\ i >= n => list[i] = componentList[i + 1] /\ i + 1 \in 1..N
        BY <2>1
  <2> HIDE DEF list
  <2>6. N' = N - 1
        BY <2>2, <2>4 DEF N
  <2>7. \A i \in 1..N' : \E j \in 1..N : j # n /\ componentList'[i] = componentList[j]
    <3> SUFFICES ASSUME NEW i \in 1..(N - 1)
                 PROVE  \E j \in 1..N : j # n /\ list[i] = componentList[j]
        BY <2>2, <2>6
    <3>1. CASE i < n
          BY <2>1, <2>5, <3>1
    <3>2. CASE i >= n
      <4>1. i + 1 # n
            BY <2>1, <3>2
      <4> QED BY <2>5, <3>2, <4>1
    <3> QED BY <2>1, <3>1, <3>2
  <2>8. \A j \in 1..N : j = n \/ \E i \in 1..N' : componentList'[i] = componentList[j]
    <3> SUFFICES ASSUME NEW j \in 1..N, j # n PROVE \E i \in 1..(N - 1) : list[i] = componentList[j]
        BY <2>2, <2>6
    <3>1. CASE j < n
      <4>1. j \in 1..(N - 1)
            BY <2>1, <3>1
      <4> QED BY <2>5, <3>1, <4>1
    <3>2. CASE j > n
      <4>1. j - 1 \in 1..(N - 1) /\ j - 1 >= n /\ j - 1 + 1 = j
            BY <2>1, <3>2
      <4>2. list[j - 1] = componentList[j]
            BY <2>5, <4>1
      <4> QED BY <4>1, <4>2
    <3> QED BY <2>1, <3>1, <3>2
  <2>9. ASSUME NEW d PROVE Listed(d)' <=> Listed(d) /\ d # inst
    <3>1. ASSUME Listed(d)' PROVE Listed(d) /\ d # inst
      <4>1. PICK i \in 1..N' : componentList'[i].inst = d
            BY <3>1 DEF Listed
      <4>2. PICK j \in 1..N : j # n /\ componentList'[i] = componentList[j]
            BY <2>7
      <4> QED BY <2>1, <4>1, <4>2 DEF Listed, ListOK, RegisteredOnce
    <3>2. ASSUME Listed(d), d # inst PROVE Listed(d)'
      <4>1. PICK j \in 1..N : componentList[j].inst = d
            BY <3>2 DEF Listed
      <4> QED BY <2>1, <2>8, <3>2, <4>1 DEF Listed
    <3> QED BY <3>1, <3>2
  <2> QED BY <2>7, <2>9
<1> QED BY <1>1, <1>2

-----------------------------------------------------------------------------
(* The servers keep the invariant.                                         *)

\* The components do nothing.
LEMMA ClientsRest ==
    ASSUME Registry, Typed, UNCHANGED clientVars, toRM' = toRM \/ (toRM # <<>> /\ toRM' = Tail(toRM))
    PROVE  EnteredFirst' /\ CountCovers' /\ used' = used /\ None(toRM, WaitSet)'
<1>0. UNCHANGED <<used, curState, numClients>> /\ toRM \in Seq(Cmd)
      BY DEF clientVars, Typed, FifosOK
<1>1. CountCovers'
      BY <1>0 DEF Registry, CountCovers, Counted
<1>2. CASE toRM' = toRM
      BY <1>0, <1>1, <1>2 DEF Registry, EnteredFirst, NobodyWaits
<1>3. CASE toRM # <<>> /\ toRM' = Tail(toRM)
  <2>1. None(toRM, WaitSet)'
        BY <1>0, <1>3, Taking DEF Registry, NobodyWaits
  <2>2. PICK n \in Nat : /\ n = Len(toRM) /\ n > 0 /\ DOMAIN toRM = 1..n /\ DOMAIN toRM' = 1..(n - 1)
                         /\ \A k \in 1..(n - 1) : toRM'[k] = toRM[k + 1]
        BY <1>0, <1>3
  <2>3. ASSUME NEW c \in Clients, curState'[c] = "requesting", NEW i \in DOMAIN toRM', toRM'[i] \in OpenOf(c)
        PROVE  \E j \in DOMAIN toRM' : j > i /\ toRM'[j] \in ReqOf(c)
    <3>1. i + 1 \in DOMAIN toRM /\ toRM[i + 1] \in OpenOf(c) /\ i \in 1..(n - 1)
          BY <2>2, <2>3
    <3>2. PICK j \in DOMAIN toRM : j > i + 1 /\ toRM[j] \in ReqOf(c)
          BY <1>0, <2>3, <3>1 DEF Registry, EnteredFirst
    <3>3. j - 1 \in 1..(n - 1) /\ j - 1 > i /\ j - 1 + 1 = j
          BY <2>2, <3>1, <3>2
    <3>4. toRM'[j - 1] = toRM[j]
          BY <2>2, <3>3
    <3> QED BY <2>2, <3>2, <3>3, <3>4
  <2> QED BY <1>0, <1>1, <2>1, <2>3 DEF EnteredFirst
<1> QED BY <1>2, <1>3

\* What a step that changes no entry but its status leaves to show.
LEMMA RestKept ==
    ASSUME Typed, Registry, UNCHANGED <<clientVars, toRM, openPipes>>, KeepsEntries,
           rmPc # "remove" \/ cmd_data' = cmd_data,
           rmPc' = "remove" <=> rmPc = "remove"
    PROVE  Registry'
<1>1. EnteredFirst' /\ CountCovers' /\ used' = used
      BY ClientsRest
<1>2. PipesOpen' /\ NobodyWaits' /\ \A d : Listed(d)' <=> Listed(d)
      BY ListKept DEF Registry
<1>3. \A d \in Inst : Here(d)' <=> Here(d)
      BY <1>2 DEF Here, Removing
<1>4. LogAgrees' /\ LastCloses'
      BY <1>1, <1>3, LogSame DEF Registry
<1> QED BY <1>1, <1>2, <1>4 DEF Registry

\* A command that leaves the list as it is.
LEMMA QuietCommand ==
    ASSUME Typed, Registry, toRM # <<>>, toRM' = Tail(toRM), UNCHANGED <<clientVars, openPipes>>, KeepsEntries,
           rmPc = "select", rmPc' = "select", \A d : Head(toRM) \notin OpenOf(d) /\ Head(toRM) \notin FreeOf(d)
    PROVE  Registry'
<1>1. EnteredFirst' /\ CountCovers' /\ used' = used /\ None(toRM, WaitSet)'
      BY ClientsRest
<1>2. PipesOpen' /\ NobodyWaits' /\ \A d : Listed(d)' <=> Listed(d)
  <2>1. PipesOpen'
        BY DEF PipesOpen, KeepsEntries, Registry
  <2>2. NobodyWaits'
        BY <1>1 DEF NobodyWaits, KeepsEntries, Registry
  <2>3. \A d : Listed(d)' <=> Listed(d)
        BY DEF Listed, KeepsEntries
  <2> QED BY <2>1, <2>2, <2>3
<1>3. \A d \in Inst : Here(d)' <=> Here(d)
      BY <1>2 DEF Here, Removing
<1>4. LogAgrees' /\ LastCloses'
      BY <1>1, <1>3, LogRead DEF Registry, Typed, FifosOK
<1> QED BY <1>1, <1>2, <1>4 DEF Registry

\* A component is entered, with a pipe that is open.
LEMMA EnteringCommand ==
    ASSUME Typed, Registry, toRM # <<>>, toRM' = Tail(toRM), UNCHANGED clientVars,
           rmPc = "select", rmPc' = "select", NEW pipe, RM_AddPipe(Head(toRM), pipe),
           Head(toRM).RM_Cmd \in {"RM_OpenPipe", "RM_ReusePipe"},
           pipe \in DOMAIN openPipes', openPipes'[pipe] = Head(toRM).inst.pid,
           \A fd \in DOMAIN openPipes : fd \in DOMAIN openPipes' /\ openPipes'[fd] = openPipes[fd]
    PROVE  Registry'
<1> DEFINE cmd == Head(toRM)
<1>0. cmd \in Cmd /\ toRM \in Seq(Cmd) /\ ListOK
  <2>1. toRM \in Seq(Cmd) /\ ListOK
        BY DEF Typed, FifosOK
  <2> QED BY <2>1
<1>1. EnteredFirst' /\ CountCovers' /\ used' = used /\ None(toRM, WaitSet)'
      BY ClientsRest
<1> HIDE DEF cmd
<1>2. /\ \A d : Listed(d)' <=> Listed(d) \/ d = cmd.inst
      /\ \A i \in 1..N' : \/ i \in 1..N /\ componentList'[i] = componentList[i]
                          \/ /\ componentList'[i].inst = cmd.inst /\ componentList'[i].pipe = pipe
                             /\ componentList'[i].state = OMX_StateIdle
      BY <1>0, PipeAdded DEF cmd
<1>3. PipesOpen'
      BY <1>2 DEF PipesOpen, Registry, cmd
<1>4. NobodyWaits'
      BY <1>1, <1>2 DEF NobodyWaits, Registry, OMX_StateIdle, OMX_StateWaitForResources
<1>5. \A d : (cmd \in OpenOf(d) <=> d = cmd.inst) /\ cmd \notin FreeOf(d)
      BY <1>0 DEF OpenOf, FreeOf, cmd
<1>6. \A d \in Inst : Here(d)' <=> cmd \in OpenOf(d) \/ (Here(d) /\ cmd \notin FreeOf(d))
      BY <1>2, <1>5 DEF Here, Removing
<1>7. LogAgrees' /\ LastCloses'
      BY <1>0, <1>1, <1>6, LogRead DEF Registry, cmd
<1> QED BY <1>1, <1>3, <1>4, <1>7 DEF Registry

\* HandleFreeResource has nobody to tell: cmd_data stays the command.
LEMMA FreeingCommand ==
    ASSUME Typed, Registry, toRM # <<>>, toRM' = Tail(toRM), UNCHANGED clientVars, rmPc = "select",
           Head(toRM).RM_Cmd \in {"RM_FreeResource", "RM_FreeAndCloseResource"}, HandleFreeResource(Head(toRM))
    PROVE  Registry' /\ cmd_data' = Head(toRM)
<1> DEFINE cmd == Head(toRM)
<1>0. cmd \in Cmd /\ toRM \in Seq(Cmd) /\ N \in Nat
  <2>1. toRM \in Seq(Cmd) /\ ListOK
        BY DEF Typed, FifosOK
  <2> QED BY <2>1, EntriesTyped
<1>1. EnteredFirst' /\ CountCovers' /\ used' = used /\ None(toRM, WaitSet)'
      BY ClientsRest
<1>2. Waiting = {}
      BY <1>0 DEF Waiting, Registry, NobodyWaits
<1>3. /\ cmd_data' = IF Waiting = {} THEN cmd
                     ELSE [cmd EXCEPT !.inst.h = componentList[Max(Waiting)].inst.h,
                                      !.rm_status = "RM_RESOURCEACQUIRED"]
      /\ rmPc' = "remove" /\ UNCHANGED <<componentList, openPipes>>
      BY Zenon DEF HandleFreeResource
<1> HIDE DEF cmd
<1>4. cmd_data' = cmd
      BY <1>2, <1>3
<1>5. PipesOpen' /\ NobodyWaits' /\ \A d : Listed(d)' <=> Listed(d)
      BY <1>1, <1>3 DEF PipesOpen, NobodyWaits, Registry, Listed, N
<1>6. \A d : (cmd \in FreeOf(d) <=> d = cmd.inst) /\ cmd \notin OpenOf(d)
      BY <1>0 DEF OpenOf, FreeOf, cmd
<1>7. \A d \in Inst : Here(d)' <=> cmd \in OpenOf(d) \/ (Here(d) /\ cmd \notin FreeOf(d))
      BY <1>3, <1>4, <1>5, <1>6 DEF Here, Removing
<1>8. cmd_data'.RM_Cmd = "RM_FreeAndCloseResource" => cmd \in Closing
      BY <1>0, <1>4 DEF Closing
<1>9. LogAgrees' /\ LastCloses'
      BY <1>0, <1>1, <1>7, <1>8, LogRead DEF Registry, cmd
<1> QED BY <1>1, <1>4, <1>5, <1>9 DEF Registry, cmd

\* RM_CreatePipe takes a number that is free.
LEMMA CreatingCommand ==
    ASSUME Typed, Registry, toRM # <<>>, toRM' = Tail(toRM), UNCHANGED clientVars, rmPc = "select",
           Head(toRM).RM_Cmd \in {"RM_OpenPipe", "RM_ReusePipe"}, RM_CreatePipe(Head(toRM))
    PROVE  Registry'
<1> DEFINE cmd == Head(toRM)
           fd == CHOOSE f \in FreeFds : \A g \in FreeFds : f <= g
<1>1. FreeFds \in SUBSET Nat /\ FreeFds # {}
      BY DEF FreeFds, RM_CreatePipe
<1>2. fd \in FreeFds
  <2>1. \E f \in FreeFds : \A g \in FreeFds : f <= g
        BY <1>1, LeastElement
  <2> QED BY <2>1
<1>3. /\ openPipes' = [f \in DOMAIN openPipes \cup {fd} |->
                          IF f = fd THEN cmd.inst.pid ELSE openPipes[f]]
      /\ RM_AddPipe(cmd, fd) /\ rmPc' = "select"
      BY DEF RM_CreatePipe
<1> HIDE DEF fd, cmd
<1>4. fd \notin DOMAIN openPipes
      BY <1>2 DEF FreeFds
<1>5. /\ fd \in DOMAIN openPipes' /\ openPipes'[fd] = cmd.inst.pid
      /\ \A f \in DOMAIN openPipes : f \in DOMAIN openPipes' /\ openPipes'[f] = openPipes[f]
      BY <1>3, <1>4
<1> QED BY <1>3, <1>5, EnteringCommand DEF cmd

\* RM_ReusePipe takes the pipe of an entry of the same process.
LEMMA ReusingCommand ==
    ASSUME Typed, Registry, toRM # <<>>, toRM' = Tail(toRM), UNCHANGED clientVars, rmPc = "select",
           Head(toRM).RM_Cmd = "RM_ReusePipe", RM_ReusePipe(Head(toRM))
    PROVE  Registry'
<1> DEFINE cmd == Head(toRM)
           other == [h |-> cmd.param4, pid |-> cmd.inst.pid]
<1>1. CASE RM_GetPipe(other) = {}
      BY <1>1, CreatingCommand DEF RM_ReusePipe
<1>2. CASE RM_GetPipe(other) # {}
  <2>1. PICK pipe \in RM_GetPipe(other) : RM_AddPipe(cmd, pipe)
        BY <1>2 DEF RM_ReusePipe
  <2>2. rmPc' = "select" /\ openPipes' = openPipes
        BY <1>2 DEF RM_ReusePipe
  <2>3. PICK i \in RM_GetListIndex(other) : pipe = componentList[i].pipe
        BY <2>1 DEF RM_GetPipe
  <2>4. other.pid = cmd.inst.pid
        OBVIOUS
  <2> HIDE DEF other, cmd
  <2>5. i \in 1..N /\ componentList[i].inst = other
    <3>1. ListOK
          BY DEF Typed
    <3> QED BY <2>3, <3>1, ListIndex
  <2>6. pipe \in DOMAIN openPipes /\ openPipes[pipe] = cmd.inst.pid
        BY <2>3, <2>4, <2>5 DEF Registry, PipesOpen
  <2> QED BY <2>1, <2>2, <2>6, EnteringCommand DEF cmd
<1> QED BY <1>1, <1>2

\* A turn of main() that finds a command.
LEMMA CommandRegistry ==
    ASSUME Typed, Registry, ReadCommand, UNCHANGED clientVars PROVE Registry'
<1> DEFINE cmd == Head(toRM)
<1>0. toRM # <<>> /\ toRM' = Tail(toRM) /\ rmPc = "select" /\ toRM \in Seq(Cmd) /\ ListOK
      BY DEF ReadCommand, Typed, FifosOK
<1>1. cmd \in Cmd /\ cmd \notin WaitSet
  <2>1. cmd \in Cmd
        BY <1>0
  <2> QED BY <1>0, <2>1, Taking DEF Registry, NobodyWaits
<1> HIDE DEF cmd
<1>2. ASSUME rmPc' = "select", UNCHANGED <<componentList, openPipes>>,
             cmd.RM_Cmd \in {"RM_RequestResource", "RM_WaitForResource", "RM_CancelWaitForResource", "RM_ExitTI"}
      PROVE  Registry'
  <2>1. KeepsEntries
        BY <1>2 DEF KeepsEntries, N
  <2>2. \A d : cmd \notin OpenOf(d) /\ cmd \notin FreeOf(d)
        BY <1>2 DEF OpenOf, FreeOf
  <2> QED BY <1>0, <1>2, <2>1, <2>2, QuietCommand DEF cmd
<1>3. CASE cmd.RM_Cmd = "RM_RequestResource" /\ HandleRequestResource(cmd)
      BY <1>2, <1>3 DEF HandleRequestResource
<1>4. CASE /\ cmd.RM_Cmd = "RM_WaitForResource" /\ rmPc' = "select"
           /\ UNCHANGED <<toPM, globalrequest_cmd_data, componentList, openPipes, totalCpu>>
      BY <1>2, <1>4
<1>5. CASE /\ cmd.RM_Cmd \in {"RM_FreeResource", "RM_FreeAndCloseResource"} /\ HandleFreeResource(cmd)
      BY <1>0, <1>5, FreeingCommand DEF cmd
<1>6. CASE cmd.RM_Cmd = "RM_StateSet" /\ HandleStateSet(cmd)
  <2>1. rmPc' = "select" /\ openPipes' = openPipes
        BY <1>6 DEF HandleStateSet
  <2>2. cmd.param2 # OMX_StateWaitForResources
        BY <1>1, <1>6 DEF WaitSet
  <2>3. \A d : cmd \notin OpenOf(d) /\ cmd \notin FreeOf(d)
        BY <1>6 DEF OpenOf, FreeOf
  <2>4. CASE UNCHANGED componentList
    <3>1. KeepsEntries
          BY <2>4 DEF KeepsEntries, N
    <3> QED BY <1>0, <2>1, <2>3, <3>1, QuietCommand DEF cmd
  <2>5. ASSUME NEW i \in RM_GetListIndex(cmd.inst),
               componentList' = [componentList EXCEPT ![i].state = cmd.param2]
        PROVE  Registry'
    <3> DEFINE list == [componentList EXCEPT ![i].state = cmd.param2]
    <3>0. i \in 1..N /\ N \in Nat /\ DOMAIN componentList = 1..N
          BY <1>0, <2>5, ListIndex
    <3>1. \A j \in 1..N : componentList[j] \in Entry
          BY <1>0, EntriesTyped
    <3>2. ASSUME NEW j \in 1..N
          PROVE  /\ list[j].inst = componentList[j].inst /\ list[j].pipe = componentList[j].pipe
                 /\ list[j].state # OMX_StateWaitForResources
      <4>1. list[j] = IF j = i THEN [componentList[j] EXCEPT !.state = cmd.param2] ELSE componentList[j]
            BY <3>0
      <4>2. /\ [componentList[j] EXCEPT !.state = cmd.param2].inst = componentList[j].inst
            /\ [componentList[j] EXCEPT !.state = cmd.param2].pipe = componentList[j].pipe
            /\ [componentList[j] EXCEPT !.state = cmd.param2].state = cmd.param2
            BY <3>1 DEF Entry
      <4> HIDE DEF list
      <4>3. CASE list[j] = [componentList[j] EXCEPT !.state = cmd.param2]
            BY <2>2, <4>2, <4>3
      <4>4. CASE list[j] = componentList[j]
            BY <4>4 DEF Registry, NobodyWaits
      <4> QED BY <4>1, <4>3, <4>4
    <3>3. Len(list) = N
          BY <3>0
    <3> HIDE DEF list
    <3>4. componentList' = list /\ N' = N
          BY <2>5, <3>3 DEF list, N
    <3>5. EnteredFirst' /\ CountCovers' /\ used' = used /\ None(toRM, WaitSet)'
          BY <1>0, ClientsRest
    <3>6. PipesOpen' /\ NobodyWaits' /\ \A d : Listed(d)' <=> Listed(d)
          BY <2>1, <3>2, <3>4, <3>5 DEF PipesOpen, NobodyWaits, Registry, Listed
    <3>7. \A d \in Inst : Here(d)' <=> Here(d)
          BY <1>0, <2>1, <3>6 DEF Here, Removing
    <3>8. LogAgrees' /\ LastCloses'
          BY <1>0, <2>1, <2>3, <3>5, <3>7, LogRead DEF Registry, cmd
    <3> QED BY <3>5, <3>6, <3>8 DEF Registry
  <2> QED BY <1>6, <2>4, <2>5 DEF HandleStateSet
<1>7. CASE cmd.RM_Cmd = "RM_OpenPipe" /\ RM_CreatePipe(cmd)
      BY <1>0, <1>7, CreatingCommand DEF cmd
<1>8. CASE cmd.RM_Cmd = "RM_ReusePipe" /\ RM_ReusePipe(cmd)
      BY <1>0, <1>8, ReusingCommand DEF cmd
<1>9. CASE cmd.RM_Cmd \in {"RM_CancelWaitForResource", "RM_ExitTI"} /\ IgnoredRMCommand(cmd)
      BY <1>2, <1>9 DEF IgnoredRMCommand
<1> QED BY <1>3, <1>4, <1>5, <1>6, <1>7, <1>8, <1>9 DEF ReadCommand, cmd

\* The removal: if it closes the FIFO, no entry is left.
LEMMA RemovalRegistry ==
    ASSUME Typed, Registry, RemoveFreed, UNCHANGED clientVars PROVE Registry'
<1>0. /\ rmPc = "remove" /\ rmPc' = "select" /\ toRM' = toRM /\ RM_RemoveComponentFromList(cmd_data.inst)
      /\ ListOK
      BY DEF RemoveFreed, Typed
<1>1. EnteredFirst' /\ CountCovers' /\ used' = used /\ None(toRM, WaitSet)'
      BY <1>0, ClientsRest
<1>2. /\ \A d : Listed(d)' <=> Listed(d) /\ d # cmd_data.inst
      /\ \A i \in 1..N' : \E j \in 1..N : componentList'[i] = componentList[j]
      BY <1>0, EntryRemoved
<1>3. \A d \in Inst : Here(d)' <=> Here(d)
      BY <1>0, <1>2 DEF Here, Removing
<1>4. LogAgrees' /\ LastCloses'
      BY <1>0, <1>1, <1>3, LogSame DEF Registry
<1>5. NobodyWaits'
      BY <1>1, <1>2 DEF NobodyWaits, Registry
<1>6. PipesOpen'
  <2>1. CASE cmd_data.RM_Cmd = "RM_FreeAndCloseResource"
    <3>1. \A d \in Inst : ~ Listed(d)'
          BY <1>0, <1>2, <2>1 DEF Registry, LastCloses, Here, Removing
    <3>2. \A i \in 1..N' : \E d \in Inst : Listed(d)'
      <4>1. \A j \in 1..N : componentList[j] \in Entry
            BY <1>0, EntriesTyped
      <4>2. \A i \in 1..N' : componentList'[i] \in Entry
            BY <1>2, <4>1
      <4> QED BY <4>2 DEF Entry, Listed
    <3> QED BY <3>1, <3>2 DEF PipesOpen
  <2>2. CASE cmd_data.RM_Cmd # "RM_FreeAndCloseResource"
    <3>1. openPipes' = openPipes
          BY <2>2 DEF RemoveFreed
    <3> QED BY <1>2, <3>1 DEF PipesOpen, Registry
  <2> QED BY <2>1, <2>2
<1> QED BY <1>1, <1>4, <1>5, <1>6 DEF Registry

\* The other steps of the main thread change no entry but its status.
LEMMA DecisionRegistry ==
    ASSUME Typed, Registry, UNCHANGED clientVars,
           \/ PolicyPreempted \/ PolicyDenied \/ PolicyGrantedInRecovery \/ PolicyGranted
           \/ GetQosOk \/ GetQosDeny \/ GetQosFails \/ InitializeQosFails
    PROVE  Registry'
<1>1. UNCHANGED <<toRM, openPipes>> /\ rmPc # "remove" /\ rmPc' # "remove"
      BY DEF PolicyPreempted, PolicyDenied, PolicyGrantedInRecovery, PolicyGranted, ReadResponse,
             GetQosOk, GetQosDeny, GetQosFails, InitializeQosFails
<1>2. componentList' = componentList \/ \E inst, status : componentList' = RM_SetStatus(inst, status)
  <2>1. CASE PolicyPreempted
        BY <2>1 DEF PolicyPreempted
  <2>2. CASE PolicyDenied \/ PolicyGrantedInRecovery \/ PolicyGranted
        BY <2>2 DEF PolicyDenied, PolicyGrantedInRecovery, PolicyGranted, Answer
  <2>3. CASE GetQosOk \/ InitializeQosFails
        BY <2>3 DEF GetQosOk, InitializeQosFails, QosGrant, Answer
  <2>4. CASE GetQosDeny \/ GetQosFails
        BY <2>4 DEF GetQosDeny, GetQosFails, QosFreeResources
  <2> QED BY <2>1, <2>2, <2>3, <2>4
<1>3. KeepsEntries
  <2>1. CASE componentList' = componentList
        BY <2>1 DEF KeepsEntries, N
  <2>2. ASSUME NEW inst, NEW status, componentList' = RM_SetStatus(inst, status) PROVE KeepsEntries
        BY <2>2, StatusKeeps DEF Typed
  <2> QED BY <1>2, <2>1, <2>2
<1> QED BY <1>1, <1>3, RestKept

\* Steps that touch nothing the invariant speaks of.
LEMMA ElsewhereRegistry ==
    ASSUME Typed, Registry, UNCHANGED <<clientVars, toRM, openPipes, componentList, cmd_data, rmPc>>
    PROVE  Registry'
<1>1. KeepsEntries
      BY DEF KeepsEntries, N
<1> QED BY <1>1, RestKept

\* The servers and the fault thread.
LEMMA ServersRegistry ==
    ASSUME SimpleUse, Typed, Staged, Registry,
           ResourceManagerStep \/ WatchThreadStep \/ PolicyManagerStep
    PROVE  Registry'
<1>1. CASE ResourceManagerStep
  <2>1. UNCHANGED clientVars /\ MainNext
        BY <1>1 DEF ResourceManagerStep
  <2> QED BY <2>1, CommandRegistry, RemovalRegistry, DecisionRegistry DEF MainNext
<1>2. CASE WatchThreadStep
  <2>1. ~ Fault /\ ~ WatchFill /\ ~ WatchWrite /\ ~ WatchLoopEnds
    <3>1. watch.faults \in Nat /\ NoFault
          BY DEF Typed, ManagerOK, Watch, Staged
    <3> QED BY <3>1 DEF Fault, WatchFill, WatchStep, WatchWrite, WatchLoopEnds, NoFault, SimpleUse
  <2>2. UNCHANGED <<clientVars, toRM, openPipes, componentList, cmd_data, rmPc>>
        BY <1>2, <2>1 DEF WatchThreadStep, WatchNext, WatchPoll, DspReopened, DspLost, MainUnchanged
  <2> QED BY <2>2, ElsewhereRegistry
<1>3. CASE PolicyManagerStep
      BY <1>3, ElsewhereRegistry DEF PolicyManagerStep
<1> QED BY <1>1, <1>2, <1>3

-----------------------------------------------------------------------------
(* The components and the proxy keep it.                                   *)

\* No request begins or ends before it was sent.
LEMMA CountKept ==
    ASSUME CountCovers, UNCHANGED <<used, numClients>>, numClients \in [Pids -> Nat],
           \A c \in Clients : /\ curState[c] \in {"connecting", "sending"} => curState'[c] \in {"connecting", "sending"}
                              /\ curState'[c] \in InRequest => curState[c] \in InRequest
    PROVE  CountCovers'
<1>1. Counted' \in SUBSET Counted
      BY DEF Counted, CountCovers
<1>2. IsFiniteSet(Counted')
      BY <1>1, FS_Subset DEF CountCovers
<1>3. Cardinality(Counted') <= Cardinality(Counted) /\ Cardinality(Counted) \in Nat /\ Cardinality(Counted') \in Nat
      BY <1>1, <1>2, FS_Subset, FS_CardinalityType DEF CountCovers
<1>4. \A p \in Pids : Cardinality(Counted') <= numClients'[p]
      BY <1>3 DEF CountCovers
<1> QED BY <1>2, <1>4 DEF CountCovers

\* What is left to show for a command that is sent.
LEMMA SentRegistry ==
    ASSUME Typed, Registry, UNCHANGED <<componentList, openPipes, rmPc, cmd_data>>,
           NEW m \in Cmd, toRM' = Append(toRM, m), m \notin WaitSet,
           \A d \in Inst : d \in used' <=> m \in OpenOf(d) \/ (d \in used /\ m \notin FreeOf(d)),
           m \in Closing => used' = {},
           \A c \in Clients : curState'[c] = "requesting" =>
               m \notin OpenOf(c) /\ (m \in ReqOf(c) \/ curState[c] = "requesting"),
           CountCovers'
    PROVE  Registry'
<1>0. toRM \in Seq(Cmd)
      BY DEF Typed, FifosOK
<1>1. /\ \A d \in Inst : Here(d)' <=> Here(d)
      /\ PipesOpen'
      BY DEF Here, Removing, Listed, N, PipesOpen, Registry
<1>2. NobodyWaits'
  <2>1. None(toRM', WaitSet)
        BY <1>0, Appended DEF Registry, NobodyWaits
  <2> QED BY <2>1 DEF Registry, NobodyWaits, N
<1>3. LogAgrees' /\ LastCloses'
      BY <1>0, <1>1, LogSent DEF Registry
<1>4. EnteredFirst'
  <2>1. PICK n \in Nat : /\ n = Len(toRM) /\ DOMAIN toRM = 1..n /\ DOMAIN toRM' = 1..(n + 1)
                         /\ toRM'[n + 1] = m /\ \A k \in 1..n : toRM'[k] = toRM[k]
        BY <1>0
  <2> SUFFICES ASSUME NEW c \in Clients, curState'[c] = "requesting", NEW i \in DOMAIN toRM', toRM'[i] \in OpenOf(c)
               PROVE  \E j \in DOMAIN toRM' : j > i /\ toRM'[j] \in ReqOf(c)
      BY DEF EnteredFirst
  <2>2. i \in 1..n /\ toRM[i] \in OpenOf(c)
        BY <2>1
  <2>3. CASE m \in ReqOf(c)
    <3>1. n + 1 \in DOMAIN toRM' /\ n + 1 > i
          BY <2>1, <2>2
    <3> QED BY <2>1, <2>3, <3>1
  <2>4. CASE curState[c] = "requesting"
    <3>1. PICK j \in DOMAIN toRM : j > i /\ toRM[j] \in ReqOf(c)
          BY <2>1, <2>2, <2>4 DEF Registry, EnteredFirst
    <3>2. j \in DOMAIN toRM' /\ toRM'[j] = toRM[j]
          BY <2>1
    <3> QED BY <3>1, <3>2
  <2> QED BY <2>3, <2>4
<1> QED BY <1>1, <1>2, <1>3, <1>4 DEF Registry

\* And for a step that sends nothing.
LEMMA SilentRegistry ==
    ASSUME Registry, UNCHANGED <<toRM, used, componentList, openPipes, rmPc, cmd_data>>,
           \A c \in Clients : curState'[c] = "requesting" => curState[c] = "requesting",
           CountCovers'
    PROVE  Registry'
<1>1. /\ \A d \in Inst : Here(d)' <=> Here(d)
      /\ PipesOpen' /\ NobodyWaits'
      BY DEF Here, Removing, Listed, N, PipesOpen, NobodyWaits, Registry
<1>2. LogAgrees' /\ LastCloses'
      BY <1>1, LogSame DEF Registry
<1>3. EnteredFirst'
      BY DEF EnteredFirst, Registry
<1> QED BY <1>1, <1>2, <1>3 DEF Registry

\* A command, by what it does to the list.
LEMMA CommandKind ==
    ASSUME NEW cmd \in CmdNames, NEW inst \in Inst, NEW kind \in Components, NEW param2 \in Word,
           NEW param4 \in Handles \cup {NoInst}
    PROVE  LET m == Command(cmd, inst, kind, param2, param4)
           IN  /\ m \in Cmd
               /\ \A d : m \in OpenOf(d) <=> cmd \in {"RM_OpenPipe", "RM_ReusePipe"} /\ d = inst
               /\ \A d : m \in FreeOf(d) <=> cmd \in {"RM_FreeResource", "RM_FreeAndCloseResource"} /\ d = inst
               /\ \A d : m \in ReqOf(d) <=> cmd = "RM_RequestResource" /\ d = inst
               /\ m \in Closing <=> cmd = "RM_FreeAndCloseResource"
               /\ m \in WaitSet <=> cmd = "RM_StateSet" /\ param2 = OMX_StateWaitForResources
<1> DEFINE m == Command(cmd, inst, kind, param2, param4)
<1>1. m \in Cmd /\ m.RM_Cmd = cmd /\ m.inst = inst /\ m.param2 = param2
      BY DEF Command, Cmd, Statuses
<1> HIDE DEF m
<1>2. /\ m \in Cmd
      /\ \A d : m \in OpenOf(d) <=> cmd \in {"RM_OpenPipe", "RM_ReusePipe"} /\ d = inst
      /\ \A d : m \in FreeOf(d) <=> cmd \in {"RM_FreeResource", "RM_FreeAndCloseResource"} /\ d = inst
      /\ \A d : m \in ReqOf(d) <=> cmd = "RM_RequestResource" /\ d = inst
      /\ m \in Closing <=> cmd = "RM_FreeAndCloseResource"
      /\ m \in WaitSet <=> cmd = "RM_StateSet" /\ param2 = OMX_StateWaitForResources
      BY <1>1 DEF OpenOf, FreeOf, ReqOf, ReqCmd, Closing, WaitSet
<1> QED BY <1>2 DEF m

\* A request begins.
LEMMA ConnectsRegistry ==
    ASSUME SimpleUse, Typed, Registry, NEW c \in Clients, RequestConnects(c) PROVE Registry'
<1>0. /\ c \in Inst /\ c.pid \in Pids /\ KindOf[c] \in Components /\ NoInst \in Handles \cup {NoInst}
      /\ CpuOf[c] \in Word /\ curState \in [Clients -> States] /\ numClients \in [Pids -> 0..MaxRequests]
      /\ MaxRequests \in Nat
      BY Constants DEF Typed, ClientOK
<1>1. /\ UNCHANGED <<componentList, openPipes, rmPc, cmd_data, numClients>> /\ used' = used \cup {c}
      /\ \E s \in {"connecting", "sending"} : curState' = [curState EXCEPT ![c] = s]
      BY DEF RequestConnects, RMUnchangedButIn
<1>2. \A d \in Clients : d # c => curState'[d] = curState[d]
      BY <1>0, <1>1
<1>3. curState'[c] \in {"connecting", "sending"}
      BY <1>0, <1>1
<1>4. CountCovers'
  <2>1. Counted' \in SUBSET Counted
        BY <1>1, <1>2, <1>3 DEF Counted, CountCovers, Registry
  <2>2. IsFiniteSet(Counted')
        BY <2>1, FS_Subset DEF CountCovers, Registry
  <2>3. Cardinality(Counted') <= Cardinality(Counted) /\ Cardinality(Counted) \in Nat /\ Cardinality(Counted') \in Nat
        BY <2>1, <2>2, FS_Subset, FS_CardinalityType DEF CountCovers, Registry
  <2>4. \A p \in Pids : Cardinality(Counted') <= numClients'[p]
        BY <1>0, <1>1, <2>3 DEF CountCovers, Registry
  <2> QED BY <1>1, <1>2, <2>2, <2>4 DEF CountCovers, Registry
<1>5. ASSUME NEW cmd \in {"RM_OpenPipe", "RM_ReusePipe"}, NEW param4 \in Handles \cup {NoInst},
             toRM' = Append(toRM, Command(cmd, c, KindOf[c], CpuOf[c], param4))
      PROVE  Registry'
  <2> DEFINE m == Command(cmd, c, KindOf[c], CpuOf[c], param4)
  <2>1. /\ m \in Cmd /\ m \notin WaitSet /\ m \notin Closing
        /\ \A d : (m \in OpenOf(d) <=> d = c) /\ m \notin FreeOf(d)
        BY <1>0, <1>5, CommandKind DEF CmdNames
  <2>2. toRM' = Append(toRM, m)
        BY <1>5
  <2> HIDE DEF m
  <2>3. \A d \in Clients : curState'[d] = "requesting" => m \notin OpenOf(d) /\ curState[d] = "requesting"
        BY <1>2, <1>3, <2>1
  <2> QED BY <1>1, <1>4, <2>1, <2>2, <2>3, SentRegistry
<1>6. CASE numClients[c.pid] = 0
      BY <1>0, <1>5, <1>6 DEF RequestConnects, Send
<1>7. CASE numClients[c.pid] # 0
  <2> DEFINE other == [c EXCEPT !.pid = rmDataPid[c.pid]]
  <2>1. toRM' = Append(toRM, Command("RM_ReusePipe", other, KindOf[c], CpuOf[c], threadhandle[c.pid]))
        BY <1>7 DEF RequestConnects
  <2>2. rmDataPid[c.pid] \in Pids /\ threadhandle[c.pid] \in Handles \cup {NoInst}
    <3>1. numClients[c.pid] > 0
          BY <1>0, <1>7
    <3> QED BY <1>0, <3>1 DEF Typed, Asking, ClientOK
  <2>3. other = c
    <3>1. rmDataPid[c.pid] = c.pid
          BY <1>0, <2>2 DEF SimpleUse, OneProcess
    <3> QED BY <1>0, <3>1 DEF Inst
  <2> HIDE DEF other
  <2> QED BY <1>5, <2>1, <2>2, <2>3
<1> QED BY <1>6, <1>7

\* The request is sent, and counted.
LEMMA RequestRegistry ==
    ASSUME SimpleUse, Typed, Registry, NEW c \in Clients, RequestResource(c) PROVE Registry'
<1> DEFINE m == Command("RM_RequestResource", c, KindOf[c], CpuOf[c], NoInst)
<1>0. /\ c \in Inst /\ c.pid \in Pids /\ KindOf[c] \in Components /\ NoInst \in Handles \cup {NoInst}
      /\ CpuOf[c] \in Word /\ curState \in [Clients -> States] /\ numClients \in [Pids -> 0..MaxRequests]
      /\ MaxRequests \in Nat
      BY Constants DEF Typed, ClientOK
<1>1. /\ UNCHANGED <<componentList, openPipes, rmPc, cmd_data, used>> /\ toRM' = Append(toRM, m)
      /\ curState[c] = "sending" /\ curState' = [curState EXCEPT ![c] = "requesting"]
      /\ numClients' = [numClients EXCEPT ![c.pid] = @ + 1]
      BY DEF RequestResource, RMUnchangedButIn, Send
<1>2. \A d \in Clients : curState'[d] = IF d = c THEN "requesting" ELSE curState[d]
      BY <1>0, <1>1
<1>3. /\ m \in Cmd /\ m \notin WaitSet /\ m \notin Closing
      /\ \A d : m \notin OpenOf(d) /\ m \notin FreeOf(d) /\ (m \in ReqOf(d) <=> d = c)
      BY <1>0, CommandKind DEF CmdNames
<1> HIDE DEF m
<1>4. CountCovers'
  <2>1. used \subseteq Clients /\ c \in used /\ IsFiniteSet(Counted)
        BY <1>1 DEF Registry, CountCovers, InRequest
  <2>2. Counted' = Counted \cup {c} /\ c \notin Counted
        BY <1>1, <1>2, <2>1 DEF Counted
  <2>3. /\ IsFiniteSet(Counted') /\ Cardinality(Counted) \in Nat
        /\ Cardinality(Counted') = Cardinality(Counted) + 1
        BY <2>1, <2>2, FS_AddElement, FS_CardinalityType
  <2>4. ASSUME NEW p \in Pids PROVE Cardinality(Counted') <= numClients'[p]
    <3>1. p = c.pid /\ Cardinality(Counted) <= numClients[p]
          BY <1>0 DEF SimpleUse, OneProcess, Registry, CountCovers
    <3>2. numClients'[p] = numClients[p] + 1 /\ numClients[p] \in Nat
          BY <1>0, <1>1, <3>1
    <3> QED BY <2>3, <3>1, <3>2
  <2>5. \A d \in Clients : curState'[d] \in InRequest => d \in used
        BY <1>2, <2>1 DEF Registry, CountCovers
  <2> QED BY <1>1, <2>1, <2>3, <2>4, <2>5 DEF CountCovers
<1> QED BY <1>1, <1>2, <1>3, <1>4, SentRegistry

\* The last component that is freed leaves none: the FIFO may be closed.
LEMMA DeInitRegistry ==
    ASSUME SimpleUse, Typed, Registry, NEW c \in Clients, DeInit(c) PROVE Registry'
<1> DEFINE m == Command(FreeCommand(c.pid), c, KindOf[c], 0, NoInst)
<1>0. /\ c \in Inst /\ c.pid \in Pids /\ KindOf[c] \in Components /\ NoInst \in Handles \cup {NoInst}
      /\ 0 \in Word /\ curState \in [Clients -> States] /\ numClients \in [Pids -> 0..MaxRequests]
      /\ MaxRequests \in Nat
      BY Constants DEF Typed, ClientOK, Word
<1>1. /\ UNCHANGED <<componentList, openPipes, rmPc, cmd_data>> /\ toRM' = Append(toRM, m)
      /\ c \in used /\ used' = used \ {c}
      /\ curState' = [curState EXCEPT ![c] = "Loaded"]
      /\ numClients' = [numClients EXCEPT ![c.pid] = Floor(@)]
      BY DEF DeInit, RMUnchangedButIn, Send, SimpleUse
<1>2. \A d \in Clients : curState[d] \notin InRequest
      BY <1>0, Constants DEF DeInit, CanSend, SimpleUse, OneProcess, responsePending, Requester
<1>3. \A d \in Clients : curState'[d] = IF d = c THEN "Loaded" ELSE curState[d]
      BY <1>0, <1>1
<1>4. /\ m \in Cmd /\ m \notin WaitSet /\ (m \in Closing <=> FreeCommand(c.pid) = "RM_FreeAndCloseResource")
      /\ \A d : m \notin OpenOf(d) /\ (m \in FreeOf(d) <=> d = c)
      BY <1>0, CommandKind DEF CmdNames, FreeCommand
<1> HIDE DEF m
<1>5. used \subseteq Clients /\ IsFiniteSet(Counted) /\ Counted = used /\ Counted' = used \ {c}
      BY <1>1, <1>2, <1>3 DEF Registry, CountCovers, Counted, InRequest
<1>6. /\ IsFiniteSet(Counted') /\ Cardinality(Counted) \in Nat /\ Cardinality(Counted') \in Nat
      /\ Cardinality(Counted') = Cardinality(Counted) - 1
      BY <1>1, <1>5, FS_RemoveElement, FS_CardinalityType
<1>7. Cardinality(Counted) <= numClients[c.pid] /\ numClients[c.pid] \in Nat
      BY <1>0 DEF Registry, CountCovers
<1>8. CountCovers'
  <2>1. ASSUME NEW p \in Pids PROVE Cardinality(Counted') <= numClients'[p]
    <3>1. p = c.pid
          BY <1>0 DEF SimpleUse, OneProcess
    <3>2. numClients'[p] = numClients[c.pid] - 1
          BY <1>0, <1>1, <1>6, <1>7, <3>1 DEF Floor
    <3> QED BY <1>6, <1>7, <3>2
  <2>2. \A d \in Clients : curState'[d] \notin InRequest
        BY <1>2, <1>3 DEF InRequest
  <2> QED BY <1>1, <1>5, <1>6, <2>1, <2>2 DEF CountCovers
<1>9. m \in Closing => used' = {}
  <2>1. ASSUME m \in Closing PROVE Cardinality(Counted') = 0
    <3>1. numClients[c.pid] <= 1
          BY <1>4, <1>7, <2>1 DEF FreeCommand
    <3> QED BY <1>6, <1>7, <3>1
  <2> QED BY <1>1, <1>5, <1>6, <2>1, FS_EmptySet
<1>10. \A d \in Clients : curState'[d] # "requesting"
      BY <1>2, <1>3 DEF InRequest
<1> QED BY <1>1, <1>4, <1>8, <1>9, <1>10, SentRegistry

\* A command that neither enters nor frees nor asks.
LEMMA PlainSent ==
    ASSUME Typed, Registry, UNCHANGED <<componentList, openPipes, rmPc, cmd_data, used, numClients>>,
           NEW c \in Clients, NEW cmd \in {"RM_StateSet", "RM_WaitForResource", "RM_CancelWaitForResource", "RM_ExitTI"},
           NEW param2 \in Word \ {OMX_StateWaitForResources}, Send(c, cmd, param2, NoInst),
           \A d \in Clients : /\ curState[d] \in {"connecting", "sending"} => curState'[d] \in {"connecting", "sending"}
                              /\ curState'[d] \in InRequest => curState[d] \in InRequest /\ curState'[d] = curState[d]
    PROVE  Registry'
<1> DEFINE m == Command(cmd, c, KindOf[c], param2, NoInst)
<1>0. /\ c \in Inst /\ KindOf[c] \in Components /\ NoInst \in Handles \cup {NoInst} /\ param2 \in Word
      /\ numClients \in [Pids -> Nat]
      BY Constants DEF Typed, ClientOK
<1>1. /\ m \in Cmd /\ m \notin WaitSet /\ m \notin Closing
      /\ \A d : m \notin OpenOf(d) /\ m \notin FreeOf(d)
      BY <1>0, CommandKind DEF CmdNames
<1>2. toRM' = Append(toRM, m)
      BY DEF Send
<1> HIDE DEF m
<1>3. CountCovers'
      BY <1>0, CountKept DEF Registry
<1>4. \A d \in Clients : curState'[d] = "requesting" => curState[d] = "requesting"
      BY DEF InRequest
<1> QED BY <1>1, <1>2, <1>3, <1>4, SentRegistry

\* A step that sends nothing.
LEMMA PlainSilent ==
    ASSUME Typed, Registry, UNCHANGED <<toRM, componentList, openPipes, rmPc, cmd_data, used, numClients>>,
           \A d \in Clients : /\ curState[d] \in {"connecting", "sending"} => curState'[d] \in {"connecting", "sending"}
                              /\ curState'[d] \in InRequest => curState[d] \in InRequest
                              /\ curState'[d] = "requesting" => curState[d] = "requesting"
    PROVE  Registry'
<1>1. numClients \in [Pids -> Nat]
      BY Constants DEF Typed, ClientOK
<1>2. CountCovers'
      BY <1>1, CountKept DEF Registry
<1> QED BY <1>2, SilentRegistry

\* The other steps of a component.
LEMMA PlainRegistry ==
    ASSUME SimpleUse, Typed, Registry, NEW c \in Clients,
           \/ PipeOpened(c) \/ PreemptedGoesIdle(c) \/ GoesLoaded(c) \/ ForeignCommand(c)
           \/ \E new \in DOMAIN StateCode : StateSet(c, new)
    PROVE  Registry'
<1>0. curState \in [Clients -> States]
      BY DEF Typed, ClientOK
<1>1. UNCHANGED <<componentList, openPipes, rmPc, cmd_data, used, numClients>>
      BY DEF PipeOpened, PreemptedGoesIdle, GoesLoaded, ForeignCommand, StateSet, RMUnchangedButIn,
             rmVars, clientVars
<1>2. ASSUME NEW s, curState' = [curState EXCEPT ![c] = s]
      PROVE  \A d \in Clients : curState'[d] = IF d = c THEN s ELSE curState[d]
      BY <1>0, <1>2
<1>3. /\ {OMX_StateIdle, 0} \subseteq Word \ {OMX_StateWaitForResources}
      /\ \A new \in DOMAIN StateCode : new # "WaitForResources" =>
            StateCode[new] \in Word \ {OMX_StateWaitForResources}
      BY Constants DEF Word, OMX_StateIdle, OMX_StateWaitForResources, StateCode, OMX_StateExecuting,
                       OMX_StatePause
<1>4. DOMAIN StateCode \cap InRequest = {} /\ {"Idle", "Loaded"} \cap InRequest = {}
      BY DEF StateCode, InRequest
<1>5. CASE PipeOpened(c)
  <2>1. toRM' = toRM /\ curState[c] = "connecting" /\ curState' = [curState EXCEPT ![c] = "sending"]
        BY <1>5 DEF PipeOpened, rmVars
  <2> QED BY <1>1, <1>2, <2>1, PlainSilent DEF InRequest
<1>6. CASE GoesLoaded(c)
  <2>1. /\ toRM' = toRM /\ curState[c] \in {"Idle", "WaitForResources"}
        /\ curState' = [curState EXCEPT ![c] = "Loaded"]
        BY <1>6 DEF GoesLoaded, rmVars
  <2> QED BY <1>1, <1>2, <1>4, <2>1, PlainSilent
<1>7. CASE ForeignCommand(c)
  <2>1. PICK cmd \in {"RM_WaitForResource", "RM_CancelWaitForResource", "RM_ExitTI"} : Send(c, cmd, 0, NoInst)
        BY <1>7 DEF ForeignCommand
  <2>2. curState' = curState
        BY <1>7 DEF ForeignCommand, clientVars
  <2> QED BY <1>1, <1>3, <2>1, <2>2, PlainSent
<1>8. ASSUME NEW new \in DOMAIN StateCode, StateSet(c, new) PROVE Registry'
  <2>1. /\ Send(c, "RM_StateSet", StateCode[new], NoInst) /\ curState' = [curState EXCEPT ![c] = new]
        /\ <<curState[c], new>> \in ReportedChanges /\ new # "WaitForResources"
        BY <1>8 DEF StateSet, SimpleUse
  <2>2. curState[c] \notin {"connecting", "sending"}
        BY <2>1 DEF ReportedChanges
  <2>3. \A d \in Clients :
            /\ curState[d] \in {"connecting", "sending"} => curState'[d] \in {"connecting", "sending"}
            /\ curState'[d] \in InRequest => curState[d] \in InRequest /\ curState'[d] = curState[d]
        BY <1>2, <1>4, <2>1, <2>2
  <2> QED BY <1>1, <1>3, <2>1, <2>3, PlainSent
<1>9. CASE PreemptedGoesIdle(c)
  <2>1. curState[c] \notin InRequest
        BY <1>9 DEF PreemptedGoesIdle
  <2>2. CASE UNCHANGED <<toRM, curState>>
        BY <1>1, <2>2, PlainSilent
  <2>3. CASE Send(c, "RM_StateSet", OMX_StateIdle, NoInst) /\ curState' = [curState EXCEPT ![c] = "Idle"]
    <3>1. \A d \in Clients :
              /\ curState[d] \in {"connecting", "sending"} => curState'[d] \in {"connecting", "sending"}
              /\ curState'[d] \in InRequest => curState[d] \in InRequest /\ curState'[d] = curState[d]
          BY <1>2, <1>4, <2>1, <2>3 DEF InRequest
    <3> QED BY <1>1, <1>3, <2>3, <3>1, PlainSent
  <2> QED BY <1>9, <2>2, <2>3 DEF PreemptedGoesIdle
<1> QED BY <1>5, <1>6, <1>7, <1>8, <1>9

\* Whoever gets a decision has sent its request.
LEMMA DecisionFor ==
    ASSUME Typed, Staged, NEW p \in Pids, NEW status \in Decisions, ReadReply(p, status),
           NEW c \in Requester(p)
    PROVE  curState[c] = "requesting"
<1> DEFINE s == rmPipe[p]
           r == Head(s)
<1>0. PICK st \in Stages : Stage(st)
      BY DEF Staged
<1>1. s # <<>> /\ s \in Seq(Rep) /\ r.rm_status = status
      BY DEF ReadReply, Typed, FifosOK
<1>2. r \in Rep
      BY <1>1
<1>3. r.inst \in Inst
      BY <1>2 DEF Rep
<1>4. r \in ToldOf(r.inst)
      BY <1>1, <1>2 DEF ToldOf, Told
<1> HIDE DEF r
<1>5. Requesting(r.inst) \/ None(s, ToldOf(r.inst))
      BY <1>0, <1>3 DEF Stage, PipeSide
<1> HIDE DEF s
<1>6. Requesting(r.inst)
      BY <1>1, <1>4, <1>5, Taking DEF r
<1>7. r.inst = c
      BY <1>6 DEF Requesting, Staged, Lone, Requester, InRequest
<1> QED BY <1>6, <1>7 DEF Requesting

\* The proxy thread.
LEMMA ProxyRegistry ==
    ASSUME SimpleUse, Typed, Staged, Registry, NEW p \in Pids, ProxyStep(p) PROVE Registry'
<1>0. PICK st \in Stages : Stage(st)
      BY DEF Staged
<1>1. PICK status : ReadReply(p, status)
      BY DEF ProxyStep, Granted, Denied, Preempted, Informed, FatalError, FatalErrorIgnored
<1>2. /\ UNCHANGED <<componentList, openPipes, rmPc, cmd_data>> /\ NoFault
      /\ curState \in [Clients -> States]
      BY <1>1 DEF ReadReply, Staged, Typed, ClientOK
<1>3. ~ FatalError(p) /\ ~ FatalErrorIgnored(p)
      BY <1>0, <1>2, ReplyTaken DEF Stage, FatalError, FatalErrorIgnored
<1>4. UNCHANGED <<used, numClients>>
      BY <1>3 DEF ProxyStep, Granted, Denied, Preempted, Informed
<1>5. {"RM_GRANT", "RM_DENY"} \subseteq Decisions /\ "Idle" \notin InRequest /\ "WaitForResources" \notin InRequest
      BY DEF Decisions, InRequest
<1>6. CASE Granted(p)
  <2>1. CASE UNCHANGED <<curState, toRM>>
        BY <1>2, <1>4, <2>1, PlainSilent
  <2>2. ASSUME NEW c \in Requester(p), curState' = [curState EXCEPT ![c] = "Idle"],
               Send(c, "RM_StateSet", OMX_StateIdle, NoInst)
        PROVE  Registry'
    <3>1. c \in Clients /\ curState[c] = "requesting"
          BY <1>5, <1>6, <2>2, DecisionFor DEF Granted, Requester
    <3>2. \A d \in Clients : curState'[d] = IF d = c THEN "Idle" ELSE curState[d]
          BY <1>2, <2>2, <3>1
    <3>3. \A d \in Clients :
              /\ curState[d] \in {"connecting", "sending"} => curState'[d] \in {"connecting", "sending"}
              /\ curState'[d] \in InRequest => curState[d] \in InRequest /\ curState'[d] = curState[d]
          BY <1>5, <3>1, <3>2
    <3>4. OMX_StateIdle \in Word \ {OMX_StateWaitForResources}
          BY Codes DEF OMX_StateIdle, OMX_StateWaitForResources
    <3> QED BY <1>2, <1>4, <2>2, <3>1, <3>3, <3>4, PlainSent
  <2> QED BY <1>6, <2>1, <2>2 DEF Granted
<1>7. CASE Denied(p)
  <2>1. /\ toRM' = toRM
        /\ \A d \in Clients : curState'[d] = IF d \in Requester(p) THEN "WaitForResources" ELSE curState[d]
        BY <1>7 DEF Denied
  <2>2. \A d \in Requester(p) : curState[d] = "requesting"
        BY <1>5, <1>7, DecisionFor DEF Denied
  <2>3. \A d \in Clients :
            /\ curState[d] \in {"connecting", "sending"} => curState'[d] \in {"connecting", "sending"}
            /\ curState'[d] \in InRequest => curState[d] \in InRequest
            /\ curState'[d] = "requesting" => curState[d] = "requesting"
        BY <1>5, <2>1, <2>2
  <2> QED BY <1>2, <1>4, <2>1, <2>3, PlainSilent
<1>8. CASE Preempted(p) \/ Informed(p)
      BY <1>2, <1>4, <1>8, PlainSilent DEF Preempted, Informed
<1> QED BY <1>3, <1>6, <1>7, <1>8 DEF ProxyStep

\* The initial state.
LEMMA InitRegistry == Init => Registry
<1> SUFFICES ASSUME Init PROVE Registry
    OBVIOUS
<1>1. /\ toRM = <<>> /\ componentList = <<>> /\ rmPc = "select" /\ used = {}
      /\ curState = [c \in Clients |-> "Loaded"] /\ numClients = [p \in Pids |-> 0]
      BY DEF Init, RMInit
<1>2. N = 0 /\ Len(toRM) = 0 /\ DOMAIN toRM = {}
      BY <1>1 DEF N
<1>3. \A d : ~ Here(d)
      BY <1>2 DEF Here, Listed
<1>4. LogAgrees /\ LastCloses
      BY <1>1, <1>2, <1>3, LogStart DEF LogAgrees, LastCloses, Live
<1>5. PipesOpen /\ NobodyWaits /\ EnteredFirst
      BY <1>2 DEF PipesOpen, NobodyWaits, EnteredFirst, None
<1>6. CountCovers
  <2>1. Counted = {}
        BY <1>1 DEF Counted
  <2> QED BY <1>1, <2>1, FS_EmptySet DEF CountCovers, InRequest
<1> QED BY <1>4, <1>5, <1>6 DEF Registry

\* Every step.
LEMMA NextRegistry ==
    ASSUME SimpleUse PROVE Typed /\ Staged /\ Registry /\ [Next]_vars => Registry'
<1> SUFFICES ASSUME Typed, Staged, Registry, [Next]_vars PROVE Registry'
    OBVIOUS
<1>1. CASE ResourceManagerStep \/ WatchThreadStep \/ PolicyManagerStep
      BY <1>1, ServersRegistry
<1>2. ASSUME NEW c \in Clients, ComponentStep(c) PROVE Registry'
      BY <1>2, ConnectsRegistry, RequestRegistry, DeInitRegistry, PlainRegistry DEF ComponentStep
<1>3. ASSUME NEW p \in Pids, ProxyStep(p) PROVE Registry'
      BY <1>3, ProxyRegistry
<1>4. CASE UNCHANGED vars
      BY <1>4, ElsewhereRegistry DEF vars, rmVars
<1> QED BY <1>1, <1>2, <1>3, <1>4 DEF Next

\* Whoever asked and is no longer in RM_SERVER_IN is in the list to stay.
LEMMA TakenListed ==
    ASSUME Typed, Registry, NEW c \in Clients, curState[c] = "requesting", None(toRM, ReqOf(c)) PROVE Here(c)
<1>1. c \in Inst /\ c \in used
      BY Constants DEF Registry, CountCovers, InRequest
<1>2. Live(c, Len(toRM))
      BY <1>1 DEF Registry, LogAgrees
<1>3. DOMAIN toRM = 1..Len(toRM)
      BY DEF Typed, FifosOK
<1>4. \A i \in 1..Len(toRM) : toRM[i] \notin OpenOf(c)
      BY <1>3 DEF Registry, EnteredFirst, None
<1> QED BY <1>2, <1>4 DEF Live, OpenIn

\* In simple use replies can be delivered: the pipe of every entry of
\* componentList is open and leads to the entry's process, although entries
\* share pipes and RM_ClosePipe closes one when the proxy believes that its last
\* component goes; and whoever waits for an answer is in the list.
THEOREM RepliesReachable ==
    ASSUME SimpleUse PROVE Spec => []Reachable
<1>1. OneAtATime
      BY DEF OneAtATime, SimpleUse
<1>2. Typed /\ Registry => Reachable
  <2> SUFFICES ASSUME Typed, Registry PROVE Reachable
      OBVIOUS
  <2>1. \A e \in Entries : e.pipe \in DOMAIN openPipes /\ openPipes[e.pipe] = e.inst.pid
        BY DEF Entries, Registry, PipesOpen
  <2>2. ASSUME NEW c \in Clients, Taken(c) PROVE \E e \in Entries : e.inst = c
    <3>1. curState[c] = "requesting" /\ None(toRM, ReqOf(c))
          BY <2>2 DEF Taken, None, ReqOf, ReqCmd
    <3>2. Listed(c)
          BY <3>1, TakenListed DEF Here
    <3> QED BY <3>2 DEF Listed, Entries
  <2> QED BY <2>1, <2>2 DEF Reachable
<1>3. Spec => []Staged
      BY <1>1, InitStaged, NextStaged, AlwaysTyped, PTL DEF Spec
<1>4. Spec => []Registry
      BY <1>3, InitRegistry, NextRegistry, AlwaysTyped, PTL DEF Spec
<1> QED BY <1>2, <1>4, AlwaysTyped, PTL

-----------------------------------------------------------------------------
(* The policy manager's list.                                              *)

\* In the resource manager's list to stay, or on its way out of the policy
\* manager's.
Owned(d) == Here(d) \/ ~ None(toPM, PMFreeOf(d))
PolicyOnce == \A i, j \in DOMAIN pComponentList : pComponentList[i] = pComponentList[j] => i = j

\* The policy manager is told of every free, and lists nobody twice, so that one
\* PM_FreePolicy is enough.
Freeable ==
    /\ stub_mode = FALSE
    /\ PolicyOnce
    /\ \A d \in Inst : d \in PM!Registered => Owned(d)

\* The policy manager does nothing.
LEMMA PolicyRests ==
    ASSUME Freeable, UNCHANGED pComponentList, stub_mode' = FALSE, \A d \in Inst : Owned(d) => Owned(d)'
    PROVE  Freeable'
<1>1. PolicyOnce'
      BY DEF Freeable, PolicyOnce
<1>2. PM!Registered' = PM!Registered
      BY DEF PM!Registered
<1> QED BY <1>1, <1>2 DEF Freeable

\* What was in the pipe to the policy manager stays when something is added.
LEMMA FreesStay ==
    ASSUME toPM \in Seq(PMCmd), NEW m \in PMCmd, toPM' = Append(toPM, m), NEW T
    PROVE  /\ ~ None(toPM, T) => ~ None(toPM', T)
           /\ m \in T => ~ None(toPM', T)
<1>1. PICK n \in Nat : /\ n = Len(toPM) /\ DOMAIN toPM = 1..n /\ DOMAIN toPM' = 1..(n + 1)
                       /\ toPM'[n + 1] = m /\ \A i \in 1..n : toPM'[i] = toPM[i]
      OBVIOUS
<1>2. n + 1 \in 1..(n + 1) /\ \A i \in 1..n : i \in 1..(n + 1)
      BY <1>1
<1> QED BY <1>1, <1>2 DEF None

\* A turn of main() that finds a command: a free is passed on before the entry
\* goes.
LEMMA CommandFreeable ==
    ASSUME Typed, Registry, Freeable, ReadCommand, UNCHANGED <<pmLocal, clientVars>> PROVE Freeable'
<1> DEFINE cmd == Head(toRM)
<1>0. /\ toRM # <<>> /\ toRM' = Tail(toRM) /\ rmPc = "select" /\ toRM \in Seq(Cmd) /\ ListOK
      /\ toPM \in Seq(PMCmd) /\ stub_mode = FALSE /\ stub_mode' = FALSE /\ UNCHANGED pComponentList
      BY DEF ReadCommand, Typed, FifosOK, Freeable, pmLocal
<1>1. cmd \in Cmd
      BY <1>0
<1> HIDE DEF cmd
<1>2. ASSUME rmPc' = "select", \A d : Listed(d) => Listed(d)',
             toPM' = toPM \/ \E m \in PMCmd : toPM' = Append(toPM, m)
      PROVE  Freeable'
  <2>1. \A d : Here(d) => Here(d)'
        BY <1>2 DEF Here, Removing
  <2>2. \A d : ~ None(toPM, PMFreeOf(d)) => ~ None(toPM', PMFreeOf(d))
    <3>1. CASE toPM' = toPM
          BY <3>1
    <3>2. ASSUME NEW m \in PMCmd, toPM' = Append(toPM, m), NEW d, ~ None(toPM, PMFreeOf(d))
          PROVE  ~ None(toPM', PMFreeOf(d))
          BY <1>0, <3>2, FreesStay
    <3> QED BY <1>2, <3>1, <3>2
  <2>3. \A d \in Inst : Owned(d) => Owned(d)'
        BY <2>1, <2>2 DEF Owned
  <2> QED BY <1>0, <2>3, PolicyRests
<1>3. CASE cmd.RM_Cmd = "RM_RequestResource" /\ HandleRequestResource(cmd)
  <2> DEFINE m == [PM_Cmd |-> "PM_RequestPolicy", inst |-> cmd.inst, param1 |-> cmd.param1]
  <2>1. m \in PMCmd
        BY <1>1 DEF PMCmd, Cmd
  <2>2. rmPc' = "select" /\ componentList' = componentList /\ toPM' = Append(toPM, m)
        BY <1>0, <1>3 DEF HandleRequestResource
  <2> HIDE DEF m
  <2>3. \A d : Listed(d) => Listed(d)'
        BY <2>2 DEF Listed, N
  <2> QED BY <1>2, <2>1, <2>2, <2>3
<1>4. ASSUME rmPc' = "select", UNCHANGED <<toPM, componentList>> PROVE Freeable'
  <2>1. \A d : Listed(d) => Listed(d)'
        BY <1>4 DEF Listed, N
  <2> QED BY <1>2, <1>4, <2>1
<1>5. CASE cmd.RM_Cmd \in {"RM_FreeResource", "RM_FreeAndCloseResource"} /\ HandleFreeResource(cmd)
  <2> DEFINE m == [PM_Cmd |-> "PM_FreePolicy", inst |-> cmd.inst, param1 |-> cmd.param1]
  <2>1. m \in PMCmd /\ m \in PMFreeOf(cmd.inst)
        BY <1>1 DEF PMCmd, Cmd, PMFreeOf
  <2>2. FreePolicy(cmd) /\ rmPc' = "remove" /\ componentList' = componentList
        BY <1>5, Zenon DEF HandleFreeResource
  <2>3. toPM' = Append(toPM, m)
        BY <1>0, <2>2 DEF FreePolicy
  <2>4. cmd_data' = cmd
        BY <1>0, <1>5, FreeingCommand DEF cmd
  <2> HIDE DEF m
  <2>5. \A d : Here(d) /\ d # cmd.inst => Here(d)'
        BY <2>2, <2>4 DEF Here, Listed, Removing, N
  <2>6. \A d : ~ None(toPM, PMFreeOf(d)) \/ d = cmd.inst => ~ None(toPM', PMFreeOf(d))
        BY <1>0, <2>1, <2>3, FreesStay
  <2>7. \A d \in Inst : Owned(d) => Owned(d)'
        BY <2>5, <2>6 DEF Owned
  <2> QED BY <1>0, <2>7, PolicyRests
<1>6. CASE cmd.RM_Cmd = "RM_StateSet" /\ HandleStateSet(cmd)
  <2>1. rmPc' = "select" /\ toPM' = toPM
        BY <1>6 DEF HandleStateSet
  <2>2. CASE UNCHANGED componentList
        BY <1>4, <2>1, <2>2
  <2>3. ASSUME NEW i \in RM_GetListIndex(cmd.inst),
               componentList' = [componentList EXCEPT ![i].state = cmd.param2]
        PROVE  Freeable'
    <3>1. i \in 1..N /\ N \in Nat /\ DOMAIN componentList = 1..N
          BY <1>0, <2>3, ListIndex
    <3>2. \A j \in 1..N : componentList[j] \in Entry
          BY <1>0, EntriesTyped
    <3>3. N' = N
          BY <2>3, <3>1 DEF N
    <3>4. ASSUME NEW j \in 1..N PROVE componentList'[j].inst = componentList[j].inst
      <4>1. componentList'[j] = IF j = i THEN [componentList[j] EXCEPT !.state = cmd.param2] ELSE componentList[j]
            BY <2>3, <3>1
      <4>2. [componentList[j] EXCEPT !.state = cmd.param2].inst = componentList[j].inst
            BY <3>2 DEF Entry
      <4> QED BY <4>1, <4>2
    <3>5. \A d : Listed(d) => Listed(d)'
          BY <3>3, <3>4 DEF Listed
    <3> QED BY <1>2, <2>1, <3>5
  <2> QED BY <1>6, <2>2, <2>3 DEF HandleStateSet
<1>7. ASSUME NEW pipe, RM_AddPipe(cmd, pipe), rmPc' = "select", toPM' = toPM PROVE Freeable'
  <2>1. \A d : Listed(d) => Listed(d)'
        BY <1>0, <1>1, <1>7, PipeAdded
  <2> QED BY <1>2, <1>7, <2>1
<1>8. ASSUME RM_CreatePipe(cmd) PROVE Freeable'
  <2>1. rmPc' = "select" /\ toPM' = toPM /\ \E fd : RM_AddPipe(cmd, fd)
        BY <1>8 DEF RM_CreatePipe
  <2> QED BY <1>7, <2>1
<1>9. CASE RM_ReusePipe(cmd)
  <2>1. RM_CreatePipe(cmd) \/ (rmPc' = "select" /\ toPM' = toPM /\ \E pipe : RM_AddPipe(cmd, pipe))
        BY <1>9 DEF RM_ReusePipe
  <2> QED BY <1>7, <1>8, <2>1
<1>10. CASE IgnoredRMCommand(cmd)
       BY <1>4, <1>10 DEF IgnoredRMCommand
<1>11. CASE /\ cmd.RM_Cmd = "RM_WaitForResource" /\ rmPc' = "select"
            /\ UNCHANGED <<toPM, globalrequest_cmd_data, componentList, openPipes, totalCpu>>
       BY <1>4, <1>11
<1> QED BY <1>3, <1>5, <1>6, <1>8, <1>9, <1>10, <1>11 DEF ReadCommand, cmd

\* The rest of the main thread.
LEMMA MainFreeable ==
    ASSUME Typed, Registry, Freeable, "qosInitFails" \notin Usage, ResourceManagerStep PROVE Freeable'
<1>0. /\ MainNext /\ UNCHANGED <<pmLocal, clientVars>> /\ stub_mode' = FALSE /\ UNCHANGED pComponentList
      /\ toPM \in Seq(PMCmd) /\ ListOK
  <2>1. MainNext /\ UNCHANGED <<pmLocal, clientVars>> /\ ~ stub_mode'
        BY DEF ResourceManagerStep
  <2>2. stub_mode' \in BOOLEAN
    <3>1. stub_mode' = stub_mode \/ stub_mode' = TRUE
          BY <2>1 DEF MainNext, ReadCommand, RemoveFreed, PolicyPreempted, PolicyDenied, PolicyGrantedInRecovery,
                      PolicyGranted, GetQosOk, GetQosDeny, GetQosFails, InitializeQosFails
    <3> QED BY <3>1 DEF Typed, ManagerOK
  <2> QED BY <2>1, <2>2 DEF pmLocal, Typed, FifosOK
<1>1. CASE ReadCommand
      BY <1>0, <1>1, CommandFreeable
<1>2. CASE RemoveFreed
  <2>1. rmPc = "remove" /\ rmPc' = "select" /\ toPM' = toPM /\ RM_RemoveComponentFromList(cmd_data.inst)
        BY <1>2 DEF RemoveFreed
  <2>2. \A d : Listed(d)' <=> Listed(d) /\ d # cmd_data.inst
        BY <1>0, <2>1, EntryRemoved
  <2>3. \A d \in Inst : Owned(d) => Owned(d)'
        BY <2>1, <2>2 DEF Owned, Here, Removing
  <2> QED BY <1>0, <2>3, PolicyRests
<1>3. CASE \/ PolicyPreempted \/ PolicyDenied \/ PolicyGrantedInRecovery \/ PolicyGranted
           \/ GetQosOk \/ GetQosDeny \/ GetQosFails \/ InitializeQosFails
  <2>1. rmPc # "remove" /\ rmPc' # "remove"
        BY <1>3 DEF PolicyPreempted, PolicyDenied, PolicyGrantedInRecovery, PolicyGranted, ReadResponse,
                    GetQosOk, GetQosDeny, GetQosFails, InitializeQosFails
  <2>2. \A d : Here(d)' <=> Here(d)
    <3>1. componentList' = componentList \/ \E inst, status : componentList' = RM_SetStatus(inst, status)
      <4>1. CASE PolicyPreempted
            BY <4>1 DEF PolicyPreempted
      <4>2. CASE PolicyDenied \/ PolicyGrantedInRecovery \/ PolicyGranted
            BY <4>2 DEF PolicyDenied, PolicyGrantedInRecovery, PolicyGranted, Answer
      <4>3. CASE GetQosOk \/ InitializeQosFails
            BY <4>3 DEF GetQosOk, InitializeQosFails, QosGrant, Answer
      <4>4. CASE GetQosDeny \/ GetQosFails
            BY <4>4 DEF GetQosDeny, GetQosFails, QosFreeResources
      <4> QED BY <1>3, <4>1, <4>2, <4>3, <4>4
    <3>2. KeepsEntries
      <4>1. CASE componentList' = componentList
            BY <4>1 DEF KeepsEntries, N
      <4>2. ASSUME NEW inst, NEW status, componentList' = RM_SetStatus(inst, status) PROVE KeepsEntries
            BY <1>0, <4>2, StatusKeeps
      <4> QED BY <3>1, <4>1, <4>2
    <3> QED BY <2>1, <3>2 DEF Here, Removing, Listed, KeepsEntries
  <2>3. \A d : ~ None(toPM, PMFreeOf(d)) => ~ None(toPM', PMFreeOf(d))
    <3>1. CASE toPM' = toPM
          BY <3>1
    <3>2. CASE GetQosDeny \/ GetQosFails
      <4> DEFINE m == [PM_Cmd |-> "PM_FreeResources", inst |-> globalrequest_cmd_data.inst,
                       param1 |-> globalrequest_cmd_data.param1]
      <4>1. rmPc = "qos" /\ toPM' = Append(toPM, m)
            BY <3>2 DEF GetQosDeny, GetQosFails, QosFreeResources
      <4>2. globalrequest_cmd_data \in Req
            BY <4>1 DEF Typed, DataOK
      <4>3. m \in PMCmd
            BY <4>2 DEF PMCmd, Req
      <4> HIDE DEF m
      <4> QED BY <1>0, <4>1, <4>3, FreesStay
    <3> QED BY <1>3, <3>1, <3>2 DEF PolicyPreempted, PolicyDenied, PolicyGrantedInRecovery, PolicyGranted,
                                    GetQosOk, InitializeQosFails, QosGrant
  <2>4. \A d \in Inst : Owned(d) => Owned(d)'
        BY <2>2, <2>3 DEF Owned
  <2> QED BY <1>0, <2>4, PolicyRests
<1> QED BY <1>0, <1>1, <1>2, <1>3 DEF MainNext

\* PM_FreePolicy takes the instance out.
LEMMA PolicyRemoved ==
    ASSUME pComponentList \in Seq(Inst), PolicyOnce, NEW inst, NEW x, PM!RemoveComponentFromList(inst, x)
    PROVE  PolicyOnce' /\ \A d \in PM!Registered' : d \in PM!Registered /\ d # inst
<1>0. PICK n \in Nat : n = Len(pComponentList) /\ DOMAIN pComponentList = 1..n
      OBVIOUS
<1>1. CASE PM!FirstWithInstance(inst) = {}
  <2> DEFINE M == {i \in 1..n : pComponentList[i] = inst}
  <2>1. pComponentList' = pComponentList
        BY <1>1 DEF PM!RemoveComponentFromList
  <2>2. M = {}
    <3> SUFFICES ASSUME M # {} PROVE FALSE
        OBVIOUS
    <3>1. PICK m \in M : \A j \in 1..(m - 1) : j \notin M
          BY FirstMatch, M \in SUBSET (1..n)
    <3>2. \A j \in 1..(m - 1) : j \in 1..n
          OBVIOUS
    <3>3. m \in PM!FirstWithInstance(inst)
          BY <1>0, <3>1, <3>2 DEF PM!FirstWithInstance
    <3> QED BY <1>1, <3>3
  <2>3. inst \notin PM!Registered
        BY <1>0, <2>2 DEF PM!Registered
  <2> QED BY <2>1, <2>3 DEF PolicyOnce, PM!Registered
<1>2. CASE PM!FirstWithInstance(inst) # {}
  <2> DEFINE m == CHOOSE i \in PM!FirstWithInstance(inst) : TRUE
             up(i) == IF i >= m THEN i + 1 ELSE i
  <2>1. m \in 1..n /\ pComponentList[m] = inst
        BY <1>0, <1>2 DEF PM!FirstWithInstance
  <2>2. pComponentList' = PM!Truncate(PM!ShiftUp(pComponentList, m))
        BY <1>2 DEF PM!RemoveComponentFromList
  <2> HIDE DEF m
  <2> DEFINE s == PM!ShiftUp(pComponentList, m)
  <2>3. s = [i \in 1..n |-> IF i >= m /\ i < n THEN pComponentList[i + 1] ELSE pComponentList[i]]
        BY <1>0 DEF PM!ShiftUp
  <2>4. Len(s) = n
        BY <1>0, <2>3
  <2>5. \A i \in 1..(n - 1) : s[i] = pComponentList[up(i)]
        BY <1>0, <2>1, <2>3
  <2> HIDE DEF s
  <2>6. pComponentList' = [i \in 1..(n - 1) |-> s[i]]
        BY <2>2, <2>4 DEF PM!Truncate, s
  <2>7. DOMAIN pComponentList' = 1..(n - 1) /\ \A i \in 1..(n - 1) : pComponentList'[i] = pComponentList[up(i)]
        BY <2>5, <2>6
  <2>8. /\ \A i \in 1..(n - 1) : up(i) \in 1..n /\ up(i) # m
        /\ \A i, j \in 1..(n - 1) : up(i) = up(j) => i = j
        BY <2>1
  <2> HIDE DEF up
  <2>9. PolicyOnce'
        BY <1>0, <2>7, <2>8 DEF PolicyOnce
  <2>10. \A i \in DOMAIN pComponentList' : pComponentList'[i] \in PM!Registered /\ pComponentList'[i] # inst
        BY <1>0, <2>1, <2>7, <2>8 DEF PolicyOnce, PM!Registered
  <2> QED BY <2>9, <2>10 DEF PM!Registered
<1> QED BY <1>1, <1>2

\* A request enters whoever made it, at most.
LEMMA PolicyEntered ==
    ASSUME pComponentList \in Seq(Inst), PolicyOnce, NEW cmd \in AskPM, PM!HandleCommand(cmd)
    PROVE  PolicyOnce' /\ \A d \in PM!Registered' : d \in PM!Registered \/ d = cmd.inst
<1> DEFINE inst == cmd.inst
           x == cmd.param1
<1>0. inst \in Inst /\ cmd.PM_Cmd \in {"PM_RequestPolicy", "PM_FreeResources"}
      BY DEF AskPM, PMCmd
<1>1. PICK n \in Nat : n = Len(pComponentList) /\ DOMAIN pComponentList = 1..n
      OBVIOUS
<1>2. PM!DenyPolicy(inst) \/ \E priority, before : PM!GrantPolicy(inst, x, priority, before)
  <2>1. CASE cmd.PM_Cmd = "PM_RequestPolicy"
    <3>1. PM!HandleRequestPolicy(inst, x)
          BY <2>1 DEF PM!HandleCommand
    <3> QED BY <3>1 DEF PM!HandleRequestPolicy, PM!FirstRequestGranted, PM!FirstRequestDenied,
                 PM!GrantedByActiveCombination, PM!GrantedByCoexistence, PM!GrantedByPreemption,
                 PM!RequestDenied
  <2>2. CASE cmd.PM_Cmd = "PM_FreeResources"
    <3>1. PM!HandleFreeResources(inst, x)
          BY <2>2 DEF PM!HandleCommand
    <3> QED BY <3>1 DEF PM!HandleFreeResources
  <2> QED BY <1>0, <2>1, <2>2
<1> HIDE DEF inst, x
<1>3. pComponentList' = pComponentList \/ (inst \notin PM!Registered /\ pComponentList' = Append(pComponentList, inst))
      BY <1>2 DEF PM!DenyPolicy, PM!GrantPolicy, PM!Register
<1>4. CASE pComponentList' = pComponentList
      BY <1>4 DEF PolicyOnce, PM!Registered
<1>5. CASE inst \notin PM!Registered /\ pComponentList' = Append(pComponentList, inst)
  <2>1. /\ DOMAIN pComponentList' = 1..(n + 1) /\ pComponentList'[n + 1] = inst
        /\ \A i \in 1..n : pComponentList'[i] = pComponentList[i]
        BY <1>0, <1>1, <1>5
  <2>2. \A i : i \in 1..(n + 1) <=> i \in 1..n \/ i = n + 1
        BY <1>1
  <2>3. \A i \in 1..n : pComponentList[i] # inst
        BY <1>1, <1>5 DEF PM!Registered
  <2>4. PolicyOnce'
        BY <1>1, <2>1, <2>2, <2>3 DEF PolicyOnce
  <2>5. \A i \in DOMAIN pComponentList' : pComponentList'[i] \in PM!Registered \/ pComponentList'[i] = inst
        BY <1>1, <2>1, <2>2 DEF PM!Registered
  <2> QED BY <2>4, <2>5 DEF PM!Registered, inst
<1> QED BY <1>3, <1>4, <1>5

\* The policy manager takes a command: a free removes its instance, and whoever
\* is entered is waiting for the decision and so in the resource manager's list.
LEMMA PolicyStepFreeable ==
    ASSUME Typed, Staged, Registry, Freeable, PolicyManagerStep PROVE Freeable'
<1> DEFINE cmd == Head(toPM)
<1>0. PICK st \in Stages : Stage(st)
      BY DEF Staged
<1>1. /\ toPM # <<>> /\ toPM \in Seq(PMCmd) /\ toPM' = Tail(toPM) /\ PM!HandleCommand(cmd)
      /\ pComponentList \in Seq(Inst)
      BY DEF PolicyManagerStep, Typed, FifosOK
<1>2. cmd \in PMCmd
      BY <1>1
<1>3. UNCHANGED <<toRM, componentList, cmd_data, rmPc, stub_mode>>
      BY DEF PolicyManagerStep
<1>4. \A d : Here(d)' <=> Here(d)
      BY <1>3 DEF Here, Listed, Removing, N
<1>5. \A d : ~ None(toPM, PMFreeOf(d)) => ~ None(toPM', PMFreeOf(d)) \/ cmd \in PMFreeOf(d)
  <2>1. PICK n \in Nat : /\ n > 0 /\ DOMAIN toPM = 1..n /\ DOMAIN toPM' = 1..(n - 1)
                         /\ Head(toPM) = toPM[1] /\ \A i \in 1..(n - 1) : toPM'[i] = toPM[i + 1]
        BY <1>1
  <2>2. ASSUME NEW d, ~ None(toPM, PMFreeOf(d)), cmd \notin PMFreeOf(d) PROVE ~ None(toPM', PMFreeOf(d))
    <3>1. PICK i \in 1..n : toPM[i] \in PMFreeOf(d)
          BY <2>1, <2>2 DEF None
    <3>2. i # 1
          BY <2>1, <2>2, <3>1
    <3>3. i - 1 \in 1..(n - 1) /\ i - 1 + 1 = i
          BY <2>1, <3>2
    <3>4. toPM'[i - 1] \in PMFreeOf(d)
          BY <2>1, <3>1, <3>3
    <3> QED BY <2>1, <3>3, <3>4 DEF None
  <2> QED BY <2>2
<1>6. CASE cmd.PM_Cmd = "PM_FreePolicy"
  <2>1. PM!RemoveComponentFromList(cmd.inst, cmd.param1)
        BY <1>1, <1>6 DEF PM!HandleCommand, PM!HandleFreePolicy
  <2> HIDE DEF cmd
  <2>2. PolicyOnce' /\ \A d \in PM!Registered' : d \in PM!Registered /\ d # cmd.inst
        BY <1>1, <2>1, PolicyRemoved DEF Freeable
  <2>3. \A d : d # cmd.inst => cmd \notin PMFreeOf(d)
        BY DEF PMFreeOf
  <2>4. \A d \in Inst : Owned(d) /\ d # cmd.inst => Owned(d)'
        BY <1>4, <1>5, <2>3 DEF Owned
  <2> QED BY <1>3, <2>2, <2>4 DEF Freeable
<1>7. CASE cmd.PM_Cmd # "PM_FreePolicy"
  <2>1. cmd \in AskPM /\ cmd \in AskOf(cmd.inst) /\ cmd.inst \in Inst
    <3>1. cmd \in AskPM
          BY <1>2, <1>7 DEF AskPM
    <3> QED BY <1>2, <3>1 DEF AskOf, PMCmd
  <2> HIDE DEF cmd
  <2>2. st = "pm"
    <3>1. st = "pm" \/ None(toPM, AskPM)
          BY <1>0 DEF Stage, PmSide
    <3> QED BY <1>1, <2>1, <3>1, Taking DEF cmd
  <2>3. cmd.inst = Asker
    <3>1. cmd.inst = Asker \/ None(toPM, AskOf(cmd.inst))
          BY <1>0, <2>1, <2>2 DEF Stage, PmSide
    <3> QED BY <1>1, <2>1, <3>1, Taking DEF cmd
  <2>4. Here(cmd.inst)
    <3>1. Requesting(Asker) /\ None(toRM, ReqCmd)
          BY <1>0, <2>2 DEF Stage, RmSide, WaitSide, Asked
    <3>2. None(toRM, ReqOf(Asker))
          BY <3>1 DEF None, ReqOf
    <3> QED BY <2>3, <3>1, <3>2, TakenListed DEF Requesting
  <2>5. PolicyOnce' /\ \A d \in PM!Registered' : d \in PM!Registered \/ d = cmd.inst
        BY <1>1, <2>1, PolicyEntered DEF Freeable
  <2>6. \A d : cmd \notin PMFreeOf(d)
        BY <1>7 DEF PMFreeOf
  <2>7. \A d \in Inst : Owned(d) => Owned(d)'
        BY <1>4, <1>5, <2>6 DEF Owned
  <2>8. Owned(cmd.inst)
        BY <2>4 DEF Owned
  <2> QED BY <1>3, <2>1, <2>5, <2>7, <2>8 DEF Freeable
<1> QED BY <1>6, <1>7

\* Every step.
LEMMA NextFreeable ==
    ASSUME SimpleUse, "qosInitFails" \notin Usage
    PROVE  Typed /\ Staged /\ Registry /\ Freeable /\ [Next]_vars => Freeable'
<1> SUFFICES ASSUME Typed, Staged, Registry, Freeable, [Next]_vars PROVE Freeable'
    OBVIOUS
<1>1. CASE ResourceManagerStep
      BY <1>1, MainFreeable
<1>2. CASE PolicyManagerStep
      BY <1>2, PolicyStepFreeable
<1>3. ASSUME UNCHANGED <<pComponentList, stub_mode, toPM, componentList, rmPc>>,
             rmPc # "remove" \/ cmd_data' = cmd_data
      PROVE  Freeable'
  <2>1. \A d \in Inst : Owned(d) => Owned(d)'
        BY <1>3 DEF Owned, Here, Listed, Removing, N
  <2> QED BY <1>3, <2>1, PolicyRests DEF Freeable
<1>4. CASE WatchThreadStep
  <2>1. ~ Fault /\ ~ WatchFill /\ ~ WatchWrite /\ ~ WatchLoopEnds
    <3>1. watch.faults \in Nat /\ NoFault
          BY DEF Typed, ManagerOK, Watch, Staged
    <3> QED BY <3>1 DEF Fault, WatchFill, WatchStep, WatchWrite, WatchLoopEnds, NoFault, SimpleUse
  <2> QED BY <1>3, <1>4, <2>1 DEF WatchThreadStep, WatchNext, WatchPoll, DspReopened, DspLost, MainUnchanged,
                                  pmLocal
<1>5. ASSUME NEW c \in Clients, ComponentStep(c) PROVE Freeable'
  <2>1. UNCHANGED <<pComponentList, stub_mode, toPM, componentList, rmPc, cmd_data>>
        BY <1>5 DEF ComponentStep, RequestConnects, PipeOpened, RequestResource, StateSet, PreemptedGoesIdle,
                    GoesLoaded, DeInit, ForeignCommand, RMUnchangedButIn, rmVars, pmLocal
  <2> QED BY <1>3, <2>1
<1>6. ASSUME NEW p \in Pids, ProxyStep(p) PROVE Freeable'
  <2>1. PICK status : ReadReply(p, status)
        BY <1>6 DEF ProxyStep, Granted, Denied, Preempted, Informed, FatalError, FatalErrorIgnored
  <2> QED BY <1>3, <2>1 DEF ReadReply, pmLocal
<1>7. CASE UNCHANGED vars
      BY <1>3, <1>7 DEF vars, rmVars, pmLocal
<1> QED BY <1>1, <1>2, <1>4, <1>5, <1>6, <1>7 DEF Next

\* In simple use, with a DSP that InitializeQos reaches, the policy manager's
\* list does not outlive the resource manager's: whoever is registered there is
\* in componentList, or the PM_FreePolicy that HandleFreeResource wrote for it
\* is on its way.
THEOREM PolicyListFreeable ==
    ASSUME SimpleUse, "qosInitFails" \notin Usage PROVE Spec => []PolicyFreeable
<1>1. OneAtATime
      BY DEF OneAtATime, SimpleUse
<1>2. Init => Freeable
  <2> SUFFICES ASSUME Init PROVE Freeable
      OBVIOUS
  <2>1. stub_mode = FALSE /\ pComponentList = <<>>
        BY DEF Init, RMInit, PM!PMInit
  <2>2. DOMAIN pComponentList = {}
        BY <2>1
  <2> QED BY <2>1, <2>2 DEF Freeable, PolicyOnce, PM!Registered
<1>3. Typed /\ Freeable => PolicyFreeable
  <2> SUFFICES ASSUME Typed, Freeable, NEW i \in DOMAIN pComponentList,
                      ~ \E e \in Entries : e.inst = pComponentList[i]
               PROVE  \E k \in DOMAIN toPM : /\ toPM[k].inst = pComponentList[i]
                                             /\ toPM[k].PM_Cmd = "PM_FreePolicy"
      BY DEF PolicyFreeable
  <2>1. pComponentList[i] \in Inst /\ pComponentList[i] \in PM!Registered
        BY DEF Typed, FifosOK, PM!Registered
  <2>2. ~ Listed(pComponentList[i])
        BY DEF Listed, Entries
  <2>3. ~ None(toPM, PMFreeOf(pComponentList[i]))
        BY <2>1, <2>2 DEF Freeable, Owned, Here
  <2> QED BY <2>3 DEF None, PMFreeOf
<1>4. Spec => []Staged
      BY <1>1, InitStaged, NextStaged, AlwaysTyped, PTL DEF Spec
<1>5. Spec => []Registry
      BY <1>4, InitRegistry, NextRegistry, AlwaysTyped, PTL DEF Spec
<1>6. Spec => []Freeable
      BY <1>2, <1>4, <1>5, NextFreeable, AlwaysTyped, PTL DEF Spec
<1> QED BY <1>3, <1>6, AlwaysTyped, PTL

-----------------------------------------------------------------------------
(* Unsigned counters: sums modulo a word.                                  *)

\* Quotient and remainder.
LEMMA DivMod ==
    ASSUME NEW w \in Nat, w > 0, NEW a \in Int
    PROVE  /\ a \div w \in Int /\ a % w \in 0..(w - 1)
           /\ a = w * (a \div w) + (a % w)
<1>1. a \div w \in Int
      OBVIOUS
<1>2. a % w \in 0..(w - 1)
      OBVIOUS
<1>3. a = w * (a \div w) + (a % w)
      OBVIOUS
<1> QED BY <1>1, <1>2, <1>3

\* A multiple of w other than 0 is at least w away from it.
LEMMA Scaled ==
    ASSUME NEW w \in Nat, w > 0, NEW q \in Int, q # 0
    PROVE  w * q >= w \/ w * q <= -w
<1>1. CASE q >= 1
  <2>1. w * q = w + w * (q - 1)
        OBVIOUS
  <2>2. w * (q - 1) >= 0
        BY <1>1
  <2> QED BY <2>1, <2>2
<1>2. CASE q <= -1
  <2>1. w * q = w * (q + 1) - w
        OBVIOUS
  <2>2. w * (q + 1) <= 0
        BY <1>2
  <2> QED BY <2>1, <2>2
<1> QED BY <1>1, <1>2

\* The remainder is determined.
LEMMA SameRest ==
    ASSUME NEW w \in Nat, w > 0, NEW q \in Int, NEW r \in 0..(w - 1),
           NEW p \in Int, NEW s \in 0..(w - 1), w * q + r = w * p + s
    PROVE  r = s
<1>1. w * (q - p) = s - r
      OBVIOUS
<1>2. CASE q - p = 0
      BY <1>1, <1>2
<1>3. CASE q - p # 0
      BY <1>1, <1>3, Scaled
<1> QED BY <1>2, <1>3

\* Adding before or after a wrap makes no difference to the wrapped result.
LEMMA ModSum ==
    ASSUME NEW w \in Nat, w > 0, NEW a \in Int, NEW d \in Int
    PROVE  ((a % w) + d) % w = (a + d) % w
<1>1. PICK q \in Int, r \in 0..(w - 1) : a % w = r /\ a = w * q + r
      BY DivMod
<1>2. PICK p \in Int, s \in 0..(w - 1) : (r + d) % w = s /\ r + d = w * p + s
  <2> DEFINE b == r + d
  <2>1. b \in Int
        OBVIOUS
  <2> HIDE DEF b
  <2>2. \E p \in Int, s \in 0..(w - 1) : b % w = s /\ b = w * p + s
        BY <2>1, DivMod
  <2> QED BY <2>2 DEF b
<1>3. PICK u \in Int, t \in 0..(w - 1) : (a + d) % w = t /\ a + d = w * u + t
  <2> DEFINE b == a + d
  <2>1. b \in Int
        OBVIOUS
  <2> HIDE DEF b
  <2>2. \E u \in Int, t \in 0..(w - 1) : b % w = t /\ b = w * u + t
        BY <2>1, DivMod
  <2> QED BY <2>2 DEF b
<1>4. w * u + t = w * (q + p) + s
      BY <1>1, <1>2, <1>3
<1>5. t = s
      BY <1>4, SameRest
<1> QED BY <1>1, <1>2, <1>3, <1>5

-----------------------------------------------------------------------------
(* Sums over a list.                                                       *)

\* The partial sums of the first n values of f.
Sums(g, f, n) == /\ g \in [0..n -> Int] /\ g[0] = 0
                 /\ \A k \in 1..n : g[k] = g[k - 1] + f[k]

\* Integers have partial sums.
LEMMA SumsExist ==
    ASSUME NEW n \in Nat, NEW f, \A k \in 1..n : f[k] \in Int
    PROVE  \E g : Sums(g, f, n)
<1> DEFINE Bad == {m \in 0..n : ~ \E g : Sums(g, f, m)}
<1> SUFFICES ASSUME Bad # {} PROVE FALSE
    <2>1. n \in 0..n
          OBVIOUS
    <2> QED BY <2>1
<1>1. PICK m \in Bad : \A j \in Bad : m <= j
      BY LeastElement, Bad \in SUBSET Nat
<1>2. m \in 0..n /\ ~ \E g : Sums(g, f, m)
      BY <1>1
<1>3. m # 0
  <2>1. Sums([k \in 0..0 |-> 0], f, 0)
        BY DEF Sums
  <2> QED BY <1>2, <2>1
<1>4. m - 1 \in 0..n /\ m - 1 \notin Bad /\ m \in 1..n
      BY <1>1, <1>2, <1>3
<1>5. PICK g : Sums(g, f, m - 1)
      BY <1>4
<1> HIDE DEF Bad
<1> DEFINE h == [k \in 0..m |-> IF k = m THEN g[m - 1] + f[m] ELSE g[k]]
<1>6. /\ \A k \in 0..m : k # m => k \in 0..(m - 1)
      /\ g[m - 1] \in Int /\ f[m] \in Int /\ g[0] = 0 /\ \A k \in 0..(m - 1) : g[k] \in Int
      /\ \A k \in 1..(m - 1) : g[k] = g[k - 1] + f[k]
      BY <1>4, <1>5 DEF Sums
<1>7. h \in [0..m -> Int] /\ h[0] = 0
      BY <1>4, <1>6
<1>8. ASSUME NEW k \in 1..m PROVE h[k] = h[k - 1] + f[k]
  <2>1. k \in 0..m /\ k - 1 \in 0..m /\ k - 1 # m
        BY <1>4
  <2>2. h[k - 1] = g[k - 1]
        BY <2>1
  <2>3. CASE k = m
        BY <2>1, <2>2, <2>3
  <2>4. CASE k # m
    <3>1. k \in 1..(m - 1)
          BY <1>4, <2>4
    <3> QED BY <1>6, <2>1, <2>2, <2>4, <3>1
  <2> QED BY <2>3, <2>4
<1>9. Sums(h, f, m)
  <2> HIDE DEF h
  <2> QED BY <1>7, <1>8 DEF Sums
<1> QED BY <1>2, <1>9

\* They have only one.
LEMMA SumsUnique ==
    ASSUME NEW n \in Nat, NEW f, NEW g, NEW h, Sums(g, f, n), Sums(h, f, n)
    PROVE  g[n] = h[n]
<1> DEFINE Bad == {m \in 0..n : g[m] # h[m]}
<1> SUFFICES ASSUME Bad # {} PROVE FALSE
    <2>1. n \in 0..n
          OBVIOUS
    <2> QED BY <2>1
<1>1. PICK m \in Bad : \A j \in Bad : m <= j
      BY LeastElement, Bad \in SUBSET Nat
<1>2. m \in 0..n /\ m # 0 /\ g[m] # h[m]
      BY <1>1 DEF Sums
<1>3. m - 1 \in 0..n /\ m - 1 \notin Bad /\ m \in 1..n
      BY <1>1, <1>2
<1>4. g[m - 1] = h[m - 1]
      BY <1>3
<1> QED BY <1>2, <1>3, <1>4 DEF Sums

\* Total is the last of them, which holds the recursion of its definition.
LEMMA TotalIs ==
    ASSUME NEW n \in Nat, NEW f, \A k \in 1..n : f[k] \in Int, NEW g, Sums(g, f, n)
    PROVE  Total(f, n) = g[n]
<1> DEFINE P(u) == u = [k \in 0..n |-> IF k = 0 THEN 0 ELSE u[k - 1] + f[k]]
<1>1. P(g)
  <2>1. \A k \in 0..n : g[k] = IF k = 0 THEN 0 ELSE g[k - 1] + f[k]
    <3>1. \A k \in 0..n : k # 0 => k \in 1..n
          OBVIOUS
    <3> QED BY <3>1 DEF Sums
  <2>2. g = [k \in 0..n |-> g[k]]
        BY DEF Sums
  <2> QED BY <2>1, <2>2
<1> DEFINE up == CHOOSE u : P(u)
<1>2. P(up)
      BY <1>1
<1>3. Total(f, n) = up[n]
      BY DEF Total
<1>4. Sums(up, f, n)
  <2> DEFINE Bad == {m \in 0..n : up[m] \notin Int}
  <2>0. \A k \in 0..n : up[k] = IF k = 0 THEN 0 ELSE up[k - 1] + f[k]
    <3> HIDE DEF up
    <3> QED BY <1>2
  <2>00. up = [k \in 0..n |-> up[k]]
    <3> HIDE DEF up
    <3> QED BY <1>2
  <2> HIDE DEF up
  <2>1. ASSUME Bad # {} PROVE FALSE
    <3>1. PICK m \in Bad : \A j \in Bad : m <= j
          BY <2>1, LeastElement, Bad \in SUBSET Nat
    <3>2. m \in 0..n /\ up[m] \notin Int
          BY <3>1
    <3>3. m # 0
          BY <2>0, <3>2
    <3>4. m - 1 \in 0..n /\ m - 1 \notin Bad /\ m \in 1..n
          BY <3>1, <3>2, <3>3
    <3>5. up[m - 1] \in Int /\ f[m] \in Int /\ up[m] = up[m - 1] + f[m]
          BY <2>0, <3>4, <3>3, <3>2
    <3> QED BY <3>2, <3>5
  <2>2. up \in [0..n -> Int]
        BY <2>1, <2>00
  <2>3. \A k \in 1..n : k \in 0..n /\ k # 0
        OBVIOUS
  <2> QED BY <2>0, <2>2, <2>3 DEF Sums
<1> HIDE DEF up
<1> QED BY <1>3, <1>4, SumsUnique

\* So there are partial sums that end in the total.
LEMMA TotalSums ==
    ASSUME NEW n \in Nat, NEW f, \A k \in 1..n : f[k] \in Int
    PROVE  Total(f, n) \in Int /\ \E g : Sums(g, f, n) /\ Total(f, n) = g[n]
<1>1. PICK g : Sums(g, f, n)
      BY SumsExist
<1>2. Total(f, n) = g[n]
      BY <1>1, TotalIs
<1>3. g[n] \in Int
      BY <1>1 DEF Sums
<1> QED BY <1>1, <1>2, <1>3

\* One value changes.
LEMMA TotalChanged ==
    ASSUME NEW n \in Nat, NEW f, NEW h, NEW i \in 1..n,
           \A k \in 1..n : f[k] \in Int /\ h[k] \in Int /\ (k # i => h[k] = f[k])
    PROVE  Total(h, n) = Total(f, n) + (h[i] - f[i])
<1>1. PICK g : Sums(g, f, n) /\ Total(f, n) = g[n]
      BY TotalSums
<1> DEFINE e == h[i] - f[i]
           u == [k \in 0..n |-> IF k < i THEN g[k] ELSE g[k] + e]
<1>2. /\ e \in Int /\ i \in Nat /\ i > 0 /\ g \in [0..n -> Int] /\ g[0] = 0 /\ h[i] = f[i] + e
      /\ \A k \in 1..n : g[k] = g[k - 1] + f[k]
      BY <1>1 DEF Sums
<1> HIDE DEF e
<1>3. u \in [0..n -> Int] /\ u[0] = 0 /\ u[n] = g[n] + e
      BY <1>2
<1>4. ASSUME NEW k \in 1..n PROVE u[k] = u[k - 1] + h[k]
  <2>1. /\ k \in 0..n /\ k - 1 \in 0..n /\ g[k] = g[k - 1] + f[k] /\ g[k] \in Int /\ g[k - 1] \in Int
        /\ f[k] \in Int /\ h[k] \in Int
        BY <1>2
  <2>2. CASE k < i
        BY <1>2, <2>1, <2>2
  <2>3. CASE k = i
    <3>1. u[k - 1] = g[k - 1] /\ u[k] = g[k] + e
      <4>1. k - 1 < i /\ ~ (k < i)
            BY <1>2, <2>3
      <4> QED BY <2>1, <4>1
    <3> HIDE DEF u
    <3> QED BY <1>2, <2>1, <2>3, <3>1
  <2>4. CASE k > i
    <3>1. u[k - 1] = g[k - 1] + e /\ u[k] = g[k] + e /\ h[k] = f[k]
      <4>1. ~ (k - 1 < i) /\ ~ (k < i) /\ k # i
            BY <1>2, <2>4
      <4> QED BY <2>1, <4>1
    <3> HIDE DEF u
    <3> QED BY <1>2, <2>1, <3>1
  <2> QED BY <2>2, <2>3, <2>4
<1> HIDE DEF u
<1>5. Sums(u, h, n)
      BY <1>3, <1>4 DEF Sums
<1>6. Total(h, n) = u[n]
      BY <1>5, TotalIs
<1> QED BY <1>1, <1>3, <1>6 DEF e

\* No value changes.
LEMMA TotalSame ==
    ASSUME NEW n \in Nat, NEW f, NEW h, \A k \in 1..n : f[k] \in Int /\ h[k] = f[k]
    PROVE  Total(h, n) = Total(f, n)
<1>1. PICK g : Sums(g, f, n) /\ Total(f, n) = g[n]
      BY TotalSums
<1>2. Sums(g, h, n)
      BY <1>1 DEF Sums
<1> QED BY <1>1, <1>2, TotalIs

\* One value is added at the end.
LEMMA TotalLonger ==
    ASSUME NEW n \in Nat, NEW f, NEW h, \A k \in 1..n : f[k] \in Int /\ h[k] = f[k], h[n + 1] \in Int
    PROVE  Total(h, n + 1) = Total(f, n) + h[n + 1]
<1>1. PICK g : Sums(g, f, n) /\ Total(f, n) = g[n]
      BY TotalSums
<1> DEFINE u == [k \in 0..(n + 1) |-> IF k <= n THEN g[k] ELSE g[n] + h[n + 1]]
<1>2. g \in [0..n -> Int] /\ g[0] = 0 /\ \A k \in 1..n : g[k] = g[k - 1] + f[k]
      BY <1>1 DEF Sums
<1>3. u \in [0..(n + 1) -> Int] /\ u[0] = 0 /\ u[n + 1] = g[n] + h[n + 1] /\ u[n] = g[n]
      BY <1>2
<1>4. ASSUME NEW k \in 1..(n + 1) PROVE u[k] = u[k - 1] + h[k]
  <2>1. CASE k = n + 1
    <3>1. k - 1 = n
          BY <2>1
    <3> HIDE DEF u
    <3> QED BY <1>3, <2>1, <3>1
  <2>2. CASE k # n + 1
    <3>1. k \in 1..n /\ u[k] = g[k] /\ u[k - 1] = g[k - 1]
          BY <1>2, <2>2
    <3> HIDE DEF u
    <3> QED BY <1>2, <3>1
  <2> QED BY <2>1, <2>2
<1> HIDE DEF u
<1>5. n + 1 \in Nat /\ Sums(u, h, n + 1)
      BY <1>3, <1>4 DEF Sums
<1>6. \A k \in 1..(n + 1) : h[k] \in Int
  <2>1. \A k \in 1..(n + 1) : k \in 1..n \/ k = n + 1
        OBVIOUS
  <2> QED BY <2>1
<1>7. Total(h, n + 1) = u[n + 1]
      BY <1>5, <1>6, TotalIs
<1> QED BY <1>1, <1>3, <1>7

\* A value that is zero is taken out.
LEMMA TotalShorter ==
    ASSUME NEW n \in Nat, NEW f, NEW h, NEW i \in 1..(n + 1), \A k \in 1..(n + 1) : f[k] \in Int, f[i] = 0,
           \A k \in 1..n : h[k] = IF k < i THEN f[k] ELSE f[k + 1]
    PROVE  Total(h, n) = Total(f, n + 1)
<1>0. n + 1 \in Nat
      OBVIOUS
<1>1. PICK g : Sums(g, f, n + 1) /\ Total(f, n + 1) = g[n + 1]
      BY <1>0, TotalSums
<1> DEFINE u == [k \in 0..n |-> IF k < i THEN g[k] ELSE g[k + 1]]
<1>2. g \in [0..(n + 1) -> Int] /\ g[0] = 0 /\ \A k \in 1..(n + 1) : g[k] = g[k - 1] + f[k]
      BY <1>1 DEF Sums
<1>3. g[i] = g[i - 1] /\ i - 1 \in 0..n
      BY <1>2
<1>4. u \in [0..n -> Int] /\ u[0] = 0 /\ u[n] = g[n + 1]
  <2>1. \A k \in 0..n : k \in 0..(n + 1) /\ k + 1 \in 0..(n + 1)
        OBVIOUS
  <2>2. u \in [0..n -> Int]
        BY <1>2, <2>1
  <2>3. u[0] = 0
        BY <1>2
  <2>4. u[n] = g[n + 1]
    <3>1. CASE n < i
          BY <1>3, <3>1, i = n + 1, n + 1 - 1 = n
    <3>2. CASE ~ (n < i)
          BY <3>2
    <3> QED BY <3>1, <3>2
  <2> QED BY <2>2, <2>3, <2>4
<1>5. ASSUME NEW k \in 1..n PROVE u[k] = u[k - 1] + h[k]
  <2>0. /\ k \in 0..n /\ k - 1 \in 0..n /\ k + 1 \in 1..(n + 1) /\ k \in 1..(n + 1) /\ k + 1 - 1 = k /\ k - 1 + 1 = k
        OBVIOUS
  <2>1. g[k] = g[k - 1] + f[k] /\ g[k + 1] = g[k] + f[k + 1]
        BY <1>2, <2>0
  <2>2. CASE k < i
    <3>1. u[k] = g[k] /\ u[k - 1] = g[k - 1] /\ h[k] = f[k]
          BY <2>0, <2>2
    <3> HIDE DEF u
    <3> QED BY <2>1, <3>1
  <2>3. CASE k = i
    <3>1. u[k] = g[k + 1] /\ u[k - 1] = g[k - 1] /\ h[k] = f[k + 1]
          BY <2>0, <2>3
    <3> HIDE DEF u
    <3> QED BY <1>3, <2>1, <2>3, <3>1
  <2>4. CASE k > i
    <3>1. u[k] = g[k + 1] /\ u[k - 1] = g[k] /\ h[k] = f[k + 1]
          BY <2>0, <2>4
    <3> HIDE DEF u
    <3> QED BY <2>1, <3>1
  <2> QED BY <2>2, <2>3, <2>4
<1> HIDE DEF u
<1>6. Sums(u, h, n)
      BY <1>4, <1>5 DEF Sums
<1>7. \A k \in 1..n : h[k] \in Int
  <2>1. \A k \in 1..n : k \in 1..(n + 1) /\ k + 1 \in 1..(n + 1)
        OBVIOUS
  <2> QED BY <2>1
<1>8. Total(h, n) = u[n]
      BY <1>6, <1>7, TotalIs
<1> QED BY <1>1, <1>4, <1>8

-----------------------------------------------------------------------------
(* The CPU totals of the components that execute.                          *)

\* What entry e of a list adds to the total of type t, and the sum over a list.
ShareOf(e, t) ==
    IF /\ e.state = OMX_StateExecuting
       /\ KindOf[e.inst] \in DOMAIN TypeOf /\ TypeOf[KindOf[e.inst]] = t
    THEN e.cpu ELSE 0
SharesOf(l, t) == [i \in 1..Len(l) |-> ShareOf(l[i], t)]
ExecSum(l, t)  == Total(SharesOf(l, t), Len(l))

\* The shares of a list of entries are numbers.
LEMMA ShareNumbers ==
    ASSUME NEW l \in Seq(Entry), NEW t
    PROVE  /\ Len(l) \in Nat /\ \A i \in 1..Len(l) : SharesOf(l, t)[i] = ShareOf(l[i], t) /\ ShareOf(l[i], t) \in Int
           /\ ExecSum(l, t) \in Int
<1>1. \A e \in Entry : ShareOf(e, t) \in Int
  <2>1. \A e \in Entry : e.cpu \in Int
        BY Constants DEF Entry, Word
  <2> QED BY <2>1 DEF ShareOf
<1>2. Len(l) \in Nat /\ \A i \in 1..Len(l) : l[i] \in Entry
      OBVIOUS
<1>3. \A i \in 1..Len(l) : SharesOf(l, t)[i] = ShareOf(l[i], t) /\ ShareOf(l[i], t) \in Int
      BY <1>1, <1>2 DEF SharesOf
<1> QED BY <1>2, <1>3, TotalSums DEF ExecSum

\* CpuAccounted in these terms, before and after a step.
LEMMA AccountedBy ==
    /\ CpuAccounted <=> \A t \in Types : totalCpu[t] = ExecSum(componentList, t) % Wrap
    /\ CpuAccounted' <=> \A t \in Types : totalCpu'[t] = ExecSum(componentList', t) % Wrap
<1>1. \A t : Shares(t) = SharesOf(componentList, t)
      BY DEF Shares, SharesOf, Busy, ShareOf, N
<1>2. \A t : Shares(t)' = SharesOf(componentList', t)
      BY DEF Shares, SharesOf, Busy, ShareOf, N
<1>3. N = Len(componentList) /\ N' = Len(componentList')
      BY DEF N
<1>4. CpuAccounted <=> \A t \in Types : totalCpu[t] = ExecSum(componentList, t) % Wrap
      BY <1>1, <1>3 DEF CpuAccounted, ExecSum
<1>5. CpuAccounted' <=> \A t \in Types : totalCpu'[t] = ExecSum(componentList', t) % Wrap
      BY <1>2, <1>3 DEF CpuAccounted, ExecSum
<1> QED BY <1>4, <1>5

\* Lists whose entries have the same shares.
LEMMA ExecSumSame ==
    ASSUME NEW l \in Seq(Entry), NEW m \in Seq(Entry), NEW t, Len(m) = Len(l),
           \A i \in 1..Len(l) : ShareOf(m[i], t) = ShareOf(l[i], t)
    PROVE  ExecSum(m, t) = ExecSum(l, t)
<1>1. \A i \in 1..Len(l) : SharesOf(l, t)[i] \in Int /\ SharesOf(m, t)[i] = SharesOf(l, t)[i]
      BY ShareNumbers
<1> QED BY <1>1, ShareNumbers, TotalSame DEF ExecSum

\* An entry is added that does not execute.
LEMMA ExecSumAdded ==
    ASSUME NEW l \in Seq(Entry), NEW e \in Entry, NEW t, ShareOf(e, t) = 0
    PROVE  ExecSum(Append(l, e), t) = ExecSum(l, t)
<1> DEFINE m == Append(l, e)
           n == Len(l)
<1>1. m \in Seq(Entry) /\ Len(m) = n + 1 /\ m[n + 1] = e /\ \A i \in 1..n : m[i] = l[i]
      OBVIOUS
<1> HIDE DEF m
<1>2. n \in Nat /\ \A i \in 1..n : SharesOf(l, t)[i] \in Int /\ SharesOf(l, t)[i] = ShareOf(l[i], t)
      BY ShareNumbers
<1>3. \A i \in 1..(n + 1) : SharesOf(m, t)[i] = ShareOf(m[i], t)
      BY <1>1, ShareNumbers
<1>4. ExecSum(l, t) \in Int
      BY ShareNumbers
<1> HIDE DEF n
<1>5. SharesOf(m, t)[n + 1] = 0 /\ \A i \in 1..n : SharesOf(m, t)[i] = SharesOf(l, t)[i]
      BY <1>1, <1>2, <1>3
<1>6. Total(SharesOf(m, t), n + 1) = Total(SharesOf(l, t), n) + 0
  <2>1. \A i \in 1..n : SharesOf(l, t)[i] \in Int /\ SharesOf(m, t)[i] = SharesOf(l, t)[i]
        BY <1>2, <1>5
  <2>2. SharesOf(m, t)[n + 1] \in Int
        BY <1>5
  <2>3. Total(SharesOf(m, t), n + 1) = Total(SharesOf(l, t), n) + SharesOf(m, t)[n + 1]
        BY <1>2, <2>1, <2>2, TotalLonger
  <2> QED BY <1>5, <2>3
<1> QED BY <1>1, <1>4, <1>6 DEF ExecSum, m, n

\* An entry is removed that does not execute.
LEMMA ExecSumRemoved ==
    ASSUME NEW l \in Seq(Entry), NEW n \in 1..Len(l), NEW t, ShareOf(l[n], t) = 0
    PROVE  ExecSum([i \in 1..(Len(l) - 1) |-> IF i >= n THEN l[i + 1] ELSE l[i]], t) = ExecSum(l, t)
<1> DEFINE k == Len(l) - 1
           m == [i \in 1..k |-> IF i >= n THEN l[i + 1] ELSE l[i]]
<1>1. /\ k \in Nat /\ n \in 1..(k + 1) /\ Len(l) = k + 1 /\ m \in Seq(Entry) /\ Len(m) = k
      /\ \A i \in 1..k : m[i] = IF i < n THEN l[i] ELSE l[i + 1]
  <2>1. k \in Nat /\ n \in 1..(k + 1) /\ Len(l) = k + 1
        OBVIOUS
  <2> HIDE DEF k
  <2>2. \A i \in 1..k : l[i] \in Entry /\ l[i + 1] \in Entry
        BY <2>1
  <2>3. m \in [1..k -> Entry]
        BY <2>2
  <2>4. m \in Seq(Entry) /\ Len(m) = k
        BY <2>1, <2>3
  <2>5. \A i \in 1..k : m[i] = IF i < n THEN l[i] ELSE l[i + 1]
        BY <2>1
  <2> QED BY <2>1, <2>4, <2>5
<1> HIDE DEF m, k
<1>2. \A i \in 1..(k + 1) : SharesOf(l, t)[i] = ShareOf(l[i], t) /\ SharesOf(l, t)[i] \in Int
  <2>1. \A i \in 1..Len(l) : SharesOf(l, t)[i] = ShareOf(l[i], t) /\ ShareOf(l[i], t) \in Int
        BY ShareNumbers
  <2> QED BY <1>1, <2>1
<1>3. \A i \in 1..k : SharesOf(m, t)[i] = ShareOf(m[i], t)
      BY <1>1, ShareNumbers
<1>4. ASSUME NEW i \in 1..k
      PROVE  SharesOf(m, t)[i] = IF i < n THEN SharesOf(l, t)[i] ELSE SharesOf(l, t)[i + 1]
  <2>1. i \in 1..(k + 1) /\ i + 1 \in 1..(k + 1)
        BY <1>1
  <2>2. CASE i < n
        BY <1>1, <1>2, <1>3, <2>1, <2>2
  <2>3. CASE ~ (i < n)
        BY <1>1, <1>2, <1>3, <2>1, <2>3
  <2> QED BY <2>2, <2>3
<1>5. SharesOf(l, t)[n] = 0
      BY <1>1, <1>2
<1>6. Total(SharesOf(m, t), k) = Total(SharesOf(l, t), k + 1)
      BY <1>1, <1>2, <1>4, <1>5, TotalShorter
<1> QED BY <1>1, <1>6 DEF ExecSum, m, k

\* One entry changes.
LEMMA ExecSumChanged ==
    ASSUME NEW l \in Seq(Entry), NEW m \in Seq(Entry), NEW t, NEW n \in 1..Len(l), Len(m) = Len(l),
           \A i \in 1..Len(l) : i # n => m[i] = l[i]
    PROVE  ExecSum(m, t) = ExecSum(l, t) + (ShareOf(m[n], t) - ShareOf(l[n], t))
<1>1. /\ Len(l) \in Nat
      /\ \A i \in 1..Len(l) : SharesOf(l, t)[i] = ShareOf(l[i], t) /\ SharesOf(l, t)[i] \in Int
      /\ \A i \in 1..Len(l) : SharesOf(m, t)[i] = ShareOf(m[i], t) /\ SharesOf(m, t)[i] \in Int
      BY ShareNumbers
<1>2. \A i \in 1..Len(l) : i # n => SharesOf(m, t)[i] = SharesOf(l, t)[i]
      BY <1>1
<1>3. Total(SharesOf(m, t), Len(l)) =
         Total(SharesOf(l, t), Len(l)) + (SharesOf(m, t)[n] - SharesOf(l, t)[n])
      BY <1>1, <1>2, TotalChanged
<1> QED BY <1>1, <1>3 DEF ExecSum

-----------------------------------------------------------------------------
(* What the components have reported.  The first k commands of             *)
(* RM_SERVER_IN tell in which state each entry will be.                    *)

\* One process, and a DSP that does not fail.
OneHealthy == OneProcess /\ MaxFaults = 0

Reported == OMX_StateIdle..OMX_StateWaitForResources
Says(d, v)   == {m \in Cmd : m.RM_Cmd = "RM_StateSet" /\ m.inst = d /\ m.param2 = v}
Unsays(d, v) == {m \in Cmd : m.RM_Cmd = "RM_StateSet" /\ m.inst = d /\ m.param2 # v}
InState(d, v) == \E i \in 1..N : componentList[i].inst = d /\ componentList[i].state = v

\* May d be in state v when the first k commands have been read?
May(d, v, k) == \/ OpenIn(toRM, Says(d, v), Unsays(d, v), k)
                \/ InState(d, v) /\ Clear(toRM, Unsays(d, v), k)

\* In the end only a component that executes may be entered as executing, and
\* only one that is in none of these three states as waiting.
Followed == {OMX_StateExecuting, OMX_StateWaitForResources}
Believed(v) == IF v = OMX_StateExecuting THEN {"Executing"} ELSE States \ {"Idle", "Executing", "Pause"}
Foreseen == \A d \in Inst, v \in Followed :
    May(d, v, Len(toRM)) => d \in Clients /\ curState[d] \in Believed(v)

\* An entry is neither freed nor made to wait while it executes, and does not
\* go from waiting to executing.
Barred(d, v) == IF v = OMX_StateExecuting THEN FreeOf(d) \cup Says(d, OMX_StateWaitForResources)
                ELSE Says(d, OMX_StateExecuting)
Ordered == \A d \in Inst, v \in Followed, k \in DOMAIN toRM :
    toRM[k] \in Barred(d, v) => ~ May(d, v, k - 1)
FreedStopped == rmPc = "remove" => ~ InState(cmd_data.inst, OMX_StateExecuting)

\* Commands and entries are of components, and name their kinds.
OwnCmd == {m \in Cmd : /\ m.inst \in Clients /\ m.param1 = KindOf[m.inst]
                       /\ m.RM_Cmd = "RM_StateSet" => m.param2 \in Reported}
OwnCmds    == toRM \in Seq(OwnCmd)
OwnEntries == \A i \in 1..N : componentList[i].inst \in Clients /\ componentList[i].state \in Reported

Account == Foreseen /\ Ordered /\ FreedStopped /\ OwnCmds /\ OwnEntries /\ CpuAccounted

\* Nothing is sent or read, and no entry enters a state that is followed.
LEMMA ReportsSame ==
    ASSUME Foreseen, Ordered, toRM' = toRM,
           \A d \in Inst, v \in Followed : InState(d, v)' => InState(d, v),
           \A d \in Clients, v \in Followed : curState[d] \in Believed(v) => curState'[d] \in Believed(v)
    PROVE  Foreseen' /\ Ordered'
<1>1. ASSUME NEW d \in Inst, NEW v \in Followed, NEW k, May(d, v, k)' PROVE May(d, v, k)
  <2>1. May(d, v, k)' <=> \/ OpenIn(toRM', Says(d, v), Unsays(d, v), k)
                          \/ InState(d, v)' /\ Clear(toRM', Unsays(d, v), k)
        BY DEF May
  <2> QED BY <1>1, <2>1 DEF May
<1>2. Foreseen'
      BY <1>1 DEF Foreseen
<1>3. Ordered'
  <2> SUFFICES ASSUME NEW d \in Inst, NEW v \in Followed, NEW k \in DOMAIN toRM', toRM'[k] \in Barred(d, v)
               PROVE  ~ May(d, v, k - 1)'
      BY DEF Ordered
  <2> QED BY <1>1 DEF Ordered
<1> QED BY <1>2, <1>3

\* A command is read.
LEMMA ReportRead ==
    ASSUME toRM \in Seq(Cmd), Foreseen, Ordered, toRM # <<>>, toRM' = Tail(toRM), curState' = curState,
           \A d \in Inst, v \in Followed :
               InState(d, v)' => Head(toRM) \in Says(d, v) \/ (InState(d, v) /\ Head(toRM) \notin Unsays(d, v))
    PROVE  Foreseen' /\ Ordered'
<1>0. PICK n \in Nat : n = Len(toRM)
      OBVIOUS
<1>1. /\ n > 0 /\ Len(toRM') = n - 1 /\ DOMAIN toRM' = 1..(n - 1) /\ DOMAIN toRM = 1..n
      /\ \A k \in 1..(n - 1) : toRM'[k] = toRM[k + 1]
      BY <1>0
<1>2. ASSUME NEW d \in Inst, NEW v \in Followed, NEW k \in 0..(n - 1), May(d, v, k)' PROVE May(d, v, k + 1)
  <2>1. /\ OpenIn(toRM, Says(d, v), Unsays(d, v), k + 1) <=>
              \/ OpenIn(toRM', Says(d, v), Unsays(d, v), k)
              \/ Head(toRM) \in Says(d, v) /\ Clear(toRM', Unsays(d, v), k)
        /\ Clear(toRM, Unsays(d, v), k + 1) <=> Head(toRM) \notin Unsays(d, v) /\ Clear(toRM', Unsays(d, v), k)
        BY <1>0, LogTaken
  <2>2. \/ OpenIn(toRM', Says(d, v), Unsays(d, v), k)
        \/ InState(d, v)' /\ Clear(toRM', Unsays(d, v), k)
        BY <1>2 DEF May
  <2> QED BY <2>1, <2>2 DEF May
<1>3. Foreseen'
  <2>1. n - 1 \in 0..(n - 1) /\ n - 1 + 1 = n
        BY <1>1
  <2>2. \A d \in Inst, v \in Followed : May(d, v, n - 1)' => May(d, v, n)
        BY <1>2, <2>1
  <2> QED BY <1>0, <1>1, <2>2 DEF Foreseen
<1>4. Ordered'
  <2> SUFFICES ASSUME NEW d \in Inst, NEW v \in Followed, NEW k \in DOMAIN toRM', toRM'[k] \in Barred(d, v)
               PROVE  ~ May(d, v, k - 1)'
      BY DEF Ordered
  <2>1. k - 1 \in 0..(n - 1) /\ k - 1 + 1 = k /\ k + 1 \in DOMAIN toRM /\ toRM[k + 1] \in Barred(d, v) /\ k + 1 - 1 = k
        BY <1>1
  <2>2. ~ May(d, v, k)
        BY <2>1 DEF Ordered
  <2> QED BY <1>2, <2>1, <2>2
<1> QED BY <1>3, <1>4

\* A command is sent.
LEMMA ReportSent ==
    ASSUME toRM \in Seq(Cmd), Foreseen, Ordered, NEW m \in Cmd, toRM' = Append(toRM, m), componentList' = componentList,
           \A d \in Inst, v \in Followed :
               /\ m \in Says(d, v) => d \in Clients /\ curState'[d] \in Believed(v)
               /\ m \notin Unsays(d, v) /\ d \in Clients /\ curState[d] \in Believed(v) => curState'[d] \in Believed(v)
               /\ m \in Barred(d, v) => ~ (d \in Clients /\ curState[d] \in Believed(v))
    PROVE  Foreseen' /\ Ordered'
<1>0. PICK n \in Nat : n = Len(toRM)
      OBVIOUS
<1>1. /\ n \in Nat /\ Len(toRM') = n + 1 /\ DOMAIN toRM' = 1..(n + 1) /\ DOMAIN toRM = 1..n
      /\ toRM'[n + 1] = m /\ \A k \in 1..n : toRM'[k] = toRM[k]
      BY <1>0
<1>2. ASSUME NEW d \in Inst, NEW v \in Followed
      PROVE  /\ \A k \in 0..n : May(d, v, k)' => May(d, v, k)
             /\ May(d, v, n + 1)' => m \in Says(d, v) \/ (May(d, v, n) /\ m \notin Unsays(d, v))
  <2> DEFINE O == Says(d, v)
             F == Unsays(d, v)
  <2>1. /\ \A k \in 0..n : /\ OpenIn(toRM', O, F, k) <=> OpenIn(toRM, O, F, k)
                           /\ Clear(toRM', F, k) <=> Clear(toRM, F, k)
        /\ OpenIn(toRM', O, F, n + 1) <=> m \in O \/ (OpenIn(toRM, O, F, n) /\ m \notin F)
        /\ Clear(toRM', F, n + 1) <=> Clear(toRM, F, n) /\ m \notin F
        BY <1>0, LogAppended
  <2>2. InState(d, v)' <=> InState(d, v)
        BY DEF InState, N
  <2>3. \A k : May(d, v, k)' <=> OpenIn(toRM', O, F, k) \/ (InState(d, v)' /\ Clear(toRM', F, k))
        BY DEF May
  <2>4. \A k : May(d, v, k) <=> OpenIn(toRM, O, F, k) \/ (InState(d, v) /\ Clear(toRM, F, k))
        BY DEF May
  <2> HIDE DEF O, F
  <2> QED BY <2>1, <2>2, <2>3, <2>4 DEF O, F
<1>3. \A d \in Inst, v \in Followed : May(d, v, n) => d \in Clients /\ curState[d] \in Believed(v)
      BY <1>0 DEF Foreseen
<1>4. Foreseen'
      BY <1>1, <1>2, <1>3 DEF Foreseen
<1>5. Ordered'
  <2> SUFFICES ASSUME NEW d \in Inst, NEW v \in Followed, NEW k \in DOMAIN toRM', toRM'[k] \in Barred(d, v)
               PROVE  ~ May(d, v, k - 1)'
      BY DEF Ordered
  <2>1. CASE k = n + 1
    <3>1. k - 1 = n /\ n \in 0..n /\ m \in Barred(d, v)
          BY <1>1, <2>1
    <3> QED BY <1>2, <1>3, <3>1
  <2>2. CASE k \in 1..n
    <3>1. k - 1 \in 0..n /\ k \in DOMAIN toRM /\ toRM[k] \in Barred(d, v)
          BY <1>1, <2>2
    <3> QED BY <1>2, <3>1 DEF Ordered
  <2> QED BY <1>1, <2>1, <2>2
<1> QED BY <1>4, <1>5

-----------------------------------------------------------------------------
(* The servers keep the account.                                           *)

\* Entries that keep all but their status keep their shares.
LEMMA EntriesAccount ==
    ASSUME ListOK, ListOK', OwnEntries, CpuAccounted, KeepsEntries, totalCpu' = totalCpu
    PROVE  /\ OwnEntries' /\ CpuAccounted'
           /\ \A d, v : InState(d, v)' <=> InState(d, v)
<1>1. OwnEntries' /\ \A d, v : InState(d, v)' <=> InState(d, v)
      BY DEF OwnEntries, InState, KeepsEntries
<1>2. /\ componentList \in Seq(Entry) /\ componentList' \in Seq(Entry) /\ Len(componentList') = Len(componentList)
      /\ \A t : \A i \in 1..Len(componentList) : ShareOf(componentList'[i], t) = ShareOf(componentList[i], t)
      BY DEF ListOK, KeepsEntries, N, ShareOf
<1>3. \A t : ExecSum(componentList', t) = ExecSum(componentList, t)
      BY <1>2, ExecSumSame
<1> QED BY <1>1, <1>3, AccountedBy

\* Steps that neither send nor read.
LEMMA RestAccount ==
    ASSUME Typed, Typed', Account, KeepsEntries, UNCHANGED <<toRM, curState, totalCpu>>,
           rmPc' = "remove" => rmPc = "remove" /\ cmd_data' = cmd_data
    PROVE  Account'
<1>1. OwnEntries' /\ CpuAccounted' /\ \A d, v : InState(d, v)' <=> InState(d, v)
      BY EntriesAccount DEF Account, Typed
<1>2. Foreseen' /\ Ordered'
      BY <1>1, ReportsSame DEF Account
<1>3. FreedStopped' /\ OwnCmds'
      BY <1>1 DEF Account, FreedStopped, OwnCmds
<1> QED BY <1>1, <1>2, <1>3 DEF Account

\* A command is read whose kind is not RM_StateSet.
LEMMA CommandRead ==
    ASSUME Typed, Account, toRM # <<>>, toRM' = Tail(toRM), curState' = curState,
           \A d \in Inst, v \in Followed : InState(d, v)' => InState(d, v), Head(toRM).RM_Cmd # "RM_StateSet"
    PROVE  Foreseen' /\ Ordered' /\ OwnCmds'
<1>1. toRM \in Seq(Cmd) /\ Foreseen /\ Ordered /\ toRM \in Seq(OwnCmd)
      BY DEF Typed, FifosOK, Account, OwnCmds
<1>2. \A d, v : Head(toRM) \notin Unsays(d, v)
      BY DEF Unsays
<1>3. Foreseen' /\ Ordered'
      BY <1>1, <1>2, ReportRead
<1>4. OwnCmds'
      BY <1>1 DEF OwnCmds
<1> QED BY <1>3, <1>4

\* A command that leaves the list as it is.
LEMMA QuietAccount ==
    ASSUME Typed, Typed', Account, toRM # <<>>, toRM' = Tail(toRM), UNCHANGED <<curState, componentList, totalCpu>>,
           Head(toRM).RM_Cmd # "RM_StateSet", rmPc' = "select"
    PROVE  Account'
<1>1. KeepsEntries
      BY DEF KeepsEntries, N
<1>2. OwnEntries' /\ CpuAccounted' /\ \A d, v : InState(d, v)' <=> InState(d, v)
      BY <1>1, EntriesAccount DEF Account, Typed
<1>3. Foreseen' /\ Ordered' /\ OwnCmds'
      BY <1>2, CommandRead
<1> QED BY <1>2, <1>3 DEF Account, FreedStopped

\* What the first command of RM_SERVER_IN may find.
LEMMA FirstOrdered ==
    ASSUME toRM \in Seq(Cmd), toRM # <<>>, Ordered, NEW d \in Inst, NEW v \in Followed, Head(toRM) \in Barred(d, v)
    PROVE  ~ InState(d, v)
<1>1. 1 \in DOMAIN toRM /\ toRM[1] = Head(toRM) /\ 1 - 1 = 0
      OBVIOUS
<1>2. ~ May(d, v, 0)
      BY <1>1 DEF Ordered
<1> QED BY <1>2, LogStart DEF May

\* HandleFreeResource: whoever the removal will name does not execute.
LEMMA FreeAccount ==
    ASSUME OneHealthy, Typed, Typed', Account, toRM # <<>>, toRM' = Tail(toRM), curState' = curState,
           Head(toRM).RM_Cmd \in {"RM_FreeResource", "RM_FreeAndCloseResource"}, HandleFreeResource(Head(toRM))
    PROVE  Account'
<1> DEFINE cmd == Head(toRM)
<1>0. cmd \in Cmd /\ toRM \in Seq(Cmd) /\ N \in Nat /\ \A i \in 1..N : componentList[i] \in Entry
  <2>1. toRM \in Seq(Cmd) /\ ListOK
        BY DEF Typed, FifosOK
  <2> QED BY <2>1, EntriesTyped
<1>1. /\ cmd_data' = IF Waiting = {} THEN cmd
                     ELSE [cmd EXCEPT !.inst.h = componentList[Max(Waiting)].inst.h,
                                      !.rm_status = "RM_RESOURCEACQUIRED"]
      /\ rmPc' = "remove" /\ UNCHANGED <<componentList, totalCpu>>
      BY Zenon DEF HandleFreeResource
<1>2. KeepsEntries
      BY <1>1 DEF KeepsEntries, N
<1>3. OwnEntries' /\ CpuAccounted' /\ \A d, v : InState(d, v)' <=> InState(d, v)
      BY <1>1, <1>2, EntriesAccount DEF Account, Typed
<1>4. Foreseen' /\ Ordered' /\ OwnCmds'
      BY <1>3, CommandRead
<1> HIDE DEF cmd
<1>5. ~ InState(cmd_data'.inst, OMX_StateExecuting)
  <2>1. CASE Waiting = {}
    <3>1. cmd_data' = cmd /\ cmd.inst \in Inst
          BY <1>0, <1>1, <2>1 DEF Cmd
    <3>2. cmd \in Barred(cmd.inst, OMX_StateExecuting) /\ OMX_StateExecuting \in Followed
          BY <1>0 DEF Barred, FreeOf, Followed, cmd
    <3> QED BY <1>0, <3>1, <3>2, FirstOrdered DEF Account, cmd
  <2>2. CASE Waiting # {}
    <3>1. PICK i : i = Max(Waiting)
          OBVIOUS
    <3>2. i \in 1..N /\ componentList[i].state = OMX_StateWaitForResources /\ ListOK
          BY <2>2, <3>1, LastWaiting DEF Typed, Waiting
    <3>3. componentList[i].inst \in Inst /\ cmd.inst \in Inst
          BY <1>0, <3>2 DEF Entry, Cmd
    <3>4. cmd_data'.inst = [cmd.inst EXCEPT !.h = componentList[i].inst.h]
      <4>1. cmd_data' = [cmd EXCEPT !.inst.h = componentList[i].inst.h, !.rm_status = "RM_RESOURCEACQUIRED"]
            BY <1>1, <2>2, <3>1
      <4>2. ASSUME NEW h PROVE [cmd EXCEPT !.inst.h = h, !.rm_status = "RM_RESOURCEACQUIRED"].inst = [cmd.inst EXCEPT !.h = h]
            BY <1>0 DEF Cmd
      <4> QED BY <4>1, <4>2
    <3>5. cmd_data'.inst = componentList[i].inst
          BY <3>3, <3>4 DEF Inst, OneHealthy, OneProcess
    <3> QED BY <3>2, <3>5 DEF InState, ListOK, RegisteredOnce, OMX_StateExecuting, OMX_StateWaitForResources
  <2> QED BY <2>1, <2>2
<1> QED BY <1>3, <1>4, <1>5 DEF Account, FreedStopped

\* RM_AddPipe enters a component as idle.
LEMMA AddAccount ==
    ASSUME Typed, Typed', Account, toRM # <<>>, toRM' = Tail(toRM), UNCHANGED <<curState, totalCpu>>,
           Head(toRM).RM_Cmd # "RM_StateSet", rmPc' = "select", NEW pipe, RM_AddPipe(Head(toRM), pipe)
    PROVE  Account'
<1> DEFINE cmd == Head(toRM)
           l == componentList
           e == [inst |-> cmd.inst, pipe |-> pipe, state |-> OMX_StateIdle,
                 cpu |-> cmd.param2, status |-> "unset"]
<1>0. cmd \in OwnCmd /\ l \in Seq(Entry) /\ componentList' \in Seq(Entry) /\ N \in Nat
  <2>1. toRM \in Seq(OwnCmd) /\ l \in Seq(Entry) /\ componentList' \in Seq(Entry) /\ ListOK
        BY DEF Account, OwnCmds, Typed, ListOK
  <2> QED BY <2>1, EntriesTyped
<1>1. e.inst = cmd.inst /\ e.state = OMX_StateIdle
      OBVIOUS
<1>2. componentList' = l \/ componentList' = Append(l, e)
      BY DEF RM_AddPipe
<1> HIDE DEF e
<1>3. CASE componentList' = l
      BY <1>3, QuietAccount
<1>4. CASE componentList' = Append(l, e)
  <2>1. /\ N' = N + 1 /\ l'[N + 1] = e /\ \A i \in 1..N : l'[i] = l[i]
        /\ \A i : i \in 1..(N + 1) <=> i \in 1..N \/ i = N + 1
        BY <1>0, <1>4 DEF N
  <2>2. e \in Entry
    <3>1. N' \in Nat /\ DOMAIN l' = 1..N'
          BY <1>0 DEF N
    <3>2. N + 1 \in DOMAIN l'
          BY <1>0, <2>1, <3>1
    <3>3. l'[N + 1] \in Entry
          BY <1>0, <3>2
    <3> QED BY <2>1, <3>3
  <2>3. OwnEntries'
    <3>1. cmd.inst \in Clients /\ OMX_StateIdle \in Reported
          BY <1>0 DEF OwnCmd, Reported, OMX_StateIdle, OMX_StateWaitForResources
    <3> QED BY <1>1, <2>1, <3>1 DEF OwnEntries, Account
  <2>4. \A d \in Inst, v \in Followed : InState(d, v)' => InState(d, v)
    <3>1. OMX_StateIdle \notin Followed
          BY DEF Followed, OMX_StateIdle, OMX_StateExecuting, OMX_StateWaitForResources
    <3> QED BY <1>1, <2>1, <3>1 DEF InState
  <2>5. \A t : ExecSum(componentList', t) = ExecSum(componentList, t)
    <3>1. \A t : ShareOf(e, t) = 0
          BY <1>1 DEF ShareOf, OMX_StateIdle, OMX_StateExecuting
    <3> QED BY <1>0, <1>4, <2>2, <3>1, ExecSumAdded
  <2>6. CpuAccounted'
        BY <2>5, AccountedBy DEF Account
  <2>7. Foreseen' /\ Ordered' /\ OwnCmds'
        BY <2>4, CommandRead
  <2> QED BY <2>3, <2>6, <2>7 DEF Account, FreedStopped
<1> QED BY <1>2, <1>3, <1>4

\* RM_CreatePipe and RM_ReusePipe.
LEMMA EnterAccount ==
    ASSUME Typed, Typed', Account, toRM # <<>>, toRM' = Tail(toRM), curState' = curState,
           Head(toRM).RM_Cmd \in {"RM_OpenPipe", "RM_ReusePipe"},
           RM_CreatePipe(Head(toRM)) \/ RM_ReusePipe(Head(toRM))
    PROVE  Account'
<1>1. ASSUME RM_CreatePipe(Head(toRM)) PROVE Account'
  <2>1. rmPc' = "select" /\ totalCpu' = totalCpu /\ \E pipe : RM_AddPipe(Head(toRM), pipe)
        BY <1>1 DEF RM_CreatePipe
  <2> QED BY <2>1, AddAccount
<1>2. ASSUME RM_ReusePipe(Head(toRM)) PROVE Account'
  <2> DEFINE reuse == RM_GetPipe([h |-> Head(toRM).param4, pid |-> Head(toRM).inst.pid])
  <2>1. CASE reuse = {}
        BY <1>1, <1>2, <2>1 DEF RM_ReusePipe
  <2>2. CASE reuse # {}
    <3>1. rmPc' = "select" /\ totalCpu' = totalCpu /\ \E pipe : RM_AddPipe(Head(toRM), pipe)
          BY <1>2, <2>2 DEF RM_ReusePipe
    <3> QED BY <3>1, AddAccount
  <2> QED BY <2>1, <2>2
<1> QED BY <1>1, <1>2

\* What HandleStateSet adds is the difference of the entry's shares.
LEMMA DeltaIsShare ==
    ASSUME NEW cmd \in Cmd, NEW e \in Entry, NEW f \in Entry, cmd.inst = e.inst, cmd.param1 = KindOf[e.inst],
           f.inst = e.inst, f.cpu = e.cpu, f.state = cmd.param2, e.state \in Reported, cmd.param2 \in Reported,
           ~ (e.state = OMX_StateExecuting /\ cmd.param2 = OMX_StateWaitForResources),
           ~ (e.state = OMX_StateWaitForResources /\ cmd.param2 = OMX_StateExecuting), NEW t
    PROVE  /\ cmd.param1 \in DOMAIN TypeOf /\ TypeOf[cmd.param1] = t => ShareOf(f, t) - ShareOf(e, t) = CpuDelta(cmd, e)
           /\ ~ (cmd.param1 \in DOMAIN TypeOf /\ TypeOf[cmd.param1] = t) => ShareOf(f, t) - ShareOf(e, t) = 0
<1>1. e.cpu \in Int
      BY Constants DEF Entry, Word
<1>2. CASE cmd.param1 \in DOMAIN TypeOf /\ TypeOf[cmd.param1] = t
  <2>1. /\ ShareOf(f, t) = IF cmd.param2 = OMX_StateExecuting THEN e.cpu ELSE 0
        /\ ShareOf(e, t) = IF e.state = OMX_StateExecuting THEN e.cpu ELSE 0
        BY <1>2 DEF ShareOf
  <2>2. CpuDelta(cmd, e) = IF Starts(e.state, cmd.param2) THEN e.cpu
                           ELSE IF Stops(e.state, cmd.param2) THEN -e.cpu ELSE 0
        BY <1>2 DEF CpuDelta
  <2>3. ASSUME NEW old \in 2..5, NEW new \in 2..5, ~ (old = 3 /\ new = 5), ~ (old = 5 /\ new = 3)
        PROVE  (IF new = 3 THEN e.cpu ELSE 0) - (IF old = 3 THEN e.cpu ELSE 0) =
                   IF Starts(old, new) THEN e.cpu ELSE IF Stops(old, new) THEN -e.cpu ELSE 0
    <3>1. Starts(old, new) <=> (old = 2 \/ old = 4) /\ new = 3
          BY DEF Starts, OMX_StateIdle, OMX_StatePause, OMX_StateExecuting
    <3>2. Stops(old, new) <=> old = 3 /\ (new = 2 \/ new = 4)
          BY DEF Stops, OMX_StateIdle, OMX_StatePause, OMX_StateExecuting
    <3>3. CASE new = 3 /\ old = 3
          BY <1>1, <3>1, <3>2, <3>3
    <3>4. CASE new = 3 /\ old # 3
      <4>1. old = 2 \/ old = 4
            BY <2>3, <3>4
      <4> QED BY <1>1, <3>1, <3>4, <4>1
    <3>5. CASE new # 3 /\ old = 3
      <4>1. new = 2 \/ new = 4
            BY <2>3, <3>5
      <4> QED BY <1>1, <3>1, <3>2, <3>5, <4>1
    <3>6. CASE new # 3 /\ old # 3
          BY <3>1, <3>2, <3>6
    <3> QED BY <3>3, <3>4, <3>5, <3>6
  <2>4. e.state \in 2..5 /\ cmd.param2 \in 2..5 /\ OMX_StateExecuting = 3 /\ OMX_StateWaitForResources = 5
        BY DEF Reported, OMX_StateIdle, OMX_StateWaitForResources, OMX_StateExecuting
  <2>5. (IF cmd.param2 = 3 THEN e.cpu ELSE 0) - (IF e.state = 3 THEN e.cpu ELSE 0) = CpuDelta(cmd, e)
        BY <2>2, <2>3, <2>4
  <2> QED BY <1>2, <2>1, <2>4, <2>5
<1>3. CASE ~ (cmd.param1 \in DOMAIN TypeOf /\ TypeOf[cmd.param1] = t)
  <2>1. ShareOf(f, t) = 0 /\ ShareOf(e, t) = 0
        BY <1>3 DEF ShareOf
  <2> QED BY <1>3, <2>1
<1> QED BY <1>2, <1>3

\* HandleStateSet, if the component is in the list.
LEMMA StateSetListed ==
    ASSUME Typed, Typed', Account, toRM # <<>>, toRM' = Tail(toRM), curState' = curState, rmPc' = "select",
           Head(toRM).RM_Cmd = "RM_StateSet", NEW n \in RM_GetListIndex(Head(toRM).inst),
           componentList' = [componentList EXCEPT ![n].state = Head(toRM).param2],
           totalCpu' = [t \in Types |->
               IF Head(toRM).param1 \in DOMAIN TypeOf /\ TypeOf[Head(toRM).param1] = t
               THEN AddCpu(totalCpu[t], CpuDelta(Head(toRM), componentList[n])) ELSE totalCpu[t]]
    PROVE  Account'
<1> DEFINE cmd == Head(toRM)
           l == componentList
<1>0. /\ toRM \in Seq(Cmd) /\ cmd \in OwnCmd /\ cmd \in Cmd /\ cmd.RM_Cmd = "RM_StateSet" /\ ListOK
      /\ l \in Seq(Entry) /\ l' \in Seq(Entry) /\ toRM \in Seq(OwnCmd)
  <2>1. toRM \in Seq(OwnCmd) /\ toRM \in Seq(Cmd) /\ l \in Seq(Entry) /\ l' \in Seq(Entry) /\ ListOK
        BY DEF Account, OwnCmds, Typed, ListOK, FifosOK
  <2>2. cmd \in OwnCmd /\ cmd \in Cmd
        BY <2>1
  <2> QED BY <2>1, <2>2
<1>1. /\ cmd.inst \in Clients /\ cmd.param1 = KindOf[cmd.inst] /\ cmd.param2 \in Reported /\ cmd.inst \in Inst
      BY <1>0 DEF OwnCmd, Cmd
<1>2. n \in 1..N /\ N \in Nat /\ DOMAIN l = 1..N /\ l[n].inst = cmd.inst /\ \A i \in 1..N : l[i] \in Entry
      BY <1>0, ListIndex, EntriesTyped
<1>3. /\ N' = N /\ \A i \in 1..N : i # n => l'[i] = l[i]
      /\ l'[n].inst = l[n].inst /\ l'[n].cpu = l[n].cpu /\ l'[n].state = cmd.param2
  <2> DEFINE list == [l EXCEPT ![n].state = cmd.param2]
  <2>1. Len(list) = N /\ list[n] = [l[n] EXCEPT !.state = cmd.param2] /\ \A i \in 1..N : i # n => list[i] = l[i]
        BY <1>2
  <2>2. /\ [l[n] EXCEPT !.state = cmd.param2].inst = l[n].inst
        /\ [l[n] EXCEPT !.state = cmd.param2].cpu = l[n].cpu
        /\ [l[n] EXCEPT !.state = cmd.param2].state = cmd.param2
        BY <1>2 DEF Entry
  <2>3. l' = list
        OBVIOUS
  <2> HIDE DEF list
  <2> QED BY <2>1, <2>2, <2>3 DEF N
<1> HIDE DEF cmd
<1>4. OwnEntries'
  <2> SUFFICES ASSUME NEW i \in 1..N PROVE l'[i].inst \in Clients /\ l'[i].state \in Reported
      BY <1>3 DEF OwnEntries
  <2>1. CASE i = n
        BY <1>1, <1>2, <1>3, <2>1
  <2>2. CASE i # n
        BY <1>3, <2>2 DEF OwnEntries, Account
  <2> QED BY <2>1, <2>2
<1>5. ASSUME NEW d \in Inst, NEW v \in Followed, InState(d, v)'
      PROVE  cmd \in Says(d, v) \/ (InState(d, v) /\ cmd \notin Unsays(d, v))
  <2>1. PICK i \in 1..N : l'[i].inst = d /\ l'[i].state = v
        BY <1>3, <1>5 DEF InState
  <2>2. CASE i = n
        BY <1>0, <1>2, <1>3, <2>1, <2>2 DEF Says
  <2>3. CASE i # n
    <3>1. l[i].inst = d /\ l[i].state = v
          BY <1>3, <2>1, <2>3
    <3>2. d # cmd.inst
          BY <1>0, <1>2, <2>3, <3>1 DEF ListOK, RegisteredOnce
    <3> QED BY <3>1, <3>2 DEF InState, Unsays
  <2> QED BY <2>2, <2>3
<1>6. Foreseen' /\ Ordered'
      BY <1>0, <1>5, ReportRead DEF Account, cmd
<1>7. /\ ~ (l[n].state = OMX_StateExecuting /\ cmd.param2 = OMX_StateWaitForResources)
      /\ ~ (l[n].state = OMX_StateWaitForResources /\ cmd.param2 = OMX_StateExecuting)
  <2>1. ASSUME l[n].state = OMX_StateExecuting, cmd.param2 = OMX_StateWaitForResources PROVE FALSE
    <3>1. cmd \in Barred(cmd.inst, OMX_StateExecuting) /\ OMX_StateExecuting \in Followed
          BY <1>0, <2>1 DEF Barred, Says, Followed
    <3>2. ~ InState(cmd.inst, OMX_StateExecuting)
          BY <1>0, <1>1, <3>1, FirstOrdered DEF Account, cmd
    <3> QED BY <1>2, <2>1, <3>2 DEF InState
  <2>2. ASSUME l[n].state = OMX_StateWaitForResources, cmd.param2 = OMX_StateExecuting PROVE FALSE
    <3>1. cmd \in Barred(cmd.inst, OMX_StateWaitForResources) /\ OMX_StateWaitForResources \in Followed
          BY <1>0, <2>2 DEF Barred, Says, Followed, OMX_StateExecuting, OMX_StateWaitForResources
    <3>2. ~ InState(cmd.inst, OMX_StateWaitForResources)
          BY <1>0, <1>1, <3>1, FirstOrdered DEF Account, cmd
    <3> QED BY <1>2, <2>2, <3>2 DEF InState
  <2> QED BY <2>1, <2>2
<1>8. ASSUME NEW t \in Types PROVE totalCpu'[t] = ExecSum(l', t) % Wrap
  <2> DEFINE s == ExecSum(l, t)
             delta == ShareOf(l'[n], t) - ShareOf(l[n], t)
             mine == cmd.param1 \in DOMAIN TypeOf /\ TypeOf[cmd.param1] = t
  <2>1. totalCpu[t] = s % Wrap
        BY AccountedBy DEF Account
  <2>2. l'[n] \in Entry /\ l[n] \in Entry /\ l[n].state \in Reported
    <3>1. DOMAIN l' = 1..N' /\ n \in DOMAIN l'
          BY <1>0, <1>2, <1>3 DEF N
    <3>2. l'[n] \in Entry
          BY <1>0, <3>1
    <3> QED BY <1>2, <3>2 DEF Account, OwnEntries
  <2>3. /\ mine => delta = CpuDelta(cmd, l[n])
        /\ ~ mine => delta = 0
    <3>1. /\ cmd.inst = l[n].inst /\ cmd.param1 = KindOf[l[n].inst] /\ l'[n].inst = l[n].inst
          /\ l'[n].cpu = l[n].cpu /\ l'[n].state = cmd.param2 /\ l[n].state \in Reported
          /\ cmd.param2 \in Reported /\ cmd \in Cmd
          BY <1>0, <1>1, <1>2, <1>3, <2>2
    <3> HIDE DEF l
    <3> QED BY <1>7, <2>2, <3>1, DeltaIsShare
  <2>4. s \in Int /\ delta \in Int /\ Wrap \in Nat /\ Wrap > 0
    <3>1. s \in Int /\ ShareOf(l[n], t) \in Int
          BY <1>0, <1>2, ShareNumbers DEF N
    <3>2. ShareOf(l'[n], t) \in Int
          BY <1>0, <1>2, <1>3, ShareNumbers DEF N
    <3> QED BY <3>1, <3>2, Constants
  <2>5. ExecSum(l', t) = s + delta
    <3>1. /\ Len(l') = Len(l) /\ n \in 1..Len(l) /\ \A i \in 1..Len(l) : i # n => l'[i] = l[i]
          BY <1>2, <1>3 DEF N
    <3>2. l \in Seq(Entry) /\ l' \in Seq(Entry)
          BY <1>0
    <3> HIDE DEF l
    <3> QED BY <3>1, <3>2, ExecSumChanged
  <2>6. totalCpu'[t] = IF mine THEN AddCpu(totalCpu[t], CpuDelta(cmd, l[n])) ELSE totalCpu[t]
        BY DEF cmd
  <2> HIDE DEF s, delta, mine
  <2>7. CASE mine
    <3>1. totalCpu'[t] = ((s % Wrap) + delta) % Wrap
          BY <2>1, <2>3, <2>6, <2>7 DEF AddCpu
    <3> QED BY <2>4, <2>5, <3>1, ModSum
  <2>8. CASE ~ mine
    <3>1. totalCpu'[t] = s % Wrap /\ s + delta = s
          BY <2>1, <2>3, <2>4, <2>6, <2>8
    <3> QED BY <2>5, <3>1
  <2> QED BY <2>7, <2>8
<1>9. CpuAccounted'
      BY <1>8, AccountedBy
<1>10. OwnCmds'
      BY <1>0 DEF OwnCmds
<1> QED BY <1>4, <1>6, <1>9, <1>10 DEF Account, FreedStopped

\* HandleStateSet.
LEMMA StateSetAccount ==
    ASSUME Typed, Typed', Account, toRM # <<>>, toRM' = Tail(toRM), curState' = curState,
           Head(toRM).RM_Cmd = "RM_StateSet", HandleStateSet(Head(toRM))
    PROVE  Account'
<1> DEFINE cmd == Head(toRM)
<1>0. rmPc' = "select" /\ toRM \in Seq(Cmd) /\ toRM \in Seq(OwnCmd) /\ ListOK
      BY DEF HandleStateSet, Typed, FifosOK, Account, OwnCmds
<1>1. CASE RM_GetListIndex(cmd.inst) = {} /\ UNCHANGED <<componentList, totalCpu>>
  <2>1. KeepsEntries
        BY <1>1 DEF KeepsEntries, N
  <2>2. OwnEntries' /\ CpuAccounted' /\ \A d, v : InState(d, v)' <=> InState(d, v)
        BY <1>1, <2>1, EntriesAccount DEF Account, Typed
  <2>3. ASSUME NEW d, NEW v, InState(d, v) PROVE cmd \notin Unsays(d, v)
        BY <1>0, <1>1, <2>3, ListIndex DEF InState, Unsays
  <2>4. Foreseen' /\ Ordered'
        BY <1>0, <2>2, <2>3, ReportRead DEF Account
  <2>5. OwnCmds'
        BY <1>0 DEF OwnCmds
  <2> QED BY <1>0, <2>2, <2>4, <2>5 DEF Account, FreedStopped
<1>2. ASSUME NEW n \in RM_GetListIndex(cmd.inst),
             componentList' = [componentList EXCEPT ![n].state = cmd.param2],
             totalCpu' = [t \in Types |->
                 IF cmd.param1 \in DOMAIN TypeOf /\ TypeOf[cmd.param1] = t
                 THEN AddCpu(totalCpu[t], CpuDelta(cmd, componentList[n])) ELSE totalCpu[t]]
      PROVE  Account'
      BY <1>0, <1>2, StateSetListed
<1> QED BY <1>1, <1>2 DEF HandleStateSet

\* The removal takes an entry that does not execute.
LEMMA RemovalAccount ==
    ASSUME Typed, Typed', Account, RemoveFreed, UNCHANGED clientVars PROVE Account'
<1> DEFINE inst == cmd_data.inst
           l == componentList
<1>0. /\ rmPc = "remove" /\ rmPc' = "select" /\ toRM' = toRM /\ RM_RemoveComponentFromList(inst)
      /\ ListOK /\ totalCpu' = totalCpu /\ curState' = curState /\ l \in Seq(Entry)
      BY DEF RemoveFreed, Typed, ListOK, clientVars
<1>1. \A i \in 1..N' : \E j \in 1..N : l'[i] = l[j]
      BY <1>0, EntryRemoved
<1>2. OwnEntries' /\ \A d, v : InState(d, v)' => InState(d, v)
      BY <1>1 DEF OwnEntries, InState, Account
<1>3. Foreseen' /\ Ordered'
      BY <1>0, <1>2, ReportsSame DEF Account
<1>4. ASSUME NEW t PROVE ExecSum(l', t) = ExecSum(l, t)
  <2>1. CASE RM_GetListIndex(inst) = {}
        BY <1>0, <2>1 DEF RM_RemoveComponentFromList
  <2>2. CASE RM_GetListIndex(inst) # {}
    <3> DEFINE n == CHOOSE i \in RM_GetListIndex(inst) : TRUE
    <3>1. l' = [i \in 1..(Len(l) - 1) |-> IF i >= n THEN l[i + 1] ELSE l[i]]
          BY <1>0, <2>2 DEF RM_RemoveComponentFromList, N
    <3>2. n \in 1..Len(l) /\ l[n].inst = inst
      <4>1. n \in RM_GetListIndex(inst)
            BY <2>2
      <4> HIDE DEF n
      <4> QED BY <1>0, <4>1, ListIndex DEF N
    <3> HIDE DEF n
    <3>3. ~ InState(inst, OMX_StateExecuting)
          BY <1>0 DEF Account, FreedStopped
    <3>4. ShareOf(l[n], t) = 0
          BY <3>2, <3>3 DEF InState, ShareOf, N
    <3> HIDE DEF l
    <3> QED BY <1>0, <3>1, <3>2, <3>4, ExecSumRemoved
  <2> QED BY <2>1, <2>2
<1>5. CpuAccounted'
      BY <1>0, <1>4, AccountedBy DEF Account
<1> QED BY <1>0, <1>2, <1>3, <1>5 DEF Account, FreedStopped, OwnCmds

\* A turn of main() that finds a command.
LEMMA CommandAccount ==
    ASSUME OneHealthy, Typed, Typed', Account, ReadCommand, UNCHANGED clientVars PROVE Account'
<1> DEFINE cmd == Head(toRM)
<1>0. toRM # <<>> /\ toRM' = Tail(toRM) /\ curState' = curState
      BY DEF ReadCommand, clientVars
<1>2. ASSUME rmPc' = "select", UNCHANGED <<componentList, totalCpu>>, cmd.RM_Cmd # "RM_StateSet"
      PROVE  Account'
      BY <1>0, <1>2, QuietAccount
<1>3. CASE cmd.RM_Cmd = "RM_RequestResource" /\ HandleRequestResource(cmd)
      BY <1>2, <1>3 DEF HandleRequestResource
<1>4. CASE /\ cmd.RM_Cmd = "RM_WaitForResource" /\ rmPc' = "select"
           /\ UNCHANGED <<toPM, globalrequest_cmd_data, componentList, openPipes, totalCpu>>
      BY <1>2, <1>4
<1>5. CASE cmd.RM_Cmd \in {"RM_FreeResource", "RM_FreeAndCloseResource"} /\ HandleFreeResource(cmd)
      BY <1>0, <1>5, FreeAccount
<1>6. CASE cmd.RM_Cmd = "RM_StateSet" /\ HandleStateSet(cmd)
      BY <1>0, <1>6, StateSetAccount
<1>7. CASE \/ cmd.RM_Cmd = "RM_OpenPipe" /\ RM_CreatePipe(cmd)
           \/ cmd.RM_Cmd = "RM_ReusePipe" /\ RM_ReusePipe(cmd)
      BY <1>0, <1>7, EnterAccount
<1>8. CASE cmd.RM_Cmd \in {"RM_CancelWaitForResource", "RM_ExitTI"} /\ IgnoredRMCommand(cmd)
      BY <1>2, <1>8 DEF IgnoredRMCommand
<1> QED BY <1>3, <1>4, <1>5, <1>6, <1>7, <1>8 DEF ReadCommand

\* The other steps of the main thread change no entry but its status.
LEMMA DecisionAccount ==
    ASSUME Typed, Typed', Account, UNCHANGED clientVars,
           \/ PolicyPreempted \/ PolicyDenied \/ PolicyGrantedInRecovery \/ PolicyGranted
           \/ GetQosOk \/ GetQosDeny \/ GetQosFails \/ InitializeQosFails
    PROVE  Account'
<1>1. UNCHANGED <<toRM, totalCpu, curState>> /\ rmPc' # "remove"
      BY DEF PolicyPreempted, PolicyDenied, PolicyGrantedInRecovery, PolicyGranted, ReadResponse,
             GetQosOk, GetQosDeny, GetQosFails, InitializeQosFails, clientVars
<1>2. componentList' = componentList \/ \E inst, status : componentList' = RM_SetStatus(inst, status)
  <2>1. CASE PolicyPreempted
        BY <2>1 DEF PolicyPreempted
  <2>2. CASE PolicyDenied \/ PolicyGrantedInRecovery \/ PolicyGranted
        BY <2>2 DEF PolicyDenied, PolicyGrantedInRecovery, PolicyGranted, Answer
  <2>3. CASE GetQosOk \/ InitializeQosFails
        BY <2>3 DEF GetQosOk, InitializeQosFails, QosGrant, Answer
  <2>4. CASE GetQosDeny \/ GetQosFails
        BY <2>4 DEF GetQosDeny, GetQosFails, QosFreeResources
  <2> QED BY <2>1, <2>2, <2>3, <2>4
<1>3. KeepsEntries
  <2>1. CASE componentList' = componentList
        BY <2>1 DEF KeepsEntries, N
  <2>2. ASSUME NEW inst, NEW status, componentList' = RM_SetStatus(inst, status) PROVE KeepsEntries
        BY <2>2, StatusKeeps DEF Typed
  <2> QED BY <1>2, <2>1, <2>2
<1> QED BY <1>1, <1>3, RestAccount

\* Steps that touch nothing the account speaks of.
LEMMA ElsewhereAccount ==
    ASSUME Typed, Typed', Account, UNCHANGED <<clientVars, toRM, componentList, cmd_data, rmPc, totalCpu>>
    PROVE  Account'
<1>1. KeepsEntries /\ curState' = curState
      BY DEF KeepsEntries, N, clientVars
<1> QED BY <1>1, RestAccount

\* The servers and the fault thread.
LEMMA ServersAccount ==
    ASSUME OneHealthy, Typed, Typed', Staged, Account,
           ResourceManagerStep \/ WatchThreadStep \/ PolicyManagerStep
    PROVE  Account'
<1>1. CASE ResourceManagerStep
  <2>1. UNCHANGED clientVars /\ MainNext
        BY <1>1 DEF ResourceManagerStep
  <2> QED BY <2>1, CommandAccount, RemovalAccount, DecisionAccount DEF MainNext
<1>2. CASE WatchThreadStep
  <2>1. ~ Fault /\ ~ WatchFill /\ ~ WatchWrite /\ ~ WatchLoopEnds
    <3>1. watch.faults \in Nat /\ NoFault
          BY DEF Typed, ManagerOK, Watch, Staged
    <3> QED BY <3>1 DEF Fault, WatchFill, WatchStep, WatchWrite, WatchLoopEnds, NoFault, OneHealthy
  <2>2. UNCHANGED <<clientVars, toRM, componentList, cmd_data, rmPc, totalCpu>>
        BY <1>2, <2>1 DEF WatchThreadStep, WatchNext, WatchPoll, DspReopened, DspLost, MainUnchanged
  <2> QED BY <2>2, ElsewhereAccount
<1>3. CASE PolicyManagerStep
      BY <1>3, ElsewhereAccount DEF PolicyManagerStep
<1> QED BY <1>1, <1>2, <1>3

-----------------------------------------------------------------------------
(* The components and the proxy keep it.                                   *)

\* A step that sends nothing.
LEMMA SilentAccount ==
    ASSUME Typed, Typed', Account, UNCHANGED <<toRM, componentList, cmd_data, rmPc, totalCpu>>,
           \A d \in Clients, v \in Followed : curState[d] \in Believed(v) => curState'[d] \in Believed(v)
    PROVE  Account'
<1>1. KeepsEntries
      BY DEF KeepsEntries, N
<1>2. OwnEntries' /\ CpuAccounted' /\ \A d, v : InState(d, v)' <=> InState(d, v)
      BY <1>1, EntriesAccount DEF Account, Typed
<1>3. Foreseen' /\ Ordered'
      BY <1>2, ReportsSame DEF Account
<1>4. FreedStopped' /\ OwnCmds'
      BY <1>2 DEF Account, FreedStopped, OwnCmds
<1> QED BY <1>2, <1>3, <1>4 DEF Account

\* A command is sent that component c may send.
LEMMA SentAccount ==
    ASSUME Typed, Typed', Account, UNCHANGED <<componentList, cmd_data, rmPc, totalCpu>>,
           NEW c \in Clients, NEW cmd \in CmdNames, NEW param2 \in Word, NEW param4 \in Handles \cup {NoInst},
           toRM' = Append(toRM, Command(cmd, c, KindOf[c], param2, param4)),
           \A d \in Clients : d # c => curState'[d] = curState[d],
           \A v \in Followed : curState[c] \in Believed(v) =>
               curState'[c] \in Believed(v) \/ (cmd = "RM_StateSet" /\ param2 # v),
           cmd = "RM_StateSet" => /\ param2 \in Reported
                                  /\ \A v \in Followed : param2 = v => curState'[c] \in Believed(v),
           cmd \in {"RM_FreeResource", "RM_FreeAndCloseResource"} => curState[c] # "Executing",
           cmd = "RM_StateSet" /\ param2 = OMX_StateWaitForResources => curState[c] # "Executing",
           cmd = "RM_StateSet" /\ param2 = OMX_StateExecuting => curState[c] \in {"Idle", "Pause"}
    PROVE  Account'
<1> DEFINE m == Command(cmd, c, KindOf[c], param2, param4)
<1>0. toRM \in Seq(Cmd) /\ toRM \in Seq(OwnCmd) /\ c \in Inst /\ KindOf[c] \in Components
      BY Constants DEF Typed, FifosOK, Account, OwnCmds
<1>1. m \in Cmd /\ m.RM_Cmd = cmd /\ m.inst = c /\ m.param2 = param2 /\ m.param1 = KindOf[c]
      BY <1>0 DEF Command, Cmd, Statuses
<1>2. toRM' = Append(toRM, m)
      OBVIOUS
<1> HIDE DEF m
<1>3. m \in OwnCmd
      BY <1>1 DEF OwnCmd
<1>4. /\ \A d, v : m \in Says(d, v) <=> cmd = "RM_StateSet" /\ d = c /\ param2 = v
      /\ \A d, v : m \in Unsays(d, v) <=> cmd = "RM_StateSet" /\ d = c /\ param2 # v
      /\ \A d : m \in FreeOf(d) <=> cmd \in {"RM_FreeResource", "RM_FreeAndCloseResource"} /\ d = c
      BY <1>1 DEF Says, Unsays, FreeOf
<1>5. ASSUME NEW d \in Inst, NEW v \in Followed
      PROVE  /\ m \in Says(d, v) => d \in Clients /\ curState'[d] \in Believed(v)
             /\ m \notin Unsays(d, v) /\ d \in Clients /\ curState[d] \in Believed(v) => curState'[d] \in Believed(v)
             /\ m \in Barred(d, v) => ~ (d \in Clients /\ curState[d] \in Believed(v))
  <2>1. m \in Says(d, v) => d \in Clients /\ curState'[d] \in Believed(v)
        BY <1>4
  <2>2. m \notin Unsays(d, v) /\ d \in Clients /\ curState[d] \in Believed(v) => curState'[d] \in Believed(v)
        BY <1>4
  <2>3. m \in Barred(d, v) => ~ (d \in Clients /\ curState[d] \in Believed(v))
        BY <1>4 DEF Barred, Believed, Followed
  <2> QED BY <2>1, <2>2, <2>3
<1>6. Foreseen' /\ Ordered'
      BY <1>0, <1>1, <1>2, <1>5, ReportSent DEF Account
<1>7. OwnCmds'
      BY <1>0, <1>2, <1>3 DEF OwnCmds
<1>8. KeepsEntries
      BY DEF KeepsEntries, N
<1>9. OwnEntries' /\ CpuAccounted' /\ \A d, v : InState(d, v)' <=> InState(d, v)
      BY <1>8, EntriesAccount DEF Account, Typed
<1>10. FreedStopped'
      BY <1>9 DEF Account, FreedStopped
<1> QED BY <1>6, <1>7, <1>9, <1>10 DEF Account
\* A component reports a state.
LEMMA ReportAccount ==
    ASSUME Typed, Typed', Account, UNCHANGED <<componentList, cmd_data, rmPc, totalCpu>>,
           NEW c \in Clients, NEW code \in Word, code \in Reported,
           Send(c, "RM_StateSet", code, NoInst),
           \A d \in Clients : d # c => curState'[d] = curState[d],
           \A v \in Followed : /\ curState[c] \in Believed(v) => curState'[c] \in Believed(v) \/ code # v
                               /\ code = v => curState'[c] \in Believed(v),
           code = OMX_StateWaitForResources => curState[c] # "Executing",
           code = OMX_StateExecuting => curState[c] \in {"Idle", "Pause"}
    PROVE  Account'
<1>1. PICK cmd \in CmdNames : cmd = "RM_StateSet"
      BY DEF CmdNames
<1>2. toRM' = Append(toRM, Command(cmd, c, KindOf[c], code, NoInst))
      BY <1>1 DEF Send
<1>3. cmd \notin {"RM_FreeResource", "RM_FreeAndCloseResource"}
      BY <1>1
<1>4. \A v \in Followed : curState[c] \in Believed(v) =>
          curState'[c] \in Believed(v) \/ (cmd = "RM_StateSet" /\ code # v)
      BY <1>1
<1> QED BY <1>2, <1>3, <1>4, SentAccount

\* The states that are believed, one by one.
LEMMA BelievedStates ==
    /\ \A s : s \in Believed(OMX_StateExecuting) <=> s = "Executing"
    /\ \A s \in States : s \in Believed(OMX_StateWaitForResources) <=> s \notin {"Idle", "Executing", "Pause"}
    /\ \A v \in Followed : v = OMX_StateExecuting \/ v = OMX_StateWaitForResources
    /\ OMX_StateIdle \notin Followed /\ OMX_StatePause \notin Followed
    /\ OMX_StateExecuting # OMX_StateWaitForResources
    /\ OMX_StateIdle \in Reported /\ \A new \in DOMAIN StateCode : StateCode[new] \in Reported
    /\ {"connecting", "sending", "requesting", "Loaded", "Invalid", "Idle", "Executing", "Pause", "WaitForResources"} \subseteq States
BY DEF Believed, Followed, OMX_StateIdle, OMX_StatePause, OMX_StateExecuting, OMX_StateWaitForResources,
       Reported, StateCode, States, InRequest

\* Every step of a component.
LEMMA ComponentAccount ==
    ASSUME OneHealthy, Typed, Typed', Account, NEW c \in Clients, ComponentStep(c) PROVE Account'
<1>0. /\ curState \in [Clients -> States] /\ c \in Inst /\ c.pid \in Pids /\ NoInst \in Handles \cup {NoInst}
      /\ CpuOf[c] \in Word /\ 0 \in Word /\ OMX_StateIdle \in Word
      BY Constants, Codes DEF Typed, ClientOK, Word
<1>1. UNCHANGED <<componentList, cmd_data, rmPc, totalCpu>>
      BY DEF ComponentStep, RequestConnects, PipeOpened, RequestResource, StateSet, PreemptedGoesIdle,
             GoesLoaded, DeInit, ForeignCommand, RMUnchangedButIn, rmVars
<1>2. ASSUME NEW s, curState' = [curState EXCEPT ![c] = s]
      PROVE  \A d \in Clients : curState'[d] = IF d = c THEN s ELSE curState[d]
      BY <1>0, <1>2
<1>3. CASE RequestConnects(c)
  <2>1. curState[c] = "Loaded" /\ \E s \in {"connecting", "sending"} : curState' = [curState EXCEPT ![c] = s]
        BY <1>3 DEF RequestConnects
  <2>2. /\ \A d \in Clients : d # c => curState'[d] = curState[d]
        /\ curState'[c] \in {"connecting", "sending"}
        BY <1>2, <2>1
  <2>3. \A v \in Followed : curState[c] \in Believed(v) => curState'[c] \in Believed(v)
        BY <2>1, <2>2, BelievedStates
  <2>4. ASSUME NEW cmd \in {"RM_OpenPipe", "RM_ReusePipe"}, NEW param4 \in Handles \cup {NoInst},
               toRM' = Append(toRM, Command(cmd, c, KindOf[c], CpuOf[c], param4))
        PROVE  Account'
    <3>1. cmd \in CmdNames /\ cmd # "RM_StateSet" /\ cmd \notin {"RM_FreeResource", "RM_FreeAndCloseResource"}
          BY <2>4 DEF CmdNames
    <3> QED BY <1>0, <1>1, <2>2, <2>3, <2>4, <3>1, SentAccount
  <2>5. CASE numClients[c.pid] = 0
        BY <1>0, <1>3, <2>4, <2>5 DEF RequestConnects, Send
  <2>6. CASE numClients[c.pid] # 0
    <3> DEFINE other == [c EXCEPT !.pid = rmDataPid[c.pid]]
    <3>1. toRM' = Append(toRM, Command("RM_ReusePipe", other, KindOf[c], CpuOf[c], threadhandle[c.pid]))
          BY <1>3, <2>6 DEF RequestConnects
    <3>2. rmDataPid[c.pid] \in Pids /\ threadhandle[c.pid] \in Handles \cup {NoInst}
      <4>1. numClients[c.pid] > 0
            BY <1>0, <2>6, Constants DEF Typed, ClientOK
      <4> QED BY <1>0, <4>1 DEF Typed, Asking, ClientOK
    <3>3. other = c
      <4>1. rmDataPid[c.pid] = c.pid
            BY <1>0, <3>2 DEF OneHealthy, OneProcess
      <4> QED BY <1>0, <4>1 DEF Inst
    <3> HIDE DEF other
    <3> QED BY <2>4, <3>1, <3>2, <3>3
  <2> QED BY <2>5, <2>6
<1>4. CASE PipeOpened(c)
  <2>1. toRM' = toRM /\ curState[c] = "connecting" /\ curState' = [curState EXCEPT ![c] = "sending"]
        BY <1>4 DEF PipeOpened, rmVars
  <2>2. \A d \in Clients, v \in Followed : curState[d] \in Believed(v) => curState'[d] \in Believed(v)
        BY <1>2, <2>1, BelievedStates
  <2> QED BY <1>1, <2>1, <2>2, SilentAccount
<1>5. CASE RequestResource(c)
  <2>1. /\ toRM' = Append(toRM, Command("RM_RequestResource", c, KindOf[c], CpuOf[c], NoInst))
        /\ curState[c] = "sending" /\ curState' = [curState EXCEPT ![c] = "requesting"]
        BY <1>5 DEF RequestResource, Send
  <2>2. /\ \A d \in Clients : d # c => curState'[d] = curState[d]
        /\ curState'[c] = "requesting"
        BY <1>2, <2>1
  <2>3. \A v \in Followed : curState[c] \in Believed(v) => curState'[c] \in Believed(v)
        BY <2>1, <2>2, BelievedStates
  <2>4. "RM_RequestResource" \in CmdNames
        BY DEF CmdNames
  <2> QED BY <1>0, <1>1, <2>1, <2>2, <2>3, <2>4, SentAccount
<1>6. ASSUME NEW new \in DOMAIN StateCode, StateSet(c, new) PROVE Account'
  <2>1. /\ toRM' = Append(toRM, Command("RM_StateSet", c, KindOf[c], StateCode[new], NoInst))
        /\ curState' = [curState EXCEPT ![c] = new] /\ <<curState[c], new>> \in ReportedChanges
        BY <1>6 DEF StateSet, Send
  <2>2. /\ \A d \in Clients : d # c => curState'[d] = curState[d]
        /\ curState'[c] = new
        BY <1>2, <2>1
  <2>3. /\ new = "WaitForResources" => curState[c] = "Loaded"
        /\ new = "Executing" => curState[c] \in {"Idle", "Pause"}
        BY <2>1 DEF ReportedChanges
  <2>4. /\ new \in {"Idle", "Executing", "Pause", "WaitForResources"}
        /\ StateCode[new] = OMX_StateWaitForResources <=> new = "WaitForResources"
        /\ StateCode[new] = OMX_StateExecuting <=> new = "Executing"
        BY DEF StateCode, OMX_StateIdle, OMX_StatePause, OMX_StateExecuting, OMX_StateWaitForResources
  <2>5. \A v \in Followed : /\ curState[c] \in Believed(v) => curState'[c] \in Believed(v) \/ StateCode[new] # v
                            /\ StateCode[new] = v => curState'[c] \in Believed(v)
        BY <2>2, <2>3, <2>4, BelievedStates
  <2>6. "RM_StateSet" \in CmdNames /\ StateCode[new] \in Word /\ StateCode[new] \in Reported
        BY Codes, BelievedStates DEF CmdNames
  <2>7. /\ StateCode[new] = OMX_StateWaitForResources => curState[c] # "Executing"
        /\ StateCode[new] = OMX_StateExecuting => curState[c] \in {"Idle", "Pause"}
        BY <2>3, <2>4
  <2>8. Send(c, "RM_StateSet", StateCode[new], NoInst)
        BY <1>6 DEF StateSet
  <2> HIDE DEF StateCode
  <2>9. PICK code : code = StateCode[new]
        OBVIOUS
  <2> QED BY <1>1, <2>2, <2>5, <2>6, <2>7, <2>8, <2>9, ReportAccount
<1>7. CASE PreemptedGoesIdle(c)
  <2>1. CASE UNCHANGED <<toRM, curState>>
        BY <1>1, <2>1, SilentAccount
  <2>2. CASE Send(c, "RM_StateSet", OMX_StateIdle, NoInst) /\ curState' = [curState EXCEPT ![c] = "Idle"]
    <3>1. /\ \A d \in Clients : d # c => curState'[d] = curState[d]
          BY <1>2, <2>2
    <3>2. "RM_StateSet" \in CmdNames /\ toRM' = Append(toRM, Command("RM_StateSet", c, KindOf[c], OMX_StateIdle, NoInst))
          BY <2>2 DEF CmdNames, Send
    <3>3. /\ \A v \in Followed : OMX_StateIdle # v
          /\ OMX_StateIdle # OMX_StateExecuting /\ OMX_StateIdle # OMX_StateWaitForResources
          BY BelievedStates DEF Followed
    <3> QED BY <1>1, <2>2, <3>1, <3>3, BelievedStates, Codes, ReportAccount
  <2> QED BY <1>7, <2>1, <2>2 DEF PreemptedGoesIdle
<1>8. CASE GoesLoaded(c)
  <2>1. /\ toRM' = toRM /\ curState[c] \in {"Idle", "WaitForResources"}
        /\ curState' = [curState EXCEPT ![c] = "Loaded"]
        BY <1>8 DEF GoesLoaded, rmVars
  <2>2. \A d \in Clients, v \in Followed : curState[d] \in Believed(v) => curState'[d] \in Believed(v)
        BY <1>2, <2>1, BelievedStates
  <2> QED BY <1>1, <2>1, <2>2, SilentAccount
<1>9. CASE DeInit(c)
  <2>1. /\ toRM' = Append(toRM, Command(FreeCommand(c.pid), c, KindOf[c], 0, NoInst))
        /\ curState[c] \in {"Loaded", "Invalid"} /\ curState' = [curState EXCEPT ![c] = "Loaded"]
        BY <1>9 DEF DeInit, Send
  <2>2. /\ \A d \in Clients : d # c => curState'[d] = curState[d]
        /\ curState'[c] = "Loaded"
        BY <1>2, <2>1
  <2>3. \A v \in Followed : curState[c] \in Believed(v) => curState'[c] \in Believed(v)
        BY <2>1, <2>2, BelievedStates
  <2>4. FreeCommand(c.pid) \in CmdNames /\ FreeCommand(c.pid) # "RM_StateSet" /\ curState[c] # "Executing"
        BY <2>1 DEF CmdNames, FreeCommand
  <2> QED BY <1>0, <1>1, <2>1, <2>2, <2>3, <2>4, SentAccount
<1>10. CASE ForeignCommand(c)
  <2>1. PICK cmd \in {"RM_WaitForResource", "RM_CancelWaitForResource", "RM_ExitTI"} :
            toRM' = Append(toRM, Command(cmd, c, KindOf[c], 0, NoInst))
        BY <1>10 DEF ForeignCommand, Send
  <2>2. curState' = curState
        BY <1>10 DEF ForeignCommand, clientVars
  <2>3. cmd \in CmdNames /\ cmd # "RM_StateSet" /\ cmd \notin {"RM_FreeResource", "RM_FreeAndCloseResource"}
        BY DEF CmdNames
  <2> QED BY <1>0, <1>1, <2>1, <2>2, <2>3, SentAccount
<1> QED BY <1>3, <1>4, <1>5, <1>6, <1>7, <1>8, <1>9, <1>10 DEF ComponentStep

\* The proxy thread.
LEMMA ProxyAccount ==
    ASSUME OneHealthy, Typed, Typed', Staged, Account, NEW p \in Pids, ProxyStep(p) PROVE Account'
<1>0. PICK st \in Stages : Stage(st)
      BY DEF Staged
<1>1. PICK status : ReadReply(p, status)
      BY DEF ProxyStep, Granted, Denied, Preempted, Informed, FatalError, FatalErrorIgnored
<1>2. UNCHANGED <<componentList, rmPc, cmd_data, totalCpu>> /\ NoFault /\ curState \in [Clients -> States]
      BY <1>1 DEF ReadReply, Staged, Typed, ClientOK
<1>3. ~ FatalError(p) /\ ~ FatalErrorIgnored(p)
      BY <1>0, <1>2, ReplyTaken DEF Stage, FatalError, FatalErrorIgnored
<1>4. CASE Granted(p)
  <2>1. CASE UNCHANGED <<curState, toRM>>
        BY <1>2, <2>1, SilentAccount
  <2>2. ASSUME NEW c \in Requester(p), curState' = [curState EXCEPT ![c] = "Idle"],
               Send(c, "RM_StateSet", OMX_StateIdle, NoInst)
        PROVE  Account'
    <3>1. c \in Clients
          BY DEF Requester
    <3>2. \A d \in Clients : d # c => curState'[d] = curState[d]
          BY <1>2, <2>2, <3>1
    <3>3. /\ "RM_StateSet" \in CmdNames /\ OMX_StateIdle \in Word /\ NoInst \in Handles \cup {NoInst}
          /\ toRM' = Append(toRM, Command("RM_StateSet", c, KindOf[c], OMX_StateIdle, NoInst))
          BY <2>2, Codes DEF CmdNames, Send
    <3>4. /\ \A v \in Followed : OMX_StateIdle # v
          /\ OMX_StateIdle # OMX_StateExecuting /\ OMX_StateIdle # OMX_StateWaitForResources
          BY BelievedStates DEF Followed
    <3> QED BY <1>2, <2>2, <3>1, <3>2, <3>3, <3>4, BelievedStates, ReportAccount
  <2> QED BY <1>4, <2>1, <2>2 DEF Granted
<1>5. CASE Denied(p)
  <2>1. /\ toRM' = toRM
        /\ \A d \in Clients : curState'[d] = IF d \in Requester(p) THEN "WaitForResources" ELSE curState[d]
        BY <1>5 DEF Denied
  <2>2. \A d \in Requester(p) : curState[d] # "Executing"
        BY DEF Requester, InRequest
  <2>3. \A d \in Clients, v \in Followed : curState[d] \in Believed(v) => curState'[d] \in Believed(v)
        BY <2>1, <2>2, BelievedStates
  <2> QED BY <1>2, <2>1, <2>3, SilentAccount
<1>6. CASE Preempted(p) \/ Informed(p)
      BY <1>2, <1>6, SilentAccount DEF Preempted, Informed
<1> QED BY <1>3, <1>4, <1>5, <1>6 DEF ProxyStep

\* The initial state.
LEMMA InitAccount == Init => Account
<1> SUFFICES ASSUME Init PROVE Account
    OBVIOUS
<1>1. toRM = <<>> /\ componentList = <<>> /\ rmPc = "select" /\ totalCpu = [t \in Types |-> 0]
      BY DEF Init, RMInit
<1>2. N = 0 /\ Len(toRM) = 0 /\ DOMAIN toRM = {}
      BY <1>1 DEF N
<1>3. \A d, v : ~ InState(d, v)
      BY <1>2 DEF InState
<1>4. Foreseen /\ Ordered
      BY <1>2, <1>3, LogStart DEF Foreseen, Ordered, May
<1>5. FreedStopped /\ OwnCmds /\ OwnEntries
      BY <1>1, <1>2 DEF FreedStopped, OwnCmds, OwnEntries
<1>6. CpuAccounted
  <2> SUFFICES ASSUME NEW t \in Types PROVE totalCpu[t] = ExecSum(<<>>, t) % Wrap
      BY <1>1, AccountedBy
  <2>1. PICK f : f = SharesOf(<<>>, t)
        OBVIOUS
  <2>2. \E g : Sums(g, f, 0) /\ Total(f, 0) = g[0]
        BY TotalSums
  <2>3. ExecSum(<<>>, t) = 0
        BY <2>1, <2>2 DEF ExecSum, Sums
  <2>4. 0 % Wrap = 0
        BY Constants
  <2> QED BY <1>1, <2>3, <2>4
<1> QED BY <1>4, <1>5, <1>6 DEF Account

\* Every step.
LEMMA NextAccount ==
    ASSUME OneHealthy PROVE Typed /\ Typed' /\ Staged /\ Account /\ [Next]_vars => Account'
<1> SUFFICES ASSUME Typed, Typed', Staged, Account, [Next]_vars PROVE Account'
    OBVIOUS
<1>1. CASE ResourceManagerStep \/ WatchThreadStep \/ PolicyManagerStep
      BY <1>1, ServersAccount
<1>2. ASSUME NEW c \in Clients, ComponentStep(c) PROVE Account'
      BY <1>2, ComponentAccount
<1>3. ASSUME NEW p \in Pids, ProxyStep(p) PROVE Account'
      BY <1>3, ProxyAccount
<1>4. CASE UNCHANGED vars
      BY <1>4, ElsewhereAccount DEF vars, rmVars
<1> QED BY <1>1, <1>2, <1>3, <1>4 DEF Next

\* For one process and a DSP that does not fail, whatever else happens (requests
\* that overlap with frees, components that wait for resources, frees of
\* components that never asked, stub mode): the total that HandleStateSet keeps
\* per type is the sum over the components of the type that execute, modulo
\* 2^32.  Each report adds the difference that it makes, in whatever state it
\* finds the entry, and no entry is removed while it executes.
THEOREM CpuTotalsRight ==
    ASSUME OneHealthy PROVE Spec => []CpuAccounted
<1>1. OneAtATime
      BY DEF OneAtATime, OneHealthy
<1>2. Spec => []Staged
      BY <1>1, InitStaged, NextStaged, AlwaysTyped, PTL DEF Spec
<1>3. Spec => []Account
      BY <1>2, InitAccount, NextAccount, AlwaysTyped, PTL DEF Spec
<1>4. Account => CpuAccounted
      BY DEF Account
<1> QED BY <1>3, <1>4, PTL
=============================================================================
