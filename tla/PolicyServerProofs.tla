------------------------- MODULE PolicyServerProofs -------------------------
(***************************************************************************)
(* Proofs about the policy manager for every table, every set of           *)
(* instances and every capacity.  The invariant RunningSupported is not    *)
(* inductive: the coexistence test looks only at activeComponentList, so   *)
(* the proof needs KindsMatched, an injection from the registered          *)
(* instances into that list, and RegisteredOnce.                           *)
(* With these the policy manager implements PolicyArbiter.                 *)
(***************************************************************************)
EXTENDS PolicyServer, LoopLemmas

\* The search of pComponentList finds a registered instance.
LEMMA FirstWithInstanceFound ==
    ASSUME NEW inst \in Registered, TypeOK
    PROVE  FirstWithInstance(inst) # {}
<1> DEFINE M == {m \in DOMAIN pComponentList : pComponentList[m] = inst}
<1>1. /\ Len(pComponentList) \in Nat
      /\ DOMAIN pComponentList = 1..Len(pComponentList)
      BY DEF TypeOK
<1>2. M # {} /\ M \in SUBSET (1..Len(pComponentList))
      BY <1>1 DEF Registered
<1>3. PICK m \in M : \A j \in 1..(m - 1) : j \notin M
      BY <1>1, <1>2, FirstMatch
<1>4. \A j \in 1..(m - 1) : j \in DOMAIN pComponentList
      BY <1>1, <1>3
<1>5. m \in FirstWithInstance(inst)
      BY <1>3, <1>4 DEF FirstWithInstance
<1> QED BY <1>5

\* The search of activeComponentList finds a kind that is in it.
LEMMA FirstWithComponentFound ==
    ASSUME TypeOK, NEW i \in DOMAIN activeComponentList
    PROVE  FirstWithComponent(activeComponentList[i].component) # {}
<1> DEFINE x == activeComponentList[i].component
           M == {m \in DOMAIN activeComponentList :
                    activeComponentList[m].component = x}
<1>1. /\ Len(activeComponentList) \in Nat
      /\ DOMAIN activeComponentList = 1..Len(activeComponentList)
      BY DEF TypeOK
<1>2. M # {} /\ M \in SUBSET (1..Len(activeComponentList))
      BY <1>1
<1>3. PICK m \in M : \A j \in 1..(m - 1) : j \notin M
      BY <1>1, <1>2, FirstMatch
<1>4. \A j \in 1..(m - 1) : j \in DOMAIN activeComponentList
      BY <1>1, <1>3
<1>5. m \in FirstWithComponent(x)
      BY <1>3, <1>4 DEF FirstWithComponent
<1> QED BY <1>5

\* GetPriority returns a table priority, or -1 when x is not in combination k.
LEMMA GetPriorityRange ==
    ASSUME NEW x, NEW k
    PROVE  /\ GetPriority(x, k) \in -1..255
           /\ ~ IsComponentSupported(x, k) => GetPriority(x, k) = -1
<1>1. CASE ~ IsComponentSupported(x, k)
      BY <1>1 DEF GetPriority
<1>2. CASE IsComponentSupported(x, k)
  <2> DEFINE c == policyCombinationTable[k]
             M == {i \in DOMAIN c : c[i].component = x}
  <2>1. k \in Combinations /\ M # {}
        BY <1>2 DEF IsComponentSupported
  <2>2. c \in Seq(PriorityEntry)
        BY <2>1, TableAssumption DEF Combinations
  <2>3. Len(c) \in Nat /\ DOMAIN c = 1..Len(c)
        BY <2>2
  <2>4. M \in SUBSET (1..Len(c))
        BY <2>3
  <2>5. PICK m \in M : \A j \in 1..(m - 1) : j \notin M
        BY <2>1, <2>3, <2>4, FirstMatch
  <2>6. /\ m \in DOMAIN c
        /\ c[m].component = x
        /\ \A j \in 1..(m - 1) : c[j].component # x
        BY <2>3, <2>5
  <2>7. EntryFor(x, k) \in DOMAIN c
        BY <2>6 DEF EntryFor
  <2>8. c[EntryFor(x, k)] \in PriorityEntry
        BY <2>2, <2>3, <2>7
  <2> QED BY <1>2, <2>8 DEF GetPriority, PriorityEntry
<1> QED BY <1>1, <1>2

-----------------------------------------------------------------------------
(* What the two list operations do to the two lists.                       *)

\* Register keeps the types of the two lists and their common length.
LEMMA RegisterTypes ==
    ASSUME TypeOK, NEW inst \in Instances, NEW x \in Components,
           NEW priority \in -1..255, Register(inst, x, priority)
    PROVE  /\ pComponentList' \in Seq(Instances)
           /\ activeComponentList' \in Seq(PriorityEntry)
           /\ Len(activeComponentList') = Len(pComponentList')
<1>1. CASE inst \in Registered
      BY <1>1 DEF Register, TypeOK
<1>2. CASE inst \notin Registered
  <2>1. [component |-> x, priority |-> priority % 256] \in PriorityEntry
        BY DEF PriorityEntry
  <2>2. /\ pComponentList' = Append(pComponentList, inst)
        /\ activeComponentList' =
               Append(activeComponentList,
                      [component |-> x, priority |-> priority % 256])
        BY <1>2 DEF Register
  <2>3. \A e \in PriorityEntry : Append(activeComponentList, e) \in Seq(PriorityEntry)
                                 /\ Len(Append(activeComponentList, e)) = Len(activeComponentList) + 1
        BY DEF TypeOK
  <2>4. /\ Append(pComponentList, inst) \in Seq(Instances)
        /\ Len(Append(pComponentList, inst)) = Len(pComponentList) + 1
        BY DEF TypeOK
  <2> QED BY <2>1, <2>2, <2>3, <2>4 DEF TypeOK
<1> QED BY <1>1, <1>2

\* Register adds its instance, and no second copy of it.
LEMMA RegisterOnce ==
    ASSUME TypeOK, RegisteredOnce, NEW inst \in Instances, NEW x, NEW priority,
           Register(inst, x, priority)
    PROVE  /\ \A i, j \in DOMAIN pComponentList' :
                 pComponentList'[i] = pComponentList'[j] => i = j
           /\ Registered' = Registered \cup {inst}
<1>1. CASE inst \in Registered
      BY <1>1 DEF Register, RegisteredOnce, Registered
<1>2. CASE inst \notin Registered
  <2>1. pComponentList' = Append(pComponentList, inst)
        BY <1>2 DEF Register
  <2>2. /\ DOMAIN pComponentList' = 1..(Len(pComponentList) + 1)
        /\ DOMAIN pComponentList = 1..Len(pComponentList)
        /\ pComponentList'[Len(pComponentList) + 1] = inst
        /\ \A i \in 1..Len(pComponentList) :
              pComponentList'[i] = pComponentList[i]
        BY <2>1 DEF TypeOK
  <2>3. Len(pComponentList) \in Nat
        BY DEF TypeOK
  <2>4. \A i \in 1..Len(pComponentList) : pComponentList[i] # inst
        BY <1>2, <2>2 DEF Registered
  <2> QED BY <2>2, <2>3, <2>4 DEF RegisteredOnce, Registered
<1> QED BY <1>1, <1>2

\* A new instance and the entry of its kind are appended together.
LEMMA RegisterMatched ==
    ASSUME TypeOK, Matched, NEW inst \in Instances, NEW priority,
           Register(inst, KindOf[inst], priority)
    PROVE  Matched'
<1>1. CASE inst \in Registered
      BY <1>1 DEF Register, Matched
<1>2. CASE inst \notin Registered
  <2> DEFINE n == Len(pComponentList)
  <2>1. PICK f \in [DOMAIN pComponentList -> DOMAIN activeComponentList] :
            /\ \A i, j \in DOMAIN pComponentList : f[i] = f[j] => i = j
            /\ \A i \in DOMAIN pComponentList :
                  activeComponentList[f[i]].component = KindOf[pComponentList[i]]
        BY DEF Matched
  <2>2. /\ n \in Nat
        /\ DOMAIN pComponentList = 1..n
        /\ DOMAIN activeComponentList = 1..n
        BY DEF TypeOK
  <2>3. /\ DOMAIN pComponentList' = 1..(n + 1)
        /\ pComponentList'[n + 1] = inst
        /\ \A i \in 1..n : pComponentList'[i] = pComponentList[i]
    <3>1. pComponentList' = Append(pComponentList, inst)
          BY <1>2 DEF Register
    <3> QED BY <3>1 DEF TypeOK
  <2>4. /\ DOMAIN activeComponentList' = 1..(n + 1)
        /\ activeComponentList'[n + 1].component = KindOf[inst]
        /\ \A i \in 1..n : activeComponentList'[i] = activeComponentList[i]
    <3> DEFINE e == [component |-> KindOf[inst], priority |-> priority % 256]
    <3>1. activeComponentList' = Append(activeComponentList, e)
          BY <1>2 DEF Register
    <3>2. e.component = KindOf[inst]
          OBVIOUS
    <3> HIDE DEF e
    <3> QED BY <3>1, <3>2 DEF TypeOK
  <2> DEFINE g == [i \in 1..(n + 1) |-> IF i = n + 1 THEN n + 1 ELSE f[i]]
  <2>5. g \in [1..(n + 1) -> 1..(n + 1)]
        BY <2>1, <2>2
  <2>6. \A i, j \in 1..(n + 1) : g[i] = g[j] => i = j
        BY <2>1, <2>2
  <2>7. \A i \in 1..(n + 1) :
            activeComponentList'[g[i]].component = KindOf[pComponentList'[i]]
        BY <2>1, <2>2, <2>3, <2>4
  <2> HIDE DEF g
  <2> QED BY <2>3, <2>4, <2>5, <2>6, <2>7 DEF Matched
<1> QED BY <1>1, <1>2

\* The array loops that move entries up keep the length...
LEMMA ShiftUpType ==
    ASSUME NEW S, NEW list \in Seq(S), NEW m
    PROVE  /\ ShiftUp(list, m) \in Seq(S)
           /\ Len(ShiftUp(list, m)) = Len(list)
<1>1. /\ Len(list) \in Nat
      /\ DOMAIN list = 1..Len(list)
      /\ \A i \in 1..Len(list) : list[i] \in S
      OBVIOUS
<1>2. \A i \in 1..Len(list) : i < Len(list) => i + 1 \in 1..Len(list)
      BY <1>1
<1>3. ShiftUp(list, m) \in [1..Len(list) -> S]
      BY <1>1, <1>2 DEF ShiftUp
<1> QED BY <1>1, <1>3

\* ...and the decremented counter drops the last slot.
LEMMA TruncateType ==
    ASSUME NEW S, NEW list \in Seq(S), Len(list) > 0
    PROVE  /\ Truncate(list) \in Seq(S)
           /\ Len(Truncate(list)) = Len(list) - 1
<1>1. Len(list) - 1 \in Nat
      OBVIOUS
<1>2. Truncate(list) \in [1..(Len(list) - 1) -> S]
      BY DEF Truncate
<1> QED BY <1>1, <1>2

\* RemoveComponentFromList keeps the types and the common length.
LEMMA RemoveTypes ==
    ASSUME TypeOK, NEW inst, NEW x, RemoveComponentFromList(inst, x)
    PROVE  /\ pComponentList' \in Seq(Instances)
           /\ activeComponentList' \in Seq(PriorityEntry)
           /\ Len(activeComponentList') = Len(pComponentList')
<1> DEFINE shifted ==
        IF FirstWithComponent(x) = {} THEN activeComponentList
        ELSE ShiftUp(activeComponentList,
                     CHOOSE m \in FirstWithComponent(x) : TRUE)
<1>1. /\ shifted \in Seq(PriorityEntry)
      /\ Len(shifted) = Len(pComponentList)
      BY ShiftUpType DEF TypeOK
<1>2. CASE FirstWithInstance(inst) = {}
      BY <1>1, <1>2 DEF RemoveComponentFromList, TypeOK
<1>3. CASE FirstWithInstance(inst) # {}
  <2> DEFINE sp == ShiftUp(pComponentList,
                           CHOOSE m \in FirstWithInstance(inst) : TRUE)
  <2>1. sp \in Seq(Instances) /\ Len(sp) = Len(pComponentList)
        BY ShiftUpType DEF TypeOK
  <2>2. Len(pComponentList) > 0
        BY <1>3 DEF FirstWithInstance, TypeOK
  <2>3. /\ activeComponentList' = Truncate(shifted)
        /\ pComponentList' = Truncate(sp)
        BY <1>3 DEF RemoveComponentFromList
  <2> HIDE DEF shifted, sp
  <2> QED BY <1>1, <2>1, <2>2, <2>3, TruncateType
<1> QED BY <1>2, <1>3

\* The shape of both lists after an instance was found and removed.
LEMMA RemovedLists ==
    ASSUME TypeOK, NEW inst, NEW x, RemoveComponentFromList(inst, x),
           FirstWithInstance(inst) # {}
    PROVE  \E n \in DOMAIN pComponentList :
              /\ pComponentList[n] = inst
              /\ DOMAIN pComponentList' = 1..(Len(pComponentList) - 1)
              /\ \A i \in 1..(Len(pComponentList) - 1) :
                    pComponentList'[i] =
                        pComponentList[IF i >= n THEN i + 1 ELSE i]
<1> DEFINE n == CHOOSE m \in FirstWithInstance(inst) : TRUE
           N == Len(pComponentList)
           sp == ShiftUp(pComponentList, n)
<1>1. n \in DOMAIN pComponentList /\ pComponentList[n] = inst
      BY DEF FirstWithInstance
<1>2. N \in Nat /\ DOMAIN pComponentList = 1..N
      BY DEF TypeOK
<1>3. pComponentList' = Truncate(sp)
      BY DEF RemoveComponentFromList
<1>4. Len(sp) = N
      BY ShiftUpType DEF TypeOK
<1>5. \A i \in 1..N : sp[i] = IF i >= n /\ i < N THEN pComponentList[i + 1]
                              ELSE pComponentList[i]
      BY <1>2 DEF ShiftUp
<1> HIDE DEF n, sp
<1>6. /\ DOMAIN pComponentList' = 1..(N - 1)
      /\ \A i \in 1..(N - 1) : pComponentList'[i] = sp[i]
      BY <1>3, <1>4 DEF Truncate
<1>7. \A i \in 1..(N - 1) :
          pComponentList'[i] = pComponentList[IF i >= n THEN i + 1 ELSE i]
      BY <1>2, <1>5, <1>6
<1> QED BY <1>1, <1>6, <1>7

\* The removed instance is gone and the others are still registered once.
LEMMA RemoveOnce ==
    ASSUME TypeOK, RegisteredOnce, NEW inst, NEW x,
           RemoveComponentFromList(inst, x)
    PROVE  /\ \A i, j \in DOMAIN pComponentList' :
                 pComponentList'[i] = pComponentList'[j] => i = j
           /\ Registered' = Registered \ {inst}
<1>1. CASE FirstWithInstance(inst) = {}
  <2>1. inst \notin Registered
        BY <1>1, FirstWithInstanceFound
  <2>2. UNCHANGED pComponentList
        BY <1>1 DEF RemoveComponentFromList
  <2> QED BY <2>1, <2>2 DEF RegisteredOnce, Registered
<1>2. CASE FirstWithInstance(inst) # {}
  <2> DEFINE N == Len(pComponentList)
  <2>1. PICK n \in DOMAIN pComponentList :
              /\ pComponentList[n] = inst
              /\ DOMAIN pComponentList' = 1..(N - 1)
              /\ \A i \in 1..(N - 1) :
                    pComponentList'[i] =
                        pComponentList[IF i >= n THEN i + 1 ELSE i]
        BY <1>2, RemovedLists
  <2>2. N \in Nat /\ DOMAIN pComponentList = 1..N
        BY DEF TypeOK
  <2> DEFINE up(i) == IF i >= n THEN i + 1 ELSE i
  <2>3. \A i \in 1..(N - 1) : up(i) \in 1..N /\ up(i) # n
        BY <2>1, <2>2
  <2>4. \A i, j \in 1..(N - 1) : up(i) = up(j) => i = j
        BY <2>1, <2>2
  <2>5. \A k \in 1..N : k # n => \E i \in 1..(N - 1) : up(i) = k
    <3> TAKE k \in 1..N
    <3> HAVE k # n
    <3>1. CASE k < n
          BY <3>1, <2>1, <2>2
    <3>2. CASE k > n
      <4>1. k - 1 \in 1..(N - 1) /\ up(k - 1) = k
            BY <3>2, <2>1, <2>2
      <4> QED BY <4>1
    <3> QED BY <3>1, <3>2, <2>1, <2>2
  <2>6. \A i \in 1..(N - 1) : pComponentList'[i] = pComponentList[up(i)]
        BY <2>1
  <2> HIDE DEF up
  <2>7. \A i, j \in DOMAIN pComponentList' :
              pComponentList'[i] = pComponentList'[j] => i = j
        BY <2>1, <2>2, <2>3, <2>4, <2>6 DEF RegisteredOnce
  <2>8. \A k \in 1..N : k # n => pComponentList[k] # inst
        BY <2>1, <2>2 DEF RegisteredOnce
  <2>9. Registered' = {pComponentList'[i] : i \in 1..(N - 1)}
        BY <2>1 DEF Registered
  <2>10. Registered = {pComponentList[i] : i \in 1..N}
        BY <2>2 DEF Registered
  <2>11. Registered' \subseteq Registered \ {inst}
        BY <2>3, <2>6, <2>8, <2>9, <2>10
  <2>12. Registered \ {inst} \subseteq Registered'
        BY <2>1, <2>5, <2>6, <2>9, <2>10
  <2> QED BY <2>7, <2>11, <2>12
<1> QED BY <1>1, <1>2

\* A registered instance leaves together with one entry of its kind, perhaps
\* not its own: the injection is repaired by handing that one over.
LEMMA RemoveMatched ==
    ASSUME TypeOK, Matched, NEW inst \in Registered,
           RemoveComponentFromList(inst, KindOf[inst])
    PROVE  Matched'
<1> DEFINE N == Len(pComponentList)
           x == KindOf[inst]
           m == CHOOSE k \in FirstWithComponent(x) : TRUE
           sa == ShiftUp(activeComponentList, m)
<1>1. PICK f \in [DOMAIN pComponentList -> DOMAIN activeComponentList] :
            /\ \A i, j \in DOMAIN pComponentList : f[i] = f[j] => i = j
            /\ \A i \in DOMAIN pComponentList :
                  activeComponentList[f[i]].component = KindOf[pComponentList[i]]
      BY DEF Matched
<1>2. /\ N \in Nat
      /\ DOMAIN pComponentList = 1..N
      /\ DOMAIN activeComponentList = 1..N
      /\ Len(activeComponentList) = N
      BY DEF TypeOK
<1>3. FirstWithInstance(inst) # {}
      BY FirstWithInstanceFound
<1>4. PICK n \in DOMAIN pComponentList :
              /\ pComponentList[n] = inst
              /\ DOMAIN pComponentList' = 1..(N - 1)
              /\ \A i \in 1..(N - 1) :
                    pComponentList'[i] =
                        pComponentList[IF i >= n THEN i + 1 ELSE i]
      BY <1>3, RemovedLists
<1>5. FirstWithComponent(x) # {}
  <2>1. f[n] \in DOMAIN activeComponentList /\ activeComponentList[f[n]].component = x
        BY <1>1, <1>4
  <2> QED BY <2>1, FirstWithComponentFound
<1>6. m \in 1..N /\ activeComponentList[m].component = x
      BY <1>2, <1>5 DEF FirstWithComponent
<1>7. activeComponentList' = Truncate(sa)
      BY <1>3, <1>5 DEF RemoveComponentFromList
<1>8. Len(sa) = N
      BY <1>2, ShiftUpType DEF TypeOK
<1>9. \A i \in 1..N : sa[i] = IF i >= m /\ i < N THEN activeComponentList[i + 1]
                              ELSE activeComponentList[i]
      BY <1>2 DEF ShiftUp
<1> HIDE DEF m, sa
<1>10. /\ DOMAIN activeComponentList' = 1..(N - 1)
       /\ \A i \in 1..(N - 1) : activeComponentList'[i] = sa[i]
      BY <1>7, <1>8 DEF Truncate
<1>11. \A i \in 1..(N - 1) :
          activeComponentList'[i] = activeComponentList[IF i >= m THEN i + 1 ELSE i]
      BY <1>2, <1>6, <1>9, <1>10
<1> DEFINE up(i) == IF i >= n THEN i + 1 ELSE i
           \* the entry of each remaining instance once m is given up
           e == [k \in 1..N |-> IF f[k] = m THEN f[n] ELSE f[k]]
           dn(a) == IF a > m THEN a - 1 ELSE a
           g == [i \in 1..(N - 1) |-> dn(e[up(i)])]
<1>12. \A i \in 1..(N - 1) : up(i) \in 1..N /\ up(i) # n
      BY <1>2, <1>4
<1>13. \A i, j \in 1..(N - 1) : up(i) = up(j) => i = j
      BY <1>2, <1>4
<1>14. \A k \in 1..N : k # n =>
          /\ e[k] \in 1..N
          /\ e[k] # m
          /\ activeComponentList[e[k]].component = KindOf[pComponentList[k]]
      BY <1>1, <1>2, <1>4, <1>6
<1>15. \A k, l \in 1..N : k # n /\ l # n /\ e[k] = e[l] => k = l
      BY <1>1, <1>2, <1>4
<1> HIDE DEF e, up
<1>16. \A a \in 1..N : a # m =>
          /\ dn(a) \in 1..(N - 1)
          /\ activeComponentList'[dn(a)] = activeComponentList[a]
      BY <1>2, <1>6, <1>11
<1>17. \A a, b \in 1..N : a # m /\ b # m /\ dn(a) = dn(b) => a = b
      BY <1>2, <1>6
<1> HIDE DEF dn
<1>18. g \in [1..(N - 1) -> 1..(N - 1)]
      BY <1>12, <1>14, <1>16
<1>19. \A i, j \in 1..(N - 1) : g[i] = g[j] => i = j
      BY <1>12, <1>13, <1>14, <1>15, <1>17
<1>20. \A i \in 1..(N - 1) :
          activeComponentList'[g[i]].component = KindOf[pComponentList'[i]]
  <2>1. \A i \in 1..(N - 1) : pComponentList'[i] = pComponentList[up(i)]
        BY <1>4 DEF up
  <2>2. \A i \in 1..(N - 1) :
            /\ e[up(i)] \in 1..N /\ e[up(i)] # m
            /\ activeComponentList[e[up(i)]].component = KindOf[pComponentList[up(i)]]
        BY <1>12, <1>14
  <2>3. \A i \in 1..(N - 1) : activeComponentList'[dn(e[up(i)])] = activeComponentList[e[up(i)]]
        BY <1>16, <2>2
  <2>4. \A i \in 1..(N - 1) : g[i] = dn(e[up(i)])
        OBVIOUS
  <2> HIDE DEF g
  <2> QED BY <2>1, <2>2, <2>3, <2>4
<1> HIDE DEF g
<1>21. DOMAIN pComponentList' = 1..(N - 1)
      BY <1>4
<1> HIDE DEF N
<1>22. g \in [DOMAIN pComponentList' -> DOMAIN activeComponentList']
      BY <1>10, <1>18, <1>21
<1>23. /\ \A i, j \in DOMAIN pComponentList' : g[i] = g[j] => i = j
       /\ \A i \in DOMAIN pComponentList' :
             activeComponentList'[g[i]].component = KindOf[pComponentList'[i]]
      BY <1>19, <1>20, <1>21
<1> QED BY <1>22, <1>23, Zenon DEF Matched

-----------------------------------------------------------------------------
(* Steps of the server.                                                    *)

\* The table priorities used by the grants are OMX_U8 values or -1.
LEMMA RequestRegisters ==
    ASSUME NEW inst \in Instances, HandleRequestPolicy(inst, KindOf[inst])
    PROVE  \/ /\ \E priority \in -1..255 : Register(inst, KindOf[inst], priority)
              /\ running' \subseteq running \cup {inst}
           \/ UNCHANGED <<pComponentList, activeComponentList, running>>
<1>1. CASE \/ FirstRequestGranted(inst, KindOf[inst])
           \/ GrantedByActiveCombination(inst, KindOf[inst])
           \/ GrantedByCoexistence(inst, KindOf[inst])
           \/ GrantedByPreemption(inst, KindOf[inst])
      BY <1>1, GetPriorityRange
      DEF FirstRequestGranted, GrantedByActiveCombination, GrantedByCoexistence,
          GrantedByPreemption, GrantPolicy
<1>2. CASE \/ FirstRequestDenied(inst, KindOf[inst])
           \/ RequestDenied(inst, KindOf[inst])
      BY <1>2 DEF FirstRequestDenied, RequestDenied, DenyPolicy
<1> QED BY <1>1, <1>2 DEF HandleRequestPolicy

\* HandleFreeResources either registers the requester or leaves the lists alone.
LEMMA FreeResourcesRegisters ==
    ASSUME NEW inst \in Instances, HandleFreeResources(inst, KindOf[inst])
    PROVE  \/ /\ \E priority \in -1..255 : Register(inst, KindOf[inst], priority)
              /\ running' \subseteq running \cup {inst}
           \/ UNCHANGED <<pComponentList, activeComponentList, running>>
BY GetPriorityRange DEF HandleFreeResources, GrantPolicy, DenyPolicy

\* The responses and the holders of grants stay well typed.
LEMMA GrantTypes ==
    ASSUME TypeOK, NEW inst \in Instances, NEW x, NEW priority,
           NEW preempted \in Seq(ResponseTypes),
           GrantPolicy(inst, x, priority, preempted)
    PROVE  fromPM' \in Seq(ResponseTypes) /\ running' \subseteq Instances
<1>1. Response("PM_GRANTPOLICY", inst) \in ResponseTypes
      BY DEF Response, ResponseTypes
<1>2. <<Response("PM_GRANTPOLICY", inst)>> \in Seq(ResponseTypes)
      BY <1>1
<1>3. fromPM' \in Seq(ResponseTypes)
      BY <1>2 DEF GrantPolicy, TypeOK
<1> QED BY <1>3 DEF GrantPolicy, TypeOK

\* A denial is a well-typed response.
LEMMA DenyTypes ==
    ASSUME TypeOK, NEW inst \in Instances, DenyPolicy(inst)
    PROVE  fromPM' \in Seq(ResponseTypes) /\ running' \subseteq Instances
<1>1. Response("PM_DENYPOLICY", inst) \in ResponseTypes
      BY DEF Response, ResponseTypes
<1> QED BY <1>1 DEF DenyPolicy, TypeOK

\* So is a preemption...
LEMMA PreemptType ==
    ASSUME NEW inst \in Instances
    PROVE  PreemptComponent(inst) \in ResponseTypes
BY DEF PreemptComponent, Response, ResponseTypes

\* ...and there may be none.
LEMMA EmptyPreemption == <<>> \in Seq(ResponseTypes)
OBVIOUS

\* HandleRequestPolicy keeps the types of what is not a list of instances.
LEMMA RequestTypes ==
    ASSUME TypeOK, NEW inst \in Instances, HandleRequestPolicy(inst, KindOf[inst])
    PROVE  /\ fromPM' \in Seq(ResponseTypes)
           /\ running' \subseteq Instances
           /\ activePolicyCombination' \in Nat
           /\ UNCHANGED <<pPendingComponentList, pmExit>>
<1> DEFINE x == KindOf[inst]
<1>0. Combinations \subseteq Nat
      BY TableAssumption DEF Combinations
<1>1. CASE FirstRequestGranted(inst, x)
      BY <1>0, <1>1, GrantTypes, EmptyPreemption DEF FirstRequestGranted
<1>2. CASE FirstRequestDenied(inst, x)
      BY <1>2, DenyTypes DEF FirstRequestDenied, DenyPolicy, TypeOK
<1>3. CASE GrantedByActiveCombination(inst, x)
      BY <1>3, GrantTypes, EmptyPreemption DEF GrantedByActiveCombination, TypeOK
<1>4. CASE GrantedByCoexistence(inst, x)
      BY <1>0, <1>4, GrantTypes, EmptyPreemption DEF GrantedByCoexistence
<1>5. CASE GrantedByPreemption(inst, x)
  <2> DEFINE all == [i \in DOMAIN pComponentList |->
                        PreemptComponent(pComponentList[i])]
  <2>1. Len(pComponentList) \in Nat /\ DOMAIN pComponentList = 1..Len(pComponentList)
        BY DEF TypeOK
  <2>2. \A i \in 1..Len(pComponentList) :
            PreemptComponent(pComponentList[i]) \in ResponseTypes
        BY <2>1, PreemptType DEF TypeOK
  <2>3. all \in [1..Len(pComponentList) -> ResponseTypes]
        BY <2>1, <2>2
  <2>4. all \in Seq(ResponseTypes)
        BY <2>1, <2>3
  <2> HIDE DEF all
  <2>5. /\ \E k \in Combinations :
              /\ GrantPolicy(inst, x, GetPriority(x, k), all)
              /\ activePolicyCombination' = k
        /\ UNCHANGED <<pPendingComponentList, pmExit>>
        BY <1>5 DEF GrantedByPreemption, all
  <2> QED BY <1>0, <2>4, <2>5, GrantTypes
<1>6. CASE RequestDenied(inst, x)
      BY <1>6, DenyTypes DEF RequestDenied, DenyPolicy, TypeOK
<1> QED BY <1>1, <1>2, <1>3, <1>4, <1>5, <1>6 DEF HandleRequestPolicy

\* HandleFreeResources does too.
LEMMA FreeResourcesTypes ==
    ASSUME TypeOK, NEW inst \in Instances, HandleFreeResources(inst, KindOf[inst])
    PROVE  /\ fromPM' \in Seq(ResponseTypes)
           /\ running' \subseteq Instances
           /\ UNCHANGED <<activePolicyCombination, pPendingComponentList, pmExit>>
<1> DEFINE x == KindOf[inst]
<1>1. CASE PreemptionCandidates(inst, x) = {}
      BY <1>1, DenyTypes DEF HandleFreeResources, DenyPolicy
<1>2. CASE PreemptionCandidates(inst, x) # {}
  <2>1. PICK i \in DOMAIN pComponentList :
            /\ GrantPolicy(inst, x, GetPriority(x, activePolicyCombination),
                           <<PreemptComponent(pComponentList[i])>>)
            /\ UNCHANGED activePolicyCombination
        BY <1>2 DEF HandleFreeResources
  <2>2. <<PreemptComponent(pComponentList[i])>> \in Seq(ResponseTypes)
        BY PreemptType DEF TypeOK
  <2> QED BY <2>1, <2>2, GrantTypes DEF HandleFreeResources
<1> QED BY <1>1, <1>2

\* What a command does to misfreed, unless it is PM_FreePolicy.
Kept == misfreed' = (registeredComponents' > 0 /\ misfreed)

\* What PM_FreePolicy does to it.
Freed(inst) ==
    misfreed' = /\ registeredComponents' > 0
                /\ \/ misfreed
                   \/ inst \notin Registered /\ activeComponentList' # activeComponentList

\* The disjuncts of Next, by what they do to the lists.
LEMMA StepCases ==
    ASSUME [Next]_vars
    PROVE  \/ \E inst \in Instances :
                 \/ HandleRequestPolicy(inst, KindOf[inst]) /\ Kept
                 \/ HandleFreeResources(inst, KindOf[inst]) /\ Kept
                 \/ HandleFreePolicy(inst, KindOf[inst]) /\ Freed(inst)
                 \/ HandleWaitForPolicy(inst) /\ Kept
           \/ HandleExitTI /\ Kept
           \/ ReadResponse
           \/ UNCHANGED pmVars /\ (Kept \/ UNCHANGED misfreed)
<1>1. ASSUME NEW inst \in Instances, NEW cmd, cmd # "PM_FreePolicy",
             misfreed' = /\ registeredComponents' > 0
                         /\ \/ misfreed
                            \/ cmd = "PM_FreePolicy" /\ inst \notin Registered
                               /\ activeComponentList' # activeComponentList
      PROVE  Kept
      BY <1>1 DEF Kept
<1>2. ASSUME NEW inst \in Instances, RequestPolicy(inst)
      PROVE  HandleRequestPolicy(inst, KindOf[inst]) /\ Kept
      BY <1>1, <1>2 DEF RequestPolicy, Receive, HandleCommand, Command
<1>3. ASSUME NEW inst \in Instances, WaitForPolicy(inst)
      PROVE  HandleWaitForPolicy(inst) /\ Kept
      BY <1>1, <1>3 DEF WaitForPolicy, Receive, HandleCommand, Command
<1>4. ASSUME NEW inst \in Instances, CancelWaitForPolicy(inst)
      PROVE  UNCHANGED pmVars /\ Kept
      BY <1>1, <1>4 DEF CancelWaitForPolicy, Receive, HandleCommand, Command, IgnoredCommand
<1>5. ASSUME NEW inst \in Instances, FreePolicy(inst)
      PROVE  HandleFreePolicy(inst, KindOf[inst]) /\ Freed(inst)
      BY <1>5 DEF FreePolicy, Receive, HandleCommand, Command, Freed
<1>6. ASSUME NEW inst \in Instances, FreeResources(inst)
      PROVE  HandleFreeResources(inst, KindOf[inst]) /\ Kept
      BY <1>1, <1>6 DEF FreeResources, Receive, HandleCommand, Command
<1>7. ASSUME NEW inst \in Instances, ExitTI(inst)
      PROVE  HandleExitTI /\ Kept
      BY <1>1, <1>7 DEF ExitTI, Receive, HandleCommand, Command
<1>8. CASE UNCHANGED vars
      BY <1>8 DEF vars
<1> QED BY <1>2, <1>3, <1>4, <1>5, <1>6, <1>7, <1>8 DEF Next

\* Every global of the policy manager keeps its type and the two arrays keep one
\* length, whatever commands arrive (PolicyManager.c:64-85).
THEOREM TypeCorrect == Spec => []TypeOK
<1>1. Init => TypeOK
  <2>1. <<>> \in Seq(Instances) /\ <<>> \in Seq(PriorityEntry)
        /\ <<>> \in Seq(ResponseTypes) /\ 1 \in Nat /\ FALSE \in BOOLEAN
        OBVIOUS
  <2> QED BY <2>1, Zenon DEF Init, PMInit, TypeOK
<1>2. TypeOK /\ [Next]_vars => TypeOK'
  <2> SUFFICES ASSUME TypeOK, [Next]_vars PROVE TypeOK'
      OBVIOUS
  <2>0. misfreed' \in BOOLEAN
        BY StepCases DEF Kept, Freed, ReadResponse, TypeOK
  <2>1. ASSUME NEW inst \in Instances, HandleRequestPolicy(inst, KindOf[inst])
        PROVE  TypeOK'
    <3>1. KindOf[inst] \in Components
          BY KindAssumption
    <3>2. /\ pComponentList' \in Seq(Instances)
          /\ activeComponentList' \in Seq(PriorityEntry)
          /\ Len(activeComponentList') = Len(pComponentList')
          BY <2>1, <3>1, RequestRegisters, RegisterTypes DEF TypeOK
    <3> QED BY <2>0, <2>1, <3>2, RequestTypes DEF TypeOK
  <2>2. ASSUME NEW inst \in Instances, HandleFreeResources(inst, KindOf[inst])
        PROVE  TypeOK'
    <3>1. KindOf[inst] \in Components
          BY KindAssumption
    <3>2. /\ pComponentList' \in Seq(Instances)
          /\ activeComponentList' \in Seq(PriorityEntry)
          /\ Len(activeComponentList') = Len(pComponentList')
          BY <2>2, <3>1, FreeResourcesRegisters, RegisterTypes DEF TypeOK
    <3> QED BY <2>0, <2>2, <3>2, FreeResourcesTypes DEF TypeOK
  <2>3. ASSUME NEW inst \in Instances, HandleFreePolicy(inst, KindOf[inst])
        PROVE  TypeOK'
        BY <2>0, <2>3, RemoveTypes DEF HandleFreePolicy, TypeOK
  <2>4. ASSUME NEW inst \in Instances, HandleWaitForPolicy(inst)
        PROVE  TypeOK'
        BY <2>0, <2>4 DEF HandleWaitForPolicy, TypeOK
  <2>5. CASE HandleExitTI
        BY <2>0, <2>5 DEF HandleExitTI, TypeOK
  <2>6. CASE ReadResponse
        BY <2>0, <2>6 DEF ReadResponse, TypeOK
  <2>7. CASE UNCHANGED pmVars
        BY <2>0, <2>7 DEF pmVars, TypeOK
  <2> QED BY <2>1, <2>2, <2>3, <2>4, <2>5, <2>6, <2>7, StepCases
<1> QED BY <1>1, <1>2, PTL DEF Spec

\* For every client, well behaved or not: no instance is registered twice and
\* whoever holds a grant is registered.
THEOREM RegistrationSound == Spec => []RegisteredOnce
<1>1. Init => RegisteredOnce
      BY DEF Init, PMInit, RegisteredOnce, Registered
<1>2. TypeOK /\ RegisteredOnce /\ [Next]_vars => RegisteredOnce'
  <2> SUFFICES ASSUME TypeOK, RegisteredOnce, [Next]_vars PROVE RegisteredOnce'
      OBVIOUS
  <2>0. UNCHANGED <<pComponentList, running>> => RegisteredOnce'
        BY DEF RegisteredOnce, Registered
  <2>1. ASSUME NEW inst \in Instances, HandleRequestPolicy(inst, KindOf[inst])
        PROVE  RegisteredOnce'
        BY <2>0, <2>1, RequestRegisters, RegisterOnce DEF RegisteredOnce
  <2>2. ASSUME NEW inst \in Instances, HandleFreeResources(inst, KindOf[inst])
        PROVE  RegisteredOnce'
        BY <2>0, <2>2, FreeResourcesRegisters, RegisterOnce DEF RegisteredOnce
  <2>3. ASSUME NEW inst \in Instances, HandleFreePolicy(inst, KindOf[inst])
        PROVE  RegisteredOnce'
        BY <2>3, RemoveOnce DEF HandleFreePolicy, RegisteredOnce
  <2>4. ASSUME NEW inst \in Instances, HandleWaitForPolicy(inst)
        PROVE  RegisteredOnce'
        BY <2>0, <2>4 DEF HandleWaitForPolicy
  <2>5. CASE HandleExitTI
        BY <2>0, <2>5 DEF HandleExitTI
  <2>6. CASE ReadResponse
        BY <2>0, <2>6 DEF ReadResponse
  <2>7. CASE UNCHANGED pmVars
        BY <2>0, <2>7 DEF pmVars
  <2> QED BY <2>1, <2>2, <2>3, <2>4, <2>5, <2>6, <2>7, StepCases
<1> QED BY <1>1, <1>2, TypeCorrect, PTL DEF Spec

-----------------------------------------------------------------------------
(* The policy itself.                                                      *)

\* The new holder is supported by the combination its request ends in, and
\* so is everybody who keeps a grant.
LEMMA RequestKeepsPolicy ==
    ASSUME TypeOK, RegisteredOnce, Matched, CombinationFits,
           NEW inst \in Instances, HandleRequestPolicy(inst, KindOf[inst])
    PROVE  CombinationFits'
<1> DEFINE x == KindOf[inst]
<1>1. CASE FirstRequestGranted(inst, x)
  <2>1. running = {}
        BY <1>1 DEF FirstRequestGranted, registeredComponents, RegisteredOnce,
                    Registered, TypeOK
  <2>2. running' = {inst}
        BY <1>1, <2>1 DEF FirstRequestGranted, GrantPolicy
  <2>3. IsComponentSupported(x, activePolicyCombination')
        BY <1>1 DEF FirstRequestGranted, IsFirst, GetSupportingCombinations
  <2> QED BY <2>2, <2>3 DEF CombinationFits, CheckActiveCombination
<1>2. CASE \/ FirstRequestDenied(inst, x)
           \/ RequestDenied(inst, x)
      BY <1>2 DEF FirstRequestDenied, RequestDenied, DenyPolicy,
                  CombinationFits, CheckActiveCombination
<1>3. CASE GrantedByActiveCombination(inst, x)
  <2>1. running' = running \cup {inst}
        BY <1>3 DEF GrantedByActiveCombination, GrantPolicy
  <2>2. /\ CheckActiveCombination(x)
        /\ UNCHANGED activePolicyCombination
        BY <1>3 DEF GrantedByActiveCombination
  <2> QED BY <2>1, <2>2 DEF CombinationFits, CheckActiveCombination
<1>4. CASE GrantedByCoexistence(inst, x)
  <2>1. running' = running \cup {inst}
        BY <1>4 DEF GrantedByCoexistence, GrantPolicy
  <2>2. activePolicyCombination' \in CoexistCombinations(x)
        BY <1>4 DEF GrantedByCoexistence, IsFirst
  <2>3. /\ IsComponentSupported(x, activePolicyCombination')
        /\ \A j \in DOMAIN activeComponentList :
              IsComponentSupported(activeComponentList[j].component,
                                   activePolicyCombination')
        BY <2>2 DEF CoexistCombinations, GetSupportingCombinations
  <2>4. ASSUME NEW r \in running
        PROVE  IsComponentSupported(KindOf[r], activePolicyCombination')
    <3>1. PICK i \in DOMAIN pComponentList : pComponentList[i] = r
          BY DEF RegisteredOnce, Registered
    <3>2. \E j \in DOMAIN activeComponentList :
              activeComponentList[j].component = KindOf[r]
          BY <3>1 DEF Matched
    <3> QED BY <2>3, <3>2
  <2> QED BY <2>1, <2>3, <2>4 DEF CombinationFits, CheckActiveCombination
<1>5. CASE GrantedByPreemption(inst, x)
  <2> DEFINE all == [i \in DOMAIN pComponentList |->
                        PreemptComponent(pComponentList[i])]
  <2>1. running' = (running \ {all[i].inst : i \in DOMAIN all}) \cup {inst}
        BY <1>5 DEF GrantedByPreemption, GrantPolicy
  <2>2. \A r \in running : \E i \in DOMAIN all : all[i].inst = r
        BY DEF RegisteredOnce, Registered, PreemptComponent, Response
  <2>3. running' = {inst}
        BY <2>1, <2>2
  <2>4. IsComponentSupported(x, activePolicyCombination')
        BY <1>5 DEF GrantedByPreemption, IsLast, GetSupportingCombinations
  <2> QED BY <2>3, <2>4 DEF CombinationFits, CheckActiveCombination
<1> QED BY <1>1, <1>2, <1>3, <1>4, <1>5 DEF HandleRequestPolicy

\* HandleFreeResources grants only to a component of the active combination:
\* outside it GetPriority is -1 and no stored priority is that low.
LEMMA FreeResourcesKeepsPolicy ==
    ASSUME TypeOK, CombinationFits,
           NEW inst \in Instances, HandleFreeResources(inst, KindOf[inst])
    PROVE  CombinationFits'
<1> DEFINE x == KindOf[inst]
<1>1. CASE PreemptionCandidates(inst, x) = {}
      BY <1>1 DEF HandleFreeResources, DenyPolicy, CombinationFits,
                  CheckActiveCombination
<1>2. CASE PreemptionCandidates(inst, x) # {}
  <2>1. /\ running' \subseteq running \cup {inst}
        /\ UNCHANGED activePolicyCombination
        BY <1>2 DEF HandleFreeResources, GrantPolicy
  <2>2. PICK i \in DOMAIN pComponentList :
            activeComponentList[i].priority <= GetPriority(x, activePolicyCombination)
        BY <1>2 DEF PreemptionCandidates
  <2>3. activeComponentList[i] \in PriorityEntry
        BY DEF TypeOK
  <2>4. activeComponentList[i].priority \in 0..255
        BY <2>3 DEF PriorityEntry
  <2>5. CheckActiveCombination(x)
        BY <2>2, <2>4, GetPriorityRange DEF CheckActiveCombination
  <2> QED BY <2>1, <2>5 DEF CombinationFits, CheckActiveCombination
<1> QED BY <1>1, <1>2

\* misfreed, once set, stands for a list that is not empty; while it is not set, the
\* two arrays match and what runs together is of the combination in force.  The two
\* facts about the arrays need each other.
Undisturbed ==
    /\ misfreed => registeredComponents > 0
    /\ ~ misfreed => Matched /\ CombinationFits

\* Once nobody is registered, there is nothing to match and nobody runs.
LEMMA EmptyMatches ==
    ASSUME TypeOK, RegisteredOnce, ~ (registeredComponents > 0)
    PROVE  Matched /\ CombinationFits
<1>1. DOMAIN pComponentList = {}
      BY DEF TypeOK, registeredComponents
<1>2. DOMAIN activeComponentList = {}
      BY DEF TypeOK, registeredComponents
<1>3. [i \in {} |-> i] \in [DOMAIN pComponentList -> DOMAIN activeComponentList]
      BY <1>1, <1>2
<1>4. Matched
      BY <1>1, <1>3 DEF Matched
<1>5. running = {}
      BY <1>1 DEF RegisteredOnce, Registered
<1> QED BY <1>4, <1>5 DEF CombinationFits

\* Every command keeps Undisturbed.
LEMMA UndisturbedStep ==
    ASSUME TypeOK, RegisteredOnce, Undisturbed, TypeOK', RegisteredOnce', [Next]_vars
    PROVE  Undisturbed'
<1>0. /\ UNCHANGED <<pComponentList, activeComponentList>> => (Matched => Matched')
      /\ UNCHANGED <<running, activePolicyCombination>> => (CombinationFits => CombinationFits')
      BY DEF Matched, CombinationFits, CheckActiveCombination
<1>1. misfreed' => registeredComponents' > 0
  <2>1. Kept \/ (\E inst \in Instances : Freed(inst))
           \/ UNCHANGED <<pComponentList, misfreed>>
        BY StepCases DEF ReadResponse, pmVars
  <2> QED BY <2>1 DEF Kept, Freed, Undisturbed, registeredComponents
<1>2. ASSUME ~ misfreed', registeredComponents' > 0
      PROVE  Matched' /\ CombinationFits'
  <2>1. ASSUME NEW inst \in Instances, HandleRequestPolicy(inst, KindOf[inst]), Kept
        PROVE  Matched' /\ CombinationFits'
    <3>1. Matched /\ CombinationFits
          BY <1>2, <2>1 DEF Kept, Undisturbed
    <3> QED BY <1>0, <2>1, <3>1, RequestRegisters, RegisterMatched, RequestKeepsPolicy
  <2>2. ASSUME NEW inst \in Instances, HandleFreeResources(inst, KindOf[inst]), Kept
        PROVE  Matched' /\ CombinationFits'
    <3>1. Matched /\ CombinationFits
          BY <1>2, <2>2 DEF Kept, Undisturbed
    <3> QED BY <1>0, <2>2, <3>1, FreeResourcesRegisters, RegisterMatched,
               FreeResourcesKeepsPolicy
  <2>3. ASSUME NEW inst \in Instances, HandleFreePolicy(inst, KindOf[inst]), Freed(inst)
        PROVE  Matched' /\ CombinationFits'
    <3>1. Matched /\ CombinationFits
          BY <1>2, <2>3 DEF Freed, Undisturbed
    <3>2. CombinationFits'
          BY <2>3, <3>1 DEF HandleFreePolicy, CombinationFits, CheckActiveCombination
    <3>3. CASE inst \in Registered
          BY <2>3, <3>1, <3>2, <3>3, RemoveMatched DEF HandleFreePolicy
    <3>4. CASE inst \notin Registered
      <4>1. UNCHANGED activeComponentList
            BY <1>2, <2>3, <3>4 DEF Freed
      <4>2. UNCHANGED pComponentList
            BY <2>3, <3>4 DEF HandleFreePolicy, RemoveComponentFromList,
                              FirstWithInstance, Registered
      <4> QED BY <1>0, <3>1, <3>2, <4>1, <4>2
    <3> QED BY <3>3, <3>4
  <2>4. ASSUME NEW inst \in Instances, HandleWaitForPolicy(inst), Kept
        PROVE  Matched' /\ CombinationFits'
        BY <1>0, <1>2, <2>4 DEF HandleWaitForPolicy, Kept, Undisturbed
  <2>5. CASE HandleExitTI /\ Kept
        BY <1>0, <1>2, <2>5 DEF HandleExitTI, Kept, Undisturbed
  <2>6. CASE ReadResponse
        BY <1>0, <1>2, <2>6 DEF ReadResponse, Undisturbed
  <2>7. CASE UNCHANGED pmVars /\ (Kept \/ UNCHANGED misfreed)
        BY <1>0, <1>2, <2>7 DEF pmVars, Kept, Undisturbed
  <2> QED BY <2>1, <2>2, <2>3, <2>4, <2>5, <2>6, <2>7, StepCases
<1>3. ASSUME ~ (registeredComponents' > 0)
      PROVE  Matched' /\ CombinationFits'
  <2>1. TypeOK' /\ RegisteredOnce' /\ ~ (registeredComponents > 0)' => Matched' /\ CombinationFits'
        BY EmptyMatches, PTL
  <2> QED BY <1>3, <2>1
<1> QED BY <1>1, <1>2, <1>3 DEF Undisturbed

\* For every order of commands, frees of unregistered instances included.
THEOREM AlwaysUndisturbed == Spec => []Undisturbed
<1>1. Init => Undisturbed
  <2> SUFFICES ASSUME Init PROVE Undisturbed
      OBVIOUS
  <2>1. CombinationFits
        BY DEF Init, PMInit, CombinationFits
  <2>2. DOMAIN pComponentList = {} /\ DOMAIN activeComponentList = {}
        BY DEF Init, PMInit
  <2>3. [i \in {} |-> i] \in [DOMAIN pComponentList -> DOMAIN activeComponentList]
        BY <2>2
  <2>4. Matched
        BY <2>2, <2>3 DEF Matched
  <2> QED BY <2>1, <2>4 DEF Init, Undisturbed
<1>2. TypeOK /\ RegisteredOnce /\ Undisturbed /\ [Next]_vars /\ TypeOK' /\ RegisteredOnce'
        => Undisturbed'
      BY UndisturbedStep
<1> QED BY <1>1, <1>2, TypeCorrect, RegistrationSound, PTL DEF Spec

\* The components that hold a grant at the same time belong to the combination in
\* force (PolicyManager.c:249-303), whoever asks and whoever is freed, as long as no
\* free of an unregistered instance has changed activeComponentList since the lists
\* were last empty.
THEOREM PolicyRespected == Spec => []RunningSupported
<1>1. Undisturbed => RunningSupported
      BY DEF Undisturbed, RunningSupported
<1> QED BY <1>1, AlwaysUndisturbed, PTL

\* As long as no such free has happened, the coexistence test overlooks no
\* registered component: the two arrays, searched by instance and by kind and
\* shifted at different positions, describe the same components.
THEOREM ArraysAgree == Spec => []KindsMatched
<1>1. Undisturbed => KindsMatched
      BY DEF Undisturbed, KindsMatched
<1> QED BY <1>1, AlwaysUndisturbed, PTL

-----------------------------------------------------------------------------
(* The policy manager implements the arbiter.                              *)

\* Who is allowed by a combination.
LEMMA AllowedMeans ==
    ASSUME NEW inst \in Instances, NEW k
    PROVE  IsComponentSupported(KindOf[inst], k) => k \in DOMAIN AllowedIn /\ inst \in AllowedIn[k]
BY DEF AllowedIn, IsComponentSupported

\* The list enumerates the registered instances, each once.
LEMMA ListIsOrder ==
    ASSUME TypeOK, RegisteredOnce
    PROVE  pComponentList \in Arbiter!Orders(Registered, Len(pComponentList))
<1> DEFINE n == Len(pComponentList)
<1>1. n \in Nat /\ DOMAIN pComponentList = 1..n
      BY DEF TypeOK
<1>2. pComponentList \in [1..n -> Registered]
  <2>1. \A i \in 1..n : pComponentList[i] \in Registered
        BY <1>1 DEF Registered
  <2>2. pComponentList = [i \in 1..n |-> pComponentList[i]]
        BY <1>1 DEF TypeOK
  <2> QED BY <2>1, <2>2
<1>3. /\ \A i, j \in 1..n : pComponentList[i] = pComponentList[j] => i = j
      /\ \A inst \in Registered : \E i \in 1..n : pComponentList[i] = inst
      BY <1>1 DEF RegisteredOnce, Registered
<1> QED BY <1>2, <1>3 DEF Arbiter!Orders

\* A grant without preemption, in a combination that has room for everybody.
LEMMA GrantAdmits ==
    ASSUME TypeOK, RegisteredOnce, NEW inst \in Instances, NEW priority,
           NEW k \in Combinations, IsComponentSupported(KindOf[inst], k),
           k = activePolicyCombination \/ Registered \subseteq AllowedIn[k] \/ misfreed,
           UNCHANGED misfreed,
           GrantPolicy(inst, KindOf[inst], priority, <<>>), activePolicyCombination' = k
    PROVE  Arbiter!ArbNext
<1>1. Registered' = Registered \cup {inst}
      BY RegisterOnce DEF GrantPolicy
<1>2. fromPM' = Append(fromPM, Arbiter!Tell("PM_GRANTPOLICY", inst))
  <2>1. fromPM' = fromPM \o <<>> \o <<Response("PM_GRANTPOLICY", inst)>> /\ fromPM \in Seq(ResponseTypes)
        BY DEF GrantPolicy, TypeOK
  <2>2. Response("PM_GRANTPOLICY", inst) \in ResponseTypes
        BY DEF Response, ResponseTypes
  <2>3. Arbiter!Tell("PM_GRANTPOLICY", inst) = Response("PM_GRANTPOLICY", inst)
        BY DEF Arbiter!Tell, Response
  <2> QED BY <2>1, <2>2, <2>3
<1>3. running' = running \cup {inst}
      BY DEF GrantPolicy
<1>4. k \in DOMAIN AllowedIn /\ inst \in AllowedIn[k]
      BY AllowedMeans
<1>5. Arbiter!Admit(inst, k)
      BY <1>1, <1>2, <1>3, <1>4 DEF Arbiter!Admit
<1> QED BY <1>4, <1>5 DEF Arbiter!ArbNext

\* A denial.
LEMMA DenyRefuses ==
    ASSUME NEW inst \in Instances, DenyPolicy(inst), UNCHANGED misfreed PROVE Arbiter!ArbNext
<1>1. Arbiter!Refuse(inst)
      BY DEF DenyPolicy, Arbiter!Refuse, Arbiter!Tell, Response, Registered
<1> QED BY <1>1 DEF Arbiter!ArbNext

\* HandleRequestPolicy admits, displaces or refuses.
LEMMA RequestArbitrates ==
    ASSUME TypeOK, RegisteredOnce, KindsMatched, UNCHANGED misfreed,
           NEW inst \in Instances, HandleRequestPolicy(inst, KindOf[inst])
    PROVE  Arbiter!ArbNext
<1> DEFINE x == KindOf[inst]
<1>1. CASE FirstRequestGranted(inst, x)
  <2>1. PICK k \in Combinations : /\ IsComponentSupported(x, k) /\ activePolicyCombination' = k
                                  /\ GrantPolicy(inst, x, GetPriority(x, k), <<>>)
        BY <1>1 DEF FirstRequestGranted, IsFirst, GetSupportingCombinations
  <2>2. Registered = {}
        BY <1>1 DEF FirstRequestGranted, registeredComponents, Registered, TypeOK
  <2> QED BY <2>1, <2>2, GrantAdmits
<1>2. CASE FirstRequestDenied(inst, x) \/ RequestDenied(inst, x)
      BY <1>2, DenyRefuses DEF FirstRequestDenied, RequestDenied
<1>3. CASE GrantedByActiveCombination(inst, x)
  <2>1. activePolicyCombination \in Combinations /\ IsComponentSupported(x, activePolicyCombination)
        BY <1>3 DEF GrantedByActiveCombination, CheckActiveCombination, IsComponentSupported
  <2> QED BY <1>3, <2>1, GrantAdmits DEF GrantedByActiveCombination
<1>4. CASE GrantedByCoexistence(inst, x)
  <2>1. PICK k \in Combinations : /\ k \in CoexistCombinations(x) /\ activePolicyCombination' = k
                                  /\ GrantPolicy(inst, x, GetPriority(x, k), <<>>)
        BY <1>4 DEF GrantedByCoexistence, IsFirst
  <2>2. IsComponentSupported(x, k) /\ \A j \in DOMAIN activeComponentList :
                                         IsComponentSupported(activeComponentList[j].component, k)
        BY <2>1 DEF CoexistCombinations, GetSupportingCombinations
  <2>3. ASSUME ~ misfreed, NEW r \in Registered PROVE r \in AllowedIn[k]
    <3>1. PICK i \in DOMAIN pComponentList : pComponentList[i] = r
          BY DEF Registered
    <3>2. r \in Instances
          BY <3>1 DEF TypeOK
    <3>3. \E j \in DOMAIN activeComponentList : activeComponentList[j].component = KindOf[r]
          BY <2>3, <3>1 DEF KindsMatched, Matched
    <3> QED BY <2>2, <3>2, <3>3, AllowedMeans
  <2> QED BY <2>1, <2>2, <2>3, GrantAdmits
<1>5. CASE GrantedByPreemption(inst, x)
  <2> DEFINE all == [i \in DOMAIN pComponentList |-> PreemptComponent(pComponentList[i])]
             n == Len(pComponentList)
  <2>1. PICK k \in Combinations : /\ IsComponentSupported(x, k) /\ k < activePolicyCombination
                                  /\ GrantPolicy(inst, x, GetPriority(x, k), all)
                                  /\ activePolicyCombination' = k
    <3>0. Combinations \subseteq Nat
          BY TableAssumption DEF Combinations
    <3>1. PICK k \in Combinations : /\ IsLast(k, GetSupportingCombinations(x))
                                    /\ GrantPolicy(inst, x, GetPriority(x, k), all)
                                    /\ activePolicyCombination' = k
          BY <1>5 DEF GrantedByPreemption
    <3>2. PICK j \in Combinations : IsLast(j, GetSupportingCombinations(x)) /\ j < activePolicyCombination
          BY <1>5 DEF GrantedByPreemption, MayPreempt
    <3>3. j = k
          BY <3>0, <3>1, <3>2 DEF IsLast
    <3> QED BY <3>1, <3>2, <3>3 DEF IsLast, GetSupportingCombinations
  <2>2. Registered' = Registered \cup {inst}
        BY <2>1, RegisterOnce DEF GrantPolicy
  <2>3. n \in Nat /\ DOMAIN pComponentList = 1..n /\ pComponentList \in Arbiter!Orders(Registered, n)
        BY ListIsOrder DEF TypeOK
  <2>4. /\ running' = (running \ {all[i].inst : i \in DOMAIN all}) \cup {inst}
        /\ fromPM' = fromPM \o all \o <<Response("PM_GRANTPOLICY", inst)>>
        BY <2>1 DEF GrantPolicy
  <2>5. running' = {inst}
    <3>1. \A r \in running : \E i \in DOMAIN all : all[i].inst = r
          BY DEF RegisteredOnce, Registered, PreemptComponent, Response
    <3> QED BY <2>4, <3>1
  <2>6. all = [i \in 1..n |-> Arbiter!Tell("PM_PREEMPTED", pComponentList[i])]
        BY <2>3 DEF PreemptComponent, Response, Arbiter!Tell
  <2>7. Response("PM_GRANTPOLICY", inst) = Arbiter!Tell("PM_GRANTPOLICY", inst)
        BY DEF Response, Arbiter!Tell
  <2>8. k \in DOMAIN AllowedIn /\ inst \in AllowedIn[k]
        BY <2>1, AllowedMeans
  <2>9. Len(fromPM') - Len(fromPM) - 1 = n
    <3>1. fromPM \in Seq(ResponseTypes) /\ <<Response("PM_GRANTPOLICY", inst)>> \in Seq(ResponseTypes)
          BY DEF TypeOK, Response, ResponseTypes
    <3>2. all \in Seq(ResponseTypes) /\ Len(all) = n
      <4>1. \A i \in 1..n : PreemptComponent(pComponentList[i]) \in ResponseTypes
            BY <2>3, PreemptType DEF TypeOK
      <4>2. all \in [1..n -> ResponseTypes]
            BY <2>3, <4>1
      <4> HIDE DEF all
      <4> QED BY <2>3, <4>2
    <3> HIDE DEF all
    <3> QED BY <2>3, <2>4, <3>1, <3>2
  <2> HIDE DEF all, n
  <2>10. \E order \in Arbiter!Orders(Registered, n) :
            fromPM' = fromPM \o [i \in 1..n |-> Arbiter!Tell("PM_PREEMPTED", order[i])]
                             \o <<Arbiter!Tell("PM_GRANTPOLICY", inst)>>
        BY <2>3, <2>4, <2>6, <2>7
  <2>11. Arbiter!Displace(inst, k)
        BY <2>1, <2>2, <2>5, <2>8, <2>9, <2>10 DEF Arbiter!Displace
  <2> QED BY <2>8, <2>11 DEF Arbiter!ArbNext
<1> QED BY <1>1, <1>2, <1>3, <1>4, <1>5 DEF HandleRequestPolicy

\* HandleFreeResources makes room or refuses.
LEMMA FreeResourcesArbitrates ==
    ASSUME TypeOK, RegisteredOnce, UNCHANGED misfreed,
           NEW inst \in Instances, HandleFreeResources(inst, KindOf[inst])
    PROVE  Arbiter!ArbNext
<1> DEFINE x == KindOf[inst]
<1>1. CASE PreemptionCandidates(inst, x) = {}
      BY <1>1, DenyRefuses DEF HandleFreeResources
<1>2. CASE PreemptionCandidates(inst, x) # {}
  <2>1. PICK i \in DOMAIN pComponentList :
            /\ i \in PreemptionCandidates(inst, x)
            /\ GrantPolicy(inst, x, GetPriority(x, activePolicyCombination),
                           <<PreemptComponent(pComponentList[i])>>)
            /\ UNCHANGED activePolicyCombination
        BY <1>2 DEF HandleFreeResources, LowestPriorityIndex
  <2> DEFINE other == pComponentList[i]
  <2>2. other \in Registered /\ other # inst
        BY <2>1 DEF PreemptionCandidates, Registered
  <2>3. activeComponentList[i].priority \in 0..255
    <3>1. activeComponentList[i] \in PriorityEntry
          BY DEF TypeOK
    <3> QED BY <3>1 DEF PriorityEntry
  <2>4. IsComponentSupported(x, activePolicyCombination)
        BY <2>1, <2>3, GetPriorityRange DEF PreemptionCandidates
  <2>5. Registered' = Registered \cup {inst}
        BY <2>1, RegisterOnce DEF GrantPolicy
  <2>6. /\ fromPM' = fromPM \o <<PreemptComponent(other)>> \o <<Response("PM_GRANTPOLICY", inst)>>
        /\ running' = (running \ {other}) \cup {inst}
    <3> DEFINE one == <<PreemptComponent(other)>>
    <3>1. /\ fromPM' = fromPM \o one \o <<Response("PM_GRANTPOLICY", inst)>>
          /\ running' = (running \ {one[j].inst : j \in DOMAIN one}) \cup {inst}
          BY <2>1 DEF GrantPolicy
    <3>2. {one[j].inst : j \in DOMAIN one} = {other}
          BY DEF PreemptComponent, Response
    <3> QED BY <3>1, <3>2
  <2>7. fromPM' = Append(Append(fromPM, Arbiter!Tell("PM_PREEMPTED", other)),
                         Arbiter!Tell("PM_GRANTPOLICY", inst))
    <3>1. /\ fromPM \in Seq(ResponseTypes) /\ PreemptComponent(other) \in ResponseTypes
          /\ Response("PM_GRANTPOLICY", inst) \in ResponseTypes
          BY PreemptType DEF TypeOK, Response, ResponseTypes
    <3>2. ASSUME NEW s \in Seq(ResponseTypes), NEW a \in ResponseTypes, NEW b \in ResponseTypes
          PROVE  s \o <<a>> \o <<b>> = Append(Append(s, a), b)
          OBVIOUS
    <3>3. /\ PreemptComponent(other) = Arbiter!Tell("PM_PREEMPTED", other)
          /\ Response("PM_GRANTPOLICY", inst) = Arbiter!Tell("PM_GRANTPOLICY", inst)
          BY DEF PreemptComponent, Response, Arbiter!Tell
    <3> QED BY <2>6, <3>1, <3>2, <3>3
  <2> HIDE DEF other
  <2>8. Arbiter!MakeRoom(inst, other)
        BY <2>1, <2>2, <2>4, <2>5, <2>6, <2>7, AllowedMeans DEF Arbiter!MakeRoom
  <2> QED BY <2>2, <2>8 DEF Arbiter!ArbNext
<1> QED BY <1>1, <1>2

\* Somebody is registered exactly if the list is not empty.
LEMMA SomeRegistered ==
    ASSUME TypeOK
    PROVE  registeredComponents > 0 <=> Registered # {}
<1>1. Len(pComponentList) \in Nat /\ DOMAIN pComponentList = 1..Len(pComponentList)
      BY DEF TypeOK
<1>2. ASSUME registeredComponents > 0 PROVE Registered # {}
  <2>1. 1 \in DOMAIN pComponentList
        BY <1>1, <1>2 DEF registeredComponents
  <2> QED BY <2>1 DEF Registered
<1>3. ASSUME Registered # {} PROVE registeredComponents > 0
  <2>1. PICK i \in DOMAIN pComponentList : TRUE
        BY <1>3 DEF Registered
  <2> QED BY <1>1, <2>1 DEF registeredComponents
<1> QED BY <1>2, <1>3

\* Only a command that empties the list can end the time misfreed stands for.
LEMMA KeptMeans ==
    ASSUME TypeOK, TypeOK', Undisturbed, Kept, Registered \subseteq Registered'
    PROVE  UNCHANGED misfreed
<1>1. CASE registeredComponents' > 0
      BY <1>1 DEF Kept, TypeOK
<1>2. CASE ~ (registeredComponents' > 0)
  <2>1. DOMAIN pComponentList' = {}
        BY <1>2 DEF TypeOK, registeredComponents
  <2>2. Registered' = {}
        BY <2>1 DEF Registered
  <2>3. ~ (registeredComponents > 0)
        BY <2>2, SomeRegistered
  <2> QED BY <2>3 DEF Kept, Undisturbed, TypeOK
<1> QED BY <1>1, <1>2

\* HandleFreePolicy lets the instance go, or is a mistake, or changes nothing.
LEMMA FreePolicyArbitrates ==
    ASSUME TypeOK, TypeOK', RegisteredOnce, Undisturbed,
           NEW inst \in Instances, HandleFreePolicy(inst, KindOf[inst]), Freed(inst)
    PROVE  Arbiter!ArbNext \/ UNCHANGED Arbiter!arbVars
<1>1. /\ Registered' = Registered \ {inst}
      /\ running' = running \ {inst}
      /\ UNCHANGED <<activePolicyCombination, fromPM>>
      BY RemoveOnce DEF HandleFreePolicy
<1>2. registeredComponents' > 0 <=> Registered' # {}
  <2>1. TypeOK' => (registeredComponents > 0 <=> Registered # {})'
        BY SomeRegistered, PTL
  <2> QED BY <2>1
<1>3. registeredComponents > 0 <=> Registered # {}
      BY SomeRegistered
<1>4. CASE inst \in Registered
  <2>1. misfreed' = (misfreed /\ Registered' # {})
        BY <1>2, <1>4 DEF Freed
  <2>2. Arbiter!Leave(inst)
        BY <1>1, <2>1 DEF Arbiter!Leave
  <2> QED BY <1>4, <2>2 DEF Arbiter!ArbNext
<1>5. CASE inst \notin Registered
  <2>1. Registered' = Registered /\ running' = running
        BY <1>1, <1>5 DEF RegisteredOnce
  <2>2. CASE misfreed'
    <3>1. Registered # {}
          BY <1>2, <2>1, <2>2 DEF Freed
    <3>2. misfreed' = TRUE
          BY <2>2 DEF TypeOK
    <3>3. Arbiter!Mistake
          BY <1>1, <2>1, <3>1, <3>2 DEF Arbiter!Mistake
    <3> QED BY <3>3 DEF Arbiter!ArbNext
  <2>3. CASE ~ misfreed'
    <3>1. ~ misfreed
          BY <1>2, <1>3, <2>1, <2>3 DEF Freed, Undisturbed
    <3>2. misfreed' = misfreed
          BY <2>3, <3>1 DEF TypeOK
    <3> QED BY <1>1, <2>1, <3>2 DEF Arbiter!arbVars
  <2> QED BY <2>2, <2>3
<1> QED BY <1>4, <1>5

\* The policy manager is an arbiter, for every table, every set of instances and
\* every order of commands.  What the resource manager sees of the arrays is who is
\* registered, who of them holds a grant and what it is told; of a list shifted by
\* the free of an unregistered instance it sees only that a later change of the
\* combination may leave no room for somebody.
THEOREM PolicyIsArbiter == Spec => ImplementsArbiter
<1>1. Init => Arbiter!ArbInit
  <2>1. Init => Registered = {}
        BY DEF Init, PMInit, Registered
  <2> QED BY <2>1 DEF Init, PMInit, Arbiter!ArbInit
<1>2. /\ TypeOK /\ TypeOK' /\ RegisteredOnce /\ KindsMatched /\ Undisturbed
      /\ [Next]_vars
      => [Arbiter!ArbNext]_(Arbiter!arbVars)
  <2> SUFFICES ASSUME TypeOK, TypeOK', RegisteredOnce, KindsMatched, Undisturbed, [Next]_vars
               PROVE  Arbiter!ArbNext \/ UNCHANGED Arbiter!arbVars
      OBVIOUS
  <2>0. UNCHANGED <<activePolicyCombination, pComponentList, running, fromPM, misfreed>>
        => UNCHANGED Arbiter!arbVars
        BY DEF Arbiter!arbVars, Registered
  <2>1. ASSUME NEW inst \in Instances, HandleRequestPolicy(inst, KindOf[inst]), Kept
        PROVE  Arbiter!ArbNext
    <3>1. Registered \subseteq Registered'
      <4>1. CASE UNCHANGED pComponentList
            BY <4>1 DEF Registered
      <4>2. CASE \E priority \in -1..255 : Register(inst, KindOf[inst], priority)
            BY <4>2, RegisterOnce
      <4> QED BY <2>1, <4>1, <4>2, RequestRegisters
    <3> QED BY <2>1, <3>1, KeptMeans, RequestArbitrates
  <2>2. ASSUME NEW inst \in Instances, HandleFreeResources(inst, KindOf[inst]), Kept
        PROVE  Arbiter!ArbNext
    <3>1. Registered \subseteq Registered'
      <4>1. CASE UNCHANGED pComponentList
            BY <4>1 DEF Registered
      <4>2. CASE \E priority \in -1..255 : Register(inst, KindOf[inst], priority)
            BY <4>2, RegisterOnce
      <4> QED BY <2>2, <4>1, <4>2, FreeResourcesRegisters
    <3> QED BY <2>2, <3>1, KeptMeans, FreeResourcesArbitrates
  <2>3. ASSUME UNCHANGED pComponentList, Kept
        PROVE  UNCHANGED misfreed
    <3>1. Registered' = Registered
          BY <2>3 DEF Registered
    <3> QED BY <2>3, <3>1, KeptMeans
  <2>4. ASSUME NEW inst \in Instances, HandleWaitForPolicy(inst), Kept
        PROVE  UNCHANGED Arbiter!arbVars
        BY <2>0, <2>3, <2>4 DEF HandleWaitForPolicy
  <2>5. CASE HandleExitTI /\ Kept
        BY <2>0, <2>3, <2>5 DEF HandleExitTI
  <2>6. CASE ReadResponse
    <3>1. Arbiter!Read
          BY <2>6 DEF ReadResponse, Arbiter!Read, Registered
    <3> QED BY <3>1 DEF Arbiter!ArbNext
  <2>7. CASE UNCHANGED pmVars /\ (Kept \/ UNCHANGED misfreed)
        BY <2>0, <2>3, <2>7 DEF pmVars
  <2> QED BY <2>1, <2>2, <2>4, <2>5, <2>6, <2>7, StepCases, FreePolicyArbitrates
<1> QED BY <1>1, <1>2, TypeCorrect, RegistrationSound, ArraysAgree, AlwaysUndisturbed, PTL
        DEF Spec, ImplementsArbiter, Arbiter!ArbSpec
=============================================================================
