------------------------- MODULE CameraFramesProofs -------------------------
(***************************************************************************)
(* Proofs about the preview frames of the camera, for every number of      *)
(* buffers, of buffers the window keeps, and of calls and faults.          *)
(***************************************************************************)
EXTENDS CameraFrames, FiniteSetTheorems, TLAPS

-----------------------------------------------------------------------------
(* The queues: of the driver, of the window and of the notifier.           *)

Has(q, f) == \E i \in DOMAIN q : q[i] = f
Once(q, f) == \A i, j \in DOMAIN q : q[i] = f /\ q[j] = f => i = j

\* A buffer is put at the end of a queue that does not have it.
LEMMA AppendQueue ==
    ASSUME NEW S, NEW s \in Seq(S), NEW x \in S
    PROVE  /\ Append(s, x) \in Seq(S)
           /\ Len(Append(s, x)) = Len(s) + 1
           /\ Append(s, x)[Len(Append(s, x))] = x
           /\ Append(s, x) # <<>>
           /\ Range(Append(s, x)) = Range(s) \cup {x}
           /\ IsInjective(s) /\ x \notin Range(s) => IsInjective(Append(s, x))
<1> DEFINE L == Len(s)
           t == Append(s, x)
<1>1. /\ L \in Nat /\ DOMAIN s = 1..L /\ t \in Seq(S) /\ Len(t) = L + 1
      /\ DOMAIN t = 1..(L + 1) /\ t[L + 1] = x /\ \A i \in 1..L : t[i] = s[i]
      OBVIOUS
<1> HIDE DEF L, t
<1>2. t # <<>>
      BY <1>1
<1>3. Range(t) = Range(s) \cup {x}
  <2>1. ASSUME NEW y \in Range(t) PROVE y \in Range(s) \cup {x}
        BY <1>1 DEF Range
  <2>2. ASSUME NEW y \in Range(s) PROVE y \in Range(t)
        BY <1>1 DEF Range
  <2>3. x \in Range(t)
        BY <1>1, L + 1 \in 1..(L + 1) DEF Range
  <2> QED BY <2>1, <2>2, <2>3
<1>4. ASSUME IsInjective(s), x \notin Range(s) PROVE IsInjective(t)
  <2>1. \A i \in 1..L : s[i] # x
        BY <1>1, <1>4 DEF Range
  <2> QED BY <1>1, <1>4, <2>1 DEF IsInjective
<1> QED BY <1>1, <1>2, <1>3, <1>4 DEF L, t

\* The oldest buffer leaves a queue.
LEMMA TailQueue ==
    ASSUME NEW S, NEW s \in Seq(S), s # <<>>
    PROVE  /\ Tail(s) \in Seq(S)
           /\ Len(s) > 0
           /\ Len(Tail(s)) = Len(s) - 1
           /\ Head(s) \in S /\ Head(s) \in Range(s)
           /\ Len(s) > 1 => /\ Tail(s) # <<>>
                            /\ Tail(s)[Len(Tail(s))] = s[Len(s)]
                            /\ IsInjective(s) => s[Len(s)] # Head(s)
           /\ IsInjective(s) => IsInjective(Tail(s))
           /\ IsInjective(s) => Range(Tail(s)) = Range(s) \ {Head(s)}
<1> DEFINE L == Len(s)
           t == Tail(s)
<1>1. /\ L \in Nat /\ L > 0 /\ DOMAIN s = 1..L /\ t \in Seq(S) /\ Len(t) = L - 1
      /\ DOMAIN t = 1..(L - 1) /\ Head(s) = s[1] /\ \A i \in 1..(L - 1) : t[i] = s[i + 1]
      OBVIOUS
<1> HIDE DEF L, t
<1>2. Head(s) \in S /\ Head(s) \in Range(s)
      BY <1>1, 1 \in 1..L DEF Range
<1>3. L > 1 => /\ t # <<>> /\ t[L - 1] = s[L]
               /\ IsInjective(s) => s[L] # Head(s)
  <2> SUFFICES ASSUME L > 1 PROVE /\ t # <<>> /\ t[L - 1] = s[L]
                                  /\ IsInjective(s) => s[L] # Head(s)
      OBVIOUS
  <2>1. L - 1 \in 1..(L - 1) /\ (L - 1) + 1 = L /\ L \in 1..L /\ 1 \in 1..L
        BY <1>1
  <2>2. IsInjective(s) => s[L] # Head(s)
        BY <1>1, <2>1 DEF IsInjective
  <2>3. t # <<>>
        BY <1>1, <2>1
  <2> QED BY <1>1, <2>1, <2>2, <2>3
<1>4. ASSUME IsInjective(s)
      PROVE  IsInjective(t) /\ Range(t) = Range(s) \ {Head(s)}
  <2>1. IsInjective(t)
    <3>1. ASSUME NEW i \in 1..(L - 1), NEW j \in 1..(L - 1), t[i] = t[j] PROVE i = j
      <4>1. i + 1 \in 1..L /\ j + 1 \in 1..L /\ s[i + 1] = s[j + 1]
            BY <1>1, <3>1
      <4>2. i + 1 = j + 1
            BY <1>1, <1>4, <4>1 DEF IsInjective
      <4> QED BY <1>1, <4>2
    <3> QED BY <1>1, <3>1 DEF IsInjective
  <2>2. ASSUME NEW y \in Range(t) PROVE y \in Range(s) \ {Head(s)}
    <3>1. PICK i \in 1..(L - 1) : y = s[i + 1]
          BY <1>1 DEF Range
    <3>2. i + 1 \in 1..L /\ i + 1 # 1 /\ 1 \in 1..L
          BY <1>1
    <3> QED BY <1>1, <1>4, <3>1, <3>2 DEF Range, IsInjective
  <2>3. ASSUME NEW y \in Range(s) \ {Head(s)} PROVE y \in Range(t)
    <3>1. PICK i \in 1..L : y = s[i]
          BY <1>1 DEF Range
    <3>2. i # 1 /\ i - 1 \in 1..(L - 1) /\ (i - 1) + 1 = i
          BY <1>1, <3>1
    <3> QED BY <1>1, <3>1, <3>2 DEF Range
  <2> QED BY <2>1, <2>2, <2>3
<1> QED BY <1>1, <1>2, <1>3, <1>4 DEF L, t

\* Two queues with different buffers are joined.
LEMMA JoinQueues ==
    ASSUME NEW S, NEW s \in Seq(S), NEW t \in Seq(S),
           IsInjective(s), IsInjective(t), Range(s) \cap Range(t) = {}
    PROVE  /\ s \o t \in Seq(S) /\ Len(s \o t) = Len(s) + Len(t)
           /\ IsInjective(s \o t) /\ Range(s \o t) = Range(s) \cup Range(t)
<1> DEFINE L == Len(s)
           M == Len(t)
           u == s \o t
<1>1. /\ L \in Nat /\ M \in Nat /\ DOMAIN s = 1..L /\ DOMAIN t = 1..M
      /\ u \in Seq(S) /\ Len(u) = L + M /\ DOMAIN u = 1..(L + M)
      /\ \A i \in 1..(L + M) : u[i] = IF i <= L THEN s[i] ELSE t[i - L]
      OBVIOUS
<1> HIDE DEF L, M, u
<1>2. \A i \in 1..(L + M) : /\ i <= L => i \in 1..L
                            /\ i > L => i - L \in 1..M
      BY <1>1
<1>3. \A i \in 1..L, j \in 1..M : s[i] # t[j]
      BY <1>1 DEF Range
<1>4. ASSUME NEW i \in 1..(L + M), NEW j \in 1..(L + M), u[i] = u[j]
      PROVE  i = j
  <2>1. CASE i <= L /\ j <= L
        BY <1>1, <1>2, <1>4, <2>1 DEF IsInjective
  <2>2. CASE i > L /\ j > L
    <3>1. i - L \in 1..M /\ j - L \in 1..M /\ t[i - L] = t[j - L]
          BY <1>1, <1>2, <1>4, <2>2
    <3>2. i - L = j - L
          BY <1>1, <3>1 DEF IsInjective
    <3> QED BY <1>1, <3>2
  <2>3. CASE i <= L /\ j > L
        BY <1>1, <1>2, <1>3, <1>4, <2>3
  <2>4. CASE i > L /\ j <= L
        BY <1>1, <1>2, <1>3, <1>4, <2>4
  <2> QED BY <1>1, <2>1, <2>2, <2>3, <2>4
<1>5. Range(u) = Range(s) \cup Range(t)
  <2>1. ASSUME NEW y \in Range(u) PROVE y \in Range(s) \cup Range(t)
    <3>1. PICK i \in 1..(L + M) : y = u[i]
          BY <1>1 DEF Range
    <3>2. CASE i <= L
          BY <1>1, <1>2, <3>1, <3>2 DEF Range
    <3>3. CASE i > L
      <4>1. i - L \in 1..M /\ y = t[i - L]
            BY <1>1, <1>2, <3>1, <3>3
      <4> QED BY <1>1, <4>1 DEF Range
    <3> QED BY <1>1, <3>2, <3>3
  <2>2. ASSUME NEW i \in 1..L PROVE s[i] \in Range(u)
        BY <1>1, i \in 1..(L + M) DEF Range
  <2>3. ASSUME NEW j \in 1..M PROVE t[j] \in Range(u)
    <3>1. L + j \in 1..(L + M) /\ ~ (L + j <= L) /\ (L + j) - L = j
          BY <1>1
    <3>2. u[L + j] = t[j]
          BY <1>1, <3>1
    <3>3. u[L + j] \in Range(u)
          BY <1>1, <3>1 DEF Range
    <3> QED BY <3>2, <3>3
  <2>4. Range(s) \subseteq Range(u)
        BY <1>1, <2>2 DEF Range
  <2>5. Range(t) \subseteq Range(u)
        BY <1>1, <2>3 DEF Range
  <2> QED BY <2>1, <2>4, <2>5
<1> QED BY <1>1, <1>4, <1>5 DEF L, M, u, IsInjective

\* The buffers of a set, in some order.
LEMMA SetAsQueue ==
    ASSUME NEW S, NEW T \in SUBSET S, IsFiniteSet(T)
    PROVE  /\ SetToSeq(T) \in Seq(S) /\ Len(SetToSeq(T)) = Cardinality(T)
           /\ IsInjective(SetToSeq(T)) /\ Range(SetToSeq(T)) = T
<1> DEFINE n == Cardinality(T)
<1>1. n \in Nat
      BY FS_CardinalityType
<1>2. ExistsBijection(1..n, T)
      BY FS_CardinalityType
<1>3. PICK g \in Bijection(1..n, T) : TRUE
      BY <1>2 DEF ExistsBijection
<1>4. g \in [1..n -> T] /\ IsInjective(g)
      BY <1>3 DEF Bijection, Injection, Surjection
<1>5. SetToSeq(T) \in [1..n -> T] /\ IsInjective(SetToSeq(T))
      BY <1>4 DEF SetToSeq
<1> DEFINE f == SetToSeq(T)
<1> HIDE DEF n, f
<1>6. f \in [1..n -> T] /\ IsInjective(f)
      BY <1>5 DEF f
<1>7. f \in Seq(T) /\ Len(f) = n /\ f \in Seq(S) /\ DOMAIN f = 1..n
      BY <1>1, <1>6
<1>8. f \in Injection(1..n, T)
      BY <1>6 DEF Injection
<1>9. f \in Surjection(1..n, T)
  <2>1. IsFiniteSet(1..n) /\ Cardinality(1..n) = n
        BY <1>1, FS_Interval
  <2> QED BY <1>1, <1>8, <2>1, FS_Injection DEF n
<1>10. \A y \in T : \E i \in 1..n : f[i] = y
      BY <1>9 DEF Surjection
<1>11. Range(f) = T
      BY <1>6, <1>10 DEF Range
<1> QED BY <1>6, <1>7, <1>11 DEF f, n

\* The buffers of a set join a queue that has none of them.
LEMMA JoinSet ==
    ASSUME NEW S, NEW s \in Seq(S), IsInjective(s), NEW T \in SUBSET S, IsFiniteSet(T),
           Range(s) \cap T = {}
    PROVE  /\ s \o SetToSeq(T) \in Seq(S) /\ IsInjective(s \o SetToSeq(T))
           /\ Range(s \o SetToSeq(T)) = Range(s) \cup T
           /\ Len(s \o SetToSeq(T)) = Len(s) + Cardinality(T)
<1>1. /\ SetToSeq(T) \in Seq(S) /\ Len(SetToSeq(T)) = Cardinality(T)
      /\ IsInjective(SetToSeq(T)) /\ Range(SetToSeq(T)) = T
      BY SetAsQueue
<1> DEFINE t == SetToSeq(T)
<1> HIDE DEF t
<1>2. /\ t \in Seq(S) /\ Len(t) = Cardinality(T) /\ IsInjective(t) /\ Range(t) = T
      BY <1>1 DEF t
<1>3. /\ s \o t \in Seq(S) /\ Len(s \o t) = Len(s) + Len(t)
      /\ IsInjective(s \o t) /\ Range(s \o t) = Range(s) \cup Range(t)
      BY <1>2, JoinQueues
<1> QED BY <1>2, <1>3 DEF t

\* The first and the last frame of a queue, and the frames it has once.
LEMMA AppendFrame ==
    ASSUME NEW S, NEW s \in Seq(S), NEW x \in S, NEW f
    PROVE  /\ Has(Append(s, x), f) <=> Has(s, f) \/ f = x
           /\ Once(s, f) /\ (f = x => ~ Has(s, f)) => Once(Append(s, x), f)
<1> DEFINE L == Len(s)
           t == Append(s, x)
<1>1. /\ L \in Nat /\ DOMAIN s = 1..L
      /\ DOMAIN t = 1..(L + 1) /\ t[L + 1] = x /\ \A i \in 1..L : t[i] = s[i]
      OBVIOUS
<1>2. 1..(L + 1) = 1..L \cup {L + 1}
      BY <1>1
<1> HIDE DEF L, t
<1>3. Has(t, f) <=> Has(s, f) \/ f = x
      BY <1>1, <1>2 DEF Has
<1>4. ASSUME Once(s, f), f = x => ~ Has(s, f) PROVE Once(t, f)
      BY <1>1, <1>2, <1>4 DEF Once, Has
<1> QED BY <1>3, <1>4 DEF t

\* The oldest frame leaves a queue.
LEMMA TailFrame ==
    ASSUME NEW S, NEW s \in Seq(S), s # <<>>, NEW f
    PROVE  /\ Has(s, Head(s))
           /\ Has(s, f) <=> Has(Tail(s), f) \/ f = Head(s)
           /\ Once(s, f) => Once(Tail(s), f) /\ ~ (f = Head(s) /\ Has(Tail(s), f))
<1> DEFINE L == Len(s)
           t == Tail(s)
<1>1. /\ L \in Nat /\ L > 0 /\ DOMAIN s = 1..L
      /\ DOMAIN t = 1..(L - 1) /\ Head(s) = s[1] /\ \A i \in 1..(L - 1) : t[i] = s[i + 1]
      OBVIOUS
<1> HIDE DEF L, t
<1>2. /\ \A i \in 1..(L - 1) : i + 1 \in 1..L /\ i + 1 # 1
      /\ \A i \in 1..L : i = 1 \/ (i - 1 \in 1..(L - 1) /\ (i - 1) + 1 = i)
      /\ 1 \in 1..L
      BY <1>1
<1>3. Has(s, Head(s))
      BY <1>1, <1>2 DEF Has
<1>4. ASSUME Has(t, f) PROVE Has(s, f)
      BY <1>1, <1>2, <1>4 DEF Has
<1>5. ASSUME Has(s, f), f # Head(s) PROVE Has(t, f)
  <2>1. PICK i \in 1..L : s[i] = f
        BY <1>1, <1>5 DEF Has
  <2>2. i - 1 \in 1..(L - 1) /\ t[i - 1] = f
        BY <1>1, <1>2, <1>5, <2>1
  <2> QED BY <1>1, <2>2 DEF Has
<1>6. ASSUME Once(s, f) PROVE Once(t, f) /\ ~ (f = Head(s) /\ Has(t, f))
  <2>1. ASSUME NEW i \in 1..(L - 1), NEW j \in 1..(L - 1), t[i] = f, t[j] = f PROVE i = j
    <3>1. i + 1 = j + 1
          BY <1>1, <1>2, <1>6, <2>1 DEF Once
    <3> QED BY <3>1
  <2>2. ASSUME f = Head(s), NEW i \in 1..(L - 1), t[i] = f PROVE FALSE
        BY <1>1, <1>2, <1>6, <2>2 DEF Once
  <2> QED BY <1>1, <2>1, <2>2 DEF Once, Has
<1> QED BY <1>3, <1>4, <1>5, <1>6 DEF t

\* A frame is queued if and only if mFrameQ has it.
LEMMA QueuedFrame ==
    ASSUME NEW S, notifier.frameQ \in Seq(S), NEW k, NEW b
    PROVE  /\ Queued(k, b) \in Nat
           /\ Queued(k, b) > 0 <=> Has(notifier.frameQ, <<k, b>>)
<1> DEFINE q == notifier.frameQ
           D == {i \in DOMAIN q : q[i] = <<k, b>>}
<1>1. Len(q) \in Nat /\ DOMAIN q = 1..Len(q)
      OBVIOUS
<1>2. IsFiniteSet(D)
  <2>1. IsFiniteSet(1..Len(q))
        BY <1>1, FS_Interval
  <2> QED BY <1>1, <2>1, FS_Subset
<1>3. Cardinality(D) \in Nat
      BY <1>2, FS_CardinalityType
<1>4. Cardinality(D) = 0 <=> D = {}
      BY <1>2, FS_EmptySet
<1>5. D # {} <=> Has(q, <<k, b>>)
      BY DEF Has
<1> QED BY <1>3, <1>4, <1>5 DEF Queued

\* returnFrame() counts down to zero.
LEMMA DecrementedValue ==
    ASSUME NEW n \in Nat PROVE Decremented(n) = IF n = 0 THEN 0 ELSE n - 1
<1> DEFINE m == IF n = 0 THEN 0 ELSE n - 1
<1>1. m \in {n - 1, 0} /\ \A y \in {n - 1, 0} : m >= y
      OBVIOUS
<1>2. \A x \in {n - 1, 0} : (\A y \in {n - 1, 0} : x >= y) => x = m
      OBVIOUS
<1> HIDE DEF m
<1>3. Max({n - 1, 0}) = m
      BY <1>1, <1>2 DEF Max
<1> QED BY <1>3 DEF Decremented, m

\* flushAndReturnFrames() counts down by the frames of the buffer, to zero.
LEMMA FlushedValue ==
    ASSUME NEW n \in Nat, NEW m \in Nat
    PROVE  Max({n - m, 0}) \in 0..n /\ (n = 0 => Max({n - m, 0}) = 0)
<1> DEFINE v == IF n > m THEN n - m ELSE 0
<1>1. v \in {n - m, 0} /\ \A y \in {n - m, 0} : v >= y
      OBVIOUS
<1>2. \A x \in {n - m, 0} : (\A y \in {n - m, 0} : x >= y) => x = v
      OBVIOUS
<1>3. v \in 0..n /\ (n = 0 => v = 0)
      OBVIOUS
<1> HIDE DEF v
<1>4. Max({n - m, 0}) = v
      BY <1>1, <1>2 DEF Max
<1> QED BY <1>3, <1>4

One(P) == IF P THEN 1 ELSE 0

\* setFrameRefCount() gets the number of subscribers.
LEMMA Subscribers ==
    ASSUME NEW S \in SUBSET {"display", "notifier"}
    PROVE  Cardinality(S) = One("display" \in S) + One("notifier" \in S)
<1>1. CASE S = {}
      BY <1>1, FS_EmptySet DEF One
<1>2. CASE S = {"display"}
      BY <1>2, FS_Singleton DEF One
<1>3. CASE S = {"notifier"}
      BY <1>3, FS_Singleton DEF One
<1>4. CASE S = {"display", "notifier"}
  <2>1. IsFiniteSet({"display"}) /\ Cardinality({"display"}) = 1
        BY FS_Singleton
  <2>2. S = {"display"} \cup {"notifier"} /\ "notifier" \notin {"display"}
        BY <1>4
  <2>3. Cardinality(S) = 1 + 1
        BY <2>1, <2>2, FS_AddElement
  <2> QED BY <1>4, <2>3 DEF One
<1> QED BY <1>1, <1>2, <1>3, <1>4

\* The buffers that allocateBuffer() leaves with the window, and the others.
LEMMA Allocated ==
    ASSUME NEW n \in Nat, NEW u \in 1..n
    PROVE  LET w == [i \in 1..u |-> n - u + i]
               K == (n - u + 1)..n
           IN  /\ w \in Seq(1..n) /\ IsInjective(w) /\ Len(w) = u /\ Range(w) = K
               /\ K \subseteq 1..n
               /\ Cardinality(1..n \ K) = n - u
<1> DEFINE w == [i \in 1..u |-> n - u + i]
           K == (n - u + 1)..n
<1>1. w \in Seq(1..n) /\ Len(w) = u /\ DOMAIN w = 1..u
      OBVIOUS
<1>2. IsInjective(w)
      BY DEF IsInjective
<1>3. \A k \in K : k - (n - u) \in 1..u /\ w[k - (n - u)] = k
      OBVIOUS
<1>4. \A i \in 1..u : w[i] \in K
      OBVIOUS
<1>5. Range(w) = K
      BY <1>1, <1>3, <1>4 DEF Range
<1>6. 1..n \ K = 1..(n - u) /\ K \subseteq 1..n /\ n - u \in Nat
      OBVIOUS
<1>7. Cardinality(1..(n - u)) = n - u
      BY <1>6, FS_Interval
<1> HIDE DEF w, K
<1>8. /\ w \in Seq(1..n) /\ IsInjective(w) /\ Len(w) = u /\ Range(w) = K
      /\ K \subseteq 1..n
      /\ Cardinality(1..n \ K) = n - u
      BY <1>1, <1>2, <1>5, <1>6, <1>7
<1> QED BY <1>8 DEF w, K

-----------------------------------------------------------------------------
(* The inductive invariant.                                                *)

Frames == {"preview", "video"} \X Buffers
ReturnType == [pc : {"idle", "return", "fill"}, b : Buffers \cup {None},
               kind : {"none", "preview", "video"}]

\* The types, in the form the proofs use.
AppType == [pc : {"idle", "waiting", "startVideo", "enableRecording", "stopVideo",
                  "videoCleared", "disableRecording"}, callbacks : BOOLEAN]
PvType == [pc : {"loop", "frame", "index", "video", "command", "starting", "stopping"},
           b : Buffers \cup {None}, msg : {"none", "start", "stop"}]
HalType == [running : BOOLEAN, recording : BOOLEAN, bufs : BOOLEAN]
AdapterType == [state : {"INTIALIZED", "LOADED_PREVIEW", "PREVIEW", "VIDEO"},
                subs : SUBSET {"display", "notifier"},
                videoSubs : SUBSET {"notifier"}, recording : BOOLEAN]
VideoRefsType == {<<>>} \cup [Buffers -> 0..1]
Queues == {q \in Seq(Buffers) : IsInjective(q)}
DisplayType == [state : {"INIT", "STARTED", "STOPPED"}, enabled : BOOLEAN,
                msg : {"none", "start", "stop"}, q : Nat, map : SUBSET Buffers]
NotifierType == [frameQ : Seq(Frames), recording : BOOLEAN, previewing : BOOLEAN]

Types ==
    /\ app \in AppType
    /\ commandQ \in {"none", "start", "stop"}
    /\ pv \in PvType
    /\ hal \in HalType
    /\ adapter \in AdapterType
    /\ refs \in [Buffers -> 0..2]
    /\ videoRefs \in VideoRefsType
    /\ driver \in Queues
    /\ streaming \in BOOLEAN
    /\ display \in DisplayType
    /\ window \in Queues
    /\ undequeued \in 1..MAX_CAMERA_BUFFERS
    /\ notifier \in NotifierType
    /\ encoder \in SUBSET Buffers
    /\ ret \in [Threads -> ReturnType]
    /\ undefined \in BOOLEAN
    /\ stale \in SUBSET Buffers

\* A thread that returns a frame has one, of the kind its callback gets.
Returned ==
    /\ \A t \in Threads : IF ret[t].pc = "idle" THEN ret[t] = NoReturn
                          ELSE ret[t].b \in Buffers
    /\ \A t \in {"display", "notifier"} : ret[t].pc # "idle" => ret[t].kind = "preview"
    /\ ret["app"].pc # "idle" => ret["app"].kind = "video"

\* The display knows of every buffer: the window has it, or the adapter.
Shared ==
    /\ Range(window) \cap display.map = {}
    /\ Range(window) \cup display.map = Buffers
    /\ Len(window) + Cardinality(display.map) = MAX_CAMERA_BUFFERS

\* Where the preview thread is in a call of the application.
Commanded ==
    /\ commandQ # "none" => app.pc = "waiting" /\ pv.msg = "none"
                            /\ pv.pc \notin {"command", "starting", "stopping"}
    /\ pv.msg # "none" => app.pc = "waiting"
    /\ pv.pc \in {"command", "starting", "stopping"} => pv.msg # "none"
    /\ IF pv.pc \in {"index", "video"} THEN pv.b \in Buffers ELSE pv.b = None

NoFrames ==
    /\ notifier.frameQ = <<>>
    /\ ret["notifier"].b \in Miscounted \cup {None}

\* Before a start, in one, while frames stream, and in a stop.
Resting ==
    /\ ~streaming /\ driver = <<>> /\ adapter.state = "INTIALIZED"
    /\ pv.pc \notin {"index", "video"}
    /\ display.map = {} /\ ~display.enabled
    /\ display.state # "STARTED" /\ display.msg = "none" /\ Idle("display")
    /\ "display" \notin adapter.subs
    /\ NoFrames

Starting ==
    /\ hal.bufs /\ ~hal.running /\ ~streaming /\ driver = <<>>
    /\ Len(window) = undequeued /\ Range(window) = Kept
    /\ display.msg = "start" \/ (display.msg = "none" /\ display.state = "STARTED")
    /\ Idle("display") /\ NoFrames
    /\ \A b \in Buffers \ Kept : refs[b] = 0

Streams ==
    /\ hal.running /\ streaming /\ adapter.state # "INTIALIZED"
    /\ display.enabled /\ display.state = "STARTED" /\ display.msg = "none"
    /\ "display" \in adapter.subs

Stopping ==
    /\ hal.running /\ ~streaming /\ driver = <<>> /\ adapter.state = "INTIALIZED"
    /\ "display" \notin adapter.subs
    /\ \/ display.msg = "stop"
       \/ display.msg = "none" /\ display.state # "STARTED" /\ Idle("display")
    /\ ~hal.bufs => display.map = {} /\ display.msg = "none"

PreviewPhase ==
    /\ pv.pc = "starting" => Starting
    /\ pv.pc = "stopping" => Stopping
    /\ pv.pc \notin {"starting", "stopping"} => IF hal.bufs THEN Streams ELSE Resting

\* Where the application is in a recording, and what each part knows of it.
RecordingPhase ==
    /\ adapter.videoSubs = IF notifier.recording THEN {"notifier"} ELSE {}
    /\ ~notifier.recording => encoder = {}
    /\ IF app.pc \in {"idle", "waiting"} /\ ~hal.recording
       THEN /\ videoRefs = <<>> /\ ~adapter.recording /\ ~notifier.recording
            /\ Idle("app")
       ELSE /\ hal.bufs /\ app.pc # "waiting"
            /\ hal.recording <=> app.pc \notin {"startVideo", "enableRecording"}
            /\ notifier.recording <=> app.pc \in {"startVideo", "enableRecording", "idle"}
            /\ adapter.recording <=> app.pc \notin {"startVideo", "disableRecording"}
            /\ IF app.pc \in {"enableRecording", "idle", "stopVideo"}
               THEN videoRefs \in [Buffers -> 0..1] ELSE videoRefs = <<>>
            /\ app.pc \notin {"idle", "stopVideo"} => Idle("app")

InQ(k, b) == Has(notifier.frameQ, <<k, b>>)
OnceInQ(k, b) == Once(notifier.frameQ, <<k, b>>)
Ret(t, b) == ret[t].pc = "return" /\ ret[t].b = b

Filling(b) == \E t \in Threads : ret[t].pc = "fill" /\ ret[t].b = b

\* The buffer is with the driver, on its way there, or just taken from it.
Away(b) ==
    \/ b \in Range(driver)
    \/ Filling(b)
    \/ pv.pc = "index" /\ pv.b = b

HeldD(b) == b \in Range(window) \/ Ret("display", b)
HeldN(b) == InQ("preview", b) \/ Ret("notifier", b)
HeldV(b) == InQ("video", b) \/ b \in encoder \/ Ret("app", b)

\* The preview count of a buffer is the number of those who have its frame.
PreviewCounted(b) ==
    /\ refs[b] = One(HeldD(b)) + One(HeldN(b))
    /\ ~ (b \in Range(window) /\ Ret("display", b))
    /\ ~ (InQ("preview", b) /\ Ret("notifier", b))
    /\ OnceInQ("preview", b)

\* So is the video count, until a recording ends and the counts are cleared.
VideoCounted(b) ==
    /\ (notifier.recording \/ videoRefs = <<>>) =>
          /\ videoRefs = <<>> => ~ HeldV(b)
          /\ videoRefs # <<>> => videoRefs[b] = One(HeldV(b))
          /\ ~ (InQ("video", b) /\ (b \in encoder \/ Ret("app", b)))
          /\ ~ (b \in encoder /\ Ret("app", b))
          /\ OnceInQ("video", b)
    /\ Ret("app", b) => videoRefs # <<>> /\ videoRefs[b] = 1

\* A buffer that is away from its readers is counted by none, in one place; a
\* buffer that is not is counted, or the preview thread has it.
AwayAlone(b) ==
    /\ (Away(b) \/ (pv.pc = "video" /\ pv.b = b)) /\ videoRefs # <<>>
          => videoRefs[b] = 0
    /\ Away(b) => refs[b] = 0
    /\ b \in Range(driver) => ~ Filling(b) /\ ~ (pv.pc = "index" /\ pv.b = b)
    /\ pv.pc = "index" /\ pv.b = b => ~ Filling(b)
    /\ pv.pc = "video" /\ pv.b = b => window # <<>> /\ window[Len(window)] = b
    /\ \/ Away(b) \/ refs[b] > 0
       \/ videoRefs # <<>> /\ videoRefs[b] > 0

CountedFor(b) == PreviewCounted(b) /\ VideoCounted(b) /\ AwayAlone(b)
Counted == streaming => \A b \in Buffers \ Miscounted : CountedFor(b)

\* mReturnFrameLock is held by one thread.
Locked == \A t, u \in Threads : ret[t].pc = "fill" /\ ret[u].pc = "fill" => t = u

IInv ==
    /\ Types /\ Returned /\ Shared /\ Commanded /\ PreviewPhase /\ RecordingPhase
    /\ Locked /\ DisplayPaced /\ Counted

-----------------------------------------------------------------------------
(* Every step keeps the types.                                             *)

\* While the application waits, nothing is recorded.
LEMMA WaitingIdle ==
    ASSUME IInv, app.pc = "waiting"
    PROVE  videoRefs = <<>> /\ ~adapter.recording /\ ~hal.recording /\ ~notifier.recording
           /\ Idle("app")
BY DEF IInv, RecordingPhase

\* So forceStopPreview() has no video frames to flush.
LEMMA StoppedVideo ==
    ASSUME IInv, Stopped
    PROVE  app.pc = "waiting" /\ videoRefs = <<>> /\ videoRefs' = <<>>
<1>1. app.pc = "waiting" /\ videoRefs = <<>>
      BY WaitingIdle DEF IInv, Commanded, Stopped
<1>2. \A S : S = {} => [b \in S |-> Max({videoRefs[b] - Queued("video", b), 0})] = <<>>
      OBVIOUS
<1>3. DOMAIN videoRefs = {}
      BY <1>1
<1> QED BY <1>1, <1>2, <1>3 DEF Stopped, Flushed

\* What CameraStart leaves with the window.
LEMMA WindowAllocated ==
    ASSUME Types, CameraStart
    PROVE  /\ window' \in Queues /\ Range(window') = Kept /\ Len(window') = undequeued
           /\ Kept \subseteq Buffers
           /\ Cardinality(Buffers \ Kept) = MAX_CAMERA_BUFFERS - undequeued
<1> DEFINE w == [i \in 1..undequeued |-> MAX_CAMERA_BUFFERS - undequeued + i]
<1>1. MAX_CAMERA_BUFFERS \in Nat /\ undequeued \in 1..MAX_CAMERA_BUFFERS
      BY CameraAssumption DEF Types
<1>2. /\ w \in Seq(Buffers) /\ IsInjective(w) /\ Len(w) = undequeued /\ Range(w) = Kept
      /\ Kept \subseteq Buffers
      /\ Cardinality(Buffers \ Kept) = MAX_CAMERA_BUFFERS - undequeued
      BY <1>1, Allocated DEF Kept, Buffers
<1>3. window' = w
      BY DEF CameraStart, Allocate
<1> HIDE DEF w
<1> QED BY <1>2, <1>3 DEF Queues

\* Every variable keeps its type.
LEMMA TypesStep ==
    ASSUME IInv, Next
    PROVE  Types'
<1> USE CameraAssumption
<1>0. Types /\ Returned /\ Commanded /\ Shared
      BY DEF IInv
<1>F. ASSUME AfterFrame PROVE pv' \in PvType /\ commandQ' \in {"none", "start", "stop"}
  <2>1. CASE pv.msg = "none"
        BY <1>0, <1>F, <2>1 DEF Types, AfterFrame, PvType
  <2>2. CASE pv.msg # "none"
        BY <1>0, <1>F, <2>2 DEF Types, AfterFrame, PvType
  <2> QED BY <2>1, <2>2
<1>1. CASE Poll
  <2>1. pv' \in PvType
        BY <1>0, <1>1 DEF Types, Poll, PvType
  <2> QED BY <1>0, <1>1, <2>1 DEF Types, Poll, frameVars, outVars
<1>2. CASE GetFrame
  <2>1. CASE streaming
    <3>0. driver \in Seq(Buffers) /\ IsInjective(driver) /\ driver # <<>> /\ driver' = Tail(driver)
          BY <1>0, <1>2, <2>1 DEF Types, GetFrame, Queues
    <3>1. driver' \in Queues /\ Head(driver) \in Buffers
          BY <3>0, TailQueue DEF Queues
    <3>2. ReturnLocked \in BOOLEAN
          BY DEF ReturnLocked
    <3>3. pv' \in PvType
          BY <1>0, <1>2, <2>1, <3>1 DEF Types, GetFrame, PvType
    <3> QED BY <1>0, <1>2, <2>1, <3>1, <3>2, <3>3 DEF Types, GetFrame, outVars
  <2>2. CASE ~streaming
    <3>1. pv' \in PvType /\ commandQ' \in {"none", "start", "stop"}
          BY <1>F, <1>2, <2>2 DEF GetFrame
    <3> QED BY <1>0, <1>2, <2>2, <3>1 DEF Types, GetFrame, outVars
  <2> QED BY <2>1, <2>2
<1>3. CASE QueuePreview
  <2>0. pv.b \in Buffers
        BY <1>0, <1>3 DEF Commanded, QueuePreview
  <2>1. refs' \in [Buffers -> 0..2]
    <3>1. Cardinality(adapter.subs) \in 0..2
          BY <1>0, Subscribers DEF Types, One, AdapterType
    <3> QED BY <1>0, <1>3, <3>1 DEF Types, QueuePreview
  <2>2. window' \in Queues
    <3>1. CASE window' = window
          BY <1>0, <3>1 DEF Types
    <3>2. CASE window' = Append(window, pv.b) /\ pv.b \notin Range(window)
          BY <1>0, <2>0, <3>2, AppendQueue DEF Types, Queues
    <3> QED BY <1>3, <3>1, <3>2 DEF QueuePreview, PostFrame
  <2>3. notifier' \in NotifierType
    <3>1. <<"preview", pv.b>> \in Frames
          BY <2>0 DEF Frames
    <3>2. Append(notifier.frameQ, <<"preview", pv.b>>) \in Seq(Frames)
          BY <1>0, <3>1 DEF Types, NotifierType
    <3> QED BY <1>0, <1>3, <3>2 DEF Types, QueuePreview, NotifierType
  <2>4. display' \in DisplayType
    <3>1. display.q + 1 \in Nat /\ display.map \ {pv.b} \in SUBSET Buffers
          BY <1>0 DEF Types, DisplayType
    <3>2. CASE display' = display
          BY <1>0, <3>2 DEF Types
    <3>3. CASE display' = [display EXCEPT !.q = @ + 1, !.map = @ \ {pv.b}]
          BY <1>0, <3>1, <3>3 DEF Types, DisplayType
    <3> QED BY <1>3, <3>2, <3>3 DEF QueuePreview, PostFrame
  <2>5. pv' \in PvType
        BY <1>0, <1>3 DEF Types, QueuePreview, PvType
  <2> QED BY <1>0, <1>3, <2>1, <2>2, <2>3, <2>4, <2>5 DEF Types, QueuePreview
<1>4. CASE QueueVideo
  <2>0. pv.b \in Buffers
        BY <1>0, <1>4 DEF Commanded, QueueVideo
  <2>1. notifier' \in NotifierType
    <3>1. <<"video", pv.b>> \in Frames
          BY <2>0 DEF Frames
    <3>2. Append(notifier.frameQ, <<"video", pv.b>>) \in Seq(Frames)
          BY <1>0, <3>1 DEF Types, NotifierType
    <3> QED BY <1>0, <1>4, <3>2 DEF Types, QueueVideo, NotifierType
  <2>2. videoRefs' \in VideoRefsType
    <3>1. Cardinality(adapter.videoSubs) \in 0..1
          BY <1>0, Subscribers DEF Types, One, AdapterType
    <3> QED BY <1>0, <1>4, <2>0, <3>1 DEF Types, QueueVideo, VideoRefsType
  <2>3. pv' \in PvType /\ commandQ' \in {"none", "start", "stop"}
        BY <1>0, <1>4, <1>F DEF Types, QueueVideo
  <2> QED BY <1>0, <1>4, <2>1, <2>2, <2>3 DEF Types, QueueVideo
<1> DEFINE Answered == pv' \in PvType /\ app' \in AppType
<1>A. ASSUME Answer PROVE Answered
      BY <1>0, <1>A DEF Types, Answer, AppType, PvType
<1> HIDE DEF Answered
<1>5. CASE Nack
  <2>1. Answered
        BY <1>5, <1>A DEF Nack
  <2> QED BY <1>0, <1>5, <2>1 DEF Types, Nack, frameVars, outVars, Answered
<1>6. CASE CameraStart
  <2>1. window' \in Queues
        BY <1>0, <1>6, WindowAllocated
  <2>2. driver' \in Queues
        BY <1>6 DEF CameraStart, IsInjective, Queues
  <2>3. display' \in DisplayType
        BY <1>0, <1>6 DEF Types, CameraStart, Allocate, DisplayType
  <2>4. refs' \in [Buffers -> 0..2]
        BY <1>6 DEF CameraStart, Allocate
  <2>5. pv' \in PvType /\ hal' \in HalType /\ notifier' \in NotifierType
        BY <1>0, <1>6 DEF Types, CameraStart, PvType, HalType, NotifierType
  <2>6. adapter' \in AdapterType
        BY <1>0, <1>6 DEF Types, CameraStart, AdapterType
  <2> QED BY <1>0, <1>6, <2>1, <2>2, <2>3, <2>4, <2>5, <2>6 DEF Types, CameraStart
<1>7. CASE Started
  <2>1. driver' \in Queues
    <3>1. driver' = [i \in 1..MAX_CAMERA_BUFFERS |-> i]
          BY <1>7 DEF Started, Buffers
    <3>2. driver' \in Seq(Buffers) /\ DOMAIN driver' = 1..MAX_CAMERA_BUFFERS
          BY <3>1, CameraAssumption DEF Buffers
    <3>3. IsInjective(driver')
          BY <3>1, <3>2 DEF IsInjective
    <3> QED BY <3>2, <3>3 DEF Queues
  <2>2. display' \in DisplayType
        BY <1>0, <1>7 DEF Types, Started, DisplayType
  <2>3. adapter' \in AdapterType /\ hal' \in HalType
        BY <1>0, <1>7 DEF Types, Started, AdapterType, HalType
  <2>4. Answered
        BY <1>7, <1>A DEF Started
  <2> QED BY <1>0, <1>7, <2>1, <2>2, <2>3, <2>4 DEF Types, Started, Answered
<1>8. CASE StartFails
  <2>1. Answered /\ hal' \in HalType
        BY <1>0, <1>8, <1>A DEF StartFails, Types, HalType
  <2> QED BY <1>0, <1>8, <2>1 DEF Types, StartFails, frameVars, outVars, Answered
<1>9. CASE CameraStop
  <2>1. driver' \in Queues /\ streaming' \in BOOLEAN
    <3>1. <<>> \in Queues
          BY DEF Queues, IsInjective
    <3> QED BY <1>0, <1>9, <3>1 DEF Types, CameraStop
  <2>2. display' \in DisplayType
        BY <1>0, <1>9 DEF Types, CameraStop, DisplayType
  <2>3. adapter' \in AdapterType /\ pv' \in PvType
        BY <1>0, <1>9 DEF Types, CameraStop, AdapterType, PvType
  <2> QED BY <1>0, <1>9, <2>1, <2>2, <2>3 DEF Types, CameraStop
<1>10. CASE Stopped
  <2>1. window' \in Queues
    <3>1. IsFiniteSet(Buffers) /\ display.map \in SUBSET Buffers
          BY <1>0, FS_Interval DEF Types, Buffers, DisplayType
    <3>2. IsFiniteSet(display.map)
          BY <3>1, FS_Subset
    <3>3. /\ SetToSeq(display.map) \in Seq(Buffers) /\ IsInjective(SetToSeq(display.map))
          /\ Range(SetToSeq(display.map)) = display.map
          BY <3>1, <3>2, SetAsQueue
    <3> QED BY <1>0, <1>10, <3>3, JoinQueues DEF Types, Shared, Stopped, Queues
  <2>2. refs' \in [Buffers -> 0..2]
    <3>1. ASSUME NEW b \in Buffers PROVE Max({refs[b] - Queued("preview", b), 0}) \in 0..2
      <4>1. Queued("preview", b) \in Nat /\ refs[b] \in 0..2
            BY <1>0, QueuedFrame DEF Types, NotifierType
      <4>2. Max({refs[b] - Queued("preview", b), 0}) \in 0..refs[b]
            BY <4>1, FlushedValue
      <4> QED BY <4>1, <4>2
    <3>2. DOMAIN refs = Buffers
          BY <1>0 DEF Types
    <3> QED BY <1>0, <1>10, <3>1, <3>2 DEF Types, Stopped, Flushed
  <2>3. videoRefs' \in VideoRefsType
        BY <1>10, StoppedVideo DEF VideoRefsType
  <2>4. stale' \in SUBSET Buffers
    <3>1. ret["notifier"].b \in Buffers \cup {None}
          BY <1>0 DEF Types, Threads, ReturnType
    <3> QED BY <1>0, <1>10, <3>1 DEF Types, Stopped
  <2>5. undefined' \in BOOLEAN
        BY <1>0, <1>10 DEF Types, Stopped
  <2>6. display' \in DisplayType
        BY <1>0, <1>10 DEF Types, Stopped, DisplayType
  <2>7. adapter' \in AdapterType /\ hal' \in HalType
        BY <1>0, <1>10 DEF Types, Stopped, AdapterType, HalType
  <2>8. notifier' \in NotifierType
    <3>1. <<>> \in Seq(Frames)
          OBVIOUS
    <3>2. notifier' = [notifier EXCEPT !.frameQ = <<>>, !.previewing = FALSE]
          BY <1>10 DEF Stopped
    <3> QED BY <1>0, <3>1, <3>2 DEF Types, NotifierType
  <2>9. Answered
        BY <1>10, <1>A DEF Stopped
  <2> QED BY <1>0, <1>10, <2>1, <2>2, <2>3, <2>4, <2>5, <2>6, <2>7, <2>8, <2>9
          DEF Types, Stopped, Answered
<1>11. CASE ProcessHalMsg
  <2>1. display' \in DisplayType
        BY <1>0, <1>11 DEF Types, ProcessHalMsg, DisplayType
  <2> QED BY <1>0, <1>11, <2>1 DEF Types, ProcessHalMsg, frameVars, previewVars
<1>12. CASE HandleFrameReturn
  <2>1. CASE TakesBack
    <3>1. window \in Seq(Buffers) /\ IsInjective(window) /\ window # <<>>
          BY <1>0, <2>1 DEF Types, TakesBack, Queues
    <3>2. Tail(window) \in Queues /\ Head(window) \in Buffers
          BY <3>1, TailQueue DEF Queues
    <3>3. ret' \in [Threads -> ReturnType]
          BY <1>0, <1>12, <2>1, <3>2 DEF Types, HandleFrameReturn, Returning, ReturnType
    <3>4. display' \in DisplayType
      <4>1. display' = [display EXCEPT !.q = @ - 1, !.map = @ \union {Head(window)}]
            BY <1>12, <2>1 DEF HandleFrameReturn
      <4>2. display.q - 1 \in Nat /\ display.map \union {Head(window)} \in SUBSET Buffers
            BY <1>0, <1>12, <3>2 DEF Types, HandleFrameReturn, DisplayType
      <4> QED BY <1>0, <4>1, <4>2 DEF Types, DisplayType
    <3> QED BY <1>0, <1>12, <2>1, <3>2, <3>3, <3>4
            DEF Types, HandleFrameReturn, frameVars, previewVars
  <2>2. CASE ~TakesBack
    <3>1. display' \in DisplayType
          BY <1>0, <1>12, <2>2 DEF Types, HandleFrameReturn, DisplayType
    <3> QED BY <1>0, <1>12, <2>2, <3>1 DEF Types, HandleFrameReturn, frameVars, previewVars
  <2> QED BY <2>1, <2>2
<1>13. CASE NotifyFrame
  <2> DEFINE f == Head(notifier.frameQ)
  <2>1. f \in Frames /\ Tail(notifier.frameQ) \in Seq(Frames)
        BY <1>0, <1>13 DEF Types, NotifyFrame, NotifierType
  <2>2. f[2] \in Buffers
        BY <2>1 DEF Frames
  <2>3. ret' \in [Threads -> ReturnType]
        BY <1>0, <1>13, <2>2 DEF Types, NotifyFrame, Returning, ReturnType
  <2>4. encoder' \in SUBSET Buffers
        BY <1>0, <1>13, <2>2 DEF Types, NotifyFrame
  <2>5. notifier' \in NotifierType
        BY <1>0, <1>13, <2>1 DEF Types, NotifyFrame, NotifierType
  <2> QED BY <1>0, <1>13, <2>3, <2>4, <2>5 DEF Types, NotifyFrame, frameVars, previewVars
<1>14. ASSUME NEW t \in Threads, ReturnFrame(t) PROVE Types'
  <2> DEFINE b == ret[t].b
  <2>1. b \in Buffers /\ ret[t] \in ReturnType
        BY <1>0, <1>14 DEF Types, Returned, ReturnFrame
  <2>2. refs' \in [Buffers -> 0..2]
    <3>1. refs[b] \in 0..2
          BY <1>0, <2>1 DEF Types
    <3>2. Decremented(refs[b]) \in 0..2
          BY <3>1, DecrementedValue
    <3> QED BY <1>0, <1>14, <2>1, <3>2 DEF Types, ReturnFrame
  <2>3. videoRefs' \in VideoRefsType
    <3>1. CASE videoRefs' = videoRefs
          BY <1>0, <3>1 DEF Types
    <3>2. CASE videoRefs' # videoRefs
      <4>1. b \in DOMAIN videoRefs /\ videoRefs' = [videoRefs EXCEPT ![b] = Decremented(@)]
            BY <1>14, <3>2 DEF ReturnFrame, KeyMissing
      <4>2. videoRefs \in [Buffers -> 0..1]
            BY <1>0, <4>1 DEF Types, VideoRefsType
      <4>3. Decremented(videoRefs[b]) \in 0..1
        <5>1. videoRefs[b] \in 0..1
              BY <2>1, <4>2
        <5> QED BY <5>1, DecrementedValue
      <4> QED BY <4>1, <4>2, <4>3 DEF VideoRefsType
    <3> QED BY <3>1, <3>2
  <2>4. ret' \in [Threads -> ReturnType]
        BY <1>0, <1>14, <2>1 DEF Types, ReturnFrame, ReturnType, NoReturn
  <2>5. undefined' \in BOOLEAN
        BY <1>14 DEF ReturnFrame
  <2> QED BY <1>0, <1>14, <2>2, <2>3, <2>4, <2>5 DEF Types, ReturnFrame, previewVars, outVars
<1>15. ASSUME NEW t \in Threads, FillThisBuffer(t) PROVE Types'
  <2>1. ret[t].b \in Buffers
        BY <1>0, <1>15 DEF Returned, FillThisBuffer
  <2>2. driver' \in Queues
    <3>1. CASE driver' = driver
          BY <1>0, <3>1 DEF Types
    <3>2. CASE driver' = Append(driver, ret[t].b) /\ ret[t].b \notin Range(driver)
          BY <1>0, <2>1, <3>2, AppendQueue DEF Types, Queues
    <3> QED BY <1>15, <3>1, <3>2 DEF FillThisBuffer
  <2>3. ret' \in [Threads -> ReturnType] /\ undefined' \in BOOLEAN
    <3>1. NoReturn \in ReturnType
          BY DEF NoReturn, ReturnType
    <3> QED BY <1>0, <1>15, <3>1 DEF Types, FillThisBuffer
  <2> QED BY <1>0, <1>15, <2>2, <2>3 DEF Types, FillThisBuffer, previewVars, outVars
<1>16. CASE StartVideoCapture
  <2>1. app' \in AppType /\ adapter' \in AdapterType
        BY <1>0, <1>16 DEF Types, StartVideoCapture, AppType, AdapterType
  <2>2. videoRefs' \in VideoRefsType
        BY <1>16 DEF StartVideoCapture, VideoRefsType
  <2> QED BY <1>0, <1>16, <2>1, <2>2 DEF Types, StartVideoCapture, previewVars, outVars
<1>17. CASE EnableRecording
  <2>1. app' \in AppType /\ hal' \in HalType
        BY <1>0, <1>17 DEF Types, EnableRecording, AppType, HalType
  <2> QED BY <1>0, <1>17, <2>1 DEF Types, EnableRecording, frameVars, outVars
<1>18. ASSUME NEW b \in DOMAIN videoRefs, ReturnVideo(b) PROVE Types'
  <2>1. b \in Buffers
        BY <1>0, <1>18 DEF Types, VideoRefsType
  <2>2. ret' \in [Threads -> ReturnType]
        BY <1>0, <1>18, <2>1 DEF Types, ReturnVideo, ReturnType, Returning
  <2> QED BY <1>0, <1>18, <2>2 DEF Types, ReturnVideo, previewVars, frameVars, outVars
<1>19. CASE ClearVideo
  <2>1. app' \in AppType /\ videoRefs' \in VideoRefsType
        BY <1>0, <1>19 DEF Types, ClearVideo, AppType, VideoRefsType
  <2>2. stale' \in SUBSET Buffers
        BY <1>0, <1>19 DEF Types, ClearVideo
  <2> QED BY <1>0, <1>19, <2>1, <2>2 DEF Types, ClearVideo, previewVars, outVars
<1>20. CASE StopVideoCapture
  <2>1. app' \in AppType /\ adapter' \in AdapterType
        BY <1>0, <1>20 DEF Types, StopVideoCapture, AppType, AdapterType
  <2> QED BY <1>0, <1>20, <2>1 DEF Types, StopVideoCapture, previewVars, frameVars, outVars
<1>21. CASE DisableRecording
  <2>1. app' \in AppType /\ hal' \in HalType
        BY <1>0, <1>21 DEF Types, DisableRecording, AppType, HalType
  <2> QED BY <1>0, <1>21, <2>1 DEF Types, DisableRecording, frameVars, outVars
<1>22. CASE StartPreview
  <2>1. app' \in AppType
        BY <1>0, <1>22 DEF Types, StartPreview, AppType
  <2> QED BY <1>0, <1>22, <2>1 DEF Types, StartPreview, frameVars, outVars
<1>23. CASE StopPreview
  <2>1. app' \in AppType
        BY <1>0, <1>23 DEF Types, StopPreview, AppType
  <2> QED BY <1>0, <1>23, <2>1 DEF Types, StopPreview, frameVars, outVars
<1>24. CASE SwitchCallbacks
  <2>1. app' \in AppType /\ adapter' \in AdapterType
        BY <1>0, <1>24 DEF Types, SwitchCallbacks, AppType, AdapterType
  <2> QED BY <1>0, <1>24, <2>1 DEF Types, SwitchCallbacks, previewVars, frameVars, outVars
<1>25. CASE StartRecording
  <2>1. app' \in AppType /\ adapter' \in AdapterType
        BY <1>0, <1>25 DEF Types, StartRecording, AppType, AdapterType
  <2>2. notifier' \in NotifierType /\ undefined' \in BOOLEAN
        BY <1>0, <1>25 DEF Types, StartRecording, NotifierType
  <2> QED BY <1>0, <1>25, <2>1, <2>2 DEF Types, StartRecording, previewVars, frameVars
<1>26. CASE StopRecording
  <2>1. app' \in AppType /\ adapter' \in AdapterType /\ encoder' \in SUBSET Buffers
        BY <1>0, <1>26 DEF Types, StopRecording, AppType, AdapterType
  <2>2. notifier' \in NotifierType
        BY <1>0, <1>26 DEF Types, StopRecording, NotifierType
  <2> QED BY <1>0, <1>26, <2>1, <2>2 DEF Types, StopRecording, previewVars, frameVars
<1>27. ASSUME NEW b \in Buffers, ReleaseRecordingFrame(b) PROVE Types'
  <2>1. ret' \in [Threads -> ReturnType] /\ encoder' \in SUBSET Buffers
        BY <1>0, <1>27 DEF Types, ReleaseRecordingFrame, ReturnType, Returning
  <2> QED BY <1>0, <1>27, <2>1 DEF Types, ReleaseRecordingFrame, previewVars, frameVars
<1> QED BY <1>1, <1>2, <1>3, <1>4, <1>5, <1>6, <1>7, <1>8, <1>9, <1>10, <1>11, <1>12, <1>13,
           <1>14, <1>15, <1>16, <1>17, <1>18, <1>19, <1>20, <1>21, <1>22, <1>23, <1>24, <1>25,
           <1>26, <1>27
        DEF Next, PreviewThread, DisplayThread, NotifierThread, InCall, Application, Returns,
            Threads

-----------------------------------------------------------------------------
(* Who holds a frame, the lock and the buffers of the window.              *)

\* The steps that change what a thread returns.
LEMMA RetChanges ==
    ASSUME Next, ret' # ret
    PROVE  \/ HandleFrameReturn \/ NotifyFrame
           \/ \E t \in Threads : ReturnFrame(t) \/ FillThisBuffer(t)
           \/ \E b \in DOMAIN videoRefs : ReturnVideo(b)
           \/ \E b \in Buffers : ReleaseRecordingFrame(b)
<1>1. ~ PreviewThread
      BY DEF PreviewThread, Poll, GetFrame, QueuePreview, QueueVideo, Nack, CameraStart, Started,
             StartFails, CameraStop, Stopped
<1>2. DisplayThread => HandleFrameReturn \/ Returns("display")
      BY DEF DisplayThread, ProcessHalMsg
<1>3. InCall => Returns("app") \/ \E b \in DOMAIN videoRefs : ReturnVideo(b)
      BY DEF InCall, StartVideoCapture, EnableRecording, ClearVideo, StopVideoCapture,
             DisableRecording
<1>4. Application => \E b \in Buffers : ReleaseRecordingFrame(b)
      BY DEF Application, StartPreview, StopPreview, SwitchCallbacks, StartRecording, StopRecording
<1> QED BY <1>1, <1>2, <1>3, <1>4 DEF Next, NotifierThread, Returns, Threads

\* Every step keeps a thread that returns a frame with a buffer and its kind.
LEMMA ReturnedStep ==
    ASSUME IInv, Next
    PROVE  Returned'
<1>0. Types /\ Returned
      BY DEF IInv
<1>1. CASE ret' = ret
      BY <1>0, <1>1 DEF Returned, Threads
<1>2. CASE HandleFrameReturn
  <2>1. CASE TakesBack
    <3>1. Head(window) \in Buffers
          BY <1>0, <2>1 DEF Types, TakesBack, Queues
    <3>2. ret' = [ret EXCEPT !["display"] = Returning(Head(window), "preview")]
          BY <1>2, <2>1 DEF HandleFrameReturn
    <3> QED BY <1>0, <3>1, <3>2 DEF Types, Returned, Returning, Threads
  <2>2. CASE ~TakesBack
        BY <1>1, <1>2, <2>2 DEF HandleFrameReturn
  <2> QED BY <2>1, <2>2
<1>3. CASE NotifyFrame
  <2> DEFINE f == Head(notifier.frameQ)
  <2>1. f[2] \in Buffers
    <3>1. f \in Frames
          BY <1>0, <1>3 DEF Types, NotifyFrame, NotifierType
    <3> QED BY <3>1 DEF Frames
  <2>2. CASE ret' = [ret EXCEPT !["notifier"] = Returning(f[2], "preview")]
        BY <1>0, <2>1, <2>2 DEF Types, Returned, Returning, Threads
  <2> QED BY <1>1, <1>3, <2>2 DEF NotifyFrame
<1>4. ASSUME NEW t \in Threads, ReturnFrame(t) PROVE Returned'
  <2>1. CASE ret' = [ret EXCEPT ![t] = [@ EXCEPT !.pc = "fill"]]
    <3>1. ret[t].pc = "return" /\ ret[t] \in ReturnType
          BY <1>0, <1>4 DEF Types, ReturnFrame
    <3>2. ret'[t].pc = "fill" /\ ret'[t].b = ret[t].b /\ ret'[t].kind = ret[t].kind
          BY <1>0, <2>1, <3>1 DEF Types, ReturnType
    <3>3. \A u \in Threads : u # t => ret'[u] = ret[u]
          BY <1>0, <2>1 DEF Types
    <3> QED BY <1>0, <3>1, <3>2, <3>3 DEF Returned, Threads
  <2>2. CASE ret' = [ret EXCEPT ![t] = NoReturn]
        BY <1>0, <2>2 DEF Types, Returned, NoReturn, Threads
  <2> QED BY <1>1, <1>4, <2>1, <2>2 DEF ReturnFrame
<1>5. ASSUME NEW t \in Threads, FillThisBuffer(t) PROVE Returned'
  <2>1. CASE ret' = [ret EXCEPT ![t] = NoReturn]
        BY <1>0, <2>1 DEF Types, Returned, NoReturn, Threads
  <2> QED BY <1>1, <1>5, <2>1 DEF FillThisBuffer
<1>6. ASSUME NEW b \in DOMAIN videoRefs, ReturnVideo(b) PROVE Returned'
  <2>1. b \in Buffers
        BY <1>0 DEF Types, VideoRefsType
  <2> QED BY <1>0, <1>6, <2>1 DEF Types, Returned, ReturnVideo, Returning, Threads
<1>7. ASSUME NEW b \in Buffers, ReleaseRecordingFrame(b) PROVE Returned'
      BY <1>0, <1>7 DEF Types, Returned, ReleaseRecordingFrame, Returning, Threads
<1> QED BY <1>1, <1>2, <1>3, <1>4, <1>5, <1>6, <1>7, RetChanges

\* Every step keeps mReturnFrameLock with one thread.
LEMMA LockedStep ==
    ASSUME IInv, Next
    PROVE  Locked'
<1>0. Types /\ Locked
      BY DEF IInv
<1>1. CASE \A t \in Threads : ret'[t].pc = "fill" => ret[t].pc = "fill"
      BY <1>0, <1>1 DEF Locked
<1>2. CASE HandleFrameReturn
      BY <1>0, <1>1, <1>2 DEF Types, HandleFrameReturn, Returning
<1>3. CASE NotifyFrame
      BY <1>0, <1>1, <1>3 DEF Types, NotifyFrame, Returning
<1>4. ASSUME NEW t \in Threads, ReturnFrame(t) PROVE Locked'
  <2>1. \A u \in Threads : ret[u].pc # "fill"
        BY <1>4 DEF ReturnFrame, ReturnLocked
  <2>2. \A u \in Threads : u # t => ret'[u] = ret[u]
        BY <1>0, <1>4 DEF Types, ReturnFrame
  <2> QED BY <2>1, <2>2 DEF Locked
<1>5. ASSUME NEW t \in Threads, FillThisBuffer(t) PROVE Locked'
      BY <1>0, <1>1, <1>5 DEF Types, FillThisBuffer, NoReturn
<1>6. ASSUME NEW b \in DOMAIN videoRefs, ReturnVideo(b) PROVE Locked'
      BY <1>0, <1>1, <1>6 DEF Types, ReturnVideo, Returning
<1>7. ASSUME NEW b \in Buffers, ReleaseRecordingFrame(b) PROVE Locked'
      BY <1>0, <1>1, <1>7 DEF Types, ReleaseRecordingFrame, Returning
<1>8. CASE ret' = ret
      BY <1>1, <1>8
<1> QED BY <1>2, <1>3, <1>4, <1>5, <1>6, <1>7, <1>8, RetChanges

\* The steps that change the window or what the adapter has of it.
LEMMA WindowChanges ==
    ASSUME Next, ~ (window' = window /\ display'.map = display.map), display \in DisplayType
    PROVE  QueuePreview \/ CameraStart \/ Stopped \/ HandleFrameReturn
<1>1. ASSUME PreviewThread PROVE QueuePreview \/ CameraStart \/ Stopped
      BY <1>1 DEF PreviewThread, Poll, GetFrame, QueueVideo, Nack, Started, StartFails, CameraStop,
                  outVars, DisplayType
<1>2. ASSUME DisplayThread PROVE HandleFrameReturn
      BY <1>2 DEF DisplayThread, ProcessHalMsg, Returns, ReturnFrame, FillThisBuffer, outVars,
                  DisplayType
<1>3. ASSUME NotifierThread PROVE FALSE
      BY <1>3 DEF NotifierThread, NotifyFrame, Returns, ReturnFrame, FillThisBuffer, outVars
<1>4. ASSUME InCall PROVE FALSE
      BY <1>4 DEF InCall, StartVideoCapture, EnableRecording, ClearVideo, StopVideoCapture,
                  DisableRecording, ReturnVideo, Returns, ReturnFrame, FillThisBuffer, outVars
<1>5. ASSUME Application PROVE FALSE
      BY <1>5 DEF Application, StartPreview, StopPreview, SwitchCallbacks, StartRecording,
                  StopRecording, ReleaseRecordingFrame, outVars
<1> QED BY <1>1, <1>2, <1>3, <1>4, <1>5 DEF Next

\* The display's map is finite.
LEMMA MapFinite ==
    ASSUME Types
    PROVE  /\ IsFiniteSet(display.map) /\ Cardinality(display.map) \in Nat
           /\ display.map \in SUBSET Buffers
<1>1. IsFiniteSet(Buffers) /\ display.map \in SUBSET Buffers
      BY CameraAssumption, FS_Interval DEF Types, Buffers, DisplayType
<1> QED BY <1>1, FS_Subset, FS_CardinalityType

\* Every step keeps the display's map and the window's queue disjoint and
\* together all buffers.
LEMMA SharedStep ==
    ASSUME IInv, Next
    PROVE  Shared'
<1> USE CameraAssumption
<1>0. Types /\ Shared /\ Commanded /\ window \in Seq(Buffers) /\ IsInjective(window)
      BY DEF IInv, Types, Queues
<1>1. /\ IsFiniteSet(display.map) /\ Cardinality(display.map) \in Nat
      /\ display.map \in SUBSET Buffers
      BY <1>0, MapFinite
<1>2. CASE window' = window /\ display'.map = display.map
      BY <1>0, <1>2 DEF Shared
<1>3. CASE QueuePreview
  <2>1. pv.b \in Buffers
        BY <1>0, <1>3 DEF Commanded, QueuePreview
  <2>2. CASE "display" \notin adapter.subs
        BY <1>2, <1>3, <2>2 DEF QueuePreview
  <2>3. CASE "display" \in adapter.subs
    <3>1. display'.map = display.map \ {pv.b}
          BY <1>0, <1>3, <2>3 DEF QueuePreview, PostFrame, Types, DisplayType
    <3>2. CASE pv.b \in Range(window)
          BY <1>0, <1>2, <1>3, <2>3, <3>1, <3>2 DEF Shared, QueuePreview, PostFrame
    <3>3. CASE pv.b \notin Range(window)
      <4>1. window' = Append(window, pv.b) /\ pv.b \in display.map
            BY <1>0, <1>3, <2>1, <2>3, <3>3 DEF Shared, QueuePreview, PostFrame
      <4>2. Range(window') = Range(window) \cup {pv.b} /\ Len(window') = Len(window) + 1
            BY <1>0, <2>1, <4>1, AppendQueue
      <4>3. Cardinality(display'.map) = Cardinality(display.map) - 1
        <5>1. Cardinality(display.map \ {pv.b}) = Cardinality(display.map) - 1
              BY <1>1, <4>1, FS_RemoveElement
        <5> QED BY <3>1, <5>1
      <4> QED BY <1>0, <1>1, <3>1, <4>1, <4>2, <4>3 DEF Shared
    <3> QED BY <3>2, <3>3
  <2> QED BY <2>2, <2>3
<1>4. CASE CameraStart
  <2>1. display'.map = Buffers \ Kept
        BY <1>0, <1>4 DEF Types, CameraStart, Allocate, DisplayType
  <2>2. /\ Range(window') = Kept /\ Len(window') = undequeued /\ Kept \subseteq Buffers
        /\ Cardinality(Buffers \ Kept) = MAX_CAMERA_BUFFERS - undequeued
        BY <1>0, <1>4, WindowAllocated
  <2> QED BY <1>0, <2>1, <2>2 DEF Shared, Types
<1>5. CASE Stopped
  <2>1. window' = window \o SetToSeq(display.map) /\ Range(window) \cap display.map = {}
        BY <1>0, <1>5 DEF Stopped, Shared
  <2>2. /\ Range(window') = Range(window) \cup display.map
        /\ Len(window') = Len(window) + Cardinality(display.map)
        BY ZenonT(40), <1>0, <1>1, <2>1, JoinSet
  <2>3. display'.map = {} /\ Cardinality({}) = 0
        BY <1>0, <1>5, FS_EmptySet DEF Types, Stopped, DisplayType
  <2> QED BY <1>0, <2>2, <2>3 DEF Shared
<1>6. CASE HandleFrameReturn
  <2>1. CASE ~TakesBack
        BY <1>0, <1>2, <1>6, <2>1 DEF HandleFrameReturn, Types, DisplayType
  <2>2. CASE TakesBack
    <3>1. window # <<>> /\ window' = Tail(window)
          BY <1>0, <1>6, <2>2 DEF Types, TakesBack, HandleFrameReturn
    <3>2. display'.map = display.map \cup {Head(window)}
          BY <1>0, <1>6, <2>2 DEF Types, HandleFrameReturn, DisplayType
    <3>3. /\ Range(window') = Range(window) \ {Head(window)} /\ Head(window) \in Range(window)
          /\ Len(window') = Len(window) - 1 /\ Head(window) \in Buffers
          BY <1>0, <3>1, TailQueue
    <3>4. Cardinality(display'.map) = Cardinality(display.map) + 1
      <4>1. Head(window) \notin display.map
            BY <1>0, <3>3 DEF Shared
      <4>2. Cardinality(display.map \cup {Head(window)}) = Cardinality(display.map) + 1
            BY <1>1, <4>1, FS_AddElement
      <4> QED BY <3>2, <4>2
    <3>5. Len(window) \in Nat
          BY <1>0
    <3> QED BY <1>0, <1>1, <3>2, <3>3, <3>4, <3>5 DEF Shared
  <2> QED BY <2>1, <2>2
<1> QED BY <1>0, <1>2, <1>3, <1>4, <1>5, <1>6, WindowChanges DEF Types

-----------------------------------------------------------------------------
(* The phases of a preview and of a recording.                             *)

\* Every step leaves the preview thread where the call under way allows it.
LEMMA CommandedStep ==
    ASSUME IInv, Next
    PROVE  Commanded'
<1>0. /\ Types /\ Commanded /\ pv \in PvType /\ app \in AppType
      /\ commandQ \in {"none", "start", "stop"}
      BY DEF IInv, Types
<1>1. CASE /\ pv' = pv /\ commandQ' = commandQ
           /\ app'.pc = app.pc \/ app.pc # "waiting"
      BY <1>0, <1>1 DEF Commanded
<1>2. ASSUME PreviewThread PROVE Commanded'
  <2>1. CASE Poll
        BY <1>0, <2>1 DEF Commanded, Poll, PvType
  <2>2. ASSUME AfterFrame, pv.pc \in {"frame", "video"}, app' = app PROVE Commanded'
    <3>1. CASE pv.msg = "none"
          BY <1>0, <2>2, <3>1 DEF Commanded, AfterFrame
    <3>2. CASE pv.msg # "none"
          BY <1>0, <2>2, <3>2 DEF Commanded, AfterFrame, PvType
    <3> QED BY <3>1, <3>2
  <2>3. CASE GetFrame
    <3>1. CASE streaming
      <4>1. Head(driver) \in Buffers
            BY <1>0, <2>3, <3>1 DEF Types, Queues, GetFrame
      <4> QED BY <1>0, <2>3, <3>1, <4>1 DEF Commanded, GetFrame, PvType
    <3>2. CASE ~streaming
          BY <2>2, <2>3, <3>2 DEF GetFrame
    <3> QED BY <3>1, <3>2
  <2>4. CASE QueuePreview
        BY <1>0, <2>4 DEF Commanded, QueuePreview, PvType
  <2>5. CASE QueueVideo
        BY <1>1, <2>2, <2>5 DEF QueueVideo
  <2>6. ASSUME Answer, commandQ' = commandQ, pv.pc \in {"command", "starting", "stopping"}
        PROVE  Commanded'
        BY <1>0, <2>6 DEF Commanded, Answer, PvType, AppType
  <2>7. ASSUME pv' = [pv EXCEPT !.pc = "starting"] \/ pv' = [pv EXCEPT !.pc = "stopping"],
               commandQ' = commandQ, app' = app, pv.pc = "command"
        PROVE  Commanded'
        BY <1>0, <2>7 DEF Commanded, PvType
  <2>8. Nack \/ Started \/ StartFails \/ Stopped
           => Answer /\ commandQ' = commandQ /\ pv.pc \in {"command", "starting", "stopping"}
        BY DEF Nack, Started, StartFails, Stopped
  <2>9. CASE CameraStart
        BY <2>7, <2>9 DEF CameraStart
  <2>10. CASE CameraStop
        BY <2>7, <2>10 DEF CameraStop
  <2> QED BY <1>2, <2>1, <2>3, <2>4, <2>5, <2>6, <2>8, <2>9, <2>10 DEF PreviewThread
<1>3. ASSUME NEW t \in Threads, Returns(t) PROVE Commanded'
      BY <1>1, <1>3 DEF Returns, ReturnFrame, FillThisBuffer, previewVars
<1>4. ASSUME DisplayThread \/ NotifierThread PROVE Commanded'
      BY <1>1, <1>3, <1>4 DEF DisplayThread, NotifierThread, ProcessHalMsg, HandleFrameReturn,
             NotifyFrame, previewVars, Threads
<1>5. ASSUME InCall PROVE Commanded'
  <2>1. CASE Returns("app")
        BY <1>3, <2>1 DEF Threads
  <2> QED BY <1>1, <1>5, <2>1 DEF InCall, StartVideoCapture, EnableRecording, ReturnVideo,
             ClearVideo, StopVideoCapture, DisableRecording, previewVars
<1>6. ASSUME Application PROVE Commanded'
  <2>1. CASE StartPreview
        BY <1>0, <2>1 DEF Commanded, StartPreview, Calling, AppType
  <2>2. CASE StopPreview
        BY <1>0, <2>2 DEF Commanded, StopPreview, Calling, AppType
  <2> QED BY <1>1, <1>6, <2>1, <2>2 DEF Application, SwitchCallbacks, StartRecording,
             StopRecording, ReleaseRecordingFrame, Calling, previewVars
<1> QED BY <1>2, <1>4, <1>5, <1>6 DEF Next

\* mVideoBuffersAvailable has its keys, or none.
LEMMA VideoKeys ==
    ASSUME NEW v \in VideoRefsType
    PROVE  /\ v # <<>> <=> v \in [Buffers -> 0..1]
           /\ v = <<>> => DOMAIN v = {}
           /\ v # <<>> => DOMAIN v = Buffers
           /\ v = <<>> <=> DOMAIN v = {}
<1>1. 1 \in Buffers
      BY CameraAssumption DEF Buffers
<1>2. \A f \in [Buffers -> 0..1] : DOMAIN f = Buffers
      OBVIOUS
<1>3. DOMAIN <<>> = {}
      OBVIOUS
<1>4. <<>> \notin [Buffers -> 0..1]
      BY <1>1, <1>2, <1>3
<1> QED BY <1>1, <1>2, <1>3, <1>4 DEF VideoRefsType

\* Every step keeps what each part knows of the recording consistent.
LEMMA RecordingPhaseStep ==
    ASSUME IInv, Next
    PROVE  RecordingPhase'
<1>0. /\ Types /\ Commanded /\ Returned /\ RecordingPhase /\ PreviewPhase
      /\ pv \in PvType /\ app \in AppType /\ adapter \in AdapterType /\ hal \in HalType
      /\ notifier \in NotifierType /\ ret \in [Threads -> ReturnType]
      BY DEF IInv, Types
<1>T. Types'
      BY TypesStep
<1>V. /\ videoRefs # <<>> <=> videoRefs \in [Buffers -> 0..1]
      /\ videoRefs' # <<>> <=> videoRefs' \in [Buffers -> 0..1]
      /\ videoRefs = <<>> <=> DOMAIN videoRefs = {}
      /\ videoRefs' = <<>> <=> DOMAIN videoRefs' = {}
      BY <1>0, <1>T, VideoKeys DEF Types
<1>R. "app" \in Threads
      BY DEF Threads
<1>1. CASE /\ adapter'.videoSubs = adapter.videoSubs /\ adapter'.recording = adapter.recording
           /\ notifier'.recording = notifier.recording /\ app'.pc = app.pc
           /\ hal'.recording = hal.recording /\ (hal.bufs => hal'.bufs)
           /\ encoder' \subseteq encoder \/ notifier.recording
           /\ videoRefs' = <<>> <=> videoRefs = <<>>
           /\ \/ ret'["app"] = ret["app"] \/ ret["app"] # NoReturn
              \/ app.pc = "idle" /\ hal.recording
              \/ app.pc = "stopVideo"
      BY <1>0, <1>V, <1>1 DEF RecordingPhase, Idle
<1>2. ASSUME PreviewThread PROVE RecordingPhase'
  <2>1. CASE Poll \/ GetFrame \/ QueuePreview
    <3>1. /\ adapter' = adapter /\ notifier'.recording = notifier.recording /\ app' = app
          /\ hal' = hal /\ encoder' = encoder /\ videoRefs' = videoRefs /\ ret' = ret
          BY <1>0, <2>1 DEF Poll, GetFrame, QueuePreview, frameVars, outVars, NotifierType
    <3> QED BY <1>1, <3>1
  <2>2. CASE QueueVideo
    <3>1. /\ adapter' = adapter /\ notifier'.recording = notifier.recording /\ app' = app
          /\ hal' = hal /\ encoder' = encoder /\ ret' = ret
          BY <1>0, <2>2 DEF QueueVideo, NotifierType
    <3>2. videoRefs' = <<>> <=> videoRefs = <<>>
      <4>1. videoRefs' = videoRefs \/ \E n : videoRefs' = [videoRefs EXCEPT ![pv.b] = n]
            BY <2>2 DEF QueueVideo
      <4>2. DOMAIN videoRefs' = DOMAIN videoRefs
            BY <4>1
      <4> QED BY <1>V, <4>2
    <3> QED BY <1>1, <3>1, <3>2
  <2>3. ASSUME app.pc = "waiting", app'.pc \in {"idle", "waiting"},
               adapter'.videoSubs = adapter.videoSubs, adapter'.recording = adapter.recording,
               notifier'.recording = notifier.recording, hal'.recording = hal.recording,
               encoder' = encoder, videoRefs' = videoRefs, ret' = ret
        PROVE  RecordingPhase'
        BY <1>0, <2>3 DEF RecordingPhase, Idle
  <2>4. pv.pc \in {"command", "starting", "stopping"} => app.pc = "waiting"
        BY <1>0 DEF Commanded
  <2>5. ASSUME Answer PROVE app'.pc = "idle"
        BY <1>0, <2>5 DEF Answer, AppType
  <2>6. CASE Nack
        BY <1>0, <2>3, <2>4, <2>5, <2>6 DEF Nack, frameVars, outVars
  <2>7. CASE CameraStart
        BY <1>0, <2>3, <2>4, <2>7 DEF CameraStart, AdapterType, NotifierType, HalType
  <2>8. CASE Started
        BY <1>0, <2>3, <2>4, <2>5, <2>8 DEF Started, AdapterType, HalType
  <2>9. CASE StartFails
        BY <1>0, <2>3, <2>4, <2>5, <2>9 DEF StartFails, HalType, frameVars, outVars
  <2>10. CASE CameraStop
        BY <1>0, <2>3, <2>4, <2>10 DEF CameraStop, AdapterType
  <2>11. CASE Stopped
    <3>1. videoRefs' = videoRefs /\ app.pc = "waiting"
          BY <2>11, StoppedVideo
    <3>2. app'.pc = "idle"
          BY <2>5, <2>11 DEF Stopped
    <3> QED BY <1>0, <2>3, <2>11, <3>1, <3>2 DEF Stopped, AdapterType, NotifierType, HalType
  <2> QED BY <1>2, <2>1, <2>2, <2>6, <2>7, <2>8, <2>9, <2>10, <2>11 DEF PreviewThread
<1>3. ASSUME NEW t \in Threads, Returns(t) PROVE RecordingPhase'
  <2>1. videoRefs' = <<>> <=> videoRefs = <<>>
    <3>1. videoRefs' = videoRefs \/ \E n, b : videoRefs' = [videoRefs EXCEPT ![b] = n]
          BY <1>3 DEF Returns, ReturnFrame, FillThisBuffer
    <3>2. DOMAIN videoRefs' = DOMAIN videoRefs
          BY <3>1
    <3> QED BY <1>V, <3>2
  <2>2. ret'["app"] = ret["app"] \/ ret["app"] # NoReturn
        BY <1>0, <1>3, <1>R DEF Returns, ReturnFrame, FillThisBuffer, NoReturn
  <2> QED BY <1>1, <1>3, <2>1, <2>2 DEF Returns, ReturnFrame, FillThisBuffer, previewVars, outVars
<1>4. ASSUME DisplayThread \/ NotifierThread PROVE RecordingPhase'
  <2>1. CASE ProcessHalMsg
        BY <1>1, <2>1 DEF ProcessHalMsg, previewVars, frameVars
  <2>2. CASE HandleFrameReturn
    <3>1. ret'["app"] = ret["app"]
          BY <1>0, <1>R, <2>2 DEF HandleFrameReturn
    <3> QED BY <1>1, <2>2, <3>1 DEF HandleFrameReturn, previewVars, frameVars
  <2>3. CASE NotifyFrame
    <3>1. ret'["app"] = ret["app"]
          BY <1>0, <1>R, <2>3 DEF NotifyFrame
    <3>2. notifier'.recording = notifier.recording
          BY <1>0, <2>3 DEF NotifyFrame, NotifierType
    <3> QED BY <1>1, <2>3, <3>1, <3>2 DEF NotifyFrame, previewVars, frameVars
  <2> QED BY <1>3, <1>4, <2>1, <2>2, <2>3 DEF DisplayThread, NotifierThread, Threads
<1>5. ASSUME InCall PROVE RecordingPhase'
  <2>1. CASE Returns("app")
        BY <1>3, <1>R, <2>1
  <2>2. CASE StartVideoCapture
        BY <1>0, <1>V, <2>2 DEF StartVideoCapture, RecordingPhase, Idle, AppType, AdapterType,
               previewVars, outVars
  <2>3. CASE EnableRecording
        BY <1>0, <2>3 DEF EnableRecording, RecordingPhase, Idle, AppType, HalType,
               frameVars, outVars
  <2>4. ASSUME NEW b \in DOMAIN videoRefs, ReturnVideo(b) PROVE RecordingPhase'
        BY <1>0, <1>1, <2>4 DEF ReturnVideo, previewVars, frameVars, outVars
  <2>5. CASE ClearVideo
        BY <1>0, <2>5 DEF ClearVideo, RecordingPhase, Idle, AppType, previewVars, outVars
  <2>6. CASE StopVideoCapture
        BY <1>0, <2>6 DEF StopVideoCapture, RecordingPhase, Idle, AppType, AdapterType,
               previewVars, frameVars, outVars
  <2>7. CASE DisableRecording
        BY <1>0, <2>7 DEF DisableRecording, RecordingPhase, Idle, AppType, HalType,
               frameVars, outVars
  <2> QED BY <1>5, <2>1, <2>2, <2>3, <2>4, <2>5, <2>6, <2>7 DEF InCall
<1>6. ASSUME Application PROVE RecordingPhase'
  <2>1. CASE StartPreview
        BY <1>0, <2>1 DEF StartPreview, Calling, RecordingPhase, Idle, AppType, frameVars, outVars
  <2>2. CASE StopPreview
        BY <1>0, <2>2 DEF StopPreview, Calling, RecordingPhase, Idle, AppType, frameVars, outVars
  <2>3. CASE SwitchCallbacks
        BY <1>0, <1>1, <2>3 DEF SwitchCallbacks, AppType, AdapterType, previewVars, frameVars,
               outVars
  <2>4. CASE StartRecording
    <3>1. CASE hal.bufs
          BY <1>0, <2>4, <3>1 DEF StartRecording, Calling, RecordingPhase, Idle, AppType,
                 AdapterType, NotifierType, previewVars, frameVars
    <3>2. CASE ~hal.bufs
          BY <1>1, <2>4, <3>2 DEF StartRecording, previewVars, frameVars
    <3> QED BY <3>1, <3>2
  <2>5. CASE StopRecording
        BY <1>0, <2>5 DEF StopRecording, Calling, RecordingPhase, Idle, AppType,
               AdapterType, NotifierType, previewVars, frameVars
  <2>6. ASSUME NEW b \in Buffers, ReleaseRecordingFrame(b) PROVE RecordingPhase'
        BY <1>1, <2>6 DEF ReleaseRecordingFrame, Calling, previewVars, frameVars
  <2> QED BY <1>6, <2>1, <2>2, <2>3, <2>4, <2>5, <2>6 DEF Application
<1> QED BY <1>2, <1>4, <1>5, <1>6 DEF Next

\* A buffer that is miscounted stays so.
LEMMA HistoryGrows ==
    ASSUME Next
    PROVE  /\ undequeued' = undequeued /\ stale \subseteq stale'
           /\ Kept' = Kept /\ Miscounted \subseteq Miscounted'
<1>1. ASSUME NEW t \in Threads, Returns(t) PROVE undequeued' = undequeued /\ stale \subseteq stale'
      BY <1>1 DEF Returns, ReturnFrame, FillThisBuffer, outVars
<1>2. ASSUME PreviewThread PROVE undequeued' = undequeued /\ stale \subseteq stale'
      BY <1>2 DEF PreviewThread, Poll, GetFrame, QueuePreview, QueueVideo, Nack, CameraStart, Started,
             StartFails, CameraStop, Stopped, outVars
<1>3. ASSUME DisplayThread \/ NotifierThread
      PROVE  undequeued' = undequeued /\ stale \subseteq stale'
      BY <1>1, <1>3 DEF DisplayThread, NotifierThread, ProcessHalMsg, HandleFrameReturn, NotifyFrame,
             Threads
<1>4. ASSUME InCall PROVE undequeued' = undequeued /\ stale \subseteq stale'
  <2>1. CASE Returns("app")
        BY <1>1, <2>1 DEF Threads
  <2> QED BY <1>4, <2>1 DEF InCall, StartVideoCapture, EnableRecording, ReturnVideo,
             ClearVideo, StopVideoCapture, DisableRecording, outVars
<1>5. ASSUME Application PROVE undequeued' = undequeued /\ stale \subseteq stale'
      BY <1>5 DEF Application, StartPreview, StopPreview, SwitchCallbacks, StartRecording,
             StopRecording, ReleaseRecordingFrame, outVars
<1>6. undequeued' = undequeued /\ stale \subseteq stale'
      BY <1>2, <1>3, <1>4, <1>5 DEF Next
<1> QED BY <1>6 DEF Kept, Miscounted

\* Every step keeps what each part knows of the preview consistent.
LEMMA PreviewPhaseStep ==
    ASSUME IInv, Next
    PROVE  PreviewPhase'
<1>0. /\ Types /\ Commanded /\ Returned /\ RecordingPhase /\ PreviewPhase
      /\ pv \in PvType /\ app \in AppType /\ adapter \in AdapterType /\ hal \in HalType
      /\ notifier \in NotifierType /\ display \in DisplayType /\ ret \in [Threads -> ReturnType]
      BY DEF IInv, Types
<1>H. undequeued' = undequeued /\ Kept' = Kept /\ Miscounted \subseteq Miscounted'
      BY HistoryGrows
<1>R. "app" \in Threads /\ "display" \in Threads /\ "notifier" \in Threads
      BY DEF Threads
\* Nothing that the phases are about has changed.
<1> DEFINE Same == /\ driver' = driver /\ streaming' = streaming /\ window' = window
                   /\ display' = display /\ refs' = refs
                   /\ hal'.running = hal.running /\ hal'.bufs = hal.bufs
                   /\ adapter'.state = adapter.state
                   /\ ("display" \in adapter'.subs) = ("display" \in adapter.subs)
                   /\ notifier'.frameQ = notifier.frameQ
                   /\ ret'["display"] = ret["display"] /\ ret'["notifier"] = ret["notifier"]
<1>1. ASSUME Same, \/ pv'.pc = pv.pc
                   \/ /\ pv.pc \notin {"starting", "stopping"}
                      /\ pv'.pc \notin {"starting", "stopping", "index", "video"}
      PROVE  PreviewPhase'
      BY <1>0, <1>1, <1>H DEF PreviewPhase, Starting, Stopping, Streams, Resting, NoFrames, Idle
<1>A. ASSUME AfterFrame PROVE pv'.pc \in {"frame", "command"}
      BY <1>0, <1>A DEF AfterFrame, PvType
<1>N. ASSUME Answer PROVE pv'.pc = "loop"
      BY <1>0, <1>N DEF Answer, PvType
<1>2. ASSUME PreviewThread PROVE PreviewPhase'
  <2>1. CASE Poll
    <3>1. pv'.pc \in {"frame", "command"} /\ pv.pc = "loop"
          BY <1>0, <2>1 DEF Poll, PvType
    <3> QED BY <1>1, <2>1, <3>1 DEF Poll, frameVars, outVars
  <2>2. CASE GetFrame
    <3>1. CASE streaming
      <4>1. pv'.pc = "index" /\ pv.pc = "frame"
            BY <1>0, <2>2, <3>1 DEF GetFrame, PvType
      <4> QED BY <1>0, <2>2, <3>1, <4>1 DEF GetFrame, PreviewPhase, Streams, Resting, outVars
    <3>2. CASE ~streaming
          BY <1>1, <1>A, <2>2, <3>2 DEF GetFrame, outVars
    <3> QED BY <3>1, <3>2
  <2>3. CASE QueuePreview
    <3>1. /\ pv'.pc = "video" /\ pv.pc = "index"
          /\ display'.enabled = display.enabled /\ display'.state = display.state
          /\ display'.msg = display.msg
          BY <1>0, <2>3 DEF QueuePreview, PostFrame, PvType, DisplayType
    <3> QED BY <1>0, <2>3, <3>1 DEF QueuePreview, PreviewPhase, Streams, Resting
  <2>4. CASE QueueVideo
    <3>1. pv'.pc \notin {"starting", "stopping"} /\ pv.pc = "video"
          BY <1>0, <1>A, <2>4 DEF QueueVideo
    <3> QED BY <1>0, <2>4, <3>1 DEF QueueVideo, PreviewPhase, Streams, Resting
  <2>5. CASE Nack
    <3>1. pv'.pc = "loop" /\ pv.pc = "command"
          BY <1>N, <2>5 DEF Nack
    <3> QED BY <1>1, <2>5, <3>1 DEF Nack, frameVars, outVars
  <2>6. CASE CameraStart
    <3>1. Resting
          BY <1>0, <2>6 DEF CameraStart, PreviewPhase, Streams
    <3>2. pv'.pc = "starting"
          BY <1>0, <2>6 DEF CameraStart, PvType
    <3>3. hal'.bufs /\ ~hal'.running /\ ~streaming' /\ driver' = <<>>
          BY <1>0, <2>6, <3>1 DEF CameraStart, HalType, Resting
    <3>4. Len(window') = undequeued' /\ Range(window') = Kept'
          BY <1>0, <1>H, <2>6, WindowAllocated
    <3>5. display'.msg = "start"
          BY <1>0, <2>6 DEF CameraStart, Allocate, DisplayType
    <3>6. NoFrames' /\ Idle("display")'
          BY <1>0, <1>H, <2>6, <3>1 DEF CameraStart, NotifierType, Resting, NoFrames, Idle
    <3>7. \A b \in Buffers \ Kept' : refs'[b] = 0
          BY <1>H, <2>6 DEF CameraStart, Allocate
    <3> QED BY <3>2, <3>3, <3>4, <3>5, <3>6, <3>7 DEF PreviewPhase, Starting
  <2>7. CASE Started
    <3>1. Starting /\ display.state = "STARTED" /\ display.msg = "none"
          BY <1>0, <2>7 DEF Started, DisplayAcked, PreviewPhase, Starting
    <3>2. pv'.pc = "loop"
          BY <1>N, <2>7 DEF Started
    <3>3. hal'.running /\ hal'.bufs /\ streaming'
          BY <1>0, <2>7, <3>1 DEF Started, HalType, Starting
    <3>4. adapter'.state # "INTIALIZED" /\ "display" \in adapter'.subs
          BY <1>0, <2>7 DEF Started, AdapterType
    <3>5. display'.enabled /\ display'.state = "STARTED" /\ display'.msg = "none"
          BY <1>0, <2>7, <3>1 DEF Started, DisplayType
    <3> QED BY <3>2, <3>3, <3>4, <3>5 DEF PreviewPhase, Streams
  <2>8. CASE StartFails
    <3>1. Resting /\ ~hal.bufs
          BY <1>0, <2>8 DEF StartFails, PreviewPhase, Streams
    <3>2. pv'.pc = "loop" /\ ~hal'.bufs
          BY <1>0, <1>N, <2>8, <3>1 DEF StartFails, HalType
    <3> QED BY <1>H, <2>8, <3>1, <3>2
            DEF StartFails, PreviewPhase, Resting, NoFrames, Idle, frameVars, outVars
  <2>9. CASE CameraStop
    <3>1. pv'.pc = "stopping" /\ hal' = hal /\ hal.running /\ ret' = ret
          BY <1>0, <2>9 DEF CameraStop, PvType
    <3>2. adapter'.state = "INTIALIZED" /\ "display" \notin adapter'.subs
          BY <1>0, <2>9 DEF CameraStop, AdapterType
    <3>3. CASE hal.bufs
      <4>1. Streams
            BY <1>0, <2>9, <3>3 DEF CameraStop, PreviewPhase
      <4>2. ~streaming' /\ driver' = <<>>
            BY <2>9, <4>1 DEF CameraStop, Streams
      <4>3. display'.msg = "stop"
            BY <1>0, <2>9, <4>1 DEF CameraStop, Streams, DisplayType
      <4> QED BY <3>1, <3>2, <3>3, <4>2, <4>3 DEF PreviewPhase, Stopping
    <3>4. CASE ~hal.bufs
      <4>1. Resting
            BY <1>0, <2>9, <3>4 DEF CameraStop, PreviewPhase
      <4>2. ~streaming' /\ driver' = <<>> /\ display' = display
            BY <2>9, <4>1 DEF CameraStop, Resting
      <4> QED BY <3>1, <3>2, <3>4, <4>1, <4>2 DEF PreviewPhase, Stopping, Resting, Idle
    <3> QED BY <3>3, <3>4
  <2>10. CASE Stopped
    <3>1. Stopping /\ display.msg = "none"
          BY <1>0, <2>10 DEF Stopped, DisplayAcked, PreviewPhase
    <3>2. pv'.pc = "loop"
          BY <1>N, <2>10 DEF Stopped
    <3>3. ~hal'.bufs /\ ~streaming' /\ driver' = <<>>
          BY <1>0, <2>10, <3>1 DEF Stopped, HalType, Stopping
    <3>4. adapter'.state = "INTIALIZED" /\ "display" \notin adapter'.subs
          BY <1>0, <2>10, <3>1 DEF Stopped, AdapterType, Stopping
    <3>5. /\ display'.map = {} /\ ~display'.enabled
          /\ display'.state # "STARTED" /\ display'.msg = "none" /\ Idle("display")'
          BY <1>0, <2>10, <3>1 DEF Stopped, DisplayType, Stopping, Idle
    <3>6. NoFrames'
      <4>1. notifier'.frameQ = <<>>
            BY <1>0, <2>10 DEF Stopped, NotifierType
      <4>2. ret'["notifier"].b \in Miscounted' \cup {None}
            BY <1>H, <2>10 DEF Stopped, Miscounted
      <4> QED BY <4>1, <4>2 DEF NoFrames
    <3> QED BY <3>2, <3>3, <3>4, <3>5, <3>6 DEF PreviewPhase, Resting
  <2> QED BY <1>2, <2>1, <2>2, <2>3, <2>4, <2>5, <2>6, <2>7, <2>8, <2>9, <2>10 DEF PreviewThread
<1>3. ASSUME NEW t \in Threads, ReturnFrame(t) PROVE PreviewPhase'
  <2>1. /\ ret[t].b \in Buffers /\ ret[t] # NoReturn /\ ret[t].pc = "return"
        BY <1>0, <1>3 DEF ReturnFrame, Returned, NoReturn
  <2>2. \A u \in Threads : u # t => ret'[u] = ret[u]
        BY <1>0, <1>3 DEF ReturnFrame
  <2>3. ret'[t].b \in {ret[t].b, None}
    <3>1. ret[t] \in ReturnType
          BY <1>0
    <3> QED BY <1>0, <1>3, <3>1 DEF ReturnFrame, NoReturn, ReturnType
  <2>4. \A b \in Buffers : refs[b] = 0 => refs'[b] = 0
    <3>1. Decremented(0) = 0
          BY DecrementedValue
    <3> QED BY <1>0, <1>3, <3>1 DEF ReturnFrame, Types
  <2>5. Idle("display") => Idle("display")'
        BY <1>R, <2>1, <2>2 DEF Idle
  <2>6. ret'["notifier"].b \in {ret["notifier"].b, None}
        BY <1>R, <2>2, <2>3
  <2>7. /\ driver' = driver /\ streaming' = streaming /\ window' = window
        /\ display' = display /\ hal' = hal /\ pv' = pv /\ adapter' = adapter /\ notifier' = notifier
        BY <1>3 DEF ReturnFrame, previewVars, outVars
  <2> QED BY <1>0, <1>H, <2>4, <2>5, <2>6, <2>7
          DEF PreviewPhase, Starting, Stopping, Streams, Resting, NoFrames
<1>4. ASSUME NEW t \in Threads, FillThisBuffer(t) PROVE PreviewPhase'
  <2>1. CASE streaming
    <3>1. Streams /\ hal.bufs /\ pv.pc \notin {"starting", "stopping"}
          BY <1>0, <2>1 DEF PreviewPhase, Starting, Stopping, Resting
    <3> QED BY <1>4, <2>1, <3>1 DEF FillThisBuffer, PreviewPhase, Streams, previewVars, outVars
  <2>2. CASE ~streaming
        BY <1>1, <1>4, <2>2 DEF FillThisBuffer, previewVars, outVars
  <2> QED BY <2>1, <2>2
<1>5. CASE ProcessHalMsg
  <2>1. /\ Idle("display") /\ Idle("display")' /\ display.msg # "none" /\ display'.msg = "none"
        /\ display'.state = IF display.msg = "start" THEN "STARTED" ELSE "STOPPED"
        /\ display'.map = display.map /\ display'.enabled = display.enabled
        BY <1>0, <1>5 DEF ProcessHalMsg, DisplayType, Idle
  <2>2. pv.pc \in {"starting", "stopping"}
        BY <1>0, <2>1 DEF PreviewPhase, Streams, Resting
  <2> QED BY <1>0, <1>5, <1>H, <2>1, <2>2
          DEF ProcessHalMsg, PreviewPhase, Starting, Stopping, NoFrames, previewVars, frameVars
<1>6. CASE HandleFrameReturn
  <2>1. /\ display'.msg = display.msg /\ display'.state = display.state
        /\ display'.enabled = display.enabled /\ display.msg = "none"
        BY <1>0, <1>6 DEF HandleFrameReturn, DisplayType
  <2>2. CASE TakesBack
    <3>1. Len(window) > undequeued /\ display.state = "STARTED"
          BY <2>2 DEF TakesBack
    <3>2. undequeued \in Nat
          BY <1>0, CameraAssumption DEF Types
    <3>3. pv.pc \notin {"starting", "stopping"} /\ hal.bufs
          BY <1>0, <2>1, <3>1, <3>2 DEF PreviewPhase, Starting, Stopping, Resting
    <3> QED BY <1>0, <1>6, <2>1, <3>3
            DEF HandleFrameReturn, PreviewPhase, Streams, previewVars, frameVars
  <2>3. CASE ~TakesBack
    <3>1. display'.map = display.map /\ window' = window /\ ret' = ret
          BY <1>0, <1>6, <2>3 DEF HandleFrameReturn, DisplayType
    <3> QED BY <1>0, <1>6, <1>H, <2>1, <3>1
            DEF HandleFrameReturn, PreviewPhase, Starting, Stopping, Streams, Resting, NoFrames,
                Idle, previewVars, frameVars
  <2> QED BY <2>2, <2>3
<1>7. CASE NotifyFrame
  <2>1. ret'["display"] = ret["display"]
        BY <1>0, <1>7, <1>R DEF NotifyFrame
  <2>2. ~Starting /\ ~Resting
        BY <1>7 DEF NotifyFrame, Starting, Resting, NoFrames
  <2> QED BY <1>0, <1>7, <2>1, <2>2
          DEF NotifyFrame, PreviewPhase, Streams, Stopping, Idle, previewVars, frameVars
<1>8. ASSUME InCall PROVE PreviewPhase'
  <2>1. CASE Returns("app")
        BY <1>3, <1>4, <1>R, <2>1 DEF Returns
  <2>2. app.pc # "waiting" => pv.pc \notin {"starting", "stopping"}
        BY <1>0 DEF Commanded
  <2>3. CASE StartVideoCapture \/ StopVideoCapture
    <3>1. hal.bufs /\ pv.pc \notin {"starting", "stopping"}
          BY <1>0, <2>2, <2>3 DEF StartVideoCapture, StopVideoCapture, RecordingPhase
    <3>2. /\ adapter'.state # "INTIALIZED" /\ adapter'.subs = adapter.subs
          BY <1>0, <2>3 DEF StartVideoCapture, StopVideoCapture, AdapterType
    <3> QED BY <1>0, <2>3, <3>1, <3>2
            DEF StartVideoCapture, StopVideoCapture, PreviewPhase, Streams,
                previewVars, frameVars, outVars
  <2>4. CASE EnableRecording \/ DisableRecording
    <3>1. hal'.running = hal.running /\ hal'.bufs = hal.bufs
          BY <1>0, <2>4 DEF EnableRecording, DisableRecording, HalType
    <3> QED BY <1>1, <2>4, <3>1 DEF EnableRecording, DisableRecording, frameVars, outVars
  <2>5. CASE ClearVideo
        BY <1>1, <2>5 DEF ClearVideo, previewVars, outVars
  <2>6. ASSUME NEW b, ReturnVideo(b) PROVE PreviewPhase'
    <3>1. ret'["display"] = ret["display"] /\ ret'["notifier"] = ret["notifier"]
          BY <1>0, <1>R, <2>6 DEF ReturnVideo
    <3> QED BY <1>1, <2>6, <3>1 DEF ReturnVideo, previewVars, frameVars, outVars
  <2> QED BY <1>8, <2>1, <2>3, <2>4, <2>5, <2>6 DEF InCall
<1>9. ASSUME Application PROVE PreviewPhase'
  <2>1. CASE StartPreview \/ StopPreview
        BY <1>1, <2>1 DEF StartPreview, StopPreview, frameVars, outVars
  <2>2. CASE SwitchCallbacks
    <3>1. /\ adapter'.state = adapter.state
          /\ ("display" \in adapter'.subs) = ("display" \in adapter.subs)
          BY <1>0, <2>2 DEF SwitchCallbacks, AdapterType
    <3> QED BY <1>1, <2>2, <3>1 DEF SwitchCallbacks, previewVars, frameVars, outVars
  <2>3. CASE StartRecording
    <3>1. /\ adapter'.state = adapter.state /\ adapter'.subs = adapter.subs
          /\ notifier'.frameQ = notifier.frameQ
          BY <1>0, <2>3 DEF StartRecording, AdapterType, NotifierType
    <3> QED BY <1>1, <2>3, <3>1 DEF StartRecording, previewVars, frameVars
  <2>4. CASE StopRecording
    <3>1. /\ adapter'.state = adapter.state
          /\ ("display" \in adapter'.subs) = ("display" \in adapter.subs)
          /\ notifier'.frameQ = notifier.frameQ
          BY <1>0, <2>4 DEF StopRecording, AdapterType, NotifierType
    <3> QED BY <1>1, <2>4, <3>1 DEF StopRecording, previewVars, frameVars
  <2>5. ASSUME NEW b \in Buffers, ReleaseRecordingFrame(b) PROVE PreviewPhase'
    <3>1. ret'["display"] = ret["display"] /\ ret'["notifier"] = ret["notifier"]
          BY <1>0, <1>R, <2>5 DEF ReleaseRecordingFrame
    <3> QED BY <1>1, <2>5, <3>1 DEF ReleaseRecordingFrame, previewVars, frameVars
  <2> QED BY <1>9, <2>1, <2>2, <2>3, <2>4, <2>5 DEF Application
<1> QED BY <1>2, <1>3, <1>4, <1>5, <1>6, <1>7, <1>8, <1>9
        DEF Next, DisplayThread, NotifierThread, Returns, Threads

-----------------------------------------------------------------------------
(* mDisplayQ and the counts.                                               *)

\* Every step leaves mDisplayQ a message for each buffer the window would give back.
LEMMA DisplayPacedStep ==
    ASSUME IInv, Next
    PROVE  DisplayPaced'
<1> USE CameraAssumption
<1>0. /\ Types /\ PreviewPhase /\ DisplayPaced /\ display \in DisplayType
      /\ display.q \in Nat /\ Len(window) \in Nat /\ undequeued \in Nat
      BY DEF IInv, Types, DisplayType, Queues
<1>H. undequeued' = undequeued
      BY HistoryGrows
<1>1. CASE window' = window /\ display'.q = display.q /\ streaming' = streaming
      BY <1>0, <1>1, <1>H DEF DisplayPaced
<1>2. CASE ~streaming'
      BY <1>2 DEF DisplayPaced
<1>3. ASSUME PreviewThread PROVE DisplayPaced'
  <2>1. CASE Poll \/ GetFrame \/ QueueVideo \/ Nack \/ StartFails
        BY <1>1, <2>1 DEF Poll, GetFrame, QueueVideo, Nack, StartFails, frameVars, outVars
  <2>2. CASE QueuePreview
    <3>1. CASE window' = window /\ display' = display
          BY <1>1, <2>2, <3>1 DEF QueuePreview
    <3>2. CASE PostFrame(pv.b)
      <4>1. display'.q = display.q + 1 /\ streaming' = streaming
            BY <1>0, <2>2, <3>2 DEF QueuePreview, PostFrame, DisplayType
      <4>2. Len(window') \in Nat /\ Len(window') <= Len(window) + 1
        <5>1. pv.b \in Buffers /\ window \in Seq(Buffers)
              BY <1>0, <2>2 DEF IInv, Commanded, QueuePreview, Types, Queues
        <5> QED BY <1>0, <3>2, <5>1, AppendQueue DEF PostFrame
      <4> QED BY <1>0, <1>H, <4>1, <4>2 DEF DisplayPaced
    <3> QED BY <2>2, <3>1, <3>2 DEF QueuePreview
  <2>3. CASE CameraStart \/ Stopped \/ CameraStop
        BY <1>0, <1>2, <2>3 DEF CameraStart, Stopped, CameraStop, PreviewPhase, Streams, Resting,
               Stopping
  <2>4. CASE Started
    <3>1. Len(window) = undequeued /\ window' = window
          BY <1>0, <2>4 DEF Started, PreviewPhase, Starting
    <3>2. display'.q = display.q
          BY <1>0, <2>4 DEF Started, DisplayType
    <3> QED BY <1>0, <1>H, <3>1, <3>2 DEF DisplayPaced
  <2> QED BY <1>3, <2>1, <2>2, <2>3, <2>4 DEF PreviewThread
<1>4. ASSUME NEW t \in Threads, Returns(t) PROVE DisplayPaced'
      BY <1>1, <1>4 DEF Returns, ReturnFrame, FillThisBuffer, outVars
<1>5. CASE ProcessHalMsg
  <2>1. display'.q = display.q
        BY <1>0, <1>5 DEF ProcessHalMsg, DisplayType
  <2> QED BY <1>1, <1>5, <2>1 DEF ProcessHalMsg, frameVars
<1>6. CASE HandleFrameReturn
  <2>1. display'.q = display.q - 1 /\ display.q > 0 /\ streaming' = streaming
        BY <1>0, <1>6 DEF HandleFrameReturn, DisplayType, frameVars
  <2>2. CASE TakesBack
    <3>1. Len(window') = Len(window) - 1
          BY <1>0, <1>6, <2>2 DEF HandleFrameReturn, TakesBack, Types, Queues
    <3> QED BY <1>0, <1>H, <2>1, <3>1 DEF DisplayPaced
  <2>3. CASE ~TakesBack
    <3>1. streaming => display.state = "STARTED"
          BY <1>0 DEF PreviewPhase, Starting, Streams, Stopping, Resting
    <3>2. streaming => Len(window) <= undequeued
          BY <1>0, <2>3, <3>1 DEF TakesBack
    <3>3. window' = window
          BY <1>6, <2>3 DEF HandleFrameReturn
    <3> QED BY <1>0, <1>H, <2>1, <3>2, <3>3 DEF DisplayPaced
  <2> QED BY <2>2, <2>3
<1>7. CASE NotifyFrame
      BY <1>1, <1>7 DEF NotifyFrame, frameVars
<1>8. ASSUME InCall PROVE DisplayPaced'
  <2>1. CASE Returns("app")
        BY <1>4, <2>1 DEF Threads
  <2> QED BY <1>1, <1>8, <2>1 DEF InCall, StartVideoCapture, EnableRecording, ReturnVideo,
             ClearVideo, StopVideoCapture, DisableRecording, frameVars, outVars
<1>9. ASSUME Application PROVE DisplayPaced'
      BY <1>1, <1>9 DEF Application, StartPreview, StopPreview, SwitchCallbacks, StartRecording,
             StopRecording, ReleaseRecordingFrame, frameVars, outVars
<1> QED BY <1>3, <1>4, <1>5, <1>6, <1>7, <1>8, <1>9
        DEF Next, DisplayThread, NotifierThread, Threads

\* The counts of one buffer, in a step that leaves streaming on.
LEMMA CountedForStep ==
    ASSUME IInv, Next, streaming, streaming', NEW b \in Buffers \ Miscounted',
           b \notin Miscounted, CountedFor(b)
    PROVE  CountedFor(b)'
<1> USE DEF CountedFor, PreviewCounted, VideoCounted, AwayAlone, HeldD, HeldN, HeldV, InQ, OnceInQ,
            Away, One
<1>0. /\ Types /\ Commanded /\ Returned /\ RecordingPhase /\ Locked
      /\ pv \in PvType /\ app \in AppType /\ adapter \in AdapterType /\ hal \in HalType
      /\ notifier \in NotifierType /\ display \in DisplayType /\ ret \in [Threads -> ReturnType]
      /\ b \in Buffers /\ refs[b] \in 0..2 /\ (videoRefs # <<>> => videoRefs[b] \in 0..1)
      /\ window \in Seq(Buffers) /\ IsInjective(window)
      /\ driver \in Seq(Buffers) /\ IsInjective(driver)
      /\ notifier.frameQ \in Seq(Frames)
      BY VideoKeys DEF IInv, Types, Queues, NotifierType
<1>S. Streams /\ hal.bufs /\ pv.pc \notin {"starting", "stopping"}
      BY DEF IInv, PreviewPhase, Starting, Stopping, Resting
<1>R. "app" \in Threads /\ "display" \in Threads /\ "notifier" \in Threads
      BY DEF Threads
<1>X. b # None
      BY <1>0, CameraAssumption DEF Buffers, None
<1>V. /\ videoRefs # <<>> <=> videoRefs \in [Buffers -> 0..1]
      /\ videoRefs # <<>> <=> DOMAIN videoRefs = Buffers
      /\ videoRefs = <<>> <=> DOMAIN videoRefs = {}
      BY <1>0, VideoKeys, CameraAssumption DEF Types, Buffers
<1> DEFINE SameCounts == refs' = refs /\ videoRefs' = videoRefs
           SameFrames == /\ window' = window /\ encoder' = encoder
                         /\ notifier'.frameQ = notifier.frameQ
           SameRet == \A t \in Threads : ret'[t] = ret[t]
<1>1. ASSUME SameCounts, SameFrames, SameRet, driver' = driver,
             \/ notifier'.recording = notifier.recording
             \/ ~notifier'.recording /\ videoRefs # <<>>
             \/ videoRefs = <<>>,
             \/ pv' = pv
             \/ pv.pc # "index" /\ pv'.pc \notin {"index", "video"}
      PROVE  CountedFor(b)'
  <2>1. /\ Filling(b)' <=> Filling(b)
        /\ \A t \in Threads : Ret(t, b)' <=> Ret(t, b)
        BY <1>1 DEF Filling, Ret
  <2> QED BY <1>1, <1>R, <2>1
<1>A. ASSUME AfterFrame PROVE pv'.pc \notin {"index", "video"}
      BY <1>0, <1>A DEF AfterFrame, PvType
<1>2. CASE Poll
  <2>1. pv'.pc \notin {"index", "video"} /\ pv.pc # "index"
        BY <1>0, <1>2 DEF Poll, PvType
  <2> QED BY <1>1, <1>2, <2>1 DEF Poll, frameVars, outVars
<1>3. CASE GetFrame
  <2>1. driver # <<>> /\ driver' = Tail(driver) /\ pv.pc = "frame"
        BY <1>3 DEF GetFrame
  <2>2. pv'.pc = "index" /\ pv'.b = Head(driver)
        BY <1>0, <1>3 DEF GetFrame, PvType
  <2>3. Range(driver') = Range(driver) \ {Head(driver)} /\ Head(driver) \in Range(driver)
        BY <1>0, <2>1, TailQueue
  <2>4. Filling(b)' <=> Filling(b)
        BY <1>3 DEF GetFrame, Filling
  <2>5. \A t : Ret(t, b)' <=> Ret(t, b)
        BY <1>3 DEF GetFrame, Ret
  <2>6. SameCounts /\ SameFrames /\ notifier'.recording = notifier.recording
        BY <1>3 DEF GetFrame, outVars
  <2> QED BY <2>1, <2>2, <2>3, <2>4, <2>5, <2>6
<1>4. CASE QueuePreview
  <2>1. /\ pv.pc = "index" /\ pv.b \in Buffers /\ pv'.pc = "video" /\ pv'.b = pv.b
        BY <1>0, <1>4 DEF QueuePreview, Commanded, PvType
  <2>2. Filling(b)' <=> Filling(b)
        BY <1>4 DEF QueuePreview, Filling
  <2>3. \A t : Ret(t, b)' <=> Ret(t, b)
        BY <1>4 DEF QueuePreview, Ret
  <2>4. driver' = driver /\ videoRefs' = videoRefs /\ encoder' = encoder
        BY <1>4 DEF QueuePreview
  <2>5. PostFrame(pv.b)
        BY <1>4, <1>S DEF QueuePreview, Streams
  <2>6. notifier'.recording = notifier.recording
        BY <1>0, <1>4 DEF QueuePreview, NotifierType
  <2>7. /\ notifier'.frameQ = IF "notifier" \in adapter.subs
                              THEN Append(notifier.frameQ, <<"preview", pv.b>>)
                              ELSE notifier.frameQ
        /\ <<"preview", pv.b>> \in Frames
        BY <1>0, <1>4, <2>1 DEF QueuePreview, NotifierType, Frames
  <2>8. /\ Has(notifier'.frameQ, <<"video", b>>) <=> Has(notifier.frameQ, <<"video", b>>)
        /\ Once(notifier.frameQ, <<"video", b>>) => Once(notifier'.frameQ, <<"video", b>>)
        BY <1>0, <2>7, AppendFrame
  <2>9. CASE b # pv.b
    <3>1. /\ Has(notifier'.frameQ, <<"preview", b>>) <=> Has(notifier.frameQ, <<"preview", b>>)
          /\ Once(notifier.frameQ, <<"preview", b>>) => Once(notifier'.frameQ, <<"preview", b>>)
          BY <1>0, <2>7, <2>9, AppendFrame
    <3>2. b \in Range(window') <=> b \in Range(window)
      <4>1. pv.b \notin Range(window) => Range(Append(window, pv.b)) = Range(window) \cup {pv.b}
            BY <1>0, <2>1, AppendQueue
      <4> QED BY <2>5, <2>9, <4>1 DEF PostFrame
    <3>3. refs'[b] = refs[b]
          BY <1>0, <1>4, <2>9 DEF QueuePreview, Types
    <3> QED BY <2>1, <2>2, <2>3, <2>4, <2>6, <2>8, <2>9, <3>1, <3>2, <3>3
  <2>10. CASE b = pv.b
    <3>1. /\ Away(b) /\ refs[b] = 0 /\ b \notin Range(driver) /\ ~ Filling(b)
          BY <2>1, <2>10
    <3>2. /\ b \notin Range(window) /\ ~ Ret("display", b)
          /\ ~ Has(notifier.frameQ, <<"preview", b>>) /\ ~ Ret("notifier", b)
          BY <3>1
    <3>3. window' = Append(window, b)
          BY <2>5, <2>10, <3>2 DEF PostFrame
    <3>4. /\ b \in Range(window') /\ window' # <<>> /\ window'[Len(window')] = b
          BY <1>0, <3>3, AppendQueue
    <3>5. refs'[b] = 1 + One("notifier" \in adapter.subs)
      <4>1. Cardinality(adapter.subs) = One("display" \in adapter.subs) + One("notifier" \in adapter.subs)
            BY <1>0, Subscribers DEF AdapterType
      <4>2. refs'[b] = Cardinality(adapter.subs)
            BY <1>0, <1>4, <2>10 DEF QueuePreview, Types
      <4> QED BY <1>S, <4>1, <4>2 DEF Streams
    <3>6. /\ Has(notifier'.frameQ, <<"preview", b>>) <=> "notifier" \in adapter.subs
          /\ Once(notifier'.frameQ, <<"preview", b>>)
          BY <1>0, <2>7, <2>10, <3>2, AppendFrame
    <3> QED BY <1>S, <2>1, <2>2, <2>3, <2>4, <2>6, <2>8, <2>10, <3>1, <3>2, <3>4, <3>5, <3>6
  <2> QED BY <2>9, <2>10
<1>5. CASE QueueVideo
  <2>0. pv.pc = "video" /\ pv.b \in Buffers
        BY <1>0, <1>5 DEF QueueVideo, Commanded
  <2>1. CASE ~ hal.recording \/ pv.b \notin DOMAIN videoRefs
        BY <1>1, <1>A, <1>5, <2>0, <2>1 DEF QueueVideo
  <2>2. CASE hal.recording /\ pv.b \in DOMAIN videoRefs
    <3>1. /\ AfterFrame /\ pv'.pc \notin {"index", "video"}
          /\ refs' = refs /\ driver' = driver /\ window' = window /\ encoder' = encoder
          /\ ret' = ret
          BY <1>A, <1>5, <2>2 DEF QueueVideo
    <3>2. /\ Filling(b)' <=> Filling(b)
          /\ \A t : Ret(t, b)' <=> Ret(t, b)
          BY <3>1 DEF Filling, Ret
    <3> DEFINE n == One(notifier.recording)
    <3>3. Cardinality(adapter.videoSubs) = n
      <4>1. Cardinality(adapter.videoSubs)
               = One("display" \in adapter.videoSubs) + One("notifier" \in adapter.videoSubs)
            BY <1>0, Subscribers DEF AdapterType
      <4> QED BY <1>0, <4>1 DEF RecordingPhase
    <3>4. /\ videoRefs' = [videoRefs EXCEPT ![pv.b] = n]
          /\ notifier'.recording = notifier.recording
          /\ notifier'.frameQ = IF notifier.recording
                                THEN Append(notifier.frameQ, <<"video", pv.b>>)
                                ELSE notifier.frameQ
          /\ <<"video", pv.b>> \in Frames
      <4>1. n > 0 <=> notifier.recording
            OBVIOUS
      <4> QED BY <1>0, <1>5, <2>0, <2>2, <3>3, <4>1 DEF QueueVideo, NotifierType, Frames
    <3>5. /\ Has(notifier'.frameQ, <<"preview", b>>) <=> Has(notifier.frameQ, <<"preview", b>>)
          /\ Once(notifier.frameQ, <<"preview", b>>) => Once(notifier'.frameQ, <<"preview", b>>)
          BY <1>0, <3>4, AppendFrame
    <3>6. videoRefs # <<>> /\ videoRefs' # <<>> /\ DOMAIN videoRefs = Buffers
      <4>1. videoRefs # <<>> /\ DOMAIN videoRefs = Buffers
            BY <1>V, <2>2
      <4>2. DOMAIN videoRefs' = Buffers
            BY <3>4, <4>1
      <4>3. 1 \in Buffers /\ DOMAIN <<>> = {}
            BY CameraAssumption DEF Buffers
      <4> QED BY <4>1, <4>2, <4>3
    <3>7. CASE b # pv.b
      <4>1. /\ Has(notifier'.frameQ, <<"video", b>>) <=> Has(notifier.frameQ, <<"video", b>>)
            /\ Once(notifier.frameQ, <<"video", b>>) => Once(notifier'.frameQ, <<"video", b>>)
            BY <1>0, <3>4, <3>7, AppendFrame
      <4>2. videoRefs'[b] = videoRefs[b]
            BY <1>0, <3>4, <3>6, <3>7
      <4> QED BY <2>0, <3>1, <3>2, <3>4, <3>5, <3>6, <3>7, <4>1, <4>2
    <3>8. CASE b = pv.b
      <4>1. videoRefs[b] = 0 /\ videoRefs'[b] = n
            BY <2>0, <3>4, <3>6, <3>8
      <4>2. b \in Range(window)
        <5>1. window # <<>> /\ window[Len(window)] = b
              BY <2>0, <3>8
        <5>2. Len(window) \in DOMAIN window
              BY <1>0, <5>1
        <5> QED BY <5>1, <5>2 DEF Range
      <4>3. refs[b] > 0 /\ ~ Away(b)
            BY <4>2
      <4>4. CASE notifier.recording
        <5>1. ~ HeldV(b)
              BY <3>6, <4>1, <4>4
        <5>2. Has(notifier'.frameQ, <<"video", b>>) /\ Once(notifier'.frameQ, <<"video", b>>)
              BY <1>0, <3>4, <3>8, <4>4, <5>1, AppendFrame
        <5> QED BY <2>0, <3>1, <3>2, <3>4, <3>5, <3>6, <4>1, <4>3, <4>4, <5>1, <5>2
      <4>5. CASE ~ notifier.recording
            BY <2>0, <3>1, <3>2, <3>4, <3>5, <3>6, <4>1, <4>3, <4>5
      <4> QED BY <4>4, <4>5
    <3> QED BY <3>7, <3>8
  <2> QED BY <2>1, <2>2
<1>6. CASE Nack
  <2>1. pv'.pc \notin {"index", "video"} /\ pv.pc # "index"
        BY <1>0, <1>6 DEF Nack, Answer, PvType
  <2> QED BY <1>1, <1>6, <2>1 DEF Nack, frameVars, outVars
<1>7. ~ (CameraStart \/ Started \/ StartFails \/ CameraStop \/ Stopped)
      BY <1>S DEF CameraStart, Started, StartFails, CameraStop, Stopped, Streams
<1>8. ASSUME NEW t \in Threads, ReturnFrame(t) PROVE CountedFor(b)'
  <2> DEFINE c == ret[t].b
             k == ret[t].kind
             fills == Count(c, k) = 1 /\ Other(c, k) = 0
  <2>1. CASE KeyMissing(c, k)
        BY <1>1, <1>8, <2>1 DEF ReturnFrame, previewVars, outVars
  <2>2. CASE ~ KeyMissing(c, k)
    <3>1. ret[t].pc = "return" /\ c \in Buffers /\ ret[t] \in ReturnType
          BY <1>0, <1>8 DEF ReturnFrame, Returned
    <3>2. \A u \in Threads : ret[u].pc # "fill"
          BY <1>8 DEF ReturnFrame, ReturnLocked
    <3>3. \A u \in Threads : u # t => ret'[u] = ret[u]
          BY <1>0, <1>8 DEF ReturnFrame
    <3>4. IF fills THEN ret'[t].pc = "fill" /\ ret'[t].b = c ELSE ret'[t] = NoReturn
          BY <1>0, <1>8, <2>2, <3>1 DEF ReturnFrame, ReturnType
    <3>5. Ret(t, b) <=> c = b
          BY <3>1 DEF Ret
    <3>6. ~ Ret(t, b)'
          BY <3>4 DEF Ret, NoReturn
    <3>7. \A u \in Threads : u # t => (Ret(u, b)' <=> Ret(u, b))
          BY <3>3 DEF Ret
    <3>8. ~ Filling(b) /\ (Filling(b)' <=> fills /\ c = b)
      <4>1. ~ Filling(b)
            BY <3>2 DEF Filling
      <4>2. ASSUME fills, c = b PROVE Filling(b)'
            BY <3>4, <4>2 DEF Filling
      <4>3. ASSUME Filling(b)' PROVE fills /\ c = b
        <5>1. PICK u \in Threads : ret'[u].pc = "fill" /\ ret'[u].b = b
              BY <4>3 DEF Filling
        <5>2. u = t
              BY <3>2, <3>3, <5>1
        <5> QED BY <3>4, <5>1, <5>2 DEF NoReturn
      <4> QED BY <4>1, <4>2, <4>3
    <3>9. SameFrames /\ driver' = driver /\ pv' = pv /\ notifier'.recording = notifier.recording
          BY <1>8 DEF ReturnFrame, previewVars, outVars
    <3>10. CASE c # b
      <4>1. refs'[b] = refs[b]
            BY <1>0, <1>8, <2>2, <3>10 DEF ReturnFrame, Types
      <4>2. /\ videoRefs # <<>> => videoRefs'[b] = videoRefs[b]
            /\ videoRefs' = <<>> <=> videoRefs = <<>>
        <5>1. CASE videoRefs' = videoRefs
              BY <5>1
        <5>2. CASE k = "video" /\ videoRefs' = [videoRefs EXCEPT ![c] = Decremented(@)]
          <6>1. c \in DOMAIN videoRefs
                BY <2>2, <5>2 DEF KeyMissing
          <6>2. DOMAIN videoRefs = Buffers /\ videoRefs # <<>>
                BY <1>V, <6>1
          <6>3. DOMAIN videoRefs' = DOMAIN videoRefs /\ videoRefs'[b] = videoRefs[b]
                BY <1>0, <3>10, <5>2, <6>2
          <6>4. DOMAIN <<>> = {} /\ 1 \in Buffers
                BY CameraAssumption DEF Buffers
          <6> QED BY <6>2, <6>3, <6>4
        <5> QED BY <1>8, <2>2, <5>1, <5>2 DEF ReturnFrame
      <4>3. \A u \in Threads : Ret(u, b)' <=> Ret(u, b)
            BY <3>5, <3>6, <3>7, <3>10
      <4> QED BY <1>R, <3>8, <3>9, <3>10, <4>1, <4>2, <4>3
    <3>11. CASE c = b /\ t # "app"
      <4>1. k = "preview" /\ videoRefs' = videoRefs /\ refs'[b] = Decremented(refs[b])
        <5>1. k = "preview"
              BY <1>0, <3>1, <3>11 DEF Returned, Threads
        <5> QED BY <1>0, <1>8, <2>2, <3>11, <5>1 DEF ReturnFrame, Types
      <4>2. refs[b] > 0 /\ ~ Away(b)
            BY <3>5, <3>11 DEF Threads
      <4>3. refs'[b] = refs[b] - 1
            BY <1>0, <4>1, <4>2, DecrementedValue
      <4>4. fills <=> refs[b] = 1 /\ (videoRefs = <<>> \/ videoRefs[b] = 0)
        <5>1. Count(b, k) = refs[b]
              BY <4>1 DEF Count
        <5>2. adapter.recording => b \in DOMAIN videoRefs
              BY <2>2, <3>11, <4>2 DEF KeyMissing
        <5>3. ~ adapter.recording => videoRefs = <<>>
              BY <1>0, <1>V DEF RecordingPhase
        <5>4. Other(b, k) = IF videoRefs = <<>> THEN 0 ELSE videoRefs[b]
              BY <1>V, <4>1, <5>2, <5>3 DEF Other
        <5> QED BY <3>11, <5>1, <5>4
      <4>5. Ret("app", b)' <=> Ret("app", b)
            BY <1>R, <3>7, <3>11
      <4>6. CASE t = "display"
            BY <1>0, <1>R, <3>5, <3>6, <3>7, <3>8, <3>9, <3>11, <4>1, <4>2, <4>3, <4>4, <4>5, <4>6
      <4>7. CASE t = "notifier"
            BY <1>0, <1>R, <3>5, <3>6, <3>7, <3>8, <3>9, <3>11, <4>1, <4>2, <4>3, <4>4, <4>5, <4>7
      <4> QED BY <3>11, <4>6, <4>7 DEF Threads
    <3>12. CASE c = b /\ t = "app"
      <4>1. k = "video"
            BY <1>0, <3>1, <3>12 DEF Returned
      <4>2. /\ videoRefs # <<>> /\ DOMAIN videoRefs = Buffers /\ videoRefs[b] = 1
            BY <1>V, <3>5, <3>12
      <4>3. refs' = refs /\ videoRefs' = [videoRefs EXCEPT ![b] = Decremented(@)]
            BY <1>8, <2>2, <3>12, <4>1 DEF ReturnFrame
      <4>4. videoRefs'[b] = 0 /\ videoRefs' # <<>>
        <5>1. Decremented(videoRefs[b]) = 0
              BY <4>2, DecrementedValue
        <5>2. DOMAIN videoRefs' = Buffers /\ videoRefs'[b] = 0
              BY <1>0, <4>2, <4>3, <5>1
        <5> QED BY <1>0, <5>2
      <4>5. ~ Away(b)
            BY <4>2
      <4>6. fills <=> refs[b] = 0
        <5>1. adapter.recording
              BY <1>0, <4>2 DEF RecordingPhase
        <5> QED BY <3>12, <4>1, <4>2, <5>1 DEF Count, Other
      <4>7. (Ret("display", b)' <=> Ret("display", b)) /\ (Ret("notifier", b)' <=> Ret("notifier", b))
            BY <1>R, <3>7, <3>12
      <4> QED BY <1>0, <3>5, <3>6, <3>8, <3>9, <3>12, <4>2, <4>3, <4>4, <4>5, <4>6, <4>7
    <3> QED BY <3>10, <3>11, <3>12
  <2> QED BY <2>1, <2>2
<1>9. ASSUME NEW t \in Threads, FillThisBuffer(t) PROVE CountedFor(b)'
  <2> DEFINE c == ret[t].b
  <2>1. ret[t].pc = "fill" /\ c \in Buffers /\ ret' = [ret EXCEPT ![t] = NoReturn]
        BY <1>0, <1>9 DEF FillThisBuffer, Returned
  <2>2. driver' = IF c \in Range(driver) THEN driver ELSE Append(driver, c)
        BY <1>9 DEF FillThisBuffer
  <2>3. Range(driver') = Range(driver) \cup {c}
        BY <1>0, <2>1, <2>2, AppendQueue
  <2>4. Filling(b) <=> c = b
        BY <1>0, <2>1 DEF Filling, Locked
  <2>5. ~ Filling(b)'
        BY <1>0, <2>1 DEF Filling, Locked, NoReturn
  <2>6. \A u \in Threads : Ret(u, b)' <=> Ret(u, b)
        BY <1>0, <2>1 DEF Ret, NoReturn
  <2>7. SameCounts /\ SameFrames /\ pv' = pv /\ notifier'.recording = notifier.recording
        BY <1>9 DEF FillThisBuffer, previewVars, outVars
  <2> QED BY <1>R, <2>3, <2>4, <2>5, <2>6, <2>7
<1>10. CASE ProcessHalMsg
      BY <1>1, <1>10 DEF ProcessHalMsg, previewVars, frameVars
<1>11. CASE HandleFrameReturn
  <2>1. CASE ~ TakesBack
        BY <1>1, <1>11, <2>1 DEF HandleFrameReturn, previewVars, frameVars
  <2>2. CASE TakesBack
    <3> DEFINE h == Head(window)
    <3>1. Len(window) > 1 /\ window # <<>>
          BY <1>0, <2>2, CameraAssumption DEF TakesBack, Types
    <3>2. window' = Tail(window) /\ ret' = [ret EXCEPT !["display"] = Returning(h, "preview")]
          BY <1>11, <2>2 DEF HandleFrameReturn
    <3>3. /\ Range(window') = Range(window) \ {h} /\ h \in Range(window)
          /\ window' # <<>> /\ window'[Len(window')] = window[Len(window)]
          BY <1>0, <3>1, <3>2, TailQueue
    <3>4. ret["display"] = NoReturn
          BY <1>11 DEF HandleFrameReturn, Idle
    <3>5. ~ Ret("display", b) /\ (Ret("display", b)' <=> b = h)
          BY <1>0, <1>R, <3>2, <3>4 DEF Ret, NoReturn, Returning
    <3>6. /\ Ret("app", b)' <=> Ret("app", b)
          /\ Ret("notifier", b)' <=> Ret("notifier", b)
          BY <1>0, <1>R, <3>2 DEF Ret
    <3>7. Filling(b)' <=> Filling(b)
          BY <1>0, <1>R, <3>2, <3>4 DEF Filling, NoReturn, Returning
    <3>8. SameCounts /\ driver' = driver /\ pv' = pv /\ notifier' = notifier /\ encoder' = encoder
          BY <1>11 DEF HandleFrameReturn, previewVars, frameVars
    <3> QED BY <3>3, <3>5, <3>6, <3>7, <3>8
  <2> QED BY <2>1, <2>2
<1>12. CASE NotifyFrame
  <2> DEFINE f == Head(notifier.frameQ)
  <2>1. notifier.frameQ # <<>> /\ f \in Frames
        BY <1>0, <1>12 DEF NotifyFrame
  <2>2. f[1] \in {"preview", "video"} /\ f[2] \in Buffers /\ f = <<f[1], f[2]>>
        BY <2>1 DEF Frames
  <2>3. notifier'.frameQ = Tail(notifier.frameQ) /\ notifier'.recording = notifier.recording
        BY <1>0, <1>12 DEF NotifyFrame, NotifierType
  <2>4. \A g : /\ Has(notifier.frameQ, g) <=> Has(notifier'.frameQ, g) \/ g = f
               /\ Once(notifier.frameQ, g)
                     => Once(notifier'.frameQ, g) /\ ~ (g = f /\ Has(notifier'.frameQ, g))
        BY <1>0, <2>1, <2>3, TailFrame
  <2>5. /\ Has(notifier.frameQ, <<"preview", b>>)
              <=> Has(notifier'.frameQ, <<"preview", b>>) \/ <<"preview", b>> = f
        /\ Once(notifier.frameQ, <<"preview", b>>)
              => /\ Once(notifier'.frameQ, <<"preview", b>>)
                 /\ ~ (<<"preview", b>> = f /\ Has(notifier'.frameQ, <<"preview", b>>))
        BY <2>4
  <2>6. /\ Has(notifier.frameQ, <<"video", b>>)
              <=> Has(notifier'.frameQ, <<"video", b>>) \/ <<"video", b>> = f
        /\ Once(notifier.frameQ, <<"video", b>>)
              => /\ Once(notifier'.frameQ, <<"video", b>>)
                 /\ ~ (<<"video", b>> = f /\ Has(notifier'.frameQ, <<"video", b>>))
        BY <2>4
  <2>7. /\ <<"preview", b>> = f <=> f[1] = "preview" /\ f[2] = b
        /\ <<"video", b>> = f <=> f[1] = "video" /\ f[2] = b
        BY <2>2
  <2>8. /\ SameCounts /\ driver' = driver /\ pv' = pv /\ window' = window
        /\ ret["notifier"] = NoReturn
        BY <1>12 DEF NotifyFrame, Idle, previewVars, frameVars
  <2>9. CASE f[1] = "preview"
    <3>1. ret' = [ret EXCEPT !["notifier"] = Returning(f[2], "preview")] /\ encoder' = encoder
          BY <1>12, <2>9 DEF NotifyFrame, ReturnsAtOnce
    <3>2. ~ Ret("notifier", b) /\ (Ret("notifier", b)' <=> b = f[2])
          BY <1>0, <1>R, <2>8, <3>1 DEF Ret, NoReturn, Returning
    <3>3. /\ Ret("app", b)' <=> Ret("app", b)
          /\ Ret("display", b)' <=> Ret("display", b)
          BY <1>0, <1>R, <3>1 DEF Ret
    <3>4. Filling(b)' <=> Filling(b)
          BY <1>0, <1>R, <2>8, <3>1 DEF Filling, NoReturn, Returning
    <3> QED BY <2>3, <2>5, <2>6, <2>7, <2>8, <2>9, <3>1, <3>2, <3>3, <3>4
  <2>10. CASE f[1] = "video"
    <3>1. /\ ret' = ret
          /\ b \in encoder' <=> b \in encoder \/ (notifier.recording /\ f[2] = b)
          BY <1>12, <2>10 DEF NotifyFrame, ReturnsAtOnce
    <3>2. /\ Filling(b)' <=> Filling(b)
          /\ \A t : Ret(t, b)' <=> Ret(t, b)
          BY <3>1 DEF Filling, Ret
    <3> QED BY <2>3, <2>5, <2>6, <2>7, <2>8, <2>10, <3>1, <3>2
  <2> QED BY <2>2, <2>9, <2>10
<1>13. CASE StartVideoCapture
  <2>1. /\ videoRefs = <<>> /\ videoRefs' # <<>> /\ videoRefs'[b] = 0
    <3>1. videoRefs = <<>>
          BY <1>0, <1>13 DEF StartVideoCapture, RecordingPhase
    <3>2. DOMAIN videoRefs' = Buffers /\ videoRefs'[b] = 0
          BY <1>0, <1>13 DEF StartVideoCapture
    <3> QED BY <1>0, <3>1, <3>2
  <2>2. /\ refs' = refs /\ SameFrames /\ ret' = ret /\ driver' = driver /\ pv' = pv
        /\ notifier' = notifier
        BY <1>13 DEF StartVideoCapture, previewVars, outVars
  <2>3. /\ Filling(b)' <=> Filling(b)
        /\ \A t : Ret(t, b)' <=> Ret(t, b)
        BY <2>2 DEF Filling, Ret
  <2> QED BY <2>1, <2>2, <2>3
<1>14. CASE EnableRecording \/ StopVideoCapture \/ DisableRecording
      BY <1>1, <1>14 DEF EnableRecording, StopVideoCapture, DisableRecording,
             previewVars, frameVars, outVars
<1>15. ASSUME NEW c \in DOMAIN videoRefs, ReturnVideo(c) PROVE CountedFor(b)'
  <2>1. /\ app.pc = "stopVideo" /\ ret["app"] = NoReturn /\ videoRefs[c] > 0
        /\ ret' = [ret EXCEPT !["app"] = Returning(c, "video")]
        BY <1>15 DEF ReturnVideo, Idle
  <2>2. videoRefs # <<>> /\ ~ notifier.recording
        BY <1>0, <1>V, <2>1 DEF RecordingPhase
  <2>3. /\ Ret("notifier", b)' <=> Ret("notifier", b)
        /\ Ret("display", b)' <=> Ret("display", b)
        BY <1>0, <1>R, <2>1 DEF Ret
  <2>4. Ret("app", b)' <=> c = b
        BY <1>0, <1>R, <2>1 DEF Ret, Returning
  <2>5. Filling(b)' <=> Filling(b)
        BY <1>0, <1>R, <2>1 DEF Filling, NoReturn, Returning
  <2>6. /\ SameCounts /\ SameFrames /\ driver' = driver /\ pv' = pv
        /\ notifier'.recording = notifier.recording
        BY <1>15 DEF ReturnVideo, previewVars, frameVars, outVars
  <2> QED BY <1>0, <2>1, <2>2, <2>3, <2>4, <2>5, <2>6
<1>16. CASE ClearVideo
  <2>1. /\ app.pc = "stopVideo" /\ Idle("app") /\ videoRefs' = <<>>
        /\ \A c \in DOMAIN videoRefs : videoRefs[c] = 0
        BY <1>16 DEF ClearVideo
  <2>2. videoRefs # <<>> /\ videoRefs[b] = 0 /\ encoder = {}
        BY <1>0, <1>V, <2>1 DEF RecordingPhase
  <2>3. ~ Has(notifier.frameQ, <<"video", b>>)
    <3>1. ~ (Queued("video", b) > 0)
          BY <1>0, <1>16, HistoryGrows DEF ClearVideo, Miscounted
    <3> QED BY <1>0, <3>1, QueuedFrame
  <2>4. Once(notifier.frameQ, <<"video", b>>)
        BY <2>3 DEF Once, Has
  <2>5. /\ refs' = refs /\ SameFrames /\ ret' = ret /\ driver' = driver /\ pv' = pv
        /\ notifier' = notifier
        BY <1>16 DEF ClearVideo, previewVars, outVars
  <2>6. /\ Filling(b)' <=> Filling(b)
        /\ \A t : Ret(t, b)' <=> Ret(t, b)
        /\ ~ Ret("app", b)
        BY <2>1, <2>5 DEF Filling, Ret, Idle, NoReturn
  <2> QED BY <2>1, <2>2, <2>3, <2>4, <2>5, <2>6
<1>17. CASE StartPreview \/ StopPreview \/ SwitchCallbacks
      BY <1>1, <1>17 DEF StartPreview, StopPreview, SwitchCallbacks, previewVars, frameVars, outVars
<1>18. CASE StartRecording
  <2>1. notifier'.frameQ = notifier.frameQ
        BY <1>0, <1>18 DEF StartRecording, NotifierType
  <2>2. videoRefs = <<>>
        BY <1>0, <1>18 DEF StartRecording, Calling, RecordingPhase
  <2> QED BY <1>1, <1>18, <2>1, <2>2 DEF StartRecording, previewVars, frameVars
<1>19. CASE StopRecording
  <2>1. notifier'.frameQ = notifier.frameQ /\ ~ notifier'.recording /\ encoder' = {}
        BY <1>0, <1>19 DEF StopRecording, NotifierType
  <2>2. videoRefs # <<>>
        BY <1>0, <1>V, <1>19 DEF StopRecording, Calling, RecordingPhase
  <2>3. SameCounts /\ window' = window /\ ret' = ret /\ driver' = driver /\ pv' = pv
        BY <1>19 DEF StopRecording, previewVars, frameVars
  <2>4. /\ Filling(b)' <=> Filling(b)
        /\ \A t : Ret(t, b)' <=> Ret(t, b)
        BY <2>3 DEF Filling, Ret
  <2> QED BY <2>1, <2>2, <2>3, <2>4
<1>20. ASSUME NEW c \in Buffers, ReleaseRecordingFrame(c) PROVE CountedFor(b)'
  <2>1. /\ app.pc = "idle" /\ hal.recording /\ ret["app"] = NoReturn /\ c \in encoder
        /\ encoder' = encoder \ {c} /\ ret' = [ret EXCEPT !["app"] = Returning(c, "video")]
        BY <1>20 DEF ReleaseRecordingFrame, Calling, Idle
  <2>2. videoRefs # <<>> /\ notifier.recording
        BY <1>0, <1>V, <2>1 DEF RecordingPhase
  <2>3. /\ Ret("notifier", b)' <=> Ret("notifier", b)
        /\ Ret("display", b)' <=> Ret("display", b)
        BY <1>0, <1>R, <2>1 DEF Ret
  <2>4. (Ret("app", b)' <=> c = b) /\ ~ Ret("app", b)
        BY <1>0, <1>R, <2>1 DEF Ret, Returning, NoReturn
  <2>5. Filling(b)' <=> Filling(b)
        BY <1>0, <1>R, <2>1 DEF Filling, NoReturn, Returning
  <2>6. SameCounts /\ window' = window /\ notifier' = notifier /\ driver' = driver /\ pv' = pv
        BY <1>20 DEF ReleaseRecordingFrame, previewVars, frameVars
  <2> QED BY <2>1, <2>2, <2>3, <2>4, <2>5, <2>6
<1> QED BY <1>2, <1>3, <1>4, <1>5, <1>6, <1>7, <1>8, <1>9, <1>10, <1>11, <1>12, <1>13, <1>14,
           <1>15, <1>16, <1>17, <1>18, <1>19, <1>20
        DEF Next, PreviewThread, DisplayThread, NotifierThread, InCall, Application, Returns,
            Threads

\* Every step keeps each reference count equal to the holders of the buffer.
LEMMA CountedStep ==
    ASSUME IInv, Next
    PROVE  Counted'
<1> SUFFICES ASSUME streaming', NEW b \in Buffers \ Miscounted'
             PROVE  CountedFor(b)'
    BY DEF Counted
<1>0. b \in Buffers /\ b \notin Miscounted /\ Kept' = Kept
      BY HistoryGrows
<1>1. CASE streaming
      BY <1>0, <1>1, CountedForStep DEF IInv, Counted
<1>2. CASE ~ streaming
  <2>1. Started
    <3>1. ~ \E t \in Threads : Returns(t)
          BY <1>2 DEF Returns, ReturnFrame, FillThisBuffer
    <3>2. PreviewThread
      <4>1. ~ DisplayThread /\ ~ NotifierThread
            BY <1>2, <3>1 DEF DisplayThread, NotifierThread, ProcessHalMsg, HandleFrameReturn,
                   NotifyFrame, frameVars, Threads
      <4>2. ~ InCall
            BY <1>2, <3>1 DEF InCall, StartVideoCapture, EnableRecording, ReturnVideo, ClearVideo,
                   StopVideoCapture, DisableRecording, frameVars, Threads
      <4>3. ~ Application
            BY <1>2 DEF Application, StartPreview, StopPreview, SwitchCallbacks, StartRecording,
                   StopRecording, ReleaseRecordingFrame, frameVars
      <4> QED BY <4>1, <4>2, <4>3 DEF Next
    <3> QED BY <1>2, <3>2 DEF PreviewThread, Poll, GetFrame, QueuePreview, QueueVideo, Nack,
               CameraStart, StartFails, CameraStop, Stopped, frameVars
  <2>2. Starting /\ Types /\ Returned
        BY <2>1 DEF Started, IInv, PreviewPhase
  <2>3. /\ videoRefs = <<>> /\ encoder = {} /\ ret["app"] = NoReturn
        BY <2>1, WaitingIdle DEF Started, IInv, Commanded, RecordingPhase, Idle
  <2>4. /\ refs'[b] = 0 /\ videoRefs' = <<>> /\ encoder' = {} /\ ret' = ret
        /\ window' = window /\ notifier' = notifier /\ pv'.pc = "loop"
    <3>1. pv'.pc = "loop"
          BY <2>1, <2>2 DEF Started, Answer, Types, PvType
    <3> QED BY <1>0, <2>1, <2>2, <2>3, <3>1 DEF Started, Starting, Miscounted
  <2>5. b \notin Range(window)
        BY <1>0, <2>2 DEF Starting, Miscounted
  <2>6. b \in Range(driver')
        BY <1>0, <2>1 DEF Started, Range
  <2>7. b # None
        BY <1>0, CameraAssumption DEF Buffers, None
  <2>8. \A t \in Threads : ret[t].b # b
        BY <1>0, <2>2, <2>3, <2>7 DEF Starting, NoFrames, Idle, NoReturn, Threads
  <2>9. ~ Filling(b)' /\ \A t \in Threads : ~ Ret(t, b)'
        BY <2>4, <2>8 DEF Filling, Ret
  <2>10. \A g : ~ Has(notifier'.frameQ, g) /\ Once(notifier'.frameQ, g)
        BY <2>2, <2>4 DEF Starting, NoFrames, Has, Once
  <2>11. "app" \in Threads /\ "display" \in Threads /\ "notifier" \in Threads
        BY DEF Threads
  <2> QED BY <2>4, <2>5, <2>6, <2>9, <2>10, <2>11
          DEF CountedFor, PreviewCounted, VideoCounted, AwayAlone, HeldD, HeldN, HeldV, InQ, OnceInQ,
              Away, One
<1> QED BY <1>1, <1>2

-----------------------------------------------------------------------------
(* The theorems.                                                           *)

\* The first state, with the window full and nothing started.
LEMMA InitInv ==
    ASSUME Init
    PROVE  IInv
<1> USE CameraAssumption DEF Init
<1>1. /\ window \in Seq(Buffers) /\ IsInjective(window) /\ Range(window) = Buffers
      /\ Len(window) = MAX_CAMERA_BUFFERS
      BY DEF Buffers, IsInjective, Range
<1>2. Types
  <2>1. /\ app \in AppType /\ pv \in PvType /\ hal \in HalType /\ adapter \in AdapterType
        BY DEF AppType, PvType, HalType, AdapterType
  <2>2. display \in DisplayType /\ notifier \in NotifierType
        BY DEF DisplayType, NotifierType
  <2>3. ret \in [Threads -> ReturnType]
        BY DEF NoReturn, ReturnType
  <2>4. driver \in Queues /\ window \in Queues
        BY <1>1 DEF Queues, IsInjective
  <2>5. refs \in [Buffers -> 0..2] /\ videoRefs \in VideoRefsType
        BY DEF VideoRefsType
  <2>6. undequeued \in 1..MAX_CAMERA_BUFFERS
        OBVIOUS
  <2>7. /\ commandQ \in {"none", "start", "stop"} /\ streaming \in BOOLEAN /\ undefined \in BOOLEAN
        /\ encoder \in SUBSET Buffers /\ stale \in SUBSET Buffers
        OBVIOUS
  <2> QED BY <2>1, <2>2, <2>3, <2>4, <2>5, <2>6, <2>7 DEF Types
<1>3. Returned /\ Locked
      BY DEF Returned, Locked, NoReturn, Threads
<1>4. Shared
  <2>1. display.map = {} /\ Cardinality({}) = 0
        BY FS_EmptySet
  <2> HIDE DEF Init
  <2> QED BY <1>1, <2>1 DEF Shared
<1>5. Commanded /\ RecordingPhase
      BY DEF Commanded, RecordingPhase, Idle, Threads
<1>6. PreviewPhase
      BY DEF PreviewPhase, Resting, NoFrames, Idle, Threads, NoReturn
<1>7. DisplayPaced /\ Counted
      BY DEF DisplayPaced, Counted
<1> QED BY <1>2, <1>3, <1>4, <1>5, <1>6, <1>7 DEF IInv

\* Every step keeps the invariant.
LEMMA StepInv ==
    ASSUME IInv, [Next]_vars
    PROVE  IInv'
<1>1. CASE Next
      BY <1>1, TypesStep, ReturnedStep, SharedStep, CommandedStep, PreviewPhaseStep,
         RecordingPhaseStep, LockedStep, DisplayPacedStep, CountedStep DEF IInv
<1>2. CASE UNCHANGED vars
  <2> USE <1>2 DEF vars
  <2>1. Types' /\ Commanded'
        BY DEF IInv, Types, Commanded
  <2>5. Returned' /\ Shared'
        BY DEF IInv, Returned, Shared
  <2>2. PreviewPhase' /\ RecordingPhase'
        BY DEF IInv, PreviewPhase, Starting, Stopping, Streams, Resting, NoFrames, Idle, Miscounted,
               Kept, RecordingPhase
  <2>3. Locked' /\ DisplayPaced'
        BY DEF IInv, Locked, DisplayPaced
  <2>4. Counted'
    <3>1. Miscounted' = Miscounted
          BY DEF Miscounted, Kept
    <3>2. ASSUME NEW b PROVE /\ Filling(b)' <=> Filling(b)
                             /\ \A t : Ret(t, b)' <=> Ret(t, b)
          BY DEF Filling, Ret
    <3>3. ASSUME NEW b, CountedFor(b) PROVE CountedFor(b)'
          BY <3>2, <3>3 DEF CountedFor, PreviewCounted, VideoCounted, AwayAlone, HeldD, HeldN,
                 HeldV, InQ, OnceInQ, Away
    <3> QED BY <3>1, <3>3 DEF IInv, Counted
  <2> QED BY <2>1, <2>2, <2>3, <2>4, <2>5 DEF IInv
<1> QED BY <1>1, <1>2

\* The inductive invariant holds in every reachable state.
LEMMA Invariant == Spec => []IInv
BY InitInv, StepInv, PTL DEF Spec

\* The states, counts and queues of the camera HAL have the values the code
\* gives them; in particular returnFrame() never makes a count negative, and
\* neither the driver nor the window is given a buffer it has.
THEOREM TypeCorrect == Spec => []TypeOK
<1>1. IInv => TypeOK
  <2> SUFFICES ASSUME IInv PROVE TypeOK
      OBVIOUS
  <2>1. ASSUME NEW q \in Queues PROVE IsInjective(q) /\ Range(q) \subseteq Buffers
        BY DEF Queues, Range
  <2>2. IsInjective(driver) /\ Range(driver) \subseteq Buffers
        BY <2>1 DEF IInv, Types
  <2>3. IsInjective(window) /\ Range(window) \subseteq Buffers
        BY <2>1 DEF IInv, Types
  <2> QED BY <2>2, <2>3
          DEF IInv, Types, TypeOK, AppType, PvType, AdapterType, VideoRefsType, DisplayType
<1> QED BY <1>1, Invariant, PTL

\* While frames stream, mDisplayQ has a message for every buffer the window
\* would give back, whatever the display thread and PostFrame() do in between.
THEOREM FramesPaced == Spec => []DisplayPaced
<1>1. IInv => DisplayPaced
      BY DEF IInv
<1> QED BY <1>1, Invariant, PTL

\* After a stop, and after a start that failed, the window has all its buffers
\* again, the driver has none, and the display gets no frames.
THEOREM StopTakesBack == Spec => []StoppedReturned
<1>1. IInv => StoppedReturned
  <2> SUFFICES ASSUME IInv, ~ hal.bufs PROVE StoppedReturned
      BY DEF StoppedReturned
  <2>1. /\ display.map = {} /\ driver = <<>> /\ ~ streaming /\ "display" \notin adapter.subs
        BY DEF IInv, PreviewPhase, Starting, Stopping, Resting
  <2>2. Len(window) = MAX_CAMERA_BUFFERS
        BY <2>1, FS_EmptySet, CameraAssumption DEF IInv, Shared, Types, Queues
  <2> QED BY <2>1, <2>2 DEF StoppedReturned
<1> QED BY <1>1, Invariant, PTL

\* The driver fills no buffer that the window, the application's copy or the
\* encoder still reads: returnFrame() of each thread and QueuePreview() keep the
\* counts equal to the number of readers, for every buffer not miscounted.
THEOREM DriverFillsAlone == Spec => []FilledAlone
<1>1. IInv => FilledAlone
  <2> SUFFICES ASSUME IInv, NEW b \in Range(driver) \ Miscounted PROVE ~ Reads(b)
      BY DEF FilledAlone
  <2>0. Types /\ notifier.frameQ \in Seq(Frames) /\ b \in Buffers
        BY DEF IInv, Types, NotifierType, Queues, Range
  <2>1. streaming
    <3>1. driver # <<>>
          BY DEF Range
    <3> QED BY <3>1 DEF IInv, PreviewPhase, Starting, Stopping, Streams, Resting
  <2>2. PreviewCounted(b) /\ VideoCounted(b) /\ AwayAlone(b)
        BY <2>0, <2>1 DEF IInv, Counted, CountedFor
  <2>3. refs[b] = 0 /\ ~ (pv.pc = "index" /\ pv.b = b) /\ (videoRefs # <<>> => videoRefs[b] = 0)
        BY <2>2 DEF AwayAlone, Away
  <2>4. b \notin Range(window) /\ ~ InQ("preview", b)
        BY <2>2, <2>3 DEF PreviewCounted, HeldD, HeldN, One
  <2>5. notifier.recording => ~ HeldV(b)
        BY <2>2, <2>3 DEF VideoCounted, One
  <2>6. b \in encoder => notifier.recording
        BY DEF IInv, RecordingPhase
  <2>7. /\ ~ (Queued("preview", b) > 0)
        /\ ~ (Queued("video", b) > 0 /\ notifier.recording)
        BY <2>0, <2>4, <2>5, QueuedFrame DEF InQ, HeldV
  <2> QED BY <2>3, <2>4, <2>5, <2>6, <2>7 DEF Reads, HeldV
<1> QED BY <1>1, Invariant, PTL

\* While frames stream, every buffer not miscounted is with the driver, the
\* preview thread or a reader that is counted and returns it: none is lost.
THEOREM NoBufferForgotten == Spec => []Circulates
<1>1. IInv => Circulates
  <2> SUFFICES ASSUME IInv, streaming, NEW b \in Buffers \ Miscounted PROVE ComesBack(b)
      BY DEF Circulates
  <2>0. Types /\ notifier.frameQ \in Seq(Frames) /\ RecordingPhase
        BY DEF IInv, Types, NotifierType
  <2>1. PreviewCounted(b) /\ VideoCounted(b) /\ AwayAlone(b)
        BY DEF IInv, Counted, CountedFor
  <2>2. /\ InQ("preview", b) => Queued("preview", b) > 0
        /\ InQ("video", b) => Queued("video", b) > 0
        BY <2>0, QueuedFrame DEF InQ
  <2>3. "app" \in Threads /\ "display" \in Threads /\ "notifier" \in Threads
        BY DEF Threads
  <2>4. CASE Away(b)
        BY <2>4 DEF Away, Filling, ComesBack
  <2>5. CASE refs[b] > 0
    <3>1. HeldD(b) \/ HeldN(b)
          BY <2>1, <2>5 DEF PreviewCounted, One
    <3> QED BY <2>2, <2>3, <2>5, <3>1 DEF HeldD, HeldN, Ret, ComesBack
  <2>6. CASE videoRefs # <<>> /\ videoRefs[b] > 0
    <3>1. b \in DOMAIN videoRefs
          BY <2>0, <2>6, VideoKeys DEF Types
    <3>2. CASE notifier.recording
      <4>1. HeldV(b)
            BY <2>1, <2>6, <3>2 DEF VideoCounted, One
      <4> QED BY <2>2, <2>3, <2>6, <3>1, <4>1 DEF HeldV, Ret, ComesBack
    <3>3. CASE ~ notifier.recording
      <4>1. app.pc = "stopVideo"
            BY <2>0, <2>6, <3>3, VideoKeys DEF RecordingPhase, Types
      <4> QED BY <2>6, <3>1, <4>1 DEF ComesBack
    <3> QED BY <3>2, <3>3
  <2> QED BY <2>1, <2>4, <2>5, <2>6 DEF AwayAlone
<1> QED BY <1>1, Invariant, PTL
=============================================================================
