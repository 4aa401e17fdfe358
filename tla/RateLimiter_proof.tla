-------------------------- MODULE RateLimiter_proof --------------------------
(***************************************************************************)
(* Proofs about RateLimiter, for every limit and window.                   *)
(***************************************************************************)
EXTENDS RateLimiter, FiniteSetTheorems, SequenceTheorems, TLAPS

\* The granted times of an address never decrease and are not in the future.
Sorted ==
  \A ip \in Ips : \A i \in 1 .. Len(granted[ip]) :
    /\ granted[ip][i] <= now
    /\ \A j \in i .. Len(granted[ip]) : granted[ip][i] <= granted[ip][j]

\* Only requests at least a window old are missing from the Vec.
OnlyOldDropped ==
  \A ip \in Ips : \A i \in (1 .. Len(granted[ip])) \ times[ip] :
    now - granted[ip][i] >= Window

DeniedInPast == \A ip \in Ips : denied[ip] <= now

IInv ==
  /\ TypeOK
  /\ Sorted
  /\ OnlyOldDropped
  /\ DeniedInPast
  /\ SlidingWindow
  /\ DeniedOnlyWhenFull

-----------------------------------------------------------------------------

LEMMA ElementType ==
  ASSUME NEW s \in Seq(0 .. MaxTime), NEW i \in 1 .. Len(s)
  PROVE  s[i] \in Nat
<1>1. s[i] \in 0 .. MaxTime
  BY ElementOfSeq
<1> QED
  BY <1>1, LimiterAssumption

\* Sets of positions in a sequence are finite.
LEMMA FinitePositions ==
  ASSUME NEW n \in Nat, NEW S, S \subseteq 1 .. n
  PROVE  IsFiniteSet(S)
<1>1. 1 \in Int /\ n \in Int
  OBVIOUS
<1>2. IsFiniteSet(1 .. n)
  BY <1>1, FS_Interval
<1> QED
  BY <1>2, FS_Subset

\* What retain keeps is part of a finite Vec, hence no larger.
LEMMA RetainBounds ==
  ASSUME TypeOK, NEW ip \in Ips
  PROVE  /\ Retain(ip) \subseteq 1 .. Len(granted[ip])
         /\ IsFiniteSet(Retain(ip))
         /\ Cardinality(Retain(ip)) \in Nat
         /\ Cardinality(Retain(ip)) <= Limit
<1>1. granted[ip] \in Seq(0 .. MaxTime) /\ Len(granted[ip]) \in Nat
  BY DEF TypeOK
<1>2. Retain(ip) \subseteq times[ip] /\ times[ip] \subseteq 1 .. Len(granted[ip])
  BY DEF TypeOK, Retain
<1>3. IsFiniteSet(times[ip])
  BY <1>1, <1>2, FinitePositions
<1>4. /\ Cardinality(times[ip]) \in Nat
      /\ IsFiniteSet(Retain(ip)) /\ Cardinality(Retain(ip)) \in Nat
      /\ Cardinality(Retain(ip)) <= Cardinality(times[ip])
  BY <1>2, <1>3, FS_Subset, FS_CardinalityType
<1> QED
  BY <1>2, <1>4, LimiterAssumption DEF TypeOK

\* When fewer than Limit requests are retained, the Limit-th last granted one
\* has left the window: otherwise it and all after it would be retained.
LEMMA RoomMeansOld ==
  ASSUME IInv, NEW ip \in Ips, Cardinality(Retain(ip)) < Limit,
         NEW i \in 1 .. Len(granted[ip]), i = Len(granted[ip]) + 1 - Limit
  PROVE  now - granted[ip][i] >= Window
<1> DEFINE n == Len(granted[ip])
<1>1. granted[ip] \in Seq(0 .. MaxTime) /\ n \in Nat
  BY LimiterAssumption DEF IInv, TypeOK
<1>0. now \in Nat
  BY LimiterAssumption DEF IInv, TypeOK
<1>2. SUFFICES ASSUME now - granted[ip][i] < Window
               PROVE  FALSE
  <2>1. granted[ip][i] \in Nat
    BY <1>1, ElementType
  <2> QED
    BY <1>0, <2>1, LimiterAssumption
<1>3. i .. n \subseteq Retain(ip)
  <2>1. SUFFICES ASSUME NEW j \in i .. n
                 PROVE  j \in times[ip] /\ now - granted[ip][j] < Window
    BY DEF Retain
  <2>2. j \in 1 .. n /\ granted[ip][i] <= granted[ip][j]
    BY <1>1 DEF IInv, Sorted
  <2>3. granted[ip][i] \in Nat /\ granted[ip][j] \in Nat
    BY <1>1, <2>2, ElementType
  <2>4. now - granted[ip][j] < Window
    BY <1>0, <1>2, <2>2, <2>3, LimiterAssumption
  <2>5. ~(now - granted[ip][j] >= Window)
    BY <1>0, <2>3, <2>4, LimiterAssumption
  <2> QED
    BY <2>2, <2>4, <2>5 DEF IInv, OnlyOldDropped
<1>4. Cardinality(i .. n) = Limit
  <2>1. i \in Int /\ n \in Int /\ i <= n
    BY <1>1
  <2>2. Cardinality(i .. n) = IF i > n THEN 0 ELSE n - i + 1
    BY <2>1, FS_Interval
  <2> QED
    BY <1>1, <2>1, <2>2, LimiterAssumption
<1>5. IsFiniteSet(Retain(ip)) /\ Cardinality(Retain(ip)) \in Nat
  BY RetainBounds DEF IInv
<1>6. Cardinality(i .. n) <= Cardinality(Retain(ip))
  BY <1>3, <1>5, FS_Subset
<1> QED
  BY <1>4, <1>5, <1>6, LimiterAssumption

-----------------------------------------------------------------------------

LEMMA InitInv == Init => IInv
<1> SUFFICES ASSUME Init PROVE IInv
  OBVIOUS
<1>1. Cardinality({}) = 0
  BY FS_EmptySet
<1>2. TypeOK
  BY <1>1, LimiterAssumption DEF Init, TypeOK
<1>3. Sorted /\ OnlyOldDropped /\ DeniedInPast /\ DeniedOnlyWhenFull
  BY DEF Init, Sorted, OnlyOldDropped, DeniedInPast, DeniedOnlyWhenFull
<1>4. SlidingWindow
  BY LimiterAssumption DEF Init, SlidingWindow
<1> QED
  BY <1>2, <1>3, <1>4 DEF IInv

\* A request is granted.
LEMMA GrantInv ==
  ASSUME IInv, NEW ip \in Ips, Grant(ip)
  PROVE  IInv'
<1> DEFINE n == Len(granted[ip])
<1>1. /\ granted[ip] \in Seq(0 .. MaxTime) /\ n \in Nat
      /\ now \in 0 .. MaxTime /\ now \in Nat
  BY LimiterAssumption DEF IInv, TypeOK
<1>2. /\ granted' = [granted EXCEPT ![ip] = Append(granted[ip], now)]
      /\ times' = [times EXCEPT ![ip] = Retain(ip) \cup {n + 1}]
      /\ now' = now /\ denied' = denied
      /\ Cardinality(Retain(ip)) < Limit
  BY DEF Grant
<1>3. /\ granted'[ip] = Append(granted[ip], now)
      /\ times'[ip] = Retain(ip) \cup {n + 1}
      /\ Len(granted'[ip]) = n + 1
      /\ granted'[ip][n + 1] = now
      /\ \A i \in 1 .. n : granted'[ip][i] = granted[ip][i]
      /\ \A i \in 1 .. n : granted[ip][i] \in Nat
  <2>1. granted'[ip] = Append(granted[ip], now)
        /\ times'[ip] = Retain(ip) \cup {n + 1}
    BY <1>2 DEF IInv, TypeOK
  <2>2. \A i \in 1 .. n : granted[ip][i] \in Nat
    BY <1>1, ElementType
  <2>3. /\ Len(granted'[ip]) = n + 1
        /\ granted'[ip][n + 1] = now
        /\ \A i \in 1 .. n : granted'[ip][i] = granted[ip][i]
    BY <1>1, <2>1
  <2> QED
    BY <2>1, <2>2, <2>3
<1>4. \A q \in Ips \ {ip} : granted'[q] = granted[q] /\ times'[q] = times[q]
  BY <1>2 DEF IInv, TypeOK
<1>5. TypeOK'
  <2>1. Retain(ip) \subseteq 1 .. n /\ IsFiniteSet(Retain(ip))
        /\ Cardinality(Retain(ip)) \in Nat
    BY RetainBounds DEF IInv
  <2>2. Cardinality(Retain(ip) \cup {n + 1}) <= Limit
    <3>1. n + 1 \notin Retain(ip)
      BY <1>1, <2>1
    <3>2. Cardinality(Retain(ip) \cup {n + 1}) = Cardinality(Retain(ip)) + 1
      BY <2>1, <3>1, FS_AddElement
    <3> QED
      BY <1>2, <2>1, <3>2, LimiterAssumption
  <2>3. granted' \in [Ips -> Seq(0 .. MaxTime)]
    BY <1>1, <1>2 DEF IInv, TypeOK
  <2>4. Retain(ip) \cup {n + 1} \subseteq 1 .. n + 1
    BY <1>1, <2>1
  <2>5. times' \in [Ips -> SUBSET (Nat \ {0})]
    BY <1>1, <1>2, <2>4 DEF IInv, TypeOK
  <2>6. \A q \in Ips : /\ times'[q] \subseteq 1 .. Len(granted'[q])
                       /\ Cardinality(times'[q]) <= Limit
    BY <1>3, <1>4, <2>2, <2>4 DEF IInv, TypeOK
  <2> QED
    BY <1>2, <2>3, <2>5, <2>6 DEF IInv, TypeOK
<1>6. Sorted'
  <2>1. \A i \in 1 .. n + 1 : /\ granted'[ip][i] <= now
                              /\ \A j \in i .. n + 1 : granted'[ip][i] <= granted'[ip][j]
    BY <1>1, <1>3 DEF IInv, Sorted
  <2> QED
    BY <1>2, <1>3, <1>4, <2>1 DEF IInv, Sorted
<1>7. OnlyOldDropped'
  <2>1. \A i \in (1 .. n + 1) \ times'[ip] : now - granted'[ip][i] >= Window
    <3> SUFFICES ASSUME NEW i \in (1 .. n + 1) \ times'[ip]
                 PROVE  now - granted'[ip][i] >= Window
      OBVIOUS
    <3>1. i \in 1 .. n /\ i \notin Retain(ip)
      BY <1>1, <1>3
    <3>2. i \in times[ip] => ~(now - granted[ip][i] < Window)
      BY <3>1 DEF Retain
    <3> QED
      BY <1>1, <1>3, <3>1, <3>2, LimiterAssumption DEF IInv, OnlyOldDropped
  <2> QED
    BY <1>2, <1>3, <1>4, <2>1 DEF IInv, OnlyOldDropped
<1>8. DeniedInPast'
  BY <1>2 DEF IInv, DeniedInPast
<1>9. SlidingWindow'
  <2>1. \A i \in 1 .. (n + 1) - Limit :
          granted'[ip][i + Limit] - granted'[ip][i] >= Window
    <3> SUFFICES ASSUME NEW i \in 1 .. (n + 1) - Limit
                 PROVE  granted'[ip][i + Limit] - granted'[ip][i] >= Window
      OBVIOUS
    <3>1. i \in 1 .. n
      BY <1>1, LimiterAssumption
    <3>2. CASE i + Limit = n + 1
      BY <1>1, <1>2, <1>3, <3>1, <3>2, RoomMeansOld, LimiterAssumption
    <3>3. CASE i + Limit # n + 1
      <4>1. i \in 1 .. n - Limit /\ i + Limit \in 1 .. n
        BY <1>1, <3>3, LimiterAssumption
      <4> QED
        BY <1>3, <3>1, <4>1 DEF IInv, SlidingWindow
    <3> QED
      BY <3>2, <3>3
  <2>2. \A q \in Ips \ {ip} : \A i \in 1 .. Len(granted'[q]) - Limit :
          granted'[q][i + Limit] - granted'[q][i] >= Window
    BY <1>4 DEF IInv, SlidingWindow
  <2>3. Len(granted'[ip]) = n + 1
    BY <1>3
  <2>4. SUFFICES ASSUME NEW q \in Ips
                 PROVE  \A i \in 1 .. Len(granted'[q]) - Limit :
                          granted'[q][i + Limit] - granted'[q][i] >= Window
    BY DEF SlidingWindow
  <2>5. CASE q = ip
    <3>1. granted'[q] = granted'[ip] /\ Len(granted'[q]) = n + 1
      BY <2>3, <2>5, Zenon
    <3>2. Len(granted'[q]) - Limit = (n + 1) - Limit
      BY <3>1, Zenon
    <3> QED
      BY <2>1, <3>1, <3>2, Zenon
  <2>6. CASE q # ip
    BY <2>2, <2>6
  <2> QED
    BY <2>5, <2>6
<1>10. DeniedOnlyWhenFull'
  <2> SUFFICES ASSUME NEW q \in Ips, denied[q] >= 0
               PROVE  Cardinality(InWindow(q, denied[q])') >= Limit
    BY <1>2 DEF DeniedOnlyWhenFull
  <2>1. /\ Cardinality(InWindow(q, denied[q])) >= Limit
        /\ Len(granted[q]) \in Nat
    BY DEF IInv, DeniedOnlyWhenFull, TypeOK
  <2>2. InWindow(q, denied[q]) \subseteq InWindow(q, denied[q])'
    <3>1. CASE q = ip
      BY <1>1, <1>2, <1>3, <3>1 DEF InWindow
    <3>2. CASE q # ip
      BY <1>2, <1>4, <3>2 DEF InWindow
    <3> QED
      BY <3>1, <3>2
  <2>3. IsFiniteSet(InWindow(q, denied[q])')
    <3>1. InWindow(q, denied[q])' \subseteq 1 .. Len(granted'[q])
      BY DEF InWindow
    <3>2. Len(granted'[q]) \in Nat
      BY <1>1, <1>3, <1>4, <2>1
    <3> QED
      BY <3>1, <3>2, FinitePositions
  <2>4. /\ Cardinality(InWindow(q, denied[q])) \in Nat
        /\ Cardinality(InWindow(q, denied[q])') \in Nat
        /\ Cardinality(InWindow(q, denied[q])) <= Cardinality(InWindow(q, denied[q])')
    BY <2>2, <2>3, FS_Subset, FS_CardinalityType
  <2> QED
    BY <2>1, <2>4, LimiterAssumption
<1> QED
  BY <1>5, <1>6, <1>7, <1>8, <1>9, <1>10 DEF IInv

\* A request is denied.
LEMMA DenyInv ==
  ASSUME IInv, NEW ip \in Ips, Deny(ip)
  PROVE  IInv'
<1>1. /\ Retain(ip) \subseteq 1 .. Len(granted[ip])
      /\ IsFiniteSet(Retain(ip))
      /\ Cardinality(Retain(ip)) \in Nat
      /\ Cardinality(Retain(ip)) <= Limit
  BY RetainBounds DEF IInv
<1>2. /\ granted' = granted /\ now' = now
      /\ times' = [times EXCEPT ![ip] = Retain(ip)]
      /\ denied' = [denied EXCEPT ![ip] = now]
      /\ Cardinality(Retain(ip)) >= Limit
  BY DEF Deny
<1>3. now \in 0 .. MaxTime /\ now \in Nat
  BY LimiterAssumption DEF IInv, TypeOK
<1>4. /\ times'[ip] = Retain(ip)
      /\ \A q \in Ips \ {ip} : times'[q] = times[q]
      /\ times' \in [Ips -> SUBSET (Nat \ {0})]
  BY <1>1, <1>2 DEF IInv, TypeOK, Retain
<1>5. /\ denied' \in [Ips -> -1 .. MaxTime]
      /\ denied'[ip] = now
      /\ \A q \in Ips \ {ip} : denied'[q] = denied[q]
  BY <1>2, <1>3 DEF IInv, TypeOK
<1>6. TypeOK'
  BY <1>1, <1>2, <1>4, <1>5 DEF IInv, TypeOK
<1>7. Sorted' /\ SlidingWindow'
  BY <1>2 DEF IInv, Sorted, SlidingWindow
<1>8. OnlyOldDropped'
  <2>1. SUFFICES ASSUME NEW q \in Ips,
                        NEW i \in (1 .. Len(granted[q])) \ times'[q]
                 PROVE  now - granted[q][i] >= Window
    BY <1>2 DEF OnlyOldDropped
  <2>2. granted[q][i] \in Nat
    BY ElementType DEF IInv, TypeOK
  <2>3. CASE i \in times[q]
    <3>1. ~(now - granted[q][i] < Window)
      BY <1>4, <2>3 DEF Retain
    <3> QED
      BY <1>3, <2>2, <3>1, LimiterAssumption
  <2>4. CASE i \notin times[q]
    BY <2>4 DEF IInv, OnlyOldDropped
  <2> QED
    BY <2>3, <2>4
<1>9. DeniedInPast'
  BY <1>2, <1>3, <1>5 DEF IInv, DeniedInPast
<1>10. DeniedOnlyWhenFull'
  <2>1. SUFFICES ASSUME NEW q \in Ips, denied'[q] >= 0
                 PROVE  Cardinality(InWindow(q, denied'[q])) >= Limit
    BY <1>2 DEF DeniedOnlyWhenFull, InWindow
  <2>2. CASE q # ip
    BY <1>5, <2>1, <2>2 DEF IInv, DeniedOnlyWhenFull
  <2>3. CASE q = ip
    <3>1. Retain(ip) \subseteq InWindow(ip, now)
      BY <1>1 DEF IInv, Sorted, Retain, InWindow
    <3>2. IsFiniteSet(InWindow(ip, now))
      BY FinitePositions DEF InWindow, IInv, TypeOK
    <3>3. /\ Cardinality(InWindow(ip, now)) \in Nat
          /\ Cardinality(Retain(ip)) <= Cardinality(InWindow(ip, now))
      BY <3>1, <3>2, FS_Subset, FS_CardinalityType
    <3> QED
      BY <1>1, <1>2, <1>5, <2>3, <3>3, LimiterAssumption
  <2> QED
    BY <2>2, <2>3
<1> QED
  BY <1>6, <1>7, <1>8, <1>9, <1>10 DEF IInv

\* Time passes.
LEMMA TickInv ==
  ASSUME IInv, Tick
  PROVE  IInv'
<1>1. /\ now \in 0 .. MaxTime /\ now' = now + 1 /\ now' \in 0 .. MaxTime
      /\ UNCHANGED <<granted, times, denied>>
  BY LimiterAssumption DEF IInv, TypeOK, Tick
<1>2. \A ip \in Ips : \A i \in 1 .. Len(granted[ip]) : granted[ip][i] \in Nat
  BY ElementType DEF IInv, TypeOK
<1>3. TypeOK'
  BY <1>1 DEF IInv, TypeOK
<1>4. Sorted'
  BY <1>1, <1>2, LimiterAssumption DEF IInv, Sorted
<1>5. OnlyOldDropped'
  BY <1>1, <1>2, LimiterAssumption DEF IInv, OnlyOldDropped
<1>6. DeniedInPast'
  BY <1>1, LimiterAssumption DEF IInv, DeniedInPast, TypeOK
<1>7. SlidingWindow' /\ DeniedOnlyWhenFull'
  BY <1>1 DEF IInv, SlidingWindow, DeniedOnlyWhenFull, InWindow
<1> QED
  BY <1>3, <1>4, <1>5, <1>6, <1>7 DEF IInv

\* IInv is inductive.
THEOREM Invariance == Spec => []IInv
<1>1. IInv /\ [Next]_vars => IInv'
  <2> SUFFICES ASSUME IInv, [Next]_vars
               PROVE  IInv'
    OBVIOUS
  <2>1. CASE Tick
    BY <2>1, TickInv
  <2>2. ASSUME NEW ip \in Ips, Grant(ip)
        PROVE  IInv'
    BY <2>2, GrantInv
  <2>3. ASSUME NEW ip \in Ips, Deny(ip)
        PROVE  IInv'
    BY <2>3, DenyInv
  <2>4. CASE UNCHANGED vars
    BY <2>4 DEF vars, IInv, TypeOK, Sorted, OnlyOldDropped, DeniedInPast,
                SlidingWindow, DeniedOnlyWhenFull, InWindow
  <2> QED
    BY <2>1, <2>2, <2>3, <2>4 DEF Next
<1> QED
  BY <1>1, InitInv, PTL DEF Spec

\* The Vec of an address never holds more entries than the limit.
THEOREM TypeCorrect == Spec => []TypeOK
  BY Invariance, PTL DEF IInv

\* The limit holds of every window, for every limit and window length: not
\* only of windows counted from some start.
THEOREM LimitHolds == Spec => []SlidingWindow
  BY Invariance, PTL DEF IInv

\* A denied address had used up its limit.
THEOREM NoSpuriousDenial == Spec => []DeniedOnlyWhenFull
  BY Invariance, PTL DEF IInv
=============================================================================
