--------------------------- MODULE Admission_proof ---------------------------
(***************************************************************************)
(* Proofs about Admission, for any number of requests, versions and        *)
(* releases.  The limiter is that of RateLimiter, whatever the gate does:  *)
(* what RateLimiter_proof shows carries over.                              *)
(***************************************************************************)
EXTENDS Admission, RateLimiter_proof

\* A step of AdmissionNext is one of the limiter or leaves it alone.
LEMMA LimiterStep == [AdmissionNext]_admissionVars => [Next]_vars
  BY DEF AdmissionNext, Arrive, TooMany, TooOld, Pass, Publish, Fetch, FetchFails, Store,
         Next, vars, limiter, admissionVars

LEMMA LimiterInv == AdmissionSpec => []IInv
<1>1. AdmissionInit => Init
  BY DEF AdmissionInit
<1>2. AdmissionSpec => Spec
  BY <1>1, LimiterStep, PTL DEF AdmissionSpec, Spec
<1> QED
  BY <1>2, Invariance, PTL

\* The limit of the window is the limit of what reaches the gate.
THEOREM AdmissionLimited == AdmissionSpec => []SlidingWindow
  BY LimiterInv, PTL DEF IInv

\* A denied address had used up its limit.
THEOREM AdmissionNotDenied == AdmissionSpec => []DeniedOnlyWhenFull
  BY LimiterInv, PTL DEF IInv

-----------------------------------------------------------------------------

\* The minimum in force is no older than any before it, and no newer than the
\* newest release; neither is what has been fetched and not yet written.
GateInv ==
  /\ AdmissionTypeOK
  /\ min \in Versions => min >= floor
  /\ latest => /\ newest >= floor
               /\ min \in Versions => min <= newest
  /\ tag \in Versions => tag >= floor /\ tag <= newest
  /\ release \in Versions => release = newest

LEMMA GateInit == TypeOK /\ AdmissionInit => GateInv
  BY AdmissionAssumption
     DEF AdmissionInit, GateInv, AdmissionTypeOK, Versions, Texts, Number

LEMMA GateNext == GateInv /\ TypeOK' /\ [AdmissionNext]_admissionVars => GateInv'
<1> SUFFICES ASSUME GateInv, TypeOK', [AdmissionNext]_admissionVars
             PROVE  GateInv'
  OBVIOUS
<1> USE AdmissionAssumption DEF GateInv, AdmissionTypeOK, Versions, Texts
<1>1. CASE Publish
  BY <1>1 DEF Publish, limiter, gate
<1>2. CASE Fetch
  BY <1>2 DEF Fetch, limiter, github
<1>3. CASE Store
  BY <1>3 DEF Store, limiter, github, Number
<1>4. ASSUME NEW t \in Tasks, NEW ip \in Ips, NEW v \in Texts \cup {Absent}, Arrive(t, ip, v)
      PROVE  GateInv'
  BY <1>4 DEF Arrive, gate, github
<1>5. ASSUME NEW t \in Tasks, TooOld(t) \/ Pass(t)
      PROVE  GateInv'
  BY <1>5 DEF TooOld, Pass, limiter, gate, github
<1>6. CASE UNCHANGED <<gate, github, client>>
  BY <1>6 DEF gate, github
<1> QED
  BY <1>1, <1>2, <1>3, <1>4, <1>5, <1>6
     DEF AdmissionNext, FetchFails, TooMany, admissionVars

LEMMA GateInvariance == AdmissionSpec => []GateInv
<1>1. IInv => TypeOK
  BY DEF IInv
<1> QED
  BY <1>1, LimiterInv, GateInit, GateNext, PTL DEF AdmissionSpec

\* Type correctness of limiter and gate together.
THEOREM AdmissionTypeCorrect == AdmissionSpec => []AdmissionTypeOK
  BY GateInvariance, PTL DEF GateInv

\* However fetches, releases and registrations interleave, nobody older than
\* a minimum that was in force passes a minimum that can be compared.
THEOREM FloorIsKept == AdmissionSpec => FloorHolds
<1>1. GateInv /\ [AdmissionNext]_admissionVars =>
        [\A t \in Tasks : Pass(t) /\ {client[t], min} \subseteq Versions
           => client[t] >= floor]_admissionVars
  BY AdmissionAssumption
     DEF GateInv, AdmissionTypeOK, Pass, Satisfies, Versions
<1> QED
  BY <1>1, GateInvariance, PTL DEF AdmissionSpec, FloorHolds

\* Only clients older than the newest release are ever too old.
THEOREM NewestIsLetIn == AdmissionSpec => NewestPasses
<1>1. GateInv /\ [AdmissionNext]_admissionVars =>
        [\A t \in Tasks : latest /\ TooOld(t) => client[t] < newest]_admissionVars
  BY AdmissionAssumption
     DEF GateInv, AdmissionTypeOK, TooOld, Satisfies, Versions
<1> QED
  BY <1>1, GateInvariance, PTL DEF AdmissionSpec, NewestPasses
=============================================================================
