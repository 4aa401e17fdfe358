------------------------------ MODULE Admission ------------------------------
(***************************************************************************)
(* What a registration has to pass before it reaches the database: the     *)
(* rate limiter, and then the version gate, whose minimum the background   *)
(* task refresh_loop keeps up with the releases on GitHub.                 *)
(*                                                                         *)
(* Versions that semver can parse are numbers in their order, 0 being      *)
(* "0.0.0"; any other text is Unparsable.  The six hours between two       *)
(* fetches are left out: a fetch may begin at any time.                    *)
(***************************************************************************)
EXTENDS RateLimiter

CONSTANTS
  Tasks,             \* registrations that may be in progress at one time
  Newest,            \* bound: the last version that is released
  Unparsable,
  Absent,            \* no client_version in the request
  None               \* no request, or no tag

ASSUME AdmissionAssumption ==
  /\ Newest \in Nat
  /\ {Unparsable, Absent, None} \cap Nat = {}
  /\ Cardinality({Unparsable, Absent, None}) = 3

VARIABLES
  latest,            \* min_client_version is "latest" in the configuration
  min,               \* AppState.min_version
  release,           \* tag of the newest release
  tag,               \* what fetch_latest returned and is yet to be written
  client,            \* client_version of the request of each task
  newest,            \* the newest version released with a tag that parses
  floor              \* the newest that min has been

limiter == <<now, granted, times, denied>>
gate == <<latest, min, tag, floor>>
github == <<release, newest>>
admissionVars == <<limiter, gate, github, client>>

Versions == 0 .. Newest
Texts == Versions \cup {Unparsable}

\* The types of the variables; nothing is fetched for a version that the
\* configuration names.
AdmissionTypeOK ==
  /\ TypeOK
  /\ latest \in BOOLEAN
  /\ min \in Texts /\ release \in Texts
  /\ tag \in Texts \cup {None}
  /\ latest \/ tag = None
  /\ client \in [Tasks -> Texts \cup {Absent, None}]
  /\ newest \in Versions /\ floor \in Versions

\* The number of a version, for those that are compared.
Number(v) == IF v \in Versions THEN v ELSE 0

AdmissionInit ==
  /\ Init
  /\ latest \in BOOLEAN
  /\ min \in IF latest THEN {0} ELSE Texts
  /\ release = 0 /\ newest = 0
  /\ tag = None
  /\ client = [t \in Tasks |-> None]
  /\ floor = Number(min)

-----------------------------------------------------------------------------
(***************************************************************************)
(* refresh_loop, which main starts if the configuration says "latest".     *)
(***************************************************************************)

\* A release, newer than those before it as far as its tag tells.
Publish ==
  /\ \/ release' = Unparsable /\ UNCHANGED newest
     \/ newest < Newest /\ newest' = newest + 1 /\ release' = newest'
  /\ UNCHANGED <<limiter, gate, client>>

\* Fault: the loop runs whatever the configuration says.
FetchAlways ==
  /\ tag = None
  /\ tag' = release
  /\ UNCHANGED <<limiter, github, client, latest, min, floor>>

Fetch ==
  /\ latest
  /\ tag = None
  /\ tag' = release
  /\ UNCHANGED <<limiter, github, client, latest, min, floor>>

\* Fault: as long as GitHub does not answer, no version is required.
FetchFailsOpen ==
  /\ latest /\ tag = None
  /\ min' = 0
  /\ UNCHANGED <<limiter, github, client, latest, tag, floor>>

\* GitHub does not answer, or not with a release.
FetchFails ==
  /\ latest /\ tag = None
  /\ UNCHANGED admissionVars

Store ==
  /\ tag # None
  /\ min' = tag
  /\ tag' = None
  /\ floor' = IF Number(tag) > floor THEN Number(tag) ELSE floor
  /\ UNCHANGED <<limiter, github, client, latest>>

-----------------------------------------------------------------------------
(***************************************************************************)
(* The first lines of /register.                                           *)
(***************************************************************************)

\* allow_register lets the request in; it counts, whatever the gate says.
Arrive(t, ip, v) ==
  /\ client[t] = None
  /\ Grant(ip)
  /\ client' = [client EXCEPT ![t] = v]
  /\ UNCHANGED <<gate, github>>

TooMany(ip) == Deny(ip) /\ UNCHANGED <<gate, github, client>>

\* Fault: the minimum itself is too old.
SatisfiesStrictly(c, m) == c \in Versions /\ m \in Versions => c > m

\* What cannot be parsed satisfies everything, and is satisfied by all.
Satisfies(c, m) == c \in Versions /\ m \in Versions => c >= m

TooOld(t) ==
  /\ client[t] \notin {None, Absent}
  /\ min # 0 /\ ~Satisfies(client[t], min)
  /\ client' = [client EXCEPT ![t] = None]
  /\ UNCHANGED <<limiter, gate, github>>

Pass(t) ==
  /\ client[t] # None
  /\ client[t] = Absent \/ min = 0 \/ Satisfies(client[t], min)
  /\ client' = [client EXCEPT ![t] = None]
  /\ UNCHANGED <<limiter, gate, github>>

AdmissionNext ==
  \/ Tick /\ UNCHANGED <<gate, github, client>>
  \/ Publish \/ Fetch \/ FetchFails \/ Store
  \/ \E ip \in Ips : TooMany(ip)
  \/ \E t \in Tasks :
       \/ \E ip \in Ips, v \in Texts \cup {Absent} : Arrive(t, ip, v)
       \/ TooOld(t) \/ Pass(t)

AdmissionSpec == AdmissionInit /\ [][AdmissionNext]_admissionVars

-----------------------------------------------------------------------------
(***************************************************************************)
(* Properties.                                                             *)
(***************************************************************************)

\* DESIGN.md:318: what GitHub last answered goes on being required while it
\* cannot be reached.  A client older than any version that was ever in force
\* gets through only if the tag in force cannot be compared.
FloorHolds ==
  [][\A t \in Tasks : Pass(t) /\ {client[t], min} \subseteq Versions
       => client[t] >= floor]_admissionVars

\* An up-to-date client is never turned away for its age, however the loop
\* and the releases overtake one another.
NewestPasses ==
  [][\A t \in Tasks : latest /\ TooOld(t) => client[t] < newest]_admissionVars
=============================================================================
