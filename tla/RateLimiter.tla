----------------------------- MODULE RateLimiter -----------------------------
(***************************************************************************)
(* One map of the RateLimiter of rate_limit.rs: allow_register and         *)
(* allow_lookup are check on a map of their own, with 5 requests per hour  *)
(* and 60 per minute.  check holds the lock of the map from reading the    *)
(* clock to the answer, so it is one step and the clock readings of two    *)
(* calls are in the order of the calls.                                    *)
(*                                                                         *)
(* The Vec of an address holds the times of some of the requests granted   *)
(* to it: it is represented by the set of their positions in `granted`,    *)
(* which remembers them all.                                               *)
(***************************************************************************)
EXTENDS Integers, Sequences, FiniteSets

CONSTANTS
  Ips,
  Limit,           \* limit
  Window,          \* window, in ticks
  MaxTime          \* bound: when the clock stops

ASSUME LimiterAssumption ==
  /\ Limit \in Nat \ {0}
  /\ Window \in Nat \ {0}
  /\ MaxTime \in Nat

VARIABLES
  now,             \* Instant::now()
  granted,         \* times of the granted requests of each address
  times,           \* those of them that are in the Vec of the address
  denied           \* when an address was last denied, -1 if never

vars == <<now, granted, times, denied>>

\* The types of the variables; a Vec never outgrows the limit.
TypeOK ==
  /\ now \in 0 .. MaxTime
  /\ granted \in [Ips -> Seq(0 .. MaxTime)]
  /\ times \in [Ips -> SUBSET (Nat \ {0})]
  /\ \A ip \in Ips : /\ times[ip] \subseteq 1 .. Len(granted[ip])
                     /\ Cardinality(times[ip]) <= Limit
  /\ denied \in [Ips -> -1 .. MaxTime]

Init ==
  /\ now = 0
  /\ granted = [ip \in Ips |-> <<>>]
  /\ times = [ip \in Ips |-> {}]
  /\ denied = [ip \in Ips |-> -1]

\* Fault: an entry that is exactly one window old is kept.
RetainOld(ip) == {i \in times[ip] : now - granted[ip][i] <= Window}

\* Fault: an entry expires one tick early.
RetainLess(ip) == {i \in times[ip] : now - granted[ip][i] < Window - 1}

\* times.retain(|t| now.duration_since(*t) < window).
Retain(ip) == {i \in times[ip] : now - granted[ip][i] < Window}

Grant(ip) ==
  /\ Cardinality(Retain(ip)) < Limit
  /\ granted' = [granted EXCEPT ![ip] = Append(@, now)]
  /\ times' = [times EXCEPT ![ip] = Retain(ip) \cup {Len(granted[ip]) + 1}]
  /\ UNCHANGED <<now, denied>>

Deny(ip) ==
  /\ Cardinality(Retain(ip)) >= Limit
  /\ times' = [times EXCEPT ![ip] = Retain(ip)]
  /\ denied' = [denied EXCEPT ![ip] = now]
  /\ UNCHANGED <<now, granted>>

Tick ==
  /\ now < MaxTime
  /\ now' = now + 1
  /\ UNCHANGED <<granted, times, denied>>

Next == Tick \/ \E ip \in Ips : Grant(ip) \/ Deny(ip)

Spec == Init /\ [][Next]_vars

-----------------------------------------------------------------------------
(***************************************************************************)
(* Properties.                                                             *)
(***************************************************************************)

\* DESIGN.md, protection: so many requests per address and window.  This
\* holds of every window, wherever it starts: a request and the Limit-th
\* after it are at least a window apart.
SlidingWindow ==
  \A ip \in Ips : \A i \in 1 .. Len(granted[ip]) - Limit :
    granted[ip][i + Limit] - granted[ip][i] >= Window

InWindow(ip, t) ==
  {i \in 1 .. Len(granted[ip]) : granted[ip][i] <= t /\ t - granted[ip][i] < Window}

\* Nobody is denied who has not used up the limit, and requests that were
\* denied do not count against it.
DeniedOnlyWhenFull ==
  \A ip \in Ips : denied[ip] >= 0 =>
    Cardinality(InWindow(ip, denied[ip])) >= Limit
=============================================================================
