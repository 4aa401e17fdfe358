----------------------------- MODULE Credentials -----------------------------
(***************************************************************************)
(* What the discovery server promises the holders of its tokens, whatever  *)
(* its tables go through: an account comes into being together with a      *)
(* token, nobody with an account is left without one unless the account is *)
(* exposed, and nothing a deleted account was given is accepted again.     *)
(***************************************************************************)
EXTENDS FiniteSets

CONSTANTS Ids, Tokens

VARIABLES
  accounts,          \* accounts whose owner has been told so
  closed,            \* accounts that were deleted
  exposed,           \* accounts that may lose their last token
  issued,            \* tokens that were handed out
  accepted           \* those that are accepted, and for which account

vars == <<accounts, closed, exposed, issued, accepted>>

Init ==
  /\ accounts = {} /\ closed = {} /\ exposed = {} /\ issued = {}
  /\ accepted = [k \in {} |-> k]

\* Token k is handed out for account u.
HandOut(u, k) ==
  /\ k \notin issued
  /\ issued' = issued \cup {k}
  /\ accepted' = [j \in DOMAIN accepted \cup {k} |-> IF j = k THEN u ELSE accepted[j]]

Open(u, k) ==
  /\ u \notin accounts \cup closed
  /\ accounts' = accounts \cup {u}
  /\ HandOut(u, k)
  /\ UNCHANGED <<closed, exposed>>

Issue(u, k) ==
  /\ u \in accounts
  /\ HandOut(u, k)
  /\ UNCHANGED <<accounts, closed, exposed>>

\* An account asks for a token: whether it is exposed is decided here.
Ask(u) ==
  /\ exposed' \in {exposed \cup {u}, exposed \ {u}}
  /\ UNCHANGED <<accounts, closed, issued, accepted>>

\* A token makes room for a newer one.  Only an exposed account may have no
\* other.
Revoke(k) ==
  /\ \/ accepted[k] \in exposed
     \/ \E j \in DOMAIN accepted \ {k} : accepted[j] = accepted[k]
  /\ accepted' = [j \in DOMAIN accepted \ {k} |-> accepted[j]]
  /\ UNCHANGED <<accounts, closed, exposed, issued>>

Close(u) ==
  /\ accounts' = accounts \ {u}
  /\ closed' = closed \cup {u}
  /\ accepted' = [j \in {i \in DOMAIN accepted : accepted[i] # u} |-> accepted[j]]
  /\ UNCHANGED <<exposed, issued>>

Next ==
  \/ \E u \in Ids, k \in Tokens : Open(u, k) \/ Issue(u, k)
  \/ \E k \in DOMAIN accepted : Revoke(k)
  \/ \E u \in accounts : Ask(u) \/ Close(u)

Spec == Init /\ [][Next]_vars
=============================================================================
