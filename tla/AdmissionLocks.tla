--------------------------- MODULE AdmissionLocks ---------------------------
(***************************************************************************)
(* What the admission of the session manager promises its callers: each    *)
(* key (a scope or a session) is held by one caller at a time, and a       *)
(* caller takes keys in ascending order only, so that callers never wait   *)
(* for each other in a circle.  SessionAdmission implements it.            *)
(***************************************************************************)
EXTENDS Naturals

CONSTANTS Scopes, Sessions, \* identifiers, as naturals
          Clients           \* goroutines that enter

\* admissionKey: 0 is a scope's lock, 1 a session's.
Keys == ({0} \X Scopes) \cup ({1} \X Sessions)

\* compareAdmissionKey: scopes before sessions, then by name.
Before(k, l) == k[1] < l[1] \/ (k[1] = l[1] /\ k[2] < l[2])

VARIABLE held \* the keys of each client

Init == held = [c \in Clients |-> {}]

Acquire(c, k) ==
    /\ \A d \in Clients : k \notin held[d]
    /\ \A l \in held[c] : Before(l, k)
    /\ held' = [held EXCEPT ![c] = @ \cup {k}]

Release(c, k) ==
    /\ k \in held[c]
    /\ \A l \in held[c] \ {k} : Before(l, k)
    /\ held' = [held EXCEPT ![c] = @ \ {k}]

Next == \E c \in Clients, k \in Keys : Acquire(c, k) \/ Release(c, k)

Spec == Init /\ [][Next]_held
=============================================================================
