--------------------------- MODULE OffloadService ---------------------------
(***************************************************************************)
(* What the multi-threaded interface of the HE QAT module promises its     *)
(* callers (heqat/bnops.h): at most Sessions of them are served at a time; *)
(* a session computes a batch of results, each of them once and in any     *)
(* order; and the session is over only when every result of the batch has  *)
(* been written to the memory the caller gave for it.                      *)
(***************************************************************************)
EXTENDS Naturals, FiniteSets

CONSTANTS Clients,      \* the callers
          Sessions,     \* sessions the service has room for
          MaxBatch      \* bound: requests in a session

Position == 0 .. MaxBatch - 1

VARIABLES size,         \* the requests of a caller's session, 0 when it has none
          submitted,    \* the positions it has submitted
          written       \* the positions whose result is written

serviceVars == <<size, submitted, written>>

Served == {c \in Clients : size[c] > 0}

ServiceInit ==
    /\ size = [c \in Clients |-> 0]
    /\ submitted = [c \in Clients |-> {}]
    /\ written = [c \in Clients |-> {}]

Open(c) ==
    /\ size[c] = 0
    /\ Cardinality(Served) < Sessions
    /\ \E n \in 1 .. MaxBatch : size' = [size EXCEPT ![c] = n]
    /\ UNCHANGED <<submitted, written>>

SubmitNext(c) ==
    /\ Cardinality(submitted[c]) < size[c]
    /\ submitted' = [submitted EXCEPT ![c] = @ \cup {Cardinality(@)}]
    /\ UNCHANGED <<size, written>>

Answer(c, k) ==
    /\ k \in submitted[c] \ written[c]
    /\ written' = [written EXCEPT ![c] = @ \cup {k}]
    /\ UNCHANGED <<size, submitted>>

Close(c) ==
    /\ size[c] > 0
    /\ written[c] = 0 .. size[c] - 1
    /\ size' = [size EXCEPT ![c] = 0]
    /\ submitted' = [submitted EXCEPT ![c] = {}]
    /\ written' = [written EXCEPT ![c] = {}]

ServiceNext ==
    \E c \in Clients :
        \/ Open(c) \/ SubmitNext(c) \/ Close(c)
        \/ \E k \in Position : Answer(c, k)

ServiceSpec == ServiceInit /\ [][ServiceNext]_serviceVars

\* A session that was opened goes on to its end.
ServiceFairness ==
    \A c \in Clients :
        /\ WF_serviceVars(SubmitNext(c) \/ Close(c))
        /\ WF_serviceVars(\E k \in Position : Answer(c, k))

=============================================================================
