-------------------------- MODULE OffloadRefinement --------------------------
(***************************************************************************)
(* HeQatOffload implements OffloadService: the rings, lists, throttle and  *)
(* callbacks amount to sessions whose results are all there at the end.    *)
(***************************************************************************)
EXTENDS HeQatOffload

\* The positions of c's batch for which HE_QAT_bnModExp_MT has returned.
Submitted(c) ==
    CASE pc[c] \in {"submit", "submit_wait"} -> 0 .. j[c] - 1
      [] pc[c] \in {"release", "release_wait"} -> 0 .. batch_size[c] - 1
      [] OTHER -> {}

Service == INSTANCE OffloadService WITH
    Sessions <- BufferCount,
    size <- [c \in Clients |-> IF c \in Holders THEN batch_size[c] ELSE 0],
    submitted <- [c \in Clients |-> Submitted(c)],
    written <- [c \in Clients |-> {k \in Submitted(c) : op_output[<<c, k>>]}]

\* Every step of the offload path is a step of the service or changes nothing
\* a caller can see: results are written once, to the caller they belong to,
\* and release_bnModExp_buffer returns after the last of them.
ImplementsService == Service!ServiceSpec

\* The same for the progress of a session: it is submitted to its end, answered
\* and closed.
ImplementsServiceProgress == Service!ServiceFairness

=============================================================================
