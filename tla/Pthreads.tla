------------------------------ MODULE Pthreads ------------------------------
(***************************************************************************)
(* POSIX condition variables, as the code uses them: a thread that waits   *)
(* is in a control state of its own, and a signal moves it back to the     *)
(* test of the loop around its pthread_cond_wait.                          *)
(***************************************************************************)

\* What the control states of some threads may be after pthread_cond_signal: it
\* wakes one of the waiters W, if there is one.
Signal(control, W, resumed) ==
    IF W = {} THEN {control}
              ELSE {[control EXCEPT ![w] = resumed] : w \in W}

\* The same for a condition variable that only one thread waits on.
Resume(control, waiting, resumed) == IF control = waiting THEN resumed ELSE control

=============================================================================
