------------------------------- MODULE Clients -------------------------------
(***************************************************************************)
(* A program of the CoreModel demo: it uses the Python client or, in an    *)
(* older example, the thread around the C library.  The other client is    *)
(* not there ("none").                                                     *)
(***************************************************************************)
EXTENDS CoreModelClient, CoreModelThread

vars == <<clientVars, threadVars>>

Init == \/ ClientInit /\ main = "none" /\ NotStarted
        \/ ThreadInit /\ call = "none" /\ ClientRest

Next == \/ ClientNext /\ UNCHANGED threadVars
        \/ ThreadNext /\ UNCHANGED clientVars

Spec == Init /\ [][Next]_vars /\ ClientFairness /\ ThreadFairness

\* Whatever waits comes to an end: an attach() or list(), a request to an
\* interface whose callbacks hold nothing up (mainloop_int, advance_if), and
\* a program that has told its thread to stop (run, stop_event).
WaitsEnd == Served /\ Exits
=============================================================================
