------------------------- MODULE MCWorkerSupervisor -------------------------
EXTENDS WorkerSupervisor

\* What is checked speaks of states before a start() beside a live monitor.
NotReentered == ~reentered
=============================================================================
