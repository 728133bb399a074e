-------------------------- MODULE MCSchedulerWorker --------------------------
EXTENDS SchedulerWorker, TLC

\* Workers and run ids are interchangeable where no liveness is checked.
Symmetry == Permutations(Workers) \cup Permutations(Runs)

\* Everything the two-worker run checks is conditional on no lapse.
NotLapsed == ~lapsed
===============================================================================
