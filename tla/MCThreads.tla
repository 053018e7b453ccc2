----------------------------- MODULE MCThreads -----------------------------
(* Instantiates Threads for TLC: three slots, the main thread as creator  *)
(* (as in main.c), and the racing configurations the violation runs use.  *)
EXTENDS Threads

CONSTANTS v1

\* One exit value is enough: no property compares two values.
MCValues == {v1}

\* main.c: only main creates and joins.
MainOnly == {0}

\* Two threads that both call pthread_create or pthread_join.
MainAndFirst == {0, 1}

AllSlots == Slots
=============================================================================
