---------------------------- MODULE MCSemaphores ----------------------------
(* Instantiates Semaphores for TLC: three slots with main as the only     *)
(* creator, two sem_t objects, and the thread roles each run assigns.     *)
EXTENDS Semaphores

CONSTANTS v1, s1, s2

\* One exit value: no property compares exit values.
MCValues == {v1}

\* Two sem_t statics, so a sem_init race has two handles to alias.
MCSemVars == {s1, s2}

\* sem_init(&s, 0, 0) and sem_init(&s, 0, 1): a blocking and a free unit.
MCInitValues == {0, 1}

NoThreads == {}
MainOnly == {0}
MainAndFirst == {0, 1}
Workers == {1, 2}
AllSlots == Slots
=============================================================================
