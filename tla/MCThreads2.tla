----------------------------- MODULE MCThreads2 -----------------------------
(* Instantiates Threads2 for TLC: three slots, so that a created thread    *)
(* can be passed over by the selection loop, and main as the creator.      *)
EXTENDS Threads2

MainOnly == {0}
MainAndFirst == {0, 1}
=============================================================================
