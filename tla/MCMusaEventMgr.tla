--------------------------- MODULE MCMusaEventMgr ---------------------------
(* Instances of MusaEventMgr small enough for TLC. *)
EXTENDS MusaEventMgr, TLC

CONSTANTS t1, t2, f1, f2, e1, e2, s1, s2

\* Two clients call ThenExecute at the same time.
MCClients == {t1, t2}

MCCallbacks == {f1, f2}

\* In the runs about callbacks that call ThenExecute, f1 does.
MCChained == {f1}

\* As many handles as callbacks: the runtime does not run out of them.
MCEvents == {e1, e2}

\* Two streams that progress independently.
MCStreams == {s1, s2}

\* f1 is not like the other callback.
ChainedSymmetry == Permutations(MCClients) \cup Permutations(MCEvents)
                       \cup Permutations(MCStreams)

=============================================================================
