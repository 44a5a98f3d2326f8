------------------------- MODULE MCPinnedMemoryPool -------------------------
(* Instances of PinnedMemoryPool small enough for TLC. *)
EXTENDS PinnedMemoryPool

CONSTANTS c1, c2, b1, b2, s1, s2

\* Two clients contend for the pool and for mu_.
MCClients == {c1, c2}

\* Two addresses: one can be in the pool while the other is in use, both can
\* be pending on different streams, and the system can run out of them.
MCBuffers == {b1, b2}

\* Two streams that progress independently.
MCStreams == {s1, s2}

\* One request below the minimum size and one above it.
MCSizes == {1, 3}
MCMinSize == 2

=============================================================================
