---------------------------- MODULE MCBufferMgr ----------------------------
\* Instances of BufferMgr: two chunks of a table, and a chunk of another.
EXTENDS BufferMgr, TLC

CONSTANTS k1, k2, k3

MCPrefixes == {{k1, k2}}

\* k1 and k2 are alike: they share the prefix.
ChunkSymmetry == Permutations({k1, k2})

=============================================================================
