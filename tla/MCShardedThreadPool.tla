------------------------- MODULE MCShardedThreadPool -------------------------
(* A small instance of ShardedThreadPool for TLC. *)
EXTENDS ShardedThreadPool, TLC

CONSTANT s1

\* The workers share a shard, so that one can have an item of it in hand while
\* another finds it empty.
OneShard == [w \in Workers |-> s1]

=============================================================================
