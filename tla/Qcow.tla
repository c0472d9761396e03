-------------------------------- MODULE Qcow --------------------------------
(***************************************************************************)
(* How disk/qcow.c finds a byte of the virtual disk in a QCOW image, and   *)
(* its caches of tables.  Offsets and sizes count units of the image file. *)
(***************************************************************************)
EXTENDS SequencesExt

CONSTANTS
    ClusterSize,    \* 1 << cluster_bits
    L2Entries,      \* 1 << l2_bits
    MaxCacheNodes   \* MAX_CACHE_NODES

ASSUME QcowAssumption ==
    /\ ClusterSize \in Nat \ {0} /\ L2Entries \in Nat \ {0}
    /\ MaxCacheNodes \in Nat \ {0}

get_l1_index(offset) == offset \div (L2Entries * ClusterSize)

get_l2_index(offset) == (offset \div ClusterSize) % L2Entries

get_cluster_offset(offset) == offset % ClusterSize

\* mutant: a table is cached under a key that drops low bits
cached_coarse(cache, t) == {i \in DOMAIN cache : cache[i].offset \div 2 = t \div 2}
\* l2_table_lookup: where the table of offset t is in the list, least recently
\* used first.
cached(cache, t) == {i \in DOMAIN cache : cache[i].offset = t}

\* l2_table_search: the table moves to the tail of the list.
l2_table_search(cache, i) == Append(RemoveAt(cache, i), cache[i])

\* mutant: the limit is tested after the insertion
cache_table_late(cache, c) ==
    Append(IF Len(cache) > MaxCacheNodes THEN Tail(cache) ELSE cache, c)
\* cache_table: the head of the list makes room.
cache_table(cache, c) ==
    Append(IF Len(cache) = MaxCacheNodes THEN Tail(cache) ELSE cache, c)
=============================================================================
