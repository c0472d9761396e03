---------------------------- MODULE MCQcowWrite ----------------------------
(***************************************************************************)
(* Instances of QcowWrite.  Cluster 0 has the header, the level 1 table    *)
(* and the refcount table; 2 the block of counts.  A snapshot shares table *)
(* 3 and the data of cluster 5; tables 1 and 4 and the data of cluster 7   *)
(* are the disk's own.                                                     *)
(***************************************************************************)
EXTENDS QcowWrite

None == Entry(0, FALSE)

Clusters(counts, places) ==
    [c \in 0 .. places - 1 |->
        CASE c = 1 -> Content("table", <<None, None>>)
          [] c = 2 -> Content("block", counts)
          [] c = 3 -> Content("table", <<Entry(5, FALSE), None>>)
          [] c = 4 -> Content("table", <<Entry(7, TRUE), Entry(5, FALSE)>>)
          [] OTHER -> Content("data", <<0, 0>>)]

\* Every cluster that block 2 counts is in use; a second block can be added.
Grows ==
    [rft |-> <<2, 0>>, cl |-> Clusters(<<1, 1, 1, 2, 1, 3, 1, 1>>, 2 * RbEntries),
     l1 |-> <<Entry(4, TRUE), Entry(3, FALSE), Entry(1, TRUE)>>]

\* No second block can be added, and cluster 5 has as many snapshots as can be counted.
Full ==
    [rft |-> <<2>>, cl |-> Clusters(<<1, 1, 1, 2, 1, 7, 1, 1>>, RbEntries),
     l1 |-> <<Entry(4, TRUE), Entry(3, FALSE), None>>]

MCDisks == {Grows, Full}
MCFixed == {0, 3, 5}
=============================================================================
