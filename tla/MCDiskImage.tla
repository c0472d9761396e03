---------------------------- MODULE MCDiskImage ----------------------------
EXTENDS DiskImage

\* A raw disk of three sectors; a QCOW disk of eight clusters in four tables that
\* goes on for a sector where the first level table has ended, as when
\* qcow1_read_header rounds l1_size down.
Sizes == [raw |-> 6, mmap |-> 6, qcow |-> 34]

\* Four level 2 tables, the first of them missing; one cluster without a place in
\* each of two; no cluster is where it is on the disk.  Where a cluster can fail to
\* be read after another one of its iovec, the disk goes on Width bytes further.
Tables == <<0, 1001, 1002, 1003>>
Clusters == [t \in {1001, 1002, 1003} |->
                CASE t = 1001 -> <<540, 500>> [] t = 1002 -> <<520, 0>> [] t = 1003 -> <<0, 560>>]

=============================================================================
