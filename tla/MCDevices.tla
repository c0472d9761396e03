------------------------------ MODULE MCDevices ------------------------------
EXTENDS Devices

Image(isblk, mounted, format, ro) ==
    [isblk |-> isblk, mounted |-> mounted, format |-> format, size |-> 8, ro |-> ro]

\* A raw or QCOW image, in a file or on a block device, mounted or not, read-only
\* or not.
EveryImage ==
    {Image(isblk, mounted, format, ro) :
        isblk, mounted \in BOOLEAN, format \in {"raw", "qcow1", "qcow2"}, ro \in BOOLEAN}
    \ {Image(FALSE, TRUE, format, ro) : format \in {"raw", "qcow1", "qcow2"}, ro \in BOOLEAN}

EveryCall == {"stat", "open", "ioctl", "malloc", "mmap", "pread", "map_io_range"}
=============================================================================
