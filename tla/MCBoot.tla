------------------------------- MODULE MCBoot -------------------------------
EXTENDS Boot

\* Scale: 2 bytes a page and 8 entries a table, so 2 MiB is 16, 1 GiB 128,
\* 2^39 is 1024, 2^48 is 8192.

MCHarts == {0, 1}
MCAff0 == [h \in MCHarts |-> h]

\* None; in a gigabyte below both kernels; beside each kernel; across the end of
\* the second gigabyte; far above; in the stack region's gigabyte; beyond it.
MCDtbOffsets == {0, 64, 160, 380, 640, 960, 1100}

\* RAM in the kernel's gigabytes; more of it, with a hole; up to the very end.
MCBanks == {{<<128, 384>>}, {<<128, 256>>, <<300, 700>>}, {<<256, 1024>>}}
=============================================================================
