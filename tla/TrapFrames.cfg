CONSTANTS
    Arches = {"aarch64", "riscv64"}
    Threads = {"t1", "t2", "t3"}
SPECIFICATION TSpec
PROPERTY RegistersPreserved
