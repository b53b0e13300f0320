----------------------------- MODULE MCPmmInit -----------------------------
(* Pages of two addresses, one metadata entry per address. *)
EXTENDS PmmInit

R(base, size) == [base |-> base, size |-> size]

Memories ==
    LET regions == {R(0, 8), R(1, 7), R(8, 8), R(3, 6), R(9, 2), R(8, 16), R(28, 8), BAD}
    IN BoundedSeq(regions, 2) \cup
       {<<R(9, 2), R(0, 8), R(16, 8)>>, <<R(8, 8), R(0, 8), R(16, 12)>>}

Blocks ==
    {<<Terminator>>, <<R(4, 2), Terminator>>, <<R(4, 2)>>,
     <<R(5, 1), R(9, 3), Terminator>>, <<R(18, 1), R(22, 1), R(25, 1), Terminator>>, <<R(2, 2), R(10, 1), R(7, 1), Terminator, R(0, 8)>>}

Nodes == {<<>>, <<R(12, 2)>>, <<BAD, R(6, 1)>>, <<R(3, 5), R(10, 0), R(13, 1)>>}

MCDtbs ==
    {[memory |-> m, reservation_block |-> b, reserved_memory |-> n,
      phys |-> blob[1], size |-> blob[2]] :
        m \in Memories, b \in Blocks, n \in Nodes, blob \in {<<0, 3>>, <<7, 2>>, <<30, 1>>}}

MCKernels == {[start |-> 0, end |-> 1], [start |-> 5, end |-> 8], [start |-> 31, end |-> 31]}
=============================================================================
