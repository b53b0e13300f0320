------------------------------- MODULE MCPmm -------------------------------
(* Two arenas, the first starting on an odd page, with one reserved page. *)
EXTENDS Pmm

MCArenas == <<[base |-> 2, page_count |-> 5], [base |-> 16, page_count |-> 2]>>
MCReservedPages == {<<1, 0>>}
=============================================================================
