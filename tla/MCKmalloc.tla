----------------------------- MODULE MCKmalloc -----------------------------
(* Two pools: slabs with three objects, and slabs with a single one. *)
EXTENDS Kmalloc

MCClassSizes == <<4, 8>>
=============================================================================
