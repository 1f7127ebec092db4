--------------------------- MODULE MCSlidingWindows ---------------------------
(***************************************************************************)
(* Every combination of small sizes: inputs shorter than the filter,       *)
(* filters shorter and longer than the stride, all remainders.             *)
(***************************************************************************)
EXTENDS SlidingWindows

MCSizes == 1 .. 7
MCKernels == 1 .. 4
MCRates == 1 .. 2
MCStrides == 1 .. 4
=============================================================================
