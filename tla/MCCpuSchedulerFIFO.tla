------------------------- MODULE MCCpuSchedulerFIFO -------------------------
(* Four blocks over two cores, so that two of them have to queue; a guest, and a *)
(* node whose operating system turns its first core on and off.                  *)
EXTENDS CpuSchedulerFIFO
=============================================================================
