--------------------------- MODULE MCDiagnostics ---------------------------
(* Two tasks of equal priority. *)
EXTENDS Diagnostics, KernelView

MCPrios == <<0, 0>>

(* A breakpoint is not used, stops in the debugger, or has none. *)
MCSetups == {<<FALSE, FALSE>>, <<TRUE, TRUE>>, <<TRUE, FALSE>>}

(* Left out besides: the FPU registers when the thread that runs has no    *)
(* FPU context, and main once the first task runs.                         *)
LiveState ==
    <<LiveKernel(kern, {}), pend, switching, systick, pc,
      IF live.fpca THEN live ELSE [live EXCEPT !.s0_15 = NULL, !.s16_31 = NULL],
      IF boot = "done" THEN <<>> ELSE msp, IF boot = "done" THEN fpu \ {NULL} ELSE fpu,
      stack, saved, boot, restoring, depth, smashed, diagVars>>
=============================================================================
