--------------------------- MODULE MCProgramExec ---------------------------
(***************************************************************************)
(* Two runs of cjit.  Exit code 256 is one that WEXITSTATUS turns into 0.  *)
(***************************************************************************)
EXTENDS ProgramExec

MCExitCodes == {3, 256}
MCSignals == {15}
MCStopSignals == {19}
MCPids == 1 .. 2
=============================================================================
