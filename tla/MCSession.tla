----------------------------- MODULE MCSession -----------------------------
(***************************************************************************)
(* A source with the entry function, one without, one that does not        *)
(* compile and an object; a library held by two directories, one held by   *)
(* the last only and one that cannot be loaded.                            *)
(***************************************************************************)
EXTENDS Session

MCSources == {"main.c", "util.c", "bad.c"}
MCObjects == {"part.o"}
MCBroken == {"bad.c"}
MCMains == {"main.c", "-"}
MCLibraries == {"z", "m", "text"}
MCHolds == [d \in {"given", "pwd", "system"} |->
              CASE d = "given" -> {"z"} [] d = "pwd" -> {"text"} [] OTHER -> {"z", "m"}]
MCLoadable == {"z", "m"}
MCExits == {-1, 0, 3}
=============================================================================
