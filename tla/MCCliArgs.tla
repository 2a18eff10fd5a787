----------------------------- MODULE MCCliArgs -----------------------------
(***************************************************************************)
(* Command lines for CliArgs.                                              *)
(***************************************************************************)
EXTENDS CliArgs

MCFiles == {Plain("a.c"), Plain("b@")}
MCShort == {Short(<<"v", "h">>, ""), Short(<<"v">>, ""), Short(<<"c">>, ""),
            Short(<<"o">>, ""), Short(<<"D">>, ""), Short(<<"v", "l">>, ""), Short(<<"l">>, "ssl"),
            Short(<<"Z", "q">>, "")}
MCLong == {Long("verb", ""), Long("help", ""), Long("xass", ""), Long("xtgz", "")}
MCDriver == {Driver(<<"M", "F">>, "bare"), Driver(<<"W", "x">>, "")}
MCBad == {"b@"}

MCAll == MCFiles \cup MCShort \cup MCLong \cup MCDriver \cup {Sep, Long("ambiguous", "")}
=============================================================================
