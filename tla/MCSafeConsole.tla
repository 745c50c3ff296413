--------------------------- MODULE MCSafeConsole ---------------------------
(* Instances of SafeConsole for TLC: every codec with every error handler,  *)
(* every text of at most two characters and three that mix them.            *)
EXTENDS SafeConsole

Streams == [codec : Codec, errors : Errors]
Texts   == UNION {[1 .. n -> Char] : n \in 1 .. 2}
           \cup {<<"byte", "check", "byte">>, <<"dots", "cjk", "plain">>,
                 <<"half", "byte", "check">>}
=============================================================================
