-------------------------------- MODULE MCShell --------------------------------
(* A few lines: commands, with an argument or a blank before them, a line       *)
(* that is not a command, one with too many words, and an empty one.            *)
EXTENDS Shell

MCLines == {<<"x">>, <<"c">>, <<" ", "x">>, <<"x", " ", "c">>,
            <<"x", "c">>, <<"x", " ", "c", " ", "x">>}
MCCommands == {<<"x">>, <<"c">>}
MCClear == <<"c">>
=============================================================================
