------------------------------- MODULE MCCli -------------------------------
(* An instance of Cli for TLC: every command line of up to four arguments behind the name. *)
EXTENDS Cli, TLC

Option == <<"-", "v">>
Spaced == <<"-", "v", " ", "h", " ">>
Long   == <<"-", "-", "version">>
Dash   == <<"-">>
Word   == <<"word">>
Run    == <<"run">>
Empty  == <<>>

MCArgs  == {Option, Spaced, Long, Dash, Word, Run, Empty}
MCNames == {<<"tac">>, Dash}

MCSubCommandMap == Run :> "Run"
MCOptConfigs == "Run" :> {OptConfig("A", "v", "version", TRUE), OptConfig("B", "h", "b", FALSE),
                          OptConfig("C", "c", "c", TRUE)}
=============================================================================
