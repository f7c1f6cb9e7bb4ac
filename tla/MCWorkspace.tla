----------------------------- MODULE MCWorkspace ----------------------------
(* The messages of the socket pair, two caught signals for its five, and   *)
(* numbers of one, two and three digits for the display.                   *)
EXTENDS Workspace, Integers

MCMessages == <<"Hello", "How", "Bybye", "exit">>
MCSignals  == <<"SIGHUP", "SIGINT">>

(* Messages of exercise 5 of two bytes and of one.                         *)
MCTexts == {<<"a", "b">>, <<"b">>}

MCTemperatures == {-1, 5000, 100000}
=============================================================================
