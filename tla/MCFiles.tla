------------------------------ MODULE MCFiles ------------------------------
(* Two processes, a file of three bytes on a card of four, the devices and *)
(* a virtual file.                                                         *)
EXTENDS Files

ThePaths == {<<"f">>, <<"/", "g">>, <<"/", "d", "/", "t">>, <<"/", "p", "/", "1", "/", "s">>}
TheTexts == {<<"b", NL>>}
TheFile == <<[name |-> <<"f">>, bytes |-> <<"a", NL, "a">>]>>
=============================================================================
