------------------------------ MODULE MCDisplay ------------------------------
(***************************************************************************)
(* Two lines of two letters, a picture of two parts.  A USB text that      *)
(* wraps and one that brings its own newline, one by TCP that fills its   *)
(* line.                                                                   *)
(***************************************************************************)
EXTENDS Display

MCChars == {"a", "nl"}
MCCharWidth == [c \in MCChars |-> 1]
MCUsbTexts == {<<"a", "a", "a">>, <<"nl", "a">>}
MCTcpTexts == {<<"a", "a">>}
=============================================================================
