-------------------------- MODULE MCWindowsProgram --------------------------
(* WindowsProgram for TLC: up to two items of three sizes.                 *)
EXTENDS WindowsProgram, TLC

Items(id) == [id : {id}, size : 1..3, text : BOOLEAN]

UpToTwoItems ==
    {<<>>} \cup {<<a>> : a \in Items("a")} \cup (Items("a") \X Items("b"))
=============================================================================
