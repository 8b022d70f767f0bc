------------------------------- MODULE MCLogin -------------------------------
(***************************************************************************)
(* An instance of Login for TLC.  Bytes are hexadecimal digits and 7 is the*)
(* magic byte, so that the total length of a one-byte frame is 7, a magic  *)
(* byte of its own.                                                        *)
(***************************************************************************)
EXTENDS Login

MCBodies == {<<>>, <<"blank", "data">>, <<"data", "blank">>}
MCPayloads == {<<0>>, <<7, 7>>, <<0, 7, 1>>}

\* Noise without a magic byte, as a header that lost bytes or text would leave.
MCGarbage == {<<>>} \cup [1 .. 1 -> {0, 1, 8}] \cup [1 .. 2 -> {0, 1, 8}]

MCHttpText == <<8, 9, 9, 8, 6, 1>>
=============================================================================
