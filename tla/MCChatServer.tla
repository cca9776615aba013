---------------------------- MODULE MCChatServer ----------------------------
(***************************************************************************)
(* ChatServer for TLC.                                                     *)
(***************************************************************************)
EXTENDS ChatServer

CONSTANTS s1, s2

MCSockets  == {s1, s2}
MCChannels == {"group_", "users_"} \X Names
=============================================================================
