---------------------------- MODULE MCTranscript ----------------------------
(* Replies with two reads and a write, with two reads and a finish, and with a write. *)
EXTENDS Transcript

ReadsAndWrite == {<<"read", "read", "write">>}
OneFinish == {<<"read", "read", "finish">>}
OneWrite == {<<"write">>}
=============================================================================
