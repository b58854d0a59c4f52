---------------------------- MODULE MCSessionLog ----------------------------
(* Instances of SessionLog for TLC: one turn and its workers, on the journals a   *)
(* core may find: none, one of an earlier version with an open run, one without a *)
(* header, one of a newer version.                                                *)
EXTENDS SessionLog

CONSTANTS turn, w1, w2

OpenRun == RunRecord(<<w1, 0>>, "started")
EarlierFile == File(<<Header(1), Message(0), OpenRun>>, FALSE)
HeaderlessFile == File(<<Message(0)>>, TRUE)
NewerFile == File(<<Header(3), Message(0)>>, FALSE)

AnyOldFile == {NoFile, EarlierFile, HeaderlessFile}
CurrentFile == {File(<<Header(2)>>, FALSE)}
OnlyNewerFile == {NewerFile}

=============================================================================
