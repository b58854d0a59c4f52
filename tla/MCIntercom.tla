---------------------------- MODULE MCIntercom ----------------------------
(* Two runs, with names of their own and with one name for both.           *)
EXTENDS Intercom, TLC

CONSTANTS a1, a2, n1, n2

OwnNames == a1 :> n1 @@ a2 :> n2

\* subagent_target strips the dashes of a run id and keeps eight characters:
\* child 0 of the batch run-1 and the sixteenth run, run-10, are both "run10".
OneName == a1 :> n1 @@ a2 :> n1

\* With OwnNames the two runs are interchangeable, each with its name.
Symmetry == {a1 :> a2 @@ a2 :> a1 @@ n1 :> n2 @@ n2 :> n1}
===========================================================================
