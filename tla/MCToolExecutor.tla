--------------------------- MODULE MCToolExecutor ---------------------------
(* Values for the constants of ToolExecutor.                               *)
EXTENDS ToolExecutor

Call(known, safe, cd, cancel, io) ==
  [known |-> known, safe |-> safe, cd |-> cd, cancel |-> cancel, io |-> io]

CdBash  == Call(TRUE, FALSE, TRUE,  FALSE, TRUE)   \* exclusive; its failure cancels siblings
Edit    == Call(TRUE, FALSE, FALSE, FALSE, TRUE)   \* exclusive
Read    == Call(TRUE, TRUE,  FALSE, FALSE, TRUE)   \* concurrency safe
Sleep   == Call(TRUE, TRUE,  FALSE, TRUE,  TRUE)   \* interruptBehavior 'cancel'
Unknown == Call(FALSE, TRUE, FALSE, FALSE, FALSE)  \* no such tool

(* CdBash may also succeed, so it stands for every exclusive 'block' tool. *)
AllKinds      == {CdBash, Read, Sleep, Unknown}
OvertakeKinds == {Edit, Unknown}
=============================================================================
