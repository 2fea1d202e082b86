------------------------------- MODULE MCMailbox -------------------------------
(* Values for the constants of Mailbox.                                    *)
EXTENDS Mailbox

\* Three texts, which the count limits; protocol messages, which theirs does,
\* the last of them one that is passed on like a text; a small text, a
\* protocol message and a large text, which do not fit together.
MCLoads ==
  LET small == [m \in Msg |-> 1]
      mixed == [m \in Msg |-> IF m = 1 THEN 1 ELSE 2]
  IN  {[protocol |-> {}, routed |-> {}, size |-> small],
       [protocol |-> {1, 3}, routed |-> {1}, size |-> small],
       [protocol |-> {2}, routed |-> {2}, size |-> mixed]}
================================================================================
