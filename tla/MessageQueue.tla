---------------------------- MODULE MessageQueue ----------------------------
(***************************************************************************)
(* What the print queue promises: a message it has accepted is shown once, *)
(* after all messages accepted before it.  Once broken, nothing is         *)
(* promised.                                                               *)
(***************************************************************************)
EXTENDS Sequences

CONSTANT Messages

VARIABLES pending, shown, broken

Accept(m) == pending' = Append(pending, m) /\ UNCHANGED shown
Show == /\ pending # <<>> /\ pending' = Tail(pending)
        /\ shown' = Append(shown, Head(pending))

QueueSpec == /\ pending = <<>> /\ shown = <<>>
             /\ [][broken' \/ Show \/ \E m \in Messages : Accept(m)]_<<pending, shown>>
=============================================================================
