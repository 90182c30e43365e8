--------------------------- MODULE OrderedOutput ---------------------------
(***************************************************************************)
(* What a reader of a capture may expect of its output: the packets, one   *)
(* after the other and none left out, never more than were asked for, and  *)
(* an end that comes when all of them are shown, unless there is an excuse *)
(* for ending before.                                                      *)
(***************************************************************************)
EXTENDS Naturals, Sequences

VARIABLES
  input,   \* the packets there are
  limit,   \* how many to show at most
  output,  \* those shown
  over,    \* nothing will follow
  excused  \* someone or something asked for an early end

Init == output = << >> /\ ~over

Show ==
  /\ ~over
  /\ Len(output) < limit
  /\ Len(output) < Len(input)
  /\ output' = Append(output, input[Len(output) + 1])
  /\ UNCHANGED <<input, limit, over>>

Finish ==
  /\ ~over
  /\ excused' \/ Len(output) = Len(input)
  /\ over' = TRUE
  /\ UNCHANGED <<input, limit, output>>

Excuse == ~excused /\ excused' = TRUE /\ UNCHANGED <<input, limit, output, over>>

Next == Show \/ Finish \/ Excuse

Spec == Init /\ [][Next]_<<input, limit, output, over, excused>>
=============================================================================
