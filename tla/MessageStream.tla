---------------------------- MODULE MessageStream ----------------------------
(***************************************************************************)
(* What a connection of the TCP chats promises its users: the receiving    *)
(* terminal shows the messages sent, each once, whole and in order.  Only  *)
(* the last message of a writer that ended while writing it may come out   *)
(* cut.  Once a length has been misread (harmed) nothing is promised.      *)
(***************************************************************************)
EXTENDS Naturals, Sequences

CONSTANT Message

VARIABLES
    sent,     \* messages handed to Writen
    printed,  \* messages printed by the listener
    open,     \* is the writer there?
    harmed    \* has a length been misread?

vars == <<sent, printed, open, harmed>>

Init == sent = <<>> /\ printed = <<>> /\ open = TRUE /\ harmed = FALSE

Send ==
    /\ open
    /\ \E m \in Message : sent' = Append(sent, m)
    /\ UNCHANGED <<printed, open, harmed>>

Close == open /\ open' = FALSE /\ UNCHANGED <<sent, printed, harmed>>

Deliver ==
    /\ ~harmed /\ Len(printed) < Len(sent)
    /\ printed' = Append(printed, sent[Len(printed) + 1])
    /\ UNCHANGED <<sent, open, harmed>>

(* printed grows by one message, whatever it is.                           *)
PrintsSomething ==
    /\ Len(printed') = Len(printed) + 1
    /\ printed = SubSeq(printed', 1, Len(printed))

(* The last message, cut.                                                  *)
PrintCut ==
    /\ ~harmed /\ ~open /\ Len(printed) + 1 = Len(sent)
    /\ PrintsSomething
    /\ UNCHANGED <<sent, open, harmed>>

Misread == ~harmed /\ harmed' = TRUE /\ UNCHANGED <<sent, printed, open>>

PrintAnything == harmed /\ PrintsSomething /\ UNCHANGED <<sent, open, harmed>>

Next == Send \/ Close \/ Deliver \/ PrintCut \/ Misread \/ PrintAnything

Spec == Init /\ [][Next]_vars
=============================================================================
