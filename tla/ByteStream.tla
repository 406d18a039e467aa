----------------------------- MODULE ByteStream -----------------------------
(***************************************************************************)
(* What one direction of a relayed connection promises, without tasks,     *)
(* frames, windows or a cipher: the receiver gets the bytes in the order   *)
(* they were sent, some at a time, none twice and none left out; once the  *)
(* direction is over it stays so and nothing more arrives.  What has been  *)
(* sent and has not arrived by then is lost.  Bytes are numbered in the    *)
(* order they are sent.                                                    *)
(***************************************************************************)
EXTENDS Naturals, Sequences

VARIABLES
  sent,  \* how many bytes were sent
  got,   \* the bytes that arrived
  open   \* whether more may arrive

vars == <<sent, got, open>>

Init == sent = 0 /\ got = << >> /\ open = TRUE

Send == sent' = sent + 1 /\ UNCHANGED <<got, open>>

Arrive ==
  /\ open
  /\ \E n \in 1 .. sent - Len(got) : got' = got \o [i \in 1 .. n |-> Len(got) + i]
  /\ UNCHANGED <<sent, open>>

End == open /\ open' = FALSE /\ UNCHANGED <<sent, got>>

Next == Send \/ Arrive \/ End

Spec == Init /\ [][Next]_vars
=============================================================================
