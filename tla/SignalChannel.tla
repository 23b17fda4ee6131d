---------------------------- MODULE SignalChannel ----------------------------
(***************************************************************************)
(* What the library promises about the signals of BlueZ: while the         *)
(* connection is open they reach the handlers one at a time, in the order  *)
(* they were sent, each once and none skipped.  After the receiver has     *)
(* closed nothing is delivered any more and the rest may be thrown away.   *)
(***************************************************************************)
EXTENDS Naturals, Sequences

VARIABLES sent,        \* how many signals have been sent: they are numbered 1, 2, ...
          pending,     \* the signals sent and not yet delivered
          delivered,   \* the signals delivered, in the order of their delivery
          open         \* FALSE once the receiver has closed

vars == <<sent, pending, delivered, open>>

Init ==
    /\ sent = 0
    /\ pending = <<>>
    /\ delivered = <<>>
    /\ open = TRUE

Send ==
    /\ sent' = sent + 1
    /\ pending' = Append(pending, sent + 1)
    /\ UNCHANGED <<delivered, open>>

Deliver ==
    /\ open
    /\ pending # <<>>
    /\ delivered' = Append(delivered, Head(pending))
    /\ pending' = Tail(pending)
    /\ UNCHANGED <<sent, open>>

Close ==
    /\ open' = FALSE
    /\ UNCHANGED <<sent, pending, delivered>>

Discard ==
    /\ ~open
    /\ pending # <<>>
    /\ pending' = Tail(pending)
    /\ UNCHANGED <<sent, delivered, open>>

Next == Send \/ Deliver \/ Close \/ Discard

Spec == Init /\ [][Next]_vars
==============================================================================
