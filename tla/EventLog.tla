------------------------------ MODULE EventLog ------------------------------
(***************************************************************************)
(* What a DOM promises: a log of events that grows at its end, and readers *)
(* that are given the events in the order they were recorded, each of them *)
(* once, and are told that they are at the end only when they are.         *)
(***************************************************************************)
EXTENDS Naturals, Sequences

VARIABLES log,         \* the recorded events
          cursor,      \* how many of them the reader has been given
          given        \* what it was told last

vars == <<log, cursor, given>>

Says(what) == [type |-> what, count |-> 0]

Init == log = <<>> /\ cursor = 0 /\ given = Says("nothing")

Record ==
  /\ Len(log') = Len(log) + 1
  /\ SubSeq(log', 1, Len(log)) = log
  /\ UNCHANGED <<cursor, given>>

Deliver ==
  /\ cursor < Len(log)
  /\ cursor' = cursor + 1
  /\ given' = log[cursor + 1]
  /\ UNCHANGED log

End ==
  /\ cursor = Len(log)
  /\ given' = Says("eof")
  /\ UNCHANGED <<log, cursor>>

(* The reader is stopped.                                                  *)
Stop == given' = Says("error") /\ UNCHANGED <<log, cursor>>

(* Another reader takes its place.                                         *)
Restart ==
  /\ cursor' = 0 /\ given' = Says("nothing")
  /\ UNCHANGED log

Next == Record \/ Deliver \/ End \/ Stop \/ Restart

Spec == Init /\ [][Next]_vars
=============================================================================
