---------------------------- MODULE MeetingBook ----------------------------
(***************************************************************************)
(* What the shell promises the sidecar about meetings: it opens one at a   *)
(* time, ends it before it opens the next, and never opens it again.       *)
(***************************************************************************)
CONSTANT Meetings

VARIABLE book

States == {"new", "open", "ended"}

TypeOK == book \in [Meetings -> States]

Init == book = [m \in Meetings |-> "new"]

Open(m) ==
  /\ book[m] = "new"
  /\ \A other \in Meetings : book[other] # "open"
  /\ book' = [book EXCEPT ![m] = "open"]

End(m) ==
  /\ book[m] = "open"
  /\ book' = [book EXCEPT ![m] = "ended"]

Next == \E m \in Meetings : Open(m) \/ End(m)

Spec == Init /\ [][Next]_book
=============================================================================
