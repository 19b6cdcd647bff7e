----------------------------- MODULE AudioStream ----------------------------
(***************************************************************************)
(* What the link promises its caller about audio, whatever the network     *)
(* does: units are accepted in capture order, any of them may be lost on   *)
(* the way, and the ones that arrive do so in order and once.  A unit is   *)
(* its place in the capture, so the units on the way are a set.            *)
(***************************************************************************)
EXTENDS Naturals, Sequences

VARIABLES
  held,      \* accepted, neither lost nor delivered yet
  delivered  \* everything that arrived, oldest first

vars == <<held, delivered>>

Init == held = {} /\ delivered = <<>>

\* The caller passes some units more, newer than any it passed before.
Accept ==
  LET new == held' \ held
  IN  /\ held \subseteq held' /\ new # {}
      /\ \A n \in new : (\A u \in held : u < n)
                        /\ \A i \in 1 .. Len(delivered) : delivered[i] < n
      /\ \A a, b \in new : a .. b \subseteq new
      /\ UNCHANGED delivered

\* Any of the held units may go.
Lose == held' \subseteq held /\ UNCHANGED delivered

\* The oldest of the held units arrive, in order.
Deliver ==
  LET n == Len(delivered)
      next == n + 1 .. Len(delivered')
      arrived == {delivered'[i] : i \in next}
  IN  /\ Len(delivered') > n
      /\ \A i \in 1 .. n : delivered'[i] = delivered[i]
      /\ \A i, j \in next : i < j => delivered'[i] < delivered'[j]
      /\ arrived \subseteq held /\ held' = held \ arrived
      /\ \A a \in arrived : \A u \in held' : a < u

Next == Accept \/ Lose \/ Deliver

Spec == Init /\ [][Next]_vars
=============================================================================
