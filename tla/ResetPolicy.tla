----------------------------- MODULE ResetPolicy -----------------------------
(***************************************************************************)
(* The reset budget of a meeting as the documents state it, beside the     *)
(* budget the session keeps (SidecarSession).  The documents let a stream  *)
(* that survived ten seconds reset the counter; ReconnectState is reset    *)
(* where the pump reads a result, and nowhere else.                        *)
(***************************************************************************)
EXTENDS SidecarSession

VARIABLE counted \* counted[p]: the resets of pump p the documents count

policyVars == <<vars, counted>>

PolicyInit == Init /\ counted = <<>>

\* A reset is counted, a result makes the count begin again.
Recount ==
  counted' = [p \in DOMAIN pumps' |->
                IF pumps'[p].barren = 0
                  THEN 0
                  ELSE counted[p] + pumps'[p].barren - pumps[p].barren]

\* The pump has read a running stream for ten seconds.  Keep-alives hold a
\* stream open on which nobody speaks: __anext__ delivers nothing of them, and
\* the session's counter stays.
Survives(p) ==
  LET stream == streams[pumps[p].stream]
  IN  /\ At(p, "reading") /\ ~stream.dead /\ ~stream.closing
      /\ counted' = [counted EXCEPT ![p] = 0]
      /\ UNCHANGED vars

PolicyNext ==
  \/ Next /\ Recount
  \/ \E p \in DOMAIN pumps : Survives(p)

PolicySpec == PolicyInit /\ [][PolicyNext]_policyVars

\* A meeting fails only when its provider was reset more often than the budget
\* allows, without a result and without surviving ten seconds in between.
FailsWithinPolicy ==
  [][\A m \in Meetings :
       (status'[m] = "FAILED" /\ status[m] # "FAILED")
         => \E p \in DOMAIN pumps' :
              pumps'[p].call = m /\ counted'[p] > MaxConsecutive]_policyVars

=============================================================================
