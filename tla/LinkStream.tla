----------------------------- MODULE LinkStream -----------------------------
(***************************************************************************)
(* The link client implements AudioStream.  It holds the backlog, the      *)
(* frames it is sending, the remainder in the assembler and the chunks     *)
(* still in the command channel.                                           *)
(***************************************************************************)
EXTENDS LinkClient

OrEmpty(option) == IF option = Nothing THEN <<>> ELSE option

UnitsOf(pcm) == {pcm[i] : i \in 1 .. Len(pcm)}
UnitsIn(frames) == UNION {UnitsOf(frames[i]) : i \in 1 .. Len(frames)}
Chunks(queue) == {i \in 1 .. Len(queue) : queue[i].op = "Chunk"}
UnitsQueued(queue) == UNION {UnitsOf(queue[i].pcm) : i \in Chunks(queue)}

HeldUnits ==
  UnitsIn(OrEmpty(buffer)) \cup UnitsIn(sending) \cup UnitsOf(OrEmpty(assembler))
    \cup UnitsQueued(commands)

HeardUnits == [i \in 1 .. Len(heard) |-> heard[i].unit]

Stream == INSTANCE AudioStream WITH held <- HeldUnits, delivered <- HeardUnits

\* Every step of the client, the caller and the network accepts, loses or
\* delivers audio in order, or leaves it alone: reconnecting, re-buffering a
\* half-sent batch and flushing the backlog never reorder, repeat or invent it.
ImplementsStream == Stream!Spec
=============================================================================
