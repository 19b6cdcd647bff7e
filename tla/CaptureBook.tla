---------------------------- MODULE CaptureBook ----------------------------
(***************************************************************************)
(* The shell's control of meetings implements MeetingBook: a meeting is    *)
(* open from the START its link sends to the END that link sends.          *)
(***************************************************************************)
EXTENDS CaptureControl

Book == INSTANCE MeetingBook WITH
  book <- [m \in Meetings |->
             IF m \in ended THEN "ended" ELSE IF m \in opened THEN "open" ELSE "new"]

\* Starts, stops, failures, watchers and replaced endpoints, in whatever order
\* they meet, open one meeting at a time, end it once, and never reopen it.
KeepsBook == Book!Spec
=============================================================================
