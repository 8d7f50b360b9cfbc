----------------------------- MODULE SerialLine -----------------------------
(***************************************************************************)
(* What LuxtronikTransport promises its callers, whatever handshakes,      *)
(* desyncs, link losses and cancellations happen behind it: it serves one  *)
(* call at a time and in the order in which they came, only the call that  *)
(* is being served speaks to the controller, and each call ends once.      *)
(***************************************************************************)
EXTENDS Naturals, Sequences

CONSTANTS
  Call,    \* the calls
  Nobody,  \* a null value, not one of them
  Result   \* how a call may end

VARIABLES
  queue,    \* the calls that wait, in the order they came
  current,  \* the call that is being served
  result,   \* how each call ended, or "none"
  speaker   \* the call that has sent the last frame

vars == <<queue, current, result, speaker>>

Init ==
  /\ queue = <<>> /\ current = Nobody /\ speaker = Nobody
  /\ result = [c \in Call |-> "none"]

Waiting(c) == \E i \in DOMAIN queue : queue[i] = c

\* A new call is served at once or waits.
Submit(c) ==
  /\ result[c] = "none" /\ c # current /\ ~Waiting(c)
  /\ IF current = Nobody
     THEN current' = c /\ queue' = queue
     ELSE current' = current /\ queue' = Append(queue, c)
  /\ UNCHANGED <<result, speaker>>

\* The call that is being served sends a frame.
Speak ==
  /\ current # Nobody /\ speaker' = current
  /\ UNCHANGED <<queue, current, result>>

\* It ends, perhaps with a last frame, and the next is served.
End(r) ==
  /\ current # Nobody /\ result[current] = "none"
  /\ result' = [result EXCEPT ![current] = r]
  /\ speaker' \in {speaker, current}
  /\ IF queue = <<>>
     THEN current' = Nobody /\ queue' = queue
     ELSE current' = Head(queue) /\ queue' = Tail(queue)

\* A call that waits is cancelled.
GiveUp(i) ==
  /\ result[queue[i]] = "none"
  /\ result' = [result EXCEPT ![queue[i]] = "cancelled"]
  /\ queue' = SubSeq(queue, 1, i - 1) \o SubSeq(queue, i + 1, Len(queue))
  /\ UNCHANGED <<current, speaker>>

Next ==
  \/ \E c \in Call : Submit(c)
  \/ Speak
  \/ \E r \in Result : End(r)
  \/ \E i \in DOMAIN queue : GiveUp(i)

Spec == Init /\ [][Next]_vars
=============================================================================
