--------------------------- MODULE SlidingWindow ---------------------------
(***************************************************************************)
(* The limiter as it is meant, with nothing to forget and nothing to keep  *)
(* small: whoever asks under a key is let through when fewer than Limit    *)
(* were let through under it in the Window that ends now.                  *)
(***************************************************************************)
EXTENDS WallClock, FiniteSets

CONSTANTS Requests, Keys, Limit, Window

VARIABLE verdict   \* What each request was told, under which key, and when.

windowVars == <<clock, verdict>>

Unanswered == [said |-> "nothing"]

Init ==
  /\ clock = 0
  /\ verdict = [r \in Requests |-> Unanswered]

Through(k) ==
  {r \in Requests : verdict[r].said = "yes" /\ verdict[r].key = k}

Recent(k) == {r \in Through(k) : clock - verdict[r].at <= Window}

Answer(r, k) ==
  /\ verdict[r] = Unanswered
  /\ verdict' = [verdict EXCEPT ![r] =
       [said |-> IF Cardinality(Recent(k)) < Limit THEN "yes" ELSE "no",
        key |-> k, at |-> clock]]
  /\ UNCHANGED clock

Tick == ClockAdvances /\ UNCHANGED verdict

Next == Tick \/ \E r \in Requests, k \in Keys : Answer(r, k)

Spec == Init /\ [][Next]_windowVars
=============================================================================
