-------------------------- MODULE BoundedStaleness --------------------------
(* What a point lookup promises its caller, however it is cached: it fails,  *)
(* or it returns what 1C held for the key at an instant that lies no more    *)
(* than Staleness before the call.                                           *)
EXTENDS Integers

CONSTANTS Key, Thread, Staleness, MaxClock

VARIABLES clock,   \* the present instant
          busy,    \* the threads inside a lookup
          asked,   \* asked[t]: the instant at which t called, 0 outside a call
          result   \* result[t]: the instant whose content the last call of t returned

vars == <<clock, busy, asked, result>>

\* The call failed, or there is none that has returned.
Nothing == -1
Instants == 0..MaxClock

Init ==
  /\ clock = 0
  /\ busy = {}
  /\ asked = [t \in Thread |-> 0]
  /\ result = [t \in Thread |-> Nothing]

Tick == clock < MaxClock /\ clock' = clock + 1 /\ UNCHANGED <<busy, asked, result>>

Call(t) ==
  /\ t \notin busy
  /\ busy' = busy \cup {t}
  /\ asked' = [asked EXCEPT ![t] = clock]
  /\ result' = [result EXCEPT ![t] = Nothing]
  /\ UNCHANGED clock

Return(t) ==
  /\ t \in busy
  /\ busy' = busy \ {t}
  /\ \E instant \in Instants :
       /\ asked[t] - Staleness <= instant /\ instant <= clock
       /\ result' = [result EXCEPT ![t] = instant]
  /\ asked' = [asked EXCEPT ![t] = 0]
  /\ UNCHANGED clock

Fail(t) ==
  /\ t \in busy
  /\ busy' = busy \ {t}
  /\ result' = [result EXCEPT ![t] = Nothing]
  /\ asked' = [asked EXCEPT ![t] = 0]
  /\ UNCHANGED clock

Next == Tick \/ \E t \in Thread : Call(t) \/ Return(t) \/ Fail(t)

Spec == Init /\ [][Next]_vars
=============================================================================
