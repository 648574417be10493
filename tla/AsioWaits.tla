----------------------------- MODULE AsioWaits -----------------------------
(***************************************************************************)
(* What a user of asio timers may rely on (basic_waitable_timer): a timer  *)
(* has an expiry time and waits; a wait ends once, without an error when   *)
(* the time has come, or aborted when the timer is cancelled or set to a   *)
(* new time before.                                                        *)
(***************************************************************************)
EXTENDS Integers, Sequences

CONSTANTS Timer, Wait

VARIABLES
  now,      \* the clock
  expiry,   \* expiry[t]: when the timer expires
  waits,    \* waits[t]: the waits on it, oldest first
  result    \* result[w]: "new", "waiting", "due", "aborted"

waitVars == << now, expiry, waits, result >>

\* Some waits have been begun, and none has ended.
Init ==
  \A w \in Wait :
    result[w] = IF \E t \in Timer : \E i \in DOMAIN waits[t] : waits[t][i] = w
                THEN "waiting" ELSE "new"

Ended(ws, how) ==
  result' = [w \in Wait |-> IF \E i \in DOMAIN ws : ws[i] = w THEN how ELSE result[w]]

AsyncWait(t, w) ==
  /\ result[w] = "new"
  /\ waits' = [waits EXCEPT ![t] = Append(@, w)]
  /\ result' = [result EXCEPT ![w] = "waiting"]
  /\ UNCHANGED << now, expiry >>

Cancel(t) ==
  /\ waits' = [waits EXCEPT ![t] = << >>]
  /\ Ended(waits[t], "aborted")
  /\ UNCHANGED << now, expiry >>

CancelOne(t) ==
  /\ waits[t] # << >>
  /\ waits' = [waits EXCEPT ![t] = Tail(@)]
  /\ Ended(<< Head(waits[t]) >>, "aborted")
  /\ UNCHANGED << now, expiry >>

ExpiresAt(t) ==
  /\ expiry' = [expiry EXCEPT ![t] = expiry'[t]]
  /\ waits' = [waits EXCEPT ![t] = << >>]
  /\ Ended(waits[t], "aborted")
  /\ UNCHANGED now

\* All timers whose time has come expire, and no others.
Expire ==
  LET due(t) == expiry[t] <= now
  IN  /\ waits' = [t \in Timer |-> IF due(t) THEN << >> ELSE waits[t]]
      /\ result' = [w \in Wait |->
           IF \E t \in Timer : due(t) /\ \E i \in DOMAIN waits[t] : waits[t][i] = w
           THEN "due" ELSE result[w]]
      /\ UNCHANGED << now, expiry >>

Pass == now' > now /\ UNCHANGED << expiry, waits, result >>

Next ==
  \/ \E t \in Timer : Cancel(t) \/ CancelOne(t) \/ ExpiresAt(t)
  \/ \E t \in Timer, w \in Wait : AsyncWait(t, w)
  \/ Expire \/ Pass

Spec == Init /\ [][Next]_waitVars

=============================================================================
