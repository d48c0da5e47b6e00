----------------------------- MODULE DurableStore -----------------------------
(***************************************************************************)
(* What the storage engine promises its callers: a map from keys to values *)
(* in which an acknowledged update is never lost.  An update that reached  *)
(* the file without being acknowledged (it returned an error, or the       *)
(* process died first) may show up at a later restart, any time until a    *)
(* later update of the same key is acknowledged, and never disappears once *)
(* it has shown.                                                           *)
(***************************************************************************)
EXTENDS FiniteSets

CONSTANTS Keys, Values, None

VARIABLES
  store,   \* what a read of each key answers
  limbo    \* values in doubt, per key

vars == <<store, limbo>>

Possible == Values \cup {None}

Init ==
  /\ store = [k \in Keys |-> None]
  /\ limbo = [k \in Keys |-> {}]

\* Updates of some keys reach the file.
Attempt ==
  /\ \A k \in Keys : limbo[k] \subseteq limbo'[k] /\ limbo'[k] \subseteq Possible
  /\ UNCHANGED store

\* A batch over K is acknowledged: each of its keys takes a value in doubt, and
\* nothing about it is in doubt any more.
Acknowledge(K) ==
  /\ \A k \in K : store'[k] \in limbo[k]
  /\ store' = [k \in Keys |-> IF k \in K THEN store'[k] ELSE store[k]]
  /\ limbo' = [k \in Keys |-> IF k \in K THEN {} ELSE limbo[k]]

\* The file is opened again.
Restart ==
  /\ \A k \in Keys : store'[k] \in {store[k]} \cup limbo[k]
  /\ store' = [k \in Keys |-> store'[k]]
  /\ UNCHANGED limbo

Next == Attempt \/ (\E K \in SUBSET Keys : Acknowledge(K)) \/ Restart

Spec == Init /\ [][Next]_vars
=============================================================================
