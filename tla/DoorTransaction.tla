---------------------------- MODULE DoorTransaction ----------------------------
(***************************************************************************)
(* What a customer and the cabinet are promised about a door visit, with   *)
(* no registry, queue, worker or clock: triggers are accepted as work or   *)
(* put straight into the basket, work ends in the basket or is dismissed,  *)
(* and a visit is billed once, with everything in the basket, when no work *)
(* is left.  Goods put in outside a visit may be written off, but never    *)
(* during one.                                                             *)
(***************************************************************************)
EXTENDS Naturals

CONSTANTS Trigger, Visits

VARIABLES open, visit, work, basket, ledger

vars == <<open, visit, work, basket, ledger>>

Fresh(s) == s \notin work \cup basket /\ \A v \in Visits : s \notin ledger[v]

Init ==
  /\ open = FALSE
  /\ visit = 0
  /\ work = {}
  /\ basket = {}
  /\ ledger = [v \in Visits |-> {}]

Open ==
  /\ ~open
  /\ visit + 1 \in Visits
  /\ open' = TRUE
  /\ visit' = visit + 1
  /\ UNCHANGED <<work, basket, ledger>>

Accept(s) ==
  /\ Fresh(s)
  /\ work' = work \cup {s}
  /\ UNCHANGED <<open, visit, basket, ledger>>

Dismiss(s) ==
  /\ s \in work
  /\ work' = work \ {s}
  /\ UNCHANGED <<open, visit, basket, ledger>>

WrittenOff == IF open THEN {{}} ELSE SUBSET basket

\* Finished work, or a trigger that needs none, joins the basket.
Put(s) ==
  /\ s \in work \/ Fresh(s)
  /\ work' = work \ {s}
  /\ \E gone \in WrittenOff : basket' = (basket \ gone) \cup {s}
  /\ UNCHANGED <<open, visit, ledger>>

WriteOff ==
  /\ \E gone \in WrittenOff : basket' = basket \ gone
  /\ UNCHANGED <<open, visit, work, ledger>>

Bill ==
  /\ open
  /\ work = {}
  /\ ledger' = [ledger EXCEPT ![visit] = basket]
  /\ basket' = {}
  /\ open' = FALSE
  /\ UNCHANGED <<visit, work>>

Next ==
  \/ Open \/ WriteOff \/ Bill
  \/ \E s \in Trigger : Accept(s) \/ Dismiss(s) \/ Put(s)

Spec == Init /\ [][Next]_vars

=============================================================================
