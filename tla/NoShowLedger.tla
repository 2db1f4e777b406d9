---------------------------- MODULE NoShowLedger ----------------------------
(***************************************************************************)
(* What attendance promises, with no locks, copies, jobs or crashes in     *)
(* sight: a booking changes its status in one step, and in that very step  *)
(* the no-shows of its student are counted anew and the flag follows.      *)
(***************************************************************************)
EXTENDS Integers, FiniteSets

CONSTANTS Bookings, Accounts, AccountOf, Threshold

VARIABLES
  status,
  missed,   \* the bookings whose no-show nobody has corrected
  count,    \* no-shows of each account
  flag      \* accounts whose student owes an explanation

ledgerVars == <<status, missed, count, flag>>

Init ==
  /\ status = [b \in Bookings |-> "BOOKED"]
  /\ missed = {}
  /\ count = [a \in Accounts |-> 0]
  /\ flag = [a \in Accounts |-> FALSE]

\* A booking is settled once; a no-show can still be excused or corrected.
Successors(old) ==
  CASE old = "BOOKED"  -> {"VISITED", "NO_SHOW", "REACCESS", "CANCELLED", "SLOT_CANCELLED"}
    [] old = "NO_SHOW" -> {"REACCESS", "VISITED"}
    [] OTHER           -> {}

\* An excused no-show (REACCESS) stays one, a corrected one (VISITED) does not.
MissedAfter(b, new) ==
  CASE new = "NO_SHOW" -> missed \union {b}
    [] new = "VISITED" -> missed \ {b}
    [] OTHER           -> missed

Settle(b, new) ==
  /\ new \in Successors(status[b])
  /\ status' = [status EXCEPT ![b] = new]
  /\ missed' = MissedAfter(b, new)
  /\ count' = [a \in Accounts |-> Cardinality({x \in missed' : AccountOf[x] = a})]
  /\ flag' = [a \in Accounts |->
       IF count'[a] = count[a] THEN flag[a] ELSE count'[a] >= Threshold]

\* The explanation is there; the no-shows stay.
Explain(a) ==
  /\ flag[a]
  /\ flag' = [flag EXCEPT ![a] = FALSE]
  /\ UNCHANGED <<status, missed, count>>

Next ==
  \/ \E b \in Bookings : \E new \in Successors(status[b]) : Settle(b, new)
  \/ \E a \in Accounts : Explain(a)

Spec == Init /\ [][Next]_ledgerVars

=============================================================================
