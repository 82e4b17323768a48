---------------------------- MODULE SessionLease ----------------------------
(***************************************************************************)
(* What the lobby promises of a session, with nothing said of connections  *)
(* that come and go, of player counts or of the server's loop: a session   *)
(* is a lease.  It is held by one connection, which keeps it by renewing   *)
(* it; a lease not renewed for ActiveTTL ticks, or whose holder is lost,   *)
(* is orphaned and can be taken over; a lease orphaned for GraceTTL ticks  *)
(* is given up.  A held lease is never given up without that grace, except *)
(* when the lobby closes.  LobbyServer implements this specification.      *)
(***************************************************************************)
EXTENDS Integers

CONSTANTS
  Key,        \* the leases
  Holder,     \* who may hold one
  Nobody,     \* not a holder
  ActiveTTL,  \* ticks a held lease lasts without renewal
  GraceTTL    \* ticks an orphaned lease lasts

VARIABLES
  open,       \* is the lobby open?
  phase,      \* "vacant", "held" or "orphaned", for each lease
  holder,     \* its holder, or Nobody
  age         \* ticks since it was renewed (held) or orphaned

vars == <<open, phase, holder, age>>

TTL(k) == IF phase[k] = "held" THEN ActiveTTL ELSE GraceTTL

Overdue == {k \in Key : phase[k] # "vacant" /\ age[k] > TTL(k)}

Init ==
  /\ open = FALSE
  /\ phase = [k \in Key |-> "vacant"]
  /\ holder = [k \in Key |-> Nobody]
  /\ age = [k \in Key |-> 0]

\* The lobby opens with no lease, and gives all of them up when it closes.
Open ==
  /\ ~open
  /\ open' = TRUE
  /\ UNCHANGED <<phase, holder, age>>

Close ==
  /\ open
  /\ open' = FALSE
  /\ phase' = [k \in Key |-> "vacant"]
  /\ holder' = [k \in Key |-> Nobody]
  /\ age' = [k \in Key |-> 0]

Take(k, h) ==
  /\ open
  /\ phase' = [phase EXCEPT ![k] = "held"]
  /\ holder' = [holder EXCEPT ![k] = h]
  /\ age' = [age EXCEPT ![k] = 0]
  /\ UNCHANGED open

Renew(k) ==
  /\ phase[k] = "held"
  /\ age' = [age EXCEPT ![k] = 0]
  /\ UNCHANGED <<open, phase, holder>>

Orphan(k) ==
  /\ phase[k] # "vacant"
  /\ phase' = [phase EXCEPT ![k] = "orphaned"]
  /\ holder' = [holder EXCEPT ![k] = Nobody]
  /\ age' = [age EXCEPT ![k] = 0]
  /\ UNCHANGED open

\* Every overdue lease moves one phase on.
Sweep ==
  /\ Overdue # {}
  /\ phase' = [k \in Key |-> IF k \notin Overdue THEN phase[k]
                             ELSE IF phase[k] = "held" THEN "orphaned" ELSE "vacant"]
  /\ holder' = [k \in Key |-> IF k \in Overdue THEN Nobody ELSE holder[k]]
  /\ age' = [k \in Key |-> IF k \in Overdue THEN 0 ELSE age[k]]
  /\ UNCHANGED open

\* An age past its TTL has nothing more to say, and stays.
Tick ==
  /\ age' = [k \in Key |-> IF phase[k] = "vacant" \/ k \in Overdue
                           THEN age[k] ELSE age[k] + 1]
  /\ UNCHANGED <<open, phase, holder>>

Next ==
  \/ Open
  \/ Close
  \/ \E k \in Key, h \in Holder : Take(k, h)
  \/ \E k \in Key : Renew(k) \/ Orphan(k)
  \/ Sweep
  \/ Tick

Spec == Init /\ [][Next]_vars

\* Time passes, and overdue leases are swept.
FairSpec == Spec /\ WF_vars(Tick) /\ WF_vars(Sweep)
=============================================================================
