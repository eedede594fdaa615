------------------------------ MODULE HostLocks ------------------------------
(***************************************************************************)
(* What a HostSet promises the strategies that use it, with sessions and   *)
(* connections left out: each host is lent to one goroutine at a time, a   *)
(* goroutine gives back what it was lent, and a closed set lends nothing.  *)
(***************************************************************************)
CONSTANTS Hosts, Workers, Nobody

VARIABLES
  user,   \* the goroutine each host is lent to, or Nobody
  shut    \* the hosts that Close has removed

vars == <<user, shut>>

Init ==
  /\ user = [h \in Hosts |-> Nobody]
  /\ shut = {}

Borrow(w, h) ==
  /\ user[h] = Nobody
  /\ h \notin shut
  /\ \A g \in Hosts : user[g] # w
  /\ user' = [user EXCEPT ![h] = w]
  /\ UNCHANGED shut

GiveBack(w, h) ==
  /\ user[h] = w
  /\ user' = [user EXCEPT ![h] = Nobody]
  /\ UNCHANGED shut

Shut(h) ==
  /\ user[h] = Nobody
  /\ shut' = shut \cup {h}
  /\ UNCHANGED user

Next ==
  \E h \in Hosts :
    \/ \E w \in Workers : Borrow(w, h) \/ GiveBack(w, h)
    \/ Shut(h)

Spec == Init /\ [][Next]_vars
=============================================================================
