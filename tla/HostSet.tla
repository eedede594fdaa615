------------------------------- MODULE HostSet -------------------------------
(***************************************************************************)
(* HostSet: a renter-host session for each host, connected when it is      *)
(* first needed, handed to one goroutine at a time through a tryLock,      *)
(* reconnected when it is found closed or has been quiet for too long, and *)
(* torn down by Close.  Every goroutine uses one session at a time.        *)
(***************************************************************************)
EXTENDS Naturals

CONSTANTS
  Hosts,    \* the hosts that AddHost has been called for
  Workers,  \* the goroutines that acquire sessions
  Nobody    \* no goroutine

ASSUME NobodyAssumption == Nobody \notin Workers

VARIABLES
  sessions,  \* the keys of the sessions map
  mu,        \* the tokens in the channel of each host's tryLock, 0 or 1
  s,         \* each host's session: "nil", "open", "dead" (open, but the
             \* connection is gone) or "closed"
  recent,    \* the hosts last seen less than two minutes ago
  pc,        \* each goroutine: "idle", "locking", "connecting", "dialing",
             \* "using" or "used"
  at,        \* the host each goroutine is dealing with
  closing    \* whether Close has been called

vars == <<sessions, mu, s, recent, pc, at, closing>>

Init ==
  /\ sessions = Hosts
  /\ mu = [h \in Hosts |-> 1]
  /\ s = [h \in Hosts |-> "nil"]
  /\ recent = {}
  /\ pc = [w \in Workers |-> "idle"]
  /\ at \in [Workers -> Hosts]
  /\ closing = FALSE

Goto(w, label) == pc' = [pc EXCEPT ![w] = label]

-----------------------------------------------------------------------------
(* acquire and tryAcquire.  A host that is not in the set is refused with  *)
(* errNoHost, and tryAcquire refuses one that is locked: the goroutine     *)
(* stays idle.                                                             *)

acquire(w, h) ==
  /\ pc[w] = "idle"
  /\ h \in sessions
  /\ Goto(w, "locking")
  /\ at' = [at EXCEPT ![w] = h]
  /\ UNCHANGED <<sessions, mu, s, recent, closing>>

Lock(w) ==
  /\ pc[w] = "locking"
  /\ mu[at[w]] = 1
  /\ mu' = [mu EXCEPT ![at[w]] = 0]
  /\ Goto(w, "connecting")
  /\ UNCHANGED <<sessions, s, recent, at, closing>>

tryAcquire(w, h) ==
  /\ pc[w] = "idle"
  /\ h \in sessions
  /\ mu[h] = 1
  /\ mu' = [mu EXCEPT ![h] = 0]
  /\ Goto(w, "connecting")
  /\ at' = [at EXCEPT ![w] = h]
  /\ UNCHANGED <<sessions, s, recent, closing>>

-----------------------------------------------------------------------------
(* reconnect, in the goroutine that holds the lock.                        *)

Believed(h) == s[h] \in {"open", "dead"}

\* Mutant: a session that was seen recently is handed out without a look at it.
AssumeOpenBlindly(w) ==
  /\ pc[w] = "connecting"
  /\ at[w] \in recent
  /\ Goto(w, "using")
  /\ UNCHANGED <<sessions, mu, s, recent, at, closing>>

(* Seen recently: the connection is assumed to be open. *)
AssumeOpen(w) ==
  /\ pc[w] = "connecting"
  /\ Believed(at[w])
  /\ at[w] \in recent
  /\ Goto(w, "using")
  /\ UNCHANGED <<sessions, mu, s, recent, at, closing>>

(* Otherwise a Settings RPC tells; when it fails the session is closed.    *)
Ping(w) ==
  /\ pc[w] = "connecting"
  /\ Believed(at[w])
  /\ at[w] \notin recent
  /\ \/ /\ s[at[w]] = "open"
        /\ recent' = recent \cup {at[w]}
        /\ Goto(w, "using")
        /\ UNCHANGED s
     \/ /\ s' = [s EXCEPT ![at[w]] = "closed"]
        /\ Goto(w, "dialing")
        /\ UNCHANGED recent
  /\ UNCHANGED <<sessions, mu, at, closing>>

MustDial(w) ==
  /\ pc[w] = "connecting"
  /\ ~Believed(at[w])
  /\ Goto(w, "dialing")
  /\ UNCHANGED <<sessions, mu, s, recent, at, closing>>

Dial(w) ==
  /\ pc[w] = "dialing"
  /\ s' = [s EXCEPT ![at[w]] = "open"]
  /\ recent' = recent \cup {at[w]}
  /\ Goto(w, "using")
  /\ UNCHANGED <<sessions, mu, at, closing>>

\* Mutant: a reconnect that fails keeps the lock.
DialErrorLocked(w) ==
  /\ pc[w] = "dialing"
  /\ \E left \in {s[at[w]], "nil", "closed"} : s' = [s EXCEPT ![at[w]] = left]
  /\ Goto(w, "idle")
  /\ UNCHANGED <<sessions, mu, recent, at, closing>>

(* The host key does not resolve (the old session stays), the connection   *)
(* fails (no session), or the Lock or Settings RPC fails (a closed one).   *)
(* acquire gives the lock back.                                            *)
DialError(w) ==
  /\ pc[w] = "dialing"
  /\ \E left \in {s[at[w]], "nil", "closed"} : s' = [s EXCEPT ![at[w]] = left]
  /\ mu' = [mu EXCEPT ![at[w]] = 1]
  /\ Goto(w, "idle")
  /\ UNCHANGED <<sessions, recent, at, closing>>

-----------------------------------------------------------------------------
(* The goroutine calls an RPC of the session; a transport error closes it. *)
Use(w) ==
  /\ pc[w] = "using"
  /\ \/ s[at[w]] = "open" /\ UNCHANGED s
     \/ s' = [s EXCEPT ![at[w]] = "closed"]
  /\ Goto(w, "used")
  /\ UNCHANGED <<sessions, mu, recent, at, closing>>

(* A closed session is forgotten, which forces a reconnect. *)
release(w) ==
  /\ pc[w] = "used"
  /\ s' = [s EXCEPT ![at[w]] = IF @ = "closed" THEN "nil" ELSE @]
  /\ mu' = [mu EXCEPT ![at[w]] = 1]
  /\ Goto(w, "idle")
  /\ UNCHANGED <<sessions, recent, at, closing>>

-----------------------------------------------------------------------------
Close ==
  /\ ~closing
  /\ closing' = TRUE
  /\ UNCHANGED <<sessions, mu, s, recent, pc, at>>

\* Mutant: Close does not keep the locks it takes.
CloseHostReleasing(h) ==
  /\ closing
  /\ h \in sessions
  /\ mu[h] = 1
  /\ s' = [s EXCEPT ![h] = "nil"]
  /\ sessions' = sessions \ {h}
  /\ UNCHANGED <<mu, recent, pc, at, closing>>

\* Mutant: Close forgets the host and leaves its session open.
CloseHostLeaving(h) ==
  /\ closing
  /\ h \in sessions
  /\ mu[h] = 1
  /\ mu' = [mu EXCEPT ![h] = 0]
  /\ sessions' = sessions \ {h}
  /\ UNCHANGED <<s, recent, pc, at, closing>>

(* One iteration of Close's loop: it takes the host's lock and keeps it.   *)
CloseHost(h) ==
  /\ closing
  /\ h \in sessions
  /\ mu[h] = 1
  /\ mu' = [mu EXCEPT ![h] = 0]
  /\ s' = [s EXCEPT ![h] = "nil"]
  /\ sessions' = sessions \ {h}
  /\ UNCHANGED <<recent, pc, at, closing>>

(* The network, and time. *)
Disconnect(h) ==
  /\ s[h] = "open"
  /\ s' = [s EXCEPT ![h] = "dead"]
  /\ UNCHANGED <<sessions, mu, recent, pc, at, closing>>

Elapse(h) ==
  /\ h \in recent
  /\ recent' = recent \ {h}
  /\ UNCHANGED <<sessions, mu, s, pc, at, closing>>

Step(w) ==
  \/ Lock(w) \/ AssumeOpen(w) \/ Ping(w) \/ MustDial(w) \/ Dial(w) \/ DialError(w)
  \/ Use(w) \/ release(w)

Next ==
  \/ \E w \in Workers : Step(w) \/ \E h \in Hosts : acquire(w, h) \/ tryAcquire(w, h)
  \/ Close
  \/ \E h \in Hosts : CloseHost(h) \/ Disconnect(h) \/ Elapse(h)

Spec == Init /\ [][Next]_vars

(* RPCs run under deadlines, goroutines run, and a channel serves its      *)
(* receivers in the order they came, so that none waits for ever for a     *)
(* lock that is released again and again.                                  *)
Fairness ==
  /\ \A w \in Workers : WF_vars(Step(w)) /\ SF_vars(Lock(w))
  /\ \A h \in Hosts : SF_vars(CloseHost(h))

FairSpec == Spec /\ Fairness

-----------------------------------------------------------------------------
(* A tryLock's channel holds one token at most, and goroutines are at a     *)
(* point of acquire, reconnect or release.                                 *)
TypeOK ==
  /\ sessions \in SUBSET Hosts
  /\ mu \in [Hosts -> {0, 1}]
  /\ s \in [Hosts -> {"nil", "open", "dead", "closed"}]
  /\ recent \in SUBSET Hosts
  /\ pc \in [Workers ->
       {"idle", "locking", "connecting", "dialing", "using", "used"}]
  /\ at \in [Workers -> Hosts]
  /\ closing \in BOOLEAN

Holds(w, h) == at[w] = h /\ pc[w] \in {"connecting", "dialing", "using", "used"}

(* proto.Session is not safe for concurrent use: no two goroutines hold    *)
(* the session of one host.                                                *)
MutualExclusion ==
  \A v, w \in Workers, h \in Hosts : Holds(v, h) /\ Holds(w, h) => v = w

(* acquire hands out a session that is not known to be closed, and neither *)
(* Close nor another goroutine takes it away: release never finds nil.     *)
SessionHeld ==
  \A w \in Workers :
    /\ pc[w] = "using" => Believed(at[w])
    /\ pc[w] = "used" => s[at[w]] # "nil"

(* What HostLocks calls lent is what the goroutine holds. *)
Lent(h) == {w \in Workers : Holds(w, h)}
User == [h \in Hosts |-> IF Lent(h) = {} THEN Nobody ELSE CHOOSE w \in Lent(h) : TRUE]

Locks == INSTANCE HostLocks WITH user <- User, shut <- Hosts \ sessions

(* HostSet implements HostLocks. *)
LocksSpec == Locks!Spec

(* A goroutine that asks for a host gets an answer, unless the set is being *)
(* closed: Close keeps the locks it takes.                                 *)
AcquireReturns ==
  \A w \in Workers : pc[w] # "idle" ~> pc[w] = "idle" \/ closing

(* Close ends, and leaves no session behind. *)
CloseReturns == closing ~> sessions = {} /\ \A h \in Hosts : s[h] = "nil"
=============================================================================
