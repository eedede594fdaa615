---------------------------- MODULE HostSetProofs ----------------------------
(***************************************************************************)
(* For every set of hosts and goroutines: a session has one user, it is    *)
(* there while it is used, and HostSet implements HostLocks.               *)
(***************************************************************************)
EXTENDS HostSet, TLAPS

(* The token is in the channel only while nobody holds the host, and Close *)
(* keeps the tokens of the hosts it removed.                               *)
TokenInv ==
  \A h \in Hosts :
    /\ mu[h] = 1 => \A w \in Workers : ~Holds(w, h)
    /\ h \notin sessions => mu[h] = 0 /\ \A w \in Workers : ~Holds(w, h)

IInv ==
  /\ TypeOK
  /\ MutualExclusion
  /\ TokenInv
  /\ SessionHeld

LEMMA InitInv == Init => IInv
  BY DEF Init, IInv, TypeOK, MutualExclusion, TokenInv, SessionHeld, Holds

(* Steps that change neither who holds what nor the sessions. *)
LEMMA Untouched ==
  ASSUME IInv, TypeOK', mu' = mu, sessions' = sessions, s' = s,
         \A w \in Workers, h \in Hosts : Holds(w, h)' <=> Holds(w, h),
         \A w \in Workers : pc'[w] \in {"using", "used"} =>
                              (pc[w] = pc'[w] /\ at'[w] = at[w])
  PROVE  IInv'
  BY DEF IInv, MutualExclusion, TokenInv, SessionHeld, Believed

LEMMA AcquireStep ==
  ASSUME IInv, NEW w \in Workers, NEW h \in Hosts, acquire(w, h)
  PROVE  IInv'
  <1>1. TypeOK' BY DEF IInv, TypeOK, acquire, Goto
  <1>2. \A v \in Workers, g \in Hosts : Holds(v, g)' <=> Holds(v, g)
    BY DEF IInv, TypeOK, acquire, Goto, Holds
  <1>3. \A v \in Workers : pc'[v] \in {"using", "used"} =>
                             (pc[v] = pc'[v] /\ at'[v] = at[v])
    BY DEF IInv, TypeOK, acquire, Goto
  <1> QED BY <1>1, <1>2, <1>3, Untouched DEF acquire

(* Taking the token of a free host. *)
LEMMA TakeToken ==
  ASSUME IInv, NEW w \in Workers, NEW h \in Hosts,
         mu[h] = 1, mu' = [mu EXCEPT ![h] = 0],
         pc[w] \in {"idle", "locking"},
         pc' = [pc EXCEPT ![w] = "connecting"],
         at' = [at EXCEPT ![w] = h],
         UNCHANGED <<sessions, s, recent, closing>>
  PROVE  IInv'
  <1>1. TypeOK' BY DEF IInv, TypeOK
  <1>2. \A v \in Workers, g \in Hosts :
          Holds(v, g)' <=> (IF v = w THEN g = h ELSE Holds(v, g))
    BY DEF IInv, TypeOK, Holds
  <1>3. \A v \in Workers : ~Holds(v, h) BY DEF IInv, TokenInv
  <1>4. MutualExclusion' BY <1>2, <1>3 DEF IInv, MutualExclusion
  <1>5. h \in sessions BY DEF IInv, TokenInv
  <1>6. TokenInv'
    BY <1>2, <1>3, <1>5 DEF IInv, TypeOK, TokenInv
  <1>7. SessionHeld' BY DEF IInv, TypeOK, SessionHeld, Believed
  <1> QED BY <1>1, <1>4, <1>6, <1>7 DEF IInv

LEMMA LockStep ==
  ASSUME IInv, NEW w \in Workers, Lock(w)
  PROVE  IInv'
  <1>1. at[w] \in Hosts /\ at' = [at EXCEPT ![w] = at[w]]
    BY DEF IInv, TypeOK, Lock
  <1> QED BY <1>1, TakeToken DEF Lock, Goto

LEMMA TryAcquireStep ==
  ASSUME IInv, NEW w \in Workers, NEW h \in Hosts, tryAcquire(w, h)
  PROVE  IInv'
  BY TakeToken DEF tryAcquire, Goto

(* A step of the goroutine that holds a host, on the session of that host. *)
LEMMA HolderStep ==
  ASSUME IInv, NEW w \in Workers,
         pc[w] \in {"connecting", "dialing", "using", "used"},
         NEW l \in {"connecting", "dialing", "using", "used"},
         NEW x \in {"nil", "open", "dead", "closed"},
         pc' = [pc EXCEPT ![w] = l],
         s' = [s EXCEPT ![at[w]] = x],
         l = "using" => x \in {"open", "dead"},
         l = "used" => x # "nil",
         recent' \in SUBSET Hosts,
         UNCHANGED <<sessions, mu, at, closing>>
  PROVE  IInv'
  <1>1. TypeOK' BY DEF IInv, TypeOK
  <1>2. \A v \in Workers, g \in Hosts : Holds(v, g)' <=> Holds(v, g)
    BY DEF IInv, TypeOK, Holds
  <1>3. MutualExclusion' /\ TokenInv'
    BY <1>2 DEF IInv, MutualExclusion, TokenInv
  <1>4. SessionHeld'
    <2> SUFFICES ASSUME NEW v \in Workers
                 PROVE  /\ pc'[v] = "using" => s'[at[v]] \in {"open", "dead"}
                        /\ pc'[v] = "used" => s'[at[v]] # "nil"
      BY DEF SessionHeld, Believed
    <2>1. CASE v = w BY <2>1 DEF IInv, TypeOK
    <2>2. CASE v # w
      <3>1. pc'[v] = pc[v] BY <2>2 DEF IInv, TypeOK
      <3>2. pc[v] \in {"using", "used"} => at[v] # at[w]
        BY <2>2 DEF IInv, TypeOK, MutualExclusion, Holds
      <3> QED BY <3>1, <3>2 DEF IInv, TypeOK, SessionHeld, Believed
    <2> QED BY <2>1, <2>2
  <1> QED BY <1>1, <1>3, <1>4 DEF IInv

LEMMA AssumeOpenStep ==
  ASSUME IInv, NEW w \in Workers, AssumeOpen(w)
  PROVE  IInv'
  <1>1. s' = [s EXCEPT ![at[w]] = s[at[w]]] BY DEF IInv, TypeOK, AssumeOpen
  <1> QED BY <1>1, HolderStep DEF AssumeOpen, Goto, Believed, IInv, TypeOK

LEMMA PingStep ==
  ASSUME IInv, NEW w \in Workers, Ping(w)
  PROVE  IInv'
  <1>0. at[w] \in Hosts /\ recent \in SUBSET Hosts BY DEF IInv, TypeOK
  <1>1. CASE s[at[w]] = "open" /\ recent' = recent \cup {at[w]}
             /\ Goto(w, "using") /\ UNCHANGED s
    <2>1. s' = [s EXCEPT ![at[w]] = "open"] BY <1>1 DEF IInv, TypeOK
    <2> QED BY <1>0, <1>1, <2>1, HolderStep DEF Ping, Goto
  <1>2. CASE s' = [s EXCEPT ![at[w]] = "closed"] /\ Goto(w, "dialing")
             /\ UNCHANGED recent
    BY <1>0, <1>2, HolderStep DEF Ping, Goto
  <1> QED BY <1>1, <1>2 DEF Ping

LEMMA MustDialStep ==
  ASSUME IInv, NEW w \in Workers, MustDial(w)
  PROVE  IInv'
  <1>1. s' = [s EXCEPT ![at[w]] = s[at[w]]] BY DEF IInv, TypeOK, MustDial
  <1> QED BY <1>1, HolderStep DEF MustDial, Goto, IInv, TypeOK

LEMMA DialStep ==
  ASSUME IInv, NEW w \in Workers, Dial(w)
  PROVE  IInv'
  <1>1. recent' \in SUBSET Hosts BY DEF IInv, TypeOK, Dial
  <1> QED BY <1>1, HolderStep DEF Dial, Goto

LEMMA UseStep ==
  ASSUME IInv, NEW w \in Workers, Use(w)
  PROVE  IInv'
  <1>0. recent' \in SUBSET Hosts BY DEF IInv, TypeOK, Use
  <1>1. CASE s[at[w]] = "open" /\ UNCHANGED s
    <2>1. s' = [s EXCEPT ![at[w]] = "open"] BY <1>1 DEF IInv, TypeOK
    <2> QED BY <1>0, <2>1, HolderStep DEF Use, Goto
  <1>2. CASE s' = [s EXCEPT ![at[w]] = "closed"]
    BY <1>0, <1>2, HolderStep DEF Use, Goto
  <1> QED BY <1>1, <1>2 DEF Use

(* Giving the token back. *)
LEMMA ReturnToken ==
  ASSUME IInv, NEW w \in Workers,
         pc[w] \in {"connecting", "dialing", "using", "used"},
         NEW x \in {"nil", "open", "dead", "closed"},
         pc' = [pc EXCEPT ![w] = "idle"],
         s' = [s EXCEPT ![at[w]] = x],
         mu' = [mu EXCEPT ![at[w]] = 1],
         UNCHANGED <<sessions, recent, at, closing>>
  PROVE  IInv'
  <1>1. TypeOK' BY DEF IInv, TypeOK
  <1>2. \A v \in Workers, g \in Hosts :
          Holds(v, g)' <=> (v # w /\ Holds(v, g))
    BY DEF IInv, TypeOK, Holds
  <1>3. MutualExclusion' BY <1>2 DEF IInv, MutualExclusion
  <1>4. Holds(w, at[w]) /\ at[w] \in Hosts BY DEF Holds, IInv, TypeOK
  <1>5. \A v \in Workers : v # w => ~Holds(v, at[w])
    BY <1>4 DEF IInv, MutualExclusion
  <1>6. at[w] \in sessions BY <1>4 DEF IInv, TokenInv
  <1>7. TokenInv' BY <1>2, <1>4, <1>5, <1>6 DEF IInv, TypeOK, TokenInv
  <1>8. SessionHeld'
    <2> SUFFICES ASSUME NEW v \in Workers, v # w, pc[v] \in {"using", "used"}
                 PROVE  s'[at[v]] = s[at[v]] /\ pc'[v] = pc[v]
      BY DEF SessionHeld, Believed, IInv, TypeOK
    <2>1. at[v] # at[w] BY <1>5 DEF Holds
    <2> QED BY <2>1 DEF IInv, TypeOK
  <1> QED BY <1>1, <1>3, <1>7, <1>8 DEF IInv

LEMMA DialErrorStep ==
  ASSUME IInv, NEW w \in Workers, DialError(w)
  PROVE  IInv'
  <1>1. PICK left \in {s[at[w]], "nil", "closed"} : s' = [s EXCEPT ![at[w]] = left]
    BY DEF DialError
  <1>2. left \in {"nil", "open", "dead", "closed"} BY <1>1 DEF IInv, TypeOK
  <1> QED BY <1>1, <1>2, ReturnToken DEF DialError, Goto

LEMMA ReleaseStep ==
  ASSUME IInv, NEW w \in Workers, release(w)
  PROVE  IInv'
  <1> DEFINE x == IF s[at[w]] = "closed" THEN "nil" ELSE s[at[w]]
  <1>1. x \in {"nil", "open", "dead", "closed"} BY DEF IInv, TypeOK
  <1>2. s' = [s EXCEPT ![at[w]] = x] BY DEF release
  <1> HIDE DEF x
  <1> QED BY <1>1, <1>2, ReturnToken DEF release, Goto

LEMMA CloseStep == ASSUME IInv, Close PROVE IInv'
  <1>1. TypeOK' BY DEF IInv, TypeOK, Close
  <1>2. \A v \in Workers, g \in Hosts : Holds(v, g)' <=> Holds(v, g)
    BY DEF Close, Holds
  <1> QED BY <1>1, <1>2, Untouched DEF Close

LEMMA CloseHostStep ==
  ASSUME IInv, NEW h \in Hosts, CloseHost(h)
  PROVE  IInv'
  <1>1. TypeOK' BY DEF IInv, TypeOK, CloseHost
  <1>2. \A v \in Workers, g \in Hosts : Holds(v, g)' <=> Holds(v, g)
    BY DEF CloseHost, Holds
  <1>3. \A v \in Workers : ~Holds(v, h) BY DEF IInv, TokenInv, CloseHost
  <1>4. MutualExclusion' BY <1>2 DEF IInv, MutualExclusion
  <1>5. TokenInv' BY <1>2, <1>3 DEF IInv, TypeOK, TokenInv, CloseHost
  <1>6. SessionHeld'
    <2> SUFFICES ASSUME NEW v \in Workers, pc[v] \in {"using", "used"}
                 PROVE  s'[at[v]] = s[at[v]]
      BY DEF SessionHeld, Believed, IInv, CloseHost
    <2>1. at[v] # h BY <1>3 DEF Holds
    <2> QED BY <2>1 DEF IInv, TypeOK, CloseHost
  <1> QED BY <1>1, <1>4, <1>5, <1>6 DEF IInv

LEMMA DisconnectStep ==
  ASSUME IInv, NEW h \in Hosts, Disconnect(h)
  PROVE  IInv'
  <1>1. TypeOK' BY DEF IInv, TypeOK, Disconnect
  <1>2. MutualExclusion' /\ TokenInv'
    BY DEF IInv, MutualExclusion, TokenInv, Disconnect, Holds
  <1>3. SessionHeld' BY DEF IInv, TypeOK, SessionHeld, Believed, Disconnect
  <1> QED BY <1>1, <1>2, <1>3 DEF IInv

LEMMA ElapseStep ==
  ASSUME IInv, NEW h \in Hosts, Elapse(h)
  PROVE  IInv'
  <1>1. TypeOK' BY DEF IInv, TypeOK, Elapse
  <1>2. \A v \in Workers, g \in Hosts : Holds(v, g)' <=> Holds(v, g)
    BY DEF Elapse, Holds
  <1> QED BY <1>1, <1>2, Untouched DEF Elapse

-----------------------------------------------------------------------------
LEMMA StepInv == ASSUME IInv, [Next]_vars PROVE IInv'
  <1>1. ASSUME NEW w \in Workers, Step(w) PROVE IInv'
    BY <1>1, LockStep, AssumeOpenStep, PingStep, MustDialStep, DialStep,
       DialErrorStep, UseStep, ReleaseStep DEF Step
  <1>2. ASSUME NEW w \in Workers, NEW h \in Hosts, acquire(w, h) \/ tryAcquire(w, h)
        PROVE  IInv'
    BY <1>2, AcquireStep, TryAcquireStep
  <1>3. ASSUME NEW h \in Hosts, CloseHost(h) \/ Disconnect(h) \/ Elapse(h)
        PROVE  IInv'
    BY <1>3, CloseHostStep, DisconnectStep, ElapseStep
  <1>4. CASE UNCHANGED vars
    BY <1>4 DEF vars, IInv, TypeOK, MutualExclusion, TokenInv, SessionHeld, Holds,
                Believed
  <1> QED BY <1>1, <1>2, <1>3, <1>4, CloseStep DEF Next

LEMMA Invariant == Spec => []IInv
  BY InitInv, StepInv, PTL DEF Spec

(* tryLock: no two goroutines hold the session of one host. *)
THEOREM Exclusion == Spec => []MutualExclusion
  <1>1. IInv => MutualExclusion BY DEF IInv
  <1> QED BY <1>1, Invariant, PTL

(* acquire, Close and release: a session is there as long as it is used. *)
THEOREM SessionKept == Spec => []SessionHeld
  <1>1. IInv => SessionHeld BY DEF IInv
  <1> QED BY <1>1, Invariant, PTL

-----------------------------------------------------------------------------
(* The user of a host, under the refinement mapping. *)
LEMMA UserOf ==
  ASSUME MutualExclusion, NEW h \in Hosts
  PROVE  /\ \A w \in Workers : User[h] = w <=> Holds(w, h)
         /\ User[h] = Nobody <=> \A w \in Workers : ~Holds(w, h)
  <1>1. CASE Lent(h) = {}
    BY <1>1, NobodyAssumption DEF User, Lent
  <1>2. CASE Lent(h) # {}
    <2>1. PICK w \in Workers : Holds(w, h) BY <1>2 DEF Lent
    <2>2. Lent(h) = {w} BY <2>1 DEF Lent, MutualExclusion
    <2>3. User[h] = w BY <2>2 DEF User
    <2> QED BY <2>1, <2>3, NobodyAssumption DEF MutualExclusion
  <1> QED BY <1>1, <1>2

(* The same after a step. *)
LEMMA UserOfNext ==
  ASSUME MutualExclusion', NEW h \in Hosts
  PROVE  /\ \A w \in Workers : User'[h] = w <=> Holds(w, h)'
         /\ User'[h] = Nobody <=> \A w \in Workers : ~Holds(w, h)'
  <1>1. CASE Lent(h)' = {}
    BY <1>1, NobodyAssumption DEF User, Lent
  <1>2. CASE Lent(h)' # {}
    <2>1. PICK w \in Workers : Holds(w, h)' BY <1>2 DEF Lent
    <2>2. Lent(h)' = {w} BY <2>1 DEF Lent, MutualExclusion
    <2>3. User'[h] = w BY <2>2 DEF User
    <2> QED BY <2>1, <2>3, NobodyAssumption DEF MutualExclusion
  <1> QED BY <1>1, <1>2

LEMMA UserIsFunction == User = [h \in Hosts |-> User[h]] /\ User' = [h \in Hosts |-> User'[h]]
  BY DEF User

(* A step that leaves every goroutine with what it holds changes no user. *)
LEMMA SameUser ==
  ASSUME \A w \in Workers, h \in Hosts : Holds(w, h)' <=> Holds(w, h)
  PROVE  User' = User
  <1>1. ASSUME NEW h \in Hosts PROVE User'[h] = User[h]
    <2>1. Lent(h)' = Lent(h) BY DEF Lent
    <2> QED BY <2>1 DEF User
  <1> QED BY <1>1, UserIsFunction

LEMMA BorrowStep ==
  ASSUME IInv, IInv', NEW w \in Workers, NEW h \in Hosts,
         mu[h] = 1, pc[w] \in {"idle", "locking"},
         pc' = [pc EXCEPT ![w] = "connecting"],
         at' = [at EXCEPT ![w] = h],
         UNCHANGED sessions
  PROVE  Locks!Borrow(w, h)
  <1>1. \A v \in Workers, g \in Hosts :
          Holds(v, g)' <=> (IF v = w THEN g = h ELSE Holds(v, g))
    BY DEF IInv, TypeOK, Holds
  <1>2. \A v \in Workers : ~Holds(v, h) BY DEF IInv, TokenInv
  <1>3. \A g \in Hosts : ~Holds(w, g) BY DEF Holds
  <1>4. User[h] = Nobody BY <1>2, UserOf DEF IInv
  <1>5. \A g \in Hosts : User[g] # w BY <1>3, UserOf DEF IInv
  <1>6. h \in sessions BY DEF IInv, TokenInv
  <1>7. User' = [User EXCEPT ![h] = w]
    <2>1. ASSUME NEW g \in Hosts PROVE User'[g] = IF g = h THEN w ELSE User[g]
      <3>1. CASE g = h BY <3>1, <1>1, UserOfNext DEF IInv
      <3>2. CASE g # h
        <4>1. \A v \in Workers : Holds(v, g)' <=> Holds(v, g)
          BY <3>2, <1>1, <1>3
        <4>2. Lent(g)' = Lent(g) BY <4>1 DEF Lent
        <4> QED BY <3>2, <4>2 DEF User
      <3> QED BY <3>1, <3>2
    <2> QED BY <2>1, UserIsFunction
  <1> QED BY <1>4, <1>5, <1>6, <1>7 DEF Locks!Borrow

LEMMA GiveBackStep ==
  ASSUME IInv, IInv', NEW w \in Workers,
         pc[w] \in {"connecting", "dialing", "using", "used"},
         pc' = [pc EXCEPT ![w] = "idle"],
         UNCHANGED <<sessions, at>>
  PROVE  at[w] \in Hosts /\ Locks!GiveBack(w, at[w])
  <1>1. at[w] \in Hosts /\ Holds(w, at[w]) BY DEF IInv, TypeOK, Holds
  <1>2. \A v \in Workers, g \in Hosts :
          Holds(v, g)' <=> (v # w /\ Holds(v, g))
    BY DEF IInv, TypeOK, Holds
  <1>3. User[at[w]] = w BY <1>1, UserOf DEF IInv
  <1>4. \A v \in Workers : ~Holds(v, at[w])'
    BY <1>1, <1>2 DEF IInv, MutualExclusion
  <1>5. User' = [User EXCEPT ![at[w]] = Nobody]
    <2>1. ASSUME NEW g \in Hosts PROVE User'[g] = IF g = at[w] THEN Nobody ELSE User[g]
      <3>1. CASE g = at[w] BY <3>1, <1>1, <1>4, UserOfNext DEF IInv
      <3>2. CASE g # at[w]
        <4>1. Lent(g)' = Lent(g) BY <3>2, <1>2 DEF Lent, Holds
        <4> QED BY <3>2, <4>1 DEF User
      <3> QED BY <3>1, <3>2
    <2> QED BY <2>1, UserIsFunction
  <1> QED BY <1>1, <1>3, <1>5 DEF Locks!GiveBack

LEMMA ShutStep ==
  ASSUME IInv, NEW h \in Hosts, CloseHost(h)
  PROVE  Locks!Shut(h)
  <1>1. \A v \in Workers : ~Holds(v, h) BY DEF IInv, TokenInv, CloseHost
  <1>2. User[h] = Nobody BY <1>1, UserOf DEF IInv
  <1>3. User' = User BY SameUser DEF CloseHost, Holds
  <1>4. Hosts \ sessions' = (Hosts \ sessions) \cup {h} BY DEF CloseHost
  <1> QED BY <1>2, <1>3, <1>4 DEF Locks!Shut

LEMMA WorkerStep ==
  ASSUME IInv, IInv', NEW w \in Workers, Step(w)
  PROVE  [Locks!Next]_Locks!vars
  <1>0. TypeOK BY DEF IInv
  <1>1. CASE Lock(w)
    <2>1. at[w] \in Hosts /\ at' = [at EXCEPT ![w] = at[w]] BY <1>0, <1>1 DEF TypeOK, Lock
    <2>2. Locks!Borrow(w, at[w]) BY <1>1, <2>1, BorrowStep DEF Lock, Goto
    <2> QED BY <2>1, <2>2 DEF Locks!Next
  <1>2. CASE AssumeOpen(w) \/ Ping(w) \/ MustDial(w) \/ Dial(w) \/ Use(w)
    <2>1. \A v \in Workers, g \in Hosts : Holds(v, g)' <=> Holds(v, g)
      BY <1>0, <1>2 DEF TypeOK, Holds, AssumeOpen, Ping, MustDial, Dial, Use, Goto
    <2>2. User' = User BY <2>1, SameUser
    <2>3. sessions' = sessions BY <1>2 DEF AssumeOpen, Ping, MustDial, Dial, Use
    <2> QED BY <2>2, <2>3 DEF Locks!vars
  <1>3. CASE DialError(w) \/ release(w)
    <2>1. at[w] \in Hosts /\ Locks!GiveBack(w, at[w])
      BY <1>3, GiveBackStep DEF DialError, release, Goto
    <2> QED BY <2>1 DEF Locks!Next
  <1> QED BY <1>1, <1>2, <1>3 DEF Step

LEMMA Simulation == ASSUME IInv, IInv', [Next]_vars PROVE [Locks!Next]_Locks!vars
  <1>0. TypeOK BY DEF IInv
  <1>1. ASSUME NEW w \in Workers, NEW h \in Hosts, acquire(w, h)
        PROVE  [Locks!Next]_Locks!vars
    <2>1. \A v \in Workers, g \in Hosts : Holds(v, g)' <=> Holds(v, g)
      BY <1>0, <1>1 DEF TypeOK, Holds, acquire, Goto
    <2> QED BY <1>1, <2>1, SameUser DEF Locks!vars, acquire
  <1>2. ASSUME NEW w \in Workers, NEW h \in Hosts, tryAcquire(w, h)
        PROVE  [Locks!Next]_Locks!vars
    <2>1. Locks!Borrow(w, h) BY <1>2, BorrowStep DEF tryAcquire, Goto
    <2> QED BY <2>1 DEF Locks!Next
  <1>3. ASSUME NEW h \in Hosts, CloseHost(h) PROVE [Locks!Next]_Locks!vars
    BY <1>3, ShutStep DEF Locks!Next
  <1>4. CASE Close \/ (\E h \in Hosts : Disconnect(h) \/ Elapse(h)) \/ UNCHANGED vars
    <2>1. \A v \in Workers, g \in Hosts : Holds(v, g)' <=> Holds(v, g)
      BY <1>4 DEF Holds, Close, Disconnect, Elapse, vars
    <2>2. sessions' = sessions BY <1>4 DEF Close, Disconnect, Elapse, vars
    <2> QED BY <2>1, <2>2, SameUser DEF Locks!vars
  <1> QED BY <1>1, <1>2, <1>3, <1>4, WorkerStep DEF Next

(* HostSet implements HostLocks: acquire and tryAcquire borrow a host that *)
(* nobody uses, release and a failed reconnect give it back, and Close     *)
(* takes hosts only while they are free.                                   *)
THEOREM ImplementsLocks == Spec => LocksSpec
  <1>1. Init => Locks!Init
    <2> SUFFICES ASSUME Init PROVE Locks!Init OBVIOUS
    <2>1. \A h \in Hosts : Lent(h) = {} BY DEF Init, Lent, Holds
    <2> QED BY <2>1 DEF Init, Locks!Init, User
  <1>2. IInv /\ IInv' /\ [Next]_vars => [Locks!Next]_Locks!vars BY Simulation
  <1> QED BY <1>1, <1>2, Invariant, PTL DEF Spec, LocksSpec, Locks!Spec
=============================================================================
