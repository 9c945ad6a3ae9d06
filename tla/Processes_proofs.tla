--------------------------- MODULE Processes_proofs ---------------------------
(***************************************************************************)
(* Proofs about FileLock, for any processes, hosts and pids, whatever dies *)
(* or fails, and about Release, for any packages and versions and wherever *)
(* runs stop.                                                              *)
(***************************************************************************)
EXTENDS FileLock, Release, FiniteSetTheorems, TLAPS

\* The lock file is that of the process that owns it, and it is fresh.
OwnersHaveLock == \A p \in Process : Owns(p) => /\ lock.exists /\ lock.by = p
                                                /\ lock.age <= Stale

\* The file says what its owner is: running, on this host, under this pid.
OwnersAreNamed == \A p \in Process : lock.by = p =>
                    /\ lock.exists /\ Alive(p)
                    /\ lock.host # Null => lock.host = HostOf[p] /\ lock.pid = pid[p]

\* The reclaim file is that of the process that recovers, so there is one.
OneRecovers == \A p \in Process : InRecovery(p) => reclaim = p

\* What is about to be removed is there and owned by nobody.
RemovesAbandoned == \A p \in Process : pc[p] = "remove" =>
                      lock.exists /\ \A q \in Process : ~Owns(q)

\* No file, no owner to read.
NothingToRead == ~lock.exists => lock = NoLock

IInv == /\ TypeOK
        /\ OwnersHaveLock
        /\ OwnersAreNamed
        /\ OneRecovers
        /\ RemovesAbandoned
        /\ NothingToRead

USE FileLockAssumption DEF Location, Goto

LEMMA InitIsSound == Init => IInv
BY DEF Init, IInv, TypeOK, LockFile, NoLock, OwnersHaveLock, Owns, OwnersAreNamed,
       OneRecovers, InRecovery, RemovesAbandoned, NothingToRead, Gone

LEMMA NoLockIsTyped == NoLock \in LockFile
<1>1. 0 \in 0..(Stale + 1)
  OBVIOUS
<1> QED BY <1>1 DEF NoLock, LockFile

-----------------------------------------------------------------------------
\* A step of process p that leaves lock file, reclaim file and pids alone.
LEMMA OnlyMoves ==
  ASSUME IInv, NEW p \in Process, NEW l \in Location, Alive(p), l # "dead",
         pc' = [pc EXCEPT ![p] = l], UNCHANGED <<lock, reclaim, pid>>,
         then' \in [Process -> {"out", "open", "wait"}],
         l \in {"write", "begin", "inside", "leave", "drop"} => Owns(p),
         l \in {"mark", "judge", "stat", "remove", "unmark"} => InRecovery(p),
         l = "remove" => lock.exists /\ \A q \in Process : ~Owns(q)
  PROVE  IInv'
<1>1. TypeOK'
  BY DEF IInv, TypeOK
<1>2. \A q \in Process : pc'[q] = IF q = p THEN l ELSE pc[q]
  BY DEF IInv, TypeOK
<1>3. OwnersHaveLock'
  BY <1>2 DEF IInv, OwnersHaveLock, Owns
<1>4. OwnersAreNamed'
  BY <1>2 DEF IInv, OwnersAreNamed, Alive
<1>5. OneRecovers'
  BY <1>2 DEF IInv, OneRecovers, InRecovery
<1>6. RemovesAbandoned'
  BY <1>2 DEF IInv, RemovesAbandoned, Owns, InRecovery, OneRecovers
<1>7. NothingToRead'
  BY DEF IInv, NothingToRead
<1> QED BY <1>1, <1>3, <1>4, <1>5, <1>6, <1>7 DEF IInv

\* A process that owns the lock file is the only one, and nobody is about to
\* remove the file.
LEMMA OnlyOwner ==
  ASSUME IInv, NEW p \in Process, Owns(p)
  PROVE  /\ lock.exists /\ lock.by = p
         /\ \A q \in Process : Owns(q) => q = p
         /\ \A q \in Process : pc[q] # "remove"
BY DEF IInv, OwnersHaveLock, RemovesAbandoned

\* A step of p that takes the lock file away, which no other process owns.
LEMMA LockGoes ==
  ASSUME IInv, NEW p \in Process, NEW l \in {"out", "unmark"}, Alive(p),
         lock' = NoLock, pc' = [pc EXCEPT ![p] = l], UNCHANGED <<reclaim, pid>>,
         then' \in [Process -> {"out", "open", "wait"}],
         l = "unmark" => InRecovery(p),
         \A q \in Process : q # p => ~Owns(q) /\ pc[q] # "remove"
  PROVE  IInv'
<1>1. TypeOK'
  <2>1. pc' \in [Process -> Location]
    BY DEF IInv, TypeOK
  <2> QED BY <2>1, NoLockIsTyped DEF IInv, TypeOK
<1>2. \A q \in Process : pc'[q] = IF q = p THEN l ELSE pc[q]
  BY DEF IInv, TypeOK
<1>3. ~lock'.exists /\ lock'.by = Null
  BY DEF NoLock
<1>4. OwnersHaveLock' /\ RemovesAbandoned'
  BY <1>2 DEF OwnersHaveLock, RemovesAbandoned, Owns
<1>5. OwnersAreNamed'
  BY <1>3 DEF OwnersAreNamed
<1>6. OneRecovers'
  BY <1>2 DEF IInv, OneRecovers, InRecovery
<1>7. NothingToRead'
  BY DEF NothingToRead
<1> QED BY <1>1, <1>4, <1>5, <1>6, <1>7 DEF IInv

-----------------------------------------------------------------------------
\* Acquiring and releasing.
LEMMA AcquiringIsSound ==
  ASSUME IInv, NEW p \in Process, Call(p) \/ Acquiring(p)
  PROVE  IInv'
<1>1. TypeOK
  BY DEF IInv
<1>2. CASE Call(p) \/ Wait(p) \/ Begin(p)
  BY <1>1, <1>2, OnlyMoves DEF Call, Wait, Begin, Alive, Owns, TypeOK
<1>3. CASE Open(p) /\ lock.exists
  BY <1>1, <1>3, OnlyMoves DEF Open, Alive, TypeOK
<1>4. CASE Open(p) /\ ~lock.exists
  <2>1. /\ pc' = [pc EXCEPT ![p] = "write"] /\ UNCHANGED <<reclaim, pid, then>>
        /\ lock' = [NoLock EXCEPT !.exists = TRUE, !.by = p]
    BY <1>4 DEF Open
  <2>2. /\ lock' \in LockFile /\ lock'.exists /\ lock'.by = p
        /\ lock'.host = Null /\ lock'.age = 0
    <3>1. lock' = [exists |-> TRUE, by |-> p, host |-> Null, pid |-> Null, age |-> 0]
      BY <2>1 DEF NoLock
    <3>2. 0 \in 0..(Stale + 1)
      OBVIOUS
    <3> QED BY <3>1, <3>2 DEF LockFile
  <2>3. \A q \in Process : ~Owns(q) /\ pc[q] # "remove"
    BY <1>4 DEF IInv, OwnersHaveLock, RemovesAbandoned
  <2>4. pc[p] = "open" /\ \A q \in Process : pc'[q] = IF q = p THEN "write" ELSE pc[q]
    BY <1>1, <1>4, <2>1 DEF TypeOK, Open
  <2>5. TypeOK'
    BY <1>1, <2>1, <2>2 DEF TypeOK
  <2>6. OwnersHaveLock' /\ RemovesAbandoned'
    BY <2>2, <2>3, <2>4 DEF OwnersHaveLock, RemovesAbandoned, Owns
  <2>7. OwnersAreNamed'
    BY <2>2, <2>4 DEF OwnersAreNamed, Alive
  <2>8. OneRecovers'
    BY <2>1, <2>4 DEF IInv, OneRecovers, InRecovery
  <2>9. NothingToRead'
    BY <2>2 DEF NothingToRead
  <2> QED BY <2>5, <2>6, <2>7, <2>8, <2>9 DEF IInv
<1>5. CASE Write(p)
  <2>1. Owns(p) /\ pc[p] = "write"
    BY <1>5 DEF Write, Owns
  <2>2. /\ lock' = [lock EXCEPT !.host = HostOf[p], !.pid = pid[p]]
        /\ pc' = [pc EXCEPT ![p] = "begin"] /\ UNCHANGED <<reclaim, pid, then>>
    BY <1>5, <2>1, OnlyOwner DEF Write
  <2>3. /\ lock' \in LockFile /\ lock'.exists = lock.exists /\ lock'.by = lock.by
        /\ lock'.age = lock.age /\ lock'.host = HostOf[p] /\ lock'.pid = pid[p]
    BY <1>1, <2>2 DEF TypeOK, LockFile
  <2>4. \A q \in Process : pc'[q] = IF q = p THEN "begin" ELSE pc[q]
    BY <1>1, <2>2 DEF TypeOK
  <2>5. TypeOK'
    BY <1>1, <2>2, <2>3 DEF TypeOK
  <2>6. OwnersHaveLock' /\ RemovesAbandoned'
    BY <2>1, <2>3, <2>4, OnlyOwner DEF IInv, OwnersHaveLock, RemovesAbandoned, Owns
  <2>7. OwnersAreNamed'
    BY <2>1, <2>2, <2>3, <2>4, OnlyOwner DEF OwnersAreNamed, Alive
  <2>8. OneRecovers'
    BY <2>1, <2>2, <2>4 DEF IInv, OneRecovers, InRecovery
  <2>9. NothingToRead'
    BY <2>1, <2>3, OnlyOwner DEF NothingToRead
  <2> QED BY <2>5, <2>6, <2>7, <2>8, <2>9 DEF IInv
<1> QED BY <1>2, <1>3, <1>4, <1>5 DEF Acquiring

LEMMA ReleasingIsSound ==
  ASSUME IInv, NEW p \in Process, Leave(p) \/ Releasing(p)
  PROVE  IInv'
<1>1. CASE Leave(p) \/ ReadToken(p)
  BY <1>1, OnlyMoves DEF Leave, ReadToken, Owns, Alive, IInv, TypeOK
<1>2. CASE Drop(p)
  <2>1. Owns(p) /\ Alive(p)
    BY <1>2 DEF Drop, Owns, Alive
  <2> QED BY <1>2, <2>1, OnlyOwner, LockGoes DEF Drop, IInv, TypeOK
<1> QED BY <1>1, <1>2 DEF Releasing

-----------------------------------------------------------------------------
\* Removing an abandoned lock.
LEMMA RecoveringIsSound ==
  ASSUME IInv, NEW p \in Process, Recovering(p)
  PROVE  IInv'
<1>1. TypeOK
  BY DEF IInv
<1>2. CASE Recover(p) /\ reclaim # Null
  BY <1>1, <1>2, OnlyMoves DEF Recover, Alive, TypeOK
<1>3. CASE Recover(p) /\ reclaim = Null
  <2>1. /\ pc[p] = "recover" /\ pc' = [pc EXCEPT ![p] = "mark"] /\ reclaim' = p
        /\ UNCHANGED <<lock, pid, then>>
    BY <1>3 DEF Recover
  <2>2. \A q \in Process : pc'[q] = IF q = p THEN "mark" ELSE pc[q]
    BY <1>1, <2>1 DEF TypeOK
  <2>3. \A q \in Process : ~InRecovery(q)
    BY <1>3 DEF IInv, OneRecovers
  <2>4. TypeOK'
    BY <1>1, <2>1 DEF TypeOK
  <2>5. OwnersHaveLock' /\ RemovesAbandoned'
    BY <2>1, <2>2 DEF IInv, OwnersHaveLock, RemovesAbandoned, Owns
  <2>6. OwnersAreNamed' /\ NothingToRead'
    BY <2>1, <2>2 DEF IInv, OwnersAreNamed, NothingToRead, Alive
  <2>7. OneRecovers'
    BY <2>1, <2>2, <2>3 DEF OneRecovers, InRecovery
  <2> QED BY <2>4, <2>5, <2>6, <2>7 DEF IInv
<1>4. CASE Mark(p)
  BY <1>1, <1>4, OnlyMoves DEF Mark, InRecovery, Alive, TypeOK
<1>5. CASE Judge(p)
  <2>1. /\ pc[p] = "judge" /\ UNCHANGED <<lock, reclaim, pid>>
        /\ InRecovery(p) /\ Alive(p)
    BY <1>5 DEF Judge, InRecovery, Alive
  <2>2. then' \in [Process -> {"out", "open", "wait"}]
    BY <1>1, <1>5 DEF Judge, Unmarking, TypeOK
  <2>3. CASE Goto(p, "unmark") \/ Goto(p, "stat")
    BY <2>1, <2>2, <2>3, OnlyMoves
  <2>4. CASE Goto(p, "remove") /\ lock.host = HostOf[p] /\ ~ProcessIsRunning(lock.host, lock.pid)
    <3>1. lock.host # Null
      BY <2>4
    <3>2. lock.exists
      BY <3>1 DEF IInv, NothingToRead, NoLock
    <3>3. ASSUME NEW q \in Process, Owns(q) PROVE FALSE
      <4>1. lock.by = q /\ Alive(q) /\ lock.host = HostOf[q] /\ lock.pid = pid[q]
        BY <3>1, <3>3, OnlyOwner DEF IInv, OwnersAreNamed
      <4> QED BY <4>1, <2>4 DEF ProcessIsRunning
    <3> QED BY <2>1, <2>2, <2>4, <3>2, <3>3, OnlyMoves
  <2> QED BY <1>5, <2>3, <2>4 DEF Judge, Unmarking
<1>6. CASE Stat(p)
  <2>1. /\ pc[p] = "stat" /\ UNCHANGED <<lock, reclaim, pid>>
        /\ InRecovery(p) /\ Alive(p)
    BY <1>6 DEF Stat, InRecovery, Alive
  <2>2. then' \in [Process -> {"out", "open", "wait"}]
    BY <1>1, <1>6 DEF Stat, Unmarking, TypeOK
  <2>3. CASE Goto(p, "unmark")
    BY <2>1, <2>2, <2>3, OnlyMoves
  <2>4. CASE Goto(p, "remove") /\ lock.exists /\ lock.age > Stale
    <3>1. lock.age \in 0..(Stale + 1)
      BY <1>1 DEF TypeOK, LockFile
    <3>2. \A q \in Process : ~Owns(q)
      BY <2>4, <3>1 DEF IInv, OwnersHaveLock
    <3> QED BY <2>1, <2>2, <2>4, <3>2, OnlyMoves
  <2> QED BY <1>6, <2>3, <2>4 DEF Stat, Unmarking
<1>7. CASE Remove(p)
  <2>1. \A q \in Process : q # p => ~Owns(q) /\ pc[q] # "remove"
    BY <1>7 DEF Remove, IInv, RemovesAbandoned, OneRecovers, InRecovery
  <2>2. then' \in [Process -> {"out", "open", "wait"}]
    BY <1>1, <1>7 DEF Remove, Unmarking, TypeOK
  <2> QED BY <1>7, <2>1, <2>2, LockGoes DEF Remove, Unmarking, InRecovery, Alive
<1>8. CASE Unmark(p)
  <2>1. reclaim = p
    BY <1>8 DEF Unmark, IInv, OneRecovers, InRecovery
  <2>2. /\ pc[p] = "unmark" /\ reclaim' = Null /\ pc' = [pc EXCEPT ![p] = then[p]]
        /\ then' = [then EXCEPT ![p] = "out"] /\ UNCHANGED <<lock, pid>>
    BY <1>8, <2>1 DEF Unmark
  <2>3. then[p] \in {"out", "open", "wait"}
    BY <1>1 DEF TypeOK
  <2>4. \A q \in Process : pc'[q] = IF q = p THEN then[p] ELSE pc[q]
    BY <1>1, <2>2 DEF TypeOK
  <2>5. TypeOK'
    BY <1>1, <2>2, <2>3 DEF TypeOK
  <2>6. OwnersHaveLock' /\ RemovesAbandoned'
    BY <2>2, <2>3, <2>4 DEF IInv, OwnersHaveLock, RemovesAbandoned, Owns
  <2>7. OwnersAreNamed' /\ NothingToRead'
    BY <2>2, <2>3, <2>4 DEF IInv, OwnersAreNamed, NothingToRead, Alive
  <2>8. OneRecovers'
    BY <2>1, <2>3, <2>4 DEF IInv, OneRecovers, InRecovery
  <2> QED BY <2>5, <2>6, <2>7, <2>8 DEF IInv
<1> QED BY <1>2, <1>3, <1>4, <1>5, <1>6, <1>7, <1>8 DEF Recovering

-----------------------------------------------------------------------------
\* Starting, dying and failing; the heartbeat and time.
LEMMA StartIsSound == ASSUME IInv, NEW p \in Process, Start(p) PROVE IInv'
<1>1. PICK i \in Pid : pid' = [pid EXCEPT ![p] = i]
  BY DEF Start, FreePid
<1>2. /\ pc[p] = "dead" /\ pc' = [pc EXCEPT ![p] = "out"] /\ UNCHANGED <<lock, reclaim, then>>
      /\ TypeOK
  BY DEF Start, IInv
<1>3. \A q \in Process : pc'[q] = IF q = p THEN "out" ELSE pc[q]
  BY <1>2 DEF TypeOK
<1>4. \A q \in Process : pid'[q] = IF q = p THEN i ELSE pid[q]
  BY <1>1, <1>2 DEF TypeOK
<1>5. TypeOK'
  BY <1>1, <1>2 DEF TypeOK
<1>6. OwnersHaveLock' /\ RemovesAbandoned'
  BY <1>2, <1>3 DEF IInv, OwnersHaveLock, RemovesAbandoned, Owns
<1>7. OwnersAreNamed'
  <2>1. lock.by # p
    BY <1>2 DEF IInv, OwnersAreNamed, Alive
  <2> QED BY <2>1, <1>2, <1>3, <1>4 DEF IInv, OwnersAreNamed, Alive
<1>8. OneRecovers' /\ NothingToRead'
  BY <1>2, <1>3 DEF IInv, OneRecovers, NothingToRead, InRecovery
<1> QED BY <1>5, <1>6, <1>7, <1>8 DEF IInv

LEMMA CrashIsSound == ASSUME IInv, NEW p \in Process, Crash(p) PROVE IInv'
<1>1. /\ pc' = [pc EXCEPT ![p] = "dead"] /\ pid' = [pid EXCEPT ![p] = Null]
      /\ then' = [then EXCEPT ![p] = "out"]
      /\ lock' = IF lock.by = p THEN [lock EXCEPT !.by = Null] ELSE lock
      /\ reclaim' = IF reclaim = p THEN Gone ELSE reclaim
      /\ TypeOK
  BY DEF Crash, Dies, IInv
<1>2. \A q \in Process : pc'[q] = IF q = p THEN "dead" ELSE pc[q]
  BY <1>1 DEF TypeOK
<1>3. \A q \in Process : pid'[q] = IF q = p THEN Null ELSE pid[q]
  BY <1>1 DEF TypeOK
<1>4. /\ lock' \in LockFile /\ lock'.exists = lock.exists /\ lock'.age = lock.age
      /\ lock'.host = lock.host /\ lock'.pid = lock.pid
      /\ lock'.by = IF lock.by = p THEN Null ELSE lock.by
  BY <1>1 DEF TypeOK, LockFile
<1>5. TypeOK'
  BY <1>1, <1>4 DEF TypeOK
<1>6. OwnersHaveLock' /\ RemovesAbandoned'
  BY <1>2, <1>4 DEF IInv, OwnersHaveLock, RemovesAbandoned, Owns
<1>7. OwnersAreNamed'
  BY <1>2, <1>3, <1>4 DEF IInv, OwnersAreNamed, Alive
<1>8. OneRecovers'
  BY <1>1, <1>2 DEF IInv, OneRecovers, InRecovery
<1>9. NothingToRead'
  <2>1. ~lock.exists => lock = NoLock /\ lock.by # p
    BY DEF IInv, NothingToRead, NoLock
  <2>2. ~lock.exists => lock' = lock
    BY <1>1, <2>1
  <2> QED BY <1>4, <2>1, <2>2 DEF NothingToRead
<1> QED BY <1>5, <1>6, <1>7, <1>8, <1>9 DEF IInv

LEMMA IoFailsIsSound == ASSUME IInv, NEW p \in Process, IoFails(p) PROVE IInv'
<1>1. TypeOK /\ UNCHANGED pid
  BY DEF IInv, IoFails
<1>2. CASE pc[p] \in {"open", "recover", "stat", "remove", "begin", "unmark", "drop"}
  <2>1. /\ \/ Goto(p, "out")
           \/ Goto(p, "unmark") /\ InRecovery(p)
           \/ Goto(p, "leave") /\ Owns(p)
        /\ UNCHANGED <<lock, reclaim>>
    BY <1>2 DEF IoFails, Unmarking, InRecovery, Owns
  <2>2. then' \in [Process -> {"out", "open", "wait"}] /\ Alive(p)
    BY <1>1, <1>2 DEF IoFails, Unmarking, TypeOK, Alive
  <2> QED BY <1>1, <2>1, <2>2, OnlyMoves
<1>3. CASE pc[p] = "write"
  <2>1. Owns(p) /\ Alive(p)
    BY <1>3 DEF Owns, Alive
  <2>2. lock' = NoLock /\ Goto(p, "out") /\ UNCHANGED <<reclaim, then>>
    BY <1>3 DEF IoFails
  <2> QED BY <1>1, <2>1, <2>2, OnlyOwner, LockGoes DEF TypeOK
<1>4. CASE pc[p] = "mark"
  <2>1. /\ pc' = [pc EXCEPT ![p] = "out"] /\ reclaim' = Null /\ UNCHANGED <<lock, then>>
        /\ reclaim = p
    BY <1>4 DEF IoFails, IInv, OneRecovers, InRecovery
  <2>2. \A q \in Process : pc'[q] = IF q = p THEN "out" ELSE pc[q]
    BY <1>1, <2>1 DEF TypeOK
  <2>3. TypeOK'
    BY <1>1, <2>1 DEF TypeOK
  <2>4. OwnersHaveLock' /\ RemovesAbandoned'
    BY <2>1, <2>2 DEF IInv, OwnersHaveLock, RemovesAbandoned, Owns
  <2>5. OwnersAreNamed' /\ NothingToRead'
    BY <1>1, <2>1, <2>2 DEF IInv, OwnersAreNamed, NothingToRead, Alive
  <2>6. OneRecovers'
    BY <2>1, <2>2 DEF IInv, OneRecovers, InRecovery
  <2> QED BY <2>3, <2>4, <2>5, <2>6 DEF IInv
<1> QED BY <1>2, <1>3, <1>4 DEF IoFails

\* The lock file only grows older or younger.
LEMMA AgeIsSound ==
  ASSUME IInv, NEW n \in 0..(Stale + 1), lock.exists, lock' = [lock EXCEPT !.age = n],
         UNCHANGED <<reclaim, pid, pc, then>>,
         \A p \in Process : Owns(p) => n <= Stale
  PROVE  IInv'
<1>1. /\ lock' \in LockFile /\ lock'.exists /\ lock'.by = lock.by /\ lock'.age = n
      /\ lock'.host = lock.host /\ lock'.pid = lock.pid
  BY DEF IInv, TypeOK, LockFile
<1>2. TypeOK'
  BY <1>1 DEF IInv, TypeOK
<1>3. OwnersHaveLock' /\ RemovesAbandoned'
  BY <1>1 DEF IInv, OwnersHaveLock, RemovesAbandoned, Owns
<1>4. OwnersAreNamed' /\ OneRecovers' /\ NothingToRead'
  BY <1>1 DEF IInv, OwnersAreNamed, OneRecovers, NothingToRead, Alive, InRecovery
<1> QED BY <1>2, <1>3, <1>4 DEF IInv

LEMMA NextIsSound == IInv /\ [Next]_vars => IInv'
<1> SUFFICES ASSUME IInv, [Next]_vars PROVE IInv'
  OBVIOUS
<1>1. ASSUME NEW p \in Process, Step(p) PROVE IInv'
  BY <1>1, AcquiringIsSound, RecoveringIsSound, ReleasingIsSound DEF Step
<1>2. ASSUME NEW p \in Process, Beat(p) PROVE IInv'
  <2>1. 0 \in 0..(Stale + 1) /\ 0 <= Stale
    OBVIOUS
  <2>2. lock.exists
    BY <1>2 DEF Beat, IInv, OwnersAreNamed
  <2> QED BY <1>2, <2>1, <2>2, AgeIsSound DEF Beat
<1>3. ASSUME Tick PROVE IInv'
  <2>1. lock.age \in 0..(Stale + 1)
    BY DEF IInv, TypeOK, LockFile
  <2> DEFINE n == lock.age + 1
  <2>2. n \in 0..(Stale + 1)
    BY <1>3, <2>1 DEF Tick
  <2>3. \A p \in Process : Owns(p) => n <= Stale
    BY <1>3, <2>1 DEF Tick, IInv, OwnersHaveLock
  <2>4. lock.exists /\ lock' = [lock EXCEPT !.age = n] /\ UNCHANGED <<reclaim, pid, pc, then>>
    BY <1>3 DEF Tick
  <2> HIDE DEF n
  <2> QED BY <2>2, <2>3, <2>4, AgeIsSound
<1>4. CASE UNCHANGED vars
  BY <1>4 DEF vars, IInv, TypeOK, OwnersHaveLock, OwnersAreNamed, OneRecovers,
              RemovesAbandoned, NothingToRead, Owns, Alive, InRecovery
<1> QED BY <1>1, <1>2, <1>3, <1>4, StartIsSound, CrashIsSound, IoFailsIsSound DEF Next

LEMMA AlwaysSound == Spec => []IInv
<1> QED BY InitIsSound, NextIsSound, PTL DEF Spec

-----------------------------------------------------------------------------
\* The lock file, the pids and the places of all processes keep their types.
THEOREM TypesAreKept == Spec => []TypeOK
<1>1. IInv => TypeOK
  BY DEF IInv
<1> QED BY <1>1, AlwaysSound, PTL

\* withFileLock runs one callback at a time, on any number of hosts, whatever
\* processes die, restart with an old pid, or fail (fileLock.ts, withFileLock).
THEOREM OneHolder == Spec => []MutualExclusion
<1>1. IInv => MutualExclusion
  BY DEF IInv, OwnersHaveLock, MutualExclusion, Holders, Owns
<1> QED BY <1>1, AlwaysSound, PTL

\* A step leaves the holders alone, lets one in when there is none, or one out.
LEMMA StepImplementsMutex == IInv /\ [Next]_vars => [Abstract!Next]_Holders
<1> SUFFICES ASSUME IInv, [Next]_vars PROVE Abstract!Next \/ Holders' = Holders
  OBVIOUS
<1>1. pc \in [Process -> Location]
  BY DEF IInv, TypeOK
\* What a step of one process means to the holders.
<1>2. ASSUME NEW p \in Process, NEW l, pc' = [pc EXCEPT ![p] = l],
             l \notin {"begin", "inside"}, pc[p] \notin {"begin", "inside"}
      PROVE  Holders' = Holders
  BY <1>1, <1>2 DEF Holders
<1>3. ASSUME NEW p \in Process, NEW l, pc' = [pc EXCEPT ![p] = l],
             l \notin {"begin", "inside"}
      PROVE  Abstract!Next \/ Holders' = Holders
  <2>1. CASE pc[p] \in {"begin", "inside"}
    <3>1. p \in Holders /\ Holders' = Holders \ {p}
      BY <1>1, <1>3, <2>1 DEF Holders
    <3> QED BY <3>1 DEF Abstract!Next, Abstract!Leave
  <2>2. CASE pc[p] \notin {"begin", "inside"}
    BY <1>2, <1>3, <2>2
  <2> QED BY <2>1, <2>2
<1>4. ASSUME NEW p \in Process, Step(p) PROVE Abstract!Next \/ Holders' = Holders
  <2>1. CASE Write(p)
    <3>1. Owns(p) /\ pc' = [pc EXCEPT ![p] = "begin"]
      BY <2>1 DEF Write, Owns
    <3>2. Holders = {}
      BY <2>1, <3>1, OnlyOwner DEF Holders, Owns, Write
    <3>3. Holders' = {p}
      BY <1>1, <3>1, <3>2 DEF Holders
    <3> QED BY <3>2, <3>3 DEF Abstract!Next, Abstract!Acquire
  <2>2. CASE Begin(p)
    <3>1. pc[p] = "begin" /\ pc' = [pc EXCEPT ![p] = "inside"]
      BY <2>2 DEF Begin
    <3>2. Holders' = Holders
      BY <1>1, <3>1 DEF Holders
    <3> QED BY <3>2
  <2>3. CASE Call(p) \/ Open(p) \/ Wait(p) \/ Leave(p) \/ Releasing(p)
    BY <1>3, <2>3 DEF Call, Open, Wait, Leave, Releasing, ReadToken, Drop
  <2>4. CASE Recovering(p)
    <3>1. CASE Unmark(p)
      <4>1. then[p] \notin {"begin", "inside"} /\ pc' = [pc EXCEPT ![p] = then[p]]
        BY <3>1 DEF Unmark, IInv, TypeOK
      <4> QED BY <1>3, <4>1
    <3>2. CASE Recover(p) \/ Mark(p) \/ Judge(p) \/ Stat(p) \/ Remove(p)
      BY <1>3, <3>2 DEF Recover, Mark, Judge, Stat, Remove, Unmarking
    <3> QED BY <2>4, <3>1, <3>2 DEF Recovering
  <2> QED BY <1>4, <2>1, <2>2, <2>3, <2>4 DEF Step, Acquiring
<1>5. ASSUME NEW p \in Process, Start(p) \/ Crash(p) \/ IoFails(p)
      PROVE  Abstract!Next \/ Holders' = Holders
  BY <1>3, <1>5 DEF Start, Crash, Dies, IoFails, Unmarking
<1>6. ASSUME (\E p \in Process : Beat(p)) \/ Tick \/ UNCHANGED vars PROVE Holders' = Holders
  BY <1>6 DEF Beat, Tick, vars, Holders
<1> QED BY <1>4, <1>5, <1>6 DEF Next

\* withFileLock is a lock: nobody begins its callback before the process inside
\* has left or died (fileLock.ts, withFileLock and tryRemoveAbandonedLock).
THEOREM LockImplementsMutex == Spec => ImplementsMutex
<1>1. Init => Abstract!Init
  BY DEF Init, Abstract!Init, Holders
<1> QED BY <1>1, AlwaysSound, StepImplementsMutex, PTL
        DEF Spec, ImplementsMutex, Abstract!Spec

-----------------------------------------------------------------------------
(* Release: what is announced is there, no channel goes back, and the newest *)
(* version can be resumed.                                                   *)

Places ==
  {"idle", "inspect", "plan", "packages", "push", "repair", "compare", "inspectCore",
   "registry", "inspectRegistry", "tag", "release", "verify"}
\* Where a run has seen its version in all packages, and where also in the image.
PackagesSeen == Places \ {"idle", "inspect", "plan", "packages"}
ImageSeen == PackagesSeen \ {"push", "repair", "compare"}

VersionOrNone == ReleaseVersion \cup {NoVersion}
NpmState == [versions : SUBSET ReleaseVersion, tag : [Channels -> VersionOrNone]]
ChannelState == [inconsistent : BOOLEAN, historical : BOOLEAN, channel : VersionOrNone]
DockerSteps == {"none", "push", "repair"}
Run == [at : Places, version : VersionOrNone, missing : SUBSET Packages,
        docker : DockerSteps, npm : ChannelState, tagged : BOOLEAN,
        release : {"missing", "draft", "published"}]

DestinationsTyped ==
  /\ main \in Seq(ReleaseVersion) /\ IsFiniteSet(OnMain)
  /\ npm \in [Packages -> NpmState] /\ shown \in [Packages -> NpmState]

\* A channel of a package offers the newest version that was published to it,
OffersNewest ==
  \A p \in Packages :
    /\ \A v \in npm[p].versions : NotBelow(npm[p].tag[Channel(v)], v)
    /\ \A c \in Channels : npm[p].tag[c] # NoVersion => Channel(npm[p].tag[c]) = c

\* that of the images one of its versions, which is at least what GitHub announces;
ImagesFollow ==
  /\ \A c \in Channels : imageChannel[c] # NoVersion => Channel(imageChannel[c]) = c
  /\ \A v \in ReleaseVersion : github[v] = "published" => NotBelow(imageChannel[Channel(v)], v)

\* and the latest release is a published one.
LatestIsOut == latest \in OnMain /\ latest.pre = <<>> /\ github[latest] = "published"

\* npm answers a run with all but what the run itself has published.
SeesAllButOwn(r) ==
  \A p \in Packages : shown[p] # npm[p] =>
    r.version \in npm[p].versions /\ npm[p].tag[Channel(r.version)] = r.version

\* Packages that are to be published have an older version.
PublishesUpwards(r) ==
  r.at = "packages" =>
    \A p \in r.missing : r.version \notin npm[p].versions => NotBelow(r.version, npm[p].tag[Channel(r.version)])

\* A run knows whether the channel has gone on without its version,
KnowsChannel(r) ==
  /\ r.at \in PackagesSeen \cup {"packages"} => ~r.npm.inconsistent /\ NotBelow(r.npm.channel, r.version)
  /\ r.at \in PackagesSeen /\ ~r.npm.historical =>
       \A p \in Packages : npm[p].tag[Channel(r.version)] = r.version
  /\ r.at = "repair" \/ (r.at = "packages" /\ r.docker = "repair") =>
       ~r.npm.historical /\ r.version \in image

\* and goes on when it has seen what it needs.
InOrder(r) ==
  /\ r.at \in PackagesSeen => \A p \in Packages : r.version \in shown[p].versions
  /\ r.at \in ImageSeen => r.version \in image /\ NotBelow(imageChannel[Channel(r.version)], r.version)
  /\ r.at \in {"inspectRegistry", "tag", "release", "verify"} => r.version \in registered
  /\ r.at = "release" => r.version \in gitTag

RunIsSound(r) ==
  /\ r \in Run
  /\ r.at = "idle" => r.version = NoVersion
  /\ r.at # "idle" =>
       /\ r.version \in OnMain
       /\ SeesAllButOwn(r) /\ PublishesUpwards(r) /\ KnowsChannel(r) /\ InOrder(r)

ReleaseInv ==
  /\ ReleaseTypeOK /\ DestinationsTyped /\ AnnouncedIsThere
  /\ OffersNewest /\ ImagesFollow /\ LatestIsOut /\ RunIsSound(runner)

LEMMA ChannelIsOne == ASSUME NEW v PROVE Channel(v) \in Channels
BY DEF Channel, Channels

\* NotBelow orders versions, NoVersion being below all.
LEMMA NotBelowOrders ==
  ASSUME NEW a \in VersionOrNone, NEW b \in VersionOrNone, NEW c \in VersionOrNone
  PROVE  /\ NotBelow(a, a)
         /\ NotBelow(a, b) /\ NotBelow(b, c) => NotBelow(a, c)
         /\ NotBelow(a, NoVersion)
BY ReleaseAssumption DEF NotBelow, VersionOrNone

LEMMA AboveIsNotBelow ==
  ASSUME ComparesByPrecedence, NEW a \in VersionOrNone, NEW b \in ReleaseVersion
  PROVE  /\ Above(a, b) => NotBelow(a, b) /\ a # NoVersion /\ a # b
         /\ ~Above(a, b) => NotBelow(b, a)
BY ReleaseAssumption DEF NotBelow, VersionOrNone, Above, ComparesByPrecedence

\* What Classify returns.
LEMMA ClassifyIsSound ==
  ASSUME ComparesByPrecedence, DestinationsTyped, NEW v \in ReleaseVersion
  PROVE  /\ Classify(v) \in ChannelState
         /\ NotBelow(Classify(v).channel, v)
         /\ Classify(v).historical => Missing(v) = {}
         /\ ~Classify(v).historical /\ ~Classify(v).inconsistent =>
              /\ \A p \in Packages \ Missing(v) : TagOf(p, v) = v
              /\ Missing(v) # {} => \A p \in Packages : ~Above(TagOf(p, v), v)
<1> DEFINE elsewhere == {p \in Packages \ Missing(v) : TagOf(p, v) # v}
           offered == {TagOf(p, v) : p \in elsewhere}
           newer == {p \in Packages : Above(TagOf(p, v), v)}
           past == /\ Missing(v) = {} /\ elsewhere = Packages
                   /\ Cardinality(offered) = 1 /\ \A w \in offered : Above(w, v)
           other == CHOOSE w \in offered : TRUE
<1>1. \A p \in Packages : TagOf(p, v) \in VersionOrNone
  BY ChannelIsOne DEF TagOf, DestinationsTyped, NpmState
<1>2. past => other \in offered
  <2> SUFFICES ASSUME past PROVE \E w \in offered : TRUE
    OBVIOUS
  <2>1. offered # {}
    BY FS_EmptySet
  <2> QED  BY <2>1
<1>3. past => other \in ReleaseVersion /\ NotBelow(other, v)
  <2> SUFFICES ASSUME past PROVE other \in ReleaseVersion /\ NotBelow(other, v)
    OBVIOUS
  <2>1. other \in offered /\ Above(other, v)
    BY <1>2
  <2>2. other \in VersionOrNone
    BY <1>1, <2>1
  <2> HIDE DEF other, past, offered
  <2> QED  BY <2>1, <2>2, AboveIsNotBelow DEF VersionOrNone
<1>4. Classify(v) = IF past THEN Historical(other)
                    ELSE IF elsewhere # {} \/ (Missing(v) # {} /\ newer # {}) THEN Stuck(v) ELSE Active(v)
  BY DEF Classify
<1>5. v \in VersionOrNone /\ NotBelow(v, v)
  BY NotBelowOrders DEF VersionOrNone
<1>6. CASE past
  <2>1. Classify(v) = Historical(other) /\ Missing(v) = {}
    BY <1>4, <1>6
  <2>2. other \in VersionOrNone /\ NotBelow(other, v)
    BY <1>3, <1>6 DEF VersionOrNone
  <2> HIDE DEF other, past
  <2> QED  BY <2>1, <2>2 DEF Historical, ChannelState
<1>7. CASE ~past
  <2> HIDE DEF past, other
  <2> QED  BY <1>4, <1>5, <1>7 DEF Stuck, Active, ChannelState
<1> QED  BY <1>6, <1>7

\* The channel of npm is at the version that a run finds it at.
LEMMA ChannelIsThere ==
  ASSUME ComparesByPrecedence, DestinationsTyped, NEW r \in Run, r.version \in ReleaseVersion,
         SeesAllButOwn(r), Missing(r.version) = {},
         ~Classify(r.version).historical, ~Classify(r.version).inconsistent
  PROVE  \A p \in Packages : npm[p].tag[Channel(r.version)] = r.version
BY ClassifyIsSound DEF TagOf, SeesAllButOwn

\* The steps of a run that change nothing but the run.
LEMMA RunGoesOn ==
  ASSUME ReleaseInv, UNCHANGED <<main, destinations, draftIsGood>>, RunIsSound(runner')
  PROVE  ReleaseInv'
<1>1. RunIsSound(runner)'
  BY DEF RunIsSound, SeesAllButOwn, PublishesUpwards, KnowsChannel, InOrder, destinations, OnMain
<1>2. ReleaseTypeOK'
  <2>1. runner'.version \in OnMain \cup {NoVersion} /\ runner'.missing \subseteq Packages
    BY DEF RunIsSound, Run
  <2> QED  BY <2>1 DEF ReleaseInv, ReleaseTypeOK, OnMain, destinations
<1> QED
  BY <1>1, <1>2 DEF ReleaseInv, DestinationsTyped, AnnouncedIsThere, OffersNewest, ImagesFollow, LatestIsOut,
     OnMain, destinations

\* A run under way, and at another place.
LEMMA RunIsUnderWay ==
  ASSUME ReleaseInv, runner.at # "idle"
  PROVE  /\ runner \in Run /\ runner.version \in OnMain /\ runner.version \in ReleaseVersion
         /\ SeesAllButOwn(runner) /\ PublishesUpwards(runner) /\ KnowsChannel(runner) /\ InOrder(runner)
BY DEF ReleaseInv, ReleaseTypeOK, RunIsSound

LEMMA RunGoesTo ==
  ASSUME ReleaseInv, NEW l \in Places, Goes(l)
  PROVE  /\ runner' \in Run /\ runner'.at = l /\ runner'.version = runner.version
         /\ runner'.npm = runner.npm /\ runner'.missing = runner.missing /\ runner'.docker = runner.docker
BY DEF ReleaseInv, RunIsSound, Run, Goes

\* A run that begins, and one that ends.
LEMMA RunsStart ==
  ASSUME ReleaseInv, NEW v \in ReleaseVersion, StartRun(v) PROVE ReleaseInv'
<1>1. /\ runner' \in Run /\ runner'.at = "inspect" /\ runner'.version = v
  BY DEF StartRun, NoRun, Run, DockerSteps, Places, VersionOrNone, ChannelState, Active
<1>2. SeesAllButOwn(runner')
  BY DEF StartRun, SeesAllButOwn
<1>3. PublishesUpwards(runner') /\ KnowsChannel(runner') /\ InOrder(runner')
  BY <1>1 DEF PublishesUpwards, KnowsChannel, InOrder, PackagesSeen, ImageSeen
<1> QED  BY <1>1, <1>2, <1>3, RunGoesOn DEF RunIsSound, StartRun

LEMMA RunsEnd ==
  ASSUME ReleaseInv, runner' = NoRun, UNCHANGED <<main, destinations, draftIsGood>> PROVE ReleaseInv'
<1>1. NoRun \in Run /\ NoRun.at = "idle" /\ NoRun.version = NoVersion
  BY DEF NoRun, Run, DockerSteps, Places, VersionOrNone, ChannelState, Active
<1> QED  BY <1>1, RunGoesOn DEF RunIsSound

\* What a run finds that is not stuck.
LEMMA NotStuck ==
  ASSUME ComparesByPrecedence, ReleaseInv, runner.at # "idle", ~CoreStuck(runner.version)
  PROVE  LET v == runner.version IN
         /\ Classify(v) \in ChannelState /\ ~Classify(v).inconsistent
         /\ NotBelow(Classify(v).channel, v)
         /\ Classify(v).historical => Missing(v) = {} /\ ChannelMatches(v)
         /\ Missing(v) = {} /\ ~Classify(v).historical =>
              \A p \in Packages : npm[p].tag[Channel(v)] = v
         /\ Missing(v) = {} <=> \A p \in Packages : v \in shown[p].versions
         /\ ChannelMatches(v) => NotBelow(imageChannel[Channel(v)], v)
<1>1. DestinationsTyped
  BY DEF ReleaseInv
<1>2. runner \in Run /\ runner.version \in ReleaseVersion /\ SeesAllButOwn(runner)
  BY RunIsUnderWay
<1> DEFINE v == runner.version
<1>3. /\ Classify(v) \in ChannelState /\ ~Classify(v).inconsistent /\ NotBelow(Classify(v).channel, v)
      /\ Classify(v).historical => Missing(v) = {} /\ ChannelMatches(v)
  BY <1>1, <1>2, ClassifyIsSound DEF CoreStuck
<1>4. Missing(v) = {} /\ ~Classify(v).historical => \A p \in Packages : npm[p].tag[Channel(v)] = v
  BY <1>1, <1>2, <1>3, ChannelIsThere
<1>5. ChannelMatches(v) => NotBelow(imageChannel[Channel(v)], v)
  BY <1>3 DEF ChannelMatches
<1>6. Missing(v) = {} <=> \A p \in Packages : v \in shown[p].versions
  BY DEF Missing
<1> QED  BY <1>3, <1>4, <1>5, <1>6

Inspected(r, channel, tagged, release, l) ==
  [r EXCEPT !.npm = channel, !.tagged = tagged, !.release = release, !.at = l]
LEMMA InspectedFields ==
  ASSUME NEW r \in Run, NEW channel \in ChannelState, NEW tagged \in BOOLEAN,
         NEW release \in {"missing", "draft", "published"}, NEW l \in Places
  PROVE  LET s == Inspected(r, channel, tagged, release, l)
         IN s \in Run /\ s.version = r.version /\ s.npm = channel /\ s.at = l
BY DEF Inspected, Run

LEMMA InspectsSoundly ==
  ASSUME ComparesByPrecedence, ReleaseInv, NEW from \in {"inspect", "inspectCore", "inspectRegistry"}, Inspect(from)
  PROVE  ReleaseInv'
<1> DEFINE v == runner.version
<1>1. runner.at = from /\ runner.at # "idle" /\ ~CoreStuck(v)
  BY DEF Inspect, ReleaseStuck
<1>2. /\ runner \in Run /\ v \in OnMain /\ v \in ReleaseVersion
      /\ SeesAllButOwn(runner) /\ InOrder(runner)
  BY <1>1, RunIsUnderWay
<1>3. /\ Classify(v) \in ChannelState /\ ~Classify(v).inconsistent
      /\ NotBelow(Classify(v).channel, v)
      /\ Classify(v).historical => Missing(v) = {} /\ ChannelMatches(v)
      /\ Missing(v) = {} /\ ~Classify(v).historical => \A p \in Packages : npm[p].tag[Channel(v)] = v
      /\ Missing(v) = {} <=> \A p \in Packages : v \in shown[p].versions
      /\ ChannelMatches(v) => NotBelow(imageChannel[Channel(v)], v)
  BY <1>1, NotStuck
<1>4. github[v] \in {"missing", "draft", "published"}
  BY <1>2 DEF ReleaseInv, ReleaseTypeOK
<1> DEFINE next == IF from = "inspect" /\ NeedsCore(v) THEN "plan"
                   ELSE IF from # "inspectRegistry" /\ NeedsRegistry(v) THEN "registry"
                   ELSE IF NeedsGitHub(v) THEN "tag" ELSE "verify"
           isTagged == v \in gitTag
<1>5. /\ runner' \in Run /\ runner'.version = v /\ runner'.npm = Classify(v)
      /\ runner'.at \in {"plan", "registry", "tag", "verify"}
      /\ runner'.at = "plan" \/ from = "inspectRegistry" \/ ~NeedsCore(v)
      /\ runner'.at \in {"tag", "verify"} => from = "inspectRegistry" \/ ~NeedsRegistry(v)
  <2>1. runner' = Inspected(runner, Classify(v), isTagged, github[v], next)
    BY DEF Inspect, Inspected
  <2>2. next \in {"plan", "registry", "tag", "verify"} /\ next \in Places /\ isTagged \in BOOLEAN
    BY DEF Places
  <2>3. /\ runner' \in Run /\ runner'.version = v /\ runner'.npm = Classify(v) /\ runner'.at = next
    <3> HIDE DEF next, isTagged
    <3> QED  BY <1>2, <1>3, <1>4, <2>1, <2>2, InspectedFields
  <2>4. /\ next = "plan" \/ from = "inspectRegistry" \/ ~NeedsCore(v)
        /\ next \in {"tag", "verify"} => from = "inspectRegistry" \/ ~NeedsRegistry(v)
    <3>1. from = "inspectCore" => ~NeedsCore(v)
      BY DEF Inspect
    <3> QED  BY <3>1
  <2> HIDE DEF next
  <2> QED  BY <2>2, <2>3, <2>4
<1>6. runner'.at = "plan" \/
        /\ Missing(v) = {} /\ v \in image /\ NotBelow(imageChannel[Channel(v)], v)
        /\ runner'.at \in {"tag", "verify"} => v \in registered
  <2>1. CASE from = "inspectRegistry"
    BY <1>1, <1>2, <1>3, <2>1 DEF InOrder, PackagesSeen, ImageSeen, Places
  <2>2. CASE ~NeedsCore(v)
    BY <1>1, <1>2, <1>3, <1>5, <2>2 DEF NeedsCore, NeedsRegistry, InOrder
  <2> QED  BY <1>5, <2>1, <2>2
<1>7. SeesAllButOwn(runner') /\ PublishesUpwards(runner')
  BY <1>2, <1>5 DEF SeesAllButOwn, PublishesUpwards
<1>8. KnowsChannel(runner')
  BY <1>3, <1>5, <1>6 DEF KnowsChannel, PackagesSeen
<1>9. InOrder(runner')
  BY <1>3, <1>5, <1>6 DEF InOrder, PackagesSeen, ImageSeen
<1> QED
  BY <1>2, <1>5, <1>7, <1>8, <1>9, RunGoesOn DEF RunIsSound, Inspect

LEMMA PlansSoundly ==
  ASSUME ComparesByPrecedence, ReleaseInv, PlanCore PROVE ReleaseInv'
<1> DEFINE v == runner.version
           next == IF CoreComplete(v) THEN "inspectCore" ELSE "packages"
<1>1. runner.at = "plan" /\ runner.at # "idle" /\ ~CoreStuck(v)
  BY DEF PlanCore
<1>2. runner \in Run /\ v \in OnMain /\ v \in ReleaseVersion /\ SeesAllButOwn(runner)
  BY <1>1, RunIsUnderWay
<1>3. /\ Classify(v) \in ChannelState /\ ~Classify(v).inconsistent
      /\ NotBelow(Classify(v).channel, v)
      /\ Classify(v).historical => Missing(v) = {} /\ ChannelMatches(v)
      /\ Missing(v) = {} /\ ~Classify(v).historical => \A p \in Packages : npm[p].tag[Channel(v)] = v
      /\ Missing(v) = {} <=> \A p \in Packages : v \in shown[p].versions
      /\ ChannelMatches(v) => NotBelow(imageChannel[Channel(v)], v)
  BY <1>1, NotStuck
<1>4. /\ DockerStep(v) \in {"none", "push", "repair"}
      /\ DockerStep(v) = "repair" => v \in image /\ ~Classify(v).historical
  BY DEF DockerStep
<1>5. /\ runner' \in Run /\ runner'.version = v /\ runner'.npm = Classify(v) /\ runner'.at = next
      /\ runner'.missing = Missing(v) /\ runner'.docker = DockerStep(v)
  <2> DEFINE channel == Classify(v)
             missing == Missing(v)
             docker == DockerStep(v)
  <2>1. runner' = [runner EXCEPT !.npm = channel, !.missing = missing, !.docker = docker, !.at = next]
    BY DEF PlanCore
  <2>2. next \in Places /\ missing \in SUBSET Packages
    BY DEF Places, Missing
  <2>3. channel \in ChannelState /\ docker \in DockerSteps
    BY <1>3, <1>4 DEF DockerSteps
  <2> HIDE DEF channel, missing, docker, next
  <2>4. /\ runner' \in Run /\ runner'.version = v /\ runner'.npm = channel /\ runner'.at = next
        /\ runner'.missing = missing /\ runner'.docker = docker
    BY <1>2, <2>1, <2>2, <2>3 DEF Run
  <2> QED  BY <2>4 DEF channel, missing, docker
<1>6. SeesAllButOwn(runner')
  BY <1>2, <1>5 DEF SeesAllButOwn
<1>7. PublishesUpwards(runner')
  <2> SUFFICES ASSUME NEW p \in Missing(v), v \notin npm[p].versions
               PROVE  NotBelow(v, npm[p].tag[Channel(v)])
    <3> HIDE DEF next
    <3> QED  BY <1>5 DEF PublishesUpwards
  <2>1. p \in Packages /\ Missing(v) # {} /\ ~Classify(v).historical
    BY <1>3 DEF Missing
  <2>2. shown[p] = npm[p]
    BY <1>2, <2>1 DEF SeesAllButOwn
  <2>3. DestinationsTyped
    BY DEF ReleaseInv
  <2>4. ~Above(TagOf(p, v), v) /\ TagOf(p, v) \in VersionOrNone
    BY <1>2, <1>3, <2>1, <2>3, ClassifyIsSound, ChannelIsOne DEF DestinationsTyped, NpmState, TagOf
  <2>5. NotBelow(v, TagOf(p, v))
    BY <1>2, <2>4, AboveIsNotBelow
  <2> QED  BY <2>2, <2>5 DEF TagOf
<1>8. next = "inspectCore" => Missing(v) = {} /\ v \in image /\ ChannelMatches(v)
  BY DEF CoreComplete
<1>9. KnowsChannel(runner')
  BY <1>3, <1>4, <1>5, <1>8 DEF KnowsChannel, PackagesSeen
<1>10. InOrder(runner')
  BY <1>3, <1>5, <1>8 DEF InOrder, PackagesSeen, ImageSeen
<1> QED
  BY <1>2, <1>5, <1>6, <1>7, <1>9, <1>10, RunGoesOn DEF RunIsSound, PlanCore, Places

LEMMA ConfirmsSoundly ==
  ASSUME ComparesByPrecedence, ReleaseInv, ConfirmPackages PROVE ReleaseInv'
<1> DEFINE v == runner.version
<1> USE DEF Places
<1>1. /\ runner.at = "packages" /\ runner.at # "idle" /\ Missing(v) = {} /\ Classify(v) = runner.npm
      /\ Goes(IF runner.docker = "none" THEN "compare" ELSE runner.docker)
  BY DEF ConfirmPackages
<1>2. /\ runner \in Run /\ v \in OnMain /\ v \in ReleaseVersion
      /\ SeesAllButOwn(runner) /\ KnowsChannel(runner)
  BY <1>1, RunIsUnderWay
<1>3. /\ ~runner.npm.inconsistent /\ NotBelow(runner.npm.channel, v)
      /\ runner.docker = "repair" => ~runner.npm.historical /\ v \in image
  BY <1>1, <1>2 DEF KnowsChannel
<1>4. ~runner.npm.historical => \A p \in Packages : npm[p].tag[Channel(v)] = v
  BY <1>1, <1>2, <1>3, ChannelIsThere DEF ReleaseInv
<1>5. \A p \in Packages : v \in shown[p].versions
  BY <1>1 DEF Missing
<1>6. /\ runner' \in Run /\ runner'.version = v /\ runner'.npm = runner.npm
      /\ runner'.at \in {"compare", "push", "repair"} /\ (runner'.at = "repair" => runner.docker = "repair")
  <2>1. runner.docker \in {"none", "push", "repair"}
    BY <1>2 DEF Run, DockerSteps
  <2> DEFINE next == IF runner.docker = "none" THEN "compare" ELSE runner.docker
  <2>2. next \in {"compare", "push", "repair"} /\ next \in Places /\ (next = "repair" => runner.docker = "repair")
    BY <2>1
  <2>3. Goes(next)
    BY <1>1
  <2> HIDE DEF next
  <2> QED  BY <2>2, <2>3, RunGoesTo
<1>7. SeesAllButOwn(runner') /\ PublishesUpwards(runner')
  BY <1>2, <1>6 DEF SeesAllButOwn, PublishesUpwards
<1>8. KnowsChannel(runner') /\ InOrder(runner')
  BY <1>3, <1>4, <1>5, <1>6 DEF KnowsChannel, InOrder, PackagesSeen, ImageSeen
<1> QED
  BY <1>2, <1>6, <1>7, <1>8, RunGoesOn DEF RunIsSound, ConfirmPackages

LEMMA ComparesSoundly ==
  ASSUME ReleaseInv, CompareDigests PROVE ReleaseInv'
<1> DEFINE v == runner.version
<1> USE DEF Places
<1>1. /\ runner.at = "compare" /\ runner.at # "idle" /\ Goes("inspectCore")
      /\ v \in image /\ imageChannel[Channel(v)] = runner.npm.channel
  BY DEF CompareDigests
<1>2. /\ v \in OnMain /\ SeesAllButOwn(runner) /\ KnowsChannel(runner) /\ InOrder(runner)
  BY <1>1, RunIsUnderWay
<1>3. runner' \in Run /\ runner'.version = v /\ runner'.npm = runner.npm /\ runner'.at = "inspectCore"
  BY <1>1, RunGoesTo
<1>4. SeesAllButOwn(runner') /\ PublishesUpwards(runner')
  BY <1>2, <1>3 DEF SeesAllButOwn, PublishesUpwards
<1>5. KnowsChannel(runner') /\ InOrder(runner')
  BY <1>1, <1>2, <1>3 DEF KnowsChannel, InOrder, PackagesSeen, ImageSeen
<1> QED
  BY <1>2, <1>3, <1>4, <1>5, RunGoesOn DEF RunIsSound, CompareDigests

Published(n, v) == [versions |-> n.versions \cup {v}, tag |-> [n.tag EXCEPT ![Channel(v)] = v]]
LEMMA PublishedFields ==
  ASSUME NEW n \in NpmState, NEW v \in ReleaseVersion
  PROVE  /\ Published(n, v) \in NpmState /\ Published(n, v).versions = n.versions \cup {v}
         /\ Published(n, v).tag[Channel(v)] = v
         /\ \A c \in Channels : c # Channel(v) => Published(n, v).tag[c] = n.tag[c]
BY ChannelIsOne DEF Published, NpmState, VersionOrNone

\* What publishing a package does.
LEMMA PublishingMoves ==
  ASSUME ReleaseInv, PublishPackage
  PROVE  LET v == runner.version IN \E next \in runner.missing :
         /\ next \in Packages /\ v \notin npm[next].versions
         /\ npm' \in [Packages -> NpmState]
         /\ \A p \in Packages : npm'[p] = IF p = next THEN Published(npm[next], v) ELSE npm[p]
         /\ runner' \in Run /\ runner'.at = "packages" /\ runner'.version = v /\ runner'.npm = runner.npm
         /\ runner'.missing = runner.missing \ {next} /\ runner'.docker = runner.docker
<1> DEFINE v == runner.version
<1>1. runner.at = "packages" /\ runner.at # "idle"
  BY DEF PublishPackage
<1>2. runner \in Run /\ v \in ReleaseVersion /\ npm \in [Packages -> NpmState]
  BY <1>1, RunIsUnderWay DEF ReleaseInv, DestinationsTyped
<1>3. PICK i \in DOMAIN Package :
        /\ Package[i] \in runner.missing /\ v \notin npm[Package[i]].versions
        /\ npm' = [npm EXCEPT ![Package[i]] = [versions |-> @.versions \cup {v}, tag |-> [@.tag EXCEPT ![Channel(v)] = v]]]
        /\ runner' = [runner EXCEPT !.missing = @ \ {Package[i]}]
  BY DEF PublishPackage
<1>4. PICK next : next = Package[i]
  OBVIOUS
<1>5. next \in runner.missing /\ next \in Packages /\ v \notin npm[next].versions
  BY <1>2, <1>3, <1>4 DEF Run
<1>6. npm' = [npm EXCEPT ![next] = Published(npm[next], v)]
  BY <1>2, <1>3, <1>4, <1>5 DEF Published
<1>7. Published(npm[next], v) \in NpmState
  BY <1>2, <1>5, PublishedFields
<1>8. /\ npm' \in [Packages -> NpmState]
      /\ \A p \in Packages : npm'[p] = IF p = next THEN Published(npm[next], v) ELSE npm[p]
  BY <1>2, <1>5, <1>6, <1>7
<1>9. /\ runner' \in Run /\ runner'.at = "packages" /\ runner'.version = v /\ runner'.npm = runner.npm
      /\ runner'.missing = runner.missing \ {next} /\ runner'.docker = runner.docker
  <2>1. runner' = [runner EXCEPT !.missing = @ \ {next}]
    BY <1>3, <1>4
  <2> QED  BY <1>1, <1>2, <2>1 DEF Run
<1> QED  BY <1>5, <1>8, <1>9

LEMMA PublishesSoundly ==
  ASSUME ReleaseInv, PublishPackage PROVE ReleaseInv'
<1> DEFINE v == runner.version
<1>1. runner.at = "packages" /\ runner.at # "idle"
      /\ UNCHANGED <<main, shown, image, imageChannel, registered, gitTag, github, latest, draftIsGood>>
  BY DEF PublishPackage
<1>2. /\ runner \in Run /\ v \in OnMain /\ v \in ReleaseVersion
      /\ SeesAllButOwn(runner) /\ PublishesUpwards(runner) /\ KnowsChannel(runner) /\ InOrder(runner)
  BY <1>1, RunIsUnderWay
<1>3. PICK next \in runner.missing :
         /\ next \in Packages /\ v \notin npm[next].versions
         /\ npm' \in [Packages -> NpmState]
         /\ \A p \in Packages : npm'[p] = IF p = next THEN Published(npm[next], v) ELSE npm[p]
         /\ runner' \in Run /\ runner'.at = "packages" /\ runner'.version = v /\ runner'.npm = runner.npm
         /\ runner'.missing = runner.missing \ {next} /\ runner'.docker = runner.docker
  BY PublishingMoves
<1>4. npm \in [Packages -> NpmState] /\ shown \in [Packages -> NpmState]
  BY DEF ReleaseInv, DestinationsTyped
<1>5. /\ npm'[next].versions = npm[next].versions \cup {v} /\ npm'[next].tag[Channel(v)] = v
      /\ \A c \in Channels : c # Channel(v) => npm'[next].tag[c] = npm[next].tag[c]
      /\ \A p \in Packages \ {next} : npm'[p] = npm[p]
  BY <1>2, <1>3, <1>4, PublishedFields
<1>6. \A p \in Packages : npm[p].versions \subseteq npm'[p].versions
  BY <1>3, <1>5
<1>7. ReleaseTypeOK'
  <2>1. \A p \in Packages : npm'[p].versions \subseteq OnMain
                            /\ \A c \in Channels : npm'[p].tag[c] \in npm'[p].versions \cup {NoVersion}
    <3> SUFFICES ASSUME NEW p \in Packages
                 PROVE  npm'[p].versions \subseteq OnMain
                        /\ \A c \in Channels : npm'[p].tag[c] \in npm'[p].versions \cup {NoVersion}
      OBVIOUS
    <3>1. npm[p].versions \subseteq OnMain /\ \A c \in Channels : npm[p].tag[c] \in npm[p].versions \cup {NoVersion}
      BY DEF ReleaseInv, ReleaseTypeOK
    <3>2. CASE p = next
      BY <1>2, <1>5, <3>1, <3>2
    <3>3. CASE p # next
      BY <1>5, <3>1, <3>3
    <3> QED  BY <3>2, <3>3
  <2>2. \A p \in Packages : shown[p].versions \subseteq npm'[p].versions
    BY <1>6 DEF ReleaseInv, ReleaseTypeOK
  <2>3. runner'.version \in OnMain \cup {NoVersion} /\ runner'.missing \subseteq Packages
    BY <1>2, <1>3 DEF Run
  <2> QED
    BY <1>1, <2>1, <2>2, <2>3 DEF ReleaseInv, ReleaseTypeOK, OnMain
<1>8. DestinationsTyped'
  BY <1>1, <1>3 DEF ReleaseInv, DestinationsTyped, OnMain
<1>9. AnnouncedIsThere'
  BY <1>1, <1>6 DEF ReleaseInv, AnnouncedIsThere
<1>10. OffersNewest'
  <2>1. ASSUME NEW p \in Packages, NEW u \in npm'[p].versions PROVE NotBelow(npm'[p].tag[Channel(u)], u)
    <3>1. CASE p # next
      BY <1>5, <2>1, <3>1 DEF ReleaseInv, OffersNewest
    <3>2. CASE p = next /\ Channel(u) = Channel(v)
      <4>1. CASE u = v
        BY <1>2, <1>5, <3>2, <4>1, NotBelowOrders DEF VersionOrNone
      <4>2. CASE u # v
        <5>1. u \in npm[next].versions
          BY <1>5, <2>1, <3>2, <4>2
        <5>2. NotBelow(npm[next].tag[Channel(v)], u)
          BY <1>3, <3>2, <5>1 DEF ReleaseInv, OffersNewest
        <5>3. NotBelow(v, npm[next].tag[Channel(v)])
          BY <1>1, <1>2, <1>3 DEF PublishesUpwards
        <5>4. u \in VersionOrNone /\ npm[next].tag[Channel(v)] \in VersionOrNone /\ v \in VersionOrNone
          BY <1>2, <1>3, <1>4, <5>1, ChannelIsOne DEF NpmState, VersionOrNone
        <5>5. NotBelow(v, u)
          BY <5>2, <5>3, <5>4, NotBelowOrders
        <5> QED  BY <1>5, <3>2, <5>5
      <4> QED  BY <4>1, <4>2
    <3>3. CASE p = next /\ Channel(u) # Channel(v)
      <4>1. u \in npm[next].versions
        BY <1>5, <2>1, <3>3
      <4>2. NotBelow(npm[next].tag[Channel(u)], u)
        BY <1>3, <4>1 DEF ReleaseInv, OffersNewest
      <4> QED  BY <1>5, <3>3, <4>2, ChannelIsOne
    <3> QED  BY <3>1, <3>2, <3>3
  <2>2. ASSUME NEW p \in Packages, NEW c \in Channels, npm'[p].tag[c] # NoVersion
        PROVE  Channel(npm'[p].tag[c]) = c
    BY <1>3, <1>5, <2>2 DEF ReleaseInv, OffersNewest
  <2> QED  BY <2>1, <2>2 DEF OffersNewest
<1>11. ImagesFollow' /\ LatestIsOut'
  BY <1>1 DEF ReleaseInv, ImagesFollow, LatestIsOut, OnMain
<1>12. RunIsSound(runner)'
  <2>1. SeesAllButOwn(runner)'
    <3> SUFFICES ASSUME NEW p \in Packages, shown[p] # npm'[p]
                 PROVE  v \in npm'[p].versions /\ npm'[p].tag[Channel(v)] = v
      BY <1>1, <1>3 DEF SeesAllButOwn
    <3>1. CASE p = next
      BY <1>5, <3>1
    <3>2. CASE p # next
      BY <1>2, <1>5, <3>2 DEF SeesAllButOwn
    <3> QED  BY <3>1, <3>2
  <2>2. PublishesUpwards(runner)'
    <3> SUFFICES ASSUME NEW p \in runner.missing \ {next}, v \notin npm'[p].versions
                 PROVE  NotBelow(v, npm'[p].tag[Channel(v)])
      BY <1>3 DEF PublishesUpwards
    <3>1. p \in Packages /\ npm'[p] = npm[p]
      BY <1>2, <1>5 DEF Run
    <3> QED  BY <1>1, <1>2, <3>1 DEF PublishesUpwards
  <2>3. KnowsChannel(runner)'
    BY <1>1, <1>2, <1>3 DEF KnowsChannel, PackagesSeen
  <2>4. InOrder(runner)'
    BY <1>3 DEF InOrder, PackagesSeen, ImageSeen
  <2>5. runner'.at # "idle" /\ runner'.version \in OnMain'
    BY <1>1, <1>2, <1>3 DEF OnMain
  <2> QED  BY <1>3, <2>1, <2>2, <2>3, <2>4, <2>5 DEF RunIsSound
<1> QED  BY <1>7, <1>8, <1>9, <1>10, <1>11, <1>12 DEF ReleaseInv

LEMMA PushesImageSoundly ==
  ASSUME ReleaseInv, PushImage PROVE ReleaseInv'
<1> DEFINE v == runner.version
           next == IF runner.npm.historical THEN "compare" ELSE "repair"
<1>1. /\ runner.at = "push" /\ runner.at # "idle" /\ image' = image \cup {v} /\ Goes(next)
      /\ UNCHANGED <<main, npm, shown, imageChannel, registered, gitTag, github, latest, draftIsGood>>
  BY DEF PushImage
<1>2. /\ v \in OnMain /\ v \in ReleaseVersion
      /\ SeesAllButOwn(runner) /\ KnowsChannel(runner) /\ InOrder(runner)
  BY <1>1, RunIsUnderWay
<1>3. next \in {"compare", "repair"} /\ next \in Places /\ (next = "repair" => ~runner.npm.historical)
  BY DEF Places
<1>4. runner' \in Run /\ runner'.version = v /\ runner'.npm = runner.npm /\ runner'.at = next
      /\ runner'.missing = runner.missing
  <2> HIDE DEF next
  <2> QED  BY <1>1, <1>3, RunGoesTo
<1> HIDE DEF next
<1>5. \A p \in Packages : v \in shown[p].versions /\ v \in npm[p].versions
  BY <1>1, <1>2 DEF InOrder, PackagesSeen, Places, ReleaseInv, ReleaseTypeOK
<1>6. ReleaseTypeOK'
  BY <1>1, <1>2, <1>4 DEF ReleaseInv, ReleaseTypeOK, OnMain
<1>7. AnnouncedIsThere'
  BY <1>1, <1>5 DEF ReleaseInv, AnnouncedIsThere
<1>8. DestinationsTyped' /\ OffersNewest' /\ ImagesFollow' /\ LatestIsOut'
  BY <1>1 DEF ReleaseInv, DestinationsTyped, OffersNewest, ImagesFollow, LatestIsOut, OnMain
<1>9. RunIsSound(runner)'
  <2>1. SeesAllButOwn(runner)' /\ PublishesUpwards(runner)'
    BY <1>1, <1>2, <1>3, <1>4 DEF SeesAllButOwn, PublishesUpwards
  <2>2. KnowsChannel(runner)' /\ InOrder(runner)'
    BY <1>1, <1>2, <1>3, <1>4, <1>5 DEF KnowsChannel, InOrder, PackagesSeen, ImageSeen, Places
  <2> QED  BY <1>1, <1>2, <1>3, <1>4, <2>1, <2>2 DEF RunIsSound, OnMain
<1> QED  BY <1>6, <1>7, <1>8, <1>9 DEF ReleaseInv

\* The image channel is moved to what npm offers, which is the newest published.
LEMMA ImageChannelGoesUp ==
  ASSUME ReleaseInv, MoveImageChannel
  PROVE  NotBelow(runner.version, imageChannel[Channel(runner.version)])
<1> DEFINE v == runner.version
           c == Channel(v)
           old == imageChannel[c]
<1>1. runner.at = "repair" /\ runner.at # "idle"
  BY DEF MoveImageChannel
<1>2. v \in ReleaseVersion /\ KnowsChannel(runner)
  BY <1>1, RunIsUnderWay
<1>3. \A p \in Packages : npm[p].tag[c] = v
  BY <1>1, <1>2 DEF KnowsChannel, PackagesSeen, Places
<1>4. c \in Channels /\ old \in image \cup {NoVersion} /\ image \subseteq ReleaseVersion
  BY ChannelIsOne DEF ReleaseInv, ReleaseTypeOK
<1>5. CASE old = NoVersion
  BY <1>5 DEF NotBelow
<1>6. CASE old # NoVersion
  <2>1. Channel(old) = c /\ old \in image
    BY <1>4, <1>6 DEF ReleaseInv, ImagesFollow
  <2>2. PICK p \in Packages : TRUE
    BY ReleaseAssumption
  <2>3. old \in npm[p].versions
    BY <1>4, <2>1 DEF ReleaseInv, AnnouncedIsThere
  <2>4. NotBelow(npm[p].tag[Channel(old)], old)
    BY <2>3 DEF ReleaseInv, OffersNewest
  <2> QED  BY <1>3, <2>1, <2>4
<1> QED  BY <1>5, <1>6

LEMMA MovesImageChannelSoundly ==
  ASSUME ReleaseInv, MoveImageChannel PROVE ReleaseInv'
<1> DEFINE v == runner.version
<1>1. /\ runner.at = "repair" /\ runner.at # "idle" /\ Goes("compare")
      /\ imageChannel' = [imageChannel EXCEPT ![Channel(v)] = v]
      /\ UNCHANGED <<main, npm, shown, image, registered, gitTag, github, latest, draftIsGood>>
  BY DEF MoveImageChannel
<1>2. /\ v \in OnMain /\ v \in ReleaseVersion
      /\ SeesAllButOwn(runner) /\ KnowsChannel(runner) /\ InOrder(runner)
  BY <1>1, RunIsUnderWay
<1>3. runner' \in Run /\ runner'.version = v /\ runner'.npm = runner.npm /\ runner'.at = "compare"
      /\ runner'.missing = runner.missing
  BY <1>1, RunGoesTo DEF Places
<1>4. v \in image /\ imageChannel \in [Channels -> image \cup {NoVersion}] /\ image \subseteq ReleaseVersion
  BY <1>1, <1>2 DEF KnowsChannel, ReleaseInv, ReleaseTypeOK
<1>5. /\ imageChannel' \in [Channels -> image \cup {NoVersion}]
      /\ \A c \in Channels : imageChannel'[c] = IF c = Channel(v) THEN v ELSE imageChannel[c]
  BY <1>1, <1>4
<1>6. ReleaseTypeOK'
  BY <1>1, <1>2, <1>3, <1>5 DEF ReleaseInv, ReleaseTypeOK, OnMain
<1>7. DestinationsTyped' /\ OffersNewest' /\ LatestIsOut' /\ AnnouncedIsThere'
  BY <1>1 DEF ReleaseInv, DestinationsTyped, OffersNewest, LatestIsOut, AnnouncedIsThere, OnMain
<1>8. ImagesFollow'
  <2>1. \A c \in Channels : imageChannel'[c] # NoVersion => Channel(imageChannel'[c]) = c
    BY <1>5 DEF ReleaseInv, ImagesFollow
  <2>2. ASSUME NEW u \in ReleaseVersion, github[u] = "published" PROVE NotBelow(imageChannel'[Channel(u)], u)
    <3>1. NotBelow(imageChannel[Channel(u)], u)
      BY <2>2 DEF ReleaseInv, ImagesFollow
    <3>2. CASE Channel(u) # Channel(v)
      BY <1>5, <3>1, <3>2, ChannelIsOne
    <3>3. CASE Channel(u) = Channel(v)
      <4>1. NotBelow(v, imageChannel[Channel(u)])
        BY <3>3, ImageChannelGoesUp
      <4>2. imageChannel[Channel(u)] \in VersionOrNone /\ u \in VersionOrNone /\ v \in VersionOrNone
        BY <1>2, <1>4, ChannelIsOne DEF VersionOrNone
      <4>3. NotBelow(v, u)
        BY <3>1, <4>1, <4>2, NotBelowOrders
      <4> QED  BY <1>5, <3>3, <4>3, ChannelIsOne
    <3> QED  BY <3>2, <3>3
  <2> QED  BY <1>1, <2>1, <2>2 DEF ImagesFollow
<1>9. RunIsSound(runner)'
  <2>1. SeesAllButOwn(runner)' /\ PublishesUpwards(runner)'
    BY <1>1, <1>2, <1>3 DEF SeesAllButOwn, PublishesUpwards
  <2>2. KnowsChannel(runner)' /\ InOrder(runner)'
    BY <1>1, <1>2, <1>3 DEF KnowsChannel, InOrder, PackagesSeen, ImageSeen, Places
  <2> QED  BY <1>1, <1>2, <1>3, <2>1, <2>2 DEF RunIsSound, OnMain
<1> QED  BY <1>6, <1>7, <1>8, <1>9 DEF ReleaseInv

LEMMA RegistersSoundly ==
  ASSUME ReleaseInv, PublishRegistry \/ PushTag PROVE ReleaseInv'
<1> DEFINE v == runner.version
<1>1. /\ runner.at \in {"registry", "tag"} /\ runner.at # "idle"
      /\ \E l \in {"inspectRegistry", "verify", "release"} :
           /\ Goes(l)
           /\ l = "inspectRegistry" => runner.at = "registry" /\ registered' = registered \cup {v} /\ gitTag' = gitTag
           /\ l \in {"verify", "release"} => runner.at = "tag" /\ registered' = registered /\ gitTag' = gitTag \cup {v}
      /\ UNCHANGED <<main, npm, shown, image, imageChannel, github, latest, draftIsGood>>
  BY DEF PublishRegistry, PushTag
<1>2. PICK l \in {"inspectRegistry", "verify", "release"} :
           /\ Goes(l)
           /\ l = "inspectRegistry" => runner.at = "registry" /\ registered' = registered \cup {v} /\ gitTag' = gitTag
           /\ l \in {"verify", "release"} => runner.at = "tag" /\ registered' = registered /\ gitTag' = gitTag \cup {v}
  BY <1>1
<1>3. /\ v \in OnMain /\ v \in ReleaseVersion
      /\ SeesAllButOwn(runner) /\ KnowsChannel(runner) /\ InOrder(runner)
  BY <1>1, RunIsUnderWay
<1>4. runner' \in Run /\ runner'.version = v /\ runner'.npm = runner.npm /\ runner'.at = l
      /\ runner'.missing = runner.missing
  BY <1>2, RunGoesTo DEF Places
<1>5. /\ registered \subseteq registered' /\ registered' \subseteq registered \cup {v}
      /\ gitTag \subseteq gitTag' /\ gitTag' \subseteq gitTag \cup {v}
  BY <1>2
<1>6. ReleaseTypeOK'
  BY <1>1, <1>3, <1>4, <1>5 DEF ReleaseInv, ReleaseTypeOK, OnMain
<1>7. AnnouncedIsThere'
  BY <1>1, <1>5 DEF ReleaseInv, AnnouncedIsThere
<1>8. DestinationsTyped' /\ OffersNewest' /\ ImagesFollow' /\ LatestIsOut'
  BY <1>1 DEF ReleaseInv, DestinationsTyped, OffersNewest, ImagesFollow, LatestIsOut, OnMain
<1>9. RunIsSound(runner)'
  <2>1. SeesAllButOwn(runner)' /\ PublishesUpwards(runner)'
    BY <1>1, <1>3, <1>4 DEF SeesAllButOwn, PublishesUpwards
  <2>2. KnowsChannel(runner)'
    BY <1>1, <1>3, <1>4 DEF KnowsChannel, PackagesSeen, Places
  <2>3. InOrder(runner)'
    BY <1>1, <1>2, <1>3, <1>4, <1>5 DEF InOrder, PackagesSeen, ImageSeen, Places
  <2> QED  BY <1>1, <1>3, <1>4, <2>1, <2>2, <2>3 DEF RunIsSound, OnMain
<1> QED  BY <1>6, <1>7, <1>8, <1>9 DEF ReleaseInv

\* The latest release is replaced by one that npm offers.
LEMMA LatestGoesUp ==
  ASSUME ReleaseInv, PublishGitHub, latest' # latest
  PROVE  latest' = runner.version /\ NotBelow(latest', latest)
<1> DEFINE v == runner.version
<1>1. /\ runner.at = "release" /\ runner.at # "idle" /\ latest' = v /\ v.pre = <<>> /\ ~runner.npm.historical
  BY DEF PublishGitHub
<1>2. v \in ReleaseVersion /\ KnowsChannel(runner)
  BY <1>1, RunIsUnderWay
<1>3. Channel(v) = Channel(latest) /\ latest \in ReleaseVersion /\ github[latest] = "published"
  BY <1>1 DEF Channel, ReleaseInv, LatestIsOut, ReleaseTypeOK
<1>4. PICK p \in Packages : TRUE
  BY ReleaseAssumption
<1>5. npm[p].tag[Channel(v)] = v
  BY <1>1, <1>2 DEF KnowsChannel, PackagesSeen, Places
<1>6. latest \in npm[p].versions
  BY <1>3 DEF ReleaseInv, AnnouncedIsThere
<1>7. NotBelow(npm[p].tag[Channel(latest)], latest)
  BY <1>6 DEF ReleaseInv, OffersNewest
<1> QED  BY <1>1, <1>3, <1>5, <1>7

LEMMA ReleasesSoundly ==
  ASSUME ReleaseInv, PublishGitHub PROVE ReleaseInv'
<1> DEFINE v == runner.version
<1>1. /\ runner.at = "release" /\ runner.at # "idle" /\ Goes("verify")
      /\ github' = [github EXCEPT ![v] = "published"] /\ draftIsGood' = draftIsGood \ {v}
      /\ latest' = latest \/ (latest' = v /\ v.pre = <<>>)
      /\ UNCHANGED <<main, npm, shown, image, imageChannel, registered, gitTag>>
  BY DEF PublishGitHub
<1>2. /\ v \in OnMain /\ v \in ReleaseVersion
      /\ SeesAllButOwn(runner) /\ KnowsChannel(runner) /\ InOrder(runner)
  BY <1>1, RunIsUnderWay
<1>3. runner' \in Run /\ runner'.version = v /\ runner'.npm = runner.npm /\ runner'.at = "verify"
      /\ runner'.missing = runner.missing
  BY <1>1, RunGoesTo DEF Places
<1>4. /\ github' \in [ReleaseVersion -> {"missing", "draft", "published"}] /\ github'[v] = "published"
      /\ \A u \in ReleaseVersion : u # v => github'[u] = github[u]
  BY <1>1, <1>2 DEF ReleaseInv, ReleaseTypeOK
<1>5. /\ v \in image /\ v \in registered /\ v \in gitTag
      /\ NotBelow(imageChannel[Channel(v)], v)
  BY <1>1, <1>2 DEF InOrder, ImageSeen, PackagesSeen, Places
<1>6. ReleaseTypeOK'
  BY <1>1, <1>2, <1>3, <1>4 DEF ReleaseInv, ReleaseTypeOK, OnMain
<1>7. AnnouncedIsThere'
  BY <1>1, <1>4, <1>5 DEF ReleaseInv, AnnouncedIsThere
<1>8. DestinationsTyped' /\ OffersNewest'
  BY <1>1 DEF ReleaseInv, DestinationsTyped, OffersNewest, OnMain
<1>9. ImagesFollow'
  BY <1>1, <1>4, <1>5 DEF ReleaseInv, ImagesFollow
<1>10. LatestIsOut'
  <2>1. CASE latest' = v /\ v.pre = <<>>
    BY <1>1, <1>2, <1>4, <2>1 DEF LatestIsOut, OnMain
  <2>2. CASE latest' = latest
    BY <1>1, <1>4, <2>2 DEF ReleaseInv, ReleaseTypeOK, LatestIsOut, OnMain
  <2> QED  BY <1>1, <2>1, <2>2
<1>11. RunIsSound(runner)'
  <2>1. SeesAllButOwn(runner)' /\ PublishesUpwards(runner)'
    BY <1>1, <1>2, <1>3 DEF SeesAllButOwn, PublishesUpwards
  <2>2. KnowsChannel(runner)'
    BY <1>1, <1>2, <1>3 DEF KnowsChannel, PackagesSeen, Places
  <2>3. InOrder(runner)'
    BY <1>1, <1>2, <1>3 DEF InOrder, PackagesSeen, ImageSeen, Places
  <2> QED  BY <1>1, <1>2, <1>3, <2>1, <2>2, <2>3 DEF RunIsSound, OnMain
<1> QED  BY <1>6, <1>7, <1>8, <1>9, <1>10, <1>11 DEF ReleaseInv

\* What others do while a run is under way, or none.
LEMMA PreparesSoundly ==
  ASSUME ReleaseInv, NEW v \in ReleaseVersion, PrepareVersion(v) PROVE ReleaseInv'
<1>1. /\ v \notin OnMain /\ main' = Append(main, v) /\ main \in Seq(ReleaseVersion)
      /\ UNCHANGED <<npm, shown, image, imageChannel, registered, gitTag, github, latest, draftIsGood, runner>>
  BY DEF PrepareVersion, ReleaseInv, DestinationsTyped, destinations
<1>2. main' \in Seq(ReleaseVersion) /\ Len(main') = Len(main) + 1
  BY <1>1
<1>3. OnMain' = OnMain \cup {v}
  <2>1. DOMAIN main = 1..Len(main) /\ DOMAIN main' = 1..(Len(main) + 1)
    BY <1>1, <1>2
  <2>2. \A i \in DOMAIN main : main'[i] = main[i]
    BY <1>1, <2>1
  <2>3. main'[Len(main) + 1] = v
    BY <1>1
  <2>4. \A i \in DOMAIN main' : i \in DOMAIN main \/ i = Len(main) + 1
    BY <1>1, <2>1
  <2>5. DOMAIN main \subseteq DOMAIN main' /\ Len(main) + 1 \in DOMAIN main'
    BY <1>1, <2>1
  <2> QED  BY <2>2, <2>3, <2>4, <2>5 DEF OnMain
<1>4. IsFiniteSet(OnMain') /\ Cardinality(OnMain') = Len(main')
  <2>1. IsFiniteSet(OnMain) /\ Cardinality(OnMain) = Len(main)
    BY DEF ReleaseInv, ReleaseTypeOK, DestinationsTyped
  <2>2. IsFiniteSet(OnMain \cup {v}) /\ Cardinality(OnMain \cup {v}) = Cardinality(OnMain) + 1
    BY <1>1, <2>1, FS_AddElement
  <2> QED  BY <1>2, <1>3, <2>1, <2>2
<1>5. ReleaseTypeOK'
  BY <1>1, <1>3, <1>4 DEF ReleaseInv, ReleaseTypeOK
<1>6. DestinationsTyped' /\ LatestIsOut'
  BY <1>1, <1>2, <1>3, <1>4 DEF ReleaseInv, DestinationsTyped, LatestIsOut
<1>7. AnnouncedIsThere' /\ OffersNewest' /\ ImagesFollow'
  BY <1>1 DEF ReleaseInv, AnnouncedIsThere, OffersNewest, ImagesFollow
<1>8. RunIsSound(runner)'
  BY <1>1, <1>3 DEF ReleaseInv, RunIsSound, SeesAllButOwn, PublishesUpwards, KnowsChannel, InOrder
<1> QED  BY <1>5, <1>6, <1>7, <1>8 DEF ReleaseInv

LEMMA DraftsSoundly ==
  ASSUME ReleaseInv, NEW v \in ReleaseVersion, DraftRelease(v) PROVE ReleaseInv'
<1>1. /\ UNCHANGED <<main, npm, shown, image, imageChannel, registered, gitTag, latest, runner>>
      /\ draftIsGood' \subseteq draftIsGood \cup {v} /\ v \in OnMain
      /\ github' \in [ReleaseVersion -> {"missing", "draft", "published"}]
      /\ \A u \in ReleaseVersion : github'[u] = "published" <=> github[u] = "published"
  BY DEF DraftRelease, ReleaseInv, ReleaseTypeOK
<1>2. ReleaseTypeOK'
  BY <1>1 DEF ReleaseInv, ReleaseTypeOK, OnMain
<1>3. LatestIsOut'
  BY <1>1 DEF ReleaseInv, LatestIsOut, ReleaseTypeOK, OnMain
<1>4. DestinationsTyped' /\ OffersNewest' /\ AnnouncedIsThere' /\ ImagesFollow'
  BY <1>1 DEF ReleaseInv, DestinationsTyped, OffersNewest, AnnouncedIsThere, ImagesFollow, OnMain
<1>5. RunIsSound(runner)'
  BY <1>1 DEF ReleaseInv, RunIsSound, SeesAllButOwn, PublishesUpwards, KnowsChannel, InOrder, OnMain
<1> QED  BY <1>2, <1>3, <1>4, <1>5 DEF ReleaseInv

LEMMA CatchesUpSoundly ==
  ASSUME ReleaseInv, NEW p \in Packages, CatchesUp(p) PROVE ReleaseInv'
<1>1. /\ UNCHANGED <<main, npm, image, imageChannel, registered, gitTag, github, latest, draftIsGood, runner>>
      /\ shown' \in [Packages -> NpmState]
      /\ \A q \in Packages : shown'[q] = shown[q] \/ shown'[q] = npm[q]
  BY DEF CatchesUp, ReleaseInv, DestinationsTyped
<1>2. \A q \in Packages : shown[q].versions \subseteq npm[q].versions
  BY DEF ReleaseInv, ReleaseTypeOK
<1>3. \A q \in Packages : shown[q].versions \subseteq shown'[q].versions /\ shown'[q].versions \subseteq npm[q].versions
  BY <1>1, <1>2
<1>4. ReleaseTypeOK'
  BY <1>1, <1>3 DEF ReleaseInv, ReleaseTypeOK, OnMain
<1>5. DestinationsTyped' /\ LatestIsOut' /\ OffersNewest' /\ AnnouncedIsThere' /\ ImagesFollow'
  BY <1>1 DEF ReleaseInv, DestinationsTyped, LatestIsOut, OffersNewest, AnnouncedIsThere, ImagesFollow, OnMain
<1>6. RunIsSound(runner)'
  <2>1. SeesAllButOwn(runner) => SeesAllButOwn(runner)'
    BY <1>1 DEF SeesAllButOwn
  <2>2. InOrder(runner) => InOrder(runner)'
    BY <1>1, <1>3 DEF InOrder
  <2> QED  BY <1>1, <2>1, <2>2 DEF ReleaseInv, RunIsSound, PublishesUpwards, KnowsChannel, OnMain
<1> QED  BY <1>4, <1>5, <1>6 DEF ReleaseInv

LEMMA ReleaseBegins == ReleaseInit => ReleaseInv
<1> SUFFICES ASSUME ReleaseInit PROVE ReleaseInv
  OBVIOUS
<1> DEFINE tags == [c \in Channels |-> IF c = "latest" THEN Released ELSE NoVersion]
           out == [versions |-> {Released}, tag |-> tags]
<1>1. /\ main = <<Released>> /\ npm = [p \in Packages |-> out] /\ shown = npm
      /\ image = {Released} /\ imageChannel = tags
      /\ registered = {Released} /\ gitTag = {Released}
      /\ github = [v \in ReleaseVersion |-> IF v = Released THEN "published" ELSE "missing"]
      /\ draftIsGood = {} /\ latest = Released /\ runner = NoRun
  BY DEF ReleaseInit
<1>2. Released \in ReleaseVersion /\ Channel(Released) = "latest" /\ Released # NoVersion
  BY ReleaseAssumption DEF Channel
<1>3. /\ tags \in [Channels -> {Released, NoVersion}] /\ tags["latest"] = Released /\ tags["next"] = NoVersion
      /\ \A c \in Channels : c = "latest" \/ c = "next"
  BY DEF Channels
<1>4. /\ out \in NpmState /\ out.versions = {Released} /\ out.tag = tags
  BY <1>2, <1>3 DEF NpmState, VersionOrNone
<1> HIDE DEF out, tags
<1>5. \A p \in Packages : npm[p] = out
  BY <1>1
<1>6. OnMain = {Released} /\ IsFiniteSet(OnMain) /\ Cardinality(OnMain) = 1 /\ Len(main) = 1
  <2>1. OnMain = {Released} /\ Len(main) = 1
    BY <1>1 DEF OnMain
  <2> QED  BY <2>1, FS_Singleton
<1>7. NoRun \in Run /\ NoRun.at = "idle" /\ NoRun.version = NoVersion /\ NoRun.missing = {}
  BY DEF NoRun, Run, DockerSteps, Places, VersionOrNone, ChannelState, Active
<1>8. NotBelow(Released, Released)
  BY <1>2, NotBelowOrders DEF VersionOrNone
<1>9. ReleaseTypeOK
  BY <1>1, <1>2, <1>3, <1>4, <1>5, <1>6, <1>7 DEF ReleaseTypeOK
<1>10. DestinationsTyped /\ LatestIsOut
  BY <1>1, <1>2, <1>4, <1>6, ReleaseAssumption DEF DestinationsTyped, LatestIsOut
<1>11. OffersNewest
  BY <1>2, <1>3, <1>4, <1>5, <1>8 DEF OffersNewest
<1>12. ImagesFollow /\ AnnouncedIsThere
  BY <1>1, <1>2, <1>3, <1>4, <1>5, <1>8 DEF ImagesFollow, AnnouncedIsThere
<1>13. RunIsSound(runner)
  BY <1>1, <1>7 DEF RunIsSound
<1> QED  BY <1>9, <1>10, <1>11, <1>12, <1>13 DEF ReleaseInv

LEMMA ReleaseStepIsSound ==
  ASSUME ComparesByPrecedence, ReleaseInv, [ReleaseNext]_releaseVars PROVE ReleaseInv'
<1>1. CASE Proceeds
  <2>1. CASE \E from \in {"inspect", "inspectCore", "inspectRegistry"} : Inspect(from)
    BY <2>1, InspectsSoundly
  <2>2. CASE PlanCore  BY <2>2, PlansSoundly
  <2>3. CASE PublishPackage  BY <2>3, PublishesSoundly
  <2>4. CASE ConfirmPackages  BY <2>4, ConfirmsSoundly
  <2>5. CASE PushImage  BY <2>5, PushesImageSoundly
  <2>6. CASE MoveImageChannel  BY <2>6, MovesImageChannelSoundly
  <2>7. CASE CompareDigests  BY <2>7, ComparesSoundly
  <2>8. CASE PublishRegistry \/ PushTag  BY <2>8, RegistersSoundly
  <2>9. CASE PublishGitHub  BY <2>9, ReleasesSoundly
  <2>10. CASE Verify  BY <2>10, RunsEnd DEF Verify
  <2> QED  BY <1>1, <2>1, <2>2, <2>3, <2>4, <2>5, <2>6, <2>7, <2>8, <2>9, <2>10 DEF Proceeds
<1>2. CASE StopRun
  BY <1>2, RunsEnd DEF StopRun
<1>3. CASE \E v \in ReleaseVersion : PrepareVersion(v) \/ DraftRelease(v) \/ StartRun(v)
  BY <1>3, PreparesSoundly, DraftsSoundly, RunsStart
<1>4. CASE \E p \in Packages : CatchesUp(p)
  BY <1>4, CatchesUpSoundly
<1>5. CASE UNCHANGED releaseVars
  BY <1>5 DEF releaseVars, destinations, ReleaseInv, ReleaseTypeOK, DestinationsTyped, AnnouncedIsThere,
     OffersNewest, ImagesFollow, LatestIsOut, RunIsSound, SeesAllButOwn, PublishesUpwards, KnowsChannel,
     InOrder, OnMain
<1> QED  BY <1>1, <1>2, <1>3, <1>4, <1>5 DEF ReleaseNext

LEMMA ReleasesStaySound ==
  ASSUME ComparesByPrecedence PROVE ReleaseSpec => []ReleaseInv
<1>1. ReleaseInit => ReleaseInv
  BY ReleaseBegins
<1>2. ReleaseInv /\ [ReleaseNext]_releaseVars => ReleaseInv'
  BY ReleaseStepIsSound
<1> QED  BY <1>1, <1>2, PTL DEF ReleaseSpec

\* Nothing is in the way of the newest version of a channel.
LEMMA NewestIsNotStuck ==
  ASSUME ComparesByPrecedence, ReleaseInv PROVE NewestCanResume
<1> SUFFICES ASSUME shown = npm, NEW v \in OnMain, Begun(v),
                    \A w \in ReleaseVersion : Begun(w) /\ Channel(w) = Channel(v) => Precedence[w] <= Precedence[v],
                    github[v] = "draft" => v \in draftIsGood
             PROVE  ~ReleaseStuck(v)
  BY DEF NewestCanResume
<1> DEFINE c == Channel(v)
<1>1. v \in ReleaseVersion /\ c \in Channels
  BY ChannelIsOne DEF ReleaseInv, ReleaseTypeOK
\* a version of the channel that is not below it is it;
<1>2. ASSUME NEW w \in VersionOrNone, w # NoVersion => Begun(w) /\ Channel(w) = c, NotBelow(w, v)
      PROVE  w = v
  <2>1. w \in ReleaseVersion /\ Begun(w) /\ Channel(w) = c /\ Precedence[w] >= Precedence[v]
    BY <1>1, <1>2, ReleaseAssumption DEF NotBelow, VersionOrNone
  <2>2. Precedence[w] <= Precedence[v]
    BY <2>1
  <2>3. Precedence[w] = Precedence[v]
    BY <1>1, <2>1, <2>2, ReleaseAssumption
  <2> QED  BY <1>1, <2>1, <2>3 DEF ComparesByPrecedence
<1>3. ASSUME NEW p \in Packages
      PROVE  /\ TagOf(p, v) \in VersionOrNone
             /\ TagOf(p, v) # NoVersion => Begun(TagOf(p, v)) /\ Channel(TagOf(p, v)) = c
  <2>1. TagOf(p, v) = npm[p].tag[c]
    BY DEF TagOf
  <2>2. npm[p].tag[c] \in npm[p].versions \cup {NoVersion} /\ npm[p].versions \subseteq ReleaseVersion
    BY <1>1 DEF ReleaseInv, ReleaseTypeOK
  <2>3. npm[p].tag[c] # NoVersion => Channel(npm[p].tag[c]) = c
    BY <1>1 DEF ReleaseInv, OffersNewest
  <2> QED  BY <2>1, <2>2, <2>3 DEF VersionOrNone, Begun
<1>4. ASSUME NEW p \in Packages \ Missing(v) PROVE TagOf(p, v) = v
  <2>1. v \in npm[p].versions
    BY DEF Missing
  <2>2. NotBelow(TagOf(p, v), v)
    BY <2>1 DEF ReleaseInv, OffersNewest, TagOf
  <2> QED  BY <1>2, <1>3, <2>2
<1>5. ASSUME NEW p \in Packages PROVE ~Above(TagOf(p, v), v)
  <2> SUFFICES ASSUME Above(TagOf(p, v), v) PROVE FALSE
    OBVIOUS
  <2>1. NotBelow(TagOf(p, v), v) /\ TagOf(p, v) # v
    BY <1>1, <1>3, AboveIsNotBelow
  <2> QED  BY <1>2, <1>3, <2>1
<1>6. Classify(v) = Active(v)
  <2> DEFINE elsewhere == {p \in Packages \ Missing(v) : TagOf(p, v) # v}
             newer == {p \in Packages : Above(TagOf(p, v), v)}
  <2>1. elsewhere = {} /\ newer = {} /\ Packages # {}
    BY <1>4, <1>5, ReleaseAssumption
  <2> QED  BY <2>1 DEF Classify
<1>7. ~Classify(v).inconsistent /\ ~Classify(v).historical /\ Classify(v).channel = v
  BY <1>6 DEF Active
<1>8. v \in image => Missing(v) = {}
  BY <1>1 DEF ReleaseInv, AnnouncedIsThere, Missing
<1>9. ~CoreStuck(v)
  BY <1>7, <1>8 DEF CoreStuck
<1>10. ASSUME github[v] = "published"
       PROVE  v \in image /\ ChannelMatches(v) /\ v \in registered /\ v \in gitTag
  <2>1. v \in image /\ v \in registered /\ v \in gitTag /\ NotBelow(imageChannel[c], v)
    BY <1>1, <1>10 DEF ReleaseInv, AnnouncedIsThere, ImagesFollow
  <2>2. imageChannel[c] \in image \cup {NoVersion} /\ image \subseteq ReleaseVersion
    BY <1>1 DEF ReleaseInv, ReleaseTypeOK
  <2>3. imageChannel[c] # NoVersion => Begun(imageChannel[c]) /\ Channel(imageChannel[c]) = c
    <3>1. PICK p \in Packages : TRUE
      BY ReleaseAssumption
    <3>2. imageChannel[c] \in image => imageChannel[c] \in npm[p].versions
      BY <2>2 DEF ReleaseInv, AnnouncedIsThere
    <3>3. imageChannel[c] # NoVersion => Channel(imageChannel[c]) = c
      BY <1>1 DEF ReleaseInv, ImagesFollow
    <3> QED  BY <2>2, <3>2, <3>3 DEF Begun
  <2>4. imageChannel[c] = v
    BY <1>2, <2>1, <2>2, <2>3 DEF VersionOrNone
  <2> QED  BY <1>7, <2>1, <2>4 DEF ChannelMatches
<1> QED  BY <1>8, <1>9, <1>10 DEF ReleaseStuck

\* Wherever runs stop, for any packages and versions: what is announced is there, and
\* the newest version can be resumed.  compareReleaseVersions has to order versions.
THEOREM ReleasesStayWhole ==
  ASSUME ComparesByPrecedence PROVE ReleaseSpec => []ReleasesAreWhole
<1>1. ReleaseInv => ReleasesAreWhole
  BY NewestIsNotStuck DEF ReleaseInv, ReleasesAreWhole
<1> QED  BY <1>1, ReleasesStaySound, PTL

\* A step that moves a channel moves it up.
LEMMA ChannelsGoUp ==
  ASSUME ReleaseInv, [ReleaseNext]_releaseVars
  PROVE  /\ \A p \in Packages, c \in Channels : NotBelow(npm'[p].tag[c], npm[p].tag[c])
         /\ \A c \in Channels : NotBelow(imageChannel'[c], imageChannel[c])
         /\ NotBelow(latest', latest)
<1> DEFINE v == runner.version
<1>1. /\ \A p \in Packages, c \in Channels : npm[p].tag[c] \in VersionOrNone
      /\ \A c \in Channels : imageChannel[c] \in VersionOrNone
      /\ latest \in VersionOrNone
  BY DEF ReleaseInv, DestinationsTyped, ReleaseTypeOK, LatestIsOut, NpmState, VersionOrNone
<1>2. /\ \A p \in Packages, c \in Channels : NotBelow(npm[p].tag[c], npm[p].tag[c])
      /\ \A c \in Channels : NotBelow(imageChannel[c], imageChannel[c])
      /\ NotBelow(latest, latest)
  BY <1>1, NotBelowOrders
<1>3. \/ PublishPackage /\ UNCHANGED <<imageChannel, latest>>
      \/ MoveImageChannel /\ UNCHANGED <<npm, latest>>
      \/ PublishGitHub /\ UNCHANGED <<npm, imageChannel>>
      \/ UNCHANGED <<npm, imageChannel, latest>>
  BY DEF ReleaseNext, Proceeds, Inspect, PlanCore, PublishPackage, ConfirmPackages, PushImage, MoveImageChannel,
     CompareDigests, PublishRegistry, PushTag, PublishGitHub, Verify, StopRun, PrepareVersion, DraftRelease,
     StartRun, CatchesUp, releaseVars, destinations
<1>4. CASE PublishPackage /\ UNCHANGED <<imageChannel, latest>>
  <2>1. runner.at = "packages" /\ runner.at # "idle"
    BY <1>4 DEF PublishPackage
  <2>2. v \in ReleaseVersion /\ PublishesUpwards(runner)
    BY <2>1, RunIsUnderWay
  <2>3. PICK next \in runner.missing :
           /\ next \in Packages /\ v \notin npm[next].versions
           /\ \A p \in Packages : npm'[p] = IF p = next THEN Published(npm[next], v) ELSE npm[p]
    BY <1>4, PublishingMoves
  <2>4. npm[next] \in NpmState
    BY <2>3 DEF ReleaseInv, DestinationsTyped
  <2>5. NotBelow(v, npm[next].tag[Channel(v)])
    BY <2>1, <2>2, <2>3 DEF PublishesUpwards
  <2>6. \A c \in Channels : NotBelow(Published(npm[next], v).tag[c], npm[next].tag[c])
    BY <1>2, <2>2, <2>3, <2>4, <2>5, PublishedFields
  <2> QED  BY <1>2, <1>4, <2>3, <2>6
<1>5. CASE MoveImageChannel /\ UNCHANGED <<npm, latest>>
  <2>1. /\ imageChannel' = [imageChannel EXCEPT ![Channel(v)] = v] /\ DOMAIN imageChannel = Channels
    BY <1>5 DEF MoveImageChannel, ReleaseInv, ReleaseTypeOK
  <2>2. NotBelow(v, imageChannel[Channel(v)])
    BY <1>5, ImageChannelGoesUp
  <2>3. \A c \in Channels : imageChannel'[c] = IF c = Channel(v) THEN v ELSE imageChannel[c]
    BY <2>1
  <2> QED  BY <1>2, <1>5, <2>2, <2>3
<1>6. CASE PublishGitHub /\ UNCHANGED <<npm, imageChannel>>
  BY <1>2, <1>6, LatestGoesUp
<1>7. CASE UNCHANGED <<npm, imageChannel, latest>>
  BY <1>2, <1>7
<1> QED  BY <1>3, <1>4, <1>5, <1>6, <1>7

\* Users of a channel are never downgraded, whatever is resumed after whatever.
THEOREM ChannelsStayUp ==
  ASSUME ComparesByPrecedence PROVE ReleaseSpec => ChannelsNeverGoBack
<1>1. ReleaseInv /\ [ReleaseNext]_releaseVars =>
        [/\ \A p \in Packages, c \in Channels : NotBelow(npm'[p].tag[c], npm[p].tag[c])
         /\ \A c \in Channels : NotBelow(imageChannel'[c], imageChannel[c])
         /\ NotBelow(latest', latest)]_releaseVars
  BY ChannelsGoUp
<1> QED  BY <1>1, ReleasesStaySound, PTL DEF ReleaseSpec, ChannelsNeverGoBack
===============================================================================
