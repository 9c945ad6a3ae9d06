------------------------------- MODULE FileLock -------------------------------
(***************************************************************************)
(* A lock between processes made of files (storage/fileLock.ts).  It is    *)
(* held by creating a lock file exclusively; an abandoned one is removed   *)
(* under a second file, the reclaim file.  Every action is one call to the *)
(* file system, since processes on several hosts interleave there.         *)
(*                                                                         *)
(* A process is restarted after it died, with a pid of its own choosing.   *)
(***************************************************************************)
EXTENDS Integers

CONSTANTS
  Process, Host, Pid,
  HostOf,    \* the host of a process
  Null,
  Stale,     \* staleMs: the age of a lock file that other hosts may remove
  ReusesPid, \* a restarted process may get a pid a file left behind names
  Faults     \* what may go wrong: see FaultKind

FaultKind == {"crash",        \* a process dies while it holds the lock or waits
              "reclaimCrash", \* or while it removes an abandoned lock
              "io"}           \* a call to the file system, or the heartbeat, fails

ASSUME FileLockAssumption ==
  /\ Null \notin Process \cup Host \cup Pid
  /\ HostOf \in [Process -> Host]
  /\ Stale \in Nat \ {0}
  /\ ReusesPid \in BOOLEAN
  /\ Faults \subseteq FaultKind

VARIABLES
  lock,    \* the lock file
  reclaim, \* the process whose reclaim file exists; Gone if that one died
  pid,     \* per process
  pc,      \* per process: where it is in withFileLock
  then     \* per process: where it goes after removing its reclaim file

vars == <<lock, reclaim, pid, pc, then>>

Gone == "gone"

\* by: the process whose token the file has, Null when that one died; host and
\* pid: as read from the file, Null while it is empty.
LockFile == [exists : BOOLEAN, by : Process \cup {Null}, host : Host \cup {Null},
             pid : Pid \cup {Null}, age : 0..(Stale + 1)]
NoLock == [exists |-> FALSE, by |-> Null, host |-> Null, pid |-> Null, age |-> 0]

Location == {"dead", "out",                   \* not running; not in withFileLock
             "open", "write", "wait",         \* acquiring
             "recover", "mark", "judge", "stat", "remove", "unmark", \* tryRemoveAbandonedLock
             "begin", "inside",               \* startLockHeartbeat, callback
             "leave", "drop"}                 \* releaseOwnedLock

Init ==
  /\ lock = NoLock
  /\ reclaim = Null
  /\ pid = [p \in Process |-> Null]
  /\ pc = [p \in Process |-> "dead"]
  /\ then = [p \in Process |-> "out"]

Alive(p) == pc[p] # "dead"
InRecovery(p) == pc[p] \in {"mark", "judge", "stat", "remove", "unmark"}
Owns(p) == pc[p] \in {"write", "begin", "inside", "leave", "drop"}

Goto(p, l) == pc' = [pc EXCEPT ![p] = l]

-----------------------------------------------------------------------------
(* A process: its life, and its calls of withFileLock. *)

FreePid(p) ==
  {i \in Pid : /\ \A q \in Process : HostOf[q] = HostOf[p] => pid[q] # i
               /\ ReusesPid \/ lock.host # HostOf[p] \/ lock.pid # i}

Start(p) ==
  /\ pc[p] = "dead"
  /\ \E i \in FreePid(p) : pid' = [pid EXCEPT ![p] = i]
  /\ Goto(p, "out")
  /\ UNCHANGED <<lock, reclaim, then>>

\* Its files stay; nobody has their tokens any more.
Dies(p) ==
  /\ lock' = IF lock.by = p THEN [lock EXCEPT !.by = Null] ELSE lock
  /\ reclaim' = IF reclaim = p THEN Gone ELSE reclaim
  /\ pid' = [pid EXCEPT ![p] = Null]
  /\ then' = [then EXCEPT ![p] = "out"]
  /\ Goto(p, "dead")

Crash(p) ==
  /\ Alive(p)
  /\ \/ pc[p] = "out"
     \/ pc[p] # "out" /\ ~InRecovery(p) /\ "crash" \in Faults
     \/ InRecovery(p) /\ "reclaimCrash" \in Faults
  /\ Dies(p)

Call(p) == pc[p] = "out" /\ Goto(p, "open") /\ UNCHANGED <<lock, reclaim, pid, then>>

\* openSync(lockPath, 'wx').
Open(p) ==
  /\ pc[p] = "open"
  /\ IF lock.exists
       THEN Goto(p, "recover") /\ UNCHANGED lock
       ELSE Goto(p, "write") /\ lock' = [NoLock EXCEPT !.exists = TRUE, !.by = p]
  /\ UNCHANGED <<reclaim, pid, then>>

\* Its descriptor may be that of a file removed since.
Write(p) ==
  /\ pc[p] = "write"
  /\ lock' = IF lock.by = p THEN [lock EXCEPT !.host = HostOf[p], !.pid = pid[p]] ELSE lock
  /\ Goto(p, "begin")
  /\ UNCHANGED <<reclaim, pid, then>>

\* The lock was not to be had: 25 ms later again, or the time is up.
Wait(p) ==
  /\ pc[p] = "wait"
  /\ Goto(p, "open") \/ Goto(p, "out")
  /\ UNCHANGED <<lock, reclaim, pid, then>>

Begin(p) == pc[p] = "begin" /\ Goto(p, "inside") /\ UNCHANGED <<lock, reclaim, pid, then>>
Leave(p) == pc[p] = "inside" /\ Goto(p, "leave") /\ UNCHANGED <<lock, reclaim, pid, then>>

\* releaseOwnedLock reads the token,
ReadToken(p) ==
  /\ pc[p] = "leave"
  /\ Goto(p, IF lock.by = p /\ lock.host # Null THEN "drop" ELSE "out")
  /\ UNCHANGED <<lock, reclaim, pid, then>>

\* and then removes what is there.
Drop(p) ==
  /\ pc[p] = "drop"
  /\ lock' = NoLock
  /\ Goto(p, "out")
  /\ UNCHANGED <<reclaim, pid, then>>

-----------------------------------------------------------------------------
(* tryRemoveAbandonedLock. *)

\* Mutant: the reclaim file is not created exclusively.
RecoverShared(p) ==
  /\ pc[p] = "recover"
  /\ Goto(p, "mark") /\ reclaim' = p
  /\ UNCHANGED <<lock, pid, then>>

Recover(p) ==
  /\ pc[p] = "recover"
  /\ IF reclaim = Null
       THEN Goto(p, "mark") /\ reclaim' = p
       ELSE Goto(p, "wait") /\ UNCHANGED reclaim
  /\ UNCHANGED <<lock, pid, then>>

Mark(p) == pc[p] = "mark" /\ Goto(p, "judge") /\ UNCHANGED <<lock, reclaim, pid, then>>

Unmarking(p, l) == Goto(p, "unmark") /\ then' = [then EXCEPT ![p] = l]

ProcessIsRunning(h, i) == \E q \in Process : HostOf[q] = h /\ pid[q] = i /\ Alive(q)

\* canRemoveAbandonedLock: an owner on this host is looked up there,
Judge(p) ==
  /\ pc[p] = "judge"
  /\ \/ /\ lock.host = HostOf[p] /\ ProcessIsRunning(lock.host, lock.pid)
        /\ Unmarking(p, "wait")
     \/ /\ lock.host = HostOf[p] /\ ~ProcessIsRunning(lock.host, lock.pid)
        /\ Goto(p, "remove") /\ UNCHANGED then
     \/ /\ lock.host # HostOf[p]
        /\ Goto(p, "stat") /\ UNCHANGED then
  /\ UNCHANGED <<lock, reclaim, pid>>

\* Mutant: a file without an owner is never abandoned.
StatOwned(p) ==
  /\ pc[p] = "stat"
  /\ IF lock.host # Null /\ lock.age > Stale
       THEN Goto(p, "remove") /\ UNCHANGED then
       ELSE Unmarking(p, "wait")
  /\ UNCHANGED <<lock, reclaim, pid>>

\* any other, and none, is abandoned when the file has not been touched for long.
Stat(p) ==
  /\ pc[p] = "stat"
  /\ IF lock.exists /\ lock.age > Stale
       THEN Goto(p, "remove") /\ UNCHANGED then
       ELSE Unmarking(p, "wait")
  /\ UNCHANGED <<lock, reclaim, pid>>

Remove(p) ==
  /\ pc[p] = "remove"
  /\ lock' = NoLock
  /\ Unmarking(p, "open")
  /\ UNCHANGED <<reclaim, pid>>

Unmark(p) ==
  /\ pc[p] = "unmark"
  /\ reclaim' = IF reclaim = p THEN Null ELSE reclaim
  /\ Goto(p, then[p]) /\ then' = [then EXCEPT ![p] = "out"]
  /\ UNCHANGED <<lock, pid>>

-----------------------------------------------------------------------------
(* Failures, the heartbeat and time. *)

\* A call throws: what finally and catch blocks do about it.
IoFails(p) ==
  /\ "io" \in Faults
  /\ \/ pc[p] \in {"open", "recover"} /\ Goto(p, "out") /\ UNCHANGED <<lock, reclaim, then>>
     \/ pc[p] = "write" /\ lock' = NoLock /\ Goto(p, "out") /\ UNCHANGED <<reclaim, then>>
     \/ pc[p] = "mark" /\ reclaim' = Null /\ Goto(p, "out") /\ UNCHANGED <<lock, then>>
     \/ pc[p] \in {"stat", "remove"} /\ Unmarking(p, "out") /\ UNCHANGED <<lock, reclaim>>
     \/ pc[p] = "begin" /\ Goto(p, "leave") /\ UNCHANGED <<lock, reclaim, then>>
     \/ /\ pc[p] \in {"unmark", "drop"} /\ Goto(p, "out")
        /\ then' = [then EXCEPT ![p] = "out"] /\ UNCHANGED <<lock, reclaim>>
  /\ UNCHANGED pid

\* The heartbeat touches the lock file while it has the holder's token.
Beat(p) ==
  /\ pc[p] = "inside" /\ lock.by = p /\ lock.age > 0
  /\ lock' = [lock EXCEPT !.age = 0]
  /\ UNCHANGED <<reclaim, pid, pc, then>>

\* A third of Stale passes between heartbeats, and less for the calls around them:
\* no process stops for longer than Stale while it owns the lock.
Tick ==
  /\ lock.exists /\ lock.age <= Stale
  /\ \A p \in Process : Owns(p) /\ lock.by = p => lock.age < Stale
  /\ lock' = [lock EXCEPT !.age = @ + 1]
  /\ UNCHANGED <<reclaim, pid, pc, then>>

-----------------------------------------------------------------------------
Acquiring(p) == Open(p) \/ Write(p) \/ Wait(p) \/ Begin(p)
Recovering(p) == Recover(p) \/ Mark(p) \/ Judge(p) \/ Stat(p) \/ Remove(p) \/ Unmark(p)
Releasing(p) == ReadToken(p) \/ Drop(p)

Step(p) == Call(p) \/ Acquiring(p) \/ Recovering(p) \/ Leave(p) \/ Releasing(p)

Next == \/ \E p \in Process : Start(p) \/ Crash(p) \/ Step(p) \/ IoFails(p) \/ Beat(p)
        \/ Tick

Spec == Init /\ [][Next]_vars

\* Processes are started again, call again and get on; time passes.
Fairness ==
  /\ \A p \in Process : WF_vars(Start(p)) /\ WF_vars(Step(p)) /\ WF_vars(Beat(p))
  /\ WF_vars(Tick)

FairSpec == Spec /\ Fairness

-----------------------------------------------------------------------------
(* Properties. *)

TypeOK ==
  /\ lock \in LockFile
  /\ reclaim \in Process \cup {Null, Gone}
  /\ pid \in [Process -> Pid \cup {Null}]
  /\ pc \in [Process -> Location]
  /\ then \in [Process -> {"out", "open", "wait"}]

\* Processes that hold the lock: from here on they run the callback.
Holders == {p \in Process : pc[p] \in {"begin", "inside"}}

\* withFileLock runs one callback at a time, whatever processes die or fail, on
\* however many hosts.
MutualExclusion == \A p, q \in Holders : p = q

\* It implements a lock: nobody enters before the one inside has left or died.
Abstract == INSTANCE Mutex WITH holders <- Holders
ImplementsMutex == Abstract!Spec

\* Processes that stop dying recover an abandoned lock.
LockIsRecovered ==
  <>[][\A p \in Process : ~Crash(p)]_vars
    => ((lock.exists /\ lock.by = Null) ~> (lock.by # Null \/ ~lock.exists))

\* They do where none has died or failed with its reclaim file in place, and none has
\* got the pid of the owner.
ReclaimFileIsLeft == reclaim # Null /\ (reclaim = Gone \/ ~InRecovery(reclaim))
PidIsReused == lock.by = Null /\ ProcessIsRunning(lock.host, lock.pid)

AbandonedLockIsRecovered ==
  /\ <>[][\A p \in Process : ~Crash(p) /\ ~IoFails(p)]_vars
  /\ <>[](~ReclaimFileIsLeft /\ ~PidIsReused)
  => ((lock.exists /\ lock.by = Null) ~> (lock.by # Null \/ ~lock.exists))
=============================================================================
