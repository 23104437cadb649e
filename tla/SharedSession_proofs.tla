------------------------ MODULE SharedSession_proofs ------------------------
(***************************************************************************)
(* SharedSession for every set of processes and every value of the time    *)
(* limits: types, the lock discipline, one browser flow at a time, and the *)
(* implementation of SessionCache when no lock file is left behind.        *)
(***************************************************************************)
EXTENDS SharedSession, TLAPS

-----------------------------------------------------------------------------
(* Types *)

\* The conjuncts of TypeOK about files, sessions and counters, and about the
\* processes.
FilesOK ==
  /\ now \in Nat /\ mtime \in Nat /\ mtime <= now
  /\ lock \in Tasks \cup {NoOwner}
  /\ cred \in {0} \cup Session
  /\ expiresAt \in [Session -> Nat]
  /\ live \subseteq Session
  /\ logins \in 0..MaxLogins
  /\ orphans \in 0..MaxOrphans

LocalOK(r) == r \in Proc /\ (NeedsToken(r) => r.token # 0)

ProcsOK ==
  /\ proc \in [Tasks -> Proc]
  /\ \A p \in Tasks : LocalOK(proc[p])

\* TypeOK is the two groups together.
LEMMA TypeParts == TypeOK <=> FilesOK /\ ProcsOK
BY DEF TypeOK, FilesOK, ProcsOK, LocalOK

\* A process moves to a well-formed state; the others stay.
LEMMA MoveOK ==
  ASSUME ProcsOK, NEW p \in Tasks, NEW r, LocalOK(r), Move(p, r)
  PROVE  ProcsOK'
BY DEF ProcsOK, Move, LocalOK, NeedsToken

\* The helpers that move a process leave it well formed.
LEMMA GotoOK ==
  ASSUME ProcsOK, NEW p \in Tasks, NEW label \in PC, Goto(p, label),
         label \in {"use", "write", "invLock", "invRead", "invUnlink", "revoke"}
           => proc[p].token # 0
  PROVE  ProcsOK'
<1> DEFINE r == [proc[p] EXCEPT !.pc = label]
<1>1. proc[p] \in Proc /\ LocalOK(proc[p])
  BY DEF ProcsOK
<1>2. LocalOK(r)
  BY <1>1 DEF LocalOK, Proc, NeedsToken
<1>3. QED
  BY <1>2, MoveOK DEF Goto

\* Returning to the caller.
LEMMA ReturnOK == ASSUME ProcsOK, NEW p \in Tasks, Return(p) PROVE ProcsOK'
<1>1. LocalOK(Idle)
  BY DEF LocalOK, Idle, Proc, PC, NeedsToken
<1>2. QED
  BY <1>1, MoveOK DEF Return

\* Releasing the lock, with a session in hand where one is needed.
LEMMA ReleaseThenOK ==
  ASSUME ProcsOK, NEW p \in Tasks,
         NEW label \in {"idle", "use", "again", "revoke"}, ReleaseThen(p, label),
         label \in {"use", "revoke"} => proc[p].token # 0
  PROVE  ProcsOK'
<1> DEFINE r == [proc[p] EXCEPT !.pc = "relRead", !.after = label]
<1>1. proc[p] \in Proc
  BY DEF ProcsOK
<1>2. LocalOK(r)
  BY <1>1 DEF LocalOK, Proc, PC, Owning, NeedsToken
<1>3. QED
  BY <1>2, MoveOK DEF ReleaseThen

\* Going on after releasing or polling the lock.
LEMMA ContinueOK == ASSUME ProcsOK, NEW p \in Tasks, Continue(p) PROVE ProcsOK'
<1> DEFINE r == [proc[p] EXCEPT !.pc = proc[p].after, !.after = "idle"]
<1>1. proc[p] \in Proc /\ LocalOK(proc[p])
  BY DEF ProcsOK
<1>2. LocalOK(r)
  BY <1>1 DEF LocalOK, Proc, PC, Owning, NeedsToken
<1>3. QED
  BY <1>2, MoveOK, ReturnOK DEF Continue

\* Steps that leave the processes alone.
LEMMA UnchangedOK == ProcsOK /\ UNCHANGED proc => ProcsOK'
BY DEF ProcsOK, LocalOK, NeedsToken

\* The initial state is well typed.
LEMMA TypeInit == Init => TypeOK
<1> SUFFICES ASSUME Init PROVE FilesOK /\ ProcsOK
  BY TypeParts
<1>1. FilesOK
  BY SharedSessionAssumption DEF Init, FilesOK, Session
<1>2. LocalOK(Idle)
  BY DEF LocalOK, Idle, Proc, PC, NeedsToken
<1>3. ProcsOK
  BY <1>2 DEF Init, ProcsOK, LocalOK
<1>4. QED
  BY <1>1, <1>3

\* Files, sessions and counters keep their types.
LEMMA FilesStep == FilesOK /\ ProcsOK /\ [Next]_vars => FilesOK'
<1> SUFFICES ASSUME FilesOK, ProcsOK, [Next]_vars PROVE FilesOK'
  OBVIOUS
<1> USE SharedSessionAssumption DEF FilesOK, lockFile, gateway
<1>1. \A p \in Tasks : proc[p].token \in {0} \cup Session
  BY DEF ProcsOK, LocalOK, Proc
<1>2. ASSUME NEW c \in Connectors, Start(c) \/ ConnectorStep(c) PROVE FilesOK'
  <2>1. CASE LoginSucceeds(c)
    <3>0. logins \in Nat /\ logins < MaxLogins /\ now \in Nat /\ Lifetime \in Nat
      BY <2>1 DEF LoginSucceeds
    <3>1. /\ logins + 1 \in Session /\ now + Lifetime \in Nat
          /\ logins + 1 \in 0..MaxLogins
      BY <3>0 DEF Session
    <3>2. expiresAt' \in [Session -> Nat]
      BY <2>1, <3>1 DEF LoginSucceeds
    <3>3. live' \subseteq Session /\ logins' \in 0..MaxLogins
      BY <2>1, <3>1 DEF LoginSucceeds
    <3>4. UNCHANGED <<now, mtime, lock, cred, orphans>>
      BY <2>1 DEF LoginSucceeds
    <3>5. QED
      BY <3>2, <3>3, <3>4
  <2>2. CASE Write(c)
    BY <2>2, <1>1 DEF Write, Tasks
  <2>3. QED
    BY <1>2, <2>1, <2>2
       DEF ConnectorStep, Start, Read, Recheck, LoginFails, Use
<1>3. ASSUME NEW q \in Logouts, Logout(q) \/ LogoutStep(q) PROVE FilesOK'
  BY <1>3 DEF Logout, LogoutStep, ClearRead, ClearUnlink, Revoke
<1>4. ASSUME NEW p \in Tasks, LockStep(p) \/ LockWriteFails(p) \/ Crash(p)
      PROVE  FilesOK'
  <2>1. CASE LockStep(p)
    BY <2>1 DEF LockStep, AcquireLock, FindLocked, InvalidateTimesOut,
                ReleaseRead, ReleaseUnlink, StatLock, UnlinkStale,
                InvalidateRead, InvalidateUnlink
  <2>2. CASE LockWriteFails(p)
    BY <2>2 DEF LockWriteFails
  <2>3. CASE Crash(p)
    BY <2>3 DEF Crash
  <2>4. QED
    BY <1>4, <2>1, <2>2, <2>3
<1>5. ASSUME NEW s \in Session, GatewayDrops(s) PROVE FilesOK'
  BY <1>5 DEF GatewayDrops
<1>6. CASE Tick
  BY <1>6 DEF Tick
<1>7. CASE UNCHANGED vars
  BY <1>7 DEF vars
<1>8. QED
  BY <1>2, <1>3, <1>4, <1>5, <1>6, <1>7 DEF Next

\* Processes keep a well-formed state.
LEMMA ProcsStep == FilesOK /\ ProcsOK /\ [Next]_vars => ProcsOK'
<1> SUFFICES ASSUME FilesOK, ProcsOK, [Next]_vars PROVE ProcsOK'
  OBVIOUS
<1> USE SharedSessionAssumption
<1>1. \A p \in Tasks : proc[p] \in Proc /\ LocalOK(proc[p])
  BY DEF ProcsOK
<1>2. WaitUntil \in Nat
  BY DEF WaitUntil, FilesOK
<1>3. ASSUME NEW c \in Connectors, Start(c) PROVE ProcsOK'
  <2> DEFINE r == [Idle EXCEPT !.pc = "read", !.deadline = WaitUntil,
                               !.retried = (proc[c].pc = "again")]
  <2>1. LocalOK(r)
    BY <1>2 DEF LocalOK, Idle, Proc, PC, NeedsToken
  <2>2. QED
    BY <1>3, <2>1, MoveOK DEF Start, Tasks
<1>4. ASSUME NEW c \in Connectors, ConnectorStep(c) PROVE ProcsOK'
  <2>0. c \in Tasks
    BY DEF Tasks
  <2>1. CASE Read(c)
    <3> DEFINE r == [proc[c] EXCEPT !.pc = "use", !.token = cred]
    <3>1. Usable => LocalOK(r)
      BY <1>1, <2>0 DEF Usable, FilesOK, LocalOK, Proc, PC, NeedsToken
    <3>2. QED
      BY <2>0, <2>1, <3>1, MoveOK, ReturnOK, GotoOK DEF Read, PC
  <2>2. CASE Recheck(c)
    <3> DEFINE r == [proc[c] EXCEPT !.pc = "relRead", !.after = "use",
                                    !.token = cred]
    <3>1. Usable => LocalOK(r)
      BY <1>1, <2>0 DEF Usable, FilesOK, LocalOK, Proc, PC, Owning, NeedsToken
    <3>2. QED
      BY <2>0, <2>2, <3>1, MoveOK, GotoOK DEF Recheck, PC, Owning
  <2>3. CASE LoginSucceeds(c)
    <3> DEFINE r == [proc[c] EXCEPT !.pc = "write", !.token = logins + 1]
    <3>0. logins \in Nat /\ logins < MaxLogins
      BY <2>3 DEF LoginSucceeds, FilesOK
    <3>1. logins + 1 \in Session /\ logins + 1 # 0
      BY <3>0, SharedSessionAssumption DEF Session
    <3>2. LocalOK(r)
      BY <1>1, <2>0, <3>1 DEF LocalOK, Proc, PC, Owning, NeedsToken
    <3>3. QED
      BY <2>0, <2>3, <3>2, MoveOK DEF LoginSucceeds
  <2>4. CASE LoginFails(c)
    BY <2>0, <2>4, ReleaseThenOK DEF LoginFails
  <2>5. CASE Write(c)
    <3>1. proc[c].token # 0
      BY <1>1, <2>0, <2>5 DEF Write, LocalOK, NeedsToken
    <3>2. QED
      BY <2>0, <2>5, <3>1, ReleaseThenOK DEF Write
  <2>6. CASE Use(c)
    <3> DEFINE r == [proc[c] EXCEPT !.pc = "invLock", !.deadline = WaitUntil]
    <3>1. LocalOK(r)
      BY <1>1, <1>2, <2>0, <2>6 DEF Use, LocalOK, Proc, PC, NeedsToken
    <3>2. QED
      BY <2>0, <2>6, <3>1, MoveOK, ReturnOK DEF Use
  <2>7. QED
    BY <1>3, <1>4, <2>1, <2>2, <2>3, <2>4, <2>5, <2>6 DEF ConnectorStep
<1>5. ASSUME NEW q \in Logouts, Logout(q) \/ LogoutStep(q) PROVE ProcsOK'
  <2>0. q \in Tasks
    BY DEF Tasks
  <2>1. CASE Logout(q)
    BY <2>0, <2>1, GotoOK DEF Logout, PC
  <2>2. CASE ClearRead(q)
    <3> DEFINE r == [proc[q] EXCEPT !.pc = "invLock", !.token = cred,
                                    !.deadline = WaitUntil]
    <3>1. cred # 0 => LocalOK(r)
      BY <1>1, <1>2, <2>0 DEF FilesOK, LocalOK, Proc, PC, NeedsToken
    <3>2. QED
      BY <2>0, <2>2, <3>1, MoveOK, GotoOK DEF ClearRead, PC
  <2>3. CASE ClearUnlink(q) \/ Revoke(q)
    BY <2>0, <2>3, ReturnOK DEF ClearUnlink, Revoke
  <2>4. QED
    BY <1>5, <2>1, <2>2, <2>3 DEF LogoutStep
<1>6. ASSUME NEW p \in Tasks, LockStep(p) PROVE ProcsOK'
  <2>1. CASE AcquireLock(p)
    <3>1. proc[p].pc = "invLock" => proc[p].token # 0
      BY <1>1 DEF LocalOK, NeedsToken
    <3>2. QED
      BY <2>1, <3>1, GotoOK DEF AcquireLock, Trying, PC, Owning
  <2>2. CASE FindLocked(p)
    <3> DEFINE r == [proc[p] EXCEPT !.pc = "stat",
                       !.after = IF proc[p].pc = "lock" THEN "read" ELSE "invLock"]
    <3>1. LocalOK(r)
      BY <1>1, <2>2 DEF FindLocked, Trying, LocalOK, Proc, PC, NeedsToken
    <3>2. QED
      BY <2>2, <3>1, MoveOK DEF FindLocked
  <2>3. CASE InvalidateTimesOut(p)
    BY <2>3, ReturnOK DEF InvalidateTimesOut
  <2>4. CASE ReleaseRead(p) \/ ReleaseUnlink(p) \/ StatLock(p) \/ UnlinkStale(p)
    BY <2>4, GotoOK, ContinueOK
       DEF ReleaseRead, ReleaseUnlink, StatLock, UnlinkStale, PC, Owning
  <2>5. CASE InvalidateRead(p) \/ InvalidateUnlink(p)
    <3>1. proc[p].token # 0
      BY <1>1, <2>5
         DEF InvalidateRead, InvalidateUnlink, LocalOK, NeedsToken
    <3>2. QED
      BY <2>5, <3>1, GotoOK, ReleaseThenOK
         DEF InvalidateRead, InvalidateUnlink, PC, Owning
  <2>6. QED
    BY <1>6, <2>1, <2>2, <2>3, <2>4, <2>5 DEF LockStep
<1>7. ASSUME NEW p \in Tasks, LockWriteFails(p) \/ Crash(p) PROVE ProcsOK'
  BY <1>7, ReturnOK DEF LockWriteFails, Crash
<1>8. CASE (\E s \in Session : GatewayDrops(s)) \/ Tick \/ UNCHANGED vars
  BY <1>8, UnchangedOK DEF GatewayDrops, Tick, vars
<1>9. QED
  BY <1>3, <1>4, <1>5, <1>6, <1>7, <1>8 DEF Next

\* Every reachable state is well typed, and a process that uses, writes,
\* rejects or revokes a session has one in hand.
THEOREM TypeCorrect == Spec => []TypeOK
<1>1. Init => TypeOK
  BY TypeInit
<1>2. TypeOK /\ [Next]_vars => TypeOK'
  <2>1. TypeOK /\ [Next]_vars => (FilesOK /\ ProcsOK)'
    BY TypeParts, FilesStep, ProcsStep
  <2>2. (FilesOK /\ ProcsOK)' => TypeOK'
    BY DEF TypeOK, FilesOK, ProcsOK, LocalOK
  <2>3. QED
    BY <2>1, <2>2
<1>3. QED
  BY <1>1, <1>2, PTL DEF Spec

-----------------------------------------------------------------------------
(* The lock discipline *)

\* LockDiscipline with the bound that makes it inductive: a lock file is not
\* only younger than LockStale, its owner is within HoldLimit.
Guarded ==
  orphans = 0 =>
    /\ \A p \in Tasks : proc[p].pc \in Owning <=> lock = p
    /\ lock # NoOwner => now <= mtime + HoldLimit
    /\ \A p \in Tasks : proc[p].pc # "unlinkStale"

IInv == TypeOK /\ Guarded

\* Only process p takes the step.
Alone(p) == \A q \in Tasks : q # p => proc'[q] = proc[q]

\* Where a process is after each of the helpers that move it.
LEMMA GotoPc ==
  ASSUME ProcsOK, NEW p \in Tasks, NEW label, Goto(p, label)
  PROVE  Alone(p) /\ proc'[p].pc = label
BY DEF ProcsOK, Goto, Move, Proc, Alone

\* A process moves to record r.
LEMMA MovePc ==
  ASSUME ProcsOK, NEW p \in Tasks, NEW r, Move(p, r)
  PROVE  Alone(p) /\ proc'[p] = r
BY DEF ProcsOK, Move, Alone

\* It returns.
LEMMA ReturnPc ==
  ASSUME ProcsOK, NEW p \in Tasks, Return(p)
  PROVE  Alone(p) /\ proc'[p].pc = "idle"
BY MovePc DEF Return, Idle

\* It releases its lock.
LEMMA ReleaseThenPc ==
  ASSUME ProcsOK, NEW p \in Tasks, NEW label, ReleaseThen(p, label)
  PROVE  Alone(p) /\ proc'[p].pc = "relRead"
BY DEF ProcsOK, ReleaseThen, Move, Proc, Alone

\* It goes on, outside its critical section.
LEMMA ContinuePc ==
  ASSUME ProcsOK, NEW p \in Tasks, Continue(p)
  PROVE  /\ Alone(p)
         /\ proc'[p].pc \notin Owning
         /\ proc'[p].pc # "unlinkStale"
<1>1. CASE proc[p].after = "idle"
  BY <1>1, ReturnPc DEF Continue, Owning
<1>2. CASE proc[p].after # "idle"
  <2>1. proc[p] \in Proc
    BY DEF ProcsOK
  <2>2. Alone(p) /\ proc'[p].pc = proc[p].after
    BY <1>2, <2>1 DEF Continue, Move, ProcsOK, Alone, Proc
  <2>3. QED
    BY <2>1, <2>2 DEF Proc, Owning
<1>3. QED
  BY <1>1, <1>2

\* A step that neither touches the lock file nor enters or leaves a critical
\* section.
LEMMA GuardedKept ==
  ASSUME Guarded, UNCHANGED <<now, lockFile, orphans>>, NEW p \in Tasks, Alone(p),
         proc'[p].pc \in Owning <=> proc[p].pc \in Owning,
         proc'[p].pc # "unlinkStale"
  PROVE  Guarded'
BY DEF Guarded, Alone, lockFile

\* The owner removes its lock file and leaves its critical section.
LEMMA GuardedReleased ==
  ASSUME TypeOK, Guarded, NEW p \in Tasks, Alone(p), proc[p].pc \in Owning,
         proc'[p].pc \notin Owning, proc'[p].pc # "unlinkStale",
         lock' = NoOwner, UNCHANGED orphans
  PROVE  Guarded'
BY SharedSessionAssumption DEF Guarded, Alone

\* A process creates the lock file and enters its critical section.
LEMMA GuardedAcquired ==
  ASSUME TypeOK, Guarded, NEW p \in Tasks, Alone(p), lock = NoOwner, lock' = p,
         mtime' = now, proc'[p].pc \in Owning, UNCHANGED <<now, orphans>>
  PROVE  Guarded'
BY SharedSessionAssumption DEF Guarded, Alone, TypeOK, Owning

\* In a guarded state nobody finds a stale lock file.
LEMMA NobodyStale ==
  ASSUME TypeOK, Guarded, orphans = 0, lock # NoOwner
  PROVE  ~(now > mtime + LockStale)
BY SharedSessionAssumption DEF TypeOK, Guarded

\* Every step keeps the discipline.
LEMMA GuardedStep == TypeOK /\ Guarded /\ [Next]_vars => Guarded'
<1> SUFFICES ASSUME TypeOK, Guarded, [Next]_vars PROVE Guarded'
  OBVIOUS
<1>0. ProcsOK
  BY TypeParts
<1>1. ASSUME NEW c \in Connectors, Start(c) \/ ConnectorStep(c) PROVE Guarded'
  <2>0. c \in Tasks
    BY DEF Tasks
  <2>1. CASE Start(c)
    BY <1>0, <2>0, <2>1, GuardedKept DEF Start, Idle, Owning, Move, ProcsOK, Alone
  <2>2. CASE Read(c)
    <3>1. proc[c] \in Proc
      BY <1>0, <2>0 DEF ProcsOK
    <3>2. Alone(c) /\ proc'[c].pc \in {"idle", "use", "lock"}
      <4>1. CASE Return(c)
        BY <1>0, <2>0, <4>1, ReturnPc
      <4>2. CASE Goto(c, "lock")
        BY <1>0, <2>0, <4>2, GotoPc
      <4>3. CASE Move(c, [proc[c] EXCEPT !.pc = "use", !.token = cred])
        <5>1. Alone(c) /\ proc'[c] = [proc[c] EXCEPT !.pc = "use", !.token = cred]
          BY <1>0, <2>0, <4>3, MovePc
        <5>2. QED
          BY <3>1, <5>1 DEF Proc
      <4>4. QED
        BY <2>2, <4>1, <4>2, <4>3 DEF Read
    <3>3. QED
      BY <2>0, <2>2, <3>2, GuardedKept DEF Read, Owning
  <2>3. CASE Recheck(c)
    <3>1. proc[c] \in Proc
      BY <1>0, <2>0 DEF ProcsOK
    <3>2. Alone(c) /\ proc'[c].pc \in {"relRead", "login"}
      <4>1. CASE Goto(c, "login")
        BY <1>0, <2>0, <4>1, GotoPc
      <4>2. CASE Move(c, [proc[c] EXCEPT !.pc = "relRead", !.after = "use",
                                         !.token = cred])
        <5>1. /\ Alone(c)
              /\ proc'[c] = [proc[c] EXCEPT !.pc = "relRead", !.after = "use",
                                            !.token = cred]
          BY <1>0, <2>0, <4>2, MovePc
        <5>2. QED
          BY <3>1, <5>1 DEF Proc
      <4>3. QED
        BY <2>3, <4>1, <4>2 DEF Recheck
    <3>3. QED
      BY <2>0, <2>3, <3>2, GuardedKept DEF Recheck, Owning
  <2>4. CASE LoginSucceeds(c)
    <3>1. proc[c] \in Proc
      BY <1>0, <2>0 DEF ProcsOK
    <3>2. Alone(c) /\ proc'[c].pc = "write"
      <4>1. Alone(c) /\ proc'[c] = [proc[c] EXCEPT !.pc = "write", !.token = logins + 1]
        BY <1>0, <2>0, <2>4, MovePc DEF LoginSucceeds
      <4>2. QED
        BY <3>1, <4>1 DEF Proc
    <3>3. QED
      BY <2>0, <2>4, <3>2, GuardedKept DEF LoginSucceeds, Owning
  <2>5. CASE LoginFails(c) \/ Write(c)
    <3>1. Alone(c) /\ proc'[c].pc = "relRead"
      BY <1>0, <2>0, <2>5, ReleaseThenPc DEF LoginFails, Write
    <3>2. QED
      BY <2>0, <2>5, <3>1, GuardedKept DEF LoginFails, Write, Owning
  <2>6. CASE Use(c)
    <3>1. proc[c] \in Proc
      BY <1>0, <2>0 DEF ProcsOK
    <3>2. Alone(c) /\ proc'[c].pc \in {"idle", "invLock"}
      BY <1>0, <2>0, <2>6, <3>1, ReturnPc DEF Use, Proc, Move, ProcsOK, Alone
    <3>3. QED
      BY <2>0, <2>6, <3>2, GuardedKept DEF Use, Owning
  <2>7. QED
    BY <1>1, <2>1, <2>2, <2>3, <2>4, <2>5, <2>6 DEF ConnectorStep
<1>2. ASSUME NEW q \in Logouts, Logout(q) \/ LogoutStep(q) PROVE Guarded'
  <2>0. q \in Tasks /\ proc[q] \in Proc
    BY <1>0 DEF Tasks, ProcsOK
  <2>1. Alone(q) /\ proc'[q].pc \in {"clearRead", "clearUnlink", "invLock", "idle"}
    <3>1. CASE Logout(q)
      BY <1>0, <2>0, <3>1, GotoPc DEF Logout
    <3>2. CASE ClearRead(q)
      <4>1. CASE cred = 0
        BY <1>0, <2>0, <3>2, <4>1, GotoPc DEF ClearRead
      <4>2. CASE cred # 0
        BY <1>0, <2>0, <3>2, <4>2 DEF ClearRead, Proc, Move, ProcsOK, Alone
      <4>3. QED
        BY <4>1, <4>2
    <3>3. CASE ClearUnlink(q) \/ Revoke(q)
      BY <1>0, <2>0, <3>3, ReturnPc DEF ClearUnlink, Revoke
    <3>4. QED
      BY <1>2, <3>1, <3>2, <3>3 DEF LogoutStep
  <2>2. proc[q].pc \in {"idle", "clearRead", "clearUnlink", "revoke"}
    BY <1>2 DEF Logout, LogoutStep, ClearRead, ClearUnlink, Revoke
  <2>3. UNCHANGED <<now, lockFile, orphans>>
    BY <1>2 DEF Logout, LogoutStep, ClearRead, ClearUnlink, Revoke
  <2>4. QED
    BY <2>0, <2>1, <2>2, <2>3, GuardedKept DEF Owning
<1>3. ASSUME NEW p \in Tasks, LockStep(p) PROVE Guarded'
  <2>0. proc[p] \in Proc
    BY <1>0 DEF ProcsOK
  <2>1. CASE AcquireLock(p)
    <3>1. Alone(p) /\ proc'[p].pc \in {"recheck", "invRead"}
      BY <1>0, <2>1, GotoPc DEF AcquireLock
    <3>2. QED
      BY <2>1, <3>1, GuardedAcquired DEF AcquireLock, Owning
  <2>2. CASE FindLocked(p) \/ InvalidateTimesOut(p)
    <3>1. Alone(p) /\ proc'[p].pc \in {"stat", "idle"}
      <4>1. CASE InvalidateTimesOut(p)
        BY <1>0, <4>1, ReturnPc DEF InvalidateTimesOut
      <4>2. CASE FindLocked(p)
        <5>1. PICK after : Move(p, [proc[p] EXCEPT !.pc = "stat", !.after = after])
          BY <4>2 DEF FindLocked
        <5>2. Alone(p) /\ proc'[p] = [proc[p] EXCEPT !.pc = "stat", !.after = after]
          BY <1>0, <5>1, MovePc
        <5>3. QED
          BY <2>0, <5>2 DEF Proc
      <4>3. QED
        BY <2>2, <4>1, <4>2
    <3>2. QED
      BY <2>2, <3>1, GuardedKept
         DEF FindLocked, InvalidateTimesOut, Trying, Owning
  <2>3. CASE ReleaseRead(p)
    <3>1. CASE lock = p
      <4>1. Alone(p) /\ proc'[p].pc = "relUnlink"
        BY <1>0, <2>3, <3>1, GotoPc DEF ReleaseRead
      <4>2. QED
        BY <2>3, <4>1, GuardedKept DEF ReleaseRead, Owning
    <3>2. CASE orphans # 0
      BY <2>3, <3>2 DEF Guarded, ReleaseRead
    <3>3. QED
      BY <2>3, <3>1, <3>2 DEF Guarded, ReleaseRead, Owning
  <2>4. CASE ReleaseUnlink(p)
    <3>1. Continue(p)
      BY <2>4 DEF ReleaseUnlink
    <3>2. Alone(p) /\ proc'[p].pc \notin Owning /\ proc'[p].pc # "unlinkStale"
      BY <1>0, <3>1, ContinuePc
    <3>3. QED
      BY <2>4, <3>2, GuardedReleased DEF ReleaseUnlink, Owning
  <2>5. CASE StatLock(p)
    <3>1. CASE orphans # 0
      BY <2>5, <3>1 DEF Guarded, StatLock
    <3>2. CASE orphans = 0
      <4>1. Continue(p)
        BY <2>5, <3>2, NobodyStale DEF StatLock
      <4>2. Alone(p) /\ proc'[p].pc \notin Owning /\ proc'[p].pc # "unlinkStale"
        BY <1>0, <4>1, ContinuePc
      <4>3. QED
        BY <2>5, <4>2, GuardedKept DEF StatLock, Owning
    <3>3. QED
      BY <3>1, <3>2
  <2>6. CASE UnlinkStale(p)
    BY <2>6 DEF Guarded, UnlinkStale
  <2>7. CASE InvalidateRead(p) \/ InvalidateUnlink(p)
    <3>1. Alone(p) /\ proc'[p].pc \in {"invUnlink", "relRead"}
      BY <1>0, <2>7, GotoPc, ReleaseThenPc DEF InvalidateRead, InvalidateUnlink
    <3>2. QED
      BY <2>7, <3>1, GuardedKept DEF InvalidateRead, InvalidateUnlink, Owning
  <2>8. QED
    BY <1>3, <2>1, <2>2, <2>3, <2>4, <2>5, <2>6, <2>7 DEF LockStep
<1>4. ASSUME NEW p \in Tasks, LockWriteFails(p) \/ Crash(p) PROVE Guarded'
  <2>1. CASE orphans' # 0
    BY <2>1 DEF Guarded
  <2>2. CASE orphans' = 0
    <3>1. /\ Crash(p) /\ proc[p].pc \notin Owning
          /\ UNCHANGED <<now, lockFile, orphans>>
      BY <1>4, <2>2 DEF LockWriteFails, Crash, TypeOK, lockFile
    <3>2. Alone(p) /\ proc'[p].pc = "idle"
      BY <1>0, <3>1, ReturnPc DEF Crash
    <3>3. QED
      BY <3>1, <3>2, GuardedKept DEF Owning
  <2>3. QED
    BY <2>1, <2>2
<1>5. CASE Tick
  <2>1. SUFFICES ASSUME orphans = 0, lock # NoOwner
                 PROVE  now + 1 <= mtime + HoldLimit
    BY <1>5, <2>1 DEF Tick, Guarded, lockFile
  <2>2. lock \in Tasks /\ proc[lock].pc \in Owning
    BY <2>1 DEF TypeOK, Guarded
  <2>3. now < mtime + HoldLimit
    BY <1>5, <2>2 DEF Tick
  <2>4. QED
    BY <2>3, SharedSessionAssumption DEF TypeOK
<1>6. CASE (\E s \in Session : GatewayDrops(s)) \/ UNCHANGED vars
  BY <1>6 DEF GatewayDrops, Guarded, vars, lockFile
<1>7. QED
  BY <1>1, <1>2, <1>3, <1>4, <1>5, <1>6 DEF Next

\* The discipline holds initially.
LEMMA GuardedInit == Init => Guarded
BY SharedSessionAssumption DEF Init, Guarded, Idle, Owning

\* Types and the lock discipline together are an invariant of every step.
THEOREM Inductive == Spec => []IInv
<1>1. Init => IInv
  BY TypeInit, GuardedInit DEF IInv
<1>2. TypeOK /\ Guarded /\ [Next]_vars => Guarded'
  BY GuardedStep
<1>3. QED
  BY <1>1, <1>2, TypeCorrect, GuardedInit, PTL DEF IInv, Spec

\* While nothing is left behind, the lock file says who is in the critical
\* section and nobody takes it away (sharedSession.ts:168-188, 254-270).
THEOREM LockIsDisciplined == Spec => []LockDiscipline
<1>1. IInv => LockDiscipline
  BY SharedSessionAssumption DEF IInv, TypeOK, Guarded, LockDiscipline
<1>2. QED
  BY <1>1, Inductive, PTL

\* While nothing is left behind, at most one browser flow is open
\* (components/mcp-credential-broker/README.md:107).
THEOREM FlowsAreExclusive == Spec => []OneBrowserFlow
<1>1. IInv => OneBrowserFlow
  BY SharedSessionAssumption
     DEF IInv, TypeOK, Guarded, OneBrowserFlow, Flows, Owning, Tasks
<1>2. QED
  BY <1>1, Inductive, PTL

-----------------------------------------------------------------------------
(* SharedSession implements SessionCache when no lock file is left behind *)

\* A process that is about to remove, or poll in order to remove, a session.
Rejecting(r) ==
  r.pc \in {"invLock", "invRead", "invUnlink"} \/ r.after = "invLock"

\* A process that goes on where "after" says once it has released or polled the
\* lock.
Passing(r) == r.pc \in {"relRead", "relUnlink", "stat", "unlinkStale"}

\* What a process knows of the session in its hand: it exists; it is the newest
\* one if it is about to be written; it is the only one the file can hold if
\* the file is about to go; the Gateway no longer accepts it if a connector
\* rejects it.
KnownBy(p) ==
  /\ proc[p].token <= logins
  /\ proc[p].pc = "write" => proc[p].token = logins
  /\ proc[p].pc = "invUnlink" => cred \in {0, proc[p].token}
  /\ p \in Connectors /\ Rejecting(proc[p]) => ~Accepted(proc[p].token)
  /\ Passing(proc[p]) \/ proc[p].after = "idle"

Known ==
  /\ live \subseteq 1..logins
  /\ cred <= logins
  /\ \A p \in Tasks : KnownBy(p)

\* A step of one process keeps what the others know, provided that sessions
\* never become acceptable again and that only a lock owner creates a session
\* or writes one to the file.
LEMMA KnownKept ==
  ASSUME TypeOK, Guarded, orphans = 0, Known, NEW p \in Tasks, Alone(p),
         logins' \in Nat, logins <= logins',
         \A s \in 0..logins : Accepted(s)' => Accepted(s),
         logins' = logins \/ proc[p].pc \in Owning,
         cred' \in {0, cred} \/ proc[p].pc \in Owning,
         live' \subseteq 1..logins', cred' <= logins',
         KnownBy(p)'
  PROVE  Known'
<1>1. ASSUME NEW q \in Tasks, q # p PROVE KnownBy(q)'
  <2>1. proc'[q] = proc[q] /\ KnownBy(q) /\ proc[q].token \in 0..logins
    BY <1>1 DEF Alone, Known, KnownBy, TypeOK, Proc, Session
  <2>2. proc[q].pc \in Owning => proc[p].pc \notin Owning
    BY <1>1 DEF Guarded
  <2>3. proc'[q].token <= logins'
    BY <2>1 DEF TypeOK
  <2>4. proc'[q].pc = "write" => proc'[q].token = logins'
    BY <2>1, <2>2 DEF KnownBy, Owning
  <2>5. proc'[q].pc = "invUnlink" => cred' \in {0, proc'[q].token}
    BY <2>1, <2>2 DEF KnownBy, Owning
  <2>6. q \in Connectors /\ Rejecting(proc[q]) => ~Accepted(proc[q].token)'
    BY <2>1 DEF KnownBy
  <2>7. QED
    BY <2>1, <2>3, <2>4, <2>5, <2>6 DEF KnownBy, Rejecting, Passing, Accepted
<1>2. QED
  BY <1>1 DEF Known

\* A step of process p alone that changes no session and no file, begins or
\* ends no browser flow, and after which p rejects a session only if it did.
Quiet(p) ==
  /\ Alone(p) /\ UNCHANGED <<now, cred, gateway>>
  /\ proc'[p].pc \notin {"write", "invUnlink"}
  /\ Passing(proc'[p]) \/ proc'[p].after = "idle"
  /\ proc'[p].token \in {0, cred, proc[p].token}
  /\ p \in Connectors =>
       /\ proc[p].pc \in {"login", "write"} <=> proc'[p].pc \in {"login", "write"}
       /\ Rejecting(proc'[p]) =>
            Rejecting(proc[p]) /\ proc'[p].token = proc[p].token

\* What the helpers leave in the record of a process.
LEMMA ReturnQuiet ==
  ASSUME ProcsOK, NEW p \in Tasks, Return(p), UNCHANGED <<now, cred, gateway>>,
         p \in Connectors => proc[p].pc \notin {"login", "write"}
  PROVE  Quiet(p)
BY DEF ProcsOK, Return, Move, Idle, Quiet, Alone, Rejecting, Passing

\* Going on at a label.
LEMMA GotoQuiet ==
  ASSUME ProcsOK, NEW p \in Tasks, NEW label, Goto(p, label),
         UNCHANGED <<now, cred, gateway>>,
         label \notin {"write", "invUnlink", "login"},
         p \in Connectors => proc[p].pc \notin {"login", "write"},
         p \in Connectors /\ label \in {"invLock", "invRead"} => Rejecting(proc[p]),
         label \in {"relUnlink", "unlinkStale"} \/ proc[p].after = "idle"
  PROVE  Quiet(p)
<1>1. proc[p] \in Proc
  BY DEF ProcsOK
<1>2. Alone(p) /\ proc'[p] = [proc[p] EXCEPT !.pc = label]
  BY DEF ProcsOK, Goto, Move, Alone
<1>3. QED
  BY <1>1, <1>2 DEF Quiet, Rejecting, Passing, Proc

\* Going on after releasing or polling the lock.
LEMMA ContinueQuiet ==
  ASSUME ProcsOK, NEW p \in Tasks, Continue(p), UNCHANGED <<now, cred, gateway>>,
         proc[p].pc \notin {"login", "write"}
  PROVE  Quiet(p)
<1>1. CASE proc[p].after = "idle"
  BY <1>1, ReturnQuiet DEF Continue
<1>2. CASE proc[p].after # "idle"
  <2>1. proc[p] \in Proc
    BY DEF ProcsOK
  <2>2. /\ Alone(p)
        /\ proc'[p] = [proc[p] EXCEPT !.pc = proc[p].after, !.after = "idle"]
    BY <1>2 DEF ProcsOK, Continue, Move, Alone
  <2>3. QED
    BY <2>1, <2>2 DEF Quiet, Rejecting, Passing, Proc
<1>3. QED
  BY <1>1, <1>2

\* The quiet steps of a connector.
LEMMA ConnectorQuiet ==
  ASSUME TypeOK, NEW c \in Connectors, KnownBy(c),
         Start(c) \/ Read(c) \/ (Recheck(c) /\ Usable)
  PROVE  Quiet(c)
<1>0. ProcsOK /\ c \in Tasks /\ proc[c] \in Proc
  BY TypeParts DEF ProcsOK, Tasks
<1>1. CASE Start(c)
  BY <1>0, <1>1
     DEF Start, Move, Idle, ProcsOK, Quiet, Alone, Rejecting, Passing
<1>2. CASE Read(c)
  <2>1. CASE Return(c)
    BY <1>0, <1>2, <2>1, ReturnQuiet DEF Read
  <2>2. CASE Goto(c, "lock")
    BY <1>0, <1>2, <2>2, GotoQuiet DEF Read, KnownBy, Passing
  <2>3. CASE Move(c, [proc[c] EXCEPT !.pc = "use", !.token = cred])
    <3>1. proc'[c] = [proc[c] EXCEPT !.pc = "use", !.token = cred] /\ Alone(c)
      BY <1>0, <2>3 DEF Move, ProcsOK, Alone
    <3>2. proc[c].pc = "read" /\ UNCHANGED <<now, cred, gateway>>
      BY <1>2 DEF Read
    <3>3. QED
      BY <1>0, <3>1, <3>2 DEF Quiet, Rejecting, Passing, Proc, KnownBy
  <2>4. QED
    BY <1>2, <2>1, <2>2, <2>3 DEF Read
<1>3. CASE Recheck(c) /\ Usable
  <2>1. /\ Alone(c)
        /\ proc'[c] = [proc[c] EXCEPT !.pc = "relRead", !.after = "use",
                                      !.token = cred]
    BY <1>0, <1>3 DEF Recheck, Move, ProcsOK, Alone
  <2>2. QED
    BY <1>0, <1>3, <2>1 DEF Recheck, Quiet, Rejecting, Passing, Proc
<1>4. QED
  BY <1>1, <1>2, <1>3

\* The quiet steps of a logout.
LEMMA LogoutQuiet ==
  ASSUME TypeOK, NEW q \in Logouts, KnownBy(q), Logout(q) \/ ClearRead(q)
  PROVE  Quiet(q)
<1>0. ProcsOK /\ q \in Tasks /\ proc[q] \in Proc /\ q \notin Connectors
  BY TypeParts, SharedSessionAssumption DEF ProcsOK, Tasks
<1>1. CASE Logout(q)
  BY <1>0, <1>1, GotoQuiet DEF Logout, KnownBy, Passing
<1>2. CASE ClearRead(q)
  <2>1. CASE cred = 0
    BY <1>0, <1>2, <2>1, GotoQuiet DEF ClearRead, KnownBy, Passing
  <2>2. CASE cred # 0
    <3>1. /\ Alone(q)
          /\ proc'[q] = [proc[q] EXCEPT !.pc = "invLock", !.token = cred,
                                        !.deadline = WaitUntil]
      BY <1>0, <1>2, <2>2 DEF ClearRead, Move, ProcsOK, Alone
    <3>2. proc[q].pc = "clearRead" /\ UNCHANGED <<now, cred, gateway>>
      BY <1>2 DEF ClearRead
    <3>3. QED
      BY <1>0, <3>1, <3>2 DEF Quiet, Passing, Proc, KnownBy
  <2>3. QED
    BY <2>1, <2>2
<1>3. QED
  BY <1>1, <1>2

\* The quiet steps with the lock file.
LEMMA LockQuiet ==
  ASSUME TypeOK, NEW p \in Tasks, KnownBy(p),
         \/ AcquireLock(p) \/ FindLocked(p) \/ InvalidateTimesOut(p)
         \/ ReleaseRead(p) \/ ReleaseUnlink(p) \/ StatLock(p) \/ UnlinkStale(p)
         \/ InvalidateRead(p) /\ cred # proc[p].token
         \/ Crash(p) /\ proc[p].pc \notin Owning
  PROVE  Quiet(p)
<1>0. ProcsOK /\ proc[p] \in Proc
  BY TypeParts DEF ProcsOK
<1>1. CASE AcquireLock(p)
  <2>1. CASE proc[p].pc = "lock"
    BY <1>0, <1>1, <2>1, GotoQuiet DEF AcquireLock, KnownBy, Passing
  <2>2. CASE proc[p].pc = "invLock"
    BY <1>0, <1>1, <2>2, GotoQuiet DEF AcquireLock, Rejecting, KnownBy, Passing
  <2>3. QED
    BY <1>1, <2>1, <2>2 DEF AcquireLock, Trying
<1>2. CASE FindLocked(p)
  <2>1. /\ Alone(p)
        /\ proc'[p] = [proc[p] EXCEPT !.pc = "stat",
                !.after = IF proc[p].pc = "lock" THEN "read" ELSE "invLock"]
    BY <1>0, <1>2 DEF FindLocked, Move, ProcsOK, Alone
  <2>2. QED
    BY <1>0, <1>2, <2>1 DEF FindLocked, Trying, Quiet, Rejecting, Passing, Proc
<1>3. CASE InvalidateTimesOut(p)
  BY <1>0, <1>3, ReturnQuiet DEF InvalidateTimesOut
<1>4. CASE ReleaseRead(p)
  BY <1>0, <1>4, GotoQuiet, ContinueQuiet DEF ReleaseRead
<1>5. CASE StatLock(p)
  BY <1>0, <1>5, GotoQuiet, ContinueQuiet DEF StatLock
<1>6. CASE ReleaseUnlink(p) \/ UnlinkStale(p)
  BY <1>0, <1>6, ContinueQuiet DEF ReleaseUnlink, UnlinkStale
<1>7. CASE InvalidateRead(p) /\ cred # proc[p].token
  <2>1. PICK label \in {"again", "idle"} : ReleaseThen(p, label)
    BY <1>7 DEF InvalidateRead
  <2>2. /\ Alone(p)
        /\ proc'[p] = [proc[p] EXCEPT !.pc = "relRead", !.after = label]
    BY <1>0, <2>1 DEF ReleaseThen, Move, ProcsOK, Alone
  <2>3. QED
    BY <1>0, <1>7, <2>2 DEF InvalidateRead, Quiet, Rejecting, Passing, Proc
<1>8. CASE Crash(p) /\ proc[p].pc \notin Owning
  BY <1>0, <1>8, ReturnQuiet DEF Crash, Owning
<1>9. QED
  BY <1>1, <1>2, <1>3, <1>4, <1>5, <1>6, <1>7, <1>8

\* A quiet step keeps what everybody knows.
LEMMA QuietKnown ==
  ASSUME TypeOK, Guarded, orphans = 0, Known, NEW p \in Tasks, Quiet(p)
  PROVE  Known'
<1>1. KnownBy(p)'
  BY DEF Known, KnownBy, Quiet, gateway, Accepted, TypeOK
<1>2. \A t : Accepted(t)' => Accepted(t)
  BY DEF Accepted, Quiet, gateway
<1>3. QED
  BY <1>1, <1>2, KnownKept DEF Known, Quiet, gateway, TypeOK

\* Every step that leaves no lock file behind does.
LEMMA KnownStep == TypeOK /\ Guarded /\ orphans = 0 /\ Known /\ [Next]_vars
                     => orphans' # 0 \/ Known'
<1> SUFFICES ASSUME TypeOK, Guarded, orphans = 0, Known, [Next]_vars, orphans' = 0
             PROVE  Known'
  OBVIOUS
<1>0. ProcsOK /\ \A p \in Tasks : proc[p] \in Proc /\ KnownBy(p)
  BY TypeParts DEF ProcsOK, Known
<1>1. ASSUME NEW c \in Connectors, Start(c) \/ ConnectorStep(c) PROVE Known'
  <2>0. c \in Tasks
    BY DEF Tasks
  <2>1. CASE Start(c) \/ Read(c) \/ (Recheck(c) /\ Usable)
    BY <1>0, <2>0, <2>1, ConnectorQuiet, QuietKnown
  <2>2. CASE Recheck(c) /\ ~Usable
    <3>1. Alone(c) /\ proc'[c] = [proc[c] EXCEPT !.pc = "login"]
      BY <1>0, <2>0, <2>2 DEF Recheck, Goto, Move, ProcsOK, Alone
    <3>2. UNCHANGED <<now, cred, gateway>> /\ proc[c].pc = "recheck"
      BY <2>2 DEF Recheck
    <3>3. KnownBy(c)'
      BY <1>0, <2>0, <3>1, <3>2 DEF KnownBy, Rejecting, Passing, Proc, gateway, Accepted
    <3>4. \A t : Accepted(t)' => Accepted(t)
      BY <3>2 DEF Accepted, gateway
    <3>5. QED
      BY <2>0, <3>1, <3>2, <3>3, <3>4, KnownKept DEF Known, gateway, TypeOK
  <2>3. CASE LoginSucceeds(c)
    <3>1. /\ Alone(c)
          /\ proc'[c] = [proc[c] EXCEPT !.pc = "write", !.token = logins + 1]
      BY <1>0, <2>0, <2>3 DEF LoginSucceeds, Move, ProcsOK, Alone
    <3>2. /\ proc[c].pc = "login" /\ logins' = logins + 1 /\ UNCHANGED <<now, cred>>
          /\ live' = live \cup {logins + 1}
          /\ expiresAt' = [expiresAt EXCEPT ![logins + 1] = now + Lifetime]
      BY <2>3 DEF LoginSucceeds
    <3>3. logins \in Nat
      BY DEF TypeOK
    <3>4. \A t \in 0..logins : Accepted(t)' => Accepted(t)
      <4>1. ASSUME NEW t \in 0..logins, Accepted(t)' PROVE Accepted(t)
        <5>1. t \in live /\ t \in Session /\ t # logins + 1
          BY <3>2, <3>3, <4>1 DEF Accepted, TypeOK
        <5>2. expiresAt'[t] = expiresAt[t]
          BY <3>2, <5>1 DEF TypeOK
        <5>3. QED
          BY <3>2, <4>1, <5>1, <5>2 DEF Accepted
      <4>2. QED
        BY <4>1
    <3>5. KnownBy(c)'
      BY <1>0, <2>0, <3>1, <3>2, <3>3 DEF KnownBy, Rejecting, Passing, Proc
    <3>6. live' \subseteq 1..logins' /\ cred' <= logins'
      BY <3>2, <3>3 DEF Known, TypeOK, Session
    <3>7. QED
      BY <2>0, <3>1, <3>2, <3>3, <3>4, <3>5, <3>6, KnownKept DEF Owning
  <2>4. CASE LoginFails(c) \/ Write(c)
    <3>1. PICK label \in {"use", "idle"} : ReleaseThen(c, label)
      BY <2>4 DEF LoginFails, Write
    <3>2. /\ Alone(c)
          /\ proc'[c] = [proc[c] EXCEPT !.pc = "relRead", !.after = label]
      BY <1>0, <2>0, <3>1 DEF ReleaseThen, Move, ProcsOK, Alone
    <3>3. /\ proc[c].pc \in {"login", "write"} /\ UNCHANGED <<now, gateway>>
          /\ cred' \in {cred, proc[c].token}
      BY <2>4 DEF LoginFails, Write
    <3>4. \A t : Accepted(t)' => Accepted(t)
      BY <3>3 DEF Accepted, gateway
    <3>5. KnownBy(c)'
      BY <1>0, <2>0, <3>2, <3>3 DEF KnownBy, Rejecting, Passing, Proc, gateway
    <3>6. live' \subseteq 1..logins' /\ cred' <= logins'
      BY <1>0, <2>0, <3>3 DEF Known, KnownBy, gateway
    <3>7. QED
      BY <2>0, <3>2, <3>3, <3>4, <3>5, <3>6, KnownKept DEF Owning, gateway, TypeOK
  <2>5. CASE Use(c)
    <3>1. CASE Return(c)
      BY <1>0, <2>0, <2>5, <3>1, ReturnQuiet, QuietKnown DEF Use
    <3>2. CASE ~Return(c)
      <4>1. /\ Alone(c) /\ ~Accepted(proc[c].token)
            /\ proc'[c] = [proc[c] EXCEPT !.pc = "invLock", !.deadline = WaitUntil]
        BY <1>0, <2>0, <2>5, <3>2 DEF Use, Move, ProcsOK, Alone
      <4>2. UNCHANGED <<now, cred, gateway>> /\ proc[c].pc = "use"
        BY <2>5 DEF Use
      <4>3. KnownBy(c)'
        BY <1>0, <2>0, <4>1, <4>2 DEF KnownBy, Rejecting, Passing, Proc, gateway, Accepted
      <4>4. \A t : Accepted(t)' => Accepted(t)
        BY <4>2 DEF Accepted, gateway
      <4>5. QED
        BY <2>0, <4>1, <4>2, <4>3, <4>4, KnownKept DEF Known, gateway, TypeOK
    <3>3. QED
      BY <3>1, <3>2
  <2>6. QED
    BY <1>1, <2>1, <2>2, <2>3, <2>4, <2>5 DEF ConnectorStep
<1>2. ASSUME NEW q \in Logouts, Logout(q) \/ LogoutStep(q) PROVE Known'
  <2>0. q \in Tasks
    BY DEF Tasks
  <2>1. CASE Logout(q) \/ ClearRead(q)
    BY <1>0, <2>0, <2>1, LogoutQuiet, QuietKnown
  <2>2. CASE ClearUnlink(q) \/ Revoke(q)
    <3>1. Alone(q) /\ proc'[q] = Idle
      BY <1>0, <2>0, <2>2 DEF ClearUnlink, Revoke, Return, Move, ProcsOK, Alone
    <3>2. /\ cred' \in {0, cred} /\ live' \in SUBSET live
          /\ UNCHANGED <<now, expiresAt, logins>>
      BY <2>2 DEF ClearUnlink, Revoke, gateway
    <3>3. \A t : Accepted(t)' => Accepted(t)
      BY <3>2 DEF Accepted
    <3>4. KnownBy(q)' /\ cred' <= logins' /\ live' \subseteq 1..logins'
      BY <3>1, <3>2 DEF KnownBy, Idle, Rejecting, Passing, Known, TypeOK
    <3>5. QED
      BY <2>0, <3>1, <3>2, <3>3, <3>4, KnownKept DEF TypeOK
  <2>3. QED
    BY <1>2, <2>1, <2>2 DEF LogoutStep
<1>3. ASSUME NEW p \in Tasks, LockStep(p) PROVE Known'
  <2>1. CASE InvalidateRead(p) /\ cred = proc[p].token
    <3>1. Alone(p) /\ proc'[p] = [proc[p] EXCEPT !.pc = "invUnlink"]
      BY <1>0, <2>1 DEF InvalidateRead, Goto, Move, ProcsOK, Alone
    <3>2. UNCHANGED <<now, cred, gateway>> /\ proc[p].pc = "invRead"
      BY <2>1 DEF InvalidateRead
    <3>3. KnownBy(p)'
      BY <1>0, <2>1, <3>1, <3>2 DEF KnownBy, Rejecting, Passing, Proc, gateway, Accepted
    <3>4. \A t : Accepted(t)' => Accepted(t)
      BY <3>2 DEF Accepted, gateway
    <3>5. QED
      BY <3>1, <3>2, <3>3, <3>4, KnownKept DEF Known, gateway, TypeOK
  <2>2. CASE InvalidateUnlink(p)
    <3>1. PICK label \in {"again", "revoke"} : ReleaseThen(p, label)
      BY <2>2 DEF InvalidateUnlink
    <3>2. /\ Alone(p)
          /\ proc'[p] = [proc[p] EXCEPT !.pc = "relRead", !.after = label]
      BY <1>0, <3>1 DEF ReleaseThen, Move, ProcsOK, Alone
    <3>3. cred' = 0 /\ UNCHANGED <<now, gateway>>
      BY <2>2 DEF InvalidateUnlink
    <3>4. \A t : Accepted(t)' => Accepted(t)
      BY <3>3 DEF Accepted, gateway
    <3>5. KnownBy(p)' /\ live' \subseteq 1..logins' /\ cred' <= logins'
      BY <1>0, <3>2, <3>3 DEF Known, KnownBy, Rejecting, Passing, Proc, gateway, TypeOK
    <3>6. QED
      BY <3>2, <3>3, <3>4, <3>5, KnownKept DEF gateway, TypeOK
  <2>3. QED
    BY <1>0, <1>3, <2>1, <2>2, LockQuiet, QuietKnown DEF LockStep
<1>4. ASSUME NEW p \in Tasks, LockWriteFails(p) \/ Crash(p) PROVE Known'
  <2>1. Crash(p) /\ proc[p].pc \notin Owning
    BY <1>4 DEF LockWriteFails, Crash
  <2>2. QED
    BY <1>0, <2>1, LockQuiet, QuietKnown
<1>5. CASE (\E s \in Session : GatewayDrops(s)) \/ Tick \/ UNCHANGED vars
  <2>1. /\ UNCHANGED <<cred, expiresAt, logins, proc>> /\ live' \in SUBSET live
        /\ now' \in Nat /\ now <= now'
    BY <1>5 DEF GatewayDrops, Tick, vars, gateway, TypeOK
  <2>2. \A t \in Session : Accepted(t)' => Accepted(t)
    BY <2>1 DEF Accepted, TypeOK
  <2>3. \A t : Accepted(t)' => t \in Session
    BY <2>1 DEF Accepted, TypeOK
  <2>4. QED
    BY <2>1, <2>2, <2>3 DEF Known, KnownBy, Rejecting, Passing
<1>6. QED
  BY <1>1, <1>2, <1>3, <1>4, <1>5 DEF Next

\* Initially nobody has a session in hand.
LEMMA KnownInit == Init => Known
BY SharedSessionAssumption
   DEF Init, Known, KnownBy, Idle, Rejecting, Passing

\* A quiet step begins and ends no flow: SessionCache at most starts or stops
\* signing out.
LEMMA QuietRefines ==
  ASSUME TypeOK, NEW p \in Tasks, Quiet(p)
  PROVE  [Cache!Next]_Cache!vars
<1> DEFINE SigningOut == \E q \in Logouts : proc[q].pc # "idle"
<1>1. Flows' = Flows
  BY DEF Flows, Quiet, Alone, Tasks
<1>2. UNCHANGED <<now, expiresAt, live, logins, cred>>
  BY DEF Quiet, gateway
<1>3. CASE SigningOut' = SigningOut
  BY <1>1, <1>2, <1>3 DEF Cache!vars
<1>4. CASE SigningOut' # SigningOut
  <2>1. SigningOut' = ~SigningOut
    BY <1>4
  <2>2. QED
    BY <1>1, <1>2, <2>1 DEF Cache!Next, Cache!SignOut
<1>5. QED
  BY <1>3, <1>4

\* A step of a connector leaves the logouts alone.
LEMMA ConnectorAlone ==
  ASSUME NEW c \in Connectors, Alone(c)
  PROVE  (\E q \in Logouts : proc[q].pc # "idle")'
           = (\E q \in Logouts : proc[q].pc # "idle")
BY SharedSessionAssumption DEF Alone, Tasks

\* The flow of a lock owner is the only one.
LEMMA OwnersFlow ==
  ASSUME TypeOK, Guarded, orphans = 0, NEW c \in Connectors, proc[c].pc \in Owning,
         Alone(c)
  PROVE  /\ Flows \subseteq {c}
         /\ Flows' \subseteq {c}
BY DEF Guarded, Flows, Alone, Tasks, Owning

\* Every step is a step of SessionCache or leaves it unchanged.
LEMMA RefinedStep ==
  ASSUME TypeOK, Guarded, Known, orphans = 0, orphans' = 0, [Next]_vars
  PROVE  [Cache!Next]_Cache!vars
<1>0. ProcsOK /\ \A p \in Tasks : proc[p] \in Proc /\ KnownBy(p)
  BY TypeParts DEF ProcsOK, Known
<1> DEFINE SigningOut == \E q \in Logouts : proc[q].pc # "idle"
<1>1. ASSUME NEW c \in Connectors, Start(c) \/ ConnectorStep(c)
      PROVE  [Cache!Next]_Cache!vars
  <2>0. c \in Tasks
    BY DEF Tasks
  <2>1. CASE Start(c) \/ Read(c) \/ (Recheck(c) /\ Usable)
    BY <1>0, <2>0, <2>1, ConnectorQuiet, QuietRefines
  <2>2. CASE Recheck(c) /\ ~Usable
    <3>1. Alone(c) /\ proc'[c].pc = "login" /\ proc[c].pc = "recheck"
      BY <1>0, <2>0, <2>2, GotoPc DEF Recheck
    <3>2. UNCHANGED <<now, expiresAt, live, logins, cred>>
      BY <2>2 DEF Recheck, gateway
    <3>3. Flows \subseteq {c} /\ Flows' \subseteq {c}
      BY <3>1, OwnersFlow DEF Owning
    <3>4. Flows = {} /\ Flows' = {c}
      BY <3>1, <3>3 DEF Flows
    <3>5. SigningOut' = SigningOut
      BY <3>1, ConnectorAlone
    <3>6. Cache!BeginFlow(c)
      BY <2>2, <3>2, <3>4, <3>5 DEF Cache!BeginFlow, Cache!Usable, Usable
    <3>7. QED
      BY <3>6 DEF Cache!Next
  <2>3. CASE LoginSucceeds(c)
    <3>1. /\ Alone(c)
          /\ proc'[c] = [proc[c] EXCEPT !.pc = "write", !.token = logins + 1]
      BY <1>0, <2>0, <2>3 DEF LoginSucceeds, Move, ProcsOK, Alone
    <3>2. proc[c].pc = "login" /\ proc'[c].pc = "write"
      BY <1>0, <2>0, <2>3, <3>1 DEF LoginSucceeds, Proc
    <3>3. Flows \subseteq {c} /\ Flows' \subseteq {c}
      BY <3>1, <3>2, OwnersFlow DEF Owning
    <3>4. Flows = {c} /\ Flows' = {c}
      BY <3>2, <3>3 DEF Flows
    <3>5. SigningOut' = SigningOut
      BY <3>1, ConnectorAlone
    <3>6. Cache!OpenSession
      BY <2>3, <3>4, <3>5 DEF Cache!OpenSession, LoginSucceeds
    <3>7. QED
      BY <3>6 DEF Cache!Next
  <2>4. CASE LoginFails(c) \/ Write(c)
    <3>1. PICK label \in {"use", "idle"} : ReleaseThen(c, label)
      BY <2>4 DEF LoginFails, Write
    <3>2. Alone(c) /\ proc'[c].pc = "relRead" /\ proc[c].pc \in {"login", "write"}
      BY <1>0, <2>0, <2>4, <3>1, ReleaseThenPc DEF LoginFails, Write
    <3>3. Flows \subseteq {c} /\ Flows' \subseteq {c}
      BY <3>2, OwnersFlow DEF Owning
    <3>4. Flows # {} /\ Flows' = {}
      BY <3>2, <3>3 DEF Flows
    <3>5. SigningOut' = SigningOut
      BY <3>2, ConnectorAlone
    <3>6. UNCHANGED <<now, expiresAt, live, logins>> /\ cred' \in {cred, logins}
      BY <1>0, <2>0, <2>4 DEF LoginFails, Write, gateway, KnownBy
    <3>7. Cache!EndFlow
      BY <3>4, <3>5, <3>6 DEF Cache!EndFlow
    <3>8. QED
      BY <3>7 DEF Cache!Next
  <2>5. CASE Use(c)
    <3>1. Alone(c) /\ proc'[c].pc \in {"idle", "invLock"} /\ proc[c].pc = "use"
      BY <1>0, <2>0, <2>5, ReturnPc DEF Use, Proc, Move, ProcsOK, Alone
    <3>2. Flows' = Flows
      BY <3>1 DEF Flows, Alone, Tasks
    <3>3. SigningOut' = SigningOut
      BY <3>1, ConnectorAlone
    <3>4. UNCHANGED <<now, expiresAt, live, logins, cred>>
      BY <2>5 DEF Use, gateway
    <3>5. QED
      BY <3>2, <3>3, <3>4 DEF Cache!vars
  <2>6. QED
    BY <1>1, <2>1, <2>2, <2>3, <2>4, <2>5 DEF ConnectorStep
<1>2. ASSUME NEW q \in Logouts, Logout(q) \/ LogoutStep(q)
      PROVE  [Cache!Next]_Cache!vars
  <2>0. q \in Tasks /\ q \notin Connectors
    BY SharedSessionAssumption DEF Tasks
  <2>1. CASE Logout(q) \/ ClearRead(q)
    BY <1>0, <2>0, <2>1, LogoutQuiet, QuietRefines
  <2>2. CASE ClearUnlink(q) \/ Revoke(q)
    <3>1. Alone(q) /\ proc'[q].pc = "idle" /\ proc[q].pc # "idle"
      BY <1>0, <2>0, <2>2, ReturnPc DEF ClearUnlink, Revoke
    <3>2. Flows' = Flows
      BY <2>0, <3>1 DEF Flows, Alone, Tasks
    <3>3. SigningOut /\ SigningOut' \in {SigningOut, FALSE}
      BY <3>1
    <3>4. CASE cred' = cred /\ live' = live
      <4>1. CASE SigningOut' = SigningOut
        BY <2>2, <3>2, <3>4, <4>1 DEF Cache!vars, ClearUnlink, Revoke, gateway
      <4>2. CASE SigningOut' = FALSE
        BY <2>2, <3>2, <3>3, <3>4, <4>2
           DEF Cache!Next, Cache!SignOut, ClearUnlink, Revoke, gateway
      <4>3. QED
        BY <3>3, <4>1, <4>2
    <3>5. CASE cred' # cred
      <4>1. cred # 0 /\ cred' = 0 /\ UNCHANGED <<now, expiresAt, live, logins>>
        BY <2>2, <3>5 DEF ClearUnlink, Revoke, gateway
      <4>2. Cache!Forget
        BY <3>2, <3>3, <4>1 DEF Cache!Forget
      <4>3. QED
        BY <4>2 DEF Cache!Next
    <3>6. CASE live' # live
      <4>1. /\ live' = live \ {proc[q].token} /\ proc[q].token \in live
            /\ UNCHANGED <<now, expiresAt, logins, cred>>
        BY <2>2, <3>6 DEF ClearUnlink, Revoke, gateway
      <4>2. Cache!EndSession
        BY <3>2, <3>3, <4>1 DEF Cache!EndSession
      <4>3. QED
        BY <4>2 DEF Cache!Next
    <3>7. QED
      BY <3>4, <3>5, <3>6
  <2>3. QED
    BY <1>2, <2>1, <2>2 DEF LogoutStep
<1>3. ASSUME NEW p \in Tasks, LockStep(p) PROVE [Cache!Next]_Cache!vars
  <2>1. CASE InvalidateRead(p) /\ cred = proc[p].token
    <3>1. Alone(p) /\ proc'[p].pc = "invUnlink" /\ proc[p].pc = "invRead"
      BY <1>0, <2>1, GotoPc DEF InvalidateRead
    <3>2. Flows' = Flows
      BY <3>1 DEF Flows, Alone, Tasks
    <3>3. SigningOut' = SigningOut
      BY <3>1 DEF Alone, Tasks
    <3>4. QED
      BY <2>1, <3>2, <3>3 DEF Cache!vars, InvalidateRead, gateway
  <2>2. CASE InvalidateUnlink(p)
    <3>1. PICK label \in {"again", "revoke"} : ReleaseThen(p, label)
      BY <2>2 DEF InvalidateUnlink
    <3>2. Alone(p) /\ proc'[p].pc = "relRead" /\ proc[p].pc = "invUnlink"
      BY <1>0, <2>2, <3>1, ReleaseThenPc DEF InvalidateUnlink
    <3>3. Flows' = Flows
      BY <3>2 DEF Flows, Alone, Tasks
    <3>4. SigningOut' = SigningOut
      BY <3>2 DEF Alone, Tasks
    <3>5. cred' = 0 /\ UNCHANGED <<now, expiresAt, live, logins>>
      BY <2>2 DEF InvalidateUnlink, gateway
    <3>6. CASE cred = 0
      BY <3>3, <3>4, <3>5, <3>6 DEF Cache!vars
    <3>7. CASE cred # 0
      <4>1. ~Accepted(cred) \/ SigningOut
        <5>1. CASE p \in Connectors
          BY <1>0, <3>2, <3>7, <5>1 DEF KnownBy, Rejecting
        <5>2. CASE p \in Logouts
          BY <3>2, <5>2
        <5>3. QED
          BY <5>1, <5>2 DEF Tasks
      <4>2. Cache!Forget
        BY <3>3, <3>4, <3>5, <3>7, <4>1
           DEF Cache!Forget, Cache!Accepted, Accepted
      <4>3. QED
        BY <4>2 DEF Cache!Next
    <3>8. QED
      BY <3>6, <3>7
  <2>3. QED
    BY <1>0, <1>3, <2>1, <2>2, LockQuiet, QuietRefines DEF LockStep
<1>4. ASSUME NEW p \in Tasks, LockWriteFails(p) \/ Crash(p)
      PROVE  [Cache!Next]_Cache!vars
  <2>1. Crash(p) /\ proc[p].pc \notin Owning
    BY <1>4 DEF LockWriteFails, Crash
  <2>2. QED
    BY <1>0, <2>1, LockQuiet, QuietRefines
<1>5. ASSUME NEW s \in Session, GatewayDrops(s) PROVE [Cache!Next]_Cache!vars
  <2>1. Cache!EndSession
    BY <1>5 DEF GatewayDrops, Cache!EndSession, Flows
  <2>2. QED
    BY <2>1 DEF Cache!Next
<1>6. CASE Tick
  <2>1. Cache!Tick
    BY <1>6 DEF Tick, Cache!Tick, Flows, gateway
  <2>2. QED
    BY <2>1 DEF Cache!Next
<1>7. CASE UNCHANGED vars
  BY <1>7 DEF vars, Cache!vars, Flows
<1>8. QED
  BY <1>1, <1>2, <1>3, <1>4, <1>5, <1>6, <1>7 DEF Next

\* The initial state is the initial state of SessionCache.
LEMMA RefinedInit == Init => Cache!Init
<1> SUFFICES ASSUME Init PROVE Cache!Init
  OBVIOUS
<1>1. Flows = {}
  BY DEF Init, Flows, Idle, Tasks
<1>2. (\E q \in Logouts : proc[q].pc # "idle") = FALSE
  BY DEF Init, Idle, Tasks
<1>3. QED
  BY <1>1, <1>2 DEF Init, Cache!Init

\* When no lock file is ever left behind, the files, the polling and the
\* interleaved steps of all connectors and logouts behave as the one cell of
\* SessionCache (components/mcp-credential-broker/README.md:103-111).
THEOREM Implementation ==
  ASSUME MaxOrphans = 0
  PROVE  Spec => ImplementsCache
<1>1. (TypeOK => orphans = 0) /\ (TypeOK' => orphans' = 0)
  BY DEF TypeOK
<1>2. Init => Known
  BY KnownInit
<1>3. IInv /\ IInv' /\ Known /\ [Next]_vars => Known'
  BY <1>1, KnownStep DEF IInv
<1>4. IInv /\ IInv' /\ Known /\ [Next]_vars => [Cache!Next]_Cache!vars
  BY <1>1, RefinedStep DEF IInv
<1>5. QED
  BY <1>2, <1>3, <1>4, Inductive, RefinedInit, PTL
     DEF Spec, ImplementsCache, Cache!Spec

=============================================================================
