-------------------------- MODULE StateLockProofs ---------------------------
(***************************************************************************)
(* Proofs about StateLock, for any processes, verbs, number of reads and    *)
(* number of crashes.                                                       *)
(***************************************************************************)
EXTENDS StateLock, TLAPS

\* Where a process owns the kernel lock.
Owning(p) == \/ pc[p] \in {"truncate", "write", "clear", "unlock"}
             \/ pc[p] = "handler" /\ NeedsLock(verb[p])

OwnerHolds == \A p \in Process : Owning(p) => holder = p

\* A process that is still to read the metadata has a read left.
ReadsLeft ==
    \A p \in Process : pc[p] \in {"start", "flock", "reading"} => tries[p] < Attempts

\* The inductive invariant: what MetadataNamesHolder says, and that the lock
\* is held already before the metadata is touched.
LockInv == TypeOK /\ OwnerHolds /\ ReadsLeft /\ MetadataNamesHolder

\* Every command is a reader or one that main locks.
LEMMA WriterNeedsLock ==
    ASSUME NEW v \in Verb, v \notin ReadOnly
    PROVE  NeedsLock(v)
<1>1. v \in AllVerbs
  BY LockAssumption
<1>2. CASE v \in [command : Mutating, flag : {"none"}]
  <2>1. v.command \in Mutating /\ v.flag = "none"
    BY <1>2
  <2>2. QED BY <2>1 DEF NeedsLock
<1>3. CASE v \notin [command : Mutating, flag : {"none"}]
  BY <1>1, <1>3 DEF AllVerbs, ReadOnly, NeedsLock
<1>4. QED BY <1>2, <1>3

LEMMA InitLockInv == Init => LockInv
BY LockAssumption DEF Init, LockInv, TypeOK, Label, OwnerHolds, Owning, ReadsLeft, MetadataNamesHolder

LEMMA NextLockInv == LockInv /\ [Next]_vars => LockInv'
<1> SUFFICES ASSUME LockInv, [Next]_vars PROVE LockInv'
  OBVIOUS
<1> USE LockAssumption
<1>1. ASSUME UNCHANGED vars PROVE LockInv'
  BY <1>1 DEF vars, LockInv, TypeOK, OwnerHolds, Owning, ReadsLeft, MetadataNamesHolder
<1>2. ASSUME NEW p \in Process, Start(p) PROVE LockInv'
  BY <1>2 DEF Start, Goto, LockInv, TypeOK, Label, OwnerHolds, Owning, ReadsLeft, MetadataNamesHolder
<1>3. ASSUME NEW p \in Process, Acquire(p) PROVE LockInv'
  BY <1>3 DEF Acquire, Goto, LockInv, TypeOK, Label, OwnerHolds, Owning, ReadsLeft, MetadataNamesHolder
<1>4. ASSUME NEW p \in Process, Refuse(p) PROVE LockInv'
  BY <1>4 DEF Refuse, Goto, LockInv, TypeOK, Label, OwnerHolds, Owning, ReadsLeft, MetadataNamesHolder
<1>5. ASSUME NEW p \in Process, Truncate(p) PROVE LockInv'
  BY <1>5 DEF Truncate, Goto, LockInv, TypeOK, Label, OwnerHolds, Owning, ReadsLeft, MetadataNamesHolder
<1>6. ASSUME NEW p \in Process, Stamp(p) PROVE LockInv'
  BY <1>6 DEF Stamp, Goto, LockInv, TypeOK, Label, OwnerHolds, Owning, ReadsLeft, MetadataNamesHolder
<1>7. ASSUME NEW p \in Process, Finish(p) PROVE LockInv'
  BY <1>7 DEF Finish, Goto, LockInv, TypeOK, Label, OwnerHolds, Owning, ReadsLeft, MetadataNamesHolder
<1>8. ASSUME NEW p \in Process, Clear(p) PROVE LockInv'
  BY <1>8 DEF Clear, Goto, LockInv, TypeOK, Label, OwnerHolds, Owning, ReadsLeft, MetadataNamesHolder
<1>9. ASSUME NEW p \in Process, Unlock(p) PROVE LockInv'
  BY <1>9 DEF Unlock, Goto, LockInv, TypeOK, Label, OwnerHolds, Owning, ReadsLeft, MetadataNamesHolder
<1>10. ASSUME NEW p \in Process, ReadOwner(p) PROVE LockInv'
  BY <1>10 DEF ReadOwner, Goto, LockInv, TypeOK, Label, OwnerHolds, Owning, ReadsLeft, MetadataNamesHolder
<1>11. ASSUME NEW p \in Process, ReadNothing(p) PROVE LockInv'
  BY <1>11 DEF ReadNothing, Goto, LockInv, TypeOK, Label, OwnerHolds, Owning, ReadsLeft, MetadataNamesHolder
<1>12. ASSUME NEW p \in Process, ProcOwner(p) PROVE LockInv'
  BY <1>12 DEF ProcOwner, Goto, LockInv, TypeOK, Label, OwnerHolds, Owning, ReadsLeft, MetadataNamesHolder
<1>13. ASSUME NEW p \in Process, Crash(p) PROVE LockInv'
  BY <1>13 DEF Crash, Goto, LockInv, TypeOK, Label, OwnerHolds, Owning, ReadsLeft, MetadataNamesHolder
<1>14. QED
  BY <1>1, <1>2, <1>3, <1>4, <1>5, <1>6, <1>7, <1>8, <1>9, <1>10, <1>11, <1>12, <1>13
  DEF Next, Step

\* The inductive invariant holds in every reachable state.
THEOREM LockInvariant == Spec => []LockInv
BY InitLockInv, NextLockInv, PTL DEF Spec

\* Every variable stays in its type.
THEOREM LockTypeOK == Spec => []TypeOK
<1>1. LockInv => TypeOK
  BY DEF LockInv
<1>2. QED BY <1>1, LockInvariant, PTL

\* The lock file of a running locked handler names it, in every interleaving
\* with contenders, owners on their way out and crashes.
THEOREM LockMetadata == Spec => []MetadataNamesHolder
<1>1. LockInv => MetadataNamesHolder
  BY DEF LockInv
<1>2. QED BY <1>1, LockInvariant, PTL

\* At most one handler that writes runs at a time.
THEOREM LockExcludesWriters == Spec => []WritersExclude
<1>1. ASSUME LockInv PROVE WritersExclude
  <2>1. SUFFICES ASSUME NEW p \in Process, NEW q \in Process,
                        pc[p] = "handler", verb[p] \notin ReadOnly,
                        pc[q] = "handler", verb[q] \notin ReadOnly
                 PROVE  p = q
    BY DEF WritersExclude
  <2>2. verb[p] \in Verb /\ verb[q] \in Verb
    BY <1>1 DEF LockInv, TypeOK
  <2>3. Owning(p) /\ Owning(q)
    BY <2>1, <2>2, WriterNeedsLock DEF Owning
  <2>4. QED BY <1>1, <2>3 DEF LockInv, OwnerHolds
<1>2. QED BY <1>1, LockInvariant, PTL

-----------------------------------------------------------------------------
(* What a refused command is told *)

\* A pid in the lock file is that of a running owner or of a dead one.
MetaSound ==
    meta # Nobody =>
        \/ pc[meta] = "dead"
        \/ pc[meta] \in {"handler", "clear"} /\ Owning(meta)

\* A command that still looks for the owner has seen every owner.
OwnersSeen ==
    \A p \in Process :
        pc[p] \in {"reading", "proc"} /\ holder # Nobody => holder \in owners[p]

\* Only a command that needs the lock asks for it and has it.
LockersNeedIt ==
    \A p \in Process :
        pc[p] \in {"flock", "truncate", "write", "clear", "unlock"} => NeedsLock(verb[p])

ToldInv == LockInv /\ LockersNeedIt /\ MetaSound /\ OwnersSeen /\ ReportedOwnerIsCurrentOrDead

LEMMA InitToldInv == Init => ToldInv
BY InitLockInv DEF Init, ToldInv, LockersNeedIt, MetaSound, OwnersSeen, ReportedOwnerIsCurrentOrDead

\* Steps of a process that is not refused: nobody else moves.
LEMMA OwnStepToldInv ==
    ASSUME ToldInv, LockInv', NEW p \in Process,
           \/ Start(p) \/ Truncate(p) \/ Stamp(p) \/ Finish(p) \/ Clear(p) \/ Unlock(p) \/ Crash(p)
    PROVE  ToldInv'
<1> USE LockAssumption DEF ToldInv, LockInv, TypeOK, Label, Goto
<1>1. /\ owners' = owners /\ reported' = reported /\ verb' = verb
      /\ holder' \in {holder, Nobody}
      /\ pc' = [pc EXCEPT ![p] = pc'[p]] /\ pc'[p] \notin {"reading", "proc", "held"}
      /\ pc[p] # "dead"
  BY DEF Start, Truncate, Stamp, Finish, Clear, Unlock, Crash
<1>2. OwnersSeen'
  BY <1>1 DEF OwnersSeen
<1>3. ReportedOwnerIsCurrentOrDead'
  BY <1>1 DEF ReportedOwnerIsCurrentOrDead
<1>4. MetaSound'
  <2>1. CASE Start(p)
    BY <2>1 DEF Start, MetaSound, Owning
  <2>2. CASE Truncate(p) \/ Clear(p)
    BY <2>2 DEF Truncate, Clear, MetaSound
  <2>3. CASE Stamp(p)
    BY <2>3 DEF Stamp, MetaSound, Owning, LockersNeedIt
  <2>4. CASE Finish(p)
    BY <2>4 DEF Finish, MetaSound, Owning
  <2>5. CASE Unlock(p)
    BY <2>5 DEF Unlock, MetaSound, Owning
  <2>6. CASE Crash(p)
    BY <2>6 DEF Crash, MetaSound, Owning
  <2>7. QED BY <2>1, <2>2, <2>3, <2>4, <2>5, <2>6
<1>5. LockersNeedIt'
  BY DEF Start, Truncate, Stamp, Finish, Clear, Unlock, Crash, LockersNeedIt
<1>6. QED BY <1>2, <1>3, <1>4, <1>5

\* Steps of a process that asks for the lock.
LEMMA AskStepToldInv ==
    ASSUME ToldInv, LockInv', NEW p \in Process,
           Acquire(p) \/ Refuse(p) \/ ReadOwner(p) \/ ReadNothing(p) \/ ProcOwner(p)
    PROVE  ToldInv'
<1> USE LockAssumption DEF ToldInv, LockInv, TypeOK, Label, Goto
<1>1. /\ meta' = meta /\ verb' = verb
      /\ pc' = [pc EXCEPT ![p] = pc'[p]] /\ pc[p] \in {"flock", "reading", "proc"}
      /\ pc'[p] \notin {"handler", "clear"}
  BY DEF Acquire, Refuse, ReadOwner, ReadNothing, ProcOwner
<1>2. MetaSound'
  BY <1>1 DEF MetaSound, Owning
<1>3. OwnersSeen'
  <2>1. CASE Acquire(p)
    BY <2>1 DEF Acquire, OwnersSeen
  <2>2. CASE Refuse(p)
    BY <2>2 DEF Refuse, OwnersSeen
  <2>3. CASE ReadOwner(p) \/ ReadNothing(p) \/ ProcOwner(p)
    BY <2>3 DEF ReadOwner, ReadNothing, ProcOwner, OwnersSeen
  <2>4. QED BY <2>1, <2>2, <2>3
<1>4. ReportedOwnerIsCurrentOrDead'
  <2>1. CASE Acquire(p) \/ Refuse(p) \/ ReadNothing(p)
    BY <2>1 DEF Acquire, Refuse, ReadNothing, ReportedOwnerIsCurrentOrDead
  <2>2. CASE ReadOwner(p)
    <3>1. \/ meta \in owners[p]
          \/ meta \in Process /\ pc[meta] = "dead"
      BY <2>2 DEF ReadOwner, MetaSound, OwnerHolds, OwnersSeen
    <3>2. QED BY <2>2, <3>1 DEF ReadOwner, ReportedOwnerIsCurrentOrDead
  <2>3. CASE ProcOwner(p)
    BY <2>3 DEF ProcOwner, OwnersSeen, ReportedOwnerIsCurrentOrDead
  <2>4. QED BY <2>1, <2>2, <2>3
<1>5. LockersNeedIt'
  BY DEF Acquire, Refuse, ReadOwner, ReadNothing, ProcOwner, LockersNeedIt
<1>6. QED BY <1>2, <1>3, <1>4, <1>5

LEMMA NextToldInv == ToldInv /\ [Next]_vars => ToldInv'
<1> SUFFICES ASSUME ToldInv, [Next]_vars PROVE ToldInv'
  OBVIOUS
<1>1. LockInv'
  BY NextLockInv DEF ToldInv
<1>2. CASE UNCHANGED vars
  BY <1>1, <1>2 DEF vars, ToldInv, LockersNeedIt, MetaSound, OwnersSeen, Owning, ReportedOwnerIsCurrentOrDead
<1>3. ASSUME NEW p \in Process, Start(p) \/ Step(p) \/ Crash(p) PROVE ToldInv'
  BY <1>1, <1>3, OwnStepToldInv, AskStepToldInv DEF Step
<1>4. QED BY <1>2, <1>3 DEF Next

\* A refused command names an owner that held the lock after it asked, or one
\* that died with it: never a command that had left.
THEOREM ReportedAlwaysCurrentOrDead == Spec => []ReportedOwnerIsCurrentOrDead
<1>1. ToldInv => ReportedOwnerIsCurrentOrDead
  BY DEF ToldInv
<1>2. QED BY <1>1, InitToldInv, NextToldInv, PTL DEF Spec
=============================================================================
