----------------------------- MODULE StateLock ------------------------------
(***************************************************************************)
(* The state lock of EC-10: StateLock in twill_lock.py and the decision of  *)
(* main in twill_app.py which commands take it.                             *)
(*                                                                          *)
(* Each process is one invocation of the CLI and has a pid of its own.  The *)
(* kernel's flock is external: it has one owner and is released when that   *)
(* process closes the file or dies.  The metadata in the lock file is       *)
(* written by the owner, outlives it after a crash, and is read by those    *)
(* who were refused the lock.                                               *)
(***************************************************************************)
EXTENDS Integers, FiniteSets

CONSTANTS
    Process,     \* invocations of the CLI
    Nobody,      \* no owner; metadata that does not parse
    Verb,        \* the commands those invocations may run
    Attempts,    \* _OWNER_READ_ATTEMPTS, 5 in the code
    MaxCrashes   \* bound: processes that are killed or fail to stamp

\* A command with the flag that decides whether it is one of the writers.
Mutating == {"ingest", "detect", "rank", "explain", "accept", "apply", "unapply",
             "un-apply", "dismiss", "measure", "prune", "publish"}

AllVerbs ==
    [command : Mutating, flag : {"none"}] \cup
    {[command |-> "explain", flag |-> "dry-run"],
     [command |-> "autonomy", flag |-> "review"],
     [command |-> "autonomy", flag |-> "intervention"],
     [command |-> "autonomy", flag |-> "inspect"],
     [command |-> "doctor", flag |-> "rebuild"],
     [command |-> "doctor", flag |-> "rescan-redaction"],
     [command |-> "doctor", flag |-> "none"],
     [command |-> "digest", flag |-> "none"],
     [command |-> "digest", flag |-> "stdout"],
     [command |-> "digest", flag |-> "json"],
     [command |-> "status", flag |-> "none"],
     [command |-> "rules", flag |-> "none"],
     [command |-> "trend", flag |-> "none"],
     [command |-> "lessons", flag |-> "none"],
     [command |-> "brief", flag |-> "none"]}

ASSUME LockAssumption ==
    /\ Nobody \notin Process
    /\ Verb \subseteq AllVerbs
    /\ Attempts \in Nat \ {0}
    /\ MaxCrashes \in Nat

VARIABLES
    holder,    \* owner of the kernel lock, or Nobody
    meta,      \* the pid in the lock file, or Nobody
    pc,        \* where each process is
    verb,      \* the command each process runs
    tries,     \* reads of the metadata a refused process has made
    reported,  \* the pid a refused process names to its operator
    owners,    \* who has held the lock since a process was refused
    crashes    \* processes that died so far

vars == <<holder, meta, pc, verb, tries, reported, owners, crashes>>

Label == {"start", "flock", "truncate", "write", "handler", "clear", "unlock",
          "reading", "proc", "done", "held", "unknown", "dead"}

TypeOK ==
    /\ holder \in Process \cup {Nobody}
    /\ meta \in Process \cup {Nobody}
    /\ pc \in [Process -> Label]
    /\ verb \in [Process -> Verb]
    /\ tries \in [Process -> 0 .. Attempts]
    /\ reported \in [Process -> Process \cup {Nobody}]
    /\ owners \in [Process -> SUBSET Process]
    /\ crashes \in Nat

Init ==
    /\ holder = Nobody
    /\ meta = Nobody
    /\ pc = [p \in Process |-> "start"]
    /\ verb \in [Process -> Verb]
    /\ tries = [p \in Process |-> 0]
    /\ reported = [p \in Process |-> Nobody]
    /\ owners = [p \in Process |-> {}]
    /\ crashes = 0

-----------------------------------------------------------------------------
\* Mutant: doctor is taken for a read verb whatever its flag.
NeedsLockButDoctor(v) ==
    \/ v.command \in Mutating /\ ~(v.command = "explain" /\ v.flag = "dry-run")
    \/ v.command = "autonomy" /\ v.flag \in {"review", "intervention"}
    \/ v.command = "digest" /\ v.flag = "none"

\* main: the verbs that mutate, digest when it writes its file, and doctor
\* with a recovery flag.
NeedsLock(v) ==
    \/ v.command \in Mutating /\ ~(v.command = "explain" /\ v.flag = "dry-run")
    \/ v.command = "autonomy" /\ v.flag \in {"review", "intervention"}
    \/ v.command = "digest" /\ v.flag = "none"
    \/ v.command = "doctor" /\ v.flag \in {"rebuild", "rescan-redaction"}

\* The commands whose handlers open the database read-only, if at all, and
\* write no file: what the handlers do, not what main decides.
ReadOnly == {[command |-> "explain", flag |-> "dry-run"],
             [command |-> "autonomy", flag |-> "inspect"],
             [command |-> "doctor", flag |-> "none"],
             [command |-> "digest", flag |-> "stdout"],
             [command |-> "digest", flag |-> "json"],
             [command |-> "status", flag |-> "none"],
             [command |-> "rules", flag |-> "none"],
             [command |-> "trend", flag |-> "none"],
             [command |-> "lessons", flag |-> "none"],
             [command |-> "brief", flag |-> "none"]}

Goto(p, label) == pc' = [pc EXCEPT ![p] = label]

\* main calls the handler at once, or inside the lock.
Start(p) ==
    /\ pc[p] = "start"
    /\ Goto(p, IF NeedsLock(verb[p]) THEN "flock" ELSE "handler")
    /\ UNCHANGED <<holder, meta, verb, tries, reported, owners, crashes>>

\* __enter__: flock with LOCK_NB either takes the lock at once ...
Acquire(p) ==
    /\ pc[p] = "flock"
    /\ holder = Nobody
    /\ holder' = p
    /\ owners' = [q \in Process |->
            IF pc[q] \in {"reading", "proc"} THEN owners[q] \cup {p} ELSE owners[q]]
    /\ Goto(p, "truncate")
    /\ UNCHANGED <<meta, verb, tries, reported, crashes>>

\* ... or refuses it.
Refuse(p) ==
    /\ pc[p] = "flock"
    /\ holder # Nobody
    /\ owners' = [owners EXCEPT ![p] = {holder}]
    /\ Goto(p, "reading")
    /\ UNCHANGED <<holder, meta, verb, tries, reported, crashes>>

\* The owner empties the file, then writes its pid and start time.
Truncate(p) ==
    /\ pc[p] = "truncate"
    /\ meta' = Nobody
    /\ Goto(p, "write")
    /\ UNCHANGED <<holder, verb, tries, reported, owners, crashes>>

Stamp(p) ==
    /\ pc[p] = "write"
    /\ meta' = p
    /\ Goto(p, "handler")
    /\ UNCHANGED <<holder, verb, tries, reported, owners, crashes>>

\* The handler returns or raises; __exit__ empties the file before it unlocks.
Finish(p) ==
    /\ pc[p] = "handler"
    /\ Goto(p, IF NeedsLock(verb[p]) THEN "clear" ELSE "done")
    /\ UNCHANGED <<holder, meta, verb, tries, reported, owners, crashes>>

\* Mutant: the owner unlocks without emptying the file.
ClearNothing(p) ==
    /\ pc[p] = "clear"
    /\ Goto(p, "unlock")
    /\ UNCHANGED <<holder, meta, verb, tries, reported, owners, crashes>>

Clear(p) ==
    /\ pc[p] = "clear"
    /\ meta' = Nobody
    /\ Goto(p, "unlock")
    /\ UNCHANGED <<holder, verb, tries, reported, owners, crashes>>

Unlock(p) ==
    /\ pc[p] = "unlock"
    /\ holder' = Nobody
    /\ Goto(p, "done")
    /\ UNCHANGED <<meta, verb, tries, reported, owners, crashes>>

\* _read_owner: metadata that parses is reported, with exit code 3; an empty
\* file is read again a few times.
ReadOwner(p) ==
    /\ pc[p] = "reading"
    /\ meta # Nobody
    /\ reported' = [reported EXCEPT ![p] = meta]
    /\ Goto(p, "held")
    /\ UNCHANGED <<holder, meta, verb, tries, owners, crashes>>

\* Mutant: the file is read until somebody writes it.
ReadForEver(p) ==
    /\ pc[p] = "reading"
    /\ meta = Nobody
    /\ UNCHANGED vars

ReadNothing(p) ==
    /\ pc[p] = "reading"
    /\ meta = Nobody
    /\ tries' = [tries EXCEPT ![p] = @ + 1]
    /\ Goto(p, IF tries[p] + 1 < Attempts THEN "reading" ELSE "proc")
    /\ UNCHANGED <<holder, meta, verb, reported, owners, crashes>>

\* _proc_lock_owner: /proc/locks names the owner of the moment, or nobody,
\* and then the command fails without one.
ProcOwner(p) ==
    /\ pc[p] = "proc"
    /\ reported' = [reported EXCEPT ![p] = holder]
    /\ Goto(p, IF holder = Nobody THEN "unknown" ELSE "held")
    /\ UNCHANGED <<holder, meta, verb, tries, owners, crashes>>

\* The process is killed, or raises between flock and the end of __enter__:
\* its file is closed, which releases the lock and leaves the metadata.
Crash(p) ==
    /\ pc[p] \notin {"start", "done", "held", "unknown", "dead"}
    /\ crashes < MaxCrashes
    /\ holder' = IF holder = p THEN Nobody ELSE holder
    /\ crashes' = crashes + 1
    /\ Goto(p, "dead")
    /\ UNCHANGED <<meta, verb, tries, reported, owners>>

-----------------------------------------------------------------------------
Step(p) == \/ Acquire(p) \/ Refuse(p) \/ Truncate(p) \/ Stamp(p)
           \/ Finish(p) \/ Clear(p) \/ Unlock(p)
           \/ ReadOwner(p) \/ ReadNothing(p) \/ ProcOwner(p)

Next == \E p \in Process : Start(p) \/ Step(p) \/ Crash(p)

Spec == Init /\ [][Next]_vars

(***************************************************************************)
(* A process that was started goes on, and its handler ends.  Nothing says  *)
(* that a process is started at all.                                        *)
(***************************************************************************)
FairSpec == Spec /\ \A p \in Process : WF_vars(Step(p))

-----------------------------------------------------------------------------
\* A handler that writes the state directory or an artifact never runs beside
\* another one: main takes the lock for every such handler, whatever crashes.
WritersExclude ==
    \A p, q \in Process :
        /\ pc[p] = "handler" /\ verb[p] \notin ReadOnly
        /\ pc[q] = "handler" /\ verb[q] \notin ReadOnly
        => p = q

\* While a locked handler runs, the lock file names it: no earlier owner on
\* its way out and no crashed one can leave another pid there.
MetadataNamesHolder ==
    \A p \in Process :
        pc[p] = "handler" /\ NeedsLock(verb[p]) => holder = p /\ meta = p

\* EC-10: "lock held by pid N since T".  The pid a refused command reports is
\* that of an owner since that command was refused, or of a process that died
\* as owner, never of one that left.
ReportedOwnerIsCurrentOrDead ==
    \A p \in Process : pc[p] = "held" =>
        \/ reported[p] \in owners[p]
        \/ reported[p] \in Process /\ pc[reported[p]] = "dead"

\* EC-10: nobody waits.  Whoever asks for the lock runs, is told of an owner
\* or fails, and whoever has the lock gives it back, dead or alive.
EveryoneEnds ==
    \A p \in Process :
        (pc[p] # "start") ~> (pc[p] \in {"done", "held", "unknown", "dead"})
=============================================================================
