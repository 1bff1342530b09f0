--------------------------- MODULE LifecycleLock ---------------------------
(***************************************************************************)
(* The cross-process lifecycle lock of src/src/lifecycle-lock.ts and the   *)
(* two commands that run under it (src/src/cli.ts): setup, and uninstall   *)
(* with the ownership the Launcher proved before.  Processes interleave at *)
(* every system call; a process may die at any of them, and its pid may be *)
(* given to a new process.                                                 *)
(***************************************************************************)
EXTENDS Naturals

CONSTANTS
  Procs,       \* process ids
  MaxRuns,     \* acquisitions per process id
  MaxEnds,     \* process deaths
  NoFile

ASSUME NoFileIsNoToken == NoFile \notin [pid : Procs, run : Nat]
ASSUME Bounds == MaxRuns \in Nat /\ MaxEnds \in Nat

Tokens == [pid : Procs, run : 1..MaxRuns]
Kinds == {"missing", "configured"}

VARIABLES
  file,      \* the acquisition whose file is at the lock path, or NoFile
  written,   \* acquisitions whose owner metadata is in their file
  pc, run,   \* where a process is, and which acquisition of its pid it is in
  seen,      \* the owner a contender read from the lock file
  alive, ends,
  stolen,    \* history: a contender removed another lock than the one it read
  config,    \* the installation the lock protects
  command, expected  \* of the process: its command and the Launcher's proof

lockVars == <<file, written, pc, run, seen, alive, ends, stolen>>
commandVars == <<lockVars, config, command, expected>>

Token(p) == [pid |-> p, run |-> run[p]]

LockTypeOK ==
  /\ file \in Tokens \cup {NoFile}
  /\ written \in SUBSET Tokens
  /\ pc \in [Procs -> {"idle", "create", "read", "inspect", "unlink", "retry", "recreate",
                       "write", "held", "removing", "release", "unlinkOwn", "dead"}]
  /\ run \in [Procs -> 0..MaxRuns]
  /\ seen \in [Procs -> Tokens \cup {NoFile}]
  /\ alive \in SUBSET Procs
  /\ ends \in 0..MaxEnds
  /\ stolen \in BOOLEAN
  /\ config \in Kinds
  /\ command \in [Procs -> {"setup", "uninstall"}]
  /\ expected \in [Procs -> Kinds]

LockInit ==
  /\ file = NoFile
  /\ written = {}
  /\ pc = [p \in Procs |-> "idle"]
  /\ run = [p \in Procs |-> 0]
  /\ seen = [p \in Procs |-> NoFile]
  /\ alive = Procs
  /\ ends = 0
  /\ stolen = FALSE
  /\ config \in Kinds
  /\ command = [p \in Procs |-> "setup"]
  /\ expected = [p \in Procs |-> config]

Goto(p, l) == pc' = [pc EXCEPT ![p] = l]

-----------------------------------------------------------------------------
(* Acquisition.                                                            *)

\* A command starts; the Launcher of an uninstall read the installation before.
Start(p, c) ==
  /\ pc[p] = "idle" /\ run[p] < MaxRuns
  /\ run' = [run EXCEPT ![p] = @ + 1]
  /\ command' = [command EXCEPT ![p] = c]
  /\ expected' = [expected EXCEPT ![p] = config]
  /\ Goto(p, "create")
  /\ UNCHANGED <<file, written, seen, alive, ends, stolen, config>>

Vacant == file = NoFile

\* tryCreate: the exclusive create.  Where it fails depends on the caller.
TryCreate(p, onExist) ==
  /\ IF Vacant
     THEN file' = Token(p) /\ Goto(p, "write")
     ELSE UNCHANGED file /\ Goto(p, onExist)
  /\ UNCHANGED <<written, run, seen, alive, ends, stolen, config, command, expected>>

CreateLock(p) == pc[p] = "create" /\ TryCreate(p, "read")
Retry(p) == pc[p] = "retry" /\ TryCreate(p, "idle")
Recreate(p) == pc[p] = "recreate" /\ TryCreate(p, "idle")

\* The metadata goes to the file that was created, wherever the path points now.
Write(p) ==
  /\ pc[p] = "write"
  /\ written' = written \cup {Token(p)}
  /\ Goto(p, "held")
  /\ UNCHANGED <<file, run, seen, alive, ends, stolen, config, command, expected>>

\* The write fails: the command throws and leaves an empty lock file.
WriteFails(p) ==
  /\ pc[p] = "write"
  /\ Goto(p, "idle")
  /\ UNCHANGED <<file, written, run, seen, alive, ends, stolen, config, command, expected>>

\* No valid owner pid can be read from the file.
Malformed(f) == f \notin written

AfterRead(f) ==
  IF f = NoFile THEN "retry" ELSE IF Malformed(f) THEN "idle" ELSE "inspect"

\* The contender reads the incumbent: gone, malformed, or somebody's.
Read(p) ==
  /\ pc[p] = "read"
  /\ seen' = [seen EXCEPT ![p] = file]
  /\ Goto(p, AfterRead(file))
  /\ UNCHANGED <<file, written, run, alive, ends, stolen, config, command, expected>>

\* Mutant of ProvenGone: an owner that may be running counts as gone.
GoneOrUnknown(p, q) == p # q

\* A lock of its own pid, or of an owner that may be running, is never reclaimed.
ProvenGone(p, q) == p # q /\ q \notin alive

Inspect(p) ==
  /\ pc[p] = "inspect"
  /\ Goto(p, IF ProvenGone(p, seen[p].pid) THEN "unlink" ELSE "idle")
  /\ UNCHANGED <<file, written, run, seen, alive, ends, stolen, config, command, expected>>

\* The stale lock is removed by path: whatever is there now.
Unlink(p) ==
  /\ pc[p] = "unlink"
  /\ file' = NoFile
  /\ stolen' = (stolen \/ file \notin {seen[p], NoFile})
  /\ Goto(p, "recreate")
  /\ UNCHANGED <<written, run, seen, alive, ends, config, command, expected>>

-----------------------------------------------------------------------------
(* The commands and the release.                                           *)

\* setup writes the configuration under the lock.
Setup(p) ==
  /\ pc[p] = "held" /\ command[p] = "setup"
  /\ config' = "configured"
  /\ Goto(p, "release")
  /\ UNCHANGED <<file, written, run, seen, alive, ends, stolen, command, expected>>

\* Mutant of Matches: the installation is not read again under the lock.
MatchesUnchecked(p) == TRUE

\* assertLifecycleOwnershipMatch.
Matches(p) == expected[p] = config

\* uninstall compares the installation with the Launcher's proof, then removes.
Check(p) ==
  /\ pc[p] = "held" /\ command[p] = "uninstall"
  /\ Goto(p, IF Matches(p) THEN "removing" ELSE "release")
  /\ UNCHANGED <<file, written, run, seen, alive, ends, stolen, config, command, expected>>

\* The removal of the home, unless the user keeps the data.
Remove(p, keepData) ==
  /\ pc[p] = "removing"
  /\ config' = IF keepData THEN config ELSE "missing"
  /\ Goto(p, "release")
  /\ UNCHANGED <<file, written, run, seen, alive, ends, stolen, command, expected>>

OwnFile(p) == file = Token(p) /\ ~Malformed(file)

\* release reads the file and deletes it only if it is its own.
ReleaseLock(p) ==
  /\ pc[p] = "release"
  /\ Goto(p, IF OwnFile(p) THEN "unlinkOwn" ELSE "idle")
  /\ UNCHANGED <<file, written, run, seen, alive, ends, stolen, config, command, expected>>

UnlinkOwn(p) ==
  /\ pc[p] = "unlinkOwn"
  /\ file' = NoFile
  /\ Goto(p, "idle")
  /\ UNCHANGED <<written, run, seen, alive, ends, stolen, config, command, expected>>

\* The deletion fails: the lock stays, stale once the process is gone.
UnlinkOwnFails(p) ==
  /\ pc[p] = "unlinkOwn"
  /\ Goto(p, "idle")
  /\ UNCHANGED <<file, written, run, seen, alive, ends, stolen, config, command, expected>>

-----------------------------------------------------------------------------
(* The end of a process, after its command or in the middle of it, and pid   *)
(* reuse.                                                                    *)

End(p) ==
  /\ p \in alive /\ ends < MaxEnds
  /\ alive' = alive \ {p}
  /\ ends' = ends + 1
  /\ Goto(p, "dead")
  /\ UNCHANGED <<file, written, run, seen, stolen, config, command, expected>>

Restart(p) ==
  /\ p \notin alive
  /\ alive' = alive \cup {p}
  /\ Goto(p, "idle")
  /\ UNCHANGED <<file, written, run, seen, ends, stolen, config, command, expected>>

LockNext == \E p \in Procs :
  \/ \E c \in {"setup", "uninstall"} : Start(p, c)
  \/ CreateLock(p) \/ Read(p) \/ Retry(p) \/ Inspect(p) \/ Unlink(p) \/ Recreate(p)
  \/ Write(p) \/ WriteFails(p)
  \/ Setup(p) \/ Check(p) \/ \E keepData \in BOOLEAN : Remove(p, keepData)
  \/ ReleaseLock(p) \/ UnlinkOwn(p) \/ UnlinkOwnFails(p)
  \/ End(p) \/ Restart(p)

LockSpec == LockInit /\ [][LockNext]_commandVars

-----------------------------------------------------------------------------
(* Properties.                                                             *)

\* Processes between a successful acquisition and its release.
Owns(p) == pc[p] \in {"held", "removing", "release", "unlinkOwn"}

\* Two lifecycle commands never hold the lock of one home at once.
MutualExclusion == \A p, q \in Procs : Owns(p) /\ Owns(q) => p = q

\* As long as no contender has removed another lock than the stale one it read,
\* there is one holder at most and its file is at the lock path: releases,
\* failed writes, deaths, reclaims and reused pids alone never hand the lock to
\* two commands.
ExclusiveUntilStolen ==
  ~stolen => /\ MutualExclusion
             /\ \A p \in Procs : Owns(p) => file = Token(p)

\* Until then, uninstall removes exactly the installation its caller proved: no
\* migration slips between the comparison and the removal.
RemovesWhatWasProved ==
  ~stolen => \A p \in Procs : pc[p] = "removing" => config = expected[p]

-----------------------------------------------------------------------------
(* The inductive invariant behind both.                                    *)

\* An acquisition whose process has ended it.
Over(tok) ==
  \/ tok.run < run[tok.pid]
  \/ tok.run = run[tok.pid] /\ pc[tok.pid] \in {"idle", "dead"}

\* The exclusive create makes the file at the lock path the creator's, from
\* before the metadata is written until the release.
CreatorsFile ==
  ~stolen => \A p \in Procs : pc[p] = "write" \/ Owns(p) => file = Token(p)

\* Files and what contenders read of them come from acquisitions that began.
TokensAreIssued ==
  /\ file # NoFile => file.run <= run[file.pid]
  /\ \A p \in Procs : seen[p] # NoFile => seen[p].run <= run[seen[p].pid]

\* What is about to be unlinked as stale was created by a process that is gone.
StaleIsOver ==
  /\ \A p \in alive : pc[p] # "dead"
  /\ \A p \in Procs : p \notin alive => pc[p] = "dead"
  /\ \A p \in Procs : run[p] = 0 => pc[p] \in {"idle", "dead"}
  /\ \A p \in Procs : pc[p] \in {"inspect", "unlink"} => seen[p] # NoFile
  /\ \A p \in Procs : pc[p] = "unlink" => Over(seen[p])

LockInv == LockTypeOK /\ CreatorsFile /\ TokensAreIssued /\ StaleIsOver /\ RemovesWhatWasProved
=============================================================================
