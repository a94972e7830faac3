------------------------------ MODULE LocalData ------------------------------
(***************************************************************************)
(* ensure_local_data (dbplanbench_utils.py): concurrent calls, of several  *)
(* processes or threads, that need the same data folder.  A call checks    *)
(* the folder, takes a file lock, checks again, generates the data into a  *)
(* temporary directory and renames it into place.                          *)
(*                                                                         *)
(* A platform without fcntl has no lock (_file_lock degrades to a no-op).  *)
(* A call may be killed anywhere; the kernel then drops its lock.          *)
(***************************************************************************)
EXTENDS Naturals, FiniteSets

CONSTANTS
  Calls,      \* the calls of ensure_local_data, in every process
  Platforms,  \* subset of {"fcntl", "no_fcntl"}
  Nobody      \* the owner of a free lock

ASSUME LocalDataAssumption ==
  /\ Platforms \subseteq {"fcntl", "no_fcntl"}
  /\ Nobody \notin Calls

VARIABLES
  platform,  \* whether the lock works
  pc,        \* where each call is
  tmp,       \* the content of each call's temporary directory
  folder,    \* the content of the data folder, or "absent"
  owner      \* the call that holds the flock

vars == <<platform, pc, tmp, folder, owner>>

Init ==
  /\ platform \in Platforms
  /\ pc = [c \in Calls |-> "check"]
  /\ tmp = [c \in Calls |-> "absent"]
  /\ folder = "absent"
  /\ owner = Nobody

Goto(c, label) == pc' = [pc EXCEPT ![c] = label]

-----------------------------------------------------------------------------
\* The check without the lock.
Check(c) ==
  /\ pc[c] = "check"
  /\ Goto(c, IF folder # "absent" THEN "returned" ELSE "lock")
  /\ UNCHANGED <<platform, tmp, folder, owner>>

\* flock(LOCK_EX) waits; without fcntl nobody waits.
Lock(c) ==
  /\ pc[c] = "lock"
  /\ IF platform = "fcntl"
     THEN owner = Nobody /\ owner' = c
     ELSE UNCHANGED owner
  /\ Goto(c, "recheck")
  /\ UNCHANGED <<platform, tmp, folder>>

\* Fault: the folder is not checked again under the lock.
FaultyRecheck(c) ==
  /\ pc[c] = "recheck"
  /\ Goto(c, "generate")
  /\ tmp' = [tmp EXCEPT ![c] = "partial"]
  /\ UNCHANGED <<platform, folder, owner>>

\* Another call may have generated the data meanwhile; if none has, mkdtemp.
Recheck(c) ==
  /\ pc[c] = "recheck"
  /\ IF folder # "absent"
     THEN Goto(c, "unlock_return") /\ UNCHANGED tmp
     ELSE Goto(c, "generate") /\ tmp' = [tmp EXCEPT ![c] = "partial"]
  /\ UNCHANGED <<platform, folder, owner>>

\* Fault: a generation that failed half way is renamed into place as well.
FaultyGenerate(c) ==
  /\ pc[c] = "generate"
  /\ \/ tmp' = [tmp EXCEPT ![c] = "complete"]
     \/ UNCHANGED tmp
  /\ Goto(c, "rename")
  /\ UNCHANGED <<platform, folder, owner>>

\* generate_benchmark_data writes every table, or raises (so does an empty
\* result).
Generate(c) ==
  /\ pc[c] = "generate"
  /\ \/ Goto(c, "rename") /\ tmp' = [tmp EXCEPT ![c] = "complete"]
     \/ Goto(c, "remove_raise") /\ UNCHANGED tmp
  /\ UNCHANGED <<platform, folder, owner>>

\* Fault: an existing folder is replaced.
FaultyRename(c) ==
  /\ pc[c] = "rename"
  /\ folder' = IF folder = "absent" THEN tmp[c] ELSE "replaced"
  /\ tmp' = [tmp EXCEPT ![c] = "moved"] /\ Goto(c, "remove_return")
  /\ UNCHANGED <<platform, owner>>

\* os.replace is atomic, and raises when the folder exists: it is not empty.
Rename(c) ==
  /\ pc[c] = "rename"
  /\ IF folder = "absent"
     THEN /\ folder' = tmp[c] /\ tmp' = [tmp EXCEPT ![c] = "moved"]
          /\ Goto(c, "remove_return")
     ELSE Goto(c, "remove_raise") /\ UNCHANGED <<folder, tmp>>
  /\ UNCHANGED <<platform, owner>>

\* rmtree of the temporary directory; a failure to remove is ignored.
Remove(c) ==
  /\ pc[c] \in {"remove_return", "remove_raise"}
  /\ tmp' \in {tmp, [tmp EXCEPT ![c] = "absent"]}
  /\ Goto(c, IF pc[c] = "remove_return" THEN "unlock_return" ELSE "unlock_raise")
  /\ UNCHANGED <<platform, folder, owner>>

Release(c) == owner' = IF owner = c THEN Nobody ELSE owner

\* Fault: the exception passes by the release of the lock.
LeakyUnlock(c) ==
  /\ pc[c] \in {"unlock_return", "unlock_raise"}
  /\ IF pc[c] = "unlock_return" THEN Release(c) ELSE UNCHANGED owner
  /\ Goto(c, IF pc[c] = "unlock_return" THEN "returned" ELSE "raised")
  /\ UNCHANGED <<platform, tmp, folder>>

\* Fault: the exception is swallowed and the folder returned.
FaultyUnlock(c) ==
  /\ pc[c] \in {"unlock_return", "unlock_raise"}
  /\ Release(c)
  /\ Goto(c, "returned")
  /\ UNCHANGED <<platform, tmp, folder>>

\* Leaving _file_lock, normally or with an exception.
Unlock(c) ==
  /\ pc[c] \in {"unlock_return", "unlock_raise"}
  /\ Release(c)
  /\ Goto(c, IF pc[c] = "unlock_return" THEN "returned" ELSE "raised")
  /\ UNCHANGED <<platform, tmp, folder>>

Ended(c) == pc[c] \in {"returned", "raised", "killed"}

\* The process of a call is killed: its files stay, its lock does not.
Kill(c) ==
  /\ ~Ended(c)
  /\ Goto(c, "killed") /\ Release(c)
  /\ UNCHANGED <<platform, tmp, folder>>

CallStep(c) ==
  \/ Check(c) \/ Lock(c) \/ Recheck(c) \/ Generate(c)
  \/ Rename(c) \/ Remove(c) \/ Unlock(c)

Next == \E c \in Calls : CallStep(c) \/ Kill(c)

Spec == Init /\ [][Next]_vars

\* Each call runs on while it can; generation takes finite time.
FairSpec == Spec /\ \A c \in Calls : WF_vars(CallStep(c))
-----------------------------------------------------------------------------
\* The type of the state.
TypeOK ==
  /\ platform \in {"fcntl", "no_fcntl"}
  /\ pc \in [Calls -> {"check", "lock", "recheck", "generate", "rename",
                       "remove_return", "remove_raise", "unlock_return",
                       "unlock_raise", "returned", "raised", "killed"}]
  /\ tmp \in [Calls -> {"absent", "partial", "complete", "moved"}]
  /\ folder \in {"absent", "complete"}
  /\ owner \in Calls \cup {Nobody}

\* A call that returns leaves its caller a complete folder, on every platform
\* and whatever was killed: "the folder existing means generation completed".
ReturnedMeansComplete ==
  \A c \in Calls : pc[c] = "returned" => folder = "complete"

Generating(c) == pc[c] \in {"generate", "rename"}

\* With the lock, nobody generates data that is there, and no two calls
\* generate at the same time: "concurrent runs generate once, not N times".
NoWastedGeneration ==
  platform = "fcntl" =>
    /\ \A c \in Calls : Generating(c) => folder = "absent"
    /\ \A c, d \in Calls : Generating(c) /\ Generating(d) => c = d

\* The folder is never replaced or removed under a reader, even without the
\* lock.
FolderIsPermanent == [][folder # "absent" => folder' = folder]_folder

\* A call that is not killed ends: no lock outlives its owner.
EveryCallEnds == \A c \in Calls : <>Ended(c)
=============================================================================
