--------------------------- MODULE LocalDataProofs ---------------------------
(* Proofs about LocalData, for any set of calls and both platforms. *)
EXTENDS LocalData, TLAPS

\* Between flock and its release, or where they would be.
Locked(c) ==
  pc[c] \in {"recheck", "generate", "rename", "remove_return", "remove_raise",
             "unlock_return", "unlock_raise"}

\* A call past the lock owns it.
LockHeld == platform = "fcntl" => \A c \in Calls : Locked(c) => owner = c

\* Who generates found no folder, and under the lock none appears.
StillAbsent == platform = "fcntl" => \A c \in Calls : Generating(c) => folder = "absent"

\* What is about to be renamed was generated to the end.
Generated == \A c \in Calls : pc[c] = "rename" => tmp[c] = "complete"

\* A call on its way to return found or made the folder.
FolderSeen ==
  \A c \in Calls :
    pc[c] \in {"remove_return", "unlock_return", "returned"} => folder = "complete"

IInv == TypeOK /\ LockHeld /\ StillAbsent /\ Generated /\ FolderSeen

\* The inductive invariant holds initially.
LEMMA InitInv == Init => IInv
  BY LocalDataAssumption
  DEF Init, IInv, TypeOK, LockHeld, StillAbsent, Generated, FolderSeen, Locked, Generating

\* The types are preserved by every step: what is renamed is complete.
LEMMA TypeStep == IInv /\ [Next]_vars => TypeOK'
<1> SUFFICES ASSUME IInv, [Next]_vars PROVE TypeOK'
  OBVIOUS
<1> USE DEF IInv, TypeOK
<1>1. CASE UNCHANGED vars
  BY <1>1 DEF vars
<1>2. ASSUME NEW c \in Calls, CallStep(c) \/ Kill(c) PROVE TypeOK'
  <2>1. CASE Check(c)
    BY <2>1 DEF Check, Goto
  <2>2. CASE Lock(c)
    BY <2>2 DEF Lock, Goto
  <2>3. CASE Recheck(c)
    BY <2>3 DEF Recheck, Goto
  <2>4. CASE Generate(c)
    BY <2>4 DEF Generate, Goto
  <2>5. CASE Rename(c)
    BY <2>5 DEF Rename, Goto, Generated
  <2>6. CASE Remove(c)
    BY <2>6 DEF Remove, Goto
  <2>7. CASE Unlock(c)
    BY <2>7 DEF Unlock, Goto, Release
  <2>8. CASE Kill(c)
    BY <2>8 DEF Kill, Goto, Release
  <2>9. QED
    BY <1>2, <2>1, <2>2, <2>3, <2>4, <2>5, <2>6, <2>7, <2>8 DEF CallStep
<1>3. QED
  BY <1>1, <1>2 DEF Next

\* Every step keeps the lock with the one call past it, and what the calls
\* know of the folder true.
LEMMA StepInv == IInv /\ [Next]_vars => IInv'
<1> SUFFICES ASSUME IInv, [Next]_vars PROVE IInv'
  OBVIOUS
<1>t. TypeOK'
  BY TypeStep
<1> USE DEF IInv, TypeOK, LockHeld, StillAbsent, Generated, FolderSeen, Locked, Generating
<1>1. CASE UNCHANGED vars
  BY <1>1 DEF vars
<1>2. ASSUME NEW c \in Calls, CallStep(c) \/ Kill(c) PROVE IInv'
  <2>1. CASE Check(c)
    BY <1>t, <2>1 DEF Check, Goto
  <2>2. CASE Lock(c)
    BY <1>t, <2>2, LocalDataAssumption DEF Lock, Goto
  <2>3. CASE Recheck(c)
    BY <1>t, <2>3 DEF Recheck, Goto
  <2>4. CASE Generate(c)
    BY <1>t, <2>4 DEF Generate, Goto
  <2>5. CASE Rename(c)
    BY <1>t, <2>5 DEF Rename, Goto
  <2>6. CASE Remove(c)
    BY <1>t, <2>6 DEF Remove, Goto
  <2>7. CASE Unlock(c)
    BY <1>t, <2>7 DEF Unlock, Goto, Release
  <2>8. CASE Kill(c)
    BY <1>t, <2>8 DEF Kill, Goto, Release, Ended
  <2>9. QED
    BY <1>2, <2>1, <2>2, <2>3, <2>4, <2>5, <2>6, <2>7, <2>8 DEF CallStep
<1>3. QED
  BY <1>1, <1>2 DEF Next

THEOREM Invariance == Spec => []IInv
  BY InitInv, StepInv, PTL DEF Spec

\* The folder, the lock and every call's temporary directory stay in their
\* states, whichever calls are killed.
THEOREM TypeOKHolds == Spec => []TypeOK
<1>1. IInv => TypeOK
  BY DEF IInv
<1>2. QED
  BY <1>1, Invariance, PTL

\* Whatever calls are made, killed or fail, one that returns leaves a
\* completely generated folder.
THEOREM ReturnedMeansCompleteHolds == Spec => []ReturnedMeansComplete
<1>1. IInv => ReturnedMeansComplete
  BY DEF IInv, FolderSeen, ReturnedMeansComplete
<1>2. QED
  BY <1>1, Invariance, PTL

\* With the lock, only one call generates and only while there is no folder.
THEOREM NoWastedGenerationHolds == Spec => []NoWastedGeneration
<1>1. IInv => NoWastedGeneration
  BY DEF IInv, LockHeld, StillAbsent, NoWastedGeneration, Generating, Locked
<1>2. QED
  BY <1>1, Invariance, PTL

\* No step replaces or removes an existing folder.
THEOREM FolderIsPermanentHolds == Spec => FolderIsPermanent
<1>1. [Next]_vars => [folder # "absent" => folder' = folder]_folder
  BY DEF Next, vars, CallStep, Check, Lock, Recheck, Generate, Rename, Remove,
         Unlock, Kill
<1>2. QED
  BY <1>1, PTL DEF Spec, FolderIsPermanent
=============================================================================
