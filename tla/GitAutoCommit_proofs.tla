------------------------- MODULE GitAutoCommit_proofs -------------------------
(***************************************************************************)
(* Proofs about GitAutoCommit, for any number of commands, auto-commit     *)
(* requests and retries: as long as nothing has disturbed the lock, it     *)
(* excludes, the key of the running auto-commit is only there under it,    *)
(* and the progress that clients see is that of the running auto-commit.   *)
(***************************************************************************)
EXTENDS GitAutoCommit, FiniteSetTheorems, TLAPS

\* A process that saw the lock absent is alone in that, and the lock still is.
SettersAlone ==
    /\ \A p \in Processes : step[p] = "set" => lock = None
    /\ \A p, q \in Processes : step[p] = "set" /\ step[q] = "set" => p = q

Holding(p) == step[p] \in HoldingSteps

\* A process that has set the lock and not yet begun to release it has it.
HoldersHold == \A p \in Processes : Holding(p) => lock = p

\* The key of the running auto-commit is that of a handler between startAutoCommit
\* and finishAutoCommit, which has the lock.
RunnerRuns ==
    running # None =>
        /\ running \in Processes /\ lock = running
        /\ stage[running] = "handler"
        /\ step[running] \in {"begun", "inside", "finish"}

\* A handler at work is the running one, and has set the progress.
ProgressSet ==
    \A q \in Processes : stage[q] = "handler" =>
        /\ step[q] \in {"begun", "inside"} => running = q
        /\ step[q] = "inside" => progress = 10

CalmInv == calm => SettersAlone /\ HoldersHold /\ RunnerRuns /\ ProgressSet

Inv == TypeOK /\ CalmInv

-----------------------------------------------------------------------------
(* Type correctness *)

LEMMA TypeInit == Init => TypeOK
  BY GitAssumption, NoneAssumption
     DEF Init, TypeOK, Processes, Stages, LockSteps, OtherSteps, Ended

LEMMA TypeStep == TypeOK /\ [Next]_vars => TypeOK'
  <1> SUFFICES ASSUME TypeOK, [Next]_vars PROVE TypeOK'
    OBVIOUS
  <1> USE GitAssumption, NoneAssumption DEF redis, Processes
  <1>1. ASSUME NEW p \in Processes, AddFileLock(p) PROVE TypeOK'
    <2>1. CASE Check(p)
      BY <2>1 DEF TypeOK, Check, Goto, Stages, LockSteps, OtherSteps, Ended
    <2>2. CASE Set(p)
      BY <2>2 DEF TypeOK, Set, Goto, Stages, LockSteps, OtherSteps, Ended
    <2>3. CASE Retry(p)
      <3>1. tries[p] + 1 \in 0..MaxRetries
        BY <2>3 DEF TypeOK, Retry
      <3> QED
        BY <2>3, <3>1 DEF TypeOK, Retry, Goto, Stages, LockSteps, OtherSteps, Ended
    <2>4. CASE Refuse(p)
      BY <2>4 DEF TypeOK, Refuse, AfterRefusal, Goto, Stages, LockSteps, OtherSteps, Ended
    <2>5. CASE Vanish(p)
      BY <2>5 DEF TypeOK, Vanish, AfterVanished, Goto, Stages, LockSteps, OtherSteps, Ended
    <2> QED BY <1>1, <2>1, <2>2, <2>3, <2>4, <2>5 DEF AddFileLock
  <1>r. ReleaseFileLock => lock' = None /\ calm' \in BOOLEAN
    BY DEF TypeOK, ReleaseFileLock
  <1>2. ASSUME NEW p \in Processes, Work(p) \/ WorkFails(p) \/ Crash(p) \/ FailEarly(p)
        PROVE  TypeOK'
    <2>1. CASE Work(p) \/ WorkFails(p)
      BY <2>1 DEF TypeOK, Work, WorkFails, Goto, Stages, LockSteps, OtherSteps, Ended
    <2>2. CASE Crash(p)
      BY <2>2 DEF TypeOK, Crash, Stages, LockSteps, OtherSteps, Ended
    <2>3. CASE FailEarly(p)
      BY <2>3 DEF TypeOK, FailEarly, Goto, Stages, LockSteps, OtherSteps, Ended
    <2> QED BY <1>2, <2>1, <2>2, <2>3
  <1>3. ASSUME NEW p \in Processes, Arrive(p) \/ Except(p) \/ Release(p) PROVE TypeOK'
    <2>1. CASE Arrive(p)
      BY <1>r, <2>1 DEF TypeOK, Arrive, Goto, Stages, LockSteps, OtherSteps, Ended
    <2>2. CASE Except(p)
      BY <1>r, <2>2 DEF TypeOK, Except, Goto, Stages, LockSteps, OtherSteps, Ended
    <2>3. CASE Release(p)
      BY <1>r, <2>3 DEF TypeOK, Release, Enter, Goto, Stages, LockSteps, OtherSteps, Ended
    <2> QED BY <1>3, <2>1, <2>2, <2>3
  <1>4. ASSUME NEW q \in Requests,
               Poll(q) \/ Allowed(q) \/ StopPolling(q) \/ ProgressFails(q)
        PROVE  TypeOK'
    BY <1>r, <1>4 DEF TypeOK, Poll, Allowed, StopPolling, ProgressFails, Enter, Goto, Stages,
                      LockSteps, OtherSteps, Ended
  <1>5. ASSUME NEW q \in Requests,
               StartCheck(q) \/ StartSet(q) \/ Begin(q) \/ Commit(q) \/ Finish(q) \/ Hundred(q)
        PROVE TypeOK'
    BY <1>5 DEF TypeOK, StartCheck, StartSet, Begin, Commit, Finish, Hundred, Goto, Stages,
                LockSteps, OtherSteps, Ended
  <1>6. CASE ExpireLock
    BY <1>r, <1>6 DEF TypeOK, ExpireLock
  <1>7. CASE ExpireRunning \/ ExpireProgress
    BY <1>7 DEF TypeOK, ExpireRunning, ExpireProgress
  <1>8. CASE UNCHANGED vars
    BY <1>8 DEF TypeOK, vars
  <1> QED
    BY <1>1, <1>2, <1>3, <1>4, <1>5, <1>6, <1>7, <1>8 DEF Next, Step, RequestStep

-----------------------------------------------------------------------------
(* The lock while nothing disturbs it *)

LEMMA CalmInit == Init => CalmInv
  BY GitAssumption, NoneAssumption
     DEF Init, CalmInv, SettersAlone, HoldersHold, RunnerRuns, ProgressSet, Holding,
         HoldingSteps, Processes

\* The functions and keys that the steps below update.
LEMMA Facts ==
    ASSUME TypeOK
    PROVE  /\ DOMAIN step = Processes /\ DOMAIN stage = Processes
           /\ None \notin Processes
           /\ Requests \subseteq Processes
           /\ \A p \in Processes : p \in Commands => stage[p] = "command"
           /\ \A p \in Processes : step[p] \in {"startCheck", "startSet", "begun", "finish",
                                                "hundred"} => stage[p] = "handler"
  BY NoneAssumption DEF TypeOK, Processes

LEMMA CalmStep == TypeOK /\ CalmInv /\ [Next]_vars => CalmInv'
  <1> SUFFICES ASSUME TypeOK, CalmInv, [Next]_vars, calm'
               PROVE  (SettersAlone /\ HoldersHold /\ RunnerRuns /\ ProgressSet)'
    BY DEF CalmInv
  <1> DEFINE Parts == SettersAlone /\ HoldersHold /\ RunnerRuns /\ ProgressSet
  <1> USE DEF redis, Holding, HoldingSteps, SettersAlone, HoldersHold, RunnerRuns, ProgressSet
  <1>f. /\ DOMAIN step = Processes /\ DOMAIN stage = Processes
        /\ None \notin Processes /\ Requests \subseteq Processes
        /\ \A p \in Processes : step[p] \in {"startCheck", "startSet", "begun", "finish",
                                             "hundred"} => stage[p] = "handler"
    BY Facts
  <1>1. ASSUME NEW p \in Processes, Check(p) PROVE Parts'
    <2>1. calm /\ Parts
      BY <1>1 DEF Check, CalmInv
    <2> QED BY <1>f, <1>1, <2>1 DEF Check, Goto
  <1>2. ASSUME NEW p \in Processes, Set(p) PROVE Parts'
    <2>1. Parts
      BY <1>2 DEF Set, CalmInv
    <2>2. lock = None /\ running = None
      BY <1>f, <1>2, <2>1 DEF Set, Goto
    <2> QED BY <1>f, <1>2, <2>1, <2>2 DEF Set, Goto
  <1>3. ASSUME NEW p \in Processes, Retry(p) PROVE Parts'
    <2>1. Parts
      BY <1>3 DEF Retry, CalmInv
    <2> QED BY <1>f, <1>3, <2>1 DEF Retry, Goto
  <1>4. ASSUME NEW p \in Processes, Refuse(p) \/ Vanish(p) PROVE Parts'
    <2>1. Parts
      BY <1>4 DEF Refuse, Vanish, CalmInv
    <2>2. step[p] = "get" /\ \E to \in {"done", "except"} : step' = [step EXCEPT ![p] = to]
      BY <1>4 DEF Refuse, Vanish, AfterRefusal, Goto
    <2>3. UNCHANGED <<redis, stage>>
      BY <1>4 DEF Refuse, Vanish
    <2>4. \A q \in Processes : q # p => step'[q] = step[q]
      BY <1>f, <2>2
    <2>5. step'[p] \in {"done", "except"}
      BY <1>f, <2>2
    <2> QED BY <1>f, <2>1, <2>2, <2>3, <2>4, <2>5
  <1>5. ASSUME NEW p \in Processes, Work(p) \/ WorkFails(p) \/ FailEarly(p) PROVE Parts'
    <2>1. Parts
      BY <1>5 DEF Work, WorkFails, FailEarly, CalmInv
    <2>2. /\ (step[p] = "inside" /\ stage[p] # "handler") \/ step[p] = "arrive"
          /\ (step[p] = "inside" /\ step'[p] = "release") \/ step'[p] \in {"done", "except"}
          /\ \A q \in Processes : q # p => step'[q] = step[q]
          /\ UNCHANGED <<redis, stage>>
      BY <1>f, <1>5 DEF Work, WorkFails, FailEarly, Goto
    <2> QED BY <1>f, <2>1, <2>2
  \* A release that leaves the lock undisturbed: nobody counts on it afterwards.
  <1>r. ASSUME ReleaseFileLock, UNCHANGED <<running, progress>>,
               NEW p \in Processes, NEW to \in {"check", "done", "failed", "allowed", "except"},
               step' = [step EXCEPT ![p] = to],
               step[p] \in {"arrive", "except", "release"},
               \A q \in Processes : q # p => stage'[q] = stage[q]
        PROVE  Parts'
    <2>1. Parts
      BY <1>r DEF ReleaseFileLock, CalmInv
    <2>2. \A q \in Processes : Holding(q) => q = p
      BY <1>f, <1>r, <2>1 DEF ReleaseFileLock
    <2>3. running = None
      BY <1>f, <1>r, <2>1, <2>2
    <2>4. \A q \in Processes : step'[q] \notin HoldingSteps
      BY <1>f, <1>r, <2>2
    <2>5. \A q \in Processes : step'[q] = "set" => step[q] = "set"
      BY <1>f, <1>r
    <2> QED BY <1>f, <1>r, <2>1, <2>3, <2>4, <2>5 DEF ReleaseFileLock
  <1>6. ASSUME NEW p \in Processes, Arrive(p) \/ Except(p) \/ Release(p) PROVE Parts'
    <2>1. /\ step[p] \in {"arrive", "except", "release"}
          /\ \E to \in {"check", "done", "failed", "allowed", "except"} :
                step' = [step EXCEPT ![p] = to]
          /\ \A q \in Processes : q # p => stage'[q] = stage[q]
          /\ UNCHANGED <<running, progress>>
      BY <1>f, <1>6 DEF Arrive, Except, Release, Enter, Goto
    <2>2. CASE ReleaseFileLock
      BY <1>r, <2>1, <2>2
    <2>3. CASE Arrive(p) /\ UNCHANGED <<lock, calm>>
      <3>1. Parts
        BY <2>3 DEF CalmInv
      <3> QED BY <1>f, <2>3, <3>1 DEF Arrive, Goto
    <2> QED BY <1>6, <2>2, <2>3 DEF Arrive, Except, Release
  <1>c. ASSUME NEW p \in Processes, Crash(p) PROVE Parts'
    BY <1>c DEF Crash
  <1>11. ASSUME ExpireLock \/ \E q \in Requests : ProgressFails(q) PROVE Parts'
    <2>1. ReleaseFileLock /\ UNCHANGED <<running, progress, stage, step>>
      BY <1>11 DEF ProgressFails, ExpireLock
    <2>2. Parts
      BY <2>1 DEF ReleaseFileLock, CalmInv
    <2>3. \A p \in Processes : ~Holding(p)
      BY <1>f, <2>1, <2>2 DEF ReleaseFileLock
    <2> QED BY <1>f, <2>1, <2>2, <2>3 DEF ReleaseFileLock
  <1>7. ASSUME NEW q \in Requests, Poll(q) \/ Allowed(q) \/ StopPolling(q) PROVE Parts'
    <2>1. Parts
      BY <1>7 DEF Poll, Allowed, StopPolling, CalmInv
    <2>2. CASE StopPolling(q)
      BY <2>1, <2>2 DEF StopPolling
    <2>3. CASE Poll(q) \/ Allowed(q)
      <3>1. /\ q \in Processes /\ step[q] \in {"arrive", "allowed"}
            /\ UNCHANGED <<lock, running, progress>>
            /\ step' = [step EXCEPT ![q] = step'[q]]
            /\ step'[q] \in {"check", "done"}
        BY <1>f, <2>3 DEF Poll, Allowed, Enter, Goto
      <3>2. \A r \in Processes : r # q => stage'[r] = stage[r]
        BY <1>f, <2>3 DEF Poll, Allowed, Enter
      <3> QED BY <1>f, <2>1, <3>1, <3>2
    <2> QED BY <1>7, <2>2, <2>3
  <1>8. ASSUME NEW q \in Requests, StartCheck(q) \/ StartSet(q) PROVE Parts'
    <2>1. Parts /\ q \in Processes
      BY <1>f, <1>8 DEF StartCheck, StartSet, CalmInv
    <2> QED BY <1>f, <1>8, <2>1 DEF StartCheck, StartSet, Goto
  <1>9. ASSUME NEW q \in Requests, Begin(q) \/ Commit(q) PROVE Parts'
    <2>1. Parts /\ q \in Processes
      BY <1>f, <1>9 DEF Begin, Commit, CalmInv
    <2> QED BY <1>f, <1>9, <2>1 DEF Begin, Commit, Goto
  <1>10. ASSUME NEW q \in Requests, Finish(q) \/ Hundred(q) PROVE Parts'
    <2>1. Parts /\ q \in Processes
      BY <1>f, <1>10 DEF Finish, Hundred, CalmInv
    <2>2. \A r \in Processes : Holding(r) => r = q
      BY <1>f, <1>10, <2>1 DEF Finish, Hundred, Goto
    <2>3. CASE Finish(q)
      BY <1>f, <2>1, <2>2, <2>3 DEF Finish, Goto
    <2>4. CASE Hundred(q)
      BY <1>f, <2>1, <2>2, <2>4 DEF Hundred, Goto
    <2> QED BY <1>10, <2>3, <2>4
  <1>12. CASE ExpireRunning \/ ExpireProgress
    <2>1. Parts
      BY <1>12 DEF ExpireRunning, ExpireProgress, CalmInv
    <2> QED BY <1>f, <1>12, <2>1 DEF ExpireRunning, ExpireProgress
  <1>13. CASE UNCHANGED vars
    BY <1>13 DEF CalmInv, vars
  <1> QED
    BY <1>1, <1>2, <1>3, <1>4, <1>5, <1>6, <1>7, <1>8, <1>9, <1>10, <1>11, <1>12, <1>13, <1>c
       DEF Next, Step, AddFileLock, RequestStep

LEMMA InvHolds == Spec => []Inv
  <1>1. Init => Inv
    BY TypeInit, CalmInit DEF Inv
  <1>2. Inv /\ [Next]_vars => Inv'
    BY TypeStep, CalmStep DEF Inv
  <1> QED BY <1>1, <1>2, PTL DEF Spec

-----------------------------------------------------------------------------
(* Theorems *)

\* Type correctness, with any number of processes and retries.
THEOREM TypeCorrect == Spec => []TypeOK
  <1>1. Inv => TypeOK
    BY DEF Inv
  <1> QED BY <1>1, InvHolds, PTL

\* The file lock excludes: unless it was disturbed in one of the ways that
\* ExclusiveWhenCalm names, among them the release by the response to any request
\* that failed, at most one process works in the repository.
THEOREM LockExcludes == Spec => []ExclusiveWhenCalm
  <1>1. Inv => ExclusiveWhenCalm
    <2> SUFFICES ASSUME Inv, calm PROVE Cardinality(Working) <= 1
      BY DEF ExclusiveWhenCalm
    <2>1. Working \subseteq {lock}
      BY DEF Inv, CalmInv, HoldersHold, Holding, HoldingSteps, Working
    <2>2. IsFiniteSet({lock}) /\ Cardinality({lock}) = 1
      BY FS_Singleton
    <2> QED BY <2>1, <2>2, FS_Subset
  <1> QED BY <1>1, InvHolds, PTL

\* The key of the running auto-commit is nested in the file lock of its handler.
THEOREM RunningNested == Spec => []RunningUnderLock
  <1>1. Inv => RunningUnderLock
    BY DEF Inv, CalmInv, RunnerRuns, RunningUnderLock
  <1> QED BY <1>1, InvHolds, PTL

\* While a handler migrates, the progress that clients are told is its own.
THEOREM ProgressShown == Spec => []ProgressIsOwn
  <1>1. Inv => ProgressIsOwn
    <2> SUFFICES ASSUME Inv, calm, NEW q \in Requests,
                        stage[q] = "handler", step[q] = "inside"
                 PROVE  Happening /\ progress = 10
      BY DEF ProgressIsOwn
    <2>1. q \in Processes /\ q # None
      BY NoneAssumption DEF Processes
    <2>2. running = q /\ progress = 10
      BY <2>1 DEF Inv, CalmInv, ProgressSet
    <2>3. progress # None
      BY <2>2, NoneAssumption DEF Inv
    <2> QED BY <2>1, <2>2, <2>3 DEF Happening
  <1> QED BY <1>1, InvHolds, PTL
=============================================================================
