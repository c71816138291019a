----------------------------- MODULE GitAutoCommit -----------------------------
(***************************************************************************)
(* The file lock that the git commands of one application take in Redis    *)
(* (RedisUtils.java, GitRedisUtils.java), and the auto-commit built on it: *)
(* a request checks eligibility, fetches, and publishes an event whose     *)
(* handler commits and pushes in the background while the client polls.    *)
(*                                                                         *)
(* A process is one HTTP request.  A git command takes the lock once; an   *)
(* auto-commit request takes it to check eligibility and again to fetch,   *)
(* and its event handler, which runs on after the response, a third time.  *)
(* A command that fails before it asks for the lock stands for every       *)
(* request under .../git/.../app/<id> that fails without ever asking.      *)
(* Redis executes one command per action.  Redis does not know who set a   *)
(* key: the model records it in lock and running, and no action of the     *)
(* code reads it from there.                                               *)
(***************************************************************************)
EXTENDS Naturals, FiniteSets

CONSTANTS
    Commands,     \* requests for a git command: commit, pull, status, ...
    Requests,     \* requests for an auto-commit
    Chained,      \* commands that go on with then(...) behind addFileLock
    ServerSide,   \* requests that, if eligible, need a server migration only
    MaxRetries    \* bound: retries of addFileLock; the code has 20

ASSUME GitAssumption ==
    /\ Commands \cap Requests = {}
    /\ Chained \subseteq Commands /\ ServerSide \subseteq Requests
    /\ MaxRetries \in Nat

Processes == Commands \cup Requests

CONSTANT None                        \* an absent key
ASSUME NoneAssumption == None \notin Processes \cup {10, 100}

VARIABLES
    lock,      \* the key of the application: whose addFileLock set it
    running,   \* autocommit_<application>: whose startAutoCommit set it
    progress,  \* autocommit_progress_<application>; 10 stands for 10 to 80
    stage,     \* stage[p]: what p takes the lock for
    step,      \* step[p]: the next Redis command or piece of work of p
    tries,     \* tries[p]: retries of the current addFileLock
    polling,   \* requests whose client polls for the progress
    calm       \* nothing has disturbed the lock so far (for the properties)

vars == <<lock, running, progress, stage, step, tries, polling, calm>>
redis == <<lock, running, progress>>

Stages     == {"command", "request", "eligibility", "fetch", "handler"}
LockSteps  == {"check", "get", "set"}
Ended      == {"done", "failed"}
OtherSteps == {"arrive", "allowed", "except", "inside", "release",
               "startCheck", "startSet", "begun", "finish", "hundred"}

\* A process at one of these has set the lock and not yet begun to release it.
HoldingSteps == {"inside", "startCheck", "startSet", "begun", "finish", "hundred", "release"}

TypeOK ==
    /\ lock \in Processes \cup {None}
    /\ running \in Requests \cup {None}
    /\ progress \in {None, 10, 100}
    /\ stage \in [Processes -> Stages]
    /\ step \in [Processes -> LockSteps \cup OtherSteps \cup Ended]
    /\ tries \in [Processes -> 0..MaxRetries]
    /\ polling \subseteq Requests
    /\ calm \in BOOLEAN
    /\ \A p \in Processes :
          /\ p \in Commands <=> stage[p] = "command"
          /\ step[p] \in {"startCheck", "startSet", "begun", "finish", "hundred"}
                => stage[p] = "handler"

Init ==
    /\ lock = None /\ running = None /\ progress = None
    /\ stage = [p \in Processes |-> IF p \in Commands THEN "command" ELSE "request"]
    /\ step = [p \in Processes |-> "arrive"]
    /\ tries = [p \in Processes |-> 0]
    /\ polling = {}
    /\ calm = TRUE

Goto(p, from, to) == step[p] = from /\ step' = [step EXCEPT ![p] = to]

\* p goes on to take the lock for its next stage.
Enter(p, from, next) ==
    /\ Goto(p, from, "check")
    /\ stage' = [stage EXCEPT ![p] = next]
    /\ tries' = [tries EXCEPT ![p] = 0]

\* releaseFileLock: delete the key, whoever set it.  That disturbs the lock if
\* the process that set it counts on it after this step.
ReleaseFileLock ==
    /\ lock' = None
    /\ calm' = (calm /\ ~(lock # None /\ step'[lock] \in HoldingSteps))

\* A command asks for the lock once it has validated its arguments and read the
\* application; checkoutBranch first releases it.
Arrive(p) ==
    /\ p \in Commands
    /\ Goto(p, "arrive", "check")
    /\ ReleaseFileLock \/ UNCHANGED <<lock, calm>>
    /\ UNCHANGED <<running, progress, stage, tries, polling>>

\* A request fails before it has asked for the lock, or without ever doing so.
FailEarly(p) ==
    /\ Goto(p, "arrive", "except")
    /\ UNCHANGED <<redis, stage, tries, polling, calm>>

-----------------------------------------------------------------------------
(* GitRedisUtils.addFileLock: hasKey, and then set, or get and retry *)

\* Where a process goes on that could not get the lock.  The exception handler
\* of HTTP requests and the cleanUp of the event handler both release the lock
\* all the same; autoCommitApplication swallows the error of its fetch.
AfterRefusal(p) ==
    CASE stage[p] = "fetch"   -> "done"
      [] stage[p] = "handler" -> "finish"
      [] OTHER                -> "except"

\* Where a process goes on whose lock was found present and then gone, which
\* makes addFileLock complete without a value: then(...) goes on without a
\* lock, flatMap does nothing, and the default of the server migration cleans up.
AfterVanished(p) ==
    CASE p \in Chained \/ stage[p] = "eligibility"        -> "inside"
      [] stage[p] = "handler" /\ p \in ServerSide         -> "finish"
      [] OTHER                                            -> "done"

\* Faulty: the lock is set whether or not it is there.
CheckNothing(p) ==
    /\ Goto(p, "check", "set")
    /\ calm' = (calm /\ ~ \E q \in Processes \ {p} : step[q] = "set")
    /\ UNCHANGED <<redis, stage, tries, polling>>

\* hasKey.  Two processes that have both seen the lock absent overlap.
Check(p) ==
    /\ Goto(p, "check", IF lock = None THEN "set" ELSE "get")
    /\ calm' = (calm /\ ~(lock = None /\ \E q \in Processes \ {p} : step[q] = "set"))
    /\ UNCHANGED <<redis, stage, tries, polling>>

\* set, with a time limit.
Set(p) ==
    /\ Goto(p, "set", IF stage[p] = "handler" THEN "startCheck" ELSE "inside")
    /\ lock' = p
    /\ UNCHANGED <<running, progress, stage, tries, polling, calm>>

\* Faulty: the error is retried once too often.
RetryOneMore(p) ==
    /\ lock # None /\ tries[p] <= MaxRetries
    /\ Goto(p, "get", "check")
    /\ tries' = [tries EXCEPT ![p] = @ + 1]
    /\ UNCHANGED <<redis, stage, polling, calm>>

\* get: the command in progress, for the error message; the error is retried.
Retry(p) ==
    /\ lock # None /\ tries[p] < MaxRetries
    /\ Goto(p, "get", "check")
    /\ tries' = [tries EXCEPT ![p] = @ + 1]
    /\ UNCHANGED <<redis, stage, polling, calm>>

Refuse(p) ==
    /\ lock # None /\ tries[p] = MaxRetries
    /\ Goto(p, "get", AfterRefusal(p))
    /\ calm' = (calm /\ AfterRefusal(p) # "finish")
    /\ UNCHANGED <<redis, stage, tries, polling>>

Vanish(p) ==
    /\ lock = None
    /\ Goto(p, "get", AfterVanished(p))
    /\ calm' = (calm /\ AfterVanished(p) = "done")
    /\ UNCHANGED <<redis, stage, tries, polling>>

AddFileLock(p) == Check(p) \/ Set(p) \/ Retry(p) \/ Refuse(p) \/ Vanish(p)

-----------------------------------------------------------------------------
(* Work under the lock, and its release *)

\* The git work of a command, of the eligibility check or of the fetch is done.
Work(p) ==
    /\ stage[p] # "handler"
    /\ Goto(p, "inside", "release")
    /\ UNCHANGED <<redis, stage, tries, polling, calm>>

\* It fails.  The eligibility check turns its errors into "not required"; the
\* error of the fetch is swallowed, and the lock stays.
WorkFails(p) ==
    /\ stage[p] \in {"command", "fetch"}
    /\ Goto(p, "inside", IF stage[p] = "fetch" THEN "done" ELSE "except")
    /\ UNCHANGED <<redis, stage, tries, polling, calm>>

\* GlobalExceptionHandler: the response to a request on .../git/.../app/<id> that
\* failed releases the lock, at whatever point the request failed.
Except(p) ==
    /\ Goto(p, "except", "failed")
    /\ ReleaseFileLock
    /\ UNCHANGED <<running, progress, stage, tries, polling>>

\* The server that p runs on stops while p has the lock: no error handling runs, and
\* the keys stay.
Crash(p) ==
    /\ step[p] \in HoldingSteps
    /\ step' = [step EXCEPT ![p] = "failed"]
    /\ calm' = FALSE
    /\ UNCHANGED <<redis, stage, tries, polling>>

\* The work is done and the lock released.  Then a command and a handler are done,
\* though what a command has left to do (analytics) may fail; an eligible request
\* goes on, and after the fetch a request that is not behind publishes the event:
\* its response is PUBLISHED, its client polls.
Release(p) ==
    /\ \/ /\ Goto(p, "release", "done")
          /\ UNCHANGED <<stage, tries, polling>>
       \/ /\ stage[p] = "command"
          /\ Goto(p, "release", "except")
          /\ UNCHANGED <<stage, tries, polling>>
       \/ /\ stage[p] = "eligibility"
          /\ Goto(p, "release", "allowed")
          /\ UNCHANGED <<stage, tries, polling>>
       \/ /\ stage[p] = "fetch"
          /\ Enter(p, "release", "handler")
          /\ polling' = polling \cup {p}
    /\ ReleaseFileLock
    /\ UNCHANGED <<running, progress>>

-----------------------------------------------------------------------------
(* The auto-commit request *)

\* getAutoCommitProgress answers IN_PROGRESS or LOCKED.
Happening == running # None /\ progress # None

\* autoCommitApplication: with an auto-commit under way answer IN_PROGRESS or
\* LOCKED, which makes the client poll, and else check whether one is required.
Poll(q) ==
    \/ /\ Happening
       /\ Goto(q, "arrive", "done")
       /\ polling' = polling \cup {q}
       /\ UNCHANGED <<redis, stage, tries, calm>>
    \/ /\ ~Happening
       /\ Enter(q, "arrive", "eligibility")
       /\ UNCHANGED <<redis, polling, calm>>

\* isAutoCommitAllowed: enabled, the branch not protected, and none running.
Allowed(q) ==
    \/ /\ Goto(q, "allowed", "done")
       /\ UNCHANGED <<redis, stage, tries, polling, calm>>
    \/ /\ running = None
       /\ Enter(q, "allowed", "fetch")
       /\ UNCHANGED <<redis, polling, calm>>

\* pollAutocommitProgressSaga: the first answer that is not IN_PROGRESS or LOCKED
\* stops the polling.
StopPolling(q) ==
    /\ q \in polling
    /\ ~Happening
    /\ polling' = polling \ {q}
    /\ UNCHANGED <<redis, stage, step, tries, calm>>

\* A request for the progress fails.  That stops the polling too, and the
\* exception handler releases the lock.
ProgressFails(q) ==
    /\ q \in polling
    /\ polling' = polling \ {q}
    /\ UNCHANGED <<running, progress, stage, step, tries>>
    /\ ReleaseFileLock

-----------------------------------------------------------------------------
(* The event handler: autoCommitDSLMigration, autoCommitServerMigration *)

\* startAutoCommit: hasKey; an auto-commit that is running makes it fail.
StartCheck(q) ==
    /\ Goto(q, "startCheck", IF running = None THEN "startSet" ELSE "finish")
    /\ UNCHANGED <<redis, stage, tries, polling, calm>>

\* set, with a time limit.
StartSet(q) ==
    /\ Goto(q, "startSet", "begun")
    /\ running' = q
    /\ UNCHANGED <<lock, progress, stage, tries, polling, calm>>

\* Faulty: the progress is not reset when an auto-commit begins.
BeginSilently(q) ==
    /\ \/ Goto(q, "begun", "inside")
       \/ Goto(q, "begun", "finish")
    /\ UNCHANGED <<redis, stage, tries, polling, calm>>

\* The first progress, before or after resetUncommittedChanges; or that fails.
Begin(q) ==
    /\ \/ Goto(q, "begun", "inside") /\ progress' = 10
       \/ Goto(q, "begun", "finish") /\ UNCHANGED progress
    /\ UNCHANGED <<lock, running, stage, tries, polling, calm>>

\* The migration is committed and pushed, or something fails on the way; the
\* later progress values are not told apart.
Commit(q) ==
    /\ stage[q] = "handler"
    /\ Goto(q, "inside", "finish")
    /\ progress' \in {progress, 10}
    /\ UNCHANGED <<lock, running, stage, tries, polling, calm>>

\* Faulty: cleanUp does not delete the key of the auto-commit.
FinishNothing(q) ==
    /\ Goto(q, "finish", "hundred")
    /\ UNCHANGED <<redis, stage, tries, polling, calm>>

\* cleanUp: finishAutoCommit deletes the key, whoever set it; ...
Finish(q) ==
    /\ Goto(q, "finish", "hundred")
    /\ running' = None
    /\ UNCHANGED <<lock, progress, stage, tries, polling, calm>>

\* ... then the progress is 100, and then the file lock is released.
Hundred(q) ==
    /\ Goto(q, "hundred", "release")
    /\ progress' = 100
    /\ UNCHANGED <<lock, running, stage, tries, polling, calm>>

-----------------------------------------------------------------------------
(* Time limits *)

\* Faulty: the lock has no time limit.
NeverExpires == FALSE /\ UNCHANGED vars

\* FILE_LOCK_TIME_LIMIT.  A lock that a failed fetch has left may expire without
\* doing harm.
ExpireLock ==
    /\ lock # None
    /\ UNCHANGED <<running, progress, stage, step, tries, polling>>
    /\ ReleaseFileLock

\* AUTO_COMMIT_TIME_LIMIT is longer, and the key is set after the lock.
ExpireRunning ==
    /\ running # None /\ lock # running
    /\ running' = None
    /\ UNCHANGED <<lock, progress, stage, step, tries, polling, calm>>

\* The progress key is set again and again by a handler that has the lock.
ExpireProgress ==
    /\ progress # None
    /\ running = None \/ lock # running
    /\ progress' = None
    /\ UNCHANGED <<lock, running, stage, step, tries, polling, calm>>

-----------------------------------------------------------------------------
Step(p) ==
    \/ Arrive(p) \/ FailEarly(p)
    \/ AddFileLock(p) \/ Work(p) \/ WorkFails(p) \/ Except(p) \/ Release(p)

RequestStep(q) ==
    \/ Poll(q) \/ Allowed(q)
    \/ StartCheck(q) \/ StartSet(q) \/ Begin(q) \/ Commit(q) \/ Finish(q) \/ Hundred(q)

Next == \/ \E p \in Processes : Step(p) \/ Crash(p)
        \/ \E q \in Requests : RequestStep(q) \/ StopPolling(q) \/ ProgressFails(q)
        \/ ExpireLock \/ ExpireRunning \/ ExpireProgress

Spec == Init /\ [][Next]_vars

\* Requests go on, clients poll, and time limits run out.
Fairness == /\ \A p \in Commands : WF_vars(Step(p))
            /\ \A q \in Requests : WF_vars(Step(q) \/ RequestStep(q))
            /\ \A q \in Requests : WF_vars(StopPolling(q))
            /\ WF_vars(ExpireLock) /\ WF_vars(ExpireRunning)

FairSpec == Spec /\ Fairness

-----------------------------------------------------------------------------
(* Properties *)

\* The processes at work in the repository of the application, of those that ask
\* for the lock.
Working == {p \in Processes : step[p] \in {"inside", "begun"}}

\* The lock excludes, unless one of these has happened: two processes saw it absent
\* at the same time; it was deleted while its holder was at work, because its time
\* ran out or by somebody else's release (the response to a request that failed,
\* whether or not it had asked for the lock, a checkout that begins, the cleanUp of
\* a handler that was refused it); or a process went on without it because it
\* vanished between hasKey and get; or the server of its holder stopped.
ExclusiveWhenCalm == calm => Cardinality(Working) <= 1

\* Unless the lock was disturbed, the key of the running auto-commit is there
\* only while its handler has the file lock.
RunningUnderLock == calm /\ running # None => lock = running

\* Unless the lock was disturbed, a client that polls while a handler migrates is
\* told so, and never the 100 of an earlier auto-commit.
ProgressIsOwn ==
    calm => \A q \in Requests :
        stage[q] = "handler" /\ step[q] = "inside" => Happening /\ progress = 10

\* In the end every request is answered, every handler is through, every client
\* has stopped polling, and no key is left: not even the lock of a fetch that
\* failed.
EverythingEnds ==
    <>[](/\ \A p \in Processes : step[p] \in Ended
         /\ lock = None /\ running = None /\ polling = {})

=============================================================================
