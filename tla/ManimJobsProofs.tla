--------------------------- MODULE ManimJobsProofs ---------------------------
(***************************************************************************)
(* Safety of ManimJobs for any number of jobs, requests and worker tasks   *)
(* and any limits, and why a run of a job ends.                            *)
(***************************************************************************)
EXTENDS ManimJobs, FiniteSetTheorems, TLAPS

(***************************************************************************)
(* The inductive invariant.  Where a run is in its loop bounds the attempts*)
(* it has used: it has one left when it is about to begin one, and it has  *)
(* begun one, before it fails, and two, before it asks the model.          *)
(***************************************************************************)
AttemptsAt(t) ==
    /\ t.at = "begin" => t.used < MaxAttempts /\ (t.needRepair => t.used >= 1)
    /\ t.at \in {"check", "rendering"} => t.used >= 1
    /\ t.at \in {"mark_repair", "repairing"} => t.used >= 2

AttemptInv == \A w \in Workers : AttemptsAt(task[w])

\* A run that is about to write READY has stored its video.
SavedHasMedia == \A w \in Workers : task[w].at = "saved" => task[w].job \in media

IInv == TypeOK /\ AttemptInv /\ SavedHasMedia /\ ReadyHasMedia

-----------------------------------------------------------------------------
(* What a store update does: it changes one record, along the job's state  *)
(* machine, or nothing.                                                    *)
LEMMA UpdateEffect ==
    ASSUME TypeOK, NEW j \in Jobs, NEW new \in JobStates, Update(j, new)
    PROVE  /\ state' \in [Jobs -> JobStates]
           /\ claim' \in [Jobs -> {"none", "young", "old"}]
           /\ \A i \in Jobs : state'[i] # state[i] =>
                 state'[i] = new /\ new \in Allowed(state[i])
  BY DEF TypeOK, Update, CanUpdate, Age

(* A task at one of the loop's steps holds the record of a run.            *)
LEMMA RunTyped ==
    ASSUME TypeOK, NEW w \in Workers, task[w].at \in RunSteps
    PROVE  task[w] \in Runs
  BY DEF TypeOK, Tasks, Runs, Idle, RunSteps

(* A request that is under way has a job.                                  *)
LEMMA RequestTyped ==
    ASSUME TypeOK, NEW c \in Clients, client[c].at \in RequestSteps
    PROVE  client[c] \in [at : RequestSteps, job : Jobs]
  BY DEF TypeOK, Requests, Idle, RequestSteps

(* After a failed attempt the run gives up or has an attempt left.         *)
LEMMA FailureEffect ==
    ASSUME IInv, NEW w \in Workers, task[w].at \in {"check", "rendering"},
           NEW category, AfterFailure(w, category)
    PROVE  /\ task' \in [Workers -> Tasks]
           /\ \A v \in Workers : v # w => task'[v] = task[v]
           /\ task'[w].at \in {"fail", "begin"}
           /\ AttemptsAt(task'[w])
  <1> DEFINE next == NextStep(category, MaxAttempts - task[w].used)
  <1>1. task[w] \in Runs /\ task[w].used >= 1
    BY RunTyped DEF IInv, AttemptInv, AttemptsAt, RunSteps
  <1>2. task' = [task EXCEPT ![w] = [@ EXCEPT
                    !.at = IF next = "give_up" THEN "fail" ELSE "begin",
                    !.needRepair = (next = "repair")]]
    BY DEF AfterFailure
  <1>3. task'[w] = [task[w] EXCEPT
                      !.at = IF next = "give_up" THEN "fail" ELSE "begin",
                      !.needRepair = (next = "repair")]
    BY <1>2 DEF IInv, TypeOK
  <1>4. next # "give_up" => task[w].used < MaxAttempts
    BY <1>1, ManimAssumption DEF NextStep, Runs, ManimAssumption
  <1>5. task'[w] \in Runs /\ task'[w].at \in {"fail", "begin"}
          /\ task'[w].used = task[w].used
          /\ (task'[w].at = "begin" => next # "give_up")
    <2> HIDE DEF next
    <2>1. QED  BY <1>1, <1>3 DEF Runs, RunSteps
  <1>6. AttemptsAt(task'[w])
    BY <1>1, <1>4, <1>5 DEF AttemptsAt
  <1>7. task' \in [Workers -> Tasks]
    BY <1>2, <1>3, <1>5 DEF IInv, TypeOK, Tasks
  <1>8. QED
    BY <1>2, <1>5, <1>6, <1>7 DEF IInv, TypeOK

(* The steps of the API, of the watcher and of the environment.            *)
LEMMA RequestsPreserve ==
    ASSUME IInv, NEW c \in Clients, Request(c)
    PROVE  IInv'
  <1> USE DEF IInv
  <1>1. ASSUME client[c].at \in RequestSteps PROVE client[c].job \in Jobs
    BY <1>1, RequestTyped
  <1>2. CASE CheckLimits(c)
    <2>1. client' \in [Clients -> Requests]
      BY <1>2, RequestTyped DEF CheckLimits, Answered, Goto, TypeOK, Requests, RequestSteps
    <2>2. hits' \in 0 .. HourlyLimit + 1
      BY <1>2, ManimAssumption DEF CheckLimits, TypeOK, ManimAssumption
    <2>3. QED
      BY <1>2, <2>1, <2>2
      DEF CheckLimits, TypeOK, AttemptInv, SavedHasMedia, ReadyHasMedia, store, history
  <1>3. CASE Create(c)
    <2>1. client' \in [Clients -> Requests]
      BY <1>3, RequestTyped DEF Create, Answered, Goto, TypeOK, Requests, RequestSteps
    <2>2. QED
      BY <1>1, <1>3, <2>1
      DEF Create, TypeOK, AttemptInv, SavedHasMedia, ReadyHasMedia, Age, history,
          RequestSteps, JobStates, ACTIVE
  <1>4. CASE Overwrite(c)
    <2>1. client' \in [Clients -> Requests]
      BY <1>4, RequestTyped DEF Overwrite, Goto, TypeOK, Requests, RequestSteps
    <2>2. QED
      BY <1>1, <1>4, <2>1
      DEF Overwrite, TypeOK, AttemptInv, SavedHasMedia, ReadyHasMedia, Age,
          RequestSteps, JobStates, ACTIVE
  <1>5. CASE Unclaim(c)
    <2>1. client' \in [Clients -> Requests]
      BY <1>5, RequestTyped DEF Unclaim, Goto, TypeOK, Requests, RequestSteps
    <2>2. QED
      BY <1>1, <1>5, <2>1
      DEF Unclaim, TypeOK, AttemptInv, SavedHasMedia, ReadyHasMedia, history, RequestSteps
  <1>6. CASE Enqueue(c)
    <2>1. client' \in [Clients -> Requests]
      BY <1>6 DEF Enqueue, Answered, TypeOK, Requests
    <2>2. queue' \in Seq(Jobs)
      BY <1>1, <1>6 DEF Enqueue, TypeOK, RequestSteps
    <2>3. QED
      BY <1>6, <2>1, <2>2
      DEF Enqueue, TypeOK, AttemptInv, SavedHasMedia, ReadyHasMedia, history
  <1>7. QED
    BY <1>2, <1>3, <1>4, <1>5, <1>6 DEF Request

LEMMA UsersPreserve ==
    ASSUME IInv, NEW c \in Clients, NEW j \in Jobs, Submit(c, j) \/ Cancel(c, j)
    PROVE  IInv'
  <1> USE DEF IInv
  <1>1. CASE Submit(c, j)
    <2>1. client' \in [Clients -> Requests]
      BY <1>1 DEF Submit, TypeOK, Requests, RequestSteps
    <2>2. submits' \in 0 .. MaxSubmits
      BY <1>1, ManimAssumption DEF Submit, TypeOK, ManimAssumption
    <2>3. QED
      BY <1>1, <2>1, <2>2
      DEF Submit, TypeOK, AttemptInv, SavedHasMedia, ReadyHasMedia, store
  <1>2. CASE Cancel(c, j)
    <2>1. "cancelled" \in JobStates /\ "cancelled" # "ready"
      BY DEF JobStates, TERMINAL
    <2>2. QED
      BY <1>2, <2>1, UpdateEffect
      DEF Cancel, TypeOK, AttemptInv, SavedHasMedia, ReadyHasMedia, history
  <1>3. QED
    BY <1>1, <1>2

LEMMA MishapsPreserve ==
    ASSUME IInv,
           \/ \E c \in Clients : CrashRequest(c)
           \/ \E w \in Workers : CrashTask(w)
           \/ \E j \in Jobs : Expire(j)
    PROVE  IInv'
  <1> USE DEF IInv
  <1>1. ASSUME NEW c \in Clients, CrashRequest(c) PROVE IInv'
    BY <1>1, ManimAssumption
    DEF CrashRequest, Answered, TypeOK, Requests, AttemptInv, SavedHasMedia,
        ReadyHasMedia, store, ManimAssumption
  <1>2. ASSUME NEW w \in Workers, CrashTask(w) PROVE IInv'
    <2>1. task' \in [Workers -> Tasks] /\ task'[w] = Idle
            /\ \A v \in Workers : v # w => task'[v] = task[v]
      BY <1>2 DEF CrashTask, Stop, TypeOK, Tasks
    <2>2. AttemptInv' /\ SavedHasMedia'
      BY <1>2, <2>1 DEF CrashTask, AttemptInv, AttemptsAt, SavedHasMedia, Idle
    <2>3. QED
      BY <1>2, <2>1, <2>2, ManimAssumption
      DEF CrashTask, TypeOK, ReadyHasMedia, store, ManimAssumption
  <1>3. ASSUME NEW j \in Jobs, Expire(j) PROVE IInv'
    BY <1>3, ManimAssumption
    DEF Expire, TypeOK, AttemptInv, SavedHasMedia, ReadyHasMedia, JobStates,
        ManimAssumption
  <1>4. QED
    BY <1>1, <1>2, <1>3

(* What has to be shown of a step of one task.                             *)
LEMMA TaskStep ==
    ASSUME IInv, NEW w \in Workers,
           task' \in [Workers -> Tasks],
           \A v \in Workers : v # w => task'[v] = task[v],
           AttemptsAt(task'[w]),
           task'[w].at = "saved" => task'[w].job \in media',
           media' \subseteq Jobs, media \subseteq media',
           state' \in [Jobs -> JobStates],
           claim' \in [Jobs -> {"none", "young", "old"}],
           \A j \in Jobs : state'[j] = "ready" => state[j] = "ready" \/ j \in media',
           queue' \in Seq(Jobs),
           UNCHANGED <<hits, client, history>>
    PROVE  IInv'
  BY DEF IInv, TypeOK, AttemptInv, SavedHasMedia, ReadyHasMedia, history

(* The steps of a run that only move its record along the loop.            *)
LEMMA MoveStep ==
    ASSUME IInv, NEW w \in Workers, task[w].at \in RunSteps,
           NEW t \in Tasks, task' = [task EXCEPT ![w] = t],
           AttemptsAt(t), t.at # "saved",
           NEW new \in JobStates \ {"ready"},
           Update(task[w].job, new) \/ UNCHANGED <<state, claim>>,
           UNCHANGED <<queue, media, hits, client, history>>
    PROVE  IInv'
  <1>1. task[w].job \in Jobs
    BY RunTyped DEF IInv, Runs
  <1>2. task' \in [Workers -> Tasks] /\ task'[w] = t
          /\ \A v \in Workers : v # w => task'[v] = task[v]
    BY DEF IInv, TypeOK
  <1>3. /\ state' \in [Jobs -> JobStates]
        /\ claim' \in [Jobs -> {"none", "young", "old"}]
        /\ \A i \in Jobs : state'[i] = "ready" => state[i] = "ready"
    BY <1>1, UpdateEffect DEF IInv, TypeOK
  <1>4. queue' \in Seq(Jobs) /\ media' \subseteq Jobs
    BY DEF IInv, TypeOK
  <1>5. QED
    BY <1>2, <1>3, <1>4, TaskStep

LEMMA IdleFits == Idle \in Tasks /\ AttemptsAt(Idle) /\ Idle.at = "idle"
  BY DEF Idle, Tasks, AttemptsAt

(* The states the runner writes.                                           *)
LEMMA Written ==
    {"validating", "repairing", "rendering", "cancelled", "failed"}
      \subseteq JobStates \ {"ready"}
  BY DEF JobStates, ACTIVE, TERMINAL

LEMMA FetchPreserves ==
    ASSUME IInv, NEW w \in Workers, Take(w) \/ Claim(w) \/ Load(w)
    PROVE  IInv'
  <1> USE DEF IInv
  <1>1. CASE Take(w)
    <2>1. Head(queue) \in Jobs /\ Tail(queue) \in Seq(Jobs)
      BY <1>1 DEF Take, TypeOK
    <2>2. [at |-> "claim", job |-> Head(queue)] \in Tasks
      BY <2>1 DEF Tasks
    <2>3. QED
      BY <1>1, <2>1, <2>2, TaskStep DEF Take, TypeOK, AttemptsAt, JobStates
  <1>2. CASE Claim(w)
    <2>1. task[w] \in [at : {"claim", "load"}, job : Jobs]
      BY <1>2 DEF Claim, TypeOK, Tasks, Idle, Runs, RunSteps
    <2>2. claim' \in [Jobs -> {"none", "young", "old"}]
      BY <1>2, <2>1 DEF Claim, TypeOK
    <2> DEFINE t == [task[w] EXCEPT !.at = "load"]
    <2>3. task' = [task EXCEPT ![w] = Idle] \/ task' = [task EXCEPT ![w] = t]
      BY <1>2 DEF Claim, Stop, Step, TypeOK
    <2>4. t \in Tasks /\ AttemptsAt(t) /\ t.at # "saved"
      BY <2>1 DEF Tasks, AttemptsAt
    <2> HIDE DEF t
    <2>5. /\ task' \in [Workers -> Tasks]
          /\ \A v \in Workers : v # w => task'[v] = task[v]
          /\ AttemptsAt(task'[w]) /\ task'[w].at # "saved"
      BY <2>3, <2>4, IdleFits DEF TypeOK
    <2>6. QED
      BY <1>2, <2>2, <2>5, TaskStep DEF Claim, TypeOK
  <1>3. CASE Load(w)
    <2>1. task[w].job \in Jobs
      BY <1>3 DEF Load, TypeOK, Tasks, Idle, Runs, RunSteps
    <2> DEFINE t == [at |-> "begin", job |-> task[w].job, used |-> 0,
                     needRepair |-> FALSE, fits |-> task[w].job \notin outgrown,
                     cancelled |-> FALSE]
    <2>2. t \in Tasks /\ AttemptsAt(t) /\ t.at # "saved"
      BY <2>1, ManimAssumption DEF Tasks, Runs, RunSteps, AttemptsAt, ManimAssumption
    <2>3. task' = [task EXCEPT ![w] = Idle] \/ task' = [task EXCEPT ![w] = t]
      BY <1>3 DEF Load, Stop
    <2> HIDE DEF t
    <2>4. QED
      BY <1>3, <2>2, <2>3, IdleFits, TaskStep DEF Load, TypeOK, store
  <1>4. QED
    BY <1>1, <1>2, <1>3

LEMMA AttemptPreserves ==
    ASSUME IInv, NEW w \in Workers, Attempt(w)
    PROVE  IInv'
  <1> USE DEF IInv
  <1>1. ASSUME task[w].at \in RunSteps
        PROVE  task[w] \in Runs /\ AttemptsAt(task[w])
    BY <1>1, RunTyped DEF AttemptInv
  <1>2. ASSUME task[w].at \in RunSteps, NEW where \in RunSteps, Step(w, where)
        PROVE  /\ task' = [task EXCEPT ![w] = [task[w] EXCEPT !.at = where]]
               /\ [task[w] EXCEPT !.at = where] \in Tasks
    BY <1>1, <1>2 DEF Step, TypeOK, Tasks, Runs
  <1>3. CASE Begin(w)
    <2>1. task[w].at = "begin" /\ "begin" \in RunSteps
      BY <1>3 DEF Begin, RunSteps
    <2>2. task[w] \in Runs /\ task[w].used < MaxAttempts
            /\ (task[w].needRepair => task[w].used >= 1)
      BY <1>1, <2>1 DEF AttemptsAt
    <2> DEFINE where == IF task[w].needRepair THEN "mark_repair" ELSE "check"
               t == [task[w] EXCEPT !.used = @ + 1, !.at = where]
    <2>3. t \in Tasks
      <3>1. where \in RunSteps /\ task[w].used + 1 \in 0 .. MaxAttempts
        BY <2>2, ManimAssumption DEF Runs, RunSteps, ManimAssumption
      <3> HIDE DEF where
      <3>2. QED
        BY <2>2, <3>1 DEF Tasks, Runs
    <2>4. AttemptsAt(t) /\ t.at # "saved"
      BY <2>2, ManimAssumption DEF AttemptsAt, Runs, ManimAssumption
    <2>5. Update(task[w].job, "validating")
            /\ (task' = [task EXCEPT ![w] = Idle] \/ task' = [task EXCEPT ![w] = t])
      <3>1. ~ (task[w].used >= MaxAttempts)
        BY <2>2, ManimAssumption DEF Runs, ManimAssumption
      <3>2. QED
        BY <1>3, <3>1 DEF Begin, Stop, TypeOK
    <2> HIDE DEF t
    <2>6. UNCHANGED <<queue, media, hits, client, history>>
      BY <1>3 DEF Begin
    <2>7. QED
      BY <2>1, <2>3, <2>4, <2>5, <2>6, IdleFits, Written, MoveStep
  <1>4. CASE MarkRepair(w)
    <2>1. task[w].at = "mark_repair" /\ {"mark_repair", "repairing"} \subseteq RunSteps
      BY <1>4 DEF MarkRepair, RunSteps
    <2> DEFINE t == [task[w] EXCEPT !.at = "repairing"]
    <2>2. AttemptsAt(t) /\ t.at # "saved"
      BY <1>1, <2>1 DEF AttemptsAt, Runs
    <2>3. QED
      BY <1>2, <1>4, <2>1, <2>2, Written, MoveStep DEF MarkRepair
  <1>5. CASE Repaired(w)
    <2>1. task[w].at = "repairing" /\ "repairing" \in RunSteps
      BY <1>5 DEF Repaired, RunSteps
    <2>2. PICK fits \in BOOLEAN :
            task' = [task EXCEPT ![w] = [task[w] EXCEPT !.at = "check",
                                           !.needRepair = FALSE, !.fits = fits]]
      BY <1>5 DEF Repaired, TypeOK
    <2> DEFINE t == [task[w] EXCEPT !.at = "check", !.needRepair = FALSE,
                                    !.fits = fits]
    <2>3. t \in Tasks /\ t.at = "check" /\ t.used = task[w].used
      BY <1>1, <2>1, <2>2 DEF Runs, Tasks, RunSteps
    <2>4. AttemptsAt(t) /\ t.at # "saved"
      BY <1>1, <2>1, <2>3, ManimAssumption DEF AttemptsAt, Runs, ManimAssumption
    <2>5. UNCHANGED <<queue, media, hits, client, history>>
            /\ Update(task[w].job, "validating") /\ task' = [task EXCEPT ![w] = t]
      BY <1>5, <2>2 DEF Repaired
    <2> HIDE DEF t
    <2>6. QED
      BY <2>1, <2>3, <2>4, <2>5, Written, MoveStep
  <1>6. CASE RepairFailed(w)
    <2>1. task[w].at = "repairing" /\ {"repairing", "fail", "begin"} \subseteq RunSteps
      BY <1>6 DEF RepairFailed, RunSteps
    <2> DEFINE next == NextStep(Repairable, MaxAttempts - task[w].used)
               where == IF next = "give_up" THEN "fail" ELSE "begin"
               t == [task[w] EXCEPT !.at = where]
    <2>2. task[w] \in Runs /\ task[w].used >= 2
      BY <1>1, <2>1 DEF AttemptsAt
    <2>3. next # "give_up" => task[w].used < MaxAttempts
      BY <2>2, ManimAssumption DEF NextStep, Runs, ManimAssumption
    <2>4. where \in RunSteps /\ Step(w, where)
      BY <1>6, <2>1 DEF RepairFailed, Step
    <2>5. t.at = where /\ t.used = task[w].used
      BY <2>2 DEF Runs
    <2>6. AttemptsAt(t) /\ t.at # "saved"
      <3> HIDE DEF next
      <3>1. QED
        BY <2>2, <2>3, <2>5 DEF AttemptsAt, Runs
    <2>7. QED
      BY <1>2, <1>6, <2>1, <2>4, <2>6, Written, MoveStep DEF RepairFailed, store
  <1>7. CASE RejectSpec(w) \/ RenderFails(w)
    <2>1. task[w].at \in {"check", "rendering"} /\ UNCHANGED <<store, media, hits, client, history>>
      BY <1>7 DEF RejectSpec, RenderFails
    <2>2. PICK category : AfterFailure(w, category)
      BY <1>7 DEF RejectSpec, RenderFails
    <2>3. QED
      BY <2>1, <2>2, FailureEffect, TaskStep DEF TypeOK, store
  <1>8. CASE StartRender(w)
    <2>1. task[w].at = "check" /\ "check" \in RunSteps
      BY <1>8 DEF StartRender, RunSteps
    <2> DEFINE t == [task[w] EXCEPT !.at = "rendering", !.cancelled = FALSE]
    <2>2. task' = [task EXCEPT ![w] = t]
      BY <1>8 DEF StartRender, TypeOK
    <2>3. t \in Tasks /\ AttemptsAt(t) /\ t.at # "saved"
      BY <1>1, <2>1 DEF AttemptsAt, Runs, Tasks, RunSteps
    <2> HIDE DEF t
    <2>4. QED
      BY <1>8, <2>1, <2>2, <2>3, Written, MoveStep DEF StartRender
  <1>9. CASE RenderOk(w)
    <2>1. task[w].at = "rendering" /\ {"rendering", "saved"} \subseteq RunSteps
      BY <1>9 DEF RenderOk, RunSteps
    <2> DEFINE t == [task[w] EXCEPT !.at = "saved"]
    <2>2. task' = [task EXCEPT ![w] = t] /\ t \in Tasks
      BY <1>2, <1>9, <2>1 DEF RenderOk
    <2>3. AttemptsAt(t) /\ t.job = task[w].job /\ task[w].job \in Jobs
      BY <1>1, <2>1 DEF AttemptsAt, Runs
    <2> HIDE DEF t
    <2>4. media' = media \cup {task[w].job}
      BY <1>9 DEF RenderOk
    <2>5. QED
      BY <1>9, <2>2, <2>3, <2>4, TaskStep DEF RenderOk, TypeOK, store
  <1>10. CASE RenderCancelled(w)
    BY <1>10, IdleFits, Written, MoveStep DEF RenderCancelled, Stop, RunSteps
  <1>11. CASE Finish(w)
    <2>1. task[w].at = "saved" /\ "saved" \in RunSteps
      BY <1>11 DEF Finish, RunSteps
    <2>2. task[w].job \in Jobs /\ task[w].job \in media
      BY <1>1, <2>1 DEF Runs, SavedHasMedia
    <2>3. "ready" \in JobStates /\ Update(task[w].job, "ready")
      BY <1>11 DEF Finish, JobStates, TERMINAL
    <2>4. state' \in [Jobs -> JobStates] /\ claim' \in [Jobs -> {"none", "young", "old"}]
      BY <2>2, <2>3, UpdateEffect
    <2>5. \A j \in Jobs : state'[j] = "ready" => state[j] = "ready" \/ j \in media
      BY <2>2, <2>3 DEF Update, TypeOK, ReadyHasMedia
    <2>6. QED
      BY <1>11, <2>4, <2>5, IdleFits, TaskStep DEF Finish, Stop, TypeOK
  <1>12. CASE Fail(w)
    BY <1>12, IdleFits, Written, MoveStep DEF Fail, Stop, RunSteps
  <1>13. QED
    BY <1>3, <1>4, <1>5, <1>6, <1>7, <1>8, <1>9, <1>10, <1>11, <1>12 DEF Attempt

LEMMA WatchPreserves ==
    ASSUME IInv, NEW w \in Workers, Watch(w)
    PROVE  IInv'
  <1> DEFINE t == [task[w] EXCEPT !.cancelled = TRUE]
  <1>1. task[w].at = "rendering" /\ "rendering" \in RunSteps
    BY DEF Watch, RunSteps
  <1>2. task[w] \in Runs /\ AttemptsAt(task[w])
    BY <1>1, RunTyped DEF IInv, AttemptInv
  <1>3. task' = [task EXCEPT ![w] = t]
    BY DEF Watch, IInv, TypeOK
  <1>4. t \in Tasks /\ AttemptsAt(t) /\ t.at # "saved"
    BY <1>1, <1>2 DEF AttemptsAt, Runs, Tasks
  <1> HIDE DEF t
  <1>5. QED
    BY <1>1, <1>3, <1>4, Written, MoveStep DEF Watch, store

-----------------------------------------------------------------------------
(* The invariant holds of every reachable state.                           *)
THEOREM JobsInvariant == Spec => []IInv
  <1>1. Init => IInv
    <2> SUFFICES ASSUME Init PROVE IInv
      OBVIOUS
    <2>1. TypeOK
      BY ManimAssumption
      DEF Init, TypeOK, JobStates, Requests, Tasks, Idle, ManimAssumption
    <2>2. QED
      BY <2>1 DEF Init, IInv, AttemptInv, AttemptsAt, SavedHasMedia, ReadyHasMedia, Idle
  <1>2. IInv /\ [Next]_vars => IInv'
    <2> SUFFICES ASSUME IInv, [Next]_vars PROVE IInv'
      OBVIOUS
    <2>1. CASE UNCHANGED vars
      BY <2>1 DEF vars, IInv, TypeOK, AttemptInv, SavedHasMedia, ReadyHasMedia
    <2>2. CASE Next
      BY <2>2, RequestsPreserve, UsersPreserve, MishapsPreserve, FetchPreserves,
         AttemptPreserves, WatchPreserves
      DEF Next, Work
    <2>3. QED
      BY <2>1, <2>2
  <1>3. QED
    BY <1>1, <1>2, PTL DEF Spec

(* Every record, key and task stays well formed, whoever interferes.       *)
THEOREM JobsTypeCorrect == Spec => []TypeOK
  <1>1. IInv => TypeOK
    BY DEF IInv
  <1>2. QED
    BY <1>1, JobsInvariant, PTL

(* get_media finds the video of every ready job, whichever of several runs *)
(* stored it and whichever wrote the record.                               *)
THEOREM ReadyJobsHaveMedia == Spec => []ReadyHasMedia
  <1>1. IInv => ReadyHasMedia
    BY DEF IInv
  <1>2. QED
    BY <1>1, JobsInvariant, PTL

(* Three attempts are three in total: the loop never needs begin_attempt to*)
(* refuse and asks the model only from its second attempt on.              *)
THEOREM AttemptsWithinBudget == Spec => []AttemptBudget
  <1>1. IInv => AttemptBudget
    BY DEF IInv, AttemptInv, AttemptsAt, AttemptBudget
  <1>2. QED
    BY <1>1, JobsInvariant, PTL

(* No worker and no cancellation writes over a finished record.            *)
THEOREM FinishedStaysFinished == Spec => TerminalIsFinal
  <1> DEFINE Final == \A j \in Jobs :
                 state[j] \in TERMINAL /\ state'[j] # state[j]
                   => state'[j] \in {"pending", "absent"}
  <1>1. ASSUME NEW j \in Jobs, NEW i \in Jobs, NEW new, Update(j, new),
               new # "expired", TypeOK, state[i] \in TERMINAL
        PROVE  state'[i] = state[i]
    BY <1>1 DEF Update, CanUpdate, Allowed, TERMINAL, TypeOK
  <1>2. TypeOK /\ [Next]_vars => [Final]_vars
    <2> SUFFICES ASSUME TypeOK, Next PROVE Final
      BY DEF vars
    <2>1. ASSUME NEW w \in Workers, task[w].at \in RunSteps PROVE task[w].job \in Jobs
      BY <2>1, RunTyped DEF Runs
    <2>2. ASSUME NEW w \in Workers, Attempt(w) PROVE Final
      BY <1>1, <2>1, <2>2
      DEF Attempt, Begin, MarkRepair, Repaired, RepairFailed, RejectSpec, StartRender,
          RenderOk, RenderFails, RenderCancelled, Finish, Fail, RunSteps, store
    <2>3. ASSUME NEW w \in Workers, Take(w) \/ Claim(w) \/ Load(w) \/ Watch(w) \/ CrashTask(w)
          PROVE Final
      BY <2>3 DEF Take, Claim, Load, Watch, CrashTask, store
    <2>4. ASSUME NEW c \in Clients, Request(c) \/ CrashRequest(c) PROVE Final
      BY <2>4
      DEF Request, CheckLimits, Create, Overwrite, Unclaim, Enqueue, CrashRequest, store,
          TypeOK
    <2>5. ASSUME NEW c \in Clients, NEW j \in Jobs, Submit(c, j) \/ Cancel(c, j) PROVE Final
      BY <1>1, <2>5 DEF Submit, Cancel, store
    <2>6. ASSUME NEW j \in Jobs, Expire(j) PROVE Final
      BY <2>6 DEF Expire, TypeOK
    <2>7. QED
      BY <2>2, <2>3, <2>4, <2>5, <2>6 DEF Next, Work
  <1>3. QED
    BY <1>2, JobsTypeCorrect, PTL DEF Spec, TerminalIsFinal

(* No attempt begins on a record that was cancelled, failed or is gone:    *)
(* only the refusable write at the loop's head uses up an attempt.         *)
THEOREM EndedJobsAreLeft == Spec => NoAttemptAfterEnd
  <1> DEFINE Begun(w) == Running(w) /\ task'[w] # Idle /\ task'[w].used > task[w].used
             Left == \A w \in Workers : Begun(w) => state[task[w].job] \in ACTIVE
  <1>1. TypeOK /\ [Next]_vars => [Left]_vars
    <2> SUFFICES ASSUME TypeOK, Next, NEW w \in Workers, Begun(w)
                 PROVE  state[task[w].job] \in ACTIVE
      BY DEF vars
    <2>1. task[w] \in Runs /\ task[w].at \in RunSteps
      BY RunTyped DEF Running
    <2>2. ASSUME NEW v \in Workers, Begin(v) PROVE state[task[w].job] \in ACTIVE
      <3>1. v = w
        BY <2>1, <2>2 DEF Begin, Step, Stop, TypeOK, Runs
      <3>2. CanUpdate(task[w].job, "validating")
        BY <2>1, <2>2, <3>1 DEF Begin, Step, Stop, TypeOK, Runs
      <3>3. QED
        BY <2>1, <3>2 DEF CanUpdate, Allowed, ACTIVE, TypeOK, JobStates, TERMINAL, Runs
    <2>3. ASSUME NEW v \in Workers, Attempt(v) PROVE Begin(v)
      BY <2>1, <2>3
      DEF Attempt, MarkRepair, Repaired, RepairFailed, RejectSpec, StartRender, RenderOk,
          RenderFails, RenderCancelled, Finish, Fail, Step, Stop, AfterFailure, TypeOK,
          Runs
    <2>4. ASSUME NEW v \in Workers, Take(v) \/ Claim(v) \/ Load(v) \/ Watch(v) \/ CrashTask(v)
          PROVE FALSE
      BY <2>1, <2>4 DEF Take, Claim, Load, Watch, CrashTask, Step, Stop, TypeOK, Runs, RunSteps
    <2>5. task' # task
      BY <2>1 DEF Runs
    <2>6. QED
      BY <2>2, <2>3, <2>4, <2>5
      DEF Next, Work, Request, CheckLimits, Create, Overwrite, Unclaim, Enqueue,
          CrashRequest, Submit, Cancel, Expire
  <1>2. QED
    BY <1>1, JobsTypeCorrect, PTL DEF Spec, NoAttemptAfterEnd

-----------------------------------------------------------------------------
(***************************************************************************)
(* One run per job.  Until a finished record of a job is replaced, its     *)
(* claim is deleted only when no task has it, so that a second task cannot *)
(* come by it; and the record is then where its only run has put it, or    *)
(* cancelled.                                                              *)
(***************************************************************************)
Holds(w, j) == task[w].at \in {"load"} \cup RunSteps /\ task[w].job = j

Exclusive ==
    \A j \in Jobs \ resubmitted :
        /\ \A c \in Clients : client[c].at = "unclaim" => client[c].job # j
        /\ \A w \in Workers : Holds(w, j) => claim[j] # "none"
        /\ \A v, w \in Workers : Holds(v, j) /\ Holds(w, j) => v = w

\* What a run may find its record to be.
RecordAt(at) ==
    CASE at \in {"mark_repair", "check"} -> {"validating", "cancelled"}
      [] at = "repairing"                -> {"repairing", "cancelled"}
      [] at \in {"rendering", "saved"}   -> {"rendering", "cancelled"}
      [] at \notin {"mark_repair", "check", "repairing", "rendering", "saved"} -> JobStates

Standing ==
    \A w \in Workers : Running(w) /\ task[w].job \notin resubmitted
        => state[task[w].job] \in RecordAt(task[w].at)

(* What a step of the attempt loop does: the task goes on with its job or  *)
(* stops, and only its own record moves, along with it.                    *)
LEMMA AttemptEffect ==
    ASSUME IInv, NEW w \in Workers, Attempt(w)
    PROVE  /\ task[w] \in Runs
           /\ \A v \in Workers : v # w => task'[v] = task[v]
           /\ task'[w] = Idle \/
                 (task'[w].at \in RunSteps /\ task'[w].job = task[w].job)
           /\ \A i \in Jobs : i # task[w].job => state'[i] = state[i]
           /\ \A i \in Jobs : claim'[i] = "none" => claim[i] = "none"
           /\ resubmitted' = resubmitted /\ client' = client
           /\ task'[w].at \in RunSteps /\ state[task[w].job] \in RecordAt(task[w].at)
                 => state'[task[w].job] \in RecordAt(task'[w].at)
  <1> DEFINE j == task[w].job
             Moves == state'[j] \in RecordAt(task'[w].at)
             Effect == /\ \A v \in Workers : v # w => task'[v] = task[v]
                       /\ task'[w] = Idle \/ (task'[w].at \in RunSteps /\ task'[w].job = j)
  <1>1. task[w] \in Runs /\ j \in Jobs /\ task \in [Workers -> Tasks]
    BY RunTyped
    DEF IInv, TypeOK, Attempt, Begin, MarkRepair, Repaired, RepairFailed, RejectSpec,
        StartRender, RenderOk, RenderFails, RenderCancelled, Finish, Fail, RunSteps, Runs
  <1>2. resubmitted' = resubmitted /\ client' = client
    BY DEF Attempt, Begin, MarkRepair, Repaired, RepairFailed, RejectSpec, StartRender,
           RenderOk, RenderFails, RenderCancelled, Finish, Fail, history
  <1>3. /\ \A i \in Jobs : i # j => state'[i] = state[i]
        /\ \A i \in Jobs : claim'[i] = "none" => claim[i] = "none"
    <2>1. ASSUME NEW new, Update(j, new)
          PROVE  /\ \A i \in Jobs : i # j => state'[i] = state[i]
                 /\ \A i \in Jobs : claim'[i] = "none" => claim[i] = "none"
      BY <1>1, <2>1 DEF Update, Age, IInv, TypeOK
    <2>2. (\E new : Update(j, new)) \/ UNCHANGED <<state, claim>>
      BY DEF Attempt, Begin, MarkRepair, Repaired, RepairFailed, RejectSpec, StartRender,
             RenderOk, RenderFails, RenderCancelled, Finish, Fail, store
    <2>3. QED
      BY <2>1, <2>2
  <1>4. ASSUME Stop(w) PROVE Effect /\ task'[w].at \notin RunSteps
    BY <1>1, <1>4 DEF Stop, Idle, RunSteps
  <1>5. ASSUME NEW where \in RunSteps, Step(w, where) PROVE Effect /\ task'[w].at = where
    BY <1>1, <1>5 DEF Step, Runs
  <1>6. \A new \in JobStates : new \in RecordAt("begin") /\ new \in RecordAt("fail")
    BY DEF RecordAt
  <1>7. state'[j] \in JobStates
    BY <1>1, AttemptPreserves DEF IInv, TypeOK
  <1> DEFINE Result == Effect /\ (task'[w].at \in RunSteps /\ state[j] \in RecordAt(task[w].at) => Moves)
  <1>8. ASSUME Begin(w) PROVE Result
    <2>1. CASE task[w].used >= MaxAttempts
      BY <1>5, <1>6, <1>7, <1>8, <2>1 DEF Begin, RunSteps
    <2>2. CASE ~(task[w].used >= MaxAttempts) /\ ~CanUpdate(j, "validating")
      BY <1>4, <1>8, <2>2 DEF Begin
    <2>3. CASE ~(task[w].used >= MaxAttempts) /\ CanUpdate(j, "validating")
      <3>1. state'[j] = "validating"
        BY <1>1, <1>8, <2>3 DEF Begin, Update, IInv, TypeOK
      <3>2. task'[w].at \in {"mark_repair", "check"} /\ task'[w].job = j
              /\ \A v \in Workers : v # w => task'[v] = task[v]
        BY <1>1, <1>8, <2>3 DEF Begin, Runs
      <3>3. QED
        BY <3>1, <3>2 DEF RecordAt, RunSteps
    <2>4. QED
      BY <2>1, <2>2, <2>3
  <1>9. ASSUME MarkRepair(w) PROVE Result
    <2>1. task[w].at = "mark_repair" /\ Update(j, "repairing") /\ Step(w, "repairing")
      BY <1>9 DEF MarkRepair
    <2>2. Effect /\ task'[w].at = "repairing"
      BY <1>5, <2>1 DEF RunSteps
    <2>3. QED
      BY <1>1, <2>1, <2>2 DEF RecordAt, Update, CanUpdate, Allowed, IInv, TypeOK
  <1>10. ASSUME Repaired(w) PROVE Result
    <2>1. task[w].at = "repairing" /\ Update(j, "validating")
      BY <1>10 DEF Repaired
    <2>2. Effect /\ task'[w].at = "check"
      BY <1>1, <1>10 DEF Repaired, Runs, RunSteps
    <2>3. QED
      BY <1>1, <2>1, <2>2 DEF RecordAt, Update, CanUpdate, Allowed, IInv, TypeOK
  <1>11. ASSUME RepairFailed(w) PROVE Result
    <2>1. Effect /\ task'[w].at \in {"fail", "begin"}
      BY <1>1, <1>11 DEF RepairFailed, Runs, RunSteps
    <2>2. QED
      BY <1>6, <1>7, <2>1
  <1>12. ASSUME RejectSpec(w) \/ RenderFails(w) PROVE Result
    <2>1. PICK category : AfterFailure(w, category)
      BY <1>12 DEF RejectSpec, RenderFails
    <2>2. Effect /\ task'[w].at \in {"fail", "begin"}
      BY <1>1, <2>1 DEF AfterFailure, Runs, RunSteps
    <2>3. QED
      BY <1>6, <1>7, <2>2
  <1>13. ASSUME StartRender(w) PROVE Result
    <2>1. task[w].at = "check" /\ Update(j, "rendering")
      BY <1>13 DEF StartRender
    <2>2. Effect /\ task'[w].at = "rendering"
      BY <1>1, <1>13 DEF StartRender, Runs, RunSteps
    <2>3. QED
      BY <1>1, <2>1, <2>2 DEF RecordAt, Update, CanUpdate, Allowed, IInv, TypeOK
  <1>14. ASSUME RenderOk(w) PROVE Result
    <2>1. Effect /\ task'[w].at = "saved" /\ task[w].at = "rendering" /\ state' = state
      BY <1>5, <1>14 DEF RenderOk, RunSteps, store
    <2>2. QED
      BY <2>1 DEF RecordAt
  <1>15. ASSUME RenderCancelled(w) \/ Finish(w) \/ Fail(w) PROVE Result
    BY <1>4, <1>15 DEF RenderCancelled, Finish, Fail
  <1>16. Result
    BY <1>8, <1>9, <1>10, <1>11, <1>12, <1>13, <1>14, <1>15 DEF Attempt
  <1>17. QED
    BY <1>1, <1>2, <1>3, <1>16

(* A step that deletes no claim and gives none to a task keeps runs apart. *)
LEMMA StaysExclusive ==
    ASSUME Exclusive, resubmitted \subseteq resubmitted',
           \A j \in Jobs \ resubmitted' :
               /\ \A c \in Clients :
                     client'[c].at = "unclaim" => client'[c].job # j \/ client'[c] = client[c]
               /\ claim'[j] = "none" => claim[j] = "none"
               /\ \A w \in Workers : Holds(w, j)' => Holds(w, j)
    PROVE  Exclusive'
  BY DEF Exclusive

LEMMA ExclusiveStep ==
    ASSUME IInv, Exclusive, [Next]_vars
    PROVE  Exclusive'
  <1>1. ASSUME NEW w \in Workers, Attempt(w) PROVE Exclusive'
    BY <1>1, AttemptEffect, StaysExclusive DEF Holds, Runs, RunSteps, Idle
  <1>2. ASSUME NEW w \in Workers, Take(w) PROVE Exclusive'
    BY <1>2, StaysExclusive DEF Take, Holds, RunSteps, history, IInv, TypeOK
  <1>3. ASSUME NEW w \in Workers, Claim(w) PROVE Exclusive'
    <2>1. task[w].at = "claim" /\ task[w].job \in Jobs
      BY <1>3 DEF Claim, IInv, TypeOK, Tasks, Idle, Runs, RunSteps
    <2>2. resubmitted' = resubmitted /\ client' = client
      BY <1>3 DEF Claim, history
    <2>3. CASE claim[task[w].job] # "none"
      BY <1>3, <2>1, <2>2, <2>3, StaysExclusive DEF Claim, Stop, Idle, Holds, RunSteps, IInv, TypeOK
    <2>4. CASE claim[task[w].job] = "none"
      <3>1. /\ claim' = [claim EXCEPT ![task[w].job] = "young"]
            /\ task'[w].job = task[w].job
            /\ \A v \in Workers : v # w => task'[v] = task[v]
        <4>1. task[w] \in [at : {"claim", "load"}, job : Jobs]
          BY <2>1 DEF IInv, TypeOK, Tasks, Idle, Runs, RunSteps
        <4>2. task' = [task EXCEPT ![w] = [task[w] EXCEPT !.at = "load"]]
          BY <1>3, <2>4 DEF Claim, Step, IInv, TypeOK
        <4>3. QED
          BY <1>3, <2>4, <4>1, <4>2 DEF Claim, IInv, TypeOK
      <3>2. ASSUME NEW j \in Jobs, NEW v \in Workers, Holds(v, j)'
            PROVE  Holds(v, j) \/ (v = w /\ j = task[w].job)
        BY <3>1, <3>2 DEF Holds
      <3>3. task[w].job \notin resubmitted => \A v \in Workers : ~Holds(v, task[w].job)
        BY <2>1, <2>4 DEF Exclusive
      <3>4. \A j \in Jobs : claim'[j] = "none" => claim[j] = "none" /\ j # task[w].job
        BY <2>1, <3>1 DEF IInv, TypeOK
      <3>5. QED
        BY <2>1, <2>2, <3>2, <3>3, <3>4 DEF Exclusive
    <2>5. QED
      BY <2>3, <2>4
  <1>4. ASSUME NEW w \in Workers, Load(w) \/ Watch(w) \/ CrashTask(w) PROVE Exclusive'
    <2>1. UNCHANGED <<claim, client, resubmitted>>
      BY <1>4 DEF Load, Watch, CrashTask, store, history
    <2>2. ASSUME NEW j \in Jobs, NEW v \in Workers, Holds(v, j)' PROVE Holds(v, j)
      BY <1>4, <2>2 DEF Load, Watch, CrashTask, Stop, Idle, Holds, RunSteps, IInv, TypeOK, Tasks, Runs
    <2>3. QED
      BY <2>1, <2>2, StaysExclusive
  <1>5. ASSUME NEW c \in Clients, Request(c) PROVE Exclusive'
    <2>1. task' = task
      BY <1>5 DEF Request, CheckLimits, Create, Overwrite, Unclaim, Enqueue
    <2>2. CASE CheckLimits(c) \/ Create(c) \/ Enqueue(c)
      <3>1. resubmitted' = resubmitted /\ \A j \in Jobs : claim'[j] = "none" => claim[j] = "none"
        BY <2>2 DEF CheckLimits, Create, Enqueue, Age, store, history, IInv, TypeOK
      <3>2. \A d \in Clients : client'[d].at = "unclaim" => client'[d] = client[d]
        BY <2>2, RequestTyped
        DEF CheckLimits, Create, Enqueue, Answered, Goto, Idle, RequestSteps, IInv, TypeOK
      <3>3. QED
        BY <2>1, <3>1, <3>2, StaysExclusive DEF Holds
    <2>3. CASE Overwrite(c)
      <3>1. client[c].job \in Jobs /\ resubmitted' = resubmitted \cup {client[c].job}
        BY <2>3, RequestTyped DEF Overwrite, RequestSteps, IInv
      <3>2. \A j \in Jobs : claim'[j] = "none" => claim[j] = "none"
        BY <2>3 DEF Overwrite, Age, IInv, TypeOK
      <3>3. client'[c].job = client[c].job /\ \A d \in Clients : d # c => client'[d] = client[d]
        BY <2>3, RequestTyped DEF Overwrite, Goto, RequestSteps, IInv, TypeOK
      <3>4. QED
        BY <2>1, <3>1, <3>2, <3>3, StaysExclusive DEF Holds
    <2>4. CASE Unclaim(c)
      <3>1. client[c].job \in Jobs /\ resubmitted' = resubmitted
        BY <2>4, RequestTyped DEF Unclaim, RequestSteps, IInv, history
      <3>2. client[c].job \in resubmitted
        BY <2>4, <3>1 DEF Unclaim, Exclusive
      <3>3. \A j \in Jobs \ resubmitted : claim'[j] = claim[j]
        BY <2>4, <3>2 DEF Unclaim, IInv, TypeOK
      <3>4. \A d \in Clients : client'[d].at = "unclaim" => client'[d] = client[d]
        BY <2>4, RequestTyped DEF Unclaim, Goto, RequestSteps, IInv, TypeOK
      <3>5. QED
        BY <2>1, <3>1, <3>3, <3>4, StaysExclusive DEF Holds
    <2>5. QED
      BY <1>5, <2>2, <2>3, <2>4 DEF Request
  <1>6. ASSUME NEW c \in Clients, CrashRequest(c) \/ \E j \in Jobs : Submit(c, j) \/ Cancel(c, j)
        PROVE  Exclusive'
    <2>1. resubmitted' = resubmitted /\ task' = task
            /\ \A j \in Jobs : claim'[j] = "none" => claim[j] = "none"
      BY <1>6 DEF CrashRequest, Submit, Cancel, Update, Age, store, history, IInv, TypeOK
    <2>2. \A d \in Clients : client'[d].at = "unclaim" => client'[d] = client[d]
      BY <1>6 DEF CrashRequest, Submit, Cancel, Answered, Idle, IInv, TypeOK
    <2>3. QED
      BY <2>1, <2>2, StaysExclusive DEF Holds
  <1>7. ASSUME NEW j \in Jobs, Expire(j) PROVE Exclusive'
    <2>1. UNCHANGED <<client, task, resubmitted>> /\ ~InHand(j)
            /\ claim' = [claim EXCEPT ![j] = IF @ = "young" THEN @ ELSE "none"]
      BY <1>7 DEF Expire
    <2>2. \A w \in Workers : ~Holds(w, j)
      BY <2>1 DEF InHand, Holds, RunSteps
    <2>3. \A i \in Jobs : i # j => claim'[i] = claim[i]
      BY <2>1 DEF IInv, TypeOK
    <2>4. \A w \in Workers, i \in Jobs : Holds(w, i)' <=> Holds(w, i)
      BY <2>1 DEF Holds
    <2>5. QED
      BY <2>1, <2>2, <2>3, <2>4 DEF Exclusive
  <1>8. CASE UNCHANGED vars
    BY <1>8, StaysExclusive DEF vars, Holds
  <1>9. QED
    BY <1>1, <1>2, <1>3, <1>4, <1>5, <1>6, <1>7, <1>8 DEF Next, Work

LEMMA StandingStep ==
    ASSUME IInv, IInv', Exclusive, Standing, [Next]_vars
    PROVE  Standing'
  <1> SUFFICES ASSUME NEW v \in Workers, Running(v)', task'[v].job \notin resubmitted'
               PROVE  state'[task'[v].job] \in RecordAt(task'[v].at)
    BY DEF Standing
  <1>1. task'[v] \in Runs /\ task'[v].job \in Jobs /\ state' \in [Jobs -> JobStates]
    BY DEF IInv, TypeOK, Running, Tasks, Idle, Runs, RunSteps
  <1>2. ASSUME NEW w \in Workers, Attempt(w) PROVE state'[task'[v].job] \in RecordAt(task'[v].at)
    <2>1. CASE v = w
      BY <1>1, <1>2, <2>1, AttemptEffect DEF Running, Standing, Runs, Idle, RunSteps
    <2>2. CASE v # w
      <3>1. task'[v] = task[v] /\ task[w] \in Runs /\ resubmitted' = resubmitted
        BY <1>2, <2>2, AttemptEffect
      <3>2. task[v].job # task[w].job
        BY <1>1, <2>2, <3>1 DEF Exclusive, Holds, Runs
      <3>3. QED
        BY <1>1, <1>2, <3>1, <3>2, AttemptEffect DEF Running, Standing
    <2>3. QED
      BY <2>1, <2>2
  <1>3. ASSUME NEW w \in Workers, Take(w) \/ Claim(w) \/ Load(w) \/ Watch(w) \/ CrashTask(w)
        PROVE  state'[task'[v].job] \in RecordAt(task'[v].at)
    <2>1. state' = state /\ resubmitted' = resubmitted
      BY <1>3 DEF Take, Claim, Load, Watch, CrashTask, store, history
    <2>2. \/ task'[v].at = "begin"
          \/ task'[v].at = task[v].at /\ task'[v].job = task[v].job
      BY SMTT(20), <1>1, <1>3
      DEF Take, Claim, Load, Watch, CrashTask, Stop, Step, Idle, Running, RunSteps, IInv, TypeOK,
          Tasks, Runs
    <2>3. CASE task'[v].at = "begin"
      BY <1>1, <2>3 DEF RecordAt
    <2>4. CASE task'[v].at = task[v].at /\ task'[v].job = task[v].job
      BY <2>1, <2>4 DEF Standing, Running
    <2>5. QED
      BY <2>2, <2>3, <2>4
  <1>4. ASSUME task' = task, resubmitted \subseteq resubmitted',
               state'[task[v].job] \in {state[task[v].job], "cancelled"}
        PROVE  state'[task'[v].job] \in RecordAt(task'[v].at)
    <2>1. state[task[v].job] \in RecordAt(task[v].at)
      BY <1>4 DEF Standing, Running
    <2>2. "cancelled" \in RecordAt(task[v].at)
      BY DEF RecordAt, JobStates, TERMINAL
    <2>3. QED
      BY <1>4, <2>1, <2>2
  <1>5. ASSUME NEW c \in Clients, Request(c) PROVE state'[task'[v].job] \in RecordAt(task'[v].at)
    <2>1. task' = task /\ resubmitted \subseteq resubmitted'
      BY <1>5 DEF Request, CheckLimits, Create, Overwrite, Unclaim, Enqueue, history
    <2>2. CASE state'[task[v].job] = state[task[v].job]
      BY <1>4, <2>1, <2>2
    <2>3. CASE state'[task[v].job] # state[task[v].job]
      <3>1. state[task[v].job] = "absent"
        BY <1>1, <1>5, <2>1, <2>3
        DEF Request, CheckLimits, Create, Overwrite, Unclaim, Enqueue, store, IInv, TypeOK
      <3>2. task[v].at \notin {"mark_repair", "check", "repairing", "rendering", "saved"}
        BY <2>1, <3>1 DEF Standing, Running, RecordAt
      <3>3. QED
        BY <1>1, <2>1, <3>2 DEF RecordAt
    <2>4. QED
      BY <2>2, <2>3
  <1>6. ASSUME NEW c \in Clients, CrashRequest(c) \/ \E j \in Jobs : Submit(c, j) \/ Cancel(c, j)
        PROVE  state'[task'[v].job] \in RecordAt(task'[v].at)
    <2>1. task' = task /\ resubmitted' = resubmitted
      BY <1>6 DEF CrashRequest, Submit, Cancel, history
    <2>2. state'[task[v].job] \in {state[task[v].job], "cancelled"}
      BY <1>1, <1>6, <2>1 DEF CrashRequest, Submit, Cancel, Update, store, IInv, TypeOK
    <2>3. QED
      BY <1>4, <2>1, <2>2
  <1>7. ASSUME NEW j \in Jobs, Expire(j) PROVE state'[task'[v].job] \in RecordAt(task'[v].at)
    <2>1. task' = task /\ resubmitted' = resubmitted /\ task[v].job # j
      BY <1>7 DEF Expire, InHand, Running, RunSteps
    <2>2. state'[task[v].job] = state[task[v].job]
      BY <1>1, <1>7, <2>1 DEF Expire, IInv, TypeOK
    <2>3. QED
      BY <1>4, <2>1, <2>2
  <1>8. CASE UNCHANGED vars
    BY <1>4, <1>8 DEF vars
  <1>9. QED
    BY <1>2, <1>3, <1>5, <1>6, <1>7, <1>8 DEF Next, Work

LEMMA RunsApart == Spec => [](Exclusive /\ Standing)
  <1>1. Init => Exclusive /\ Standing
    BY DEF Init, Exclusive, Standing, Holds, Running, Idle, RunSteps
  <1>2. IInv /\ IInv' /\ Exclusive /\ Standing /\ [Next]_vars => (Exclusive /\ Standing)'
    BY ExclusiveStep, StandingStep
  <1>3. QED
    BY <1>1, <1>2, JobsInvariant, PTL DEF Spec

(* Submitting a job never renders it twice at once unless a finished       *)
(* record of it was replaced (create_if_absent, claim).                    *)
THEOREM OneRenderPerJob == Spec => []RenderTwiceOnlyResubmitted
  <1>1. Exclusive => RenderTwiceOnlyResubmitted
    <2> SUFFICES ASSUME Exclusive, NEW j \in Jobs, j \notin resubmitted
                 PROVE  Cardinality(Rendering(j)) <= 1
      BY DEF RenderTwiceOnlyResubmitted
    <2>1. \A v, w \in Rendering(j) : v = w
      BY DEF Rendering, Exclusive, Holds, RunSteps
    <2>2. CASE Rendering(j) = {}
      BY <2>2, FS_EmptySet
    <2>3. CASE Rendering(j) # {}
      <3>1. PICK w : Rendering(j) = {w}
        BY <2>1, <2>3
      <3>2. QED
        BY <3>1, FS_Singleton
    <2>4. QED
      BY <2>2, <2>3
  <1>2. QED
    BY <1>1, RunsApart, PTL

(* A rendered video is thrown away only with a cancelled job, or by other  *)
(* runs of a resubmitted one (JobRunner.run, update).                      *)
THEOREM RenderedWorkLands == Spec => FinishedWorkLands
  <1> DEFINE Lands == \A w \in Workers : Finish(w) =>
                 LET j == task[w].job IN
                 \/ state'[j] = "ready"
                 \/ state[j] = "cancelled"
                 \/ j \in resubmitted
  <1>1. IInv /\ Standing /\ [Next]_vars => [Lands]_vars
    <2> SUFFICES ASSUME IInv, Standing, NEW w \in Workers, Finish(w), task[w].job \notin resubmitted
                 PROVE  state'[task[w].job] = "ready" \/ state[task[w].job] = "cancelled"
      OBVIOUS
    <2>1. task[w].at = "saved" /\ Running(w) /\ task[w].job \in Jobs /\ Update(task[w].job, "ready")
      BY RunTyped DEF Finish, Running, RunSteps, IInv, Runs
    <2>2. state[task[w].job] \in {"rendering", "cancelled"}
      BY <2>1 DEF Standing, RecordAt
    <2>3. QED
      BY <2>1, <2>2 DEF Update, CanUpdate, Allowed, IInv, TypeOK
  <1>2. QED
    BY <1>1, JobsInvariant, RunsApart, PTL DEF Spec, FinishedWorkLands

-----------------------------------------------------------------------------
(* How many steps a task is from the end of its job at most: what is left  *)
(* of the present attempt, and eight for each attempt after it.            *)
InAttempt(at, cancelled) ==
    CASE at \in {"saved", "fail"} -> 1
      [] at = "begin"             -> 2
      [] at = "rendering"         -> IF cancelled THEN 3 ELSE 4
      [] at = "check"             -> 5
      [] at = "repairing"         -> 6
      [] at = "mark_repair"       -> 7

Remaining(t) ==
    IF t.at \in RunSteps THEN 8 * (MaxAttempts - t.used) + InAttempt(t.at, t.cancelled)
    ELSE 8 * MaxAttempts + (IF t.at = "load" THEN 3 ELSE 4)

Nearer(t, before) == Remaining(t) \in Nat /\ Remaining(t) < Remaining(before)

(* A run that stays in its attempt comes nearer when it does so in the     *)
(* attempt, one that begins another when it had used one less.             *)
LEMMA RunNearer ==
    ASSUME NEW s \in Runs, NEW t \in Runs,
           \/ t.used = s.used /\ InAttempt(t.at, t.cancelled) < InAttempt(s.at, s.cancelled)
           \/ t.used = s.used + 1
    PROVE  Nearer(t, s)
  <1>1. /\ InAttempt(s.at, s.cancelled) \in 1..7 /\ InAttempt(t.at, t.cancelled) \in 1..7
        /\ s.at \in RunSteps /\ t.at \in RunSteps
    BY DEF Runs, RunSteps, InAttempt
  <1>2. s.used \in 0..MaxAttempts /\ t.used \in 0..MaxAttempts /\ MaxAttempts \in Nat
    BY ManimAssumption DEF Runs, ManimAssumption
  <1>3. /\ Remaining(s) = 8 * (MaxAttempts - s.used) + InAttempt(s.at, s.cancelled)
        /\ Remaining(t) = 8 * (MaxAttempts - t.used) + InAttempt(t.at, t.cancelled)
    BY <1>1 DEF Remaining
  <1> HIDE DEF InAttempt
  <1>4. QED
    BY <1>1, <1>2, <1>3 DEF Nearer

LEMMA AttemptNearer ==
    ASSUME TypeOK, NEW w \in Workers, Attempt(w) \/ Watch(w)
    PROVE  task'[w] = Idle \/ Nearer(task'[w], task[w])
  <1> DEFINE r == task[w]
  <1>1. r \in Runs /\ task \in [Workers -> Tasks]
    BY RunTyped
    DEF TypeOK, Attempt, Watch, Begin, MarkRepair, Repaired, RepairFailed, RejectSpec,
        StartRender, RenderOk, RenderFails, RenderCancelled, Finish, Fail, RunSteps
  <1>2. ASSUME Stop(w) PROVE task'[w] = Idle
    BY <1>1, <1>2 DEF Stop
  <1>3. ASSUME NEW where \in RunSteps, Step(w, where), InAttempt(where, r.cancelled) < InAttempt(r.at, r.cancelled)
        PROVE  Nearer(task'[w], r)
    <2>1. task'[w] = [r EXCEPT !.at = where]
      BY <1>1, <1>3 DEF Step
    <2>2. QED
      BY <1>1, <1>3, <2>1, RunNearer DEF Runs
  <1>4. CASE Begin(w)
    <2>1. CASE r.used >= MaxAttempts
      BY <1>3, <1>4, <2>1 DEF Begin, InAttempt, RunSteps
    <2>2. CASE ~(r.used >= MaxAttempts) /\ ~CanUpdate(r.job, "validating")
      BY <1>2, <1>4, <2>2 DEF Begin
    <2>3. CASE ~(r.used >= MaxAttempts) /\ CanUpdate(r.job, "validating")
      <3>1. task'[w] = [r EXCEPT !.used = @ + 1, !.at = IF r.needRepair THEN "mark_repair" ELSE "check"]
        BY <1>1, <1>4, <2>3 DEF Begin
      <3>2. r.used + 1 \in 0..MaxAttempts
        BY <1>1, <2>3, ManimAssumption DEF Runs, ManimAssumption
      <3>3. task'[w] \in Runs /\ task'[w].used = r.used + 1
        BY <1>1, <3>1, <3>2 DEF Runs, RunSteps
      <3>4. QED
        BY <1>1, <3>3, RunNearer
    <2>4. QED
      BY <2>1, <2>2, <2>3
  <1>5. CASE MarkRepair(w)
    BY <1>3, <1>5 DEF MarkRepair, InAttempt, RunSteps
  <1>6. CASE Repaired(w)
    <2>1. PICK fits \in {TRUE, r.job \notin outgrown} :
             task' = [task EXCEPT ![w].at = "check", ![w].needRepair = FALSE, ![w].fits = fits]
      BY <1>6 DEF Repaired
    <2>2. task'[w] = [r EXCEPT !.at = "check", !.needRepair = FALSE, !.fits = fits]
      BY <1>1, <2>1
    <2>3. r.at = "repairing" /\ fits \in BOOLEAN
      BY <1>6 DEF Repaired
    <2>4. /\ task'[w] \in Runs /\ task'[w].used = r.used
          /\ task'[w].at = "check"
      BY <1>1, <2>2, <2>3 DEF Runs, RunSteps
    <2>5. InAttempt(task'[w].at, task'[w].cancelled) < InAttempt(r.at, r.cancelled)
      BY <2>2, <2>3, <2>4 DEF InAttempt
    <2>6. QED
      BY <1>1, <2>4, <2>5, RunNearer
  <1>7. CASE RepairFailed(w)
    <2>1. PICK where \in {"fail", "begin"} : task' = [task EXCEPT ![w].at = where]
      BY <1>7 DEF RepairFailed
    <2>2. r.at = "repairing" /\ Step(w, where)
      BY <1>7, <2>1 DEF RepairFailed, Step
    <2>3. QED
      BY <1>3, <2>2 DEF InAttempt, RunSteps
  <1>8. CASE RejectSpec(w) \/ RenderFails(w)
    <2>1. r.at \in {"check", "rendering"} /\ \E category : AfterFailure(w, category)
      BY <1>8 DEF RejectSpec, RenderFails
    <2>2. PICK where \in {"fail", "begin"}, broken \in BOOLEAN :
             task' = [task EXCEPT ![w].at = where, ![w].needRepair = broken]
      BY <2>1 DEF AfterFailure
    <2>3. task'[w] = [r EXCEPT !.at = where, !.needRepair = broken]
      BY <1>1, <2>2
    <2>4. /\ task'[w] \in Runs /\ task'[w].used = r.used
          /\ task'[w].at = where
      BY <1>1, <2>1, <2>3 DEF Runs, RunSteps
    <2>5. InAttempt(task'[w].at, task'[w].cancelled) < InAttempt(r.at, r.cancelled)
      BY <2>1, <2>3, <2>4 DEF InAttempt
    <2>6. QED
      BY <1>1, <2>4, <2>5, RunNearer
  <1>9. CASE StartRender(w)
    <2>1. r.at = "check" /\ task'[w] = [r EXCEPT !.at = "rendering", !.cancelled = FALSE]
      BY <1>1, <1>9 DEF StartRender
    <2>2. /\ task'[w] \in Runs /\ task'[w].used = r.used
          /\ task'[w].at = "rendering"
      BY <1>1, <2>1 DEF Runs, RunSteps
    <2>3. InAttempt(task'[w].at, task'[w].cancelled) < InAttempt(r.at, r.cancelled)
      BY <2>1, <2>2 DEF InAttempt
    <2>4. QED
      BY <1>1, <2>2, <2>3, RunNearer
  <1>10. CASE RenderOk(w)
    BY <1>3, <1>10 DEF RenderOk, InAttempt, RunSteps
  <1>11. CASE RenderCancelled(w) \/ Finish(w) \/ Fail(w)
    BY <1>2, <1>11 DEF RenderCancelled, Finish, Fail
  <1>12. CASE Watch(w)
    <2>1. r.at = "rendering" /\ ~r.cancelled /\ task'[w] = [r EXCEPT !.cancelled = TRUE]
      BY <1>1, <1>12 DEF Watch
    <2>2. /\ task'[w] \in Runs /\ task'[w].used = r.used
          /\ task'[w].at = "rendering" /\ task'[w].cancelled
      BY <1>1, <2>1 DEF Runs, RunSteps
    <2>3. InAttempt(task'[w].at, task'[w].cancelled) < InAttempt(r.at, r.cancelled)
      BY <2>1, <2>2 DEF InAttempt
    <2>4. QED
      BY <1>1, <2>2, <2>3, RunNearer
  <1>13. QED
    BY <1>4, <1>5, <1>6, <1>7, <1>8, <1>9, <1>10, <1>11, <1>12 DEF Attempt

LEMMA FetchNearer ==
    ASSUME TypeOK, NEW w \in Workers, task[w] # Idle, Take(w) \/ Claim(w) \/ Load(w)
    PROVE  task'[w] = Idle \/ Nearer(task'[w], task[w])
  <1>1. task[w] \in [at : {"claim", "load"}, job : Jobs] \/ task[w] \in Runs
    BY DEF TypeOK, Tasks
  <1>2. task[w].at # "idle" /\ task \in [Workers -> Tasks]
    BY <1>1 DEF Runs, RunSteps, TypeOK
  <1>3. MaxAttempts \in Nat /\ 8 * MaxAttempts \in Nat
    BY ManimAssumption DEF ManimAssumption
  <1>4. CASE Claim(w)
    <2>1. task[w].at = "claim" /\ (Stop(w) \/ Step(w, "load"))
      BY <1>4 DEF Claim
    <2>2. task'[w] = Idle \/ task'[w].at = "load"
      BY <1>1, <1>2, <2>1 DEF Stop, Step, Runs, RunSteps
    <2>3. QED
      BY <1>3, <2>1, <2>2 DEF Nearer, Remaining, RunSteps
  <1>5. CASE Load(w)
    <2>1. task[w].at = "load"
      BY <1>5 DEF Load
    <2>2. CASE Stop(w)
      BY <1>2, <2>2 DEF Stop
    <2>3. CASE ~Stop(w)
      <3>1. task'[w].at = "begin" /\ task'[w].used = 0 /\ task'[w].cancelled = FALSE
        BY <1>2, <1>5, <2>3 DEF Load
      <3>2. Remaining(task'[w]) = 8 * MaxAttempts + 2
        BY <1>3, <3>1 DEF Remaining, RunSteps, InAttempt
      <3>3. Remaining(task[w]) = 8 * MaxAttempts + 3
        BY <2>1 DEF Remaining, RunSteps
      <3>4. QED
        BY <1>3, <3>2, <3>3 DEF Nearer
    <2>4. QED
      BY <2>2, <2>3
  <1>6. QED
    BY <1>2, <1>4, <1>5 DEF Take

(* Runner.run and worker._run_job: whatever the model and the renderer     *)
(* answer, and whatever others do to the record, each step of a task that  *)
(* has taken a job brings it nearer to letting go of it, and what others   *)
(* do does not move it back.                                               *)
THEOREM JobRunsAreFinite ==
    Spec => [][\A w \in Workers : task[w] # Idle /\ task'[w] # task[w]
                  => task'[w] = Idle \/ Nearer(task'[w], task[w])]_vars
  <1> DEFINE A == \A w \in Workers : task[w] # Idle /\ task'[w] # task[w]
                     => task'[w] = Idle \/ Nearer(task'[w], task[w])
  <1>1. ASSUME TypeOK, Next, NEW w \in Workers, task[w] # Idle, task'[w] # task[w]
        PROVE  task'[w] = Idle \/ Nearer(task'[w], task[w])
    <2>1. PICK v \in Workers : Work(v) \/ Watch(v) \/ CrashTask(v)
      BY <1>1
      DEF Next, Request, CheckLimits, Create, Overwrite, Unclaim, Enqueue, CrashRequest,
          Submit, Cancel, Expire
    <2>2. \A u \in Workers : u # v => task'[u] = task[u]
      BY <1>1, <2>1
      DEF Work, Attempt, Take, Claim, Load, Watch, CrashTask, Begin, MarkRepair, Repaired,
          RepairFailed, RejectSpec, StartRender, RenderOk, RenderFails, RenderCancelled,
          Finish, Fail, Step, Stop, AfterFailure, TypeOK
    <2>3. v = w
      BY <1>1, <2>2
    <2>4. CASE CrashTask(w)
      BY <1>1, <2>4 DEF CrashTask, Stop, TypeOK
    <2>5. QED
      BY <1>1, <2>1, <2>3, <2>4, AttemptNearer, FetchNearer DEF Work
  <1>2. TypeOK /\ [Next]_vars => [A]_vars
    BY <1>1
  <1>3. QED
    BY <1>2, JobsTypeCorrect, PTL DEF Spec

=============================================================================
