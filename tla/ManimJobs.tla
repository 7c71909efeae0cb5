------------------------------ MODULE ManimJobs ------------------------------
(***************************************************************************)
(* The Manim job engine: the job API (src/app/api/visualizations.py), the  *)
(* Redis job store (src/app/visualization/jobs.py), the worker process     *)
(* (worker.py) and the attempt loop it runs (runner.py, policy.py).        *)
(*                                                                         *)
(* API handlers and worker tasks are different processes that share only   *)
(* the store.  A step of either one is its local computation up to and     *)
(* including its next store operation, so every await of the code is a     *)
(* point where the others may run.  Job ids are derived from (owner, spec):*)
(* a job is a value of Jobs, all of one owner, and submitting the same     *)
(* animation again is submitting the same job.                             *)
(***************************************************************************)
EXTENDS Integers, Sequences, FiniteSets

CONSTANTS
    Jobs,           \* the animations one owner submits
    Clients,        \* concurrent API requests of that owner
    Workers,        \* concurrent worker tasks, over all worker processes
    MaxAttempts,    \* visualization_max_attempts
    MaxActive,      \* manim_max_active_jobs_per_user
    HourlyLimit,    \* visualization_jobs_per_user_per_hour, within one hour
    MaxSubmits,     \* bound on create_job requests
    MaxMishaps      \* bound on handlers and tasks that die half way, and on
                    \* records that reach their TTL

ASSUME ManimAssumption ==
    /\ MaxAttempts \in Nat \ {0}
    /\ MaxActive \in Nat \ {0}
    /\ HourlyLimit \in Nat \ {0}
    /\ MaxSubmits \in Nat
    /\ MaxMishaps \in Nat

(***************************************************************************)
(* The job state machine (jobs.py) and the failure policy (policy.py).     *)
(* "absent" stands for a record that does not exist.                       *)
(***************************************************************************)
ACTIVE == {"pending", "validating", "rendering", "repairing"}

TERMINAL == {"ready", "failed", "cancelled", "expired"}

JobStates == ACTIVE \cup TERMINAL \cup {"absent"}

\* _ALLOWED, closed over the two targets every active state has.
Allowed(old) ==
    CASE old = "pending"    -> {"validating", "failed", "cancelled", "expired"}
      [] old = "validating" -> {"rendering", "repairing"}
                                 \cup {"failed", "cancelled", "expired"}
      [] old = "rendering"  -> {"ready", "repairing", "validating"}
                                 \cup {"failed", "cancelled", "expired"}
      [] old = "repairing"  -> {"validating", "failed", "cancelled", "expired"}
      [] old = "ready"      -> {"expired"}
      [] OTHER              -> {}

\* A record create_if_absent returns instead of replacing it.
Reusable(state) == state \in ACTIVE \cup {"ready"}

\* FailureCategory, one value per set of the policy.
Repairable == "render_error"
Transient  == "timeout"
Permanent  == "resource_limit"

NextStepLate(category, remaining) ==
    IF remaining < 0 \/ category = Permanent THEN "give_up"
    ELSE IF category = Repairable THEN "repair" ELSE "retry"

NextStep(category, remaining) ==
    IF remaining <= 0 \/ category = Permanent THEN "give_up"
    ELSE IF category = Repairable THEN "repair" ELSE "retry"

VARIABLES
    outgrown,       \* the jobs whose canonical spec is over the size limit that
                    \* their submitted spec just met (validate_spec, defaults)
    state,          \* the state field of each job's record, or "absent"
    claim,          \* the claim key: "none", "young" (set after the record
                    \* was last written, so it outlives it) or "old"
    queue,          \* the worker queue
    media,          \* the jobs whose video is in the MediaStore
    hits,           \* the owner's hourly counter
    client,         \* each API request: where it is, and its job
    task,           \* each worker task
    submits,        \* bounded: create_job requests so far
    mishaps,        \* bounded: crashes and expiries so far
    resubmitted     \* history: jobs whose finished record was replaced

vars == <<outgrown, state, claim, queue, media, hits, client, task, submits,
          mishaps, resubmitted>>

store == <<state, claim, queue>>

history == <<outgrown, submits, mishaps, resubmitted>>

Idle == [at |-> "idle"]

RequestSteps == {"limits", "create", "overwrite", "unclaim", "enqueue"}

Requests == {Idle} \cup [at : RequestSteps, job : Jobs]

\* The steps of _run_job once it loaded an active record.
RunSteps == {"begin", "mark_repair", "repairing", "check", "rendering", "saved",
             "fail"}

Runs == [at : RunSteps, job : Jobs, used : 0 .. MaxAttempts,
         needRepair : BOOLEAN, fits : BOOLEAN, cancelled : BOOLEAN]

Tasks == {Idle} \cup [at : {"claim", "load"}, job : Jobs] \cup Runs

Running(w) == task[w].at \in RunSteps

TypeOK ==
    /\ outgrown \subseteq Jobs
    /\ state \in [Jobs -> JobStates]
    /\ claim \in [Jobs -> {"none", "young", "old"}]
    /\ queue \in Seq(Jobs)
    /\ media \subseteq Jobs
    /\ hits \in 0 .. HourlyLimit + 1
    /\ client \in [Clients -> Requests]
    /\ task \in [Workers -> Tasks]
    /\ submits \in 0 .. MaxSubmits
    /\ mishaps \in 0 .. MaxMishaps
    /\ resubmitted \subseteq Jobs

Init ==
    /\ outgrown \in SUBSET Jobs
    /\ state = [j \in Jobs |-> "absent"]
    /\ claim = [j \in Jobs |-> "none"]
    /\ queue = << >>
    /\ media = {}
    /\ hits = 0
    /\ client = [c \in Clients |-> Idle]
    /\ task = [w \in Workers |-> Idle]
    /\ submits = 0
    /\ mishaps = 0
    /\ resubmitted = {}

(***************************************************************************)
(* The store's writes.  A write refreshes the record's TTL, so a claim that*)
(* is there already will be gone before the record is.                     *)
(***************************************************************************)
Age(j) == [claim EXCEPT ![j] = IF @ = "young" THEN "old" ELSE @]

\* RedisJobStore.update: the compare-and-set, its answer apart.  A repeated
\* terminal write and a refused transition leave the record alone.  The code
\* answers as if refused when five tries in a row meet another write of the same
\* record; that is left out, so here a transition that is allowed is made.
CanUpdate(j, new) == new \in Allowed(state[j])

UpdateUnchecked(j, new) ==
    state' = [state EXCEPT ![j] = new] /\ claim' = Age(j)

Update(j, new) ==
    IF CanUpdate(j, new)
      THEN state' = [state EXCEPT ![j] = new] /\ claim' = Age(j)
      ELSE UNCHANGED <<state, claim>>

(***************************************************************************)
(* The API: create_job and cancel_job.  A request that is answered is idle.*)
(***************************************************************************)
Answered(c) == client' = [client EXCEPT ![c] = Idle]

Goto(c, where) == client' = [client EXCEPT ![c].at = where]

\* create_job up to its first look at the store: a job it can reuse skips
\* the owner's limits.
Submit(c, j) ==
    /\ client[c].at = "idle"
    /\ submits < MaxSubmits
    /\ submits' = submits + 1
    /\ client' = [client EXCEPT ![c] =
          [at |-> IF Reusable(state[j]) THEN "create" ELSE "limits", job |-> j]]
    /\ UNCHANGED <<store, media, hits, task, outgrown, mishaps, resubmitted>>

ActiveCount == Cardinality({j \in Jobs : state[j] \in ACTIVE})

\* active_count, then hourly_count, which counts the request it refuses too.
CheckLimits(c) ==
    /\ client[c].at = "limits"
    /\ \/ /\ ActiveCount >= MaxActive
          /\ Answered(c)
          /\ UNCHANGED hits
       \/ /\ ActiveCount < MaxActive
          /\ hits' = IF hits > HourlyLimit THEN hits ELSE hits + 1
          /\ IF hits' <= HourlyLimit THEN Goto(c, "create") ELSE Answered(c)
    /\ UNCHANGED <<store, media, task, history>>

\* create_if_absent: SET NX creates the record, and its claim key, if one is
\* left, stays.  Otherwise the record is read: reused, or to be replaced.
Create(c) ==
    /\ client[c].at = "create"
    /\ LET j == client[c].job IN
       \/ /\ state[j] = "absent"
          /\ state' = [state EXCEPT ![j] = "pending"]
          /\ claim' = Age(j)
          /\ Goto(c, "enqueue")
       \/ /\ state[j] # "absent"
          /\ IF Reusable(state[j]) THEN Answered(c) ELSE Goto(c, "overwrite")
          /\ UNCHANGED <<state, claim>>
    /\ UNCHANGED <<queue, media, hits, task, history>>

\* create_if_absent: the replacement is an unconditional SET ...
Overwrite(c) ==
    /\ client[c].at = "overwrite"
    /\ LET j == client[c].job IN
          /\ state' = [state EXCEPT ![j] = "pending"]
          /\ claim' = Age(j)
          /\ resubmitted' = resubmitted \cup {j}
    /\ Goto(c, "unclaim")
    /\ UNCHANGED <<queue, media, hits, task, outgrown, submits,
                   mishaps>>

\* ... and the old claim is deleted by a command of its own.
UnclaimForgotten(c) ==
    /\ client[c].at = "unclaim"
    /\ Goto(c, "enqueue")
    /\ UNCHANGED <<store, media, hits, task, history>>

Unclaim(c) ==
    /\ client[c].at = "unclaim"
    /\ claim' = [claim EXCEPT ![client[c].job] = "none"]
    /\ Goto(c, "enqueue")
    /\ UNCHANGED <<state, queue, media, hits, task, history>>

Enqueue(c) ==
    /\ client[c].at = "enqueue"
    /\ queue' = Append(queue, client[c].job)
    /\ Answered(c)
    /\ UNCHANGED <<state, claim, media, hits, task, history>>

\* cancel_job: exactly the active records can be cancelled.
Cancel(c, j) ==
    /\ client[c].at = "idle"
    /\ state[j] \in ACTIVE
    /\ Update(j, "cancelled")
    /\ UNCHANGED <<queue, media, hits, client, task, history>>

(***************************************************************************)
(* The worker task: dequeue, claim, load, then the attempt loop.           *)
(***************************************************************************)
Stop(w) == task' = [task EXCEPT ![w] = Idle]

Step(w, where) == task' = [task EXCEPT ![w].at = where]

Take(w) ==
    /\ task[w].at = "idle"
    /\ queue # << >>
    /\ queue' = Tail(queue)
    /\ task' = [task EXCEPT ![w] = [at |-> "claim", job |-> Head(queue)]]
    /\ UNCHANGED <<state, claim, media, hits, client, history>>

ClaimUnchecked(w) ==
    /\ task[w].at = "claim"
    /\ claim' = [claim EXCEPT ![task[w].job] = "young"]
    /\ Step(w, "load")
    /\ UNCHANGED <<state, queue, media, hits, client, history>>

Claim(w) ==
    /\ task[w].at = "claim"
    /\ LET j == task[w].job IN
          IF claim[j] # "none"
            THEN Stop(w) /\ UNCHANGED claim
            ELSE claim' = [claim EXCEPT ![j] = "young"] /\ Step(w, "load")
    /\ UNCHANGED <<state, queue, media, hits, client, history>>

Load(w) ==
    /\ task[w].at = "load"
    /\ LET j == task[w].job IN
          IF state[j] \notin ACTIVE
            THEN Stop(w)
            ELSE task' = [task EXCEPT ![w] =
                   [at |-> "begin", job |-> j, used |-> 0, needRepair |-> FALSE,
                    fits |-> j \notin outgrown, cancelled |-> FALSE]]
    /\ UNCHANGED <<store, media, hits, client, history>>

\* The head of the loop: begin_attempt, then the record goes to VALIDATING.
\* A refused transition ends the run and leaves the record as it is.
Begin(w) ==
    /\ task[w].at = "begin"
    /\ IF task[w].used >= MaxAttempts
         THEN Step(w, "fail") /\ UNCHANGED <<state, claim>>
         ELSE /\ Update(task[w].job, "validating")
              /\ IF CanUpdate(task[w].job, "validating")
                   THEN task' = [task EXCEPT ![w].used = @ + 1, ![w].at =
                          IF task[w].needRepair THEN "mark_repair" ELSE "check"]
                   ELSE Stop(w)
    /\ UNCHANGED <<queue, media, hits, client, history>>

MarkRepair(w) ==
    /\ task[w].at = "mark_repair"
    /\ Update(task[w].job, "repairing")
    /\ Step(w, "repairing")
    /\ UNCHANGED <<queue, media, hits, client, history>>

\* What a failed attempt leads to: the policy's next step.
AfterFailure(w, category) ==
    LET next == NextStep(category, MaxAttempts - task[w].used) IN
    task' = [task EXCEPT ![w].at = IF next = "give_up" THEN "fail" ELSE "begin",
                         ![w].needRepair = next = "repair"]

RepairedSilently(w) ==
    /\ task[w].at = "repairing"
    /\ task' = [task EXCEPT ![w].at = "check", ![w].needRepair = FALSE,
                            ![w].fits = TRUE]
    /\ UNCHANGED <<store, media, hits, client, history>>

\* The model answers.  A corrected spec goes back to VALIDATING (the answer of
\* the update is not looked at); without one the next attempt repairs again.
\* A canonical spec that outgrows the limit can only come of an outgrown job.
Repaired(w) ==
    /\ task[w].at = "repairing"
    /\ Update(task[w].job, "validating")
    /\ \E fits \in {TRUE, task[w].job \notin outgrown} :
          task' = [task EXCEPT ![w].at = "check", ![w].needRepair = FALSE,
                               ![w].fits = fits]
    /\ UNCHANGED <<queue, media, hits, client, history>>

RepairFailed(w) ==
    /\ task[w].at = "repairing"
    /\ task' = [task EXCEPT ![w].at =
          IF NextStep(Repairable, MaxAttempts - task[w].used) = "give_up"
            THEN "fail" ELSE "begin"]
    /\ UNCHANGED <<store, media, hits, client, history>>

\* validate_spec on the canonical spec, then RENDERING; again the answer of
\* the update is not looked at.
RejectSpec(w) ==
    /\ task[w].at = "check"
    /\ ~ task[w].fits
    /\ AfterFailure(w, Repairable)
    /\ UNCHANGED <<store, media, hits, client, history>>

StartRender(w) ==
    /\ task[w].at = "check"
    /\ task[w].fits
    /\ Update(task[w].job, "rendering")
    /\ task' = [task EXCEPT ![w].at = "rendering", ![w].cancelled = FALSE]
    /\ UNCHANGED <<queue, media, hits, client, history>>

\* The watcher's poll, once a second while the renderer runs.
Watch(w) ==
    /\ task[w].at = "rendering"
    /\ ~ task[w].cancelled
    /\ state[task[w].job] \in {"absent", "cancelled", "expired"}
    /\ task' = [task EXCEPT ![w].cancelled = TRUE]
    /\ UNCHANGED <<store, media, hits, client, history>>

\* The renderer returns a video and MediaStore.save keeps it.
RenderOk(w) ==
    /\ task[w].at = "rendering"
    /\ media' = media \cup {task[w].job}
    /\ Step(w, "saved")
    /\ UNCHANGED <<store, hits, client, history>>

\* It fails, or the video cannot be stored (a transient failure).
RenderFails(w) ==
    /\ task[w].at = "rendering"
    /\ \E category \in {Repairable, Transient, Permanent} :
          AfterFailure(w, category)
    /\ UNCHANGED <<store, media, hits, client, history>>

\* It was killed because the watcher saw the record cancelled or gone.
RenderCancelled(w) ==
    /\ task[w].at = "rendering"
    /\ task[w].cancelled
    /\ Update(task[w].job, "cancelled")
    /\ Stop(w)
    /\ UNCHANGED <<queue, media, hits, client, history>>

Finish(w) ==
    /\ task[w].at = "saved"
    /\ Update(task[w].job, "ready")
    /\ Stop(w)
    /\ UNCHANGED <<queue, media, hits, client, history>>

Fail(w) ==
    /\ task[w].at = "fail"
    /\ Update(task[w].job, "failed")
    /\ Stop(w)
    /\ UNCHANGED <<queue, media, hits, client, history>>

(***************************************************************************)
(* What goes wrong around them.                                            *)
(***************************************************************************)

\* A worker task or its process dies: worker.main logs it, nobody else learns.
CrashTask(w) ==
    /\ mishaps < MaxMishaps
    /\ task[w].at # "idle"
    /\ mishaps' = mishaps + 1
    /\ Stop(w)
    /\ UNCHANGED <<store, media, hits, client, outgrown, submits, resubmitted>>

\* An API handler dies between two store operations of create_job.
CrashRequest(c) ==
    /\ mishaps < MaxMishaps
    /\ client[c].at # "idle"
    /\ mishaps' = mishaps + 1
    /\ Answered(c)
    /\ UNCHANGED <<store, media, hits, task, outgrown, submits, resubmitted>>

\* A handler, or a task that has the claim, is at work on job j.  One at "claim"
\* may still wait for the worker's semaphore, for as long as the queue takes.
InHand(j) ==
    \/ \E c \in Clients : client[c].at # "idle" /\ client[c].job = j
    \/ \E w \in Workers : task[w].at \notin {"idle", "claim"} /\ task[w].job = j

\* A record that nobody wrote for its TTL disappears, and its claim with it
\* unless the claim is younger.  The TTL is longer than an attempt, and than
\* the time between two commands of a handler.
Expire(j) ==
    /\ mishaps < MaxMishaps
    /\ state[j] # "absent"
    /\ ~ InHand(j)
    /\ state' = [state EXCEPT ![j] = "absent"]
    /\ claim' = [claim EXCEPT ![j] = IF @ = "young" THEN @ ELSE "none"]
    /\ mishaps' = mishaps + 1
    /\ UNCHANGED <<queue, media, hits, client, task, outgrown, submits, resubmitted>>

Request(c) ==
    \/ CheckLimits(c)
    \/ Create(c)
    \/ Overwrite(c)
    \/ Unclaim(c)
    \/ Enqueue(c)

Attempt(w) ==
    \/ Begin(w)
    \/ MarkRepair(w)
    \/ Repaired(w)
    \/ RepairFailed(w)
    \/ RejectSpec(w)
    \/ StartRender(w)
    \/ RenderOk(w)
    \/ RenderFails(w)
    \/ RenderCancelled(w)
    \/ Finish(w)
    \/ Fail(w)

Work(w) ==
    \/ Take(w)
    \/ Claim(w)
    \/ Load(w)
    \/ Attempt(w)

Next ==
    \/ \E c \in Clients : Request(c) \/ CrashRequest(c)
    \/ \E c \in Clients, j \in Jobs : Submit(c, j) \/ Cancel(c, j)
    \/ \E w \in Workers : Work(w) \/ Watch(w) \/ CrashTask(w)
    \/ \E j \in Jobs : Expire(j)

Spec == Init /\ [][Next]_vars

\* Handlers and tasks that started go on; the renderer and the model answer
\* within their timeouts.  Nobody has to submit or to cancel anything.
FairSpec ==
    /\ Spec
    /\ \A c \in Clients : WF_vars(Request(c))
    /\ \A w \in Workers : WF_vars(Work(w))

-----------------------------------------------------------------------------
(***************************************************************************)
(* Properties.                                                             *)
(***************************************************************************)

Rendering(j) == {w \in Workers : task[w].at = "rendering" /\ task[w].job = j}

\* jobs.py:11-12: submitting the same animation twice returns the same job "and
\* can never render twice".  What create_if_absent and claim do give is less: two
\* tasks may render one job at once after its finished record was replaced by a
\* resubmission, while the earlier run is still at work.  But submitting a job
\* that is pending, running or ready never starts a second run of it, however
\* the requests interleave and whatever expired in between.
RenderTwiceOnlyResubmitted ==
    \A j \in Jobs : Cardinality(Rendering(j)) <= 1 \/ j \in resubmitted

\* The file is stored before the record says READY, so get_media always finds
\* the video of a ready job, whichever run wrote either of them.
ReadyHasMedia == \A j \in Jobs : state[j] = "ready" => j \in media

\* policy.py:5-6, "three total, not three retries plus the original": the
\* policy gives up before begin_attempt would have to refuse, and only a second
\* or later attempt asks the model, as the repair endpoint demands.
AttemptBudget ==
    \A w \in Workers :
        /\ task[w].at = "begin" => task[w].used < MaxAttempts
        /\ task[w].at \in {"mark_repair", "repairing"} => task[w].used >= 2

\* A finished job stays as it is: a late worker, a late cancel or a second run
\* cannot write over a terminal state.  Only a new submission or the TTL can.
TerminalIsFinal ==
    [][\A j \in Jobs : state[j] \in TERMINAL /\ state'[j] # state[j]
          => state'[j] \in {"pending", "absent"}]_vars

\* A rendered video is not thrown away: the READY write of a run is refused
\* only if the job was cancelled or is already ready, or if other runs of a
\* resubmitted job interfered with it.
FinishedWorkLands ==
    [][\A w \in Workers : Finish(w) =>
          LET j == task[w].job IN
          \/ state'[j] = "ready"
          \/ state[j] = "cancelled"
          \/ j \in resubmitted]_vars

\* No attempt begins on a job that was cancelled, failed or is gone: a task
\* whose job ended under it stops at the latest when its present attempt does.
NoAttemptAfterEnd ==
    [][\A w \in Workers :
          Running(w) /\ task'[w] # Idle /\ task'[w].used > task[w].used
            => state[task[w].job] \in ACTIVE]_vars

\* runner.py:4-6 and jobs.py:9: an attempt that fails is repaired, retried or
\* ends the job as failed, and every state but a finished one leads to a
\* finished one.  Unless a process died or its record expired, a submitted job
\* therefore ends.  (One whose canonical spec the runner rejects does not: the
\* configuration MCManimStranded.)
EveryJobEnds ==
    \A j \in Jobs : state[j] \in ACTIVE ~> (state[j] \notin ACTIVE \/ mishaps > 0)

\* All others do, although any of their runs may be cancelled, superseded by a
\* resubmission and refused its writes at any point: a run that gives up on a
\* refused write always leaves the record to another one that finishes it.
JobsEnd ==
    \A j \in Jobs :
        state[j] \in ACTIVE
          ~> (state[j] \notin ACTIVE \/ mishaps > 0 \/ j \in outgrown)

=============================================================================
